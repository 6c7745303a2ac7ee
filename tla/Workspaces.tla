----------------------------- MODULE Workspaces -----------------------------
(***************************************************************************)
(* The members of one workspace, app.py 1647-1886 and 11285-11368.  The    *)
(* membership rows are objects in a dictionary, changed in place and saved *)
(* under their id; no lock spans a check and what follows it.              *)
(***************************************************************************)
EXTENDS Naturals, FiniteSets

CONSTANTS
    People,
    Owner,          \* whose workspace it is
    Desks,          \* request threads
    MaxRows         \* bound on the membership rows ever made

ASSUME WorkspacesAssumption == Owner \in People /\ MaxRows \in Nat

VARIABLES
    rows,           \* id -> membership, for the ids in use
    nextRow,
    active,         \* who has chosen this workspace to work in
    desk,           \* what each request thread is about to do
    left,           \* history: people removed and not added since
    met             \* history: people two requests worked on at once

wsVars == <<rows, nextRow, active, desk, left, met>>

Roles      == {"owner", "admin", "member"}
RowIds     == 1..MaxRows
Membership == [user : People, role : Roles]
Free       == [does |-> "nothing"]
Desking    == {Free} \cup [does : {"add"}, user : People, role : Roles]
                     \cup [does : {"save", "drop"}, id : RowIds, user : People, role : Roles]

WsInit ==
    /\ rows = [i \in {} |-> Free] /\ nextRow = 1
    /\ active = {}
    /\ desk = [d \in Desks |-> Free]
    /\ left = {} /\ met = {}

Memberships(u)   == {i \in DOMAIN rows : rows[i].user = u}
IsMember(u)      == Memberships(u) # {}
HasRole(u, some) == \E i \in Memberships(u) : rows[i].role \in some
Settled          == \A d \in Desks : desk[d] = Free

Takes(d, task) ==
    /\ desk[d] = Free
    /\ desk' = [desk EXCEPT ![d] = task]
    /\ met' = IF \E e \in Desks : desk[e] # Free /\ desk[e].user = task.user
              THEN met \cup {task.user} ELSE met

\* ensure_owner_membership: the row of the owner, on a first look.
NeedOwnerRow(d) ==
    /\ ~IsMember(Owner)
    /\ Takes(d, [does |-> "add", user |-> Owner, role |-> "owner"])
    /\ UNCHANGED <<rows, nextRow, active, left>>

\* Owners and administrators invite whoever is no member yet.
Invite(d, actor, u) ==
    /\ HasRole(actor, {"owner", "admin"}) /\ ~IsMember(u)
    /\ Takes(d, [does |-> "add", user |-> u, role |-> "member"])
    /\ UNCHANGED <<rows, nextRow, active, left>>

AddRow(d) ==
    /\ desk[d].does = "add" /\ nextRow <= MaxRows
    /\ rows' = [i \in DOMAIN rows \cup {nextRow} |->
                  IF i = nextRow THEN [user |-> desk[d].user, role |-> desk[d].role] ELSE rows[i]]
    /\ nextRow' = nextRow + 1
    /\ left' = left \ {desk[d].user}
    /\ desk' = [desk EXCEPT ![d] = Free]
    /\ UNCHANGED <<active, met>>

\* update_workspace_member_role and remove_workspace_member spare the owner.
Removable(i) == rows[i].role # "owner"

\* The role is set on the object at once and saved after.
ChangeRole(d, actor, i, role) ==
    /\ HasRole(actor, {"owner"})
    /\ i \in DOMAIN rows /\ Removable(i)
    /\ rows' = [rows EXCEPT ![i].role = role]
    /\ Takes(d, [does |-> "save", id |-> i, user |-> rows[i].user, role |-> role])
    /\ UNCHANGED <<nextRow, active, left>>

\* Whatever has become of the row meanwhile, it is saved under its id.
SaveRow(d) ==
    LET i == desk[d].id
    IN  /\ desk[d].does = "save"
        /\ rows' = [j \in DOMAIN rows \cup {i} |->
                      IF j = i /\ i \notin DOMAIN rows
                      THEN [user |-> desk[d].user, role |-> desk[d].role] ELSE rows[j]]
        /\ desk' = [desk EXCEPT ![d] = Free]
        /\ UNCHANGED <<nextRow, active, left, met>>

\* Owners remove anyone but an owner, administrators members, all themselves.
MayRemove(actor, i) ==
    \/ rows[i].user = actor
    \/ HasRole(actor, {"owner"})
    \/ HasRole(actor, {"admin"}) /\ rows[i].role = "member"

RemoveMember(d, actor, i) ==
    /\ IsMember(actor) /\ i \in DOMAIN rows
    /\ Removable(i) /\ MayRemove(actor, i)
    /\ Takes(d, [does |-> "drop", id |-> i, user |-> rows[i].user, role |-> rows[i].role])
    /\ UNCHANGED <<rows, nextRow, active, left>>

DropMember(d) ==
    /\ desk[d].does = "drop"
    /\ rows' = [j \in DOMAIN rows \ {desk[d].id} |-> rows[j]]
    /\ left' = left \cup {desk[d].user}
    /\ desk' = [desk EXCEPT ![d] = Free]
    /\ UNCHANGED <<nextRow, active, met>>

\* resolve_workspace_owner, then the choice is saved in the profile; it stays
\* there when the membership ends.
Activate(u) ==
    /\ IsMember(u) /\ u \notin active
    /\ active' = active \cup {u}
    /\ UNCHANGED <<rows, nextRow, desk, left, met>>

\* Everybody's data are their own, or the workspace's while they are members.
EffectiveUser(u) == IF u \in active /\ IsMember(u) THEN Owner ELSE u

WsNext ==
    \/ \E d \in Desks :
         \/ NeedOwnerRow(d) \/ AddRow(d) \/ SaveRow(d) \/ DropMember(d)
         \/ \E actor \in People :
              \/ \E u \in People : Invite(d, actor, u)
              \/ \E i \in RowIds :
                   \/ RemoveMember(d, actor, i)
                   \/ \E role \in Roles : ChangeRole(d, actor, i, role)
    \/ \E u \in People : Activate(u)

WsSpec == WsInit /\ [][WsNext]_wsVars

\* Every row is well formed.
WsTypeOK ==
    /\ DOMAIN rows \subseteq 1..(nextRow - 1) /\ nextRow \in 1..(MaxRows + 1)
    /\ \A i \in DOMAIN rows : rows[i] \in Membership
    /\ \A d \in Desks : desk[d] \in Desking
    /\ active \subseteq People /\ left \subseteq People /\ met \subseteq People

\* Once a removal is answered the person sees the workspace's data no longer,
\* although they may still have chosen it, nobody is a member twice, and the
\* owner stays; unless two requests worked on the same person at once: an
\* invitation then adds a second row that the removal leaves behind, and a
\* change of role saves a row that was removed (app.py 1797-1886).
MembershipHolds ==
    /\ Settled => \A u \in left \ met : EffectiveUser(u) = u
    /\ \A u \in People \ met : Cardinality(Memberships(u)) <= 1
    /\ DOMAIN rows # {} => HasRole(Owner, {"owner"})
=============================================================================
