------------------------------ MODULE Accounts ------------------------------
(***************************************************************************)
(* Accounts, their sessions and their deletion: auth.py, and the requests  *)
(* of app.py that change an account.                                       *)
(*                                                                         *)
(* Each request runs in a thread of its own and each statement on the      *)
(* users table commits by itself, so a request that first reads a row and  *)
(* then writes it is two steps.  update_user writes role and active as it  *)
(* has read them.  The deletion of an account works through several stores *)
(* in a fixed order, with no transaction around them.                      *)
(***************************************************************************)
EXTENDS Naturals, FiniteSets

CONSTANTS
    Users,
    Workers,        \* request threads, and the retention thread
    MaxEra,         \* bound on the changes of one account that end its sessions
    MaxOverlap      \* bound on the users in overlap

ASSUME AccountsAssumption == MaxEra \in Nat /\ MaxOverlap \in Nat

VARIABLES
    live,           \* users with a row in the users table
    row,            \* that row
    gone,           \* users whose row has been deleted
    sessions,       \* <<user, era of the row when the user was authenticated>>
    data,           \* users who may have rows in the repository
    rest,           \* users who may have schedules, counters, tokens, an AI provider
    duty,           \* what each worker is doing
    leaving,        \* history: users whose last word was that they leave
    overlap         \* history: users two requests worked on at once, or one died on

accVars == <<live, row, gone, sessions, data, rest, duty, leaving, overlap>>

Eras     == 0..MaxEra
Rows     == [admin : BOOLEAN, active : BOOLEAN, era : Eras,
             deletion : {"none", "asked", "scheduled"}]
Standing == [admin : BOOLEAN, active : BOOLEAN]
Member   == [admin |-> FALSE, active |-> TRUE, era |-> 0, deletion |-> "none"]
FirstRow == [Member EXCEPT !.admin = TRUE]

Resting   == [at |-> "resting"]
ErasingAt == {"erase data", "erase sessions", "erase row", "erase rest"}

\* A request that may cost an administrator remembers whether it was alone.
Duties ==
    {Resting}
    \cup [at : {"login"}, user : Users, era : Eras]
    \cup [at : {"work", "confirm", "revoke"}, user : Users]
    \cup [at : {"update"}, user : Users, new : Standing, ends : BOOLEAN, alone : BOOLEAN]
    \cup [at : {"purge"}, todo : SUBSET Users]
    \cup [at : ErasingAt, user : Users, todo : SUBSET Users, alone : BOOLEAN]

Changing(d)   == d.at = "update" \/ d.at \in ErasingAt
WorksOn(d, u) == \/ d.at \notin {"resting", "purge"} /\ d.user = u
                 \/ d.at \in {"purge"} \cup ErasingAt /\ u \in d.todo
Busy(u)       == \E w \in Workers : WorksOn(duty[w], u)
Overlapping(u) == IF Busy(u) THEN overlap \cup {u} ELSE overlap
OthersOn(w, u) == \E v \in Workers \ {w} : WorksOn(duty[v], u)
Quiescent     == \A w \in Workers : duty[w] = Resting

ActiveAdmins  == {u \in live : row[u].admin /\ row[u].active}
SessionsOf(u) == {u} \X Eras
HasSession(u) == u \in live /\ row[u].active /\ sessions \cap SessionsOf(u) # {}
\* Administrators may not change or delete themselves.
Administered(u) == \E a \in live \ {u} : row[a].admin /\ HasSession(a)

AccInit ==
    /\ live = {} /\ row = [u \in Users |-> Member] /\ gone = {}
    /\ sessions = {} /\ data = {} /\ rest = {}
    /\ duty = [w \in Workers |-> Resting]
    /\ leaving = {} /\ overlap = {}

\* Registration, an invitation, single sign-on or an administrator; the first
\* account of all is an administrator, under a lock.  The id is new.
CreateUser(u) ==
    /\ u \notin live \cup gone
    /\ live' = live \cup {u}
    /\ row' = [row EXCEPT ![u] = IF live = {} THEN FirstRow ELSE Member]
    /\ data' = data \cup {u} /\ rest' = rest \cup {u}
    /\ UNCHANGED <<gone, sessions, duty, leaving, overlap>>

(***************************************************************************)
(* Requests that begin by reading the row of a user.                       *)
(***************************************************************************)
Enters(w, u, d) ==
    /\ duty[w] = Resting /\ u \in live
    /\ duty' = [duty EXCEPT ![w] = d]
    /\ overlap' = Overlapping(u)
    /\ UNCHANGED <<live, row, gone, sessions, data, rest, leaving>>

BeginLogin(w, u)   == row[u].active /\ Enters(w, u, [at |-> "login", user |-> u, era |-> row[u].era])
BeginWork(w, u)    == HasSession(u) /\ Enters(w, u, [at |-> "work", user |-> u])
BeginConfirm(w, u) == /\ row[u].active /\ row[u].deletion = "asked"
                      /\ Enters(w, u, [at |-> "confirm", user |-> u])

\* mutant of MayBecome: it is enough that there is an administrator
MayBecomeAny(u, new) == ActiveAdmins # {}

\* update_user and delete_user_account keep the last active administrator.
MayBecome(u, new) == ActiveAdmins = {u} => new.admin /\ new.active
NoRow == [Member EXCEPT !.active = FALSE]

\* The rest of what a request does that may cost an administrator.
Alone == \A v \in Workers : ~Changing(duty[v])
Starts(w, d) ==
    duty' = [v \in Workers |->
        IF v = w THEN d
        ELSE IF Changing(duty[v]) THEN [duty[v] EXCEPT !.alone = FALSE] ELSE duty[v]]

Changes == {"promote", "demote", "activate", "deactivate", "password"}
Change(r, what) ==
    CASE what = "promote"    -> [r EXCEPT !.admin = TRUE]
      [] what = "demote"     -> [r EXCEPT !.admin = FALSE]
      [] what = "activate"   -> [r EXCEPT !.active = TRUE]
      [] what = "deactivate" -> [r EXCEPT !.active = FALSE]
      [] what = "password"   -> r

\* update_user up to its UPDATE: the row, then the number of administrators.
BeginUpdate(w, u, what) ==
    LET new  == Change(row[u], what)
        ends == what = "password" \/ ~new.active \/ new.admin # row[u].admin
    IN  /\ duty[w] = Resting /\ u \in live /\ row[u].era < MaxEra
        /\ what = "password" \/ Administered(u)
        /\ MayBecome(u, new)
        /\ Starts(w, [at |-> "update", user |-> u,
                      new |-> [admin |-> new.admin, active |-> new.active],
                      ends |-> ends, alone |-> Alone])
        /\ overlap' = Overlapping(u)
        /\ UNCHANGED <<live, row, gone, sessions, data, rest, leaving>>

Erasing(u, todo) == [at |-> "erase data", user |-> u, todo |-> todo, alone |-> Alone]

BeginErase(w, u) ==
    /\ duty[w] = Resting /\ u \in live
    /\ Administered(u) /\ MayBecome(u, NoRow)
    /\ Starts(w, Erasing(u, {}))
    /\ overlap' = Overlapping(u)
    /\ UNCHANGED <<live, row, gone, sessions, data, rest, leaving>>

(***************************************************************************)
(* Their second halves.                                                    *)
(***************************************************************************)
Goes(w, d) == duty' = [duty EXCEPT ![w] = d]
Rests(w)   == Goes(w, Resting)

\* The row a user has after the UPDATE; the era counts what should end the
\* sessions.
Updated(r, d) ==
    [r EXCEPT !.admin = d.new.admin, !.active = d.new.active,
              !.era = IF d.ends /\ @ < MaxEra THEN @ + 1 ELSE @]

\* mutant of Revokes: a change of role keeps the sessions
RevokesPassword(d) == d.ends /\ (d.new.admin = row[d.user].admin \/ ~d.new.active)

\* Whether update_user ends the sessions of the user.
Revokes(d) == d.ends

WriteUser(w) ==
    LET u == duty[w].user
    IN  /\ duty[w].at = "update"
        /\ row' = IF u \in live THEN [row EXCEPT ![u] = Updated(@, duty[w])] ELSE row
        /\ Goes(w, IF Revokes(duty[w]) THEN [at |-> "revoke", user |-> u] ELSE Resting)
        /\ UNCHANGED <<live, gone, sessions, data, rest, leaving, overlap>>

Revoke(w) ==
    /\ duty[w].at = "revoke"
    /\ sessions' = sessions \ SessionsOf(duty[w].user)
    /\ Rests(w)
    /\ UNCHANGED <<live, row, gone, data, rest, leaving, overlap>>

\* mutant of SessionFor: a session needs no row to belong to
SessionForAnyone(d) == {<<d.user, d.era>>}

\* A session needs a row to belong to: the table has a foreign key.
SessionFor(d) == IF d.user \in live THEN {<<d.user, d.era>>} ELSE {}

OpenSession(w) ==
    /\ duty[w].at = "login"
    /\ sessions' = sessions \cup SessionFor(duty[w])
    /\ Rests(w)
    /\ UNCHANGED <<live, row, gone, data, rest, leaving, overlap>>

\* Any request of a signed-in user that saves something.
DoWork(w) ==
    /\ duty[w].at = "work"
    /\ data' = data \cup {duty[w].user} /\ rest' = rest \cup {duty[w].user}
    /\ Rests(w)
    /\ UNCHANGED <<live, row, gone, sessions, leaving, overlap>>

Logout(u) ==
    /\ sessions \cap SessionsOf(u) # {}
    /\ sessions' = sessions \ SessionsOf(u)
    /\ UNCHANGED <<live, row, gone, data, rest, duty, leaving, overlap>>

(***************************************************************************)
(* Leaving: a request, its confirmation by mail, a time of grace, a purge. *)
(***************************************************************************)
SetDeletion(u, state) == row' = [row EXCEPT ![u].deletion = state]

\* Asking again withdraws an earlier confirmation.
AskDeletion(u) ==
    /\ HasSession(u)
    /\ SetDeletion(u, "asked")
    /\ leaving' = leaving \ {u}
    /\ overlap' = Overlapping(u)
    /\ UNCHANGED <<live, gone, sessions, data, rest, duty>>

DoConfirm(w) ==
    LET u == duty[w].user
    IN  /\ duty[w].at = "confirm"
        /\ IF u \in live THEN SetDeletion(u, "scheduled") /\ leaving' = leaving \cup {u}
           ELSE UNCHANGED <<row, leaving>>
        /\ Rests(w)
        /\ UNCHANGED <<live, gone, sessions, data, rest, overlap>>

\* mutant of Cancelled: only the token of the mail is cleared
CancelledToken(state) == IF state = "asked" THEN "none" ELSE state

\* What is left of a request for deletion once it is cancelled.
Cancelled(state) == "none"

CancelDeletion(u) ==
    /\ HasSession(u) /\ row[u].deletion # "none"
    /\ SetDeletion(u, Cancelled(row[u].deletion))
    /\ leaving' = leaving \ {u}
    /\ overlap' = Overlapping(u)
    /\ UNCHANGED <<live, gone, sessions, data, rest, duty>>

Scheduled == {u \in live : row[u].deletion = "scheduled"}

\* The retention thread, once a day: purge_due_account_deletions lists the
\* users whose time of grace is over first ...
PurgeStarts(w) ==
    /\ duty[w] = Resting
    /\ \E due \in SUBSET Scheduled \ {{}} : Goes(w, [at |-> "purge", todo |-> due])
    /\ UNCHANGED <<live, row, gone, sessions, data, rest, leaving, overlap>>

\* Back to the list of the purge, or to rest.
Onward(todo) == IF todo = {} THEN Resting ELSE [at |-> "purge", todo |-> todo]

\* ... and then erases each, without a second look at what they want.
PurgeNext(w, u) ==
    LET todo == duty[w].todo \ {u}
    IN  /\ duty[w].at = "purge" /\ u \in duty[w].todo
        /\ IF u \in live /\ MayBecome(u, NoRow) THEN Starts(w, Erasing(u, todo))
           ELSE Goes(w, Onward(todo))
        /\ overlap' = IF OthersOn(w, u) THEN overlap \cup {u} ELSE overlap
        /\ UNCHANGED <<live, row, gone, sessions, data, rest, leaving>>

(***************************************************************************)
(* delete_user_account, store by store.                                    *)
(***************************************************************************)
\* mutant of Erased: what belongs to a user is not found without their row
ErasedByRow(store, u) == IF u \in live THEN store \ {u} ELSE store

\* The rows of a store that are left.
Erased(store, u) == store \ {u}

EraseData(w) ==
    /\ duty[w].at = "erase data"
    /\ data' = Erased(data, duty[w].user)
    /\ Goes(w, [duty[w] EXCEPT !.at = "erase sessions"])
    /\ UNCHANGED <<live, row, gone, sessions, rest, leaving, overlap>>

EraseSessions(w) ==
    /\ duty[w].at = "erase sessions"
    /\ sessions' = sessions \ SessionsOf(duty[w].user)
    /\ Goes(w, [duty[w] EXCEPT !.at = "erase row"])
    /\ UNCHANGED <<live, row, gone, data, rest, leaving, overlap>>

\* The foreign key takes along the sessions opened since.
EraseRow(w) ==
    LET u == duty[w].user
    IN  /\ duty[w].at = "erase row"
        /\ live' = live \ {u} /\ gone' = gone \cup {u}
        /\ row' = [row EXCEPT ![u] = Member] /\ leaving' = leaving \ {u}
        /\ sessions' = sessions \ SessionsOf(u)
        /\ Goes(w, [duty[w] EXCEPT !.at = "erase rest"])
        /\ UNCHANGED <<data, rest, overlap>>

EraseRest(w) ==
    /\ duty[w].at = "erase rest"
    /\ rest' = Erased(rest, duty[w].user)
    /\ Goes(w, Onward(duty[w].todo))
    /\ UNCHANGED <<live, row, gone, sessions, data, leaving, overlap>>

\* A store that is locked, or a file that cannot be written, ends it midway.
EraseFails(w) ==
    /\ duty[w].at \in ErasingAt
    /\ Goes(w, Onward(duty[w].todo))
    /\ overlap' = overlap \cup {duty[w].user}
    /\ UNCHANGED <<live, row, gone, sessions, data, rest, leaving>>

\* The process dies.  At the next start, if no active administrator is left,
\* the first user is made one.
AccRestart ==
    /\ duty' = [w \in Workers |-> Resting]
    /\ overlap' = overlap \cup {u \in Users : Busy(u)}
    /\ IF live = {} \/ ActiveAdmins # {} THEN row' = row
       ELSE \E u \in live : row' = [row EXCEPT ![u].admin = TRUE, ![u].active = TRUE]
    /\ UNCHANGED <<live, gone, sessions, data, rest, leaving>>

AccNext ==
  /\  \/ \E u \in Users :
           CreateUser(u) \/ AskDeletion(u) \/ CancelDeletion(u) \/ Logout(u)
      \/ \E w \in Workers, u \in Users :
           \/ \E what \in Changes : BeginUpdate(w, u, what)
           \/ BeginErase(w, u) \/ BeginLogin(w, u) \/ BeginWork(w, u) \/ BeginConfirm(w, u)
           \/ PurgeNext(w, u)
      \/ \E w \in Workers :
           \/ WriteUser(w) \/ Revoke(w) \/ OpenSession(w) \/ DoWork(w) \/ DoConfirm(w)
           \/ PurgeStarts(w)
           \/ EraseData(w) \/ EraseSessions(w) \/ EraseRow(w) \/ EraseRest(w) \/ EraseFails(w)
      \/ AccRestart
  /\ Cardinality(overlap') <= MaxOverlap

AccSpec == AccInit /\ [][AccNext]_accVars

\* Every record is well formed; a session belongs to a row that exists
\* (auth.py 269: ON DELETE CASCADE), and a row of the deleted is no row.
AccTypeOK ==
    /\ live \subseteq Users /\ gone \subseteq Users \ live
    /\ row \in [Users -> Rows]
    /\ sessions \subseteq live \X Eras
    /\ data \subseteq Users /\ rest \subseteq Users /\ overlap \subseteq Users
    /\ leaving \subseteq live
    /\ duty \in [Workers -> Duties]

\* Demotions, deactivations, deletions and the purge leave an administrator,
\* unless two of them overlap: each counts the administrators before it
\* writes (auth.py 1344, app.py 3067).
AdminRemains ==
    [][ActiveAdmins # {} /\ live' # {} /\ ActiveAdmins' = {} =>
          \E w \in Workers : Changing(duty[w]) /\ ~duty[w].alone]_accVars

\* After a change of role or password, and after a deactivation, no session
\* opened before it is left, unless a login or another request for the same
\* account ran meanwhile (auth.py 1359-1365).
SessionsEnd ==
    Quiescent => \A s \in sessions : s[1] \in overlap \/ s[2] = row[s[1]].era

\* An erased user has left nothing in any store, unless a request of theirs
\* was at work meanwhile or the erasure failed midway (app.py 3065).
ErasedLeavesNothing ==
    Quiescent => (gone \cap (data \cup rest)) \subseteq overlap

\* Nobody is erased by the purge who has not confirmed, or who has cancelled
\* or asked again since; unless they did so while the purge had its list.
GraceHonoured ==
    [][\A w \in Workers :
          duty[w].at = "purge" /\ duty'[w].at = "erase data" =>
             duty'[w].user \in leaving \cup overlap]_accVars
=============================================================================
