------------------------------- MODULE SignUp -------------------------------
(***************************************************************************)
(* How accounts come to be: the registration form (app.py 9433-9510) and   *)
(* single sign-on (app.py 8021-8260, sso_oidc.py, auth.py 513-638).  A     *)
(* browser keeps the secrets of its latest login in one cookie; the IdP    *)
(* answers into one of its tabs; the callback then looks for a link of the *)
(* identity, for an account of its address, or makes one, each by a        *)
(* statement of its own while other requests do the same.                  *)
(***************************************************************************)
EXTENDS Naturals, Sequences, FiniteSets

CONSTANTS
    Addresses,
    Claims,             \* [who, email, sure]: what the IdP may say of an identity
    Browsers,
    Attending,          \* request threads
    AllowRegistration,  \* ALLOW_REGISTRATION
    MaxLogins           \* bound on the logins begun

ASSUME SignUpAssumption ==
    /\ \A c \in Claims : c.email \in Addresses /\ c.sure \in BOOLEAN
    /\ AllowRegistration \in BOOLEAN /\ MaxLogins \in Nat

VARIABLES
    roster,     \* the users table, oldest first: [email, admin, maker]
    linked,     \* sso_links: identity -> its account, 0 for none
    bootLock,   \* is _register_bootstrap_lock held?
    cookie,     \* browser -> the login its sso_auth_state cookie is about, 0 for none
    begun,      \* logins begun: the browser of each
    tabs,       \* answers of the IdP not yet delivered: [browser, login, claim]
    clerkAt,    \* what each request thread is doing
    landed,     \* history: <<identity, account>> of each session opened by the IdP
    vouched     \* history: <<identity, address>> the IdP called verified

suVars == <<roster, linked, bootLock, cookie, begun, tabs, clerkAt, landed, vouched>>

Identities == {c.who : c \in Claims}
NoClerk    == [at |-> "none"]
SuInit ==
    /\ roster = <<>> /\ linked = [i \in Identities |-> 0] /\ bootLock = FALSE
    /\ cookie = [b \in Browsers |-> 0] /\ begun = <<>> /\ tabs = {}
    /\ clerkAt = [t \in Attending |-> NoClerk] /\ landed = {} /\ vouched = {}

\* mutant of Registered: only those who gave their address themselves
RegisteredHere(e) == \E i \in DOMAIN roster : roster[i].email = e /\ roster[i].maker = 0

Account(e, admin, maker) == [email |-> e, admin |-> admin, maker |-> maker]
Registered(e) == \E i \in DOMAIN roster : roster[i].email = e
Moves(t, d)   == clerkAt' = [clerkAt EXCEPT ![t] = d]
Abandons(t)   == Moves(t, NoClerk)

(***************************************************************************)
(* The form.                                                               *)
(***************************************************************************)

MayRegister == ~bootLock

RegistrationOpen == AllowRegistration \/ roster = <<>>

\* Under the lock: is this the first account of all?
BeginRegister(t, e) ==
    /\ clerkAt[t] = NoClerk /\ MayRegister /\ RegistrationOpen
    /\ bootLock' = TRUE
    /\ Moves(t, [at |-> "register", email |-> e, first |-> roster = <<>>])
    /\ UNCHANGED <<roster, linked, cookie, begun, tabs, landed, vouched>>

\* create_user and the end of the lock; an address in use is refused, as is a
\* short password, a form without consent, or one over the limit.
EndRegister(t) ==
    LET d == clerkAt[t]
    IN  /\ d.at = "register"
        /\ \/ ~Registered(d.email) /\ roster' = Append(roster, Account(d.email, d.first, 0))
           \/ UNCHANGED roster
        /\ bootLock' = FALSE
        /\ Abandons(t)
        /\ UNCHANGED <<linked, cookie, begun, tabs, landed, vouched>>

(***************************************************************************)
(* A login at the IdP and its way back.                                    *)
(***************************************************************************)
OpenLogin(b) ==
    /\ Len(begun) < MaxLogins
    /\ begun' = Append(begun, b)
    /\ cookie' = [cookie EXCEPT ![b] = Len(begun) + 1]
    /\ UNCHANGED <<roster, linked, bootLock, tabs, clerkAt, landed, vouched>>

\* The user signs in at the IdP, which redirects to the callback; the code it
\* sends along is spent by its exchange.
IdpAnswers(n, c) ==
    /\ n \in DOMAIN begun /\ ~\E x \in tabs : x.login = n
    /\ tabs' = tabs \cup {[browser |-> begun[n], login |-> n, claim |-> c]}
    /\ UNCHANGED <<roster, linked, bootLock, cookie, begun, clerkAt, landed, vouched>>

\* verify_auth_request: ten minutes.
CookieExpires(b) ==
    /\ cookie[b] # 0
    /\ cookie' = [cookie EXCEPT ![b] = 0]
    /\ UNCHANGED <<roster, linked, bootLock, begun, tabs, clerkAt, landed, vouched>>

\* verify_auth_request, and its state is that of the answer.
StateMatches(x) == cookie[x.browser] = x.login

\* The claims of the token the code is exchanged for, if discovery, exchange
\* and validation succeed.
TokenOf(x) == {{}, {x.claim}}

Callback(t, x) ==
    /\ clerkAt[t] = NoClerk /\ x \in tabs
    /\ tabs' = tabs \ {x}
    /\ \E token \in IF StateMatches(x) THEN TokenOf(x) ELSE {{}} :
          /\ Moves(t, IF token = {} THEN NoClerk
                      ELSE [at |-> "link", claim |-> x.claim, browser |-> x.browser])
          /\ vouched' = vouched \cup {<<c.who, c.email>> : c \in {c \in token : c.sure}}
    /\ UNCHANGED <<roster, linked, bootLock, cookie, begun, landed>>

\* create_session; the cookie is cleared, whatever login it is about by now.
Lands(t, account) ==
    /\ landed' = landed \cup {<<clerkAt[t].claim.who, account>>}
    /\ cookie' = [cookie EXCEPT ![clerkAt[t].browser] = 0]
    /\ Abandons(t)

FindLink(t) ==
    LET who == clerkAt[t].claim.who
    IN  /\ clerkAt[t].at = "link"
        /\ IF linked[who] # 0 THEN Lands(t, linked[who])
           ELSE Moves(t, [clerkAt[t] EXCEPT !.at = "email"]) /\ UNCHANGED <<landed, cookie>>
        /\ UNCHANGED <<roster, linked, bootLock, begun, tabs, vouched>>

\* mutant of MayJoin: the IdP need not have verified the address
MayJoinAnyway(c) == TRUE

MayJoin(c) == c.sure

\* An account of that address is joined, unless the IdP is unsure of it.
FindEmail(t) ==
    LET c == clerkAt[t].claim
    IN  /\ clerkAt[t].at = "email"
        /\ IF ~Registered(c.email) THEN Moves(t, [clerkAt[t] EXCEPT !.at = "create"])
           ELSE IF ~MayJoin(c) THEN Abandons(t)
           ELSE \E i \in DOMAIN roster :
                  /\ roster[i].email = c.email
                  /\ Moves(t, [at |-> "join", claim |-> c, browser |-> clerkAt[t].browser,
                               account |-> i])
        /\ UNCHANGED <<roster, linked, bootLock, cookie, begun, tabs, landed, vouched>>

\* create_user, committed by itself; the address may be in use by now.
CreateSso(t) ==
    LET c == clerkAt[t].claim
    IN  /\ clerkAt[t].at = "create"
        /\ IF Registered(c.email) THEN Abandons(t) /\ UNCHANGED roster
           ELSE /\ roster' = Append(roster, Account(c.email, FALSE, c.who))
                /\ Moves(t, [at |-> "join", claim |-> c, browser |-> clerkAt[t].browser,
                             account |-> Len(roster) + 1])
        /\ UNCHANGED <<linked, bootLock, cookie, begun, tabs, landed, vouched>>

\* The link, one per identity; a second one is refused by its key.
Join(t) ==
    LET d == clerkAt[t]
    IN  /\ d.at = "join"
        /\ IF linked[d.claim.who] # 0 THEN Abandons(t) /\ UNCHANGED <<linked, landed, cookie>>
           ELSE /\ linked' = [linked EXCEPT ![d.claim.who] = d.account]
                /\ Lands(t, d.account)
        /\ UNCHANGED <<roster, bootLock, begun, tabs, vouched>>

SomeAdmin == \E i \in DOMAIN roster : roster[i].admin

\* The process dies; at the next start the first user becomes an administrator
\* if there is none (_ensure_admin_exists).
SuRestart ==
    /\ clerkAt' = [t \in Attending |-> NoClerk] /\ bootLock' = FALSE
    /\ roster' = IF roster = <<>> \/ SomeAdmin THEN roster
                 ELSE [roster EXCEPT ![1].admin = TRUE]
    /\ UNCHANGED <<linked, cookie, begun, tabs, landed, vouched>>

SuNext ==
    \/ \E t \in Attending :
          \/ \E e \in Addresses : BeginRegister(t, e)
          \/ \E x \in tabs : Callback(t, x)
          \/ EndRegister(t) \/ FindLink(t) \/ FindEmail(t) \/ CreateSso(t) \/ Join(t)
    \/ \E b \in Browsers : OpenLogin(b) \/ CookieExpires(b)
    \/ \E n \in 1..MaxLogins, c \in Claims : IdpAnswers(n, c)
    \/ SuRestart

SuSpec == SuInit /\ [][SuNext]_suVars

SuTypeOK ==
    /\ roster \in Seq([email : Addresses, admin : BOOLEAN, maker : {0} \cup Identities])
    /\ linked \in [Identities -> 0..Len(roster)] /\ bootLock \in BOOLEAN
    /\ cookie \in [Browsers -> 0..MaxLogins] /\ begun \in Seq(Browsers)
    /\ tabs \subseteq [browser : Browsers, login : 1..MaxLogins, claim : Claims]
    /\ landed \subseteq Identities \X DOMAIN roster
    /\ vouched \subseteq Identities \X Addresses
    /\ \A i, j \in DOMAIN roster : roster[i].email = roster[j].email => i = j

\* Forms, logins and restarts in any order make one administrator at most
\* (app.py 1443: the lock of the first registration).
OneFirstAdmin ==
    \A i, j \in DOMAIN roster : roster[i].admin /\ roster[j].admin => i = j

\* An identity of the IdP never comes into two accounts, also when its address
\* changes between two logins that run at once (auth.py 550).
OneAccountEach == \A s, t \in landed : s[1] = t[1] => s[2] = t[2]

\* It comes into an account it did not make only when the IdP has called that
\* account's address verified (auth.py 577-582).
JoinsOnTrust ==
    \A s \in landed : \/ roster[s[2]].maker = s[1]
                      \/ <<s[1], roster[s[2]].email>> \in vouched

SignUpHolds == OneFirstAdmin /\ OneAccountEach /\ JoinsOnTrust
=============================================================================
