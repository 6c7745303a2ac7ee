------------------------------ MODULE Secrets -------------------------------
(***************************************************************************)
(* What proves who somebody is: the links sent by mail, and the second     *)
(* factor.  The two share no state.                                        *)
(***************************************************************************)
EXTENDS Naturals, FiniteSets

(***************************************************************************)
(* The links sent by mail, tokens.py: invitations and password resets.     *)
(* A link is looked up and then struck with an UPDATE that asks whether it *)
(* is still unspent; what it is for happens after that, and may turn out   *)
(* to be impossible.  A new link first strikes the older ones of its kind  *)
(* for the same address, in a statement of its own.                        *)
(***************************************************************************)

CONSTANTS
    Emails,
    LinkIds,
    Clerks          \* request threads

VARIABLES
    link,           \* what each id was issued for, or Unissued
    accounts,       \* addresses with an account
    clerk,          \* what each request thread is doing
    worked,         \* history: how often each link did its job
    inVain,         \* history: links spent without doing it
    crossed         \* history: <<kind, email>> that two sends ran at once for

lnkVars == <<link, accounts, clerk, worked, inVain, crossed>>

Kinds     == {"invitation", "password_reset"}
Unissued  == [state |-> "unissued"]
Records   == [state : {"open", "expired", "consumed"}, kind : Kinds, email : Emails]
IdleClerk == [at |-> "idle"]
Clerking  == {IdleClerk} \cup [at : {"issue"}, kind : Kinds, email : Emails]
                         \cup [at : {"consume", "use"}, link : LinkIds]

LnkInit ==
    /\ link = [l \in LinkIds |-> Unissued]
    /\ accounts = {}
    /\ clerk = [c \in Clerks |-> IdleClerk]
    /\ worked = [l \in LinkIds |-> 0] /\ inVain = {} /\ crossed = {}

Is(l, state, k, e) ==
    link[l].state = state /\ link[l].kind = k /\ link[l].email = e

\* revoke_all_for: expired links are struck as well.
Revoked(k, e) ==
    [l \in LinkIds |-> IF Is(l, "open", k, e) \/ Is(l, "expired", k, e)
                       THEN [link[l] EXCEPT !.state = "consumed"] ELSE link[l]]

\* The table once a new link for e is on its way.
Struck(k, e) == Revoked(k, e)

\* send_invitation and request_password_reset, up to the INSERT.  Nothing is
\* sent for a reset when the address has no account.
BeginSend(c, k, e) ==
    /\ clerk[c] = IdleClerk
    /\ link' = Struck(k, e)
    /\ IF k = "password_reset" /\ e \notin accounts THEN UNCHANGED <<clerk, crossed>>
       ELSE /\ clerk' = [clerk EXCEPT ![c] = [at |-> "issue", kind |-> k, email |-> e]]
            /\ crossed' = IF \E d \in Clerks : clerk[d].at = "issue" /\ clerk[d].kind = k
                                               /\ clerk[d].email = e
                          THEN crossed \cup {<<k, e>>} ELSE crossed
    /\ UNCHANGED <<accounts, worked, inVain>>

Issue(c, l) ==
    /\ clerk[c].at = "issue" /\ link[l] = Unissued
    /\ link' = [link EXCEPT ![l] = [state |-> "open", kind |-> clerk[c].kind,
                                    email |-> clerk[c].email]]
    /\ clerk' = [clerk EXCEPT ![c] = IdleClerk]
    /\ UNCHANGED <<accounts, worked, inVain, crossed>>

Expire(l) ==
    /\ link[l].state = "open"
    /\ link' = [link EXCEPT ![l].state = "expired"]
    /\ UNCHANGED <<accounts, clerk, worked, inVain, crossed>>

\* consume, up to its UPDATE.
LookUp(c, l) ==
    /\ clerk[c] = IdleClerk /\ link[l].state = "open"
    /\ clerk' = [clerk EXCEPT ![c] = [at |-> "consume", link |-> l]]
    /\ UNCHANGED <<link, accounts, worked, inVain, crossed>>

\* What the UPDATE asks: consumed_at IS NULL.
StillUnspent(l) == link[l].state # "consumed"

Consume(c) ==
    LET l == clerk[c].link
    IN  /\ clerk[c].at = "consume"
        /\ IF StillUnspent(l)
           THEN /\ link' = [link EXCEPT ![l].state = "consumed"]
                /\ clerk' = [clerk EXCEPT ![c] = [at |-> "use", link |-> l]]
           ELSE link' = link /\ clerk' = [clerk EXCEPT ![c] = IdleClerk]
        /\ UNCHANGED <<accounts, worked, inVain, crossed>>

\* An invitation needs an address without account, a reset one with.
Possible(l) == (link[l].kind = "invitation") <=> (link[l].email \notin accounts)

\* accept_invitation and complete_password_reset after the token is spent.
UseLink(c) ==
    LET l == clerk[c].link
    IN  /\ clerk[c].at = "use"
        /\ IF Possible(l)
           THEN /\ worked' = [worked EXCEPT ![l] = @ + 1]
                /\ accounts' = accounts \cup {link[l].email}
                /\ inVain' = inVain
           ELSE inVain' = inVain \cup {l} /\ UNCHANGED <<worked, accounts>>
        /\ clerk' = [clerk EXCEPT ![c] = IdleClerk]
        /\ UNCHANGED <<link, crossed>>

\* Registration by other ways, and the erasure of an account: the row goes
\* first, the links of the address after it.
SignUp(e)  == /\ e \notin accounts /\ accounts' = accounts \cup {e}
              /\ UNCHANGED <<link, clerk, worked, inVain, crossed>>
DropRow(e) == /\ e \in accounts /\ accounts' = accounts \ {e}
              /\ UNCHANGED <<link, clerk, worked, inVain, crossed>>
DropLinks(e) ==
    /\ e \notin accounts
    /\ link' = [l \in LinkIds |-> IF link[l].state \in {"open", "expired"} /\ link[l].email = e
                                  THEN [link[l] EXCEPT !.state = "consumed"] ELSE link[l]]
    /\ UNCHANGED <<accounts, clerk, worked, inVain, crossed>>

\* The process dies: a link that was being used is spent all the same.
LnkRestart ==
    /\ clerk' = [c \in Clerks |-> IdleClerk]
    /\ inVain' = inVain \cup
          {l \in LinkIds : \E c \in Clerks : clerk[c] = [at |-> "use", link |-> l]}
    /\ UNCHANGED <<link, accounts, worked, crossed>>

LnkNext ==
    \/ \E c \in Clerks :
         \/ \E k \in Kinds, e \in Emails : BeginSend(c, k, e)
         \/ \E l \in LinkIds : Issue(c, l) \/ LookUp(c, l)
         \/ Consume(c) \/ UseLink(c)
    \/ \E l \in LinkIds : Expire(l)
    \/ \E e \in Emails : SignUp(e) \/ DropRow(e) \/ DropLinks(e)
    \/ LnkRestart

LnkSpec == LnkInit /\ [][LnkNext]_lnkVars

\* Every record is well formed.
LnkTypeOK ==
    /\ \A l \in LinkIds : link[l] = Unissued \/ link[l] \in Records
    /\ accounts \subseteq Emails
    /\ \A c \in Clerks : clerk[c] \in Clerking
    /\ inVain \subseteq LinkIds /\ crossed \subseteq Kinds \X Emails

\* A link does its job at most once, and one that did it was not also spent in
\* vain, however many requests present it at the same moment (tokens.py 178);
\* and "we never have two pending" (app.py 3998) invitations or resets for one
\* address, unless two are sent at once.
LinksHold ==
    /\ \A l \in LinkIds : worked[l] <= (IF l \in inVain THEN 0 ELSE 1)
    /\ \A k \in Kinds, e \in Emails :
         <<k, e>> \in crossed \/ Cardinality({l \in LinkIds : Is(l, "open", k, e)}) <= 1

(***************************************************************************)
(* The second factor of one account, auth.py 841-987 and 1263-1328: an     *)
(* enrolment, recovery codes that work once each, and the challenge that a *)
(* login with a password leaves open until the code comes.  The codes are  *)
(* one JSON column: striking one reads the column and writes back what is  *)
(* left.                                                                   *)
(***************************************************************************)

CONSTANTS
    Callers,        \* request threads
    MaxBatches,     \* bound on the batches of recovery codes issued
    MaxChallenges   \* bound on the challenges issued

ASSUME SecondFactorAssumption == MaxBatches \in Nat /\ MaxChallenges \in Nat

VARIABLES
    totp,           \* off, pending (a secret is stored) or on
    codes,          \* the recovery codes stored
    batches,        \* how many batches have been issued
    challenges,     \* challenges stored; those issued so far
    issuedCh,
    caller,         \* what each request thread is doing
    opened,         \* history: how many sessions each challenge opened
    dead,           \* history: codes used, replaced or thrown away
    revived,        \* history: a dead code was accepted
    mixed           \* history: two requests worked on the factor at once

sfVars == <<totp, codes, batches, challenges, issuedCh, caller, opened, dead, revived, mixed>>

Batch(b)     == {b} \X {1, 2}
Codes        == (1..MaxBatches) \X {1, 2}
ChallengeIds == 1..MaxChallenges
FactorChanges == [at : {"store"}, fresh : BOOLEAN] \cup [at : {"enrol", "disable"}]
NoCaller     == [at |-> "idle"]
Calling      == {NoCaller} \cup FactorChanges
    \cup [at : {"challenge", "verify"}, ch : ChallengeIds]
    \cup [at : {"strike"}, ch : ChallengeIds, code : Codes, left : SUBSET Codes]

SfInit ==
    /\ totp = "off" /\ codes = {} /\ batches = 0
    /\ challenges = {} /\ issuedCh = 0
    /\ caller = [c \in Callers |-> NoCaller]
    /\ opened = [h \in ChallengeIds |-> 0]
    /\ dead = {} /\ revived = FALSE /\ mixed = FALSE

Idle(c)     == caller[c] = NoCaller
Enters(c,d) == /\ caller' = [caller EXCEPT ![c] = d]
               /\ mixed' = (mixed \/ \E x \in Callers \ {c} : ~Idle(x))
Leaves(c)   == caller' = [caller EXCEPT ![c] = NoCaller]

\* Requests that read the row, check what they are given and write it later:
\* an enrolment is refused while the factor is on; its confirmation ("fresh")
\* needs a stored secret; new codes need the factor; switching off the password.
BeginChange(c, d) ==
    /\ Idle(c)
    /\ CASE d.at = "enrol"   -> totp # "on"
         [] d.at = "disable" -> TRUE
         [] d.at = "store"   -> /\ batches < MaxBatches
                                /\ IF d.fresh THEN totp # "off" ELSE totp = "on"
    /\ Enters(c, d)
    /\ UNCHANGED <<totp, codes, batches, challenges, issuedCh, opened, dead, revived>>

\* start_totp_enrollment and disable_totp.
Withdraw(c) ==
    /\ caller[c].at \in {"enrol", "disable"}
    /\ totp' = IF caller[c].at = "enrol" THEN "pending" ELSE "off"
    /\ codes' = {} /\ dead' = dead \cup codes
    /\ Leaves(c)
    /\ UNCHANGED <<batches, challenges, issuedCh, opened, revived, mixed>>

\* confirm_totp_enrollment and regenerate_recovery_codes.
Store(c) ==
    /\ caller[c].at = "store" /\ batches < MaxBatches
    /\ batches' = batches + 1 /\ codes' = Batch(batches')
    /\ totp' = IF caller[c].fresh THEN "on" ELSE totp
    /\ dead' = dead \cup codes
    /\ Leaves(c)
    /\ UNCHANGED <<challenges, issuedCh, opened, revived, mixed>>

\* The password was right: issue_2fa_challenge.
IssueChallenge ==
    /\ totp = "on" /\ issuedCh < MaxChallenges
    /\ issuedCh' = issuedCh + 1 /\ challenges' = challenges \cup {issuedCh'}
    /\ UNCHANGED <<totp, codes, batches, caller, opened, dead, revived, mixed>>

ChallengeExpires(h) ==
    /\ h \in challenges /\ challenges' = challenges \ {h}
    /\ UNCHANGED <<totp, codes, batches, issuedCh, caller, opened, dead, revived, mixed>>

\* consume_2fa_challenge: the row is read, then deleted, never mind whether it
\* was still there.
BeginVerify(c, h) ==
    /\ Idle(c) /\ h \in challenges
    /\ Enters(c, [at |-> "challenge", ch |-> h])
    /\ UNCHANGED <<totp, codes, batches, challenges, issuedCh, opened, dead, revived>>

\* mutant of Remaining: a challenge outlives a wrong code
RemainingKept(h) == challenges

Remaining(h) == challenges \ {h}

TakeChallenge(c) ==
    /\ caller[c].at = "challenge"
    /\ challenges' = Remaining(caller[c].ch)
    /\ caller' = [caller EXCEPT ![c].at = "verify"]
    /\ UNCHANGED <<totp, codes, batches, issuedCh, opened, dead, revived, mixed>>

Opens(h) == opened' = [opened EXCEPT ![h] = @ + 1]

\* A code from the device: right while the factor is on, or wrong.
DeviceCode(c) ==
    /\ caller[c].at = "verify"
    /\ \/ totp = "on" /\ Opens(caller[c].ch)
       \/ opened' = opened
    /\ Leaves(c)
    /\ UNCHANGED <<totp, codes, batches, challenges, issuedCh, dead, revived, mixed>>

\* A recovery code that is in the list: the rest is written back next.
RecoveryCode(c, k) ==
    /\ caller[c].at = "verify" /\ k \in codes
    /\ caller' = [caller EXCEPT ![c] = [at |-> "strike", ch |-> caller[c].ch, code |-> k,
                                        left |-> codes \ {k}]]
    /\ UNCHANGED <<totp, codes, batches, challenges, issuedCh, opened, dead, revived, mixed>>

WrittenBack(d) == d.left

Strike(c) ==
    LET d == caller[c]
    IN  /\ d.at = "strike"
        /\ codes' = WrittenBack(d)
        /\ revived' = (revived \/ d.code \in dead)
        /\ dead' = dead \cup {d.code} \cup (codes \ d.left)
        /\ Opens(d.ch)
        /\ Leaves(c)
        /\ UNCHANGED <<totp, batches, challenges, issuedCh, mixed>>

SfRestart ==
    /\ \E c \in Callers : ~Idle(c)
    /\ caller' = [c \in Callers |-> NoCaller]
    /\ UNCHANGED <<totp, codes, batches, challenges, issuedCh, opened, dead, revived, mixed>>

SfNext ==
    \/ IssueChallenge \/ SfRestart
    \/ \E h \in ChallengeIds : ChallengeExpires(h)
    \/ \E c \in Callers :
         \/ \E d \in FactorChanges : BeginChange(c, d)
         \/ Withdraw(c) \/ Store(c)
         \/ \E h \in ChallengeIds : BeginVerify(c, h)
         \/ TakeChallenge(c) \/ DeviceCode(c) \/ Strike(c)
         \/ \E k \in codes : RecoveryCode(c, k)

SfSpec == SfInit /\ [][SfNext]_sfVars

\* Every record is well formed.
SfTypeOK ==
    /\ totp \in {"off", "pending", "on"}
    /\ codes \subseteq Codes /\ dead \subseteq Codes
    /\ batches \in 0..MaxBatches /\ issuedCh \in 0..MaxChallenges
    /\ challenges \subseteq 1..issuedCh
    /\ \A c \in Callers : caller[c] \in Calling
    /\ revived \in BOOLEAN /\ mixed \in BOOLEAN

\* A recovery code works once and never after it was replaced, a challenge
\* opens one session, and codes are stored only while the factor is on; unless
\* two requests worked on the factor at once, each of them reads before it
\* writes (auth.py 966, 1285).
FactorHolds ==
    mixed \/ /\ ~revived
             /\ \A h \in ChallengeIds : opened[h] <= 1
             /\ codes # {} => totp = "on"
             /\ codes \cap dead = {}
=============================================================================
