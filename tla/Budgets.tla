------------------------------ MODULE Budgets -------------------------------
(***************************************************************************)
(* How much somebody may do: sign-in attempts and mails, and runs of the   *)
(* AI.  The two share no state.                                            *)
(***************************************************************************)
EXTENDS Naturals, FiniteSets

(***************************************************************************)
(* The budget of failed logins of one client, app.py 3107-3207 and the     *)
(* login routes: an attempt takes a slot before its password is looked at, *)
(* a slot counts for ten minutes, and a login that succeeds gives its slot *)
(* back and then forgets all the others.  A right password whose account   *)
(* has a second factor keeps the slot until the code arrives, which takes  *)
(* a slot of its own.  A slot is known by its age, in parts of the window, *)
(* and by a number that tells it from others of that age; a slot that is   *)
(* too old is gone when time passes, where the code drops it when it next  *)
(* looks.  The other budgets (mails, sign-ups, reports, polls, changes)    *)
(* give nothing back; one of them at a time is followed.                   *)
(***************************************************************************)

CONSTANTS
    Attempts,       \* request threads of the client
    LoginCap,       \* slots in a window (10 in the code)
    WindowAge,      \* age at which a slot no longer counts (600 s)
    MaxOpenCodes    \* bound on the challenges left unanswered

ASSUME LimitsAssumption ==
    /\ LoginCap \in Nat /\ WindowAge \in Nat \ {0} /\ MaxOpenCodes \in Nat
    /\ IsFiniteSet(Attempts)

VARIABLES
    slots,          \* the slots taken within the window
    attempt,        \* what each request thread is doing
    codesOpen,      \* slots of the logins that wait for their code
    failed,         \* history: slots of the failures since a login last succeeded
    shut,           \* history: an attempt was refused that should not be
    asked,          \* the calls that one other budget has granted
    answered        \* history: the flow of each call granted

limVars == <<slots, attempt, codesOpen, failed, shut, asked, answered>>

\* The flows that share a budget: mails for a password or an address.
Flows == {"forgot-password", "verify-email"}

Ages    == 0..WindowAge - 1
Numbers == 1..LoginCap + Cardinality(Attempts)
Slots   == [nr : Numbers, age : Ages]
Grants  == [flow : Flows, slot : Slots]

NoAttempt == [at |-> "idle"]
\* "password" and "code" hold a slot; "clear" has just given one back.
InHand  == [at : {"password", "code"}, slot : Slots, counts : BOOLEAN]
Attempting == {NoAttempt, [at |-> "clear"]} \cup InHand

LimInit ==
    /\ slots = {} /\ codesOpen = {} /\ failed = {}
    /\ attempt = [a \in Attempts |-> NoAttempt] /\ shut = FALSE
    /\ asked = {} /\ answered = {}

InFlight(a) == attempt[a].at \in {"password", "code"}
Refunding   == \E a \in Attempts : attempt[a].at = "clear"

\* Failures, attempts that may yet fail, and logins without their code.
Reasons == Cardinality(failed) + Cardinality(codesOpen)
           + Cardinality({a \in Attempts : attempt[a] # NoAttempt})

Full == Cardinality(slots) >= LoginCap

\* A slot of now, told from those in use.
NewSlot(inUse) == [nr |-> CHOOSE n \in Numbers : \A s \in inUse : s.nr # n, age |-> 0]
InUse == slots \cup failed \cup codesOpen
         \cup {attempt[a].slot : a \in {b \in Attempts : InFlight(b)}}

\* claim_login_slot.
Claim(a, at) ==
    /\ attempt[a] = NoAttempt
    /\ IF Full
       THEN /\ shut' = (shut \/ (Reasons < LoginCap /\ ~Refunding))
            /\ UNCHANGED <<slots, attempt>>
       ELSE /\ slots' = slots \cup {NewSlot(InUse)}
            /\ attempt' = [attempt EXCEPT ![a] = [at |-> at, slot |-> NewSlot(InUse),
                                                  counts |-> TRUE]]
            /\ UNCHANGED shut

LoginArrives(a) == Claim(a, "password") /\ UNCHANGED <<codesOpen, failed, asked, answered>>
CodeArrives(a)  == Claim(a, "code") /\ UNCHANGED <<codesOpen, failed, asked, answered>>

With(held, a) == IF attempt[a].counts THEN held \cup {attempt[a].slot} ELSE held

\* A wrong password, a challenge that is spent or too old, a wrong code: the
\* slot stays.
Fails(a) ==
    /\ InFlight(a)
    /\ failed' = With(failed, a)
    /\ attempt' = [attempt EXCEPT ![a] = NoAttempt]
    /\ UNCHANGED <<slots, codesOpen, shut, asked, answered>>

\* The password is right and a code is asked for: the slot stays, too.
AsksForCode(a) ==
    /\ attempt[a].at = "password" /\ Cardinality(codesOpen) < MaxOpenCodes
    /\ codesOpen' = With(codesOpen, a)
    /\ attempt' = [attempt EXCEPT ![a] = NoAttempt]
    /\ UNCHANGED <<slots, failed, shut, asked, answered>>

\* refund_login_slot: the youngest slot goes, whosever it was.
Youngest == CHOOSE s \in slots : \A r \in slots : s.age <= r.age
Refunded == IF slots = {} THEN slots ELSE slots \ {Youngest}

\* A success forgives what came before it, and what is in flight: its slot
\* may be the one refunded, or is about to be forgotten.
Uncounted(b) == IF InFlight(b) THEN [attempt[b] EXCEPT !.counts = FALSE] ELSE attempt[b]

\* A login is complete, or is stopped only because the address is not yet
\* verified: the slot is refunded, in a critical section of its own.
Succeeds(a) ==
    /\ InFlight(a)
    /\ slots' = Refunded
    /\ attempt' = [b \in Attempts |-> IF b = a THEN [at |-> "clear"] ELSE Uncounted(b)]
    /\ codesOpen' = {} /\ failed' = {}
    /\ UNCHANGED <<shut, asked, answered>>

\* clear_login_failures.
Cleared == {}

Clears(a) ==
    /\ attempt[a].at = "clear"
    /\ slots' = Cleared
    /\ attempt' = [b \in Attempts |-> IF b = a THEN NoAttempt ELSE Uncounted(b)]
    /\ codesOpen' = {} /\ failed' = {}
    /\ UNCHANGED <<shut, asked, answered>>

\* claim_password_reset_slot and its like: asked and taken in one critical
\* section.
Granted == Cardinality(asked) < LoginCap

\* Sends a mail if the address is known, and says the same if it is not.
AskForMail(flow) ==
    /\ IF Granted
       THEN /\ asked' = asked \cup {NewSlot(asked)}
            /\ answered' = answered \cup {[flow |-> flow, slot |-> NewSlot(asked)]}
       ELSE UNCHANGED <<asked, answered>>
    /\ UNCHANGED <<slots, attempt, codesOpen, failed, shut>>

\* What is left of some slots a part of the window later.
Older(s) == [s EXCEPT !.age = @ + 1]
Recent(held) == {Older(s) : s \in {r \in held : r.age + 1 < WindowAge}}

\* A part of the window passes, which is minutes: no request takes a whole
\* window, and none is between its refund and its clear for so long.
TimePasses ==
    /\ ~Refunding
    /\ \A a \in Attempts : InFlight(a) => attempt[a].slot.age + 1 < WindowAge
    /\ slots' = Recent(slots)
    /\ codesOpen' = Recent(codesOpen) /\ failed' = Recent(failed)
    /\ attempt' = [a \in Attempts |->
                     IF InFlight(a) THEN [attempt[a] EXCEPT !.slot = Older(@)] ELSE NoAttempt]
    /\ asked' = Recent(asked)
    /\ answered' = {[r EXCEPT !.slot = Older(@)] :
                      r \in {q \in answered : q.slot.age + 1 < WindowAge}}
    /\ UNCHANGED shut

LimNext ==
    \/ \E a \in Attempts : LoginArrives(a) \/ CodeArrives(a) \/ Fails(a) \/ AsksForCode(a)
                           \/ Succeeds(a) \/ Clears(a)
    \/ \E f \in Flows : AskForMail(f)
    \/ TimePasses

\* The budget, the attempts and the histories have their types.
LimTypeOK ==
    /\ slots \subseteq Slots /\ codesOpen \subseteq Slots /\ failed \subseteq Slots
    /\ attempt \in [Attempts -> Attempting] /\ shut \in BOOLEAN
    /\ asked \subseteq Slots /\ answered \subseteq Grants

\* After the refund, and after the clear, of a client's last success no window
\* holds more than the cap of failed attempts, however many requests arrive at
\* once and whosever slot a refund takes ("only ``cap`` callers ever leave the
\* lock with True per window", app.py:3114); and nobody is refused while fewer
\* failures and open logins than the cap are on record, whatever successes were
\* refunded, unless a success is between its refund and its clear.  The two
\* flows that send mail cannot do together what one may not (app.py:9549).
LimitsHold ==
    Cardinality(failed) <= LoginCap /\ ~shut /\ Cardinality(answered) <= LoginCap

(***************************************************************************)
(* The gate in front of the model, for one person: app.py 1151-1167 and    *)
(* 11739-12117.  A route over the applications first takes one of the      *)
(* day's runs, then looks at the CV, the provider and the consent, then    *)
(* calls; a batch looks at the consent once and takes a run for every job. *)
(* The chat's own routes look at consent and CV and take no run.           *)
(***************************************************************************)

CONSTANTS
    AiThreads,
    AiPerDay,       \* quotas.py: runs a day
    MaxFit          \* bound on the jobs of a batch (25 in the code)

ASSUME AiRunsAssumption == AiPerDay \in Nat /\ MaxFit \in Nat /\ IsFiniteSet(AiThreads)

\* No provider (or a model on this host), and two outside processors.
Providers == {"manual", "here", "there"}
Outside   == {"here", "there"}
\* "brief" is analyze, draft-cover-letter and auto-fit; "chat letter" is
\* also the section of the CV builder.
Singles   == {"brief", "tailor-cv"}
ChatAsks  == {"chat tailor_cv", "chat letter"}

VARIABLES
    provider,       \* the provider in the settings
    consent,        \* none, any (no provider named), or the one consented to
    used,           \* runs taken today
    asking,         \* what each request thread is doing
    reached,       \* history: runs of today that got as far as the provider
    burnt,          \* history: runs of today refused after they were taken
    denied,         \* history: a processor was called that nobody agreed to
    agreed          \* history: processors the person has agreed to so far

airVars == <<provider, consent, used, asking, reached, burnt, denied, agreed>>

NoAsk   == [at |-> "idle"]
Gating  == [at : {"gate"}, route : Singles \cup ChatAsks \cup {"batch"}, today : BOOLEAN]
ToCall == [at : {"call"}, route : Singles \cup ChatAsks, today : BOOLEAN, to : Providers]
Batches == [at : {"next"}, to : Providers, left : 0..MaxFit]
           \cup [at : {"fit"}, to : Providers, left : 0..MaxFit, today : BOOLEAN]

AirInit ==
    /\ provider = "manual" /\ consent = "none"
    /\ used = 0 /\ asking = [t \in AiThreads |-> NoAsk]
    /\ reached = 0 /\ burnt = 0 /\ denied = FALSE /\ agreed = {}

Settings == <<provider, consent, agreed>>
Now(t, r) == asking' = [asking EXCEPT ![t] = r]

\* mutant of MayRun: off by one
MayRunMore == used <= AiPerDay

\* reserve_ai_run: check and count in one critical section.
MayRun == used < AiPerDay

\* A metered route finds the record and takes a run; else 429.
AskRoute(t, r) ==
    /\ asking[t] = NoAsk /\ MayRun
    /\ used' = used + 1
    /\ Now(t, [at |-> "gate", route |-> r, today |-> TRUE])
    /\ UNCHANGED <<Settings, reached, burnt, denied>>

\* A route of the chat, and the batch, which takes its runs later.
AskFree(t, r) ==
    /\ asking[t] = NoAsk
    /\ Now(t, [at |-> "gate", route |-> r, today |-> FALSE])
    /\ UNCHANGED <<Settings, used, reached, burnt, denied>>

\* _ai_consent_satisfied: what stays on this host needs no consent; a consent
\* without a name is for whatever provider is chosen.
ConsentSatisfied ==
    \/ provider = "manual"
    \/ consent \in {"any", provider}

NeedsCv(r) == r \in {"tailor-cv", "chat tailor_cv", "chat letter"}

\* The chat's routes do not call at all without a provider: the letter is the
\* template, the section stays as it was typed.
Offers(r) == r = "chat letter" => provider # "manual"

TurnedAway(t) ==
    /\ Now(t, NoAsk)
    /\ burnt' = IF asking[t].today THEN burnt + 1 ELSE burnt

\* CV, provider and consent, as they are now; the provider is kept.
Gate(t, hasCv) ==
    /\ asking[t].at = "gate"
    /\ LET r == asking[t].route
       IN IF (NeedsCv(r) /\ ~hasCv) \/ ~ConsentSatisfied \/ ~Offers(r)
          THEN TurnedAway(t)
          ELSE /\ UNCHANGED burnt
               /\ IF r = "batch"
                  THEN \E n \in 0..MaxFit : Now(t, [at |-> "next", to |-> provider, left |-> n])
                  ELSE Now(t, [at |-> "call", route |-> r, today |-> asking[t].today,
                               to |-> provider])
    /\ UNCHANGED <<Settings, used, reached, denied>>

\* One more job of the batch, or its end: no job left, or no run.
BatchNext(t) ==
    /\ asking[t].at = "next"
    /\ IF asking[t].left = 0 \/ ~MayRun
       THEN Now(t, NoAsk) /\ UNCHANGED used
       ELSE /\ used' = used + 1
            /\ Now(t, [at |-> "fit", to |-> asking[t].to, left |-> asking[t].left - 1,
                       today |-> TRUE])
    /\ UNCHANGED <<Settings, reached, burnt, denied>>

\* The call leaves: a provider outside must be one the person agreed to.
Called(t) ==
    /\ reached' = IF asking[t].today THEN reached + 1 ELSE reached
    /\ denied' = (denied \/ (asking[t].to \in Outside \ agreed))
    /\ UNCHANGED burnt

\* The dispatcher refuses over the month's cap; the batch stops there, too.
OverCap(t) == TurnedAway(t) /\ UNCHANGED <<reached, denied>>

Call(t) ==
    /\ asking[t].at = "call"
    /\ OverCap(t) \/ (Called(t) /\ Now(t, NoAsk))
    /\ UNCHANGED <<Settings, used>>

\* One job of the batch is rated.
FitCall(t) ==
    /\ asking[t].at = "fit"
    /\ \/ OverCap(t)
       \/ Called(t) /\ Now(t, [at |-> "next", to |-> asking[t].to, left |-> asking[t].left])
    /\ UNCHANGED <<Settings, used>>

\* update_ai_provider: the consent is not touched.
SwitchProvider(p) ==
    /\ p # provider /\ provider' = p
    /\ UNCHANGED <<consent, used, asking, reached, burnt, denied, agreed>>

\* update_profile with aiConsent: granted, for the provider the page names
\* or for none, or revoked.
SetConsent(c) ==
    /\ consent' = c
    /\ agreed' = agreed \cup CASE c = "any" -> Outside [] c = "none" -> {} [] OTHER -> {c}
    /\ UNCHANGED <<provider, used, asking, reached, burnt, denied>>

\* The counters are kept per day.
NewDay ==
    /\ used > 0 /\ used' = 0 /\ reached' = 0 /\ burnt' = 0
    /\ asking' = [t \in AiThreads |-> IF asking[t].at \in {"gate", "call", "fit"}
                                      THEN [asking[t] EXCEPT !.today = FALSE] ELSE asking[t]]
    /\ UNCHANGED <<Settings, denied>>

AirNext ==
    \/ \E t \in AiThreads :
         \/ \E r \in Singles : AskRoute(t, r)
         \/ \E r \in ChatAsks \cup {"batch"} : AskFree(t, r)
         \/ (\E hasCv \in BOOLEAN : Gate(t, hasCv)) \/ BatchNext(t) \/ Call(t) \/ FitCall(t)
    \/ \E p \in Providers : SwitchProvider(p)
    \/ \E c \in Outside \cup {"none", "any"} : SetConsent(c)
    \/ NewDay

AirTypeOK ==
    /\ provider \in Providers /\ consent \in Outside \cup {"none", "any"}
    /\ used \in 0..AiPerDay
    /\ asking \in [AiThreads -> {NoAsk} \cup Gating \cup ToCall \cup Batches]
    /\ reached \in Nat /\ burnt \in Nat
    /\ denied \in BOOLEAN /\ agreed \subseteq Outside

InHandToday == {t \in AiThreads : asking[t].at \in {"gate", "call", "fit"} /\ asking[t].today}

\* Every run the counter shows is a call made today, a refusal after the run
\* was taken, or a request still under way, so that parallel requests and
\* batches never share a run or lose one; there are never more calls than the
\* day allows; and no outside processor is called that the person has not at
\* some time agreed to, through every change of provider and consent while
\* requests and batches are under way (_ai_consent_satisfied).
AiRunsHold ==
    /\ used = reached + burnt + Cardinality(InHandToday)
    /\ reached <= AiPerDay /\ ~denied
=============================================================================
