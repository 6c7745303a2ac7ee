------------------------------- MODULE Profiles -------------------------------
(***************************************************************************)
(* A user's profile: the persona the scores of found jobs are made for,    *)
(* and the consent without which nothing goes to a provider that is not on *)
(* the user's own machine.  Requests share the profile's object and change *)
(* it field by field; only the last step saves it.  The consent goes to    *)
(* the audit log before it is saved.  One user at a desk of their own.     *)
(***************************************************************************)
EXTENDS Naturals, FiniteSets

CONSTANTS
    Personas, FirstPersona,     \* DEFAULT_PERSONA_ID
    Remote,         \* the providers elsewhere; "local" is none, or one of the user's own
    Leads,          \* found jobs
    Editing,        \* requests that change the profile
    Fitting,        \* requests that have jobs scored
    MaxSwitches,    \* bound on the requests that change the profile
    MaxFits         \* bound on the requests for scores

ASSUME ProfilesAssumption ==
    /\ FirstPersona \in Personas /\ MaxSwitches \in Nat /\ MaxFits \in Nat
    /\ "none" \notin Personas /\ {"none", "loaded"} \cap Editing = {}
    /\ {"local", "nobody", "anybody"} \cap Remote = {}

VARIABLES
    profile,        \* object -> [persona, consent]
    current,        \* the object the repository has, named for its maker
    savedProfile,   \* the row
    choice,         \* the provider chosen
    fit, savedFit,  \* job -> the persona its score is for, or Unscored: in memory, on disk
    queueOnly,      \* jobs that were not imported yet
    consentLog,     \* the last consent record: nobody, everybody or a provider
    update,         \* what each request that changes the profile is doing
    fitting,        \* what each request for scores is doing
    switches, runs,
    strayed,        \* history: something left for a provider nobody agreed to
    unsettled,      \* history: the persona changed while scores were under way or
                    \* another request was, or the change got stuck in the middle
    offRecord       \* history: two consents were recorded at once, one was not, or
                    \* was not saved; two requests made the profile at once

prfVars == <<profile, current, savedProfile, choice, fit, savedFit, queueOnly, consentLog,
             update, fitting, switches, runs, strayed, unsettled, offRecord>>

NoneYet  == "none"
Unscored == "none"
Objects  == Editing \cup {"loaded"}
Consents == Remote \cup {"nobody", "anybody"}
NewUser  == [persona |-> FirstPersona, consent |-> "nobody"]
Quiet    == [at |-> "none"]
NoProfile == [persona |-> NoneYet, consent |-> "nobody"]
Record(o) == IF o = NoneYet THEN NewUser ELSE profile[o]

PrfInit ==
    /\ profile = [o \in Objects |-> NewUser] /\ current = NoneYet /\ savedProfile = NoProfile
    /\ choice = "local" /\ fit = [j \in Leads |-> Unscored] /\ savedFit = fit
    /\ queueOnly = Leads /\ consentLog = "nobody"
    /\ update = [t \in Editing |-> Quiet] /\ fitting = [t \in Fitting |-> Quiet]
    /\ switches = 0 /\ runs = 0
    /\ strayed = FALSE /\ unsettled = FALSE /\ offRecord = FALSE

Proceeds(t, step) == update' = [update EXCEPT ![t] = step]
OnFit(f, step)    == fitting' = [fitting EXCEPT ![f] = step]
NoFits            == UNCHANGED <<fitting, runs, strayed>>
NoUpdates         == UNCHANGED <<profile, current, savedProfile, update, switches,
                                 consentLog, offRecord>>

(***************************************************************************)
(* update_profile.                                                         *)
(***************************************************************************)
Target(t) == IF current = NoneYet THEN t ELSE current
Others(t) == \E u \in Editing \ {t} : update[u] # Quiet

\* The persona is changed at once; a score is for the one before, so the scores
\* of the jobs that were not imported go.
Switches(t, p) ==
    /\ update[t] = Quiet /\ switches < MaxSwitches /\ switches' = switches + 1
    /\ profile' = [profile EXCEPT ![Target(t)] = [Record(current) EXCEPT !.persona = p]]
    /\ Proceeds(t, [at |-> "clear", object |-> Target(t),
                left |-> IF p = Record(current).persona THEN {} ELSE Leads])
    /\ unsettled' = (unsettled \/ (current = NoneYet /\ Others(t))
                               \/ (p # Record(current).persona /\
                                   (Others(t) \/ \E f \in Fitting : fitting[f] # Quiet)))
    /\ offRecord' = (offRecord \/ (current = NoneYet /\ Others(t)))
    /\ UNCHANGED <<current, savedProfile, choice, fit, savedFit, queueOnly, consentLog>>
    /\ NoFits

Outdated(j) == j \in queueOnly /\ fit[j] # Unscored

\* One job after the other, each saved; a save that fails ends the request, and
\* the next one finds the persona unchanged.
DropsScore(t, j, saved) ==
    /\ update[t].at = "clear" /\ j \in update[t].left
    /\ fit' = IF Outdated(j) THEN [fit EXCEPT ![j] = Unscored] ELSE fit
    /\ savedFit' = IF Outdated(j) /\ saved THEN [savedFit EXCEPT ![j] = Unscored] ELSE savedFit
    /\ \/ saved /\ Proceeds(t, [update[t] EXCEPT !.left = @ \ {j}]) /\ UNCHANGED unsettled
       \/ ~saved /\ Outdated(j) /\ Proceeds(t, Quiet) /\ unsettled' = TRUE
    /\ UNCHANGED <<profile, current, savedProfile, choice, queueOnly, consentLog, switches,
                   offRecord>> /\ NoFits

\* A later field is not in order: what was changed stays changed, unsaved.
RefusesField(t) ==
    /\ update[t].at = "clear" /\ update[t].left = {} /\ Proceeds(t, Quiet)
    /\ UNCHANGED <<profile, current, savedProfile, choice, fit, savedFit, queueOnly,
                   consentLog, switches, unsettled, offRecord>> /\ NoFits

\* aiConsent is the last field: given for a provider, for no provider in
\* particular, or taken back.
Consenting == {u \in Editing : update[u].at = "log"}

SetsConsent(t, c) ==
    /\ update[t].at = "clear" /\ update[t].left = {}
    /\ profile' = [profile EXCEPT ![update[t].object].consent = c]
    /\ Proceeds(t, [at |-> "log", object |-> update[t].object, consent |-> c])
    /\ offRecord' = (offRecord \/ Consenting # {})
    /\ UNCHANGED <<current, savedProfile, choice, fit, savedFit, queueOnly, consentLog,
                   switches, unsettled>> /\ NoFits

\* emit_consent_event; a log that cannot be written ends the request.
LogsConsent(t, written) ==
    /\ update[t].at = "log"
    /\ consentLog' = IF written THEN update[t].consent ELSE consentLog
    /\ offRecord' = (offRecord \/ ~written)
    /\ Proceeds(t, IF written THEN [at |-> "save", object |-> update[t].object] ELSE Quiet)
    /\ UNCHANGED <<profile, current, savedProfile, choice, fit, savedFit, queueOnly, switches,
                   unsettled>> /\ NoFits

\* save_user_profile: in memory, then the row, all of the object; that may fail.
Saves(t, saved) ==
    /\ \/ update[t].at = "save"
       \/ update[t].at = "clear" /\ update[t].left = {}     \* no consent in it
    /\ current' = update[t].object
    /\ savedProfile' = IF saved THEN profile[update[t].object] ELSE savedProfile
    /\ Proceeds(t, Quiet)
    /\ UNCHANGED <<profile, choice, fit, savedFit, queueOnly, consentLog, switches, unsettled,
                   offRecord>> /\ NoFits

(***************************************************************************)
(* update_ai_provider, and an import.                                      *)
(***************************************************************************)
ChoosesProvider(p) ==
    /\ choice' = p /\ p # choice
    /\ UNCHANGED <<fit, savedFit, queueOnly, fitting, runs, strayed, unsettled>>
    /\ NoUpdates

ImportsFind(j) ==
    /\ queueOnly' = queueOnly \ {j} /\ j \in queueOnly
    /\ UNCHANGED <<choice, fit, savedFit, fitting, runs, strayed, unsettled>>
    /\ NoUpdates

(***************************************************************************)
(* auto-fit: one job, whatever it has; or all that have no score.          *)
(***************************************************************************)
\* _ai_consent_satisfied
Satisfied(c, p) == p = "local" \/ c = "anybody" \/ c = p

\* What the user agreed to: the last record, and what is being recorded.
Agreed(p) ==
    \E c \in {consentLog} \cup {update[u].consent : u \in Consenting} : c \in {"anybody", p}

BeginsFit(f, todo) ==
    /\ fitting[f] = Quiet /\ runs < MaxFits /\ runs' = runs + 1
    /\ \/ Cardinality(todo) = 1
       \/ todo = {j \in queueOnly : fit[j] = Unscored} /\ todo # {}
    /\ Satisfied(Record(current).consent, choice)
    /\ OnFit(f, [at |-> "next", object |-> current, left |-> todo])
    /\ strayed' = (strayed \/ (choice # "local" /\ ~Agreed(choice)))
    /\ unsettled' = (unsettled \/ (current = NoneYet /\ \E t \in Editing : update[t] # Quiet))
    /\ UNCHANGED <<choice, fit, savedFit, queueOnly>> /\ NoUpdates

\* The prompt has the persona the object has now.
Prompts(f, j) ==
    /\ fitting[f].at = "next" /\ j \in fitting[f].left
    /\ OnFit(f, [at |-> "asked", object |-> fitting[f].object,
                 left |-> fitting[f].left \ {j}, job |-> j,
                 persona |-> Record(fitting[f].object).persona])
    /\ UNCHANGED <<choice, fit, savedFit, queueOnly, runs, strayed, unsettled>>
    /\ NoUpdates

\* With a score, or without.
Scores(f, scored) ==
    LET t == fitting[f] IN
    /\ t.at = "asked"
    /\ fit' = IF scored THEN [fit EXCEPT ![t.job] = t.persona] ELSE fit
    /\ savedFit' = IF scored THEN [savedFit EXCEPT ![t.job] = t.persona] ELSE savedFit
    /\ OnFit(f, IF t.left = {} THEN Quiet
                ELSE [at |-> "next", object |-> t.object, left |-> t.left])
    /\ UNCHANGED <<choice, queueOnly, runs, strayed, unsettled>> /\ NoUpdates

\* The process dies and starts again, with what was saved; a provider whose file
\* was being written is forgotten, and nothing is sent.
PrfRestart ==
    /\ profile' = [o \in Objects |-> IF o = "loaded" /\ savedProfile # NoProfile
                                     THEN savedProfile ELSE NewUser]
    /\ current' = IF savedProfile = NoProfile THEN NoneYet ELSE "loaded"
    /\ choice' \in {choice, "local"} /\ fit' = savedFit
    /\ update' = [t \in Editing |-> Quiet] /\ fitting' = [f \in Fitting |-> Quiet]
    /\ unsettled' = (unsettled \/ (\E t \in Editing : update[t] # Quiet)
                              \/ savedProfile # (IF current = NoneYet THEN NoProfile
                                                 ELSE profile[current]))
    /\ offRecord' = (offRecord \/ Record(current).consent # savedProfile.consent
                             \/ \E t \in Editing : update[t].at \in {"log", "save"})
    /\ UNCHANGED <<savedProfile, savedFit, queueOnly, consentLog, switches, runs, strayed>>

PrfNext ==
    \/ \E t \in Editing :
          \/ \E p \in Personas : Switches(t, p)
          \/ \E j \in Leads, saved \in BOOLEAN : DropsScore(t, j, saved)
          \/ \E c \in Consents : SetsConsent(t, c)
          \/ \E ok \in BOOLEAN : LogsConsent(t, ok) \/ Saves(t, ok)
          \/ RefusesField(t)
    \/ \E p \in Remote \cup {"local"} : ChoosesProvider(p)
    \/ \E j \in Leads : ImportsFind(j)
    \/ \E f \in Fitting :
          \/ \E todo \in SUBSET Leads : BeginsFit(f, todo)
          \/ \E j \in Leads : Prompts(f, j)
          \/ \E scored \in BOOLEAN : Scores(f, scored)
    \/ PrfRestart

PrfSpec == PrfInit /\ [][PrfNext]_prfVars

-----------------------------------------------------------------------------
PrfTypeOK ==
    /\ profile \in [Objects -> [persona : Personas, consent : Consents]]
    /\ current \in Objects \cup {NoneYet} /\ choice \in Remote \cup {"local"}
    /\ fit \in [Leads -> Personas \cup {Unscored}]
    /\ savedFit \in [Leads -> Personas \cup {Unscored}]
    /\ queueOnly \subseteq Leads /\ consentLog \in Consents
    /\ switches \in 0..MaxSwitches /\ runs \in 0..MaxFits

\* A score that is shown for a job of the queue was made for the persona the
\* user has ("keeping it would mislead", app.py 1909-1912), unless the switch
\* came while scores were under way, or did not come to its end.
ScoresFit ==
    unsettled \/
    \A j \in queueOnly : \/ fit[j] \in {Unscored, Record(current).persona}
                         \/ \E t \in Editing : update[t].at = "clear" /\ j \in update[t].left

\* A request sends something to a provider only if the last consent on record
\* when it was checked allows that provider (app.py 1151-1165): a switch of
\* the provider needs another consent, and one taken back is gone for good,
\* unless it was not recorded, or the process died before it was saved.
SentWithConsent == strayed => offRecord

ProfileHolds == ScoresFit /\ SentWithConsent
=============================================================================
