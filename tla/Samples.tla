-------------------------------- MODULE Samples --------------------------------
(***************************************************************************)
(* Sample jobs for somebody whose queue is empty (app.py 2788-2896): a     *)
(* burst of requests may ask for them; each adds the companies and jobs it *)
(* found missing, one save after another, while the user deletes sample    *)
(* companies and the server may stop.  And the walkthrough of the pilot    *)
(* (app.py 3695-3757), which adds one of each and takes no lock.           *)
(***************************************************************************)
EXTENDS Naturals, FiniteSetsExt

CONSTANTS
    Bursts,         \* requests for the samples
    Walks,          \* requests for the walkthrough
    NumSamples,     \* sample jobs, each of a company of its own (5)
    MaxDeleted      \* bound on the samples ever deleted

ASSUME SamplesAssumption == NumSamples \in Nat /\ MaxDeleted \in Nat

VARIABLES
    firms,          \* sample companies: [of, by], the sample and the request that added it
    offers,         \* sample jobs: [of, by, firm]
    seeding,        \* what each request for the samples is doing
    walking,        \* what each request for the walkthrough is doing
    deleted,        \* history: samples whose company was deleted
    underway,       \* history: those deleted while a request was under way
    overlapped      \* history: did two walkthroughs overlap?

smpVars == <<firms, offers, seeding, walking, deleted, underway, overlapped>>

Sample   == 1..NumSamples
Pilot    == 0                   \* the company and the job of the walkthrough
Unasked  == [at |-> "idle"]
Answered == [at |-> "done"]
FirmsOf(among, kind) == {f \in among : f.of = kind}
OffersOf(kind) == {o \in offers : o.of = kind}
Seeds(r, task) == seeding' = [seeding EXCEPT ![r] = task]
History == <<deleted, underway>>

SmpInit ==
    /\ firms = {} /\ offers = {} /\ deleted = {} /\ underway = {} /\ overlapped = FALSE
    /\ seeding = [r \in Bursts |-> Unasked] /\ walking = [r \in Walks |-> Unasked]

(***************************************************************************)
(* seed_demo_data, under _demo_seed_lock.                                  *)
(***************************************************************************)
\* The lock is free; what is there is looked at once, at the start.
Begins(r) ==
    /\ seeding[r] = Unasked /\ \A o \in Bursts : seeding[o].at # "adding"
    /\ Seeds(r, [at |-> "adding", known |-> firms, todo |-> {k \in Sample : OffersOf(k) = {}}])
    /\ UNCHANGED <<firms, offers, walking, History, overlapped>>

\* The next sample's company is not there: it is created first.
AddsFirm(r) ==
    /\ seeding[r].at = "adding" /\ seeding[r].todo # {}
    /\ LET kind == Min(seeding[r].todo)  firm == [of |-> kind, by |-> r]
       IN  /\ FirmsOf(seeding[r].known, kind) = {}
           /\ firms' = firms \cup {firm}
           /\ Seeds(r, [seeding[r] EXCEPT !.known = @ \cup {firm}])
    /\ UNCHANGED <<offers, walking, History, overlapped>>

AddsOffer(r) ==
    /\ seeding[r].at = "adding" /\ seeding[r].todo # {}
    /\ LET kind == Min(seeding[r].todo)
       IN  /\ \E firm \in FirmsOf(seeding[r].known, kind) :
                 offers' = offers \cup {[of |-> kind, by |-> r, firm |-> firm]}
           /\ Seeds(r, [seeding[r] EXCEPT !.todo = @ \ {kind}])
    /\ UNCHANGED <<firms, walking, History, overlapped>>

Ends(r) ==
    /\ seeding[r].at = "adding" /\ seeding[r].todo = {} /\ Seeds(r, Answered)
    /\ UNCHANGED <<firms, offers, walking, History, overlapped>>

(***************************************************************************)
(* seed_demo, without a lock.                                              *)
(***************************************************************************)
WalkBegins(r) ==
    /\ walking[r] = Unasked
    /\ walking' = [walking EXCEPT ![r] = [at |-> "firm", known |-> FirmsOf(firms, Pilot)]]
    /\ overlapped' = (overlapped \/ \E o \in Walks : walking[o] \notin {Unasked, Answered})
    /\ UNCHANGED <<firms, offers, seeding, History>>

\* The company as it was found, or a new one.
WalkFirm(r) ==
    /\ walking[r].at = "firm"
    /\ \E firm \in IF walking[r].known = {} THEN {[of |-> Pilot, by |-> r]} ELSE walking[r].known :
        /\ firms' = IF walking[r].known = {} THEN firms \cup {firm} ELSE firms
        /\ walking' = [walking EXCEPT ![r] = [at |-> "offer", firm |-> firm]]
    /\ UNCHANGED <<offers, seeding, History, overlapped>>

\* find_duplicate_discovered_job: the same address.
WalkLooks(r) ==
    /\ walking[r].at = "offer"
    /\ walking' = [walking EXCEPT ![r] =
           IF OffersOf(Pilot) # {} THEN Answered ELSE [at |-> "save", firm |-> walking[r].firm]]
    /\ UNCHANGED <<firms, offers, seeding, History, overlapped>>

WalkSaves(r) ==
    /\ walking[r].at = "save"
    /\ offers' = offers \cup {[of |-> Pilot, by |-> r, firm |-> walking[r].firm]}
    /\ walking' = [walking EXCEPT ![r] = Answered]
    /\ UNCHANGED <<firms, seeding, History, overlapped>>

(***************************************************************************)
(* The user, and the server's end.                                         *)
(***************************************************************************)
Running == \/ \E r \in Bursts : seeding[r].at = "adding"
           \/ \E r \in Walks : walking[r] \notin {Unasked, Answered}

\* delete_company takes the company's jobs along.
DeletesFirm(firm) ==
    /\ firms' = firms \ {firm} /\ offers' = {o \in offers : o.firm # firm}
    /\ deleted' = deleted \cup {firm.of}
    /\ underway' = IF Running THEN underway \cup {firm.of} ELSE underway
    /\ UNCHANGED <<seeding, walking, overlapped>>

\* What was saved stays; the requests are gone, and are never answered.
Stops ==
    /\ Running
    /\ seeding' = [r \in Bursts |->
                      IF seeding[r].at = "adding" THEN [at |-> "lost"] ELSE seeding[r]]
    /\ walking' = [r \in Walks |->
                      IF walking[r] \in {Unasked, Answered} THEN walking[r] ELSE Answered]
    /\ UNCHANGED <<firms, offers, History, overlapped>>

SeedStep(r) == Begins(r) \/ AddsFirm(r) \/ AddsOffer(r) \/ Ends(r)
WalkStep(r) == WalkBegins(r) \/ WalkFirm(r) \/ WalkLooks(r) \/ WalkSaves(r)

SmpNext ==
  /\ \/ \E r \in Bursts : SeedStep(r)
     \/ \E r \in Walks : WalkStep(r)
     \/ \E firm \in firms : DeletesFirm(firm)
     \/ Stops
  /\ Cardinality(deleted') <= MaxDeleted

(***************************************************************************)
(* Properties.                                                             *)
(***************************************************************************)
FirmType == [of : Sample, by : Bursts] \cup [of : {Pilot}, by : Walks]

SmpTypeOK ==
    /\ firms \subseteq FirmType
    /\ offers \subseteq [of : Sample, by : Bursts, firm : FirmType]
                        \cup [of : {Pilot}, by : Walks, firm : FirmType]
    /\ seeding \in [Bursts -> {Unasked, Answered} \cup [at : {"lost"}] \cup
                        [at : {"adding"}, known : SUBSET FirmType, todo : SUBSET Sample]]
    /\ walking \in [Walks -> {Unasked, Answered} \cup [at : {"firm"}, known : SUBSET FirmType]
                        \cup [at : {"offer", "save"}, firm : FirmType]]
    /\ deleted \subseteq Sample \cup {Pilot} /\ underway \subseteq deleted /\ overlapped \in BOOLEAN

AtMostOne(S) == \A x, y \in S : x = y

\* However many requests ask at once, a sample is added once, and so is its
\* company; of the walkthrough's, if no two of them overlap (app.py 2795-2802).
SamplesOnce == \A kind \in Sample \cup {Pilot} :
    \/ kind = Pilot /\ overlapped
    \/ AtMostOne(OffersOf(kind)) /\ AtMostOne(FirmsOf(firms, kind))

\* A sample's company is there, unless it was deleted under a running request,
\* which works on with the companies it found (app.py 2862-2882).
SamplesHaveFirms == \A o \in offers : o.firm \in firms \/ o.of \in underway

\* Who was answered has all samples, if none was deleted; also after a request
\* that was cut short (app.py 2792-2793).
SamplesComplete == \A kind \in Sample :
    (\E r \in Bursts : seeding[r] = Answered) => OffersOf(kind) # {} \/ kind \in deleted

\* Samples are added once, all of them, and with their companies.
SamplesHold == SamplesOnce /\ SamplesHaveFirms /\ SamplesComplete
================================================================================
