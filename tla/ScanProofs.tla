----------------------------- MODULE ScanProofs -----------------------------
(***************************************************************************)
(* Proofs about ScanLifecycle, for every number of users, companies,       *)
(* callers and runs: types, the key discipline (one scan per company),     *)
(* stored outcomes, the concurrency cap, and the refinement of ScanPromise;*)
(* and about Scheduler, which starts scans in the night, for all accounts, *)
(* requests, intervals and legacy files, with any bounded number of deaths *)
(* of the process: types, and that a row in state 'running' is the one the *)
(* loop works on.                                                          *)
(***************************************************************************)
EXTENDS ScanLifecycle, Scheduler, FiniteSetTheorems, TLAPS

\* TypeOK is inductive on its own.
LEMMA InitType == Init => TypeOK
BY DEF Init, TypeOK, IdleCaller, At, CallerRecs, CallerPcs, WorkerPcs, RunStatus, Terminal

LEMMA NextType == TypeOK /\ [Next]_vars => TypeOK'
<1> SUFFICES ASSUME TypeOK, [Next]_vars PROVE TypeOK'
    OBVIOUS
<1> USE OwnerAssumption, DomainAssumption, NoneAssumption DEF TypeOK
<1>1. ASSUME NEW k \in Callers, NEW c \in Companies, NEW r \in Runs, NEW ok \in Outcome,
             AnswerBusy(k, c, r, ok)
      PROVE  TypeOK'
    BY <1>1 DEF AnswerBusy, SaveRun, RunStatus, Terminal, quotaVars
<1>2. ASSUME NEW k \in Callers, NEW c \in Companies, NEW url \in BOOLEAN, Claim(k, c, url)
      PROVE  TypeOK'
    BY <1>2 DEF Claim, At, CallerRecs, CallerPcs, quotaVars, runVars
<1>3. ASSUME NEW k \in Callers, CallerStep(k)
      PROVE  TypeOK'
  <2>1. CASE Reserve(k)
      BY <2>1 DEF Reserve, At, CallerRecs, CallerPcs, runVars
  <2>2. CASE RefuseQuota(k)
      BY <2>2 DEF RefuseQuota, IdleCaller, At, CallerRecs, CallerPcs, quotaVars, runVars
  <2>3. ASSUME NEW r \in Runs, NEW ok \in Outcome, SaveQueued(k, r, ok)
        PROVE  TypeOK'
      BY <2>3 DEF SaveQueued, SaveRun, IdleCaller, At, CallerRecs, CallerPcs, RunStatus,
                  Terminal, quotaVars
  <2>4. ASSUME NEW ok \in Outcome, Spawn(k, ok)
        PROVE  TypeOK'
      BY <2>4 DEF Spawn, IdleCaller, At, CallerRecs, CallerPcs, WorkerPcs, quotaVars, runVars
  <2>5. ASSUME NEW counted \in BOOLEAN, ReserveBreaks(k, counted)
        PROVE  TypeOK'
      BY <2>5 DEF ReserveBreaks, IdleCaller, At, CallerRecs, CallerPcs, runVars
  <2> QED
      BY <1>3, <2>1, <2>2, <2>3, <2>4, <2>5 DEF CallerStep
<1>4. ASSUME NEW r \in Runs, WorkerStep(r)
      PROVE  TypeOK'
  <2> USE DEF WorkerPcs, RunStatus, Terminal, SaveRun, quotaVars, runVars
  <2>1. CASE ScanCompanyGone(r)
      BY <2>1 DEF ScanCompanyGone
  <2>2. ASSUME NEW ok \in Outcome, ScanRejected(r, ok) PROVE TypeOK'
      BY <2>2 DEF ScanRejected
  <2>3. ASSUME NEW ok \in Outcome, ScanStarts(r, ok) PROVE TypeOK'
      BY <2>3 DEF ScanStarts
  <2>4. ASSUME NEW ok \in Outcome, ScanEnds(r, ok) PROVE TypeOK'
      BY <2>4 DEF ScanEnds
  <2>5. CASE ScanRaises(r)
      BY <2>5 DEF ScanRaises
  <2>6. ASSUME NEW ok \in Outcome, ScanFails(r, ok) PROVE TypeOK'
      BY <2>6 DEF ScanFails
  <2>7. CASE ReleaseKey(r)
      BY <2>7 DEF ReleaseKey
  <2>8. CASE ReleaseSlot(r)
    <3> DEFINE u == Owner[runCompany[r]]
    <3>1. activePerUser' \in [Users -> Nat]
      <4>1. CASE u \in Users
          BY <2>8, <4>1 DEF ReleaseSlot
      <4>2. CASE u \notin Users
          BY <2>8, <4>2 DEF ReleaseSlot
      <4> QED
          BY <4>1, <4>2
    <3> QED
        BY <2>8, <3>1 DEF ReleaseSlot
  <2>9. CASE \E ok \in Outcome : ScanRecords(r, ok)
      BY <2>9 DEF ScanRecords
  <2> QED
      BY <1>4, <2>1, <2>2, <2>3, <2>4, <2>5, <2>6, <2>7, <2>8, <2>9 DEF WorkerStep
<1>5. ASSUME NEW c \in Companies, DeleteCompany(c)
      PROVE  TypeOK'
    BY <1>5 DEF DeleteCompany, RunStatus, quotaVars
<1>6. CASE NewDay
    BY <1>6 DEF NewDay, runVars
<1>7. CASE NewHour
    BY <1>7 DEF NewHour, runVars
<1>8. CASE Restart
    BY <1>8 DEF Restart, IdleCaller, At, CallerRecs, CallerPcs, WorkerPcs
<1>9. CASE UNCHANGED vars
    BY <1>9 DEF vars, quotaVars, runVars
<1> QED
    BY <1>1, <1>2, <1>3, <1>4, <1>5, <1>6, <1>7, <1>8, <1>9 DEF Next

\* Every reachable state is well typed.
THEOREM TypeCorrect == Spec => []TypeOK
BY InitType, NextType, PTL DEF Spec

-----------------------------------------------------------------------------
(* The key discipline *)

LEMMA InitKeys == Init => KeyInv
BY NoneAssumption DEF Init, KeyInv, RunsOwned, KeysHeld, OneScanPerCompany, HoldsKey,
   CallerHoldsKey, IdleCaller, At

LEMMA NextKeys == TypeOK /\ KeyInv /\ [Next]_vars => KeyInv'
<1> SUFFICES ASSUME TypeOK, KeyInv, [Next]_vars PROVE KeyInv'
    OBVIOUS
<1> USE NoneAssumption
    DEF TypeOK, KeyInv, RunsOwned, KeysHeld, OneScanPerCompany, HoldsKey, CallerHoldsKey
<1>1. ASSUME NEW k \in Callers, NEW c \in Companies, NEW r \in Runs, NEW ok \in Outcome,
             AnswerBusy(k, c, r, ok)
      PROVE  KeyInv'
    BY <1>1 DEF AnswerBusy, Fresh
<1>2. ASSUME NEW k \in Callers, NEW c \in Companies, NEW url \in BOOLEAN, Claim(k, c, url)
      PROVE  KeyInv'
    BY <1>2 DEF Claim, IdleCaller, At, runVars
<1>3. ASSUME NEW k \in Callers, CallerStep(k)
      PROVE  KeyInv'
  <2>1. CASE Reserve(k)
      BY <2>1 DEF Reserve, At, runVars
  <2>2. CASE RefuseQuota(k)
      BY <2>2 DEF RefuseQuota, IdleCaller, At, runVars
  <2>3. ASSUME NEW r \in Runs, NEW ok \in Outcome, SaveQueued(k, r, ok)
        PROVE  KeyInv'
      BY <2>3 DEF SaveQueued, Fresh, IdleCaller, At
  <2>4. ASSUME NEW ok \in Outcome, Spawn(k, ok)
        PROVE  KeyInv'
      BY <2>4 DEF Spawn, IdleCaller, At, runVars
  <2>5. ASSUME NEW counted \in BOOLEAN, ReserveBreaks(k, counted)
        PROVE  KeyInv'
      BY <2>5 DEF ReserveBreaks, IdleCaller, At, runVars
  <2> QED
      BY <1>3, <2>1, <2>2, <2>3, <2>4, <2>5 DEF CallerStep
<1>4. ASSUME NEW r \in Runs, WorkerStep(r)
      PROVE  KeyInv'
  <2> USE DEF runVars
  <2>1. CASE ScanCompanyGone(r)
      BY <2>1 DEF ScanCompanyGone
  <2>2. ASSUME NEW ok \in Outcome, ScanRejected(r, ok) PROVE KeyInv'
      BY <2>2 DEF ScanRejected
  <2>3. ASSUME NEW ok \in Outcome, ScanStarts(r, ok) PROVE KeyInv'
      BY <2>3 DEF ScanStarts
  <2>4. ASSUME NEW ok \in Outcome, ScanEnds(r, ok) PROVE KeyInv'
      BY <2>4 DEF ScanEnds
  <2>5. CASE ScanRaises(r)
      BY <2>5 DEF ScanRaises
  <2>6. ASSUME NEW ok \in Outcome, ScanFails(r, ok) PROVE KeyInv'
      BY <2>6 DEF ScanFails
  <2>7. CASE ReleaseKey(r)
      BY <2>7 DEF ReleaseKey
  <2>8. CASE ReleaseSlot(r)
      BY <2>8 DEF ReleaseSlot
  <2>9. CASE \E ok \in Outcome : ScanRecords(r, ok)
      BY <2>9 DEF ScanRecords
  <2> QED
      BY <1>4, <2>1, <2>2, <2>3, <2>4, <2>5, <2>6, <2>7, <2>8, <2>9 DEF WorkerStep
<1>5. ASSUME NEW c \in Companies, DeleteCompany(c)
      PROVE  KeyInv'
    BY <1>5 DEF DeleteCompany
<1>6. CASE NewDay
    BY <1>6 DEF NewDay, runVars
<1>7. CASE NewHour
    BY <1>7 DEF NewHour, runVars
<1>8. CASE Restart
    BY <1>8 DEF Restart, IdleCaller, At
<1>9. CASE UNCHANGED vars
    BY <1>9 DEF vars, quotaVars, runVars
<1> HIDE DEF TypeOK, KeyInv, RunsOwned, KeysHeld, OneScanPerCompany, HoldsKey, CallerHoldsKey
<1> QED
    BY <1>1, <1>2, <1>3, <1>4, <1>5, <1>6, <1>7, <1>8, <1>9 DEF Next

LEMMA KeysInvariant == Spec => [](TypeOK /\ KeyInv)
<1>1. Init => TypeOK /\ KeyInv
    BY InitType, InitKeys
<1>2. TypeOK /\ KeyInv /\ [Next]_vars => (TypeOK /\ KeyInv)'
    BY NextType, NextKeys
<1> QED
    BY <1>1, <1>2, PTL DEF Spec

\* quotas.py's claim that the per-company lock keeps a company from being
\* scanned twice at once, whatever saves fail and whenever the process restarts.
THEOREM OneScan == Spec => []OneScanPerCompany
<1>1. KeyInv => OneScanPerCompany
    BY DEF KeyInv
<1> QED
    BY KeysInvariant, <1>1, PTL

-----------------------------------------------------------------------------
(* Stored outcomes *)

LEMMA InitOutcome == Init => OutcomeInv
BY DEF Init, OutcomeInv, Terminal, IdleCaller, At

\* One lemma serves both the invariant and the action property.
LEMMA NextOutcome ==
    ASSUME TypeOK, KeyInv, OutcomeInv, [Next]_vars
    PROVE  /\ OutcomeInv'
           /\ \A r \in Runs : diskRun[r] \in Terminal => diskRun'[r] \in Degraded(diskRun[r])
<1> DEFINE Final == \A r \in Runs : diskRun[r] \in Terminal => diskRun'[r] \in Degraded(diskRun[r])
<1> SUFFICES OutcomeInv' /\ Final
    OBVIOUS
<1> USE NoneAssumption DEF TypeOK, KeyInv, RunsOwned, OutcomeInv, Terminal, Degraded, Fresh
<1>1. ASSUME NEW k \in Callers, NEW c \in Companies, NEW r \in Runs, NEW ok \in Outcome,
             AnswerBusy(k, c, r, ok)
      PROVE  OutcomeInv' /\ Final
    BY <1>1 DEF AnswerBusy, SaveRun
<1>2. ASSUME NEW k \in Callers, NEW c \in Companies, NEW url \in BOOLEAN, Claim(k, c, url)
      PROVE  OutcomeInv' /\ Final
    BY <1>2 DEF Claim, At, runVars
<1>3. ASSUME NEW k \in Callers, CallerStep(k)
      PROVE  OutcomeInv' /\ Final
  <2>1. CASE Reserve(k)
      BY <2>1 DEF Reserve, At, runVars
  <2>2. CASE RefuseQuota(k)
      BY <2>2 DEF RefuseQuota, IdleCaller, At, runVars
  <2>3. ASSUME NEW r \in Runs, NEW ok \in Outcome, SaveQueued(k, r, ok)
        PROVE  OutcomeInv' /\ Final
      BY <2>3 DEF SaveQueued, SaveRun, IdleCaller, At
  <2>4. ASSUME NEW ok \in Outcome, Spawn(k, ok)
        PROVE  OutcomeInv' /\ Final
      BY <2>4 DEF Spawn, IdleCaller, At, runVars
  <2>5. ASSUME NEW counted \in BOOLEAN, ReserveBreaks(k, counted)
        PROVE  OutcomeInv' /\ Final
      BY <2>5 DEF ReserveBreaks, IdleCaller, At, runVars
  <2> QED
      BY <1>3, <2>1, <2>2, <2>3, <2>4, <2>5 DEF CallerStep
<1>4. ASSUME NEW r \in Runs, WorkerStep(r)
      PROVE  OutcomeInv' /\ Final
  <2> USE DEF runVars, SaveRun, Outcome
  <2>1. CASE ScanCompanyGone(r)
      BY <2>1 DEF ScanCompanyGone
  <2>2. ASSUME NEW ok \in Outcome, ScanRejected(r, ok) PROVE OutcomeInv' /\ Final
      BY <2>2 DEF ScanRejected
  <2>3. ASSUME NEW ok \in Outcome, ScanStarts(r, ok) PROVE OutcomeInv' /\ Final
      BY <2>3 DEF ScanStarts
  <2>4. ASSUME NEW ok \in Outcome, ScanEnds(r, ok) PROVE OutcomeInv' /\ Final
      BY <2>4 DEF ScanEnds
  <2>5. CASE ScanRaises(r)
      BY <2>5 DEF ScanRaises
  <2>6. ASSUME NEW ok \in Outcome, ScanFails(r, ok) PROVE OutcomeInv' /\ Final
      BY <2>6 DEF ScanFails
  <2>7. CASE ReleaseKey(r)
      BY <2>7 DEF ReleaseKey
  <2>8. CASE ReleaseSlot(r)
      BY <2>8 DEF ReleaseSlot
  <2>9. CASE \E ok \in Outcome : ScanRecords(r, ok)
      BY <2>9 DEF ScanRecords
  <2> QED
      BY <1>4, <2>1, <2>2, <2>3, <2>4, <2>5, <2>6, <2>7, <2>8, <2>9 DEF WorkerStep
<1>5. ASSUME NEW c \in Companies, DeleteCompany(c)
      PROVE  OutcomeInv' /\ Final
    BY <1>5 DEF DeleteCompany
<1>6. CASE NewDay
    BY <1>6 DEF NewDay, runVars
<1>7. CASE NewHour
    BY <1>7 DEF NewHour, runVars
<1>8. CASE Restart
    BY <1>8 DEF Restart, IdleCaller, At
<1>9. CASE UNCHANGED vars
    BY <1>9 DEF vars, quotaVars, runVars
<1> HIDE DEF TypeOK, KeyInv, RunsOwned, OutcomeInv, Terminal, Degraded, Fresh, Final
<1> QED
    BY <1>1, <1>2, <1>3, <1>4, <1>5, <1>6, <1>7, <1>8, <1>9 DEF Next

\* A terminal status that reached SQLite is never undone: at most "failed"
\* replaces the outcome of a scan whose last record could not be saved.
THEOREM StoredOutcomes == Spec => OutcomesOnlyDegrade
<1>1. Init => TypeOK /\ KeyInv /\ OutcomeInv
    BY InitType, InitKeys, InitOutcome
<1>2. TypeOK /\ KeyInv /\ OutcomeInv /\ [Next]_vars => (TypeOK /\ KeyInv /\ OutcomeInv)'
    BY NextType, NextKeys, NextOutcome
<1>3. TypeOK /\ KeyInv /\ OutcomeInv /\ [Next]_vars =>
        [\A r \in Runs : diskRun[r] \in Terminal => diskRun'[r] \in Degraded(diskRun[r])]_vars
    BY NextOutcome
<1> QED
    BY <1>1, <1>2, <1>3, PTL DEF Spec, OutcomesOnlyDegrade

-----------------------------------------------------------------------------
(* Concurrency slots *)

LEMMA SlotSetsFinite ==
    ASSUME NEW u \in Users
    PROVE  /\ IsFiniteSet(SlotThreads(u)) /\ Cardinality(SlotThreads(u)) \in Nat
           /\ IsFiniteSet(SlotCallers(u)) /\ Cardinality(SlotCallers(u)) \in Nat
<1>1. SlotThreads(u) \in SUBSET Runs /\ SlotCallers(u) \in SUBSET Callers
    BY DEF SlotThreads, SlotCallers
<1>2. IsFiniteSet(SlotThreads(u)) /\ IsFiniteSet(SlotCallers(u))
    BY <1>1, FiniteAssumption, FS_Subset
<1> QED
    BY <1>2, FS_CardinalityType

LEMMA AddOne ==
    ASSUME NEW S, NEW x, IsFiniteSet(S)
    PROVE  /\ IsFiniteSet(S \cup {x})
           /\ Cardinality(S \cup {x}) \in Nat
           /\ Cardinality(S \cup {x}) <= Cardinality(S) + 1
           /\ x \notin S => Cardinality(S \cup {x}) = Cardinality(S) + 1
<1>1. IsFiniteSet(S \cup {x})
      /\ Cardinality(S \cup {x}) = IF x \in S THEN Cardinality(S) ELSE Cardinality(S) + 1
    BY FS_AddElement
<1>2. Cardinality(S) \in Nat
    BY FS_CardinalityType
<1> QED
    BY <1>1, <1>2

LEMMA RemoveOne ==
    ASSUME NEW S, NEW x, IsFiniteSet(S)
    PROVE  /\ IsFiniteSet(S \ {x})
           /\ Cardinality(S \ {x}) \in Nat
           /\ Cardinality(S \ {x}) <= Cardinality(S)
           /\ x \in S => Cardinality(S \ {x}) = Cardinality(S) - 1
<1>1. IsFiniteSet(S \ {x})
      /\ Cardinality(S \ {x}) = IF x \in S THEN Cardinality(S) - 1 ELSE Cardinality(S)
    BY FS_RemoveElement
<1>2. Cardinality(S) \in Nat /\ Cardinality(S \ {x}) \in Nat
    BY <1>1, FS_CardinalityType
<1> QED
    BY <1>1, <1>2

\* The slots of u are unchanged by a step that leaves both of its sets alone.
LEMMA SameSlots ==
    ASSUME NEW u \in Users, SlotThreads(u)' = SlotThreads(u), SlotCallers(u)' = SlotCallers(u)
    PROVE  SlotsInUse(u)' = SlotsInUse(u)
BY DEF SlotsInUse

LEMMA InitSlots == Init => SlotsCovered
<1> SUFFICES ASSUME Init, NEW u \in Users
             PROVE  SlotsInUse(u) <= activePerUser[u] /\ activePerUser[u] <= ActiveLimit
    BY DEF SlotsCovered
<1>1. SlotThreads(u) = {} /\ SlotCallers(u) = {}
    BY DEF Init, SlotThreads, SlotCallers, HoldsSlot, HoldsKey, CallerHoldsSlot, IdleCaller, At
<1> QED
    BY <1>1, FS_EmptySet, LimitAssumption DEF Init, SlotsInUse

LEMMA NextSlots == TypeOK /\ KeyInv /\ SlotsCovered /\ [Next]_vars => SlotsCovered'
<1> SUFFICES ASSUME TypeOK, KeyInv, SlotsCovered, [Next]_vars, NEW u \in Users
             PROVE  SlotsInUse(u)' <= activePerUser'[u] /\ activePerUser'[u] <= ActiveLimit
    BY DEF SlotsCovered
<1> DEFINE Covered == SlotsInUse(u)' <= activePerUser'[u] /\ activePerUser'[u] <= ActiveLimit
<1>a. /\ Cardinality(SlotThreads(u)) \in Nat /\ Cardinality(SlotCallers(u)) \in Nat
      /\ IsFiniteSet(SlotThreads(u)) /\ IsFiniteSet(SlotCallers(u))
    BY SlotSetsFinite
<1>b. /\ SlotsInUse(u) <= activePerUser[u] /\ activePerUser[u] <= ActiveLimit
      /\ activePerUser[u] \in Nat /\ SlotsInUse(u) \in Nat
    BY <1>a DEF SlotsCovered, SlotsInUse, TypeOK
<1> USE NoneAssumption, OwnerAssumption, LimitAssumption
    DEF TypeOK, KeyInv, RunsOwned, HoldsSlot, HoldsKey, CallerHoldsSlot
\* A step that leaves the counter and u's threads and callers alone, or only
\* loses some of them, keeps the slots covered.
<1>c. ASSUME SlotThreads(u)' = SlotThreads(u), SlotCallers(u)' = SlotCallers(u),
             activePerUser'[u] = activePerUser[u]
      PROVE  Covered
    BY <1>b, <1>c, SameSlots
<1>1. ASSUME NEW k \in Callers, NEW c \in Companies, NEW r \in Runs, NEW ok \in Outcome,
             AnswerBusy(k, c, r, ok)
      PROVE  Covered
  <2>1. SlotThreads(u)' = SlotThreads(u) /\ SlotCallers(u)' = SlotCallers(u)
      BY <1>1 DEF AnswerBusy, Fresh, SlotThreads, SlotCallers
  <2> QED
      BY <2>1, <1>1, <1>c DEF AnswerBusy, quotaVars
<1>2. ASSUME NEW k \in Callers, NEW c \in Companies, NEW url \in BOOLEAN, Claim(k, c, url)
      PROVE  Covered
  <2>1. SlotThreads(u)' = SlotThreads(u) /\ SlotCallers(u)' = SlotCallers(u)
      BY <1>2 DEF Claim, IdleCaller, At, runVars, SlotThreads, SlotCallers
  <2> QED
      BY <2>1, <1>2, <1>c DEF Claim, quotaVars
<1>3. ASSUME NEW k \in Callers, Reserve(k)
      PROVE  Covered
  <2>1. SlotThreads(u)' = SlotThreads(u)
      BY <1>3 DEF Reserve, runVars, SlotThreads
  <2>2. CASE Owner[caller[k].company] = u
    <3>1. SlotCallers(u)' = SlotCallers(u) \cup {k} /\ k \notin SlotCallers(u)
        BY <1>3, <2>2 DEF Reserve, At, SlotCallers
    <3>2. Cardinality(SlotCallers(u)') = Cardinality(SlotCallers(u)) + 1
        BY <3>1, <1>a, AddOne
    <3>3. activePerUser'[u] = activePerUser[u] + 1 /\ activePerUser[u] < ActiveLimit
        BY <1>3, <2>2 DEF Reserve, QuotaLeft
    <3> QED
        BY <2>1, <3>2, <3>3, <1>a, <1>b DEF SlotsInUse
  <2>3. CASE Owner[caller[k].company] # u
    <3>1. SlotCallers(u)' = SlotCallers(u)
        BY <1>3, <2>3 DEF Reserve, At, SlotCallers
    <3> QED
        BY <2>1, <3>1, <2>3, <1>3, <1>c DEF Reserve
  <2> QED
      BY <2>2, <2>3
<1>4. ASSUME NEW k \in Callers, RefuseQuota(k)
      PROVE  Covered
  <2>1. SlotThreads(u)' = SlotThreads(u) /\ SlotCallers(u)' = SlotCallers(u)
      BY <1>4 DEF RefuseQuota, IdleCaller, At, runVars, SlotThreads, SlotCallers
  <2> QED
      BY <2>1, <1>4, <1>c DEF RefuseQuota, quotaVars
<1>5. ASSUME NEW k \in Callers, NEW r \in Runs, NEW ok \in Outcome, SaveQueued(k, r, ok)
      PROVE  Covered
  <2>1. SlotThreads(u)' = SlotThreads(u)
      BY <1>5 DEF SaveQueued, Fresh, SlotThreads
  <2>2. activePerUser' = activePerUser
      BY <1>5 DEF SaveQueued, quotaVars
  <2>3. CASE ok
    <3>1. SlotCallers(u)' = SlotCallers(u)
        BY <1>5, <2>3 DEF SaveQueued, At, SlotCallers
    <3> QED
        BY <2>1, <2>2, <3>1, <1>c
  <2>4. CASE ~ ok
    <3>1. SlotCallers(u)' = SlotCallers(u) \ {k}
        BY <1>5, <2>4 DEF SaveQueued, IdleCaller, At, SlotCallers
    <3>2. Cardinality(SlotCallers(u)') <= Cardinality(SlotCallers(u))
          /\ Cardinality(SlotCallers(u)') \in Nat
        BY <3>1, <1>a, RemoveOne
    <3> QED
        BY <2>1, <2>2, <3>2, <1>a, <1>b DEF SlotsInUse
  <2> QED
      BY <2>3, <2>4
<1>6. ASSUME NEW k \in Callers, NEW ok \in Outcome, Spawn(k, ok)
      PROVE  Covered
  <2> DEFINE s == caller[k].run
  <2>0. s \in Runs /\ runCompany[s] = caller[k].company /\ worker[s] = "none"
        /\ caller[k].pc = "saved" /\ runCompany' = runCompany /\ activePerUser' = activePerUser
      BY <1>6 DEF Spawn, quotaVars, runVars
  <2>1. CASE Owner[runCompany[s]] # u
    <3>1. SlotCallers(u)' = SlotCallers(u)
        BY <1>6, <2>0, <2>1 DEF Spawn, IdleCaller, At, SlotCallers
    <3>2. SlotThreads(u)' = SlotThreads(u)
        BY <1>6, <2>0, <2>1 DEF Spawn, SlotThreads
    <3> QED
        BY <2>0, <3>1, <3>2, <1>c
  <2>2. CASE Owner[runCompany[s]] = u
    <3>1. SlotCallers(u)' = SlotCallers(u) \ {k} /\ k \in SlotCallers(u)
        BY <1>6, <2>0, <2>2 DEF Spawn, IdleCaller, At, SlotCallers
    <3>2. Cardinality(SlotCallers(u)') = Cardinality(SlotCallers(u)) - 1
        BY <3>1, <1>a, RemoveOne
    <3>3. SlotThreads(u)' \subseteq SlotThreads(u) \cup {s}
        BY <1>6, <2>0 DEF Spawn, SlotThreads
    <3>4. /\ IsFiniteSet(SlotThreads(u) \cup {s})
          /\ Cardinality(SlotThreads(u) \cup {s}) <= Cardinality(SlotThreads(u)) + 1
        BY <1>a, AddOne
    <3>5. Cardinality(SlotThreads(u)') <= Cardinality(SlotThreads(u)) + 1
          /\ Cardinality(SlotThreads(u)') \in Nat
        BY <3>3, <3>4, <1>a, FS_Subset, FS_CardinalityType
    <3> QED
        BY <2>0, <3>2, <3>5, <1>a, <1>b DEF SlotsInUse
  <2> QED
      BY <2>1, <2>2
<1>7. ASSUME NEW r \in Runs, WorkerStep(r), ~ ReleaseSlot(r)
      PROVE  Covered
  <2> USE DEF quotaVars, runVars, SlotThreads, SlotCallers
  <2>1. /\ SlotThreads(u)' = SlotThreads(u) /\ SlotCallers(u)' = SlotCallers(u)
        /\ activePerUser' = activePerUser
    <3> USE DEF SaveRun
    <3>1. CASE ScanCompanyGone(r)
        BY <3>1 DEF ScanCompanyGone
    <3>2. CASE \E ok \in Outcome : ScanRejected(r, ok)
        BY <3>2 DEF ScanRejected
    <3>3. CASE \E ok \in Outcome : ScanStarts(r, ok)
        BY <3>3 DEF ScanStarts
    <3>4. CASE \E ok \in Outcome : ScanEnds(r, ok)
        BY <3>4 DEF ScanEnds
    <3>5. CASE ScanRaises(r)
        BY <3>5 DEF ScanRaises
    <3>6. CASE \E ok \in Outcome : ScanFails(r, ok)
        BY <3>6 DEF ScanFails
    <3>7. CASE ReleaseKey(r)
        BY <3>7 DEF ReleaseKey
    <3>8. CASE \E ok \in Outcome : ScanRecords(r, ok)
        BY <3>8 DEF ScanRecords
    <3> QED
        BY <1>7, <3>1, <3>2, <3>3, <3>4, <3>5, <3>6, <3>7, <3>8 DEF WorkerStep
  <2> QED
      BY <2>1, <1>c
<1>8. ASSUME NEW r \in Runs, ReleaseSlot(r)
      PROVE  Covered
  <2>0. runCompany[r] \in Companies /\ runCompany' = runCompany /\ caller' = caller
      BY <1>8 DEF ReleaseSlot, runVars
  <2>1. SlotCallers(u)' = SlotCallers(u)
      BY <2>0 DEF SlotCallers
  <2>2. CASE Owner[runCompany[r]] # u
    <3>1. SlotThreads(u)' = SlotThreads(u)
        BY <1>8, <2>0, <2>2 DEF ReleaseSlot, SlotThreads
    <3>2. activePerUser'[u] = activePerUser[u]
        BY <1>8, <2>2 DEF ReleaseSlot
    <3> QED
        BY <2>1, <3>1, <3>2, <1>c
  <2>3. CASE Owner[runCompany[r]] = u
    <3>1. SlotThreads(u)' = SlotThreads(u) \ {r} /\ r \in SlotThreads(u)
        BY <1>8, <2>0, <2>3 DEF ReleaseSlot, SlotThreads
    <3>2. Cardinality(SlotThreads(u)') = Cardinality(SlotThreads(u)) - 1
        BY <3>1, <1>a, RemoveOne
    <3>3. Cardinality(SlotThreads(u)') \in Nat
        BY <3>1, <1>a, RemoveOne
    <3>4. activePerUser[u] > 0
        BY <3>2, <3>3, <1>a, <1>b DEF SlotsInUse
    <3>5. activePerUser'[u] = activePerUser[u] - 1
        BY <1>8, <2>3, <3>4 DEF ReleaseSlot
    <3> QED
        BY <2>1, <3>2, <3>5, <1>a, <1>b DEF SlotsInUse
  <2> QED
      BY <2>2, <2>3
<1>9. ASSUME NEW c \in Companies, DeleteCompany(c)
      PROVE  Covered
  <2>1. /\ SlotThreads(u)' = SlotThreads(u) /\ SlotCallers(u)' = SlotCallers(u)
        /\ activePerUser' = activePerUser
      BY <1>9 DEF DeleteCompany, SlotThreads, SlotCallers, quotaVars
  <2> QED
      BY <2>1, <1>c
<1>10. CASE NewDay \/ NewHour
  <2>1. /\ SlotThreads(u)' = SlotThreads(u) /\ SlotCallers(u)' = SlotCallers(u)
        /\ activePerUser' = activePerUser
      BY <1>10 DEF NewDay, NewHour, SlotThreads, SlotCallers, runVars
  <2> QED
      BY <2>1, <1>c
<1>11. CASE Restart
  <2>1. SlotThreads(u)' = {} /\ SlotCallers(u)' = {}
      BY <1>11 DEF Restart, IdleCaller, At, SlotThreads, SlotCallers
  <2>2. SlotsInUse(u)' = 0
      BY <2>1, FS_EmptySet DEF SlotsInUse
  <2> QED
      BY <2>2, <1>11 DEF Restart
<1>12. ASSUME NEW k \in Callers, NEW counted \in BOOLEAN, ReserveBreaks(k, counted)
       PROVE  Covered
  <2>1. SlotThreads(u)' = SlotThreads(u) /\ SlotCallers(u)' = SlotCallers(u)
      BY <1>12 DEF ReserveBreaks, IdleCaller, At, runVars, SlotThreads, SlotCallers
  <2>2. CASE activePerUser'[u] = activePerUser[u]
      BY <2>1, <2>2, <1>c
  <2>3. CASE activePerUser'[u] # activePerUser[u]
    <3>1. activePerUser'[u] = activePerUser[u] + 1 /\ activePerUser[u] < ActiveLimit
        BY <1>12, <2>3 DEF ReserveBreaks, QuotaLeft
    <3> QED
        BY <2>1, <3>1, <1>b, SameSlots
  <2> QED
      BY <2>2, <2>3
<1>13. CASE UNCHANGED vars
  <2>1. /\ SlotThreads(u)' = SlotThreads(u) /\ SlotCallers(u)' = SlotCallers(u)
        /\ activePerUser' = activePerUser
      BY <1>13 DEF vars, quotaVars, runVars, SlotThreads, SlotCallers
  <2> QED
      BY <2>1, <1>c
<1> QED
  <2>1. CASE \E k \in Callers : CallerStep(k)
      BY <2>1, <1>3, <1>4, <1>5, <1>6, <1>12 DEF CallerStep
  <2>2. CASE \E r \in Runs : WorkerStep(r)
      BY <2>2, <1>7, <1>8
  <2> QED
      BY <1>1, <1>2, <2>1, <2>2, <1>9, <1>10, <1>11, <1>13 DEF Next

\* "You can run at most N scans at once" holds of the threads themselves: the
\* in-memory counter never undercounts them, through failed saves and restarts.
THEOREM ConcurrencyCap == Spec => []SlotsCovered
<1>1. Init => TypeOK /\ KeyInv /\ SlotsCovered
    BY InitType, InitKeys, InitSlots
<1>2. TypeOK /\ KeyInv /\ SlotsCovered /\ [Next]_vars => (TypeOK /\ KeyInv /\ SlotsCovered)'
    BY NextType, NextKeys, NextSlots
<1> QED
    BY <1>1, <1>2, PTL DEF Spec

\* While no save and no thread start fails, every slot taken is given back.
LEMMA NextExact ==
    ASSUME ~ FaultsOn, TypeOK, KeyInv, SlotsExact, [Next]_vars PROVE SlotsExact'
<1> SUFFICES ASSUME NEW u \in Users PROVE activePerUser'[u] = SlotsInUse(u)'
    BY DEF SlotsExact
<1> DEFINE Exact == activePerUser'[u] = SlotsInUse(u)'
<1>a. /\ Cardinality(SlotThreads(u)) \in Nat /\ Cardinality(SlotCallers(u)) \in Nat
      /\ IsFiniteSet(SlotThreads(u)) /\ IsFiniteSet(SlotCallers(u))
    BY SlotSetsFinite
<1>b. activePerUser[u] = SlotsInUse(u) /\ activePerUser[u] \in Nat
    BY DEF SlotsExact, TypeOK
<1>0. Outcome = {TRUE}
    BY DEF Outcome
<1> USE NoneAssumption, OwnerAssumption
    DEF TypeOK, KeyInv, RunsOwned, HoldsSlot, HoldsKey, CallerHoldsSlot
<1>c. ASSUME SlotThreads(u)' = SlotThreads(u), SlotCallers(u)' = SlotCallers(u),
             activePerUser'[u] = activePerUser[u]
      PROVE  Exact
    BY <1>b, <1>c, SameSlots
<1>1. ASSUME NEW k \in Callers, Reserve(k) PROVE Exact
  <2>1. SlotThreads(u)' = SlotThreads(u)
      BY <1>1 DEF Reserve, runVars, SlotThreads
  <2>2. CASE Owner[caller[k].company] = u
    <3>1. SlotCallers(u)' = SlotCallers(u) \cup {k} /\ k \notin SlotCallers(u)
        BY <1>1, <2>2 DEF Reserve, At, SlotCallers
    <3>2. Cardinality(SlotCallers(u)') = Cardinality(SlotCallers(u)) + 1
        BY <3>1, <1>a, AddOne
    <3>3. activePerUser'[u] = activePerUser[u] + 1
        BY <1>1, <2>2 DEF Reserve
    <3> QED
        BY <2>1, <3>2, <3>3, <1>a, <1>b DEF SlotsInUse
  <2>3. CASE Owner[caller[k].company] # u
    <3>1. SlotCallers(u)' = SlotCallers(u)
        BY <1>1, <2>3 DEF Reserve, At, SlotCallers
    <3> QED
        BY <2>1, <3>1, <2>3, <1>1, <1>c DEF Reserve
  <2> QED
      BY <2>2, <2>3
<1>2. ASSUME NEW k \in Callers, NEW r \in Runs, SaveQueued(k, r, TRUE) PROVE Exact
  <2>1. SlotThreads(u)' = SlotThreads(u) /\ SlotCallers(u)' = SlotCallers(u)
      BY <1>2 DEF SaveQueued, Fresh, At, SlotThreads, SlotCallers
  <2> QED
      BY <1>2, <2>1, <1>c DEF SaveQueued, quotaVars
<1>3. ASSUME NEW k \in Callers, Spawn(k, TRUE) PROVE Exact
  <2> DEFINE s == caller[k].run
  <2>1. /\ s \in Runs /\ runCompany[s] = caller[k].company /\ worker[s] = "none"
        /\ caller[k].pc = "saved" /\ runCompany' = runCompany /\ activePerUser' = activePerUser
      BY <1>3 DEF Spawn, quotaVars, runVars
  <2>2. CASE Owner[runCompany[s]] # u
    <3>1. SlotCallers(u)' = SlotCallers(u)
        BY <1>3, <2>1, <2>2 DEF Spawn, IdleCaller, At, SlotCallers
    <3>2. SlotThreads(u)' = SlotThreads(u)
        BY <1>3, <2>1, <2>2 DEF Spawn, SlotThreads
    <3> QED
        BY <2>1, <3>1, <3>2, <1>c
  <2>3. CASE Owner[runCompany[s]] = u
    <3>1. SlotCallers(u)' = SlotCallers(u) \ {k} /\ k \in SlotCallers(u)
        BY <1>3, <2>1, <2>3 DEF Spawn, IdleCaller, At, SlotCallers
    <3>2. Cardinality(SlotCallers(u)') = Cardinality(SlotCallers(u)) - 1
        BY <3>1, <1>a, RemoveOne
    <3>3. SlotThreads(u)' = SlotThreads(u) \cup {s} /\ s \notin SlotThreads(u)
        BY <1>3, <2>1, <2>3 DEF Spawn, SlotThreads
    <3>4. Cardinality(SlotThreads(u)') = Cardinality(SlotThreads(u)) + 1
        BY <3>3, <1>a, AddOne
    <3> QED
        BY <2>1, <3>2, <3>4, <1>a, <1>b DEF SlotsInUse
  <2> QED
      BY <2>2, <2>3
<1>4. ASSUME NEW r \in Runs, WorkerStep(r), ~ ReleaseSlot(r) PROVE Exact
  <2> USE DEF quotaVars, runVars, SlotThreads, SlotCallers
  <2>1. /\ SlotThreads(u)' = SlotThreads(u) /\ SlotCallers(u)' = SlotCallers(u)
        /\ activePerUser' = activePerUser
    <3> USE DEF SaveRun
    <3>1. CASE ScanCompanyGone(r) \/ ScanRaises(r) \/ ReleaseKey(r)
        BY <3>1 DEF ScanCompanyGone, ScanRaises, ReleaseKey
    <3>2. CASE ScanRejected(r, TRUE) \/ ScanStarts(r, TRUE)
        BY <3>2 DEF ScanRejected, ScanStarts
    <3>3. CASE ScanEnds(r, TRUE) \/ ScanRecords(r, TRUE) \/ ScanFails(r, TRUE)
        BY <3>3 DEF ScanEnds, ScanRecords, ScanFails
    <3> QED
        BY <1>0, <1>4, <3>1, <3>2, <3>3 DEF WorkerStep
  <2> QED
      BY <2>1, <1>c
<1>5. ASSUME NEW r \in Runs, ReleaseSlot(r) PROVE Exact
  <2>1. runCompany[r] \in Companies /\ runCompany' = runCompany /\ caller' = caller
      BY <1>5 DEF ReleaseSlot, runVars
  <2>2. SlotCallers(u)' = SlotCallers(u)
      BY <2>1 DEF SlotCallers
  <2>3. CASE Owner[runCompany[r]] # u
    <3>1. SlotThreads(u)' = SlotThreads(u) /\ activePerUser'[u] = activePerUser[u]
        BY <1>5, <2>1, <2>3 DEF ReleaseSlot, SlotThreads
    <3> QED
        BY <2>2, <3>1, <1>c
  <2>4. CASE Owner[runCompany[r]] = u
    <3>1. SlotThreads(u)' = SlotThreads(u) \ {r} /\ r \in SlotThreads(u)
        BY <1>5, <2>1, <2>4 DEF ReleaseSlot, SlotThreads
    <3>2. /\ Cardinality(SlotThreads(u)') = Cardinality(SlotThreads(u)) - 1
          /\ Cardinality(SlotThreads(u)') \in Nat
        BY <3>1, <1>a, RemoveOne
    <3>3. activePerUser[u] > 0
        BY <3>2, <1>a, <1>b DEF SlotsInUse
    <3>4. activePerUser'[u] = activePerUser[u] - 1
        BY <1>5, <2>4, <3>3 DEF ReleaseSlot
    <3> QED
        BY <2>2, <3>2, <3>4, <1>a, <1>b DEF SlotsInUse
  <2> QED
      BY <2>3, <2>4
<1>6. CASE Restart
  <2>1. SlotThreads(u)' = {} /\ SlotCallers(u)' = {}
      BY <1>6 DEF Restart, IdleCaller, At, SlotThreads, SlotCallers
  <2>2. SlotsInUse(u)' = 0
      BY <2>1, FS_EmptySet DEF SlotsInUse
  <2> QED
      BY <2>2, <1>6 DEF Restart
\* Every other step leaves the counter, the threads' slots and the callers' alone.
<1>7. ASSUME SlotThreads(u)' = SlotThreads(u), SlotCallers(u)' = SlotCallers(u),
             UNCHANGED quotaVars \/ activePerUser' = activePerUser
      PROVE  Exact
    BY <1>7, <1>c DEF quotaVars
<1>8. ASSUME NEW k \in Callers, RefuseQuota(k) PROVE Exact
    BY <1>8, <1>7 DEF RefuseQuota, IdleCaller, At, runVars, SlotThreads, SlotCallers
<1>9. ASSUME NEW k \in Callers, NEW c \in Companies, NEW r \in Runs, NEW ok \in Outcome,
             AnswerBusy(k, c, r, ok)
      PROVE  Exact
    BY <1>9, <1>7 DEF AnswerBusy, Fresh, SlotThreads, SlotCallers
<1>10. ASSUME NEW k \in Callers, NEW c \in Companies, NEW url \in BOOLEAN, Claim(k, c, url)
       PROVE  Exact
    BY <1>10, <1>7 DEF Claim, At, IdleCaller, runVars, SlotThreads, SlotCallers
<1>11. ASSUME NEW c \in Companies, DeleteCompany(c) PROVE Exact
    BY <1>11, <1>7 DEF DeleteCompany, SlotThreads, SlotCallers
<1>12. CASE NewDay \/ NewHour \/ UNCHANGED vars
    BY <1>12, <1>7 DEF NewDay, NewHour, vars, runVars, quotaVars, SlotThreads, SlotCallers
<1>13. ASSUME NEW k \in Callers, CallerStep(k) PROVE Exact
    BY <1>13, <1>0, <1>1, <1>2, <1>3, <1>8, ZenonT(60) DEF CallerStep, ReserveBreaks
<1> HIDE DEF TypeOK, KeyInv, RunsOwned, HoldsSlot, HoldsKey, CallerHoldsSlot
<1> QED
    BY <1>4, <1>5, <1>6, <1>9, <1>10, <1>11, <1>12, <1>13 DEF Next

\* A day of scans that all end normally leaves the counter where it was: as long
\* as no save and no thread start raises, activePerUser is exactly the number of
\* scans in flight, through refusals, failed scans, deletions and restarts.
THEOREM SlotsGivenBack == ASSUME ~ FaultsOn PROVE Spec => []SlotsExact
<1>1. Init => TypeOK /\ KeyInv /\ SlotsExact
  <2>1. ASSUME Init, NEW u \in Users PROVE activePerUser[u] = SlotsInUse(u)
    <3>1. SlotThreads(u) = {} /\ SlotCallers(u) = {}
        BY <2>1 DEF Init, SlotThreads, SlotCallers, HoldsSlot, HoldsKey, CallerHoldsSlot,
                    IdleCaller, At
    <3> QED
        BY <2>1, <3>1, FS_EmptySet DEF Init, SlotsInUse
  <2> QED
      BY <2>1, InitType, InitKeys DEF SlotsExact
<1>2. TypeOK /\ KeyInv /\ SlotsExact /\ [Next]_vars => (TypeOK /\ KeyInv /\ SlotsExact)'
    BY NextType, NextKeys, NextExact
<1> QED
    BY <1>1, <1>2, PTL DEF Spec

-----------------------------------------------------------------------------
(* ScanLifecycle implements ScanPromise *)

\* Distinct scanned companies of u have distinct threads, and those hold slots.
LEMMA FewScans ==
    ASSUME TypeOK, KeyInv, NEW u \in Users
    PROVE  Cardinality(Promise!ScansOf(u)) <= Cardinality(SlotThreads(u))
           /\ Cardinality(Promise!ScansOf(u)) \in Nat
<1> DEFINE T == {r \in Runs : HoldsKey(r) /\ Owner[runCompany[r]] = u}
           f == [r \in T |-> runCompany[r]]
<1>1. IsFiniteSet(SlotThreads(u)) /\ T \in SUBSET SlotThreads(u)
    BY SlotSetsFinite DEF SlotThreads, HoldsSlot
<1>2. IsFiniteSet(T) /\ Cardinality(T) <= Cardinality(SlotThreads(u))
    BY <1>1, FS_Subset
<1>3. f \in Surjection(T, Promise!ScansOf(u))
    BY DEF Surjection, Promise!ScansOf, Scanning
<1>4. IsFiniteSet(Promise!ScansOf(u)) /\ Cardinality(Promise!ScansOf(u)) <= Cardinality(T)
    BY <1>2, <1>3, FS_Surjection
<1>5. Cardinality(Promise!ScansOf(u)) \in Nat /\ Cardinality(T) \in Nat
      /\ Cardinality(SlotThreads(u)) \in Nat
    BY <1>1, <1>2, <1>4, FS_CardinalityType
<1> QED
    BY <1>2, <1>4, <1>5

\* The instance's Cardinality is the same operator.
LEMMA PromiseCardinality ==
    ASSUME NEW S PROVE Promise!Cardinality(S) = Cardinality(S)
BY DEF Promise!Cardinality, Cardinality

LEMMA StepKeepsPromise ==
    TypeOK /\ KeyInv /\ SlotsCovered /\ [Next]_vars => [Promise!Next]_Scanning
<1> SUFFICES ASSUME TypeOK, KeyInv, SlotsCovered, [Next]_vars, Scanning' # Scanning
             PROVE  Promise!Next
    OBVIOUS
<1> USE NoneAssumption, OwnerAssumption DEF TypeOK, KeyInv, RunsOwned, HoldsKey
<1>1. ASSUME NEW k \in Callers, NEW ok \in Outcome, Spawn(k, ok)
      PROVE  Promise!Next
  <2> DEFINE s == caller[k].run
             c == runCompany[s]
             u == Owner[c]
  <2>1. /\ s \in Runs /\ c = caller[k].company /\ c \in Companies /\ u \in Users
        /\ worker[s] = "none" /\ caller[k].pc = "saved" /\ runCompany' = runCompany
      BY <1>1 DEF Spawn, runVars
  <2>2. Scanning' = Scanning \cup {c}
    <3>1. CASE ok
        BY <1>1, <2>1, <3>1 DEF Spawn, Scanning
    <3>2. CASE ~ ok
        BY <1>1, <2>1, <3>2 DEF Spawn, Scanning
    <3> QED
        BY <3>1, <3>2
  <2>3. c \notin Scanning
      BY <2>1 DEF OneScanPerCompany, CallerHoldsKey, Scanning
  <2>4. k \in SlotCallers(u)
      BY <2>1 DEF SlotCallers, CallerHoldsSlot
  <2>5. Cardinality(SlotCallers(u)) > 0
    <3>1. SlotCallers(u) # {} /\ IsFiniteSet(SlotCallers(u)) /\ Cardinality(SlotCallers(u)) \in Nat
        BY <2>1, <2>4, SlotSetsFinite
    <3>2. Cardinality(SlotCallers(u)) # 0
        BY <3>1, FS_EmptySet
    <3> QED
        BY <3>1, <3>2
  <2>6. Cardinality(Promise!ScansOf(u)) < ActiveLimit
    <3>1. /\ Cardinality(SlotThreads(u)) \in Nat /\ Cardinality(SlotCallers(u)) \in Nat
          /\ activePerUser[u] \in Nat /\ ActiveLimit \in Nat
        BY <2>1, SlotSetsFinite, LimitAssumption
    <3>2. Cardinality(SlotThreads(u)) + Cardinality(SlotCallers(u)) <= ActiveLimit
        BY <2>1, <3>1 DEF SlotsCovered, SlotsInUse
    <3>3. Cardinality(Promise!ScansOf(u)) <= Cardinality(SlotThreads(u))
          /\ Cardinality(Promise!ScansOf(u)) \in Nat
        BY <2>1, FewScans
    <3> QED
        BY <2>5, <3>1, <3>2, <3>3
  <2>7. Promise!Start(c)
      BY <2>2, <2>3, <2>6, PromiseCardinality DEF Promise!Start
  <2> QED
      BY <2>1, <2>7 DEF Promise!Next
<1>2. ASSUME NEW r \in Runs, ReleaseKey(r)
      PROVE  Promise!Next
  <2> DEFINE c == runCompany[r]
  <2>1. c \in Companies /\ c \in Scanning
      BY <1>2 DEF ReleaseKey, Scanning
  <2>2. Scanning' = Scanning \ {c}
      BY <1>2 DEF ReleaseKey, OneScanPerCompany, Scanning, runVars
  <2> QED
      BY <2>1, <2>2 DEF Promise!Next, Promise!Finish
<1>3. CASE Restart
  <2>1. Scanning' = {}
      BY <1>3 DEF Restart, Scanning
  <2> QED
      BY <2>1 DEF Promise!Next, Promise!Crash
\* Every other step leaves the set of threads that hold a key as it was.
<1>4. ASSUME NEW r \in Runs, WorkerStep(r), ~ ReleaseKey(r)
      PROVE  FALSE
  <2> USE DEF Scanning, SaveRun, runVars
  <2>1. CASE ScanCompanyGone(r)
      BY <2>1 DEF ScanCompanyGone
  <2>2. CASE \E ok \in Outcome : ScanRejected(r, ok)
      BY <2>2 DEF ScanRejected
  <2>3. CASE \E ok \in Outcome : ScanStarts(r, ok)
      BY <2>3 DEF ScanStarts
  <2>4. CASE \E ok \in Outcome : ScanEnds(r, ok)
      BY <2>4 DEF ScanEnds
  <2>5. CASE ScanRaises(r)
      BY <2>5 DEF ScanRaises
  <2>6. CASE \E ok \in Outcome : ScanFails(r, ok)
      BY <2>6 DEF ScanFails
  <2>7. CASE ReleaseSlot(r)
      BY <2>7 DEF ReleaseSlot
  <2>8. CASE \E ok \in Outcome : ScanRecords(r, ok)
      BY <2>8 DEF ScanRecords
  <2> QED
      BY <1>4, <2>1, <2>2, <2>3, <2>4, <2>5, <2>6, <2>7, <2>8 DEF WorkerStep
<1>5. ASSUME NEW k \in Callers, CallerStep(k), ~ \E ok \in Outcome : Spawn(k, ok)
      PROVE  FALSE
  <2>1. CASE Reserve(k) \/ RefuseQuota(k) \/ \E counted \in BOOLEAN : ReserveBreaks(k, counted)
      BY <2>1 DEF Reserve, RefuseQuota, ReserveBreaks, runVars, Scanning
  <2>2. CASE \E r \in Runs, ok \in Outcome : SaveQueued(k, r, ok)
      BY <2>2 DEF SaveQueued, Fresh, Scanning
  <2> QED
      BY <1>5, <2>1, <2>2 DEF CallerStep
<1>6. ASSUME NEW k \in Callers, NEW c \in Companies, NEW r \in Runs, NEW ok \in Outcome,
             AnswerBusy(k, c, r, ok)
      PROVE  FALSE
    BY <1>6 DEF AnswerBusy, Fresh, Scanning
<1>7. CASE \/ \E k \in Callers, c \in Companies, url \in BOOLEAN : Claim(k, c, url)
           \/ \E c \in Companies : DeleteCompany(c)
           \/ NewDay \/ NewHour \/ UNCHANGED vars
    BY <1>7 DEF Claim, DeleteCompany, NewDay, NewHour, vars, runVars, Scanning
<1> QED
    BY <1>1, <1>2, <1>3, <1>4, <1>5, <1>6, <1>7 DEF Next

\* The whole machinery of keys, counters, rows and threads implements the
\* promise: one scan per company and at most ActiveLimit scans per user.
THEOREM ImplementsPromise == Spec => KeepsPromise
<1>1. Init => Promise!Init
    BY DEF Init, Promise!Init, Scanning, HoldsKey
<1>2. TypeOK /\ KeyInv /\ SlotsCovered /\ [Next]_vars => [Promise!Next]_Scanning
    BY StepKeepsPromise
<1>3. Init => TypeOK /\ KeyInv /\ SlotsCovered
    BY InitType, InitKeys, InitSlots
<1>4. TypeOK /\ KeyInv /\ SlotsCovered /\ [Next]_vars => (TypeOK /\ KeyInv /\ SlotsCovered)'
    BY NextType, NextKeys, NextSlots
<1> QED
    BY <1>1, <1>2, <1>3, <1>4, PTL DEF Spec, KeepsPromise, Promise!Spec
-----------------------------------------------------------------------------
(* Scheduler *)

\* While the loop has no run in its hands it names no user.
LoopFree == loop.pc \in {"down", "polling"} => loop.user = Nil

SchedInv == SchedTypeOK /\ LoopFree /\ RunningHasWorker

-----------------------------------------------------------------------------
(* What the operators return. *)

\* A power of two is a natural number: it counts the subsets of 1 .. n.
LEMMA PowerType == ASSUME NEW n \in Nat PROVE 2^n \in Nat
<1>1. IsFiniteSet(1 .. n) /\ Cardinality(1 .. n) = n
    BY FS_Interval
<1>2. IsFiniteSet(SUBSET (1 .. n)) /\ Cardinality(SUBSET (1 .. n)) = 2^n
    BY <1>1, FS_SUBSET
<1> QED
    BY <1>2, FS_CardinalityType

\* Whatever a client asks for, the interval saved is within the limits.
LEMMA ClampedType == ASSUME NEW i \in Int PROVE Clamped(i) \in MinInterval .. MaxInterval
    BY IntervalAssumption DEF Clamped, Larger, Smaller

\* A first run is due at once or within the interval.
LEMMA FirstDueType ==
    ASSUME NEW enabled \in BOOLEAN, NEW i \in MinInterval .. MaxInterval, NEW since \in Sinces
    PROVE  FirstDue(enabled, i, since) \in Dues
    BY IntervalAssumption, BoundAssumption, NilAssumption
    DEF FirstDue, Larger, Sinces, Dues, LongestDelay

\* The backoff stays between the user's own interval and its cap.
LEMMA DelayType ==
    ASSUME NEW i \in MinInterval .. MaxInterval, NEW f \in Nat
    PROVE  Delay(i, f) \in 0 .. LongestDelay
<1>1. CASE f > 1
  <2>1. 2^(f - 1) \in Nat
      BY <1>1, PowerType
  <2>2. i * 2^(f - 1) \in Nat
      BY <2>1, IntervalAssumption
  <2> DEFINE d == i * 2^(f - 1)
  <2> HIDE DEF d
  <2>3. Larger(i, Smaller(d, MaxBackoff)) \in 0 .. LongestDelay
      BY <2>2, IntervalAssumption DEF Larger, Smaller, LongestDelay, d
  <2> QED
      BY <2>3, <1>1 DEF Delay, d
<1>2. CASE ~(f > 1)
    BY <1>2, IntervalAssumption DEF Delay, LongestDelay, Larger
<1> QED
    BY <1>1, <1>2

LEMMA RowType ==
    ASSUME NEW enabled \in BOOLEAN, NEW i \in MinInterval .. MaxInterval, NEW since \in Sinces,
           NEW next \in Dues, NEW f \in Nat, NEW running \in BOOLEAN
    PROVE  LET row == Row(enabled, i, since, next, f, running)
           IN  row \in RowRecs /\ row.running = running
    BY DEF Row, RowRecs

\* A row that is written idle.
LEMMA IdleRowType ==
    ASSUME NEW enabled \in BOOLEAN, NEW i \in MinInterval .. MaxInterval, NEW since \in Sinces,
           NEW next \in Dues, NEW f \in Nat
    PROVE  LET row == Row(enabled, i, since, next, f, FALSE)
           IN  row \in RowRecs /\ ~row.running
    BY DEF Row, RowRecs

\* What the reset of orphans and the legacy import make of a row.
LEMMA BootRow ==
    ASSUME NEW row \in RowRecs \cup {Nil}, NEW u \in Owners, SchedTypeOK
    PROVE  LET new == Import(Orphan(row), Legacy[u])
           IN  new \in RowRecs \cup {Nil} /\ (new # Nil => ~new.running)
<1> DEFINE old == Orphan(row)
           e   == Legacy[u]
           i   == Clamped(e.interval)
           s   == IF old = Nil THEN Nil ELSE old.since
<1>1. old \in RowRecs \cup {Nil} /\ (old # Nil => ~old.running)
    BY DEF Orphan, RowRecs, Row
<1>2. CASE e = Nil
    BY <1>1, <1>2 DEF Import
<1>3. CASE e # Nil
  <2>1. e.enabled \in BOOLEAN /\ e.interval \in Int
      BY <1>3, LegacyAssumption
  <2>2. i \in MinInterval .. MaxInterval
      BY <2>1, ClampedType
  <2>3. s \in Sinces
      BY <1>1 DEF RowRecs, Sinces
  <2>4. FirstDue(e.enabled, i, s) \in Dues
      BY <2>1, <2>2, <2>3, FirstDueType
  <2>5. Import(old, e) = Upserted(old, e.enabled, i, s, FirstDue(e.enabled, i, s))
      BY <1>3 DEF Import
  <2> HIDE DEF old, e, i, s
  <2>6. Import(old, e) \in RowRecs /\ ~Import(old, e).running
    <3>1. CASE old = Nil
      <4>1. Import(old, e) = Row(e.enabled, i, s, FirstDue(e.enabled, i, s), 0, FALSE)
          BY <2>5, <3>1 DEF Upserted
      <4> QED
          BY <4>1, <2>1, <2>2, <2>3, <2>4, IdleRowType
    <3>2. CASE old # Nil
      <4>1. Import(old, e) = Row(e.enabled, i, old.since, FirstDue(e.enabled, i, s),
                                 old.failures, FALSE)
          BY <2>5, <3>2 DEF Upserted
      <4>2. old.since \in Sinces /\ old.failures \in Nat
          BY <1>1, <3>2 DEF RowRecs
      <4> QED
          BY <4>1, <4>2, <2>1, <2>2, <2>4, IdleRowType
    <3> QED
        BY <3>1, <3>2
  <2> QED
      BY <2>6 DEF old, e
<1> QED
    BY <1>2, <1>3

-----------------------------------------------------------------------------
LEMMA InitSched == SchedInit => SchedInv
<1> SUFFICES ASSUME SchedInit PROVE SchedInv
    OBVIOUS
<1>1. Nil \in Dues /\ Nil \in Sinces /\ MinInterval \in MinInterval .. MaxInterval
    BY IntervalAssumption DEF Dues, Sinces
<1>2. SchedTypeOK
    BY <1>1, BoundAssumption
    DEF SchedTypeOK, SchedInit, LoopIdle, LoopAt, LoopPcs, RequestIdle, RequestAt
<1> QED
    BY <1>2 DEF SchedInv, SchedInit, LoopFree, RunningHasWorker, LoopIdle, LoopAt

LEMMA BootStep == ASSUME SchedInv, Boot PROVE SchedInv'
<1>1. \A u \in Owners : rows'[u] \in RowRecs \cup {Nil}
                       /\ (rows'[u] # Nil => ~rows'[u].running)
    BY BootRow DEF SchedInv, SchedTypeOK, Boot
<1>2. rows' \in [Owners -> RowRecs \cup {Nil}]
    BY <1>1 DEF Boot
<1>3. loop' = LoopAt("polling", Nil, Nil, 0) /\ Nil \in Dues
    BY DEF Boot, LoopIdle, Dues
<1>4. SchedTypeOK'
    BY <1>2, <1>3 DEF SchedInv, SchedTypeOK, Boot, LoopAt, LoopPcs
<1> QED
    BY <1>1, <1>3, <1>4 DEF SchedInv, LoopFree, RunningHasWorker, LoopAt

LEMMA CrashStep == ASSUME SchedInv, Crash PROVE SchedInv'
<1>1. loop' = LoopAt("down", Nil, Nil, 0) /\ Nil \in Dues /\ Nil \in Sinces
      /\ MinInterval \in MinInterval .. MaxInterval
    BY IntervalAssumption DEF Crash, LoopIdle, Dues, Sinces
<1>2. SchedTypeOK'
    BY <1>1, BoundAssumption
    DEF SchedInv, SchedTypeOK, Crash, LoopAt, LoopPcs, RequestIdle, RequestAt
<1> QED
    BY <1>1, <1>2 DEF SchedInv, LoopFree, RunningHasWorker, LoopAt

LEMMA ClaimStep == ASSUME SchedInv, NEW u \in Owners, ClaimDue(u) PROVE SchedInv'
<1>1. loop.user = Nil /\ rows[u] \in RowRecs
    BY DEF SchedInv, LoopFree, ClaimDue, Due, SchedTypeOK
<1>2. loop' = LoopAt("handling", u, Nil, 0) /\ Nil \in Dues
    BY DEF ClaimDue, Dues
<1> DEFINE r == Row(rows[u].enabled, rows[u].interval, rows[u].since, rows[u].next,
                    rows[u].failures, TRUE)
<1>3. r \in RowRecs
    BY <1>1, RowType DEF RowRecs
<1>4. rows' = [rows EXCEPT ![u] = r]
    BY DEF ClaimDue
<1> HIDE DEF r
<1>5. SchedTypeOK'
  <2>1. rows' \in [Owners -> RowRecs \cup {Nil}]
      BY <1>3, <1>4 DEF SchedInv, SchedTypeOK
  <2>2. UNCHANGED <<accounts, request, crashes, streak>>
      BY DEF ClaimDue
  <2> QED
      BY <1>2, <2>1, <2>2 DEF SchedInv, SchedTypeOK, LoopAt, LoopPcs
<1>6. \A v \in Owners : rows[v] # Nil => ~rows[v].running
    BY <1>1, NilAssumption DEF SchedInv, RunningHasWorker, ClaimDue
<1>7. RunningHasWorker'
    BY <1>2, <1>4, <1>6 DEF SchedInv, SchedTypeOK, RunningHasWorker, LoopAt
<1> QED
    BY <1>2, <1>5, <1>7 DEF SchedInv, LoopFree, LoopAt

\* The first half of record_run reads the row and changes none.
LEMMA ReadingStep ==
    ASSUME SchedInv, NEW pc \in {"noting", "writing"}, NEW ok \in BOOLEAN,
           loop.pc \in {"handling", "resting"}, Reading(pc, ok),
           UNCHANGED <<accounts, rows, request, crashes, streak>>
    PROVE  SchedInv'
<1> DEFINE e == Existing(loop.user)
           f == IF ok THEN 0 ELSE e.failures + 1
           n == IF e.enabled THEN Delay(e.interval, f) ELSE Nil
<1>1. loop.user \in Owners
    BY DEF SchedInv, SchedTypeOK, LoopPcs
<1>2. e.interval \in MinInterval .. MaxInterval /\ e.failures \in Nat
    BY <1>1, IntervalAssumption DEF SchedInv, SchedTypeOK, Existing, DefaultRow, Row, RowRecs
<1>3. f \in Nat
    BY <1>2
<1>4. n \in Dues
    BY <1>2, <1>3, DelayType, BoundAssumption DEF Dues
<1>5. loop' = LoopAt(pc, loop.user, n, f)
    BY DEF Reading
<1> HIDE DEF e, f, n
<1>6. SchedTypeOK'
    BY <1>1, <1>3, <1>4, <1>5 DEF SchedInv, SchedTypeOK, LoopAt, LoopPcs
<1> QED
    BY <1>5, <1>6 DEF SchedInv, LoopFree, RunningHasWorker, LoopAt

\* The second half writes the row of the loop's user, which is idle then.
LEMMA RecordedRow ==
    ASSUME NEW row \in RowRecs \cup {Nil}, NEW next \in Dues, NEW f \in Nat
    PROVE  /\ Recorded(row, next, f) \in RowRecs \cup {Nil}
           /\ Recorded(row, next, f) # Nil => ~Recorded(row, next, f).running
<1>1. CASE row = Nil
    BY <1>1 DEF Recorded
<1>2. CASE row # Nil
  <2>1. 0 \in Sinces
      BY IntervalAssumption DEF Sinces
  <2>2. Recorded(row, next, f) = Row(row.enabled, row.interval, 0, next, f, FALSE)
      BY <1>2 DEF Recorded
  <2>3. row.enabled \in BOOLEAN /\ row.interval \in MinInterval .. MaxInterval
      BY <1>2 DEF RowRecs
  <2> QED
      BY <2>1, <2>2, <2>3, IdleRowType
<1> QED
    BY <1>1, <1>2

LEMMA WritesNoteStep == ASSUME SchedInv, WritesNote PROVE SchedInv'
<1> DEFINE u == loop.user
           r == Recorded(rows[u], loop.next, loop.failures)
<1>1. u \in Owners /\ rows[u] \in RowRecs \cup {Nil} /\ loop.next \in Dues /\ loop.failures \in Nat
    BY DEF SchedInv, SchedTypeOK, WritesNote, LoopPcs
<1>2. r \in RowRecs \cup {Nil} /\ (r # Nil => ~r.running)
    BY <1>1, RecordedRow
<1>3. rows' = [rows EXCEPT ![u] = r] /\ loop' = LoopAt("resting", u, Nil, 0) /\ Nil \in Dues
    BY DEF WritesNote, Dues
<1> HIDE DEF r
<1>4. SchedTypeOK'
    BY <1>1, <1>2, <1>3 DEF SchedInv, SchedTypeOK, WritesNote, LoopAt, LoopPcs
<1>5. RunningHasWorker'
    BY <1>1, <1>2, <1>3 DEF SchedInv, SchedTypeOK, RunningHasWorker, WritesNote, LoopAt
<1> QED
    BY <1>3, <1>4, <1>5 DEF SchedInv, LoopFree, LoopAt

LEMMA WritesRunStep == ASSUME SchedInv, WritesRun PROVE SchedInv'
<1> DEFINE u == loop.user
           r == Recorded(rows[u], loop.next, loop.failures)
<1>1. u \in Owners /\ rows[u] \in RowRecs \cup {Nil} /\ loop.next \in Dues /\ loop.failures \in Nat
    BY DEF SchedInv, SchedTypeOK, WritesRun, LoopPcs
<1>2. r \in RowRecs \cup {Nil} /\ (r # Nil => ~r.running)
    BY <1>1, RecordedRow
<1>3. rows' = [rows EXCEPT ![u] = r] /\ loop' = LoopAt("polling", Nil, Nil, 0) /\ Nil \in Dues
    BY DEF WritesRun, Dues, LoopIdle
<1>4. streak' \in [Owners -> Nat]
    BY <1>1 DEF SchedInv, SchedTypeOK, WritesRun
<1> HIDE DEF r
<1>5. SchedTypeOK'
    BY <1>1, <1>2, <1>3, <1>4 DEF SchedInv, SchedTypeOK, WritesRun, LoopAt, LoopPcs
<1>6. \A v \in Owners : rows'[v] # Nil => ~rows'[v].running
    BY <1>1, <1>2, <1>3 DEF SchedInv, SchedTypeOK, RunningHasWorker, WritesRun
<1> QED
    BY <1>3, <1>5, <1>6 DEF SchedInv, LoopFree, RunningHasWorker, LoopAt

LEMMA UpsertReadsStep ==
    ASSUME SchedInv, NEW q \in Requests, NEW u \in Owners, NEW enabled \in BOOLEAN,
           NEW asked \in Asked, UpsertReads(q, u, enabled, asked)
    PROVE  SchedInv'
<1> DEFINE i == Clamped(asked)
           s == Existing(u).since
           d == FirstDue(enabled, i, s)
<1>1. i \in MinInterval .. MaxInterval
    BY AskedAssumption, ClampedType
<1>2. s \in Sinces
    BY DEF SchedInv, SchedTypeOK, Existing, DefaultRow, Row, RowRecs, Sinces
<1>3. d \in Dues
    BY <1>1, <1>2, FirstDueType
<1>4. request' = [request EXCEPT ![q] = RequestAt(u, enabled, i, s, d)]
    BY DEF UpsertReads
<1> HIDE DEF i, s, d
<1>5. SchedTypeOK'
    BY <1>1, <1>2, <1>3, <1>4 DEF SchedInv, SchedTypeOK, UpsertReads, RequestAt
<1> QED
    BY <1>5 DEF SchedInv, LoopFree, RunningHasWorker, UpsertReads

LEMMA UpsertWritesStep == ASSUME SchedInv, NEW q \in Requests, UpsertWrites(q) PROVE SchedInv'
<1> DEFINE r == request[q]
           new == Upserted(rows[r.user], r.enabled, r.interval, r.since, r.next)
<1>1. r.user \in Owners /\ r.enabled \in BOOLEAN /\ r.interval \in MinInterval .. MaxInterval
      /\ r.since \in Sinces /\ r.next \in Dues /\ rows[r.user] \in RowRecs \cup {Nil}
    BY DEF SchedInv, SchedTypeOK, UpsertWrites
<1>2. new \in RowRecs /\ ~new.running
  <2>1. CASE rows[r.user] = Nil
      BY <1>1, <2>1, RowType DEF Upserted, Row, Sinces
  <2>2. CASE rows[r.user] # Nil
    <3>1. rows[r.user].since \in Sinces /\ rows[r.user].failures \in Nat
        BY <1>1, <2>2 DEF RowRecs
    <3> QED
        BY <1>1, <2>2, <3>1, RowType DEF Upserted, Row
  <2> QED
      BY <2>1, <2>2
<1>3. rows' = [rows EXCEPT ![r.user] = new]
    BY DEF UpsertWrites
<1>4. request' = [request EXCEPT ![q] = RequestAt(Nil, FALSE, MinInterval, Nil, Nil)]
      /\ Nil \in Dues /\ Nil \in Sinces /\ MinInterval \in MinInterval .. MaxInterval
    BY IntervalAssumption DEF UpsertWrites, RequestIdle, Dues, Sinces
<1>5. RequestIdle = RequestAt(Nil, FALSE, MinInterval, Nil, Nil)
    BY DEF RequestIdle
<1> HIDE DEF new
<1>6. rows' \in [Owners -> RowRecs \cup {Nil}]
    BY <1>1, <1>2, <1>3 DEF SchedInv, SchedTypeOK
<1>7. request' \in [Requests ->
          [user: Owners \cup {Nil}, enabled: BOOLEAN,
           interval: MinInterval .. MaxInterval, since: Sinces, next: Dues]]
      /\ \A p \in Requests : request'[p] = RequestIdle \/ request'[p].user \in Owners
    BY <1>4, <1>5 DEF SchedInv, SchedTypeOK, RequestAt
<1>8. SchedTypeOK'
    BY <1>6, <1>7 DEF SchedInv, SchedTypeOK, UpsertWrites
<1>9. RunningHasWorker'
    BY <1>1, <1>2, <1>3 DEF SchedInv, SchedTypeOK, RunningHasWorker, UpsertWrites
<1> QED
    BY <1>8, <1>9 DEF SchedInv, LoopFree, UpsertWrites

LEMMA DeleteStep == ASSUME SchedInv, NEW u \in Owners, DeleteAccount(u) PROVE SchedInv'
<1>1. SchedTypeOK'
    BY DEF SchedInv, SchedTypeOK, DeleteAccount
<1>2. RunningHasWorker'
    BY DEF SchedInv, SchedTypeOK, RunningHasWorker, DeleteAccount
<1> QED
    BY <1>1, <1>2 DEF SchedInv, LoopFree, DeleteAccount

LEMMA TickStep == ASSUME SchedInv, Tick PROVE SchedInv'
<1>1. ASSUME NEW u \in Owners
      PROVE  /\ rows'[u] \in RowRecs \cup {Nil}
             /\ rows'[u] # Nil /\ rows'[u].running => rows[u] # Nil /\ rows[u].running
  <2>1. CASE rows[u] = Nil
      BY <2>1 DEF Tick
  <2>2. CASE rows[u] # Nil
    <3> DEFINE r == rows[u]
    <3>1. r \in RowRecs
        BY <2>2 DEF SchedInv, SchedTypeOK
    <3>2. Older(r.since) \in Sinces
        BY <3>1, IntervalAssumption DEF RowRecs, Sinces, Older
    <3>3. Sooner(r.next) \in Dues
        BY <3>1, BoundAssumption, IntervalAssumption
        DEF RowRecs, Dues, Sooner, LongestDelay, Larger
    <3>4. rows'[u] = Row(r.enabled, r.interval, Older(r.since), Sooner(r.next), r.failures, r.running)
        BY <2>2 DEF Tick
    <3>5. r.enabled \in BOOLEAN /\ r.interval \in MinInterval .. MaxInterval
          /\ r.failures \in Nat /\ r.running \in BOOLEAN
        BY <3>1 DEF RowRecs
    <3>6. rows'[u] \in RowRecs
        BY <3>2, <3>3, <3>4, <3>5, RowType
    <3>7. rows'[u].running = r.running
        BY <3>4 DEF Row
    <3> QED
        BY <2>2, <3>6, <3>7
  <2> QED
      BY <2>1, <2>2
<1>2. rows' \in [Owners -> RowRecs \cup {Nil}]
    BY <1>1 DEF Tick
<1>3. SchedTypeOK'
    BY <1>2 DEF SchedInv, SchedTypeOK, Tick
<1> QED
    BY <1>1, <1>3 DEF SchedInv, LoopFree, RunningHasWorker, Tick

LEMMA SchedStep == SchedInv /\ [SchedNext]_schedVars => SchedInv'
<1> SUFFICES ASSUME SchedInv, [SchedNext]_schedVars PROVE SchedInv'
    OBVIOUS
<1>1. CASE Boot
    BY <1>1, BootStep
<1>2. CASE Crash
    BY <1>2, CrashStep
<1>3. CASE LoopStep
  <2>1. ASSUME NEW u \in Owners, ClaimDue(u) PROVE SchedInv'
      BY <2>1, ClaimStep
  <2>2. CASE HandlerRaises
      BY <2>2, ReadingStep DEF HandlerRaises
  <2>3. CASE NotesScan
      BY <2>3, ReadingStep DEF NotesScan
  <2>4. CASE WritesNote
      BY <2>4, WritesNoteStep
  <2>5. ASSUME NEW ok \in BOOLEAN, HandlerEnds(ok) PROVE SchedInv'
      BY <2>5, ReadingStep DEF HandlerEnds
  <2>6. CASE WritesRun
      BY <2>6, WritesRunStep
  <2> QED
      BY <1>3, <2>1, <2>2, <2>3, <2>4, <2>5, <2>6 DEF LoopStep
<1>4. ASSUME NEW q \in Requests, NEW u \in Owners, NEW enabled \in BOOLEAN, NEW asked \in Asked,
             UpsertReads(q, u, enabled, asked)
      PROVE  SchedInv'
    BY <1>4, UpsertReadsStep
<1>5. ASSUME NEW q \in Requests, UpsertWrites(q) PROVE SchedInv'
    BY <1>5, UpsertWritesStep
<1>6. ASSUME NEW u \in Owners, DeleteAccount(u) PROVE SchedInv'
    BY <1>6, DeleteStep
<1>7. CASE Tick
    BY <1>7, TickStep
<1>8. CASE UNCHANGED schedVars
    BY <1>8 DEF SchedInv, SchedTypeOK, LoopFree, RunningHasWorker, schedVars
<1> QED
    BY <1>1, <1>2, <1>3, <1>4, <1>5, <1>6, <1>7, <1>8 DEF SchedNext

-----------------------------------------------------------------------------
\* scheduler.py 188-330: every interval saved is within the limits, and the
\* delay after failures within its cap, whatever clients and the legacy file ask.
THEOREM SchedulerTyped == SchedSpec => []SchedTypeOK
<1>1. SchedInv => SchedTypeOK
    BY DEF SchedInv
<1> QED
    BY <1>1, InitSched, SchedStep, PTL DEF SchedSpec

\* scheduler.py 124-136: while a process is up, a row in state 'running' is the
\* one its loop works on; no crash and no settings saved meanwhile leave another.
THEOREM RunningIsOwned == SchedSpec => []RunningHasWorker
<1>1. SchedInv => RunningHasWorker
    BY DEF SchedInv
<1> QED
    BY <1>1, InitSched, SchedStep, PTL DEF SchedSpec
=============================================================================
