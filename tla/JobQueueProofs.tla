--------------------------- MODULE JobQueueProofs ---------------------------
(***************************************************************************)
(* Proofs about JobQueue, for every number of threads and jobs, every      *)
(* pool size and limit: types, one worker per job, bounded attempts, and   *)
(* finished jobs that stay finished.                                       *)
(***************************************************************************)
EXTENDS JobQueue, FiniteSetTheorems, TLAPS

QueueInv == TypeOK /\ ClaimInv /\ AttemptInv

-----------------------------------------------------------------------------
\* A power of two is a natural number: it counts the subsets of 1 .. n.
LEMMA PowerType == ASSUME NEW n \in Nat PROVE 2^n \in Nat
<1>1. IsFiniteSet(1 .. n) /\ Cardinality(1 .. n) = n
    BY FS_Interval
<1>2. IsFiniteSet(SUBSET (1 .. n)) /\ Cardinality(SUBSET (1 .. n)) = 2^n
    BY <1>1, FS_SUBSET
<1> QED
    BY <1>2, FS_CardinalityType

\* The backoff of an attempt that was made stays within its cap.
LEMMA BackoffType == ASSUME NEW att \in Nat, att > 0 PROVE Backoff(att) \in Minutes
<1>1. att - 1 \in Nat
    OBVIOUS
<1>2. 2^(att - 1) \in Nat
    BY <1>1, PowerType
<1> QED
    BY <1>2, LimitAssumption DEF Backoff, Smaller, Minutes

LEMMA InitQueue == Init => QueueInv
<1> SUFFICES ASSUME Init PROVE QueueInv
    OBVIOUS
<1>1. TypeOK
  <2>1. worker \in [Threads -> [pc: WorkerPcs, job: Jobs \cup {None}, att: Nat,
                               outcome: Done \cup {"pending"}]]
      BY DEF Init, NoThread, At, WorkerPcs
  <2>2. \A t \in Threads : worker[t].pc = "none"
      BY DEF Init, NoThread, At
  <2>3. 0 \in Minutes /\ 0 \in 0 .. MaxCrashes
      BY LimitAssumption DEF Minutes
  <2> QED
      BY <2>1, <2>2, <2>3 DEF Init, TypeOK, Statuses
<1>2. ClaimInv
    BY DEF Init, ClaimInv, OneWorkerPerJob, WorksOn, NoThread, At
<1>3. AttemptInv
    BY LimitAssumption
    DEF Init, AttemptInv, AttemptsWithinCrashes, NoThread, At
<1> QED
    BY <1>1, <1>2, <1>3 DEF QueueInv

-----------------------------------------------------------------------------
(* Types *)

LEMMA NextType == QueueInv /\ [Next]_vars => TypeOK'
<1> SUFFICES ASSUME QueueInv, [Next]_vars PROVE TypeOK'
    OBVIOUS
<1> USE JobAssumption, LimitAssumption, NoneAssumption
    DEF QueueInv, TypeOK, At, Statuses, Done, WorkerPcs, rowVars
<1>1. CASE Boot
    BY <1>1 DEF Boot, ResetOrphans
<1>2. CASE Start
    BY <1>2 DEF Start, Looping
<1>3. CASE StopBegins
    BY <1>3 DEF StopBegins
<1>4. CASE StopEnds
    BY <1>4 DEF StopEnds
<1>5. CASE Crash
  <2>1. worker' \in [Threads -> [pc: WorkerPcs, job: Jobs \cup {None}, att: Nat,
                                outcome: Done \cup {"pending"}]]
      BY <1>5 DEF Crash, NoThread
  <2>2. \A t \in Threads : worker'[t].pc = "none"
      BY <1>5 DEF Crash, NoThread
  <2>3. crashes' \in 0 .. MaxCrashes
      BY <1>5 DEF Crash
  <2> QED
      BY <1>5, <2>1, <2>2, <2>3 DEF Crash
<1>6. ASSUME NEW j \in Jobs, NEW s \in 0 .. Cardinality(Jobs), Enqueue(j, s)
      PROVE  TypeOK'
    BY <1>6 DEF Enqueue
<1>7. ASSUME NEW t \in Threads, Exits(t) PROVE TypeOK'
    BY <1>7 DEF Exits, NoThread
<1>8. ASSUME NEW t \in Threads, NEW j \in Jobs, Selects(t, j) PROVE TypeOK'
    BY <1>8 DEF Selects
<1>9. ASSUME NEW t \in Threads, Claims(t) PROVE TypeOK'
    BY <1>9 DEF Claims
<1>10. ASSUME NEW t \in Threads, Dispatches(t) PROVE TypeOK'
    BY <1>10 DEF Dispatches
<1>11. ASSUME NEW t \in Threads, HandlerReturns(t) PROVE TypeOK'
    BY <1>11 DEF HandlerReturns
<1>12. ASSUME NEW t \in Threads, HandlerRaises(t) PROVE TypeOK'
    BY <1>12 DEF HandlerRaises
<1>13. ASSUME NEW t \in Threads, Retries(t) PROVE TypeOK'
  <2>1. worker[t].att \in Nat /\ worker[t].att > 0
      BY <1>13 DEF Retries, AttemptInv
  <2>2. Backoff(worker[t].att) \in Minutes
      BY <2>1, BackoffType
  <2> QED
      BY <1>13, <2>2 DEF Retries, Looping
<1>14. ASSUME NEW t \in Threads, Finishes(t) PROVE TypeOK'
    BY <1>14 DEF Finishes, Looping
<1>15. ASSUME NEW t \in Threads, LosesOutcome(t) PROVE TypeOK'
  <2>1. worker[t].job \in Jobs
      BY <1>15 DEF LosesOutcome
  <2> QED
      BY <1>15, <2>1 DEF LosesOutcome, Looping
<1>16. CASE Minute
    BY <1>16 DEF Minute, Minutes
<1>17. CASE UNCHANGED vars
    BY <1>17 DEF vars
<1> QED
    BY <1>1, <1>2, <1>3, <1>4, <1>5, <1>6, <1>7, <1>8, <1>9, <1>10, <1>11, <1>12, <1>13,
       <1>14, <1>15, <1>16, <1>17 DEF Next, Moves

-----------------------------------------------------------------------------
(* The claim *)

LEMMA NextClaim == QueueInv /\ [Next]_vars => ClaimInv'
<1> SUFFICES ASSUME QueueInv, [Next]_vars PROVE ClaimInv'
    OBVIOUS
<1> USE JobAssumption
    DEF QueueInv, TypeOK, ClaimInv, OneWorkerPerJob, WorksOn, At, rowVars
<1>1. CASE Boot
    BY <1>1 DEF Boot, ResetOrphans
<1>2. CASE Start
    BY <1>2 DEF Start, Looping
<1>3. CASE StopBegins
    BY <1>3 DEF StopBegins
<1>4. CASE StopEnds
    BY <1>4 DEF StopEnds
<1>5. CASE Crash
    BY <1>5 DEF Crash, NoThread
<1>6. ASSUME NEW j \in Jobs, NEW s \in 0 .. Cardinality(Jobs), Enqueue(j, s)
      PROVE  ClaimInv'
    BY <1>6 DEF Enqueue, LockFree
<1>7. ASSUME NEW t \in Threads, Exits(t) PROVE ClaimInv'
    BY <1>7 DEF Exits, NoThread
<1>8. ASSUME NEW t \in Threads, NEW j \in Jobs, Selects(t, j) PROVE ClaimInv'
    BY <1>8 DEF Selects, LockFree, Eligible
<1>9. ASSUME NEW t \in Threads, Claims(t) PROVE ClaimInv'
    BY <1>9 DEF Claims
<1>10. ASSUME NEW t \in Threads, Dispatches(t) PROVE ClaimInv'
    BY <1>10 DEF Dispatches
<1>11. ASSUME NEW t \in Threads, HandlerReturns(t) PROVE ClaimInv'
    BY <1>11 DEF HandlerReturns
<1>12. ASSUME NEW t \in Threads, HandlerRaises(t) PROVE ClaimInv'
    BY <1>12 DEF HandlerRaises
<1>13. ASSUME NEW t \in Threads, Retries(t) PROVE ClaimInv'
    BY <1>13 DEF Retries, Looping, LockFree
<1>14. ASSUME NEW t \in Threads, Finishes(t) PROVE ClaimInv'
    BY <1>14 DEF Finishes, Looping, LockFree
<1>15. ASSUME NEW t \in Threads, LosesOutcome(t) PROVE ClaimInv'
  <2>1. worker[t].job \in Jobs
      BY <1>15 DEF LosesOutcome
  <2> QED
      BY <1>15, <2>1 DEF LosesOutcome, Looping
<1>16. CASE Minute
    BY <1>16 DEF Minute
<1>17. CASE UNCHANGED vars
    BY <1>17 DEF vars
<1> QED
    BY <1>1, <1>2, <1>3, <1>4, <1>5, <1>6, <1>7, <1>8, <1>9, <1>10, <1>11, <1>12, <1>13,
       <1>14, <1>15, <1>16, <1>17 DEF Next, Moves

-----------------------------------------------------------------------------
(* Attempts *)

LEMMA NextAttempt == QueueInv /\ [Next]_vars => AttemptInv'
<1> SUFFICES ASSUME QueueInv, [Next]_vars PROVE AttemptInv'
    OBVIOUS
<1> USE JobAssumption, LimitAssumption
    DEF QueueInv, TypeOK, AttemptInv, AttemptsWithinCrashes, GivesUp, Done, At, rowVars
<1>1. CASE Boot
    BY <1>1 DEF Boot, ResetOrphans
<1>2. CASE Start
    BY <1>2 DEF Start, Looping
<1>3. CASE StopBegins
    BY <1>3 DEF StopBegins
<1>4. CASE StopEnds
    BY <1>4 DEF StopEnds
<1>5. CASE Crash
    BY <1>5 DEF Crash, NoThread
<1>6. ASSUME NEW j \in Jobs, NEW s \in 0 .. Cardinality(Jobs), Enqueue(j, s)
      PROVE  AttemptInv'
    BY <1>6 DEF Enqueue
<1>7. ASSUME NEW t \in Threads, Exits(t) PROVE AttemptInv'
    BY <1>7 DEF Exits, NoThread
<1>8. ASSUME NEW t \in Threads, NEW j \in Jobs, Selects(t, j) PROVE AttemptInv'
    BY <1>8 DEF Selects
<1>9. ASSUME NEW t \in Threads, Claims(t) PROVE AttemptInv'
    BY <1>9 DEF Claims, ClaimInv, WorksOn
<1>10. ASSUME NEW t \in Threads, Dispatches(t) PROVE AttemptInv'
    BY <1>10 DEF Dispatches
<1>11. ASSUME NEW t \in Threads, HandlerReturns(t) PROVE AttemptInv'
    BY <1>11 DEF HandlerReturns
<1>12. ASSUME NEW t \in Threads, HandlerRaises(t) PROVE AttemptInv'
    BY <1>12 DEF HandlerRaises
<1>13. ASSUME NEW t \in Threads, Retries(t) PROVE AttemptInv'
    BY <1>13 DEF Retries, Looping, ClaimInv, WorksOn
<1>14. ASSUME NEW t \in Threads, Finishes(t) PROVE AttemptInv'
    BY <1>14 DEF Finishes, Looping
<1>15. ASSUME NEW t \in Threads, LosesOutcome(t) PROVE AttemptInv'
  <2>1. worker[t].job \in Jobs
      BY <1>15 DEF LosesOutcome
  <2> QED
      BY <1>15, <2>1 DEF LosesOutcome, Looping
<1>16. CASE Minute
    BY <1>16 DEF Minute
<1>17. CASE UNCHANGED vars
    BY <1>17 DEF vars
<1> QED
    BY <1>1, <1>2, <1>3, <1>4, <1>5, <1>6, <1>7, <1>8, <1>9, <1>10, <1>11, <1>12, <1>13,
       <1>14, <1>15, <1>16, <1>17 DEF Next, Moves

LEMMA QueueInvariant == Spec => []QueueInv
<1>1. QueueInv /\ [Next]_vars => QueueInv'
    BY NextType, NextClaim, NextAttempt DEF QueueInv
<1> QED
    BY InitQueue, <1>1, PTL DEF Spec

-----------------------------------------------------------------------------
(* Theorems *)

\* Every reachable state is well typed; a retry waits at most MaxBackoff.
THEOREM TypeCorrect == Spec => []TypeOK
BY QueueInvariant, PTL DEF QueueInv

\* "Atomically claim one pending job": no job is in the hands of two threads,
\* however many threads, pools stopped and started, handlers and crashes.
THEOREM OneWorker == Spec => []OneWorkerPerJob
BY QueueInvariant, PTL DEF QueueInv, ClaimInv

\* A job is attempted at most MaxAttempts times, and once more for every
\* process killed.
THEOREM AttemptsBounded == Spec => []AttemptsWithinCrashes
BY QueueInvariant, PTL DEF QueueInv, AttemptInv

\* A completed or dead job is never touched again: whoever stores an outcome or
\* offers a job again holds one that is 'running'.
THEOREM DoneIsFinal == Spec => DoneStaysDone
<1>1. QueueInv /\ [Next]_vars =>
        \A j \in Jobs : status[j] \in Done => status'[j] = status[j]
  <2> SUFFICES ASSUME QueueInv, [Next]_vars, NEW j \in Jobs, status[j] \in Done
               PROVE  status'[j] = status[j]
      OBVIOUS
  <2> USE DEF QueueInv, TypeOK, ClaimInv, WorksOn, Done, rowVars
  <2>1. CASE Boot
      BY <2>1 DEF Boot, ResetOrphans
  <2>2. ASSUME NEW i \in Jobs, NEW s \in 0 .. Cardinality(Jobs), Enqueue(i, s)
        PROVE  status'[j] = status[j]
      BY <2>2 DEF Enqueue
  <2>3. ASSUME NEW t \in Threads, Claims(t) PROVE status'[j] = status[j]
      BY <2>3 DEF Claims
  <2>4. ASSUME NEW t \in Threads, Retries(t) PROVE status'[j] = status[j]
      BY <2>4 DEF Retries
  <2>5. ASSUME NEW t \in Threads, Finishes(t) PROVE status'[j] = status[j]
      BY <2>5 DEF Finishes
  <2>6. CASE UNCHANGED status
      BY <2>6
  <2> QED
      BY <2>1, <2>2, <2>3, <2>4, <2>5, <2>6
      DEF Next, Moves, Start, StopBegins, StopEnds, Crash, Exits, Selects, Dispatches,
          HandlerReturns, HandlerRaises, LosesOutcome, Minute, vars
<1> QED
    BY QueueInvariant, <1>1, PTL DEF Spec, DoneStaysDone

=============================================================================
