------------------------------ MODULE JobQueue ------------------------------
(***************************************************************************)
(* BackgroundJobQueue (job_queue.py): a SQLite table of jobs and a pool of *)
(* worker threads that claim a pending job, run its handler and store what *)
(* became of it.  Handlers may raise, hang or never be registered; the     *)
(* process may be killed and started again; the pool may be stopped and    *)
(* started while handlers run.  One process opens the file.                *)
(***************************************************************************)
EXTENDS Integers, FiniteSets

CONSTANTS
    Threads,      \* worker threads (a bound: threads ever alive at once)
    Jobs,         \* job ids (a bound: jobs per behaviour)
    Known,        \* jobs whose kind has a registered handler
    Hanging,      \* jobs whose handler may never return
    WorkerCount,  \* worker_count
    MaxAttempts,  \* max_attempts, the same for every job
    MaxBackoff,   \* max_backoff_minutes
    MaxCrashes,   \* bound: how often the process is killed
    StopsOn,      \* are stop() and a second start() called?
    FaultsOn,     \* may storing an outcome raise?
    None

ASSUME PoolAssumption  == WorkerCount \in Nat \ {0}
ASSUME JobAssumption   == Known \subseteq Jobs /\ Hanging \subseteq Jobs
ASSUME LimitAssumption == /\ MaxAttempts \in Nat \ {0}
                          /\ MaxBackoff \in Nat \ {0}
                          /\ MaxCrashes \in Nat
ASSUME ToggleAssumption == StopsOn \in BOOLEAN /\ FaultsOn \in BOOLEAN
ASSUME NoneAssumption  == None \notin Jobs /\ None \notin Threads

VARIABLES
    status,   \* background_jobs.status ("absent" before the INSERT)
    attempt,  \* background_jobs.attempt
    wait,     \* minutes until next_attempt_at, 0 when it has passed
    created,  \* background_jobs.created_at, in seconds
    worker,   \* [Threads -> position in _worker_loop]
    pool,     \* _workers
    up,       \* is the process running?
    stopping, \* _stop is set
    crashes,  \* how often the process was killed so far
    lost      \* history: jobs whose outcome this process could not store

rowVars == <<status, attempt, wait, created>>
vars    == <<rowVars, worker, pool, up, stopping, crashes, lost>>

-----------------------------------------------------------------------------
Statuses  == {"absent", "pending", "running", "completed", "dead"}
Done      == {"completed", "dead"}
WorkerPcs == {"none", "looping", "claiming", "claimed", "handling", "retrying", "finishing"}

\* "att" is the attempt the thread read back, "outcome" what it will store.
At(pc, j, att, outcome) == [pc |-> pc, job |-> j, att |-> att, outcome |-> outcome]
NoThread == At("none", None, 0, "pending")
Looping  == At("looping", None, 0, "pending")

\* A thread inside the claim holds the queue's lock.
LockFree == \A t \in Threads : worker[t].pc # "claiming"

WorksOn(t) == worker[t].pc \in {"claimed", "handling", "retrying", "finishing"}

Minutes == 0 .. MaxBackoff
Smaller(a, b) == IF a <= b THEN a ELSE b

\* mutant of Backoff: no cap
BackoffUncapped(att) == 2^(att - 1)

Backoff(att) == Smaller(MaxBackoff, 2^(att - 1))

Init ==
    /\ status = [j \in Jobs |-> "absent"]
    /\ attempt = [j \in Jobs |-> 0]
    /\ wait = [j \in Jobs |-> 0]
    /\ created = [j \in Jobs |-> 0]
    /\ worker = [t \in Threads |-> NoThread]
    /\ pool = {}
    /\ up = FALSE
    /\ stopping = FALSE
    /\ crashes = 0
    /\ lost = {}

-----------------------------------------------------------------------------
(* The process and its pool *)

\* mutant of ResetOrphans: jobs of the previous process stay 'running'
ResetNothing == UNCHANGED status

\* mutant of ResetOrphans: dead jobs are offered again as well
ResetDead == status' = [j \in Jobs |-> IF status[j] \in {"running", "dead"} THEN "pending"
                                                                        ELSE status[j]]

ResetOrphans == status' = [j \in Jobs |-> IF status[j] = "running" THEN "pending" ELSE status[j]]

\* The constructor
Boot ==
    /\ ~ up
    /\ up' = TRUE
    /\ ResetOrphans
    /\ UNCHANGED <<attempt, wait, created, worker, pool, stopping, crashes, lost>>

\* start(): nothing when the pool is not empty
Start ==
    /\ up /\ LockFree
    /\ pool = {}
    /\ \E new \in SUBSET {t \in Threads : worker[t].pc = "none"} :
          /\ Cardinality(new) = WorkerCount
          /\ worker' = [t \in Threads |-> IF t \in new THEN Looping ELSE worker[t]]
          /\ pool' = new
    /\ UNCHANGED <<rowVars, up, stopping, crashes, lost>>

StopBegins ==
    /\ StopsOn
    /\ up /\ ~ stopping
    /\ stopping' = TRUE
    /\ UNCHANGED <<rowVars, worker, pool, up, crashes, lost>>

\* Every join has returned, because the thread ended or because its handler
\* takes more than the timeout (nothing else does): stop() empties the pool and
\* clears the event either way.
StopEnds ==
    /\ up /\ stopping /\ LockFree
    /\ \A t \in pool : worker[t].pc \in {"none", "handling"}
    /\ stopping' = FALSE
    /\ pool' = {}
    /\ UNCHANGED <<rowVars, worker, up, crashes, lost>>

Crash ==
    /\ up
    /\ crashes < MaxCrashes
    /\ crashes' = crashes + 1
    /\ up' = FALSE
    /\ worker' = [t \in Threads |-> NoThread]
    /\ pool' = {}
    /\ stopping' = FALSE
    /\ lost' = {}
    /\ UNCHANGED rowVars

-----------------------------------------------------------------------------
(* Producers *)

\* created_at has whole seconds, counted here from the first job's: two jobs may
\* share one.
Newest == CHOOSE s \in {created[j] : j \in Jobs} : \A j \in Jobs : created[j] <= s

Enqueue(j, s) ==
    /\ up /\ LockFree
    /\ status[j] = "absent"
    /\ s = Newest \/ (s = Newest + 1 /\ \E i \in Jobs : status[i] # "absent")
    /\ status' = [status EXCEPT ![j] = "pending"]
    /\ created' = [created EXCEPT ![j] = s]
    /\ UNCHANGED <<attempt, wait, worker, pool, up, stopping, crashes, lost>>

-----------------------------------------------------------------------------
(* A worker thread *)

\* _stop is looked at between two jobs only.
Exits(t) ==
    /\ worker[t].pc = "looping"
    /\ stopping
    /\ worker' = [worker EXCEPT ![t] = NoThread]
    /\ UNCHANGED <<rowVars, pool, up, stopping, crashes, lost>>

Eligible(j) == status[j] = "pending" /\ wait[j] = 0

\* mutant of Selects: the lock is not taken for the SELECT
SelectsUnlocked(t, j) ==
    /\ worker[t].pc = "looping"
    /\ ~ stopping
    /\ Eligible(j)
    /\ \A i \in Jobs : Eligible(i) => created[j] <= created[i]
    /\ worker' = [worker EXCEPT ![t] = At("claiming", j, 0, "pending")]
    /\ UNCHANGED <<rowVars, pool, up, stopping, crashes, lost>>

\* The SELECT of _claim_and_run_one, in no transaction; only the queue's lock,
\* kept for the UPDATE, holds the other threads back.
Selects(t, j) ==
    /\ worker[t].pc = "looping"
    /\ ~ stopping
    /\ LockFree
    /\ Eligible(j)
    /\ \A i \in Jobs : Eligible(i) => created[j] <= created[i]
    /\ worker' = [worker EXCEPT ![t] = At("claiming", j, 0, "pending")]
    /\ UNCHANGED <<rowVars, pool, up, stopping, crashes, lost>>

Claims(t) ==
    LET j == worker[t].job
    IN  /\ worker[t].pc = "claiming"
        /\ status' = [status EXCEPT ![j] = "running"]
        /\ attempt' = [attempt EXCEPT ![j] = @ + 1]
        /\ worker' = [worker EXCEPT ![t] = At("claimed", j, 0, "pending")]
        /\ UNCHANGED <<wait, created, pool, up, stopping, crashes, lost>>

\* The attempt is read back under the lock; an unknown kind goes straight to
\* 'dead', a known one to its handler.
Dispatches(t) ==
    LET j == worker[t].job
    IN  /\ worker[t].pc = "claimed"
        /\ LockFree
        /\ worker' = [worker EXCEPT ![t] =
                        IF j \in Known THEN At("handling", j, attempt[j], "pending")
                                       ELSE At("finishing", j, attempt[j], "dead")]
        /\ UNCHANGED <<rowVars, pool, up, stopping, crashes, lost>>

HandlerReturns(t) ==
    LET w == worker[t]
    IN  /\ w.pc = "handling"
        /\ worker' = [worker EXCEPT ![t] = At("finishing", w.job, w.att, "completed")]
        /\ UNCHANGED <<rowVars, pool, up, stopping, crashes, lost>>

\* mutant of GivesUp: one attempt too many
GivesUpLate(att) == att > MaxAttempts

GivesUp(att) == att >= MaxAttempts

HandlerRaises(t) ==
    LET w == worker[t]
    IN  /\ w.pc = "handling"
        /\ worker' = [worker EXCEPT ![t] =
                        IF GivesUp(w.att) THEN At("finishing", w.job, w.att, "dead")
                                          ELSE At("retrying", w.job, w.att, "pending")]
        /\ UNCHANGED <<rowVars, pool, up, stopping, crashes, lost>>

Retries(t) ==
    LET w == worker[t]
    IN  /\ w.pc = "retrying"
        /\ LockFree
        /\ status' = [status EXCEPT ![w.job] = "pending"]
        /\ wait' = [wait EXCEPT ![w.job] = Backoff(w.att)]
        /\ worker' = [worker EXCEPT ![t] = Looping]
        /\ UNCHANGED <<attempt, created, pool, up, stopping, crashes, lost>>

Finishes(t) ==
    LET w == worker[t]
    IN  /\ w.pc = "finishing"
        /\ LockFree
        /\ status' = [status EXCEPT ![w.job] = w.outcome]
        /\ worker' = [worker EXCEPT ![t] = Looping]
        /\ UNCHANGED <<attempt, wait, created, pool, up, stopping, crashes, lost>>

\* Storing the outcome raises: the loop logs it and goes on, the row does not.
LosesOutcome(t) ==
    /\ FaultsOn
    /\ worker[t].pc \in {"finishing", "retrying"}
    /\ worker' = [worker EXCEPT ![t] = Looping]
    /\ lost' = lost \cup {worker[t].job}
    /\ UNCHANGED <<rowVars, pool, up, stopping, crashes>>

\* A minute passes for the jobs that wait.
Minute ==
    /\ \E j \in Jobs : wait[j] > 0
    /\ wait' = [j \in Jobs |-> IF wait[j] > 0 THEN wait[j] - 1 ELSE 0]
    /\ UNCHANGED <<status, attempt, created, worker, pool, up, stopping, crashes, lost>>

-----------------------------------------------------------------------------
\* What a thread does by itself; a handler that may hang is not among it.
Moves(t) ==
    \/ Exits(t)
    \/ \E j \in Jobs : Selects(t, j)
    \/ Claims(t)
    \/ Dispatches(t)
    \/ worker[t].job \notin Hanging /\ (HandlerReturns(t) \/ HandlerRaises(t))
    \/ Retries(t)
    \/ Finishes(t)

Next ==
    \/ Boot
    \/ Start
    \/ StopBegins
    \/ StopEnds
    \/ Crash
    \/ \E j \in Jobs, s \in 0 .. Cardinality(Jobs) : Enqueue(j, s)
    \/ \E t \in Threads : Moves(t) \/ HandlerReturns(t) \/ HandlerRaises(t) \/ LosesOutcome(t)
    \/ Minute

Spec == Init /\ [][Next]_vars

\* A process that is down is started again and starts its pool; stop() returns,
\* for its joins time out; threads run; time passes.  Nothing is assumed of handlers in Hanging.
Fairness ==
    /\ WF_vars(Boot)
    /\ WF_vars(Start)
    /\ WF_vars(StopEnds)
    /\ \A t \in Threads : SF_vars(Moves(t))
    /\ WF_vars(Minute)

FairSpec == Spec /\ Fairness

-----------------------------------------------------------------------------
TypeOK ==
    /\ status \in [Jobs -> Statuses]
    /\ attempt \in [Jobs -> Nat]
    /\ wait \in [Jobs -> Minutes]
    /\ created \in [Jobs -> Nat]
    /\ worker \in [Threads -> [pc: WorkerPcs, job: Jobs \cup {None}, att: Nat,
                               outcome: Done \cup {"pending"}]]
    /\ \A t \in Threads : worker[t].pc \notin {"none", "looping"} => worker[t].job \in Jobs
    /\ pool \subseteq Threads
    /\ up \in BOOLEAN
    /\ stopping \in BOOLEAN
    /\ crashes \in 0 .. MaxCrashes
    /\ lost \subseteq Jobs

-----------------------------------------------------------------------------
(* Properties *)

\* "Atomically claim one pending job": no job is in the hands of two threads.
OneWorkerPerJob ==
    \A s, t \in Threads : s # t /\ WorksOn(s) /\ WorksOn(t) => worker[s].job # worker[t].job

\* What makes it inductive: a killed process leaves no thread, the lock lets one
\* thread claim at a time, and a job in somebody's hands is 'running'.
ClaimInv ==
    /\ ~ up => \A t \in Threads : worker[t].pc = "none"
    /\ \A t \in Threads : worker[t].pc = "claiming" => status[worker[t].job] = "pending"
    /\ \A t \in Threads : WorksOn(t) => status[worker[t].job] = "running"
    /\ \A s, t \in Threads : worker[s].pc = "claiming" /\ worker[t].pc = "claiming" => s = t
    /\ OneWorkerPerJob

\* A job that completed or died is never touched again.
DoneStaysDone == [][\A j \in Jobs : status[j] \in Done => status'[j] = status[j]]_vars

\* At-least-once, but not more often than that: the attempts of a job exceed
\* max_attempts only by those a killed process left behind.
AttemptsWithinCrashes == \A j \in Jobs : attempt[j] <= MaxAttempts + crashes

\* What makes it inductive: the thread knows the attempt it works on, only a
\* job with attempts left goes back to 'pending', and a job that may be claimed
\* again has one to spare for every process killed so far.
AttemptInv ==
    /\ \A t \in Threads :
          /\ worker[t].pc = "claimed" => attempt[worker[t].job] > 0
          /\ worker[t].pc \in {"handling", "retrying", "finishing"} =>
                worker[t].att = attempt[worker[t].job] /\ worker[t].att > 0
          /\ worker[t].pc = "retrying" => ~ GivesUp(worker[t].att)
          /\ worker[t].pc = "finishing" => worker[t].outcome \in Done
    /\ \A j \in Jobs :
          /\ status[j] = "absent" => attempt[j] = 0
          /\ status[j] = "pending" \/ (status[j] = "running" /\ ~ up) =>
                attempt[j] < MaxAttempts + crashes
    /\ AttemptsWithinCrashes

\* "With worker_count=2, a single hang doesn't stall the whole queue": a job
\* whose handler does not hang is completed or dead in the end, as long as
\* fewer handlers hang than the pool has workers and the queue is not stopped
\* for ever, unless its outcome could not be stored.
EveryJobSettles ==
    <>[]~ stopping =>
       \A j \in Jobs \ Hanging : status[j] = "pending" ~> (status[j] \in Done \/ j \in lost)

=============================================================================
