----------------------------- MODULE Scheduler -----------------------------
(***************************************************************************)
(* DurableScheduler (scheduler.py) and the handler AppState gives it: one  *)
(* SQLite row per user, one worker thread that claims due rows and runs    *)
(* the user's daily pipeline, HTTP threads that save the user's settings,  *)
(* account deletion, crashes, and boots that reset orphans and import the  *)
(* legacy schedule file.                                                   *)
(*                                                                         *)
(* Time is relative and counts in units of the smallest interval: a row's  *)
(* "next" is how long until it is due (0 or less: due), "since" how long   *)
(* ago its last run was recorded, and Tick ages both.                      *)
(***************************************************************************)
EXTENDS Integers

CONSTANTS
    Owners,       \* accounts that exist at first
    Requests,     \* HTTP threads that save a schedule
    Asked,        \* values of intervalMinutes clients send
    MinInterval,  \* min_interval_minutes
    MaxInterval,  \* max_interval_minutes
    MaxBackoff,   \* max_backoff_minutes
    Legacy,       \* watchlist_schedule.json: [Owners -> entry or Nil]
    MaxCrashes,   \* bound: how often the process is killed
    MaxFailures,  \* bound: failed runs of a user in a row
    MaxLate,      \* bound: lateness past which two due rows look alike
    Nil

ASSUME IntervalAssumption == /\ MinInterval \in Nat \ {0}
                             /\ MaxInterval \in Nat
                             /\ MinInterval <= MaxInterval
                             /\ MaxBackoff \in Nat
ASSUME AskedAssumption    == Asked \subseteq Int
ASSUME LegacyAssumption   == Legacy \in [Owners -> [enabled: BOOLEAN, interval: Int] \cup {Nil}]
ASSUME BoundAssumption    == MaxCrashes \in Nat /\ MaxFailures \in Nat /\ MaxLate \in Nat
ASSUME NilAssumption      == Nil \notin Int /\ Nil \notin Owners

VARIABLES
    accounts,  \* accounts not deleted yet
    rows,      \* table schedules: [Owners -> row or Nil]
    loop,      \* the worker thread's position in _loop / run_due
    request,   \* [Requests -> position in upsert]
    crashes,   \* how often the process was killed so far
    streak     \* the user's failed runs in a row, bounded by MaxFailures

schedVars == <<accounts, rows, loop, request, crashes, streak>>

-----------------------------------------------------------------------------
Larger(a, b)  == IF a >= b THEN a ELSE b
Smaller(a, b) == IF a <= b THEN a ELSE b

Row(enabled, interval, since, next, failures, running) ==
    [enabled |-> enabled, interval |-> interval, since |-> since, next |-> next,
     failures |-> failures, running |-> running]

\* get() answers with defaults when the user has no row.
DefaultRow  == Row(FALSE, MaxInterval, Nil, Nil, 0, FALSE)
Existing(u) == IF rows[u] = Nil THEN DefaultRow ELSE rows[u]

\* mutant of Clamped: the lower limit is forgotten
ClampedAbove(i) == Smaller(i, MaxInterval)

Clamped(i) == Larger(MinInterval, Smaller(i, MaxInterval))

\* max(base + interval, now), with base = last_run_at or now - interval
FirstDue(enabled, interval, since) ==
    IF ~ enabled THEN Nil
    ELSE IF since = Nil THEN 0 ELSE Larger(0, interval - since)

\* record_run's interval: doubled for every failure after the first, capped
\* by MaxBackoff, and never below the user's own interval.
Delay(interval, failures) ==
    IF failures > 1 THEN Larger(interval, Smaller(interval * 2^(failures - 1), MaxBackoff))
                    ELSE interval

LongestDelay == Larger(MaxInterval, MaxBackoff)
Dues   == (-MaxLate .. LongestDelay) \cup {Nil}
Sinces == (0 .. MaxInterval) \cup {Nil}
RowRecs == [enabled: BOOLEAN, interval: MinInterval .. MaxInterval, since: Sinces,
            next: Dues, failures: Nat, running: BOOLEAN]

LoopPcs == {"down", "polling", "handling", "noting", "resting", "writing"}
LoopAt(pc, u, next, failures) ==
    [pc |-> pc, user |-> u, next |-> next, failures |-> failures]
LoopIdle(pc) == LoopAt(pc, Nil, Nil, 0)

RequestAt(u, enabled, interval, since, next) ==
    [user |-> u, enabled |-> enabled, interval |-> interval, since |-> since, next |-> next]
RequestIdle == RequestAt(Nil, FALSE, MinInterval, Nil, Nil)

\* The INSERT ... ON CONFLICT DO UPDATE of upsert, given what it read before.
Upserted(row, enabled, interval, since, next) ==
    IF row = Nil THEN Row(enabled, interval, since, next, 0, FALSE)
    ELSE Row(enabled, interval, row.since, next, row.failures, FALSE)

SchedInit ==
    /\ accounts = Owners
    /\ rows = [u \in Owners |-> Nil]
    /\ loop = LoopIdle("down")
    /\ request = [q \in Requests |-> RequestIdle]
    /\ crashes = 0
    /\ streak = [u \in Owners |-> 0]

-----------------------------------------------------------------------------
(* The process *)

\* mutant of Orphan: rows left in state 'running' are not reset
OrphanKept(row) == row

\* _reset_orphans, for one row
Orphan(row) == IF row = Nil THEN Nil
               ELSE Row(row.enabled, row.interval, row.since, row.next, row.failures, FALSE)

\* The "one-shot migration" of AppState.__init__, for one user
Import(row, entry) ==
    IF entry = Nil THEN row
    ELSE LET i     == Clamped(entry.interval)
             since == IF row = Nil THEN Nil ELSE row.since
         IN  Upserted(row, entry.enabled, i, since, FirstDue(entry.enabled, i, since))

\* The constructors, before the loop starts and the first request is served
Boot ==
    /\ loop.pc = "down"
    /\ rows' = [u \in Owners |-> Import(Orphan(rows[u]), Legacy[u])]
    /\ loop' = LoopIdle("polling")
    /\ UNCHANGED <<accounts, request, crashes, streak>>

Crash ==
    /\ loop.pc # "down"
    /\ crashes < MaxCrashes
    /\ crashes' = crashes + 1
    /\ loop' = LoopIdle("down")
    /\ request' = [q \in Requests |-> RequestIdle]
    /\ UNCHANGED <<accounts, rows, streak>>

-----------------------------------------------------------------------------
(* The worker thread *)

Due(u) == /\ rows[u] # Nil
          /\ rows[u].enabled /\ ~ rows[u].running
          /\ rows[u].next # Nil /\ rows[u].next <= 0

\* _claim_due: the row due for longest
ClaimDue(u) ==
    /\ loop.pc = "polling"
    /\ Due(u)
    /\ \A v \in Owners : Due(v) => rows[u].next <= rows[v].next
    /\ rows' = [rows EXCEPT ![u] =
                  Row(@.enabled, @.interval, @.since, @.next, @.failures, TRUE)]
    /\ loop' = LoopAt("handling", u, Nil, 0)
    /\ UNCHANGED <<accounts, request, crashes, streak>>

\* The first half of record_run: get(), then what to write.
Reading(pc, ok) ==
    LET u == loop.user
        e == Existing(u)
        f == IF ok THEN 0 ELSE e.failures + 1
    IN  loop' = LoopAt(pc, u, IF e.enabled THEN Delay(e.interval, f) ELSE Nil, f)

\* mutant of Recorded: the state is left 'running'
RecordedRunning(row, next, failures) ==
    IF row = Nil THEN Nil
    ELSE Row(row.enabled, row.interval, 0, next, failures, row.running)

\* The second half, UPDATE ... WHERE user_id: nothing when the row is gone.
Recorded(row, next, failures) ==
    IF row = Nil THEN Nil
    ELSE Row(row.enabled, row.interval, 0, next, failures, FALSE)

\* The handler, run_user_daily, raises before its watchlist scan is over (a
\* company deleted under it, a store that fails): run_due records a failure.
HandlerRaises ==
    /\ loop.pc = "handling"
    /\ streak[loop.user] < MaxFailures
    /\ Reading("writing", FALSE)
    /\ UNCHANGED <<accounts, rows, request, crashes, streak>>

\* run_watchlist_scan has started its scans and calls record_run itself; the
\* success it passes is always true.
NotesScan ==
    /\ loop.pc = "handling"
    /\ Reading("noting", TRUE)
    /\ UNCHANGED <<accounts, rows, request, crashes, streak>>

WritesNote ==
    LET u == loop.user
    IN  /\ loop.pc = "noting"
        /\ rows' = [rows EXCEPT ![u] = Recorded(@, loop.next, loop.failures)]
        /\ loop' = LoopAt("resting", u, Nil, 0)
        /\ UNCHANGED <<accounts, request, crashes, streak>>

\* Saved searches, digest and pushes: the handler's dict has no "status", which
\* run_due takes for success; listing the searches may still raise.
HandlerEnds(ok) ==
    /\ loop.pc = "resting"
    /\ ok \/ streak[loop.user] < MaxFailures
    /\ Reading("writing", ok)
    /\ UNCHANGED <<accounts, rows, request, crashes, streak>>

WritesRun ==
    LET u == loop.user
    IN  /\ loop.pc = "writing"
        /\ rows' = [rows EXCEPT ![u] = Recorded(@, loop.next, loop.failures)]
        /\ loop' = LoopIdle("polling")
        /\ streak' = [streak EXCEPT ![u] =
                        IF loop.failures = 0 \/ rows[u] = Nil THEN 0 ELSE @ + 1]
        /\ UNCHANGED <<accounts, request, crashes>>

LoopStep ==
    \/ \E u \in Owners : ClaimDue(u)
    \/ HandlerRaises
    \/ NotesScan
    \/ WritesNote
    \/ \E ok \in BOOLEAN : HandlerEnds(ok)
    \/ WritesRun

-----------------------------------------------------------------------------
(* HTTP threads *)

\* upsert, up to the lock: existing is read, next_run computed.
UpsertReads(q, u, enabled, asked) ==
    LET i == Clamped(asked)
        s == Existing(u).since
    IN  /\ request[q] = RequestIdle
        /\ loop.pc # "down"
        /\ u \in accounts
        /\ request' = [request EXCEPT ![q] =
                         RequestAt(u, enabled, i, s, FirstDue(enabled, i, s))]
        /\ UNCHANGED <<accounts, rows, loop, crashes, streak>>

UpsertWrites(q) ==
    LET r == request[q]
    IN  /\ r # RequestIdle
        /\ rows' = [rows EXCEPT ![r.user] =
                      Upserted(@, r.enabled, r.interval, r.since, r.next)]
        /\ request' = [request EXCEPT ![q] = RequestIdle]
        /\ UNCHANGED <<accounts, loop, crashes, streak>>

\* delete_user_account, its statement on this table
DeleteAccount(u) ==
    /\ u \in accounts
    /\ accounts' = accounts \ {u}
    /\ rows' = [rows EXCEPT ![u] = Nil]
    /\ streak' = [streak EXCEPT ![u] = 0]
    /\ UNCHANGED <<loop, request, crashes>>

\* One unit of time.  poll_seconds is far below a unit, so a loop that has
\* nothing else to do does not leave a due row waiting for one; and none
\* passes between the SELECT of record_run or upsert and its UPDATE.
Sooner(n) == IF n = Nil \/ n = -MaxLate THEN n ELSE n - 1
Older(n)  == IF n = Nil \/ n = MaxInterval THEN n ELSE n + 1

Tick ==
    /\ ~ (loop.pc = "polling" /\ \E u \in Owners : Due(u))
    /\ loop.pc \notin {"noting", "writing"}
    /\ \A q \in Requests : request[q] = RequestIdle
    /\ rows' = [u \in Owners |->
          IF rows[u] = Nil THEN Nil
          ELSE LET r == rows[u]
               IN  Row(r.enabled, r.interval, Older(r.since), Sooner(r.next), r.failures,
                       r.running)]
    /\ UNCHANGED <<accounts, loop, request, crashes, streak>>

SchedNext ==
    \/ Boot
    \/ Crash
    \/ LoopStep
    \/ \E q \in Requests, u \in Owners, enabled \in BOOLEAN, asked \in Asked :
          UpsertReads(q, u, enabled, asked)
    \/ \E q \in Requests : UpsertWrites(q)
    \/ \E u \in Owners : DeleteAccount(u)
    \/ Tick

SchedSpec == SchedInit /\ [][SchedNext]_schedVars

\* The loop is a thread whose exceptions are caught and that polls for ever, a
\* killed process is started again (restart: unless-stopped), a request that
\* read finishes, and time passes.
SchedFairness ==
    /\ WF_schedVars(LoopStep)
    /\ WF_schedVars(Boot)
    /\ \A q \in Requests : WF_schedVars(UpsertWrites(q))
    /\ WF_schedVars(Tick)

SchedFairSpec == SchedSpec /\ SchedFairness

-----------------------------------------------------------------------------
SchedTypeOK ==
    /\ accounts \subseteq Owners
    /\ rows \in [Owners -> RowRecs \cup {Nil}]
    /\ loop \in [pc: LoopPcs, user: Owners \cup {Nil}, next: Dues, failures: Nat]
    /\ loop.pc \in LoopPcs \ {"down", "polling"} => loop.user \in Owners
    /\ request \in [Requests ->
          [user: Owners \cup {Nil}, enabled: BOOLEAN,
           interval: MinInterval .. MaxInterval, since: Sinces, next: Dues]]
    /\ \A q \in Requests : request[q] = RequestIdle \/ request[q].user \in Owners
    /\ crashes \in 0 .. MaxCrashes
    /\ streak \in [Owners -> Nat]

-----------------------------------------------------------------------------
(* Properties *)

\* scheduler.py: "a crash never leaves a job in running for the next process".
\* While the process is up, a row in state 'running' is the one its loop works
\* on, whatever was saved, deleted or killed meanwhile.
RunningHasWorker ==
    loop.pc # "down" => \A u \in Owners : rows[u] # Nil /\ rows[u].running => loop.user = u

\* The promise of a recurring schedule.  Once settings are left alone (saving
\* them again moves an overdue row behind the others), every row that is
\* enabled and has a due date is claimed again and again, whatever was saved,
\* deleted or killed before and whatever the other schedules are.
EveryArmedScheduleRuns ==
    <>[](\A q \in Requests : request[q] = RequestIdle) =>
        \A u \in Owners :
            <>[](rows[u] # Nil /\ rows[u].enabled /\ rows[u].next # Nil)
                => []<>(loop.user = u)

\* scheduler.py: 'per-user "every N minutes" intervals'.  An enabled schedule
\* has a due date: record_run's stale copy of a disabled row must not erase the
\* one that enabling it has just set.
EnabledIsArmed ==
    \A u \in Owners : rows[u] # Nil /\ rows[u].enabled => rows[u].next # Nil
=============================================================================
