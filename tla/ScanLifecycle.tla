--------------------------- MODULE ScanLifecycle ---------------------------
(***************************************************************************)
(* Career-page scans: AppState.start_scan and _run_scan (app.py), the      *)
(* counters of QuotaStore (quotas.py) and the control skeleton of          *)
(* CompanyDiscoveryService.scan_company_career_page (service.py).          *)
(*                                                                         *)
(* A caller (an HTTP request thread, or the scheduler's thread walking the *)
(* watchlist) claims the per-company key, reserves quota, saves a "queued" *)
(* run row and spawns a daemon thread; that thread scans, saves the        *)
(* outcome, discards the key and gives the concurrency slot back.  Keys    *)
(* and slots live in memory, counters and rows in SQLite.                  *)
(***************************************************************************)
EXTENDS Integers, FiniteSets

CONSTANTS
    Users,          \* accounts
    Companies,      \* company ids
    Owner,          \* [Companies -> Users], Company.user_id
    Domains,        \* hosts of career pages
    DomainOf,       \* [Companies -> Domains], host of career_page_url
    Callers,        \* threads that call start_scan
    Runs,           \* ids of CompanyDiscoveryRun rows (a bound: rows per behaviour)
    ActiveLimit,    \* HELPMEFINDTHEJOB_QUOTA_ACTIVE_SCANS
    ScansPerDay,    \* HELPMEFINDTHEJOB_QUOTA_SCANS_PER_DAY
    DomainPerHour,  \* HELPMEFINDTHEJOB_QUOTA_DOMAIN_PER_HOUR
    FaultsOn,       \* may a SQLite write or Thread.start raise?
    RestartsOn,     \* may the process be restarted?
    None            \* "no company" / "no run"

ASSUME OwnerAssumption    == Owner \in [Companies -> Users]
ASSUME DomainAssumption   == DomainOf \in [Companies -> Domains]
ASSUME LimitAssumption    == /\ ActiveLimit \in Nat
                             /\ ScansPerDay \in Nat
                             /\ DomainPerHour \in Nat
ASSUME FaultAssumption    == FaultsOn \in BOOLEAN /\ RestartsOn \in BOOLEAN
ASSUME FiniteAssumption   == IsFiniteSet(Callers) /\ IsFiniteSet(Runs)
ASSUME NoneAssumption     == None \notin Companies /\ None \notin Runs

VARIABLES
    active,        \* _active_company_scans; the key (user, company) is the company
    activePerUser, \* QuotaStore._active_per_user
    scansToday,    \* user_counters rows of kind 'scans', period today
    domainHour,    \* domain_counters rows, period this hour
    companies,     \* companies that exist
    caller,        \* the callers' progress through start_scan
    worker,        \* the progress of the thread spawned for a run
    runCompany,    \* CompanyDiscoveryRun.company_id
    memRun,        \* status of the run held in memory
    diskRun        \* status of the run's row in SQLite

quotaVars == <<activePerUser, scansToday, domainHour>>
runVars   == <<runCompany, memRun, diskRun>>
vars      == <<active, quotaVars, companies, caller, worker, runVars>>

-----------------------------------------------------------------------------
\* "rejected" stands for missing_career_page and restricted_platform (nothing
\* is fetched), "fetched" for the five statuses a scan that asked the site can
\* end with: completed (with or without errors) and the three blocked ones.
Terminal  == {"rejected", "fetched", "failed", "already_running"}
RunStatus == Terminal \cup {"absent", "queued", "running"}

CallerPcs == {"idle", "claimed", "reserved", "saved"}
WorkerPcs == {"none", "starting", "fetching", "recording", "failing", "releasing",
              "settling", "ended"}

At(pc, c, url, r) == [pc |-> pc, company |-> c, url |-> url, run |-> r]
IdleCaller == At("idle", None, FALSE, None)

CallerRecs == [pc: CallerPcs, company: Companies \cup {None}, url: BOOLEAN,
               run: Runs \cup {None}]

\* The thread owns the company's key until _run_scan's finally discards it.
HoldsKey(r) == worker[r] \in {"starting", "fetching", "recording", "failing", "releasing"}
\* The thread owns a concurrency slot until record_scan_finished.
HoldsSlot(r) == HoldsKey(r) \/ worker[r] = "settling"

CallerHoldsKey(k)  == caller[k].pc \in {"claimed", "reserved", "saved"}
CallerHoldsSlot(k) == caller[k].pc \in {"reserved", "saved"}

\* Outcomes of a repository save, or of Thread.start.
Outcome == IF FaultsOn THEN BOOLEAN ELSE {TRUE}

\* save_* of the SQLite repository updates the dict first, then the row;
\* when the statement raises, memory has the new value and the disk the old.
SaveRun(r, status, ok) ==
    /\ memRun'  = [memRun EXCEPT ![r] = status]
    /\ diskRun' = IF ok THEN [diskRun EXCEPT ![r] = status] ELSE diskRun

Init ==
    /\ active = {}
    /\ activePerUser = [u \in Users |-> 0]
    /\ scansToday = [u \in Users |-> 0]
    /\ domainHour = [d \in Domains |-> 0]
    /\ companies = Companies
    /\ caller = [k \in Callers |-> IdleCaller]
    /\ worker = [r \in Runs |-> "none"]
    /\ runCompany = [r \in Runs |-> None]
    /\ memRun = [r \in Runs |-> "absent"]
    /\ diskRun = [r \in Runs |-> "absent"]

-----------------------------------------------------------------------------
(* start_scan *)

Fresh(r) == runCompany[r] = None

\* The key is taken: answer with a finished "already_running" run, saved
\* while _active_lock is held.
AnswerBusy(k, c, r, ok) ==
    /\ caller[k] = IdleCaller
    /\ c \in companies /\ c \in active
    /\ Fresh(r)
    /\ runCompany' = [runCompany EXCEPT ![r] = c]
    /\ SaveRun(r, "already_running", ok)
    /\ UNCHANGED <<active, quotaVars, companies, caller, worker>>

\* mutant of Claim: the key is added without being looked up
ClaimUnchecked(k, c, url) ==
    /\ caller[k] = IdleCaller
    /\ c \in companies
    /\ active' = active \cup {c}
    /\ caller' = [caller EXCEPT ![k] = At("claimed", c, url, None)]
    /\ UNCHANGED <<quotaVars, companies, worker, runVars>>

Claim(k, c, url) ==
    /\ caller[k] = IdleCaller
    /\ c \in companies /\ c \notin active
    /\ active' = active \cup {c}
    /\ caller' = [caller EXCEPT ![k] = At("claimed", c, url, None)]
    /\ UNCHANGED <<quotaVars, companies, worker, runVars>>

\* mutant of QuotaLeft: off by one in the concurrency limit
QuotaLeftOneMore(u, d, url) ==
    /\ scansToday[u] < ScansPerDay
    /\ activePerUser[u] <= ActiveLimit
    /\ url => domainHour[d] < DomainPerHour

\* The three refusals of reserve_scan, which holds the quota lock throughout.
QuotaLeft(u, d, url) ==
    /\ scansToday[u] < ScansPerDay
    /\ activePerUser[u] < ActiveLimit
    /\ url => domainHour[d] < DomainPerHour

Reserve(k) ==
    LET c == caller[k].company
        u == Owner[c]
        d == DomainOf[c]
    IN  /\ caller[k].pc = "claimed"
        /\ QuotaLeft(u, d, caller[k].url)
        /\ scansToday' = [scansToday EXCEPT ![u] = @ + 1]
        /\ activePerUser' = [activePerUser EXCEPT ![u] = @ + 1]
        /\ domainHour' = IF caller[k].url THEN [domainHour EXCEPT ![d] = @ + 1]
                                          ELSE domainHour
        /\ caller' = [caller EXCEPT ![k] = At("reserved", c, @.url, None)]
        /\ UNCHANGED <<active, companies, worker, runVars>>

\* mutant of RefuseQuota: the slot is counted before the checks
RefuseQuotaCounted(k) ==
    LET c == caller[k].company
    IN  /\ caller[k].pc = "claimed"
        /\ ~ QuotaLeft(Owner[c], DomainOf[c], caller[k].url)
        /\ caller' = [caller EXCEPT ![k] = IdleCaller]
        /\ activePerUser' = [activePerUser EXCEPT ![Owner[c]] = @ + 1]
        /\ UNCHANGED <<active, scansToday, domainHour, companies, worker, runVars>>

\* QuotaError leaves start_scan between the claim and the thread: nothing
\* discards the key.
RefuseQuota(k) ==
    LET c == caller[k].company
    IN  /\ caller[k].pc = "claimed"
        /\ ~ QuotaLeft(Owner[c], DomainOf[c], caller[k].url)
        /\ caller' = [caller EXCEPT ![k] = IdleCaller]
        /\ UNCHANGED <<active, quotaVars, companies, worker, runVars>>

\* A counter's UPDATE raises inside reserve_scan: the key stays claimed, and the
\* slot too when it was the domain's counter, the last of the three.
ReserveBreaks(k, counted) ==
    LET c == caller[k].company
        u == Owner[c]
    IN  /\ FaultsOn
        /\ caller[k].pc = "claimed"
        /\ QuotaLeft(u, DomainOf[c], caller[k].url)
        /\ counted => caller[k].url
        /\ scansToday' = IF counted THEN [scansToday EXCEPT ![u] = @ + 1] ELSE scansToday
        /\ activePerUser' = IF counted THEN [activePerUser EXCEPT ![u] = @ + 1]
                                       ELSE activePerUser
        /\ caller' = [caller EXCEPT ![k] = IdleCaller]
        /\ UNCHANGED <<active, domainHour, companies, worker, runVars>>

SaveQueued(k, r, ok) ==
    /\ caller[k].pc = "reserved"
    /\ Fresh(r)
    /\ runCompany' = [runCompany EXCEPT ![r] = caller[k].company]
    /\ SaveRun(r, "queued", ok)
    /\ caller' = [caller EXCEPT ![k] =
                    IF ok THEN At("saved", @.company, @.url, r) ELSE IdleCaller]
    /\ UNCHANGED <<active, quotaVars, companies, worker>>

Spawn(k, ok) ==
    /\ caller[k].pc = "saved"
    /\ worker' = IF ok THEN [worker EXCEPT ![caller[k].run] = "starting"] ELSE worker
    /\ caller' = [caller EXCEPT ![k] = IdleCaller]
    /\ UNCHANGED <<active, quotaVars, companies, runVars>>

-----------------------------------------------------------------------------
(* _run_scan and the service call inside it *)

\* get_company raises KeyError: the company was deleted meanwhile.
ScanCompanyGone(r) ==
    /\ worker[r] = "starting"
    /\ runCompany[r] \notin companies
    /\ worker' = [worker EXCEPT ![r] = "failing"]
    /\ UNCHANGED <<active, quotaVars, companies, caller, runVars>>

\* No career page, or a platform the service refuses: nothing is fetched.
ScanRejected(r, ok) ==
    /\ worker[r] = "starting"
    /\ runCompany[r] \in companies
    /\ SaveRun(r, "rejected", ok)
    /\ worker' = [worker EXCEPT ![r] = IF ok THEN "recording" ELSE "failing"]
    /\ UNCHANGED <<active, quotaVars, companies, caller, runCompany>>

\* Saves "running" and fetches; the page is the company's own when the caller
\* passed no URL, and that fetch is in no domain's counter.
ScanStarts(r, ok) ==
    /\ worker[r] = "starting"
    /\ runCompany[r] \in companies
    /\ SaveRun(r, "running", ok)
    /\ worker' = [worker EXCEPT ![r] = IF ok THEN "fetching" ELSE "failing"]
    /\ UNCHANGED <<active, quotaVars, companies, caller, runCompany>>

\* Every normal return of the service saves the run with its outcome.
ScanEnds(r, ok) ==
    /\ worker[r] = "fetching"
    /\ SaveRun(r, "fetched", ok)
    /\ worker' = [worker EXCEPT ![r] = IF ok THEN "recording" ELSE "failing"]
    /\ UNCHANGED <<active, quotaVars, companies, caller, runCompany>>

\* mutant of ScanRecords: a scan whose record cannot be saved is started again
ScanRecordsRetried(r, ok) ==
    /\ worker[r] = "recording"
    /\ worker' = [worker EXCEPT ![r] = IF ok THEN "releasing" ELSE "starting"]
    /\ UNCHANGED <<active, quotaVars, companies, caller, runVars>>

\* save_scan follows the run's last save; when it raises, the except clause
\* overwrites an outcome that is already stored.
ScanRecords(r, ok) ==
    /\ worker[r] = "recording"
    /\ worker' = [worker EXCEPT ![r] = IF ok THEN "releasing" ELSE "failing"]
    /\ UNCHANGED <<active, quotaVars, companies, caller, runVars>>

\* mutant of ScanRaises: the except clause forgets the run's outcome
ScanRaisesSilently(r) ==
    /\ worker[r] = "fetching"
    /\ worker' = [worker EXCEPT ![r] = "releasing"]
    /\ UNCHANGED <<active, quotaVars, companies, caller, runVars>>

\* Anything else the service may raise while it fetches, parses or saves jobs.
ScanRaises(r) ==
    /\ worker[r] = "fetching"
    /\ worker' = [worker EXCEPT ![r] = "failing"]
    /\ UNCHANGED <<active, quotaVars, companies, caller, runVars>>

\* mutant of ScanFails: a status the rest of the program does not know
ScanFailsUnknown(r, ok) ==
    /\ worker[r] = "failing"
    /\ SaveRun(r, "error", ok)
    /\ worker' = [worker EXCEPT ![r] = "releasing"]
    /\ UNCHANGED <<active, quotaVars, companies, caller, runCompany>>

\* mutant of ScanFails: the slot is given back here and again in finally
ScanFailsReleases(r, ok) ==
    /\ worker[r] = "failing"
    /\ SaveRun(r, "failed", ok)
    /\ worker' = [worker EXCEPT ![r] = "releasing"]
    /\ activePerUser' = [activePerUser EXCEPT ![Owner[runCompany[r]]] = IF @ > 0 THEN @ - 1 ELSE 0]
    /\ UNCHANGED <<active, scansToday, domainHour, companies, caller, runCompany>>

\* The except clause; finally runs whether or not this save raises.
ScanFails(r, ok) ==
    /\ worker[r] = "failing"
    /\ SaveRun(r, "failed", ok)
    /\ worker' = [worker EXCEPT ![r] = "releasing"]
    /\ UNCHANGED <<active, quotaVars, companies, caller, runCompany>>

ReleaseKey(r) ==
    /\ worker[r] = "releasing"
    /\ active' = active \ {runCompany[r]}
    /\ worker' = [worker EXCEPT ![r] = "settling"]
    /\ UNCHANGED <<quotaVars, companies, caller, runVars>>

\* record_scan_finished
ReleaseSlot(r) ==
    LET u == Owner[runCompany[r]]
    IN  /\ worker[r] = "settling"
        /\ activePerUser' = IF activePerUser[u] > 0
                            THEN [activePerUser EXCEPT ![u] = @ - 1] ELSE activePerUser
        /\ worker' = [worker EXCEPT ![r] = "ended"]
        /\ UNCHANGED <<active, scansToday, domainHour, companies, caller, runVars>>

-----------------------------------------------------------------------------
(* The rest of the system, as far as scans see it *)

\* delete_company: the company and every row that names it, memory and disk.
DeleteCompany(c) ==
    /\ c \in companies
    /\ companies' = companies \ {c}
    /\ memRun'  = [r \in Runs |-> IF runCompany[r] = c THEN "absent" ELSE memRun[r]]
    /\ diskRun' = [r \in Runs |-> IF runCompany[r] = c THEN "absent" ELSE diskRun[r]]
    /\ UNCHANGED <<active, quotaVars, caller, worker, runCompany>>

\* Counters are keyed by UTC day and UTC hour; old keys are never read again.
NewDay ==
    /\ scansToday' = [u \in Users |-> 0]
    /\ UNCHANGED <<active, activePerUser, domainHour, companies, caller, worker, runVars>>

NewHour ==
    /\ domainHour' = [d \in Domains |-> 0]
    /\ UNCHANGED <<active, activePerUser, scansToday, companies, caller, worker, runVars>>

\* The process dies and is started again: threads, keys and slots are gone,
\* the repository is reloaded from SQLite.
Restart ==
    /\ RestartsOn
    /\ active' = {}
    /\ activePerUser' = [u \in Users |-> 0]
    /\ caller' = [k \in Callers |-> IdleCaller]
    /\ worker' = [r \in Runs |-> IF worker[r] = "none" THEN "none" ELSE "ended"]
    /\ memRun' = diskRun
    /\ UNCHANGED <<scansToday, domainHour, companies, runCompany, diskRun>>

-----------------------------------------------------------------------------
CallerStep(k) ==
    \/ Reserve(k)
    \/ RefuseQuota(k)
    \/ \E counted \in BOOLEAN : ReserveBreaks(k, counted)
    \/ \E r \in Runs, ok \in Outcome : SaveQueued(k, r, ok)
    \/ \E ok \in Outcome : Spawn(k, ok)

WorkerStep(r) ==
    \/ ScanCompanyGone(r)
    \/ \E ok \in Outcome : ScanRejected(r, ok)
    \/ \E ok \in Outcome : ScanStarts(r, ok)
    \/ \E ok \in Outcome : ScanEnds(r, ok)
    \/ ScanRaises(r)
    \/ \E ok \in Outcome : ScanRecords(r, ok)
    \/ \E ok \in Outcome : ScanFails(r, ok)
    \/ ReleaseKey(r)
    \/ ReleaseSlot(r)

Next ==
    \/ \E k \in Callers, c \in Companies, r \in Runs, ok \in Outcome : AnswerBusy(k, c, r, ok)
    \/ \E k \in Callers, c \in Companies, url \in BOOLEAN : Claim(k, c, url)
    \/ \E k \in Callers : CallerStep(k)
    \/ \E r \in Runs : WorkerStep(r)
    \/ \E c \in Companies : DeleteCompany(c)
    \/ NewDay
    \/ NewHour
    \/ Restart

Spec == Init /\ [][Next]_vars

\* A request that entered start_scan keeps running, and so does a scan thread:
\* every fetch has a timeout (RequestsFetcher), so the threads are never parked.
Fairness == /\ \A k \in Callers : WF_vars(CallerStep(k))
            /\ \A r \in Runs : WF_vars(WorkerStep(r))

FairSpec == Spec /\ Fairness

-----------------------------------------------------------------------------
TypeOK ==
    /\ active \subseteq Companies
    /\ activePerUser \in [Users -> Nat]
    /\ scansToday \in [Users -> Nat]
    /\ domainHour \in [Domains -> Nat]
    /\ companies \subseteq Companies
    /\ caller \in [Callers -> CallerRecs]
    /\ \A k \in Callers : caller[k].pc # "idle" => caller[k].company \in Companies
    /\ worker \in [Runs -> WorkerPcs]
    /\ runCompany \in [Runs -> Companies \cup {None}]
    /\ memRun \in [Runs -> RunStatus]
    /\ diskRun \in [Runs -> RunStatus]

-----------------------------------------------------------------------------
(* Properties *)

\* quotas.py: "the existing per-company lock in app.py already prevents the
\* same (user, company) from running twice".  No two threads between their
\* start and the discard of the key scan the same company, and a company that
\* a caller is still setting up has no such thread.
OneScanPerCompany ==
    /\ \A r, s \in Runs : HoldsKey(r) /\ HoldsKey(s) /\ r # s => runCompany[r] # runCompany[s]
    /\ \A k \in Callers, r \in Runs :
          CallerHoldsKey(k) /\ HoldsKey(r) => caller[k].company # runCompany[r]
    /\ \A j, k \in Callers :
          CallerHoldsKey(j) /\ CallerHoldsKey(k) /\ j # k => caller[j].company # caller[k].company

\* What makes OneScanPerCompany inductive: threads have a company, a caller
\* about to spawn has a run of its own, and whoever works on a company finds
\* the company's key in the set.
RunsOwned ==
    /\ \A r \in Runs : worker[r] # "none" => runCompany[r] \in Companies
    /\ \A k \in Callers : caller[k].pc = "saved" =>
          /\ caller[k].run \in Runs
          /\ runCompany[caller[k].run] = caller[k].company
          /\ worker[caller[k].run] = "none"

KeysHeld ==
    /\ \A r \in Runs : HoldsKey(r) => runCompany[r] \in active
    /\ \A k \in Callers : CallerHoldsKey(k) => caller[k].company \in active

KeyInv == RunsOwned /\ KeysHeld /\ OneScanPerCompany

SlotThreads(u) == {r \in Runs : HoldsSlot(r) /\ Owner[runCompany[r]] = u}
SlotCallers(u) == {k \in Callers : CallerHoldsSlot(k) /\ Owner[caller[k].company] = u}
SlotsInUse(u)  == Cardinality(SlotThreads(u)) + Cardinality(SlotCallers(u))

\* "You can run at most N scans at once": whatever fails, the counter never
\* falls below the number of scans that run or are about to, and never passes
\* the limit, so the floor in record_scan_finished is never what stops it.
SlotsCovered ==
    \A u \in Users : SlotsInUse(u) <= activePerUser[u] /\ activePerUser[u] <= ActiveLimit

\* The companies a thread is scanning, and the promise made about them: one scan
\* per company, at most ActiveLimit per user, whatever fails (ScanPromise).
Scanning == {runCompany[r] : r \in {s \in Runs : HoldsKey(s)}}
Promise  == INSTANCE ScanPromise WITH scanning <- Scanning, Limit <- ActiveLimit
KeepsPromise == Promise!Spec

\* When no save and no thread start fails, every slot taken is given back:
\* the counter is exactly the number of scans in flight.
SlotsExact == \A u \in Users : activePerUser[u] = SlotsInUse(u)

\* A stored outcome is never undone.  _run_scan's except clause may overwrite
\* "completed" with "failed" when save_scan raises after the run was saved, but
\* no settled run goes back to queued or running, a failure stays a failure,
\* and a restart, which reloads the rows, changes none of them.
Degraded(t) == IF t \in {"rejected", "fetched"} THEN {t, "failed", "absent"} ELSE {t, "absent"}
OutcomesOnlyDegrade ==
    [][\A r \in Runs : diskRun[r] \in Terminal => diskRun'[r] \in Degraded(diskRun[r])]_vars

\* What makes it inductive: no terminal status is stored for a run whose thread
\* may still save one, except the one that save_scan's failure overwrites.
OutcomeInv ==
    /\ \A r \in Runs : worker[r] \in {"starting", "fetching"} => diskRun[r] \notin Terminal
    /\ \A r \in Runs : worker[r] \in {"recording", "failing"} =>
          diskRun[r] \notin {"failed", "already_running"}
    /\ \A k \in Callers : caller[k].pc = "saved" => diskRun[caller[k].run] \notin Terminal
    /\ \A r \in Runs : Fresh(r) => diskRun[r] = "absent"

\* The page polls while a run is queued or running (app.js scheduleRunPolling);
\* with threads that keep running and no crash every such run is settled.
EveryRunSettles ==
    \A r \in Runs : memRun[r] \in {"queued", "running"} ~> memRun[r] \in Terminal \cup {"absent"}

\* start_scan answers "already_running" (code scan_already_running) only while
\* something is scanning the company, or setting a scan up.
BusyAnswerIsTrue ==
    [][\A r \in Runs :
         memRun[r] = "absent" /\ memRun'[r] = "already_running" =>
            \/ \E k \in Callers : CallerHoldsKey(k) /\ caller[k].company = runCompany'[r]
            \/ \E s \in Runs : HoldsKey(s) /\ runCompany[s] = runCompany'[r]]_vars

=============================================================================
