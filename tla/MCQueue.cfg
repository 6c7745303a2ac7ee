SPECIFICATION FairSpec
CONSTANTS
    Threads = {t1, t2, t3}
    Jobs = {j1, j2}
    Known = {j1, j2}
    Hanging = {j1}
    WorkerCount = 2
    MaxAttempts = 3
    MaxBackoff = 1
    MaxCrashes = 1
    StopsOn = TRUE
    FaultsOn = TRUE
    None = None
INVARIANTS TypeOK OneWorkerPerJob AttemptsWithinCrashes
PROPERTIES DoneStaysDone EveryJobSettles
CHECK_DEADLOCK FALSE
