\* The log: two processes, every fault.  The dispatch: two threads, every
\* fault, a cap that is raised and lowered.  The accounts: two users, two
\* requests at once.  The budgets: two requests at once.
CONSTANTS
    Writers = {w1, w2}
    MaxEvents = 3
    MaxFiles = 2
    Threads = {t1, t2}
    Caps = {1, 2}
    MaxPrompt = 1
    MaxReply = 1
    Window = 1
    MaxCalls = 3
    FaultsOn = TRUE
    Users = {w1, w2}
    Workers = {t1, t2}
    MaxEra = 1
    MaxOverlap = 1
    Attempts = {t1, t2}
    LoginCap = 2
    WindowAge = 2
    MaxOpenCodes = 2
    AiThreads = {t1, t2}
    AiPerDay = 2
    MaxFit = 2
SPECIFICATION RecordsSpec
SYMMETRY Symmetry
CHECK_DEADLOCK FALSE
INVARIANTS
    RecordsTypeOK
    FailLoud
    IntactUnlessDisturbed
    CapOvershoot
    ReceiptsPointIntoLog
    SessionsEnd
    
    
PROPERTIES
    AdminRemains
    GraceHonoured
