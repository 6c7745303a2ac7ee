\* One thread, no fault, more events in a month than one read returns.
CONSTANTS
    Threads = {t1}
    Caps = {1}
    MaxPrompt = 1
    MaxReply = 1
    Window = 3
    MaxCalls = 10
    FaultsOn = FALSE
SPECIFICATION DispatchSpec
CHECK_DEADLOCK FALSE
INVARIANTS
    CapHolds
