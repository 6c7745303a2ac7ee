SPECIFICATION SchedSpec
CONSTANTS
    u1 = u1
    u2 = u2
    Owners = {u1}
    Requests = {q1}
    Asked = {1}
    MinInterval = 1
    MaxInterval = 2
    MaxBackoff = 3
    Legacy <- NoLegacy
    MaxCrashes = 0
    MaxFailures = 0
    MaxLate = 1
    Nil = Nil
INVARIANT EnabledIsArmed
