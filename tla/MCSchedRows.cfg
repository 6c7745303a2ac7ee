SPECIFICATION SchedFairSpec
CONSTANTS
    u1 = u1
    u2 = u2
    Owners = {u1, u2}
    Requests = {q1}
    Asked = {0, 9}
    MinInterval = 1
    MaxInterval = 1
    MaxBackoff = 2
    Legacy <- OldLegacy
    MaxCrashes = 1
    MaxFailures = 2
    MaxLate = 1
    Nil = Nil
INVARIANTS SchedTypeOK 
 
