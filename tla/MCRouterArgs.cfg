\* The arguments belong to the person's own message: they need not.
CONSTANTS
    Askers = {a1, a2}
    Texts = {x}
    Contexts = {c, d}
    RouteLimit = 2
    Equipped = {a1}
SPECIFICATION RtSpec
CHECK_DEADLOCK FALSE
INVARIANTS
    ArgumentsFit
