CONSTANTS
    t1 = t1
    t2 = t2
    health = health
    BuildSteps = 1
    Categories = {health}
    Threads = {t1, t2}
    Habits <- HabitsAll
    Says <- SaysAll
    UsesCommands = {"commands"}
    EditsProfile = {"profile"}
    SlashRoles = {"nurse"}
SPECIFICATION Spec
INVARIANTS TypeOK  NoImplicitEnd NeverAskedTwice
CHECK_DEADLOCK FALSE
