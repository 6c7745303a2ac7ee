SPECIFICATION Spec
CONSTANTS
    Emails = {e1}
    LinkIds = {l1, l2}
    Clerks = {w1, w2}
    Callers = {w1, w2}
    MaxBatches = 2
    MaxChallenges = 2
    People = {o, p, q}
    Owner = o
    Desks = {w1, w2}
    MaxRows = 3
    Addresses = {"a", "b"}
    Claims <- MCClaims
    Browsers = {"x"}
    Attending = {w1, w2}
    AllowRegistration = TRUE
    MaxLogins = 2
    Folk = {u1, u2}
    NoFolk = NoFolk
    Sessions = {u1, u2}
    NoSession = NoSession
    UserOf <- MCUserOf
    Flights = {w1, w2}
    MaxOdd = 1
    Tokens = {u1, u2}
    AuthorOf <- MCAuthorOf
    NoToken = NoToken
    Edits = {1, 2}
    Room = 1
    MaxStray = 1
    Owners = {w1, w2}
    MaxOwn = 3
    MaxIds = 6
    Letters = {u1, u2}
    Servers = {w1, w2}
    MaxTaken = 3
    MaxHurt = 2
    Personas = {"junior", "senior"}
    FirstPersona = "junior"
    Remote = {"a", "b"}
    Leads = {x1}
    Editing = {w1, w2}
    Fitting = {v1}
    MaxSwitches = 2
    MaxFits = 1
    Viewers = {w1, w2}
    BucketSpan = 2
    Window = 1
    TailLimit = 2
    CacheLimit = 1
    MaxLines = 3
    MaxFiles = 2
    MaxTime = 3
    Tellers = {w1, w2}
    MaxTornLines = 2
    Bursts = {w1, w2}
    Walks = {u1, u2}
    NumSamples = 2
    MaxDeleted = 1
SYMMETRY Symmetry
INVARIANTS ServicesTypeOK SecretsHold PeopleHold BrowserHolds 
CHECK_DEADLOCK FALSE
