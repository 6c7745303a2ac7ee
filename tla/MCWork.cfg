SPECIFICATION Spec
CONSTANTS
    Jobs = {u1, u2}
    Subs = {b1}
    Senders = {w1, w2}
    MaxPushes = 1
    SlackKept = 2
    Postings <- MCPostings
    Unplaced = "nowhere"
    Hands = {w1, w2}
    MaxFound = 2
    MaxApps = 2
    MaxCompanies = 3
    MaxTouched = 1
    Statuses = {"saved", "applied"}
    First = "saved"
    Editors = {w1, w2}
    MaxVariants = 2
    Askers = {v1, v2}
    Texts = {x1}
    Contexts = {x2, x3}
    RouteLimit = 2
    Equipped = {v1}
    Seekers = {w1, w2}
    Ads <- MCAds
    Wirings <- MCWirings
    MaxThreads = 2
    CacheAge = 1
    IndexAge = 1
    MaxWrites = 2
    Backends = {"file", "server"}
    Asks = {w1, w2}
    NoAsk = NoAsk
    MaxTexts = 1
    Windows = {w1, w2}
    Servers = {w1, w2}
    LatestMigration = 3
    Statements = 2
    Repeating = {1, 2}
    MaxBoots = 4
    Tabs = {v1}
    Clicks = {w1, w2}
    MaxSessions = 2
    MaxAnswers = 2
    Files <- MCFiles
    BookFiles <- MCBook
    Contents <- MCContents
    Chosen = {"one"}
    MaxPages = 2
    MaxHops = 1
    MaxScans = 2
SYMMETRY Symmetry
INVARIANTS WorkTypeOK    SearchHolds FilesHold
CHECK_DEADLOCK FALSE
