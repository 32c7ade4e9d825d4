CONSTANTS
    Channels = {"orders", "products"}
    Queries = {"q"}
    Watches <- AllChannels
    Clients = {"c1", "c2"}
    NoClient = "none"
    MaxCommits = 2
    MaxFaults = 2
    MaxReads = 2
    Queues = {"qa", "qb"}
    Ids = {1}
    NoQueue = "none"
    ClickSlots = {1, 2}
    MaxMoves = 1
    Names = {"n"}
    NoName = "none"
    Databases = {"app", "other"}
    Home = "app"
    MaxJobs = 2
    MaxEvents = 2
    Tabs = {"t1", "t2"}
    MaxInbox = 2
    MaxTroubles = 2
    Browsers = {"b1", "b2"}
    Employees = {"ava"}
    Managers = {"maya"}
    Auditors = {"finn"}
    Nobody = "nobody"
    ManagerOf <- Maya
    Requests = {"r1", "r2", "r3"}
    Week <- OneWeek
    Seed <- SeedRows
    Calls = {1, 2}
    PoolMax = 4
    MaxMishaps = 4
SPECIFICATION ExamplesSpec
INVARIANTS
    HubSound
    RowsNameTheirQueue
    ToldOnce
    NoSilentActive
    AfterLeaveGone
    AuditTellsHistory
    OneVerdict
    RowsOfLogin
PROPERTIES
    EditKeepsDatabase
CHECK_DEADLOCK FALSE
