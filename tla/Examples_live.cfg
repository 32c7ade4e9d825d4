CONSTANTS
    Channels = {"orders", "products"}
    Queries = {"q"}
    Watches <- AllChannels
    Clients = {"c1", "c2"}
    NoClient = "none"
    MaxCommits = 1
    MaxFaults = 2
    MaxReads = 2
    Queues = {"qa", "qb"}
    Ids = {1}
    NoQueue = "none"
    ClickSlots = {1}
    MaxMoves = 1
    Names = {"n"}
    NoName = "none"
    Databases = {"app", "other"}
    Home = "app"
    MaxJobs = 2
    MaxEvents = 0
    Tabs = {"t1", "t2"}
    MaxInbox = 1
    MaxTroubles = 1
    Browsers = {"b1", "b2"}
    Employees = {"ava"}
    Managers = {"maya"}
    Auditors = {}
    Nobody = "nobody"
    ManagerOf <- Maya
    Requests = {"r1", "r2", "r3"}
    Week <- OneWeek
    Seed <- SeedRows
    Calls = {1}
    PoolMax = 4
    MaxMishaps = 4
SPECIFICATION ExamplesSpec
PROPERTIES
    ListensAgain
    NoticeIsRead
    RowsFade
    PresenceConverges
    ButtonsComeBack
CHECK_DEADLOCK FALSE
