SPECIFICATION ServicesSpec
CONSTANTS
    Conns = {"k1", "k2"}
    ConnOrder <- Own
    TrackedOrders = {"m1", "m2"}
    Streams = {"s1"}
    Stamps = {1, 2}
    ThrottleInterval = 1
    PipeCap = 1
    StreamCap = 1
    MaxEvents <- EventBound
    NoConn = NoConn
    Clients = {"c1", "c2"}
    MaxMessages = 3
    MaxHistory = 2
    RoomCap = 1
    SendCap = 2
    RuleIds = {"half", "voucher", "cashback"}
    Body <- Bodies
    Requests = {"q1", "q2"}
    Buyers = {"b1"}
    Carts <- AllCarts
    MaxDay = 2
    MaxFailures = 1
    NoCart = NoCart
    Limit = 2
    Window = 3
    LastTime = 6
    Processes = {"p1", "p2"}
    WorkerOf <- WorkerIds
    MaxWorker = 1
    MaxSequence = 1
    LastStamp = 2
    MaxRestarts = 1
    MaxStepsBack = 1
    Callers = {"b1", "b2", "b3"}
    Threshold = 2
    MaxFailed = 3
    PricedOrders = {"d1"}
    FeeCalls = {"f1", "f2"}
    AreaDrivers = 50
    AreaPending = 80
    Hours = {18}
    DistanceFees = {0, 9000}
    DecayMinutes = 1
    MaxPoints = 2
    LastMinute = 1
    MaxLapses = 1
    EtaOrders = {"o1"}
    EtaCalls = {"e1", "e2"}
    OrderOf <- OneOrder
    Inputs <- Route
    Noises = {10}
    Observed = {20, 250}
    MaxObserved = 2
    MaxRedisFaults = 1
    MaxLapsed = 1
    Points = {"p1", "p2", "p3"}
    Cells = {"cell1", "cell2"}
    CellOf <- CellsOf
    HubIds = {"h1", "h2"}
    HubRecords <- Bodies1
    DistanceTo <- Kilometres
    Checks = {"q1"}
    NoHub = NoHub
    CacheTTL = 1
    LastHour = 2
    MaxHubs = 3
    Products = {"s1", "s2", "s3", "s4"}
    Product <- Wares
    Seeds = {"s4"}
    Queries <- Searches
    TermLength <- Lengths
    Customers = {"c1"}
    Texts <- AllTexts
    TextPlace <- Alphabet
    PrefixOf <- PrefixTexts
    TrainTexts = {"cold"}
    MaxTrained = 1
    Pairs = {"pair1", "pair2"}
    Runs = {"r1", "r2"}
    PairsOf <- Nightly
    Actual <- Sold
    Forecasts = {30, 60}
    MaxConcurrency = 2
    RollingWindow = 2
    ForecastReaders = {"x"}
    Codes = {"code1", "code2"}
    Shorteners = {"l1", "l2", "l3"}
    MaxAttempts = 2
    RingNodes = {"n1", "n2", "n3"}
    HashesOf <- Replicas
    NodeList <- FromEnv
    Keys = {"x", "y", "z"}
    HashOf <- Hashes
    Values = {"v", "w"}
    Reporters = {"g1", "g2"}
    MaxCounts = 4
    People = {"ann", "bob"}
    MaxPosts = 3
    Readers = {"r1"}
    Sizes = {1, 2}
    Friends = {"ann"}
    Permissions = {"view", "edit"}
    MaxNodes = 2
    MaxVersions = 2
    Watchers = {"v1", "v2"}
    MaxVideos = 2
    MaxViews = 3
    Sends = {"note1", "note2", "mail", "fax"}
    ChannelOf <- Channels
    UserOf <- Owners
INVARIANTS
    ServicesTypeOK
    DeliveredInOrder
    SessionsCleanedUp
    NoGap
    CrashNeedsOverflow
    UsageBounded
    AnswersAddUp
    WindowLimits
    IdsUnique
    QuotesStand
    RecordsAgree
CHECK_DEADLOCK FALSE
