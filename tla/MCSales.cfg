SPECIFICATION SalesSpec
CONSTANTS
    c1 = c1  c2 = c2  c3 = c3  r1 = r1  r2 = r2
    k1 = k1  k2 = k2  k3 = k3
    u1 = u1  u2 = u2  u3 = u3
    NoBucket = NoBucket  NoCall = NoCall  NoReply = NoReply
    Calls = {c1, c2, c3}
    Returns = {r1, r2}
    Keys = {k1, k2}
    Users = {u1, u2}
    Devices = {u1, u2}
    KeyOf <- RetryKeys
    UserOf <- RetryUsers
    DeviceOf <- RetryUsers
    Primary <- TwoDevices
    QtyOf <- Quantities
    MaxQty = 2
    NumBuckets = 2
    InitialStock = 3
    MaxSlots = 2
    MaxFaults = 1
    MaxExpiries = 1
    d1 = d1  d2 = d2
    NoUser = NoUser
    e1 = e1  e2 = e2
    Entrants = {e1, e2}
    Draws = {d1, d2}
    Checkouts = {x1}
    WinnerCount <- OneAndTwo
    PrizeStock = 2
    MaxLotteryFaults = 1
    Expiry = TRUE
    s1 = s1  s2 = s2  s3 = s3  s4 = s4  q1 = q1  q2 = q2  q3 = q3
    Skus = {s1, s2, s3}
    Requests = {q1, q2, q3}
    Items <- Carts
    MaxItemQty = 2
    LoadedStock <- Stock
    Single = s1
    Overwrites <- Overwritten
    Confirmed = {q1}
    MaxInventoryFaults = 1
INVARIANTS
    TypeOK
    StockConserved
    CountersAgree
    OneTakePerLock
    EchoIsGenuine
    AnswersMatchStock
    LotteryTypeOK
    UnitsAccounted
    WinnersServed
    WinnersBounded
    InventoryTypeOK
    ShortRollbackExact
PROPERTIES
    ImplementsLedger
    SkuImplementsLedger
    GivesBackOnce
