SPECIFICATION WorkersSpec
CONSTANTS
    Orders = {o1, o2}
    Drivers = {d1, d2}
    OffDuty = {d2}
    Accepts = {a1}
    Rejects = {r1, r2}
    OrderCap = 1
    BatchCap = 1
    MinOrders = 2
    MaxAttempts = 1
    NoDriver = NoDriver
    Urls = {"u1", "u2", "u3", "u4"}
    Seed = "u1"
    LinksOf <- Web
    MaxPages = 2
    Workers = {"w1", "w2", "w3"}
    NoUrl = NoUrl
    r1 = r1  r2 = r2  k1 = k1  k2 = k2  w1 = w1  w2 = w2
    NoOrder = NoOrder
    Requests = {r1, r2}
    Keys = {k1}
    KeyOf <- SameKey
    Webhooks = {w1, w2}
    OrderOf <- AboutFirst
    Succeeded = {w1, w2}
    MayFail = {"inventory", "payment"}
    OutboxCap = 1
    MaxMishaps = 2
INVARIANTS
    WorkersTypeOK
    OrdersConserved
    OneOrderPerDriver
    SagaTypeOK
    EchoIsGenuine
    FailureIsUndone
    PaidIsHeld
    EventsInOrder
    ConfirmedOnce
    ConfirmedPaymentStands
PROPERTIES
    EveryOrderLeaves
    CrawlEndsUnlessPanic
    EveryoneAnswered
CHECK_DEADLOCK FALSE
