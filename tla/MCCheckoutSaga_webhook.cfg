SPECIFICATION SagaSpec
CONSTANTS
    r1 = r1  r2 = r2  k1 = k1  k2 = k2  w1 = w1  w2 = w2
    NoOrder = NoOrder
    Requests = {r1, r2}
    Keys = {k1, k2}
    KeyOf <- TwoKeys
    Webhooks = {w1, w2}
    OrderOf <- AboutFirst
    Succeeded = {w1, w2}
    MayFail = {}
    OutboxCap = 2
    MaxMishaps = 0
CHECK_DEADLOCK FALSE
INVARIANT ProcessedMeansConfirmed
