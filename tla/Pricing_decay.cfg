SPECIFICATION PricingSpec
CONSTANTS
    PricedOrders = {"d1"}
    FeeCalls = {"f1", "f2"}
    AreaDrivers = 50
    AreaPending = 80
    Hours = {18}
    DistanceFees = {0, 9000}
    DecayMinutes = 1
    MaxPoints = 2
    LastMinute = 1
    MaxLapses = 1
CHECK_DEADLOCK FALSE
PROPERTY DecayReachesNewLevel
