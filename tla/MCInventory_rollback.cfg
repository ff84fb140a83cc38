SPECIFICATION InventorySpec
CONSTANTS
    s1 = s1  s2 = s2  s3 = s3  s4 = s4  q1 = q1  q2 = q2  q3 = q3
    Skus = {s1, s2, s3, s4}
    Requests = {q1, q2, q3}
    Items <- BigCart
    MaxItemQty = 2
    LoadedStock <- ShortStock
    Single = s4
    Overwrites = {}
    Confirmed = {q1}
    MaxInventoryFaults = 0
CHECK_DEADLOCK FALSE
INVARIANT RollbackExact
