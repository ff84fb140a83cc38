SPECIFICATION Spec
CONSTANTS
    c1 = c1  c2 = c2  c3 = c3  r1 = r1  r2 = r2
    k1 = k1  k2 = k2  k3 = k3
    u1 = u1  u2 = u2  u3 = u3
    NoBucket = NoBucket  NoCall = NoCall  NoReply = NoReply
    Calls = {c1, c2, c3}
    Returns = {}
    Keys = {k1, k2}
    Users = {u1, u2}
    Devices = {u1, u2}
    KeyOf <- RetryKeys
    UserOf <- RetryUsers
    DeviceOf <- RetryUsers
    Primary <- TwoDevices
    QtyOf <- Singles
    MaxQty = 2
    NumBuckets = 2
    InitialStock = 3
    MaxSlots = 3
    MaxFaults = 0
    MaxExpiries = 1
INVARIANT NoDuplicatePurchase
