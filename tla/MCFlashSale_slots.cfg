SPECIFICATION Spec
CONSTANTS
    c1 = c1  c2 = c2  c3 = c3  r1 = r1  r2 = r2
    k1 = k1  k2 = k2  k3 = k3
    u1 = u1  u2 = u2  u3 = u3
    NoBucket = NoBucket  NoCall = NoCall  NoReply = NoReply
    Calls = {c1, c2, c3}
    Returns = {r1, r2}
    Keys = {k1, k2, k3}
    Users = {u1, u2, u3}
    Devices = {u1, u2, u3}
    KeyOf <- BuyerKeys
    UserOf <- BuyerUsers
    DeviceOf <- BuyerUsers
    Primary <- ThreeDevices
    QtyOf <- Singles
    MaxQty = 2
    NumBuckets = 2
    InitialStock = 3
    MaxSlots = 1
    MaxFaults = 0
    MaxExpiries = 0
INVARIANT SlotCapacity
