SPECIFICATION Spec
CONSTANTS
    u1 = u1
    u2 = u2
    k1 = k1
    k2 = k2
    k3 = k3
    p1 = p1
    p2 = p2
    p3 = p3
    p4 = p4
    p5 = p5
    p6 = p6
    Requests = {p1, p2, p6}
    NoRequest = NoRequest
    Keys = {k1}
    Users = {u1}
    Bodies = {1, 2}
    NoBody = NoBody
    KeyOf <- MCKeyOf
    UserOf <- MCUserOf
    Quantity <- MCQuantity
    Price = 1
    Funds = 5
    StockTotal = 5
    MaxPerUser = 5
    DbErrors = FALSE
    MayStall = FALSE
    MayPurge = FALSE
    MayCrash = FALSE
INVARIANT ChargedOncePerKey
CHECK_DEADLOCK FALSE
