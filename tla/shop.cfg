SPECIFICATION Spec
CONSTANTS
    u1 = u1
    u2 = u2
    k1 = k1
    k2 = k2
    k3 = k3
    p1 = p1
    p2 = p2
    p3 = p3
    p4 = p4
    p5 = p5
    p6 = p6
    Requests = {p1, p2, p3, p4}
    NoRequest = NoRequest
    Keys = {k1, k2}
    Users = {u1}
    Bodies = {1, 2}
    NoBody = NoBody
    KeyOf <- MCKeyOf
    UserOf <- MCUserOf
    Quantity <- MCQuantity
    Price = 1
    Funds = 2
    StockTotal = 5
    MaxPerUser = 2
    DbErrors = TRUE
    MayStall = TRUE
    MayPurge = TRUE
    MayCrash = TRUE
INVARIANTS TypeOK UserLimitsHold ReplayIsTrue
PROPERTY NoChargeAfterOk
CHECK_DEADLOCK FALSE
