SPECIFICATION Spec
CONSTANTS
    u1 = u1
    u2 = u2
    Users = {u1, u2}
    NoUser = NoUser
    Tabs = {t1}
    Admins = {a1}
    Sweeps = {}
    Ids = {1, 2}
    Amounts = {1, 2}
    InitBalance = 3
    MaxPaid = 1
    AutoSend = FALSE
    Telegram = FALSE
    Spending = TRUE
    Faults = {"crash", "dbError"}
SYMMETRY UserSymmetry
INVARIANTS TypeOK Conservation RefundedIffFailed 
PROPERTIES  ImplementsLedger
CHECK_DEADLOCK FALSE
