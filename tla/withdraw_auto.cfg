SPECIFICATION FairSpec
CONSTANTS
    u1 = u1
    u2 = u2
    Users = {u1}
    NoUser = NoUser
    Tabs = {t1}
    Admins = {a1}
    Sweeps = {s1}
    Ids = {1, 2}
    Amounts = {1}
    InitBalance = 2
    MaxPaid = 3
    AutoSend = TRUE
    Telegram = TRUE
    Spending = FALSE
    Faults = {"crash", "sendError", "lostReply", "dbError"}
INVARIANT PaidAsRecorded
PROPERTY ApprovedSettles
CHECK_DEADLOCK FALSE
