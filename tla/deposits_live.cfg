SPECIFICATION FairSpec
CONSTANTS
    u1 = u1
    u2 = u2
    h1 = h1
    h2 = h2
    h3 = h3
    H1 = H1
    Users = {u1, u2}
    NoUser = NoUser
    Hashes = {h1, h3}
    Typed = {}
    NoKey = NoKey
    Canon <- MCCanon
    Sender <- MCSender
    Kind <- MCKind
    ChainAmount <- MCChainAmount
    MinDeposit = 2
    Claims = {0}
    AdminAmount = 4
    MaxAttempts = 1
    Runs = {r1}
    Tickets = {}
    Admins = {a1}
    MaxTicketsOpen = 1
    RpcErrors = TRUE
    Invoices = {b1}
    InvoiceAmount = 2
    Deliveries = {d1}
    MayCrash = TRUE
INVARIANT BalanceMatchesRows
PROPERTY PendingDecided
CHECK_DEADLOCK FALSE
