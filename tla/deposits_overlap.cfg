SPECIFICATION Spec
CONSTANTS
    u1 = u1
    u2 = u2
    h1 = h1
    h2 = h2
    h3 = h3
    H1 = H1
    Users = {u1, u2}
    NoUser = NoUser
    Hashes = {h1}
    Typed = {}
    NoKey = NoKey
    Canon <- MCCanon
    Sender <- MCSender
    Kind <- MCKind
    ChainAmount <- MCChainAmount
    MinDeposit = 2
    Claims = {0, 5}
    AdminAmount = 4
    MaxAttempts = 2
    Runs = {r1, r2}
    Tickets = {}
    Admins = {a1}
    MaxTicketsOpen = 1
    RpcErrors = TRUE
    Invoices = {}
    InvoiceAmount = 2
    Deliveries = {}
    MayCrash = FALSE
INVARIANT BalanceMatchesRows
CHECK_DEADLOCK FALSE
