SPECIFICATION Spec
CONSTANTS
    u1 = u1
    u2 = u2
    h1 = h1
    h2 = h2
    h3 = h3
    H1 = H1
    Users = {u1, u2}
    NoUser = NoUser
    Hashes = {h1, h2}
    Typed = {}
    NoKey = NoKey
    Canon <- MCCanon
    Sender <- MCSender
    Kind <- MCKind
    ChainAmount <- MCChainAmount
    MinDeposit = 2
    Claims = {5}
    AdminAmount = 4
    MaxAttempts = 1
    Runs = {r1}
    Tickets = {t1}
    Admins = {a1}
    MaxTicketsOpen = 1
    RpcErrors = TRUE
    Invoices = {}
    InvoiceAmount = 2
    Deliveries = {d1}
    MayCrash = TRUE
INVARIANTS TypeOK BalanceMatchesRows 
CHECK_DEADLOCK FALSE
