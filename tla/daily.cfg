SPECIFICATION Spec
CONSTANTS
    u1 = u1
    u2 = u2
    login = login
    mission = mission
    streak = streak
    p1 = p1
    g1 = g1
    g2 = g2
    c1 = c1
    c2 = c2
    b1 = b1
    b2 = b2
    Users = {u1, u2}
    Tasks = {login}
    Missions = {mission}
    Type <- MCType
    Cadence <- MCCadence
    Target <- MCTarget
    Milestones = {streak}
    Xp <- MCXp
    Pol <- MCPol
    XpPerLevel = 1
    MaxLevel = 2
    BuyLevelPrice = 1
    CompletePassPrice = 1
    Quantities = {1}
    Games = {g1, g2}
    Player <- MCPlayer
    Buyers = {b1, b2}
    Shopper <- MCShopper
    Funds = 1
    LastDay = 2
    MaxBuys = 2
    Payments = {p1}
    NoPay = NoPay
    Payer <- MCPayer
    Threshold <- MCThreshold
    Cost = 1
    Submits <- MCSubmits
    Debits <- MCDebits
    Callers = {c1, c2}
SYMMETRY Symmetry
INVARIANTS TypeOK ValuesAreTicks XpInSync CompletedMissionsPaid BalanceExplained
CHECK_DEADLOCK FALSE
