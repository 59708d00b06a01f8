SPECIFICATION FairSpec
CONSTANTS
    u1 = u1
    u2 = u2
    Users = {u1, u2}
    NoUser = NoUser
    Referrer <- MCReferrer
    Funds = 2
    BlockReward = 4
    Commission = 1
    Cost = 1
    MaxAttempts = 2
    Savers = {s1, s2}
    Readers = {r1}
    SaveErrors = TRUE
    SettleErrors = TRUE
    LostReplies = TRUE
    MayCrash = TRUE
    BootErrors = TRUE
    Movers = {u1}
    MaxBlocks = 1
    MaxBuys = 1
    MaxMoves = 1
INVARIANTS TypeOK NeverOvercharged EngineInventsNothing 
PROPERTY SettlementEnds
CHECK_DEADLOCK FALSE
