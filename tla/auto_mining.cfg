SPECIFICATION Spec
CONSTANTS
    Sessions = {s1, s2}
    NoSession = NoSession
    Impressions = {i1}
    NoImpression = NoImpression
    c1 = c1
    c2 = c2
    Callers = {c1, c2}
    Starters = {t1}
    Modes = {"normal", "turbo"}
    HashRate <- MCHashRate
    DailyLimit = 2
    Cycle = 2
    Skew = 1
    Day = 2
    Ttl = 2
    Grace = 1
    Delay = 0
    StaleAfter = 2
    LastTime = 4
SYMMETRY Symmetry
INVARIANTS TypeOK DailyLimitHolds GrantsPaced ImpressionPaysOnce
CHECK_DEADLOCK FALSE
