SPECIFICATION BudgetFairSpec
CONSTANTS
    Keys = {k1}
    Procs = {p1, p2}
    Tokens = {t1, t2, t3, t4}
    NoToken = NoToken
    NoOwner = NoOwner
    NoClaim = NoClaim
    MaxAttempts = 2
    Concurrency = 1
    Embedded = FALSE
    MaxCrashes = 1
    MaxCommands = 2
INVARIANTS LeaseExclusive  ParkingIsFree
PROPERTIES OnlyUnfencedWritesBreakLeases 
CHECK_DEADLOCK FALSE
