SPECIFICATION MCSpec
CONSTANTS
    Thread = {w1, w2}
    a = a
    b = b
    Lists <- Both
    FirstList <- L1
    Sizes = {1, 2}
    FirstSize = 2
    Rooms = {0, 1, 2}
    MaxHalvings = 1
    None = None
    MaxEvents = 2
    Object = {o1}
INVARIANTS
    ServedIsOwn
    RunCanBeRead
    BackupIsWhole
    
PROPERTIES
    CheckpointsKept
CHECK_DEADLOCK FALSE
