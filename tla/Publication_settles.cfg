SPECIFICATION FairSpec
CONSTANTS
    Docs = {a, b}
    Versions = {v1, v2}
    Procs = {p1}
    Concurrency = 1
    Batches = {i1, i2}
    Embedded = TRUE
    Frozen = FALSE
    SlowHolders = FALSE
    NoThread = NoThread
    NoProc = NoProc
    NoPub = NoPub
    NoRecord = NoRecord
    MaxCrashes = 1
    MaxEdits = 2
    MaxLosses = 1
INVARIANTS RecordCoversActive
PROPERTIES EpochsConverge 
CHECK_DEADLOCK FALSE
