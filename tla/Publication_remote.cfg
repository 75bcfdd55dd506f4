SPECIFICATION Spec
CONSTANTS
    Docs = {a}
    Versions = {v1, v2}
    Procs = {p1, p2}
    Concurrency = 1
    Batches = {i1}
    Embedded = FALSE
    Frozen = FALSE
    SlowHolders = FALSE
    NoThread = NoThread
    NoProc = NoProc
    NoPub = NoPub
    NoRecord = NoRecord
    MaxCrashes = 1
    MaxEdits = 2
    MaxLosses = 1
SYMMETRY Symmetry
INVARIANTS SerialSwitch
CHECK_DEADLOCK FALSE
