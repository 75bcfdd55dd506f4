SPECIFICATION Spec
CONSTANTS
    Docs = {a, b}
    Versions = {v1, v2}
    Procs = {p1}
    Concurrency = 1
    Batches = {i1}
    Embedded = TRUE
    Frozen = FALSE
    SlowHolders = FALSE
    NoThread = NoThread
    NoProc = NoProc
    NoPub = NoPub
    NoRecord = NoRecord
    MaxCrashes = 1
    MaxEdits = 3
    MaxLosses = 1
SYMMETRY Symmetry
INVARIANTS ActiveIsComplete NoDarkBook
PROPERTIES ImplementsShelf
CHECK_DEADLOCK FALSE
