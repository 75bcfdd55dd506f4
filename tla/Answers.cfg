SPECIFICATION Spec
CONSTANTS
    Caller = {c1, c2}
    c1 = c1
    c2 = c2
    Asker = c1
    Book = {b1, b2}
    b1 = b1
    b2 = b2
    None = None
    Chunk = {1, 2}
    Length <- Lengths
    DenseRank <- Dense
    SparseRank <- Sparse
    RrfK = 60
    Endpoints = 2
    Weight <- Weights
    Top = 2
    TopupCap = 4
    TopupRounds = 2
    RerankMax = 4
    MinPassages = 2
    MaxPassages = 3
    MaxPerBook = 1
    TokenBudget = 4
    MaxChanges = 2
ACTION_CONSTRAINTS
    Apart
    OneQuestion
INVARIANTS
    EvidenceIsCommitted
    NoneMissed
    
    CitationsStand
    FailsOnlyIfAllFail
CHECK_DEADLOCK FALSE
