SPECIFICATION Spec
CONSTANTS
    Pages = {p1, p2}
    Scanned = {p1}
    Threads = {w1, w2}
    Settings = {s1, s2}
    FirstSettings = s1
    s1 = s1
    s2 = s2
    w1 = w1
    w2 = w2
    p1 = p1
    p2 = p2
    NoPage = NoPage
    NoArt = NoArt
    NoUnit = NoUnit
    NoFP = NoFP
    NoChunks = NoChunks
    NoPub = NoPub
    LiveMigrate = FALSE
    MaxCrashes = 1
    MaxFailures = 1
    MaxRetries = 0
    MaxEdits = 0
    MaxEpoch = 2
    MaxTroubles = 2
SYMMETRY Symmetry
INVARIANTS
    ServedIsChunked
    OcrIsChunked
    
