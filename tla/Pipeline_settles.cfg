SPECIFICATION FairSpec
CONSTANTS
    Pages = {p1}
    Scanned = {p1}
    Threads = {w1}
    Settings = {s1, s2}
    FirstSettings = s1
    s1 = s1
    s2 = s2
    w1 = w1
    p1 = p1
    NoPage = NoPage
    NoArt = NoArt
    NoUnit = NoUnit
    NoFP = NoFP
    NoChunks = NoChunks
    NoPub = NoPub
    LiveMigrate = FALSE
    MaxCrashes = 1
    MaxFailures = 1
    MaxRetries = 1
    MaxEdits = 1
    MaxEpoch = 1
    MaxTroubles = 3
INVARIANTS
    ResumeFollows
PROPERTIES
    WaitingEnds
