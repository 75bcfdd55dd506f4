SPECIFICATION FairSpec
CONSTANTS
    Path = {p1, p2}
    Content = {a, b}
    p1 = p1
    p2 = p2
    a = a
    b = b
    Disks <- TwoBooks
    None = None
    Scanner = {s1}
    s1 = s1
    Sentinel = TRUE
    Resumes = TRUE
    Limits = {1}
    Kinds = {"edit", "mount", "crash", "removal", "gc", "reconcile", "browse"}
    MaxEvents = 2
INVARIANTS
    OneActiveRevision
    OriginalsKept
    NoStrayPoints
    NoBookForgotten
    
PROPERTIES
    EveryFileGetsIn
CHECK_DEADLOCK FALSE
