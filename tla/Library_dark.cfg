SPECIFICATION Spec
CONSTANTS
    Path = {p1, p2}
    Content = {a, b}
    p1 = p1
    p2 = p2
    a = a
    b = b
    Disks <- TwoBooks
    None = None
    Scanner = {s1}
    s1 = s1
    Sentinel = TRUE
    Resumes = TRUE
    Limits = {1}
    Kinds = {"removal", "browse"}
    MaxEvents = 1
INVARIANTS
    PublishedIsIndexed
CHECK_DEADLOCK FALSE
