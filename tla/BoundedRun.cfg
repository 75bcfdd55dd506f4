SPECIFICATION FairSpec
CONSTANTS
    b1 = b1
    b2 = b2
    Book = {b1, b2}
    Order <- Two
    Budget = 1
    MaxHands = 2
    Version = {1, 2, 3}
    FirstVersion = 1
    Pid = {p1, p2}
    None = None
    MaxEvents = 2
INVARIANTS
    ForeignIsConfirmed
    StopFindsWorker
PROPERTIES
    BooksAreFinished
    
CHECK_DEADLOCK FALSE
