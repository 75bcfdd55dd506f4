SPECIFICATION Spec
CONSTANTS
    Books <- SmallBooks
    Settings <- SmallSettings
    MinLookback = 2
    Length = 5
INVARIANTS
    NoTruncation
    QuotesAreSource
    BoxesAreOfSpan
CHECK_DEADLOCK FALSE
