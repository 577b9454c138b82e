SPECIFICATION StringFair
CONSTANTS
    PageSize = 4
    MaxSize = 6
    MaxLimit = 5
INVARIANTS
    ReadInBuffer
    ReturnsString
    NullOnlyIfUnmapped
PROPERTY
    StringEnds
CHECK_DEADLOCK FALSE
