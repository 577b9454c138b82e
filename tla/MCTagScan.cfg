SPECIFICATION TagSpec
CONSTANTS
    TagChars = 2
    Start = 64
INVARIANTS
    CollectedIsFound
    MissingAreZeroChars
CHECK_DEADLOCK FALSE
