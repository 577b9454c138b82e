SPECIFICATION TagSpec
CONSTANTS
    TagChars = 2
    Start = 64
INVARIANT
    AllTagsFound
CHECK_DEADLOCK FALSE
