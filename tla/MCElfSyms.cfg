SPECIFICATION SymSpec
CONSTANTS
    Files <- MCFiles
    Batch = 3
    DbMayFail = TRUE
INVARIANTS
    SymbolsStoredOnce
    CrashOnlyWithoutSymbols
    InsertIsBounded
CHECK_DEADLOCK FALSE
