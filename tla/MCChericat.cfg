SPECIFICATION FairSpec
CONSTANTS
    Statements <- MCStatements
    Stored <- MCStored
    DbMayFail = TRUE
    MaxCount = 4
    Library = {"prog", "own"}
    Lines <- MCLines
    OwnScan <- MCOwnScan
    OpenMayFail = TRUE
    MaxSignals = 2
INVARIANTS
    ChericatTypeOK
    WholeLineDecides
    ClosedOnce
    PrivateViewIsWhole
    BlocksShownWhole
    SymbolsShown
PROPERTIES
    OverrunOnlyByCommit
    ChericatEnds
CHECK_DEADLOCK FALSE
