SPECIFICATION Spec
CONSTANTS
    Statements <- MCStatements
    Stored <- MCStored
    DbMayFail = FALSE
    MaxCount = 4
    Library = {"prog", "own"}
    Lines <- MCViewLines
    OwnScan <- MCOwnScan
    OpenMayFail = FALSE
    MaxSignals = 0
INVARIANT
    ArrayHoldsRows
CHECK_DEADLOCK FALSE
