SPECIFICATION SnapshotSpec
CONSTANTS
    AttachMayFail = FALSE
    WaitMayFail = FALSE
    TargetMayDie = FALSE
    DbMayFail = FALSE
    ElfMayFail = FALSE
    MaxMoves = 2
    Lib <- MCLib
    Main = "prog"
    NoLib = "none"
    NumComparts = 2
    DefaultCompart <- MCDefault
    SubComparts <- MCSub
    InitLinkmap <- MCTwoLinkmap
    Region <- MCSmallRegion
    File <- MCFile
    NoPath = "none"
    Extends = {}
    Elf <- MCSmallElf
    Slot = {4, 5}
    InitMapped <- MCTwoMapped
    InitMem <- MCTwoMem
    SymBatch = {1}
    InitialSize = 1
    MaxScans = 1
INVARIANT
    OneSnapshot
CHECK_DEADLOCK FALSE
