SPECIFICATION FairSpec
CONSTANTS
    AttachMayFail = TRUE
    WaitMayFail = TRUE
    TargetMayDie = TRUE
    DbMayFail = TRUE
    ElfMayFail = TRUE
    MaxMoves = 1
    Lib <- MCLib
    Main = "prog"
    NoLib = "none"
    NumComparts = 2
    DefaultCompart <- MCDefault
    SubComparts <- MCSub
    InitLinkmap <- MCLinkmap
    Region <- MCSmallRegion
    File <- MCFile
    NoPath = "none"
    Extends = {}
    Elf <- MCSmallElf
    Slot = {4, 5}
    InitMapped <- MCSmallMapped
    InitMem <- MCSmallMem
    SymBatch = {1}
    InitialSize = 1
    MaxScans = 1
INVARIANTS
    CapturedAtStop
    VmRowsLast
    LabelsJoin
    ReleasedBetweenBlocks
PROPERTIES
    HeldIsReleased
CHECK_DEADLOCK FALSE
