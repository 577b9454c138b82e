SPECIFICATION FairSpec
CONSTANTS
    AttachMayFail = FALSE
    WaitMayFail = FALSE
    TargetMayDie = TRUE
    DbMayFail = FALSE
    ElfMayFail = FALSE
    MaxMoves = 2
    Lib <- MCLib
    Main = "prog"
    NoLib = "none"
    NumComparts = 2
    DefaultCompart <- MCDefault
    SubComparts <- MCSub
    InitLinkmap <- MCLinkmap
    Region <- MCRegion
    File <- MCFile
    NoPath = "none"
    Extends <- MCExtends
    Elf <- MCElf
    Slot = {4, 5}
    InitMapped <- MCMapped
    InitMem <- MCMem
    SymBatch = {1}
    InitialSize = 1
    MaxScans = 2
INVARIANTS
    TypeOK
    SeenInBounds
    CapturedAtStop
    JunkOnlyWhenKilled
    CompartsListed
    NotTheProgram
PROPERTIES
    ScanEnds
    ImplementsCapture
CHECK_DEADLOCK FALSE
