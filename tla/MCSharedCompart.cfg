SPECIFICATION LinkSpec
CONSTANTS
    AttachMayFail = FALSE
    WaitMayFail = FALSE
    TargetMayDie = FALSE
    DbMayFail = FALSE
    MaxMoves = 1
    Lib <- MCLib
    Main = "prog"
    NoLib = "none"
    NumComparts = 5
    DefaultCompart <- MCSharedCompart
    SubComparts <- MCSubComparts
    InitLinkmap <- MCInitLinkmap
INVARIANT
    NoLibraryLost
CHECK_DEADLOCK FALSE
