SPECIFICATION LinkFairSpec
CONSTANTS
    AttachMayFail = TRUE
    WaitMayFail = FALSE
    TargetMayDie = TRUE
    DbMayFail = TRUE
    MaxMoves = 3
    Lib <- MCLib
    Main = "prog"
    NoLib = "none"
    NumComparts = 5
    DefaultCompart <- MCOwnCompart
    SubComparts <- MCSubComparts
    InitLinkmap <- MCInitLinkmap
INVARIANTS
    LinkTypeOK
    WalkOfOneStop
    ParentRecorded
    NameOfOwnCompart
    NoLibraryLost
PROPERTY
    SessionsEnd
CHECK_DEADLOCK FALSE
