SPECIFICATION MCSpec
CONSTANTS
    Ranges <- MCRanges
    Address = {1, 3, 4}
    NumRows = 2
    NumCaps = 2
    ElfSymbols <- MCElfSymbols
    NumSyms = 3
    Label <- MCLabel
    Matches <- MCMatches
    Cut <- MCCut
    Special = {"Stack"}
    Perm = {"ro", "rw"}
    Radix = 3
    NumBlocks = 2
    NumPointers = 2
INVARIANTS
    ClassesAddUp
    TotalsOfTheMap
    NamesOfAddresses
    EdgesCountPointers
CHECK_DEADLOCK FALSE
