CONSTANTS
    Programs <- EachOther
    Labels <- ProgramLabels
    BranchOpt = TRUE
    Reach = 4
    PageEnd = 7
    AddressEnd = 63
    FastOptPhase = 3
    MaxPasses = 9
SPECIFICATION FairSpec
PROPERTIES Terminates
CHECK_DEADLOCK FALSE
