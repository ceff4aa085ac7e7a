CONSTANTS
    Programs <- AllPrograms
    Labels <- ProgramLabels
    BranchOpt = TRUE
    Reach = 4
    PageEnd = 7
    AddressEnd = 63
    FastOptPhase = 3
    MaxPasses = 65
SPECIFICATION FairSpec
INVARIANTS TypeOK LabelsAgree DoneIsConsistent FastPhaseEnds SafeModeSettles BranchesReach
PROPERTIES SectionTerminates
CHECK_DEADLOCK FALSE
