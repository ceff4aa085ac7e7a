CONSTANTS
    Origins = {1, 2, 4, 5}
    Bodies <- SomeBodies
    JoinOrg = 1
    MaxSections = 3
SPECIFICATION Spec
INVARIANTS TypeOK ImagePlaced CoalescedSorted SegmentsLoad
CHECK_DEADLOCK FALSE
