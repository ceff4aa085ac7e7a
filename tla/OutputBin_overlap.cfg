CONSTANTS
    Origins = {1, 2, 4, 5}
    Bodies <- SomeBodies
    JoinOrg = 1
    MaxSections = 2
SPECIFICATION Spec
INVARIANTS OverlapsRejected
CHECK_DEADLOCK FALSE
