CONSTANTS
    x = x
    y = y
    z = z
    Names <- ThreeNames
    NoName = NoName
    Terms <- SmallTerms
    Start = 10
    MaxStatements = 4
SPECIFICATION Spec
SYMMETRY NameSymmetry
INVARIANTS ValuesAsWritten LegalAssembles
CHECK_DEADLOCK FALSE
