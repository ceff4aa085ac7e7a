CONSTANTS
    m1 = m1
    m2 = m2
    Macros <- TwoMacros
    NoMacro = NoMacro
    MaxCondLevel = 4
    MaxRecursions = 2
    MaxRepeat = 2
    MaxDepth = 2
    MaxNesting = 1
    Balanced = FALSE
SPECIFICATION Spec
PROPERTIES ExitRestores
CHECK_DEADLOCK FALSE
