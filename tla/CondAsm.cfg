CONSTANTS
    m1 = m1
    m2 = m2
    Macros <- TwoMacros
    NoMacro = NoMacro
    MaxCondLevel = 4
    MaxRecursions = 2
    MaxRepeat = 2
    MaxDepth = 4
    MaxNesting = 1
    Balanced = TRUE
SPECIFICATION Spec
INVARIANTS TypeOK OuterLevelsAssemble RecursionsCounted RptcntIsInner
PROPERTIES ImplementsBlocks
CHECK_DEADLOCK FALSE
