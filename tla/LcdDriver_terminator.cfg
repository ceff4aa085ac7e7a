CONSTANTS
    Page <- BuiltPage
    MaxResets = 0
SPECIFICATION Spec
INVARIANTS EndsAtTerminator
