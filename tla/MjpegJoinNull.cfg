SPECIFICATION Spec
CONSTANTS
    Null = Null
    Views = {v1}
    Sources = {s1}
    Reload = FALSE
    StopOffMain = TRUE
SYMMETRY Symmetry
INVARIANTS
    JoinTargetNotNull
