SPECIFICATION Spec
CONSTANTS
    Null = Null
    Views = {v1, v2}
    Sources = {s1, s2}
    Reload = TRUE
    StopOffMain = TRUE
SYMMETRY Symmetry
INVARIANTS
    TypeOK
    OneReaderPerSource
    CanvasReturned
    FreshStart
