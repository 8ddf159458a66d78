SPECIFICATION FairSpec
CONSTANTS
    Null = Null
    Views = {v1}
    Sources = {s1, s2}
    Reload = TRUE
    StopOffMain = TRUE
PROPERTIES
    StopReturns
