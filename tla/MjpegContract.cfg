SPECIFICATION FairSpec
CONSTANTS
    Null = Null
    Views = {v1}
    Sources = {s1, s2, s3}
    Reload = FALSE
    StopOffMain = FALSE
INVARIANTS
    OneLiveThread
    StopQuiesces
    NoReadAfterClose
    NoNullCall
    StopClosesConnections
PROPERTY ImplementsPlayback
