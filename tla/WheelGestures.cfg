SPECIFICATION FairSpec
CONSTANTS
    ItemHeight = 5
    Height = 10
    Counts = {1, 3}
    Moves <- SomeMoves
    Flings <- SomeFlings
INVARIANTS
    TypeOK
    NearestItem
    RestIsCentred
PROPERTIES
    FollowsFinger
    JustifyKeepsItem
    ScrollEnds
