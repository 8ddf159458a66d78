SPECIFICATION FairSpec
CONSTANTS
    None = None
    Iso = "iso"
    Wheels <- TwoWheels
    Menus <- LensMenus
    Lossy = TRUE
    MaxEvents = 2
    MaxResumes = 1
    MaxChanges = 1
INVARIANTS
    TypeOK
    CaptureModeKnown
PROPERTIES
    NoEcho
    Settles
CONSTRAINT ChangesBudget
CHECK_DEADLOCK FALSE
