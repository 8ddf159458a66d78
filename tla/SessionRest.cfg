SPECIFICATION Spec
CONSTANTS
    None = None
    Iso = "iso"
    Wheels <- NoWheels
    Menus <- FixedMenus
    Lossy = FALSE
    MaxEvents = 3
    MaxResumes = 2
    MaxChanges = 0
INVARIANTS
    SessionAgrees
    LiveviewShown
CONSTRAINT RestBudget
CHECK_DEADLOCK FALSE
