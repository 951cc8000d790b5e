CONSTANTS
    Menus <- MCMenus
    Leftovers <- MCLeftovers
    CacheSize = 1
    MaxHeld = 2
    MaxRewinds = 1
SPECIFICATION Spec
INVARIANTS
    VersionStringIsCurrent
CHECK_DEADLOCK FALSE
