SPECIFICATION Spec
CONSTANTS
    Start = 6
    Skews <- SmallSkews
    Window = 2
    Life = 4
    MaxTime = 4
    MaxSets = 1
    Null = Null
INVARIANTS
    TokenTracksCamera
    UnsetClockNotTrusted
PROPERTY
    LetsInAtLast
CHECK_DEADLOCK FALSE
