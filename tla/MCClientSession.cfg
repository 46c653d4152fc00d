SPECIFICATION Spec
CONSTANTS
    Faults <- SomeFaults
    MaxProfiles = 2
    MaxEntries = 2
INVARIANTS
    ProfilesInTurn
PROPERTIES
    LeaksAreCapabilities
CHECK_DEADLOCK FALSE
