SPECIFICATION Spec
CONSTANTS
    Threads = {t1, t2, t3}
    NoThread = NoThread
    Null = Null
    Junk = Junk
    Replies = {"NONE", "CONNECTION_ERROR"}
    MaxProfiles = 2
    MaxLoads = 6
SYMMETRY Symmetry
INVARIANTS
    ReferencesExact
    FetchedOnce
    TokenAlive
    UseAfterFreeNeedsRace
PROPERTY
    RaceNeedsFault
CHECK_DEADLOCK FALSE
