SPECIFICATION Spec
CONSTANTS
    Threads = {t1, t2}
    NoThread = NoThread
    Null = Null
    Junk = Junk
    Replies = {"NONE", "CONNECTION_ERROR"}
    MaxProfiles = 1
    MaxLoads = 4
SYMMETRY Symmetry
INVARIANT
    CallerHoldsRef
CHECK_DEADLOCK FALSE
