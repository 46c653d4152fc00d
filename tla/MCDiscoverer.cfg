SPECIFICATION Spec
CONSTANTS
    Starters = {t1, t2}
    Stoppers = {s1}
    RetryCount = 2
    MaxStarts = 3
    Null = Null
SYMMETRY Symmetry
INVARIANTS
    ServOwned
    StopIsPrompt
    CloseIsSafeAlone
PROPERTY
    StopIsNotLost
CHECK_DEADLOCK FALSE
