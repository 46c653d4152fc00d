SPECIFICATION FairSpec
CONSTANTS
    Threads = {t1, t2}
    Credentials = {c1, c2}
    TimeReaders = {t2}
    MaxAttempts = 2
    NoThread = NoThread
    Null = Null
INVARIANTS
    DataWhole
    FailureUndone
    NoMedia1Leak
    TrustedHandleLive
PROPERTIES
    AuthenticationSticky
    AbandonedLockBlocks
    CallsReturn
