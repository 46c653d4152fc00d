SPECIFICATION RepliesSpec
CONSTANTS
    MaxEntries = 1
    MaxAttempts = 1
    MaxMessages = 1
    MaxInterfaces = 2
    MaxItems = 2
    Handlers = 1
    Interfaces <- SomeInterfaces
    Ntp <- EveryNtp
    Keys <- SomeKeys
    ScopeReplies <- SomeReplies
    MatchEntries <- SomeEntries
    Junk = Junk
    Unused = Unused
INVARIANT
    EveryManualReadable
CHECK_DEADLOCK FALSE
