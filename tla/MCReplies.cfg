SPECIFICATION RepliesSpec
CONSTANTS
    MaxEntries = 3
    MaxAttempts = 2
    MaxMessages = 2
    MaxInterfaces = 2
    MaxItems = 2
    Handlers = 2
    Interfaces <- SomeInterfaces
    Ntp <- EveryNtp
    Keys <- SomeKeys
    ScopeReplies <- SomeReplies
    MatchEntries <- SomeEntries
    Junk = Junk
    Unused = Unused
INVARIANTS
    MadeFromLatest
    LeaksKnown
    TablesSound
    AnswersWhole
    SameAnswers
    DevicesGiven
    MatchesLive
CHECK_DEADLOCK FALSE
