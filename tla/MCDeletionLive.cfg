SPECIFICATION FairSpec
CONSTANTS
    Workers = {w1, w2}
    Subs = {s1}
    NoSub = NoSub
    Configured = {w1, w2}
    OperatorEnabled = FALSE
    ProviderMoves <- AllMoves
    RetryDelays <- OneRetry
    LeaseTime = 1
    FreshTime = 1
    RetentionTime = 2
    MaxCrashes = 1
PROPERTY
    Decided
CHECK_DEADLOCK FALSE
