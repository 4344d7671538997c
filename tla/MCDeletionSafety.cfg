SPECIFICATION Spec
CONSTANTS
    Workers = {w1, w2, w3}
    Subs = {s1}
    NoSub = NoSub
    Configured = {w1, w2}
    OperatorEnabled = TRUE
    ProviderMoves <- AllMoves
    RetryDelays <- OneRetry
    LeaseTime = 1
    FreshTime = 0
    RetentionTime = 1
    MaxCrashes = 0
INVARIANTS
    LifecycleAgrees
    PurgeConfirmed
    PurgeAfterRetention
PROPERTIES
    BillingFrozen
    KeepsPromise
CHECK_DEADLOCK FALSE
SYMMETRY AnyServer
