SPECIFICATION BillingSpec
CONSTANTS
    p = p
    q = q
    Subs = {s1}
    NoSub = NoSub
    Hinted = {s1}
    EventIds = {1, 2, 3}
    Moves <- Payments
    MaxClock = 2
    Requests <- Growth
    Limit <- OneOfEach
INVARIANTS
    AppliedOnce
    TierSettles
    FreeQuota
PROPERTY
    WatermarkForward
SYMMETRY AnyProject
CHECK_DEADLOCK FALSE
