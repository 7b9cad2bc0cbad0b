\* Two deliveries, one at a time in a sweep; two attempts each, a retry, a crash and a
\* deactivation at any point.
CONSTANTS
    d1 = d1
    d2 = d2
    Ids = {d1, d2}
    NoUrl = NoUrl
    Url = Url
    MaxAttempts = 2
    MaxBackoff = 1
    Recheck = 2
    SweepLimit = 1
    MaxRetries = 1
    MaxCrashes = 1
    MaxHolds = 1
SPECIFICATION QueueSpec
INVARIANTS
    QueueTypeOK
    OutcomeEarned
PROPERTIES
    DeliveredIsFinal
    EventuallySettled
CHECK_DEADLOCK FALSE
