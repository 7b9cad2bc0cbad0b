\* Two payments over up to three blocks, in ranges of at most two; a crash and a failed
\* call at any point, requests in between.
CONSTANTS
    d1 = d1
    d2 = d2
    Ids = {d1, d2}
    NoUrl = NoUrl
    Url = Url
    MaxAttempts = 1
    MaxBackoff = 0
    Recheck = 1
    SweepLimit = 2
    MaxRetries = 0
    MaxCrashes = 1
    MaxHolds = 0
    Confirmations = 1
    MaxBlockRange = 2
    MaxHead = 3
    MaxPatches = 1
    MaxFaults = 1
SPECIFICATION Spec
INVARIANTS
    CursorCoversPayments
    OnlyFinalPayments
PROPERTIES
    DeliveredOnce
    EventuallyOnFile
CHECK_DEADLOCK FALSE
