\* One payment; a URL configured while the indexer is at work.
CONSTANTS
    d1 = d1
    d2 = d2
    Ids = {d1}
    NoUrl = NoUrl
    Url = Url
    MaxAttempts = 1
    MaxBackoff = 0
    Recheck = 1
    SweepLimit = 2
    MaxRetries = 0
    MaxCrashes = 0
    MaxHolds = 0
    Confirmations = 1
    MaxBlockRange = 2
    MaxHead = 2
    MaxPatches = 1
    MaxFaults = 0
SPECIFICATION Spec
INVARIANTS
    NothingLeftSkipped
CHECK_DEADLOCK FALSE
