\* Orders of half a QUAI each.
CONSTANTS
    o1 = o1
    o2 = o2
    Orders = {o1, o2}
    Requests = {r1, r2}
    Sweeps = {s1, s2}
    Amount <- HalfAmounts
    Quai = 2
    QitsPerQuai = 1
    MaxAttempts = 2
    MaxIndex = 4
    Renamed = {o1}
    MaxAsks = 2
    MaxBusy = 2
    Purse <- OnePaying
    MaxFaults = 1
SPECIFICATION Spec
INVARIANTS
    ConfirmedAtRate
