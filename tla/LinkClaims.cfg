\* Two wallets, two requests at a time, four links; time in units of the double-pay
\* window, so that a claim can become stale and be recycled.
CONSTANTS
    w1 = w1
    w2 = w2
    o1 = o1
    o2 = o2
    o3 = o3
    r1 = r1
    r2 = r2
    Wallets = {w1, w2}
    Qi = Qi
    Nobody = Nobody
    Orders = {o1, o2, o3}
    Requests = {r1, r2}
    Links <- AllLinks
    DoublePayWindow = 1
    StaleAfter = 3
    MinLife = 1
    MaxTime = 4
SPECIFICATION Spec
SYMMETRY Alike
INVARIANTS
    TypeOK
    RedemptionsCapped
    ExclusiveForWindow
PROPERTIES
    SettledNotSoldAgain
