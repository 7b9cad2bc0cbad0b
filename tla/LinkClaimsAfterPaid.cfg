\* A gateway link: its one order is paid, becomes stale and is claimed again.
CONSTANTS
    w1 = w1
    w2 = w2
    o1 = o1
    o2 = o2
    o3 = o3
    r1 = r1
    r2 = r2
    Wallets = {w1, w2}
    Qi = Qi
    Nobody = Nobody
    Orders = {o1, o2, o3}
    Requests = {r1, r2}
    Links <- GatewayLinks
    DoublePayWindow = 1
    StaleAfter = 3
    MinLife = 1
    MaxTime = 4
SPECIFICATION Spec
PROPERTIES
    NoOwnerAfterSettlement
