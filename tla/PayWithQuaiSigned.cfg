\* Two order ids, two customers, native and ERC-20 orders, registered by the
\* merchant, in batches, by a relayer, or created by a signed authorization; one
\* administrative call anywhere.
CONSTANTS
    m1 = m1
    a = a
    b = b
    p1 = p1
    p2 = p2
    w1 = w1
    w2 = w2
    r1 = r1
    s1 = s1
    g1 = g1
    usdt = usdt
    zero = zero
    owner = owner
    Merchants = {m1}
    OrderIds = {a, b}
    Payers = {p1, p2}
    FeeWallets = {w1}
    Owner = owner
    Relayers = {r1}
    Signers = {s1}
    Guardians = {g1}
    Tokens = {usdt}
    ZeroAddress = zero
    Amounts = {199}
    Expiries = {0, 2}
    FeeRates = {500, 501}
    MaxFeeBps = 500
    BpsDenominator = 10000
    UintMax = 120000
    PurgeDelay = 1
    MaxBatch = 2
    InitConfig <- SigningShop
    MaxTime = 2
    MaxOrders = 2
    MaxAdmin = 1
SPECIFICATION Spec
INVARIANTS
    PaidOnce
    SettledAsRegistered
    PaidAgainOnlyAfterPurge
PROPERTIES
    ImplementsOrderFate
CHECK_DEADLOCK FALSE
