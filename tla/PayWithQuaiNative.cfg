\* One merchant, native orders under one id, one customer: registrations, fee
\* changes, cancellations, purges and rescues around and inside payments.
CONSTANTS
    m1 = m1
    a = a
    b = b
    p1 = p1
    p2 = p2
    w1 = w1
    w2 = w2
    r1 = r1
    s1 = s1
    g1 = g1
    usdt = usdt
    zero = zero
    owner = owner
    Merchants = {m1}
    OrderIds = {a}
    Payers = {p1}
    FeeWallets = {w1}
    Owner = owner
    Relayers = {}
    Signers = {}
    Guardians = {}
    Tokens = {}
    ZeroAddress = zero
    Amounts = {199}
    Expiries = {0, 3}
    FeeRates = {30, 250, 500}
    MaxFeeBps = 500
    BpsDenominator = 10000
    UintMax = 50000
    PurgeDelay = 2
    MaxBatch = 1
    InitConfig <- NativeShop
    MaxTime = 4
    MaxOrders = 2
    MaxAdmin = 3
SPECIFICATION Spec
INVARIANTS
    TypeOK
    RecentPaymentOnRecord
    FundsPassThrough
    PaymentInv
CHECK_DEADLOCK FALSE
