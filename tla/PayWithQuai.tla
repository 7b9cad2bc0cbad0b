----------------------------- MODULE PayWithQuai -----------------------------
(***************************************************************************)
(* The payment router of contracts/contracts/PayWithQuai.sol.              *)
(*                                                                         *)
(* A merchant registers an order; a customer pays it, and the contract     *)
(* forwards the fee and the rest in the same transaction.  An order can    *)
(* also be created and settled at once from an authorization signed off    *)
(* chain.  The contract hands control to foreign code while it pays (a     *)
(* receiving contract, or an ERC-20 token), and only the three payment     *)
(* functions are nonReentrant: every other function may run in the middle  *)
(* of a payment.  A payment is therefore several steps here, and a revert  *)
(* at any of them undoes the whole transaction, the calls nested in it     *)
(* included.                                                               *)
(***************************************************************************)
EXTENDS Integers, Sequences, SequencesExt

CONSTANTS
    Merchants,       \* wallets that register orders and receive payments
    OrderIds,        \* ids a merchant gives to its orders
    Payers,          \* customers' wallets
    FeeWallets,      \* wallets the platform fee may go to
    Owner,           \* the contract's owner
    Relayers,        \* gateway agents that may register for a merchant
    Signers,         \* keys that may sign order authorizations
    Guardians,       \* addresses that may be made the pause guardian
    Tokens,          \* ERC-20 tokens
    ZeroAddress,     \* address(0): native QUAI as a token, "anyone" as a payer
    Amounts,         \* amounts an order may ask for
    Expiries,        \* expiry times an order may carry; 0 is never
    FeeRates,        \* fee rates, in basis points, that callers try
    MaxFeeBps,       \* the contract's cap on the fee rate (MAX_FEE_BPS)
    BpsDenominator,  \* 100% in basis points (BPS_DENOMINATOR)
    UintMax,         \* the largest uint256: larger products revert
    PurgeDelay,      \* time a settled order stays on record (PURGE_DELAY)
    MaxBatch,        \* orders one registerOrderBatch may hold
    InitConfig,      \* configuration left by the deployment scripts
    MaxTime,         \* bound: the last block timestamp explored
    MaxOrders,       \* bound: registrations explored per merchant
    MaxAdmin         \* bound: administrative calls and forced transfers explored

Native == ZeroAddress
Currencies == Tokens \cup {Native}
Keys == Merchants \X OrderIds
PayerOrAnyone == Payers \cup {ZeroAddress}

Rates == {r \in FeeRates : r <= MaxFeeBps}

Configs ==
    [acceptedToken : SUBSET Currencies,
     feeBps        : Rates,
     feeRecipient  : FeeWallets,
     relayers      : SUBSET Relayers,
     signers       : SUBSET Signers,
     pauseGuardian : Guardians \cup {ZeroAddress},
     paused        : BOOLEAN,
     signingReady  : BOOLEAN]

ASSUME ConstantsAssumption ==
    /\ ZeroAddress \notin UNION {Merchants, Payers, FeeWallets, Tokens, Guardians}
    /\ Amounts \subseteq Nat
    /\ Expiries \subseteq Nat
    /\ FeeRates \subseteq Nat
    /\ MaxFeeBps \in Nat
    /\ BpsDenominator \in Nat \ {0}
    /\ MaxFeeBps <= BpsDenominator
    /\ PurgeDelay \in Nat \ {0}
    /\ {UintMax, MaxBatch, MaxTime, MaxOrders, MaxAdmin} \subseteq Nat
    /\ MaxTime > 0
    /\ InitConfig \in Configs

VARIABLES
    now,          \* block.timestamp
    orders,       \* MainStorage.orders, keyed by (merchant, orderId)
    orderNonces,  \* MainStorage.orderNonces
    config,       \* the owner-managed rest of the contract's storage
    balance,      \* native QUAI the contract holds
    registered,   \* per merchant, its OrderRegistered events, in order
    settlements,  \* the PaymentSettled events, in order
    stray,        \* native funds pushed in and not yet rescued
    call,         \* the payment being executed, if any
    saved,        \* what a revert of that payment restores
    adminCalls    \* administrative calls and forced transfers so far

storage == <<orders, orderNonces, config, balance, registered, settlements, stray>>
vars == <<now, storage, call, saved, adminCalls>>

-----------------------------------------------------------------------------
(* Records.                                                                *)

\* A mapping slot that holds no order.
EmptyOrder ==
    [exists |-> FALSE, settled |-> FALSE, merchant |-> ZeroAddress,
     token |-> Native, amount |-> 0, expiry |-> 0, feeBps |-> 0,
     feeRecipient |-> ZeroAddress, settledAt |-> 0,
     expectedPayer |-> ZeroAddress, nonce |-> 0]

\* The terms of an order, with the fee at one of the given rates: the fields of
\* SignedOrder but the merchant.
TermsAt(rates) ==
    [orderId       : OrderIds,
     token         : Currencies,
     amount        : Amounts,
     expiry        : Expiries,
     feeBps        : rates,
     feeRecipient  : FeeWallets,
     expectedPayer : PayerOrAnyone]

\* What an order on record commits to, and what a signer may have signed.
Terms == TermsAt(Rates)
SignedOrders == TermsAt(FeeRates)

\* The record written for terms t of merchant m under nonce n; paidAt is 0
\* for an order that waits for its payment.
OrderFor(m, t, n, settled, paidAt) ==
    [exists |-> TRUE, settled |-> settled, merchant |-> m,
     token |-> t.token, amount |-> t.amount, expiry |-> t.expiry,
     feeBps |-> t.feeBps, feeRecipient |-> t.feeRecipient,
     settledAt |-> paidAt, expectedPayer |-> t.expectedPayer, nonce |-> n]

\* Order o once it is paid at time t.
Settled(o, t) == [o EXCEPT !.settled = TRUE, !.settledAt = t]

Fee(amount, rate) == (amount * rate) \div BpsDenominator

\* Mutant of Net: the payee gets the whole amount on top of the fee.
NetAmount(amount, fee) == amount

Net(amount, fee) == amount - fee

\* Mutant of NonceFor: the counter is read before it is incremented.
NonceForPostIncrement(m, i) == orderNonces[m] + i - 1

\* The nonce of the i-th order that one call creates for merchant m.
NonceFor(m, i) == orderNonces[m] + i

NoCall == [phase |-> "idle"]
NoSnapshot == [empty |-> TRUE]

Idle == call = NoCall

\* What a revert brings back: the storage and the logs as the transaction found
\* them.
Snapshot ==
    [orders |-> orders, orderNonces |-> orderNonces, config |-> config,
     balance |-> balance, registered |-> registered,
     settlements |-> settlements, stray |-> stray]

Init ==
    /\ now = 1
    /\ orders = [k \in Keys |-> EmptyOrder]
    /\ orderNonces = [m \in Merchants |-> 0]
    /\ config = InitConfig
    /\ balance = 0
    /\ registered = [m \in Merchants |-> <<>>]
    /\ settlements = <<>>
    /\ stray = 0
    /\ call = NoCall
    /\ saved = NoSnapshot
    /\ adminCalls = 0

-----------------------------------------------------------------------------
(* Merchants and relayers: the life of an order.                           *)

\* _registerOrderFor, once for each of the distinct ids, in one transaction: the
\* fee rate and its recipient are locked now, each order takes the next nonce.
RegisterAll(m, ids, token, amount, expiry, payer) ==
    LET terms(id) == [orderId |-> id, token |-> token, amount |-> amount,
                      expiry |-> expiry, feeBps |-> config.feeBps,
                      feeRecipient |-> config.feeRecipient,
                      expectedPayer |-> payer]
    IN
    /\ ~config.paused
    /\ amount # 0
    /\ token \in config.acceptedToken
    /\ expiry = 0 \/ expiry > now
    /\ IsInjective(ids)
    /\ \A i \in DOMAIN ids : ~orders[<<m, ids[i]>>].exists
    /\ orderNonces[m] + Len(ids) <= MaxOrders
    /\ orders' = [k \in Keys |->
                    IF k[1] = m /\ \E i \in DOMAIN ids : ids[i] = k[2]
                    THEN LET i == CHOOSE j \in DOMAIN ids : ids[j] = k[2]
                         IN  OrderFor(m, terms(ids[i]), NonceFor(m, i), FALSE, 0)
                    ELSE orders[k]]
    /\ orderNonces' = [orderNonces EXCEPT ![m] = @ + Len(ids)]
    /\ registered' = [registered EXCEPT
                        ![m] = @ \o [i \in DOMAIN ids |-> terms(ids[i])]]
    /\ UNCHANGED <<now, config, balance, settlements, stray, call, saved, adminCalls>>

\* registerOrderWithPayer; with no expected payer it is registerOrder.
RegisterOrder(m, id, token, amount, expiry, payer) ==
    RegisterAll(m, <<id>>, token, amount, expiry, payer)

\* registerOrderBatch: all the orders or none.
RegisterOrderBatch(m, ids, token, amount, expiry) ==
    /\ Len(ids) \in 1..MaxBatch
    /\ RegisterAll(m, ids, token, amount, expiry, ZeroAddress)

\* registerOrderFor: a trusted relayer registers on the merchant's behalf.
RegisterOrderFor(r, m, id, token, amount, expiry) ==
    /\ r \in config.relayers
    /\ RegisterAll(m, <<id>>, token, amount, expiry, ZeroAddress)

\* Frees a slot: the id may be registered again, under a new nonce.
DeleteOrder(k) ==
    /\ orders' = [orders EXCEPT ![k] = EmptyOrder]
    /\ UNCHANGED <<now, orderNonces, config, balance, registered, settlements,
                   stray, call, saved, adminCalls>>

\* Mutant of CancelOrder: the OrderAlreadySettled check is missing.
CancelOrderEvenSettled(m, id) ==
    /\ orders[<<m, id>>].exists
    /\ DeleteOrder(<<m, id>>)

\* cancelOrder, allowed while paused.
CancelOrder(m, id) ==
    /\ orders[<<m, id>>].exists
    /\ ~orders[<<m, id>>].settled
    /\ DeleteOrder(<<m, id>>)

\* Mutant of PurgeSettledOrder: the delay ends one unit early.
PurgeSettledOrderEarly(m, id) ==
    /\ orders[<<m, id>>].exists
    /\ orders[<<m, id>>].settled
    /\ now + 1 >= orders[<<m, id>>].settledAt + PurgeDelay
    /\ DeleteOrder(<<m, id>>)

\* purgeSettledOrder.
PurgeSettledOrder(m, id) ==
    /\ orders[<<m, id>>].exists
    /\ orders[<<m, id>>].settled
    /\ now >= orders[<<m, id>>].settledAt + PurgeDelay
    /\ DeleteOrder(<<m, id>>)

-----------------------------------------------------------------------------
(* Customers: a payment is one transaction, and yields to foreign code     *)
(* while it pays the fee and while it pays the rest.                       *)

\* The first transfer goes out: the fee, or the rest when there is no fee.  A
\* native payment has brought its whole amount in with the call.
BeginTransfers(c) ==
    LET fee == Fee(c.amount, c.feeBps)
        net == Net(c.amount, fee)
        first == IF fee > 0 THEN "fee" ELSE "net"
        out == IF fee > 0 THEN fee ELSE net
    IN
    /\ c.amount * c.feeBps <= UintMax
    /\ call' = [phase |-> first, key |-> c.key, payer |-> c.payer,
                token |-> c.token, amount |-> c.amount, fee |-> fee, net |-> net,
                feeTo |-> IF fee > 0 THEN c.feeRecipient ELSE ZeroAddress,
                netTo |-> IF fee > 0 THEN ZeroAddress ELSE c.merchant,
                signed |-> c.signed, nonce |-> c.nonce]
    /\ balance' = IF c.token = Native THEN (balance + c.amount) - out ELSE balance
    /\ saved' = Snapshot

\* Mutant of RequireOpenOrder: a settled order may be paid again.
RequireUnexpired(o) == o.expiry = 0 \/ now <= o.expiry

\* _requireOpenOrder.
RequireOpenOrder(o) ==
    /\ ~o.settled
    /\ o.expiry = 0 \/ now <= o.expiry

\* Mutant of MayPay: the WrongPayer check is missing.
AnyoneMayPay(expectedPayer, p) == p \in Payers

MayPay(expectedPayer, p) == expectedPayer \in {ZeroAddress, p}

\* payOrder and payOrderNative: the checks, the effects, the first transfer.
PayRegistered(p, m, id) ==
    LET o == orders[<<m, id>>] IN
    /\ Idle
    /\ ~config.paused
    /\ o.exists
    /\ RequireOpenOrder(o)
    /\ MayPay(o.expectedPayer, p)
    /\ orders' = [orders EXCEPT ![<<m, id>>] = Settled(o, now)]
    /\ BeginTransfers([key |-> <<m, id>>, payer |-> p, token |-> o.token,
                       amount |-> o.amount, feeBps |-> o.feeBps,
                       feeRecipient |-> o.feeRecipient, merchant |-> o.merchant,
                       signed |-> FALSE, nonce |-> 0])
    /\ UNCHANGED <<now, orderNonces, config, registered, settlements, stray, adminCalls>>

PayOrder(p, m, id) ==
    orders[<<m, id>>].token # Native /\ PayRegistered(p, m, id)

PayOrderNative(p, m, id) ==
    orders[<<m, id>>].token = Native /\ PayRegistered(p, m, id)

\* paySignedOrder: the order signed by s (terms t) is created settled, and paid.
PaySignedOrder(p, s, m, t) ==
    LET n == NonceFor(m, 1) IN
    /\ Idle
    /\ ~config.paused
    /\ config.signingReady
    /\ s \in config.signers
    /\ t.token \in config.acceptedToken
    /\ t.amount # 0
    /\ t.expiry = 0 \/ t.expiry > now
    /\ t.feeBps <= MaxFeeBps
    /\ ~orders[<<m, t.orderId>>].exists
    /\ MayPay(t.expectedPayer, p)
    /\ orderNonces[m] < MaxOrders
    /\ orders' = [orders EXCEPT ![<<m, t.orderId>>] = OrderFor(m, t, n, TRUE, now)]
    /\ orderNonces' = [orderNonces EXCEPT ![m] = @ + 1]
    /\ registered' = [registered EXCEPT ![m] = Append(@, t)]
    /\ BeginTransfers([key |-> <<m, t.orderId>>, payer |-> p, token |-> t.token,
                       amount |-> t.amount, feeBps |-> t.feeBps,
                       feeRecipient |-> t.feeRecipient, merchant |-> m,
                       signed |-> TRUE, nonce |-> n])
    /\ UNCHANGED <<now, config, settlements, stray, adminCalls>>

\* payOrder reads the order again after each transfer; paySignedOrder kept what
\* it was given.
PayeeNow == IF call.signed THEN call.key[1] ELSE orders[call.key].merchant
NonceNow == IF call.signed THEN call.nonce ELSE orders[call.key].nonce

NetPhase(c, payee) == [c EXCEPT !.phase = "net", !.netTo = payee]

\* The fee's receiver gives control back; the rest goes to the payee.
TransferNet ==
    /\ call.phase = "fee"
    /\ call.token = Native => balance >= call.net
    /\ call' = NetPhase(call, PayeeNow)
    /\ balance' = IF call.token = Native THEN balance - call.net ELSE balance
    /\ UNCHANGED <<now, orders, orderNonces, config, registered, settlements,
                   stray, saved, adminCalls>>

\* The payee gives control back; the payment is logged and the transaction ends.
FinishPayment ==
    /\ call.phase = "net"
    /\ settlements' = Append(settlements,
            [merchant |-> PayeeNow, orderId |-> call.key[2], nonce |-> NonceNow,
             payer |-> call.payer, token |-> call.token, amount |-> call.amount,
             fee |-> call.fee, net |-> call.net, timestamp |-> now,
             feeTo |-> call.feeTo, netTo |-> call.netTo])
    /\ call' = NoCall
    /\ saved' = NoSnapshot
    /\ UNCHANGED <<now, orders, orderNonces, config, balance, registered, stray, adminCalls>>

\* A transfer fails, or the gas runs out: nothing of the transaction remains.
RevertPayment ==
    /\ ~Idle
    /\ orders' = saved.orders
    /\ orderNonces' = saved.orderNonces
    /\ config' = saved.config
    /\ balance' = saved.balance
    /\ registered' = saved.registered
    /\ settlements' = saved.settlements
    /\ stray' = saved.stray
    /\ call' = NoCall
    /\ saved' = NoSnapshot
    /\ UNCHANGED <<now, adminCalls>>

-----------------------------------------------------------------------------
(* The owner and the pause guardian.                                       *)

\* A call that leaves the configuration as it is is a stuttering step.
Configure(c) ==
    /\ c # config
    /\ adminCalls < MaxAdmin
    /\ adminCalls' = adminCalls + 1
    /\ config' = c
    /\ UNCHANGED <<now, orders, orderNonces, balance, registered, settlements,
                   stray, call, saved>>

SetFeeConfig(rate, wallet) ==
    /\ rate <= MaxFeeBps
    /\ Configure([config EXCEPT !.feeBps = rate, !.feeRecipient = wallet])

SetTokenAccepted(token, accepted) ==
    Configure([config EXCEPT !.acceptedToken =
                 IF accepted THEN @ \cup {token} ELSE @ \ {token}])

SetRelayer(r, enabled) ==
    Configure([config EXCEPT !.relayers =
                 IF enabled THEN @ \cup {r} ELSE @ \ {r}])

SetSigner(s, enabled) ==
    Configure([config EXCEPT !.signers =
                 IF enabled THEN @ \cup {s} ELSE @ \ {s}])

\* initializeSigning runs once.
InitializeSigning ==
    /\ ~config.signingReady
    /\ Configure([config EXCEPT !.signingReady = TRUE])

SetPauseGuardian(g) == Configure([config EXCEPT !.pauseGuardian = g])

\* pause: by the owner or the guardian of the moment.
Pause(caller) ==
    /\ caller \in {Owner, config.pauseGuardian}
    /\ ~config.paused
    /\ Configure([config EXCEPT !.paused = TRUE])

Unpause ==
    /\ config.paused
    /\ Configure([config EXCEPT !.paused = FALSE])

\* rescueTokens for native QUAI: the owner sweeps what the contract holds.
RescueTokens(amount) ==
    /\ amount \in 1..balance
    /\ adminCalls < MaxAdmin
    /\ adminCalls' = adminCalls + 1
    /\ balance' = balance - amount
    /\ stray' = stray - amount
    /\ UNCHANGED <<now, orders, orderNonces, config, registered, settlements, call, saved>>

-----------------------------------------------------------------------------
(* The chain around the contract.                                          *)

\* Native funds arrive without a call (a destroyed contract's balance): receive()
\* cannot refuse them.
ForceFunds(amount) ==
    /\ adminCalls < MaxAdmin
    /\ adminCalls' = adminCalls + 1
    /\ balance' = balance + amount
    /\ stray' = stray + amount
    /\ UNCHANGED <<now, orders, orderNonces, config, registered, settlements, call, saved>>

\* A later block.
Tick ==
    /\ Idle
    /\ now < MaxTime
    /\ now' = now + 1
    /\ UNCHANGED <<storage, call, saved, adminCalls>>

-----------------------------------------------------------------------------

Batches == {s \in BoundedSeq(OrderIds, MaxBatch) : Len(s) > 0}

MerchantStep(m) ==
    \/ \E id \in OrderIds, t \in Currencies, a \in Amounts, e \in Expiries,
          p \in PayerOrAnyone : RegisterOrder(m, id, t, a, e, p)
    \/ \E ids \in Batches, t \in Currencies, a \in Amounts, e \in Expiries :
          RegisterOrderBatch(m, ids, t, a, e)
    \/ \E r \in Relayers, id \in OrderIds, t \in Currencies, a \in Amounts,
          e \in Expiries : RegisterOrderFor(r, m, id, t, a, e)
    \/ \E id \in OrderIds : CancelOrder(m, id)
    \/ \E id \in OrderIds : PurgeSettledOrder(m, id)

PaymentStep ==
    \/ \E p \in Payers, m \in Merchants, id \in OrderIds :
          PayOrder(p, m, id) \/ PayOrderNative(p, m, id)
    \/ \E p \in Payers, s \in Signers, m \in Merchants, t \in SignedOrders :
          PaySignedOrder(p, s, m, t)
    \/ TransferNet
    \/ FinishPayment
    \/ RevertPayment

AdminStep ==
    \/ \E r \in FeeRates, w \in FeeWallets : SetFeeConfig(r, w)
    \/ \E t \in Currencies, b \in BOOLEAN : SetTokenAccepted(t, b)
    \/ \E r \in Relayers, b \in BOOLEAN : SetRelayer(r, b)
    \/ \E s \in Signers, b \in BOOLEAN : SetSigner(s, b)
    \/ InitializeSigning
    \/ \E g \in Guardians \cup {ZeroAddress} : SetPauseGuardian(g)
    \/ \E c \in Guardians \cup {Owner} : Pause(c)
    \/ Unpause
    \/ \E a \in {1, balance} : RescueTokens(a)

Next ==
    \/ \E m \in Merchants : MerchantStep(m)
    \/ PaymentStep
    \/ AdminStep
    \/ \E a \in {1} \cup Amounts : ForceFunds(a)
    \/ Tick

Spec == Init /\ [][Next]_vars

-----------------------------------------------------------------------------
(* Properties.                                                             *)

Orders ==
    [exists : {TRUE}, settled : BOOLEAN, merchant : Merchants,
     token : Currencies, amount : Amounts, expiry : Expiries,
     feeBps : Rates, feeRecipient : FeeWallets, settledAt : 0..MaxTime,
     expectedPayer : PayerOrAnyone, nonce : 1..MaxOrders]

Settlements ==
    [merchant : Merchants \cup {ZeroAddress}, orderId : OrderIds, nonce : 0..MaxOrders,
     payer : Payers, token : Currencies, amount : Amounts, fee : Nat, net : Nat,
     timestamp : 1..MaxTime, feeTo : FeeWallets \cup {ZeroAddress},
     netTo : Merchants \cup {ZeroAddress}]

Calls ==
    [phase : {"fee", "net"}, key : Keys, payer : Payers, token : Currencies,
     amount : Amounts, fee : Nat, net : Nat,
     feeTo : FeeWallets \cup {ZeroAddress}, netTo : Merchants \cup {ZeroAddress},
     signed : BOOLEAN, nonce : 0..MaxOrders]

\* The part of the state a revert restores.
StorageOK(s) ==
    /\ s.orders \in [Keys -> Orders \cup {EmptyOrder}]
    /\ s.orderNonces \in [Merchants -> 0..MaxOrders]
    /\ s.config \in Configs
    /\ s.balance \in Nat
    /\ s.registered \in [Merchants -> Seq(Terms)]
    /\ s.settlements \in Seq(Settlements)
    /\ s.stray \in Int

\* The type invariant.
TypeOK ==
    /\ now \in 1..MaxTime
    /\ StorageOK(Snapshot)
    /\ call \in Calls \cup {NoCall}
    /\ IF Idle THEN saved = NoSnapshot ELSE StorageOK(saved)
    /\ adminCalls \in 0..MaxAdmin

\* No registration of an order is ever paid twice, however payments, purges,
\* re-registrations and nested calls interleave (the contract's "orders are
\* marked settled to block double-fulfillment").
PaidOnce ==
    \A i, j \in DOMAIN settlements :
        /\ settlements[i].merchant = settlements[j].merchant
        /\ settlements[i].nonce = settlements[j].nonce
        => i = j

\* An order id is paid again only after its paid order could be purged: whatever is
\* pre-registered or signed, and however the two kinds of payment race, one checkout
\* is not charged twice within PURGE_DELAY (paySignedOrder's "a second use reverts").
PaidAgainOnlyAfterPurge ==
    \A i, j \in DOMAIN settlements :
        /\ i < j
        /\ settlements[i].merchant = settlements[j].merchant
        /\ settlements[i].orderId = settlements[j].orderId
        => settlements[j].timestamp >= settlements[i].timestamp + PurgeDelay

\* Settlement s carries out the terms t of a registration: the same order, price
\* and locked fee, to the right wallets, from an allowed payer, in time.
CarriesOut(s, t) ==
    /\ s.orderId = t.orderId
    /\ s.token = t.token
    /\ s.amount = t.amount
    /\ s.fee = Fee(t.amount, t.feeBps)
    /\ s.fee + s.net = t.amount
    /\ s.fee > 0 => s.feeTo = t.feeRecipient
    /\ s.netTo = s.merchant
    /\ t.expectedPayer \in {ZeroAddress, s.payer}
    /\ t.expiry = 0 \/ s.timestamp <= t.expiry

\* Every PaymentSettled event names, by its nonce, a registration of its merchant
\* and carries out exactly the terms locked by it, although the payment reads the
\* order again after foreign code has run and although the fee configuration may
\* have changed since.
SettledAsRegistered ==
    \A i \in DOMAIN settlements :
        LET s == settlements[i] IN
        /\ s.merchant \in Merchants
        /\ s.nonce \in DOMAIN registered[s.merchant]
        /\ CarriesOut(s, registered[s.merchant][s.nonce])

\* For PURGE_DELAY after a payment its order stays on record as paid, under the
\* nonce and the time the event reports: the window in which the relayer's
\* getOrder confirms the event.
RecentPaymentOnRecord ==
    \A i \in DOMAIN settlements :
        LET s == settlements[i]
            o == orders[<<s.merchant, s.orderId>>]
        IN  now < s.timestamp + PurgeDelay =>
                /\ o.settled
                /\ o.nonce = s.nonce
                /\ o.settledAt = s.timestamp

\* What the contract has taken from the customer and not yet passed on.
InTransit ==
    IF ~Idle /\ call.phase = "fee" /\ call.token = Native THEN call.net ELSE 0

\* The contract keeps nothing of a payment, and pays none of it from funds that
\* reached it otherwise, even when the owner rescues funds in the middle of one.
FundsPassThrough == balance = stray + InTransit

-----------------------------------------------------------------------------
(* The inductive invariant behind these properties.  It speaks of a storage *)
(* s, because it must also hold of the one a revert would bring back.       *)

\* The order o of merchant m under id is the one registered with its nonce.
OnRecord(s, m, id, o) ==
    /\ o.merchant = m
    /\ o.nonce \in DOMAIN s.registered[m]
    /\ LET t == s.registered[m][o.nonce] IN
       /\ t.orderId = id
       /\ o.token = t.token
       /\ o.amount = t.amount
       /\ o.expiry = t.expiry
       /\ o.feeBps = t.feeBps
       /\ o.feeRecipient = t.feeRecipient
       /\ o.expectedPayer = t.expectedPayer

PaidFor(s, m, n) ==
    \E i \in DOMAIN s.settlements :
        s.settlements[i].merchant = m /\ s.settlements[i].nonce = n

\* The counter counts the registrations, and every live order is one of them.
OrdersOnRecord(s) ==
    /\ \A m \in Merchants : s.orderNonces[m] = Len(s.registered[m])
    /\ \A m \in Merchants, id \in OrderIds :
          s.orders[<<m, id>>].exists => OnRecord(s, m, id, s.orders[<<m, id>>])

\* An order that waits for its payment has not been paid.
OpenIsUnpaid(s) ==
    \A m \in Merchants, id \in OrderIds :
        s.orders[<<m, id>>].exists /\ ~s.orders[<<m, id>>].settled
            => ~PaidFor(s, m, s.orders[<<m, id>>].nonce)

\* The settlement log at time t: each entry is a registration carried out, none comes twice,
\* the recent ones are still on record, and an id comes again only after a purge.
LogOK(s, t) ==
    /\ \A i \in DOMAIN s.settlements :
          LET e == s.settlements[i] IN
          /\ e.merchant \in Merchants
          /\ e.nonce \in DOMAIN s.registered[e.merchant]
          /\ CarriesOut(e, s.registered[e.merchant][e.nonce])
          /\ t < e.timestamp + PurgeDelay =>
                /\ s.orders[<<e.merchant, e.orderId>>].settled
                /\ s.orders[<<e.merchant, e.orderId>>].nonce = e.nonce
                /\ s.orders[<<e.merchant, e.orderId>>].settledAt = e.timestamp
    /\ \A i, j \in DOMAIN s.settlements :
          /\ s.settlements[i].merchant = s.settlements[j].merchant
          /\ s.settlements[i].nonce = s.settlements[j].nonce
          => i = j
    /\ \A i, j \in DOMAIN s.settlements :
          /\ i < j
          /\ s.settlements[i].merchant = s.settlements[j].merchant
          /\ s.settlements[i].orderId = s.settlements[j].orderId
          => s.settlements[j].timestamp >= s.settlements[i].timestamp + PurgeDelay

StorageInv(s, t) == OrdersOnRecord(s) /\ OpenIsUnpaid(s) /\ LogOK(s, t)

\* The order being paid is settled as of now and not yet logged, so that no nested
\* call can touch it, and the payment follows its terms.
CallInv ==
    LET m == call.key[1]
        o == orders[<<call.key[1], call.key[2]>>]
    IN
    /\ o.exists
    /\ o.settled
    /\ o.settledAt = now
    /\ ~PaidFor(Snapshot, m, o.nonce)
    /\ o.token = call.token
    /\ o.amount = call.amount
    /\ call.fee = Fee(o.amount, o.feeBps)
    /\ call.net = o.amount - call.fee
    /\ call.phase = "fee" => call.fee > 0
    /\ call.fee > 0 => call.feeTo = o.feeRecipient
    /\ call.phase = "net" => call.netTo = m
    /\ o.expectedPayer \in {ZeroAddress, call.payer}
    /\ o.expiry = 0 \/ now <= o.expiry
    /\ call.signed => call.nonce = o.nonce

\* The inductive invariant: the storage is in order, and so are the payment in
\* progress and the storage to which it would be reverted.
PaymentInv ==
    /\ StorageInv(Snapshot, now)
    /\ FundsPassThrough
    /\ ~Idle => /\ CallInv
                /\ StorageInv(saved, now)
                /\ saved.balance = saved.stray

-----------------------------------------------------------------------------
(* What the contract promises: OrderFate over the committed storage.      *)

Committed == IF Idle THEN Snapshot ELSE saved

\* What became of the n-th registration of merchant m.
FateOf(m, n) ==
    IF n > Len(Committed.registered[m]) THEN "unused"
    ELSE IF PaidFor(Committed, m, n) THEN "paid"
    ELSE IF \E id \in OrderIds : /\ Committed.orders[<<m, id>>].exists
                                 /\ Committed.orders[<<m, id>>].nonce = n
         THEN "open"
    ELSE "void"

Fate == INSTANCE OrderFate WITH
    Nonces <- 1..MaxOrders,
    fate <- [x \in Merchants \X (1..MaxOrders) |-> FateOf(x[1], x[2])]

\* The contract implements OrderFate: registrations are settled or withdrawn once
\* and for good.
ImplementsOrderFate == Fate!Spec

=============================================================================
