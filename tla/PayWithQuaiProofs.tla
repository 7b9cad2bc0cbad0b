-------------------------- MODULE PayWithQuaiProofs --------------------------
(***************************************************************************)
(* Proofs about PayWithQuai, for every value of its constants.             *)
(***************************************************************************)
EXTENDS PayWithQuai, TLAPS

-----------------------------------------------------------------------------
(* The fee.                                                                *)

\* A fee at a rate of at most 100% is a natural number and at most the amount: the
\* contract's `amount - fee` never underflows.
LEMMA FeeBound ==
    ASSUME NEW amount \in Nat, NEW rate \in Nat, rate <= BpsDenominator
    PROVE  /\ Fee(amount, rate) \in Nat
           /\ Fee(amount, rate) <= amount
           /\ amount - Fee(amount, rate) \in Nat
<1> DEFINE d == BpsDenominator
           q == (amount * rate) \div d
<1>1. d \in Nat /\ d > 0
  BY ConstantsAssumption
<1>2. amount * rate \in Nat /\ amount * rate <= amount * d
  BY <1>1
<1>3. q \in Int /\ q >= 0 /\ q * d <= amount * rate
  <2> HIDE DEF d
  <2>1. \A n \in Nat : n \div d \in Int /\ n \div d >= 0 /\ (n \div d) * d <= n
    BY <1>1, Z3
  <2> QED  BY <2>1, <1>2
<1>4. q <= amount
  <2> HIDE DEF q, d
  <2>1. CASE q >= amount + 1
    <3>1. q * d >= (amount + 1) * d
      BY <2>1, <1>1, <1>3
    <3>2. (amount + 1) * d = amount * d + d
      BY <1>1
    <3> QED  BY <3>1, <3>2, <1>1, <1>2, <1>3
  <2> QED  BY <2>1, <1>3
<1> QED  BY <1>3, <1>4 DEF Fee

-----------------------------------------------------------------------------
(* Records.                                                                *)

LEMMA ConstantsTypes ==
    /\ Amounts \subseteq Nat
    /\ Rates \subseteq Nat
    /\ \A r \in Rates : r <= BpsDenominator
    /\ MaxTime \in Nat
    /\ MaxOrders \in Nat
    /\ PurgeDelay \in Nat
    /\ PurgeDelay > 0
<1>1. /\ Amounts \subseteq Nat
      /\ FeeRates \subseteq Nat
      /\ MaxFeeBps \in Nat
      /\ BpsDenominator \in Nat
      /\ MaxFeeBps <= BpsDenominator
      /\ MaxTime \in Nat
      /\ MaxOrders \in Nat
      /\ PurgeDelay \in Nat \ {0}
  BY ConstantsAssumption
<1>2. ASSUME NEW r \in Rates
      PROVE  r \in Nat /\ r <= BpsDenominator
  <2>1. r \in Nat /\ r <= MaxFeeBps
    BY <1>1 DEF Rates
  <2> QED  BY <1>1, <2>1
<1> QED  BY <1>1, <1>2

\* What paying an order changes of its record.
LEMMA SettledOrder ==
    ASSUME NEW o \in Orders, NEW t \in 0..MaxTime
    PROVE  /\ Settled(o, t) \in Orders
           /\ Settled(o, t).settled = TRUE
           /\ Settled(o, t).settledAt = t
           /\ Settled(o, t).exists = TRUE
           /\ Settled(o, t).merchant = o.merchant
           /\ Settled(o, t).token = o.token
           /\ Settled(o, t).amount = o.amount
           /\ Settled(o, t).expiry = o.expiry
           /\ Settled(o, t).feeBps = o.feeBps
           /\ Settled(o, t).feeRecipient = o.feeRecipient
           /\ Settled(o, t).expectedPayer = o.expectedPayer
           /\ Settled(o, t).nonce = o.nonce
<1>1. TRUE \in BOOLEAN
  OBVIOUS
<1> QED  BY <1>1, Zenon DEF Settled, Orders

\* What the second transfer changes of the payment in progress.
LEMMA NetPhaseCall ==
    ASSUME NEW c \in Calls, NEW w \in Merchants \cup {ZeroAddress}
    PROVE  /\ NetPhase(c, w) \in Calls
           /\ NetPhase(c, w).phase = "net"
           /\ NetPhase(c, w).netTo = w
           /\ NetPhase(c, w).key = c.key
           /\ NetPhase(c, w).payer = c.payer
           /\ NetPhase(c, w).token = c.token
           /\ NetPhase(c, w).amount = c.amount
           /\ NetPhase(c, w).fee = c.fee
           /\ NetPhase(c, w).net = c.net
           /\ NetPhase(c, w).feeTo = c.feeTo
           /\ NetPhase(c, w).signed = c.signed
           /\ NetPhase(c, w).nonce = c.nonce
<1>1. "net" \in {"fee", "net"}
  OBVIOUS
<1> QED  BY <1>1, Zenon DEF NetPhase, Calls

-----------------------------------------------------------------------------
(* Types.                                                                  *)

\* A sequence drawn by BoundedSeq is a sequence.
LEMMA BatchIsSeq ==
    ASSUME NEW ids \in Batches
    PROVE  ids \in Seq(OrderIds) /\ Len(ids) > 0
BY ConstantsAssumption DEF Batches, BoundedSeq, SeqOf

\* A registration keeps the types: what it adds to the log are terms, what it writes
\* to the slots are orders.
LEMMA RegisterAllType ==
    ASSUME TypeOK, NEW m \in Merchants, NEW ids \in Seq(OrderIds),
           NEW token \in Currencies, NEW amount \in Amounts,
           NEW expiry \in Expiries, NEW payer \in PayerOrAnyone,
           Len(ids) > 0,
           RegisterAll(m, ids, token, amount, expiry, payer)
    PROVE  TypeOK'
<1> DEFINE terms(id) == [orderId |-> id, token |-> token, amount |-> amount,
                         expiry |-> expiry, feeBps |-> config.feeBps,
                         feeRecipient |-> config.feeRecipient,
                         expectedPayer |-> payer]
           entries == [i \in DOMAIN ids |-> terms(ids[i])]
<1>1. config \in Configs /\ orderNonces \in [Merchants -> 0..MaxOrders]
      /\ registered \in [Merchants -> Seq(Terms)]
      /\ orders \in [Keys -> Orders \cup {EmptyOrder}]
  BY DEF TypeOK, StorageOK, Snapshot
<1>2. \A id \in OrderIds : terms(id) \in Terms
  BY <1>1 DEF Terms, TermsAt, Configs
<1>3. entries \in Seq(Terms)
  BY <1>2
<1>4. registered' \in [Merchants -> Seq(Terms)]
  <2>1. registered' = [registered EXCEPT ![m] = @ \o entries]
    BY DEF RegisterAll
  <2>2. registered[m] \o entries \in Seq(Terms)
    BY <1>1, <1>3
  <2> QED  BY <2>1, <2>2, <1>1
<1>5. orderNonces' \in [Merchants -> 0..MaxOrders]
  BY <1>1, ConstantsAssumption DEF RegisterAll
<1>6. orders' \in [Keys -> Orders \cup {EmptyOrder}]
  <2>1. \A id \in OrderIds, i \in DOMAIN ids :
          OrderFor(m, terms(id), NonceFor(m, i), FALSE, 0) \in Orders
    <3> SUFFICES ASSUME NEW id \in OrderIds, NEW i \in DOMAIN ids
                 PROVE  OrderFor(m, terms(id), NonceFor(m, i), FALSE, 0) \in Orders
      OBVIOUS
    <3>1. NonceFor(m, i) \in 1..MaxOrders
      BY <1>1, ConstantsAssumption DEF RegisterAll, NonceFor
    <3>2. 0 \in 0..MaxTime
      BY ConstantsAssumption
    <3> QED  BY <3>1, <3>2, <1>2 DEF OrderFor, Orders, Terms, TermsAt
  <2>2. ASSUME NEW k \in Keys
        PROVE  orders'[k] \in Orders \cup {EmptyOrder}
    <3>1. CASE k[1] = m /\ \E i \in DOMAIN ids : ids[i] = k[2]
      <4> DEFINE i == CHOOSE j \in DOMAIN ids : ids[j] = k[2]
      <4>1. i \in DOMAIN ids /\ ids[i] \in OrderIds
        BY <3>1
      <4>2. orders'[k] = OrderFor(m, terms(ids[i]), NonceFor(m, i), FALSE, 0)
        BY <3>1 DEF RegisterAll
      <4> QED  BY <4>1, <4>2, <2>1
    <3>2. CASE ~(k[1] = m /\ \E i \in DOMAIN ids : ids[i] = k[2])
      <4>1. orders'[k] = orders[k]
        BY <3>2 DEF RegisterAll
      <4> QED  BY <4>1, <1>1
    <3> QED  BY <3>1, <3>2
  <2> QED  BY <2>2 DEF RegisterAll
<1> QED
  BY <1>4, <1>5, <1>6 DEF RegisterAll, TypeOK, StorageOK, Snapshot, Idle

\* Freeing a slot keeps the types.
LEMMA DeleteOrderType ==
    ASSUME TypeOK, NEW k \in Keys, DeleteOrder(k)
    PROVE  TypeOK'
BY DEF DeleteOrder, TypeOK, StorageOK, Snapshot, Idle

\* A change of the configuration keeps the types.
LEMMA ConfigureType ==
    ASSUME TypeOK, NEW c \in Configs, Configure(c)
    PROVE  TypeOK'
BY ConstantsAssumption DEF Configure, TypeOK, StorageOK, Snapshot, Idle

\* The start of a payment on well-typed terms: a well-typed call, whose transfers add
\* up to the amount.
LEMMA BeginTransfersType ==
    ASSUME TypeOK, NEW c, BeginTransfers(c),
           c.key \in Keys, c.payer \in Payers, c.token \in Currencies,
           c.amount \in Amounts, c.feeBps \in Rates,
           c.feeRecipient \in FeeWallets, c.merchant \in Merchants,
           c.signed \in BOOLEAN, c.nonce \in 0..MaxOrders
    PROVE  /\ call' \in Calls
           /\ call' # NoCall
           /\ balance' \in Nat
           /\ saved' = Snapshot
           /\ call'.key = c.key
           /\ call'.payer = c.payer
           /\ call'.token = c.token
           /\ call'.amount = c.amount
           /\ call'.fee = Fee(c.amount, c.feeBps)
           /\ call'.net = c.amount - call'.fee
           /\ call'.phase = "fee" => call'.fee > 0
           /\ call'.fee > 0 => call'.feeTo = c.feeRecipient
           /\ call'.phase = "net" => call'.netTo = c.merchant
           /\ call'.signed = c.signed
           /\ call'.nonce = c.nonce
           /\ balance' = IF c.token = Native /\ call'.phase = "fee"
                         THEN balance + call'.net ELSE balance
<1> DEFINE fee == Fee(c.amount, c.feeBps)
           net == Net(c.amount, fee)
<1>1. fee \in Nat /\ net \in Nat /\ fee <= c.amount /\ c.amount \in Nat
  <2>1. c.amount \in Nat /\ c.feeBps \in Nat /\ c.feeBps <= BpsDenominator
    BY ConstantsTypes
  <2> QED  BY <2>1, FeeBound DEF Net
<1>2. net = c.amount - fee
  BY DEF Net
<1> HIDE DEF fee, net
<1>3. balance \in Nat
  BY DEF TypeOK, StorageOK, Snapshot
<1>4. /\ call' = [phase |-> IF fee > 0 THEN "fee" ELSE "net", key |-> c.key,
                  payer |-> c.payer, token |-> c.token, amount |-> c.amount,
                  fee |-> fee, net |-> net,
                  feeTo |-> IF fee > 0 THEN c.feeRecipient ELSE ZeroAddress,
                  netTo |-> IF fee > 0 THEN ZeroAddress ELSE c.merchant,
                  signed |-> c.signed, nonce |-> c.nonce]
      /\ balance' = IF c.token = Native
                    THEN (balance + c.amount) - (IF fee > 0 THEN fee ELSE net)
                    ELSE balance
      /\ saved' = Snapshot
  BY DEF BeginTransfers, fee, net
<1>5. call' \in Calls
  BY <1>1, <1>4 DEF Calls
<1>6. balance' \in Nat
  BY <1>1, <1>2, <1>3, <1>4
<1>7. /\ call'.fee = Fee(c.amount, c.feeBps)
      /\ call'.net = c.amount - call'.fee
  BY <1>2, <1>4 DEF fee
<1>8. balance' = IF c.token = Native /\ call'.phase = "fee"
                 THEN balance + call'.net ELSE balance
  BY <1>1, <1>2, <1>3, <1>4
<1>9. /\ call'.phase = "fee" => call'.fee > 0
      /\ call'.fee > 0 => call'.feeTo = c.feeRecipient
      /\ call'.phase = "net" => call'.netTo = c.merchant
  BY <1>1, <1>4
<1> QED  BY <1>4, <1>5, <1>6, <1>7, <1>8, <1>9 DEF NoCall

\* The payment of an order on record keeps the types.
LEMMA PayRegisteredType ==
    ASSUME TypeOK, NEW p \in Payers, NEW m \in Merchants, NEW id \in OrderIds,
           PayRegistered(p, m, id)
    PROVE  TypeOK'
<1> DEFINE o == orders[<<m, id>>]
           c == [key |-> <<m, id>>, payer |-> p, token |-> o.token,
                 amount |-> o.amount, feeBps |-> o.feeBps,
                 feeRecipient |-> o.feeRecipient, merchant |-> o.merchant,
                 signed |-> FALSE, nonce |-> 0]
<1>1. StorageOK(Snapshot) /\ now \in 1..MaxTime /\ adminCalls \in 0..MaxAdmin
  BY DEF TypeOK
<1>2. <<m, id>> \in Keys
  BY DEF Keys
<1>3. o \in Orders
  <2>1. o \in Orders \cup {EmptyOrder}
    BY <1>1, <1>2 DEF StorageOK, Snapshot
  <2> QED  BY <2>1 DEF PayRegistered, EmptyOrder
<1>4. /\ c.key \in Keys /\ c.payer \in Payers /\ c.token \in Currencies
      /\ c.amount \in Amounts /\ c.feeBps \in Rates
      /\ c.feeRecipient \in FeeWallets /\ c.merchant \in Merchants
      /\ c.signed \in BOOLEAN /\ c.nonce \in 0..MaxOrders
  <2>1. /\ o.token \in Currencies /\ o.amount \in Amounts /\ o.feeBps \in Rates
        /\ o.feeRecipient \in FeeWallets /\ o.merchant \in Merchants
    BY <1>3 DEF Orders
  <2>2. 0 \in 0..MaxOrders
    BY ConstantsTypes
  <2> QED  BY <1>2, <2>1, <2>2
<1>5. BeginTransfers(c)
  BY DEF PayRegistered
<1> HIDE DEF c
<1>6. call' \in Calls /\ call' # NoCall /\ balance' \in Nat /\ saved' = Snapshot
  BY <1>4, <1>5, BeginTransfersType
<1>7. orders' \in [Keys -> Orders \cup {EmptyOrder}]
  <2>1. orders' = [orders EXCEPT ![<<m, id>>] = Settled(o, now)]
    BY DEF PayRegistered
  <2>2. Settled(o, now) \in Orders
    <3>1. now \in 0..MaxTime
      BY <1>1
    <3> QED  BY <1>3, <3>1, SettledOrder
  <2> QED  BY <1>1, <1>2, <2>1, <2>2 DEF StorageOK, Snapshot
<1>8. StorageOK(Snapshot)'
  BY <1>1, <1>6, <1>7 DEF PayRegistered, StorageOK, Snapshot
<1> QED
  BY <1>1, <1>6, <1>8 DEF PayRegistered, TypeOK, Idle

\* The payment of a signed order keeps the types.
LEMMA PaySignedOrderType ==
    ASSUME TypeOK, NEW p \in Payers, NEW s \in Signers, NEW m \in Merchants,
           NEW t \in SignedOrders, PaySignedOrder(p, s, m, t)
    PROVE  TypeOK'
<1> DEFINE n == NonceFor(m, 1)
           c == [key |-> <<m, t.orderId>>, payer |-> p, token |-> t.token,
                 amount |-> t.amount, feeBps |-> t.feeBps,
                 feeRecipient |-> t.feeRecipient, merchant |-> m,
                 signed |-> TRUE, nonce |-> n]
<1>1. StorageOK(Snapshot) /\ now \in 1..MaxTime /\ adminCalls \in 0..MaxAdmin
  BY DEF TypeOK
<1>2. t \in Terms /\ <<m, t.orderId>> \in Keys
  BY DEF SignedOrders, Terms, TermsAt, Rates, PaySignedOrder, Keys
<1>3. n \in 1..MaxOrders /\ orderNonces[m] + 1 \in 0..MaxOrders
  BY <1>1, ConstantsAssumption DEF NonceFor, PaySignedOrder, StorageOK, Snapshot
<1>4. /\ c.key \in Keys /\ c.payer \in Payers /\ c.token \in Currencies
      /\ c.amount \in Amounts /\ c.feeBps \in Rates
      /\ c.feeRecipient \in FeeWallets /\ c.merchant \in Merchants
      /\ c.signed \in BOOLEAN /\ c.nonce \in 0..MaxOrders
  BY <1>2, <1>3 DEF Terms, TermsAt
<1>5. BeginTransfers(c)
  BY DEF PaySignedOrder
<1> HIDE DEF c
<1>6. call' \in Calls /\ call' # NoCall /\ balance' \in Nat /\ saved' = Snapshot
  BY <1>4, <1>5, BeginTransfersType
<1>7. orders' \in [Keys -> Orders \cup {EmptyOrder}]
  <2>1. OrderFor(m, t, n, TRUE, now) \in Orders
    BY <1>1, <1>2, <1>3 DEF OrderFor, Orders, Terms, TermsAt
  <2> QED  BY <1>1, <1>2, <2>1 DEF PaySignedOrder, StorageOK, Snapshot
<1>8. /\ orderNonces' \in [Merchants -> 0..MaxOrders]
      /\ registered' \in [Merchants -> Seq(Terms)]
  BY <1>1, <1>2, <1>3 DEF PaySignedOrder, StorageOK, Snapshot
<1>9. StorageOK(Snapshot)'
  BY <1>1, <1>6, <1>7, <1>8 DEF PaySignedOrder, StorageOK, Snapshot
<1> QED
  BY <1>1, <1>6, <1>9 DEF PaySignedOrder, TypeOK, Idle

\* Whom and what the rest of a payment in progress would go to now.
LEMMA PayeeAndNonceType ==
    ASSUME TypeOK, ~Idle
    PROVE  /\ call \in Calls
           /\ PayeeNow \in Merchants \cup {ZeroAddress}
           /\ NonceNow \in 0..MaxOrders
<1>1. call \in Calls
  BY DEF TypeOK, Idle
<1>2. call.key \in Keys /\ call.key[1] \in Merchants /\ call.nonce \in 0..MaxOrders
  BY <1>1 DEF Calls, Keys
<1>3. orders[call.key] \in Orders \cup {EmptyOrder}
  BY <1>2 DEF TypeOK, StorageOK, Snapshot
<1>4. /\ orders[call.key].merchant \in Merchants \cup {ZeroAddress}
      /\ orders[call.key].nonce \in 0..MaxOrders
  <2>1. ASSUME NEW o \in Orders
        PROVE  o.merchant \in Merchants /\ o.nonce \in 1..MaxOrders
    BY DEF Orders
  <2>2. EmptyOrder.merchant = ZeroAddress /\ EmptyOrder.nonce = 0
    BY DEF EmptyOrder
  <2>3. 0 \in 0..MaxOrders /\ 1..MaxOrders \subseteq 0..MaxOrders
    BY ConstantsTypes
  <2> QED  BY <1>3, <2>1, <2>2, <2>3
<1> QED  BY <1>1, <1>2, <1>4 DEF PayeeNow, NonceNow

\* The later steps of a payment keep the types.
LEMMA TransferNetType ==
    ASSUME TypeOK, TransferNet
    PROVE  TypeOK'
<1>1. StorageOK(Snapshot) /\ ~Idle
  BY DEF TypeOK, TransferNet, NoCall, Idle
<1>2. call \in Calls /\ PayeeNow \in Merchants \cup {ZeroAddress}
  BY <1>1, PayeeAndNonceType
<1>3. call' \in Calls /\ call'.phase = "net"
  BY <1>2, NetPhaseCall DEF TransferNet
<1>4. balance' \in Nat
  BY <1>1, <1>2 DEF TransferNet, Calls, StorageOK, Snapshot
<1>5. ~Idle'
  BY <1>3 DEF Idle, NoCall
<1> QED
  BY <1>1, <1>3, <1>4, <1>5 DEF TransferNet, TypeOK, StorageOK, Snapshot

LEMMA FinishPaymentType ==
    ASSUME TypeOK, FinishPayment
    PROVE  TypeOK'
<1>1. StorageOK(Snapshot) /\ ~Idle /\ now \in 1..MaxTime
  BY DEF TypeOK, FinishPayment, NoCall, Idle
<1>2. /\ call \in Calls
      /\ PayeeNow \in Merchants \cup {ZeroAddress}
      /\ NonceNow \in 0..MaxOrders
  BY <1>1, PayeeAndNonceType
<1>3. settlements' \in Seq(Settlements)
  <2> DEFINE e == [merchant |-> PayeeNow, orderId |-> call.key[2], nonce |-> NonceNow,
             payer |-> call.payer, token |-> call.token, amount |-> call.amount,
             fee |-> call.fee, net |-> call.net, timestamp |-> now,
             feeTo |-> call.feeTo, netTo |-> call.netTo]
  <2>1. e \in Settlements
    BY <1>1, <1>2 DEF Settlements, Calls, Keys
  <2>2. settlements' = Append(settlements, e)
    BY DEF FinishPayment
  <2> QED  BY <1>1, <2>1, <2>2 DEF StorageOK, Snapshot
<1> QED
  BY <1>1, <1>3 DEF FinishPayment, TypeOK, StorageOK, Snapshot, Idle

LEMMA RevertPaymentType ==
    ASSUME TypeOK, RevertPayment
    PROVE  TypeOK'
BY DEF RevertPayment, TypeOK, StorageOK, Snapshot, Idle

\* The administrative calls keep the types.
LEMMA AdminType ==
    ASSUME TypeOK, AdminStep
    PROVE  TypeOK'
<1>1. config \in Configs
  BY DEF TypeOK, StorageOK, Snapshot
<1>2. TRUE \in BOOLEAN /\ FALSE \in BOOLEAN
  OBVIOUS
<1>3. ASSUME NEW r \in FeeRates, NEW w \in FeeWallets, SetFeeConfig(r, w)
      PROVE  TypeOK'
  <2>1. r \in Rates
    BY <1>3 DEF SetFeeConfig, Rates
  <2>2. [config EXCEPT !.feeBps = r, !.feeRecipient = w] \in Configs
    BY <1>1, <2>1, Zenon DEF Configs
  <2> QED  BY <1>3, <2>2, ConfigureType DEF SetFeeConfig
<1>4. ASSUME NEW t \in Currencies, NEW b \in BOOLEAN, SetTokenAccepted(t, b)
      PROVE  TypeOK'
  <2> DEFINE s == IF b THEN config.acceptedToken \cup {t} ELSE config.acceptedToken \ {t}
  <2>1. s \in SUBSET Currencies
    BY <1>1 DEF Configs
  <2>2. [config EXCEPT !.acceptedToken = s] \in Configs
    <3> HIDE DEF s
    <3> QED  BY <1>1, <2>1, Zenon DEF Configs
  <2> QED  BY <1>4, <2>2, ConfigureType DEF SetTokenAccepted
<1>5. ASSUME NEW r \in Relayers, NEW b \in BOOLEAN, SetRelayer(r, b)
      PROVE  TypeOK'
  <2> DEFINE s == IF b THEN config.relayers \cup {r} ELSE config.relayers \ {r}
  <2>1. s \in SUBSET Relayers
    BY <1>1 DEF Configs
  <2>2. [config EXCEPT !.relayers = s] \in Configs
    <3> HIDE DEF s
    <3> QED  BY <1>1, <2>1, Zenon DEF Configs
  <2> QED  BY <1>5, <2>2, ConfigureType DEF SetRelayer
<1>6. ASSUME NEW k \in Signers, NEW b \in BOOLEAN, SetSigner(k, b)
      PROVE  TypeOK'
  <2> DEFINE s == IF b THEN config.signers \cup {k} ELSE config.signers \ {k}
  <2>1. s \in SUBSET Signers
    BY <1>1 DEF Configs
  <2>2. [config EXCEPT !.signers = s] \in Configs
    <3> HIDE DEF s
    <3> QED  BY <1>1, <2>1, Zenon DEF Configs
  <2> QED  BY <1>6, <2>2, ConfigureType DEF SetSigner
<1>7. ASSUME InitializeSigning
      PROVE  TypeOK'
  <2>1. [config EXCEPT !.signingReady = TRUE] \in Configs
    BY <1>1, <1>2, Zenon DEF Configs
  <2> QED  BY <1>7, <2>1, ConfigureType DEF InitializeSigning
<1>8. ASSUME NEW g \in Guardians \cup {ZeroAddress}, SetPauseGuardian(g)
      PROVE  TypeOK'
  <2>1. [config EXCEPT !.pauseGuardian = g] \in Configs
    BY <1>1, Zenon DEF Configs
  <2> QED  BY <1>8, <2>1, ConfigureType DEF SetPauseGuardian
<1>9. ASSUME NEW c \in Guardians \cup {Owner}, Pause(c)
      PROVE  TypeOK'
  <2>1. [config EXCEPT !.paused = TRUE] \in Configs
    BY <1>1, <1>2, Zenon DEF Configs
  <2> QED  BY <1>9, <2>1, ConfigureType DEF Pause
<1>10. ASSUME Unpause
       PROVE  TypeOK'
  <2>1. [config EXCEPT !.paused = FALSE] \in Configs
    BY <1>1, <1>2, Zenon DEF Configs
  <2> QED  BY <1>10, <2>1, ConfigureType DEF Unpause
<1>11. ASSUME NEW a, RescueTokens(a)
       PROVE  TypeOK'
  <2>1. a \in Nat /\ balance' \in Nat /\ stray' \in Int /\ adminCalls' \in 0..MaxAdmin
    BY <1>11, ConstantsAssumption DEF RescueTokens, TypeOK, StorageOK, Snapshot
  <2> QED  BY <1>11, <2>1 DEF RescueTokens, TypeOK, StorageOK, Snapshot, Idle
<1> QED
  BY <1>3, <1>4, <1>5, <1>6, <1>7, <1>8, <1>9, <1>10, <1>11 DEF AdminStep

\* Every step keeps the types.
LEMMA TypeStep ==
    ASSUME TypeOK, [Next]_vars
    PROVE  TypeOK'
<1>1. ASSUME NEW m \in Merchants, MerchantStep(m)
      PROVE  TypeOK'
  <2>1. ASSUME NEW id \in OrderIds, NEW t \in Currencies, NEW a \in Amounts,
               NEW e \in Expiries, NEW p \in PayerOrAnyone,
               RegisterOrder(m, id, t, a, e, p)
        PROVE  TypeOK'
    <3>1. <<id>> \in Seq(OrderIds) /\ Len(<<id>>) > 0
      OBVIOUS
    <3> QED  BY <2>1, <3>1, RegisterAllType DEF RegisterOrder
  <2>2. ASSUME NEW ids \in Batches, NEW t \in Currencies, NEW a \in Amounts,
               NEW e \in Expiries, RegisterOrderBatch(m, ids, t, a, e)
        PROVE  TypeOK'
    <3>1. ZeroAddress \in PayerOrAnyone
      BY DEF PayerOrAnyone
    <3> QED  BY <2>2, <3>1, BatchIsSeq, RegisterAllType DEF RegisterOrderBatch
  <2>3. ASSUME NEW r \in Relayers, NEW id \in OrderIds, NEW t \in Currencies,
               NEW a \in Amounts, NEW e \in Expiries,
               RegisterOrderFor(r, m, id, t, a, e)
        PROVE  TypeOK'
    <3>1. <<id>> \in Seq(OrderIds) /\ Len(<<id>>) > 0 /\ ZeroAddress \in PayerOrAnyone
      BY DEF PayerOrAnyone
    <3> QED  BY <2>3, <3>1, RegisterAllType DEF RegisterOrderFor
  <2>4. ASSUME NEW id \in OrderIds, CancelOrder(m, id) \/ PurgeSettledOrder(m, id)
        PROVE  TypeOK'
    <3>1. <<m, id>> \in Keys
      BY DEF Keys
    <3> QED  BY <2>4, <3>1, DeleteOrderType DEF CancelOrder, PurgeSettledOrder
  <2> QED  BY <1>1, <2>1, <2>2, <2>3, <2>4 DEF MerchantStep
<1>2. ASSUME PaymentStep
      PROVE  TypeOK'
  BY <1>2, PayRegisteredType, PaySignedOrderType, TransferNetType,
     FinishPaymentType, RevertPaymentType
     DEF PaymentStep, PayOrder, PayOrderNative
<1>3. ASSUME NEW a \in {1} \cup Amounts, ForceFunds(a)
      PROVE  TypeOK'
  <2>1. a \in Nat
    BY ConstantsTypes
  <2>2. /\ balance' = balance + a
        /\ stray' = stray + a
        /\ adminCalls' = adminCalls + 1 /\ adminCalls < MaxAdmin
    BY <1>3 DEF ForceFunds
  <2>3. balance \in Nat /\ stray \in Int /\ adminCalls \in 0..MaxAdmin /\ MaxAdmin \in Nat
    BY ConstantsAssumption DEF TypeOK, StorageOK, Snapshot
  <2>4. balance' \in Nat /\ stray' \in Int /\ adminCalls' \in 0..MaxAdmin
    BY <2>1, <2>2, <2>3
  <2> QED  BY <1>3, <2>4 DEF ForceFunds, TypeOK, StorageOK, Snapshot, Idle
<1>4. ASSUME Tick
      PROVE  TypeOK'
  BY <1>4, ConstantsTypes DEF Tick, TypeOK, StorageOK, Snapshot, Idle, storage
<1>5. ASSUME UNCHANGED vars
      PROVE  TypeOK'
  BY <1>5 DEF vars, storage, TypeOK, StorageOK, Snapshot, Idle
<1> QED
  BY <1>1, <1>2, <1>3, <1>4, <1>5, AdminType DEF Next

LEMMA TypeInit == Init => TypeOK
<1> SUFFICES ASSUME Init PROVE TypeOK
  OBVIOUS
<1>1. now \in 1..MaxTime /\ adminCalls \in 0..MaxAdmin /\ 0 \in 0..MaxOrders
  BY ConstantsAssumption DEF Init
<1>2. config \in Configs
  BY ConstantsAssumption DEF Init
<1> QED  BY <1>1, <1>2 DEF Init, TypeOK, StorageOK, Snapshot, Idle

\* The variables always hold values of their types: no payment, nested call or
\* revert leaves a half-written order or a negative balance, whatever the constants.
THEOREM TypeCorrect == Spec => []TypeOK
<1>1. TypeOK /\ [Next]_vars => TypeOK'
  BY TypeStep
<1> QED  BY TypeInit, <1>1, PTL DEF Spec

-----------------------------------------------------------------------------
(* The inductive invariant.                                                *)

\* The types of the storage, as the proofs below use them.
LEMMA StorageTypes ==
    ASSUME TypeOK
    PROVE  /\ now \in Nat
           /\ orders \in [Keys -> Orders \cup {EmptyOrder}]
           /\ orderNonces \in [Merchants -> Nat]
           /\ registered \in [Merchants -> Seq(Terms)]
           /\ settlements \in Seq(Settlements)
           /\ balance \in Nat
           /\ stray \in Int
BY DEF TypeOK, StorageOK, Snapshot

\* A slot holds an order exactly when its record says so.
LEMMA SlotTypes ==
    ASSUME TypeOK, NEW k \in Keys
    PROVE  /\ orders[k].exists => orders[k] \in Orders
           /\ ~orders[k].exists => orders[k] = EmptyOrder
           /\ orders[k].settled => orders[k].exists
<1>1. orders[k] \in Orders \cup {EmptyOrder}
  BY StorageTypes
<1>2. CASE orders[k] \in Orders
  BY <1>2 DEF Orders
<1>3. CASE orders[k] = EmptyOrder
  BY <1>3 DEF EmptyOrder
<1> QED  BY <1>1, <1>2, <1>3

\* Only the orders and the logs matter to the order of a storage.
LEMMA SameOrdersAndLogs ==
    ASSUME NEW s, NEW r, NEW t,
           StorageInv(s, t),
           r.orders = s.orders,
           r.orderNonces = s.orderNonces,
           r.registered = s.registered,
           r.settlements = s.settlements
    PROVE  StorageInv(r, t)
<1>1. OrdersOnRecord(r)
  <2>1. \A m, id, o : OnRecord(s, m, id, o) => OnRecord(r, m, id, o)
    BY DEF OnRecord
  <2> QED  BY <2>1 DEF StorageInv, OrdersOnRecord
<1>2. OpenIsUnpaid(r)
  BY DEF StorageInv, OpenIsUnpaid, PaidFor
<1>3. LogOK(r, t)
  BY DEF StorageInv, LogOK
<1> QED  BY <1>1, <1>2, <1>3 DEF StorageInv

\* A step that changes neither the orders nor the logs nor the time keeps the
\* storage in order, and so does one that leaves a snapshot as it is.
LEMMA StorageInvUnchanged ==
    ASSUME StorageInv(Snapshot, now),
           UNCHANGED <<now, orders, orderNonces, registered, settlements>>
    PROVE  StorageInv(Snapshot, now)'
<1>1. /\ Snapshot'.orders = Snapshot.orders
      /\ Snapshot'.orderNonces = Snapshot.orderNonces
      /\ Snapshot'.registered = Snapshot.registered
      /\ Snapshot'.settlements = Snapshot.settlements
  BY DEF Snapshot
<1> QED  BY <1>1, SameOrdersAndLogs

LEMMA SavedInvUnchanged ==
    ASSUME StorageInv(saved, now), UNCHANGED <<now, saved>>
    PROVE  StorageInv(saved, now)'
OBVIOUS

LEMMA CallInvUnchanged ==
    ASSUME CallInv, UNCHANGED <<now, settlements, call>>,
           orders'[<<call.key[1], call.key[2]>>] = orders[<<call.key[1], call.key[2]>>]
    PROVE  CallInv'
BY DEF CallInv, PaidFor, Snapshot, Fee

LEMMA InTransitUnchanged ==
    ASSUME UNCHANGED call
    PROVE  InTransit' = InTransit
BY DEF InTransit, Idle

\* The key of the payment in progress.
LEMMA CallKey ==
    ASSUME TypeOK, ~Idle
    PROVE  /\ call \in Calls
           /\ call.key[1] \in Merchants
           /\ call.key[2] \in OrderIds
           /\ <<call.key[1], call.key[2]>> = call.key
           /\ call.key \in Keys
BY DEF TypeOK, Idle, Calls, Keys

\* What two logs, one after the other, hold.
LEMMA ConcatFacts ==
    ASSUME NEW S, NEW u \in Seq(S), NEW v \in Seq(S)
    PROVE  /\ Len(u \o v) = Len(u) + Len(v)
           /\ Len(u) \in Nat /\ Len(v) \in Nat
           /\ DOMAIN u = 1..Len(u)
           /\ DOMAIN v = 1..Len(v)
           /\ DOMAIN (u \o v) = 1..(Len(u) + Len(v))
           /\ \A n \in 1..Len(u) : (u \o v)[n] = u[n]
           /\ \A n \in 1..Len(v) : (u \o v)[Len(u) + n] = v[n]
OBVIOUS

\* Registering orders keeps the invariant: the slots were free, and the nonces are
\* new.
LEMMA RegisterAllInv ==
    ASSUME TypeOK, PaymentInv, NEW m \in Merchants, NEW ids \in Seq(OrderIds),
           NEW token \in Currencies, NEW amount \in Amounts,
           NEW expiry \in Expiries, NEW payer \in PayerOrAnyone,
           RegisterAll(m, ids, token, amount, expiry, payer)
    PROVE  PaymentInv'
<1> DEFINE terms(id) == [orderId |-> id, token |-> token, amount |-> amount,
                         expiry |-> expiry, feeBps |-> config.feeBps,
                         feeRecipient |-> config.feeRecipient,
                         expectedPayer |-> payer]
           entries == [i \in DOMAIN ids |-> terms(ids[i])]
           new(k) == k[1] = m /\ \E i \in DOMAIN ids : ids[i] = k[2]
<1>1. OrdersOnRecord(Snapshot) /\ OpenIsUnpaid(Snapshot) /\ LogOK(Snapshot, now)
  BY DEF PaymentInv, StorageInv
<1>2. /\ registered \in [Merchants -> Seq(Terms)]
      /\ orderNonces \in [Merchants -> Nat]
      /\ orderNonces[m] = Len(registered[m])
  BY <1>1, StorageTypes DEF OrdersOnRecord, Snapshot
<1>3. UNCHANGED <<now, config, balance, settlements, stray, call, saved>>
  BY DEF RegisterAll
<1>4. registered' = [registered EXCEPT ![m] = @ \o entries]
  BY DEF RegisterAll
<1>5. /\ \A m2 \in Merchants : m2 # m => registered'[m2] = registered[m2]
      /\ \A n \in DOMAIN registered[m] :
            n \in DOMAIN registered'[m] /\ registered'[m][n] = registered[m][n]
      /\ \A i \in DOMAIN ids :
            /\ Len(registered[m]) + i \in DOMAIN registered'[m]
            /\ registered'[m][Len(registered[m]) + i] = terms(ids[i])
      /\ Len(registered'[m]) = Len(registered[m]) + Len(ids)
  <2>1. \A i \in DOMAIN ids : terms(ids[i]) \in Terms
    BY StorageTypes DEF Terms, TermsAt, Configs, TypeOK, StorageOK, Snapshot
  <2>2. /\ entries \in Seq(Terms)
        /\ Len(entries) = Len(ids)
        /\ \A i \in DOMAIN ids : entries[i] = terms(ids[i])
    BY <2>1
  <2> HIDE DEF entries, terms
  <2>3. DOMAIN ids = 1..Len(ids)
    OBVIOUS
  <2>4. registered'[m] = registered[m] \o entries /\ registered[m] \in Seq(Terms)
    BY <1>2, <1>4
  <2>5. \A m2 \in Merchants : m2 # m => registered'[m2] = registered[m2]
    BY <1>2, <1>4
  <2>6. /\ Len(registered'[m]) = Len(registered[m]) + Len(ids)
        /\ DOMAIN registered[m] = 1..Len(registered[m])
        /\ DOMAIN registered'[m] = 1..(Len(registered[m]) + Len(ids))
        /\ Len(registered[m]) \in Nat /\ Len(ids) \in Nat
        /\ \A n \in 1..Len(registered[m]) : registered'[m][n] = registered[m][n]
        /\ \A i \in 1..Len(ids) :
              registered'[m][Len(registered[m]) + i] = entries[i]
    <3> DEFINE u == registered[m]
    <3> HIDE DEF u
    <3>1. u \in Seq(Terms) /\ registered'[m] = u \o entries
      BY <2>4 DEF u
    <3>2. /\ Len(u \o entries) = Len(u) + Len(entries)
          /\ Len(u) \in Nat /\ Len(entries) \in Nat
      BY <3>1, <2>2, ConcatFacts
    <3>3. /\ DOMAIN u = 1..Len(u)
          /\ DOMAIN (u \o entries) = 1..(Len(u) + Len(entries))
      <4>1. entries \in Seq(Terms)
        BY <2>2
      <4> HIDE DEF entries
      <4>2. u \o entries \in Seq(Terms)
        BY <3>1, <4>1
      <4> QED  BY <3>1, <3>2, <4>1, <4>2
    <3>4. \A n \in 1..Len(u) : (u \o entries)[n] = u[n]
      BY <3>1, <2>2, ConcatFacts
    <3>5. \A n \in 1..Len(entries) : (u \o entries)[Len(u) + n] = entries[n]
      BY <3>1, <2>2, ConcatFacts
    <3> QED  BY <3>1, <3>2, <3>3, <3>4, <3>5, <2>2, Zenon DEF u
  <2>7. /\ \A n \in DOMAIN registered[m] : n \in DOMAIN registered'[m]
        /\ \A i \in DOMAIN ids : Len(registered[m]) + i \in DOMAIN registered'[m]
    BY <2>3, <2>6
  <2> QED  BY <2>2, <2>3, <2>5, <2>6, <2>7
<1> HIDE DEF entries
<1>6. \A k \in Keys :
        /\ ~new(k) => orders'[k] = orders[k]
        /\ new(k) => /\ ~orders[k].exists
                     /\ \E i \in DOMAIN ids :
                          /\ ids[i] = k[2]
                          /\ orders'[k] = OrderFor(m, terms(k[2]), NonceFor(m, i), FALSE, 0)
  <2> SUFFICES ASSUME NEW k \in Keys
               PROVE  /\ ~new(k) => orders'[k] = orders[k]
                      /\ new(k) => /\ ~orders[k].exists
                                   /\ \E i \in DOMAIN ids :
                                        /\ ids[i] = k[2]
                                        /\ orders'[k] = OrderFor(m, terms(k[2]), NonceFor(m, i), FALSE, 0)
    OBVIOUS
  <2>1. CASE new(k)
    <3> DEFINE i == CHOOSE j \in DOMAIN ids : ids[j] = k[2]
    <3>1. i \in DOMAIN ids /\ ids[i] = k[2]
      BY <2>1
    <3>2. orders'[k] = OrderFor(m, terms(ids[i]), NonceFor(m, i), FALSE, 0)
      BY <2>1 DEF RegisterAll
    <3>3. k = <<m, ids[i]>>
      BY <2>1, <3>1 DEF Keys
    <3>4. ~orders[<<m, ids[i]>>].exists
      BY <3>1 DEF RegisterAll
    <3> QED  BY <2>1, <3>1, <3>2, <3>3, <3>4
  <2>2. CASE ~new(k)
    BY <2>2 DEF RegisterAll
  <2> QED  BY <2>1, <2>2
<1>7. \A k \in Keys : orders[k].exists \/ orders[k].settled => orders'[k] = orders[k]
  BY <1>6, SlotTypes
<1>8. OrdersOnRecord(Snapshot)'
  <2>1. \A m2 \in Merchants : orderNonces'[m2] = Len(registered'[m2])
    BY <1>1, <1>2, <1>5 DEF RegisterAll, OrdersOnRecord, Snapshot
  <2>2. ASSUME NEW m2 \in Merchants, NEW id \in OrderIds, orders'[<<m2, id>>].exists
        PROVE  OnRecord(Snapshot, m2, id, orders[<<m2, id>>])'
    <3>1. <<m2, id>> \in Keys
      BY DEF Keys
    <3>2. CASE new(<<m2, id>>)
      <4>1. PICK i \in DOMAIN ids :
              /\ ids[i] = id
              /\ orders'[<<m2, id>>] = OrderFor(m, terms(id), NonceFor(m, i), FALSE, 0)
        BY <1>6, <3>1, <3>2
      <4>2. m2 = m /\ NonceFor(m, i) = Len(registered[m]) + i
        BY <3>2, <1>2 DEF NonceFor
      <4> DEFINE n == Len(registered[m]) + i
      <4>3. n \in DOMAIN registered'[m] /\ registered'[m][n] = terms(id)
        BY <4>1, <1>5
      <4>4. /\ orders'[<<m2, id>>].merchant = m
            /\ orders'[<<m2, id>>].nonce = n
            /\ orders'[<<m2, id>>].token = terms(id).token
            /\ orders'[<<m2, id>>].amount = terms(id).amount
            /\ orders'[<<m2, id>>].expiry = terms(id).expiry
            /\ orders'[<<m2, id>>].feeBps = terms(id).feeBps
            /\ orders'[<<m2, id>>].feeRecipient = terms(id).feeRecipient
            /\ orders'[<<m2, id>>].expectedPayer = terms(id).expectedPayer
            /\ terms(id).orderId = id
        BY <4>1, <4>2 DEF OrderFor
      <4> HIDE DEF n, terms
      <4> QED  BY <4>2, <4>3, <4>4 DEF OnRecord, Snapshot
    <3>3. CASE ~new(<<m2, id>>)
      <4>1. orders'[<<m2, id>>] = orders[<<m2, id>>]
        BY <1>6, <3>1, <3>3
      <4>2. OnRecord(Snapshot, m2, id, orders[<<m2, id>>])
        BY <2>2, <4>1, <1>1 DEF OrdersOnRecord, Snapshot
      <4> QED  BY <4>1, <4>2, <1>5 DEF OnRecord, Snapshot
    <3> QED  BY <3>2, <3>3
  <2> QED  BY <2>1, <2>2 DEF OrdersOnRecord, Snapshot
<1>9. OpenIsUnpaid(Snapshot)'
  <2> SUFFICES ASSUME NEW m2 \in Merchants, NEW id \in OrderIds,
                      orders'[<<m2, id>>].exists, ~orders'[<<m2, id>>].settled,
                      NEW j \in DOMAIN settlements,
                      settlements[j].merchant = m2,
                      settlements[j].nonce = orders'[<<m2, id>>].nonce
               PROVE  FALSE
    BY <1>3 DEF OpenIsUnpaid, PaidFor, Snapshot
  <2>1. <<m2, id>> \in Keys
    BY DEF Keys
  <2>2. settlements[j].nonce \in DOMAIN registered[m2]
    BY <1>1 DEF LogOK, Snapshot
  <2>3. CASE new(<<m2, id>>)
    <3>1. PICK i \in DOMAIN ids :
            orders'[<<m2, id>>] = OrderFor(m, terms(id), NonceFor(m, i), FALSE, 0)
      BY <1>6, <2>1, <2>3
    <3>2. m2 = m /\ settlements[j].nonce = Len(registered[m]) + i
      BY <2>3, <3>1, <1>2 DEF NonceFor, OrderFor
    <3> QED  BY <2>2, <3>2, <1>2
  <2>4. CASE ~new(<<m2, id>>)
    <3>1. orders'[<<m2, id>>] = orders[<<m2, id>>]
      BY <1>6, <2>1, <2>4
    <3> QED  BY <3>1, <1>1 DEF OpenIsUnpaid, PaidFor, Snapshot
  <2> QED  BY <2>3, <2>4
<1>10. LogOK(Snapshot, now)'
  <2>1. \A j \in DOMAIN settlements :
          LET e == settlements[j] IN
          /\ e.merchant \in Merchants
          /\ e.nonce \in DOMAIN registered'[e.merchant]
          /\ CarriesOut(e, registered'[e.merchant][e.nonce])
          /\ now < e.timestamp + PurgeDelay =>
                orders'[<<e.merchant, e.orderId>>] = orders[<<e.merchant, e.orderId>>]
    <3> SUFFICES ASSUME NEW j \in DOMAIN settlements
                 PROVE  LET e == settlements[j] IN
                        /\ e.merchant \in Merchants
                        /\ e.nonce \in DOMAIN registered'[e.merchant]
                        /\ CarriesOut(e, registered'[e.merchant][e.nonce])
                        /\ now < e.timestamp + PurgeDelay =>
                             orders'[<<e.merchant, e.orderId>>] = orders[<<e.merchant, e.orderId>>]
      OBVIOUS
    <3> DEFINE e == settlements[j]
    <3>1. e.orderId \in OrderIds
      <4>1. e \in Settlements
        BY StorageTypes
      <4> QED  BY <4>1 DEF Settlements
    <3>2. /\ e.merchant \in Merchants
          /\ e.nonce \in DOMAIN registered[e.merchant]
          /\ CarriesOut(e, registered[e.merchant][e.nonce])
          /\ now < e.timestamp + PurgeDelay => orders[<<e.merchant, e.orderId>>].settled
      BY <1>1 DEF LogOK, Snapshot
    <3>3. /\ e.nonce \in DOMAIN registered'[e.merchant]
          /\ registered'[e.merchant][e.nonce] = registered[e.merchant][e.nonce]
      BY <3>2, <1>5
    <3> QED  BY <3>1, <3>2, <3>3, <1>7 DEF Keys
  <2> QED  BY <2>1, <1>1, <1>3 DEF LogOK, Snapshot
<1>11. FundsPassThrough'
  BY <1>3, InTransitUnchanged DEF PaymentInv, FundsPassThrough
<1>12. ASSUME ~Idle'
       PROVE  CallInv' /\ StorageInv(saved, now)' /\ (saved.balance = saved.stray)'
  <2>1. ~Idle /\ CallInv /\ StorageInv(saved, now) /\ saved.balance = saved.stray
    BY <1>3, <1>12 DEF PaymentInv, Idle
  <2>2. orders'[<<call.key[1], call.key[2]>>] = orders[<<call.key[1], call.key[2]>>]
    BY <2>1, <1>7, CallKey DEF CallInv
  <2> QED  BY <2>1, <2>2, <1>3, CallInvUnchanged, SavedInvUnchanged
<1> QED
  BY <1>8, <1>9, <1>10, <1>11, <1>12 DEF PaymentInv, StorageInv

\* Freeing a slot keeps the invariant, when the order in it is unpaid or was paid at
\* least PURGE_DELAY ago.
LEMMA DeleteOrderInv ==
    ASSUME TypeOK, PaymentInv, NEW k \in Keys, DeleteOrder(k), orders[k].exists,
           orders[k].settled => now >= orders[k].settledAt + PurgeDelay
    PROVE  PaymentInv'
<1>1. OrdersOnRecord(Snapshot) /\ OpenIsUnpaid(Snapshot) /\ LogOK(Snapshot, now)
  BY DEF PaymentInv, StorageInv
<1>2. UNCHANGED <<now, orderNonces, config, balance, registered, settlements,
                  stray, call, saved>>
  BY DEF DeleteOrder
<1>3. /\ orders' = [orders EXCEPT ![k] = EmptyOrder]
      /\ orders \in [Keys -> Orders \cup {EmptyOrder}]
  BY StorageTypes DEF DeleteOrder
<1>4. \A j \in Keys : orders'[j] = IF j = k THEN EmptyOrder ELSE orders[j]
  BY <1>3
<1>5. ~EmptyOrder.exists
  BY DEF EmptyOrder
<1>6. \A m \in Merchants, id \in OrderIds : <<m, id>> \in Keys
  BY DEF Keys
<1>7. \A m \in Merchants, id \in OrderIds :
        orders'[<<m, id>>].exists => orders'[<<m, id>>] = orders[<<m, id>>]
  BY <1>4, <1>5, <1>6
<1>8. OrdersOnRecord(Snapshot)'
  BY <1>1, <1>2, <1>7 DEF OrdersOnRecord, OnRecord, Snapshot
<1>9. OpenIsUnpaid(Snapshot)'
  BY <1>1, <1>2, <1>7 DEF OpenIsUnpaid, PaidFor, Snapshot
<1>10. LogOK(Snapshot, now)'
  <2>1. ASSUME NEW j \in DOMAIN settlements,
               now < settlements[j].timestamp + PurgeDelay
        PROVE  LET e == settlements[j] IN
               orders'[<<e.merchant, e.orderId>>] = orders[<<e.merchant, e.orderId>>]
    <3> DEFINE e == settlements[j]
    <3>1. e.orderId \in OrderIds
      <4>1. e \in Settlements
        BY StorageTypes
      <4> QED  BY <4>1 DEF Settlements
    <3>2. /\ e.merchant \in Merchants
          /\ orders[<<e.merchant, e.orderId>>].settled
          /\ orders[<<e.merchant, e.orderId>>].settledAt = e.timestamp
      BY <2>1, <1>1 DEF LogOK, Snapshot
    <3>3. <<e.merchant, e.orderId>> # k
      <4>1. CASE <<e.merchant, e.orderId>> = k
        <5>1. now >= e.timestamp + PurgeDelay
          BY <3>2, <4>1
        <5>2. e.timestamp \in Nat /\ now \in Nat /\ PurgeDelay \in Nat
          <6>1. e \in Settlements
            BY StorageTypes
          <6> QED  BY <6>1, StorageTypes, ConstantsTypes DEF Settlements
        <5> QED  BY <5>1, <5>2, <2>1
      <4> QED  BY <4>1
    <3> QED  BY <3>1, <3>2, <3>3, <1>4, <1>6
  <2> QED  BY <2>1, <1>1, <1>2 DEF LogOK, Snapshot
<1>11. FundsPassThrough'
  BY <1>2, InTransitUnchanged DEF PaymentInv, FundsPassThrough
<1>12. ASSUME ~Idle'
       PROVE  CallInv' /\ StorageInv(saved, now)' /\ (saved.balance = saved.stray)'
  <2>1. ~Idle /\ CallInv /\ StorageInv(saved, now) /\ saved.balance = saved.stray
    BY <1>2, <1>12 DEF PaymentInv, Idle
  <2>2. call.key # k
    <3>1. CASE call.key = k
      <4>1. orders[k].settled /\ orders[k].settledAt = now
        BY <2>1, <3>1, CallKey DEF CallInv
      <4>2. now >= now + PurgeDelay
        BY <4>1
      <4> QED  BY <4>2, ConstantsTypes, StorageTypes
    <3> QED  BY <3>1
  <2>3. orders'[<<call.key[1], call.key[2]>>] = orders[<<call.key[1], call.key[2]>>]
    BY <2>1, <2>2, <1>4, CallKey
  <2> QED  BY <2>1, <2>3, <1>2, CallInvUnchanged, SavedInvUnchanged
<1> QED
  BY <1>8, <1>9, <1>10, <1>11, <1>12 DEF PaymentInv, StorageInv

\* A step that keeps the orders, the logs, the call and its snapshot keeps the
\* invariant when it keeps the balance in step with the stray funds.
LEMMA SideStepInv ==
    ASSUME TypeOK, PaymentInv,
           UNCHANGED <<now, orders, orderNonces, registered, settlements, call, saved>>,
           \E d \in Int : balance' = balance + d /\ stray' = stray + d
    PROVE  PaymentInv'
<1>1. StorageInv(Snapshot, now)'
  BY StorageInvUnchanged DEF PaymentInv
<1>2. FundsPassThrough'
  <2>1. balance = stray + InTransit /\ balance \in Nat /\ stray \in Int
    BY StorageTypes DEF PaymentInv, FundsPassThrough
  <2>2. InTransit \in Nat
    BY ConstantsTypes, CallKey DEF InTransit, Calls
  <2>3. InTransit' = InTransit
    BY InTransitUnchanged
  <2>4. balance' = stray' + InTransit
    <3>1. PICK d \in Int : balance' = balance + d /\ stray' = stray + d
      OBVIOUS
    <3> DEFINE b == balance
               x == stray
               t == InTransit
    <3>2. b \in Int /\ x \in Int /\ t \in Int /\ b = x + t
      BY <2>1, <2>2
    <3> HIDE DEF b, x, t
    <3>3. b + d = (x + d) + t
      BY <3>1, <3>2
    <3> QED  BY <3>1, <3>3 DEF b, x, t
  <2> QED  BY <2>3, <2>4 DEF FundsPassThrough
<1>3. ASSUME ~Idle'
      PROVE  CallInv' /\ StorageInv(saved, now)' /\ (saved.balance = saved.stray)'
  <2>1. ~Idle /\ CallInv /\ StorageInv(saved, now) /\ saved.balance = saved.stray
    BY <1>3 DEF PaymentInv, Idle
  <2> QED  BY <2>1, CallInvUnchanged, SavedInvUnchanged
<1> QED
  BY <1>1, <1>2, <1>3 DEF PaymentInv

\* Administrative calls, inside or outside a payment.
LEMMA AdminInv ==
    ASSUME TypeOK, PaymentInv, AdminStep
    PROVE  PaymentInv'
<1>1. balance \in Int /\ stray \in Int
  BY StorageTypes
<1>2. ASSUME NEW c, Configure(c)
      PROVE  PaymentInv'
  <2>1. balance' = balance + 0 /\ stray' = stray + 0
    BY <1>1, <1>2 DEF Configure
  <2> QED  BY <1>2, <2>1, SideStepInv DEF Configure
<1>3. ASSUME NEW a \in {1, balance}, RescueTokens(a)
      PROVE  PaymentInv'
  <2>1. -a \in Int /\ balance' = balance + (-a) /\ stray' = stray + (-a)
    BY <1>1, <1>3 DEF RescueTokens
  <2> QED  BY <1>3, <2>1, SideStepInv DEF RescueTokens
<1> QED
  BY <1>2, <1>3
     DEF AdminStep, SetFeeConfig, SetTokenAccepted, SetRelayer, SetSigner,
         InitializeSigning, SetPauseGuardian, Pause, Unpause

LEMMA ForceFundsInv ==
    ASSUME TypeOK, PaymentInv, NEW a \in {1} \cup Amounts, ForceFunds(a)
    PROVE  PaymentInv'
<1>1. balance \in Int /\ stray \in Int /\ a \in Int
  BY StorageTypes, ConstantsTypes
<1> QED  BY <1>1, SideStepInv DEF ForceFunds

\* A later block: what is recent now was recent before.
LEMMA TickInv ==
    ASSUME TypeOK, PaymentInv, Tick
    PROVE  PaymentInv'
<1>1. OrdersOnRecord(Snapshot) /\ OpenIsUnpaid(Snapshot) /\ LogOK(Snapshot, now)
  BY DEF PaymentInv, StorageInv
<1>2. UNCHANGED <<orders, orderNonces, registered, settlements, balance, stray, call>>
      /\ now' = now + 1 /\ Idle
  BY DEF Tick, storage
<1>3. OrdersOnRecord(Snapshot)' /\ OpenIsUnpaid(Snapshot)'
  BY <1>1, <1>2 DEF OrdersOnRecord, OnRecord, OpenIsUnpaid, PaidFor, Snapshot
<1>4. LogOK(Snapshot, now)'
  <2>1. ASSUME NEW j \in DOMAIN settlements,
               now' < settlements[j].timestamp + PurgeDelay
        PROVE  now < settlements[j].timestamp + PurgeDelay
    <3>1. settlements[j] \in Settlements
      BY StorageTypes
    <3>2. settlements[j].timestamp \in Nat
      BY <3>1 DEF Settlements
    <3> QED  BY <2>1, <3>2, <1>2, StorageTypes, ConstantsTypes
  <2> QED  BY <2>1, <1>1, <1>2 DEF LogOK, Snapshot
<1>5. FundsPassThrough'
  BY <1>2, InTransitUnchanged DEF PaymentInv, FundsPassThrough
<1>6. Idle'
  BY <1>2 DEF Idle
<1> QED  BY <1>3, <1>4, <1>5, <1>6 DEF PaymentInv, StorageInv

\* Paying an order on record: it becomes settled and is logged later.
LEMMA PayRegisteredInv ==
    ASSUME TypeOK, PaymentInv, NEW p \in Payers, NEW m \in Merchants,
           NEW id \in OrderIds, PayRegistered(p, m, id)
    PROVE  PaymentInv'
<1> DEFINE k == <<m, id>>
           o == orders[<<m, id>>]
           c == [key |-> <<m, id>>, payer |-> p, token |-> o.token,
                 amount |-> o.amount, feeBps |-> o.feeBps,
                 feeRecipient |-> o.feeRecipient, merchant |-> o.merchant,
                 signed |-> FALSE, nonce |-> 0]
<1>1. OrdersOnRecord(Snapshot) /\ OpenIsUnpaid(Snapshot) /\ LogOK(Snapshot, now)
  BY DEF PaymentInv, StorageInv
<1>2. /\ UNCHANGED <<now, orderNonces, config, registered, settlements, stray>>
      /\ Idle /\ o.exists /\ ~o.settled
      /\ o.expiry = 0 \/ now <= o.expiry
      /\ o.expectedPayer \in {ZeroAddress, p}
      /\ BeginTransfers(c)
      /\ orders' = [orders EXCEPT ![k] = Settled(o, now)]
  BY DEF PayRegistered, RequireOpenOrder, MayPay
<1>3. k \in Keys /\ o \in Orders
  BY <1>2, SlotTypes DEF Keys
<1>4. now \in 0..MaxTime /\ orders \in [Keys -> Orders \cup {EmptyOrder}]
  BY DEF TypeOK, StorageOK, Snapshot
<1>5. /\ c.key \in Keys /\ c.payer \in Payers /\ c.token \in Currencies
      /\ c.amount \in Amounts /\ c.feeBps \in Rates
      /\ c.feeRecipient \in FeeWallets /\ c.merchant \in Merchants
      /\ c.signed \in BOOLEAN /\ c.nonce \in 0..MaxOrders
  <2>1. /\ o.token \in Currencies /\ o.amount \in Amounts /\ o.feeBps \in Rates
        /\ o.feeRecipient \in FeeWallets /\ o.merchant \in Merchants
    BY <1>3 DEF Orders
  <2>2. 0 \in 0..MaxOrders
    BY ConstantsTypes
  <2> QED  BY <1>3, <2>1, <2>2
<1>6. /\ c.key = <<m, id>> /\ c.payer = p /\ c.token = o.token
      /\ c.amount = o.amount /\ c.feeBps = o.feeBps
      /\ c.feeRecipient = o.feeRecipient /\ c.merchant = o.merchant
      /\ c.signed = FALSE
  OBVIOUS
<1> HIDE DEF c
<1>7. /\ call' # NoCall
      /\ saved' = Snapshot
      /\ call'.key = <<m, id>>
      /\ call'.payer = p
      /\ call'.token = o.token
      /\ call'.amount = o.amount
      /\ call'.fee = Fee(o.amount, o.feeBps)
      /\ call'.net = o.amount - call'.fee
      /\ call'.phase = "fee" => call'.fee > 0
      /\ call'.fee > 0 => call'.feeTo = o.feeRecipient
      /\ call'.phase = "net" => call'.netTo = o.merchant
      /\ call'.signed = FALSE
      /\ balance' = IF o.token = Native /\ call'.phase = "fee"
                    THEN balance + call'.net ELSE balance
  <2>1. /\ call' # NoCall
        /\ saved' = Snapshot
        /\ call'.key = c.key
        /\ call'.payer = c.payer
        /\ call'.token = c.token
        /\ call'.amount = c.amount
        /\ call'.fee = Fee(c.amount, c.feeBps)
        /\ call'.net = c.amount - call'.fee
        /\ call'.phase = "fee" => call'.fee > 0
        /\ call'.fee > 0 => call'.feeTo = c.feeRecipient
        /\ call'.phase = "net" => call'.netTo = c.merchant
        /\ call'.signed = c.signed
        /\ balance' = IF c.token = Native /\ call'.phase = "fee"
                      THEN balance + call'.net ELSE balance
    BY <1>2, <1>5, BeginTransfersType
  <2> QED  BY <2>1, <1>6
<1>8. /\ \A j \in Keys : j # k => orders'[j] = orders[j]
      /\ orders'[k] = Settled(o, now)
  BY <1>2, <1>3, <1>4
<1>9. PICK p1 : p1 = Settled(o, now)
  OBVIOUS
<1>10. /\ p1.exists /\ p1.settled /\ p1.settledAt = now
       /\ p1.merchant = o.merchant /\ p1.nonce = o.nonce
       /\ p1.token = o.token /\ p1.amount = o.amount
       /\ p1.expiry = o.expiry /\ p1.feeBps = o.feeBps
       /\ p1.feeRecipient = o.feeRecipient
       /\ p1.expectedPayer = o.expectedPayer
  BY <1>3, <1>4, <1>9, SettledOrder, Zenon
<1>11. orders'[k] = p1
  BY <1>8, <1>9
<1>12. OnRecord(Snapshot, m, id, o)
  BY <1>1, <1>2 DEF OrdersOnRecord, Snapshot
<1>13. \A m2 \in Merchants, id2 \in OrderIds :
         /\ <<m2, id2>> \in Keys
         /\ <<m2, id2>> = k => m2 = m /\ id2 = id
  BY DEF Keys
<1>14. OrdersOnRecord(Snapshot)'
  <2>1. ASSUME NEW m2 \in Merchants, NEW id2 \in OrderIds,
               orders'[<<m2, id2>>].exists
        PROVE  OnRecord(Snapshot, m2, id2, orders[<<m2, id2>>])'
    <3>1. CASE <<m2, id2>> = k
      <4> DEFINE o2 == orders'[<<m2, id2>>]
      <4>1. m2 = m /\ id2 = id /\ o2 = p1
        BY <3>1, <1>13, <1>11
      <4>2. /\ o2.merchant = o.merchant /\ o2.nonce = o.nonce
            /\ o2.token = o.token /\ o2.amount = o.amount
            /\ o2.expiry = o.expiry /\ o2.feeBps = o.feeBps
            /\ o2.feeRecipient = o.feeRecipient
            /\ o2.expectedPayer = o.expectedPayer
        BY <4>1, <1>10
      <4> QED  BY <4>1, <4>2, <1>2, <1>12 DEF OnRecord, Snapshot
    <3>2. CASE <<m2, id2>> # k
      <4>1. orders'[<<m2, id2>>] = orders[<<m2, id2>>]
        BY <3>2, <1>8, <1>13
      <4>2. OnRecord(Snapshot, m2, id2, orders[<<m2, id2>>])
        BY <2>1, <4>1, <1>1 DEF OrdersOnRecord, Snapshot
      <4> QED  BY <4>1, <4>2, <1>2 DEF OnRecord, Snapshot
    <3> QED  BY <3>1, <3>2
  <2> QED  BY <2>1, <1>1, <1>2 DEF OrdersOnRecord, Snapshot
<1>15. OpenIsUnpaid(Snapshot)'
  <2>1. \A m2 \in Merchants, id2 \in OrderIds :
          ~orders'[<<m2, id2>>].settled => orders'[<<m2, id2>>] = orders[<<m2, id2>>]
    BY <1>8, <1>13, <1>10, <1>11
  <2> QED  BY <2>1, <1>1, <1>2 DEF OpenIsUnpaid, PaidFor, Snapshot
<1>16. LogOK(Snapshot, now)'
  <2>1. ASSUME NEW j \in DOMAIN settlements,
               now < settlements[j].timestamp + PurgeDelay
        PROVE  LET e == settlements[j] IN
               orders'[<<e.merchant, e.orderId>>] = orders[<<e.merchant, e.orderId>>]
    <3> DEFINE e == settlements[j]
    <3>1. e.orderId \in OrderIds
      <4>1. e \in Settlements
        BY StorageTypes
      <4> QED  BY <4>1 DEF Settlements
    <3>2. /\ e.merchant \in Merchants
          /\ orders[<<e.merchant, e.orderId>>].settled
      BY <2>1, <1>1 DEF LogOK, Snapshot
    <3> QED  BY <3>1, <3>2, <1>2, <1>8, <1>13
  <2> QED  BY <2>1, <1>1, <1>2 DEF LogOK, Snapshot
<1>17. balance = stray
  BY <1>2, StorageTypes DEF PaymentInv, FundsPassThrough, InTransit, Idle
<1>18. FundsPassThrough'
  <2>1. ~Idle'
    BY <1>7 DEF Idle
  <2> QED  BY <2>1, <1>2, <1>7, <1>17, StorageTypes DEF FundsPassThrough, InTransit
<1>19. CallInv'
  <2>1. (call.key[1])' = m /\ (call.key[2])' = id
    BY <1>7
  <2>2. ~PaidFor(Snapshot, m, p1.nonce)'
    <3>1. \A j \in DOMAIN settlements :
            ~(settlements[j].merchant = m /\ settlements[j].nonce = o.nonce)
      BY <1>1, <1>2 DEF OpenIsUnpaid, PaidFor, Snapshot
    <3> QED  BY <3>1, <1>2, <1>10, <1>11 DEF PaidFor, Snapshot
  <2>3. o.merchant = m
    BY <1>12 DEF OnRecord
  <2>4. call'.fee = Fee(p1.amount, p1.feeBps) /\ call'.net = p1.amount - call'.fee
    BY <1>7, <1>10
  <2>5. /\ p1.exists /\ p1.settled /\ p1.settledAt = now'
        /\ p1.token = call'.token /\ p1.amount = call'.amount
        /\ call'.phase = "fee" => call'.fee > 0
        /\ call'.fee > 0 => call'.feeTo = p1.feeRecipient
        /\ call'.phase = "net" => call'.netTo = m
        /\ p1.expectedPayer \in {ZeroAddress, call'.payer}
        /\ p1.expiry = 0 \/ now' <= p1.expiry
        /\ ~call'.signed
    BY <1>2, <1>7, <1>10, <2>3
  <2> QED  BY <2>1, <2>2, <2>4, <2>5, <1>11 DEF CallInv, Fee
<1>20. StorageInv(saved, now)' /\ (saved.balance = saved.stray)'
  <2>1. saved' = Snapshot /\ now' = now
    BY <1>2, <1>7
  <2>2. StorageInv(saved, now)'
    BY <2>1, <1>1 DEF StorageInv
  <2>3. saved'.balance = saved'.stray
    BY <2>1, <1>17 DEF Snapshot
  <2> QED  BY <2>2, <2>3
<1> QED
  BY <1>14, <1>15, <1>16, <1>18, <1>19, <1>20 DEF PaymentInv, StorageInv

\* Paying a signed order: it is registered under the next nonce and settled at once.
LEMMA PaySignedOrderInv ==
    ASSUME TypeOK, PaymentInv, NEW p \in Payers, NEW s \in Signers,
           NEW m \in Merchants, NEW t \in SignedOrders, PaySignedOrder(p, s, m, t)
    PROVE  PaymentInv'
<1> DEFINE id == t.orderId
           k == <<m, id>>
           n == NonceFor(m, 1)
           c == [key |-> <<m, t.orderId>>, payer |-> p, token |-> t.token,
                 amount |-> t.amount, feeBps |-> t.feeBps,
                 feeRecipient |-> t.feeRecipient, merchant |-> m,
                 signed |-> TRUE, nonce |-> n]
<1>1. OrdersOnRecord(Snapshot) /\ OpenIsUnpaid(Snapshot) /\ LogOK(Snapshot, now)
  BY DEF PaymentInv, StorageInv
<1>2. /\ UNCHANGED <<now, config, settlements, stray>>
      /\ Idle /\ ~orders[k].exists
      /\ t.expiry = 0 \/ t.expiry > now
      /\ t.feeBps <= MaxFeeBps
      /\ t.expectedPayer \in {ZeroAddress, p}
      /\ orderNonces[m] < MaxOrders
      /\ BeginTransfers(c)
      /\ orderNonces' = [orderNonces EXCEPT ![m] = @ + 1]
      /\ registered' = [registered EXCEPT ![m] = Append(@, t)]
      /\ orders' = [orders EXCEPT ![k] = OrderFor(m, t, n, TRUE, now)]
  BY DEF PaySignedOrder, MayPay
<1>3. t \in Terms /\ id \in OrderIds /\ k \in Keys
  BY <1>2 DEF SignedOrders, Terms, TermsAt, Rates, Keys
<1>4. /\ orders \in [Keys -> Orders \cup {EmptyOrder}]
      /\ registered \in [Merchants -> Seq(Terms)]
      /\ orderNonces \in [Merchants -> Nat]
      /\ orderNonces[m] = Len(registered[m])
  BY <1>1, StorageTypes DEF OrdersOnRecord, Snapshot
<1>5. PICK r : r = Len(registered[m]) + 1
  OBVIOUS
<1>6. r = n /\ r \in Nat /\ r \in 1..MaxOrders
  <2>1. n = orderNonces[m] + 1
    BY DEF NonceFor
  <2> QED  BY <2>1, <1>2, <1>4, <1>5, ConstantsTypes
<1>7. /\ \A m2 \in Merchants : m2 # m => registered'[m2] = registered[m2]
      /\ \A j \in DOMAIN registered[m] :
            j \in DOMAIN registered'[m] /\ registered'[m][j] = registered[m][j]
      /\ r \in DOMAIN registered'[m] /\ registered'[m][r] = t
      /\ Len(registered'[m]) = r
      /\ r \notin DOMAIN registered[m]
  <2>1. registered[m] \in Seq(Terms) /\ registered'[m] = Append(registered[m], t)
    BY <1>2, <1>4
  <2>2. \A m2 \in Merchants : m2 # m => registered'[m2] = registered[m2]
    BY <1>2, <1>4
  <2> QED  BY <2>1, <2>2, <1>3, <1>5
<1>8. /\ c.key \in Keys /\ c.payer \in Payers /\ c.token \in Currencies
      /\ c.amount \in Amounts /\ c.feeBps \in Rates
      /\ c.feeRecipient \in FeeWallets /\ c.merchant \in Merchants
      /\ c.signed \in BOOLEAN /\ c.nonce \in 0..MaxOrders
  BY <1>3, <1>6 DEF Terms, TermsAt
<1>9. /\ c.key = k /\ c.payer = p /\ c.token = t.token
      /\ c.amount = t.amount /\ c.feeBps = t.feeBps
      /\ c.feeRecipient = t.feeRecipient /\ c.merchant = m
      /\ c.signed = TRUE /\ c.nonce = r
  BY <1>6
<1> HIDE DEF c
<1>10. /\ call' # NoCall
       /\ saved' = Snapshot
       /\ call'.key = k
       /\ call'.payer = p
       /\ call'.token = t.token
       /\ call'.amount = t.amount
       /\ call'.fee = Fee(t.amount, t.feeBps)
       /\ call'.net = t.amount - call'.fee
       /\ call'.phase = "fee" => call'.fee > 0
       /\ call'.fee > 0 => call'.feeTo = t.feeRecipient
       /\ call'.phase = "net" => call'.netTo = m
       /\ call'.nonce = r
       /\ balance' = IF t.token = Native /\ call'.phase = "fee"
                     THEN balance + call'.net ELSE balance
  <2>1. /\ call' # NoCall
        /\ saved' = Snapshot
        /\ call'.key = c.key
        /\ call'.payer = c.payer
        /\ call'.token = c.token
        /\ call'.amount = c.amount
        /\ call'.fee = Fee(c.amount, c.feeBps)
        /\ call'.net = c.amount - call'.fee
        /\ call'.phase = "fee" => call'.fee > 0
        /\ call'.fee > 0 => call'.feeTo = c.feeRecipient
        /\ call'.phase = "net" => call'.netTo = c.merchant
        /\ call'.nonce = c.nonce
        /\ balance' = IF c.token = Native /\ call'.phase = "fee"
                      THEN balance + call'.net ELSE balance
    BY <1>2, <1>8, BeginTransfersType
  <2> QED  BY <2>1, <1>9
<1>11. PICK p1 : p1 = OrderFor(m, t, r, TRUE, now)
  OBVIOUS
<1>12. /\ p1.exists /\ p1.settled /\ p1.settledAt = now
       /\ p1.merchant = m /\ p1.nonce = r
       /\ p1.token = t.token /\ p1.amount = t.amount
       /\ p1.expiry = t.expiry /\ p1.feeBps = t.feeBps
       /\ p1.feeRecipient = t.feeRecipient
       /\ p1.expectedPayer = t.expectedPayer
  BY <1>11 DEF OrderFor
<1>13. /\ orders'[k] = p1
       /\ \A j \in Keys : j # k => orders'[j] = orders[j]
  BY <1>2, <1>3, <1>4, <1>6, <1>11
<1>14. \A m2 \in Merchants, id2 \in OrderIds :
         /\ <<m2, id2>> \in Keys
         /\ <<m2, id2>> = k => m2 = m /\ id2 = id
  BY DEF Keys
<1>15. OrdersOnRecord(Snapshot)'
  <2>1. ASSUME NEW m2 \in Merchants, NEW id2 \in OrderIds,
               orders'[<<m2, id2>>].exists
        PROVE  OnRecord(Snapshot, m2, id2, orders[<<m2, id2>>])'
    <3>1. CASE <<m2, id2>> = k
      <4>1. m2 = m /\ id2 = id /\ orders'[<<m2, id2>>] = p1
        BY <3>1, <1>13, <1>14
      <4> QED  BY <4>1, <1>7, <1>12 DEF OnRecord, Snapshot
    <3>2. CASE <<m2, id2>> # k
      <4>1. orders'[<<m2, id2>>] = orders[<<m2, id2>>]
        BY <3>2, <1>13, <1>14
      <4>2. OnRecord(Snapshot, m2, id2, orders[<<m2, id2>>])
        BY <2>1, <4>1, <1>1 DEF OrdersOnRecord, Snapshot
      <4> QED  BY <4>1, <4>2, <1>7 DEF OnRecord, Snapshot
    <3> QED  BY <3>1, <3>2
  <2>2. \A m2 \in Merchants : orderNonces'[m2] = Len(registered'[m2])
    BY <1>1, <1>2, <1>4, <1>5, <1>7 DEF OrdersOnRecord, Snapshot
  <2> QED  BY <2>1, <2>2 DEF OrdersOnRecord, Snapshot
<1>16. OpenIsUnpaid(Snapshot)'
  <2>1. \A m2 \in Merchants, id2 \in OrderIds :
          ~orders'[<<m2, id2>>].settled => orders'[<<m2, id2>>] = orders[<<m2, id2>>]
    BY <1>12, <1>13, <1>14
  <2>2. settlements' = settlements
    BY <1>2
  <2> QED  BY <2>1, <2>2, <1>1 DEF OpenIsUnpaid, PaidFor, Snapshot
<1>17. LogOK(Snapshot, now)'
  <2>1. ASSUME NEW j \in DOMAIN settlements
        PROVE  LET e == settlements[j] IN
               /\ e.merchant \in Merchants
               /\ e.nonce \in DOMAIN registered'[e.merchant]
               /\ CarriesOut(e, registered'[e.merchant][e.nonce])
               /\ now < e.timestamp + PurgeDelay =>
                     orders'[<<e.merchant, e.orderId>>] = orders[<<e.merchant, e.orderId>>]
    <3> DEFINE e == settlements[j]
    <3>1. e.orderId \in OrderIds
      <4>1. e \in Settlements
        BY StorageTypes
      <4> QED  BY <4>1 DEF Settlements
    <3>2. /\ e.merchant \in Merchants
          /\ e.nonce \in DOMAIN registered[e.merchant]
          /\ CarriesOut(e, registered[e.merchant][e.nonce])
          /\ now < e.timestamp + PurgeDelay => orders[<<e.merchant, e.orderId>>].settled
      BY <1>1 DEF LogOK, Snapshot
    <3>3. /\ e.nonce \in DOMAIN registered'[e.merchant]
          /\ registered'[e.merchant][e.nonce] = registered[e.merchant][e.nonce]
      BY <3>2, <1>7
    <3>4. ~orders[k].settled
      BY <1>2, <1>3, SlotTypes
    <3> QED  BY <3>1, <3>2, <3>3, <3>4, <1>13, <1>14
  <2>2. UNCHANGED <<now, settlements>>
    BY <1>2
  <2> QED  BY <2>1, <2>2, <1>1 DEF LogOK, Snapshot
<1>18. balance = stray
  BY <1>2, StorageTypes DEF PaymentInv, FundsPassThrough, InTransit, Idle
<1>19. FundsPassThrough'
  <2>1. ~Idle'
    BY <1>10 DEF Idle
  <2> QED  BY <2>1, <1>2, <1>10, <1>18, StorageTypes DEF FundsPassThrough, InTransit
<1>20. CallInv'
  <2>1. (call.key[1])' = m /\ (call.key[2])' = id
    BY <1>10
  <2>2. ~PaidFor(Snapshot, m, p1.nonce)'
    <3>1. \A j \in DOMAIN settlements :
            ~(settlements[j].merchant = m /\ settlements[j].nonce = r)
      <4>1. \A j \in DOMAIN settlements :
              settlements[j].nonce \in DOMAIN registered[settlements[j].merchant]
        BY <1>1 DEF LogOK, Snapshot
      <4> QED  BY <4>1, <1>7
    <3> QED  BY <3>1, <1>2, <1>12 DEF PaidFor, Snapshot
  <2>3. call'.fee = Fee(p1.amount, p1.feeBps) /\ call'.net = p1.amount - call'.fee
    BY <1>10, <1>12
  <2>4. p1.expiry = 0 \/ now' <= p1.expiry
    <3>1. t.expiry \in Nat /\ now \in Nat
      BY <1>3, StorageTypes, ConstantsAssumption DEF Terms, TermsAt
    <3> QED  BY <3>1, <1>2, <1>12
  <2>5. /\ p1.exists /\ p1.settled /\ p1.settledAt = now'
        /\ p1.token = call'.token /\ p1.amount = call'.amount
        /\ call'.phase = "fee" => call'.fee > 0
        /\ call'.fee > 0 => call'.feeTo = p1.feeRecipient
        /\ call'.phase = "net" => call'.netTo = m
        /\ p1.expectedPayer \in {ZeroAddress, call'.payer}
        /\ call'.nonce = p1.nonce
    BY <1>2, <1>10, <1>12
  <2> QED  BY <2>1, <2>2, <2>3, <2>4, <2>5, <1>13 DEF CallInv, Fee
<1>21. StorageInv(saved, now)' /\ (saved.balance = saved.stray)'
  <2>1. saved' = Snapshot /\ now' = now
    BY <1>2, <1>10
  <2>2. StorageInv(saved, now)'
    BY <2>1, <1>1 DEF StorageInv
  <2>3. saved'.balance = saved'.stray
    BY <2>1, <1>18 DEF Snapshot
  <2> QED  BY <2>2, <2>3
<1> QED
  BY <1>15, <1>16, <1>17, <1>19, <1>20, <1>21 DEF PaymentInv, StorageInv

\* In the middle of a payment, the order read again is the one that is being paid.
LEMMA PayeeAndNonceNow ==
    ASSUME TypeOK, PaymentInv, ~Idle
    PROVE  /\ PayeeNow = call.key[1]
           /\ NonceNow = orders[call.key].nonce
           /\ OnRecord(Snapshot, call.key[1], call.key[2], orders[call.key])
<1>1. CallInv /\ OrdersOnRecord(Snapshot)
  BY DEF PaymentInv, StorageInv
<1>2. OnRecord(Snapshot, call.key[1], call.key[2], orders[call.key])
  BY <1>1, CallKey DEF CallInv, OrdersOnRecord, Snapshot
<1>3. /\ orders[call.key].merchant = call.key[1]
      /\ call.signed => call.nonce = orders[call.key].nonce
  BY <1>1, <1>2, CallKey DEF CallInv, OnRecord
<1> QED  BY <1>2, <1>3 DEF PayeeNow, NonceNow

\* The second transfer goes to the merchant of the order.
LEMMA TransferNetInv ==
    ASSUME TypeOK, PaymentInv, TransferNet
    PROVE  PaymentInv'
<1>1. /\ UNCHANGED <<now, orders, orderNonces, registered, settlements, stray, saved>>
      /\ call' = NetPhase(call, PayeeNow)
      /\ call.phase = "fee"
      /\ balance' = IF call.token = Native THEN balance - call.net ELSE balance
      /\ ~Idle
  BY DEF TransferNet, Idle, NoCall
<1>2. CallInv /\ StorageInv(Snapshot, now) /\ StorageInv(saved, now) /\ saved.balance = saved.stray
      /\ FundsPassThrough
  BY <1>1 DEF PaymentInv
<1>3. call \in Calls /\ PayeeNow = call.key[1] /\ call.key[1] \in Merchants
  BY <1>1, CallKey, PayeeAndNonceNow
<1>4. /\ call'.phase = "net" /\ call'.netTo = call.key[1] /\ call'.key = call.key
      /\ call'.payer = call.payer /\ call'.token = call.token
      /\ call'.amount = call.amount /\ call'.fee = call.fee /\ call'.net = call.net
      /\ call'.feeTo = call.feeTo /\ call'.signed = call.signed
      /\ call'.nonce = call.nonce
  BY <1>1, <1>3, NetPhaseCall, ZenonT(60)
<1>5. StorageInv(Snapshot, now)' /\ StorageInv(saved, now)'
  BY <1>1, <1>2, StorageInvUnchanged, SavedInvUnchanged
<1>6. FundsPassThrough'
  <2>1. InTransit' = 0
    BY <1>4 DEF InTransit
  <2>2. balance = stray + (IF call.token = Native THEN call.net ELSE 0)
    BY <1>1, <1>2 DEF FundsPassThrough, InTransit
  <2>3. balance \in Nat /\ stray \in Int /\ call.net \in Nat
    BY <1>3, StorageTypes DEF Calls
  <2>4. balance' = stray
    BY <2>2, <2>3, <1>1
  <2> QED  BY <1>1, <2>1, <2>3, <2>4 DEF FundsPassThrough
<1>7. CallInv'
  BY <1>1, <1>2, <1>4, SMTT(30) DEF CallInv, PaidFor, Snapshot, Fee
<1> QED
  BY <1>1, <1>2, <1>5, <1>6, <1>7 DEF PaymentInv

\* The end of a payment: its entry carries out the order's registration, the only
\* one with that nonce, and comes for the first time.
LEMMA FinishPaymentInv ==
    ASSUME TypeOK, PaymentInv, FinishPayment
    PROVE  PaymentInv'
<1>1. /\ UNCHANGED <<now, orders, orderNonces, balance, registered, stray>>
      /\ call.phase = "net" /\ call' = NoCall /\ ~Idle
  BY DEF FinishPayment, Idle, NoCall
<1>2. /\ CallInv /\ FundsPassThrough /\ OrdersOnRecord(Snapshot)
      /\ OpenIsUnpaid(Snapshot) /\ LogOK(Snapshot, now)
  BY <1>1 DEF PaymentInv, StorageInv
<1>3. call \in Calls /\ call.key \in Keys /\ <<call.key[1], call.key[2]>> = call.key
  BY <1>1, CallKey
<1>4. PICK m \in Merchants, id \in OrderIds : call.key = <<m, id>>
  BY <1>1, CallKey
<1>5. PICK o : o = orders[<<m, id>>]
  OBVIOUS
<1>6. PICK e : e = [merchant |-> PayeeNow, orderId |-> call.key[2],
             nonce |-> NonceNow,
             payer |-> call.payer, token |-> call.token, amount |-> call.amount,
             fee |-> call.fee, net |-> call.net, timestamp |-> now,
             feeTo |-> call.feeTo, netTo |-> call.netTo]
  OBVIOUS
<1>7. settlements' = Append(settlements, e) /\ settlements \in Seq(Settlements)
  BY <1>6, StorageTypes DEF FinishPayment
<1>8. /\ e.merchant = m /\ e.orderId = id /\ e.nonce = o.nonce
      /\ e.payer = call.payer /\ e.token = call.token /\ e.amount = call.amount
      /\ e.fee = call.fee /\ e.net = call.net /\ e.timestamp = now
      /\ e.feeTo = call.feeTo /\ e.netTo = call.netTo
  BY <1>1, <1>4, <1>5, <1>6, PayeeAndNonceNow
<1>9. OnRecord(Snapshot, m, id, o) /\ o \in Orders
  BY <1>1, <1>2, <1>3, <1>4, <1>5, PayeeAndNonceNow, SlotTypes DEF CallInv
<1>10. /\ o.exists /\ o.settled /\ o.settledAt = now
       /\ ~PaidFor(Snapshot, m, o.nonce)
       /\ o.token = call.token /\ o.amount = call.amount
       /\ call.fee = Fee(o.amount, o.feeBps) /\ call.net = o.amount - call.fee
       /\ call.fee > 0 => call.feeTo = o.feeRecipient
       /\ call.netTo = m
       /\ o.expectedPayer \in {ZeroAddress, call.payer}
       /\ o.expiry = 0 \/ now <= o.expiry
  BY <1>1, <1>2, <1>4, <1>5 DEF CallInv
<1>11. PICK n \in Nat : n = Len(settlements) /\ DOMAIN settlements = 1..n
  BY <1>7
<1>12. /\ DOMAIN settlements' = 1..(n + 1)
       /\ settlements'[n + 1] = e
       /\ \A j \in 1..n : settlements'[j] = settlements[j]
  BY <1>7, <1>11
<1>13. CarriesOut(e, registered[m][o.nonce]) /\ o.nonce \in DOMAIN registered[m]
  <2> DEFINE t == registered[m][o.nonce]
  <2>1. /\ t.orderId = id /\ t.token = o.token /\ t.amount = o.amount
        /\ t.expiry = o.expiry /\ t.feeBps = o.feeBps
        /\ t.feeRecipient = o.feeRecipient /\ t.expectedPayer = o.expectedPayer
        /\ o.nonce \in DOMAIN registered[m]
    BY <1>9 DEF OnRecord, Snapshot
  <2>2. call.fee \in Nat /\ o.amount \in Nat
    BY <1>3, <1>9, ConstantsTypes DEF Calls, Orders
  <2>3. e.fee + e.net = t.amount
    BY <1>8, <1>10, <2>1, <2>2
  <2>4. e.fee = Fee(t.amount, t.feeBps)
    BY <1>8, <1>10, <2>1
  <2> HIDE DEF t
  <2> QED  BY <1>8, <1>10, <2>1, <2>3, <2>4 DEF CarriesOut, t
<1>14. OrdersOnRecord(Snapshot)'
  BY <1>1, <1>2 DEF OrdersOnRecord, OnRecord, Snapshot
<1>15. OpenIsUnpaid(Snapshot)'
  <2> SUFFICES ASSUME NEW m2 \in Merchants, NEW id2 \in OrderIds,
                      orders[<<m2, id2>>].exists, ~orders[<<m2, id2>>].settled,
                      NEW j \in DOMAIN settlements',
                      settlements'[j].merchant = m2,
                      settlements'[j].nonce = orders[<<m2, id2>>].nonce
               PROVE  FALSE
    BY <1>1 DEF OpenIsUnpaid, PaidFor, Snapshot
  <2>1. CASE j \in 1..n
    BY <2>1, <1>2, <1>11, <1>12 DEF OpenIsUnpaid, PaidFor, Snapshot
  <2>2. CASE j = n + 1
    <3>1. m2 = m /\ orders[<<m2, id2>>].nonce = o.nonce
      BY <2>2, <1>8, <1>12
    <3>2. OnRecord(Snapshot, m2, id2, orders[<<m2, id2>>])
      BY <1>2 DEF OrdersOnRecord, Snapshot
    <3>3. id2 = id
      BY <3>1, <3>2, <1>9 DEF OnRecord
    <3> QED  BY <3>1, <3>3, <1>5, <1>10
  <2> QED  BY <2>1, <2>2, <1>12
<1>16. LogOK(Snapshot, now)'
  <2>1. ASSUME NEW j \in 1..(n + 1)
        PROVE  LET x == settlements'[j] IN
               /\ x.merchant \in Merchants
               /\ x.nonce \in DOMAIN registered[x.merchant]
               /\ CarriesOut(x, registered[x.merchant][x.nonce])
               /\ now < x.timestamp + PurgeDelay =>
                     /\ orders[<<x.merchant, x.orderId>>].settled
                     /\ orders[<<x.merchant, x.orderId>>].nonce = x.nonce
                     /\ orders[<<x.merchant, x.orderId>>].settledAt = x.timestamp
    <3>1. CASE j \in 1..n
      BY <3>1, <1>2, <1>11, <1>12 DEF LogOK, Snapshot
    <3>2. CASE j = n + 1
      BY <3>2, <1>5, <1>8, <1>10, <1>12, <1>13
    <3> QED  BY <3>1, <3>2
  <2>2. ASSUME NEW i \in 1..n
        PROVE  ~(settlements[i].merchant = m /\ settlements[i].nonce = o.nonce)
    BY <1>10, <1>11 DEF PaidFor, Snapshot
  <2>3. ASSUME NEW i \in 1..(n + 1), NEW j \in 1..(n + 1),
               settlements'[i].merchant = settlements'[j].merchant,
               settlements'[i].nonce = settlements'[j].nonce
        PROVE  i = j
    <3>1. CASE i \in 1..n /\ j \in 1..n
      BY <2>3, <3>1, <1>2, <1>11, <1>12 DEF LogOK, Snapshot
    <3>2. CASE i = n + 1 /\ j \in 1..n
      BY <2>2, <2>3, <3>2, <1>8, <1>12
    <3>3. CASE i \in 1..n /\ j = n + 1
      BY <2>2, <2>3, <3>3, <1>8, <1>12
    <3> QED  BY <3>1, <3>2, <3>3
  <2>4. ASSUME NEW i \in 1..(n + 1), NEW j \in 1..(n + 1), i < j,
               settlements'[i].merchant = settlements'[j].merchant,
               settlements'[i].orderId = settlements'[j].orderId
        PROVE  settlements'[j].timestamp >= settlements'[i].timestamp + PurgeDelay
    <3>1. CASE j \in 1..n
      <4>1. i \in 1..n
        BY <2>4, <3>1
      <4> QED  BY <2>4, <3>1, <4>1, <1>2, <1>11, <1>12 DEF LogOK, Snapshot
    <3>2. CASE j = n + 1
      <4>1. i \in 1..n
        BY <2>4, <3>2
      <4>2. settlements[i].merchant = m /\ settlements[i].orderId = id
        BY <2>4, <3>2, <4>1, <1>8, <1>12
      <4>3. CASE now < settlements[i].timestamp + PurgeDelay
        <5>1. orders[<<m, id>>].nonce = settlements[i].nonce
          BY <4>1, <4>2, <4>3, <1>2, <1>11 DEF LogOK, Snapshot
        <5> QED  BY <5>1, <4>1, <4>2, <2>2, <1>5
      <4>4. now \in Nat /\ settlements[i].timestamp \in Nat /\ PurgeDelay \in Nat
        <5>1. settlements[i] \in Settlements
          BY <4>1, <1>7, <1>11
        <5> QED  BY <5>1, StorageTypes, ConstantsTypes DEF Settlements
      <4> QED  BY <3>2, <4>1, <4>3, <4>4, <1>8, <1>12
    <3> QED  BY <3>1, <3>2
  <2> QED  BY <2>1, <2>3, <2>4, <1>1, <1>12 DEF LogOK, Snapshot
<1>17. FundsPassThrough'
  <2>1. InTransit' = 0 /\ InTransit = 0
    BY <1>1 DEF InTransit, Idle
  <2> QED  BY <2>1, <1>1, <1>2 DEF FundsPassThrough
<1>18. Idle'
  BY <1>1 DEF Idle
<1> QED
  BY <1>14, <1>15, <1>16, <1>17, <1>18 DEF PaymentInv, StorageInv

\* A reverted payment brings back a storage in order.
LEMMA RevertPaymentInv ==
    ASSUME TypeOK, PaymentInv, RevertPayment
    PROVE  PaymentInv'
<1>1. /\ orders' = saved.orders /\ orderNonces' = saved.orderNonces
      /\ balance' = saved.balance /\ registered' = saved.registered
      /\ settlements' = saved.settlements /\ stray' = saved.stray
      /\ call' = NoCall /\ now' = now /\ ~Idle
  BY DEF RevertPayment
<1>2. StorageInv(saved, now) /\ saved.balance = saved.stray /\ StorageOK(saved)
  BY <1>1 DEF PaymentInv, TypeOK
<1>3. /\ Snapshot'.orders = saved.orders
      /\ Snapshot'.orderNonces = saved.orderNonces
      /\ Snapshot'.registered = saved.registered
      /\ Snapshot'.settlements = saved.settlements
  BY <1>1 DEF Snapshot
<1>4. StorageInv(Snapshot, now)'
  BY <1>1, <1>2, <1>3, SameOrdersAndLogs
<1>5. Idle' /\ InTransit' = 0
  BY <1>1 DEF Idle, InTransit
<1>6. FundsPassThrough'
  BY <1>1, <1>2, <1>5 DEF FundsPassThrough, StorageOK
<1> QED  BY <1>4, <1>5, <1>6 DEF PaymentInv

\* Every step keeps the inductive invariant.
LEMMA PaymentStepInv ==
    ASSUME TypeOK, PaymentInv, [Next]_vars
    PROVE  PaymentInv'
<1>1. ASSUME NEW m \in Merchants, MerchantStep(m)
      PROVE  PaymentInv'
  <2>1. ASSUME NEW id \in OrderIds, NEW t \in Currencies, NEW a \in Amounts,
               NEW e \in Expiries, NEW p \in PayerOrAnyone,
               RegisterOrder(m, id, t, a, e, p)
        PROVE  PaymentInv'
    <3>1. <<id>> \in Seq(OrderIds)
      OBVIOUS
    <3> QED  BY <2>1, <3>1, RegisterAllInv DEF RegisterOrder
  <2>2. ASSUME NEW ids \in Batches, NEW t \in Currencies, NEW a \in Amounts,
               NEW e \in Expiries, RegisterOrderBatch(m, ids, t, a, e)
        PROVE  PaymentInv'
    <3>1. ZeroAddress \in PayerOrAnyone
      BY DEF PayerOrAnyone
    <3> QED  BY <2>2, <3>1, BatchIsSeq, RegisterAllInv DEF RegisterOrderBatch
  <2>3. ASSUME NEW r \in Relayers, NEW id \in OrderIds, NEW t \in Currencies,
               NEW a \in Amounts, NEW e \in Expiries,
               RegisterOrderFor(r, m, id, t, a, e)
        PROVE  PaymentInv'
    <3>1. <<id>> \in Seq(OrderIds) /\ ZeroAddress \in PayerOrAnyone
      BY DEF PayerOrAnyone
    <3> QED  BY <2>3, <3>1, RegisterAllInv DEF RegisterOrderFor
  <2>4. ASSUME NEW id \in OrderIds, CancelOrder(m, id) \/ PurgeSettledOrder(m, id)
        PROVE  PaymentInv'
    <3>1. <<m, id>> \in Keys
      BY DEF Keys
    <3> QED  BY <2>4, <3>1, DeleteOrderInv DEF CancelOrder, PurgeSettledOrder
  <2> QED  BY <1>1, <2>1, <2>2, <2>3, <2>4 DEF MerchantStep
<1>2. ASSUME PaymentStep
      PROVE  PaymentInv'
  BY <1>2, PayRegisteredInv, PaySignedOrderInv, TransferNetInv,
     FinishPaymentInv, RevertPaymentInv
     DEF PaymentStep, PayOrder, PayOrderNative
<1>3. ASSUME UNCHANGED vars
      PROVE  PaymentInv'
  <2>1. UNCHANGED <<now, orders, orderNonces, registered, settlements, call, saved,
                    balance, stray>>
    BY <1>3 DEF vars, storage
  <2>2. balance' = balance + 0 /\ stray' = stray + 0
    BY <2>1, StorageTypes
  <2> QED  BY <2>1, <2>2, SideStepInv
<1> QED
  BY <1>1, <1>2, <1>3, AdminInv, ForceFundsInv, TickInv DEF Next

LEMMA PaymentInit == Init => PaymentInv
<1> SUFFICES ASSUME Init PROVE PaymentInv
  OBVIOUS
<1>1. \A m \in Merchants, id \in OrderIds : orders[<<m, id>>] = EmptyOrder
  BY DEF Init, Keys
<1>2. OrdersOnRecord(Snapshot) /\ OpenIsUnpaid(Snapshot)
  <2>1. ~EmptyOrder.exists
    BY DEF EmptyOrder
  <2>2. \A m \in Merchants : orderNonces[m] = 0 /\ Len(registered[m]) = 0
    BY DEF Init
  <2> QED  BY <1>1, <2>1, <2>2 DEF OrdersOnRecord, OpenIsUnpaid, Snapshot
<1>3. LogOK(Snapshot, now)
  BY DEF Init, LogOK, Snapshot
<1>4. FundsPassThrough /\ Idle
  BY DEF Init, FundsPassThrough, InTransit, Idle
<1> QED  BY <1>2, <1>3, <1>4 DEF PaymentInv, StorageInv

\* The inductive invariant holds throughout.
THEOREM PaymentCorrect == Spec => []PaymentInv
<1>1. TypeOK /\ PaymentInv /\ [Next]_vars => PaymentInv'
  BY PaymentStepInv
<1> QED  BY TypeCorrect, PaymentInit, <1>1, PTL DEF Spec

-----------------------------------------------------------------------------
(* The promises.                                                           *)

\* No registration is ever paid twice, for any number of merchants, ids, customers,
\* blocks and nested calls.
THEOREM PaidOnceAlways == Spec => []PaidOnce
<1>1. PaymentInv => PaidOnce
  BY DEF PaymentInv, StorageInv, LogOK, PaidOnce, Snapshot
<1> QED  BY PaymentCorrect, <1>1, PTL

\* Every payment carries out the terms locked by the registration its event names.
THEOREM SettledAsRegisteredAlways == Spec => []SettledAsRegistered
<1>1. PaymentInv => SettledAsRegistered
  BY DEF PaymentInv, StorageInv, LogOK, SettledAsRegistered, Snapshot
<1> QED  BY PaymentCorrect, <1>1, PTL

\* An order id is paid again only once its paid order could be purged.
THEOREM PaidAgainOnlyAfterPurgeAlways == Spec => []PaidAgainOnlyAfterPurge
<1>1. PaymentInv => PaidAgainOnlyAfterPurge
  BY DEF PaymentInv, StorageInv, LogOK, PaidAgainOnlyAfterPurge, Snapshot
<1> QED  BY PaymentCorrect, <1>1, PTL

\* A paid order stays on record, as its event reports it, until it may be purged.
THEOREM RecentPaymentOnRecordAlways == Spec => []RecentPaymentOnRecord
<1>1. PaymentInv => RecentPaymentOnRecord
  BY DEF PaymentInv, StorageInv, LogOK, RecentPaymentOnRecord, Snapshot
<1> QED  BY PaymentCorrect, <1>1, PTL

\* The contract holds no funds of its customers but those of the payment in
\* progress.
THEOREM FundsPassThroughAlways == Spec => []FundsPassThrough
<1>1. PaymentInv => FundsPassThrough
  BY DEF PaymentInv
<1> QED  BY PaymentCorrect, <1>1, PTL

=============================================================================
