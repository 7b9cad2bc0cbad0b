--------------------------- MODULE OrderFateProofs ---------------------------
(***************************************************************************)
(* PayWithQuai implements OrderFate: each step of the contract, seen on    *)
(* the storage that a revert would bring back, is a transaction of         *)
(* OrderFate or changes no registration.                                   *)
(***************************************************************************)
EXTENDS PayWithQuaiProofs

-----------------------------------------------------------------------------
(* Fates of a storage.                                                     *)

\* What became of the n-th registration of merchant m, by storage s.
FateIn(s, m, n) ==
    IF n > Len(s.registered[m]) THEN "unused"
    ELSE IF PaidFor(s, m, n) THEN "paid"
    ELSE IF \E id \in OrderIds : s.orders[<<m, id>>].exists /\ s.orders[<<m, id>>].nonce = n
         THEN "open"
    ELSE "void"

\* Storage u comes after s: it drops no registration, and the orders on record in it
\* under the nonces of s were so in s.
Advances(s, u) ==
    /\ \A m \in Merchants : Len(s.registered[m]) <= Len(u.registered[m])
    /\ \A m \in Merchants, id \in OrderIds :
          /\ u.orders[<<m, id>>].exists
          /\ u.orders[<<m, id>>].nonce <= Len(s.registered[m])
          => /\ s.orders[<<m, id>>].exists
             /\ s.orders[<<m, id>>].nonce = u.orders[<<m, id>>].nonce

\* Each payment that s logs is of a registration in s.
LogsKnown(s) ==
    \A i \in DOMAIN s.settlements :
        s.settlements[i].nonce \in DOMAIN s.registered[s.settlements[i].merchant]

\* From s to u nothing more is logged than entry, if that, of an order on record in u.
LogsOnly(s, u, entry) ==
    \/ u.settlements = s.settlements
    \/ /\ u.settlements = Append(s.settlements, entry)
       /\ \E id \in OrderIds :
             /\ u.orders[<<entry.merchant, id>>].exists
             /\ u.orders[<<entry.merchant, id>>].nonce = entry.nonce

\* Within a payment the storage has come some way from the one a revert would restore,
\* and nothing is logged as paid before the payment ends.
FateInv ==
    ~Idle => /\ Advances(saved, Snapshot)
             /\ settlements = saved.settlements

LEMMA AdvancesReflexive ==
    ASSUME NEW s, \A m \in Merchants : Len(s.registered[m]) \in Nat
    PROVE  Advances(s, s)
BY DEF Advances

LEMMA AdvancesTransitive ==
    ASSUME NEW s, NEW t, NEW u, Advances(s, t), Advances(t, u),
           \A m \in Merchants : /\ Len(s.registered[m]) \in Nat
                                /\ Len(t.registered[m]) \in Nat
                                /\ Len(u.registered[m]) \in Nat,
           \A m \in Merchants, id \in OrderIds :
              u.orders[<<m, id>>].exists => u.orders[<<m, id>>].nonce \in Nat
    PROVE  Advances(s, u)
<1>1. \A m \in Merchants : Len(s.registered[m]) <= Len(u.registered[m])
  <2> SUFFICES ASSUME NEW m \in Merchants
               PROVE  Len(s.registered[m]) <= Len(u.registered[m])
    OBVIOUS
  <2>1. /\ Len(s.registered[m]) <= Len(t.registered[m])
        /\ Len(t.registered[m]) <= Len(u.registered[m])
    BY DEF Advances
  <2> QED  BY <2>1
<1>2. ASSUME NEW m \in Merchants, NEW id \in OrderIds,
             u.orders[<<m, id>>].exists,
             u.orders[<<m, id>>].nonce <= Len(s.registered[m])
      PROVE  /\ s.orders[<<m, id>>].exists
             /\ s.orders[<<m, id>>].nonce = u.orders[<<m, id>>].nonce
  <2>1. Len(s.registered[m]) <= Len(t.registered[m])
    BY DEF Advances
  <2>2. u.orders[<<m, id>>].nonce <= Len(t.registered[m])
    BY <1>2, <2>1
  <2>3. t.orders[<<m, id>>].exists /\ t.orders[<<m, id>>].nonce = u.orders[<<m, id>>].nonce
    BY <1>2, <2>2 DEF Advances
  <2> QED  BY <1>2, <2>3 DEF Advances
<1> QED  BY <1>1, <1>2 DEF Advances

\* Only the orders and the registrations matter.
LEMMA AdvancesSame ==
    ASSUME NEW s, NEW t, NEW u, NEW v, Advances(s, t),
           u.orders = s.orders, u.registered = s.registered,
           v.orders = t.orders, v.registered = t.registered
    PROVE  Advances(u, v)
BY DEF Advances

\* What the types say of the storage and of the one a revert would restore.
LEMMA StorageLengths ==
    ASSUME NEW s, StorageOK(s)
    PROVE  /\ \A m \in Merchants : /\ Len(s.registered[m]) \in Nat
                                   /\ DOMAIN s.registered[m] = 1..Len(s.registered[m])
           /\ s.settlements \in Seq(Settlements)
           /\ \A m \in Merchants, id \in OrderIds :
                 s.orders[<<m, id>>].exists => s.orders[<<m, id>>].nonce \in Nat
<1>1. s.registered \in [Merchants -> Seq(Terms)] /\ s.settlements \in Seq(Settlements)
  BY DEF StorageOK
<1>2. \A m \in Merchants, id \in OrderIds : s.orders[<<m, id>>] \in Orders \cup {EmptyOrder}
  BY DEF StorageOK, Keys
<1>3. \A m \in Merchants, id \in OrderIds :
         s.orders[<<m, id>>].exists => s.orders[<<m, id>>] \in Orders
  BY <1>2 DEF EmptyOrder
<1>4. \A o \in Orders : o.nonce \in Nat
  BY DEF Orders
<1> QED  BY <1>1, <1>3, <1>4

-----------------------------------------------------------------------------
(* Every step but the end of a payment advances the storage and logs nothing. *)

Moves == /\ Advances(Snapshot, Snapshot')
         /\ UNCHANGED settlements

LEMMA QuietMoves ==
    ASSUME TypeOK, UNCHANGED <<orders, registered, settlements>>
    PROVE  Moves
<1>1. Snapshot.orders = Snapshot'.orders /\ Snapshot.registered = Snapshot'.registered
  BY DEF Snapshot
<1>2. Advances(Snapshot, Snapshot)
  BY StorageLengths, AdvancesReflexive DEF TypeOK
<1> QED  BY <1>1, <1>2, AdvancesSame DEF Moves

\* A registration takes slots that were free, under nonces that are new.
LEMMA RegisterMoves ==
    ASSUME TypeOK, PaymentInv, NEW m \in Merchants, NEW ids \in Seq(OrderIds),
           NEW token \in Currencies, NEW amount \in Amounts,
           NEW expiry \in Expiries, NEW payer \in PayerOrAnyone,
           RegisterAll(m, ids, token, amount, expiry, payer)
    PROVE  Moves
<1> DEFINE terms(id) == [orderId |-> id, token |-> token, amount |-> amount,
                         expiry |-> expiry, feeBps |-> config.feeBps,
                         feeRecipient |-> config.feeRecipient,
                         expectedPayer |-> payer]
           entries == [i \in DOMAIN ids |-> terms(ids[i])]
           new(k) == k[1] = m /\ \E i \in DOMAIN ids : ids[i] = k[2]
<1>1. /\ registered \in [Merchants -> Seq(Terms)]
      /\ orderNonces \in [Merchants -> Nat]
  BY StorageTypes
<1>2. orderNonces[m] = Len(registered[m]) /\ orderNonces[m] \in Nat
  BY <1>1 DEF PaymentInv, StorageInv, OrdersOnRecord, Snapshot
<1>3. registered' = [registered EXCEPT ![m] = @ \o entries] /\ UNCHANGED settlements
  BY DEF RegisterAll
<1>4. entries \in Seq({terms(id) : id \in OrderIds})
  <2>1. \A i \in 1..Len(ids) : ids[i] \in OrderIds
    OBVIOUS
  <2> QED  BY <2>1
<1>5. \A x \in Merchants : Len(registered[x]) <= Len(registered'[x])
  <2>1. Len(registered'[m]) = Len(registered[m]) + Len(entries) /\ Len(entries) \in Nat
    <3> HIDE DEF entries
    <3>1. registered'[m] = registered[m] \o entries
      BY <1>1, <1>3
    <3>2. \A S, T : \A u \in Seq(S), v \in Seq(T) :
             Len(u \o v) = Len(u) + Len(v) /\ Len(v) \in Nat
      OBVIOUS
    <3> QED  BY <1>1, <1>4, <3>1, <3>2
  <2>2. \A x \in Merchants \ {m} : registered'[x] = registered[x]
    BY <1>1, <1>3
  <2>3. \A x \in Merchants : Len(registered[x]) \in Nat
    BY <1>1
  <2> HIDE DEF entries
  <2>4. Len(registered[m]) <= Len(registered'[m])
    BY <2>1, <2>3
  <2> QED  BY <2>2, <2>3, <2>4
<1>6. ASSUME NEW x \in Merchants, NEW id \in OrderIds,
             orders'[<<x, id>>].exists, orders'[<<x, id>>].nonce <= Len(registered[x])
      PROVE  orders'[<<x, id>>] = orders[<<x, id>>]
  <2> DEFINE k == <<x, id>>
  <2>1. k \in Keys
    BY DEF Keys
  <2>2. orders'[k] = IF new(k)
                     THEN LET i == CHOOSE j \in DOMAIN ids : ids[j] = k[2]
                          IN  OrderFor(m, terms(ids[i]), NonceFor(m, i), FALSE, 0)
                     ELSE orders[k]
    BY <2>1 DEF RegisterAll
  <2>3. CASE new(k)
    <3>1. PICK i \in DOMAIN ids :
                 orders'[k] = OrderFor(m, terms(ids[i]), NonceFor(m, i), FALSE, 0)
      BY <2>2, <2>3
    <3>2. orders'[k].nonce = orderNonces[m] + i
      BY <3>1 DEF OrderFor, NonceFor
    <3>3. i \in Nat \ {0} /\ x = m
      BY <2>3
    <3> QED  BY <1>2, <1>6, <3>2, <3>3
  <2>4. CASE ~new(k)
    BY <2>2, <2>4
  <2> QED  BY <2>3, <2>4
<1>7. Advances(Snapshot, Snapshot')
  BY <1>5, <1>6 DEF Advances, Snapshot
<1> QED  BY <1>3, <1>7 DEF Moves

\* A slot is freed.
LEMMA DeleteMoves ==
    ASSUME TypeOK, NEW k \in Keys, DeleteOrder(k)
    PROVE  Moves
<1>1. UNCHANGED <<registered, settlements>>
      /\ \A x \in Merchants, id \in OrderIds :
            orders'[<<x, id>>] \in {orders[<<x, id>>], EmptyOrder}
  BY StorageTypes DEF DeleteOrder, Keys
<1>2. \A x \in Merchants : Len(registered[x]) \in Nat
  BY StorageTypes
<1>3. \A x \in Merchants, id \in OrderIds :
         orders'[<<x, id>>].exists => orders'[<<x, id>>] = orders[<<x, id>>]
  BY <1>1 DEF EmptyOrder
<1> QED  BY <1>1, <1>2, <1>3 DEF Moves, Advances, Snapshot

\* A payment marks its order, or creates it under a new nonce.
LEMMA PayMoves ==
    ASSUME TypeOK, PaymentInv,
           \/ \E p \in Payers, m \in Merchants, id \in OrderIds : PayRegistered(p, m, id)
           \/ \E p \in Payers, s \in Signers, m \in Merchants, t \in SignedOrders :
                 PaySignedOrder(p, s, m, t)
    PROVE  Moves
<1>1. /\ orders \in [Keys -> Orders \cup {EmptyOrder}]
      /\ orderNonces \in [Merchants -> Nat]
      /\ registered \in [Merchants -> Seq(Terms)]
  BY StorageTypes
<1>2. \A m \in Merchants : Len(registered[m]) \in Nat /\ orderNonces[m] = Len(registered[m])
  BY <1>1 DEF PaymentInv, StorageInv, OrdersOnRecord, Snapshot
<1>3. ASSUME NEW p \in Payers, NEW m \in Merchants, NEW id \in OrderIds,
             PayRegistered(p, m, id)
      PROVE  Moves
  <2> DEFINE o == orders[<<m, id>>]
  <2>1. orders' = [orders EXCEPT ![<<m, id>>] = Settled(o, now)]
        /\ o.exists /\ UNCHANGED <<registered, settlements>>
    BY <1>3 DEF PayRegistered
  <2>2. o \in Orders
    <3>1. <<m, id>> \in Keys  BY DEF Keys
    <3> QED  BY <2>1, <3>1, SlotTypes
  <2>3. Settled(o, now).exists = o.exists /\ Settled(o, now).nonce = o.nonce
    BY <2>2 DEF Settled, Orders
  <2>4. \A x \in Merchants, y \in OrderIds :
           /\ orders'[<<x, y>>].exists = orders[<<x, y>>].exists
           /\ orders'[<<x, y>>].nonce = orders[<<x, y>>].nonce
    BY <1>1, <2>1, <2>3 DEF Keys
  <2> QED  BY <1>2, <2>1, <2>4 DEF Moves, Advances, Snapshot
<1>4. ASSUME NEW p \in Payers, NEW s \in Signers, NEW m \in Merchants,
             NEW t \in SignedOrders, PaySignedOrder(p, s, m, t)
      PROVE  Moves
  <2>1. /\ orders' = [orders EXCEPT ![<<m, t.orderId>>]
                        = OrderFor(m, t, NonceFor(m, 1), TRUE, now)]
        /\ registered' = [registered EXCEPT ![m] = Append(@, t)]
        /\ UNCHANGED settlements
    BY <1>4 DEF PaySignedOrder
  <2>2. OrderFor(m, t, NonceFor(m, 1), TRUE, now).nonce = orderNonces[m] + 1
    BY DEF OrderFor, NonceFor
  <2>3. \A x \in Merchants : Len(registered[x]) <= Len(registered'[x])
    <3>1. Len(Append(registered[m], t)) = Len(registered[m]) + 1
      <4>1. \A S : \A u \in Seq(S) : Len(Append(u, t)) = Len(u) + 1
        OBVIOUS
      <4> QED  BY <1>1, <4>1
    <3> QED  BY <1>1, <1>2, <2>1, <3>1
  <2>4. \A x \in Merchants, y \in OrderIds :
           \/ orders'[<<x, y>>] = orders[<<x, y>>]
           \/ x = m /\ orders'[<<x, y>>].nonce = orderNonces[m] + 1
    BY <1>1, <2>1, <2>2 DEF Keys
  <2>5. ASSUME NEW x \in Merchants, NEW y \in OrderIds,
               orders'[<<x, y>>].nonce <= Len(registered[x])
        PROVE  orders'[<<x, y>>] = orders[<<x, y>>]
    BY <1>2, <2>4, <2>5
  <2> QED  BY <2>1, <2>3, <2>5 DEF Moves, Advances, Snapshot
<1> QED  BY <1>3, <1>4

LEMMA MerchantMoves ==
    ASSUME TypeOK, PaymentInv, NEW m \in Merchants, MerchantStep(m)
    PROVE  Moves
<1>1. ASSUME NEW id \in OrderIds, NEW t \in Currencies, NEW a \in Amounts,
             NEW e \in Expiries, NEW p \in PayerOrAnyone,
             RegisterOrder(m, id, t, a, e, p)
      PROVE  Moves
  <2>1. <<id>> \in Seq(OrderIds)
    OBVIOUS
  <2> QED  BY <1>1, <2>1, RegisterMoves DEF RegisterOrder
<1>2. ASSUME NEW ids \in Batches, NEW t \in Currencies, NEW a \in Amounts,
             NEW e \in Expiries, RegisterOrderBatch(m, ids, t, a, e)
      PROVE  Moves
  <2>1. ZeroAddress \in PayerOrAnyone
    BY DEF PayerOrAnyone
  <2> QED  BY <1>2, <2>1, BatchIsSeq, RegisterMoves DEF RegisterOrderBatch
<1>3. ASSUME NEW r \in Relayers, NEW id \in OrderIds, NEW t \in Currencies,
             NEW a \in Amounts, NEW e \in Expiries,
             RegisterOrderFor(r, m, id, t, a, e)
      PROVE  Moves
  <2>1. <<id>> \in Seq(OrderIds) /\ ZeroAddress \in PayerOrAnyone
    BY DEF PayerOrAnyone
  <2> QED  BY <1>3, <2>1, RegisterMoves DEF RegisterOrderFor
<1>4. ASSUME NEW id \in OrderIds, CancelOrder(m, id) \/ PurgeSettledOrder(m, id)
      PROVE  Moves
  <2>1. <<m, id>> \in Keys
    BY DEF Keys
  <2> QED  BY <1>4, <2>1, DeleteMoves DEF CancelOrder, PurgeSettledOrder
<1> QED  BY <1>1, <1>2, <1>3, <1>4 DEF MerchantStep

\* The owner's calls and the chain leave orders and logs alone.
LEMMA OutsideMoves ==
    ASSUME TypeOK,
           \/ AdminStep
           \/ \E a \in {1} \cup Amounts : ForceFunds(a)
           \/ Tick \/ TransferNet \/ UNCHANGED vars
    PROVE  Moves /\ UNCHANGED saved /\ (Idle' <=> Idle)
<1>1. UNCHANGED <<orders, registered, settlements, saved>> /\ (Idle' <=> Idle)
  <2>1. CASE AdminStep
    BY <2>1 DEF AdminStep, SetFeeConfig, SetTokenAccepted, SetRelayer, SetSigner,
                InitializeSigning, SetPauseGuardian, Pause, Unpause, RescueTokens, Configure, Idle
  <2>2. CASE (\E a \in {1} \cup Amounts : ForceFunds(a)) \/ Tick \/ UNCHANGED vars
    BY <2>2 DEF ForceFunds, Tick, vars, storage, Idle
  <2>3. CASE TransferNet
    <3>1. call # NoCall /\ call'.phase = "net" /\ call' # NoCall
      <4>1. ~Idle
        BY <2>3 DEF TransferNet, Idle, NoCall
      <4>2. call \in Calls /\ PayeeNow \in Merchants \cup {ZeroAddress}
        BY <4>1, PayeeAndNonceType
      <4>3. call'.phase = "net"
        BY <2>3, <4>2, NetPhaseCall DEF TransferNet
      <4> QED  BY <4>1, <4>3 DEF Idle, NoCall
    <3> QED  BY <2>3, <3>1 DEF TransferNet, Idle
  <2> QED  BY <2>1, <2>2, <2>3
<1> QED  BY <1>1, QuietMoves

\* How a payment ends: its order is on record in the storage it logs the payment in.
LEMMA FinishLogs ==
    ASSUME TypeOK, PaymentInv, FinishPayment
    PROVE  /\ ~Idle /\ Idle'
           /\ UNCHANGED <<orders, registered>>
           /\ \E entry :
                 /\ settlements' = Append(settlements, entry)
                 /\ \E id \in OrderIds :
                       /\ orders[<<entry.merchant, id>>].exists
                       /\ orders[<<entry.merchant, id>>].nonce = entry.nonce
<1>1. /\ ~Idle /\ Idle' /\ UNCHANGED <<orders, registered>>
  BY DEF FinishPayment, Idle, NoCall
<1> DEFINE entry == [merchant |-> PayeeNow, orderId |-> call.key[2], nonce |-> NonceNow,
                     payer |-> call.payer, token |-> call.token, amount |-> call.amount,
                     fee |-> call.fee, net |-> call.net, timestamp |-> now,
                     feeTo |-> call.feeTo, netTo |-> call.netTo]
<1>2. settlements' = Append(settlements, entry)
  BY DEF FinishPayment
<1>3. entry.merchant = call.key[1] /\ entry.nonce = orders[call.key].nonce
  BY <1>1, PayeeAndNonceNow
<1>4. /\ call.key[2] \in OrderIds
      /\ orders[<<call.key[1], call.key[2]>>].exists
      /\ <<call.key[1], call.key[2]>> = call.key
  BY <1>1, CallKey DEF PaymentInv, CallInv
<1> HIDE DEF entry
<1> QED  BY <1>1, <1>2, <1>3, <1>4

-----------------------------------------------------------------------------
(* From storages to fates.                                                 *)

\* The storage s becomes u, in which at most one payment more is logged, of an order that
\* is on record: what OrderFate allows.
LEMMA FateStep ==
    ASSUME NEW s, NEW u, NEW entry, StorageOK(s), StorageOK(u), Advances(s, u),
           LogsKnown(s), LogsOnly(s, u, entry),
           NEW m \in Merchants, NEW n \in 1..MaxOrders
    PROVE  /\ FateIn(u, m, n) \in Fate!Later(FateIn(s, m, n))
           /\ FateIn(s, m, n) # "paid" /\ FateIn(u, m, n) = "paid"
                 => entry.merchant = m /\ entry.nonce = n
<1> DEFINE OpenIn(r) == \E id \in OrderIds : /\ r.orders[<<m, id>>].exists
                                             /\ r.orders[<<m, id>>].nonce = n
<1>1. /\ Len(s.registered[m]) \in Nat /\ Len(u.registered[m]) \in Nat
      /\ DOMAIN s.registered[m] = 1..Len(s.registered[m])
      /\ Len(s.registered[m]) <= Len(u.registered[m])
      /\ s.settlements \in Seq(Settlements)
  BY StorageLengths DEF Advances
<1>2. PaidFor(s, m, n) => n <= Len(s.registered[m]) /\ PaidFor(u, m, n)
  <2> SUFFICES ASSUME PaidFor(s, m, n)
               PROVE  n <= Len(s.registered[m]) /\ PaidFor(u, m, n)
    OBVIOUS
  <2>1. PICK i \in DOMAIN s.settlements :
               s.settlements[i].merchant = m /\ s.settlements[i].nonce = n
    BY DEF PaidFor
  <2>2. n \in DOMAIN s.registered[m]
    BY <2>1 DEF LogsKnown
  <2>3. i \in DOMAIN u.settlements /\ u.settlements[i] = s.settlements[i]
    BY <1>1, <2>1 DEF LogsOnly
  <2> QED  BY <1>1, <2>1, <2>2, <2>3 DEF PaidFor
<1>3. PaidFor(u, m, n) /\ ~PaidFor(s, m, n)
         => entry.merchant = m /\ entry.nonce = n /\ OpenIn(u)
  <2> SUFFICES ASSUME PaidFor(u, m, n), ~PaidFor(s, m, n)
               PROVE  entry.merchant = m /\ entry.nonce = n /\ OpenIn(u)
    OBVIOUS
  <2>1. u.settlements = Append(s.settlements, entry)
        /\ \E id \in OrderIds : /\ u.orders[<<entry.merchant, id>>].exists
                                /\ u.orders[<<entry.merchant, id>>].nonce = entry.nonce
    BY DEF PaidFor, LogsOnly
  <2>2. PICK i \in DOMAIN u.settlements :
               u.settlements[i].merchant = m /\ u.settlements[i].nonce = n
    BY DEF PaidFor
  <2>3. i \in DOMAIN s.settlements => u.settlements[i] = s.settlements[i]
    BY <1>1, <2>1
  <2>4. i \notin DOMAIN s.settlements
    BY <2>2, <2>3 DEF PaidFor
  <2>5. u.settlements[i] = entry
    BY <1>1, <2>1, <2>2, <2>4
  <2> QED  BY <2>1, <2>2, <2>5
<1>4. OpenIn(u) /\ n <= Len(s.registered[m]) => OpenIn(s)
  BY DEF Advances
<1>5. n \in Nat
  OBVIOUS
<1>6. /\ FateIn(s, m, n) = IF n > Len(s.registered[m]) THEN "unused"
                           ELSE IF PaidFor(s, m, n) THEN "paid"
                           ELSE IF OpenIn(s) THEN "open" ELSE "void"
      /\ FateIn(u, m, n) = IF n > Len(u.registered[m]) THEN "unused"
                           ELSE IF PaidFor(u, m, n) THEN "paid"
                           ELSE IF OpenIn(u) THEN "open" ELSE "void"
  BY DEF FateIn
<1> HIDE DEF OpenIn
<1>7. FateIn(s, m, n) # "paid" /\ FateIn(u, m, n) = "paid"
         => entry.merchant = m /\ entry.nonce = n
  BY <1>1, <1>2, <1>3, <1>5, <1>6
<1>8. FateIn(u, m, n) \in Fate!Later(FateIn(s, m, n))
  <2>1. CASE n > Len(s.registered[m])
    BY <2>1, <1>6 DEF Fate!Later, Fate!Fates
  <2>2. CASE n <= Len(s.registered[m]) /\ PaidFor(s, m, n)
    BY <2>2, <1>1, <1>2, <1>5, <1>6 DEF Fate!Later
  <2>3. CASE n <= Len(s.registered[m]) /\ ~PaidFor(s, m, n) /\ OpenIn(s)
    BY <2>3, <1>1, <1>5, <1>6 DEF Fate!Later
  <2>4. CASE n <= Len(s.registered[m]) /\ ~PaidFor(s, m, n) /\ ~OpenIn(s)
    BY <2>4, <1>1, <1>3, <1>4, <1>5, <1>6 DEF Fate!Later
  <2> QED  BY <1>1, <1>5, <2>1, <2>2, <2>3, <2>4
<1> QED  BY <1>7, <1>8

\* Paying takes the storage of that moment as what a revert restores.
LEMMA PayBegins ==
    ASSUME \/ \E p \in Payers, m \in Merchants, id \in OrderIds : PayRegistered(p, m, id)
           \/ \E p \in Payers, s \in Signers, m \in Merchants, t \in SignedOrders :
                 PaySignedOrder(p, s, m, t)
    PROVE  Idle /\ ~Idle' /\ saved' = Snapshot
<1>1. ASSUME NEW c, BeginTransfers(c)
      PROVE  ~Idle' /\ saved' = Snapshot
  <2>1. call'.phase \in {"fee", "net"} /\ saved' = Snapshot
    BY <1>1 DEF BeginTransfers
  <2> QED  BY <2>1 DEF Idle, NoCall
<1> QED  BY <1>1 DEF PayRegistered, PaySignedOrder

\* The kinds of step there are.
LEMMA StepKinds ==
    ASSUME TypeOK, PaymentInv, [Next]_vars
    PROVE  \/ Moves /\ UNCHANGED saved /\ (Idle' <=> Idle)
           \/ Moves /\ Idle /\ ~Idle' /\ saved' = Snapshot
           \/ FinishPayment
           \/ RevertPayment
<1>1. ASSUME NEW m \in Merchants, MerchantStep(m)
      PROVE  Moves /\ UNCHANGED saved /\ (Idle' <=> Idle)
  <2>1. UNCHANGED <<call, saved>>
    <3>1. \A ids, token, amount, expiry, payer :
             RegisterAll(m, ids, token, amount, expiry, payer) => UNCHANGED <<call, saved>>
      BY DEF RegisterAll
    <3>2. \A k : DeleteOrder(k) => UNCHANGED <<call, saved>>
      BY DEF DeleteOrder
    <3> QED
      BY <1>1, <3>1, <3>2
         DEF MerchantStep, RegisterOrder, RegisterOrderBatch, RegisterOrderFor, CancelOrder,
             PurgeSettledOrder
  <2>2. UNCHANGED saved /\ (Idle' <=> Idle)
    BY <2>1 DEF Idle
  <2> QED  BY <1>1, <2>2, MerchantMoves
<1>2. ASSUME PaymentStep
      PROVE  \/ Moves /\ UNCHANGED saved /\ (Idle' <=> Idle)
             \/ Moves /\ Idle /\ ~Idle' /\ saved' = Snapshot
             \/ FinishPayment
             \/ RevertPayment
  BY <1>2, OutsideMoves, PayMoves, PayBegins DEF PaymentStep, PayOrder, PayOrderNative
<1> QED  BY <1>1, <1>2, OutsideMoves DEF Next

LEMMA FateInvStep ==
    ASSUME TypeOK, TypeOK', PaymentInv, FateInv, [Next]_vars
    PROVE  FateInv'
<1>1. StorageOK(Snapshot) /\ StorageOK(Snapshot)'
  BY DEF TypeOK
<1>2. CASE Moves /\ UNCHANGED saved /\ (Idle' <=> Idle)
  <2> SUFFICES ASSUME ~Idle
               PROVE  Advances(saved, Snapshot)' /\ settlements' = saved'.settlements
    BY <1>2 DEF FateInv
  <2>1. /\ Advances(saved, Snapshot) /\ settlements = saved.settlements
        /\ Advances(Snapshot, Snapshot') /\ UNCHANGED <<settlements, saved>>
        /\ StorageOK(saved)
    BY <1>2 DEF FateInv, Moves, TypeOK
  <2>2. /\ \A m \in Merchants : /\ Len(saved.registered[m]) \in Nat
                                /\ Len(Snapshot.registered[m]) \in Nat
        /\ \A m \in Merchants : Len(Snapshot'.registered[m]) \in Nat
        /\ \A m \in Merchants, id \in OrderIds :
              Snapshot'.orders[<<m, id>>].exists => Snapshot'.orders[<<m, id>>].nonce \in Nat
    BY <1>1, <2>1, StorageLengths
  <2>3. Advances(saved, Snapshot')
    BY <2>1, <2>2, AdvancesTransitive
  <2> QED  BY <2>1, <2>3
<1>3. CASE Moves /\ Idle /\ ~Idle' /\ saved' = Snapshot
  <2>1. Snapshot.settlements = settlements
    BY DEF Snapshot
  <2> QED  BY <1>3, <2>1 DEF FateInv, Moves
<1>4. CASE FinishPayment
  BY <1>4, FinishLogs DEF FateInv
<1>5. CASE RevertPayment
  BY <1>5 DEF RevertPayment, FateInv, Idle
<1> QED  BY <1>2, <1>3, <1>4, <1>5, StepKinds

\* How the committed storage changes in a step.
LEMMA CommittedStep ==
    ASSUME TypeOK, TypeOK', PaymentInv, FateInv, [Next]_vars
    PROVE  /\ StorageOK(Committed) /\ StorageOK(Committed')
           /\ Advances(Committed, Committed')
           /\ LogsKnown(Committed)
           /\ \E entry : LogsOnly(Committed, Committed', entry)
<1>1. StorageOK(Committed) /\ StorageOK(Committed')
  BY DEF TypeOK, Committed
<1>2. LogsKnown(Committed)
  BY DEF LogsKnown, Committed, PaymentInv, StorageInv, LogOK
<1>3. Advances(Committed, Committed)
  BY <1>1, StorageLengths, AdvancesReflexive
<1>4. CASE Moves /\ UNCHANGED saved /\ (Idle' <=> Idle)
  <2>1. CASE Idle
    <3>1. Committed = Snapshot /\ Committed' = Snapshot'
      BY <1>4, <2>1 DEF Committed
    <3>2. Committed'.settlements = Committed.settlements
      BY <1>4, <3>1 DEF Moves, Snapshot
    <3> QED  BY <1>1, <1>2, <1>4, <3>1, <3>2 DEF Moves, LogsOnly
  <2>2. CASE ~Idle
    <3>1. Committed' = Committed
      BY <1>4, <2>2 DEF Committed
    <3> QED  BY <1>1, <1>2, <1>3, <3>1 DEF LogsOnly
  <2> QED  BY <2>1, <2>2
<1>5. CASE Moves /\ Idle /\ ~Idle' /\ saved' = Snapshot
  <2>1. Committed' = Committed
    BY <1>5 DEF Committed
  <2> QED  BY <1>1, <1>2, <1>3, <2>1 DEF LogsOnly
<1>6. CASE FinishPayment
  <2>1. /\ ~Idle /\ Idle'
        /\ UNCHANGED <<orders, registered>>
        /\ Committed = saved /\ Committed' = Snapshot'
    BY <1>6, FinishLogs DEF Committed
  <2>2. PICK entry :
          /\ settlements' = Append(settlements, entry)
          /\ \E id \in OrderIds :
                /\ orders[<<entry.merchant, id>>].exists
                /\ orders[<<entry.merchant, id>>].nonce = entry.nonce
    BY <1>6, FinishLogs
  <2>3. /\ Snapshot'.orders = orders /\ Snapshot'.registered = registered
        /\ Snapshot.orders = orders /\ Snapshot.registered = registered
        /\ Snapshot'.settlements = settlements'
    BY <2>1 DEF Snapshot
  <2>4. Advances(saved, Snapshot) /\ settlements = saved.settlements
    BY <2>1 DEF FateInv
  <2>5. Advances(saved, Snapshot')
    BY <2>3, <2>4, AdvancesSame
  <2>6. LogsOnly(Committed, Committed', entry)
    BY <2>1, <2>2, <2>3, <2>4 DEF LogsOnly
  <2> QED  BY <1>1, <1>2, <2>1, <2>5, <2>6
<1>7. CASE RevertPayment
  <2>1. Committed = saved /\ Committed' = Snapshot'
    BY <1>7 DEF RevertPayment, Committed, Idle
  <2>2. /\ Committed'.orders = Committed.orders
        /\ Committed'.registered = Committed.registered
        /\ Committed'.settlements = Committed.settlements
    BY <1>7, <2>1 DEF RevertPayment, Snapshot
  <2>3. Advances(Committed, Committed')
    BY <1>3, <2>2, AdvancesSame
  <2> QED  BY <1>1, <1>2, <2>2, <2>3 DEF LogsOnly
<1> QED  BY <1>4, <1>5, <1>6, <1>7, StepKinds

-----------------------------------------------------------------------------
(* The refinement.                                                         *)

\* The refinement mapping: the abstract variable in terms of the contract's storage.
FateNow == [x \in Merchants \X (1..MaxOrders) |-> FateOf(x[1], x[2])]

LEMMA FateOfCommitted == \A m, n : FateOf(m, n) = FateIn(Committed, m, n)
  BY DEF FateOf, FateIn

\* A step of the contract is a transaction of OrderFate.
LEMMA RefinedStep ==
    ASSUME TypeOK, TypeOK', PaymentInv, FateInv, [Next]_vars
    PROVE  FateNow' \in [Fate!Registrations -> Fate!Fates] /\ Fate!Transact
<1> DEFINE Regs == Merchants \X (1..MaxOrders)
<1>1. PICK s : s = Committed
  OBVIOUS
<1>2. PICK u : u = Committed'
  OBVIOUS
<1>3. PICK entry : LogsOnly(s, u, entry)
  BY <1>1, <1>2, CommittedStep
<1>4. StorageOK(s) /\ StorageOK(u) /\ Advances(s, u) /\ LogsKnown(s)
  BY <1>1, <1>2, CommittedStep
<1>5. \A m \in Merchants, n \in 1..MaxOrders :
         /\ FateIn(u, m, n) \in Fate!Later(FateIn(s, m, n))
         /\ FateIn(s, m, n) # "paid" /\ FateIn(u, m, n) = "paid"
               => entry.merchant = m /\ entry.nonce = n
  <2> SUFFICES ASSUME NEW m \in Merchants, NEW n \in 1..MaxOrders
               PROVE  /\ FateIn(u, m, n) \in Fate!Later(FateIn(s, m, n))
                      /\ FateIn(s, m, n) # "paid" /\ FateIn(u, m, n) = "paid"
                            => entry.merchant = m /\ entry.nonce = n
    OBVIOUS
  <2> QED  BY <1>3, <1>4, FateStep
<1>6. \A x \in Regs : FateNow[x] = FateIn(s, x[1], x[2])
  BY <1>1, FateOfCommitted DEF FateNow
<1>7. \A x \in Regs : FateNow'[x] = FateIn(u, x[1], x[2])
  <2>1. \A m, n : FateOf(m, n)' = FateIn(u, m, n)
    BY <1>2 DEF FateOf, FateIn, PaidFor
  <2> QED  BY <2>1 DEF FateNow
<1>8. \A x \in Regs : x[1] \in Merchants /\ x[2] \in 1..MaxOrders /\ x = <<x[1], x[2]>>
  OBVIOUS
<1>9. FateNow' \in [Fate!Registrations -> Fate!Fates]
  <2>1. \A x \in Regs : FateIn(u, x[1], x[2]) \in Fate!Fates
    BY DEF FateIn, Fate!Fates
  <2>2. FateNow' = [x \in Regs |-> FateNow'[x]]
    BY DEF FateNow
  <2> QED  BY <1>7, <2>1, <2>2 DEF Fate!Registrations
<1>10. \A x \in Regs : FateNow'[x] \in Fate!Later(FateNow[x])
  BY <1>5, <1>6, <1>7, <1>8
<1>11. \A x, y \in Regs :
          FateNow[x] # "paid" /\ FateNow'[x] = "paid"
          /\ FateNow[y] # "paid" /\ FateNow'[y] = "paid" => x = y
  BY <1>5, <1>6, <1>7, <1>8
<1>12. Fate!Gapless(FateNow')
  <2> SUFFICES ASSUME NEW m \in Merchants, NEW i \in 1..MaxOrders, NEW j \in 1..MaxOrders,
                      i < j, FateNow'[<<m, j>>] # "unused"
               PROVE  FateNow'[<<m, i>>] # "unused"
    BY DEF Fate!Gapless
  <2>1. FateIn(u, m, j) # "unused"
    BY <1>7
  <2>2. ~(j > Len(u.registered[m])) /\ Len(u.registered[m]) \in Nat
    BY <1>4, <2>1, StorageLengths DEF FateIn
  <2>3. ~(i > Len(u.registered[m]))
    BY <2>2
  <2>4. FateIn(u, m, i) # "unused"
    BY <2>3 DEF FateIn
  <2> QED  BY <1>7, <2>4
<1> QED  BY <1>9, <1>10, <1>11, <1>12 DEF Fate!Transact, Fate!Registrations, FateNow

\* At the start nothing is registered.
LEMMA RefinedInit == Init => Fate!Init
<1> SUFFICES ASSUME Init PROVE Fate!Init
  OBVIOUS
<1>1. Committed = Snapshot
  BY DEF Init, Committed, Idle
<1>2. \A m \in Merchants : Committed.registered[m] = <<>>
  BY <1>1 DEF Init, Snapshot
<1>3. \A m \in Merchants, n \in 1..MaxOrders : FateOf(m, n) = "unused"
  BY <1>2 DEF FateOf
<1> QED  BY <1>3 DEF Fate!Init, Fate!Registrations

\* Within a payment the storage only advances on the one a revert would restore.
LEMMA FateInvAlways == Spec => []FateInv
<1>1. Init => FateInv
  BY DEF Init, FateInv, Idle
<1>2. TypeOK /\ TypeOK' /\ PaymentInv /\ FateInv /\ [Next]_vars => FateInv'
  BY FateInvStep
<1> QED  BY <1>1, <1>2, TypeCorrect, PaymentCorrect, PTL DEF Spec

\* The contract implements OrderFate, for any merchants, ids, payers and nesting of calls:
\* each registration is settled or withdrawn once and for good, and no transaction settles
\* two (the promise that settled orders are kept to block double fulfilment).
THEOREM RefinesOrderFate == Spec => ImplementsOrderFate
<1>1. TypeOK /\ TypeOK' /\ PaymentInv /\ FateInv /\ [Next]_vars
         => FateNow' \in [Fate!Registrations -> Fate!Fates] /\ Fate!Transact
  BY RefinedStep
<1> QED
  BY <1>1, RefinedInit, TypeCorrect, PaymentCorrect, FateInvAlways, PTL
     DEF Spec, ImplementsOrderFate, Fate!Spec, FateNow

=============================================================================
