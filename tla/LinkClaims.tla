------------------------------ MODULE LinkClaims ------------------------------
(***************************************************************************)
(* One payment link and the claims on its orders: POST                     *)
(* /v1/links/:slug/claim and /qi-claim of backend/src/api/server.ts over   *)
(* the claims table of backend/src/store/postgres.ts, with the order       *)
(* signer enabled.                                                         *)
(*                                                                         *)
(* A claim hands one order id of the link to one wallet, with an           *)
(* authorization that only this wallet can pay with; a Qi claim hands out  *)
(* the order's one-time Qi address.  Each store call is atomic; requests   *)
(* run side by side and may end, without an answer, between two of them.   *)
(***************************************************************************)
EXTENDS Integers, Sequences, FiniteSets, FiniteSetsExt, Functions

CONSTANTS
    Wallets,          \* the customers' wallets
    Qi,               \* the payer a Qi claim is recorded under
    Nobody,           \* the payer of an order that is not paid
    Orders,           \* order ids
    Requests,         \* requests served at the same time
    Links,            \* the links explored
    DoublePayWindow,  \* DOUBLE_PAY_WINDOW_MS
    StaleAfter,       \* CLAIM_STALE_MS
    MinLife,          \* MIN_AUTHORIZATION_LIFE_SECS
    MaxTime           \* bound: the latest instant explored

Payers == Wallets \cup {Qi}

ASSUME ClaimAssumption ==
    /\ Qi \notin Wallets
    /\ Nobody \notin Payers
    /\ {DoublePayWindow, StaleAfter, MinLife} \subseteq Nat \ {0}
    /\ MaxTime \in Nat
    /\ IsFiniteSet(Orders)

\* A link record: a gateway link sells the one order in fixed, any other link the orders
\* it was created with (stock), taken from its pool in turn, and freshly minted ones, up
\* to its cap in all (0 for none).
LinkRecords ==
    [fixed : SUBSET Orders, stock : SUBSET Orders, pool : Seq(Orders), cap : Nat,
     expires : Nat]

\* A link is created with distinct orders in its pool; a gateway link with its one order
\* and no pool.
ASSUME LinkAssumption ==
    /\ Links \subseteq LinkRecords
    /\ \A l \in Links :
          /\ IsInjective(l.pool)
          /\ \A i \in DOMAIN l.pool : l.pool[i] \in l.stock
          /\ \A o, other \in l.fixed : o = other
          /\ l.fixed # {} => l.pool = <<>>

VARIABLES
    clock,     \* Date.now()
    link,      \* the link
    claims,    \* the link's claims, by order
    requests,  \* the requests being served
    held,      \* authorizations handed out, with the time of the claim behind each
    paid,      \* who paid each order on the contract
    qiOrders,  \* the Qi record of each order
    linked     \* orders whose metadata names this link

vars == <<clock, link, claims, requests, held, paid, qiOrders, linked>>

NoClaim == [payer |-> Nobody]
Idle == [step |-> "idle"]

Init ==
    /\ clock = 0
    /\ link \in Links
    /\ claims = [o \in Orders |-> NoClaim]
    /\ requests = [r \in Requests |-> Idle]
    /\ held = {}
    /\ paid = [o \in Orders |-> Nobody]
    /\ qiOrders = [o \in Orders |-> "none"]
    /\ linked = {}

-----------------------------------------------------------------------------
(* The claims table.                                                       *)

Claimed == {o \in Orders : claims[o] # NoClaim}

Settled == {o \in Claimed : claims[o].settled}

\* The claim of o is inserted, or changes hands now.
HandTo(o, payer) ==
    claims' = [claims EXCEPT
        ![o] = [payer |-> payer, claimedAt |-> clock, settled |-> o \in Settled]]

\* Mutant of PoolLeft: the shortened pool is not written back.
PoolKept == link.pool

PoolLeft == Tail(link.pool)

\* Mutant of Reclaimable: settled claims too.
ReclaimableEvenSettled == {o \in Claimed : claims[o].claimedAt < clock - StaleAfter}

\* Mutant of Reclaimable: a claim is recycled as soon as its wallet could claim again.
ReclaimableSoon ==
    {o \in Claimed \ Settled : claims[o].claimedAt < clock - DoublePayWindow}

Reclaimable == {o \in Claimed \ Settled : claims[o].claimedAt < clock - StaleAfter}

\* reclaimStaleClaim takes the oldest.
OldestReclaimable ==
    {o \in Reclaimable :
        \A other \in Reclaimable : claims[o].claimedAt <= claims[other].claimedAt}

\* claimFixedOrder: the claim may pass to payer.
MayTakeFixed(o, payer) ==
    \/ o \notin Claimed
    \/ /\ o \notin Settled
       /\ claims[o].payer = payer \/ clock - claims[o].claimedAt >= StaleAfter

\* getLatestClaim: the payer's latest claims (their order decides between equals).
LatestClaims(payer) ==
    LET mine == {o \in Claimed : claims[o].payer = payer}
    IN  {o \in mine : \A other \in mine : claims[other].claimedAt <= claims[o].claimedAt}

\* Mutant of UnderCap: one redemption too many.
UnderCapLate == link.cap = 0 \/ Cardinality(Claimed) <= link.cap

UnderCap == link.cap = 0 \/ Cardinality(Claimed) < link.cap

-----------------------------------------------------------------------------
(* POST /v1/links/:slug/claim.                                             *)

\* A signature is asked for only while the link has some life left.
LinkOpen == link.expires = 0 \/ link.expires - clock >= MinLife

GoTo(r, step, payer) == requests' = [requests EXCEPT ![r] = [step |-> step, payer |-> payer]]

\* The claim of o at time since is in hand: its authorization is signed next.
GoSign(r, payer, o, since) ==
    requests' = [requests EXCEPT
        ![r] = [step |-> "sign", payer |-> payer, order |-> o, since |-> since]]

Answer(r) == requests' = [requests EXCEPT ![r] = Idle]

\* The link is read and its expiry checked.
Claim(r, payer) ==
    /\ requests[r] = Idle
    /\ LinkOpen
    /\ GoTo(r, IF link.fixed # {} THEN "fixed" ELSE "latest", payer)
    /\ UNCHANGED <<clock, link, claims, held, paid, qiOrders, linked>>

\* A gateway link's order: taken, or refused because it is settled or another's.
TakeFixed(r) ==
    /\ requests[r].step = "fixed"
    /\ \E o \in link.fixed :
          IF MayTakeFixed(o, requests[r].payer)
          THEN HandTo(o, requests[r].payer) /\ GoSign(r, requests[r].payer, o, clock)
          ELSE Answer(r) /\ UNCHANGED claims
    /\ UNCHANGED <<clock, link, held, paid, qiOrders, linked>>

\* The double-pay guard: a wallet with a recent open claim is given that order again.
CheckLatest(r) ==
    LET payer == requests[r].payer
        recent(o) == o \notin Settled /\ clock - claims[o].claimedAt < DoublePayWindow
    IN
    /\ requests[r].step = "latest"
    /\ \/ LatestClaims(payer) = {} /\ GoTo(r, "recycle", payer)
       \/ \E o \in LatestClaims(payer) :
             IF recent(o) THEN GoSign(r, payer, o, claims[o].claimedAt)
             ELSE GoTo(r, "recycle", payer)
    /\ UNCHANGED <<clock, link, claims, held, paid, qiOrders, linked>>

\* An abandoned claim is passed on.
Recycle(r) ==
    LET payer == requests[r].payer
    IN
    /\ requests[r].step = "recycle"
    /\ \/ \E o \in OldestReclaimable : HandTo(o, payer) /\ GoSign(r, payer, o, clock)
       \/ Reclaimable = {} /\ GoTo(r, "pool", payer) /\ UNCHANGED claims
    /\ UNCHANGED <<clock, link, held, paid, qiOrders, linked>>

\* claimOrderFromPool: the first order of the pool, while there is one.
TakePooled(r) ==
    LET payer == requests[r].payer
    IN
    /\ requests[r].step = "pool"
    /\ IF link.pool # <<>>
       THEN /\ link' = [link EXCEPT !.pool = PoolLeft]
            /\ HandTo(Head(link.pool), payer)
            /\ GoSign(r, payer, Head(link.pool), clock)
       ELSE GoTo(r, "mint", payer) /\ UNCHANGED <<link, claims>>
    /\ UNCHANGED <<clock, held, paid, qiOrders, linked>>

\* Orders nobody has seen yet: what a random id is.
Fresh ==
    {o \in Orders \ Claimed : \A i \in DOMAIN link.pool : link.pool[i] # o}

\* mintClaimedOrder, under the cap; otherwise the link is used up.
Mint(r) ==
    LET payer == requests[r].payer
    IN
    /\ requests[r].step = "mint"
    /\ IF UnderCap
       THEN \E o \in Fresh : HandTo(o, payer) /\ GoSign(r, payer, o, clock)
       ELSE Answer(r) /\ UNCHANGED claims
    /\ UNCHANGED <<clock, link, held, paid, qiOrders, linked>>

\* What the order signer signs: this order, for this payer.  The signature is never taken back.
Signed(request) ==
    [order |-> request.order, payer |-> request.payer, since |-> request.since]

\* signClaimedOrder, and the answer.
Sign(r) ==
    /\ requests[r].step = "sign"
    /\ held' = held \cup {Signed(requests[r])}
    /\ Answer(r)
    /\ UNCHANGED <<clock, link, claims, paid, qiOrders, linked>>

-----------------------------------------------------------------------------
(* POST /v1/links/:slug/qi-claim.                                          *)

\* The request goes on with order o.
GoEnsure(r, o) ==
    requests' = [requests EXCEPT ![r] = [step |-> "qiEnsure", payer |-> Qi, order |-> o]]

\* The link is read; a gateway link's order needs no claim.
QiClaim(r) ==
    /\ requests[r] = Idle
    /\ \/ link.fixed = {} /\ GoTo(r, "qiRecycle", Qi)
       \/ \E o \in link.fixed : GoEnsure(r, o)
    /\ UNCHANGED <<clock, link, claims, held, paid, qiOrders, linked>>

QiRecycle(r) ==
    /\ requests[r].step = "qiRecycle"
    /\ \/ \E o \in OldestReclaimable : HandTo(o, Qi) /\ GoEnsure(r, o)
       \/ Reclaimable = {} /\ GoTo(r, "qiReserve", Qi) /\ UNCHANGED claims
    /\ UNCHANGED <<clock, link, held, paid, qiOrders, linked>>

\* reserveQiLinkOrder.
QiReserve(r) ==
    /\ requests[r].step = "qiReserve"
    /\ IF link.pool # <<>>
       THEN /\ link' = [link EXCEPT !.pool = PoolLeft]
            /\ HandTo(Head(link.pool), Qi)
            /\ GoEnsure(r, Head(link.pool))
       ELSE Answer(r) /\ UNCHANGED <<link, claims>>
    /\ UNCHANGED <<clock, held, paid, qiOrders, linked>>

\* ensureQiOrder: the order's record is created once.
QiEnsure(r) ==
    LET o == requests[r].order
    IN
    /\ requests[r].step = "qiEnsure"
    /\ qiOrders' = IF qiOrders[o] = "none" THEN [qiOrders EXCEPT ![o] = "open"] ELSE qiOrders
    /\ requests' = [requests EXCEPT ![r].step = "qiMeta"]
    /\ UNCHANGED <<clock, link, claims, held, paid, linked>>

\* saveOrderMeta with the slug, and the answer.
QiMeta(r) ==
    /\ requests[r].step = "qiMeta"
    /\ linked' = linked \cup {requests[r].order}
    /\ Answer(r)
    /\ UNCHANGED <<clock, link, claims, held, paid, qiOrders>>

\* A request ends early: a call to the chain or the store fails, or the process ends.
Abandon(r) ==
    /\ requests[r] # Idle
    /\ Answer(r)
    /\ UNCHANGED <<clock, link, claims, held, paid, qiOrders, linked>>

-----------------------------------------------------------------------------
(* Payments, and the Qi indexer's sweep as far as it concerns claims.      *)

\* A customer pays with an authorization in hand; the contract takes each order once.
Pay(authorization) ==
    /\ authorization \in held
    /\ paid[authorization.order] = Nobody
    /\ link.expires = 0 \/ clock < link.expires
    /\ paid' = [paid EXCEPT ![authorization.order] = authorization.payer]
    /\ UNCHANGED <<clock, link, claims, requests, held, qiOrders, linked>>

\* POST /v1/orders/:merchant/:orderId/meta, open to everyone: the order's metadata names
\* the link again, or no longer.  It matters once the order has a Qi record: the sweep,
\* which alone reads it, goes by these records.
CustomerMeta(o) ==
    /\ qiOrders[o] # "none"
    /\ linked' \in {linked \cup {o}, linked \ {o}}
    /\ UNCHANGED <<clock, link, claims, requests, held, paid, qiOrders>>

\* Qi arrives at the address of order o, which anyone who asks for the order's status sees.
PayQi(o) ==
    /\ qiOrders[o] = "open"
    /\ qiOrders' = [qiOrders EXCEPT ![o] = "funded"]
    /\ UNCHANGED <<clock, link, claims, requests, held, paid, linked>>

\* sweep: markQiOrderSettled.
SettleQi(o) ==
    /\ qiOrders[o] = "funded"
    /\ qiOrders' = [qiOrders EXCEPT ![o] = "settled"]
    /\ UNCHANGED <<clock, link, claims, requests, held, paid, linked>>

\* settleLinkClaim, in the same sweep or, after a failure, in a later one: the claim is
\* found by the slug that the order's metadata holds then.
SettleClaim(o) ==
    /\ qiOrders[o] = "settled"
    /\ o \in linked
    /\ o \in Claimed \ Settled
    /\ claims' = [claims EXCEPT ![o].settled = TRUE]
    /\ UNCHANGED <<clock, link, requests, held, paid, qiOrders, linked>>

Tick ==
    /\ clock < MaxTime
    /\ clock' = clock + 1
    /\ UNCHANGED <<link, claims, requests, held, paid, qiOrders, linked>>

-----------------------------------------------------------------------------

ClaimRequest(r) ==
    \/ \E payer \in Wallets : Claim(r, payer)
    \/ TakeFixed(r)
    \/ CheckLatest(r)
    \/ Recycle(r)
    \/ TakePooled(r)
    \/ Mint(r)
    \/ Sign(r)

QiRequest(r) ==
    \/ QiClaim(r)
    \/ QiRecycle(r)
    \/ QiReserve(r)
    \/ QiEnsure(r)
    \/ QiMeta(r)

Next ==
    \/ \E r \in Requests : ClaimRequest(r) \/ QiRequest(r) \/ Abandon(r)
    \/ \E authorization \in held : Pay(authorization)
    \/ \E o \in Orders : CustomerMeta(o) \/ PayQi(o) \/ SettleQi(o) \/ SettleClaim(o)
    \/ Tick

Spec == Init /\ [][Next]_vars

-----------------------------------------------------------------------------
(* Properties.                                                             *)

ClaimRecords == [payer : Payers, claimedAt : 0..MaxTime, settled : BOOLEAN]

Authorizations == [order : Orders, payer : Wallets, since : 0..MaxTime]

\* The type invariant; the orders left in the pool are the link's, and unclaimed.
TypeOK ==
    /\ clock \in 0..MaxTime
    /\ link \in LinkRecords
    /\ claims \in [Orders -> ClaimRecords \cup {NoClaim}]
    /\ held \subseteq Authorizations
    /\ paid \in [Orders -> Wallets \cup {Nobody}]
    /\ qiOrders \in [Orders -> {"none", "open", "funded", "settled"}]
    /\ linked \subseteq Orders
    /\ \A i \in DOMAIN link.pool : link.pool[i] \in link.stock \ Claimed

\* No more orders of a capped link are claimed, and none is paid that was not: neither
\* customers racing for the last redemption, nor abandoned requests, nor recycled
\* claims, nor a pool running dry under a request, sell one payment too many.
RedemptionsCapped ==
    /\ link.cap # 0
          => Cardinality(Claimed) <= Max({link.cap, Cardinality(link.stock)})
    /\ \A o \in Orders : paid[o] # Nobody => o \in Claimed

\* Two wallets hold authorizations for one order only if the claim of the first was
\* stale when the second was made: until then a customer who is answered is the only
\* one who can pay the order, whatever is recycled, claimed again or signed late.
ExclusiveForWindow ==
    \A a, b \in held :
        a.order = b.order /\ a.payer # b.payer /\ a.since <= b.since
            => b.since - a.since >= StaleAfter

\* No request takes up an order that is settled in the books, to sign for it or to give
\* out its Qi address again, whatever the request had read before ("a stale-claim recycle
\* can never hand an ALREADY-PAID orderId to another customer", once the sweep has settled
\* its claim).  A gateway link's Qi claim, which reads no claim, is the exception.
SettledNotSoldAgain ==
    [][\A r \in Requests :
          requests[r].step \notin {"idle", "sign", "qiEnsure"}
            => \/ requests'[r].step \notin {"sign", "qiEnsure"}
               \/ requests'[r].order \notin Settled]_vars

\* A wallet is not given a second order within the double-pay window ("same wallet
\* cannot claim again until previous claim expires").
OneOrderPerWindow ==
    \A a, b \in held :
        a.payer = b.payer /\ a.order # b.order /\ a.since <= b.since
            => b.since - a.since >= DoublePayWindow

\* An order that has been paid does not get another owner ("A fixed gateway order id
\* has exactly one owner at a time, and never one after settlement").
NoOwnerAfterSettlement ==
    [][\A o \in Orders :
          paid[o] # Nobody => claims'[o].payer = claims[o].payer]_vars

=============================================================================
