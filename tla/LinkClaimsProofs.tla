--------------------------- MODULE LinkClaimsProofs ---------------------------
(***************************************************************************)
(* Proofs about LinkClaims, for any wallets, orders, requests, links, time *)
(* windows and latest instant.                                             *)
(***************************************************************************)
EXTENDS LinkClaims, FiniteSetTheorems, SequenceTheorems, TLAPS

-----------------------------------------------------------------------------
(* The inductive invariant.                                                *)

\* A request at work: a claim that has no order yet, the same for Qi, a claim about to
\* be signed, and a Qi claim with its order.
Asking == [step : {"fixed", "latest", "recycle", "pool", "mint"}, payer : Wallets]

AskingQi == [step : {"qiRecycle", "qiReserve"}, payer : {Qi}]

Signing == [step : {"sign"}, payer : Wallets, order : Orders, since : 0..MaxTime]

Ensuring == [step : {"qiEnsure", "qiMeta"}, payer : {Qi}, order : Orders]

RequestStates == {Idle} \cup Asking \cup AskingQi \cup Signing \cup Ensuring

RequestsTyped == requests \in [Requests -> RequestStates]

\* What the requests that ask for an order know of the link.
RequestsInv ==
    \A r \in Requests :
        /\ requests[r].step \in {"latest", "recycle", "pool", "mint", "qiRecycle", "qiReserve"}
              => link.fixed = {}
        /\ requests[r].step = "mint" => link.pool = <<>>

\* The link's claims: none is dated ahead; those of a gateway link are on its one order;
\* while the pool lasts every claim is on an order of the stock, and once there are
\* others the cap is kept.
BooksInv ==
    /\ \A o \in Claimed : claims[o].claimedAt <= clock
    /\ IsInjective(link.pool)
    /\ \A o, other \in link.fixed : o = other
    /\ link.fixed # {} => Claimed \subseteq link.fixed /\ link.pool = <<>>
    /\ link.fixed = {} =>
          \/ Claimed \subseteq link.stock
          \/ /\ link.pool = <<>>
             /\ link.cap # 0 => Cardinality(Claimed) <= link.cap

\* Authorizations handed out, and those whose claim is in hand.
Issued ==
    held \cup {[order |-> requests[r].order, payer |-> requests[r].payer,
                since |-> requests[r].since] : r \in {q \in Requests : requests[q].step = "sign"}}

\* The claim behind an authorization is still the order's, or was stale when it was lost.
Backed(a) ==
    /\ a.order \in Claimed
    /\ a.since <= claims[a.order].claimedAt
    /\ a.payer # claims[a.order].payer
          => claims[a.order].claimedAt - a.since >= StaleAfter

\* Authorizations for one order, of different wallets, are StaleAfter apart.
Apart(a, b) ==
    a.order = b.order /\ a.payer # b.payer /\ a.since <= b.since
        => b.since - a.since >= StaleAfter

IssuedInv ==
    /\ Issued \subseteq Authorizations
    /\ \A a \in Issued : Backed(a)
    /\ \A a, b \in Issued : Apart(a, b)

PaidInv == \A o \in Orders : paid[o] # Nobody => o \in Claimed

ClaimsInv ==
    /\ TypeOK
    /\ RequestsTyped
    /\ RequestsInv
    /\ BooksInv
    /\ IssuedInv
    /\ PaidInv

-----------------------------------------------------------------------------
(* The operators of the claims table.                                      *)

\* A claim that is on file names a payer and a time.
LEMMA ClaimTypes ==
  ASSUME TypeOK, NEW o \in Claimed
  PROVE  /\ o \in Orders
         /\ claims[o] \in ClaimRecords
         /\ claims[o].payer \in Payers
         /\ claims[o].claimedAt \in 0..MaxTime
         /\ claims[o].settled \in BOOLEAN
  BY DEF TypeOK, Claimed, ClaimRecords

\* Handing an order to a payer puts one claim on file, dated now, and no other changes.
LEMMA HandToEffect ==
  ASSUME TypeOK, NEW o \in Orders, NEW payer \in Payers, HandTo(o, payer)
  PROVE  /\ claims' \in [Orders -> ClaimRecords \cup {NoClaim}]
         /\ Claimed' = Claimed \cup {o}
         /\ claims'[o].payer = payer
         /\ claims'[o].claimedAt = clock
         /\ \A other \in Orders \ {o} : claims'[other] = claims[other]
  <1> DEFINE new == [payer |-> payer, claimedAt |-> clock, settled |-> o \in Settled]
  <1>1. new \in ClaimRecords  BY DEF TypeOK, ClaimRecords
  <1>2. new # NoClaim
    <2>1. new.payer # NoClaim.payer  BY ClaimAssumption DEF NoClaim
    <2> QED  BY <2>1
  <1>3. claims' = [claims EXCEPT ![o] = new]  BY DEF HandTo
  <1> HIDE DEF new
  <1>4. /\ claims' \in [Orders -> ClaimRecords \cup {NoClaim}]
        /\ Claimed' = Claimed \cup {o}
        /\ claims'[o] = new
        /\ \A other \in Orders \ {o} : claims'[other] = claims[other]
    BY <1>1, <1>2, <1>3 DEF TypeOK, Claimed
  <1> QED  BY <1>4 DEF new

\* The claims that may be recycled are open ones, older than StaleAfter.
LEMMA ReclaimableStale ==
  ASSUME TypeOK, NEW o \in Reclaimable
  PROVE  /\ o \in Claimed \ Settled
         /\ clock - claims[o].claimedAt >= StaleAfter
  <1>1. o \in Claimed \ Settled /\ claims[o].claimedAt < clock - StaleAfter
    BY DEF Reclaimable
  <1>2. claims[o].claimedAt \in Nat /\ clock \in Nat /\ StaleAfter \in Nat
    BY <1>1, ClaimTypes, ClaimAssumption DEF TypeOK
  <1> QED  BY <1>1, <1>2

\* The pool gives out its first order, which nobody has claimed, and keeps the others.
LEMMA PoolEffect ==
  ASSUME TypeOK, IsInjective(link.pool), link.pool # <<>>
  PROVE  /\ Head(link.pool) \in (link.stock \cap Orders) \ Claimed
         /\ PoolLeft \in Seq(Orders)
         /\ IsInjective(PoolLeft)
         /\ \A i \in DOMAIN PoolLeft :
               PoolLeft[i] \in link.stock \ (Claimed \cup {Head(link.pool)})
  <1> DEFINE pool == link.pool
  <1>1. pool \in Seq(Orders)  BY DEF TypeOK, LinkRecords
  <1>2. \A i \in DOMAIN pool : pool[i] \in link.stock \ Claimed  BY DEF TypeOK
  <1>3. \A i, j \in DOMAIN pool : pool[i] = pool[j] => i = j  BY DEF IsInjective
  <1> HIDE DEF pool
  <1>4. pool # <<>>  BY DEF pool
  <1>5. /\ Head(pool) = pool[1] /\ 1 \in DOMAIN pool
        /\ Tail(pool) \in Seq(Orders)
        /\ \A i \in DOMAIN Tail(pool) :
              Tail(pool)[i] = pool[i + 1] /\ i + 1 \in DOMAIN pool /\ i \in Nat \ {0}
    BY <1>1, <1>4
  <1>6. pool[1] \in Orders  BY <1>1, <1>5
  <1>7. \A i, j \in DOMAIN Tail(pool) : Tail(pool)[i] = Tail(pool)[j] => i = j
    BY <1>3, <1>5
  <1>8. \A i \in DOMAIN Tail(pool) : Tail(pool)[i] # Head(pool)
    BY <1>3, <1>5
  <1>9. \A i \in DOMAIN Tail(pool) : Tail(pool)[i] \in link.stock \ Claimed
    BY <1>2, <1>5
  <1> QED  BY <1>2, <1>5, <1>6, <1>7, <1>8, <1>9 DEF PoolLeft, IsInjective, pool

\* What each kind of request at work holds.
LEMMA RequestTypes ==
  ASSUME RequestsTyped, NEW r \in Requests
  PROVE  /\ requests[r].step \in {"fixed", "latest", "recycle", "pool", "mint"}
               => requests[r].payer \in Wallets
         /\ requests[r].step = "sign"
               => requests[r] \in Signing
         /\ requests[r].step \in {"qiEnsure", "qiMeta"}
               => requests[r] \in Ensuring
  BY DEF RequestsTyped, RequestStates, Idle, Asking, AskingQi, Signing, Ensuring

\* What the steps make of a request.
LEMMA RequestSteps ==
  ASSUME RequestsTyped, NEW r \in Requests
  PROVE  /\ Answer(r) => RequestsTyped'
         /\ \A payer \in Wallets, step \in {"fixed", "latest", "recycle", "pool", "mint"} :
               GoTo(r, step, payer) => RequestsTyped'
         /\ \A step \in {"qiRecycle", "qiReserve"} : GoTo(r, step, Qi) => RequestsTyped'
         /\ \A payer \in Wallets, o \in Orders, since \in 0..MaxTime :
               GoSign(r, payer, o, since) => RequestsTyped'
         /\ \A o \in Orders : GoEnsure(r, o) => RequestsTyped'
  <1>1. Answer(r) => RequestsTyped'  BY DEF RequestsTyped, RequestStates, Answer
  <1>2. ASSUME NEW payer \in Wallets,
               NEW step \in {"fixed", "latest", "recycle", "pool", "mint"},
               GoTo(r, step, payer)
        PROVE  RequestsTyped'
    BY <1>2 DEF RequestsTyped, RequestStates, GoTo, Asking
  <1>3. ASSUME NEW step \in {"qiRecycle", "qiReserve"}, GoTo(r, step, Qi)
        PROVE  RequestsTyped'
    BY <1>3 DEF RequestsTyped, RequestStates, GoTo, AskingQi
  <1>4. ASSUME NEW payer \in Wallets, NEW o \in Orders, NEW since \in 0..MaxTime,
               GoSign(r, payer, o, since)
        PROVE  RequestsTyped'
    BY <1>4 DEF RequestsTyped, RequestStates, GoSign, Signing
  <1>5. ASSUME NEW o \in Orders, GoEnsure(r, o)
        PROVE  RequestsTyped'
    BY <1>5 DEF RequestsTyped, RequestStates, GoEnsure, Ensuring
  <1> QED  BY <1>1, <1>2, <1>3, <1>4, <1>5

-----------------------------------------------------------------------------
(* How the parts of the invariant are kept.                                *)

Authorization(o, payer, since) == [order |-> o, payer |-> payer, since |-> since]

\* A request that goes on to anything but a signature issues nothing.
LEMMA IssuesNothing ==
  ASSUME RequestsTyped, NEW r \in Requests, UNCHANGED held,
         \/ Answer(r)
         \/ \E step \in {"fixed", "latest", "recycle", "pool", "mint", "qiRecycle", "qiReserve"},
               payer \in Payers : GoTo(r, step, payer)
         \/ \E o \in Orders : GoEnsure(r, o)
  PROVE  Issued' \subseteq Issued
  <1>1. \A q \in Requests :
          requests'[q].step = "sign" => requests[q].step = "sign" /\ requests'[q] = requests[q]
    BY DEF RequestsTyped, Answer, GoTo, GoEnsure, Idle
  <1> QED  BY <1>1 DEF Issued

\* A request that goes on to sign issues the one authorization.
LEMMA IssuesOne ==
  ASSUME RequestsTyped, NEW r \in Requests, UNCHANGED held,
         NEW o \in Orders, NEW payer \in Wallets, NEW since \in 0..MaxTime,
         GoSign(r, payer, o, since)
  PROVE  Issued' \subseteq Issued \cup {Authorization(o, payer, since)}
  <1>1. \A q \in Requests \ {r} : requests'[q] = requests[q]
    BY DEF RequestsTyped, GoSign
  <1>2. /\ requests'[r].order = o /\ requests'[r].payer = payer /\ requests'[r].since = since
    BY DEF RequestsTyped, GoSign
  <1> QED  BY <1>1, <1>2 DEF Issued, Authorization

LEMMA IssuedKept ==
  ASSUME IssuedInv, Issued' \subseteq Issued, \A a \in Issued : Backed(a)'
  PROVE  IssuedInv'
  <1>1. Authorizations' = Authorizations  BY DEF Authorizations
  <1> QED  BY <1>1 DEF IssuedInv, Apart

LEMMA IssuedGrows ==
  ASSUME IssuedInv, NEW new \in Authorizations, Issued' \subseteq Issued \cup {new},
         \A a \in Issued : Backed(a)' /\ Apart(a, new) /\ Apart(new, a),
         Backed(new)'
  PROVE  IssuedInv'
  <1>1. Apart(new, new)  BY DEF Apart
  <1>2. \A a, b \in Issued \cup {new} : Apart(a, b)  BY <1>1 DEF IssuedInv
  <1>3. \A a, b \in Issued' : Apart(a, b)  BY <1>2
  <1>4. (\A a, b \in Issued : Apart(a, b))'  BY <1>3 DEF Apart
  <1>5. (\A a \in Issued : Backed(a))'  OBVIOUS
  <1>6. (Issued \subseteq Authorizations)'  BY DEF IssuedInv, Authorizations
  <1> QED  BY <1>4, <1>5, <1>6 DEF IssuedInv

\* An order that is free, or whose claim is stale or the payer's own, may change hands:
\* what was issued before stays backed, and is StaleAfter away from what is issued now.
LEMMA Handover ==
  ASSUME ClaimsInv, NEW o \in Orders, NEW payer \in Payers, HandTo(o, payer),
         UNCHANGED <<clock, paid>>, NEW now, now = clock,
         o \in Claimed => \/ claims[o].payer = payer
                         \/ clock - claims[o].claimedAt >= StaleAfter
  PROVE  /\ \A a \in Issued : Backed(a)'
         /\ \A a \in Issued : /\ Apart(a, Authorization(o, payer, now))
                              /\ Apart(Authorization(o, payer, now), a)
         /\ Backed(Authorization(o, payer, now))'
         /\ PaidInv'
         /\ \A other \in Claimed' : claims'[other].claimedAt <= clock'
  <1>1. /\ Claimed' = Claimed \cup {o}
        /\ claims'[o].payer = payer
        /\ claims'[o].claimedAt = clock
        /\ \A other \in Orders \ {o} : claims'[other] = claims[other]
    BY HandToEffect DEF ClaimsInv
  <1>2. StaleAfter \in Nat \ {0} /\ clock \in Nat  BY ClaimAssumption DEF ClaimsInv, TypeOK
  <1>3. \A other \in Claimed :
          other \in Orders /\ claims[other].claimedAt \in Nat /\ claims[other].claimedAt <= clock
    BY ClaimTypes DEF ClaimsInv, BooksInv
  <1>4. ASSUME NEW a \in Issued
        PROVE  /\ Backed(a)'
               /\ Apart(a, Authorization(o, payer, now))
               /\ Apart(Authorization(o, payer, now), a)
    <2>1. a \in Authorizations /\ Backed(a)  BY <1>4 DEF ClaimsInv, IssuedInv
    <2>2. a.order \in Orders /\ a.since \in Nat  BY <2>1 DEF Authorizations
    <2>3. /\ a.order \in Claimed
          /\ a.since <= claims[a.order].claimedAt
          /\ a.payer # claims[a.order].payer
               => claims[a.order].claimedAt - a.since >= StaleAfter
      BY <2>1 DEF Backed
    <2>4. CASE a.order # o
      <3>1. claims'[a.order] = claims[a.order]  BY <2>2, <2>4, <1>1
      <3>2. Backed(a)'  BY <2>3, <3>1, <1>1 DEF Backed
      <3> QED  BY <3>2, <2>4 DEF Apart, Authorization
    <2>5. CASE a.order = o
      <3>1. a.since <= clock  BY <2>2, <2>3, <1>2, <1>3
      <3>2. a.payer # payer => clock - a.since >= StaleAfter
        BY <2>2, <2>3, <2>5, <1>2, <1>3
      <3>3. Backed(a)'  BY <2>5, <3>1, <3>2, <1>1 DEF Backed
      <3>4. Apart(a, Authorization(o, payer, now))  BY <3>2 DEF Apart, Authorization
      <3>5. Apart(Authorization(o, payer, now), a)
        BY <3>1, <3>2, <2>2, <1>2 DEF Apart, Authorization
      <3> QED  BY <3>3, <3>4, <3>5
    <2> QED  BY <2>4, <2>5
  <1>5. Backed(Authorization(o, payer, now))'  BY <1>1, <1>2 DEF Backed, Authorization
  <1>6. PaidInv'  BY <1>1 DEF ClaimsInv, PaidInv
  <1>7. \A other \in Claimed' : claims'[other].claimedAt <= clock'
    BY <1>1, <1>2, <1>3
  <1> QED  BY <1>4, <1>5, <1>6, <1>7

\* A step that leaves the claims, the link, the payments and the time alone and issues
\* nothing keeps everything but what it does to its request.
LEMMA Quiet ==
  ASSUME ClaimsInv, UNCHANGED <<clock, link, claims, paid>>, Issued' \subseteq Issued
  PROVE  BooksInv' /\ IssuedInv' /\ PaidInv'
  <1>1. Claimed' = Claimed  BY DEF Claimed
  <1>2. \A a \in Issued : Backed(a)'  BY <1>1 DEF ClaimsInv, IssuedInv, Backed
  <1>3. IssuedInv'  BY <1>2, IssuedKept DEF ClaimsInv
  <1>4. BooksInv'  BY <1>1 DEF ClaimsInv, BooksInv
  <1>5. PaidInv'  BY <1>1 DEF ClaimsInv, PaidInv
  <1> QED  BY <1>3, <1>4, <1>5

-----------------------------------------------------------------------------
(* The steps.                                                              *)

LEMMA InitInv == Init => ClaimsInv
  <1> SUFFICES ASSUME Init PROVE ClaimsInv  OBVIOUS
  <1>1. link \in LinkRecords  BY LinkAssumption DEF Init
  <1>2. Claimed = {}  BY DEF Init, Claimed
  <1>3. Issued = {}  BY DEF Init, Issued, Idle
  <1>4. TypeOK
    BY <1>1, <1>2, LinkAssumption, ClaimAssumption DEF Init, TypeOK, LinkRecords
  <1>5. RequestsTyped /\ RequestsInv
    BY DEF Init, RequestsTyped, RequestStates, RequestsInv, Idle
  <1>6. BooksInv  BY <1>2, LinkAssumption DEF Init, BooksInv
  <1>7. IssuedInv /\ PaidInv  BY <1>3 DEF Init, IssuedInv, PaidInv
  <1> QED  BY <1>4, <1>5, <1>6, <1>7 DEF ClaimsInv

\* The requests' first steps and the double-pay guard, which leave the claims alone.
LEMMA ReadStep ==
  ASSUME ClaimsInv, NEW r \in Requests,
         \/ \E payer \in Wallets : Claim(r, payer)
         \/ CheckLatest(r) \/ QiClaim(r) \/ Abandon(r)
  PROVE  ClaimsInv'
  <1> USE DEF ClaimsInv
  <1>1. UNCHANGED <<clock, link, claims, held, paid, qiOrders, linked>>
    BY DEF Claim, CheckLatest, QiClaim, Abandon
  <1>2. TypeOK'  BY <1>1 DEF TypeOK, Claimed
  <1>3. CASE \E payer \in Wallets : Claim(r, payer)
    <2> PICK payer \in Wallets : Claim(r, payer)  BY <1>3
    <2>1. \/ GoTo(r, "fixed", payer)
          \/ GoTo(r, "latest", payer) /\ link.fixed = {}
      BY DEF Claim
    <2>2. RequestsTyped'  BY <2>1, RequestSteps
    <2>3. RequestsInv'  BY <2>1, <1>1 DEF RequestsInv, RequestsTyped, GoTo
    <2>4. Issued' \subseteq Issued  BY <2>1, <1>1, IssuesNothing DEF Payers
    <2> QED  BY <1>1, <1>2, <2>2, <2>3, <2>4, Quiet
  <1>4. CASE CheckLatest(r)
    <2>1. requests[r].payer \in Wallets /\ link.fixed = {}
      BY <1>4, RequestTypes DEF CheckLatest, RequestsInv
    <2> PICK payer \in Wallets : payer = requests[r].payer  BY <2>1
    <2>2. CASE GoTo(r, "recycle", payer)
      <3>1. RequestsTyped'  BY <2>1, <2>2, RequestSteps
      <3>2. RequestsInv'  BY <2>1, <2>2, <1>1 DEF RequestsInv, RequestsTyped, GoTo
      <3>3. Issued' \subseteq Issued  BY <2>1, <2>2, <1>1, IssuesNothing DEF Payers
      <3> QED  BY <1>1, <1>2, <3>1, <3>2, <3>3, Quiet
    <2>3. CASE \E o \in LatestClaims(payer) : GoSign(r, payer, o, claims[o].claimedAt)
      <3> PICK o \in LatestClaims(payer) : GoSign(r, payer, o, claims[o].claimedAt)  BY <2>3
      <3>1. o \in Claimed /\ claims[o].payer = payer  BY DEF LatestClaims
      <3>2. o \in Orders /\ claims[o].claimedAt \in 0..MaxTime  BY <3>1, ClaimTypes
      <3> PICK since \in 0..MaxTime : since = claims[o].claimedAt  BY <3>2
      <3> DEFINE new == Authorization(o, payer, since)
      <3>3. RequestsTyped'  BY <2>1, <3>2, RequestSteps
      <3>4. RequestsInv'  BY <1>1 DEF RequestsInv, RequestsTyped, GoSign
      <3>5. Issued' \subseteq Issued \cup {new}  BY <2>1, <3>2, <1>1, IssuesOne
      <3>6. new \in Authorizations  BY <2>1, <3>2 DEF Authorization, Authorizations
      <3>7. Claimed' = Claimed  BY <1>1 DEF Claimed
      <3>8. Backed(new)'  BY <3>1, <3>2, <3>7, <1>1 DEF Backed, Authorization
      <3>9. ASSUME NEW a \in Issued
            PROVE  Backed(a)' /\ Apart(a, new) /\ Apart(new, a)
        <4>1. Backed(a) /\ a.since \in Nat  BY <3>9 DEF IssuedInv, Authorizations
        <4>2. Backed(a)'  BY <4>1, <3>7, <1>1 DEF Backed
        <4>3. Apart(a, new)  BY <4>1, <3>1 DEF Apart, Backed, Authorization
        <4>4. Apart(new, a)
          BY <4>1, <3>1, <3>2, ClaimAssumption DEF Apart, Backed, Authorization
        <4> QED  BY <4>2, <4>3, <4>4
      <3>10. IssuedInv'
        <4> HIDE DEF new
        <4> QED  BY <3>5, <3>6, <3>8, <3>9, IssuedGrows
      <3>11. BooksInv' /\ PaidInv'  BY <1>1, <3>7 DEF BooksInv, PaidInv
      <3> QED  BY <1>2, <3>3, <3>4, <3>10, <3>11
    <2> QED  BY <1>4, <2>2, <2>3 DEF CheckLatest
  <1>5. CASE QiClaim(r)
    <2>1. CASE link.fixed = {} /\ GoTo(r, "qiRecycle", Qi)
      <3>1. RequestsTyped'  BY <2>1, RequestSteps
      <3>2. RequestsInv'  BY <2>1, <1>1 DEF RequestsInv, RequestsTyped, GoTo
      <3>3. Issued' \subseteq Issued  BY <2>1, <1>1, IssuesNothing DEF Payers
      <3> QED  BY <1>1, <1>2, <3>1, <3>2, <3>3, Quiet
    <2>2. CASE \E o \in link.fixed : GoEnsure(r, o)
      <3> PICK o \in link.fixed : GoEnsure(r, o)  BY <2>2
      <3>1. o \in Orders  BY DEF TypeOK, LinkRecords
      <3>2. RequestsTyped'  BY <3>1, RequestSteps
      <3>3. RequestsInv'  BY <1>1 DEF RequestsInv, RequestsTyped, GoEnsure
      <3>4. Issued' \subseteq Issued  BY <3>1, <1>1, IssuesNothing
      <3> QED  BY <1>1, <1>2, <3>2, <3>3, <3>4, Quiet
    <2> QED  BY <1>5, <2>1, <2>2 DEF QiClaim
  <1>6. CASE Abandon(r)
    <2>1. Answer(r)  BY <1>6 DEF Abandon
    <2>2. RequestsTyped'  BY <2>1, RequestSteps
    <2>3. RequestsInv'  BY <2>1, <1>1 DEF RequestsInv, RequestsTyped, Answer, Idle
    <2>4. Issued' \subseteq Issued  BY <2>1, <1>1, IssuesNothing
    <2> QED  BY <1>1, <1>2, <2>2, <2>3, <2>4, Quiet
  <1> QED  BY <1>3, <1>4, <1>5, <1>6

Takeable(o, payer) ==
    o \in Claimed => \/ claims[o].payer = payer
                    \/ clock - claims[o].claimedAt >= StaleAfter

\* A request takes an order, for a wallet or for Qi.
LEMMA TakeStep ==
  ASSUME ClaimsInv, NEW r \in Requests, NEW o \in Orders, NEW payer \in Payers,
         HandTo(o, payer), Takeable(o, payer),
         \/ payer \in Wallets /\ GoSign(r, payer, o, clock)
         \/ payer = Qi /\ GoEnsure(r, o),
         UNCHANGED <<clock, held, paid>>
  PROVE  /\ claims' \in [Orders -> ClaimRecords \cup {NoClaim}]
         /\ Claimed' = Claimed \cup {o}
         /\ \A other \in Claimed' : claims'[other].claimedAt <= clock'
         /\ RequestsTyped'
         /\ \A q \in Requests : \/ requests'[q].step \in {"sign", "qiEnsure"}
                                \/ requests'[q] = requests[q]
         /\ IssuedInv'
         /\ PaidInv'
  <1> USE DEF ClaimsInv
  <1> PICK now \in 0..MaxTime : now = clock  BY DEF TypeOK
  <1>1. o \in Claimed => \/ claims[o].payer = payer
                        \/ clock - claims[o].claimedAt >= StaleAfter
    BY DEF Takeable
  <1>2. /\ \A a \in Issued : Backed(a)'
        /\ \A a \in Issued : /\ Apart(a, Authorization(o, payer, now))
                             /\ Apart(Authorization(o, payer, now), a)
        /\ Backed(Authorization(o, payer, now))'
        /\ PaidInv'
        /\ \A other \in Claimed' : claims'[other].claimedAt <= clock'
    BY <1>1, Handover
  <1>3. CASE payer \in Wallets /\ GoSign(r, payer, o, clock)
    <2>1. RequestsTyped'  BY <1>3, RequestSteps
    <2>2. Issued' \subseteq Issued \cup {Authorization(o, payer, now)}
      BY <1>3, IssuesOne
    <2>3. Authorization(o, payer, now) \in Authorizations
      BY <1>3 DEF Authorization, Authorizations
    <2>4. IssuedInv'  BY <1>2, <2>2, <2>3, IssuedGrows
    <2>5. \A q \in Requests : requests'[q].step = "sign" \/ requests'[q] = requests[q]
      BY <1>3 DEF GoSign, RequestsTyped
    <2> QED  BY <1>2, <2>1, <2>4, <2>5, HandToEffect
  <1>4. CASE payer = Qi /\ GoEnsure(r, o)
    <2>1. RequestsTyped'  BY <1>4, RequestSteps
    <2>2. Issued' \subseteq Issued  BY <1>4, IssuesNothing
    <2>3. IssuedInv'  BY <1>2, <2>2, IssuedKept
    <2>4. \A q \in Requests : requests'[q].step = "qiEnsure" \/ requests'[q] = requests[q]
      BY <1>4 DEF GoEnsure, RequestsTyped
    <2> QED  BY <1>2, <2>1, <2>3, <2>4, HandToEffect
  <1> QED  BY <1>3, <1>4

\* A request goes on without an order, or ends.
LEMMA PassStep ==
  ASSUME ClaimsInv, NEW r \in Requests,
         UNCHANGED <<clock, link, claims, held, paid, qiOrders, linked>>,
         \/ Answer(r)
         \/ /\ link.fixed = {}
            /\ \/ requests[r].payer \in Wallets /\ GoTo(r, "pool", requests[r].payer)
               \/ /\ link.pool = <<>>
                  /\ requests[r].payer \in Wallets
                  /\ GoTo(r, "mint", requests[r].payer)
               \/ GoTo(r, "qiReserve", Qi)
  PROVE  ClaimsInv'
  <1> USE DEF ClaimsInv
  <1>1. TypeOK'  BY DEF TypeOK, Claimed
  <1>2. RequestsTyped'  BY RequestSteps
  <1>3. RequestsInv'  BY DEF RequestsInv, RequestsTyped, Answer, GoTo, Idle
  <1>4. Issued' \subseteq Issued  BY IssuesNothing DEF Payers
  <1> QED  BY <1>1, <1>2, <1>3, <1>4, Quiet

\* A gateway link's order is taken.
LEMMA FixedStep ==
  ASSUME ClaimsInv, NEW r \in Requests, TakeFixed(r)
  PROVE  ClaimsInv'
  <1> USE DEF ClaimsInv
  <1>1. requests[r].payer \in Wallets  BY RequestTypes DEF TakeFixed
  <1> PICK payer \in Wallets : payer = requests[r].payer  BY <1>1
  <1> PICK o \in link.fixed :
             IF MayTakeFixed(o, payer) THEN HandTo(o, payer) /\ GoSign(r, payer, o, clock)
             ELSE Answer(r) /\ UNCHANGED claims
    BY DEF TakeFixed
  <1>2. o \in Orders  BY DEF TypeOK, LinkRecords
  <1>3. UNCHANGED <<clock, link, held, paid, qiOrders, linked>>  BY DEF TakeFixed
  <1>4. CASE MayTakeFixed(o, payer)
    <2>1. Takeable(o, payer)  BY <1>4 DEF MayTakeFixed, Takeable
    <2>2. /\ claims' \in [Orders -> ClaimRecords \cup {NoClaim}]
          /\ Claimed' = Claimed \cup {o}
          /\ \A other \in Claimed' : claims'[other].claimedAt <= clock'
          /\ RequestsTyped'
          /\ \A q \in Requests : \/ requests'[q].step \in {"sign", "qiEnsure"}
                                 \/ requests'[q] = requests[q]
          /\ IssuedInv'
          /\ PaidInv'
      BY <1>2, <1>3, <1>4, <2>1, TakeStep DEF Payers
    <2>3. RequestsInv'  BY <2>2, <1>3 DEF RequestsInv
    <2>4. BooksInv'  BY <2>2, <1>3 DEF BooksInv
    <2>5. link.pool = <<>>  BY DEF BooksInv
    <2>6. TypeOK'  BY <2>2, <2>5, <1>3 DEF TypeOK
    <2> QED  BY <2>2, <2>3, <2>4, <2>6
  <1>5. CASE ~MayTakeFixed(o, payer)
    BY <1>3, <1>5, PassStep
  <1> QED  BY <1>4, <1>5

\* An abandoned claim is passed on, to a wallet or to Qi.
LEMMA RecycleStep ==
  ASSUME ClaimsInv, NEW r \in Requests, Recycle(r) \/ QiRecycle(r)
  PROVE  ClaimsInv'
  <1> USE DEF ClaimsInv
  <1>1. UNCHANGED <<clock, link, held, paid, qiOrders, linked>>  BY DEF Recycle, QiRecycle
  <1>2. link.fixed = {}  BY DEF RequestsInv, Recycle, QiRecycle
  <1>3. Recycle(r) => requests[r].payer \in Wallets  BY RequestTypes DEF Recycle
  <1>4. CASE UNCHANGED claims /\ Reclaimable = {}
               /\ \/ GoTo(r, "pool", requests[r].payer) /\ Recycle(r)
                  \/ GoTo(r, "qiReserve", Qi)
    BY <1>1, <1>2, <1>3, <1>4, PassStep
  <1>5. ASSUME NEW o \in OldestReclaimable, NEW payer \in Payers, HandTo(o, payer),
               \/ payer \in Wallets /\ GoSign(r, payer, o, clock)
               \/ payer = Qi /\ GoEnsure(r, o)
        PROVE  ClaimsInv'
    <2>1. o \in Reclaimable  BY DEF OldestReclaimable
    <2>2. o \in Claimed /\ clock - claims[o].claimedAt >= StaleAfter
      BY <2>1, ReclaimableStale
    <2>3. o \in Orders /\ Takeable(o, payer)  BY <2>2, ClaimTypes DEF Takeable
    <2>4. /\ claims' \in [Orders -> ClaimRecords \cup {NoClaim}]
          /\ Claimed' = Claimed \cup {o}
          /\ \A other \in Claimed' : claims'[other].claimedAt <= clock'
          /\ RequestsTyped'
          /\ \A q \in Requests : \/ requests'[q].step \in {"sign", "qiEnsure"}
                                 \/ requests'[q] = requests[q]
          /\ IssuedInv'
          /\ PaidInv'
      BY <1>1, <1>5, <2>3, TakeStep
    <2>5. Claimed' = Claimed  BY <2>2, <2>4
    <2>6. TypeOK'  BY <2>4, <2>5, <1>1 DEF TypeOK
    <2>7. RequestsInv'  BY <2>4, <1>1 DEF RequestsInv
    <2>8. BooksInv'  BY <2>4, <2>5, <1>1 DEF BooksInv
    <2> QED  BY <2>4, <2>6, <2>7, <2>8
  <1>6. CASE \E o \in OldestReclaimable :
               /\ HandTo(o, requests[r].payer)
               /\ GoSign(r, requests[r].payer, o, clock)
               /\ Recycle(r)
    <2> PICK payer \in Wallets : payer = requests[r].payer  BY <1>3, <1>6
    <2> QED  BY <1>5, <1>6 DEF Payers
  <1>7. CASE \E o \in OldestReclaimable : HandTo(o, Qi) /\ GoEnsure(r, o)
    BY <1>5, <1>7 DEF Payers
  <1> QED  BY <1>4, <1>6, <1>7 DEF Recycle, QiRecycle

\* The pool's first order is taken, by a wallet or by Qi.
LEMMA PoolStep ==
  ASSUME ClaimsInv, NEW r \in Requests, TakePooled(r) \/ QiReserve(r)
  PROVE  ClaimsInv'
  <1> USE DEF ClaimsInv
  <1>1. UNCHANGED <<clock, held, paid, qiOrders, linked>>  BY DEF TakePooled, QiReserve
  <1>2. link.fixed = {}  BY DEF RequestsInv, TakePooled, QiReserve
  <1>3. TakePooled(r) => requests[r].payer \in Wallets  BY RequestTypes DEF TakePooled
  <1>4. CASE link.pool = <<>>
    <2>1. UNCHANGED <<link, claims>>  BY <1>4 DEF TakePooled, QiReserve
    <2>2. \/ Answer(r)
          \/ GoTo(r, "mint", requests[r].payer) /\ requests[r].payer \in Wallets
      BY <1>3, <1>4 DEF TakePooled, QiReserve
    <2> QED  BY <1>1, <1>2, <1>4, <2>1, <2>2, PassStep
  <1>5. CASE link.pool # <<>>
    <2>1. IsInjective(link.pool)  BY DEF BooksInv
    <2>2. /\ Head(link.pool) \in (link.stock \cap Orders) \ Claimed
          /\ PoolLeft \in Seq(Orders)
          /\ IsInjective(PoolLeft)
          /\ \A i \in DOMAIN PoolLeft :
                PoolLeft[i] \in link.stock \ (Claimed \cup {Head(link.pool)})
      BY <1>5, <2>1, PoolEffect
    <2> PICK o \in Orders : o = Head(link.pool)  BY <2>2
    <2> PICK payer \in Payers :
               /\ HandTo(o, payer)
               /\ \/ payer \in Wallets /\ GoSign(r, payer, o, clock)
                  \/ payer = Qi /\ GoEnsure(r, o)
      BY <1>3, <1>5 DEF TakePooled, QiReserve, Payers
    <2>3. link' = [link EXCEPT !.pool = PoolLeft]  BY <1>5 DEF TakePooled, QiReserve
    <2>4. Takeable(o, payer)  BY <2>2 DEF Takeable
    <2>5. /\ claims' \in [Orders -> ClaimRecords \cup {NoClaim}]
          /\ Claimed' = Claimed \cup {o}
          /\ \A other \in Claimed' : claims'[other].claimedAt <= clock'
          /\ RequestsTyped'
          /\ \A q \in Requests : \/ requests'[q].step \in {"sign", "qiEnsure"}
                                 \/ requests'[q] = requests[q]
          /\ IssuedInv'
          /\ PaidInv'
      BY <1>1, <2>4, TakeStep
    <2>6. /\ link' \in LinkRecords
          /\ link'.pool = PoolLeft
          /\ link'.fixed = link.fixed
          /\ link'.stock = link.stock
          /\ link'.cap = link.cap
      BY <2>2, <2>3 DEF TypeOK, LinkRecords
    <2>7. TypeOK'  BY <2>2, <2>5, <2>6, <1>1 DEF TypeOK
    <2>8. RequestsInv'
      <3>1. \A q \in Requests : requests'[q].step = "mint" => requests[q].step = "mint"
        BY <2>5
      <3> QED  BY <3>1, <2>5, <2>6, <1>2, <1>5 DEF RequestsInv
    <2>9. Claimed' \subseteq link'.stock  BY <1>2, <1>5, <2>2, <2>5, <2>6 DEF BooksInv
    <2>10. BooksInv'  BY <2>2, <2>5, <2>6, <2>9, <1>2 DEF BooksInv
    <2> QED  BY <2>5, <2>7, <2>8, <2>10
  <1> QED  BY <1>4, <1>5

\* A fresh order is minted under the cap.
LEMMA MintStep ==
  ASSUME ClaimsInv, NEW r \in Requests, Mint(r)
  PROVE  ClaimsInv'
  <1> USE DEF ClaimsInv
  <1>1. requests[r].payer \in Wallets  BY RequestTypes DEF Mint
  <1> PICK payer \in Wallets : payer = requests[r].payer  BY <1>1
  <1>2. UNCHANGED <<clock, link, held, paid, qiOrders, linked>>  BY DEF Mint
  <1>3. link.fixed = {} /\ link.pool = <<>>  BY DEF RequestsInv, Mint
  <1>4. CASE ~UnderCap  BY <1>2, <1>4, PassStep DEF Mint
  <1>5. CASE UnderCap
    <2> PICK o \in Fresh : HandTo(o, payer) /\ GoSign(r, payer, o, clock)
      BY <1>5 DEF Mint
    <2>1. o \in Orders \ Claimed  BY DEF Fresh
    <2>2. Takeable(o, payer)  BY <2>1 DEF Takeable
    <2>3. /\ claims' \in [Orders -> ClaimRecords \cup {NoClaim}]
          /\ Claimed' = Claimed \cup {o}
          /\ \A other \in Claimed' : claims'[other].claimedAt <= clock'
          /\ RequestsTyped'
          /\ \A q \in Requests : \/ requests'[q].step \in {"sign", "qiEnsure"}
                                 \/ requests'[q] = requests[q]
          /\ IssuedInv'
          /\ PaidInv'
      BY <1>2, <2>1, <2>2, TakeStep DEF Payers
    <2>4. TypeOK'  BY <2>3, <1>2, <1>3 DEF TypeOK
    <2>5. RequestsInv'  BY <2>3, <1>2 DEF RequestsInv
    <2>6. IsFiniteSet(Claimed)  BY ClaimAssumption, FS_Subset DEF Claimed
    <2>7. /\ Cardinality(Claimed) \in Nat
          /\ Cardinality(Claimed') = Cardinality(Claimed) + 1
      BY <2>1, <2>3, <2>6, FS_AddElement, FS_CardinalityType
    <2>8. link.cap \in Nat  BY DEF TypeOK, LinkRecords
    <2>9. link.cap # 0 => Cardinality(Claimed') <= link.cap  BY <1>5, <2>7, <2>8 DEF UnderCap
    <2>10. BooksInv'  BY <2>3, <2>9, <1>2, <1>3 DEF BooksInv
    <2> QED  BY <2>3, <2>4, <2>5, <2>10
  <1> QED  BY <1>4, <1>5

\* The claim in hand is signed.
LEMMA SignStep ==
  ASSUME ClaimsInv, NEW r \in Requests, Sign(r)
  PROVE  ClaimsInv'
  <1> USE DEF ClaimsInv
  <1> DEFINE new == Authorization(requests[r].order, requests[r].payer, requests[r].since)
  <1>1. UNCHANGED <<clock, link, claims, paid, qiOrders, linked>> /\ Answer(r)
    BY DEF Sign
  <1>2. requests[r].step = "sign" /\ held' = held \cup {new}  BY DEF Sign, Signed, Authorization
  <1>3. new \in Issued  BY <1>2 DEF Issued, Authorization
  <1>4. Issued' \subseteq Issued
    <2> HIDE DEF new
    <2>1. \A q \in Requests :
            requests'[q].step = "sign"
                => requests[q].step = "sign" /\ requests'[q] = requests[q]
      BY <1>1 DEF RequestsTyped, Answer, Idle
    <2>2. held' \subseteq Issued  BY <1>2, <1>3 DEF Issued
    <2> QED  BY <2>1, <2>2 DEF Issued
  <1>5. new \in Authorizations  BY <1>3 DEF IssuedInv
  <1>6. TypeOK'  BY <1>1, <1>2, <1>5 DEF TypeOK, Claimed
  <1>7. RequestsTyped'  BY <1>1, RequestSteps
  <1>8. RequestsInv'  BY <1>1 DEF RequestsInv, RequestsTyped, Answer, Idle
  <1> QED  BY <1>1, <1>4, <1>6, <1>7, <1>8, Quiet

\* The Qi record of the order, and the order's metadata.
LEMMA QiStep ==
  ASSUME ClaimsInv, NEW r \in Requests, QiEnsure(r) \/ QiMeta(r)
  PROVE  ClaimsInv'
  <1> USE DEF ClaimsInv
  <1>1. UNCHANGED <<clock, link, claims, held, paid>>  BY DEF QiEnsure, QiMeta
  <1>2. requests[r] \in Ensuring  BY RequestTypes DEF QiEnsure, QiMeta
  <1>3. requests[r].order \in Orders  BY <1>2 DEF Ensuring
  <1>4. CASE QiEnsure(r)
    <2>1. TypeOK'  BY <1>1, <1>3, <1>4 DEF TypeOK, QiEnsure, Claimed
    <2>2. requests' = [requests EXCEPT ![r].step = "qiMeta"]  BY <1>4 DEF QiEnsure
    <2>3. RequestsTyped'  BY <1>2, <2>2 DEF RequestsTyped, RequestStates, Ensuring
    <2>4. \A q \in Requests : requests'[q].step = "qiMeta" \/ requests'[q] = requests[q]
      BY <1>2, <2>2 DEF RequestsTyped, Ensuring
    <2>5. RequestsInv'  BY <2>4, <1>1 DEF RequestsInv
    <2>6. Issued' \subseteq Issued  BY <2>4, <1>1 DEF Issued
    <2> QED  BY <1>1, <2>1, <2>3, <2>5, <2>6, Quiet
  <1>5. CASE QiMeta(r)
    <2>1. Answer(r)  BY <1>5 DEF QiMeta
    <2>2. TypeOK'  BY <1>1, <1>3, <1>5 DEF TypeOK, QiMeta, Claimed
    <2>3. RequestsTyped'  BY <2>1, RequestSteps
    <2>4. RequestsInv'  BY <2>1, <1>1 DEF RequestsInv, RequestsTyped, Answer, Idle
    <2>5. Issued' \subseteq Issued  BY <2>1, <1>1, IssuesNothing
    <2> QED  BY <1>1, <2>2, <2>3, <2>4, <2>5, Quiet
  <1> QED  BY <1>4, <1>5

\* Payments, the sweep's writes and time.
LEMMA WorldStep ==
  ASSUME ClaimsInv,
         \/ \E authorization \in held : Pay(authorization)
         \/ \E o \in Orders : CustomerMeta(o) \/ PayQi(o) \/ SettleQi(o) \/ SettleClaim(o)
         \/ Tick
         \/ UNCHANGED vars
  PROVE  ClaimsInv'
  <1> USE DEF ClaimsInv
  <1>1. CASE \E authorization \in held : Pay(authorization)
    <2> PICK a \in held : Pay(a)  BY <1>1
    <2>1. a \in Issued  BY DEF Issued
    <2>2. a \in Authorizations /\ a.order \in Claimed  BY <2>1 DEF IssuedInv, Backed
    <2>3. a.order \in Orders /\ a.payer \in Wallets  BY <2>2 DEF Authorizations
    <2>4. UNCHANGED <<clock, link, claims, requests, held, qiOrders, linked>>  BY DEF Pay
    <2>5. Claimed' = Claimed /\ Issued' = Issued  BY <2>4 DEF Claimed, Issued
    <2>6. TypeOK'  BY <2>3, <2>4, <2>5 DEF Pay, TypeOK
    <2>7. RequestsTyped' /\ RequestsInv' /\ BooksInv'
      BY <2>4, <2>5 DEF RequestsTyped, RequestsInv, BooksInv
    <2>8. IssuedInv'
      <3>1. \A b \in Issued : Backed(b)'  BY <2>4, <2>5 DEF IssuedInv, Backed
      <3> QED  BY <2>5, <3>1, IssuedKept
    <2>9. PaidInv'  BY <2>2, <2>5 DEF Pay, PaidInv, TypeOK
    <2> QED  BY <2>6, <2>7, <2>8, <2>9
  <1>2. CASE \/ \E o \in Orders : CustomerMeta(o) \/ PayQi(o) \/ SettleQi(o)
             \/ UNCHANGED vars
    <2>1. UNCHANGED <<clock, link, claims, requests, held, paid>>
      BY <1>2 DEF CustomerMeta, PayQi, SettleQi, vars
    <2>2. Issued' = Issued /\ Claimed' = Claimed  BY <2>1 DEF Issued, Claimed
    <2>3. TypeOK'  BY <1>2, <2>1, <2>2 DEF CustomerMeta, PayQi, SettleQi, vars, TypeOK
    <2>4. RequestsTyped' /\ RequestsInv'  BY <2>1 DEF RequestsTyped, RequestsInv
    <2> QED  BY <2>1, <2>2, <2>3, <2>4, Quiet
  <1>3. ASSUME NEW o \in Orders, SettleClaim(o)
        PROVE  ClaimsInv'
    <2>1. UNCHANGED <<clock, link, requests, held, paid, qiOrders, linked>>
      BY <1>3 DEF SettleClaim
    <2>2. /\ o \in Claimed
          /\ claims' = [claims EXCEPT ![o].settled = TRUE]
      BY <1>3 DEF SettleClaim
    <2>3. claims[o] \in ClaimRecords  BY <2>2, ClaimTypes
    <2>4. /\ claims'[o] \in ClaimRecords
          /\ claims'[o].payer = claims[o].payer
          /\ claims'[o].claimedAt = claims[o].claimedAt
          /\ \A other \in Orders \ {o} : claims'[other] = claims[other]
          /\ claims' \in [Orders -> ClaimRecords \cup {NoClaim}]
      BY <2>2, <2>3 DEF TypeOK, ClaimRecords
    <2>5. claims'[o] # NoClaim
      <3>1. claims'[o].payer \in Payers  BY <2>4 DEF ClaimRecords
      <3>2. claims'[o].payer # NoClaim.payer  BY <3>1, ClaimAssumption DEF NoClaim
      <3> QED  BY <3>2
    <2>6. Claimed' = Claimed  BY <2>2, <2>4, <2>5 DEF Claimed
    <2>7. Issued' = Issued  BY <2>1 DEF Issued
    <2>8. \A x \in Claimed : /\ claims'[x].payer = claims[x].payer
                             /\ claims'[x].claimedAt = claims[x].claimedAt
      BY <2>4 DEF Claimed
    <2>9. TypeOK'  BY <2>1, <2>4, <2>6 DEF TypeOK
    <2>10. RequestsTyped' /\ RequestsInv' /\ BooksInv' /\ PaidInv'
      BY <2>1, <2>6, <2>8 DEF RequestsTyped, RequestsInv, BooksInv, PaidInv
    <2>11. \A a \in Issued : Backed(a)'  BY <2>6, <2>8 DEF IssuedInv, Backed
    <2> QED  BY <2>7, <2>9, <2>10, <2>11, IssuedKept
  <1>4. CASE Tick
    <2>1. UNCHANGED <<link, claims, requests, held, paid, qiOrders, linked>>
      BY <1>4 DEF Tick
    <2>2. Claimed' = Claimed /\ Issued' = Issued  BY <2>1 DEF Claimed, Issued
    <2>3. clock \in Nat /\ clock' \in 0..MaxTime /\ clock' = clock + 1
      BY <1>4, ClaimAssumption DEF Tick, TypeOK
    <2>4. TypeOK'  BY <2>1, <2>2, <2>3 DEF TypeOK
    <2>5. \A o \in Claimed : claims[o].claimedAt \in Nat  BY ClaimTypes
    <2>6. BooksInv'  BY <2>1, <2>2, <2>3, <2>5 DEF BooksInv
    <2>7. RequestsTyped' /\ RequestsInv' /\ PaidInv'
      BY <2>1, <2>2 DEF RequestsTyped, RequestsInv, PaidInv
    <2>8. \A a \in Issued : Backed(a)'  BY <2>1, <2>2 DEF IssuedInv, Backed
    <2> QED  BY <2>2, <2>4, <2>6, <2>7, <2>8, IssuedKept
  <1> QED  BY <1>1, <1>2, <1>3, <1>4

LEMMA StepInv == ClaimsInv /\ [Next]_vars => ClaimsInv'
  BY ReadStep, FixedStep, RecycleStep, PoolStep, MintStep, SignStep, QiStep, WorldStep
     DEF Next, ClaimRequest, QiRequest

-----------------------------------------------------------------------------
(* What follows.                                                           *)

LEMMA MaxOfTwo ==
  ASSUME NEW m \in Nat, NEW n \in Nat
  PROVE  Max({m, n}) \in Nat /\ m <= Max({m, n}) /\ n <= Max({m, n})
  <1>1. \E x \in {m, n} : \A y \in {m, n} : x >= y  OBVIOUS
  <1> QED  BY <1>1 DEF Max

LEMMA InvCapped == ClaimsInv => RedemptionsCapped
  <1> SUFFICES ASSUME ClaimsInv PROVE RedemptionsCapped  OBVIOUS
  <1> USE DEF ClaimsInv
  <1> DEFINE most == Max({link.cap, Cardinality(link.stock)})
  <1>1. /\ IsFiniteSet(Claimed) /\ IsFiniteSet(link.stock)
        /\ link.cap \in Nat
    BY ClaimAssumption, FS_Subset DEF Claimed, TypeOK, LinkRecords
  <1>2. Cardinality(Claimed) \in Nat /\ Cardinality(link.stock) \in Nat
    BY <1>1, FS_CardinalityType
  <1>3. most \in Nat /\ link.cap <= most /\ Cardinality(link.stock) <= most
    BY <1>1, <1>2, MaxOfTwo
  <1>4. \/ Cardinality(Claimed) <= Cardinality(link.stock)
        \/ link.cap # 0 => Cardinality(Claimed) <= link.cap
    <2>1. CASE Claimed \subseteq link.stock  BY <2>1, <1>1, FS_Subset
    <2>2. CASE link.fixed # {}
      <3> PICK o \in link.fixed : TRUE  BY <2>2
      <3>1. Claimed \in SUBSET {o}  BY <2>2 DEF BooksInv
      <3>2. IsFiniteSet({o}) /\ Cardinality({o}) = 1  BY FS_Singleton
      <3>3. Cardinality(Claimed) <= 1  BY <3>1, <3>2, FS_Subset
      <3> QED  BY <3>3, <1>1, <1>2
    <2> QED  BY <2>1, <2>2 DEF BooksInv
  <1>5. link.cap # 0 => Cardinality(Claimed) <= most
    <2> HIDE DEF most
    <2> QED  BY <1>1, <1>2, <1>3, <1>4
  <1> QED  BY <1>5 DEF RedemptionsCapped, PaidInv

\* What the claims table must promise is an invariant: every reachable state is well
\* typed, and the authorizations issued, the claims behind them, the requests at work and
\* what is left of the link agree.
THEOREM ClaimsCorrect == Spec => []ClaimsInv
  <1>1. Init => ClaimsInv  BY InitInv
  <1>2. ClaimsInv /\ [Next]_vars => ClaimsInv'  BY StepInv
  <1> QED  BY <1>1, <1>2, PTL DEF Spec

\* Every reachable state of the claims model is well typed, and the pool holds only
\* orders of the link that nobody has claimed.
THEOREM TypeCorrect == Spec => []TypeOK
  <1>1. ClaimsInv => TypeOK  BY DEF ClaimsInv
  <1> QED  BY <1>1, ClaimsCorrect, PTL

\* A link never sells more orders than its cap, or its stock if that is larger, and no
\* order is paid that was not claimed, for any number of requests side by side.
THEOREM RedemptionsCappedAlways == Spec => []RedemptionsCapped
  BY InvCapped, ClaimsCorrect, PTL

\* Authorizations for one order that are held by different wallets are at least
\* StaleAfter apart.
THEOREM ExclusiveForWindowAlways == Spec => []ExclusiveForWindow
  <1>1. ClaimsInv => ExclusiveForWindow
    BY DEF ClaimsInv, IssuedInv, Issued, Apart, ExclusiveForWindow
  <1> QED  BY <1>1, ClaimsCorrect, PTL

\* A request that had no order in hand never takes up one that is settled in the books.
LEMMA TakesOpenOrder ==
  ASSUME ClaimsInv, Next, NEW r \in Requests,
         requests[r].step \notin {"idle", "sign", "qiEnsure"},
         requests'[r].step \in {"sign", "qiEnsure"}
  PROVE  requests'[r].order \notin Settled
  <1> USE DEF ClaimsInv
  <1>1. PICK q \in Requests : ClaimRequest(q) \/ QiRequest(q) \/ Abandon(q)
    BY DEF Next, Pay, CustomerMeta, PayQi, SettleQi, SettleClaim, Tick
  <1>2. q = r
    BY <1>1 DEF RequestsTyped, ClaimRequest, QiRequest, Claim, TakeFixed, CheckLatest, Recycle,
                TakePooled, Mint, Sign, QiClaim, QiRecycle, QiReserve, QiEnsure, QiMeta,
                Abandon, GoTo, GoSign, GoEnsure, Answer
  <1>3. requests' # [requests EXCEPT ![r] = Idle]  BY DEF RequestsTyped, Idle
  <1>4. ASSUME NEW step \in {"fixed", "latest", "recycle", "pool", "mint", "qiRecycle", "qiReserve"},
               NEW payer
        PROVE  ~GoTo(r, step, payer)
    BY DEF RequestsTyped, GoTo
  <1>5. ASSUME NEW o, NEW payer, NEW since, GoSign(r, payer, o, since)
        PROVE  requests'[r].order = o
    BY <1>5 DEF RequestsTyped, GoSign
  <1>6. ASSUME NEW o, GoEnsure(r, o)
        PROVE  requests'[r].order = o
    BY <1>6 DEF RequestsTyped, GoEnsure
  <1>7. ~(Answer(r))  BY <1>3 DEF Answer
  <1>8. CASE TakeFixed(r)
    BY <1>5, <1>7, <1>8 DEF TakeFixed, MayTakeFixed, Settled
  <1>9. CASE CheckLatest(r)
    BY <1>4, <1>5, <1>9 DEF CheckLatest
  <1>10. CASE Recycle(r) \/ QiRecycle(r)
    BY <1>4, <1>5, <1>6, <1>10 DEF Recycle, QiRecycle, OldestReclaimable, Reclaimable
  <1>11. CASE TakePooled(r) \/ QiReserve(r)
    <2>1. link.pool # <<>>  BY <1>4, <1>7, <1>11 DEF TakePooled, QiReserve
    <2>2. Head(link.pool) \notin Claimed  BY <2>1, PoolEffect DEF BooksInv
    <2> QED  BY <1>5, <1>6, <1>11, <2>1, <2>2 DEF TakePooled, QiReserve, Settled
  <1>12. CASE Mint(r)
    BY <1>5, <1>7, <1>12 DEF Mint, Fresh, Settled
  <1>13. ~(\E payer \in Wallets : Claim(r, payer)) /\ ~QiClaim(r)
    BY DEF Claim, QiClaim, Idle
  <1>14. ~Sign(r) /\ ~QiEnsure(r) /\ ~QiMeta(r) /\ ~Abandon(r)
    BY <1>7 DEF Sign, QiEnsure, QiMeta, Abandon
  <1> QED
    BY <1>1, <1>2, <1>8, <1>9, <1>10, <1>11, <1>12, <1>13, <1>14 DEF ClaimRequest, QiRequest

\* No request takes up an order that is settled in the books, whatever it had read before.
THEOREM SettledNotSoldAgainAlways == Spec => SettledNotSoldAgain
  <1> DEFINE A == \A r \in Requests :
                    requests[r].step \notin {"idle", "sign", "qiEnsure"}
                      => \/ requests'[r].step \notin {"sign", "qiEnsure"}
                         \/ requests'[r].order \notin Settled
  <1>1. ClaimsInv /\ [Next]_vars => [A]_vars  BY TakesOpenOrder
  <1> QED  BY <1>1, ClaimsCorrect, PTL DEF Spec, SettledNotSoldAgain

=============================================================================
