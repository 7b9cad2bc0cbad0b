------------------------------ MODULE ServicesProofs --------------------------
(***************************************************************************)
(* Theorems about the parts of Services.                                   *)
(*                                                                         *)
(* Each part has an inductive invariant of its own.  A step of Services is *)
(* a step of one part that leaves the others as they are, so what every    *)
(* step of a part preserves, every step of Services preserves.             *)
(***************************************************************************)
EXTENDS Services, ConnectorProofs, StoresProofs, FiniteSetTheorems

-----------------------------------------------------------------------------
(* The payment pages.                                                      *)

Fates == {"pending", "paid", "reverted"}

Transactions == [order : Nat, fate : Fates]

\* An attempt a of a customer who has claimed top orders: it pays one of them, its transaction
\* s[a.tx] is one that pays this order, and it waits for the books only once that transaction
\* is mined (Blip tells nothing of it).
TryOK(a, top, s, v) ==
    \/ a \in {Idle, [step |-> "topup"]}
    \/ v.link /\ a \in {[step |-> "network"], [step |-> "claim"], [step |-> "take"]}
    \/ a \in [step : {"answer", "fund", "approve", "approving", "prompt"}, order : 1 .. top]
    \/ /\ a \in [step : {"receipt", "confirm"}, order : 1 .. top, tx : DOMAIN s]
       /\ s[a.tx].order = a.order
       /\ a.step = "confirm" => v.blip \/ s[a.tx].fate = "paid"

SettledIn(o, e, s) == o \in e \/ \E i \in DOMAIN s : s[i].order = o /\ s[i].fate = "paid"

StageOK(g, v, s, e, q) ==
    /\ g.name = "done" =>
          /\ g.tx \in DOMAIN s
          /\ SettledIn(s[g.tx].order, e, s)
          /\ v.blip \/ s[g.tx].fate = "paid"
    /\ g.name = "qiSettled" => q = "settled"

\* The latest claim, the young ones and the order shown are among the orders claimed; a
\* checkout page has its order.
ClaimOK ==
    /\ claims \in [made : Nat, latest : Nat, young : SUBSET Nat]
    /\ visit.orders \in Nat /\ claims.made <= visit.orders
    /\ claims.latest <= claims.made
    /\ shown \in Nat /\ shown <= claims.made
    /\ claims.young \subseteq 1 .. claims.made
    /\ ~visit.link => claims.made = 1

PaidAtMostOnce(s) ==
    \A i, j \in DOMAIN s :
        s[i].fate = "paid" /\ s[j].fate = "paid" /\ s[i].order = s[j].order => i = j

CheckoutInv ==
    /\ visit \in Visits
    /\ reads \in 0 .. MaxReads
    /\ ClaimOK
    /\ sent \in Seq(Transactions) /\ Len(sent) <= MaxSends
    /\ PaidAtMostOnce(sent)
    /\ tries = [t \in Taps |-> tries[t]]
    /\ \A t \in Taps : TryOK(tries[t], claims.made, sent, visit)
    /\ StageOK(stage, visit, sent, elsewhere, qiOrder)
    /\ qiAnswer => qiOrder = "settled"

\* What the chain knows of payments only grows: a later list s2 of transactions keeps those of
\* s1, and what was paid stays paid.
Extends(s1, s2) ==
    /\ DOMAIN s1 \subseteq DOMAIN s2
    /\ \A i \in DOMAIN s1 :
          s2[i].order = s1[i].order /\ (s1[i].fate = "paid" => s2[i] = s1[i])

\* An attempt stays in order when the chain and the claim move on.
LEMMA TryKept ==
    ASSUME NEW a, NEW top1 \in Nat, NEW top2 \in Nat, NEW s1, NEW s2, NEW v,
           TryOK(a, top1, s1, v), top1 <= top2, Extends(s1, s2)
    PROVE  TryOK(a, top2, s2, v)
  <1>1. CASE a \in {Idle, [step |-> "topup"]}
    BY <1>1 DEF TryOK
  <1>2. CASE v.link /\ a \in {[step |-> "network"], [step |-> "claim"], [step |-> "take"]}
    BY <1>2 DEF TryOK
  <1>3. CASE a \in [step : {"answer", "fund", "approve", "approving", "prompt"}, order : 1 .. top1]
    <2>1. a \in [step : {"answer", "fund", "approve", "approving", "prompt"}, order : 1 .. top2]
      BY <1>3
    <2> QED BY <2>1 DEF TryOK
  <1>4. CASE /\ a \in [step : {"receipt", "confirm"}, order : 1 .. top1, tx : DOMAIN s1]
             /\ s1[a.tx].order = a.order
             /\ a.step = "confirm" => v.blip \/ s1[a.tx].fate = "paid"
    <2>1. a \in [step : {"receipt", "confirm"}, order : 1 .. top2, tx : DOMAIN s2]
      BY <1>4 DEF Extends
    <2>2. a.tx \in DOMAIN s1
      BY <1>4
    <2>3. s2[a.tx].order = a.order /\ (a.step = "confirm" => v.blip \/ s2[a.tx].fate = "paid")
      BY <1>4, <2>2 DEF Extends
    <2> QED BY <2>1, <2>3 DEF TryOK
  <1> QED BY <1>1, <1>2, <1>3, <1>4 DEF TryOK

\* So does what the page shows.
LEMMA StageKept ==
    ASSUME NEW g, NEW v, NEW s1, NEW s2, NEW e1, NEW e2, NEW q1, NEW q2,
           StageOK(g, v, s1, e1, q1), Extends(s1, s2), e1 \subseteq e2,
           q1 = "settled" => q2 = "settled",
           \A i \in DOMAIN s1 : s1[i] \in Transactions
    PROVE  StageOK(g, v, s2, e2, q2)
  <1>1. ASSUME g.name = "done" PROVE g.tx \in DOMAIN s2 /\ SettledIn(s2[g.tx].order, e2, s2)
    <2> DEFINE o == s1[g.tx].order
    <2>1. g.tx \in DOMAIN s1 /\ g.tx \in DOMAIN s2 /\ s2[g.tx].order = o
      BY <1>1 DEF StageOK, Extends
    <2>2. CASE o \in e1
      BY <2>1, <2>2 DEF SettledIn
    <2>3. CASE \E i \in DOMAIN s1 : s1[i].order = o /\ s1[i].fate = "paid"
      BY <2>1, <2>3 DEF SettledIn, Extends
    <2> QED BY <1>1, <2>1, <2>2, <2>3 DEF StageOK, SettledIn
  <1>2. ASSUME g.name = "done"
        PROVE  v.blip \/ s2[g.tx].fate = "paid"
    BY <1>2 DEF StageOK, Extends
  <1>3. g.name = "qiSettled" => q2 = "settled"
    BY DEF StageOK
  <1> QED BY <1>1, <1>2, <1>3 DEF StageOK

\* A page is in order before anything has happened.
LEMMA CheckoutInitInv ==
    ASSUME NEW v \in Visits, CheckoutInit(v)
    PROVE  CheckoutInv
  <1> v.link \in BOOLEAN
    BY CheckoutAssumption DEF CheckoutAssumption
  <1>1. ClaimOK
    <2>1. v.orders \in Nat /\ (~v.link => v.orders = 1) /\ visit = v
      BY CheckoutAssumption DEF CheckoutAssumption, CheckoutInit
    <2>2. CASE v.link
      BY <2>1, <2>2 DEF CheckoutInit, ClaimOK
    <2>3. CASE ~v.link
      BY <2>1, <2>3 DEF CheckoutInit, ClaimOK
    <2> QED BY <2>2, <2>3
  <1>2. sent \in Seq(Transactions) /\ Len(sent) <= MaxSends /\ PaidAtMostOnce(sent)
    BY CheckoutAssumption DEF CheckoutInit, PaidAtMostOnce, CheckoutAssumption
  <1>3. StageOK(stage, visit, sent, elsewhere, qiOrder)
    BY DEF CheckoutInit, StageOK, Screen
  <1>4. \A t \in Taps : TryOK(tries[t], claims.made, sent, visit)
    BY DEF CheckoutInit, TryOK
  <1>5. tries = [t \in Taps |-> tries[t]]
    BY DEF CheckoutInit
  <1>6. visit \in Visits /\ reads \in 0 .. MaxReads /\ (qiAnswer => qiOrder = "settled")
    BY CheckoutAssumption DEF CheckoutInit, CheckoutAssumption
  <1> QED BY <1>1, <1>2, <1>3, <1>4, <1>5, <1>6 DEF CheckoutInv

\* Nothing is lost from a list of transactions that is left alone.
LEMMA ExtendsItself == \A s : Extends(s, s)
  BY DEF Extends

\* An attempt moves on in order, the others stay as they are.
LEMMA TriesMove ==
    ASSUME CheckoutInv, NEW t \in Taps, NEW a, NEW top \in Nat, NEW s,
           tries' = [tries EXCEPT ![t] = a], TryOK(a, top, s, visit),
           claims.made <= top, Extends(sent, s)
    PROVE  tries' = [u \in Taps |-> tries'[u]] /\ \A u \in Taps : TryOK(tries'[u], top, s, visit)
  <1>1. claims.made \in Nat /\ tries = [u \in Taps |-> tries[u]]
    BY DEF CheckoutInv, ClaimOK
  <1>2. ASSUME NEW u \in Taps PROVE TryOK(tries'[u], top, s, visit)
    <2>1. TryOK(tries[u], claims.made, sent, visit)
      BY DEF CheckoutInv
    <2>2. TryOK(tries[u], top, s, visit)
      BY <2>1, <1>1, TryKept
    <2>3. tries'[u] = IF u = t THEN a ELSE tries[u]
      BY <1>1
    <2> QED BY <2>2, <2>3
  <1>3. tries' = [u \in Taps |-> tries'[u]]
    BY <1>1
  <1> QED BY <1>2, <1>3

\* A step of the page or of an attempt alone.
LEMMA AttemptAlone ==
    ASSUME CheckoutInv,
           UNCHANGED <<visit, claims, shown, sent, elsewhere, qiOrder, qiAnswer>>,
           reads' \in 0 .. MaxReads,
           tries' = [u \in Taps |-> tries'[u]],
           \A u \in Taps : TryOK(tries'[u], claims.made, sent, visit),
           StageOK(stage', visit, sent, elsewhere, qiOrder)
    PROVE  CheckoutInv'
  <1>1. ClaimOK'
    BY DEF CheckoutInv, ClaimOK
  <1> QED BY <1>1 DEF CheckoutInv

\* A screen without a payment says nothing of one.
LEMMA QuietScreen ==
    ASSUME NEW g, g.name \notin {"done", "qiSettled"}, NEW v, NEW s, NEW e, NEW q
    PROVE  StageOK(g, v, s, e, q)
  BY DEF StageOK

\* The steps of one attempt that change nothing but the attempt and the page.
LEMMA MoveOn ==
    ASSUME CheckoutInv, NEW t \in Taps, NEW a,
           UNCHANGED <<visit, reads, claims, shown, sent, elsewhere, qiOrder, qiAnswer>>,
           tries' = [tries EXCEPT ![t] = a], TryOK(a, claims.made, sent, visit),
           StageOK(stage', visit, sent, elsewhere, qiOrder)
    PROVE  CheckoutInv'
  <1>1. claims.made \in Nat /\ claims.made <= claims.made /\ Extends(sent, sent)
    BY ExtendsItself DEF CheckoutInv, ClaimOK
  <1>2. /\ tries' = [u \in Taps |-> tries'[u]]
        /\ \A u \in Taps : TryOK(tries'[u], claims.made, sent, visit)
    BY <1>1, TriesMove
  <1>3. reads \in 0 .. MaxReads
    BY DEF CheckoutInv
  <1>4. reads' \in 0 .. MaxReads
    BY <1>3
  <1> QED BY <1>2, <1>4, AttemptAlone

\* The page itself: loading it, and trying again.
LEMMA PageStep ==
    ASSUME CheckoutInv, LoadPage \/ TryAgain \/ Reloaded
    PROVE  CheckoutInv'
  <1>1. /\ UNCHANGED <<visit, tries, claims, shown, sent, elsewhere, qiOrder, qiAnswer>>
        /\ stage'.name \notin {"done", "qiSettled"}
    BY DEF LoadPage, TryAgain, Reloaded, Screen, Failed
  <1>2. reads' \in 0 .. MaxReads
    <2>1. reads \in 0 .. MaxReads /\ MaxReads \in Nat
      BY CheckoutAssumption DEF CheckoutAssumption, CheckoutInv
    <2>2. \/ reads' = reads
          \/ reads < MaxReads /\ reads' = reads + 1
          \/ reads > 0 /\ reads' = reads - 1
      BY DEF LoadPage, TryAgain, Reloaded
    <2> QED BY <2>1, <2>2
  <1>3. StageOK(stage', visit, sent, elsewhere, qiOrder)
    BY <1>1, QuietScreen
  <1>4. /\ tries' = [u \in Taps |-> tries'[u]]
        /\ \A u \in Taps : TryOK(tries'[u], claims.made, sent, visit)
    BY <1>1 DEF CheckoutInv
  <1> QED BY <1>1, <1>2, <1>3, <1>4, AttemptAlone

\* What may follow a wait is one of the steps before the payment.
LEMMA FirstIsEarly == First \in {"fund", "approve", "approving", "prompt"}
  BY DEF First, AfterFunding

\* A tap, and the return from a top-up.
LEMMA StartStep ==
    ASSUME CheckoutInv, NEW t \in Taps, Start(t),
           UNCHANGED <<visit, reads, claims, shown, sent, elsewhere, qiOrder, qiAnswer>>
    PROVE  CheckoutInv'
  <1>1. CASE visit.link
    <2>1. tries' = [tries EXCEPT ![t] = [step |-> "network"]] /\ stage' = stage
      BY <1>1 DEF Start
    <2>2. TryOK([step |-> "network"], claims.made, sent, visit)
      BY <1>1 DEF TryOK
    <2>3. StageOK(stage', visit, sent, elsewhere, qiOrder)
      BY <2>1 DEF CheckoutInv
    <2> QED BY <2>1, <2>2, <2>3, MoveOn
  <1>2. CASE ~visit.link
    <2>1. /\ tries' = [tries EXCEPT ![t] = [step |-> First, order |-> 1]]
          /\ stage'.name \notin {"done", "qiSettled"}
      BY <1>2 DEF Start, Screen
    <2>2. claims.made = 1
      BY <1>2 DEF CheckoutInv, ClaimOK
    <2>3. TryOK([step |-> First, order |-> 1], claims.made, sent, visit)
      BY <2>2, FirstIsEarly DEF TryOK
    <2>4. StageOK(stage', visit, sent, elsewhere, qiOrder)
      BY <2>1, QuietScreen
    <2> QED BY <2>1, <2>3, <2>4, MoveOn
  <1> QED BY <1>1, <1>2

LEMMA TapStep ==
    ASSUME CheckoutInv, NEW t \in Taps, Tap(t) \/ TapFund(t) \/ ToppedUp(t)
    PROVE  CheckoutInv'
  <1>1. UNCHANGED <<visit, reads, claims, shown, sent, elsewhere, qiOrder, qiAnswer>>
    BY DEF Tap, TapFund, ToppedUp
  <1>2. CASE Start(t)
    BY <1>1, <1>2, StartStep
  <1>3. CASE stage' = Failed(FALSE) /\ UNCHANGED tries
    <2>1. StageOK(stage', visit, sent, elsewhere, qiOrder)
      BY <1>3, QuietScreen DEF Failed
    <2>2. reads' \in 0 .. MaxReads
      BY <1>1 DEF CheckoutInv
    <2>3. /\ tries' = [u \in Taps |-> tries'[u]]
          /\ \A u \in Taps : TryOK(tries'[u], claims.made, sent, visit)
      BY <1>3 DEF CheckoutInv
    <2> QED BY <1>1, <2>1, <2>2, <2>3, AttemptAlone
  <1>4. CASE TapFund(t)
    <2>1. tries' = [tries EXCEPT ![t] = [step |-> "topup"]] /\ stage' = stage
      BY <1>4 DEF TapFund
    <2>2. TryOK([step |-> "topup"], claims.made, sent, visit)
      BY DEF TryOK
    <2>3. StageOK(stage', visit, sent, elsewhere, qiOrder)
      BY <2>1 DEF CheckoutInv
    <2> QED BY <1>1, <2>1, <2>2, <2>3, MoveOn
  <1> QED BY <1>2, <1>3, <1>4 DEF Tap, ToppedUp

\* The end of an attempt in an error.
LEMMA GiveUpStep ==
    ASSUME CheckoutInv, NEW t \in Taps, NEW fund, GiveUp(t, fund),
           UNCHANGED <<visit, reads, claims, shown, sent, elsewhere, qiOrder, qiAnswer>>
    PROVE  CheckoutInv'
  <1>1. tries' = [tries EXCEPT ![t] = Idle] /\ stage'.name \notin {"done", "qiSettled"}
    BY DEF GiveUp, Failed
  <1>2. TryOK(Idle, claims.made, sent, visit)
    BY DEF TryOK
  <1>3. StageOK(stage', visit, sent, elsewhere, qiOrder)
    BY <1>1, QuietScreen
  <1> QED BY <1>1, <1>2, <1>3, MoveOn

\* The waits before the payment.
LEMMA WaitStep ==
    ASSUME CheckoutInv, NEW t \in Taps,
           OnNetwork(t) \/ Funded(t) \/ Approve(t) \/ Approved(t) \/ StepFails(t)
              \/ ShortOfFunds(t) \/ ReceiptDeadline(t) \/ ConfirmDeadline(t)
    PROVE  CheckoutInv'
  <1>1. UNCHANGED <<visit, reads, claims, shown, sent, elsewhere, qiOrder, qiAnswer>>
    BY DEF OnNetwork, Funded, Approve, Approved, StepFails, ShortOfFunds, ReceiptDeadline,
           ConfirmDeadline
  <1>2. TryOK(tries[t], claims.made, sent, visit) /\ tries = [u \in Taps |-> tries[u]]
    BY DEF CheckoutInv
  <1>3. CASE OnNetwork(t)
    <2>1. tries[t] = [step |-> "network"] /\ visit.link
      BY <1>2, <1>3 DEF OnNetwork, TryOK, Idle
    <2>2. tries' = [tries EXCEPT ![t] = [step |-> "claim"]]
      <3>1. tries' = [tries EXCEPT ![t] = [tries[t] EXCEPT !.step = "claim"]]
        BY <1>2, <1>3 DEF OnNetwork, Proceed
      <3>2. [tries[t] EXCEPT !.step = "claim"] = [step |-> "claim"]
        BY <2>1
      <3> QED BY <3>1, <3>2
    <2>3. TryOK([step |-> "claim"], claims.made, sent, visit)
      BY <2>1 DEF TryOK
    <2>4. StageOK(stage', visit, sent, elsewhere, qiOrder)
      BY <1>3, QuietScreen DEF OnNetwork, Screen
    <2> QED BY <1>1, <2>2, <2>3, <2>4, MoveOn
  <1>4. CASE Funded(t) \/ Approve(t) \/ Approved(t)
    <2>1. tries[t] \in [step : {"answer", "fund", "approve", "approving", "prompt"},
                        order : 1 .. claims.made]
      BY <1>2, <1>4 DEF Funded, Approve, Approved, TryOK, Idle
    <2>2. PICK step \in {"approve", "approving", "prompt"} : Proceed(t, step)
      BY <1>4 DEF Funded, AfterFunding, Approve, Approved
    <2>3. tries' = [tries EXCEPT ![t] = [step |-> step, order |-> tries[t].order]]
      <3>1. tries' = [tries EXCEPT ![t] = [tries[t] EXCEPT !.step = step]]
        BY <1>2, <2>2 DEF Proceed
      <3>2. [tries[t] EXCEPT !.step = step] = [step |-> step, order |-> tries[t].order]
        BY <2>1
      <3> QED BY <3>1, <3>2
    <2>4. TryOK([step |-> step, order |-> tries[t].order], claims.made, sent, visit)
      BY <2>1 DEF TryOK
    <2>5. StageOK(stage', visit, sent, elsewhere, qiOrder)
      BY <1>4 DEF Funded, Approve, Approved, CheckoutInv
    <2> QED BY <1>1, <2>3, <2>4, <2>5, MoveOn
  <1>5. CASE StepFails(t) \/ ShortOfFunds(t) \/ ReceiptDeadline(t) \/ ConfirmDeadline(t)
    <2>1. PICK fund : GiveUp(t, fund)
      BY <1>5 DEF StepFails, ShortOfFunds, ReceiptDeadline, ConfirmDeadline
    <2> QED BY <1>1, <2>1, GiveUpStep
  <1> QED BY <1>3, <1>4, <1>5


\* The wallet's latest claim is read, and is the answer if it is young.
LEMMA CheckClaimStep ==
    ASSUME CheckoutInv, NEW t \in Taps, CheckClaim(t)
    PROVE  CheckoutInv'
  <1>1. /\ UNCHANGED <<visit, reads, claims, shown, sent, elsewhere, qiOrder, qiAnswer>>
        /\ stage' = stage
    BY DEF CheckClaim
  <1>2. PICK a : /\ tries' = [tries EXCEPT ![t] = a]
                 /\ \/ /\ claims.latest \in claims.young
                       /\ a = [step |-> "answer", order |-> claims.latest]
                    \/ a = [step |-> "take"]
    BY DEF CheckClaim
  <1>3. TryOK(a, claims.made, sent, visit)
    <2>1. CASE a = [step |-> "take"]
      <3>1. TryOK(tries[t], claims.made, sent, visit) /\ tries[t].step = "claim"
        BY DEF CheckoutInv, CheckClaim
      <3>2. visit.link
        BY <3>1 DEF TryOK, Idle
      <3> QED BY <2>1, <3>2 DEF TryOK
    <2>2. CASE claims.latest \in claims.young /\ a = [step |-> "answer", order |-> claims.latest]
      <3>1. claims.latest \in 1 .. claims.made
        BY <2>2 DEF CheckoutInv, ClaimOK
      <3>2. a \in [step : {"answer", "fund", "approve", "approving", "prompt"},
                   order : 1 .. claims.made]
        BY <2>2, <3>1
      <3> QED BY <3>2 DEF TryOK
    <2> QED BY <1>2, <2>1, <2>2
  <1>4. StageOK(stage', visit, sent, elsewhere, qiOrder)
    BY <1>1 DEF CheckoutInv
  <1> QED BY <1>1, <1>2, <1>3, <1>4, MoveOn

\* The order taken is among those claimed from now on.
LEMMA TakeOrderStep ==
    ASSUME CheckoutInv, NEW t \in Taps, TakeOrder(t)
    PROVE  CheckoutInv'
  <1> DEFINE m == claims.made
             top(o) == IF o > m THEN o ELSE m
  <1>1. PICK o \in (1 .. m + 1) \ claims.young :
            /\ o <= visit.orders
            /\ claims' = [made |-> top(o), latest |-> o, young |-> claims.young \cup {o}]
            /\ tries' = [tries EXCEPT ![t] = [step |-> "answer", order |-> o]]
    BY DEF TakeOrder
  <1>2. UNCHANGED <<visit, reads, stage, shown, sent, elsewhere, qiOrder, qiAnswer>>
    BY DEF TakeOrder
  <1>3. m \in Nat /\ m <= visit.orders /\ visit.orders \in Nat /\ shown \in Nat /\ shown <= m
        /\ claims.young \subseteq 1 .. m /\ visit.link
    <2>1. TryOK(tries[t], claims.made, sent, visit) /\ tries[t].step = "take"
      BY DEF CheckoutInv, TakeOrder
    <2>2. visit.link
      BY <2>1 DEF TryOK, Idle
    <2> QED BY <2>2 DEF CheckoutInv, ClaimOK
  <1>4. /\ o \in Nat /\ 1 <= o /\ o <= top(o) /\ m <= top(o) /\ top(o) \in Nat
        /\ top(o) <= visit.orders
    BY <1>1, <1>3
  <1>5. TryOK([step |-> "answer", order |-> o], top(o), sent, visit)
    <2>1. o \in 1 .. top(o)
      BY <1>4
    <2>2. [step |-> "answer", order |-> o]
             \in [step : {"answer", "fund", "approve", "approving", "prompt"},
                  order : 1 .. top(o)]
      BY <2>1
    <2> QED BY <2>2 DEF TryOK
  <1>6. claims'.made = top(o) /\ claims'.latest = o /\ claims'.young = claims.young \cup {o}
    BY <1>1
  <1>7. ClaimOK'
    <2>1. claims.young \cup {o} \subseteq 1 .. top(o)
      BY <1>3, <1>4
    <2>2. claims' \in [made : Nat, latest : Nat, young : SUBSET Nat]
      <3>1. claims.young \cup {o} \in SUBSET Nat
        BY <1>3, <1>4
      <3> QED BY <1>1, <1>4, <3>1
    <2>3. shown' <= top(o) /\ shown' \in Nat
      BY <1>2, <1>3, <1>4
    <2> QED BY <1>2, <1>3, <1>4, <1>6, <2>1, <2>2, <2>3 DEF ClaimOK
  <1> HIDE DEF top, m
  <1>8. /\ tries' = [u \in Taps |-> tries'[u]]
        /\ \A u \in Taps : TryOK(tries'[u], top(o), sent, visit)
    BY <1>1, <1>4, <1>5, ExtendsItself, TriesMove DEF m
  <1>9. StageOK(stage, visit, sent, elsewhere, qiOrder)
    BY DEF CheckoutInv
  <1> QED BY <1>2, <1>6, <1>7, <1>8, <1>9 DEF CheckoutInv

\* The page shows the order of the answer.
LEMMA ClaimedStep ==
    ASSUME CheckoutInv, NEW t \in Taps, Claimed(t)
    PROVE  CheckoutInv'
  <1>1. /\ UNCHANGED <<visit, reads, claims, sent, elsewhere, qiOrder, qiAnswer>>
        /\ shown' = tries[t].order /\ stage' = Screen("paying")
    BY DEF Claimed
  <1>2. TryOK(tries[t], claims.made, sent, visit) /\ tries[t].step = "answer"
        /\ tries = [u \in Taps |-> tries[u]]
    BY DEF CheckoutInv, Claimed
  <1>3. tries[t] \in [step : {"answer", "fund", "approve", "approving", "prompt"},
                      order : 1 .. claims.made]
    BY <1>2 DEF TryOK, Idle
  <1> DEFINE a == [step |-> First, order |-> tries[t].order]
  <1>4. tries' = [tries EXCEPT ![t] = a]
    <2>1. tries' = [tries EXCEPT ![t] = [tries[t] EXCEPT !.step = First]]
      BY <1>2 DEF Claimed, Proceed
    <2>2. [tries[t] EXCEPT !.step = First] = a
      BY <1>3
    <2> QED BY <2>1, <2>2
  <1>5. TryOK(a, claims.made, sent, visit)
    BY <1>3, FirstIsEarly DEF TryOK
  <1> HIDE DEF a
  <1>6. claims.made \in Nat /\ claims.made <= claims.made
    BY DEF CheckoutInv, ClaimOK
  <1>7. /\ tries' = [u \in Taps |-> tries'[u]]
        /\ \A u \in Taps : TryOK(tries'[u], claims.made, sent, visit)
    BY <1>4, <1>5, <1>6, ExtendsItself, TriesMove
  <1>8. StageOK(stage', visit, sent, elsewhere, qiOrder)
    BY <1>1, QuietScreen DEF Screen
  <1>9. ClaimOK'
    BY <1>1, <1>3, <1>6 DEF CheckoutInv, ClaimOK
  <1> QED BY <1>1, <1>7, <1>8, <1>9 DEF CheckoutInv

\* The payment is sent: a transaction for the order of the attempt is at the end of the list.
LEMMA SendStep ==
    ASSUME CheckoutInv, NEW t \in Taps, SendPayment(t)
    PROVE  CheckoutInv'
  <1> DEFINE o == tries[t].order
             tx == Len(sent) + 1
             a == [step |-> AfterSending, order |-> o, tx |-> tx]
  <1>1. /\ sent' = Append(sent, Payment(o))
        /\ UNCHANGED <<visit, reads, claims, shown, elsewhere, qiOrder, qiAnswer>>
        /\ Len(sent) < MaxSends
    BY DEF SendPayment
  <1>2. sent \in Seq(Transactions) /\ claims.made \in Nat /\ claims.made <= claims.made
    BY DEF CheckoutInv, ClaimOK
  <1>3. o \in 1 .. claims.made
    <2>1. TryOK(tries[t], claims.made, sent, visit) /\ tries[t].step = "prompt"
      BY DEF CheckoutInv, SendPayment
    <2> QED BY <2>1 DEF TryOK, Idle
  <1>4. Payment(o) \in Transactions
    BY <1>2, <1>3 DEF Payment, Transactions, Fates
  <1>5. /\ sent' \in Seq(Transactions) /\ Len(sent') = tx /\ DOMAIN sent' = 1 .. tx
        /\ DOMAIN sent = 1 .. Len(sent) /\ Len(sent) \in Nat
        /\ sent'[tx] = [order |-> o, fate |-> "pending"]
        /\ \A i \in DOMAIN sent : sent'[i] = sent[i]
    BY <1>1, <1>2, <1>4 DEF Payment
  <1>6. Extends(sent, sent')
    BY <1>5 DEF Extends
  <1>7. TryOK(a, claims.made, sent', visit)
    <2>1. CASE visit.blip
      BY <2>1, <1>3, <1>5 DEF TryOK, AfterSending
    <2>2. CASE ~visit.blip
      BY <2>2, <1>3, <1>5 DEF TryOK, AfterSending
    <2> QED BY <2>1, <2>2
  <1>8. tries' = [tries EXCEPT ![t] = a]
    BY <1>5 DEF SendPayment
  <1> HIDE DEF o, tx, a
  <1>9. /\ tries' = [u \in Taps |-> tries'[u]]
        /\ \A u \in Taps : TryOK(tries'[u], claims.made, sent', visit)
    BY <1>2, <1>6, <1>7, <1>8, TriesMove
  <1>10. PaidAtMostOnce(sent')
    <2>1. \A i \in DOMAIN sent' : sent'[i].fate = "paid" => i \in DOMAIN sent /\ sent'[i] = sent[i]
      BY <1>5 DEF tx
    <2> QED BY <2>1 DEF CheckoutInv, PaidAtMostOnce
  <1>11. StageOK(stage', visit, sent', elsewhere, qiOrder)
    <2>1. CASE stage' = stage
      <3>1. \A i \in DOMAIN sent : sent[i] \in Transactions
        BY <1>2
      <3>2. StageOK(stage, visit, sent, elsewhere, qiOrder)
        BY DEF CheckoutInv
      <3> QED BY <2>1, <3>1, <3>2, <1>6, StageKept
    <2>2. CASE stage' = Awaiting
      BY <2>2, QuietScreen DEF Awaiting, Screen
    <2> QED BY <2>1, <2>2 DEF SendPayment
  <1>12. ClaimOK'
    BY <1>1 DEF CheckoutInv, ClaimOK
  <1>13. Len(sent') <= MaxSends
    BY <1>1, <1>5, CheckoutAssumption DEF tx, CheckoutAssumption
  <1> QED BY <1>1, <1>5, <1>9, <1>10, <1>11, <1>12, <1>13 DEF CheckoutInv

\* A receipt is found, and what it says is told.
LEMMA ReceiptStep ==
    ASSUME CheckoutInv, NEW t \in Taps, ReceiptFound(t)
    PROVE  CheckoutInv'
  <1>1. UNCHANGED <<visit, reads, claims, shown, sent, elsewhere, qiOrder, qiAnswer>>
    BY DEF ReceiptFound
  <1>2. /\ tries[t] \in [step : {"receipt", "confirm"}, order : 1 .. claims.made, tx : DOMAIN sent]
        /\ sent[tries[t].tx].order = tries[t].order
        /\ tries = [u \in Taps |-> tries[u]]
    BY DEF ReceiptFound, CheckoutInv, TryOK, Idle
  <1>3. CASE Accepts(tries[t].tx)
    <2> DEFINE a == [step |-> "confirm", order |-> tries[t].order, tx |-> tries[t].tx]
    <2>1. tries' = [tries EXCEPT ![t] = a]
      <3>1. tries' = [tries EXCEPT ![t] = [tries[t] EXCEPT !.step = "confirm"]]
        BY <1>2, <1>3 DEF ReceiptFound, Proceed
      <3>2. [tries[t] EXCEPT !.step = "confirm"] = a
        BY <1>2
      <3> QED BY <3>1, <3>2
    <2>2. TryOK(a, claims.made, sent, visit)
      BY <1>2, <1>3 DEF TryOK, Accepts
    <2>3. StageOK(stage', visit, sent, elsewhere, qiOrder)
      BY <1>3, QuietScreen DEF ReceiptFound, Awaiting, Screen
    <2> HIDE DEF a
    <2> QED BY <1>1, <2>1, <2>2, <2>3, MoveOn
  <1>4. CASE GiveUp(t, FALSE)
    BY <1>1, <1>4, GiveUpStep
  <1> QED BY <1>3, <1>4 DEF ReceiptFound

\* The books know the order as settled: outside Blip, by the transaction of the attempt.
LEMMA ConfirmedStep ==
    ASSUME CheckoutInv, NEW t \in Taps, Confirmed(t)
    PROVE  CheckoutInv'
  <1>1. UNCHANGED <<visit, reads, claims, shown, sent, elsewhere, qiOrder, qiAnswer>>
    BY DEF Confirmed
  <1>2. /\ tries[t] \in [step : {"receipt", "confirm"}, order : 1 .. claims.made, tx : DOMAIN sent]
        /\ sent[tries[t].tx].order = tries[t].order
        /\ visit.blip \/ sent[tries[t].tx].fate = "paid"
    BY DEF Confirmed, CheckoutInv, TryOK, Idle
  <1>3. tries' = [tries EXCEPT ![t] = Idle]
    BY DEF Confirmed
  <1>4. TryOK(Idle, claims.made, sent, visit)
    BY DEF TryOK
  <1>5. StageOK(stage', visit, sent, elsewhere, qiOrder)
    <2>1. stage' = [name |-> "done", tx |-> tries[t].tx]
      BY DEF Confirmed
    <2>2. SettledIn(tries[t].order, elsewhere, sent)
      BY DEF Confirmed, Settled, SettledIn
    <2> QED BY <1>2, <2>1, <2>2 DEF StageOK
  <1> QED BY <1>1, <1>3, <1>4, <1>5, MoveOn

\* A step that leaves the attempts, the claim and the page as they are.
LEMMA BooksMove ==
    ASSUME CheckoutInv, NEW s \in Seq(Transactions), NEW e, NEW q,
           UNCHANGED <<visit, reads, stage, tries, claims, shown>>,
           sent' = s, elsewhere' = e, qiOrder' = q,
           Extends(sent, s), elsewhere \subseteq e, qiOrder = "settled" => q = "settled",
           Len(s) <= MaxSends, PaidAtMostOnce(s), qiAnswer' => q = "settled"
    PROVE  CheckoutInv'
  <1>1. claims.made \in Nat /\ claims.made <= claims.made
    BY DEF CheckoutInv, ClaimOK
  <1>2. ASSUME NEW t \in Taps PROVE TryOK(tries[t], claims.made, s, visit)
    <2>1. TryOK(tries[t], claims.made, sent, visit)
      BY DEF CheckoutInv
    <2> QED BY <1>1, <2>1, TryKept
  <1>3. StageOK(stage, visit, s, e, q)
    <2>1. \A i \in DOMAIN sent : sent[i] \in Transactions
      BY DEF CheckoutInv
    <2>2. StageOK(stage, visit, sent, elsewhere, qiOrder)
      BY DEF CheckoutInv
    <2> QED BY <2>1, <2>2, StageKept
  <1>4. ClaimOK'
    BY DEF CheckoutInv, ClaimOK
  <1> QED BY <1>2, <1>3, <1>4 DEF CheckoutInv

\* A transaction is mined; it pays only an order that nobody has paid.
LEMMA MineStep ==
    ASSUME CheckoutInv, NEW i \in DOMAIN sent, Mine(i)
    PROVE  CheckoutInv'
  <1>1. PICK fate \in {"paid", "reverted"} :
            /\ sent' = [sent EXCEPT ![i].fate = fate]
            /\ fate = "paid" => ~Settled(sent[i].order)
    BY DEF Mine
  <1>2. /\ UNCHANGED <<visit, reads, stage, tries, claims, shown, elsewhere, qiOrder, qiAnswer>>
        /\ sent[i].fate = "pending"
    BY DEF Mine
  <1>3. sent \in Seq(Transactions)
    BY DEF CheckoutInv
  <1> DEFINE row == [sent[i] EXCEPT !.fate = fate]
  <1>4. /\ sent[i] \in Transactions /\ row \in Transactions
        /\ row.order = sent[i].order /\ row.fate = fate
    <2>1. sent[i] \in Transactions
      BY <1>3
    <2>2. row = [order |-> sent[i].order, fate |-> fate]
      BY <2>1 DEF Transactions
    <2> QED BY <2>1, <2>2 DEF Transactions, Fates
  <1>5. sent' = [sent EXCEPT ![i] = row]
    BY <1>1
  <1> HIDE DEF row
  <1>6. /\ sent' \in Seq(Transactions) /\ Len(sent') = Len(sent) /\ DOMAIN sent' = DOMAIN sent
        /\ sent'[i] = row
        /\ \A j \in DOMAIN sent : j # i => sent'[j] = sent[j]
    BY <1>3, <1>4, <1>5
  <1>7. Extends(sent, sent')
    BY <1>2, <1>4, <1>6 DEF Extends
  <1>8. PaidAtMostOnce(sent')
    <2>1. ASSUME NEW j \in DOMAIN sent, j # i, sent'[j].fate = "paid", fate = "paid",
                 sent'[j].order = sent'[i].order
          PROVE  FALSE
      BY <1>1, <1>4, <1>6, <2>1 DEF Settled
    <2> QED BY <1>4, <1>6, <2>1 DEF PaidAtMostOnce, CheckoutInv
  <1>9. Len(sent') <= MaxSends /\ (qiAnswer' => qiOrder = "settled")
    BY <1>2, <1>6 DEF CheckoutInv
  <1> QED BY <1>2, <1>6, <1>7, <1>8, <1>9, BooksMove

\* What others and the Qi payment do.
LEMMA OthersStep ==
    ASSUME CheckoutInv, PaidElsewhere \/ ReserveQi \/ QiArrives \/ PollQi
    PROVE  CheckoutInv'
  <1>1. /\ UNCHANGED <<visit, reads, stage, tries, claims, shown, sent>>
        /\ elsewhere \subseteq elsewhere'
        /\ qiOrder = "settled" => qiOrder' = "settled"
    BY DEF PaidElsewhere, ReserveQi, QiArrives, PollQi
  <1>2. qiAnswer' => qiOrder' = "settled"
    BY DEF PaidElsewhere, ReserveQi, QiArrives, PollQi, SeenPaid, CheckoutInv
  <1>3. /\ sent \in Seq(Transactions) /\ Len(sent) <= MaxSends /\ PaidAtMostOnce(sent)
        /\ Extends(sent, sent)
    BY ExtendsItself DEF CheckoutInv
  <1> QED BY <1>1, <1>2, <1>3, BooksMove

LEMMA LapseStep ==
    ASSUME CheckoutInv, ClaimLapses
    PROVE  CheckoutInv'
  <1>1. PICK o \in claims.young :
            /\ claims' = [claims EXCEPT !.young = @ \ {o}]
            /\ UNCHANGED <<visit, reads, stage, tries, shown, sent, elsewhere, qiOrder, qiAnswer>>
    BY DEF ClaimLapses
  <1>2. claims \in [made : Nat, latest : Nat, young : SUBSET Nat]
    BY DEF CheckoutInv, ClaimOK
  <1>3. claims' \in [made : Nat, latest : Nat, young : SUBSET Nat] /\ claims'.made = claims.made
        /\ claims'.latest = claims.latest /\ claims'.young = claims.young \ {o}
    <2>1. claims.young \ {o} \in SUBSET Nat
      BY <1>2
    <2>2. claims' = [made |-> claims.made, latest |-> claims.latest, young |-> claims.young \ {o}]
      BY <1>1, <1>2
    <2> QED BY <1>2, <2>1, <2>2
  <1>4. ClaimOK'
    BY <1>1, <1>2, <1>3 DEF CheckoutInv, ClaimOK
  <1> QED BY <1>1, <1>3, <1>4 DEF CheckoutInv

LEMMA QiStep ==
    ASSUME CheckoutInv, QiAnswered
    PROVE  CheckoutInv'
  <1>1. /\ UNCHANGED <<visit, reads, tries, claims, shown, sent, elsewhere, qiOrder>>
        /\ stage' = Screen("qiSettled") /\ qiAnswer' = FALSE /\ qiOrder = "settled"
    BY DEF QiAnswered, CheckoutInv
  <1>2. StageOK(stage', visit, sent, elsewhere, qiOrder)
    BY <1>1 DEF StageOK, Screen
  <1>3. ClaimOK'
    BY <1>1 DEF CheckoutInv, ClaimOK
  <1> QED BY <1>1, <1>2, <1>3 DEF CheckoutInv

\* Every step of the pages keeps them in order.
LEMMA CheckoutStep ==
    ASSUME CheckoutInv, [CheckoutNext]_checkoutVars
    PROVE  CheckoutInv'
  <1>1. CASE LoadPage \/ TryAgain \/ Reloaded
    BY <1>1, PageStep
  <1>2. ASSUME NEW t \in Taps, Tap(t) \/ TapFund(t) \/ Advance(t)
        PROVE  CheckoutInv'
    BY <1>2, TapStep, WaitStep, CheckClaimStep, TakeOrderStep, ClaimedStep, SendStep,
       ReceiptStep, ConfirmedStep DEF Advance
  <1>3. ASSUME NEW i \in DOMAIN sent, Mine(i)
        PROVE  CheckoutInv'
    BY <1>3, MineStep
  <1>4. CASE PaidElsewhere \/ ReserveQi \/ QiArrives \/ PollQi
    BY <1>4, OthersStep
  <1>5. CASE ClaimLapses
    BY <1>5, LapseStep
  <1>6. CASE QiAnswered
    BY <1>6, QiStep
  <1>7. CASE UNCHANGED checkoutVars
    BY <1>7 DEF checkoutVars, CheckoutInv, ClaimOK
  <1> QED BY <1>1, <1>2, <1>3, <1>4, <1>5, <1>6, <1>7 DEF CheckoutNext

\* The invariant says what the run checks.
LEMMA CheckoutImplied ==
    ASSUME CheckoutInv
    PROVE  CheckoutTypeOK /\ SaysPaidOnlyIfPaid
  <1>1. /\ claims.made \in 0 .. visit.orders
        /\ {claims.latest, shown} \subseteq 0 .. claims.made
        /\ claims.young \subseteq 1 .. claims.made
    BY DEF CheckoutInv, ClaimOK
  <1>2. ASSUME NEW t \in Taps
        PROVE  /\ tries[t].step \notin {"idle", "topup", "network", "claim", "take"} =>
                      tries[t].order \in 1 .. claims.made
               /\ tries[t].step \in {"receipt", "confirm"} => tries[t].tx \in DOMAIN sent
    <2>1. TryOK(tries[t], claims.made, sent, visit)
      BY DEF CheckoutInv
    <2> QED BY <2>1 DEF TryOK, Idle
  <1>3. CheckoutTypeOK
    BY <1>1, <1>2 DEF CheckoutInv, CheckoutTypeOK, PaidAtMostOnce
  <1>4. SaysPaidOnlyIfPaid
    BY DEF CheckoutInv, SaysPaidOnlyIfPaid, StageOK, SettledIn, Settled
  <1> QED BY <1>3, <1>4

-----------------------------------------------------------------------------
(* Payout addresses.                                                       *)

\* A payout row: none, or one whose address the chain takes, the login's own unless declared.
RowOK(c, row) ==
    \/ row = NoRow
    \/ /\ row \in [address : Addresses, source : {"login", "declared"}]
       /\ ReceivableOn(c, row.address)
       /\ row.source = "login" => row.address = Identity

\* What a seeding login still has to write was not configured when it read the rows.
SeederOK(s, chainRows) ==
    \/ s = Rest
    \/ /\ s \in [step : {"seed"}, todo : SUBSET Seedable, since : SUBSET Chains]
       /\ \A c \in s.todo : chainRows[c].source = "declared" => c \in s.since

\* A link, made or being made, pays the login address, or its chain's row as it is, unless
\* that was changed.
PaysWell(k, chainRows) ==
    /\ ReceivableOn(k.chain, k.pays)
    /\ k.changed \/ k.pays \in {Identity, chainRows[k.chain].address}

MakerOK(m, chainRows) ==
    \/ m = Rest
    \/ /\ m \in [step : {"upsert"}, chain : Chains, pays : Addresses, changed : BOOLEAN]
       /\ PaysWell(m, chainRows)

PayoutsInv ==
    /\ payoutRows = [c \in Chains |-> payoutRows[c]]
    /\ \A c \in Chains : RowOK(c, payoutRows[c])
    /\ seeders = [s \in Seeders |-> seeders[s]]
    /\ \A s \in Seeders : SeederOK(seeders[s], payoutRows)
    /\ makers = [m \in Makers |-> makers[m]]
    /\ \A m \in Makers : MakerOK(makers[m], payoutRows)
    /\ payLinks \subseteq LinkRecord
    /\ \A k \in payLinks : PaysWell(k, payoutRows)

LEMMA PayoutsInitInv == ASSUME PayoutsInit PROVE PayoutsInv
  BY DEF PayoutsInit, PayoutsInv, RowOK, SeederOK, MakerOK

\* A chain's row changes, and what relied on the old one is marked.
LEMMA RowChanges ==
    ASSUME PayoutsInv, NEW c \in Chains, NEW row, RowOK(c, row),
           payoutRows' = [payoutRows EXCEPT ![c] = row], Overtaken(c)
    PROVE  /\ payoutRows' = [d \in Chains |-> payoutRows'[d]]
           /\ \A d \in Chains : RowOK(d, payoutRows'[d])
           /\ makers' = [m \in Makers |-> makers'[m]]
           /\ \A m \in Makers : MakerOK(makers'[m], payoutRows')
           /\ payLinks' \subseteq LinkRecord
           /\ \A k \in payLinks' : PaysWell(k, payoutRows')
  <1>1. \A d \in Chains : payoutRows'[d] = IF d = c THEN row ELSE payoutRows[d]
    BY DEF PayoutsInv
  <1>2. /\ payoutRows' = [d \in Chains |-> payoutRows'[d]]
        /\ \A d \in Chains : RowOK(d, payoutRows'[d])
    BY <1>1 DEF PayoutsInv
  <1>3. ASSUME NEW m \in Makers PROVE MakerOK(makers'[m], payoutRows')
    <2>1. MakerOK(makers[m], payoutRows)
      BY DEF PayoutsInv
    <2>2. CASE makers[m] = Rest
      BY <2>2 DEF Overtaken, MakerOK
    <2>3. CASE makers[m] # Rest /\ makers[m].chain = c
      <3>1. makers'[m] = [makers[m] EXCEPT !.changed = TRUE]
        BY <2>3 DEF Overtaken
      <3>2. makers[m] \in [step : {"upsert"}, chain : Chains, pays : Addresses, changed : BOOLEAN]
        BY <2>1, <2>3 DEF MakerOK
      <3>3. /\ makers'[m] \in
                  [step : {"upsert"}, chain : Chains, pays : Addresses, changed : BOOLEAN]
            /\ makers'[m].changed /\ makers'[m].chain = makers[m].chain
            /\ makers'[m].pays = makers[m].pays
        BY <3>1, <3>2
      <3> QED BY <2>1, <2>3, <3>3 DEF MakerOK, PaysWell
    <2>4. CASE makers[m] # Rest /\ makers[m].chain # c
      <3>1. makers'[m] = makers[m]
        BY <2>4 DEF Overtaken
      <3>2. makers[m].chain \in Chains
        BY <2>1, <2>4 DEF MakerOK
      <3>3. payoutRows'[makers[m].chain] = payoutRows[makers[m].chain]
        BY <1>1, <2>4, <3>2
      <3> QED BY <2>1, <2>4, <3>1, <3>3 DEF MakerOK, PaysWell
    <2> QED BY <2>2, <2>3, <2>4
  <1>4. makers' = [m \in Makers |-> makers'[m]]
    BY DEF Overtaken
  <1>5. ASSUME NEW k \in payLinks' PROVE k \in LinkRecord /\ PaysWell(k, payoutRows')
    <2>1. PICK old \in payLinks : k = IF old.chain = c THEN [old EXCEPT !.changed = TRUE] ELSE old
      BY DEF Overtaken
    <2>2. old \in LinkRecord /\ PaysWell(old, payoutRows)
      BY DEF PayoutsInv
    <2>3. CASE old.chain = c
      <3>1. k \in LinkRecord /\ k.changed /\ k.chain = old.chain /\ k.pays = old.pays
        BY <2>1, <2>2, <2>3 DEF LinkRecord
      <3> QED BY <2>2, <3>1 DEF PaysWell
    <2>4. CASE old.chain # c
      <3>1. old.chain \in Chains
        BY <2>2 DEF LinkRecord
      <3>2. k = old /\ payoutRows'[old.chain] = payoutRows[old.chain]
        BY <1>1, <2>1, <2>4, <3>1
      <3> QED BY <2>2, <3>2 DEF PaysWell
    <2> QED BY <2>3, <2>4
  <1> QED BY <1>2, <1>3, <1>4, <1>5

LEMMA SeedStep ==
    ASSUME PayoutsInv, NEW s \in Seeders,
           BeginSeed(s) \/ EndSeed(s) \/ \E c \in Chains : SeedChain(s, c)
    PROVE  PayoutsInv'
  <1>1. CASE BeginSeed(s)
    <2> DEFINE a == [step |-> "seed", todo |-> ToSeed, since |-> {}]
    <2>1. SeederOK(a, payoutRows)
      <3>1. ToSeed \subseteq Seedable
        BY DEF ToSeed
      <3>2. \A c \in ToSeed : payoutRows[c] = NoRow
        BY DEF ToSeed, Configured, Seedable
      <3> QED BY <3>1, <3>2 DEF SeederOK, NoRow
    <2>2. seeders' = [seeders EXCEPT ![s] = a] /\ UNCHANGED <<payoutRows, makers, payLinks>>
      BY <1>1 DEF BeginSeed
    <2> HIDE DEF a
    <2>3. /\ seeders' = [u \in Seeders |-> seeders'[u]]
          /\ \A u \in Seeders : SeederOK(seeders'[u], payoutRows)
      BY <2>1, <2>2 DEF PayoutsInv
    <2> QED BY <2>2, <2>3 DEF PayoutsInv
  <1>2. CASE EndSeed(s)
    <2>1. seeders' = [seeders EXCEPT ![s] = Rest] /\ UNCHANGED <<payoutRows, makers, payLinks>>
      BY <1>2 DEF EndSeed
    <2>2. /\ seeders' = [u \in Seeders |-> seeders'[u]]
          /\ \A u \in Seeders : SeederOK(seeders'[u], payoutRows)
      BY <2>1 DEF PayoutsInv, SeederOK
    <2> QED BY <2>1, <2>2 DEF PayoutsInv
  <1>3. ASSUME NEW c \in Chains, SeedChain(s, c) PROVE PayoutsInv'
    <2>1. /\ seeders[s] \in [step : {"seed"}, todo : SUBSET Seedable, since : SUBSET Chains]
          /\ c \in seeders[s].todo
          /\ \A d \in seeders[s].todo :
                payoutRows[d].source = "declared" => d \in seeders[s].since
      BY <1>3 DEF SeedChain, PayoutsInv, SeederOK, Rest
    <2> DEFINE a == [seeders[s] EXCEPT !.todo = @ \ {c}]
    <2>2. /\ a \in [step : {"seed"}, todo : SUBSET Seedable, since : SUBSET Chains]
          /\ a.todo = seeders[s].todo \ {c} /\ a.since = seeders[s].since /\ a # Rest
      BY <2>1 DEF Rest
    <2>3. seeders' = [seeders EXCEPT ![s] = a]
      BY <1>3 DEF SeedChain
    <2> HIDE DEF a
    <2>4. CASE UNCHANGED <<payoutRows, makers, payLinks>>
      <3>1. SeederOK(a, payoutRows)
        BY <2>1, <2>2 DEF SeederOK
      <3>2. /\ seeders' = [u \in Seeders |-> seeders'[u]]
            /\ \A u \in Seeders : SeederOK(seeders'[u], payoutRows)
        BY <2>3, <3>1 DEF PayoutsInv
      <3> QED BY <2>4, <3>2 DEF PayoutsInv
    <2>5. CASE SetRow(c, Identity, "login") /\ Overtaken(c)
      <3> DEFINE row == [address |-> Identity, source |-> "login"]
      <3>1. payoutRows' = [payoutRows EXCEPT ![c] = row] /\ RowOK(c, row)
        <4>1. ReceivableOn(c, Identity) /\ Identity \in Addresses
          BY <2>1, PayoutsAssumption DEF PayoutsAssumption, Seedable
        <4> QED BY <2>5, <4>1 DEF SetRow, RowOK
      <3> HIDE DEF row
      <3>2. \A d \in Chains : payoutRows'[d] = IF d = c THEN row ELSE payoutRows[d]
        BY <3>1 DEF PayoutsInv
      <3>3. row.source = "login"
        BY DEF row
      <3>4. ASSUME NEW u \in Seeders PROVE SeederOK(seeders'[u], payoutRows')
        <4>1. SeederOK(seeders[u], payoutRows)
          BY DEF PayoutsInv
        <4>2. Seedable \subseteq Chains
          BY DEF Seedable
        <4>3. CASE u = s
          <5>1. seeders'[u] = a
            BY <2>3, <4>3 DEF PayoutsInv
          <5>2. \A d \in a.todo : payoutRows'[d] = payoutRows[d] /\ d \in seeders[s].todo
            BY <2>1, <2>2, <3>2, <4>2
          <5> QED BY <2>1, <2>2, <5>1, <5>2 DEF SeederOK
        <4>4. CASE u # s
          <5>1. seeders'[u] = seeders[u]
            BY <2>3, <4>4 DEF PayoutsInv
          <5> QED BY <3>2, <3>3, <4>1, <4>2, <5>1 DEF SeederOK
        <4> QED BY <4>3, <4>4
      <3>5. seeders' = [u \in Seeders |-> seeders'[u]]
        BY <2>3 DEF PayoutsInv
      <3>6. /\ payoutRows' = [d \in Chains |-> payoutRows'[d]]
            /\ \A d \in Chains : RowOK(d, payoutRows'[d])
            /\ makers' = [m \in Makers |-> makers'[m]]
            /\ \A m \in Makers : MakerOK(makers'[m], payoutRows')
            /\ payLinks' \subseteq LinkRecord
            /\ \A k \in payLinks' : PaysWell(k, payoutRows')
        BY <2>5, <3>1, RowChanges
      <3> QED BY <3>4, <3>5, <3>6 DEF PayoutsInv
    <2> QED BY <1>3, <2>4, <2>5 DEF SeedChain
  <1> QED BY <1>1, <1>2, <1>3

LEMMA DeclareStep ==
    ASSUME PayoutsInv, NEW c \in Chains,
           (\E address \in Addresses : Declare(c, address)) \/ ClearRow(c)
    PROVE  PayoutsInv'
  <1>1. PICK row : /\ RowOK(c, row) /\ payoutRows' = [payoutRows EXCEPT ![c] = row]
                   /\ Overtaken(c)
                   /\ \/ row = NoRow /\ UNCHANGED seeders
                      \/ seeders' = [s \in Seeders |->
                             IF seeders[s] = Rest THEN Rest
                             ELSE [seeders[s] EXCEPT !.since = @ \cup {c}]]
    <2>1. CASE ClearRow(c)
      BY <2>1 DEF ClearRow, RowOK
    <2>2. ASSUME NEW address \in Addresses, Declare(c, address)
          PROVE  /\ RowOK(c, [address |-> address, source |-> "declared"])
                 /\ payoutRows' = [payoutRows EXCEPT
                        ![c] = [address |-> address, source |-> "declared"]]
                 /\ Overtaken(c)
                 /\ seeders' = [s \in Seeders |->
                        IF seeders[s] = Rest THEN Rest
                        ELSE [seeders[s] EXCEPT !.since = @ \cup {c}]]
      BY <2>2 DEF Declare, RowOK, SetRow
    <2> QED BY <2>1, <2>2
  <1>2. \A d \in Chains : payoutRows'[d] = IF d = c THEN row ELSE payoutRows[d]
    BY <1>1 DEF PayoutsInv
  <1>3. ASSUME NEW s \in Seeders PROVE SeederOK(seeders'[s], payoutRows')
    <2>1. SeederOK(seeders[s], payoutRows) /\ Seedable \subseteq Chains
      BY DEF PayoutsInv, Seedable
    <2>2. CASE row = NoRow /\ UNCHANGED seeders
      BY <1>2, <2>1, <2>2 DEF SeederOK, NoRow
    <2>3. CASE seeders'[s] = IF seeders[s] = Rest THEN Rest
                             ELSE [seeders[s] EXCEPT !.since = @ \cup {c}]
      <3>1. CASE seeders[s] = Rest
        BY <2>3, <3>1 DEF SeederOK
      <3>2. CASE seeders[s] # Rest
        <4>1. /\ seeders[s] \in [step : {"seed"}, todo : SUBSET Seedable, since : SUBSET Chains]
              /\ \A d \in seeders[s].todo :
                    payoutRows[d].source = "declared" => d \in seeders[s].since
          BY <2>1, <3>2 DEF SeederOK
        <4>2. /\ seeders'[s] \in
                    [step : {"seed"}, todo : SUBSET Seedable, since : SUBSET Chains]
              /\ seeders'[s].todo = seeders[s].todo
              /\ seeders'[s].since = seeders[s].since \cup {c}
          BY <2>3, <3>2, <4>1
        <4>3. \A d \in seeders[s].todo : d \in Chains
          BY <2>1, <4>1
        <4> QED BY <1>2, <4>1, <4>2, <4>3 DEF SeederOK
      <3> QED BY <3>1, <3>2
    <2> QED BY <1>1, <2>2, <2>3
  <1>4. seeders' = [s \in Seeders |-> seeders'[s]]
    BY <1>1 DEF PayoutsInv
  <1>5. /\ payoutRows' = [d \in Chains |-> payoutRows'[d]]
        /\ \A d \in Chains : RowOK(d, payoutRows'[d])
        /\ makers' = [m \in Makers |-> makers'[m]]
        /\ \A m \in Makers : MakerOK(makers'[m], payoutRows')
        /\ payLinks' \subseteq LinkRecord
        /\ \A k \in payLinks' : PaysWell(k, payoutRows')
    BY <1>1, RowChanges
  <1> QED BY <1>3, <1>4, <1>5 DEF PayoutsInv

LEMMA LinkStep ==
    ASSUME PayoutsInv, NEW m \in Makers, EndLink(m) \/ \E c \in Chains : BeginLink(m, c)
    PROVE  PayoutsInv'
  <1>1. ASSUME NEW c \in Chains, BeginLink(m, c) PROVE PayoutsInv'
    <2> DEFINE a == [step |-> "upsert", chain |-> c, pays |-> Destination(c), changed |-> FALSE]
    <2>1. /\ Destination(c) \in Addresses
          /\ ReceivableOn(c, Destination(c))
          /\ Destination(c) \in {Identity, payoutRows[c].address}
      <3>1. RowOK(c, payoutRows[c]) /\ Identity \in Addresses /\ Destination(c) # Nowhere
        BY <1>1, PayoutsAssumption DEF PayoutsAssumption, PayoutsInv, BeginLink
      <3>2. c \in Configured => payoutRows[c].address \in Addresses
        BY <3>1 DEF Configured, RowOK
      <3> QED BY <3>1, <3>2 DEF Destination
    <2>2. MakerOK(a, payoutRows)
      BY <2>1 DEF MakerOK, PaysWell
    <2>3. makers' = [makers EXCEPT ![m] = a] /\ UNCHANGED <<payoutRows, seeders, payLinks>>
      BY <1>1 DEF BeginLink
    <2> HIDE DEF a
    <2>4. /\ makers' = [u \in Makers |-> makers'[u]]
          /\ \A u \in Makers : MakerOK(makers'[u], payoutRows)
      BY <2>2, <2>3 DEF PayoutsInv
    <2> QED BY <2>3, <2>4 DEF PayoutsInv
  <1>2. CASE EndLink(m)
    <2>1. makers' = [makers EXCEPT ![m] = Rest] /\ UNCHANGED <<payoutRows, seeders>>
      BY <1>2 DEF EndLink
    <2>2. /\ makers' = [u \in Makers |-> makers'[u]]
          /\ \A u \in Makers : MakerOK(makers'[u], payoutRows)
      BY <2>1 DEF PayoutsInv, MakerOK
    <2>3. /\ makers[m] \in [step : {"upsert"}, chain : Chains, pays : Addresses, changed : BOOLEAN]
          /\ PaysWell(makers[m], payoutRows)
      BY <1>2 DEF EndLink, PayoutsInv, MakerOK, Rest
    <2> DEFINE k == [chain |-> makers[m].chain, pays |-> makers[m].pays,
                     changed |-> makers[m].changed]
    <2>4. k \in LinkRecord /\ PaysWell(k, payoutRows)
      BY <2>3 DEF LinkRecord, PaysWell
    <2>5. payLinks' = payLinks \cup {k} \/ payLinks' = payLinks
      BY <1>2 DEF EndLink
    <2> HIDE DEF k
    <2>6. payLinks' \subseteq LinkRecord /\ \A l \in payLinks' : PaysWell(l, payoutRows)
      BY <2>4, <2>5 DEF PayoutsInv
    <2> QED BY <2>1, <2>2, <2>6 DEF PayoutsInv
  <1> QED BY <1>1, <1>2

LEMMA PayoutsStep ==
    ASSUME PayoutsInv, [PayoutsNext]_payoutVars
    PROVE  PayoutsInv'
  <1>1. CASE UNCHANGED payoutVars
    BY <1>1 DEF payoutVars, PayoutsInv
  <1>2. CASE PayoutsNext
    BY <1>2, SeedStep, DeclareStep, LinkStep DEF PayoutsNext
  <1> QED BY <1>1, <1>2

LEMMA PayoutsImplied ==
    ASSUME PayoutsInv
    PROVE  PayoutsTypeOK /\ LinkFindsMerchant
  <1>1. ASSUME NEW c \in Chains
        PROVE  \/ payoutRows[c] = NoRow
               \/ /\ ReceivableOn(c, payoutRows[c].address)
                  /\ payoutRows[c].source = "login" => payoutRows[c].address = Identity
    BY DEF PayoutsInv, RowOK
  <1>2. ASSUME NEW s \in Seeders, seeders[s] # Rest
        PROVE  seeders[s].todo \subseteq Seedable /\ seeders[s].since \subseteq Chains
    BY <1>2 DEF PayoutsInv, SeederOK
  <1>3. PayoutsTypeOK
    BY <1>1, <1>2 DEF PayoutsInv, PayoutsTypeOK, PaysWell
  <1>4. LinkFindsMerchant
    BY DEF PayoutsInv, PaysWell, LinkFindsMerchant, FindsMerchant
  <1> QED BY <1>3, <1>4

\* A login that overwrites a declared address had read the rows before it was declared.
LEMMA DeclaredStep ==
    ASSUME PayoutsInv, [PayoutsNext]_payoutVars, NEW c \in Chains,
           payoutRows[c].source = "declared", payoutRows'[c].source = "login"
    PROVE  \E s \in Seeders : seeders[s] # Rest /\ c \in seeders[s].since
  <1>1. payoutRows = [d \in Chains |-> payoutRows[d]]
    BY DEF PayoutsInv
  <1>2. CASE UNCHANGED payoutRows
    BY <1>2
  <1>3. ASSUME NEW s \in Seeders, NEW d \in Chains, SeedChain(s, d), ~UNCHANGED payoutRows
        PROVE  seeders[s] # Rest /\ c \in seeders[s].since
    <2>1. d = c
      BY <1>1, <1>3 DEF SeedChain, SetRow
    <2> QED BY <1>3, <2>1 DEF SeedChain, PayoutsInv, SeederOK, Rest
  <1>4. ASSUME NEW d \in Chains, NEW address \in Addresses, Declare(d, address) PROVE FALSE
    BY <1>1, <1>4 DEF Declare, SetRow
  <1>5. ASSUME NEW d \in Chains, ClearRow(d) PROVE FALSE
    BY <1>1, <1>5 DEF ClearRow, NoRow
  <1> QED BY <1>2, <1>3, <1>4, <1>5
        DEF PayoutsNext, payoutVars, BeginSeed, EndSeed, BeginLink, EndLink

-----------------------------------------------------------------------------
(* Gateway orders.                                                         *)

\* The age an answer of the feed may have when it arrives, and a rate when it is served.
AnswerAge == AbortAfter + BodyTime
ServedAge == RateTTL - 1 + AbortAfter + BodyTime

\* The cache was filled at an instant that has been, with a rate that was young then.
CacheOK(c, now) ==
    /\ c \in [at : Nat \cup {Nothing}, rate : Nat \cup {Nothing}]
    /\ c.at = Nothing => c.rate = Nothing
    /\ c.at # Nothing => c.at <= now
    /\ c.at # Nothing /\ c.rate # Nothing => c.rate <= c.at /\ c.at - c.rate <= AnswerAge

\* A rate quoted at an instant, for a request the feed did not fail, is young enough.
QuoteOK(rate, at, failed, now) ==
    /\ rate \in Rates /\ at \in Nat /\ at <= now
    /\ failed \/ rate \in {Fixed, Nothing} \/ at - rate <= ServedAge

\* A request, and the link it has made.
PluginOK(p, now, ls) ==
    \/ p = NoRequest
    \/ p \in [step : {"headers"}, wish : Wishes, asked : 0 .. now]
    \/ /\ p \in [step : {"body"}, wish : Wishes, sample : Nat \cup {Nothing},
                 heard : 0 .. now]
       /\ p.sample # Nothing => p.sample <= p.heard /\ p.heard - p.sample <= AbortAfter
    \/ /\ p \in [step : {"allocate"}, wish : Wishes, rate : Rates, at : Nat,
                 failed : BOOLEAN]
       /\ QuoteOK(p.rate, p.at, p.failed, now)
    \/ p \in [step : {"save", "answer"}, slug : Slugs] /\ ls[p.slug] # NoLink

LinkOK(link, s, now) ==
    /\ link \in [order : {s} \cup Supplied, ref : References \cup {Nothing}, at : Nat,
                 rate : Rates \ {Nothing}, failed : BOOLEAN]
    /\ QuoteOK(link.rate, link.at, link.failed, now)

LinksOK(ls, now) ==
    /\ ls = [s \in Slugs |-> ls[s]]
    /\ \A s \in Slugs : ls[s] # NoLink => LinkOK(ls[s], s, now)

\* An order's row names a reference that was posted with the order, or none.
RowsInv ==
    /\ orderMeta \in [Orders -> [reference : References \cup {Nothing}, linked : BOOLEAN]]
    /\ \A o \in Orders : orderMeta[o].reference \in Posted(o) \cup {Nothing}

\* So does a Qi claim that has read it.
CheckoutsInv ==
    \A c \in checkouts : c.slug \in answered /\ c.ref \in Posted(links[c.slug].order) \cup {Nothing}

\* The metadata of link s has been saved.
Through(s) == s \in answered \/ \E p \in Plugins : plugins[p].step = "answer" /\ plugins[p].slug = s

ThroughInv ==
    /\ answered \subseteq {s \in Slugs : Stored(s)}
    /\ \A s \in Slugs :
          Through(s) /\ links[s].ref # Nothing => orderMeta[links[s].order].reference # Nothing

GatewayInv ==
    /\ clock \in Nat
    /\ market \in Markets
    /\ CacheOK(cache, clock)
    /\ plugins = [p \in Plugins |-> plugins[p]]
    /\ \A p \in Plugins : PluginOK(plugins[p], clock, links)
    /\ LinksOK(links, clock)
    /\ RowsInv /\ CheckoutsInv /\ ThroughInv

LEMMA GatewayInitInv ==
    ASSUME NEW m \in Markets, GatewayInit(m), clock = 0
    PROVE  GatewayInv
  <1>1. CacheOK(cache, clock) /\ market \in Markets
    BY DEF GatewayInit, CacheOK
  <1>2. plugins = [p \in Plugins |-> plugins[p]] /\ \A p \in Plugins : plugins[p] = NoRequest
    BY DEF GatewayInit
  <1>3. LinksOK(links, clock)
    BY DEF GatewayInit, LinksOK
  <1>4. RowsInv /\ CheckoutsInv
    BY DEF GatewayInit, RowsInv, CheckoutsInv, NoMeta
  <1>5. ThroughInv
    <2>1. \A s \in Slugs : ~Through(s)
      BY <1>2 DEF GatewayInit, Through, NoRequest
    <2> QED BY <2>1 DEF GatewayInit, ThroughInv
  <1> QED BY <1>1, <1>2, <1>3, <1>4, <1>5 DEF GatewayInv, PluginOK

\* What is on file stays as it is while no link or row is written and no request gets through.
LEMMA BooksStill ==
    ASSUME GatewayInv, UNCHANGED <<links, orderMeta>>, checkouts' \subseteq checkouts,
           answered' = answered,
           \A p \in Plugins : plugins'[p].step = "answer" => plugins'[p] = plugins[p]
    PROVE  RowsInv' /\ CheckoutsInv' /\ ThroughInv'
  <1>1. \A o \in Orders : Posted(o)' = Posted(o)
    BY DEF Posted, Stored
  <1>2. RowsInv'
    BY <1>1 DEF GatewayInv, RowsInv
  <1>3. CheckoutsInv'
    <2>1. ASSUME NEW c \in checkouts PROVE Posted(links[c.slug].order)' = Posted(links[c.slug].order)
      BY DEF Posted, Stored
    <2> QED BY <2>1 DEF GatewayInv, CheckoutsInv
  <1>4. \A s \in Slugs : Through(s)' => Through(s)
    BY DEF Through
  <1>5. ThroughInv'
    BY <1>4 DEF GatewayInv, ThroughInv, Stored
  <1> QED BY <1>2, <1>3, <1>5

\* Time passes.
LEMMA LaterQuote ==
    ASSUME NEW rate, NEW at, NEW failed, NEW now \in Nat, NEW later \in Nat, now <= later,
           QuoteOK(rate, at, failed, now)
    PROVE  QuoteOK(rate, at, failed, later)
  BY DEF QuoteOK

LEMMA GatewayLater ==
    ASSUME GatewayInv, UNCHANGED gatewayVars, clock' = clock \/ clock' = clock + 1
    PROVE  GatewayInv'
  <1>1. clock' \in Nat /\ clock \in Nat /\ clock <= clock'
    BY DEF GatewayInv
  <1>2. CacheOK(cache, clock')
    BY <1>1 DEF GatewayInv, CacheOK
  <1>3. ASSUME NEW p \in Plugins PROVE PluginOK(plugins[p], clock', links)
    <2>1. PluginOK(plugins[p], clock, links)
      BY DEF GatewayInv
    <2>2. CASE plugins[p] \in [step : {"headers"}, wish : Wishes, asked : 0 .. clock]
      <3>1. plugins[p] \in [step : {"headers"}, wish : Wishes, asked : 0 .. clock']
        BY <1>1, <2>2
      <3> QED BY <3>1 DEF PluginOK
    <2>3. CASE /\ plugins[p] \in [step : {"body"}, wish : Wishes,
                                  sample : Nat \cup {Nothing}, heard : 0 .. clock]
               /\ plugins[p].sample # Nothing =>
                     /\ plugins[p].sample <= plugins[p].heard
                     /\ plugins[p].heard - plugins[p].sample <= AbortAfter
      <3>1. plugins[p] \in [step : {"body"}, wish : Wishes, sample : Nat \cup {Nothing},
                            heard : 0 .. clock']
        BY <1>1, <2>3
      <3> QED BY <2>3, <3>1 DEF PluginOK
    <2>4. CASE /\ plugins[p] \in [step : {"allocate"}, wish : Wishes, rate : Rates,
                                  at : Nat, failed : BOOLEAN]
               /\ QuoteOK(plugins[p].rate, plugins[p].at, plugins[p].failed, clock)
      BY <1>1, <2>4, LaterQuote DEF PluginOK
    <2> QED BY <2>1, <2>2, <2>3, <2>4 DEF PluginOK
  <1>4. LinksOK(links, clock')
    <2>1. \A s \in Slugs : links[s] # NoLink => LinkOK(links[s], s, clock')
      BY <1>1, LaterQuote DEF GatewayInv, LinksOK, LinkOK
    <2> QED BY <2>1 DEF GatewayInv, LinksOK
  <1>5. RowsInv' /\ CheckoutsInv' /\ ThroughInv'
    BY BooksStill DEF gatewayVars
  <1> QED BY <1>1, <1>2, <1>3, <1>4, <1>5 DEF GatewayInv, gatewayVars

\* A request moves on.
LEMMA PluginMoves ==
    ASSUME GatewayInv, NEW p \in Plugins, NEW x, To(p, x)
    PROVE  /\ plugins' = [q \in Plugins |-> plugins'[q]]
           /\ \A q \in Plugins : plugins'[q] = IF q = p THEN x ELSE plugins[q]
  BY DEF GatewayInv, To

\* Steps of a request that change nothing else but the cache.
LEMMA PluginAlone ==
    ASSUME GatewayInv, NEW p \in Plugins, NEW x, To(p, x),
           PluginOK(x, clock, links), x.step # "answer",
           UNCHANGED <<clock, market, links, orderMeta, checkouts, answered>>,
           CacheOK(cache', clock)
    PROVE  GatewayInv'
  <1>1. /\ plugins' = [q \in Plugins |-> plugins'[q]]
        /\ \A q \in Plugins : plugins'[q] = IF q = p THEN x ELSE plugins[q]
    BY PluginMoves
  <1>2. \A q \in Plugins : PluginOK(plugins'[q], clock, links)
    BY <1>1 DEF GatewayInv
  <1>3. RowsInv' /\ CheckoutsInv' /\ ThroughInv'
    BY <1>1, BooksStill
  <1> QED BY <1>1, <1>2, <1>3 DEF GatewayInv

GatewayAges ==
    /\ RateTTL \in Nat \ {0} /\ AbortAfter \in Nat /\ BodyTime \in Nat
    /\ Nothing \notin Nat /\ Fixed \notin Nat

LEMMA AgesAreAges == GatewayAges
  BY GatewayAssumption DEF GatewayAssumption, GatewayAges

\* A request that is given a rate waits for its order.
LEMMA QuotedStep ==
    ASSUME GatewayInv, NEW p \in Plugins, NEW wish \in Wishes, NEW cached,
           NEW failed \in BOOLEAN, To(p, Quoted(wish, cached, failed)),
           CacheOK(cached, clock), CacheOK(cache', clock),
           failed \/ cached.at = clock \/ (cached.at # Nothing /\ clock - cached.at < RateTTL),
           UNCHANGED <<clock, market, links, orderMeta, checkouts, answered>>
    PROVE  GatewayInv'
  <1> DEFINE x == Quoted(wish, cached, failed)
  <1>1. clock \in Nat /\ GatewayAges /\ market.fallback \in {Fixed, Nothing}
    BY AgesAreAges, MarketAssumption DEF GatewayInv
  <1>2. /\ cached.rate \in Nat \cup {Nothing}
        /\ cached.at \in Nat \cup {Nothing}
        /\ cached.rate # Nothing => /\ cached.at # Nothing /\ cached.rate <= cached.at
                                    /\ cached.at <= clock
                                    /\ cached.at - cached.rate <= AnswerAge
    BY DEF CacheOK
  <1>3. Served(cached) \in Rates
    BY <1>1, <1>2 DEF Served, Rates
  <1>4. failed \/ Served(cached) \in {Fixed, Nothing} \/ clock - Served(cached) <= ServedAge
    <2>1. CASE cached.rate = Nothing
      BY <1>1, <2>1 DEF Served
    <2>2. CASE cached.rate # Nothing /\ ~failed
      <3>1. cached.at \in Nat /\ cached.rate \in Nat /\ clock - cached.at <= RateTTL - 1
        BY <1>1, <1>2, <2>2 DEF GatewayAges
      <3>2. Served(cached) = cached.rate
        BY <2>2 DEF Served
      <3> QED BY <1>1, <1>2, <2>2, <3>1, <3>2 DEF GatewayAges, AnswerAge, ServedAge
    <2> QED BY <2>1, <2>2
  <1>5. QuoteOK(Served(cached), clock, failed, clock)
    BY <1>1, <1>3, <1>4 DEF QuoteOK
  <1>6. x \in [step : {"allocate"}, wish : Wishes, rate : Rates, at : Nat, failed : BOOLEAN]
        /\ x.rate = Served(cached) /\ x.at = clock /\ x.failed = failed /\ x.step = "allocate"
    BY <1>1, <1>3 DEF Quoted
  <1> HIDE DEF x
  <1>7. PluginOK(x, clock, links)
    BY <1>5, <1>6 DEF PluginOK
  <1>8. To(p, x)
    BY DEF x
  <1> QED BY <1>6, <1>7, <1>8, PluginAlone

LEMMA AskStep ==
    ASSUME GatewayInv, NEW p \in Plugins,
           (\E wish \in Wishes : OrderRequest(p, wish)) \/ FeedAnswers(p) \/ FillCache(p)
              \/ FeedFails(p)
    PROVE  GatewayInv'
  <1>1. clock \in Nat /\ GatewayAges /\ CacheOK(cache, clock)
    BY AgesAreAges DEF GatewayInv
  <1>2. PluginOK(plugins[p], clock, links)
    BY DEF GatewayInv
  <1>3. ASSUME NEW wish \in Wishes, OrderRequest(p, wish) PROVE GatewayInv'
    <2>1. UNCHANGED <<clock, market, cache, links, orderMeta, checkouts, answered>>
      BY <1>3 DEF OrderRequest
    <2>2. CASE Fresh
      <3>1. To(p, Quoted(wish, cache, FALSE)) /\ cache.at # Nothing /\ clock - cache.at < RateTTL
        BY <1>3, <2>2 DEF OrderRequest, Fresh
      <3> QED BY <1>1, <2>1, <3>1, QuotedStep
    <2>3. CASE ~Fresh
      <3> DEFINE x == [step |-> "headers", wish |-> wish, asked |-> clock]
      <3>1. To(p, x)
        BY <1>3, <2>3 DEF OrderRequest
      <3>2. PluginOK(x, clock, links) /\ x.step = "headers"
        BY <1>1 DEF PluginOK
      <3> HIDE DEF x
      <3> QED BY <1>1, <2>1, <3>1, <3>2, PluginAlone
    <2> QED BY <2>2, <2>3
  <1>4. CASE FeedAnswers(p)
    <2>1. plugins[p] \in [step : {"headers"}, wish : Wishes, asked : 0 .. clock]
      BY <1>2, <1>4 DEF FeedAnswers, PluginOK, NoRequest
    <2>2. PICK sample \in (plugins[p].asked .. clock) \cup {Nothing} :
              To(p, [step |-> "body", wish |-> plugins[p].wish, sample |-> sample,
                     heard |-> clock])
      BY <1>4 DEF FeedAnswers
    <2> DEFINE x == [step |-> "body", wish |-> plugins[p].wish, sample |-> sample,
                     heard |-> clock]
    <2>3. /\ plugins[p].asked \in 0 .. clock /\ plugins[p].wish \in Wishes
          /\ clock - plugins[p].asked <= AbortAfter
          /\ UNCHANGED <<clock, market, cache, links, orderMeta, checkouts, answered>>
      BY <1>4, <2>1 DEF FeedAnswers
    <2>4. /\ sample \in Nat \cup {Nothing}
          /\ sample # Nothing => sample <= clock /\ clock - sample <= AbortAfter
      BY <1>1, <2>2, <2>3 DEF GatewayAges
    <2>5. /\ x \in [step : {"body"}, wish : Wishes, sample : Nat \cup {Nothing},
                    heard : 0 .. clock]
          /\ x.sample = sample /\ x.heard = clock
      BY <1>1, <2>3, <2>4
    <2> HIDE DEF x
    <2>6. PluginOK(x, clock, links) /\ x.step = "body"
      BY <2>4, <2>5 DEF PluginOK
    <2>7. To(p, x)
      BY <2>2 DEF x
    <2> QED BY <1>1, <2>3, <2>6, <2>7, PluginAlone
  <1>5. CASE FillCache(p)
    <2>1. /\ plugins[p] \in [step : {"body"}, wish : Wishes, sample : Nat \cup {Nothing},
                             heard : 0 .. clock]
          /\ plugins[p].sample # Nothing => /\ plugins[p].sample <= plugins[p].heard
                                            /\ plugins[p].heard - plugins[p].sample <= AbortAfter
      BY <1>2, <1>5 DEF FillCache, PluginOK, NoRequest
    <2> DEFINE filled == [at |-> clock, rate |-> plugins[p].sample]
    <2>2. /\ cache' = filled /\ To(p, Quoted(plugins[p].wish, filled, FALSE))
          /\ clock - plugins[p].heard <= BodyTime
          /\ UNCHANGED <<clock, market, links, orderMeta, checkouts, answered>>
      BY <1>5 DEF FillCache
    <2>3. CacheOK(filled, clock)
      BY <1>1, <2>1, <2>2 DEF CacheOK, AnswerAge, GatewayAges
    <2>4. plugins[p].wish \in Wishes /\ filled.at = clock
      BY <2>1
    <2> HIDE DEF filled
    <2> QED BY <2>2, <2>3, <2>4, QuotedStep
  <1>6. CASE FeedFails(p)
    <2>1. plugins[p].wish \in Wishes
      BY <1>2, <1>6 DEF FeedFails, PluginOK, NoRequest
    <2>2. To(p, Quoted(plugins[p].wish, cache, TRUE))
          /\ UNCHANGED <<clock, market, cache, links, orderMeta, checkouts, answered>>
      BY <1>6 DEF FeedFails
    <2> QED BY <1>1, <2>1, <2>2, QuotedStep
  <1> QED BY <1>3, <1>4, <1>5, <1>6

\* A request that has made its link.
LEMMA HoldsLink ==
    ASSUME NEW r, NEW now, NEW ls, PluginOK(r, now, ls), r.step \in {"save", "answer"}
    PROVE  r \in [step : {"save", "answer"}, slug : Slugs] /\ ls[r.slug] # NoLink
  <1>1. CASE r = NoRequest
    BY <1>1 DEF NoRequest
  <1>2. CASE r.step \in {"headers", "body", "allocate"}
    BY <1>2
  <1> QED BY <1>1, <1>2 DEF PluginOK

\* A link is stored under a slug that has none.
LEMMA AllocateStep ==
    ASSUME GatewayInv, NEW p \in Plugins, NEW s \in Slugs, Allocate(p, s)
    PROVE  GatewayInv'
  <1>1. /\ links[s] = NoLink
        /\ UNCHANGED <<clock, market, cache, orderMeta, checkouts, answered>>
    BY DEF Allocate
  <1>2. /\ plugins[p] \in [step : {"allocate"}, wish : Wishes, rate : Rates, at : Nat,
                           failed : BOOLEAN]
        /\ QuoteOK(plugins[p].rate, plugins[p].at, plugins[p].failed, clock)
    BY DEF Allocate, GatewayInv, PluginOK, NoRequest
  <1>3. CASE plugins[p].rate = Nothing
    <2>1. To(p, NoRequest) /\ UNCHANGED links
      BY <1>3 DEF Allocate
    <2>2. PluginOK(NoRequest, clock, links) /\ NoRequest.step = "free"
      BY DEF PluginOK, NoRequest
    <2>3. CacheOK(cache', clock)
      BY <1>1 DEF GatewayInv
    <2> QED BY <1>1, <2>1, <2>2, <2>3, PluginAlone
  <1>4. CASE plugins[p].rate # Nothing
    <2> DEFINE order == IF plugins[p].wish.given # Nothing THEN plugins[p].wish.given ELSE s
               q == [order |-> order, ref |-> plugins[p].wish.ref, at |-> plugins[p].at,
                     rate |-> plugins[p].rate, failed |-> plugins[p].failed]
               x == [step |-> "save", slug |-> s]
    <2>1. links' = [links EXCEPT ![s] = q] /\ To(p, x)
      BY <1>4 DEF Allocate
    <2>2. /\ plugins[p].wish.given \in Supplied \cup {Nothing}
          /\ plugins[p].wish.ref \in References \cup {Nothing}
      BY <1>2 DEF Wishes
    <2>3. order \in {s} \cup Supplied
      BY <2>2
    <2> HIDE DEF order
    <2>4. LinkOK(q, s, clock)
      BY <1>2, <1>4, <2>2, <2>3 DEF LinkOK
    <2>5. q # NoLink
      <3>1. q.at \in Nat /\ Nothing \notin Nat
        BY <1>2, AgesAreAges DEF GatewayAges
      <3> QED BY <3>1 DEF NoLink
    <2> HIDE DEF q
    <2>6. links' = [u \in Slugs |-> links'[u]]
          /\ \A u \in Slugs : links'[u] = IF u = s THEN q ELSE links[u]
      BY <2>1 DEF GatewayInv, LinksOK
    <2>7. LinksOK(links', clock)
      BY <2>4, <2>6 DEF GatewayInv, LinksOK
    <2>8. /\ plugins' = [u \in Plugins |-> plugins'[u]]
          /\ \A u \in Plugins : plugins'[u] = IF u = p THEN x ELSE plugins[u]
      BY <2>1, PluginMoves
    <2>9. ASSUME NEW u \in Plugins PROVE PluginOK(plugins'[u], clock, links')
      <3>1. PluginOK(plugins[u], clock, links)
        BY DEF GatewayInv
      <3>2. CASE u = p
        BY <2>5, <2>6, <2>8, <3>2 DEF PluginOK
      <3>3. CASE u # p /\ plugins[u].step \in {"save", "answer"}
        <4>1. plugins[u] \in [step : {"save", "answer"}, slug : Slugs]
              /\ links[plugins[u].slug] # NoLink
          BY <3>1, <3>3, HoldsLink
        <4>2. links'[plugins[u].slug] # NoLink
          BY <1>1, <2>6, <4>1
        <4> QED BY <2>8, <3>3, <4>1, <4>2 DEF PluginOK
      <3>4. CASE u # p /\ plugins[u].step \notin {"save", "answer"}
        <4>1. plugins[u] \notin [step : {"save", "answer"}, slug : Slugs]
          BY <3>4
        <4> QED BY <2>8, <3>1, <3>4, <4>1 DEF PluginOK
      <3> QED BY <3>2, <3>3, <3>4
    <2>10. ASSUME NEW o PROVE Posted(o) \subseteq Posted(o)'
      BY <1>1, <2>6 DEF Posted, Stored
    <2>11. RowsInv'
      BY <1>1, <2>10 DEF GatewayInv, RowsInv
    <2>12. \A u \in answered : u \in Slugs /\ u # s /\ links'[u] = links[u] /\ Stored(u)
      BY <1>1, <2>6 DEF GatewayInv, ThroughInv, Stored
    <2>13. CheckoutsInv'
      BY <1>1, <2>10, <2>12 DEF GatewayInv, CheckoutsInv
    <2>14. ASSUME NEW u \in Slugs, Through(u)' PROVE Through(u) /\ links'[u] = links[u]
      <3>1. CASE u \in answered
        BY <2>12, <3>1 DEF Through
      <3>2. CASE u \notin answered
        <4>1. PICK w \in Plugins : plugins'[w].step = "answer" /\ plugins'[w].slug = u
          BY <1>1, <2>14, <3>2 DEF Through
        <4>2. plugins[w].step = "answer" /\ plugins[w].slug = u
          BY <2>8, <4>1
        <4>3. links[u] # NoLink
          BY <4>2, HoldsLink DEF GatewayInv
        <4> QED BY <1>1, <2>6, <4>2, <4>3 DEF Through
      <3> QED BY <3>1, <3>2
    <2>15. ThroughInv'
      BY <1>1, <2>12, <2>14 DEF GatewayInv, ThroughInv, Stored
    <2> QED BY <1>1, <2>7, <2>8, <2>9, <2>11, <2>13, <2>15 DEF GatewayInv
  <1> QED BY <1>3, <1>4

\* A row is written with a reference posted with its order, or with none: a reference on file
\* gives way to another one only.
LEMMA RowSaved ==
    ASSUME GatewayInv, NEW o \in Orders, NEW ref \in Posted(o) \cup {Nothing},
           NEW linked \in BOOLEAN, SaveMeta(o, ref, linked), UNCHANGED links
    PROVE  /\ RowsInv'
           /\ \A u \in Orders : orderMeta[u].reference # Nothing => orderMeta'[u].reference # Nothing
           /\ ref # Nothing => orderMeta'[o].reference # Nothing
  <1> DEFINE m == [reference |-> Coalesce(ref, orderMeta[o].reference), linked |-> linked]
  <1>1. orderMeta' = [orderMeta EXCEPT ![o] = m]
    BY DEF SaveMeta
  <1>2. \A u \in Orders : Posted(u)' = Posted(u)
    BY DEF Posted, Stored
  <1>3. Posted(o) \subseteq References \cup {Nothing}
    BY DEF Posted, Stored, GatewayInv, LinksOK, LinkOK
  <1>4. orderMeta[o].reference \in Posted(o) \cup {Nothing}
    BY DEF GatewayInv, RowsInv
  <1>5. /\ m.reference \in Posted(o) \cup {Nothing}
        /\ m.reference = Nothing => ref = Nothing /\ orderMeta[o].reference = Nothing
    BY <1>4 DEF Coalesce
  <1>6. m \in [reference : References \cup {Nothing}, linked : BOOLEAN]
    BY <1>3, <1>5
  <1> HIDE DEF m
  <1>7. \A u \in Orders : orderMeta'[u] = IF u = o THEN m ELSE orderMeta[u]
    BY <1>1 DEF GatewayInv, RowsInv
  <1>8. orderMeta' \in [Orders -> [reference : References \cup {Nothing}, linked : BOOLEAN]]
    BY <1>1, <1>6 DEF GatewayInv, RowsInv
  <1> QED BY <1>2, <1>5, <1>7, <1>8 DEF GatewayInv, RowsInv

\* The rest of the books, when a row was written and at most link s got through by it.
LEMMA BooksAfter ==
    ASSUME GatewayInv, UNCHANGED <<links, answered>>, checkouts' \subseteq checkouts, RowsInv',
           \A u \in Orders : orderMeta[u].reference # Nothing => orderMeta'[u].reference # Nothing,
           \A s \in Slugs :
               Through(s)' => \/ Through(s)
                              \/ links[s].ref # Nothing
                                    => orderMeta'[links[s].order].reference # Nothing,
           \A s \in Slugs : Through(s) => Stored(s)
    PROVE  CheckoutsInv' /\ ThroughInv'
  <1>1. \A o : Posted(o)' = Posted(o)
    BY DEF Posted, Stored
  <1>2. CheckoutsInv'
    BY <1>1 DEF GatewayInv, CheckoutsInv
  <1>3. ASSUME NEW s \in Slugs, Through(s)', links[s].ref # Nothing
        PROVE  orderMeta'[links[s].order].reference # Nothing
    <2>1. CASE Through(s)
      <3>1. links[s].order \in Orders
        BY <2>1 DEF GatewayInv, LinksOK, LinkOK, Stored, Orders
      <3> QED BY <1>3, <2>1, <3>1 DEF GatewayInv, ThroughInv
    <2> QED BY <1>3, <2>1
  <1> QED BY <1>2, <1>3 DEF GatewayInv, ThroughInv, Stored

LEMMA ThroughStored == GatewayInv => \A s \in Slugs : Through(s) => Stored(s)
  <1> SUFFICES ASSUME GatewayInv, NEW s \in Slugs, Through(s), s \notin answered PROVE Stored(s)
    BY DEF GatewayInv, ThroughInv
  <1>1. PICK p \in Plugins : plugins[p].step = "answer" /\ plugins[p].slug = s
    BY DEF Through
  <1> QED BY <1>1, HoldsLink DEF GatewayInv, Stored

\* The order's metadata has a reference from now on, if the plugin posted one.
LEMMA SaveReferenceStep ==
    ASSUME GatewayInv, NEW p \in Plugins, SaveReference(p)
    PROVE  GatewayInv'
  <1> DEFINE s == plugins[p].slug
             x == [plugins[p] EXCEPT !.step = "answer"]
  <1>1. plugins[p].step = "save" /\ UNCHANGED <<clock, market, cache, links, checkouts, answered>>
    BY DEF SaveReference
  <1>2. plugins[p] \in [step : {"save", "answer"}, slug : Slugs] /\ links[s] # NoLink
    BY <1>1, HoldsLink DEF GatewayInv
  <1>3. LinkOK(links[s], s, clock)
    BY <1>2 DEF GatewayInv, LinksOK
  <1>4. links[s].order \in Orders /\ links[s].ref \in Posted(links[s].order)
    BY <1>2, <1>3 DEF LinkOK, Orders, Posted, Stored
  <1>5. SaveMeta(links[s].order, links[s].ref, FALSE) /\ To(p, x)
    BY DEF SaveReference
  <1>6. /\ RowsInv'
        /\ \A u \in Orders : orderMeta[u].reference # Nothing => orderMeta'[u].reference # Nothing
        /\ links[s].ref # Nothing => orderMeta'[links[s].order].reference # Nothing
    BY <1>1, <1>4, <1>5, RowSaved
  <1>7. /\ plugins' = [u \in Plugins |-> plugins'[u]]
        /\ \A u \in Plugins : plugins'[u] = IF u = p THEN x ELSE plugins[u]
    BY <1>5, PluginMoves
  <1>8. x \in [step : {"save", "answer"}, slug : Slugs] /\ x.slug = s
    BY <1>2
  <1>9. \A u \in Plugins : PluginOK(plugins'[u], clock, links)
    BY <1>2, <1>7, <1>8 DEF GatewayInv, PluginOK
  <1>10. ASSUME NEW u \in Slugs, Through(u)' PROVE Through(u) \/ u = s
    BY <1>1, <1>7, <1>8, <1>10 DEF Through
  <1>11. CheckoutsInv' /\ ThroughInv'
    BY <1>1, <1>6, <1>10, BooksAfter, ThroughStored
  <1> QED BY <1>1, <1>6, <1>7, <1>9, <1>11 DEF GatewayInv

\* The plugin is told.
LEMMA AnswerStep ==
    ASSUME GatewayInv, NEW p \in Plugins, AnswerPlugin(p)
    PROVE  GatewayInv'
  <1> DEFINE s == plugins[p].slug
  <1>1. plugins[p].step = "answer"
        /\ UNCHANGED <<clock, market, cache, links, orderMeta, checkouts>>
    BY DEF AnswerPlugin
  <1>2. plugins[p] \in [step : {"save", "answer"}, slug : Slugs] /\ links[s] # NoLink
    BY <1>1, HoldsLink DEF GatewayInv
  <1>3. answered' = answered \cup {s} /\ To(p, NoRequest)
    BY DEF AnswerPlugin
  <1>4. /\ plugins' = [q \in Plugins |-> plugins'[q]]
        /\ \A q \in Plugins : plugins'[q] = IF q = p THEN NoRequest ELSE plugins[q]
    BY <1>3, PluginMoves
  <1>5. \A q \in Plugins : PluginOK(plugins'[q], clock, links)
    BY <1>4 DEF GatewayInv, PluginOK
  <1>6. \A o : Posted(o)' = Posted(o)
    BY <1>1 DEF Posted, Stored
  <1>7. RowsInv' /\ CheckoutsInv'
    BY <1>1, <1>3, <1>6 DEF GatewayInv, RowsInv, CheckoutsInv
  <1>8. ASSUME NEW u \in Slugs, Through(u)' PROVE Through(u)
    <2>1. Through(s)
      BY <1>1 DEF Through
    <2>2. CASE u \in answered'
      BY <1>3, <2>1, <2>2 DEF Through
    <2>3. CASE u \notin answered'
      BY <1>4, <1>8, <2>3 DEF Through, NoRequest
    <2> QED BY <2>2, <2>3
  <1>9. ThroughInv'
    BY <1>1, <1>2, <1>3, <1>8 DEF GatewayInv, ThroughInv, Stored
  <1> QED BY <1>1, <1>4, <1>5, <1>7, <1>9 DEF GatewayInv

LEMMA OrderFailsStep ==
    ASSUME GatewayInv, NEW p \in Plugins, OrderFails(p)
    PROVE  GatewayInv'
  <1>1. PluginOK(NoRequest, clock, links) /\ NoRequest.step = "free"
    BY DEF PluginOK, NoRequest
  <1>2. To(p, NoRequest)
        /\ UNCHANGED <<clock, market, links, orderMeta, checkouts, answered>> /\ cache' = cache
    BY DEF OrderFails
  <1>3. CacheOK(cache', clock)
    BY <1>2 DEF GatewayInv
  <1> QED BY <1>1, <1>2, <1>3, PluginAlone

LEMMA RestartStep ==
    ASSUME GatewayInv, GatewayRestart
    PROVE  GatewayInv'
  <1>1. CacheOK(cache', clock)
    BY DEF GatewayRestart, CacheOK
  <1>2. /\ \A p \in Plugins : PluginOK(plugins'[p], clock, links)
        /\ \A p \in Plugins : plugins'[p].step # "answer"
        /\ plugins' = [p \in Plugins |-> plugins'[p]]
    BY DEF GatewayRestart, PluginOK, NoRequest
  <1>3. RowsInv' /\ CheckoutsInv' /\ ThroughInv'
    BY <1>2, BooksStill DEF GatewayRestart
  <1> QED BY <1>1, <1>2, <1>3 DEF GatewayInv, GatewayRestart

\* The customer's pages hand on what was posted, or nothing.
LEMMA CustomerStep ==
    ASSUME GatewayInv, (\E o \in Orders : CustomerMeta(o)) \/ \E c \in checkouts : CheckoutEnds(c)
    PROVE  GatewayInv'
  <1>1. /\ UNCHANGED <<clock, market, cache, plugins, links, answered>>
        /\ checkouts' \subseteq checkouts
    BY DEF CustomerMeta, CheckoutEnds
  <1>2. \A s \in Slugs : Through(s)' = Through(s)
    BY <1>1 DEF Through
  <1>3. ASSUME NEW o \in Orders, NEW ref \in Posted(o) \cup {Nothing}, NEW linked \in BOOLEAN,
               SaveMeta(o, ref, linked)
        PROVE  GatewayInv'
    <2>1. /\ RowsInv'
          /\ \A u \in Orders : orderMeta[u].reference # Nothing => orderMeta'[u].reference # Nothing
      BY <1>1, <1>3, RowSaved
    <2>2. CheckoutsInv' /\ ThroughInv'
      BY <1>1, <1>2, <2>1, BooksAfter, ThroughStored
    <2> QED BY <1>1, <2>1, <2>2 DEF GatewayInv
  <1>4. ASSUME NEW o \in Orders, CustomerMeta(o) PROVE GatewayInv'
    BY <1>3, <1>4 DEF CustomerMeta
  <1>5. ASSUME NEW c \in checkouts, CheckoutEnds(c) PROVE GatewayInv'
    <2>1. /\ c.slug \in Slugs /\ links[c.slug] # NoLink
          /\ c.ref \in Posted(links[c.slug].order) \cup {Nothing}
      BY DEF GatewayInv, CheckoutsInv, ThroughInv, Stored
    <2>2. links[c.slug].order \in Orders
      BY <2>1 DEF GatewayInv, LinksOK, LinkOK, Orders
    <2>3. CASE SaveMeta(links[c.slug].order, c.ref, TRUE)
      BY <1>3, <2>1, <2>2, <2>3
    <2>4. CASE UNCHANGED orderMeta
      <3>1. RowsInv' /\ CheckoutsInv' /\ ThroughInv'
        BY <1>1, <2>4, BooksStill
      <3> QED BY <1>1, <3>1 DEF GatewayInv
    <2> QED BY <1>5, <2>3, <2>4 DEF CheckoutEnds
  <1> QED BY <1>4, <1>5

\* A Qi claim reads what is on file.
LEMMA CheckoutReadsStep ==
    ASSUME GatewayInv, NEW s \in Slugs, CheckoutReads(s)
    PROVE  GatewayInv'
  <1>1. /\ UNCHANGED <<clock, market, cache, plugins, links, orderMeta, answered>>
        /\ s \in answered
        /\ checkouts' = checkouts
             \cup {[slug |-> s, ref |-> orderMeta[links[s].order].reference]}
    BY DEF CheckoutReads
  <1>2. links[s].order \in Orders
    BY <1>1 DEF GatewayInv, ThroughInv, Stored, LinksOK, LinkOK, Orders
  <1>3. orderMeta[links[s].order].reference \in Posted(links[s].order) \cup {Nothing}
    BY <1>2 DEF GatewayInv, RowsInv
  <1>4. RowsInv' /\ ThroughInv'
    BY <1>1 DEF GatewayInv, RowsInv, ThroughInv, Through, Stored, Posted
  <1>5. \A o : Posted(o)' = Posted(o)
    BY <1>1 DEF Posted, Stored
  <1>6. CheckoutsInv'
    BY <1>1, <1>3, <1>5 DEF GatewayInv, CheckoutsInv
  <1> QED BY <1>1, <1>4, <1>6 DEF GatewayInv

LEMMA GatewayStep ==
    ASSUME GatewayInv, GatewayNext
    PROVE  GatewayInv'
  <1>1. CASE TickTo(market.until) /\ UNCHANGED gatewayVars
    BY <1>1, GatewayLater DEF TickTo
  <1>2. ASSUME NEW p \in Plugins,
               \/ \E wish \in Wishes : OrderRequest(p, wish)
               \/ FeedAnswers(p) \/ FillCache(p) \/ FeedFails(p)
        PROVE  GatewayInv'
    BY <1>2, AskStep
  <1>3. ASSUME NEW p \in Plugins, NEW s \in Slugs, Allocate(p, s)
        PROVE  GatewayInv'
    BY <1>3, AllocateStep
  <1>4. ASSUME NEW p \in Plugins, SaveReference(p) \/ AnswerPlugin(p) \/ OrderFails(p)
        PROVE  GatewayInv'
    BY <1>4, SaveReferenceStep, AnswerStep, OrderFailsStep
  <1>5. CASE GatewayRestart
    BY <1>5, RestartStep
  <1>6. CASE (\E o \in Orders : CustomerMeta(o)) \/ \E c \in checkouts : CheckoutEnds(c)
    BY <1>6, CustomerStep
  <1>7. ASSUME NEW s \in Slugs, CheckoutReads(s)
        PROVE  GatewayInv'
    BY <1>7, CheckoutReadsStep
  <1> QED BY <1>1, <1>2, <1>3, <1>4, <1>5, <1>6, <1>7 DEF GatewayNext

LEMMA GatewayImplied ==
    ASSUME GatewayInv
    PROVE  GatewayTypeOK /\ FreshUnlessFailed /\ ReferenceKept
  <1>1. /\ CacheOK(cache, clock) /\ LinksOK(links, clock) /\ clock \in Nat
        /\ RowsInv /\ ThroughInv
    BY DEF GatewayInv
  <1>2. FreshUnlessFailed
    BY <1>1 DEF FreshUnlessFailed, LinksOK, LinkOK, QuoteOK, ServedAge, Stored
  <1>3. ASSUME NEW s \in answered PROVE Stored(s) /\ s \in Slugs /\ LinkOK(links[s], s, clock)
    BY <1>1 DEF ThroughInv, LinksOK, Stored
  <1>4. ReferenceKept
    <2> SUFFICES ASSUME NEW s \in answered
                 PROVE  /\ links[s].order \in Slugs
                              => orderMeta[links[s].order].reference = links[s].ref
                        /\ links[s].ref # Nothing
                              => orderMeta[links[s].order].reference
                                    \in Posted(links[s].order) \ {Nothing}
      BY DEF ReferenceKept
    <2>1. links[s].order \in {s} \cup Supplied
      BY <1>3 DEF LinkOK
    <2>2. links[s].order \in Orders
      BY <1>3, <2>1 DEF Orders
    <2>3. orderMeta[links[s].order].reference \in Posted(links[s].order) \cup {Nothing}
      BY <1>1, <2>2 DEF RowsInv
    <2>4. links[s].ref # Nothing => orderMeta[links[s].order].reference # Nothing
      BY <1>1, <1>3 DEF ThroughInv, Through
    <2>5. ASSUME links[s].order \in Slugs PROVE Posted(links[s].order) = {links[s].ref}
      <3>1. links[s].order = s
        BY <2>1, <2>5, GatewayAssumption
      <3>2. ASSUME NEW u \in Slugs, Stored(u), links[u].order = s PROVE u = s
        <4>1. links[u].order \in {u} \cup Supplied
          BY <1>1, <3>2 DEF LinksOK, LinkOK, Stored
        <4> QED BY <3>2, <4>1, <1>3, GatewayAssumption
      <3> QED BY <1>3, <3>1, <3>2 DEF Posted
    <2> QED BY <2>3, <2>4, <2>5
  <1>5. ASSUME NEW p \in Plugins
        PROVE  /\ plugins[p].step = "allocate" => plugins[p].rate \in Rates
               /\ plugins[p].step \in {"save", "answer"} => Stored(plugins[p].slug)
    <2>1. PluginOK(plugins[p], clock, links)
      BY DEF GatewayInv
    <2>2. plugins[p].step = "allocate" => plugins[p].rate \in Rates
      BY <2>1 DEF PluginOK, NoRequest
    <2> QED BY <2>1, <2>2, HoldsLink DEF Stored
  <1>6. \A s \in Slugs : Stored(s) =>
           /\ links[s].order \in {s} \cup Supplied
           /\ links[s].rate \in Rates \ {Nothing} /\ links[s].at <= clock
    BY <1>1 DEF LinksOK, LinkOK, QuoteOK, Stored
  <1>7. /\ cache.at \in Nat \cup {Nothing}
        /\ cache.rate \in Nat \cup {Nothing}
        /\ cache.at = Nothing => cache.rate = Nothing
        /\ cache.rate # Nothing => cache.rate <= cache.at
    BY <1>1 DEF CacheOK
  <1> QED BY <1>1, <1>2, <1>4, <1>5, <1>6, <1>7 DEF GatewayTypeOK, RowsInv, ThroughInv

-----------------------------------------------------------------------------
(* Install states and login nonces.                                        *)

\* A state on file has not been used; a used one was used for the shop it was issued for.
InstallInv ==
    /\ states = [s \in States |-> states[s]]
    /\ begun = [s \in States |-> begun[s]]
    /\ exchanges = [s \in States |-> exchanges[s]]
    /\ \A s \in States :
          /\ states[s] \in {NoState, begun[s]}
          /\ exchanges[s] = <<>> \/ (begun[s] # NoState /\ states[s] = NoState)

LEMMA InstallInitInv ==
    ASSUME InstallInit
    PROVE  InstallInv
  BY DEF InstallInit, InstallInv

\* What a step of the installs is to whoever issues one-time tokens.
LEMMA InstallStep ==
    ASSUME InstallInv, InstallNext \/ UNCHANGED installVars
    PROVE  /\ InstallInv'
           /\ clock' = clock \/ clock' = clock + 1 \/ installVars' = installVars
           /\ clock' = clock \/ (begun' = begun /\ exchanges' = exchanges)
           /\ clock' = clock =>
                \/ begun' = begun /\ exchanges' = exchanges
                \/ \E s \in States, shop \in Shops : OneTimeStates!Issue(s, shop)
                \/ \E s \in States : OneTimeStates!Admit(s)
  <1>1. CASE UNCHANGED installVars
    BY <1>1 DEF installVars, InstallInv
  <1>2. CASE TickTo(InstallTime) /\ UNCHANGED installVars
    BY <1>2 DEF installVars, InstallInv, TickTo
  <1>3. ASSUME NEW s \in States, NEW shop \in Shops, Auth(shop, s)
        PROVE  InstallInv' /\ OneTimeStates!Issue(s, shop)
    <2>1. OneTimeStates!Issue(s, shop)
      BY <1>3 DEF Auth, OneTimeStates!Issue
    <2> DEFINE new == [holder |-> shop, at |-> clock]
    <2>2. /\ begun[s] = NoState
          /\ begun' = [begun EXCEPT ![s] = new]
          /\ states' = [states EXCEPT ![s] = new]
          /\ exchanges' = exchanges
      BY <1>3 DEF Auth
    <2> HIDE DEF new
    <2>3. /\ states' = [u \in States |-> states'[u]]
          /\ begun' = [u \in States |-> begun'[u]]
          /\ \A u \in States : /\ states'[u] = IF u = s THEN new ELSE states[u]
                               /\ begun'[u] = IF u = s THEN new ELSE begun[u]
      BY <2>2 DEF InstallInv
    <2>4. exchanges[s] = <<>>
      BY <2>2 DEF InstallInv
    <2> QED BY <2>1, <2>2, <2>3, <2>4 DEF InstallInv
  <1>4. ASSUME NEW s \in States, NEW shop \in Shops, NEW c \in Callbacks, Callback(c, shop, s)
        PROVE  /\ InstallInv' /\ clock' = clock /\ begun' = begun
               /\ exchanges' = exchanges \/ OneTimeStates!Admit(s)
    <2>1. /\ begun[s] # NoState /\ states' = [states EXCEPT ![s] = NoState]
          /\ UNCHANGED <<clock, begun>>
      BY <1>4 DEF Callback, ConsumeState
    <2>2. /\ states' = [u \in States |-> states'[u]]
          /\ \A u \in States : states'[u] = IF u = s THEN NoState ELSE states[u]
      BY <2>1 DEF InstallInv
    <2>3. CASE states[s] # NoState /\ states[s].holder = shop /\ clock - states[s].at <= StateTTL
      <3>1. exchanges[s] = <<>> /\ states[s] = begun[s]
        BY <2>3 DEF InstallInv
      <3>2. exchanges' = [exchanges EXCEPT ![s] = Append(@, shop)]
        BY <1>4, <2>3 DEF Callback
      <3>3. exchanges' = [exchanges EXCEPT ![s] = <<begun[s].holder>>]
        <4>1. Append(<<>>, shop) = <<shop>>
          OBVIOUS
        <4>2. Append(exchanges[s], shop) = <<begun[s].holder>>
          BY <2>3, <3>1, <4>1
        <4> QED BY <3>2, <4>2 DEF InstallInv
      <3>4. OneTimeStates!Admit(s)
        BY <2>1, <2>3, <3>1, <3>3 DEF OneTimeStates!Admit
      <3>5. /\ exchanges' = [u \in States |-> exchanges'[u]]
            /\ \A u \in States : u # s => exchanges'[u] = exchanges[u]
        BY <3>3 DEF InstallInv
      <3> QED BY <2>1, <2>2, <3>4, <3>5 DEF InstallInv
    <2>4. CASE ~(states[s] # NoState /\ states[s].holder = shop
                    /\ clock - states[s].at <= StateTTL)
      <3>1. exchanges' = exchanges
        BY <1>4, <2>4 DEF Callback
      <3> QED BY <2>1, <2>2, <3>1 DEF InstallInv
    <2> QED BY <2>3, <2>4
  <1>5. ASSUME NEW c \in Callbacks, Exchange(c)
        PROVE  InstallInv' /\ UNCHANGED <<clock, begun, exchanges>>
    BY <1>5 DEF Exchange, InstallInv
  <1>6. CASE PruneStates
    BY <1>6 DEF PruneStates, InstallInv
  <1>7. CASE InstallCrash
    BY <1>7 DEF InstallCrash, InstallInv
  <1>8. ASSUME NEW s \in States, NEW shop \in Shops, OneTimeStates!Issue(s, shop)
        PROVE  clock' = clock
    BY <1>8 DEF OneTimeStates!Issue
  <1> QED BY <1>1, <1>2, <1>3, <1>4, <1>5, <1>6, <1>7, <1>8 DEF InstallNext, installVars, TickTo

\* A nonce on file has not signed anybody in.
SignInInv ==
    /\ nonces = [n \in Nonces |-> nonces[n]]
    /\ challenges = [n \in Nonces |-> challenges[n]]
    /\ signedIn = [n \in Nonces |-> signedIn[n]]
    /\ \A n \in Nonces :
          /\ challenges[n] \in {NoNonce} \cup [holder : Wallets, at : Nat]
          /\ nonces[n] \in {NoNonce, challenges[n]}
          /\ signedIn[n] = <<>> \/ (challenges[n] # NoNonce /\ nonces[n] = NoNonce)

LEMMA SignInInitInv ==
    ASSUME SignInInit
    PROVE  SignInInv
  BY DEF SignInInit, SignInInv

LEMMA SignInStep ==
    ASSUME SignInInv, SignInNext \/ UNCHANGED signInVars, clock \in Nat
    PROVE  /\ SignInInv'
           /\ clock' = clock \/ clock' = clock + 1 \/ signInVars' = signInVars
           /\ clock' = clock \/ (challenges' = challenges /\ signedIn' = signedIn)
           /\ clock' = clock =>
                \/ challenges' = challenges /\ signedIn' = signedIn
                \/ \E n \in Nonces, w \in Wallets : OneTimeNonces!Issue(n, w)
                \/ \E n \in Nonces : OneTimeNonces!Admit(n)
  <1>1. CASE UNCHANGED signInVars
    BY <1>1 DEF signInVars, SignInInv
  <1>2. CASE TickTo(SignInTime) /\ UNCHANGED signInVars
    BY <1>2 DEF signInVars, SignInInv, TickTo
  <1>3. ASSUME NEW n \in Nonces, NEW w \in Wallets, Challenge(w, n)
        PROVE  SignInInv' /\ OneTimeNonces!Issue(n, w)
    <2>1. OneTimeNonces!Issue(n, w)
      BY <1>3 DEF Challenge, OneTimeNonces!Issue
    <2> DEFINE new == [holder |-> w, at |-> clock]
    <2>2. /\ challenges[n] = NoNonce
          /\ challenges' = [challenges EXCEPT ![n] = new]
          /\ nonces' = [m \in Nonces |-> IF m = n THEN new
                                         ELSE IF InWindow(m) THEN nonces[m] ELSE NoNonce]
          /\ signedIn' = signedIn
      BY <1>3 DEF Challenge
    <2>3. new \in [holder : Wallets, at : Nat]
      OBVIOUS
    <2> HIDE DEF new
    <2>4. /\ challenges' = [u \in Nonces |-> challenges'[u]]
          /\ nonces' = [u \in Nonces |-> nonces'[u]]
          /\ \A u \in Nonces : /\ challenges'[u] = IF u = n THEN new ELSE challenges[u]
                               /\ nonces'[u] \in IF u = n THEN {new} ELSE {nonces[u], NoNonce}
      BY <2>2 DEF SignInInv
    <2>5. signedIn[n] = <<>>
      BY <2>2 DEF SignInInv
    <2> QED BY <2>1, <2>2, <2>3, <2>4, <2>5 DEF SignInInv
  <1>4. ASSUME NEW n \in Nonces, NEW w \in Wallets, NEW l \in Logins, NEW signer \in Wallets,
               Login(l, n, w, signer)
        PROVE  /\ SignInInv' /\ clock' = clock /\ challenges' = challenges
               /\ signedIn' = signedIn \/ OneTimeNonces!Admit(n)
    <2>1. /\ challenges[n] # NoNonce /\ nonces' = [nonces EXCEPT ![n] = NoNonce]
          /\ UNCHANGED <<clock, challenges>>
      BY <1>4 DEF Login, ConsumeNonce
    <2>2. /\ nonces' = [u \in Nonces |-> nonces'[u]]
          /\ \A u \in Nonces : nonces'[u] = IF u = n THEN NoNonce ELSE nonces[u]
      BY <2>1 DEF SignInInv
    <2>3. CASE InWindow(n) /\ nonces[n].holder = w /\ signer = w /\ w = Merchant
      <3>1. signedIn[n] = <<>> /\ nonces[n] = challenges[n] /\ clock < challenges[n].at + Window
        BY <2>3 DEF SignInInv, InWindow
      <3>2. signedIn' = [signedIn EXCEPT ![n] = Append(@, w)]
        BY <1>4, <2>3 DEF Login
      <3>3. signedIn' = [signedIn EXCEPT ![n] = <<challenges[n].holder>>]
        <4>1. Append(<<>>, w) = <<w>>
          OBVIOUS
        <4>2. Append(signedIn[n], w) = <<challenges[n].holder>>
          BY <2>3, <3>1, <4>1
        <4> QED BY <3>2, <4>2 DEF SignInInv
      <3>4. challenges[n].at \in Nat /\ Window \in Nat
        BY <2>1, SignInAssumption DEF SignInInv, SignInAssumption
      <3>5. clock - challenges[n].at <= Window - 1
        BY <3>1, <3>4
      <3>6. OneTimeNonces!Admit(n)
        BY <2>1, <3>1, <3>3, <3>5 DEF OneTimeNonces!Admit
      <3>7. /\ signedIn' = [u \in Nonces |-> signedIn'[u]]
            /\ \A u \in Nonces : u # n => signedIn'[u] = signedIn[u]
        BY <3>3 DEF SignInInv
      <3> QED BY <2>1, <2>2, <3>6, <3>7 DEF SignInInv
    <2>4. CASE ~(InWindow(n) /\ nonces[n].holder = w /\ signer = w /\ w = Merchant)
      <3>1. signedIn' = signedIn
        BY <1>4, <2>4 DEF Login
      <3> QED BY <2>1, <2>2, <3>1 DEF SignInInv
    <2> QED BY <2>3, <2>4
  <1>5. ASSUME NEW l \in Logins, BeginSession(l) \/ CommitSession(l) \/ LoginFails(l)
        PROVE  SignInInv' /\ UNCHANGED <<clock, challenges, signedIn>>
    BY <1>5 DEF BeginSession, CommitSession, LoginFails, SignInInv
  <1>6. CASE EndSession
    BY <1>6 DEF EndSession, SignInInv
  <1>7. ASSUME NEW n \in Nonces, NEW w \in Wallets, OneTimeNonces!Issue(n, w)
        PROVE  clock' = clock
    BY <1>7 DEF OneTimeNonces!Issue
  <1> QED BY <1>1, <1>2, <1>3, <1>4, <1>5, <1>6, <1>7 DEF SignInNext, signInVars, TickTo

\* What is under way: a callback whose shop's token has been asked for with its state.
Underway(c, asked) ==
    \/ c = Ready
    \/ /\ c \in [step : {"exchange"}, shop : Shops, state : States]
       /\ c.shop \in Range(asked[c.state])

InstallTyped ==
    /\ \A s \in States : begun[s] \in {NoState} \cup [holder : Shops, at : Nat]
    /\ \A s \in States : exchanges[s] \in Seq(Shops)
    /\ callbacks = [c \in Callbacks |-> callbacks[c]]
    /\ \A c \in Callbacks : Underway(callbacks[c], exchanges)
    /\ sessions \in [Shops -> SUBSET States]

LEMMA InstallInitTyped ==
    ASSUME InstallInit
    PROVE  InstallTyped
  BY DEF InstallInit, InstallTyped, Underway

\* The shops that Shopify was asked for are not forgotten.
LEMMA UnderwayKept ==
    ASSUME NEW c, NEW f, NEW g, Underway(c, f),
           \A s \in States : Range(f[s]) \subseteq Range(g[s])
    PROVE  Underway(c, g)
  BY DEF Underway

LEMMA InstallTypedStep ==
    ASSUME InstallInv, InstallTyped, InstallNext \/ UNCHANGED installVars, clock \in Nat
    PROVE  InstallTyped'
  <1>1. CASE UNCHANGED installVars
    BY <1>1 DEF installVars, InstallTyped
  <1>2. CASE TickTo(InstallTime) /\ UNCHANGED installVars
    BY <1>2 DEF installVars, InstallTyped
  <1>3. ASSUME NEW s \in States, NEW shop \in Shops, Auth(shop, s)
        PROVE  InstallTyped'
    <2> DEFINE new == [holder |-> shop, at |-> clock]
    <2>1. new \in [holder : Shops, at : Nat]
      OBVIOUS
    <2>2. begun' = [begun EXCEPT ![s] = new] /\ UNCHANGED <<callbacks, sessions, exchanges>>
      BY <1>3 DEF Auth
    <2> HIDE DEF new
    <2>3. \A u \in States : begun'[u] = IF u = s THEN new ELSE begun[u]
      BY <2>2 DEF InstallInv
    <2> QED BY <2>1, <2>2, <2>3 DEF InstallTyped
  <1>4. ASSUME NEW s \in States, NEW shop \in Shops, NEW c \in Callbacks, Callback(c, shop, s)
        PROVE  InstallTyped'
    <2>1. UNCHANGED <<sessions, begun>>
      BY <1>4 DEF Callback
    <2>2. CASE UNCHANGED <<callbacks, exchanges>>
      BY <2>1, <2>2 DEF InstallTyped
    <2>3. CASE /\ callbacks' = [callbacks EXCEPT
                      ![c] = [step |-> "exchange", shop |-> shop, state |-> s]]
               /\ exchanges' = [exchanges EXCEPT ![s] = Append(@, shop)]
      <3> DEFINE new == [step |-> "exchange", shop |-> shop, state |-> s]
                 asked == Append(exchanges[s], shop)
      <3>1. new \in [step : {"exchange"}, shop : Shops, state : States]
            /\ new.shop = shop /\ new.state = s
        OBVIOUS
      <3>2. exchanges[s] \in Seq(Shops)
        BY DEF InstallTyped
      <3>3. /\ asked \in Seq(Shops) /\ shop \in Range(asked)
            /\ Range(exchanges[s]) \subseteq Range(asked)
        <4>1. /\ asked \in Seq(Shops)
              /\ DOMAIN exchanges[s] = 1 .. Len(exchanges[s]) /\ Len(exchanges[s]) \in Nat
              /\ DOMAIN asked = 1 .. Len(exchanges[s]) + 1
              /\ \A i \in DOMAIN exchanges[s] : asked[i] = exchanges[s][i]
              /\ asked[Len(exchanges[s]) + 1] = shop
          BY <3>2
        <4> HIDE DEF asked
        <4> QED BY <4>1 DEF Range
      <3>4. callbacks' = [callbacks EXCEPT ![c] = new] /\ exchanges' = [exchanges EXCEPT ![s] = asked]
        BY <2>3
      <3> HIDE DEF new, asked
      <3>5. /\ \A u \in States : exchanges'[u] = IF u = s THEN asked ELSE exchanges[u]
            /\ callbacks' = [d \in Callbacks |-> callbacks'[d]]
            /\ \A d \in Callbacks : callbacks'[d] = IF d = c THEN new ELSE callbacks[d]
        BY <3>4 DEF InstallInv, InstallTyped
      <3>6. \A u \in States : Range(exchanges[u]) \subseteq Range(exchanges'[u])
        BY <3>3, <3>5
      <3>7. Underway(new, exchanges')
        BY <3>1, <3>3, <3>5 DEF Underway
      <3>8. \A d \in Callbacks : Underway(callbacks'[d], exchanges')
        BY <3>5, <3>6, <3>7, UnderwayKept DEF InstallTyped
      <3>9. \A u \in States : exchanges'[u] \in Seq(Shops)
        BY <3>3, <3>5 DEF InstallTyped
      <3> QED BY <2>1, <3>5, <3>8, <3>9 DEF InstallTyped
    <2> QED BY <1>4, <2>2, <2>3 DEF Callback
  <1>5. ASSUME NEW c \in Callbacks, Exchange(c)
        PROVE  InstallTyped'
    <2>1. /\ callbacks[c] # Ready /\ UNCHANGED <<begun, exchanges>>
          /\ callbacks' = [callbacks EXCEPT ![c] = Ready]
      BY <1>5 DEF Exchange, Ready
    <2>2. callbacks[c] \in [step : {"exchange"}, shop : Shops, state : States]
      BY <2>1 DEF InstallTyped, Underway
    <2>3. sessions' \in [Shops -> SUBSET States]
      BY <1>5, <2>2 DEF Exchange, InstallTyped
    <2>4. /\ callbacks' = [d \in Callbacks |-> callbacks'[d]]
          /\ \A d \in Callbacks : callbacks'[d] = IF d = c THEN Ready ELSE callbacks[d]
      BY <2>1 DEF InstallTyped
    <2> QED BY <2>1, <2>3, <2>4 DEF InstallTyped, Underway
  <1>6. CASE PruneStates
    BY <1>6 DEF PruneStates, InstallTyped
  <1>7. CASE InstallCrash
    BY <1>7 DEF InstallCrash, InstallTyped, Underway
  <1> QED BY <1>1, <1>2, <1>3, <1>4, <1>5, <1>6, <1>7 DEF InstallNext

LEMMA InstallImplied ==
    ASSUME InstallInv, InstallTyped
    PROVE  InstallTypeOK
  <1>1. \A s \in States : states[s] \in {NoState} \cup [holder : Shops, at : Nat]
    BY DEF InstallInv, InstallTyped
  <1>2. states \in [States -> {NoState} \cup [holder : Shops, at : Nat]]
    BY <1>1 DEF InstallInv
  <1>3. ASSUME NEW c \in Callbacks, callbacks[c] # Ready
        PROVE  callbacks[c].shop \in Range(exchanges[callbacks[c].state])
    BY <1>3 DEF InstallTyped, Underway
  <1> QED BY <1>2, <1>3 DEF InstallInv, InstallTyped, InstallTypeOK

MerchantRows == [nonce : Nonces, at : Nat]

LoginOK(x, admitted) ==
    \/ x = Waiting
    \/ /\ \/ x \in [step : {"store"}, nonce : Nonces]
          \/ x \in [step : {"commit"}, nonce : Nonces, at : Nat, evict : SUBSET MerchantRows]
       /\ admitted[x.nonce] = <<Merchant>>

\* The logins whose statement has taken its snapshot.
Committing(ls) == {l \in Logins : ls[l].step = "commit"}

\* before[l] are the logins still under way that took their snapshot before l did.
Before(before, under) ==
    /\ before \in [Logins -> SUBSET under]
    /\ \A l \in under : l \notin before[l]
    /\ \A l, m \in under : l # m => l \in before[m] \/ m \in before[l]
    /\ \A l, m \in under : l \in before[m] => before[l] \subseteq before[m]

\* When l commits, it and those before it leave no more rows than this.
Room(kept, evict, first) ==
    Cardinality(kept \ evict) + Cardinality(first) <= SessionCap + Cardinality(Logins) - 2

Capped(kept, ls) ==
    /\ Cardinality(kept) <= SessionCap + Cardinality(Logins) - 1
    /\ \E before : /\ Before(before, Committing(ls))
                   /\ \A l \in Committing(ls) : Room(kept, ls[l].evict, before[l])

SignInTyped ==
    /\ merchantSessions \in SUBSET MerchantRows /\ IsFiniteSet(merchantSessions)
    /\ logins = [l \in Logins |-> logins[l]]
    /\ \A l \in Logins : LoginOK(logins[l], signedIn)
    /\ \A s \in merchantSessions : signedIn[s.nonce] = <<Merchant>>
    /\ Capped(merchantSessions, logins)

LEMMA LoginsFinite ==
    /\ IsFiniteSet(Logins) /\ Cardinality(Logins) \in Nat
    /\ SessionCap \in Nat /\ SessionCap >= 1
  BY SignInAssumption, FS_CardinalityType DEF SignInAssumption

\* At most as many logins are under way as there are, and one that is not among them counts.
LEMMA UnderCount ==
    ASSUME NEW first \in SUBSET Logins, NEW l \in Logins, l \notin first
    PROVE  /\ IsFiniteSet(first) /\ Cardinality(first) \in Nat
           /\ Cardinality(first) <= Cardinality(Logins) - 1
  <1>1. IsFiniteSet(first) /\ Cardinality(first) \in Nat
    BY LoginsFinite, FS_Subset, FS_CardinalityType
  <1>2. /\ IsFiniteSet(first \cup {l})
        /\ Cardinality(first \cup {l}) = Cardinality(first) + 1
    BY <1>1, FS_AddElement
  <1>3. first \cup {l} \subseteq Logins
    OBVIOUS
  <1>4. Cardinality(first \cup {l}) <= Cardinality(Logins)
    BY <1>3, LoginsFinite, FS_Subset
  <1> QED BY <1>1, <1>2, <1>4, LoginsFinite

\* Nothing under way, any snapshot of too few rows.
LEMMA SignInInitTyped ==
    ASSUME SignInInit
    PROVE  SignInTyped
  <1>1. merchantSessions = {} /\ IsFiniteSet(merchantSessions) /\ Cardinality(merchantSessions) = 0
    BY FS_EmptySet DEF SignInInit
  <1>2. Committing(logins) = {}
    BY DEF SignInInit, Committing, Waiting
  <1> DEFINE before == [l \in Logins |-> {}]
  <1>3. Before(before, {})
    BY DEF Before
  <1> HIDE DEF before
  <1>4. Capped(merchantSessions, logins)
    BY <1>1, <1>2, <1>3, LoginsFinite DEF Capped
  <1> QED BY <1>1, <1>4 DEF SignInInit, SignInTyped, LoginOK

\* Fewer rows leave more room; so do fewer logins under way.
LEMMA CappedLess ==
    ASSUME NEW kept, IsFiniteSet(kept), NEW less \in SUBSET kept, NEW ls, Capped(kept, ls)
    PROVE  Capped(less, ls) /\ IsFiniteSet(less)
  <1>1. IsFiniteSet(less) /\ Cardinality(less) <= Cardinality(kept)
        /\ Cardinality(less) \in Nat /\ Cardinality(kept) \in Nat
    BY FS_Subset, FS_CardinalityType
  <1>2. PICK before : /\ Before(before, Committing(ls))
                      /\ \A l \in Committing(ls) : Room(kept, ls[l].evict, before[l])
    BY DEF Capped
  <1>3. ASSUME NEW l \in Committing(ls) PROVE Room(less, ls[l].evict, before[l])
    <2>1. /\ IsFiniteSet(kept \ ls[l].evict) /\ less \ ls[l].evict \subseteq kept \ ls[l].evict
      BY FS_Subset
    <2>2. /\ Cardinality(less \ ls[l].evict) <= Cardinality(kept \ ls[l].evict)
          /\ Cardinality(less \ ls[l].evict) \in Nat /\ Cardinality(kept \ ls[l].evict) \in Nat
      BY <2>1, FS_Subset, FS_CardinalityType
    <2>3. before[l] \in SUBSET Logins
      BY <1>2 DEF Before, Committing
    <2>4. Cardinality(before[l]) \in Nat
      BY <2>3, LoginsFinite, FS_Subset, FS_CardinalityType
    <2> QED BY <1>2, <2>2, <2>4, LoginsFinite DEF Room
  <1> QED BY <1>1, <1>2, <1>3, LoginsFinite DEF Capped

\* A login is no longer under way, and the rows are such that every other one has room.
LEMMA CappedWithout ==
    ASSUME NEW kept, NEW more, NEW ls, NEW ms, NEW m \in Logins, NEW before,
           Before(before, Committing(ls)),
           Committing(ms) = Committing(ls) \ {m},
           \A l \in Committing(ms) : ms[l] = ls[l],
           Cardinality(more) <= SessionCap + Cardinality(Logins) - 1,
           \A l \in Committing(ms) : Room(more, ls[l].evict, before[l] \ {m})
    PROVE  Capped(more, ms)
  <1> DEFINE after == [l \in Logins |-> before[l] \ {m}]
  <1>1. \A l \in Logins : after[l] = before[l] \ {m}
    OBVIOUS
  <1>2. Committing(ms) \subseteq Logins
    BY DEF Committing
  <1>3. after \in [Logins -> SUBSET Committing(ms)]
    BY DEF Before
  <1> HIDE DEF after
  <1>4. Before(after, Committing(ms))
    BY <1>1, <1>2, <1>3 DEF Before
  <1>5. \A l \in Committing(ms) : Room(more, ms[l].evict, after[l])
    BY <1>1, <1>2
  <1> QED BY <1>4, <1>5 DEF Capped

\* A row more.
LEMMA OneMore ==
    ASSUME NEW S, IsFiniteSet(S), NEW x
    PROVE  /\ IsFiniteSet(S \cup {x}) /\ Cardinality(S \cup {x}) \in Nat
           /\ Cardinality(S \cup {x}) <= Cardinality(S) + 1
  <1>1. IsFiniteSet(S \cup {x}) /\ Cardinality(S) \in Nat
    BY FS_AddElement, FS_CardinalityType
  <1>2. CASE x \in S
    <2>1. S \cup {x} = S
      BY <1>2
    <2> QED BY <1>1, <2>1
  <1>3. CASE x \notin S
    BY <1>1, <1>3, FS_AddElement, FS_CardinalityType
  <1> QED BY <1>2, <1>3

\* Removing a login from those before another.
LEMMA FirstLess ==
    ASSUME NEW first \in SUBSET Logins, NEW m \in Logins
    PROVE  /\ IsFiniteSet(first) /\ Cardinality(first) \in Nat
           /\ Cardinality(first \ {m}) \in Nat
           /\ m \in first => Cardinality(first \ {m}) = Cardinality(first) - 1
           /\ m \notin first => first \ {m} = first
           /\ Cardinality(first \ {m}) <= Cardinality(first)
  <1>1. IsFiniteSet(first) /\ IsFiniteSet(first \ {m})
    BY LoginsFinite, FS_Subset
  <1>2. m \in first => Cardinality(first \ {m}) = Cardinality(first) - 1
    BY <1>1, FS_RemoveElement
  <1>3. Cardinality(first \ {m}) <= Cardinality(first)
    BY <1>1, FS_Subset
  <1> QED BY <1>1, <1>2, <1>3, FS_CardinalityType

\* One that fails: the rows are as they were.
LEMMA CappedFails ==
    ASSUME NEW kept, IsFiniteSet(kept), NEW ls, Capped(kept, ls), NEW m \in Logins, NEW ms,
           Committing(ms) = Committing(ls) \ {m},
           \A l \in Committing(ms) : ms[l] = ls[l]
    PROVE  Capped(kept, ms)
  <1>1. PICK before : /\ Before(before, Committing(ls))
                      /\ \A l \in Committing(ls) : Room(kept, ls[l].evict, before[l])
    BY DEF Capped
  <1>2. ASSUME NEW l \in Committing(ms) PROVE Room(kept, ls[l].evict, before[l] \ {m})
    <2>1. l \in Committing(ls) /\ before[l] \in SUBSET Logins
      BY <1>1 DEF Before, Committing
    <2>2. Cardinality(kept \ ls[l].evict) \in Nat
      BY FS_Subset, FS_CardinalityType
    <2>3. /\ Cardinality(before[l] \ {m}) <= Cardinality(before[l])
          /\ Cardinality(before[l] \ {m}) \in Nat /\ Cardinality(before[l]) \in Nat
      BY <2>1, FirstLess
    <2>4. Room(kept, ls[l].evict, before[l])
      BY <1>1, <2>1
    <2> QED BY <2>2, <2>3, <2>4, LoginsFinite DEF Room
  <1> QED BY <1>1, <1>2, CappedWithout DEF Capped

\* One that commits leaves the rows that it did not evict, and its own.
LEMMA CappedCommits ==
    ASSUME NEW kept, IsFiniteSet(kept), NEW ls, Capped(kept, ls),
           NEW m \in Committing(ls), NEW row, NEW ms,
           Committing(ms) = Committing(ls) \ {m},
           \A l \in Committing(ms) : ms[l] = ls[l],
           NEW more, more = (kept \ ls[m].evict) \cup {row}
    PROVE  IsFiniteSet(more) /\ Capped(more, ms)
  <1> DEFINE left == kept \ ls[m].evict
  <1>0. more = left \cup {row}
    OBVIOUS
  <1>1. PICK before : /\ Before(before, Committing(ls))
                      /\ \A l \in Committing(ls) : Room(kept, ls[l].evict, before[l])
    BY DEF Capped
  <1>2. IsFiniteSet(left) /\ Cardinality(left) \in Nat
    BY FS_Subset, FS_CardinalityType
  <1>3. m \in Logins /\ before[m] \in SUBSET Logins
    BY <1>1 DEF Before, Committing
  <1>4. /\ IsFiniteSet(more) /\ Cardinality(more) \in Nat
        /\ Cardinality(more) <= Cardinality(left) + 1
    <2> HIDE DEF left
    <2>1. /\ IsFiniteSet(left \cup {row}) /\ Cardinality(left \cup {row}) \in Nat
          /\ Cardinality(left \cup {row}) <= Cardinality(left) + 1
      BY <1>2, OneMore
    <2> QED BY <1>0, <2>1
  <1>5. Cardinality(left) + Cardinality(before[m]) <= SessionCap + Cardinality(Logins) - 2
        /\ Cardinality(before[m]) \in Nat
    BY <1>1, <1>3, FirstLess DEF Room
  <1>6. Cardinality(more) <= SessionCap + Cardinality(Logins) - 1
    BY <1>2, <1>4, <1>5, LoginsFinite
  <1>7. ASSUME NEW l \in Committing(ms) PROVE Room(more, ls[l].evict, before[l] \ {m})
    <2> DEFINE old == kept \ ls[l].evict
               now == more \ ls[l].evict
               first == before[l] \ {m}
    <2>1. l \in Committing(ls) /\ l # m /\ l \in Logins /\ before[l] \in SUBSET Logins
      BY <1>1 DEF Before, Committing
    <2>2. IsFiniteSet(old) /\ Cardinality(old) \in Nat
      BY FS_Subset, FS_CardinalityType
    <2>3. IsFiniteSet(now) /\ Cardinality(now) \in Nat /\ Cardinality(now) <= Cardinality(more)
      <3>1. now \subseteq more
        OBVIOUS
      <3> HIDE DEF now
      <3> QED BY <1>4, <3>1, FS_Subset, FS_CardinalityType
    <2>4. Cardinality(old) + Cardinality(before[l]) <= SessionCap + Cardinality(Logins) - 2
      BY <1>1, <2>1 DEF Room
    <2>5. CASE m \in before[l]
      <3>1. Cardinality(first) = Cardinality(before[l]) - 1 /\ Cardinality(first) \in Nat
            /\ Cardinality(before[l]) \in Nat
        BY <1>3, <2>1, <2>5, FirstLess
      <3>2. Cardinality(now) <= Cardinality(old) + 1
        <4>1. now \subseteq old \cup {row}
          BY <1>0
        <4>2. IsFiniteSet(old \cup {row}) /\ Cardinality(old \cup {row}) <= Cardinality(old) + 1
          <5> HIDE DEF old
          <5> QED BY <2>2, OneMore
        <4>3. Cardinality(old \cup {row}) \in Nat
          BY <4>2, FS_CardinalityType
        <4> HIDE DEF now, old
        <4>4. Cardinality(now) <= Cardinality(old \cup {row})
          BY <4>1, <4>2, FS_Subset
        <4> QED BY <2>2, <2>3, <4>2, <4>3, <4>4
      <3> HIDE DEF now, old, first
      <3>3. Cardinality(now) + Cardinality(first) <= SessionCap + Cardinality(Logins) - 2
        BY <2>2, <2>3, <2>4, <3>1, <3>2, LoginsFinite
      <3> QED BY <3>3 DEF Room, now, first
    <2>6. CASE m \notin before[l]
      <3>1. l \in before[m] /\ before[l] \subseteq before[m] /\ l \notin before[l]
        BY <1>1, <2>1, <2>6 DEF Before
      <3>2. first = before[l] /\ IsFiniteSet(before[l]) /\ Cardinality(before[l]) \in Nat
        BY <2>1, <1>3, <2>6, FirstLess
      <3>3. Cardinality(before[l] \cup {l}) = Cardinality(before[l]) + 1
            /\ IsFiniteSet(before[l] \cup {l})
        BY <3>1, <3>2, FS_AddElement
      <3>4. before[l] \cup {l} \subseteq before[m] /\ IsFiniteSet(before[m])
        BY <3>1, <1>3, FirstLess
      <3>5. Cardinality(before[l] \cup {l}) <= Cardinality(before[m])
        BY <3>4, FS_Subset
      <3> HIDE DEF now, left, first
      <3>6. Cardinality(now) + Cardinality(first) <= SessionCap + Cardinality(Logins) - 2
        BY <1>2, <1>4, <1>5, <2>3, <3>2, <3>3, <3>5, LoginsFinite
      <3> QED BY <3>6 DEF Room, now, first
    <2> QED BY <2>5, <2>6
  <1>8. Capped(more, ms)
    BY <1>1, <1>3, <1>6, <1>7, CappedWithout
  <1> QED BY <1>4, <1>8

\* One that takes its snapshot comes after all that have.
LEMMA CappedBegins ==
    ASSUME NEW kept, IsFiniteSet(kept), NEW ls, Capped(kept, ls),
           NEW m \in Logins, m \notin Committing(ls), NEW ms,
           Committing(ms) = Committing(ls) \cup {m},
           \A l \in Committing(ls) : ms[l] = ls[l],
           Cardinality(kept \ ms[m].evict) <= SessionCap - 1
    PROVE  Capped(kept, ms)
  <1>1. PICK before : /\ Before(before, Committing(ls))
                      /\ \A l \in Committing(ls) : Room(kept, ls[l].evict, before[l])
    BY DEF Capped
  <1> DEFINE under == Committing(ls)
             after == [l \in Logins |-> IF l = m THEN under ELSE before[l]]
  <1>2. under \in SUBSET Logins /\ Committing(ms) = under \cup {m} /\ m \notin under
    BY DEF Committing
  <1>3. \A l \in Logins : after[l] = IF l = m THEN under ELSE before[l]
    OBVIOUS
  <1>4. after \in [Logins -> SUBSET (under \cup {m})]
    BY <1>1 DEF Before
  <1>5. Before(before, under)
    BY <1>1
  <1> HIDE DEF after, under
  <1>6. Before(after, under \cup {m})
    <2>1. \A l \in under : l # m /\ l \in Logins /\ after[l] = before[l] /\ before[l] \subseteq under
      BY <1>2, <1>3, <1>5 DEF Before
    <2>2. after[m] = under
      BY <1>3
    <2> QED BY <1>2, <1>4, <1>5, <2>1, <2>2 DEF Before
  <1>7. Room(kept, ms[m].evict, after[m])
    <2>1. after[m] = under
      BY <1>3
    <2>2. Cardinality(under) \in Nat /\ Cardinality(under) <= Cardinality(Logins) - 1
      BY <1>2, UnderCount
    <2>3. Cardinality(kept \ ms[m].evict) \in Nat
      BY FS_Subset, FS_CardinalityType
    <2> QED BY <2>1, <2>2, <2>3, LoginsFinite DEF Room
  <1>8. ASSUME NEW l \in under PROVE Room(kept, ms[l].evict, after[l])
    BY <1>1, <1>2, <1>3 DEF under
  <1> QED BY <1>2, <1>6, <1>7, <1>8 DEF Capped

\* What the cap says of the logins: only those that have taken a snapshot matter.
LEMMA CappedOther ==
    ASSUME NEW kept, NEW ls, Capped(kept, ls), NEW ms,
           Committing(ms) = Committing(ls), \A l \in Committing(ls) : ms[l] = ls[l]
    PROVE  Capped(kept, ms)
  BY DEF Capped

LEMMA LoginKept ==
    ASSUME NEW x, NEW f, NEW g, LoginOK(x, f),
           \A n \in Nonces : f[n] = <<Merchant>> => g[n] = <<Merchant>>
    PROVE  LoginOK(x, g)
  BY DEF LoginOK

\* A login of another step.
LEMMA LoginSet ==
    ASSUME SignInTyped, NEW l \in Logins, NEW x, logins' = [logins EXCEPT ![l] = x]
    PROVE  /\ logins' = [k \in Logins |-> logins'[k]]
           /\ \A k \in Logins : logins'[k] = IF k = l THEN x ELSE logins[k]
           /\ x.step # "commit" => Committing(logins') = Committing(logins) \ {l}
           /\ x.step = "commit" => Committing(logins') = Committing(logins) \cup {l}
           /\ \A k \in Committing(logins) \ {l} : logins'[k] = logins[k]
  <1>1. /\ logins' = [k \in Logins |-> logins'[k]]
        /\ \A k \in Logins : logins'[k] = IF k = l THEN x ELSE logins[k]
    BY DEF SignInTyped
  <1>2. x.step # "commit" => Committing(logins') = Committing(logins) \ {l}
    BY <1>1 DEF Committing
  <1>3. x.step = "commit" => Committing(logins') = Committing(logins) \cup {l}
    BY <1>1 DEF Committing
  <1> QED BY <1>1, <1>2, <1>3 DEF Committing

LEMMA SignInTypedStep ==
    ASSUME SignInInv, SignInTyped, SignInNext \/ UNCHANGED signInVars, clock \in Nat
    PROVE  SignInTyped'
  <1>0. /\ merchantSessions \in SUBSET MerchantRows /\ IsFiniteSet(merchantSessions)
        /\ Capped(merchantSessions, logins)
        /\ \A l \in Logins : LoginOK(logins[l], signedIn)
    BY DEF SignInTyped
  <1>1. CASE UNCHANGED <<logins, merchantSessions, signedIn>>
    BY <1>1 DEF SignInTyped, Committing, Capped
  <1>2. ASSUME NEW n \in Nonces, NEW w \in Wallets, NEW l \in Logins, NEW signer \in Wallets,
               Login(l, n, w, signer)
        PROVE  SignInTyped'
    <2>1. CASE InWindow(n) /\ nonces[n].holder = w /\ signer = w /\ w = Merchant
      <3> DEFINE new == [step |-> "store", nonce |-> n]
                 admitted == Append(signedIn[n], w)
      <3>1. /\ logins[l] = Waiting /\ merchantSessions' = merchantSessions
            /\ logins' = [logins EXCEPT ![l] = new]
            /\ signedIn' = [signedIn EXCEPT ![n] = admitted]
        BY <1>2, <2>1 DEF Login
      <3>2. new \in [step : {"store"}, nonce : Nonces] /\ new.nonce = n /\ new.step = "store"
        OBVIOUS
      <3>3. signedIn[n] = <<>>
        BY <2>1 DEF InWindow, SignInInv
      <3>4. admitted = <<Merchant>>
        BY <2>1, <3>3
      <3> HIDE DEF new, admitted
      <3>5. \A m \in Nonces : signedIn'[m] = IF m = n THEN <<Merchant>> ELSE signedIn[m]
        BY <3>1, <3>4 DEF SignInInv
      <3>6. \A m \in Nonces : signedIn[m] = <<Merchant>> => signedIn'[m] = <<Merchant>>
        BY <3>5
      <3>7. LoginOK(new, signedIn')
        BY <3>2, <3>5 DEF LoginOK
      <3>8. /\ logins' = [k \in Logins |-> logins'[k]]
            /\ \A k \in Logins : logins'[k] = IF k = l THEN new ELSE logins[k]
            /\ Committing(logins') = Committing(logins) \ {l}
            /\ \A k \in Committing(logins) \ {l} : logins'[k] = logins[k]
        BY <3>1, <3>2, LoginSet
      <3>9. ASSUME NEW k \in Logins PROVE LoginOK(logins'[k], signedIn')
        <4>1. CASE k = l
          BY <3>7, <3>8, <4>1
        <4>2. CASE k # l
          <5>1. logins'[k] = logins[k] /\ LoginOK(logins[k], signedIn)
            BY <1>0, <3>8, <4>2
          <5>2. LoginOK(logins[k], signedIn')
            BY <3>6, <5>1, LoginKept
          <5> QED BY <5>1, <5>2
        <4> QED BY <4>1, <4>2
      <3>10. Committing(logins') = Committing(logins) /\ l \notin Committing(logins)
        BY <3>1, <3>8 DEF Committing, Waiting
      <3>11. Capped(merchantSessions', logins')
        <4>1. \A k \in Committing(logins) : logins'[k] = logins[k]
          BY <3>8, <3>10
        <4>2. Capped(merchantSessions, logins')
          BY <1>0, <3>10, <4>1, CappedOther
        <4> QED BY <3>1, <4>2
      <3>12. \A s \in merchantSessions' : signedIn'[s.nonce] = <<Merchant>>
        BY <3>1, <3>6 DEF SignInTyped, MerchantRows
      <3> QED BY <1>0, <3>1, <3>8, <3>9, <3>11, <3>12 DEF SignInTyped
    <2>2. CASE UNCHANGED <<logins, signedIn>>
      <3>1. merchantSessions' = merchantSessions
        BY <1>2 DEF Login
      <3> QED BY <1>1, <2>2, <3>1
    <2> QED BY <1>2, <2>1, <2>2 DEF Login
  <1>3. ASSUME NEW l \in Logins, BeginSession(l)
        PROVE  SignInTyped'
    <2>1. /\ logins[l].step = "store" /\ UNCHANGED <<merchantSessions, signedIn>>
          /\ \E old \in Evictions : logins' = [logins EXCEPT
                ![l] = [step |-> "commit", nonce |-> logins[l].nonce, at |-> clock, evict |-> old]]
      BY <1>3 DEF BeginSession
    <2>2. PICK old \in Evictions : logins' = [logins EXCEPT
              ![l] = [step |-> "commit", nonce |-> logins[l].nonce, at |-> clock, evict |-> old]]
      BY <2>1
    <2> DEFINE new == [step |-> "commit", nonce |-> logins[l].nonce, at |-> clock, evict |-> old]
    <2>3. logins[l].nonce \in Nonces /\ signedIn[logins[l].nonce] = <<Merchant>>
      BY <1>0, <2>1 DEF LoginOK, Waiting
    <2>4. old \in SUBSET MerchantRows /\ Cardinality(merchantSessions \ old) <= SessionCap - 1
      BY <1>0 DEF Evictions, Kept
    <2>5. /\ new \in [step : {"commit"}, nonce : Nonces, at : Nat, evict : SUBSET MerchantRows]
          /\ new.step = "commit" /\ new.nonce = logins[l].nonce /\ new.evict = old
      BY <2>3, <2>4
    <2>6. logins' = [logins EXCEPT ![l] = new]
      BY <2>2
    <2> HIDE DEF new
    <2>7. LoginOK(new, signedIn)
      BY <2>3, <2>5 DEF LoginOK
    <2>8. /\ logins' = [k \in Logins |-> logins'[k]]
          /\ logins'[l] = new /\ l \notin Committing(logins)
          /\ \A k \in Logins : logins'[k] = IF k = l THEN new ELSE logins[k]
          /\ Committing(logins') = Committing(logins) \cup {l}
          /\ \A k \in Committing(logins) : logins'[k] = logins[k]
      BY <2>1, <2>5, <2>6, LoginSet DEF Committing
    <2>9. Capped(merchantSessions, logins')
      BY <1>0, <2>4, <2>5, <2>8, CappedBegins
    <2> QED BY <1>0, <2>1, <2>7, <2>8, <2>9 DEF SignInTyped
  <1>4. ASSUME NEW l \in Logins, CommitSession(l)
        PROVE  SignInTyped'
    <2> DEFINE row == [nonce |-> logins[l].nonce, at |-> logins[l].at]
    <2>1. /\ logins[l].step = "commit" /\ signedIn' = signedIn
          /\ merchantSessions' = (merchantSessions \ logins[l].evict) \cup {row}
          /\ logins' = [logins EXCEPT ![l] = Waiting]
      BY <1>4 DEF CommitSession
    <2>2. logins[l] \in [step : {"commit"}, nonce : Nonces, at : Nat, evict : SUBSET MerchantRows]
          /\ signedIn[logins[l].nonce] = <<Merchant>>
      BY <1>0, <2>1 DEF LoginOK, Waiting
    <2>3. row \in MerchantRows /\ row.nonce = logins[l].nonce
      BY <2>2 DEF MerchantRows
    <2> HIDE DEF row
    <2>4. /\ logins' = [k \in Logins |-> logins'[k]]
          /\ l \in Committing(logins)
          /\ \A k \in Logins : logins'[k] = IF k = l THEN Waiting ELSE logins[k]
          /\ Committing(logins') = Committing(logins) \ {l}
          /\ \A k \in Committing(logins') : logins'[k] = logins[k]
      BY <2>1, LoginSet DEF Committing, Waiting
    <2>5. IsFiniteSet(merchantSessions') /\ Capped(merchantSessions', logins')
      BY <1>0, <2>1, <2>4, CappedCommits
    <2>6. \A k \in Logins : LoginOK(logins'[k], signedIn')
      BY <1>0, <2>1, <2>4 DEF LoginOK
    <2>7. /\ merchantSessions' \in SUBSET MerchantRows
          /\ \A s \in merchantSessions' : signedIn'[s.nonce] = <<Merchant>>
      BY <1>0, <2>1, <2>2, <2>3 DEF SignInTyped
    <2> QED BY <2>4, <2>5, <2>6, <2>7 DEF SignInTyped
  <1>5. ASSUME NEW l \in Logins, LoginFails(l)
        PROVE  SignInTyped'
    <2>1. /\ UNCHANGED <<merchantSessions, signedIn>>
          /\ logins' = [logins EXCEPT ![l] = Waiting]
      BY <1>5 DEF LoginFails
    <2>2. /\ logins' = [k \in Logins |-> logins'[k]]
          /\ \A k \in Logins : logins'[k] = IF k = l THEN Waiting ELSE logins[k]
          /\ Committing(logins') = Committing(logins) \ {l}
          /\ \A k \in Committing(logins') : logins'[k] = logins[k]
      BY <2>1, LoginSet DEF Committing, Waiting
    <2>3. Capped(merchantSessions, logins')
      BY <1>0, <2>2, CappedFails
    <2>4. \A k \in Logins : LoginOK(logins'[k], signedIn')
      BY <1>0, <2>1, <2>2 DEF LoginOK
    <2> QED BY <1>0, <2>1, <2>2, <2>3, <2>4 DEF SignInTyped
  <1>6. CASE EndSession
    <2>1. UNCHANGED <<logins, signedIn>> /\ merchantSessions' \in SUBSET merchantSessions
      BY <1>6 DEF EndSession
    <2>2. Capped(merchantSessions', logins) /\ IsFiniteSet(merchantSessions')
      BY <1>0, <2>1, CappedLess
    <2>3. Capped(merchantSessions', logins')
      BY <2>1, <2>2
    <2> QED BY <1>0, <2>1, <2>2, <2>3 DEF SignInTyped
  <1>7. CASE UNCHANGED signInVars
    BY <1>1, <1>7 DEF signInVars
  <1>8. ASSUME NEW n \in Nonces, NEW w \in Wallets, Challenge(w, n)
        PROVE  SignInTyped'
    BY <1>1, <1>8 DEF Challenge
  <1> QED BY <1>2, <1>3, <1>4, <1>5, <1>6, <1>7, <1>8 DEF SignInNext

LEMMA SignInImplied ==
    ASSUME SignInInv, SignInTyped
    PROVE  SignInTypeOK
  <1>1. \A n \in Nonces : nonces[n] \in {NoNonce} \cup [holder : Wallets, at : Nat]
    BY DEF SignInInv
  <1>2. nonces \in [Nonces -> {NoNonce} \cup [holder : Wallets, at : Nat]]
    BY <1>1 DEF SignInInv
  <1>3. ASSUME NEW l \in Logins, logins[l] # Waiting
        PROVE  signedIn[logins[l].nonce] = <<Merchant>>
    BY <1>3 DEF SignInTyped, LoginOK
  <1> QED BY <1>2, <1>3 DEF SignInInv, SignInTyped, SignInTypeOK, MerchantRows, Capped

-----------------------------------------------------------------------------
(* Merchant records.                                                       *)

CallNames == Boarders \X (1..MaxCalls)

\* The call that a secret is named by made the record.
MadeIn(call, cs) == call \in CallNames /\ cs[call[1]][call[2]] = "made"

\* What a profile request changes: fields of the schema, with values of their types.
IsGiven(given) ==
    /\ DOMAIN given \subseteq {"url", "active"}
    /\ "url" \in DOMAIN given => given.url \in Urls \cup {Blank}
    /\ "active" \in DOMAIN given => given.active \in BOOLEAN

ReadEdits ==
    [step : {"read"}, by : {"me", "admin"}, draft : Urls \cup {Blank}, copy : Records]

EditOK(x, cs) ==
    \/ x = Still
    \/ x \in ReadEdits /\ MadeIn(x.copy.secret, cs)
    \/ /\ x.step = "saved"
       /\ IsGiven(x.given)

\* A request of the settings page is about its URL.
SavesUrl(x) ==
    /\ x # Still
    /\ x.step = "read" => x.draft # Blank
    /\ x.step = "saved" => "url" \in DOMAIN x.given

\* A page: its calls are numbered as they are made, and the secret it shows is that of one
\* that made the record.
BoarderOK(b, x, cs) ==
    /\ x \in [step : {"form", "sent", "error", "done"}, call : 0..MaxCalls,
              secret : CallNames \cup {Blank}]
    /\ x.step = "sent" => x.call # 0
    /\ x.step = "done" => MadeIn(x.secret, cs)
    /\ \A n \in 1..MaxCalls : n > x.call => cs[b][n] = "none"

CallsOK(cs) == cs = [b \in Boarders |-> [n \in 1..MaxCalls |-> cs[b][n]]]

FormOK(x, es) ==
    /\ x \in [polled : Urls \cup {Blank}, draft : Urls \cup {Blank}, dirty : BOOLEAN,
              saving : SUBSET Edits]
    /\ \A e \in x.saving : SavesUrl(es[e])

\* Every copy of the record, those that requests have read included, has the secret of a call
\* that made it.
ProfilesInv ==
    /\ day \in Days
    /\ profile \in Records \cup {Blank}
    /\ profile # Blank => MadeIn(profile.secret, calls)
    /\ \A call : MadeIn(call, calls) => profile # Blank
    /\ CallsOK(calls)
    /\ boarders = [b \in Boarders |-> boarders[b]]
    /\ \A b \in Boarders : BoarderOK(b, boarders[b], calls)
    /\ edits = [e \in Edits |-> edits[e]]
    /\ \A e \in Edits : EditOK(edits[e], calls) /\ (edits[e] # Still => profile # Blank)
    /\ FormOK(form, edits)

LEMMA ProfilesInitInv ==
    ASSUME NEW d \in Days, ProfilesInit(d)
    PROVE  ProfilesInv
  <1>1. /\ day \in Days /\ profile = Blank /\ CallsOK(calls)
        /\ boarders = [b \in Boarders |-> boarders[b]]
        /\ edits = [e \in Edits |-> edits[e]] /\ \A e \in Edits : edits[e] = Still
    BY DEF ProfilesInit, CallsOK
  <1>2. \A b \in Boarders : BoarderOK(b, boarders[b], calls)
    BY ProfilesAssumption DEF ProfilesInit, BoarderOK, ProfilesAssumption
  <1>3. FormOK(form, edits)
    BY DEF ProfilesInit, FormOK
  <1>4. \A call : ~MadeIn(call, calls)
    BY DEF ProfilesInit, MadeIn, CallNames
  <1> QED BY <1>1, <1>2, <1>3, <1>4 DEF ProfilesInv, EditOK

CallBecomes(b, n, x) == calls' = [calls EXCEPT ![b][n] = x]

\* A call is made of one that was not.
LEMMA CallSet ==
    ASSUME ProfilesInv, NEW b \in Boarders, NEW n \in 1..MaxCalls, NEW x,
           CallBecomes(b, n, x)
    PROVE  /\ CallsOK(calls')
           /\ \A c \in Boarders, m \in 1..MaxCalls :
                 calls'[c][m] = IF c = b /\ m = n THEN x ELSE calls[c][m]
           /\ calls[b][n] # "made" =>
                 \A call : MadeIn(call, calls) => MadeIn(call, calls')
           /\ x # "made" => \A call : MadeIn(call, calls') => MadeIn(call, calls)
  <1>1. /\ calls = [c \in Boarders |-> calls[c]]
        /\ \A c \in Boarders : calls[c] = [m \in 1..MaxCalls |-> calls[c][m]]
    BY DEF ProfilesInv, CallsOK
  <1>2. \A c \in Boarders : calls'[c] = IF c = b THEN [calls[b] EXCEPT ![n] = x] ELSE calls[c]
    BY <1>1 DEF CallBecomes
  <1>3. \A c \in Boarders, m \in 1..MaxCalls :
           calls'[c][m] = IF c = b /\ m = n THEN x ELSE calls[c][m]
    BY <1>1, <1>2
  <1>4. CallsOK(calls')
    <2>1. \A c \in Boarders : calls'[c] = [m \in 1..MaxCalls |-> calls'[c][m]]
      BY <1>1, <1>2
    <2>2. calls' = [c \in Boarders |-> calls'[c]]
      BY <1>1 DEF CallBecomes
    <2> QED BY <2>1, <2>2 DEF CallsOK
  <1>5. ASSUME calls[b][n] # "made", NEW call, MadeIn(call, calls)
        PROVE  MadeIn(call, calls')
    BY <1>3, <1>5 DEF MadeIn, CallNames
  <1>6. ASSUME x # "made", NEW call, MadeIn(call, calls')
        PROVE  MadeIn(call, calls)
    BY <1>3, <1>6 DEF MadeIn, CallNames
  <1> QED BY <1>3, <1>4, <1>5, <1>6

\* Copies and secrets stay good as calls go on.
LEMMA EditKept ==
    ASSUME NEW x, NEW cs, NEW ds, \A call : MadeIn(call, cs) => MadeIn(call, ds), EditOK(x, cs)
    PROVE  EditOK(x, ds)
  BY DEF EditOK

LEMMA BoarderSet ==
    ASSUME ProfilesInv, NEW b \in Boarders, NEW x, boarders' = [boarders EXCEPT ![b] = x]
    PROVE  /\ boarders' = [c \in Boarders |-> boarders'[c]]
           /\ \A c \in Boarders : boarders'[c] = IF c = b THEN x ELSE boarders[c]
  BY DEF ProfilesInv

LEMMA EditSet ==
    ASSUME ProfilesInv, NEW e \in Edits, NEW x, edits' = [edits EXCEPT ![e] = x]
    PROVE  /\ edits' = [d \in Edits |-> edits'[d]]
           /\ \A d \in Edits : edits'[d] = IF d = e THEN x ELSE edits[d]
  BY DEF ProfilesInv

\* The page makes a call, or hears of it.
LEMMA RegisterStep ==
    ASSUME ProfilesInv, NEW b \in Boarders, Register(b)
    PROVE  ProfilesInv'
  <1> DEFINE n == boarders[b].call + 1
             x == [[boarders[b] EXCEPT !.step = "sent"] EXCEPT !.call = n]
  <1>1. BoarderOK(b, boarders[b], calls) /\ day \in Days
    BY DEF ProfilesInv
  <1>2. /\ boarders[b] \in [step : {"form", "sent", "error", "done"}, call : 0..MaxCalls,
                            secret : CallNames \cup {Blank}]
        /\ calls[b][n] = "none" /\ n \in 1..MaxCalls /\ n \in 0..MaxCalls
        /\ \A m \in 1..MaxCalls : m > n => calls[b][m] = "none"
    BY <1>1, ProfilesAssumption DEF BoarderOK, Register, ProfilesAssumption
  <1>3. /\ boarders' = [boarders EXCEPT ![b] = x]
        /\ CallBecomes(b, n, "arrived")
        /\ UNCHANGED <<day, profile, edits, form>>
    BY DEF Register, ProfilesInv, CallBecomes
  <1> HIDE DEF n
  <1>4. /\ x \in [step : {"form", "sent", "error", "done"}, call : 0..MaxCalls,
                  secret : CallNames \cup {Blank}]
        /\ x.step = "sent" /\ x.call = n
    BY <1>2
  <1> HIDE DEF x
  <1>5. /\ CallsOK(calls')
        /\ \A c \in Boarders, m \in 1..MaxCalls :
              calls'[c][m] = IF c = b /\ m = n THEN "arrived" ELSE calls[c][m]
        /\ \A call : MadeIn(call, calls) <=> MadeIn(call, calls')
    BY <1>2, <1>3, CallSet
  <1>6. /\ boarders' = [c \in Boarders |-> boarders'[c]]
        /\ \A c \in Boarders : boarders'[c] = IF c = b THEN x ELSE boarders[c]
    BY <1>3, BoarderSet
  <1>7. BoarderOK(b, x, calls')
    BY <1>1, <1>2, <1>4, <1>5 DEF BoarderOK
  <1>8. \A c \in Boarders : c # b => BoarderOK(c, boarders[c], calls')
    BY <1>5 DEF ProfilesInv, BoarderOK
  <1>9. \A e \in Edits : EditOK(edits[e], calls')
    BY <1>5, EditKept DEF ProfilesInv
  <1> QED BY <1>3, <1>5, <1>6, <1>7, <1>8, <1>9 DEF ProfilesInv

LEMMA HeardStep ==
    ASSUME ProfilesInv, NEW b \in Boarders, Registered(b) \/ Unregistered(b)
    PROVE  ProfilesInv'
  <1> DEFINE n == boarders[b].call
             done == [[boarders[b] EXCEPT !.step = "done"] EXCEPT !.secret = <<b, n>>]
             error == [boarders[b] EXCEPT !.step = "error"]
  <1>1. BoarderOK(b, boarders[b], calls)
    BY DEF ProfilesInv
  <1>2. /\ boarders[b] \in [step : {"form", "sent", "error", "done"}, call : 0..MaxCalls,
                            secret : CallNames \cup {Blank}]
        /\ n \in 1..MaxCalls
        /\ UNCHANGED <<day, profile, calls, edits, form>>
    BY <1>1, ProfilesAssumption DEF BoarderOK, Registered, Unregistered, ProfilesAssumption
  <1>3. CASE calls[b][n] = "made" /\ boarders' = [boarders EXCEPT ![b] = done]
    <2>1. /\ done \in [step : {"form", "sent", "error", "done"}, call : 0..MaxCalls,
                       secret : CallNames \cup {Blank}]
          /\ done.step = "done" /\ done.call = n /\ done.secret = <<b, n>>
      BY <1>2 DEF CallNames
    <2>2. MadeIn(<<b, n>>, calls)
      BY <1>2, <1>3 DEF MadeIn, CallNames
    <2>3. BoarderOK(b, done, calls)
      BY <1>1, <2>1, <2>2 DEF BoarderOK
    <2> HIDE DEF done
    <2> QED BY <1>2, <1>3, <2>3, BoarderSet DEF ProfilesInv
  <1>4. CASE boarders' = [boarders EXCEPT ![b] = error]
    <2>1. /\ error \in [step : {"form", "sent", "error", "done"}, call : 0..MaxCalls,
                        secret : CallNames \cup {Blank}]
          /\ error.step = "error" /\ error.call = n
      BY <1>2
    <2>2. BoarderOK(b, error, calls)
      BY <1>1, <2>1 DEF BoarderOK
    <2> HIDE DEF error
    <2> QED BY <1>2, <1>4, <2>2, BoarderSet DEF ProfilesInv
  <1>5. \/ calls[b][n] = "made" /\ boarders' = [boarders EXCEPT ![b] = done]
        \/ boarders' = [boarders EXCEPT ![b] = error]
    BY DEF Registered, Unregistered, ProfilesInv
  <1> QED BY <1>3, <1>4, <1>5

\* The backend serves a call.
LEMMA ServeCallStep ==
    ASSUME ProfilesInv, NEW b \in Boarders, NEW n \in 1..MaxCalls, LookUp(b, n) \/ Create(b, n)
    PROVE  ProfilesInv'
  <1>1. PICK x \in {"taken", "free", "made"} : CallBecomes(b, n, x)
    BY DEF LookUp, Create, CallBecomes
  <1>2. calls[b][n] \in {"arrived", "free"} /\ UNCHANGED <<day, boarders, edits, form>>
    BY DEF LookUp, Create
  <1>3. /\ CallsOK(calls')
        /\ \A c \in Boarders, m \in 1..MaxCalls :
              calls'[c][m] = IF c = b /\ m = n THEN x ELSE calls[c][m]
        /\ \A call : MadeIn(call, calls) => MadeIn(call, calls')
        /\ x # "made" => \A call : MadeIn(call, calls') => MadeIn(call, calls)
    BY <1>1, <1>2, CallSet
  <1>4. ASSUME NEW c \in Boarders
        PROVE  BoarderOK(c, boarders[c], calls')
    <2>1. BoarderOK(c, boarders[c], calls)
      BY DEF ProfilesInv
    <2> QED BY <1>2, <1>3, <2>1 DEF BoarderOK
  <1>5. \A e \in Edits : EditOK(edits[e], calls')
    BY <1>3, EditKept DEF ProfilesInv
  <1>6. CASE LookUp(b, n)
    <2>1. profile' = profile
      BY <1>6 DEF LookUp
    <2>2. calls'[b][n] # "made"
      <3>1. PICK y \in {"taken", "free"} : CallBecomes(b, n, y)
        BY <1>6 DEF LookUp, CallBecomes
      <3> QED BY <3>1, CallSet
    <2>3. x # "made"
      BY <1>3, <2>2
    <2> QED BY <1>2, <1>3, <1>4, <1>5, <2>1, <2>3 DEF ProfilesInv
  <1>7. CASE Create(b, n)
    <2>1. PICK url \in Urls \cup {Blank} :
             profile' = [secret |-> <<b, n>>, url |-> url, active |-> TRUE]
      BY <1>7 DEF Create, NewProfile
    <2>2. <<b, n>> \in CallNames
      BY DEF CallNames
    <2>3. profile' \in Records /\ profile'.secret = <<b, n>>
      BY <2>1, <2>2 DEF Records, CallNames
    <2>4. calls'[b][n] = "made"
      <3>1. CallBecomes(b, n, "made")
        BY <1>7 DEF Create, CallBecomes
      <3> QED BY <3>1, CallSet
    <2>5. MadeIn(<<b, n>>, calls')
      BY <2>2, <2>4 DEF MadeIn
    <2>6. profile' # Blank
      BY <2>3, ProfilesAssumption DEF ProfilesAssumption
    <2> QED BY <1>2, <1>3, <1>4, <1>5, <2>3, <2>5, <2>6 DEF ProfilesInv
  <1> QED BY <1>6, <1>7

\* A profile request starts, of another client or of the settings page.
LEMMA StartsStep ==
    ASSUME ProfilesInv, NEW e \in Edits, NEW by \in {"me", "admin"},
           NEW draft \in Urls \cup {Blank}, Starts(e, by, draft)
    PROVE  /\ \A d \in Edits : EditOK(edits'[d], calls')
           /\ edits' = [d \in Edits |-> edits'[d]]
           /\ profile' # Blank /\ UNCHANGED <<day, profile, boarders, calls>>
           /\ \A d \in Edits : d # e => edits'[d] = edits[d]
           /\ edits[e] = Still
           /\ edits'[e].step = "read" /\ edits'[e] # Still /\ edits'[e].draft = draft
  <1> DEFINE x == [step |-> "read", by |-> by, draft |-> draft, copy |-> profile]
  <1>1. /\ profile \in Records /\ MadeIn(profile.secret, calls)
        /\ edits[e] = Still /\ edits' = [edits EXCEPT ![e] = x]
        /\ UNCHANGED <<day, profile, boarders, calls>> /\ profile # Blank
    BY DEF Starts, Exists, ProfilesInv
  <1>2. x \in ReadEdits /\ x.copy = profile /\ x.step = "read" /\ x.draft = draft /\ x # Still
    BY <1>1 DEF ReadEdits, Still
  <1>3. EditOK(x, calls)
    BY <1>1, <1>2 DEF EditOK
  <1> HIDE DEF x
  <1>4. /\ edits' = [d \in Edits |-> edits'[d]]
        /\ \A d \in Edits : edits'[d] = IF d = e THEN x ELSE edits[d]
    BY <1>1, EditSet
  <1>5. \A d \in Edits : EditOK(edits[d], calls)
    BY DEF ProfilesInv
  <1>6. \A d \in Edits : EditOK(edits'[d], calls)
    BY <1>3, <1>4, <1>5
  <1> QED BY <1>1, <1>2, <1>4, <1>6

LEMMA EditStep ==
    ASSUME ProfilesInv, NEW e \in Edits,
           (\E by \in {"me", "admin"} : Edit(e, by)) \/ SaveUrl(e)
    PROVE  ProfilesInv'
  <1>1. FormOK(form, edits)
    BY DEF ProfilesInv
  <1>2. CASE \E by \in {"me", "admin"} : Edit(e, by)
    <2>1. PICK by \in {"me", "admin"} : Starts(e, by, Blank) /\ UNCHANGED form
      BY <1>2 DEF Edit
    <2>2. /\ \A d \in Edits : EditOK(edits'[d], calls')
          /\ edits' = [d \in Edits |-> edits'[d]]
          /\ profile' # Blank /\ UNCHANGED <<day, profile, boarders, calls>>
          /\ \A d \in Edits : d # e => edits'[d] = edits[d]
          /\ edits[e] = Still
      BY <2>1, StartsStep
    <2>3. FormOK(form, edits')
      BY <1>1, <2>2 DEF FormOK, SavesUrl
    <2> QED BY <2>1, <2>2, <2>3 DEF ProfilesInv
  <1>3. CASE SaveUrl(e)
    <2>1. PICK by \in {"me", "admin"} : Starts(e, by, form.draft)
      BY <1>3 DEF SaveUrl
    <2>2. /\ form.draft \in Urls \cup {Blank} /\ form.draft # Blank
          /\ form' = [form EXCEPT !.saving = {e}]
      BY <1>1, <1>3 DEF FormOK, SaveUrl
    <2>3. /\ \A d \in Edits : EditOK(edits'[d], calls')
          /\ edits' = [d \in Edits |-> edits'[d]]
          /\ profile' # Blank /\ UNCHANGED <<day, profile, boarders, calls>>
          /\ edits'[e].step = "read" /\ edits'[e] # Still /\ edits'[e].draft = form.draft
      BY <2>1, <2>2, StartsStep
    <2>4. SavesUrl(edits'[e])
      BY <2>2, <2>3 DEF SavesUrl
    <2>5. /\ form' \in [polled : Urls \cup {Blank}, draft : Urls \cup {Blank}, dirty : BOOLEAN,
                        saving : SUBSET Edits]
          /\ form'.saving = {e}
      BY <1>1, <2>2 DEF FormOK
    <2>6. FormOK(form', edits')
      BY <2>4, <2>5 DEF FormOK
    <2> QED BY <2>3, <2>6 DEF ProfilesInv
  <1> QED BY <1>2, <1>3

\* The record is the one that was read, but for what was given.
LEMMA GivenOK ==
    ASSUME NEW body, NEW by, IsGiven(body)
    PROVE  /\ IsGiven(Given(by, body))
           /\ "active" \in DOMAIN Given(by, body) => by # "me"
           /\ "url" \in DOMAIN body => "url" \in DOMAIN Given(by, body)
  <1> DEFINE S == DOMAIN body \ (IF by = "me" THEN {"active"} ELSE {})
  <1>1. Given(by, body) = [f \in S |-> body[f]]
    BY DEF Given, Restrict
  <1>2. S \subseteq DOMAIN body /\ ("active" \in S => by # "me")
        /\ ("url" \in DOMAIN body => "url" \in S)
    OBVIOUS
  <1> HIDE DEF S
  <1>3. DOMAIN Given(by, body) = S /\ \A f \in S : Given(by, body)[f] = body[f]
    BY <1>1
  <1> QED BY <1>2, <1>3 DEF IsGiven

LEMMA PatchedOK ==
    ASSUME NEW copy \in Records, NEW given, IsGiven(given)
    PROVE  /\ Patched(copy, given) \in Records
           /\ Patched(copy, given).secret = copy.secret
           /\ \A f \in {"secret", "url", "active"} :
                 Patched(copy, given)[f] = IF f \in DOMAIN given THEN given[f] ELSE copy[f]
  <1> DEFINE p == Patched(copy, given)
  <1>1. /\ DOMAIN copy = {"secret", "url", "active"}
        /\ copy.secret \in CallNames /\ copy.url \in Urls \cup {Blank} /\ copy.active \in BOOLEAN
    BY DEF Records, CallNames
  <1>2. p = [f \in {"secret", "url", "active"} |-> IF f \in DOMAIN given THEN given[f] ELSE copy[f]]
    BY <1>1 DEF Patched
  <1>3. "secret" \notin DOMAIN given
    BY DEF IsGiven
  <1>4. /\ p.secret = copy.secret /\ p.url \in Urls \cup {Blank} /\ p.active \in BOOLEAN
        /\ DOMAIN p = {"secret", "url", "active"}
    BY <1>1, <1>2, <1>3 DEF IsGiven
  <1>5. p = [secret |-> p.secret, url |-> p.url, active |-> p.active]
    BY <1>2, <1>4
  <1> HIDE DEF p
  <1>6. p \in Records
    BY <1>1, <1>4, <1>5 DEF Records, CallNames
  <1> QED BY <1>2, <1>4, <1>6 DEF p

\* A request changes what it was given, of the record as it is or as it was read.
KeptBy(e) ==
    LET given == edits'[e].given
    IN  \A f \in DOMAIN profile : profile'[f] # profile[f] =>
           \/ f \in DOMAIN given /\ profile'[f] = given[f]
              /\ (f = "active" => edits[e].by = "admin")
           \/ f \notin DOMAIN given /\ edits[e].copy[f] # profile[f]

LEMMA SaveStep ==
    ASSUME ProfilesInv, NEW e \in Edits, Save(e)
    PROVE  ProfilesInv' /\ KeptBy(e) /\ \A d \in Edits : d # e => edits'[d] = edits[d]
  <1>1. /\ edits[e].step = "read" /\ EditOK(edits[e], calls) /\ profile \in Records
        /\ UNCHANGED <<day, boarders, calls, form>>
    BY DEF Save, ProfilesInv, Still
  <1>2. edits[e] \in ReadEdits /\ MadeIn(edits[e].copy.secret, calls)
    BY <1>1 DEF EditOK, Still
  <1>3. PICK body \in Bodies(e) :
           /\ profile' = Patched(edits[e].copy, Given(edits[e].by, body))
           /\ edits' = [edits EXCEPT ![e] = [step |-> "saved", by |-> edits[e].by,
                                             given |-> Given(edits[e].by, body)]]
    BY DEF Save
  <1>4. IsGiven(body) /\ (edits[e].draft # Blank => "url" \in DOMAIN body)
    <2>1. CASE edits[e].draft = Blank
      BY <1>3, <2>1, ProfilesAssumption DEF Bodies, IsGiven, ProfilesAssumption
    <2>2. CASE edits[e].draft # Blank
      <3>1. body = [url |-> edits[e].draft]
        BY <1>3, <2>2 DEF Bodies
      <3>2. DOMAIN body = {"url"} /\ body.url \in Urls \cup {Blank}
        BY <1>2, <3>1 DEF ReadEdits
      <3> QED BY <3>2 DEF IsGiven
    <2> QED BY <2>1, <2>2
  <1> DEFINE given == Given(edits[e].by, body)
             x == [step |-> "saved", by |-> edits[e].by, given |-> given]
  <1>5. /\ IsGiven(given)
        /\ "active" \in DOMAIN given => edits[e].by # "me"
        /\ edits[e].draft # Blank => "url" \in DOMAIN given
    BY <1>4, GivenOK
  <1>6. profile' = Patched(edits[e].copy, given) /\ edits' = [edits EXCEPT ![e] = x]
    BY <1>3
  <1>7. edits[e].copy \in Records /\ edits[e].by \in {"me", "admin"}
    BY <1>2 DEF ReadEdits
  <1> HIDE DEF given
  <1>8. x.step = "saved" /\ x.given = given /\ x # Still
    BY DEF Still
  <1> HIDE DEF x
  <1>9. /\ profile' \in Records
        /\ profile'.secret = edits[e].copy.secret
        /\ \A f \in {"secret", "url", "active"} :
              profile'[f] = IF f \in DOMAIN given THEN given[f] ELSE edits[e].copy[f]
    BY <1>5, <1>6, <1>7, PatchedOK
  <1>10. /\ edits' = [d \in Edits |-> edits'[d]]
         /\ \A d \in Edits : edits'[d] = IF d = e THEN x ELSE edits[d]
    BY <1>6, EditSet
  <1>11. KeptBy(e)
    <2>1. DOMAIN profile = {"secret", "url", "active"}
      BY <1>1 DEF Records
    <2> QED BY <1>5, <1>7, <1>8, <1>9, <1>10, <2>1 DEF KeptBy
  <1>12. profile' # Blank
    BY <1>9, ProfilesAssumption DEF ProfilesAssumption
  <1>13. \A d \in Edits : EditOK(edits'[d], calls)
    <2>1. EditOK(x, calls)
      BY <1>5, <1>8 DEF EditOK
    <2>2. \A d \in Edits : EditOK(edits[d], calls)
      BY DEF ProfilesInv
    <2> QED BY <1>10, <2>1, <2>2
  <1>14. FormOK(form, edits')
    <2>1. FormOK(form, edits)
      BY DEF ProfilesInv
    <2>2. e \in form.saving => SavesUrl(edits[e])
      BY <2>1 DEF FormOK
    <2>3. e \in form.saving => SavesUrl(x)
      BY <1>1, <1>5, <1>8, <2>2 DEF SavesUrl
    <2> QED BY <1>10, <2>1, <2>3 DEF FormOK
  <1>15. MadeIn(profile'.secret, calls)
    BY <1>2, <1>9
  <1> QED BY <1>1, <1>9, <1>10, <1>11, <1>12, <1>13, <1>14, <1>15 DEF ProfilesInv

\* A request ends, and with it the saving of the settings page.
LEMMA EndsStep ==
    ASSUME ProfilesInv, NEW e \in Edits, Unsaved(e) \/ Saved(e)
    PROVE  /\ ProfilesInv'
           /\ \A d \in Edits : edits'[d] \in {edits[d], Still}
  <1>1. edits' = [edits EXCEPT ![e] = Still] /\ UNCHANGED <<day, profile, boarders, calls>>
    BY DEF Unsaved, Saved
  <1>2. /\ edits' = [d \in Edits |-> edits'[d]]
        /\ \A d \in Edits : edits'[d] = IF d = e THEN Still ELSE edits[d]
    BY <1>1, EditSet
  <1>3. FormOK(form, edits)
    BY DEF ProfilesInv
  <1>4. FormOK(form', edits')
    <2>1. CASE Unsaved(e)
      <3>1. form' = [form EXCEPT !.saving = @ \ {e}]
        BY <2>1 DEF Unsaved
      <3>2. /\ form' \in [polled : Urls \cup {Blank}, draft : Urls \cup {Blank}, dirty : BOOLEAN,
                          saving : SUBSET Edits]
            /\ form'.saving = form.saving \ {e}
        BY <1>3, <3>1 DEF FormOK
      <3> QED BY <1>2, <1>3, <3>2 DEF FormOK
    <2>2. CASE Saved(e) /\ e \notin form.saving
      <3>1. form' = form
        BY <2>2 DEF Saved
      <3> QED BY <1>2, <1>3, <2>2, <3>1 DEF FormOK
    <2>3. CASE Saved(e) /\ e \in form.saving
      <3>1. SavesUrl(edits[e]) /\ edits[e].step = "saved" /\ EditOK(edits[e], calls)
        BY <1>3, <2>3 DEF FormOK, Saved, ProfilesInv
      <3>2. edits[e].given.url \in Urls \cup {Blank}
        BY <3>1 DEF SavesUrl, EditOK, IsGiven, ReadEdits, Still
      <3>3. \/ form' = [[[form EXCEPT !.draft = edits[e].given.url] EXCEPT !.dirty = FALSE]
                           EXCEPT !.saving = {}]
            \/ form' = [form EXCEPT !.saving = {}]
        BY <1>3, <2>3 DEF Saved, FormOK
      <3>4. form \in [polled : Urls \cup {Blank}, draft : Urls \cup {Blank}, dirty : BOOLEAN,
                      saving : SUBSET Edits]
        BY <1>3 DEF FormOK
      <3>5. ASSUME NEW url \in Urls \cup {Blank}, NEW b \in BOOLEAN,
                   form' = [[[form EXCEPT !.draft = url] EXCEPT !.dirty = b]
                              EXCEPT !.saving = {}]
            PROVE  FormOK(form', edits')
        BY <3>4, <3>5 DEF FormOK
      <3>6. CASE form' = [form EXCEPT !.saving = {}]
        BY <3>4, <3>6 DEF FormOK
      <3> QED BY <3>2, <3>3, <3>5, <3>6
    <2> QED BY <2>1, <2>2, <2>3
  <1>5. \A d \in Edits : EditOK(edits'[d], calls) /\ (edits'[d] # Still => profile # Blank)
    BY <1>2 DEF ProfilesInv, EditOK
  <1> QED BY <1>1, <1>2, <1>4, <1>5 DEF ProfilesInv

\* The settings page reads, shows, and is typed in.
LEMMA FormStep ==
    ASSUME ProfilesInv, PollProfile \/ ShowUrl \/ TypeUrl
    PROVE  ProfilesInv' /\ edits' = edits
  <1>1. UNCHANGED <<day, profile, boarders, calls, edits>>
    BY DEF PollProfile, ShowUrl, TypeUrl
  <1>2. FormOK(form, edits) /\ (profile # Blank => profile.url \in Urls \cup {Blank})
    BY DEF ProfilesInv, Records
  <1>3. CASE PollProfile
    <2>1. form' = [form EXCEPT !.polled = profile.url] /\ profile.url \in Urls \cup {Blank}
      BY <1>2, <1>3 DEF PollProfile, Exists
    <2>2. FormOK(form', edits)
      BY <1>2, <2>1 DEF FormOK
    <2> QED BY <1>1, <2>2 DEF ProfilesInv
  <1>4. CASE ShowUrl
    <2>1. form' = [form EXCEPT !.draft = form.polled]
      BY <1>4 DEF ShowUrl
    <2>2. FormOK(form', edits)
      BY <1>2, <2>1 DEF FormOK
    <2> QED BY <1>1, <2>2 DEF ProfilesInv
  <1>5. CASE TypeUrl
    <2>1. PICK url \in Urls \cup {Blank} :
             form' = [form EXCEPT !.draft = url, !.dirty = TRUE]
      BY <1>5 DEF TypeUrl
    <2>2. ASSUME NEW b \in BOOLEAN, form' = [[form EXCEPT !.draft = url] EXCEPT !.dirty = b]
          PROVE  FormOK(form', edits)
      BY <1>2, <2>2 DEF FormOK
    <2>3. form' = [[form EXCEPT !.draft = url] EXCEPT !.dirty = TRUE]
      BY <1>2, <2>1 DEF FormOK
    <2>4. FormOK(form', edits)
      BY <2>2, <2>3
    <2> QED BY <1>1, <2>4 DEF ProfilesInv
  <1> QED BY <1>1, <1>3, <1>4, <1>5

LEMMA ProfilesStep ==
    ASSUME ProfilesInv, [ProfilesNext]_profileVars
    PROVE  /\ ProfilesInv'
           /\ \A e \in Edits : edits[e].step = "read" /\ edits'[e].step = "saved" => KeptBy(e)
  <1>1. CASE UNCHANGED profileVars
    BY <1>1 DEF profileVars, ProfilesInv
  <1>2. ASSUME NEW b \in Boarders, Register(b) \/ Registered(b) \/ Unregistered(b)
        PROVE  ProfilesInv' /\ edits' = edits
    BY <1>2, RegisterStep, HeardStep DEF Register, Registered, Unregistered
  <1>3. ASSUME NEW b \in Boarders, NEW n \in 1..MaxCalls, LookUp(b, n) \/ Create(b, n)
        PROVE  ProfilesInv' /\ edits' = edits
    BY <1>3, ServeCallStep DEF LookUp, Create
  <1>4. ASSUME NEW e \in Edits, (\E by \in {"me", "admin"} : Edit(e, by)) \/ SaveUrl(e)
        PROVE  /\ ProfilesInv'
               /\ \A d \in Edits : edits'[d].step = "saved" => edits[d].step = "saved"
    <2>1. PICK by, draft : Starts(e, by, draft)
      BY <1>4 DEF Edit, SaveUrl
    <2>2. \A d \in Edits : edits'[d].step = "saved" => edits[d].step = "saved"
      BY <2>1 DEF Starts, ProfilesInv
    <2> QED BY <1>4, <2>2, EditStep
  <1>5. ASSUME NEW e \in Edits, Save(e)
        PROVE  /\ ProfilesInv'
               /\ \A d \in Edits : edits[d].step = "read" /\ edits'[d].step = "saved" => KeptBy(d)
    BY <1>5, SaveStep
  <1>6. ASSUME NEW e \in Edits, Unsaved(e) \/ Saved(e)
        PROVE  /\ ProfilesInv'
               /\ \A d \in Edits : edits'[d].step = "saved" => edits[d].step = "saved"
    BY <1>6, EndsStep DEF Still
  <1>7. CASE PollProfile \/ ShowUrl \/ TypeUrl
    BY <1>7, FormStep
  <1> QED BY <1>1, <1>2, <1>3, <1>4, <1>5, <1>6, <1>7 DEF ProfilesNext, profileVars

\* Where one call made the record, a secret that was shown is that call's, and so is the
\* record's.
LEMMA SecretKept ==
    ASSUME ProfilesInv, NEW b \in Boarders, boarders[b].step = "done", Cardinality(Made) = 1
    PROVE  profile.secret = boarders[b].secret
  <1>1. IsFiniteSet(Made)
    <2>1. IsFiniteSet(1..MaxCalls)
      BY FS_Interval, ProfilesAssumption DEF ProfilesAssumption
    <2>2. IsFiniteSet(CallNames)
      BY <2>1, FS_Product, ProfilesAssumption DEF CallNames, ProfilesAssumption
    <2>3. Made \in SUBSET CallNames
      BY DEF Made, CallNames
    <2> QED BY <2>2, <2>3, FS_Subset
  <1>2. PICK call : Made = {call}
    BY <1>1, FS_Singleton
  <1>3. MadeIn(boarders[b].secret, calls)
    BY DEF ProfilesInv, BoarderOK
  <1>4. profile # Blank
    BY <1>3 DEF ProfilesInv
  <1>5. boarders[b].secret \in Made /\ profile.secret \in Made
    BY <1>3, <1>4 DEF ProfilesInv, MadeIn, Made, CallNames
  <1> QED BY <1>2, <1>5

\* A page shows a secret once it is done, and not before.
SecretsShown == \A b \in Boarders : boarders[b].step = "done" <=> boarders[b].secret # Blank

LEMMA SecretsInit ==
    ASSUME NEW d \in Days, ProfilesInit(d)
    PROVE  SecretsShown
  BY DEF ProfilesInit, SecretsShown

LEMMA SecretsStep ==
    ASSUME ProfilesInv, SecretsShown, [ProfilesNext]_profileVars
    PROVE  SecretsShown'
  <1>1. CASE UNCHANGED boarders
    BY <1>1 DEF SecretsShown
  <1>2. /\ boarders = [b \in Boarders |-> boarders[b]]
        /\ \A b \in Boarders :
              boarders[b] \in [step : {"form", "sent", "error", "done"}, call : 0..MaxCalls,
                               secret : CallNames \cup {Blank}]
              /\ (boarders[b].step = "sent" => boarders[b].call \in 1..MaxCalls)
    BY ProfilesAssumption DEF ProfilesInv, BoarderOK, ProfilesAssumption
  <1>3. ASSUME NEW b \in Boarders, NEW x, boarders' = [boarders EXCEPT ![b] = x],
               x.step = "done" <=> x.secret # Blank
        PROVE  SecretsShown'
    <2>1. \A c \in Boarders : boarders'[c] = IF c = b THEN x ELSE boarders[c]
      BY <1>2, <1>3
    <2> QED BY <1>3, <2>1 DEF SecretsShown
  <1>4. ASSUME NEW b \in Boarders, Register(b) PROVE SecretsShown'
    <2> DEFINE x == [[boarders[b] EXCEPT !.step = "sent"] EXCEPT !.call = boarders[b].call + 1]
    <2>1. boarders[b].secret = Blank
      BY <1>4 DEF Register, SecretsShown
    <2>2. boarders' = [boarders EXCEPT ![b] = x]
      BY <1>2, <1>4 DEF Register
    <2>3. x.step = "sent" /\ x.secret = Blank
      BY <1>2, <2>1
    <2> HIDE DEF x
    <2> QED BY <1>3, <2>2, <2>3
  <1>5. ASSUME NEW b \in Boarders, Registered(b) PROVE SecretsShown'
    <2>1. boarders[b].step = "sent" /\ boarders[b].call \in 1..MaxCalls /\ boarders[b].secret = Blank
      BY <1>2, <1>5 DEF Registered, SecretsShown
    <2>2. CASE boarders' = [boarders EXCEPT ![b].step = "done", ![b].secret = <<b, boarders[b].call>>]
      <3> DEFINE secret == <<b, boarders[b].call>>
                 x == [[boarders[b] EXCEPT !.step = "done"] EXCEPT !.secret = secret]
      <3>1. secret # Blank
        BY <2>1, ProfilesAssumption DEF ProfilesAssumption
      <3> HIDE DEF secret
      <3>2. x.step = "done" /\ x.secret = secret
        BY <1>2
      <3>3. boarders' = [boarders EXCEPT ![b] = x]
        BY <1>2, <2>2 DEF secret
      <3> HIDE DEF x
      <3> QED BY <1>3, <3>1, <3>2, <3>3
    <2>3. CASE boarders' = [boarders EXCEPT ![b].step = "error"]
      <3> DEFINE x == [boarders[b] EXCEPT !.step = "error"]
      <3>1. boarders' = [boarders EXCEPT ![b] = x] /\ x.step = "error" /\ x.secret = Blank
        BY <1>2, <2>1, <2>3
      <3> HIDE DEF x
      <3> QED BY <1>3, <3>1
    <2> QED BY <1>5, <2>2, <2>3 DEF Registered
  <1>6. ASSUME NEW b \in Boarders, Unregistered(b) PROVE SecretsShown'
    <2> DEFINE x == [boarders[b] EXCEPT !.step = "error"]
    <2>1. boarders[b].secret = Blank
      BY <1>6 DEF Unregistered, SecretsShown
    <2>2. boarders' = [boarders EXCEPT ![b] = x] /\ x.step = "error" /\ x.secret = Blank
      BY <1>2, <1>6, <2>1 DEF Unregistered
    <2> HIDE DEF x
    <2> QED BY <1>3, <2>2
  <1>7. ASSUME NEW b \in Boarders, NEW n \in 1..MaxCalls, LookUp(b, n) \/ Create(b, n)
        PROVE  UNCHANGED boarders
    BY <1>7 DEF LookUp, Create
  <1>8. ASSUME NEW e \in Edits,
               \/ \E by \in {"me", "admin"} : Edit(e, by)
               \/ Save(e) \/ Unsaved(e) \/ Saved(e) \/ SaveUrl(e)
        PROVE  UNCHANGED boarders
    BY <1>8 DEF Edit, Starts, Save, Unsaved, Saved, SaveUrl
  <1>9. ASSUME PollProfile \/ ShowUrl \/ TypeUrl PROVE UNCHANGED boarders
    <2>1. CASE PollProfile
      BY <2>1, Zenon DEF PollProfile
    <2>2. CASE ShowUrl
      BY <2>2, Zenon DEF ShowUrl
    <2>3. CASE TypeUrl
      BY <2>3, Zenon DEF TypeUrl
    <2> QED BY <1>9, <2>1, <2>2, <2>3
  <1>10. ASSUME UNCHANGED profileVars PROVE UNCHANGED boarders
    BY <1>10 DEF profileVars
  <1> QED BY <1>1, <1>4, <1>5, <1>6, <1>7, <1>8, <1>9, <1>10 DEF ProfilesNext

LEMMA ProfilesImplied ==
    ASSUME ProfilesInv, SecretsShown
    PROVE  ProfilesTypeOK
  <1>1. /\ {form.polled, form.draft} \subseteq Urls \cup {Blank}
        /\ form.saving \subseteq {e \in Edits : edits[e] # Still}
    BY DEF ProfilesInv, FormOK, SavesUrl
  <1> QED BY <1>1 DEF ProfilesInv, SecretsShown, ProfilesTypeOK

-----------------------------------------------------------------------------
(* The wallet extensions of a page.                                        *)

\* The identifiers the list can have an extension under.
IdsOf(e) ==
    {InjectedId(e, brand) : brand \in Brands(e)}
    \cup {<<"eip6963", e, r>> : r \in Nat}
    \cup {id \in {BlipId} : Kit[e].flags = "blip" /\ Kit[e].slots # {}}

EntriesOf(e) == [of : {e}, brand : Brands(e) \cup {Kit[e].announces}, id : IdsOf(e)]

Entries == UNION {EntriesOf(e) : e \in ToSet(injected)}

Objects == ToSet(injected) \X {"injected", "announced"}

Founds == [list : Seq(Entries), objects : SUBSET Objects]

\* No extension is listed twice under one brand, and who announces itself is on the list.
FoundOK(found) ==
    /\ found \in Founds
    /\ \A i, j \in DOMAIN found.list : i # j /\ found.list[i].of = found.list[j].of =>
          \/ found.list[i].brand # found.list[j].brand
          \/ found.list[i].brand = "generic"
    /\ \A e \in ToSet(injected) : Kit[e].announces # "no" =>
          \E i \in DOMAIN found.list : found.list[i].of = e /\ found.list[i].brand = Kit[e].announces

\* While the announcements are gone through, the first n extensions are: one entry for each of
\* them that announces itself, whose object is dealt with.
FirstOK(n, found) ==
    /\ found \in Founds
    /\ \A i, j \in DOMAIN found.list : found.list[i].of = found.list[j].of => i = j
    /\ \A i \in DOMAIN found.list : Announced(found.list[i].of) \in found.objects
    /\ \A object \in found.objects :
          \E i \in DOMAIN found.list : /\ object = Announced(found.list[i].of)
                                       /\ found.list[i].brand = Kit[found.list[i].of].announces
    /\ \A k \in 1 .. n : Kit[injected[k]].announces # "no" =>
          \E i \in DOMAIN found.list :
              found.list[i].of = injected[k] /\ found.list[i].brand = Kit[injected[k]].announces

\* The identifiers of two extensions that are not twins differ.
LEMMA IdsApart ==
    ASSUME NEW d \in browser, NEW e \in browser, NEW id, id \in IdsOf(d), id \in IdsOf(e)
    PROVE  d = e \/ HasTwin(e)
  <1>1. ASSUME NEW x \in browser, NEW y \in browser, NEW b \in Brands(x),
               id = InjectedId(x, b), id \in IdsOf(y), x # y
        PROVE  Brands(x) \cap Brands(y) # {} /\ (\/ Kit[x].class = Kit[y].class
                                                 \/ {Kit[x].flags, Kit[y].flags} = {"blip"})
    <2>1. CASE \E c \in Brands(y) : id = InjectedId(y, c)
      BY <1>1, <2>1 DEF InjectedId
    <2>2. CASE \E r \in Nat : id = <<"eip6963", y, r>>
      BY <1>1, <2>2 DEF InjectedId
    <2>3. CASE id = BlipId /\ Kit[y].flags = "blip" /\ Kit[y].slots # {}
      <3>1. b = "blip"
        BY <1>1, <2>3 DEF InjectedId, BlipId
      <3>2. Kit[x].flags = "blip"
        BY <1>1, <3>1 DEF Brands, Identify
      <3>3. "blip" \in Brands(y)
        BY <2>3 DEF Brands, Identify
      <3> QED BY <1>1, <2>3, <3>1, <3>2, <3>3
    <2> QED BY <1>1, <2>1, <2>2, <2>3 DEF IdsOf
  <1>2. CASE \E b \in Brands(d) : id = InjectedId(d, b)
    BY <1>1, <1>2 DEF HasTwin
  <1>3. CASE \E b \in Brands(e) : id = InjectedId(e, b)
    <2>1. PICK b \in Brands(e) : id = InjectedId(e, b)
      BY <1>3
    <2>2. d # e => Brands(e) \cap Brands(d) # {} /\ (\/ Kit[e].class = Kit[d].class
                                                 \/ {Kit[e].flags, Kit[d].flags} = {"blip"})
      BY <1>1, <2>1
    <2> QED BY <2>2 DEF HasTwin
  <1>4. CASE /\ id = BlipId /\ Kit[d].flags = "blip" /\ Kit[d].slots # {}
             /\ Kit[e].flags = "blip" /\ Kit[e].slots # {}
    <2>1. "blip" \in Brands(d) /\ "blip" \in Brands(e)
      BY <1>4 DEF Brands, Identify
    <2> QED BY <1>4, <2>1 DEF HasTwin
  <1>5. CASE \E r, s \in Nat : id = <<"eip6963", d, r>> /\ id = <<"eip6963", e, s>>
    BY <1>5
  <1>6. CASE \E r \in Nat : BlipId = <<"eip6963", d, r>> \/ BlipId = <<"eip6963", e, r>>
    BY <1>6 DEF BlipId
  <1> QED BY <1>2, <1>3, <1>4, <1>5, <1>6 DEF IdsOf

\* A channel is gone through one extension after the other.
LEMMA GoneThrough ==
    ASSUME NEW found, NEW channel, Len(injected) \in Nat
    PROVE  \E f : /\ f = [n \in 0 .. Len(injected) |->
                             IF n = 0 THEN found ELSE Enter(f[n - 1], injected[n], channel)]
                  /\ GoThrough(found, channel) = f[Len(injected)]
  <1> DEFINE Goes(f, m) == f = [n \in 0 .. m |->
                 IF n = 0 THEN found ELSE Enter(f[n - 1], injected[n], channel)]
             stuck == {m \in Nat : ~ \E f : Goes(f, m)}
  <1>1. stuck = {}
    <2> SUFFICES ASSUME stuck # {} PROVE FALSE
      OBVIOUS
    <2>1. PICK m \in stuck : \A k \in stuck : m <= k
      <3>1. stuck \in SUBSET Nat
        OBVIOUS
      <3> HIDE DEF stuck
      <3> QED BY <3>1, NatMin
    <2>2. m # 0
      <3> DEFINE f == [n \in 0 .. 0 |-> found]
      <3>1. Goes(f, 0)
        OBVIOUS
      <3> HIDE DEF Goes
      <3> QED BY <3>1
    <2>3. PICK f : Goes(f, m - 1)
      <3> HIDE DEF Goes
      <3> QED BY <2>1, <2>2
    <2> DEFINE g == [n \in 0 .. m |-> IF n = m THEN Enter(f[m - 1], injected[m], channel)
                                      ELSE f[n]]
    <2>4. \A n \in 0 .. m - 1 : g[n] = f[n]
      OBVIOUS
    <2>5. ASSUME NEW n \in 0 .. m
          PROVE  g[n] = IF n = 0 THEN found ELSE Enter(g[n - 1], injected[n], channel)
      <3>1. CASE n = m
        BY <2>2, <2>4, <3>1
      <3>2. CASE n # m
        <4>1. g[n] = f[n] /\ (n # 0 => g[n - 1] = f[n - 1])
          BY <2>4, <3>2
        <4>2. f[n] = IF n = 0 THEN found ELSE Enter(f[n - 1], injected[n], channel)
          BY <2>3, <3>2
        <4> QED BY <4>1, <4>2
      <3> QED BY <3>1, <3>2
    <2>6. Goes(g, m)
      BY <2>5
    <2> HIDE DEF Goes, g
    <2> QED BY <2>1, <2>6
  <1>2. \E f : Goes(f, Len(injected))
    <2> HIDE DEF Goes
    <2> QED BY <1>1
  <1> DEFINE after == CHOOSE f : Goes(f, Len(injected))
  <1>3. Goes(after, Len(injected))
    <2> HIDE DEF Goes
    <2> QED BY <1>2
  <1>4. GoThrough(found, channel) = after[Len(injected)]
    BY DEF GoThrough
  <1> HIDE DEF after
  <1> QED BY <1>3, <1>4

\* So what holds at the start of a channel, and again after each extension, holds at its end.
LEMMA GoThroughKeeps ==
    ASSUME NEW found, NEW channel, NEW Fine, Len(injected) \in Nat,
           <<0, found>> \in Fine,
           \A n \in 1 .. Len(injected) : \A x :
               <<n - 1, x>> \in Fine => <<n, Enter(x, injected[n], channel)>> \in Fine
    PROVE  <<Len(injected), GoThrough(found, channel)>> \in Fine
  <1>1. PICK f : /\ f = [n \in 0 .. Len(injected) |->
                             IF n = 0 THEN found ELSE Enter(f[n - 1], injected[n], channel)]
                 /\ GoThrough(found, channel) = f[Len(injected)]
    BY GoneThrough
  <1> DEFINE wrong == {n \in 0 .. Len(injected) : <<n, f[n]>> \notin Fine}
  <1>2. wrong = {}
    <2> SUFFICES ASSUME wrong # {} PROVE FALSE
      OBVIOUS
    <2>1. PICK n \in wrong : \A k \in wrong : n <= k
      <3>1. wrong \in SUBSET Nat
        OBVIOUS
      <3> HIDE DEF wrong
      <3> QED BY <3>1, NatMin
    <2>2. n # 0 /\ f[n] = Enter(f[n - 1], injected[n], channel)
      BY <1>1
    <2>3. <<n - 1, f[n - 1]>> \in Fine
      BY <2>1, <2>2
    <2>4. <<n, Enter(f[n - 1], injected[n], channel)>> \in Fine
      BY <2>2, <2>3
    <2> QED BY <2>2, <2>4
  <1>3. \A n \in 0 .. Len(injected) : <<n, f[n]>> \in Fine
    BY <1>2
  <1> QED BY <1>1, <1>3

\* The list with an entry more.
LEMMA ListedEntries ==
    ASSUME NEW found \in Founds, NEW entry \in Entries, NEW object \in Objects, NEW more,
           more = Listed(found, object, entry.brand, entry.id), object[1] = entry.of
    PROVE  /\ more \in Founds
           /\ more.objects = found.objects \cup {object}
           /\ Len(found.list) \in Nat
           /\ DOMAIN found.list = 1 .. Len(found.list)
           /\ DOMAIN more.list = 1 .. Len(found.list) + 1
           /\ \A i \in DOMAIN found.list : more.list[i] = found.list[i]
           /\ more.list[Len(found.list) + 1] = entry
  <1>1. found.list \in Seq(Entries) /\ found.objects \in SUBSET Objects
    BY DEF Founds
  <1>2. entry = [of |-> entry.of, brand |-> entry.brand, id |-> entry.id]
    BY DEF Entries, EntriesOf
  <1>3. more = [list |-> Append(found.list, entry), objects |-> found.objects \cup {object}]
    BY <1>2 DEF Listed
  <1>4. /\ Append(found.list, entry) \in Seq(Entries)
        /\ found.objects \cup {object} \in SUBSET Objects
        /\ Len(found.list) \in Nat
        /\ DOMAIN found.list = 1 .. Len(found.list)
        /\ DOMAIN Append(found.list, entry) = 1 .. Len(found.list) + 1
        /\ \A i \in DOMAIN found.list : Append(found.list, entry)[i] = found.list[i]
        /\ Append(found.list, entry)[Len(found.list) + 1] = entry
    BY <1>1
  <1> DEFINE list == Append(found.list, entry)
             objects == found.objects \cup {object}
  <1>5. list \in Seq(Entries) /\ objects \in SUBSET Objects
    BY <1>4
  <1>6. more.list = list /\ more.objects = objects /\ more = [list |-> list, objects |-> objects]
    BY <1>3
  <1> HIDE DEF list, objects
  <1>7. [list |-> list, objects |-> objects] \in Founds
    BY <1>5 DEF Founds
  <1>8. more \in Founds
    BY <1>6, <1>7
  <1> QED BY <1>4, <1>6, <1>8 DEF list, objects

\* The entry of who announces itself.
LEMMA AnnouncedEntry ==
    ASSUME NEW found \in Founds, NEW e \in ToSet(injected), NEW entry \in Entries, NEW more,
           entry.of = e, more = Listed(found, Announced(e), entry.brand, entry.id)
    PROVE  /\ more \in Founds
           /\ more.objects = found.objects \cup {Announced(e)}
           /\ Len(found.list) \in Nat
           /\ DOMAIN found.list = 1 .. Len(found.list)
           /\ DOMAIN more.list = 1 .. Len(found.list) + 1
           /\ \A i \in DOMAIN found.list : more.list[i] = found.list[i]
           /\ more.list[Len(found.list) + 1] = entry
  <1> DEFINE object == Announced(e)
  <1>1. object \in Objects /\ object[1] = entry.of
    BY DEF Announced, Injected, Objects
  <1>2. more = Listed(found, object, entry.brand, entry.id)
    OBVIOUS
  <1> HIDE DEF object
  <1>3. /\ more \in Founds
        /\ more.objects = found.objects \cup {object}
        /\ Len(found.list) \in Nat
        /\ DOMAIN found.list = 1 .. Len(found.list)
        /\ DOMAIN more.list = 1 .. Len(found.list) + 1
        /\ \A i \in DOMAIN found.list : more.list[i] = found.list[i]
        /\ more.list[Len(found.list) + 1] = entry
    BY <1>1, <1>2, ListedEntries
  <1> QED BY <1>3 DEF object

\* Who announces itself is listed once, and once its object is dealt with, that is done.
LEMMA AnnouncedKept ==
    ASSUME NEW n \in 1 .. Len(injected), NEW found, FirstOK(n - 1, found), Len(injected) \in Nat,
           DOMAIN injected = 1 .. Len(injected), reloads \in Nat
    PROVE  FirstOK(n, Enter(found, injected[n], "announcements"))
  <1> DEFINE e == injected[n]
             id == <<"eip6963", e, reloads>>
             entry == [of |-> e, brand |-> Kit[e].announces, id |-> id]
             more == Listed(found, Announced(e), Kit[e].announces, id)
  <1>0. e \in ToSet(injected)
    BY DEF ToSet
  <1>1. Announced(e) \in {<<e, "injected">>, <<e, "announced">>} /\ Announced(e)[1] = e
    BY DEF Announced, Injected
  <1>2. found \in Founds
    BY DEF FirstOK
  <1>3. ASSUME NEW k \in 1 .. n, k # n PROVE k \in 1 .. n - 1
    BY <1>3
  <1>4. CASE e \notin Met("announcements")
    <2>1. Enter(found, e, "announcements") = found /\ Kit[e].announces = "no"
      BY <1>0, <1>4 DEF Enter, Met
    <2> QED BY <1>3, <2>1 DEF FirstOK
  <1>5. CASE e \in Met("announcements") /\ Announced(e) \in found.objects
    <2>1. Enter(found, e, "announcements") = found
      BY <1>5 DEF Enter, AddAnnounced
    <2>2. PICK i \in DOMAIN found.list :
             Announced(e) = Announced(found.list[i].of)
             /\ found.list[i].brand = Kit[found.list[i].of].announces
      BY <1>5 DEF FirstOK
    <2>3. found.list[i].of = e
      BY <1>1, <2>2 DEF Announced, Injected
    <2> QED BY <1>3, <2>1, <2>2, <2>3 DEF FirstOK
  <1>6. CASE e \in Met("announcements") /\ Announced(e) \notin found.objects
    <2>1. Enter(found, e, "announcements") = more
      BY <1>6 DEF Enter, AddAnnounced
    <2>2. /\ more \in Founds
          /\ more.objects = found.objects \cup {Announced(e)}
          /\ Len(found.list) \in Nat
          /\ DOMAIN found.list = 1 .. Len(found.list)
          /\ DOMAIN more.list = 1 .. Len(found.list) + 1
          /\ \A i \in DOMAIN found.list : more.list[i] = found.list[i]
          /\ more.list[Len(found.list) + 1]
                = entry
      <3>1. more = Listed(found, Announced(e), entry.brand, entry.id)
        OBVIOUS
      <3>2. entry \in Entries /\ entry.of = e
        BY <1>0 DEF Entries, EntriesOf, IdsOf
      <3> HIDE DEF entry, more, e
      <3> QED BY <1>0, <1>2, <3>1, <3>2, AnnouncedEntry
    <2> HIDE DEF more
    <2>3. \A i \in DOMAIN more.list : i \in DOMAIN found.list \/ i = Len(found.list) + 1
      BY <2>2
    <2>4. \A i \in DOMAIN found.list : i \in DOMAIN more.list
      BY <2>2
    <2>5. \A i \in DOMAIN found.list : found.list[i].of # e
      BY <1>6 DEF FirstOK
    <2>6. \A i, j \in DOMAIN more.list : more.list[i].of = more.list[j].of => i = j
      <3> SUFFICES ASSUME NEW i \in DOMAIN more.list, NEW j \in DOMAIN more.list,
                          more.list[i].of = more.list[j].of
                   PROVE  i = j
        OBVIOUS
      <3>1. CASE i \in DOMAIN found.list /\ j \in DOMAIN found.list
        BY <2>2, <3>1 DEF FirstOK
      <3>2. CASE i = Len(found.list) + 1 /\ j \in DOMAIN found.list
        BY <2>2, <2>5, <3>2
      <3>3. CASE j = Len(found.list) + 1 /\ i \in DOMAIN found.list
        BY <2>2, <2>5, <3>3
      <3> QED BY <2>3, <3>1, <3>2, <3>3
    <2>7. \A i \in DOMAIN more.list : Announced(more.list[i].of) \in more.objects
      BY <2>2, <2>3 DEF FirstOK
    <2>8. Len(found.list) + 1 \in DOMAIN more.list
      BY <2>2
    <2>9. ASSUME NEW object \in more.objects
          PROVE  \E i \in DOMAIN more.list : /\ object = Announced(more.list[i].of)
                                             /\ more.list[i].brand = Kit[more.list[i].of].announces
      <3>1. CASE object \in found.objects
        <4>1. PICK i \in DOMAIN found.list : /\ object = Announced(found.list[i].of)
                                    /\ found.list[i].brand = Kit[found.list[i].of].announces
          BY <3>1 DEF FirstOK
        <4>2. i \in DOMAIN more.list /\ more.list[i] = found.list[i]
          BY <2>2, <2>4, <4>1
        <4> QED BY <4>1, <4>2
      <3>2. CASE object = Announced(e)
        <4> DEFINE last == more.list[Len(found.list) + 1]
        <4>1. last.of = e /\ last.brand = Kit[e].announces
          BY <2>2
        <4> QED BY <2>8, <3>2, <4>1
      <3> QED BY <2>2, <3>1, <3>2
    <2>10. ASSUME NEW k \in 1 .. n, Kit[injected[k]].announces # "no"
           PROVE  \E i \in DOMAIN more.list :
                     more.list[i].of = injected[k] /\ more.list[i].brand = Kit[injected[k]].announces
      <3>1. CASE k = n
        BY <2>2, <2>8, <3>1
      <3>2. CASE k # n
        <4>1. PICK i \in DOMAIN found.list : found.list[i].of = injected[k]
                                       /\ found.list[i].brand = Kit[injected[k]].announces
          BY <1>3, <2>10, <3>2 DEF FirstOK
        <4>2. i \in DOMAIN more.list /\ more.list[i] = found.list[i]
          BY <2>2, <2>4, <4>1
        <4> QED BY <4>1, <4>2
      <3> QED BY <3>1, <3>2
    <2> QED BY <2>1, <2>2, <2>6, <2>7, <2>9, <2>10 DEF FirstOK
  <1> QED BY <1>4, <1>5, <1>6

\* A list that gets an entry of a brand it does not have is in order still.
LEMMA ListedKept ==
    ASSUME NEW found, FoundOK(found), NEW e \in ToSet(injected), NEW brand \in Brands(e),
           ~ Seen(found, brand), NEW id \in IdsOf(e)
    PROVE  FoundOK(Listed(found, Injected(e), brand, id))
  <1> DEFINE more == Listed(found, Injected(e), brand, id)
  <1>1. found \in Founds
    BY DEF FoundOK
  <1>2. /\ more \in Founds
        /\ Len(found.list) \in Nat
        /\ DOMAIN found.list = 1 .. Len(found.list)
        /\ DOMAIN more.list = 1 .. Len(found.list) + 1
        /\ \A i \in DOMAIN found.list : more.list[i] = found.list[i]
        /\ more.list[Len(found.list) + 1] = [of |-> e, brand |-> brand, id |-> id]
    <2> DEFINE entry == [of |-> e, brand |-> brand, id |-> id]
    <2>1. entry \in Entries /\ Injected(e) \in Objects /\ Injected(e)[1] = e
      BY DEF Entries, EntriesOf, Objects, Injected
    <2>2. more = Listed(found, Injected(e), entry.brand, entry.id) /\ entry.of = e
      OBVIOUS
    <2> HIDE DEF entry, more
    <2>3. /\ more \in Founds
          /\ Len(found.list) \in Nat
          /\ DOMAIN found.list = 1 .. Len(found.list)
          /\ DOMAIN more.list = 1 .. Len(found.list) + 1
          /\ \A i \in DOMAIN found.list : more.list[i] = found.list[i]
          /\ more.list[Len(found.list) + 1] = entry
      BY <1>1, <2>1, <2>2, ListedEntries
    <2> QED BY <2>3 DEF entry
  <1> HIDE DEF more
  <1>3. \A i \in DOMAIN more.list : i \in DOMAIN found.list \/ i = Len(found.list) + 1
    BY <1>2
  <1>4. \A i \in DOMAIN found.list : i \in DOMAIN more.list
    BY <1>2
  <1>5. \A i \in DOMAIN found.list : found.list[i].brand # brand \/ brand = "generic"
    BY DEF Seen
  <1>6. \A i, j \in DOMAIN more.list : i # j /\ more.list[i].of = more.list[j].of =>
          \/ more.list[i].brand # more.list[j].brand
          \/ more.list[i].brand = "generic"
    <2> SUFFICES ASSUME NEW i \in DOMAIN more.list, NEW j \in DOMAIN more.list,
                        i # j, more.list[i].of = more.list[j].of
                 PROVE  more.list[i].brand # more.list[j].brand \/ more.list[i].brand = "generic"
      OBVIOUS
    <2>1. CASE i \in DOMAIN found.list /\ j \in DOMAIN found.list
      <3>1. more.list[i] = found.list[i] /\ more.list[j] = found.list[j]
        BY <1>2, <2>1
      <3> QED BY <2>1, <3>1 DEF FoundOK
    <2>2. CASE i \in DOMAIN found.list /\ j = Len(found.list) + 1
      <3>1. more.list[i] = found.list[i] /\ more.list[j].brand = brand
        BY <1>2, <2>2
      <3> QED BY <1>5, <2>2, <3>1
    <2>3. CASE j \in DOMAIN found.list /\ i = Len(found.list) + 1
      <3>1. more.list[j] = found.list[j] /\ more.list[i].brand = brand
        BY <1>2, <2>3
      <3> QED BY <1>5, <2>3, <3>1
    <2> QED BY <1>3, <2>1, <2>2, <2>3
  <1>7. ASSUME NEW d \in ToSet(injected), Kit[d].announces # "no"
        PROVE  \E i \in DOMAIN more.list : more.list[i].of = d /\ more.list[i].brand = Kit[d].announces
    BY <1>2, <1>4, <1>7 DEF FoundOK
  <1>8. FoundOK(more)
    BY <1>2, <1>6, <1>7 DEF FoundOK
  <1> QED BY <1>8 DEF more

\* So it is when an extension is met in a slot, ...
LEMMA PushKept ==
    ASSUME NEW found, FoundOK(found), NEW e \in ToSet(injected),
           NEW channel, channel \in Kit[e].slots
    PROVE  FoundOK(Push(found, e, channel))
  <1>1. Identify(e, channel) \in Brands(e)
    BY DEF Brands
  <1>2. InjectedId(e, Identify(e, channel)) \in IdsOf(e)
    BY <1>1 DEF IdsOf
  <1> QED BY <1>1, <1>2, ListedKept DEF Push

LEMMA EnterKept ==
    ASSUME NEW found, FoundOK(found), NEW e,
           NEW channel \in {"quai", "pelagus", "ethereum", "providers"}
    PROVE  FoundOK(Enter(found, e, channel))
  <1>1. CASE e \notin Met(channel)
    BY <1>1 DEF Enter
  <1>2. CASE e \in Met(channel)
    <2>1. e \in Filling(channel)
      BY <1>2 DEF Met, InSlot
    <2>2. e \in ToSet(injected) /\ channel \in Kit[e].slots
      BY <2>1 DEF Filling
    <2> QED BY <1>2, <2>2, PushKept DEF Enter
  <1> QED BY <1>1, <1>2

\* ... or Blip in its own.
LEMMA BlipKept ==
    ASSUME NEW found, FoundOK(found), NEW blip \in BlipThere
    PROVE  FoundOK(AddBlip(found, blip))
  <1> DEFINE aliases == {Injected(e) : e \in InSlot("pelagus") \cup InSlot("ethereum")}
             added == IF Seen(found, "blip") THEN found
                      ELSE Listed(found, Injected(blip), "blip", BlipId)
  <1>1. blip \in ToSet(injected) /\ "quai" \in Kit[blip].slots /\ Kit[blip].flags = "blip"
    BY DEF BlipThere, InSlot, Filling
  <1>2. "blip" \in Brands(blip) /\ BlipId \in IdsOf(blip)
    BY <1>1 DEF Brands, Identify, IdsOf
  <1>3. FoundOK(added)
    BY <1>1, <1>2, ListedKept
  <1>4. aliases \in SUBSET Objects
    BY DEF InSlot, Filling, Injected, Objects
  <1>5. AddBlip(found, blip) = [list |-> added.list, objects |-> added.objects \cup aliases]
    BY DEF AddBlip
  <1> HIDE DEF added, aliases
  <1>6. added.list \in Seq(Entries) /\ added.objects \cup aliases \in SUBSET Objects
    BY <1>3, <1>4 DEF FoundOK, Founds
  <1> DEFINE objects == added.objects \cup aliases
  <1> HIDE DEF objects
  <1>7. [list |-> added.list, objects |-> objects] \in Founds
    BY <1>6 DEF Founds, objects
  <1>8. FoundOK([list |-> added.list, objects |-> objects])
    BY <1>3, <1>7 DEF FoundOK
  <1> QED BY <1>5, <1>8 DEF objects

\* The list: its entries are of extensions in the page, under identifiers of theirs.
LEMMA DetectedInOrder ==
    ASSUME injected \in Seq(browser), reloads \in Nat
    PROVE  /\ Detected \in Seq(Entries)
           /\ \A i, j \in DOMAIN Detected : i # j /\ Detected[i].of = Detected[j].of =>
                 \/ Detected[i].brand # Detected[j].brand
                 \/ Detected[i].brand = "generic"
           /\ \A e \in ToSet(injected) : Kit[e].announces # "no" =>
                 \E i \in DOMAIN Detected :
                     Detected[i].of = e /\ Detected[i].brand = Kit[e].announces
  <1> DEFINE none == [list |-> <<>>, objects |-> {}]
             first == GoThrough(none, "announcements")
             second == IF BlipThere # {} THEN AddBlip(first, CHOOSE blip \in BlipThere : TRUE)
                       ELSE GoThrough(first, "quai")
             third == GoThrough(second, "pelagus")
             fourth == GoThrough(third, "ethereum")
             fifth == GoThrough(fourth, "providers")
  <1>1. Len(injected) \in Nat /\ DOMAIN injected = 1 .. Len(injected)
    OBVIOUS
  <1>2. Detected = fifth.list
    BY DEF Detected
  <1>3. FirstOK(0, none)
    <2> DEFINE list == <<>>
               objects == {}
    <2>1. list \in Seq(Entries) /\ objects \in SUBSET Objects
      OBVIOUS
    <2>2. none = [list |-> list, objects |-> objects] /\ DOMAIN none.list = {} /\ none.objects = {}
      OBVIOUS
    <2> HIDE DEF list, objects
    <2>3. [list |-> list, objects |-> objects] \in Founds
      BY <2>1 DEF Founds
    <2>4. none \in Founds
      BY <2>2, <2>3
    <2> HIDE DEF none
    <2> QED BY <2>2, <2>4 DEF FirstOK
  <1> HIDE DEF none
  <1>4. FirstOK(Len(injected), first)
    <2> DEFINE Fine == {p \in Nat \X Founds : FirstOK(p[1], p[2])}
    <2>1. <<0, none>> \in Fine
      BY <1>3 DEF FirstOK
    <2>2. ASSUME NEW n \in 1 .. Len(injected), NEW x, <<n - 1, x>> \in Fine
          PROVE  <<n, Enter(x, injected[n], "announcements")>> \in Fine
      <3>1. FirstOK(n - 1, x)
        BY <2>2
      <3>2. FirstOK(n, Enter(x, injected[n], "announcements"))
        BY <1>1, <3>1, AnnouncedKept
      <3> QED BY <3>2 DEF FirstOK
    <2> HIDE DEF Fine, first
    <2>3. <<Len(injected), first>> \in Fine
      BY <1>1, <2>1, <2>2, GoThroughKeeps DEF first
    <2> QED BY <2>3 DEF Fine
  <1>5. FoundOK(first)
    <2>1. \A e \in ToSet(injected) : \E k \in 1 .. Len(injected) : e = injected[k]
      BY <1>1 DEF ToSet
    <2> HIDE DEF first
    <2> QED BY <1>4, <2>1 DEF FirstOK, FoundOK
  <1> HIDE DEF first
  <1>6. ASSUME NEW found, FoundOK(found), NEW channel \in {"quai", "pelagus", "ethereum", "providers"}
        PROVE  FoundOK(GoThrough(found, channel))
    <2> DEFINE Fine == {p \in Nat \X Founds : FoundOK(p[2])}
    <2>1. <<0, found>> \in Fine
      BY <1>6 DEF FoundOK
    <2>2. ASSUME NEW n \in 1 .. Len(injected), NEW x, <<n - 1, x>> \in Fine
          PROVE  <<n, Enter(x, injected[n], channel)>> \in Fine
      <3>1. FoundOK(Enter(x, injected[n], channel))
        BY <2>2, EnterKept
      <3> QED BY <1>1, <3>1 DEF FoundOK
    <2> HIDE DEF Fine
    <2>3. <<Len(injected), GoThrough(found, channel)>> \in Fine
      BY <1>1, <2>1, <2>2, GoThroughKeeps
    <2> QED BY <2>3 DEF Fine
  <1>7. FoundOK(second)
    <2>1. BlipThere # {} => (CHOOSE blip \in BlipThere : TRUE) \in BlipThere
      OBVIOUS
    <2>2. BlipThere # {} => FoundOK(AddBlip(first, CHOOSE blip \in BlipThere : TRUE))
      BY <1>5, <2>1, BlipKept
    <2> QED BY <1>5, <1>6, <2>2
  <1> HIDE DEF second
  <1>8. FoundOK(third)
    BY <1>6, <1>7
  <1> HIDE DEF third
  <1>9. FoundOK(fourth)
    BY <1>6, <1>8
  <1> HIDE DEF fourth
  <1>10. FoundOK(fifth)
    BY <1>6, <1>9
  <1> HIDE DEF fifth
  <1>11. fifth.list \in Seq(Entries)
    BY <1>10 DEF FoundOK, Founds
  <1> QED BY <1>2, <1>10, <1>11 DEF FoundOK

\* What a picker, the dialog or a login may be about is an entry of the list.
Asked == {"connect", "blip", "switch"}

Pending(steps) == {NotAsking} \cup [step : steps, entry : Entries]

\* The stored id is one of those of the extension stored last.
PickerInv ==
    /\ browser \in Browsers
    /\ injected \in Seq(browser) /\ IsInjective(injected)
    /\ reloads \in Nat
    /\ picked \in browser \cup {Unchosen}
    /\ storedId # Unchosen => picked # Unchosen /\ storedId \in IdsOf(picked)
    /\ asking \in [Pickers -> Pending(Asked)]
    /\ {mismatch, signing} \subseteq Pending({"mismatch"})

LEMMA PickerInitInv == PickerInit => PickerInv
  <1> SUFFICES ASSUME PickerInit PROVE PickerInv
    OBVIOUS
  <1>1. injected = <<>> /\ injected \in Seq(browser) /\ DOMAIN injected = {}
    BY DEF PickerInit
  <1> QED BY <1>1 DEF PickerInit, PickerInv, IsInjective, Pending

\* An entry is of an extension of this browser, which is none but itself.
LEMMA EntryParts ==
    ASSUME PickerInv, NEW entry \in Entries
    PROVE  /\ entry.of \in browser /\ entry.of # Unchosen
           /\ entry.of \in ToSet(injected)
           /\ entry.id \in IdsOf(entry.of)
  <1>1. PICK e \in ToSet(injected) : entry \in EntriesOf(e)
    BY DEF Entries
  <1>2. entry.of = e /\ entry.id \in IdsOf(e)
    BY <1>1 DEF EntriesOf
  <1>3. e \in browser
    BY DEF PickerInv, ToSet
  <1>4. browser \subseteq DOMAIN Kit
    BY WalletAssumption DEF WalletAssumption, PickerInv
  <1> QED BY <1>2, <1>3, <1>4, WalletAssumption DEF WalletAssumption

\* The page as it is, with another request.
LEMMA PickerAsks ==
    ASSUME PickerInv, UNCHANGED <<browser, injected, reloads, storedId, picked>>,
           asking' \in [Pickers -> Pending(Asked)],
           {mismatch', signing'} \subseteq Pending({"mismatch"})
    PROVE  PickerInv'
  <1>1. (\A e : IdsOf(e)' = IdsOf(e)) /\ Entries' = Entries
    BY DEF IdsOf, Entries, EntriesOf, Brands, ToSet
  <1>2. \A steps : Pending(steps)' = Pending(steps)
    BY <1>1 DEF Pending
  <1>3. /\ asking' \in [Pickers -> Pending(Asked)']
        /\ {mismatch', signing'} \subseteq Pending({"mismatch"})'
    BY <1>2
  <1> QED BY <1>1, <1>3 DEF PickerInv

\* An entry is stored.
LEMMA PickerChooses ==
    ASSUME PickerInv, NEW entry \in Entries, Choose(entry),
           UNCHANGED <<browser, injected, reloads>>,
           asking' \in [Pickers -> Pending(Asked)],
           {mismatch', signing'} \subseteq Pending({"mismatch"})
    PROVE  PickerInv'
  <1>1. (\A e : IdsOf(e)' = IdsOf(e)) /\ Entries' = Entries
    BY DEF IdsOf, Entries, EntriesOf, Brands, ToSet
  <1>2. \A steps : Pending(steps)' = Pending(steps)
    BY <1>1 DEF Pending
  <1>3. /\ asking' \in [Pickers -> Pending(Asked)']
        /\ {mismatch', signing'} \subseteq Pending({"mismatch"})'
    BY <1>2
  <1>4. /\ picked' \in browser /\ picked' # Unchosen
        /\ storedId' \in IdsOf(picked')
    BY EntryParts DEF Choose
  <1> QED BY <1>1, <1>3, <1>4 DEF PickerInv

\* The pickers: asking, and the answers.
LEMMA RequestStep ==
    ASSUME PickerInv, NEW p \in Pickers,
           \/ Connect(p) \/ ConnectBlip(p) \/ SwitchChain(p)
           \/ Answered(p) \/ AnotherAccount(p) \/ NotConnected(p)
    PROVE  PickerInv'
  <1>1. /\ asking \in [Pickers -> Pending(Asked)]
        /\ {mismatch, signing} \subseteq Pending({"mismatch"})
        /\ NotAsking \in Pending(Asked)
    BY DEF PickerInv, Pending
  <1>2. ASSUME NEW step \in Asked, NEW entry \in Entries, Ask(p, step, entry)
        PROVE  PickerInv'
    <2>1. [step |-> step, entry |-> entry] \in Pending(Asked)
      BY DEF Pending
    <2>2. asking' \in [Pickers -> Pending(Asked)]
      BY <1>1, <1>2, <2>1 DEF Ask
    <2>3. /\ UNCHANGED <<browser, injected, reloads, storedId, picked>>
          /\ {mismatch', signing'} \subseteq Pending({"mismatch"})
      BY <1>1, <1>2 DEF Ask
    <2> QED BY <2>2, <2>3, PickerAsks
  <1>3. CASE Connect(p)
    <2>1. PICK i \in DOMAIN Detected : Ask(p, "connect", Detected[i])
      BY <1>3 DEF Connect
    <2>2. Detected[i] \in Entries
      BY DetectedInOrder DEF PickerInv
    <2> QED BY <1>2, <2>1, <2>2 DEF Asked
  <1>4. CASE SwitchChain(p)
    <2>1. PICK i \in Active : Ask(p, "switch", Detected[i])
      BY <1>4 DEF SwitchChain
    <2>2. i \in DOMAIN Detected
      BY DEF Active
    <2>3. Detected[i] \in Entries
      BY <2>2, DetectedInOrder DEF PickerInv
    <2> QED BY <1>2, <2>1, <2>3 DEF Asked
  <1>5. CASE ConnectBlip(p)
    <2>1. PICK e \in BlipThere : Ask(p, "blip", [of |-> e, brand |-> "blip", id |-> BlipId])
      BY <1>5 DEF ConnectBlip
    <2>2. e \in ToSet(injected) /\ Kit[e].flags = "blip" /\ "quai" \in Kit[e].slots
      BY DEF BlipThere, InSlot, Filling, ToSet
    <2>3. "blip" \in Brands(e) /\ BlipId \in IdsOf(e)
      BY <2>2 DEF Brands, Identify, IdsOf
    <2>4. [of |-> e, brand |-> "blip", id |-> BlipId] \in EntriesOf(e)
      BY <2>3 DEF EntriesOf
    <2>5. [of |-> e, brand |-> "blip", id |-> BlipId] \in Entries
      BY <2>2, <2>4 DEF Entries
    <2> QED BY <1>2, <2>1, <2>5 DEF Asked
  <1>6. ASSUME Unask(p) PROVE asking' \in [Pickers -> Pending(Asked)]
    BY <1>1, <1>6 DEF Unask
  <1>7. ASSUME asking[p] # NotAsking
        PROVE  asking[p].entry \in Entries
    BY <1>1, <1>7 DEF Pending
  <1>8. CASE Answered(p)
    <2>1. /\ UNCHANGED <<browser, injected, reloads, mismatch, signing>>
          /\ Choose(asking[p].entry) /\ Unask(p) /\ asking[p] # NotAsking
      BY <1>8 DEF Answered
    <2>2. asking[p].entry \in Entries
      BY <1>7, <2>1
    <2>3. asking' \in [Pickers -> Pending(Asked)]
      BY <1>6, <2>1
    <2>4. {mismatch', signing'} \subseteq Pending({"mismatch"})
      BY <1>1, <2>1
    <2> QED BY <2>1, <2>2, <2>3, <2>4, PickerChooses
  <1>9. CASE AnotherAccount(p)
    <2>1. /\ UNCHANGED <<browser, injected, reloads, storedId, signing, picked>>
          /\ Unask(p) /\ asking[p] # NotAsking
          /\ mismatch' = [step |-> "mismatch", entry |-> asking[p].entry]
      BY <1>9 DEF AnotherAccount, NotAsking
    <2>2. mismatch' \in Pending({"mismatch"})
      BY <1>7, <2>1 DEF Pending
    <2>3. asking' \in [Pickers -> Pending(Asked)]
      BY <1>6, <2>1
    <2>4. {mismatch', signing'} \subseteq Pending({"mismatch"})
      BY <1>1, <2>1, <2>2
    <2> QED BY <2>1, <2>3, <2>4, PickerAsks
  <1>10. CASE NotConnected(p)
    <2>1. /\ UNCHANGED <<browser, injected, reloads, storedId, mismatch, signing, picked>>
          /\ Unask(p)
      BY <1>10 DEF NotConnected
    <2>2. asking' \in [Pickers -> Pending(Asked)]
      BY <1>6, <2>1
    <2> QED BY <1>1, <2>1, <2>2, PickerAsks
  <1> QED BY <1>3, <1>4, <1>5, <1>8, <1>9, <1>10

\* The dialog, and its login.
LEMMA DialogStep ==
    ASSUME PickerInv, SwitchAccount \/ SignedIn \/ NotSignedIn \/ CloseDialog
    PROVE  PickerInv'
  <1>1. /\ asking \in [Pickers -> Pending(Asked)]
        /\ {mismatch, signing} \subseteq Pending({"mismatch"})
        /\ NotAsking \in Pending({"mismatch"})
    BY DEF PickerInv, Pending
  <1>2. UNCHANGED <<browser, injected, reloads, asking>>
    BY DEF SwitchAccount, SignedIn, NotSignedIn, CloseDialog
  <1>3. asking' \in [Pickers -> Pending(Asked)]
    BY <1>1, <1>2
  <1>4. {mismatch', signing'} \subseteq Pending({"mismatch"})
    BY <1>1 DEF SwitchAccount, SignedIn, NotSignedIn, CloseDialog
  <1>5. CASE SignedIn
    <2>1. signing.entry \in Entries
      BY <1>1, <1>5 DEF SignedIn, Pending
    <2>2. Choose(signing.entry)
      BY <1>5 DEF SignedIn
    <2> QED BY <1>2, <1>3, <1>4, <2>1, <2>2, PickerChooses
  <1>6. CASE SwitchAccount \/ NotSignedIn \/ CloseDialog
    <2>1. UNCHANGED <<storedId, picked>>
      BY <1>6 DEF SwitchAccount, NotSignedIn, CloseDialog
    <2> QED BY <1>2, <1>3, <1>4, <2>1, PickerAsks
  <1> QED BY <1>5, <1>6

LEMMA PickerStep ==
    ASSUME PickerInv, PickerNext \/ UNCHANGED pickerVars
    PROVE  PickerInv'
  <1>1. CASE UNCHANGED pickerVars
    <2>1. UNCHANGED <<browser, injected, reloads, storedId, picked, asking, mismatch, signing>>
      BY <1>1 DEF pickerVars
    <2>2. asking' \in [Pickers -> Pending(Asked)]
      BY <2>1 DEF PickerInv
    <2>3. {mismatch', signing'} \subseteq Pending({"mismatch"})
      BY <2>1 DEF PickerInv
    <2> QED BY <2>1, <2>2, <2>3, PickerAsks
  <1>2. \A e : IdsOf(e)' = IdsOf(e)
    BY DEF IdsOf, Brands
  <1>3. CASE \E p \in Pickers :
               \/ Connect(p) \/ ConnectBlip(p) \/ SwitchChain(p)
               \/ Answered(p) \/ AnotherAccount(p) \/ NotConnected(p)
    BY <1>3, RequestStep
  <1>4. CASE SwitchAccount \/ SignedIn \/ NotSignedIn \/ CloseDialog
    BY <1>4, DialogStep
  <1>5. CASE Look
    <2>1. Entries' = Entries
      BY <1>2, <1>5 DEF Look, Entries, EntriesOf, Brands, ToSet
    <2>2. /\ asking' \in [Pickers -> Pending(Asked)']
          /\ {mismatch', signing'} \subseteq Pending({"mismatch"})'
      BY <1>5, <2>1 DEF Look, PickerInv, Pending
    <2> QED BY <1>2, <1>5, <2>2 DEF Look, PickerInv
  <1>6. CASE \E e \in browser : Inject(e)
    <2>1. PICK e \in browser : Inject(e)
      BY <1>6
    <2>2. /\ injected' = Append(injected, e) /\ injected \in Seq(browser)
          /\ e \notin ToSet(injected)
      BY <2>1 DEF Inject, PickerInv
    <2>3. /\ injected' \in Seq(browser) /\ DOMAIN injected = 1 .. Len(injected)
          /\ DOMAIN injected' = 1 .. Len(injected) + 1 /\ Len(injected) \in Nat
          /\ \A i \in DOMAIN injected : injected'[i] = injected[i]
          /\ injected'[Len(injected) + 1] = e
      BY <2>2
    <2>4. \A i \in DOMAIN injected : injected[i] # e
      BY <2>2 DEF ToSet
    <2>5. IsInjective(injected')
      BY <2>3, <2>4 DEF PickerInv, IsInjective
    <2>6. ToSet(injected) \subseteq ToSet(injected')
      BY <2>3 DEF ToSet
    <2>7. Entries \subseteq Entries'
      BY <1>2, <2>6 DEF Entries, EntriesOf, Brands
    <2>8. /\ Pending(Asked) \subseteq Pending(Asked)'
          /\ Pending({"mismatch"}) \subseteq Pending({"mismatch"})'
      BY <2>7 DEF Pending
    <2>9. /\ asking' \in [Pickers -> Pending(Asked)']
          /\ {mismatch', signing'} \subseteq Pending({"mismatch"})'
      BY <2>1, <2>8 DEF Inject, PickerInv
    <2> QED BY <1>2, <2>1, <2>3, <2>5, <2>9 DEF Inject, PickerInv
  <1>7. CASE ReloadPage
    <2>1. injected' = <<>> /\ <<>> \in Seq(browser) /\ IsInjective(injected')
      BY <1>7 DEF ReloadPage, IsInjective
    <2>2. /\ asking' \in [Pickers -> Pending(Asked)']
          /\ {mismatch', signing'} \subseteq Pending({"mismatch"})'
      BY <1>7 DEF ReloadPage, Pending
    <2> QED BY <1>2, <1>7, <2>1, <2>2 DEF ReloadPage, PickerInv
  <1> QED BY <1>1, <1>3, <1>4, <1>5, <1>6, <1>7 DEF PickerNext

LEMMA PickerImplied ==
    ASSUME PickerInv
    PROVE  PickerTypeOK /\ WalletsKeptApart
  <1>1. injected \in Seq(browser) /\ reloads \in Nat
    BY DEF PickerInv
  <1>2. PickerTypeOK
    <2>1. ASSUME NEW p \in Pickers
          PROVE  /\ asking[p].step \in {"rest"} \cup Asked
                 /\ asking[p] # NotAsking => asking[p].entry \in Entries
      <3>1. asking[p] \in Pending(Asked)
        BY DEF PickerInv
      <3> QED BY <3>1 DEF Pending, NotAsking
    <2>2. ASSUME NEW r \in {mismatch, signing}
          PROVE  r.step \in {"rest", "mismatch"} /\ (r # NotAsking => r.entry \in Entries)
      <3>1. r \in Pending({"mismatch"})
        BY DEF PickerInv
      <3> QED BY <3>1 DEF Pending, NotAsking
    <2>3. \A entry \in Entries : entry.of \in ToSet(injected)
      BY EntryParts
    <2> QED BY <2>1, <2>2, <2>3 DEF PickerInv, PickerTypeOK, Asked
  <1>3. ASSUME NEW i \in Active PROVE Detected[i].of = picked \/ HasTwin(picked)
    <2>1. /\ i \in DOMAIN Detected /\ storedId # Unchosen /\ Detected[i].id = storedId
      BY DEF Active
    <2>2. Detected[i] \in Entries
      BY <1>1, <2>1, DetectedInOrder
    <2>3. Detected[i].of \in browser /\ storedId \in IdsOf(Detected[i].of)
      BY <2>1, <2>2, EntryParts
    <2>4. picked \in browser /\ storedId \in IdsOf(picked)
      BY <2>1 DEF PickerInv
    <2> QED BY <2>3, <2>4, IdsApart
  <1> QED BY <1>1, <1>2, <1>3, DetectedInOrder DEF WalletsKeptApart

-----------------------------------------------------------------------------
(* The dashboard.                                                          *)

\* A tab shows the account of a session that was entered, and has such a session, or none.
TabOK(x, ss) ==
    x \in [page : {"login", "dashboard", "leaving"}, memory : ss \cup {Nobody},
           shown : {Holder[s] : s \in ss} \cup {"none", "demo"}]

\* So does an answer tell of one.
AnswerOK(a, ss) ==
    /\ a.tab \in Tabs
    /\ a.call \in {"login", "switch"} => a.says \in ss
    /\ a.call = "poll" => a.says \in {Holder[s] : s \in ss} \cup {"401"}

DashboardInv ==
    /\ alive \subseteq entered
    /\ jar \in entered \cup {Nobody}
    /\ marker \in BOOLEAN
    /\ tabs = [t \in Tabs |-> tabs[t]]
    /\ \A t \in Tabs : TabOK(tabs[t], entered)
    /\ \A a \in answers : AnswerOK(a, entered)

LEMMA DashboardInitInv ==
    ASSUME DashboardInit
    PROVE  DashboardInv
  BY DEF DashboardInit, DashboardInv, TabOK

\* More sessions are entered.
LEMMA TabKept ==
    ASSUME NEW x, NEW ss, NEW more, ss \subseteq more, TabOK(x, ss)
    PROVE  TabOK(x, more)
  BY DEF TabOK

LEMMA AnswerKept ==
    ASSUME NEW a, NEW ss, NEW more, ss \subseteq more, AnswerOK(a, ss)
    PROVE  AnswerOK(a, more)
  BY DEF AnswerOK

\* A tab shows something else, the answers are others: those there were, or in order.
LEMMA TabMoves ==
    ASSUME DashboardInv, NEW t \in Tabs, NEW x, TabOK(x, entered),
           tabs' = [tabs EXCEPT ![t] = x]
    PROVE  tabs' = [u \in Tabs |-> tabs'[u]] /\ \A u \in Tabs : TabOK(tabs'[u], entered)
  <1>1. tabs' = [u \in Tabs |-> tabs'[u]] /\ \A u \in Tabs : tabs'[u] = IF u = t THEN x ELSE tabs[u]
    BY DEF DashboardInv
  <1> QED BY <1>1 DEF DashboardInv

\* A tab loads a page: nothing is on display yet.
LEMMA TabLoads ==
    ASSUME DashboardInv, NEW t \in Tabs, NEW page \in {"login", "dashboard"},
           tabs' = [tabs EXCEPT ![t].page = page, ![t].shown = "none"]
    PROVE  tabs' = [u \in Tabs |-> tabs'[u]] /\ \A u \in Tabs : TabOK(tabs'[u], entered)
  <1> DEFINE left == [tabs[t] EXCEPT !.page = page]
             x == [left EXCEPT !.shown = "none"]
  <1>1. TabOK(left, entered)
    BY DEF DashboardInv, TabOK
  <1>2. tabs' = [tabs EXCEPT ![t] = x]
    BY DEF DashboardInv
  <1> HIDE DEF left
  <1>3. TabOK(x, entered)
    BY <1>1 DEF TabOK
  <1> HIDE DEF x
  <1> QED BY <1>2, <1>3, TabMoves

\* What the backend says of a token: the account of a session that was entered, or 401.
LEMMA MeAnswers ==
    ASSUME DashboardInv, NEW t \in Tabs, NEW call \in {"poll", "check"}, NEW token
    PROVE  AnswerOK(Me(t, call, token), entered)
  BY DEF Me, Says, AnswerOK, DashboardInv

LEMMA CheckAnswers ==
    ASSUME DashboardInv, NEW t \in Tabs, NEW token
    PROVE  \A a \in Check(t, token) : AnswerOK(a, entered)
  BY MeAnswers DEF Check

LEMMA UnmountedAnswers ==
    ASSUME NEW t, NEW as
    PROVE  Unmounted(t, as) \subseteq as
  BY DEF Unmounted

LEMMA LogoutKept ==
    ASSUME DashboardInv, NEW t \in Tabs, NEW page \in {"login", "leaving"},
           NEW rest, \A a \in rest : AnswerOK(a, entered), Logout(t, page, rest)
    PROVE  DashboardInv'
  <1> DEFINE x == [page |-> page, memory |-> Nobody,
                   shown |-> IF page = "login" THEN "none" ELSE tabs[t].shown]
  <1>1. tabs' = [tabs EXCEPT ![t] = x]
    BY DEF Logout, DashboardInv
  <1>2. TabOK(x, entered)
    BY DEF DashboardInv, TabOK
  <1> HIDE DEF x
  <1>3. /\ tabs' = [u \in Tabs |-> tabs'[u]]
        /\ \A u \in Tabs : TabOK(tabs'[u], entered)
    BY <1>1, <1>2, TabMoves
  <1>4. \A a \in answers' : AnswerOK(a, entered)
    BY DEF Logout, LogoutSays, Says, AnswerOK
  <1>5. marker' = FALSE /\ alive' \subseteq alive /\ UNCHANGED <<jar, entered>>
    BY DEF Logout
  <1> QED BY <1>3, <1>4, <1>5 DEF DashboardInv

LEMMA DashboardStep ==
    ASSUME DashboardInv, DashboardNext \/ UNCHANGED dashboardVars
    PROVE  DashboardInv'
  <1>0. /\ alive \subseteq entered /\ jar \in entered \cup {Nobody} /\ marker \in BOOLEAN
        /\ tabs = [t \in Tabs |-> tabs[t]]
        /\ \A t \in Tabs : TabOK(tabs[t], entered)
        /\ \A a \in answers : AnswerOK(a, entered)
    BY DEF DashboardInv
  <1>1. CASE UNCHANGED dashboardVars
    BY <1>1 DEF dashboardVars, DashboardInv
  <1>2. ASSUME NEW t \in Tabs, Poll(t) PROVE DashboardInv'
    <2>1. UNCHANGED <<jar, marker, entered, alive>>
      BY <1>2 DEF Poll
    <2>2. CASE answers' = answers \cup {Me(t, "poll", Credential(t))} /\ UNCHANGED tabs
      <3>1. AnswerOK(Me(t, "poll", Credential(t)), entered)
        BY MeAnswers
      <3> QED BY <1>0, <2>1, <2>2, <3>1 DEF DashboardInv
    <2>3. CASE tabs' = [tabs EXCEPT ![t].shown = "demo"] /\ UNCHANGED answers
      <3> DEFINE x == [tabs[t] EXCEPT !.shown = "demo"]
      <3>1. TabOK(x, entered)
        BY <1>0 DEF TabOK
      <3>2. tabs' = [tabs EXCEPT ![t] = x]
        BY <2>3
      <3> HIDE DEF x
      <3> QED BY <1>0, <2>1, <2>3, <3>1, <3>2, TabMoves DEF DashboardInv
    <2> QED BY <1>2, <2>2, <2>3 DEF Poll
  <1>3. ASSUME NEW t \in Tabs, SignOut(t) PROVE DashboardInv'
    BY <1>0, <1>3, LogoutKept DEF SignOut
  <1>4. ASSUME NEW t \in Tabs, Reload(t) PROVE DashboardInv'
    <2> DEFINE x == [page |-> IF marker THEN "dashboard" ELSE "login", memory |-> Nobody,
                     shown |-> "none"]
    <2>1. TabOK(x, entered)
      BY DEF TabOK
    <2>2. tabs' = [tabs EXCEPT ![t] = x] /\ UNCHANGED <<jar, marker, entered, alive>>
      BY <1>4 DEF Reload
    <2> HIDE DEF x
    <2>3. tabs' = [u \in Tabs |-> tabs'[u]] /\ \A u \in Tabs : TabOK(tabs'[u], entered)
      BY <2>1, <2>2, TabMoves
    <2>4. \A a \in answers' : AnswerOK(a, entered)
      BY <1>0, <1>4, CheckAnswers DEF Reload
    <2> QED BY <1>0, <2>2, <2>3, <2>4 DEF DashboardInv
  <1>5. ASSUME NEW t \in Tabs, NEW s \in Sessions, LoginCall(t, s) PROVE DashboardInv'
    <2>1. /\ entered' = entered \cup {s} /\ alive' = alive \cup {s}
          /\ answers' = answers \cup {Says(t, Entrance(t), s)}
          /\ UNCHANGED <<jar, marker, tabs>>
      BY <1>5 DEF LoginCall
    <2>2. AnswerOK(Says(t, Entrance(t), s), entered')
      BY <2>1 DEF Says, Entrance, AnswerOK
    <2>3. \A a \in answers' : AnswerOK(a, entered')
      BY <1>0, <2>1, <2>2, AnswerKept
    <2>4. \A u \in Tabs : TabOK(tabs[u], entered')
      BY <1>0, <2>1, TabKept
    <2> QED BY <1>0, <2>1, <2>3, <2>4 DEF DashboardInv
  <1>6. ASSUME NEW a \in answers, LoginDone(a) PROVE DashboardInv'
    <2> DEFINE x == [page |-> "dashboard", memory |-> a.says, shown |-> "none"]
               y == [tabs[a.tab] EXCEPT !.memory = a.says]
    <2>1. a.tab \in Tabs /\ a.says \in entered
      BY <1>0, <1>6 DEF LoginDone, AnswerOK
    <2>2. TabOK(x, entered) /\ TabOK(y, entered)
      BY <1>0, <2>1 DEF TabOK
    <2>3. /\ tabs' = [tabs EXCEPT ![a.tab] = x] \/ tabs' = [tabs EXCEPT ![a.tab] = y]
          /\ jar' = a.says /\ marker' = TRUE
          /\ answers' \subseteq answers \cup Check(a.tab, a.says)
          /\ UNCHANGED <<entered, alive>>
      BY <1>6 DEF LoginDone
    <2> HIDE DEF x, y
    <2>4. tabs' = [u \in Tabs |-> tabs'[u]] /\ \A u \in Tabs : TabOK(tabs'[u], entered)
      <3>1. CASE tabs' = [tabs EXCEPT ![a.tab] = x]
        BY <2>1, <2>2, <3>1, TabMoves
      <3>2. CASE tabs' = [tabs EXCEPT ![a.tab] = y]
        BY <2>1, <2>2, <3>2, TabMoves
      <3> QED BY <2>3, <3>1, <3>2
    <2>5. \A b \in answers' : AnswerOK(b, entered)
      BY <1>0, <2>1, <2>3, CheckAnswers
    <2> QED BY <1>0, <2>1, <2>3, <2>4, <2>5 DEF DashboardInv
  <1>7. ASSUME NEW a \in answers, MeDone(a) PROVE DashboardInv'
    <2>1. /\ a.tab \in Tabs
          /\ a.call = "poll" => a.says \in {Holder[s] : s \in entered} \cup {"401"}
      BY <1>0, <1>7 DEF MeDone, AnswerOK
    <2>2. CASE a.says \in {"401", "error"}
      <3>1. Logout(a.tab, "login", Unmounted(a.tab, answers \ {a}))
        BY <1>7, <2>2 DEF MeDone, SessionOver
      <3>2. \A b \in Unmounted(a.tab, answers \ {a}) : AnswerOK(b, entered)
        BY <1>0, UnmountedAnswers
      <3> QED BY <1>0, <2>1, <3>1, <3>2, LogoutKept
    <2>3. CASE a.says \notin {"401", "error"}
      <3>1. /\ answers' = answers \ {a} /\ UNCHANGED <<jar, marker, entered, alive>>
            /\ \/ tabs' = tabs
               \/ a.call = "poll" /\ tabs' = [tabs EXCEPT ![a.tab].shown = a.says]
        BY <1>7, <2>3 DEF MeDone
      <3> DEFINE x == [tabs[a.tab] EXCEPT !.shown = a.says]
      <3>2. a.call = "poll" => TabOK(x, entered)
        BY <1>0, <2>1, <2>3 DEF TabOK
      <3>3. tabs' = tabs \/ (a.call = "poll" /\ tabs' = [tabs EXCEPT ![a.tab] = x])
        BY <3>1
      <3> HIDE DEF x
      <3>4. tabs' = [u \in Tabs |-> tabs'[u]] /\ \A u \in Tabs : TabOK(tabs'[u], entered)
        <4>1. CASE tabs' = tabs
          BY <1>0, <4>1
        <4>2. CASE a.call = "poll" /\ tabs' = [tabs EXCEPT ![a.tab] = x]
          BY <2>1, <3>2, <4>2, TabMoves
        <4> QED BY <3>3, <4>1, <4>2
      <3> QED BY <1>0, <3>1, <3>4 DEF DashboardInv
    <2> QED BY <2>2, <2>3
  <1>8. ASSUME NEW a \in answers, LogoutDone(a) PROVE DashboardInv'
    <2>1. a.tab \in Tabs
      BY <1>0 DEF AnswerOK
    <2>2. jar' \in {jar, Nobody} /\ UNCHANGED <<marker, entered, alive>>
      BY <1>8 DEF LogoutDone
    <2>3. /\ answers' \subseteq answers \cup Check(a.tab, jar')
          /\ \/ tabs' = tabs
             \/ \E page \in {"login", "dashboard"} :
                   tabs' = [tabs EXCEPT ![a.tab].page = page, ![a.tab].shown = "none"]
      BY <1>8, UnmountedAnswers DEF LogoutDone
    <2>4. \A b \in answers' : AnswerOK(b, entered)
      BY <1>0, <2>1, <2>3, CheckAnswers
    <2>5. tabs' = [u \in Tabs |-> tabs'[u]] /\ \A u \in Tabs : TabOK(tabs'[u], entered)
      <3>1. CASE tabs' = tabs
        BY <1>0, <3>1
      <3>2. ASSUME NEW page \in {"login", "dashboard"},
                   tabs' = [tabs EXCEPT ![a.tab].page = page, ![a.tab].shown = "none"]
            PROVE  /\ tabs' = [u \in Tabs |-> tabs'[u]]
                   /\ \A u \in Tabs : TabOK(tabs'[u], entered)
        BY <1>0, <2>1, <3>2, TabLoads
      <3> QED BY <2>3, <3>1, <3>2
    <2> QED BY <1>0, <2>2, <2>4, <2>5 DEF DashboardInv
  <1>9. ASSUME NEW a \in answers, Lose(a) PROVE DashboardInv'
    <2>1. /\ answers' = answers \ {a} /\ UNCHANGED <<marker, tabs, entered, alive>>
          /\ jar' = jar \/ (a.call \in {"login", "switch"} /\ jar' = a.says)
      BY <1>9 DEF Lose
    <2>2. jar' \in entered \cup {Nobody}
      BY <1>0, <2>1 DEF AnswerOK
    <2> QED BY <1>0, <2>1, <2>2 DEF DashboardInv
  <1>10. ASSUME NEW t \in Tabs, Visit(t) PROVE DashboardInv'
    <2>1. /\ UNCHANGED <<jar, marker, entered, alive>>
          /\ answers' \subseteq answers \cup Check(t, jar)
          /\ \E page \in {"login", "dashboard"} :
                tabs' = [tabs EXCEPT ![t].page = page, ![t].shown = "none"]
      <3>1. answers' = Unmounted(t, answers) \cup IF marker THEN Check(t, jar) ELSE {}
        BY <1>10 DEF Visit
      <3>2. tabs' = [tabs EXCEPT ![t].page = IF marker THEN "dashboard" ELSE "login",
                                 ![t].shown = "none"]
        BY <1>10 DEF Visit
      <3> QED BY <1>10, <3>1, <3>2, UnmountedAnswers DEF Visit
    <2>2. \A b \in answers' : AnswerOK(b, entered)
      BY <1>0, <2>1, CheckAnswers
    <2>3. tabs' = [u \in Tabs |-> tabs'[u]] /\ \A u \in Tabs : TabOK(tabs'[u], entered)
      BY <1>0, <2>1, TabLoads
    <2> QED BY <1>0, <2>1, <2>2, <2>3 DEF DashboardInv
  <1>11. ASSUME NEW t \in Tabs, VisitKept(t) PROVE DashboardInv'
    <2>1. \A b \in Unmounted(t, answers) : AnswerOK(b, entered)
      BY <1>0, UnmountedAnswers
    <2> QED BY <1>0, <1>11, <2>1, LogoutKept DEF VisitKept
  <1>12. ASSUME NEW a \in answers, Fail(a) PROVE DashboardInv'
    <2>1. /\ answers' = (answers \ {a}) \cup {Says(a.tab, a.call, "error")}
          /\ a.call \in {"check", "logout"} /\ UNCHANGED <<jar, marker, tabs, entered, alive>>
      BY <1>12 DEF Fail
    <2>2. AnswerOK(Says(a.tab, a.call, "error"), entered)
      BY <1>0, <2>1 DEF Says, AnswerOK
    <2> QED BY <1>0, <2>1, <2>2 DEF DashboardInv
  <1>13. ASSUME NEW s \in Sessions, Expire(s) PROVE DashboardInv'
    BY <1>0, <1>13 DEF Expire, DashboardInv
  <1> QED
    BY <1>1, <1>2, <1>3, <1>4, <1>5, <1>6, <1>7, <1>8, <1>9, <1>10, <1>11, <1>12, <1>13
    DEF DashboardNext

LEMMA DashboardImplied ==
    ASSUME DashboardInv
    PROVE  DashboardTypeOK
  BY DEF DashboardInv, TabOK, DashboardTypeOK

-----------------------------------------------------------------------------
(* The scripts of the router.                                              *)

ProxyRecords(n) ==
    [impl : 0 .. n, signing : BOOLEAN, signer : BOOLEAN,
     accepted : SUBSET ({Native} \cup Tokens),
     owner : {"deployer", "timelock"}, heir : {"nobody", "timelock"}]

ScriptRuns(n) ==
    [script : {"none", "deploy", "upgrade", "allow"},
     step : {"none", "impl", "proxy", "signing", "read", "upgrade", "signer", "allowlist",
             "verify", "transfer", "guardian", "record", "owner", "tokens"},
     impl : 0 .. n, proxy : Nat, initialized : BOOLEAN,
     todo : SUBSET ({Native} \cup Tokens)]

\* What a record says of its router p: no newer an implementation than it has, and one with
\* signed orders only of a router on which they can be paid.
RecordFits(r, p) ==
    /\ r.impl \in Nat /\ r.impl <= p.impl
    /\ r.impl > 0 => SignedOrdersPayable(p)

\* What a script has found or made of its router p, at the step where it is: what it puts in
\* place is no older than what is there, and what it goes on to record was verified.
RunFits(r, p) ==
    /\ r.step \in {"read", "upgrade"} => p.impl <= r.impl
    /\ r.step \in {"transfer", "guardian", "record"} =>
          SignedOrdersPayable(p) /\ p.impl = r.impl

\* Does the script have a router, at this step?
HasRouter(r) ==
    \/ r.step \notin {"none", "impl", "proxy"}
    \/ r.step = "impl" /\ r.script # "deploy"

ChainOK ==
    /\ environment \in [signer : BOOLEAN, multisig : BOOLEAN]
    /\ impls \in 0 .. 1 + MaxMishaps + MaxReleases
    /\ proxies \in Seq(ProxyRecords(impls))
    /\ mishaps \in 0 .. MaxMishaps

RecordOK ==
    record # NoRecord => record.proxy \in DOMAIN proxies /\ RecordFits(record, Recorded)

RunOK ==
    /\ run \in ScriptRuns(impls)
    /\ HasRouter(run) => run.proxy \in DOMAIN proxies /\ RunFits(run, Proxy)

DeploymentInv == ChainOK /\ RecordOK /\ RunOK

LEMMA DeploymentInitInv ==
    ASSUME DeploymentInit
    PROVE  DeploymentInv
  <1>1. {MaxMishaps, MaxReleases} \subseteq Nat
    BY DeploymentAssumption DEF DeploymentAssumption
  <1>2. run \in ScriptRuns(impls) /\ ~HasRouter(run)
    BY DEF DeploymentInit, NoScript, ScriptRuns, HasRouter
  <1>3. CASE proxies = <<>> /\ record = NoRecord
    BY <1>1, <1>2, <1>3 DEF DeploymentInit, DeploymentInv, ChainOK, RecordOK, RunOK
  <1>4. ASSUME NEW heir \in {"nobody", "timelock"},
               proxies = <<[NewProxy(0) EXCEPT !.accepted = {Native}, !.heir = heir]>>,
               record = [proxy |-> 1, impl |-> 0]
        PROVE  DeploymentInv
    <2> DEFINE p == [NewProxy(0) EXCEPT !.accepted = {Native}, !.heir = heir]
    <2>1. p \in ProxyRecords(0) /\ proxies = <<p>> /\ record = [proxy |-> 1, impl |-> 0]
      <3> DEFINE accepted == {Native}
      <3>1. NewProxy(0) \in ProxyRecords(0)
        BY DEF NewProxy, ProxyRecords
      <3>2. accepted \in SUBSET ({Native} \cup Tokens)
        OBVIOUS
      <3> HIDE DEF accepted
      <3>3. [NewProxy(0) EXCEPT !.accepted = accepted, !.heir = heir] \in ProxyRecords(0)
        BY <3>1, <3>2 DEF ProxyRecords
      <3> QED BY <1>4, <3>3 DEF accepted
    <2> HIDE DEF p
    <2>2. impls = 0 /\ proxies \in Seq(ProxyRecords(0)) /\ DOMAIN proxies = {1} /\ proxies[1] = p
      BY <2>1 DEF DeploymentInit
    <2>3. p.impl = 0
      BY <2>1 DEF ProxyRecords
    <2>4. ChainOK
      BY <1>1, <2>2 DEF DeploymentInit, ChainOK
    <2>5. record.proxy = 1 /\ record.impl = 0 /\ Recorded = p
      BY <2>1, <2>2 DEF Recorded
    <2>6. RecordOK
      BY <2>2, <2>3, <2>5 DEF RecordOK, RecordFits
    <2> QED BY <1>2, <2>4, <2>6 DEF DeploymentInv, RunOK
  <1> QED BY <1>3, <1>4 DEF DeploymentInit

\* A router that changes gains, never loses: its implementation is as new, what was set is set.
Gains(p, q) ==
    /\ p.impl <= q.impl
    /\ p.signing => q.signing
    /\ p.signer => q.signer

\* The chain gains, and what was deployed stays.
ChainGains ==
    /\ environment' = environment
    /\ DOMAIN proxies \subseteq DOMAIN proxies'
    /\ \A i \in DOMAIN proxies : Gains(proxies[i], proxies'[i])

LEMMA MoreImplementations ==
    ASSUME NEW n \in Nat, NEW m \in Nat, n <= m
    PROVE  ProxyRecords(n) \subseteq ProxyRecords(m) /\ ScriptRuns(n) \subseteq ScriptRuns(m)
  <1>1. 0 .. n \subseteq 0 .. m
    OBVIOUS
  <1> QED BY <1>1 DEF ProxyRecords, ScriptRuns

LEMMA RecordKept ==
    ASSUME ChainOK, RecordOK, ChainOK', ChainGains, UNCHANGED record
    PROVE  RecordOK'
  <1> SUFFICES ASSUME record # NoRecord
               PROVE  (record.proxy \in DOMAIN proxies /\ RecordFits(record, proxies[record.proxy]))'
    BY DEF RecordOK, Recorded
  <1>1. record.proxy \in DOMAIN proxies /\ RecordFits(record, proxies[record.proxy])
    BY DEF RecordOK, Recorded
  <1>2. record.proxy \in DOMAIN proxies' /\ Gains(proxies[record.proxy], proxies'[record.proxy])
    BY <1>1 DEF ChainGains
  <1>3. /\ proxies[record.proxy] \in ProxyRecords(impls)
        /\ proxies'[record.proxy] \in ProxyRecords(impls')
        /\ impls \in Nat /\ impls' \in Nat
    BY <1>1, <1>2, DeploymentAssumption DEF ChainOK, DeploymentAssumption
  <1>4. proxies[record.proxy].impl \in Nat /\ proxies'[record.proxy].impl \in Nat
    BY <1>3 DEF ProxyRecords
  <1> QED BY <1>1, <1>2, <1>4 DEF RecordFits, Gains, SignedOrdersPayable, ChainGains

\* A step that leaves the chain alone.
LEMMA ChainStill ==
    ASSUME ChainOK, UNCHANGED <<environment, impls, proxies>>, mishaps' \in 0 .. MaxMishaps
    PROVE  ChainOK' /\ (RecordOK /\ UNCHANGED record => RecordOK')
  BY DEF ChainOK, RecordOK, Recorded, RecordFits, SignedOrdersPayable

LEMMA MishapCounted ==
    ASSUME ChainOK, Mishap \/ UNCHANGED mishaps
    PROVE  mishaps' \in 0 .. MaxMishaps
  <1>1. MaxMishaps \in Nat
    BY DeploymentAssumption DEF DeploymentAssumption
  <1> QED BY <1>1 DEF ChainOK, Mishap

\* No script: nothing is asked of it.
LEMMA NothingRuns ==
    ASSUME run' = NoScript, impls' \in Nat
    PROVE  RunOK'
  BY DEF NoScript, RunOK, ScriptRuns, HasRouter

\* A script goes on, on the chain as it is.
LEMMA RunGoesOn ==
    ASSUME DeploymentInv, NEW r \in ScriptRuns(impls), run' = r,
           HasRouter(r) => r.proxy \in DOMAIN proxies /\ RunFits(r, proxies[r.proxy]),
           UNCHANGED <<environment, impls, proxies, record>>, Mishap \/ UNCHANGED mishaps
    PROVE  DeploymentInv'
  <1>1. ChainOK' /\ RecordOK'
    BY ChainStill, MishapCounted DEF DeploymentInv
  <1>2. RunOK'
    BY DEF RunOK, Proxy, RunFits, SignedOrdersPayable
  <1> QED BY <1>1, <1>2 DEF DeploymentInv

\* The router of the script becomes q, and the script stays where it is or goes to the next step.
LEMMA RouterBecomes ==
    ASSUME DeploymentInv, HasRouter(run), NEW q \in ProxyRecords(impls), Gains(Proxy, q),
           RunFits(run, q), NEW r \in ScriptRuns(impls), run' = r, r.proxy = run.proxy,
           RunFits(r, q), proxies' = [proxies EXCEPT ![run.proxy] = q],
           UNCHANGED <<environment, impls, record>>, Mishap \/ UNCHANGED mishaps
    PROVE  DeploymentInv'
  <1>1. run.proxy \in DOMAIN proxies
    BY DEF DeploymentInv, RunOK
  <1>2. /\ proxies' \in Seq(ProxyRecords(impls))
        /\ DOMAIN proxies' = DOMAIN proxies
        /\ proxies'[run.proxy] = q
        /\ \A i \in DOMAIN proxies : i # run.proxy => proxies'[i] = proxies[i]
    BY <1>1 DEF DeploymentInv, ChainOK
  <1>3. ChainOK'
    BY <1>2, MishapCounted DEF DeploymentInv, ChainOK
  <1>4. \A i \in DOMAIN proxies : Gains(proxies[i], proxies'[i])
    <2> SUFFICES ASSUME NEW i \in DOMAIN proxies, i # run.proxy PROVE Gains(proxies[i], proxies[i])
      BY <1>2 DEF Proxy
    <2>1. proxies[i] \in ProxyRecords(impls) /\ impls \in Nat
      BY DeploymentAssumption DEF DeploymentInv, ChainOK, DeploymentAssumption
    <2> QED BY <2>1 DEF Gains, ProxyRecords
  <1>5. RecordOK'
    BY <1>2, <1>3, <1>4, RecordKept DEF DeploymentInv, ChainGains
  <1>6. RunOK'
    BY <1>1, <1>2 DEF RunOK, Proxy, RunFits, SignedOrdersPayable
  <1> QED BY <1>3, <1>5, <1>6 DEF DeploymentInv

LaterSteps == {"signer", "allowlist", "verify", "guardian", "record", "tokens"}

\* The script throws.
LEMMA Thrown ==
    ASSUME DeploymentInv, Throws, UNCHANGED <<environment, impls, record>>
    PROVE  DeploymentInv'
  <1>1. impls \in Nat
    BY DeploymentAssumption DEF DeploymentInv, ChainOK, DeploymentAssumption
  <1>2. RunOK'
    BY <1>1, NothingRuns DEF Throws, Done
  <1>3. ChainOK' /\ RecordOK'
    BY ChainStill, MishapCounted DEF Throws, DeploymentInv
  <1> QED BY <1>2, <1>3 DEF DeploymentInv

\* The owner's transaction makes the router q, on the way to step next; or it throws.
LEMMA OwnersStep ==
    ASSUME DeploymentInv, HasRouter(run), NEW q \in ProxyRecords(impls), Gains(Proxy, q),
           RunFits(run, q), NEW next \in LaterSteps,
           next \in {"guardian", "record"} => SignedOrdersPayable(q) /\ q.impl = run.impl,
           ByOwner(q, next), UNCHANGED <<environment, impls, record>>
    PROVE  DeploymentInv'
  <1>1. CASE Throws
    BY <1>1, Thrown
  <1>2. CASE proxies' = [proxies EXCEPT ![run.proxy] = q] /\ Mined(next)
    <2>1. CASE Mishap /\ UNCHANGED run
      <3>1. run \in ScriptRuns(impls) /\ run' = run
        BY <2>1 DEF DeploymentInv, RunOK
      <3> QED BY <1>2, <2>1, <3>1, RouterBecomes
    <2>2. CASE Go(next) /\ UNCHANGED mishaps
      <3> DEFINE r == [run EXCEPT !.step = next]
      <3>1. run \in ScriptRuns(impls) /\ run' = r
        BY <2>2 DEF DeploymentInv, RunOK, Go
      <3>2. r \in ScriptRuns(impls)
        BY <3>1 DEF ScriptRuns, LaterSteps
      <3>3. r.step = next /\ r.proxy = run.proxy /\ r.impl = run.impl
        BY <3>1 DEF ScriptRuns
      <3>4. RunFits(r, q)
        BY <3>3 DEF RunFits, LaterSteps
      <3> HIDE DEF r
      <3> QED BY <1>2, <2>2, <3>1, <3>2, <3>3, <3>4, RouterBecomes
    <2> QED BY <1>2, <2>1, <2>2 DEF Mined
  <1> QED BY <1>1, <1>2 DEF ByOwner

\* What is known of a script's router.
LEMMA RouterKnown ==
    ASSUME DeploymentInv, HasRouter(run)
    PROVE  /\ run.proxy \in DOMAIN proxies
           /\ Proxy \in ProxyRecords(impls)
           /\ run \in ScriptRuns(impls)
           /\ RunFits(run, Proxy)
           /\ Proxy.impl \in Nat /\ run.impl \in 0 .. impls
           /\ Gains(Proxy, Proxy)
  <1>1. run.proxy \in DOMAIN proxies /\ RunFits(run, Proxy) /\ run \in ScriptRuns(impls)
    BY DEF DeploymentInv, RunOK
  <1>2. Proxy \in ProxyRecords(impls) /\ impls \in Nat
    BY <1>1, DeploymentAssumption DEF DeploymentInv, ChainOK, Proxy, DeploymentAssumption
  <1>3. run.impl \in 0 .. impls /\ Proxy.impl \in Nat
    BY <1>1, <1>2 DEF ScriptRuns, ProxyRecords
  <1> QED BY <1>1, <1>2, <1>3 DEF Gains

LEMMA InitializeSigningKeeps ==
    ASSUME DeploymentInv, InitializeSigning
    PROVE  DeploymentInv'
  <1>1. run.step = "signing" /\ HasRouter(run)
    BY DEF InitializeSigning, HasRouter
  <1>2. CASE Throws
    BY <1>2, Thrown DEF InitializeSigning
  <1>3. CASE ByOwner([Proxy EXCEPT !.signing = TRUE], "signer")
    <2> DEFINE q == [Proxy EXCEPT !.signing = TRUE]
    <2>1. q \in ProxyRecords(impls)
      BY <1>1, RouterKnown DEF ProxyRecords
    <2>2. Gains(Proxy, q)
      BY <1>1, RouterKnown DEF ProxyRecords, Gains
    <2>3. RunFits(run, q)
      BY <1>1 DEF RunFits
    <2> HIDE DEF q
    <2>4. ByOwner(q, "signer") /\ UNCHANGED <<environment, impls, record>>
      BY <1>3 DEF q, InitializeSigning
    <2> QED BY <1>1, <2>1, <2>2, <2>3, <2>4, OwnersStep DEF LaterSteps
  <1> QED BY <1>2, <1>3 DEF InitializeSigning

LEMMA UpgradeKeeps ==
    ASSUME DeploymentInv, UpgradeToAndCall
    PROVE  DeploymentInv'
  <1>1. run.step = "upgrade" /\ HasRouter(run) /\ UNCHANGED <<environment, impls, record>>
    BY DEF UpgradeToAndCall, HasRouter
  <1> DEFINE q == [Proxy EXCEPT !.impl = run.impl, !.signing = BuildInitData \/ @]
  <1>2. CASE Throws
    BY <1>1, <1>2, Thrown
  <1>3. CASE ByOwner(q, "signer")
    <2>1. Proxy.impl <= run.impl
      BY <1>1, RouterKnown DEF RunFits
    <2>2. BuildInitData \in BOOLEAN
      BY <1>1, RouterKnown DEF BuildInitData, ScriptRuns
    <2>3. q \in ProxyRecords(impls)
      BY <1>1, <2>2, RouterKnown DEF ProxyRecords
    <2>4. q.impl = run.impl /\ q.signing = (BuildInitData \/ Proxy.signing) /\ q.signer = Proxy.signer
      BY <1>1, RouterKnown DEF ProxyRecords
    <2> HIDE DEF q
    <2>5. Gains(Proxy, q)
      BY <2>1, <2>4 DEF Gains
    <2>6. RunFits(run, q)
      BY <1>1, <2>4, RouterKnown DEF RunFits
    <2> QED BY <1>1, <1>3, <2>3, <2>5, <2>6, OwnersStep DEF LaterSteps
  <1> QED BY <1>2, <1>3 DEF UpgradeToAndCall

\* The script goes on to another step, and nothing else changes.
LEMMA StepGoesOn ==
    ASSUME DeploymentInv, HasRouter(run), NEW next \in LaterSteps \cup {"transfer"},
           next \in {"transfer", "guardian", "record"} =>
              SignedOrdersPayable(Proxy) /\ Proxy.impl = run.impl,
           Go(next), UNCHANGED <<environment, impls, proxies, record>>,
           Mishap \/ UNCHANGED mishaps
    PROVE  DeploymentInv'
  <1> DEFINE r == [run EXCEPT !.step = next]
  <1>1. run \in ScriptRuns(impls) /\ run' = r
    BY DEF DeploymentInv, RunOK, Go
  <1>2. r \in ScriptRuns(impls)
    BY <1>1 DEF ScriptRuns, LaterSteps
  <1>3. r.step = next /\ r.proxy = run.proxy /\ r.impl = run.impl
    BY <1>1 DEF ScriptRuns
  <1>4. RunFits(r, Proxy)
    BY <1>3 DEF RunFits, LaterSteps
  <1>5. r.proxy \in DOMAIN proxies /\ RunFits(r, proxies[r.proxy])
    BY <1>3, <1>4, RouterKnown DEF Proxy
  <1> HIDE DEF r
  <1> QED BY <1>1, <1>2, <1>5, RunGoesOn

LEMMA SetSignerKeeps ==
    ASSUME DeploymentInv, SetSigner
    PROVE  DeploymentInv'
  <1> DEFINE next == IF run.script = "deploy" THEN "allowlist" ELSE "verify"
  <1>1. run.step = "signer" /\ HasRouter(run) /\ UNCHANGED <<environment, impls, record>>
    BY DEF SetSigner, HasRouter
  <1>2. next \in {"allowlist", "verify"}
    OBVIOUS
  <1>3. \/ Go(next) /\ UNCHANGED <<proxies, mishaps>>
        \/ ByOwner([Proxy EXCEPT !.signer = TRUE], next)
    BY DEF SetSigner
  <1> HIDE DEF next
  <1>4. CASE Go(next) /\ UNCHANGED <<proxies, mishaps>>
    BY <1>1, <1>2, <1>4, StepGoesOn DEF LaterSteps
  <1>5. CASE ByOwner([Proxy EXCEPT !.signer = TRUE], next)
    <2> DEFINE q == [Proxy EXCEPT !.signer = TRUE]
    <2>1. q \in ProxyRecords(impls)
      BY <1>1, RouterKnown DEF ProxyRecords
    <2>2. Gains(Proxy, q)
      BY <1>1, RouterKnown DEF ProxyRecords, Gains
    <2>3. RunFits(run, q)
      BY <1>1 DEF RunFits
    <2> HIDE DEF q
    <2>4. ByOwner(q, next)
      BY <1>5 DEF q
    <2> QED BY <1>1, <1>2, <2>1, <2>2, <2>3, <2>4, OwnersStep DEF LaterSteps
  <1> QED BY <1>3, <1>4, <1>5

LEMMA AcceptAssetKeeps ==
    ASSUME DeploymentInv, NEW a \in {Native} \cup Tokens, AcceptAsset(a)
    PROVE  DeploymentInv'
  <1> DEFINE next == IF run.script = "deploy" THEN "verify" ELSE "tokens"
             accepted == Proxy.accepted \cup {a}
             q == [Proxy EXCEPT !.accepted = accepted]
  <1>1. run.step = "allowlist" /\ HasRouter(run) /\ UNCHANGED <<environment, impls, record>>
    BY DEF AcceptAsset, HasRouter
  <1>2. next \in {"verify", "tokens"}
    OBVIOUS
  <1>3. ByOwner(q, next)
    BY DEF AcceptAsset
  <1> HIDE DEF next
  <1>4. accepted \in SUBSET ({Native} \cup Tokens)
    BY <1>1, RouterKnown DEF ProxyRecords
  <1> HIDE DEF accepted
  <1>5. q \in ProxyRecords(impls)
    BY <1>1, <1>4, RouterKnown DEF ProxyRecords
  <1>6. Gains(Proxy, q)
    BY <1>1, RouterKnown DEF ProxyRecords, Gains
  <1>7. RunFits(run, q)
    BY <1>1 DEF RunFits
  <1> HIDE DEF q
  <1> QED BY <1>1, <1>2, <1>3, <1>5, <1>6, <1>7, OwnersStep DEF LaterSteps

LEMMA TransferKeeps ==
    ASSUME DeploymentInv, TransferOwnership
    PROVE  DeploymentInv'
  <1> DEFINE q == [Proxy EXCEPT !.heir = "timelock"]
  <1>1. run.step = "transfer" /\ HasRouter(run) /\ UNCHANGED <<environment, impls, record>>
    BY DEF TransferOwnership, HasRouter
  <1>2. ByOwner(q, "guardian")
    BY DEF TransferOwnership
  <1>3. q \in ProxyRecords(impls)
    BY <1>1, RouterKnown DEF ProxyRecords
  <1>4. q.impl = Proxy.impl /\ q.signing = Proxy.signing /\ q.signer = Proxy.signer
    BY <1>1, RouterKnown DEF ProxyRecords
  <1> HIDE DEF q
  <1>5. Gains(Proxy, q) /\ RunFits(run, q) /\ SignedOrdersPayable(q) /\ q.impl = run.impl
    BY <1>1, <1>4, RouterKnown DEF Gains, RunFits, SignedOrdersPayable
  <1> QED BY <1>1, <1>2, <1>3, <1>5, OwnersStep DEF LaterSteps

LEMMA GuardianKeeps ==
    ASSUME DeploymentInv, SetPauseGuardian
    PROVE  DeploymentInv'
  <1>1. run.step = "guardian" /\ HasRouter(run) /\ UNCHANGED <<environment, impls, record>>
    BY DEF SetPauseGuardian, HasRouter
  <1>2. SignedOrdersPayable(Proxy) /\ Proxy.impl = run.impl
    BY <1>1, RouterKnown DEF RunFits
  <1> QED BY <1>1, <1>2, RouterKnown, OwnersStep DEF LaterSteps, SetPauseGuardian

LEMMA ImplsTyped ==
    ASSUME ChainOK
    PROVE  impls \in Nat
  BY DeploymentAssumption DEF ChainOK, DeploymentAssumption

\* A script begins on an implementation, or on the router of the record.
LEMMA BeginKeeps ==
    ASSUME DeploymentInv, NEW script \in {"deploy", "upgrade", "allow"},
           NEW step \in {"impl", "owner"}, NEW p \in Nat,
           script # "deploy" => record # NoRecord /\ p = record.proxy,
           step = "owner" => script # "deploy",
           Begin(script, step, p), UNCHANGED <<environment, impls, proxies, record, mishaps>>
    PROVE  DeploymentInv'
  <1> DEFINE r == [NoScript EXCEPT !.script = script, !.step = step, !.proxy = p]
  <1>1. NoScript \in ScriptRuns(impls)
    <2>1. impls \in Nat
      BY ImplsTyped DEF DeploymentInv
    <2> QED BY <2>1 DEF NoScript, ScriptRuns
  <1>2. r \in ScriptRuns(impls)
    BY <1>1 DEF ScriptRuns
  <1>3. r.step = step /\ r.script = script /\ r.proxy = p
    BY <1>1 DEF ScriptRuns
  <1>4. run' = r
    BY DEF Begin
  <1> HIDE DEF r
  <1>5. HasRouter(r) => r.proxy \in DOMAIN proxies /\ RunFits(r, proxies[r.proxy])
    BY <1>3 DEF HasRouter, RunFits, DeploymentInv, RecordOK
  <1> QED BY <1>2, <1>4, <1>5, RunGoesOn

LEMMA OperatorKeeps ==
    ASSUME DeploymentInv, Rerun \/ Release
    PROVE  DeploymentInv'
  <1>1. record # NoRecord => record.proxy \in Nat
    BY DEF DeploymentInv, RecordOK, ChainOK
  <1>2. UNCHANGED <<environment, impls, proxies, record, mishaps>>
    BY DEF Rerun, Release
  <1>3. \/ Begin("deploy", "impl", 0)
        \/ record # NoRecord /\ Begin("upgrade", "impl", record.proxy)
        \/ record # NoRecord /\ Begin("allow", "owner", record.proxy)
    BY DEF Rerun, Release, RouterReady, Upgraded
  <1>4. CASE Begin("deploy", "impl", 0)
    BY <1>2, <1>4, BeginKeeps
  <1>5. CASE record # NoRecord /\ Begin("upgrade", "impl", record.proxy)
    BY <1>1, <1>2, <1>5, BeginKeeps
  <1>6. CASE record # NoRecord /\ Begin("allow", "owner", record.proxy)
    BY <1>1, <1>2, <1>6, BeginKeeps
  <1> QED BY <1>3, <1>4, <1>5, <1>6

LEMMA ImplementationKeeps ==
    ASSUME DeploymentInv, DeployImplementation
    PROVE  DeploymentInv'
  <1>1. /\ run.step = "impl" /\ impls' = impls + 1 /\ UNCHANGED <<environment, proxies, record>>
        /\ impls < 1 + MaxMishaps + MaxReleases
        /\ Mishap \/ UNCHANGED mishaps
    BY DEF DeployImplementation
  <1>2. /\ impls \in Nat /\ impls' \in Nat /\ impls <= impls'
        /\ impls' \in 0 .. 1 + MaxMishaps + MaxReleases
    BY <1>1, ImplsTyped, DeploymentAssumption DEF DeploymentInv, DeploymentAssumption
  <1>3. ProxyRecords(impls) \subseteq ProxyRecords(impls') /\ ScriptRuns(impls) \subseteq ScriptRuns(impls')
    <2> DEFINE n == impls
               m == impls'
    <2>1. n \in Nat /\ m \in Nat /\ n <= m
      BY <1>2
    <2> HIDE DEF n, m
    <2>2. ProxyRecords(n) \subseteq ProxyRecords(m) /\ ScriptRuns(n) \subseteq ScriptRuns(m)
      BY <2>1, MoreImplementations
    <2> QED BY <2>2 DEF n, m
  <1>4. ChainOK'
    <2>1. proxies \in Seq(ProxyRecords(impls))
      BY DEF DeploymentInv, ChainOK
    <2>2. proxies \in Seq(ProxyRecords(impls'))
      BY <1>3, <2>1
    <2>3. mishaps' \in 0 .. MaxMishaps /\ environment \in [signer : BOOLEAN, multisig : BOOLEAN]
      BY <1>1, MishapCounted DEF DeploymentInv, ChainOK
    <2> QED BY <1>1, <1>2, <2>2, <2>3 DEF ChainOK
  <1>5. RecordOK'
    BY <1>1 DEF DeploymentInv, RecordOK, Recorded, RecordFits, SignedOrdersPayable
  <1>6. run \in ScriptRuns(impls)
    BY DEF DeploymentInv, RunOK
  <1>7. CASE UNCHANGED run
    <2>1. HasRouter(run) => run.proxy \in DOMAIN proxies /\ RunFits(run, Proxy)
      BY DEF DeploymentInv, RunOK
    <2>2. RunOK'
      BY <1>1, <1>3, <1>6, <1>7, <2>1 DEF RunOK, Proxy, RunFits, SignedOrdersPayable
    <2> QED BY <1>4, <1>5, <2>2 DEF DeploymentInv
  <1>8. CASE run' = [run EXCEPT !.impl = impls',
                               !.step = IF run.script = "deploy" THEN "proxy" ELSE "read"]
    <2> DEFINE step == IF run.script = "deploy" THEN "proxy" ELSE "read"
               m == impls'
               r == [run EXCEPT !.impl = m, !.step = step]
    <2>1. run' = r
      BY <1>8
    <2>2. m \in Nat /\ run \in ScriptRuns(m)
      BY <1>2, <1>3, <1>6
    <2>3. step \in {"proxy", "read"} /\ (step = "read" => run.script # "deploy")
      OBVIOUS
    <2> HIDE DEF step, m
    <2>4. r \in ScriptRuns(m)
      <3>1. m \in 0 .. m
        BY <2>2
      <3>2. step \in {"none", "impl", "proxy", "signing", "read", "upgrade", "signer",
                     "allowlist", "verify", "transfer", "guardian", "record", "owner", "tokens"}
        BY <2>3
      <3> QED BY <2>2, <3>1, <3>2 DEF ScriptRuns
    <2>5. r.impl = m /\ r.step = step /\ r.proxy = run.proxy
      BY <2>2 DEF ScriptRuns
    <2> HIDE DEF r
    <2>6. step = "read" => r.proxy \in DOMAIN proxies /\ proxies[r.proxy].impl <= r.impl
      <3> SUFFICES ASSUME step = "read"
                   PROVE  r.proxy \in DOMAIN proxies /\ proxies[r.proxy].impl <= r.impl
        OBVIOUS
      <3>1. HasRouter(run)
        BY <1>1, <2>3 DEF HasRouter
      <3>2. run.proxy \in DOMAIN proxies /\ Proxy \in ProxyRecords(impls)
        BY <3>1, RouterKnown
      <3>3. Proxy.impl \in 0 .. impls
        BY <3>2 DEF ProxyRecords
      <3>4. Proxy.impl <= m
        BY <1>2, <3>3 DEF m
      <3> QED BY <2>5, <3>2, <3>4 DEF Proxy
    <2>7. HasRouter(r) => r.proxy \in DOMAIN proxies /\ RunFits(r, proxies[r.proxy])
      BY <2>3, <2>5, <2>6 DEF HasRouter, RunFits
    <2>8. RunOK'
      BY <1>1, <2>1, <2>4, <2>7 DEF RunOK, Proxy, RunFits, SignedOrdersPayable, m
    <2> QED BY <1>4, <1>5, <2>8 DEF DeploymentInv
  <1> QED BY <1>7, <1>8 DEF DeployImplementation

LEMMA ProxyKeeps ==
    ASSUME DeploymentInv, DeployProxy
    PROVE  DeploymentInv'
  <1> DEFINE q == NewProxy(run.impl)
  <1>1. /\ run.step = "proxy" /\ proxies' = Append(proxies, q)
        /\ UNCHANGED <<environment, impls, record>>
        /\ Mishap \/ UNCHANGED mishaps
    BY DEF DeployProxy
  <1>2. impls \in Nat /\ run \in ScriptRuns(impls)
    BY ImplsTyped DEF DeploymentInv, RunOK
  <1>3. q \in ProxyRecords(impls)
    BY <1>2 DEF NewProxy, ProxyRecords, ScriptRuns
  <1> HIDE DEF q
  <1>4. proxies \in Seq(ProxyRecords(impls))
    BY DEF DeploymentInv, ChainOK
  <1>5. /\ proxies' \in Seq(ProxyRecords(impls))
        /\ DOMAIN proxies \subseteq DOMAIN proxies'
        /\ Len(proxies') \in DOMAIN proxies' /\ Len(proxies') \in Nat
        /\ \A i \in DOMAIN proxies : proxies'[i] = proxies[i]
    BY <1>1, <1>3, <1>4
  <1>6. ChainOK'
    BY <1>1, <1>5, MishapCounted DEF DeploymentInv, ChainOK
  <1>7. \A i \in DOMAIN proxies : Gains(proxies[i], proxies'[i])
    <2> SUFFICES ASSUME NEW i \in DOMAIN proxies PROVE Gains(proxies[i], proxies[i])
      BY <1>5
    <2>1. proxies[i] \in ProxyRecords(impls)
      BY <1>4
    <2> QED BY <1>2, <2>1 DEF Gains, ProxyRecords
  <1>8. RecordOK'
    BY <1>1, <1>5, <1>6, <1>7, RecordKept DEF DeploymentInv, ChainGains
  <1>9. CASE UNCHANGED run
    <2>1. RunOK'
      BY <1>1, <1>2, <1>9 DEF RunOK, HasRouter
    <2> QED BY <1>6, <1>8, <2>1 DEF DeploymentInv
  <1>10. CASE run' = [run EXCEPT !.proxy = Len(proxies'), !.step = "signing", !.todo = {Native}]
    <2> DEFINE p == Len(proxies')
               todo == {Native}
               r == [run EXCEPT !.proxy = p, !.step = "signing", !.todo = todo]
    <2>1. run' = r
      BY <1>10
    <2>2. p \in DOMAIN proxies' /\ p \in Nat /\ todo \in SUBSET ({Native} \cup Tokens)
      BY <1>5
    <2> HIDE DEF p, todo
    <2>3. r \in ScriptRuns(impls) /\ r.step = "signing" /\ r.proxy = p
      BY <1>2, <2>2 DEF ScriptRuns
    <2> HIDE DEF r
    <2>4. RunOK'
      BY <1>1, <2>1, <2>2, <2>3 DEF RunOK, RunFits
    <2> QED BY <1>6, <1>8, <2>4 DEF DeploymentInv
  <1> QED BY <1>9, <1>10 DEF DeployProxy

LEMMA ReadKeeps ==
    ASSUME DeploymentInv, ReadSigningInitialized
    PROVE  DeploymentInv'
  <1>1. run.step = "read" /\ HasRouter(run) /\ UNCHANGED <<environment, impls, proxies, record>>
    BY DEF ReadSigningInitialized, HasRouter
  <1>2. PICK answer \in {Proxy.signing, FALSE} :
          /\ run' = [run EXCEPT !.step = "upgrade", !.initialized = answer]
          /\ Mishap \/ UNCHANGED mishaps
    BY DEF ReadSigningInitialized
  <1>3. answer \in BOOLEAN
    BY <1>1, RouterKnown DEF ProxyRecords
  <1> DEFINE r == [run EXCEPT !.step = "upgrade", !.initialized = answer]
  <1>4. r \in ScriptRuns(impls) /\ r.step = "upgrade" /\ r.proxy = run.proxy /\ r.impl = run.impl
    BY <1>1, <1>3, RouterKnown DEF ScriptRuns
  <1>5. run' = r
    BY <1>2
  <1> HIDE DEF r
  <1>6. r.proxy \in DOMAIN proxies /\ RunFits(r, proxies[r.proxy])
    BY <1>1, <1>4, RouterKnown DEF RunFits, Proxy
  <1> QED BY <1>1, <1>2, <1>4, <1>5, <1>6, RunGoesOn

\* Nothing runs any more, and nothing else changed.
LEMMA RunEnds ==
    ASSUME DeploymentInv, Done, UNCHANGED <<environment, impls, proxies, record>>,
           Mishap \/ UNCHANGED mishaps
    PROVE  DeploymentInv'
  <1>1. RunOK'
    BY ImplsTyped, NothingRuns DEF Done, DeploymentInv
  <1>2. ChainOK' /\ RecordOK'
    BY ChainStill, MishapCounted DEF DeploymentInv
  <1> QED BY <1>1, <1>2 DEF DeploymentInv

LEMMA VerifyKeeps ==
    ASSUME DeploymentInv, Verify
    PROVE  DeploymentInv'
  <1>1. run.step = "verify" /\ HasRouter(run)
        /\ UNCHANGED <<environment, impls, proxies, record, mishaps>>
    BY DEF Verify, HasRouter
  <1>2. CASE Done
    BY <1>1, <1>2, RunEnds
  <1>3. CASE SignedOrdersPayable(Proxy) /\ Proxy.impl = run.impl
             /\ \E next \in {"transfer", "guardian", "record"} : Go(next)
    BY <1>1, <1>3, StepGoesOn DEF LaterSteps
  <1> QED BY <1>2, <1>3 DEF Verify

LEMMA WriteRecordKeeps ==
    ASSUME DeploymentInv, WriteRecord
    PROVE  DeploymentInv'
  <1>1. /\ run.step = "record" /\ HasRouter(run)
        /\ UNCHANGED <<environment, impls, proxies, mishaps>> /\ run' = NoScript
        /\ record' = [proxy |-> run.proxy, impl |-> run.impl]
    BY DEF WriteRecord, HasRouter, Done
  <1>2. SignedOrdersPayable(Proxy) /\ Proxy.impl = run.impl /\ run.proxy \in DOMAIN proxies
        /\ Proxy.impl \in Nat
    BY <1>1, RouterKnown DEF RunFits
  <1>3. record'.proxy = run.proxy /\ record'.impl = run.impl
    BY <1>1
  <1>4. RecordOK'
    BY <1>1, <1>2, <1>3 DEF RecordOK, Recorded, RecordFits, SignedOrdersPayable, Proxy
  <1>5. ChainOK'
    BY <1>1, MishapCounted, ChainStill DEF DeploymentInv
  <1>6. RunOK'
    BY <1>1, ImplsTyped, NothingRuns DEF DeploymentInv
  <1> QED BY <1>4, <1>5, <1>6 DEF DeploymentInv

LEMMA CheckOwnerKeeps ==
    ASSUME DeploymentInv, CheckOwner
    PROVE  DeploymentInv'
  <1>1. run.step = "owner" /\ HasRouter(run) /\ UNCHANGED <<environment, impls, proxies, record>>
        /\ (Mishap \/ UNCHANGED mishaps) /\ (Done \/ Go("tokens"))
    BY DEF CheckOwner, HasRouter
  <1> QED BY <1>1, RunEnds, StepGoesOn DEF LaterSteps

LEMMA FindTokensKeeps ==
    ASSUME DeploymentInv, FindTokens
    PROVE  DeploymentInv'
  <1>1. run.step = "tokens" /\ HasRouter(run)
        /\ UNCHANGED <<environment, impls, proxies, record, mishaps>>
    BY Zenon DEF FindTokens, HasRouter
  <1>2. CASE Done
    BY <1>1, <1>2, RunEnds
  <1>3. ASSUME NEW a \in Tokens \ Proxy.accepted, run' = [run EXCEPT !.step = "allowlist", !.todo = {a}]
        PROVE  DeploymentInv'
    <2> DEFINE todo == {a}
               r == [run EXCEPT !.step = "allowlist", !.todo = todo]
    <2>1. run' = r
      BY <1>3
    <2>2. todo \in SUBSET ({Native} \cup Tokens)
      OBVIOUS
    <2> HIDE DEF todo
    <2>3. r \in ScriptRuns(impls) /\ r.step = "allowlist" /\ r.proxy = run.proxy
      BY <1>1, <2>2, RouterKnown DEF ScriptRuns
    <2> HIDE DEF r
    <2>4. r.proxy \in DOMAIN proxies /\ RunFits(r, proxies[r.proxy])
      BY <1>1, <2>3, RouterKnown DEF RunFits
    <2> QED BY <1>1, <2>1, <2>3, <2>4, RunGoesOn
  <1> QED BY <1>2, <1>3, Zenon DEF FindTokens

\* The timelock accepts: a router has another owner, and does what it did.
LEMMA AcceptOwnershipKeeps ==
    ASSUME DeploymentInv, NEW p \in DOMAIN proxies, AcceptOwnership(p)
    PROVE  DeploymentInv'
  <1> DEFINE q == [[proxies[p] EXCEPT !.owner = "timelock"] EXCEPT !.heir = "nobody"]
  <1>1. /\ UNCHANGED <<environment, impls, record, run>> /\ (Mishap \/ UNCHANGED mishaps)
        /\ proxies' = [proxies EXCEPT ![p].owner = "timelock", ![p].heir = "nobody"]
    BY DEF AcceptOwnership
  <1>2. proxies \in Seq(ProxyRecords(impls)) /\ impls \in Nat
    BY ImplsTyped DEF DeploymentInv, ChainOK
  <1>3. proxies[p] \in ProxyRecords(impls)
    BY <1>2
  <1>4. q \in ProxyRecords(impls)
    BY <1>3 DEF ProxyRecords
  <1>5. q.impl = proxies[p].impl /\ q.signing = proxies[p].signing /\ q.signer = proxies[p].signer
    BY <1>3 DEF ProxyRecords
  <1>6. proxies' = [proxies EXCEPT ![p] = q]
    BY <1>1, <1>2
  <1> HIDE DEF q
  <1>7. /\ proxies' \in Seq(ProxyRecords(impls))
        /\ DOMAIN proxies' = DOMAIN proxies
        /\ proxies'[p] = q
        /\ \A i \in DOMAIN proxies : i # p => proxies'[i] = proxies[i]
    BY <1>2, <1>4, <1>6
  <1>8. ChainOK'
    BY <1>1, <1>7, MishapCounted DEF DeploymentInv, ChainOK
  <1>9. \A i \in DOMAIN proxies :
            /\ proxies'[i].impl = proxies[i].impl /\ proxies'[i].signing = proxies[i].signing
            /\ proxies'[i].signer = proxies[i].signer
    BY <1>5, <1>7
  <1>10. \A i \in DOMAIN proxies : Gains(proxies[i], proxies'[i])
    <2> SUFFICES ASSUME NEW i \in DOMAIN proxies PROVE Gains(proxies[i], proxies'[i])
      OBVIOUS
    <2>1. proxies[i] \in ProxyRecords(impls)
      BY <1>2
    <2>2. proxies[i].impl \in Nat
      BY <1>2, <2>1 DEF ProxyRecords
    <2> QED BY <1>9, <2>2 DEF Gains
  <1>11. RecordOK'
    BY <1>1, <1>7, <1>8, <1>10, RecordKept DEF DeploymentInv, ChainGains
  <1>12. RunOK'
    <2>1. run \in ScriptRuns(impls)
      BY DEF DeploymentInv, RunOK
    <2>2. ASSUME HasRouter(run)
          PROVE  (run.proxy \in DOMAIN proxies /\ RunFits(run, proxies[run.proxy]))'
      <3>1. run.proxy \in DOMAIN proxies /\ RunFits(run, proxies[run.proxy])
        BY <2>2 DEF DeploymentInv, RunOK, Proxy
      <3> QED BY <1>1, <1>7, <1>9, <3>1 DEF RunFits, SignedOrdersPayable
    <2> QED BY <1>1, <2>1, <2>2 DEF RunOK, Proxy
  <1> QED BY <1>8, <1>11, <1>12 DEF DeploymentInv

LEMMA DeploymentStep ==
    ASSUME DeploymentInv, DeploymentNext \/ UNCHANGED deploymentVars
    PROVE  DeploymentInv'
  <1>1. CASE Rerun \/ Release
    BY <1>1, OperatorKeeps
  <1>2. CASE ScriptStep
    BY <1>2, ImplementationKeeps, ProxyKeeps, InitializeSigningKeeps, ReadKeeps, UpgradeKeeps,
       SetSignerKeeps, AcceptAssetKeeps, VerifyKeeps, TransferKeeps, GuardianKeeps,
       WriteRecordKeeps, CheckOwnerKeeps, FindTokensKeeps
       DEF ScriptStep
  <1>3. CASE ScriptStops
    BY <1>3, RunEnds DEF ScriptStops
  <1>4. CASE \E p \in DOMAIN proxies : AcceptOwnership(p)
    BY <1>4, AcceptOwnershipKeeps
  <1>5. CASE UNCHANGED deploymentVars
    BY <1>5 DEF deploymentVars, DeploymentInv, ChainOK, RecordOK, RunOK, Recorded, Proxy,
                RecordFits, RunFits, SignedOrdersPayable
  <1> QED BY <1>1, <1>2, <1>3, <1>4, <1>5 DEF DeploymentNext

LEMMA DeploymentImplied ==
    ASSUME DeploymentInv
    PROVE  DeploymentTypeOK
  <1>1. MaxMishaps \in Nat
    BY DeploymentAssumption DEF DeploymentAssumption
  <1> QED BY <1>1 DEF DeploymentInv, ChainOK, RecordOK, RecordFits, ProxyRecords, DeploymentTypeOK

-----------------------------------------------------------------------------
(* The parts side by side.                                                 *)

LEMMA GatewayClock ==
    ASSUME GatewayNext
    PROVE  clock' = clock \/ clock' = clock + 1
  <1>1. ASSUME NEW p \in Plugins,
               \/ \E wish \in Wishes : OrderRequest(p, wish)
               \/ FeedAnswers(p) \/ FillCache(p) \/ FeedFails(p)
               \/ \E s \in Slugs : Allocate(p, s)
               \/ SaveReference(p) \/ AnswerPlugin(p) \/ OrderFails(p)
        PROVE  clock' = clock
    BY <1>1 DEF OrderRequest, FeedAnswers, FillCache, FeedFails, Allocate, SaveReference,
                AnswerPlugin, OrderFails
  <1> QED BY <1>1 DEF GatewayNext, TickTo, GatewayRestart, CustomerMeta, CheckoutReads,
                      CheckoutEnds

LEMMA TokensClock ==
    ASSUME InstallNext \/ SignInNext
    PROVE  clock' = clock \/ clock' = clock + 1
  <1>1. CASE InstallNext
    BY <1>1 DEF InstallNext, Auth, Callback, Exchange, PruneStates, InstallCrash, TickTo
  <1>2. CASE SignInNext
    BY <1>2 DEF SignInNext, Challenge, Login, BeginSession, CommitSession, LoginFails,
                EndSession, TickTo
  <1> QED BY <1>1, <1>2

LEMMA StoresClock ==
    ASSUME StoresNext
    PROVE  clock' = clock \/ clock' = clock + 1
  <1>1. CASE MerchantCalls
    BY <1>1 DEF MerchantCalls, Both, Differing
  <1>2. CASE KeyCalls
    BY <1>2 DEF KeyCalls, Both, Differing
  <1>3. CASE DeliveryCalls
    BY <1>3 DEF DeliveryCalls, FileDelivery, TakeDue, RecordAttempt, Retry, Both, Differing
  <1>4. CASE SessionCalls
    BY <1>4 DEF SessionCalls, Both, Differing
  <1>5. CASE NonceCalls
    BY <1>5 DEF NonceCalls, Both, Differing
  <1>6. CASE ClaimCalls
    BY <1>6 DEF ClaimCalls, Both, Differing
  <1>7. CASE OrderCalls
    BY <1>7 DEF OrderCalls, Both, Differing
  <1>8. CASE ShopCalls
    BY <1>8 DEF ShopCalls, Both, Differing
  <1>9. CASE StateCalls
    BY <1>9 DEF StateCalls, Both, Differing
  <1>10. CASE PendingCalls
    BY <1>10 DEF PendingCalls, Both, Differing
  <1>11. CASE StoreRestart
    BY <1>11 DEF StoreRestart
  <1>12. CASE StoreTick
    BY <1>12 DEF StoreTick, TickTo
  <1> QED BY <1>1, <1>2, <1>3, <1>4, <1>5, <1>6, <1>7, <1>8, <1>9, <1>10, <1>11, <1>12
          DEF StoresNext

\* What every behaviour keeps: the invariants of the parts, and a clock to read.
PartsInv ==
    /\ clock \in Nat
    /\ ConnectorInv
    /\ InstallInv
    /\ SignInInv
    /\ PayoutsInv
    /\ GatewayInv
    /\ CheckoutInv
    /\ ProfilesInv
    /\ StoresInv
    /\ PickerInv
    /\ part \in Parts
    /\ InstallTyped
    /\ SignInTyped
    /\ SecretsShown
    /\ DashboardInv
    /\ DeploymentInv

LEMMA PartsInit == Init => PartsInv
  <1> SUFFICES ASSUME Init PROVE PartsInv
    OBVIOUS
  <1>1. clock = 0
    BY DEF Init
  <1>2. ConnectorInv
    BY ConnectorInitInv DEF Init
  <1>3. InstallInv /\ SignInInv /\ PayoutsInv
    BY InstallInitInv, SignInInitInv, PayoutsInitInv DEF Init
  <1>4. GatewayInv
    BY <1>1, GatewayInitInv DEF Init
  <1>5. CheckoutInv
    BY CheckoutInitInv DEF Init
  <1>6. ProfilesInv
    BY ProfilesInitInv DEF Init
  <1>7. StoresInv
    BY <1>1, StoresInitInv DEF Init
  <1>8. PickerInv
    BY PickerInitInv DEF Init
  <1>9. InstallTyped /\ SignInTyped /\ part \in Parts
    BY InstallInitTyped, SignInInitTyped DEF Init
  <1>10. SecretsShown
    BY SecretsInit DEF Init
  <1>11. DashboardInv /\ DeploymentInv
    BY DashboardInitInv, DeploymentInitInv DEF Init
  <1> QED BY <1>1, <1>2, <1>3, <1>4, <1>5, <1>6, <1>7, <1>8, <1>9, <1>10, <1>11 DEF PartsInv

\* A step of Services is a step of a part or none of its variables change, whichever part.
LEMMA PartsStep ==
    ASSUME [Next]_vars
    PROVE  /\ ConnectorNext \/ UNCHANGED connectorVars
           /\ InstallNext \/ UNCHANGED installVars
           /\ SignInNext \/ UNCHANGED signInVars
           /\ [PayoutsNext]_payoutVars
           /\ GatewayNext \/ UNCHANGED gatewayVars
           /\ [CheckoutNext]_checkoutVars
           /\ [ProfilesNext]_profileVars
           /\ StoresNext \/ UNCHANGED storeVars
           /\ PickerNext \/ UNCHANGED pickerVars
           /\ DashboardNext \/ UNCHANGED dashboardVars
           /\ DeploymentNext \/ UNCHANGED deploymentVars
           /\ part' = part
           /\ clock' = clock \/ clock' = clock + 1
  <1>1. CASE UNCHANGED vars
    BY <1>1 DEF vars
  <1>2. CASE Next
    <2>1. OthersStill
      BY <1>2 DEF Next
    <2>2. /\ part = "connector" => ConnectorNext
          /\ part = "install" => InstallNext
          /\ part = "sign-in" => SignInNext
          /\ part = "payouts" => PayoutsNext
          /\ part = "gateway" => GatewayNext
          /\ part = "checkout" => CheckoutNext
          /\ part = "profiles" => ProfilesNext
          /\ part = "wallets" => PickerNext
          /\ part = "stores" => StoresNext
          /\ part = "dashboard" => DashboardNext
          /\ part = "deployment" => DeploymentNext
          /\ part \in Parts
      BY <1>2 DEF Next, Parts, Untimed
    <2>3. clock' = clock \/ clock' = clock + 1
      BY <2>1, <2>2, ConnectorClock, TokensClock, GatewayClock, StoresClock DEF OthersStill, Parts
    <2> QED BY <2>1, <2>2, <2>3 DEF OthersStill
  <1> QED BY <1>1, <1>2

LEMMA PartsKept == PartsInv /\ [Next]_vars => PartsInv'
  <1> SUFFICES ASSUME PartsInv, [Next]_vars PROVE PartsInv'
    OBVIOUS
  <1>1. /\ ConnectorInv /\ InstallInv /\ SignInInv /\ PayoutsInv /\ GatewayInv /\ CheckoutInv
        /\ ProfilesInv /\ StoresInv /\ PickerInv /\ clock \in Nat
        /\ InstallTyped /\ SignInTyped /\ SecretsShown /\ DashboardInv /\ DeploymentInv
        /\ part \in Parts
    BY DEF PartsInv
  <1>2. ConnectorInv'
    BY <1>1, PartsStep, ConnectorStep
  <1>3. InstallInv' /\ SignInInv'
    BY <1>1, PartsStep, InstallStep, SignInStep
  <1>4. PayoutsInv' /\ CheckoutInv' /\ ProfilesInv'
    BY <1>1, PartsStep, PayoutsStep, CheckoutStep, ProfilesStep
  <1>5. GatewayInv'
    BY <1>1, PartsStep, GatewayStep, GatewayLater
  <1>6. clock' \in Nat
    BY <1>1, PartsStep
  <1>7. StoresInv'
    BY <1>1, PartsStep, StoresStep
  <1>8. PickerInv'
    BY <1>1, PartsStep, PickerStep
  <1>9. InstallTyped' /\ SignInTyped'
    BY <1>1, PartsStep, InstallTypedStep, SignInTypedStep
  <1>10. SecretsShown'
    BY <1>1, PartsStep, SecretsStep
  <1>11. DashboardInv' /\ DeploymentInv'
    BY <1>1, PartsStep, DashboardStep, DeploymentStep
  <1>12. (part \in Parts)'
    BY <1>1, PartsStep
  <1> QED BY <1>2, <1>3, <1>4, <1>5, <1>6, <1>7, <1>8, <1>9, <1>10, <1>11, <1>12 DEF PartsInv

\* Each part's invariant holds for ever, of any number of visitors, logins, requests, orders,
\* shops and chains.
THEOREM PartsCorrect == Spec => []PartsInv
  <1> QED BY PartsInit, PartsKept, PTL DEF Spec

\* ServicesTypeOK: the records of every part have the shape, and keep the relations, that its
\* module states; among them that no merchant has more sessions than the cap and the logins
\* under way allow, that a page shows a secret only of the call that made the record, and that
\* the record of a deployment is of a router that does what it says.
THEOREM ServicesTypeOKAlways == Spec => []ServicesTypeOK
  <1>1. PartsInv => ServicesTypeOK
    BY ConnectorImplied, InstallImplied, SignInImplied, PayoutsImplied, GatewayImplied,
       CheckoutImplied, DeploymentImplied, DashboardImplied, ProfilesImplied, PickerImplied,
       StoresImplied DEF PartsInv, ServicesTypeOK
  <1> QED BY <1>1, PartsCorrect, PTL

\* SaysPaidOnlyIfPaid of Checkout: what the payment pages (checkout, link and Blip's) call paid
\* has been paid on the chain, whatever the wallet answers and whenever the page is reloaded.
THEOREM SaysPaidOnlyIfPaidAlways == Spec => []SaysPaidOnlyIfPaid
  <1>1. PartsInv => SaysPaidOnlyIfPaid
    BY CheckoutImplied DEF PartsInv
  <1> QED BY <1>1, PartsCorrect, PTL

\* LinkFindsMerchant of Payouts: a payment to a link finds its merchant, through every
\* interleaving of logins, declarations and links.
THEOREM LinkFindsMerchantAlways == Spec => []LinkFindsMerchant
  <1>1. PartsInv => LinkFindsMerchant
    BY PayoutsImplied DEF PartsInv
  <1> QED BY <1>1, PartsCorrect, PTL

\* PaymentOnBooks of Connector: a gateway order that a customer was shown is on the connector's
\* books, through crashes, failed calls and webhooks that come twice.
THEOREM PaymentOnBooksAlways == Spec => []PaymentOnBooks
  <1>1. PartsInv => PaymentOnBooks
    BY ConnectorImplied DEF PartsInv
  <1> QED BY <1>1, PartsCorrect, PTL

\* FreshUnlessFailed of GatewayOrders: no order is quoted at a rate older than the cache's life
\* and one answer of the feed, whichever answers overtake each other.
THEOREM FreshUnlessFailedAlways == Spec => []FreshUnlessFailed
  <1>1. PartsInv => FreshUnlessFailed
    BY GatewayImplied DEF PartsInv
  <1> QED BY <1>1, PartsCorrect, PTL

\* ReferenceKept of GatewayOrders: the reference a plugin was told stays its order's, whatever
\* the customer's pages save on it.
THEOREM ReferenceKeptAlways == Spec => []ReferenceKept
  <1>1. PartsInv => ReferenceKept
    BY GatewayImplied DEF PartsInv
  <1> QED BY <1>1, PartsCorrect, PTL

\* Interchangeable of Stores: the store of PostgreSQL and the one of a JSON file, of the backend
\* and of the connector, give the same answers and hold the same rows, whatever calls are made one
\* after another and across restarts, but for the calls they are known to treat differently.
THEOREM InterchangeableAlways == Spec => []Interchangeable
  <1>1. PartsInv => Interchangeable
    BY StoresImplied DEF PartsInv
  <1> QED BY <1>1, PartsCorrect, PTL

\* WalletsKeptApart of WalletPicker: the wallet that sign-in and payments use is the one the user
\* connected last, in whatever order extensions come into the page and whatever they overwrite,
\* unless that one has a twin; who announces itself is on the list; no brand is there twice.
THEOREM WalletsKeptApartAlways == Spec => []WalletsKeptApart
  <1>1. PartsInv => WalletsKeptApart
    BY PickerImplied DEF PartsInv
  <1> QED BY <1>1, PartsCorrect, PTL

\* A step of Services is a step of the abstract tokens, or leaves them as they are: of the
\* install states ...
LEMMA StatesStep ==
    ASSUME PartsInv, [Next]_vars
    PROVE  [OneTimeStates!TokenNext]_(OneTimeStates!tokenVars)
  <1>1. InstallInv /\ clock \in Nat
    BY DEF PartsInv
  <1>2. /\ InstallNext \/ UNCHANGED installVars
        /\ clock' = clock \/ clock' = clock + 1
    BY PartsStep
  <1>3. CASE clock' = clock
    <2>1. \/ begun' = begun /\ exchanges' = exchanges
          \/ \E s \in States, shop \in Shops : OneTimeStates!Issue(s, shop)
          \/ \E s \in States : OneTimeStates!Admit(s)
      BY <1>1, <1>2, <1>3, InstallStep
    <2> QED BY <1>3, <2>1 DEF OneTimeStates!TokenNext, OneTimeStates!tokenVars
  <1>4. CASE clock' # clock
    <2>1. begun' = begun /\ exchanges' = exchanges
      BY <1>1, <1>2, <1>4, InstallStep
    <2> QED BY <1>2, <1>4, <2>1 DEF OneTimeStates!TokenNext, OneTimeStates!PassTime
  <1> QED BY <1>3, <1>4

\* ... and of the login nonces.
LEMMA NoncesStep ==
    ASSUME PartsInv, [Next]_vars
    PROVE  [OneTimeNonces!TokenNext]_(OneTimeNonces!tokenVars)
  <1>1. SignInInv /\ clock \in Nat
    BY DEF PartsInv
  <1>2. /\ SignInNext \/ UNCHANGED signInVars
        /\ clock' = clock \/ clock' = clock + 1
    BY PartsStep
  <1>3. CASE clock' = clock
    <2>1. \/ challenges' = challenges /\ signedIn' = signedIn
          \/ \E n \in Nonces, w \in Wallets : OneTimeNonces!Issue(n, w)
          \/ \E n \in Nonces : OneTimeNonces!Admit(n)
      BY <1>1, <1>2, <1>3, SignInStep
    <2> QED BY <1>3, <2>1 DEF OneTimeNonces!TokenNext, OneTimeNonces!tokenVars
  <1>4. CASE clock' # clock
    <2>1. challenges' = challenges /\ signedIn' = signedIn
      BY <1>1, <1>2, <1>4, SignInStep
    <2> QED BY <1>2, <1>4, <2>1 DEF OneTimeNonces!TokenNext, OneTimeNonces!PassTime
  <1> QED BY <1>3, <1>4

\* TokensAreOneTime: install states and login nonces implement the one-time tokens of
\* OneTimeToken, any number of requests side by side: each admits its holder only, once, in time.
THEOREM TokensAreOneTimeAlways == Spec => TokensAreOneTime
  <1>1. Init => OneTimeStates!TokenInit /\ OneTimeNonces!TokenInit
    BY DEF Init, InstallInit, SignInInit, OneTimeStates!TokenInit, OneTimeNonces!TokenInit
  <1>2. PartsInv /\ [Next]_vars => [OneTimeStates!TokenNext]_(OneTimeStates!tokenVars)
    BY StatesStep
  <1>3. PartsInv /\ [Next]_vars => [OneTimeNonces!TokenNext]_(OneTimeNonces!tokenVars)
    BY NoncesStep
  <1> QED BY <1>1, <1>2, <1>3, PartsCorrect, PTL
          DEF Spec, TokensAreOneTime, StatesAreOneTime, NoncesAreOneTime, OneTimeStates!Spec,
              OneTimeNonces!Spec

\* SettingsKept: a declared payout address gives way only to a login that had read the rows
\* before, and a profile request changes what it was given and nothing else that was not
\* changed under it; a secret that was shown stays.
THEOREM SettingsKeptAlways == Spec => SettingsKept
  <1>1. PartsInv /\ [Next]_vars =>
           [\A c \in Chains :
               payoutRows[c].source = "declared" /\ payoutRows'[c].source = "login" =>
                   \E s \in Seeders : seeders[s] # Rest /\ c \in seeders[s].since]_payoutVars
    BY PartsStep, DeclaredStep DEF PartsInv
  <1>2. PartsInv /\ [Next]_vars =>
           [\A e \in Edits : edits[e].step = "read" /\ edits'[e].step = "saved" =>
               LET given == edits'[e].given
               IN  \A f \in DOMAIN profile : profile'[f] # profile[f] =>
                      \/ f \in DOMAIN given /\ profile'[f] = given[f]
                         /\ (f = "active" => edits[e].by = "admin")
                      \/ f \notin DOMAIN given /\ edits[e].copy[f] # profile[f]]_profileVars
    BY PartsStep, ProfilesStep DEF PartsInv, KeptBy
  <1>3. PartsInv => (\A b \in Boarders : boarders[b].step = "done" /\ Cardinality(Made) = 1
                                             => profile.secret = boarders[b].secret)
    BY SecretKept DEF PartsInv
  <1> QED BY <1>1, <1>2, <1>3, PartsCorrect, PTL DEF Spec, SettingsKept, DeclaredKept, ProfileKept

=============================================================================
