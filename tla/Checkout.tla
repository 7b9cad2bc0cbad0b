-------------------------------- MODULE Checkout ------------------------------
(***************************************************************************)
(* A customer at a payment page: the link page                             *)
(* (frontend/src/app/pay/[slug]/page.tsx) and the checkout page            *)
(* (frontend/src/app/checkout/[merchant]/[orderId]/page.tsx), over the     *)
(* wallet and chain calls of frontend/src/lib/payment.ts and evmPayment.ts.*)
(*                                                                         *)
(* Every tap on a button starts an asynchronous attempt that writes the    *)
(* page's one stage as it goes on; nothing ends an attempt when another    *)
(* starts.  A deadline of the page may pass at any moment, so time is not  *)
(* counted.                                                                *)
(***************************************************************************)
EXTENDS Integers, Sequences

CONSTANTS
    Taps,        \* attempts that may run side by side
    Visits,      \* the kinds of visit: the page, the wallet, what the merchant offers
    MaxSends,    \* bound: payment transactions
    MaxReads     \* bound: reads of the order by "try again" at the same time

ASSUME CheckoutAssumption ==
    /\ Visits \subseteq [link : BOOLEAN,    \* the link page, or the checkout page
                         blip : BOOLEAN,    \* Blip's browser, or an extension
                         signed : BOOLEAN,  \* created by its payment, or registered before
                         token : BOOLEAN,   \* in a token, or in the native currency
                         qi : BOOLEAN,      \* payable in Qi too, or not
                         orders : Nat,      \* bound: the orders that the page can come by
                         rivals : BOOLEAN]  \* bound: others pay these orders too, or do not
    /\ \A v \in Visits : (v.signed => v.link) /\ (~v.link => v.orders = 1)
    /\ {MaxSends, MaxReads} \subseteq Nat

VARIABLES
    visit,
    stage,       \* what the page shows
    reads,       \* reads of the order that "try again" waits for
    tries,       \* the attempts to pay
    claims,      \* this wallet's claims: how many orders, the latest, the young ones
    shown,       \* claimedOrderId: the order of the claim answered last, which the receipt names
    sent,        \* the payment transactions sent: the order and the fate of each
    elsewhere,   \* orders paid by somebody else
    qiOrder,     \* the link's order reserved for Qi
    qiAnswer     \* a poll that saw it settled is about to be answered

checkoutVars ==
    <<visit, stage, reads, tries, claims, shown, sent, elsewhere, qiOrder, qiAnswer>>

Idle == [step |-> "idle"]
Screen(name) == [name |-> name]
Failed(fund) == [name |-> "error", fund |-> fund]

CheckoutInit(v) ==
    /\ visit = v
    /\ stage = Screen("loading")
    /\ reads = 0
    /\ tries = [t \in Taps |-> Idle]
    /\ claims = [made |-> IF v.link THEN 0 ELSE 1, latest |-> 0, young |-> {}]
    /\ shown = IF v.link THEN 0 ELSE 1
    /\ sent = <<>>
    /\ elsewhere = {}
    /\ qiOrder = "none"
    /\ qiAnswer = FALSE

Settled(o) ==
    o \in elsewhere \/ \E i \in DOMAIN sent : sent[i].order = o /\ sent[i].fate = "paid"

Proceed(t, step) == tries' = [tries EXCEPT ![t].step = step]

\* An attempt ends; its error replaces whatever is shown.
GiveUp(t, fund) ==
    /\ tries' = [tries EXCEPT ![t] = Idle]
    /\ stage' = Failed(fund)

-----------------------------------------------------------------------------
(* The page.                                                               *)

\* A checkout page is ready only for an open order; a link that cannot be loaded stays so.
LoadPage ==
    /\ stage = Screen("loading")
    /\ \/ stage' = Screen("ready") /\ (visit.link \/ ~Settled(1))
       \/ stage' = Screen("closed")
       \/ ~visit.link /\ stage' = Failed(FALSE)
    /\ UNCHANGED <<visit, reads, tries, claims, shown, sent, elsewhere, qiOrder, qiAnswer>>

\* "Try again": the checkout page reads its order once more ...
TryAgain ==
    /\ stage.name = "error"
    /\ IF visit.link THEN stage' = Screen("ready") /\ UNCHANGED reads
       ELSE /\ reads < MaxReads
            /\ reads' = reads + 1
            /\ stage' = Screen("reloading")
    /\ UNCHANGED <<visit, tries, claims, shown, sent, elsewhere, qiOrder, qiAnswer>>

\* ... and is ready whether it is settled or not, and whatever an attempt has shown since;
\* or the read fails, which leaves the offer to fund as it was.
Reloaded ==
    /\ reads > 0
    /\ reads' = reads - 1
    /\ stage' \in {Screen("ready"), Failed(FALSE), Failed(visit.blip)}
    /\ UNCHANGED <<visit, tries, claims, shown, sent, elsewhere, qiOrder, qiAnswer>>

\* What precedes the payment itself: Blip's app wallet is funded, a token approved.
AfterFunding == IF visit.token THEN "approve" ELSE "prompt"
First == IF visit.blip THEN "fund" ELSE AfterFunding

\* connectAndPay up to its first wait.  The link page shows its button until the wallet is
\* on the network; the checkout page knows its order.
Start(t) ==
    IF visit.link
    THEN tries' = [tries EXCEPT ![t] = [step |-> "network"]] /\ UNCHANGED stage
    ELSE /\ tries' = [tries EXCEPT ![t] = [step |-> First, order |-> 1]]
         /\ stage' = Screen("paying")

\* "Pay", with a wallet that may pay the order, or without.
Tap(t) ==
    /\ tries[t] = Idle
    /\ stage = Screen("ready")
    /\ \/ Start(t)
       \/ stage' = Failed(FALSE) /\ UNCHANGED tries
    /\ UNCHANGED <<visit, reads, claims, shown, sent, elsewhere, qiOrder, qiAnswer>>

\* "Fund app wallet & retry": the button stays while Blip is asked for funds ...
TapFund(t) ==
    /\ tries[t] = Idle
    /\ stage = Failed(TRUE)
    /\ tries' = [tries EXCEPT ![t] = [step |-> "topup"]]
    /\ UNCHANGED <<visit, reads, stage, claims, shown, sent, elsewhere, qiOrder, qiAnswer>>

\* ... and whether they come or not, the payment is tried again.
ToppedUp(t) ==
    /\ tries[t].step = "topup"
    /\ Start(t)
    /\ UNCHANGED <<visit, reads, claims, shown, sent, elsewhere, qiOrder, qiAnswer>>

-----------------------------------------------------------------------------
(* One attempt.                                                            *)

\* ensureNetwork.
OnNetwork(t) ==
    /\ tries[t].step = "network"
    /\ Proceed(t, "claim")
    /\ stage' = Screen("claiming")
    /\ UNCHANGED <<visit, reads, claims, shown, sent, elsewhere, qiOrder, qiAnswer>>

\* POST /v1/links/:slug/claim reads the wallet's latest claim.  While it is young the answer
\* is 429, with the same order; else an order is taken in a later call, ...
CheckClaim(t) ==
    /\ tries[t].step = "claim"
    /\ tries' = [tries EXCEPT ![t] =
           IF claims.latest \in claims.young THEN [step |-> "answer", order |-> claims.latest]
           ELSE [step |-> "take"]]
    /\ UNCHANGED <<visit, reads, stage, claims, shown, sent, elsewhere, qiOrder, qiAnswer>>

\* ... a recycled one, which no young claim has, or a new one, whatever this wallet's other
\* attempts have taken since; as long as the link has redemptions left.
TakeOrder(t) ==
    /\ tries[t].step = "take"
    /\ \E o \in (1 .. claims.made + 1) \ claims.young :
          /\ o <= visit.orders
          /\ claims' = [made |-> IF o > claims.made THEN o ELSE claims.made, latest |-> o,
                        young |-> claims.young \cup {o}]
          /\ tries' = [tries EXCEPT ![t] = [step |-> "answer", order |-> o]]
    /\ UNCHANGED <<visit, reads, stage, shown, sent, elsewhere, qiOrder, qiAnswer>>

\* claimOrderFromLink returns: the page shows this order, whatever it showed before.
Claimed(t) ==
    /\ tries[t].step = "answer"
    /\ shown' = tries[t].order
    /\ stage' = Screen("paying")
    /\ Proceed(t, First)
    /\ UNCHANGED <<visit, reads, claims, sent, elsewhere, qiOrder, qiAnswer>>

\* The app wallet holds enough, or does so before the poll ends.
Funded(t) ==
    /\ tries[t].step = "fund"
    /\ Proceed(t, AfterFunding)
    /\ UNCHANGED <<visit, reads, stage, claims, shown, sent, elsewhere, qiOrder, qiAnswer>>

\* The customer approves the token's allowance.
Approve(t) ==
    /\ tries[t].step = "approve"
    /\ Proceed(t, "approving")
    /\ UNCHANGED <<visit, reads, stage, claims, shown, sent, elsewhere, qiOrder, qiAnswer>>

\* The receipt of the approval is found.
Approved(t) ==
    /\ tries[t].step = "approving"
    /\ Proceed(t, "prompt")
    /\ UNCHANGED <<visit, reads, stage, claims, shown, sent, elsewhere, qiOrder, qiAnswer>>

\* The wallet is refused, or declines; a call fails; a receipt says no, or does not come in
\* time.
StepFails(t) ==
    /\ tries[t].step \in {"network", "claim", "take", "answer", "fund", "approve",
                          "approving", "prompt"}
    /\ GiveUp(t, FALSE)
    /\ UNCHANGED <<visit, reads, claims, shown, sent, elsewhere, qiOrder, qiAnswer>>

\* The app wallet runs short: while it is funded, or when Blip refuses to send for it.
ShortOfFunds(t) ==
    /\ visit.blip
    /\ tries[t].step \in {"fund", "approve", "prompt"}
    /\ GiveUp(t, TRUE)
    /\ UNCHANGED <<visit, reads, claims, shown, sent, elsewhere, qiOrder, qiAnswer>>

Awaiting == Screen("awaiting")

\* The order's own payment, or the signed one that creates its order.
Payment(o) == [order |-> o, fate |-> "pending"]

\* An extension's receipt is awaited before the call returns the hash, Blip's is not.
AfterSending == IF visit.blip THEN "confirm" ELSE "receipt"

\* The customer signs the payment.
SendPayment(t) ==
    /\ tries[t].step = "prompt"
    /\ Len(sent) < MaxSends
    /\ sent' = Append(sent, Payment(tries[t].order))
    /\ tries' = [tries EXCEPT
           ![t] = [step |-> AfterSending, order |-> tries[t].order, tx |-> Len(sent')]]
    /\ stage' = IF visit.blip THEN Awaiting ELSE stage
    /\ UNCHANGED <<visit, reads, claims, shown, elsewhere, qiOrder, qiAnswer>>

\* Mutant of Accepts: the receipt's status is not looked at.
AcceptsMined(tx) == sent[tx].fate # "pending"

\* waitForTxReceipt: a receipt whose status is not 0.
Accepts(tx) == sent[tx].fate = "paid"

ReceiptFound(t) ==
    /\ tries[t].step = "receipt"
    /\ sent[tries[t].tx].fate # "pending"
    /\ IF Accepts(tries[t].tx) THEN Proceed(t, "confirm") /\ stage' = Awaiting
       ELSE GiveUp(t, FALSE)
    /\ UNCHANGED <<visit, reads, claims, shown, sent, elsewhere, qiOrder, qiAnswer>>

\* Mutant of ReceiptDeadline: the poll goes on while the transaction is pending.
NoDeadline(t) ==
    /\ tries[t].step = "receipt"
    /\ sent[tries[t].tx].fate # "pending"
    /\ GiveUp(t, FALSE)
    /\ UNCHANGED <<visit, reads, claims, shown, sent, elsewhere, qiOrder, qiAnswer>>

\* Three minutes have passed: the transaction may still be mined.
ReceiptDeadline(t) ==
    /\ tries[t].step = "receipt"
    /\ GiveUp(t, FALSE)
    /\ UNCHANGED <<visit, reads, claims, shown, sent, elsewhere, qiOrder, qiAnswer>>

\* waitForOnChainConfirmation: the contract or the backend knows the attempt's order as
\* settled; the screen has the attempt's transaction, and whichever order the page shows.
Confirmed(t) ==
    /\ tries[t].step = "confirm"
    /\ Settled(tries[t].order)
    /\ stage' = [name |-> "done", tx |-> tries[t].tx]
    /\ tries' = [tries EXCEPT ![t] = Idle]
    /\ UNCHANGED <<visit, reads, claims, shown, sent, elsewhere, qiOrder, qiAnswer>>

ConfirmDeadline(t) ==
    /\ tries[t].step = "confirm"
    /\ GiveUp(t, FALSE)
    /\ UNCHANGED <<visit, reads, claims, shown, sent, elsewhere, qiOrder, qiAnswer>>

-----------------------------------------------------------------------------
(* The chain, the backend and other customers.                             *)

\* A transaction is mined: it pays an open order, or it reverts for any reason.
Mine(i) ==
    /\ sent[i].fate = "pending"
    /\ \E fate \in IF Settled(sent[i].order) THEN {"reverted"} ELSE {"paid", "reverted"} :
          sent' = [sent EXCEPT ![i].fate = fate]
    /\ UNCHANGED <<visit, reads, stage, tries, claims, shown, elsewhere, qiOrder, qiAnswer>>

\* An order that is registered may be paid by anybody, and a signed one that is recycled by
\* the wallet that has had it before, or has it now.
PaidElsewhere ==
    /\ visit.rivals
    /\ \E o \in 1 .. claims.made :
          /\ ~Settled(o)
          /\ elsewhere' = elsewhere \cup {o}
    /\ UNCHANGED <<visit, reads, stage, tries, claims, shown, sent, qiOrder, qiAnswer>>

\* A claim grows older than DOUBLE_PAY_WINDOW_MS.
ClaimLapses ==
    /\ \E o \in claims.young : claims' = [claims EXCEPT !.young = @ \ {o}]
    /\ UNCHANGED <<visit, reads, stage, tries, shown, sent, elsewhere, qiOrder, qiAnswer>>

-----------------------------------------------------------------------------
(* Paying in Qi: polled only while the page is ready, but an answer on its *)
(* way arrives whatever the page shows by then.                            *)

\* reserveQi, or the Qi record the checkout page was loaded with.
ReserveQi ==
    /\ visit.qi
    /\ stage = Screen("ready")
    /\ qiOrder = "none"
    /\ qiOrder' = "reserved"
    /\ UNCHANGED <<visit, reads, stage, tries, claims, shown, sent, elsewhere, qiAnswer>>

QiArrives ==
    /\ qiOrder = "reserved"
    /\ qiOrder' = "settled"
    /\ UNCHANGED <<visit, reads, stage, tries, claims, shown, sent, elsewhere, qiAnswer>>

\* Mutant of SeenPaid: a reservation is taken for a payment.
SeenReserved == qiOrder # "none"

\* The backend answers 404 for an order the contract does not know.
SeenPaid == qiOrder = "settled" /\ ~visit.signed

PollQi ==
    /\ stage = Screen("ready")
    /\ SeenPaid
    /\ ~qiAnswer
    /\ qiAnswer' = TRUE
    /\ UNCHANGED <<visit, reads, stage, tries, claims, shown, sent, elsewhere, qiOrder>>

QiAnswered ==
    /\ qiAnswer
    /\ qiAnswer' = FALSE
    /\ stage' = Screen("qiSettled")
    /\ UNCHANGED <<visit, reads, tries, claims, shown, sent, elsewhere, qiOrder>>

-----------------------------------------------------------------------------
Advance(t) ==
    \/ ToppedUp(t) \/ OnNetwork(t) \/ CheckClaim(t) \/ TakeOrder(t) \/ Claimed(t)
    \/ Funded(t) \/ Approve(t) \/ Approved(t) \/ StepFails(t) \/ ShortOfFunds(t)
    \/ SendPayment(t) \/ ReceiptFound(t) \/ ReceiptDeadline(t) \/ Confirmed(t) \/ ConfirmDeadline(t)

CheckoutNext ==
    \/ LoadPage \/ TryAgain \/ Reloaded
    \/ \E t \in Taps : Tap(t) \/ TapFund(t) \/ Advance(t)
    \/ \E i \in DOMAIN sent : Mine(i)
    \/ PaidElsewhere \/ ClaimLapses
    \/ ReserveQi \/ QiArrives \/ PollQi \/ QiAnswered

-----------------------------------------------------------------------------
(* Properties.                                                             *)

CheckoutTypeOK ==
    /\ visit \in Visits
    /\ reads \in 0 .. MaxReads
    /\ claims.made \in 0 .. visit.orders
    /\ {claims.latest, shown} \subseteq 0 .. claims.made
    /\ claims.young \subseteq 1 .. claims.made
    /\ \A t \in Taps :
          tries[t].step \notin {"idle", "topup", "network", "claim", "take"} =>
              tries[t].order \in 1 .. claims.made
    /\ \A t \in Taps : tries[t].step \in {"receipt", "confirm"} => tries[t].tx \in DOMAIN sent
    /\ Len(sent) <= MaxSends
    /\ \A i, j \in DOMAIN sent :
          sent[i].fate = "paid" /\ sent[j].fate = "paid" /\ sent[i].order = sent[j].order => i = j

\* The page says that a payment is confirmed only when it is, however many attempts write
\* the stage, whichever orders they claim and whatever answers are late: the order which the
\* transaction shown is for is settled, outside Blip by this very transaction, and Qi has
\* arrived for an order shown as paid in Qi.
SaysPaidOnlyIfPaid ==
    /\ stage.name = "done" =>
          /\ Settled(sent[stage.tx].order)
          /\ visit.blip \/ sent[stage.tx].fate = "paid"
    /\ stage.name = "qiSettled" => qiOrder = "settled"

\* A tap comes to an end, in a confirmation or in an error, although the transaction may
\* never be mined, provided the customer answers the wallet and the nodes answer reads.
EveryAttemptEnds == \A t \in Taps : tries[t] # Idle ~> tries[t] = Idle

=============================================================================
