-------------------------------- MODULE Relay --------------------------------
(***************************************************************************)
(* From a payment on the chain to the merchant's webhook: the indexer      *)
(* (backend/src/indexer/indexer.ts), the merchant's record and the         *)
(* requests that create and configure it (backend/src/api/server.ts), over *)
(* the deliveries table and dispatcher of WebhookQueue.                    *)
(*                                                                         *)
(* The indexer, the API and the dispatcher share the store and nothing     *)
(* else: each reads, decides and writes in separate store calls, and the   *)
(* others run in between.                                                  *)
(***************************************************************************)
EXTENDS WebhookQueue, Sequences, SequencesExt

CONSTANTS
    Confirmations,  \* CONFIRMATIONS
    MaxBlockRange,  \* MAX_BLOCK_RANGE
    MaxHead,        \* bound: the chain's last block
    MaxPatches,     \* bound: profile requests explored
    MaxFaults       \* bound: failed calls and ends of the process explored

ASSUME RelayAssumption ==
    /\ IsFiniteSet(Ids)
    /\ {MaxBlockRange, MaxHead} \subseteq Nat \ {0}
    /\ {Confirmations, MaxPatches, MaxFaults} \subseteq Nat

VARIABLES
    head,      \* the chain's head
    blocks,    \* the block of each payment's event; 0 while it is not paid
    purged,    \* paid orders purged from the contract
    cursor,    \* the last block indexed
    indexing,  \* the indexer's tick in progress
    merchant,  \* the merchant's record, resolved by payout address
    request,   \* the onboarding or profile request being served
    spent      \* how much of each bound of this module has been used

relayVars == <<head, blocks, purged, cursor, indexing, merchant, request, spent>>
vars == <<queueVars, relayVars>>

NoMerchant == [url |-> "none"]
NoRequest == [step |-> "none"]
NoTick == [step |-> "none"]

Init ==
    /\ QueueInit
    /\ head = 0
    /\ blocks = [id \in Ids |-> 0]
    /\ purged = {}
    /\ cursor = 0
    /\ indexing = NoTick
    /\ merchant = NoMerchant
    /\ request = NoRequest
    /\ spent = [patches |-> 0, faults |-> 0]

-----------------------------------------------------------------------------
(* The chain.                                                              *)

\* A block with the payments of ids.
NewBlock(ids) ==
    /\ head < MaxHead
    /\ \A id \in ids : blocks[id] = 0
    /\ head' = head + 1
    /\ blocks' = [id \in Ids |-> IF id \in ids THEN head + 1 ELSE blocks[id]]
    /\ UNCHANGED <<queueVars, purged, cursor, indexing, merchant, request, spent>>

\* The merchant purges a paid order.
Purge(id) ==
    /\ blocks[id] # 0
    /\ id \notin purged
    /\ purged' = purged \cup {id}
    /\ UNCHANGED <<queueVars, head, blocks, cursor, indexing, merchant, request, spent>>

-----------------------------------------------------------------------------
(* The indexer: one tick at a time, one event at a time.                   *)

\* The payments of blocks from .. to, in the order of the chain: those of one block in
\* the order of their logs, which may be any.
EventsOf(from, to) ==
    LET found == {id \in Ids : blocks[id] \in from..to}
    IN  {s \in SetToSeqs(found) :
            \A i, j \in DOMAIN s : i < j => blocks[s[i]] <= blocks[s[j]]}

\* Mutant of ScanFrom: the range starts one block late.
ScanFromLate == cursor + 2

ScanFrom == cursor + 1

\* Mutant of SafeHead: the head itself.
UnsafeHead == head

SafeHead == head - Confirmations

\* tick: the cursor, the head and the events of the next final range are read.
TickStart ==
    LET to == Min({SafeHead, cursor + MaxBlockRange})
    IN
    /\ indexing = NoTick
    /\ SafeHead > cursor
    /\ \E events \in EventsOf(ScanFrom, to) :
          indexing' = [step |-> "next", to |-> to, events |-> events]
    /\ UNCHANGED <<queueVars, head, blocks, purged, cursor, merchant, request, spent>>

KeepAllBut == <<queueVars, head, blocks, purged, merchant, request, spent>>

\* The next event, or the end of the range: the cursor moves.
NextEvent ==
    /\ indexing.step = "next"
    /\ IF indexing.events = <<>>
       THEN cursor' = indexing.to /\ indexing' = NoTick
       ELSE indexing' = [indexing EXCEPT !.step = "check"] /\ UNCHANGED cursor
    /\ UNCHANGED KeepAllBut

CurrentEvent == Head(indexing.events)

\* The event is done with.
Skip == indexing' = [indexing EXCEPT !.step = "next", !.events = Tail(@)]

\* processEvent: a payment that is on file already is left alone.
CheckKnown ==
    /\ indexing.step = "check"
    /\ IF rows[CurrentEvent] # NoRow
       THEN Skip
       ELSE indexing' = [indexing EXCEPT !.step = "order"]
    /\ UNCHANGED <<cursor, KeepAllBut>>

\* getOrder at the latest block: an order that is no longer there is passed over.
CheckOrder ==
    /\ indexing.step = "order"
    /\ IF CurrentEvent \in purged
       THEN Skip
       ELSE indexing' = [indexing EXCEPT !.step = "merchant"]
    /\ UNCHANGED <<cursor, KeepAllBut>>

\* getMerchantByPayoutAddress.
FindMerchant ==
    /\ indexing.step = "merchant"
    /\ indexing' = [step |-> "insert", to |-> indexing.to, events |-> indexing.events,
                    found |-> merchant]
    /\ UNCHANGED <<cursor, KeepAllBut>>

\* insertDeliveryIfAbsent.
InsertIfAbsent(id, row) ==
    rows' = IF rows[id] = NoRow THEN [rows EXCEPT ![id] = row] ELSE rows

\* The payment is recorded: to be delivered to the URL that was found, or skipped
\* when no merchant or no URL was.
RecordPayment ==
    /\ indexing.step = "insert"
    /\ InsertIfAbsent(CurrentEvent,
            IF indexing.found.url = Url THEN QueuedRow(Url, now) ELSE SkippedRow(now))
    /\ indexing' = [step |-> "next", to |-> indexing.to, events |-> Tail(indexing.events)]
    /\ UNCHANGED <<now, attempts, retry, active, accepted, refused, used>>
    /\ UNCHANGED <<head, blocks, purged, cursor, merchant, request, spent>>

FaultsLeft == spent.faults + used.crashes < MaxFaults

\* A call fails or times out: the tick ends and the cursor stays.
TickFails ==
    /\ indexing.step \in {"next", "order"}
    /\ FaultsLeft
    /\ spent' = [spent EXCEPT !.faults = @ + 1]
    /\ indexing' = NoTick
    /\ UNCHANGED <<queueVars, head, blocks, purged, cursor, merchant, request>>

-----------------------------------------------------------------------------
(* The merchant's record.                                                  *)

\* Mutant of Skipped: every row of the address.
OnFile == {id \in Ids : rows[id] # NoRow}

Skipped == {id \in Ids : rows[id].status = "skipped"}

\* requeueSkippedForMerchant: every skipped payment of the address is queued, to the
\* URL of the record that was just written.
RequeueSkipped(url) ==
    Requeue([id \in Skipped |-> QueuedRow(url, now)], now)

\* POST /v1/merchants: refused when the merchant exists.
OnboardRead(url) ==
    /\ request = NoRequest
    /\ merchant = NoMerchant
    /\ request' = [step |-> "upsert", url |-> url, requeue |-> TRUE]
    /\ UNCHANGED <<queueVars, head, blocks, purged, cursor, indexing, merchant, spent>>

\* PATCH /v1/me and PATCH /v1/merchants/:address with a webhook URL: what was skipped
\* is queued when the record that was read had no URL.
PatchRead ==
    /\ request = NoRequest
    /\ merchant # NoMerchant
    /\ spent.patches < MaxPatches
    /\ spent' = [spent EXCEPT !.patches = @ + 1]
    /\ request' = [step |-> "upsert", url |-> Url, requeue |-> merchant.url = NoUrl]
    /\ UNCHANGED <<queueVars, head, blocks, purged, cursor, indexing, merchant>>

\* upsertMerchant.
Upsert ==
    /\ request.step = "upsert"
    /\ merchant' = [url |-> request.url]
    /\ request' = IF request.requeue THEN [request EXCEPT !.step = "requeue"] ELSE NoRequest
    /\ UNCHANGED <<queueVars, head, blocks, purged, cursor, indexing, spent>>

RequeueRequest ==
    /\ request.step = "requeue"
    /\ RequeueSkipped(request.url)
    /\ request' = NoRequest
    /\ UNCHANGED <<attempts, retry, active, accepted, used>>
    /\ UNCHANGED <<head, blocks, purged, cursor, indexing, merchant, spent>>

-----------------------------------------------------------------------------

\* The process ends and starts again: the tick, the request and the sweep are gone.
Crash ==
    /\ FaultsLeft
    /\ QueueCrash
    /\ indexing' = NoTick
    /\ request' = NoRequest
    /\ UNCHANGED <<head, blocks, purged, cursor, merchant, spent>>

\* A step of the dispatcher or of an admin's retry.
DeliveryStep ==
    /\ QueueStep
    /\ spent.faults + used'.crashes <= MaxFaults
    /\ UNCHANGED relayVars

IndexerStep ==
    \/ TickStart
    \/ NextEvent
    \/ CheckKnown
    \/ CheckOrder
    \/ FindMerchant
    \/ RecordPayment

Next ==
    \/ \E ids \in SUBSET Ids : NewBlock(ids)
    \/ \E id \in Ids : Purge(id)
    \/ IndexerStep
    \/ TickFails
    \/ \E url \in {NoUrl, Url} : OnboardRead(url)
    \/ PatchRead
    \/ Upsert
    \/ RequeueRequest
    \/ Crash
    \/ DeliveryStep

\* The indexer polls on a timer and its calls time out, the dispatcher sweeps, and the
\* chain grows.
Fairness ==
    /\ WF_vars(IndexerStep)
    /\ WF_vars(Upsert \/ RequeueRequest)
    /\ WF_vars(\E ids \in SUBSET Ids : NewBlock(ids))
    /\ WF_vars(Sweep /\ UNCHANGED relayVars)
    /\ \A id \in Ids : WF_vars(Attempt(id) /\ UNCHANGED relayVars)
    /\ WF_vars(Tick /\ UNCHANGED relayVars)
    /\ WF_vars(Activate /\ UNCHANGED relayVars)

Spec == Init /\ [][Next]_vars /\ Fairness

-----------------------------------------------------------------------------
(* Properties.                                                             *)

\* The cursor never moves past a payment that is not on file, unless its order had
\* been purged before the indexer came to it: crashes, failed calls and half-indexed
\* ranges lose nothing.
CursorCoversPayments ==
    \A id \in Ids :
        blocks[id] \in 1..cursor => rows[id] # NoRow \/ id \in purged

\* Nothing is on file that is not final: each row is a payment with enough
\* confirmations.
OnlyFinalPayments ==
    \A id \in Ids :
        rows[id] # NoRow => blocks[id] # 0 /\ blocks[id] + Confirmations <= head

\* Nothing but an admin's retry opens a delivered row again: neither a range indexed
\* again after a crash or a failed call nor a URL configured while the dispatcher is
\* at work (the idempotency the indexer names).
DeliveredOnce ==
    [][\A id \in Ids :
          rows[id].status = "delivered" /\ rows'[id] # rows[id]
              => retry # NoRetry /\ retry.id = id]_vars

\* Every payment that becomes final is on file in the end, or was purged before.
EventuallyOnFile ==
    \A id \in Ids :
        blocks[id] # 0 /\ blocks[id] + Confirmations <= head
            ~> rows[id] # NoRow \/ id \in purged

\* A delivery that is, or was, to be sent has somewhere to be sent to: payments made
\* while the merchant has no URL are recorded as skipped and stay so until one is
\* configured (OnboardSchema's comment).
QueuedHasUrl ==
    \A id \in Ids : rows[id].status \in {"pending", "failed"} => rows[id].url = Url

\* Once the merchant has a URL and neither a request nor the indexer is at work,
\* no payment is left skipped (the same comment: "re-queued automatically once a URL
\* is configured").
NothingLeftSkipped ==
    /\ request = NoRequest
    /\ indexing = NoTick
    /\ merchant.url = Url
    => \A id \in Ids : rows[id].status # "skipped"

=============================================================================
