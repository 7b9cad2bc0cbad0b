----------------------------- MODULE WebhookQueue -----------------------------
(***************************************************************************)
(* The deliveries table and the webhook dispatcher that works it off       *)
(* (backend/src/webhooks/dispatcher.ts, the deliveries of                  *)
(* backend/src/store/postgres.ts and the admin retry of api/server.ts).    *)
(*                                                                         *)
(* One process sweeps the due deliveries and attempts a batch of them in   *)
(* parallel: each attempt reads the merchant, posts the signed body and    *)
(* writes the outcome back only if the row is still the one it started     *)
(* from.  Every store call is atomic and every handler may be interrupted  *)
(* between two of them, by the other handlers or by the end of the process.*)
(***************************************************************************)
EXTENDS Integers, FiniteSets, FiniteSetsExt

CONSTANTS
    Ids,          \* deliveries: one for each payment event (tx hash : log index)
    NoUrl,        \* the empty webhook URL
    Url,          \* the merchant's webhook endpoint
    MaxAttempts,  \* WEBHOOK_MAX_ATTEMPTS
    MaxBackoff,   \* WEBHOOK_MAX_BACKOFF_MS
    Recheck,      \* DEACTIVATED_RECHECK_MS
    SweepLimit,   \* deliveries one sweep takes (20)
    MaxRetries,   \* bound: admin retries explored
    MaxCrashes,   \* bound: ends of the process and attempts broken off explored
    MaxHolds      \* bound: times a deactivated merchant's deliveries are held

Statuses == {"pending", "delivered", "failed", "skipped"}

ASSUME QueueAssumption ==
    /\ NoUrl # Url
    /\ {MaxAttempts, SweepLimit, Recheck} \subseteq Nat \ {0}
    /\ {MaxBackoff, MaxRetries, MaxCrashes, MaxHolds} \subseteq Nat

VARIABLES
    now,       \* Date.now()
    rows,      \* the deliveries table
    attempts,  \* the sweep's attempts in flight: the row each started from
    retry,     \* the admin retry being served
    active,    \* the merchant's active flag
    accepted,  \* deliveries the merchant's endpoint has answered with a 2xx
    refused,   \* posts refused since the row was last queued
    used       \* how much of each bound has been used

queueVars == <<now, rows, attempts, retry, active, accepted, refused, used>>

NoRow == [status |-> "absent"]
NoAttempt == [step |-> "none"]
NoRetry == [id |-> "none"]

\* A row as processEvent or requeueSkippedForMerchant writes it at time t.
QueuedRow(url, t) ==
    [status |-> "pending", attempts |-> 0, nextAttemptAt |-> t, updatedAt |-> t,
     url |-> url]

SkippedRow(t) ==
    [status |-> "skipped", attempts |-> 0, nextAttemptAt |-> t, updatedAt |-> t,
     url |-> NoUrl]

QueueInit ==
    /\ now = 0
    /\ rows = [id \in Ids |-> NoRow]
    /\ attempts = [id \in Ids |-> NoAttempt]
    /\ retry = NoRetry
    /\ active = TRUE
    /\ accepted = {}
    /\ refused = [id \in Ids |-> 0]
    /\ used = [retries |-> 0, crashes |-> 0, holds |-> 0]

-----------------------------------------------------------------------------
(* The sweep.                                                              *)

Waiting == {id \in Ids : rows[id].status = "pending"}

\* Mutant of DueRows: rows whose time is this very instant are left out.
DueRowsStrictly == {id \in Waiting : rows[id].nextAttemptAt < now}

DueRows == {id \in Waiting : rows[id].nextAttemptAt <= now}

\* getDueDeliveries: the rows that have waited longest, at most SweepLimit of them.
DueBatches ==
    {batch \in SUBSET DueRows :
        /\ Cardinality(batch) = Min({SweepLimit, Cardinality(DueRows)})
        /\ \A id \in batch, other \in DueRows \ batch :
              rows[id].nextAttemptAt <= rows[other].nextAttemptAt}

Sweeping == \E id \in Ids : attempts[id] # NoAttempt

\* tick: one sweep at a time.
Sweep ==
    /\ ~Sweeping
    /\ DueRows # {}
    /\ \E batch \in DueBatches :
          attempts' = [id \in Ids |->
                         IF id \in batch THEN [step |-> "load", row |-> rows[id]]
                         ELSE NoAttempt]
    /\ UNCHANGED <<now, rows, retry, active, accepted, refused, used>>

\* Mutant of Current: updateDelivery instead of updateDeliveryIfCurrent.
ExistingRow(stored, snapshot) == stored # NoRow

\* The guard of updateDeliveryIfCurrent.
Current(stored, snapshot) ==
    /\ stored.status = snapshot.status
    /\ stored.attempts = snapshot.attempts
    /\ stored.nextAttemptAt = snapshot.nextAttemptAt
    /\ stored.updatedAt = snapshot.updatedAt

\* commit: the attempt ends, and its outcome is discarded if the row has changed.
Commit(id, outcome) ==
    /\ rows' = IF Current(rows[id], attempts[id].row)
               THEN [rows EXCEPT ![id] = outcome] ELSE rows
    /\ attempts' = [attempts EXCEPT ![id] = NoAttempt]

\* attempt, the merchant is active: the body is posted to the row's URL.
Post(id) ==
    /\ attempts[id].step = "load"
    /\ active
    /\ attempts' = [attempts EXCEPT ![id].step = "post"]
    /\ UNCHANGED <<now, rows, retry, active, accepted, refused, used>>

\* attempt, the merchant is deactivated: the delivery is held and costs no attempt.
Hold(id) ==
    /\ attempts[id].step = "load"
    /\ ~active
    /\ used.holds < MaxHolds
    /\ used' = [used EXCEPT !.holds = @ + 1]
    /\ Commit(id, [attempts[id].row EXCEPT !.nextAttemptAt = now + Recheck,
                                           !.updatedAt = now])
    /\ UNCHANGED <<now, retry, active, accepted, refused>>

\* The endpoint answers with a 2xx.
Accept(id) ==
    /\ attempts[id].step = "post"
    /\ attempts[id].row.url = Url
    /\ accepted' = accepted \cup {id}
    /\ attempts' = [attempts EXCEPT ![id].step = "accepted"]
    /\ UNCHANGED <<now, rows, retry, active, refused, used>>

\* Any other answer, an error or a timeout; the only outcome of an empty URL.
Refuse(id) ==
    /\ attempts[id].step = "post"
    /\ refused' = [refused EXCEPT ![id] = @ + 1]
    /\ attempts' = [attempts EXCEPT ![id].step = "refused"]
    /\ UNCHANGED <<now, rows, retry, active, accepted, used>>

RecordDelivered(id) ==
    /\ attempts[id].step = "accepted"
    /\ Commit(id, [attempts[id].row EXCEPT !.status = "delivered", !.attempts = @ + 1,
                                           !.updatedAt = now])
    /\ UNCHANGED <<now, retry, active, accepted, refused, used>>

\* Mutant of Exhausted: one attempt too many.
ExhaustedLate(n) == n > MaxAttempts

Exhausted(n) == n >= MaxAttempts

\* A refused post: the delivery fails for good, or waits for a random delay.
RecordRefused(id) ==
    LET row == attempts[id].row
        n == row.attempts + 1
    IN
    /\ attempts[id].step = "refused"
    /\ IF Exhausted(n)
       THEN Commit(id, [row EXCEPT !.status = "failed", !.attempts = n, !.updatedAt = now])
       ELSE \E delay \in 0..MaxBackoff :
              Commit(id, [row EXCEPT !.attempts = n, !.updatedAt = now,
                                     !.nextAttemptAt = now + delay])
    /\ UNCHANGED <<now, retry, active, accepted, refused, used>>

\* safeAttempt: an unexpected error, of a store call for one, breaks the attempt off and
\* nothing is written.
BreakOff(id) ==
    /\ attempts[id] # NoAttempt
    /\ used.crashes < MaxCrashes
    /\ used' = [used EXCEPT !.crashes = @ + 1]
    /\ attempts' = [attempts EXCEPT ![id] = NoAttempt]
    /\ UNCHANGED <<now, rows, retry, active, accepted, refused>>

-----------------------------------------------------------------------------
(* POST /v1/deliveries/:id/retry.                                          *)

\* Mutant of RetryRead: a delivered delivery may be retried.
RetryReadAny(id) ==
    /\ retry = NoRetry
    /\ used.retries < MaxRetries
    /\ rows[id].status \in {"pending", "failed", "delivered"}
    /\ retry' = [id |-> id, row |-> rows[id]]
    /\ used' = [used EXCEPT !.retries = @ + 1]
    /\ UNCHANGED <<now, rows, attempts, active, accepted, refused>>

\* The row is read; delivered and skipped deliveries are refused.
RetryRead(id) ==
    /\ retry = NoRetry
    /\ used.retries < MaxRetries
    /\ rows[id].status \in {"pending", "failed"}
    /\ retry' = [id |-> id, row |-> rows[id]]
    /\ used' = [used EXCEPT !.retries = @ + 1]
    /\ UNCHANGED <<now, rows, attempts, active, accepted, refused>>

\* A write at time t that queues rows afresh: their budget starts anew, unless the
\* write changes nothing.
Requeue(queued, t) ==
    /\ now' = t
    /\ rows' = [id \in Ids |-> IF id \in DOMAIN queued THEN queued[id] ELSE rows[id]]
    /\ refused' = [id \in Ids |-> IF rows'[id] # rows[id] THEN 0 ELSE refused[id]]

\* The row that was read is written back as freshly queued, whatever the stored row
\* has become since; the clock may have moved on.
RetryWrite ==
    /\ retry # NoRetry
    /\ \E t \in {now, now + 1} :
          Requeue([id \in {retry.id} |-> QueuedRow(retry.row.url, t)], t)
    /\ retry' = NoRetry
    /\ UNCHANGED <<attempts, active, accepted, used>>

-----------------------------------------------------------------------------
(* Around the dispatcher.                                                  *)

\* PATCH /v1/merchants/:address with active.
Deactivate ==
    /\ active
    /\ used.holds < MaxHolds
    /\ active' = FALSE
    /\ UNCHANGED <<now, rows, attempts, retry, accepted, refused, used>>

Activate ==
    /\ ~active
    /\ active' = TRUE
    /\ UNCHANGED <<now, rows, attempts, retry, accepted, refused, used>>

\* Time passes while a delivery waits for it.
Tick ==
    /\ \E id \in Waiting : rows[id].nextAttemptAt > now
    /\ now' = now + 1
    /\ UNCHANGED <<rows, attempts, retry, active, accepted, refused, used>>

\* The process ends and starts again: only the store survives.
QueueCrash ==
    /\ used.crashes < MaxCrashes
    /\ used' = [used EXCEPT !.crashes = @ + 1]
    /\ attempts' = [id \in Ids |-> NoAttempt]
    /\ retry' = NoRetry
    /\ UNCHANGED <<now, rows, active, accepted, refused>>

\* A payment event is queued (the indexer's insertDeliveryIfAbsent).
Enqueue(id) ==
    /\ rows[id] = NoRow
    /\ rows' = [rows EXCEPT ![id] = QueuedRow(Url, now)]
    /\ UNCHANGED <<now, attempts, retry, active, accepted, refused, used>>

Attempt(id) ==
    \/ Post(id)
    \/ Hold(id)
    \/ Accept(id)
    \/ Refuse(id)
    \/ RecordDelivered(id)
    \/ RecordRefused(id)

QueueStep ==
    \/ Sweep
    \/ \E id \in Ids : Attempt(id) \/ BreakOff(id) \/ RetryRead(id)
    \/ RetryWrite
    \/ Deactivate
    \/ Activate
    \/ Tick

QueueNext ==
    \/ QueueStep
    \/ QueueCrash
    \/ \E id \in Ids : Enqueue(id)

\* The timer sweeps every second, each attempt goes on (the post has a timeout), and
\* time passes.  A merchant that is deactivated is activated again in the end: while
\* it is not, its deliveries wait.
QueueFairness ==
    /\ WF_queueVars(Sweep)
    /\ \A id \in Ids : WF_queueVars(Attempt(id))
    /\ WF_queueVars(RetryWrite)
    /\ WF_queueVars(Tick)
    /\ WF_queueVars(Activate)

QueueSpec == QueueInit /\ [][QueueNext]_queueVars /\ QueueFairness

-----------------------------------------------------------------------------
(* Properties.                                                             *)

Rows ==
    [status : Statuses, attempts : 0..MaxAttempts, nextAttemptAt : Nat,
     updatedAt : Nat, url : {NoUrl, Url}]

AttemptTypes ==
    [step : {"load", "post", "accepted", "refused"}, row : Rows] \cup {NoAttempt}

\* The type invariant.
QueueTypeOK ==
    /\ now \in Nat
    /\ rows \in [Ids -> Rows \cup {NoRow}]
    /\ attempts \in [Ids -> AttemptTypes]
    /\ retry \in [id : Ids, row : Rows] \cup {NoRetry}
    /\ active \in BOOLEAN
    /\ accepted \subseteq Ids
    /\ refused \in [Ids -> Nat]
    /\ used \in [retries : 0..MaxRetries, crashes : 0..MaxCrashes, holds : 0..MaxHolds]

\* The table never claims what did not happen: a delivered row was accepted by the
\* endpoint, and a row has no more attempts on it, and fails for good on no fewer,
\* than posts were refused since it was last queued.  An attempt in flight when an
\* admin retries the delivery takes nothing from the fresh budget, nor does a crash
\* or a deactivation (the reason commit gives for its compare-and-set).
OutcomeEarned ==
    \A id \in Ids :
        /\ rows[id].status = "delivered" => id \in accepted
        /\ rows[id].status \in {"pending", "failed"} => rows[id].attempts <= refused[id]
        /\ rows[id].status = "failed" => refused[id] >= MaxAttempts

\* A delivered row is opened again only by a retry that had read it before it was
\* delivered: no attempt, sweep, restart or later retry sends a recorded delivery
\* again (the 409 "delivery already delivered").
DeliveredIsFinal ==
    [][\A id \in Ids :
          rows[id].status = "delivered" /\ rows'[id] # rows[id]
              => /\ retry # NoRetry
                 /\ retry.id = id
                 /\ retry.row.status # "delivered"]_queueVars

\* Every queued delivery is delivered or fails in the end, through crashes, retries,
\* deactivations and the sweep's limit.
EventuallySettled ==
    \A id \in Ids :
        rows[id].status = "pending" ~> rows[id].status \in {"delivered", "failed"}

=============================================================================
