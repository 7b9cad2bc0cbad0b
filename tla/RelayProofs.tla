----------------------------- MODULE RelayProofs -----------------------------
(***************************************************************************)
(* Proofs about WebhookQueue, for any deliveries, budget of attempts,      *)
(* delays, sweep limit and bounds, then about Relay, the indexer and the   *)
(* requests over the deliveries table, for any payments, confirmations,    *)
(* ranges and chain: what the dispatcher and its retries keep holds there. *)
(***************************************************************************)
EXTENDS Relay, FiniteSetTheorems, TLAPS

-----------------------------------------------------------------------------
(* The deliveries and their dispatcher: the inductive invariant.           *)

\* A row is never dated ahead, and waits only while some of its budget is left.
RowsInv ==
    \A id \in Ids :
        /\ rows[id] # NoRow => rows[id].updatedAt <= now
        /\ rows[id].status = "pending" => rows[id].attempts < MaxAttempts

\* The row an attempt started from was waiting, and the stored one still is, for the same
\* URL.  Once they differ they stay so: no retry can write the first one back, for it
\* is older than a retry, or not freshly queued.
AttemptOK(id) ==
    LET row == attempts[id].row
    IN
    /\ row.status = "pending"
    /\ row.attempts < MaxAttempts
    /\ row.updatedAt <= now
    /\ rows[id].status = "pending"
    /\ rows[id].url = row.url
    /\ rows[id] # row => row.updatedAt < now \/ row # QueuedRow(row.url, row.updatedAt)
    /\ attempts[id].step = "refused" /\ rows[id] = row => row.attempts + 1 <= refused[id]
    /\ attempts[id].step = "accepted" => id \in accepted

AttemptsInv == \A id \in Ids : attempts[id] # NoAttempt => AttemptOK(id)

\* What a retry read was not delivered, and is on file for the same URL.
RetryInv ==
    retry # NoRetry =>
        /\ retry.row.status \in {"pending", "failed"}
        /\ rows[retry.id].status \in {"pending", "delivered", "failed"}
        /\ rows[retry.id].url = retry.row.url

QueueInv == QueueTypeOK /\ RowsInv /\ AttemptsInv /\ RetryInv /\ OutcomeEarned

-----------------------------------------------------------------------------
(* Rows.                                                                   *)

LEMMA RowTypes ==
  ASSUME QueueTypeOK, NEW id \in Ids
  PROVE  /\ rows[id].status # "absent" => rows[id] \in Rows /\ rows[id] # NoRow
         /\ attempts[id] # NoAttempt =>
               /\ attempts[id].row \in Rows
               /\ attempts[id].step \in {"load", "post", "accepted", "refused"}
         /\ attempts[id].step # "none" => attempts[id] # NoAttempt
         /\ refused[id] \in Nat
         /\ now \in Nat
  BY DEF QueueTypeOK, AttemptTypes, NoRow, NoAttempt, Rows, Statuses

\* The fields of a row.
LEMMA RowFields ==
  ASSUME NEW row \in Rows
  PROVE  /\ row.status \in Statuses
         /\ row.attempts \in 0..MaxAttempts
         /\ row.nextAttemptAt \in Nat
         /\ row.updatedAt \in Nat
         /\ row.url \in {NoUrl, Url}
  BY DEF Rows

LEMMA RetryTypes ==
  ASSUME QueueTypeOK, retry # NoRetry
  PROVE  retry.id \in Ids /\ retry.row \in Rows
  BY DEF QueueTypeOK, NoRetry

LEMMA QueuedRowType ==
  ASSUME NEW url \in {NoUrl, Url}, NEW t \in Nat
  PROVE  /\ QueuedRow(url, t) \in Rows
         /\ QueuedRow(url, t).status = "pending"
         /\ QueuedRow(url, t).attempts = 0
         /\ QueuedRow(url, t).updatedAt = t
         /\ QueuedRow(url, t).url = url
  BY QueueAssumption DEF QueuedRow, Rows, Statuses

\* Two rows for one URL that the compare-and-set takes for one are one.
LEMMA CurrentIsSame ==
  ASSUME NEW row \in Rows, NEW stored \in Rows, stored.url = row.url, Current(stored, row)
  PROVE  stored = row
  BY DEF Rows, Current

-----------------------------------------------------------------------------
(* What the steps of an attempt and of a retry keep.                       *)

\* The parts of the invariant that are about one delivery.
DeliveryOK(id) ==
    /\ rows[id] # NoRow => rows[id].updatedAt <= now
    /\ rows[id].status = "pending" => rows[id].attempts < MaxAttempts
    /\ attempts[id] # NoAttempt => AttemptOK(id)
    /\ rows[id].status = "delivered" => id \in accepted
    /\ rows[id].status \in {"pending", "failed"} => rows[id].attempts <= refused[id]
    /\ rows[id].status = "failed" => refused[id] >= MaxAttempts

LEMMA InvByDelivery ==
  /\ QueueInv <=> QueueTypeOK /\ RetryInv /\ \A id \in Ids : DeliveryOK(id)
  /\ QueueTypeOK' /\ RetryInv' /\ (\A id \in Ids : DeliveryOK(id)') => QueueInv'
  BY DEF QueueInv, RowsInv, AttemptsInv, OutcomeEarned, DeliveryOK

\* A delivery whose row and counter a step leaves alone, and whose attempt goes on or ends.
LEMMA SameDelivery ==
  ASSUME QueueInv, NEW id \in Ids, now' \in Nat, now <= now', accepted \subseteq accepted',
         rows'[id] = rows[id], refused'[id] = refused[id],
         attempts'[id] \in {attempts[id], NoAttempt}
  PROVE  DeliveryOK(id)'
  <1>1. DeliveryOK(id) /\ now \in Nat  BY InvByDelivery DEF QueueTypeOK
  <1>2. rows[id] # NoRow => rows[id].updatedAt \in Nat
    <2>1. rows[id] # NoRow => rows[id] \in Rows  BY InvByDelivery DEF QueueTypeOK
    <2> QED  BY <2>1, RowFields
  <1>3. attempts[id] # NoAttempt => attempts[id].row.updatedAt \in Nat
    BY InvByDelivery, RowTypes, RowFields
  <1>4. (attempts[id] # NoAttempt => AttemptOK(id))'
    BY <1>1, <1>3 DEF DeliveryOK, AttemptOK
  <1> QED  BY <1>1, <1>2, <1>4 DEF DeliveryOK

\* An attempt ends and writes its outcome back, or finds the row changed.
LEMMA CommitStep ==
  ASSUME QueueInv, NEW id \in Ids, attempts[id] # NoAttempt, NEW outcome \in Rows,
         Commit(id, outcome), UNCHANGED <<now, retry, accepted, refused>>,
         outcome.status \in {"pending", "delivered", "failed"},
         outcome.updatedAt = now,
         outcome.url = attempts[id].row.url,
         outcome.status = "pending" => outcome.attempts < MaxAttempts,
         outcome.status = "delivered" => id \in accepted,
         outcome.status \in {"pending", "failed"} /\ rows[id] = attempts[id].row
             => outcome.attempts <= refused[id],
         outcome.status = "failed" /\ rows[id] = attempts[id].row
             => refused[id] >= MaxAttempts
  PROVE  /\ rows' \in [Ids -> Rows \cup {NoRow}]
         /\ attempts' \in [Ids -> AttemptTypes]
         /\ RetryInv'
         /\ \A other \in Ids : DeliveryOK(other)'
  <1> USE InvByDelivery
  <1>1. /\ attempts'[id] = NoAttempt
        /\ attempts' \in [Ids -> AttemptTypes]
        /\ \A other \in Ids \ {id} : attempts'[other] = attempts[other]
    BY DEF Commit, QueueTypeOK, AttemptTypes
  <1>2. \/ rows' = rows
        \/ rows[id] = attempts[id].row /\ rows' = [rows EXCEPT ![id] = outcome]
    <2>1. CASE Current(rows[id], attempts[id].row)
      <3>1. AttemptOK(id)  BY DEF DeliveryOK
      <3>2. /\ attempts[id].row \in Rows
            /\ rows[id] \in Rows
            /\ rows[id].url = attempts[id].row.url
        BY <3>1, RowTypes DEF AttemptOK
      <3>3. rows[id] = attempts[id].row  BY <3>2, <2>1, CurrentIsSame
      <3> QED  BY <2>1, <3>3 DEF Commit
    <2>2. CASE ~Current(rows[id], attempts[id].row)  BY <2>2 DEF Commit
    <2> QED  BY <2>1, <2>2
  <1>3. rows' \in [Ids -> Rows \cup {NoRow}]  BY <1>2 DEF QueueTypeOK
  <1>4. \A other \in Ids \ {id} : rows'[other] = rows[other]  BY <1>2 DEF QueueTypeOK
  <1>5. \/ rows'[id] = rows[id]
        \/ rows[id] = attempts[id].row /\ rows'[id] = outcome
    BY <1>2 DEF QueueTypeOK
  <1> now' \in Nat /\ now <= now'  BY DEF QueueTypeOK
  <1>6. \A other \in Ids \ {id} : DeliveryOK(other)'  BY <1>1, <1>4, SameDelivery
  <1>7. DeliveryOK(id)'
    <2>1. CASE rows'[id] = rows[id]  BY <2>1, <1>1, SameDelivery
    <2>2. CASE rows[id] = attempts[id].row /\ rows'[id] = outcome
      BY <2>2, <1>1, RowTypes DEF DeliveryOK
    <2> QED  BY <1>5, <2>1, <2>2
  <1>8. RetryInv'
    <2>1. retry # NoRetry => retry.id \in Ids  BY RetryTypes
    <2>2. attempts[id] # NoAttempt => rows[id].url = attempts[id].row.url
      BY DEF DeliveryOK, AttemptOK
    <2> QED  BY <1>4, <1>5, <2>1, <2>2 DEF RetryInv
  <1> QED  BY <1>1, <1>3, <1>6, <1>7, <1>8

\* The row of a delivery is queued afresh, from a row that was waiting or had failed, for
\* the same URL or from one that no attempt can have started from.
LEMMA RequeuedDelivery ==
  ASSUME QueueInv, NEW id \in Ids, NEW url \in {NoUrl, Url}, NEW t \in Nat, now <= t,
         now' = t, UNCHANGED <<accepted, attempts>>,
         rows'[id] = QueuedRow(url, t),
         refused'[id] = IF rows'[id] # rows[id] THEN 0 ELSE refused[id],
         attempts[id] # NoAttempt => rows[id].url = url
  PROVE  DeliveryOK(id)'
  <1> USE InvByDelivery
  <1> DEFINE row == attempts[id].row
  <1>1. rows'[id] \in Rows /\ rows'[id].status = "pending" /\ rows'[id].attempts = 0
        /\ rows'[id].updatedAt = t /\ rows'[id].url = url
    BY QueuedRowType
  <1>2. refused[id] \in Nat /\ refused'[id] \in Nat /\ MaxAttempts \in Nat \ {0}
    BY RowTypes, QueueAssumption
  <1>3. ASSUME attempts[id] # NoAttempt
        PROVE  AttemptOK(id)'
    <2>1. AttemptOK(id) /\ row \in Rows /\ now \in Nat  BY <1>3, RowTypes DEF DeliveryOK
    <2>2. row.updatedAt \in Nat /\ row.updatedAt <= t  BY <2>1 DEF AttemptOK, Rows
    <2>3. rows[id].url = row.url /\ row.url = url  BY <2>1, <1>3 DEF AttemptOK
    <2>4. rows'[id] # row => row.updatedAt < t \/ row # QueuedRow(row.url, row.updatedAt)
      BY <2>2, <2>3
    <2>5. rows'[id] = row => rows[id] = row
      <3>1. ASSUME rows'[id] = row, rows[id] # row PROVE FALSE
        <4>1. row.updatedAt = t /\ row = QueuedRow(row.url, row.updatedAt)
          BY <3>1, <1>1, <2>3
        <4>2. row.updatedAt < now  BY <3>1, <4>1, <2>1 DEF AttemptOK
        <4> QED  BY <4>1, <4>2, <2>1
      <3> QED  BY <3>1
    <2>6. rows'[id] = row => rows'[id] = rows[id] /\ refused'[id] = refused[id]
      BY <2>5
    <2> QED  BY <1>1, <2>1, <2>2, <2>3, <2>4, <2>5, <2>6 DEF AttemptOK
  <1> QED  BY <1>1, <1>2, <1>3 DEF DeliveryOK

-----------------------------------------------------------------------------
(* The steps.                                                              *)

LEMMA QueueInitInv == QueueInit => QueueInv
  BY QueueAssumption
     DEF QueueInit, QueueInv, QueueTypeOK, RowsInv, AttemptsInv, RetryInv, OutcomeEarned,
         NoRow, NoAttempt, NoRetry, Rows, AttemptTypes

\* A sweep takes waiting rows only.
LEMMA SweepStep == ASSUME QueueInv, Sweep PROVE QueueInv'
  <1> USE InvByDelivery
  <1> PICK batch \in DueBatches :
             attempts' = [id \in Ids |-> IF id \in batch THEN [step |-> "load", row |-> rows[id]]
                                        ELSE NoAttempt]
    BY DEF Sweep
  <1>1. UNCHANGED <<now, rows, retry, active, accepted, refused, used>>  BY DEF Sweep
  <1> now' \in Nat /\ now <= now'  BY <1>1 DEF QueueTypeOK
  <1>2. ASSUME NEW id \in Ids
        PROVE  attempts'[id] \in AttemptTypes /\ DeliveryOK(id)'
    <2>1. CASE id \notin batch
      <3>1. attempts'[id] = NoAttempt  BY <2>1
      <3> QED  BY <1>1, <3>1, SameDelivery DEF AttemptTypes
    <2>2. CASE id \in batch
      <3>1. rows[id].status = "pending"  BY <2>2 DEF DueBatches, DueRows, Waiting
      <3>2. rows[id] \in Rows /\ rows[id] # NoRow  BY <3>1, RowTypes
      <3>3. attempts'[id] = [step |-> "load", row |-> rows[id]]  BY <2>2
      <3>4. attempts'[id] \in AttemptTypes  BY <3>2, <3>3 DEF AttemptTypes
      <3>5. AttemptOK(id)'  BY <1>1, <3>1, <3>2, <3>3 DEF AttemptOK, DeliveryOK
      <3>6. DeliveryOK(id)'  BY <1>1, <3>5 DEF DeliveryOK
      <3> QED  BY <3>4, <3>6
    <2> QED  BY <2>1, <2>2
  <1>3. QueueTypeOK'  BY <1>1, <1>2 DEF QueueTypeOK
  <1> QED  BY <1>1, <1>2, <1>3 DEF RetryInv

\* The body is posted, and the endpoint answers.
LEMMA PostStep ==
  ASSUME QueueInv, NEW id \in Ids, Post(id) \/ Accept(id) \/ Refuse(id)
  PROVE  QueueInv'
  <1> USE InvByDelivery
  <1>1. attempts[id] # NoAttempt  BY DEF Post, Accept, Refuse, NoAttempt
  <1>2. UNCHANGED <<now, rows, retry, active, used>> /\ accepted \subseteq accepted'
    BY DEF Post, Accept, Refuse
  <1>3. PICK step \in {"post", "accepted", "refused"} :
               /\ attempts' = [attempts EXCEPT ![id].step = step]
               /\ step = "accepted" => id \in accepted'
               /\ step = "refused" => refused' = [refused EXCEPT ![id] = @ + 1]
               /\ step # "refused" => UNCHANGED refused
    BY DEF Post, Accept, Refuse
  <1>4. /\ attempts[id].row \in Rows
        /\ attempts[id] \in [step : {"load", "post", "accepted", "refused"}, row : Rows]
    BY <1>1 DEF QueueTypeOK, AttemptTypes
  <1>5. /\ attempts'[id].row = attempts[id].row
        /\ attempts'[id].step = step
        /\ attempts' \in [Ids -> AttemptTypes]
        /\ \A other \in Ids \ {id} : attempts'[other] = attempts[other]
    BY <1>3, <1>4 DEF QueueTypeOK, AttemptTypes
  <1>6. /\ refused[id] \in Nat
        /\ refused' \in [Ids -> Nat]
        /\ refused'[id] = IF step = "refused" THEN refused[id] + 1 ELSE refused[id]
        /\ \A other \in Ids \ {id} : refused'[other] = refused[other]
    BY <1>3 DEF QueueTypeOK
  <1>7. QueueTypeOK'
    BY <1>2, <1>5, <1>6 DEF QueueTypeOK, Post, Accept, Refuse
  <1> now' \in Nat /\ now <= now'  BY <1>2 DEF QueueTypeOK
  <1>8. \A other \in Ids \ {id} : DeliveryOK(other)'  BY <1>2, <1>5, <1>6, SameDelivery
  <1>9. DeliveryOK(id)'
    <2>1. rows[id].status = "pending" /\ rows[id].attempts \in Nat
      <3>1. rows[id].status = "pending"  BY <1>1 DEF DeliveryOK, AttemptOK
      <3> QED  BY <3>1, RowTypes DEF Rows
    <2>2. rows[id].attempts <= refused'[id]  BY <1>6, <2>1 DEF DeliveryOK
    <2>3. AttemptOK(id)'
      <3>1. step = "refused" /\ rows[id] = attempts[id].row
                => attempts[id].row.attempts + 1 <= refused'[id]
        BY <1>6, <2>1 DEF DeliveryOK
      <3> QED  BY <1>1, <1>2, <1>3, <1>5, <3>1 DEF DeliveryOK, AttemptOK
    <2> QED  BY <1>2, <2>1, <2>2, <2>3 DEF DeliveryOK
  <1> QED  BY <1>2, <1>7, <1>8, <1>9 DEF RetryInv

\* A deactivated merchant's delivery is held.
LEMMA HoldStep ==
  ASSUME QueueInv, NEW id \in Ids, Hold(id)
  PROVE  QueueInv'
  <1> USE InvByDelivery
  <1> DEFINE row == attempts[id].row
             outcome == [row EXCEPT !.nextAttemptAt = now + Recheck, !.updatedAt = now]
  <1>1. attempts[id] # NoAttempt  BY DEF Hold, NoAttempt
  <1>2. AttemptOK(id) /\ row \in Rows /\ now \in Nat /\ Recheck \in Nat
    BY <1>1, RowTypes, QueueAssumption DEF DeliveryOK
  <1>3. UNCHANGED <<now, retry, active, accepted, refused>> /\ Commit(id, outcome)
    BY DEF Hold
  <1>4. /\ outcome \in Rows
        /\ outcome.status = "pending"
        /\ outcome.attempts = row.attempts
        /\ outcome.updatedAt = now
        /\ outcome.url = row.url
    <2>1. now + Recheck \in Nat /\ row.status = "pending"  BY <1>2 DEF AttemptOK
    <2> QED  BY <1>2, <2>1 DEF Rows
  <1>5. row.attempts < MaxAttempts /\ (rows[id] = row => row.attempts <= refused[id])
    BY <1>2 DEF AttemptOK, DeliveryOK
  <1> HIDE DEF outcome
  <1>6. /\ rows' \in [Ids -> Rows \cup {NoRow}]
        /\ attempts' \in [Ids -> AttemptTypes]
        /\ RetryInv'
        /\ \A other \in Ids : DeliveryOK(other)'
    BY <1>1, <1>3, <1>4, <1>5, CommitStep
  <1>7. used' \in [retries : 0..MaxRetries, crashes : 0..MaxCrashes, holds : 0..MaxHolds]
    BY QueueAssumption DEF Hold, QueueTypeOK
  <1>8. QueueTypeOK'  BY <1>3, <1>6, <1>7 DEF QueueTypeOK
  <1> QED  BY <1>6, <1>8

\* The outcome of a post is recorded.
LEMMA RecordStep ==
  ASSUME QueueInv, NEW id \in Ids, RecordDelivered(id) \/ RecordRefused(id)
  PROVE  QueueInv'
  <1> USE InvByDelivery
  <1> DEFINE row == attempts[id].row
             n == row.attempts + 1
             delivered == [row EXCEPT !.status = "delivered", !.attempts = n,
                                      !.updatedAt = now]
             failed == [row EXCEPT !.status = "failed", !.attempts = n, !.updatedAt = now]
             again(t) == [row EXCEPT !.attempts = n, !.updatedAt = now, !.nextAttemptAt = t]
  <1>1. attempts[id] # NoAttempt  BY RowTypes DEF RecordDelivered, RecordRefused
  <1>2. /\ AttemptOK(id) /\ row \in Rows /\ now \in Nat /\ refused[id] \in Nat
        /\ MaxAttempts \in Nat \ {0} /\ MaxBackoff \in Nat
    BY <1>1, RowTypes, QueueAssumption DEF DeliveryOK
  <1>3. UNCHANGED <<now, retry, active, accepted, refused, used>>
    BY DEF RecordDelivered, RecordRefused
  <1>4. row.status = "pending" /\ n \in 1..MaxAttempts  BY <1>2 DEF AttemptOK, Rows
  <1>5. SUFFICES /\ rows' \in [Ids -> Rows \cup {NoRow}]
                 /\ attempts' \in [Ids -> AttemptTypes]
                 /\ RetryInv'
                 /\ \A other \in Ids : DeliveryOK(other)'
    BY <1>3 DEF QueueTypeOK
  <1>6. CASE RecordDelivered(id)
    <2>1. Commit(id, delivered) /\ id \in accepted
      BY <1>2, <1>6 DEF RecordDelivered, AttemptOK
    <2>2. /\ delivered \in Rows
          /\ delivered.status = "delivered"
          /\ delivered.updatedAt = now
          /\ delivered.url = row.url
      <3> HIDE DEF n
      <3>1. n \in 0..MaxAttempts  BY <1>2, <1>4
      <3> QED  BY <1>2, <3>1 DEF Rows, Statuses
    <2> HIDE DEF delivered
    <2> QED  BY <1>1, <1>3, <2>1, <2>2, CommitStep
  <1>7. CASE RecordRefused(id)
    <2>1. rows[id] = row => n <= refused[id]  BY <1>2, <1>7 DEF RecordRefused, AttemptOK
    <2>2. CASE Exhausted(n)
      <3>1. Commit(id, failed)  BY <1>7, <2>2 DEF RecordRefused
      <3> n = MaxAttempts  BY <1>2, <1>4, <2>2 DEF Exhausted
      <3>2. /\ failed \in Rows
            /\ failed.status = "failed"
            /\ failed.attempts = n
            /\ failed.updatedAt = now
            /\ failed.url = row.url
        <4> HIDE DEF n
        <4>1. n \in 0..MaxAttempts  BY <1>2, <1>4
        <4> QED  BY <1>2, <4>1 DEF Rows, Statuses
      <3> HIDE DEF failed, n
      <3> QED  BY <1>1, <1>2, <1>3, <2>1, <3>1, <3>2, CommitStep
    <2>3. CASE ~Exhausted(n)
      <3> PICK delay \in 0..MaxBackoff : Commit(id, again(now + delay))
        BY <1>7, <2>3 DEF RecordRefused
      <3>1. n < MaxAttempts  BY <1>2, <1>4, <2>3 DEF Exhausted
      <3>2. now + delay \in Nat  BY <1>2
      <3>3. /\ again(now + delay) \in Rows
            /\ again(now + delay).status = "pending"
            /\ again(now + delay).attempts = n
            /\ again(now + delay).updatedAt = now
            /\ again(now + delay).url = row.url
        <4> HIDE DEF n
        <4>1. n \in 0..MaxAttempts  BY <1>2, <1>4
        <4> QED  BY <1>2, <1>4, <3>2, <4>1 DEF Rows, Statuses
      <3> HIDE DEF again, n
      <3> QED  BY <1>1, <1>3, <2>1, <3>1, <3>3, CommitStep
    <2> QED  BY <2>2, <2>3
  <1> QED  BY <1>6, <1>7

\* Rows are queued afresh by one write: a retry's, or that of a request that gives the
\* merchant a URL.
LEMMA RequeueStep ==
  ASSUME QueueInv, NEW url \in {NoUrl, Url}, NEW t \in Nat, now <= t,
         NEW ids \in SUBSET Ids, Requeue([id \in ids |-> QueuedRow(url, t)], t),
         UNCHANGED <<accepted, attempts>>,
         \A id \in ids : attempts[id] # NoAttempt => rows[id].url = url
  PROVE  /\ now' = t
         /\ rows' \in [Ids -> Rows \cup {NoRow}]
         /\ refused' \in [Ids -> Nat]
         /\ \A id \in ids : rows'[id] = QueuedRow(url, t)
         /\ \A id \in Ids \ ids : rows'[id] = rows[id]
         /\ \A id \in Ids : DeliveryOK(id)'
  <1>1. /\ now' = t
        /\ rows' = [id \in Ids |-> IF id \in ids THEN QueuedRow(url, t) ELSE rows[id]]
        /\ refused' = [id \in Ids |-> IF rows'[id] # rows[id] THEN 0 ELSE refused[id]]
    BY DEF Requeue
  <1>2. QueuedRow(url, t) \in Rows  BY QueuedRowType
  <1>3. rows' \in [Ids -> Rows \cup {NoRow}] /\ refused' \in [Ids -> Nat]
    <2>1. rows' \in [Ids -> Rows \cup {NoRow}]
      <3>1. \A id \in Ids : rows[id] \in Rows \cup {NoRow}  BY InvByDelivery DEF QueueTypeOK
      <3> HIDE DEF QueueInv
      <3> QED  BY <1>1, <1>2, <3>1
    <2>2. \A id \in Ids : refused[id] \in Nat  BY InvByDelivery DEF QueueTypeOK
    <2>3. refused' \in [Ids -> Nat]  BY <1>1, <2>2
    <2> QED  BY <2>1, <2>3
  <1>4. \A id \in ids : rows'[id] = QueuedRow(url, t)  BY <1>1
  <1>5. \A id \in Ids \ ids : rows'[id] = rows[id] /\ refused'[id] = refused[id]
    BY <1>1
  <1>6. \A id \in ids : DeliveryOK(id)'  BY <1>1, <1>4, RequeuedDelivery
  <1>7. \A id \in Ids \ ids : DeliveryOK(id)'
    <2> now' \in Nat /\ now <= now'  BY <1>1
    <2> QED  BY <1>5, SameDelivery
  <1> QED  BY <1>1, <1>3, <1>4, <1>5, <1>6, <1>7

\* A delivery is filed that was not on file.
LEMMA FileStep ==
  ASSUME QueueInv, NEW id \in Ids, rows[id] = NoRow, NEW row \in Rows,
         row.status \in {"pending", "skipped"}, row.attempts = 0, row.updatedAt = now,
         rows' = [rows EXCEPT ![id] = row],
         UNCHANGED <<now, attempts, retry, active, accepted, refused, used>>
  PROVE  QueueInv'
  <1> USE InvByDelivery
  <1>1. now \in Nat /\ refused[id] \in Nat /\ MaxAttempts \in Nat \ {0}
    BY RowTypes, QueueAssumption
  <1>2. /\ rows'[id] = row
        /\ \A other \in Ids \ {id} : rows'[other] = rows[other]
    BY DEF QueueTypeOK
  <1>3. QueueTypeOK'  BY DEF QueueTypeOK
  <1>4. rows[id].status # "pending"  BY DEF NoRow
  <1>5. attempts[id] = NoAttempt  BY <1>4 DEF DeliveryOK, AttemptOK
  <1>6. DeliveryOK(id)'  BY <1>1, <1>2, <1>5 DEF DeliveryOK
  <1>7. \A other \in Ids \ {id} : DeliveryOK(other)'
    <2> now' \in Nat /\ now <= now'  BY <1>1
    <2> QED  BY <1>2, SameDelivery
  <1>8. RetryInv'
    <2>1. retry # NoRetry => retry.id \in Ids \ {id}
      BY RetryTypes DEF RetryInv, NoRow
    <2> QED  BY <1>2, <2>1 DEF RetryInv
  <1> QED  BY <1>3, <1>6, <1>7, <1>8

\* An admin's retry.
LEMMA RetryStep ==
  ASSUME QueueInv, RetryWrite \/ \E id \in Ids : RetryRead(id)
  PROVE  QueueInv'
  <1> USE InvByDelivery
  <1>1. ASSUME NEW id \in Ids, RetryRead(id)
        PROVE  QueueInv'
    <2>1. UNCHANGED <<now, rows, attempts, active, accepted, refused>>  BY <1>1 DEF RetryRead
    <2>2. rows[id].status \in {"pending", "failed"} /\ retry' = [id |-> id, row |-> rows[id]]
      BY <1>1 DEF RetryRead
    <2>3. rows[id] \in Rows  BY <2>2, RowTypes
    <2>4. used' \in [retries : 0..MaxRetries, crashes : 0..MaxCrashes, holds : 0..MaxHolds]
      BY <1>1, QueueAssumption DEF RetryRead, QueueTypeOK
    <2>5. QueueTypeOK'  BY <2>1, <2>2, <2>3, <2>4 DEF QueueTypeOK
    <2>6. RetryInv'  BY <2>1, <2>2 DEF RetryInv
    <2>7. now' \in Nat /\ now <= now'  BY <2>1 DEF QueueTypeOK
    <2>8. \A other \in Ids : DeliveryOK(other)'  BY <2>1, <2>7, SameDelivery
    <2> QED  BY <2>5, <2>6, <2>8
  <1>2. CASE RetryWrite
    <2> PICK t \in {now, now + 1} :
               Requeue([id \in {retry.id} |-> QueuedRow(retry.row.url, t)], t)
      BY <1>2 DEF RetryWrite
    <2>1. retry # NoRetry /\ retry' = NoRetry /\ UNCHANGED <<attempts, active, accepted, used>>
      BY <1>2 DEF RetryWrite
    <2>2. retry.id \in Ids /\ retry.row.url \in {NoUrl, Url}
      BY <2>1, RetryTypes, RowFields
    <2> PICK url \in {NoUrl, Url} : url = retry.row.url  BY <2>2
    <2>3. t \in Nat /\ now <= t  BY DEF QueueTypeOK
    <2>4. rows[retry.id].url = url  BY <2>1 DEF RetryInv
    <2>5. {retry.id} \in SUBSET Ids  BY <2>2
    <2>6. /\ now' = t
          /\ rows' \in [Ids -> Rows \cup {NoRow}]
          /\ refused' \in [Ids -> Nat]
          /\ \A id \in Ids : DeliveryOK(id)'
      BY <2>1, <2>3, <2>4, <2>5, RequeueStep
    <2>7. QueueTypeOK' /\ RetryInv'  BY <2>1, <2>3, <2>6 DEF QueueTypeOK, RetryInv
    <2> QED  BY <2>6, <2>7
  <1> QED  BY <1>1, <1>2

\* An attempt is broken off, the process ends, the merchant is deactivated or activated, or
\* time passes.
LEMMA QuietStep ==
  ASSUME QueueInv,
         \/ \E id \in Ids : BreakOff(id)
         \/ QueueCrash \/ Deactivate \/ Activate \/ Tick \/ UNCHANGED queueVars
  PROVE  QueueInv'
  <1> USE InvByDelivery
  <1>1. UNCHANGED <<rows, accepted, refused>>
    BY DEF BreakOff, QueueCrash, Deactivate, Activate, Tick, queueVars
  <1>2. now' \in Nat /\ now <= now'
    BY DEF BreakOff, QueueCrash, Deactivate, Activate, Tick, queueVars, QueueTypeOK
  <1>3. /\ attempts' \in [Ids -> AttemptTypes]
        /\ \A id \in Ids : attempts'[id] \in {attempts[id], NoAttempt}
    BY DEF BreakOff, QueueCrash, Deactivate, Activate, Tick, queueVars, QueueTypeOK, AttemptTypes
  <1>4. retry' \in {retry, NoRetry}
    BY DEF BreakOff, QueueCrash, Deactivate, Activate, Tick, queueVars
  <1>5. active' \in BOOLEAN
    BY DEF BreakOff, QueueCrash, Deactivate, Activate, Tick, queueVars, QueueTypeOK
  <1>6. used' \in [retries : 0..MaxRetries, crashes : 0..MaxCrashes, holds : 0..MaxHolds]
    BY QueueAssumption
       DEF BreakOff, QueueCrash, Deactivate, Activate, Tick, queueVars, QueueTypeOK
  <1>7. QueueTypeOK'  BY <1>1, <1>2, <1>3, <1>4, <1>5, <1>6 DEF QueueTypeOK
  <1>8. \A id \in Ids : DeliveryOK(id)'  BY <1>1, <1>2, <1>3, SameDelivery
  <1>9. RetryInv'  BY <1>1, <1>4 DEF RetryInv
  <1> QED  BY <1>7, <1>8, <1>9

LEMMA QueueStepInv == QueueInv /\ QueueStep => QueueInv'
  BY SweepStep, PostStep, HoldStep, RecordStep, RetryStep, QuietStep DEF QueueStep, Attempt

LEMMA EnqueueStep ==
  ASSUME QueueInv, NEW id \in Ids, Enqueue(id)
  PROVE  QueueInv'
  <1>1. now \in Nat  BY DEF QueueInv, QueueTypeOK
  <1>2. /\ QueuedRow(Url, now) \in Rows
        /\ QueuedRow(Url, now).status = "pending"
        /\ QueuedRow(Url, now).attempts = 0
        /\ QueuedRow(Url, now).updatedAt = now
    BY <1>1, QueuedRowType
  <1> QED  BY <1>2, FileStep DEF Enqueue

-----------------------------------------------------------------------------
(* What follows.                                                           *)

\* The table, the attempts in flight, a retry in progress and what the endpoint answered
\* agree in every reachable state.
THEOREM QueueCorrect == QueueSpec => []QueueInv
  <1>1. QueueInit => QueueInv  BY QueueInitInv
  <1>2. QueueInv /\ [QueueNext]_queueVars => QueueInv'
    BY QueueStepInv, QuietStep, EnqueueStep DEF QueueNext
  <1> QED  BY <1>1, <1>2, PTL DEF QueueSpec

\* Every reachable state of the queue is well typed; no row counts more attempts than its
\* budget.
THEOREM QueueTypeCorrect == QueueSpec => []QueueTypeOK
  <1>1. QueueInv => QueueTypeOK  BY DEF QueueInv
  <1> QED  BY <1>1, QueueCorrect, PTL

\* A row is delivered only if the endpoint accepted it, and charged with no more attempts
\* than posts were refused since it was queued, however attempts, retries, crashes and
\* deactivations overlap.
THEOREM OutcomeEarnedAlways == QueueSpec => []OutcomeEarned
  <1>1. QueueInv => OutcomeEarned  BY DEF QueueInv
  <1> QED  BY <1>1, QueueCorrect, PTL

\* A step of the dispatcher or of a retry files no delivery and drops none, and opens a
\* delivered one only for a retry that had read it before.
LEMMA RowsStep ==
  ASSUME QueueInv, QueueStep, NEW id \in Ids
  PROVE  /\ rows'[id] = NoRow <=> rows[id] = NoRow
         /\ rows[id].status = "delivered" /\ rows'[id] # rows[id] =>
               retry # NoRetry /\ retry.id = id /\ retry.row.status # "delivered"
  <1> USE InvByDelivery
  <1> DEFINE Kept == rows'[id] = rows[id]
             Rewritten == rows[id].status = "pending" /\ rows'[id].status # "absent"
             Retried == /\ retry # NoRetry
                        /\ retry.id = id
                        /\ rows'[id].status = "pending"
                        /\ rows[id].status # "absent"
                        /\ retry.row.status # "delivered"
  <1>1. ASSUME NEW other \in Ids, Attempt(other)
        PROVE  Kept \/ Rewritten
    <2>1. CASE Post(other) \/ Accept(other) \/ Refuse(other)
      BY <2>1 DEF Post, Accept, Refuse
    <2>2. CASE Hold(other) \/ RecordDelivered(other) \/ RecordRefused(other)
      <3>1. attempts[other] # NoAttempt
        BY <2>2, RowTypes DEF Hold, RecordDelivered, RecordRefused
      <3>2. rows[other].status = "pending" /\ attempts[other].row.status = "pending"
        BY <3>1 DEF DeliveryOK, AttemptOK
      <3>3. attempts[other].row \in Rows  BY <3>1, RowTypes
      <3>4. \E outcome : Commit(other, outcome) /\ outcome.status # "absent"
        <4> DEFINE row == attempts[other].row
                   n == row.attempts + 1
                   held == [row EXCEPT !.nextAttemptAt = now + Recheck, !.updatedAt = now]
                   delivered == [row EXCEPT !.status = "delivered", !.attempts = @ + 1,
                                            !.updatedAt = now]
                   failed == [row EXCEPT !.status = "failed", !.attempts = n, !.updatedAt = now]
                   again(d) == [row EXCEPT !.attempts = n, !.updatedAt = now,
                                           !.nextAttemptAt = now + d]
        <4>1. held.status # "absent" /\ delivered.status # "absent" /\ failed.status # "absent"
              /\ \A d \in 0..MaxBackoff : again(d).status # "absent"
          BY <3>2, <3>3 DEF Rows
        <4>2. \/ Commit(other, held) \/ Commit(other, delivered) \/ Commit(other, failed)
              \/ \E d \in 0..MaxBackoff : Commit(other, again(d))
          BY <2>2 DEF Hold, RecordDelivered, RecordRefused
        <4> HIDE DEF held, delivered, failed, again
        <4> QED  BY <4>1, <4>2
      <3>5. rows' = rows \/ \E outcome : /\ rows' = [rows EXCEPT ![other] = outcome]
                                        /\ outcome.status # "absent"
        BY <3>4 DEF Commit
      <3> QED  BY <3>2, <3>5 DEF QueueTypeOK
    <2> QED  BY <1>1, <2>1, <2>2 DEF Attempt
  <1>2. RetryWrite => Kept \/ Retried
    <2> SUFFICES ASSUME RetryWrite PROVE Kept \/ Retried  OBVIOUS
    <2> PICK t \in {now, now + 1} :
               Requeue([x \in {retry.id} |-> QueuedRow(retry.row.url, t)], t)
      BY DEF RetryWrite
    <2>1. retry # NoRetry  BY DEF RetryWrite
    <2>2. CASE id # retry.id  BY <2>2 DEF Requeue
    <2>3. CASE id = retry.id
      <3>1. rows'[id] = QueuedRow(retry.row.url, t)  BY <2>3 DEF Requeue
      <3> QED  BY <2>1, <2>3, <3>1 DEF RetryInv, QueuedRow
    <2> QED  BY <2>2, <2>3
  <1>3. Kept \/ Rewritten \/ Retried
    BY <1>1, <1>2
       DEF QueueStep, Sweep, BreakOff, RetryRead, Deactivate, Activate, Tick
  <1> QED  BY <1>3 DEF NoRow

\* A recorded delivery is opened again by nothing but a retry that had read it before.
THEOREM DeliveredIsFinalAlways == QueueSpec => DeliveredIsFinal
  <1> DEFINE A == \A id \in Ids :
                    rows[id].status = "delivered" /\ rows'[id] # rows[id]
                      => /\ retry # NoRetry
                         /\ retry.id = id
                         /\ retry.row.status # "delivered"
  <1>1. ASSUME QueueInv, [QueueNext]_queueVars
        PROVE  [A]_queueVars
    <2>1. CASE QueueStep  BY <1>1, <2>1, RowsStep
    <2>2. CASE QueueCrash \/ UNCHANGED queueVars  BY <2>2 DEF QueueCrash, queueVars
    <2>3. ASSUME NEW id \in Ids, Enqueue(id) PROVE A
      BY <1>1, <2>3 DEF Enqueue, NoRow, QueueInv, QueueTypeOK
    <2> QED  BY <1>1, <2>1, <2>2, <2>3 DEF QueueNext
  <1> QED  BY <1>1, QueueCorrect, PTL DEF QueueSpec, DeliveredIsFinal

-----------------------------------------------------------------------------
(* The indexer and the requests: the inductive invariant.                  *)

MerchantTypes == [url : {NoUrl, Url}] \cup {NoMerchant}

RequestTypes ==
    [step : {"upsert", "requeue"}, url : {NoUrl, Url}, requeue : BOOLEAN] \cup {NoRequest}

TickTypes ==
    [step : {"next", "check", "order", "merchant"}, to : Nat, events : Seq(Ids)]
    \cup [step : {"insert"}, to : Nat, events : Seq(Ids), found : MerchantTypes]
    \cup {NoTick}

RelayTypeOK ==
    /\ head \in Nat
    /\ blocks \in [Ids -> Nat]
    /\ purged \subseteq Ids
    /\ cursor \in Nat
    /\ merchant \in MerchantTypes
    /\ request \in RequestTypes
    /\ indexing \in TickTypes

\* No block is ahead of the head, and the cursor has left the start only for final blocks.
ChainInv ==
    /\ \A id \in Ids : blocks[id] <= head
    /\ cursor # 0 => cursor + Confirmations <= head

\* The range of the tick in progress is final and ahead of the cursor, the events left are
\* of its blocks, and every payment up to its end is on file, was purged or is still left.
TickInv ==
    indexing # NoTick =>
        /\ cursor < indexing.to
        /\ indexing.to + Confirmations <= head
        /\ indexing.step # "next" => indexing.events # <<>>
        /\ \A id \in Range(indexing.events) : blocks[id] \in 1..indexing.to
        /\ \A id \in Ids :
              blocks[id] \in 1..indexing.to =>
                  rows[id] # NoRow \/ id \in purged \/ id \in Range(indexing.events)

RelayInv ==
    /\ QueueInv
    /\ RelayTypeOK
    /\ ChainInv
    /\ TickInv
    /\ CursorCoversPayments
    /\ OnlyFinalPayments

-----------------------------------------------------------------------------
(* Sequences of events.                                                    *)

\* A sequence that is one less long: what it holds, but for the first.
LEMMA TailRange ==
  ASSUME NEW s \in Seq(Ids), s # <<>>
  PROVE  /\ Head(s) \in Range(s)
         /\ Head(s) \in Ids
         /\ Tail(s) \in Seq(Ids)
         /\ Range(Tail(s)) \subseteq Range(s)
         /\ Range(s) \subseteq Range(Tail(s)) \cup {Head(s)}
  <1>1. /\ Len(s) \in Nat \ {0}
        /\ s \in [1..Len(s) -> Ids]
        /\ Head(s) = s[1]
        /\ Tail(s) \in Seq(Ids)
        /\ Len(Tail(s)) = Len(s) - 1
        /\ \A i \in 1..(Len(s) - 1) : Tail(s)[i] = s[i + 1]
    OBVIOUS
  <1>2. DOMAIN s = 1..Len(s) /\ DOMAIN Tail(s) = 1..(Len(s) - 1)  BY <1>1
  <1>3. Head(s) \in Range(s) /\ Head(s) \in Ids  BY <1>1, <1>2 DEF Range
  <1>4. ASSUME NEW x \in Range(Tail(s))
        PROVE  x \in Range(s)
    <2>1. PICK i \in 1..(Len(s) - 1) : x = Tail(s)[i]  BY <1>2, <1>4 DEF Range
    <2>2. x = s[i + 1] /\ i + 1 \in 1..Len(s)  BY <1>1, <2>1
    <2> QED  BY <1>2, <2>2 DEF Range
  <1>5. ASSUME NEW x \in Range(s), x # Head(s)
        PROVE  x \in Range(Tail(s))
    <2>1. PICK i \in 1..Len(s) : x = s[i]  BY <1>2 DEF Range
    <2>2. i - 1 \in 1..(Len(s) - 1) /\ (i - 1) + 1 = i  BY <1>1, <1>5, <2>1
    <2>3. x = Tail(s)[i - 1]  BY <1>1, <2>1, <2>2
    <2> QED  BY <1>2, <2>2, <2>3 DEF Range
  <1> QED  BY <1>1, <1>3, <1>4, <1>5

\* Each ordering of a finite set holds every one of its elements.
LEMMA OrderingHoldsAll ==
  ASSUME NEW found \in SUBSET Ids, NEW s \in SetToSeqs(found)
  PROVE  s \in Seq(Ids) /\ Range(s) = found
  <1> DEFINE n == Cardinality(found)
  <1>1. IsFiniteSet(found) /\ n \in Nat
    BY RelayAssumption, FS_Subset, FS_CardinalityType
  <1>2. s \in [1..n -> found] /\ \A i, j \in 1..n : i # j => s[i] # s[j]
    BY DEF SetToSeqs
  <1>3. s \in Seq(Ids)  BY <1>1, <1>2
  <1>4. Range(s) \subseteq found  BY <1>2 DEF Range
  <1>5. ASSUME NEW e \in found, e \notin Range(s)
        PROVE  FALSE
    <2> DEFINE others == found \ {e}
    <2>1. IsFiniteSet(others) /\ Cardinality(others) = n - 1  BY <1>1, FS_RemoveElement
    <2>2. IsFiniteSet(1..n) /\ Cardinality(1..n) = n
      <3>1. 1 \in Int /\ n \in Int  BY <1>1
      <3>2. IsFiniteSet(1..n) /\ Cardinality(1..n) = IF 1 > n THEN 0 ELSE n - 1 + 1
        BY <3>1, FS_Interval
      <3> QED  BY <1>1, <3>2
    <2>3. s \in [1..n -> others]  BY <1>2, <1>5 DEF Range
    <2>4. Cardinality(others) < Cardinality(1..n)  BY <1>1, <2>1, <2>2
    <2>5. \E x, y \in 1..n : x # y /\ s[x] = s[y]
      <3> HIDE DEF n, others
      <3> DEFINE D == 1..n
      <3>1. IsFiniteSet(D) /\ s \in [D -> others] /\ Cardinality(others) < Cardinality(D)
        BY <2>2, <2>3, <2>4
      <3> HIDE DEF D
      <3>2. \E x, y \in D : x # y /\ s[x] = s[y]
        BY <2>1, <3>1, FS_PigeonHole
      <3> QED  BY <3>2 DEF D
    <2> QED  BY <1>2, <2>5
  <1> QED  BY <1>3, <1>4, <1>5

\* The end of the range of a tick.
LEMMA SmallerOfTwo ==
  ASSUME NEW a \in Int, NEW b \in Int
  PROVE  Min({a, b}) \in {a, b} /\ Min({a, b}) <= a /\ Min({a, b}) <= b
  <1>1. \E x \in {a, b} : \A y \in {a, b} : x <= y  OBVIOUS
  <1> QED  BY <1>1 DEF Min

-----------------------------------------------------------------------------
(* The steps.                                                              *)

LEMMA RelayInitInv == Init => RelayInv
  <1> SUFFICES ASSUME Init PROVE RelayInv  OBVIOUS
  <1>1. QueueInv  BY QueueInitInv DEF Init
  <1> QED
    BY <1>1, RelayAssumption
       DEF Init, QueueInit, RelayInv, RelayTypeOK, ChainInv, TickInv, CursorCoversPayments,
           OnlyFinalPayments, MerchantTypes, RequestTypes, TickTypes

\* What the parts of the invariant say of one payment.
LEMMA PaymentTypes ==
  ASSUME RelayInv, NEW id \in Ids
  PROVE  /\ head \in Nat /\ cursor \in Nat /\ Confirmations \in Nat
         /\ blocks[id] \in Nat /\ blocks[id] <= head
  BY RelayAssumption DEF RelayInv, RelayTypeOK, ChainInv

LEMMA TickFields ==
  ASSUME RelayTypeOK, indexing # NoTick
  PROVE  /\ indexing.step \in {"next", "check", "order", "merchant", "insert"}
         /\ indexing.to \in Nat
         /\ indexing.events \in Seq(Ids)
         /\ indexing.step = "insert" =>
               indexing \in [step : {"insert"}, to : Nat, events : Seq(Ids), found : MerchantTypes]
         /\ indexing.step # "insert" =>
               indexing \in [step : {"next", "check", "order", "merchant"}, to : Nat,
                             events : Seq(Ids)]
  BY DEF RelayTypeOK, TickTypes, NoTick

\* A step of a tick that leaves the cursor alone and keeps the events left, or passes over
\* one that is on file or purged.
LEMMA TickGoesOn ==
  ASSUME RelayInv, indexing # NoTick, QueueInv',
         UNCHANGED <<head, blocks, purged, cursor, merchant, request>>,
         indexing' \in TickTypes \ {NoTick},
         indexing'.to = indexing.to,
         \A id \in Ids : rows[id] # NoRow => rows'[id] # NoRow,
         \A id \in Ids : rows'[id] # NoRow => rows[id] # NoRow \/ id \in Range(indexing.events),
         \/ /\ indexing'.events = indexing.events
            /\ indexing.events # <<>>
         \/ /\ indexing.events # <<>>
            /\ indexing'.events = Tail(indexing.events)
            /\ indexing'.step = "next"
            /\ rows'[CurrentEvent] # NoRow \/ CurrentEvent \in purged
  PROVE  RelayInv'
  <1>1. RelayTypeOK'  BY DEF RelayInv, RelayTypeOK
  <1>2. ChainInv'  BY DEF RelayInv, ChainInv
  <1>3. indexing.events \in Seq(Ids) /\ indexing.to \in Nat  BY TickFields DEF RelayInv
  <1>4. /\ Range(indexing'.events) \subseteq Range(indexing.events)
        /\ \A id \in Range(indexing.events) :
              \/ id \in Range(indexing'.events)
              \/ rows'[id] # NoRow
              \/ id \in purged
    BY <1>3, TailRange DEF CurrentEvent
  <1>5. TickInv'
    <2>1. TickInv  BY DEF RelayInv
    <2>2. cursor' < indexing'.to /\ indexing'.to + Confirmations <= head'
      BY <2>1 DEF TickInv
    <2>3. indexing'.step # "next" => indexing'.events # <<>>  OBVIOUS
    <2>4. \A id \in Range(indexing'.events) : blocks'[id] \in 1..indexing'.to
      BY <1>4, <2>1 DEF TickInv
    <2>5. \A id \in Ids :
             blocks'[id] \in 1..indexing'.to =>
                 rows'[id] # NoRow \/ id \in purged' \/ id \in Range(indexing'.events)
      BY <1>4, <2>1 DEF TickInv
    <2> QED  BY <2>2, <2>3, <2>4, <2>5 DEF TickInv
  <1>6. CursorCoversPayments'  BY DEF RelayInv, CursorCoversPayments
  <1>7. OnlyFinalPayments'
    <2> SUFFICES ASSUME NEW id \in Ids, rows'[id] # NoRow, rows[id] = NoRow
                 PROVE  blocks[id] # 0 /\ blocks[id] + Confirmations <= head
      BY DEF RelayInv, OnlyFinalPayments
    <2>1. blocks[id] \in 1..indexing.to /\ indexing.to + Confirmations <= head
      BY DEF RelayInv, TickInv
    <2> QED  BY <1>3, <2>1, PaymentTypes
  <1> QED  BY <1>1, <1>2, <1>5, <1>6, <1>7 DEF RelayInv

\* The next final range is read: every payment in it is among its events.
LEMMA TickStartStep ==
  ASSUME RelayInv, TickStart
  PROVE  RelayInv'
  <1> DEFINE to == Min({SafeHead, cursor + MaxBlockRange})
  <1>1. /\ head \in Nat /\ cursor \in Nat /\ Confirmations \in Nat
        /\ MaxBlockRange \in Nat \ {0} /\ blocks \in [Ids -> Nat]
    BY RelayAssumption DEF RelayInv, RelayTypeOK
  <1>2. PICK events \in EventsOf(ScanFrom, to) :
               indexing' = [step |-> "next", to |-> to, events |-> events]
    BY DEF TickStart
  <1>3. UNCHANGED <<queueVars, head, blocks, purged, cursor, merchant, request>>
        /\ SafeHead > cursor
    BY DEF TickStart
  <1>4. to \in Nat /\ cursor < to /\ to + Confirmations <= head
    <2>1. SafeHead \in Int /\ cursor + MaxBlockRange \in Int  BY <1>1 DEF SafeHead
    <2>2. to \in {SafeHead, cursor + MaxBlockRange} /\ to <= SafeHead
      BY <2>1, SmallerOfTwo
    <2> HIDE DEF to
    <2> QED  BY <1>1, <1>3, <2>2 DEF SafeHead
  <1> HIDE DEF to
  <1> DEFINE found == {id \in Ids : blocks[id] \in ScanFrom..to}
  <1>5. events \in Seq(Ids) /\ Range(events) = found
    <2>1. events \in SetToSeqs(found)  BY <1>2 DEF EventsOf
    <2> HIDE DEF found
    <2>2. found \in SUBSET Ids  BY DEF found
    <2> QED  BY <2>1, <2>2, OrderingHoldsAll
  <1>6. QueueInv'  BY <1>3, QuietStep DEF RelayInv
  <1>7. indexing' \in TickTypes  BY <1>2, <1>4, <1>5 DEF TickTypes
  <1>8. RelayTypeOK' /\ ChainInv'  BY <1>3, <1>7 DEF RelayInv, RelayTypeOK, ChainInv
  <1>9. UNCHANGED rows  BY <1>3 DEF queueVars
  <1>10. CursorCoversPayments' /\ OnlyFinalPayments'
    BY <1>3, <1>9 DEF RelayInv, CursorCoversPayments, OnlyFinalPayments
  <1>11. TickInv'
    <2>1. \A id \in Range(events) : blocks[id] \in 1..to
      BY <1>1, <1>4, <1>5 DEF ScanFrom
    <2>2. ASSUME NEW id \in Ids, blocks[id] \in 1..to
          PROVE  rows[id] # NoRow \/ id \in purged \/ id \in Range(events)
      <3>1. CASE blocks[id] <= cursor
        <4>1. blocks[id] \in 1..cursor  BY <1>1, <2>2, <3>1
        <4> QED  BY <4>1 DEF RelayInv, CursorCoversPayments
      <3>2. CASE blocks[id] > cursor
        <4>1. blocks[id] \in ScanFrom..to  BY <1>1, <1>4, <2>2, <3>2 DEF ScanFrom
        <4> QED  BY <1>5, <4>1
      <3> QED  BY <1>1, <1>4, <2>2, <3>1, <3>2
    <2> QED  BY <1>2, <1>3, <1>4, <1>9, <2>1, <2>2 DEF TickInv
  <1> QED  BY <1>6, <1>8, <1>10, <1>11 DEF RelayInv

\* The end of the range: the cursor moves past payments that are on file or purged.
LEMMA NextEventStep ==
  ASSUME RelayInv, NextEvent
  PROVE  RelayInv'
  <1>1. /\ UNCHANGED <<queueVars, rows, head, blocks, purged, merchant, request>>
        /\ QueueInv'
    BY QuietStep DEF RelayInv, NextEvent, KeepAllBut, queueVars
  <1>2. indexing # NoTick /\ indexing.step = "next"  BY DEF NextEvent, NoTick
  <1>3. CASE indexing.events = <<>>
    <2>1. cursor' = indexing.to /\ indexing' = NoTick  BY <1>3 DEF NextEvent
    <2>2. indexing.to \in Nat /\ indexing.to + Confirmations <= head
      BY <1>2, TickFields DEF RelayInv, TickInv
    <2>3. Range(indexing.events) = {}  BY <1>3 DEF Range
    <2>4. CursorCoversPayments'
      BY <1>1, <1>2, <2>1, <2>3 DEF RelayInv, TickInv, CursorCoversPayments
    <2>5. RelayTypeOK' /\ ChainInv'
      BY <1>1, <2>1, <2>2 DEF RelayInv, RelayTypeOK, ChainInv, TickTypes
    <2>6. TickInv' /\ OnlyFinalPayments'
      BY <1>1, <2>1 DEF RelayInv, TickInv, OnlyFinalPayments
    <2> QED  BY <1>1, <2>4, <2>5, <2>6 DEF RelayInv
  <1>4. CASE indexing.events # <<>>
    <2>1. indexing' = [indexing EXCEPT !.step = "check"] /\ UNCHANGED cursor
      BY <1>4 DEF NextEvent
    <2>2. indexing \in [step : {"next", "check", "order", "merchant"}, to : Nat,
                        events : Seq(Ids)]
      BY <1>2, TickFields DEF RelayInv
    <2>3. /\ indexing' \in TickTypes \ {NoTick}
          /\ indexing'.to = indexing.to
          /\ indexing'.events = indexing.events
      BY <2>1, <2>2 DEF TickTypes, NoTick
    <2> QED  BY <1>1, <1>2, <1>4, <2>1, <2>3, TickGoesOn
  <1> QED  BY <1>3, <1>4

\* An event is looked up, and passed over when it is on file or its order is gone.
LEMMA LookUpStep ==
  ASSUME RelayInv, CheckKnown \/ CheckOrder \/ FindMerchant
  PROVE  RelayInv'
  <1>1. /\ UNCHANGED <<queueVars, rows, head, blocks, purged, cursor, merchant, request>>
        /\ QueueInv'
    BY QuietStep DEF RelayInv, CheckKnown, CheckOrder, FindMerchant, KeepAllBut, queueVars
  <1>2. indexing # NoTick /\ indexing.step \in {"check", "order", "merchant"}
    BY DEF CheckKnown, CheckOrder, FindMerchant, NoTick
  <1>3. /\ indexing \in [step : {"next", "check", "order", "merchant"}, to : Nat,
                         events : Seq(Ids)]
        /\ indexing.events \in Seq(Ids)
        /\ indexing.events # <<>>
    BY <1>2, TickFields DEF RelayInv, TickInv
  <1>4. Tail(indexing.events) \in Seq(Ids)  BY <1>3, TailRange
  <1>5. merchant \in MerchantTypes  BY DEF RelayInv, RelayTypeOK
  <1>6. \/ Skip /\ (rows[CurrentEvent] # NoRow \/ CurrentEvent \in purged)
        \/ \E step \in {"order", "merchant"} : indexing' = [indexing EXCEPT !.step = step]
        \/ indexing' = [step |-> "insert", to |-> indexing.to, events |-> indexing.events,
                        found |-> merchant]
    BY DEF CheckKnown, CheckOrder, FindMerchant
  <1>7. CASE Skip /\ (rows[CurrentEvent] # NoRow \/ CurrentEvent \in purged)
    <2>1. /\ indexing' \in TickTypes \ {NoTick}
          /\ indexing'.to = indexing.to
          /\ indexing'.events = Tail(indexing.events)
          /\ indexing'.step = "next"
      BY <1>3, <1>4, <1>7 DEF Skip, TickTypes, NoTick
    <2> QED  BY <1>1, <1>2, <1>3, <1>7, <2>1, TickGoesOn
  <1>8. CASE \E step \in {"order", "merchant"} : indexing' = [indexing EXCEPT !.step = step]
    <2>1. /\ indexing' \in TickTypes \ {NoTick}
          /\ indexing'.to = indexing.to
          /\ indexing'.events = indexing.events
      BY <1>3, <1>8 DEF TickTypes, NoTick
    <2> QED  BY <1>1, <1>2, <1>3, <2>1, TickGoesOn
  <1>9. CASE indexing' = [step |-> "insert", to |-> indexing.to, events |-> indexing.events,
                          found |-> merchant]
    <2>1. /\ indexing' \in TickTypes \ {NoTick}
          /\ indexing'.to = indexing.to
          /\ indexing'.events = indexing.events
      BY <1>3, <1>5, <1>9 DEF TickTypes, NoTick
    <2> QED  BY <1>1, <1>2, <1>3, <2>1, TickGoesOn
  <1> QED  BY <1>6, <1>7, <1>8, <1>9

\* A payment is recorded, unless it is on file by then.
LEMMA RecordPaymentStep ==
  ASSUME RelayInv, RecordPayment
  PROVE  /\ RelayInv'
         /\ \A id \in Ids : rows[id] # NoRow => rows'[id] = rows[id]
  <1> DEFINE row == IF indexing.found.url = Url THEN QueuedRow(Url, now) ELSE SkippedRow(now)
  <1>1. indexing # NoTick /\ indexing.step = "insert"  BY DEF RecordPayment, NoTick
  <1>2. /\ indexing.events \in Seq(Ids) /\ indexing.events # <<>> /\ indexing.to \in Nat
        /\ indexing' = [step |-> "next", to |-> indexing.to, events |-> Tail(indexing.events)]
    BY <1>1, TickFields DEF RelayInv, TickInv, RecordPayment
  <1>3. CurrentEvent \in Ids /\ CurrentEvent \in Range(indexing.events)
        /\ Tail(indexing.events) \in Seq(Ids)
    BY <1>2, TailRange DEF CurrentEvent
  <1>4. now \in Nat /\ rows \in [Ids -> Rows \cup {NoRow}]
    BY DEF RelayInv, QueueInv, QueueTypeOK
  <1>5. /\ row \in Rows
        /\ row.status \in {"pending", "skipped"}
        /\ row.attempts = 0
        /\ row.updatedAt = now
    <2>1. /\ QueuedRow(Url, now) \in Rows
          /\ QueuedRow(Url, now).status = "pending"
          /\ QueuedRow(Url, now).attempts = 0
          /\ QueuedRow(Url, now).updatedAt = now
      BY <1>4, QueuedRowType
    <2>2. SkippedRow(now) \in Rows
      BY <1>4, QueueAssumption DEF SkippedRow, Rows, Statuses
    <2> QED  BY <2>1, <2>2 DEF SkippedRow
  <1> HIDE DEF row
  <1>6. /\ rows' = IF rows[CurrentEvent] = NoRow THEN [rows EXCEPT ![CurrentEvent] = row]
                   ELSE rows
        /\ UNCHANGED <<now, attempts, retry, active, accepted, refused, used>>
        /\ UNCHANGED <<head, blocks, purged, cursor, merchant, request>>
    BY DEF RecordPayment, InsertIfAbsent, row
  <1>7. row # NoRow  BY <1>5 DEF NoRow
  <1>8. /\ \A id \in Ids : rows[id] # NoRow => rows'[id] = rows[id]
        /\ \A id \in Ids : rows'[id] # NoRow => rows[id] # NoRow \/ id = CurrentEvent
        /\ rows'[CurrentEvent] # NoRow
    BY <1>3, <1>4, <1>6, <1>7
  <1>9. QueueInv'
    <2>1. CASE rows[CurrentEvent] = NoRow
      <3>1. rows' = [rows EXCEPT ![CurrentEvent] = row]  BY <1>6, <2>1
      <3>2. PICK id \in Ids : id = CurrentEvent  BY <1>3
      <3> QED  BY <1>5, <1>6, <2>1, <3>1, <3>2, FileStep DEF RelayInv
    <2>2. CASE rows[CurrentEvent] # NoRow
      BY <1>6, <2>2, QuietStep DEF RelayInv, queueVars
    <2> QED  BY <2>1, <2>2
  <1>10. /\ indexing' \in TickTypes \ {NoTick}
         /\ indexing'.to = indexing.to
         /\ indexing'.events = Tail(indexing.events)
         /\ indexing'.step = "next"
    BY <1>2, <1>3 DEF TickTypes, NoTick
  <1> QED  BY <1>1, <1>2, <1>3, <1>6, <1>8, <1>9, <1>10, TickGoesOn

\* A step that leaves the chain and the store alone, with the tick going on or over.
LEMMA AsideStep ==
  ASSUME RelayInv, QueueInv', UNCHANGED <<head, blocks, purged, cursor>>,
         indexing' \in {indexing, NoTick},
         merchant' \in MerchantTypes, request' \in RequestTypes,
         \A id \in Ids : rows'[id] = NoRow <=> rows[id] = NoRow
  PROVE  RelayInv'
  <1>1. RelayTypeOK' /\ ChainInv'
    BY DEF RelayInv, RelayTypeOK, ChainInv, TickTypes
  <1>2. TickInv'  BY DEF RelayInv, TickInv
  <1>3. CursorCoversPayments' /\ OnlyFinalPayments'
    BY DEF RelayInv, CursorCoversPayments, OnlyFinalPayments
  <1> QED  BY <1>1, <1>2, <1>3 DEF RelayInv

\* The URL of a merchant that was configured queues what was skipped: rows no attempt has
\* started from.
LEMMA RequeueRequestStep ==
  ASSUME RelayInv, RequeueRequest
  PROVE  /\ RelayInv'
         /\ \A id \in Ids : rows[id].status # "skipped" => rows'[id] = rows[id]
  <1>1. request # NoRequest /\ request.step = "requeue"  BY DEF RequeueRequest, NoRequest
  <1>2. PICK url \in {NoUrl, Url} : url = request.url
    BY <1>1 DEF RelayInv, RelayTypeOK, RequestTypes
  <1>3. PICK t \in Nat : t = now  BY DEF RelayInv, QueueInv, QueueTypeOK
  <1>4. PICK ids \in SUBSET Ids : ids = Skipped  BY DEF Skipped
  <1>5. /\ Requeue([id \in ids |-> QueuedRow(url, t)], t)
        /\ UNCHANGED <<attempts, retry, active, accepted, used>>
        /\ UNCHANGED <<head, blocks, purged, cursor, indexing, merchant>>
        /\ request' = NoRequest
    BY <1>2, <1>3, <1>4 DEF RequeueRequest, RequeueSkipped
  <1>6. \A id \in ids : attempts[id] = NoAttempt
    BY <1>4 DEF Skipped, RelayInv, QueueInv, AttemptsInv, AttemptOK
  <1>7. QueueInv /\ now <= t  BY <1>3 DEF RelayInv
  <1>8. /\ now' = t
        /\ rows' \in [Ids -> Rows \cup {NoRow}]
        /\ refused' \in [Ids -> Nat]
        /\ \A id \in ids : rows'[id] = QueuedRow(url, t)
        /\ \A id \in Ids \ ids : rows'[id] = rows[id]
        /\ \A id \in Ids : DeliveryOK(id)'
    BY <1>5, <1>6, <1>7, RequeueStep
  <1>9. QueueInv'
    <2>1. QueueTypeOK'  BY <1>5, <1>7, <1>8 DEF QueueInv, QueueTypeOK
    <2>2. RetryInv'
      <3>1. retry # NoRetry => retry.id \in Ids \ ids
        BY <1>4, <1>7, RetryTypes DEF Skipped, QueueInv, RetryInv
      <3> QED  BY <1>5, <1>7, <1>8, <3>1 DEF QueueInv, RetryInv
    <2> QED  BY <1>8, <2>1, <2>2, InvByDelivery
  <1>10. \A id \in Ids : rows'[id] = NoRow <=> rows[id] = NoRow
    BY <1>4, <1>8 DEF Skipped, QueuedRow, NoRow
  <1>11. RelayInv'
    <2>1. merchant' \in MerchantTypes /\ request' \in RequestTypes
      BY <1>5 DEF RelayInv, RelayTypeOK, RequestTypes
    <2> QED  BY <1>5, <1>9, <1>10, <2>1, AsideStep
  <1>12. \A id \in Ids : rows[id].status # "skipped" => rows'[id] = rows[id]
    BY <1>4, <1>8 DEF Skipped
  <1> QED  BY <1>11, <1>12

\* A request, a failed call or the end of the process.
LEMMA RequestStep ==
  ASSUME RelayInv,
         \/ \E url \in {NoUrl, Url} : OnboardRead(url)
         \/ PatchRead \/ Upsert \/ TickFails \/ Crash
  PROVE  RelayInv' /\ UNCHANGED rows
  <1>1. UNCHANGED queueVars \/ QueueCrash
    BY DEF OnboardRead, PatchRead, Upsert, TickFails, Crash
  <1>2. QueueInv'  BY <1>1, QuietStep DEF RelayInv
  <1>3. UNCHANGED rows  BY <1>1 DEF queueVars, QueueCrash
  <1>4. UNCHANGED <<head, blocks, purged, cursor>> /\ indexing' \in {indexing, NoTick}
    BY DEF OnboardRead, PatchRead, Upsert, TickFails, Crash
  <1>5. request' \in RequestTypes
    <2>1. request \in RequestTypes  BY DEF RelayInv, RelayTypeOK
    <2>2. CASE Upsert
      <3>1. request \in [step : {"upsert", "requeue"}, url : {NoUrl, Url}, requeue : BOOLEAN]
        BY <2>1, <2>2 DEF Upsert, RequestTypes, NoRequest
      <3>2. request' \in {[request EXCEPT !.step = "requeue"], NoRequest}  BY <2>2 DEF Upsert
      <3> QED  BY <3>1, <3>2 DEF RequestTypes
    <2>3. CASE \E url \in {NoUrl, Url} : OnboardRead(url)
      BY <2>3 DEF OnboardRead, RequestTypes
    <2>4. CASE PatchRead
      <3>1. (merchant.url = NoUrl) \in BOOLEAN  OBVIOUS
      <3> QED  BY <2>4, <3>1 DEF PatchRead, RequestTypes
    <2>5. CASE TickFails \/ Crash  BY <2>1, <2>5 DEF TickFails, Crash, RequestTypes
    <2> QED  BY <2>2, <2>3, <2>4, <2>5
  <1>6. merchant' \in MerchantTypes
    BY DEF OnboardRead, PatchRead, Upsert, TickFails, Crash, RelayInv, RelayTypeOK, RequestTypes,
           MerchantTypes, NoRequest
  <1> QED  BY <1>2, <1>3, <1>4, <1>5, <1>6, AsideStep

\* A block, with payments that are not yet final, or a purge.
LEMMA ChainStep ==
  ASSUME RelayInv,
         \/ \E ids \in SUBSET Ids : NewBlock(ids)
         \/ \E id \in Ids : Purge(id)
  PROVE  RelayInv' /\ UNCHANGED rows
  <1>1. UNCHANGED <<queueVars, rows, cursor, indexing, merchant, request>>
    BY DEF NewBlock, Purge, queueVars
  <1>2. QueueInv'  BY <1>1, QuietStep DEF RelayInv
  <1>3. head \in Nat /\ cursor \in Nat /\ Confirmations \in Nat /\ blocks \in [Ids -> Nat]
    BY RelayAssumption DEF RelayInv, RelayTypeOK
  <1> DEFINE Grown ==
        /\ head' \in Nat /\ head <= head'
        /\ blocks' \in [Ids -> Nat]
        /\ purged \subseteq purged' /\ purged' \subseteq Ids
        /\ \A id \in Ids :
              \/ blocks'[id] = blocks[id]
              \/ /\ rows[id] = NoRow /\ blocks[id] = 0
                 /\ blocks'[id] = head' /\ head' = head + 1
  <1>4. Grown
    <2>1. ASSUME NEW ids \in SUBSET Ids, NewBlock(ids)
          PROVE  Grown
      BY <1>3, <2>1 DEF NewBlock, RelayInv, OnlyFinalPayments, RelayTypeOK
    <2>2. ASSUME NEW id \in Ids, Purge(id)
          PROVE  Grown
      BY <1>3, <2>2 DEF Purge, RelayInv, RelayTypeOK
    <2> QED  BY <2>1, <2>2
  <1>5. RelayTypeOK'  BY <1>1, <1>3, <1>4 DEF RelayInv, RelayTypeOK
  <1>6. ChainInv'
    <2>1. \A id \in Ids : blocks'[id] <= head'
      BY <1>3, <1>4 DEF RelayInv, ChainInv
    <2>2. cursor' # 0 => cursor' + Confirmations <= head'
      BY <1>1, <1>3, <1>4 DEF RelayInv, ChainInv
    <2> QED  BY <2>1, <2>2 DEF ChainInv
  <1>7. TickInv'
    <2> SUFFICES ASSUME indexing # NoTick PROVE TickInv'  BY <1>1 DEF TickInv
    <2>1. /\ indexing.to \in Nat /\ indexing.to + Confirmations <= head
          /\ indexing.events \in Seq(Ids)
      BY TickFields DEF RelayInv, TickInv
    <2>2. \A id \in Ids : blocks'[id] \in 1..indexing.to => blocks'[id] = blocks[id]
      BY <1>3, <1>4, <2>1
    <2>3. \A id \in Range(indexing.events) : id \in Ids /\ blocks[id] \in 1..indexing.to
      BY <2>1 DEF Range, RelayInv, TickInv
    <2>4. \A id \in Range(indexing.events) : blocks'[id] = blocks[id]
      <3> SUFFICES ASSUME NEW id \in Range(indexing.events) PROVE blocks'[id] = blocks[id]
        OBVIOUS
      <3> QED  BY <1>4, <2>3, <2>1
    <2> QED  BY <1>1, <1>3, <1>4, <2>1, <2>2, <2>3, <2>4 DEF RelayInv, TickInv
  <1>8. CursorCoversPayments'
    BY <1>1, <1>3, <1>4 DEF RelayInv, ChainInv, CursorCoversPayments
  <1>9. OnlyFinalPayments'
    BY <1>1, <1>3, <1>4 DEF RelayInv, OnlyFinalPayments
  <1> QED  BY <1>1, <1>2, <1>5, <1>6, <1>7, <1>8, <1>9 DEF RelayInv

\* A step of the dispatcher or of a retry files no payment and drops none.
LEMMA DeliveryStepInv ==
  ASSUME RelayInv, DeliveryStep
  PROVE  RelayInv'
  <1>1. QueueInv'  BY QueueStepInv DEF RelayInv, DeliveryStep
  <1>2. \A id \in Ids : rows'[id] = NoRow <=> rows[id] = NoRow
    BY RowsStep DEF RelayInv, DeliveryStep
  <1>3. UNCHANGED <<head, blocks, purged, cursor, indexing, merchant, request>>
    BY DEF DeliveryStep, relayVars
  <1> QED  BY <1>1, <1>2, <1>3, AsideStep DEF RelayInv, RelayTypeOK

LEMMA RelayStutter == RelayInv /\ UNCHANGED vars => RelayInv'
  <1> SUFFICES ASSUME RelayInv, UNCHANGED vars PROVE RelayInv'  OBVIOUS
  <1>1. QueueInv'  BY QuietStep DEF RelayInv, vars
  <1>2. UNCHANGED <<rows, head, blocks, purged, cursor, indexing, merchant, request>>
    BY DEF vars, queueVars, relayVars
  <1> QED  BY <1>1, <1>2, AsideStep DEF RelayInv, RelayTypeOK

-----------------------------------------------------------------------------
(* What follows.                                                           *)

\* The chain, the indexer's range and cursor, the deliveries on file, the attempts and the
\* requests agree in every reachable state.
THEOREM RelayCorrect == Spec => []RelayInv
  <1>1. Init => RelayInv  BY RelayInitInv
  <1>2. RelayInv /\ [Next]_vars => RelayInv'
    BY TickStartStep, NextEventStep, LookUpStep, RecordPaymentStep, RequeueRequestStep,
       RequestStep, ChainStep, DeliveryStepInv, RelayStutter
       DEF Next, IndexerStep
  <1> QED  BY <1>1, <1>2, PTL DEF Spec

\* The indexer's cursor never passes a payment that is neither on file nor purged, through
\* crashes, failed calls and ranges indexed in part (tick saves the cursor last).
THEOREM CursorCoversPaymentsAlways == Spec => []CursorCoversPayments
  <1>1. RelayInv => CursorCoversPayments  BY DEF RelayInv
  <1> QED  BY <1>1, RelayCorrect, PTL

\* What is on file has its confirmations, whatever the range of a tick and however far the
\* chain has grown since (the safe head of tick).
THEOREM OnlyFinalPaymentsAlways == Spec => []OnlyFinalPayments
  <1>1. RelayInv => OnlyFinalPayments  BY DEF RelayInv
  <1> QED  BY <1>1, RelayCorrect, PTL

\* What the dispatcher promises of its table still holds with the indexer and the requests
\* that write to it: a delivered row was accepted, and no row is charged for more than was
\* refused since it was last queued.
THEOREM OutcomeEarnedInRelay == Spec => []OutcomeEarned
  <1>1. RelayInv => OutcomeEarned  BY DEF RelayInv, QueueInv
  <1> QED  BY <1>1, RelayCorrect, PTL

\* A range indexed again, or a URL configured meanwhile, never sends a delivered payment
\* again; only an admin's retry does (insertDeliveryIfAbsent, requeueSkippedForMerchant).
THEOREM DeliveredOnceAlways == Spec => DeliveredOnce
  <1> DEFINE A == \A id \in Ids :
                    rows[id].status = "delivered" /\ rows'[id] # rows[id]
                      => retry # NoRetry /\ retry.id = id
  <1>1. ASSUME RelayInv, [Next]_vars
        PROVE  [A]_vars
    <2>1. CASE DeliveryStep  BY <1>1, <2>1, RowsStep DEF DeliveryStep, RelayInv
    <2>2. CASE RecordPayment  BY <1>1, <2>2, RecordPaymentStep DEF NoRow
    <2>3. CASE RequeueRequest  BY <1>1, <2>3, RequeueRequestStep
    <2>4. CASE \/ \E url \in {NoUrl, Url} : OnboardRead(url)
               \/ PatchRead \/ Upsert \/ TickFails \/ Crash
      BY <1>1, <2>4, RequestStep
    <2>5. CASE (\E ids \in SUBSET Ids : NewBlock(ids)) \/ (\E id \in Ids : Purge(id))
      BY <1>1, <2>5, ChainStep
    <2>6. CASE TickStart \/ NextEvent \/ CheckKnown \/ CheckOrder \/ FindMerchant
      BY <2>6 DEF TickStart, NextEvent, CheckKnown, CheckOrder, FindMerchant, KeepAllBut,
                  queueVars
    <2>7. CASE UNCHANGED vars  BY <2>7
    <2> QED  BY <1>1, <2>1, <2>2, <2>3, <2>4, <2>5, <2>6, <2>7 DEF Next, IndexerStep
  <1> QED  BY <1>1, RelayCorrect, PTL DEF Spec, DeliveredOnce

=============================================================================
