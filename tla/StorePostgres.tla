----------------------------- MODULE StorePostgres ----------------------------
(***************************************************************************)
(* The methods of backend/src/store/postgres.ts, one statement or one      *)
(* transaction each, over the tables of the database.  A method gives the  *)
(* tables it leaves and its answer.  The tables hold what a method decides *)
(* on: names, labels and amounts are left out, an API key stands for its   *)
(* hash and its reference, and there is one link, one order with metadata  *)
(* and one merchant with deliveries and sessions.                          *)
(***************************************************************************)
EXTENDS Tables, Naturals

CONSTANTS
    MaxSessions,   \* sessions a merchant keeps (20)
    DefaultChain   \* the chain of what was written before there were several

\* ON CONFLICT DO NOTHING.
Insert(table, key, row) == IF key \in DOMAIN table THEN table ELSE With(table, key, row)

\* An UPDATE of the row with that key, if there is one.
Update(table, key, row) == IF key \in DOMAIN table THEN With(table, key, row) ELSE table

\* ALTER TABLE ... ADD COLUMN chain_id, and the rows from before filled in.
Backfilled(row) == IF row # Absent /\ row.chain = Absent THEN [row EXCEPT !.chain = DefaultChain] ELSE row

initLinks(db) == [db EXCEPT !.link = Backfilled(@)]

initOrderMeta(db) == [db EXCEPT !.meta = Backfilled(@)]

-----------------------------------------------------------------------------
(* Cursors, merchants and payout addresses.                                *)

setCursor(db, scope, block) == Wrote([db EXCEPT !.cursors = With(@, scope, block)], "done")

upsertMerchant(db, m) == Wrote([db EXCEPT !.merchants = @ \cup {m}], "done")

\* The row refers to its merchant.
setPayoutAddress(db, m, chain, address) ==
    IF m \in db.merchants
    THEN Wrote([db EXCEPT !.payouts = With(@, <<m, chain>>, address)], "done")
    ELSE Wrote(db, "raised")

clearPayoutAddress(db, m, chain) ==
    Wrote([db EXCEPT !.payouts = Without(@, {<<m, chain>>})], "done")

\* A merchant with the row; without one, whoever signs in with that address.
getMerchantByPayoutAddress(db, chain, address) ==
    LET mapped == {m \in db.merchants : Row(db.payouts, <<m, chain>>) = address}
    IN  IF mapped # {} THEN CHOOSE m \in mapped : TRUE
        ELSE IF address \in db.merchants THEN address
        ELSE Absent

-----------------------------------------------------------------------------
(* API keys.  A row from before hashing holds the key itself.              *)

createMerchantApiKey(db, key, m) ==
    Wrote([db EXCEPT !.apiKeys = With(@, key, [owner |-> m, hashed |-> TRUE])], "done")

\* A row from before is hashed when its key is first presented.
getMerchantByApiKey(db, key) ==
    IF key \notin DOMAIN db.apiKeys THEN Wrote(db, Absent)
    ELSE Wrote([db EXCEPT !.apiKeys[key] = [@ EXCEPT !.hashed = TRUE]], db.apiKeys[key].owner)

listMerchantApiKeys(db, m) ==
    {key \in DOMAIN db.apiKeys : db.apiKeys[key] = [owner |-> m, hashed |-> TRUE]}

revokeMerchantApiKeyByRef(db, key) ==
    IF key \in DOMAIN db.apiKeys /\ db.apiKeys[key].hashed
    THEN Wrote([db EXCEPT !.apiKeys = Without(@, {key})], "done")
    ELSE Wrote(db, "done")

-----------------------------------------------------------------------------
(* Deliveries, of one order of one merchant.                               *)

insertDeliveryIfAbsent(db, id, row) ==
    Wrote([db EXCEPT !.deliveries = Insert(@, id, row)], id \notin DOMAIN db.deliveries)

\* created_at is left as it is.
Updated(db, id, row) ==
    [db EXCEPT !.deliveries = Update(@, id, [row EXCEPT !.created = db.deliveries[id].created])]

updateDelivery(db, id, row) ==
    IF id \in DOMAIN db.deliveries THEN Wrote(Updated(db, id, row), "done") ELSE Wrote(db, "done")

\* Compare and swap: guard is the row the caller started from.
updateDeliveryIfCurrent(db, id, row, guard) ==
    IF /\ id \in DOMAIN db.deliveries
       /\ db.deliveries[id].attempts = guard.attempts
       /\ db.deliveries[id].status = guard.status
       /\ db.deliveries[id].next = guard.next
       /\ db.deliveries[id].updated = guard.updated
    THEN Wrote(Updated(db, id, row), TRUE)
    ELSE Wrote(db, FALSE)

Requeued(row, now) ==
    [row EXCEPT !.status = "pending", !.attempts = 0, !.next = now, !.updated = now]

requeueSkippedForMerchant(db, now) ==
    LET skipped == {id \in DOMAIN db.deliveries : db.deliveries[id].status = "skipped"}
    IN  Wrote([db EXCEPT !.deliveries =
                  [id \in DOMAIN @ |-> IF id \in skipped THEN Requeued(@[id], now) ELSE @[id]]],
              Cardinality(skipped))

\* The order by created_at, latest first, of which the caller gets the first.
getDeliveryByOrder(db) ==
    IF DOMAIN db.deliveries = {} THEN Absent
    ELSE CHOOSE id \in DOMAIN db.deliveries :
             \A other \in DOMAIN db.deliveries :
                 db.deliveries[other].created <= db.deliveries[id].created

getDueDeliveries(db, now) ==
    {id \in DOMAIN db.deliveries :
        db.deliveries[id].status = "pending" /\ db.deliveries[id].next <= now}

\* The first of them, by next_attempt_at.
NextDue(db, now) ==
    LET due == getDueDeliveries(db, now)
    IN  IF due = {} THEN Absent
        ELSE CHOOSE id \in due :
                 \A other \in due : db.deliveries[id].next <= db.deliveries[other].next

-----------------------------------------------------------------------------
(* Sessions of one merchant, and nonces.                                   *)

\* Mutant of Newest: one more is kept.
NewestAndOne(sessions) ==
    CHOOSE kept \in SUBSET DOMAIN sessions :
        /\ Cardinality(kept) = Min({MaxSessions, Cardinality(DOMAIN sessions)})
        /\ \A t \in kept, u \in DOMAIN sessions \ kept : sessions[u].created <= sessions[t].created

\* The rows before the OFFSET.
Newest(sessions) ==
    CHOOSE kept \in SUBSET DOMAIN sessions :
        /\ Cardinality(kept) = Min({MaxSessions - 1, Cardinality(DOMAIN sessions)})
        /\ \A t \in kept, u \in DOMAIN sessions \ kept : sessions[u].created <= sessions[t].created

createSession(db, token, row) ==
    Wrote([db EXCEPT !.sessions = With(Restrict(@, Newest(@)), token, row)], "done")

\* A row that has expired is deleted before it can be read.
getSession(db, token, now) ==
    LET session == Row(db.sessions, token)
    IN  IF session # Absent /\ session.expires <= now
        THEN Wrote([db EXCEPT !.sessions = Without(@, {token})], Absent)
        ELSE Wrote(db, session)

deleteSession(db, token) == Wrote([db EXCEPT !.sessions = Without(@, {token})], "done")

createNonce(db, nonce, row, now) ==
    LET expired == {n \in DOMAIN db.nonces : db.nonces[n].expires <= now}
    IN  Wrote([db EXCEPT !.nonces = With(Without(@, expired), nonce, row)], "done")

consumeNonce(db, nonce, now) ==
    Wrote([db EXCEPT !.nonces = Without(@, {nonce})],
          IF nonce \notin DOMAIN db.nonces \/ db.nonces[nonce].expires <= now THEN Absent
          ELSE db.nonces[nonce].address)

-----------------------------------------------------------------------------
(* A payment link and its claims, keyed by the id of the order.            *)

NewClaim(payer, now) == [payer |-> payer, at |-> now, settled |-> FALSE]

Reassign(claims, order, payer, now) ==
    [claims EXCEPT ![order] = [@ EXCEPT !.payer = payer, !.at = now]]

upsertLink(db, link) == Wrote([db EXCEPT !.link = link], "done")

claimOrderFromPool(db, payer, now) ==
    IF db.link = Absent \/ db.link.pool = <<>> THEN Wrote(db, Absent)
    ELSE LET rest == [db.link EXCEPT !.pool = Tail(@)]
             order == Head(db.link.pool)
         IN  Wrote([db EXCEPT !.link = rest, !.claims = Insert(@, order, NewClaim(payer, now))], order)

\* The sentinel payer of those who pay in Qi.
reserveQiLinkOrder(db, now) == claimOrderFromPool(db, "qi", now)

mintClaimedOrder(db, order, payer, cap, now) ==
    IF db.link = Absent \/ (cap > 0 /\ Cardinality(DOMAIN db.claims) >= cap) THEN Wrote(db, Absent)
    ELSE Wrote([db EXCEPT !.claims = Insert(@, order, NewClaim(payer, now))], order)

claimFixedOrder(db, order, payer, staleAfter, now) ==
    LET claim == db.claims[order]
    IN  IF db.link = Absent THEN Wrote(db, "taken")
        ELSE IF order \notin DOMAIN db.claims
        THEN Wrote([db EXCEPT !.claims = With(@, order, NewClaim(payer, now))], "claimed")
        ELSE IF claim.settled THEN Wrote(db, "settled")
        ELSE IF claim.payer # payer /\ now - claim.at < staleAfter THEN Wrote(db, "taken")
        ELSE Wrote([db EXCEPT !.claims = Reassign(@, order, payer, now)], "claimed")

\* The oldest of the stale rows.
reclaimStaleClaim(db, payer, olderThan, now) ==
    LET stale == {o \in DOMAIN db.claims : ~db.claims[o].settled /\ db.claims[o].at + olderThan < now}
        oldest == CHOOSE o \in stale : \A p \in stale : db.claims[o].at <= db.claims[p].at
    IN  IF stale = {} THEN Wrote(db, Absent)
        ELSE Wrote([db EXCEPT !.claims = Reassign(@, oldest, payer, now)], oldest)

settleClaimedOrder(db, order) ==
    IF order \in DOMAIN db.claims
    THEN Wrote([db EXCEPT !.claims[order] = [@ EXCEPT !.settled = TRUE]], "done")
    ELSE Wrote(db, "done")

\* The order of the payer's latest claim.
getLatestClaim(db, payer) ==
    LET theirs == {o \in DOMAIN db.claims : db.claims[o].payer = payer}
    IN  IF theirs = {} THEN Absent
        ELSE CHOOSE o \in theirs : \A p \in theirs : db.claims[p].at <= db.claims[o].at

-----------------------------------------------------------------------------
(* The metadata of an order, and Qi orders.                                *)

Coalesce(new, old) == IF new # Absent THEN new ELSE old

\* The merchant of the first row stays.
saveOrderMeta(db, meta) ==
    LET old == db.meta
        merged == [meta EXCEPT !.merchant = old.merchant,
                               !.name = Coalesce(@, old.name),
                               !.reference = Coalesce(@, old.reference)]
    IN  Wrote([db EXCEPT !.meta = IF old = Absent THEN meta ELSE merged], "done")

\* The address is UNIQUE: one that is taken raises an error.
insertQiOrder(db, order, address) ==
    IF order \in DOMAIN db.qiOrders THEN Wrote(db, "refused")
    ELSE IF \E o \in DOMAIN db.qiOrders : db.qiOrders[o].address = address THEN Wrote(db, "raised")
    ELSE Wrote([db EXCEPT !.qiOrders = With(@, order, [address |-> address, settled |-> FALSE])],
               "inserted")

markQiOrderSettled(db, order) ==
    IF order \notin DOMAIN db.qiOrders THEN Wrote(db, Absent)
    ELSE LET row == [db.qiOrders[order] EXCEPT !.settled = TRUE]
         IN  Wrote([db EXCEPT !.qiOrders[order] = row], row)

=============================================================================
