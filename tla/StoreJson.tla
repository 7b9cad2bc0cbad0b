------------------------------- MODULE StoreJson ------------------------------
(***************************************************************************)
(* The methods of backend/src/store/json.ts: the store of StorePostgres,   *)
(* with the same method names, in objects and arrays in memory.  A method  *)
(* writes the whole file before it returns, in one synchronous stretch, so *)
(* what memory holds between two of them is what a restart reads.  An      *)
(* object whose order the code relies on has its keys in a sequence.       *)
(***************************************************************************)
EXTENDS Tables, Naturals

CONSTANTS
    MaxSessions,   \* MAX_SESSIONS_PER_MERCHANT
    DefaultChain   \* what a row from before multi-chain is read back as

-----------------------------------------------------------------------------
(* What the process makes of the file when it starts.                      *)

withChainId(row) == IF row # Absent /\ row.chain = Absent THEN [row EXCEPT !.chain = DefaultChain] ELSE row

readLinks(db) == [db EXCEPT !.link = withChainId(@)]

readOrderMeta(db) == [db EXCEPT !.meta = withChainId(@)]

\* The old rows hold the key itself: those go to a bucket of their own.
readApiKeys(db) ==
    LET old == {key \in DOMAIN db.apiKeys : ~db.apiKeys[key].hashed}
    IN  [apiKeys |-> Without(db.apiKeys, old),
         legacyApiKeys |->
             [key \in DOMAIN db.legacyApiKeys \cup old |->
                 IF key \in old THEN db.apiKeys[key].owner ELSE db.legacyApiKeys[key]]]

\* The index by order is built again: of the rows of an order the last one wins.
indexDeliveries(db) ==
    [db EXCEPT !.byOrder = IF db.order = <<>> THEN Absent ELSE Last(db.order)]

purgeSessions(db, now) ==
    [db EXCEPT !.sessions = Without(@, {t \in DOMAIN @ : @[t].expires <= now})]

-----------------------------------------------------------------------------
(* Cursors, merchants and payout addresses.                                *)

setCursor(db, scope, block) == Wrote([db EXCEPT !.cursors = With(@, scope, block)], "done")

upsertMerchant(db, m) ==
    Wrote([db EXCEPT !.merchants = IF Contains(@, m) THEN @ ELSE Append(@, m)], "done")

setPayoutAddress(db, m, chain, address) ==
    Wrote([db EXCEPT !.payouts = With(@, <<m, chain>>, address)], "done")

clearPayoutAddress(db, m, chain) ==
    Wrote([db EXCEPT !.payouts = Without(@, {<<m, chain>>})], "done")

\* The first merchant with the row, or who signs in with that address and has no row.
getMerchantByPayoutAddress(db, chain, address) ==
    LET Receives(m) ==
            LET row == Row(db.payouts, <<m, chain>>)
            IN  row = address \/ (row = Absent /\ m = address)
        first == FirstWhere(db.merchants, Receives)
    IN  IF first = 0 THEN Absent ELSE db.merchants[first]

-----------------------------------------------------------------------------
(* API keys: the hashed ones, and the bucket of those from before hashing. *)

createMerchantApiKey(db, key, m) ==
    Wrote([db EXCEPT !.apiKeys = With(@, key, [owner |-> m, hashed |-> TRUE])], "done")

getMerchantByApiKey(db, key) ==
    IF key \in DOMAIN db.apiKeys THEN Wrote(db, db.apiKeys[key].owner)
    ELSE IF key \in DOMAIN db.legacyApiKeys
    THEN Wrote([createMerchantApiKey(db, key, db.legacyApiKeys[key]).db
                   EXCEPT !.legacyApiKeys = Without(@, {key})],
               db.legacyApiKeys[key])
    ELSE Wrote(db, Absent)

listMerchantApiKeys(db, m) == {key \in DOMAIN db.apiKeys : db.apiKeys[key].owner = m}

revokeMerchantApiKeyByRef(db, key) ==
    Wrote([db EXCEPT !.apiKeys = Without(@, {key})], "done")

-----------------------------------------------------------------------------
(* Deliveries, of one order of one merchant.                               *)

insertDeliveryIfAbsent(db, id, row) ==
    IF id \in DOMAIN db.deliveries THEN Wrote(db, FALSE)
    ELSE Wrote([db EXCEPT !.deliveries = With(@, id, row), !.order = Append(@, id), !.byOrder = id],
               TRUE)

getDeliveryByOrder(db) == db.byOrder

requeueSkippedForMerchant(db, now) ==
    LET skipped == {id \in DOMAIN db.deliveries : db.deliveries[id].status = "skipped"}
        Again(row) ==
            [row EXCEPT !.status = "pending", !.attempts = 0, !.next = now, !.updated = now]
    IN  Wrote([db EXCEPT !.deliveries =
                  [id \in DOMAIN @ |-> IF id \in skipped THEN Again(@[id]) ELSE @[id]]],
              Cardinality(skipped))

\* Its callers hold a row on file; otherwise the row is inserted.
updateDelivery(db, id, row) == Wrote([db EXCEPT !.deliveries = With(@, id, row)], "done")

\* Compare and swap: guard is the row the caller started from.
updateDeliveryIfCurrent(db, id, row, guard) ==
    LET current == db.deliveries[id]
    IN  IF \/ id \notin DOMAIN db.deliveries
           \/ current.attempts # guard.attempts
           \/ current.status # guard.status
           \/ current.next # guard.next
           \/ current.updated # guard.updated
        THEN Wrote(db, FALSE)
        ELSE Wrote([db EXCEPT !.deliveries = With(@, id, row)], TRUE)

getDueDeliveries(db, now) ==
    {id \in DOMAIN db.deliveries :
        db.deliveries[id].status = "pending" /\ db.deliveries[id].next <= now}

\* The first of them: a stable sort keeps the order of the file among equals.
NextDue(db, now) ==
    LET due == getDueDeliveries(db, now)
        Earliest(id) ==
            id \in due /\ \A other \in due : db.deliveries[id].next <= db.deliveries[other].next
        first == FirstWhere(db.order, Earliest)
    IN  IF first = 0 THEN Absent ELSE db.order[first]

-----------------------------------------------------------------------------
(* Sessions of one merchant, and nonces.                                   *)

\* One row makes room for a new one.
createSession(db, token, row) ==
    LET oldest == CHOOSE t \in DOMAIN db.sessions :
                     \A u \in DOMAIN db.sessions : db.sessions[t].created <= db.sessions[u].created
        evicted == IF token \notin DOMAIN db.sessions /\ Cardinality(DOMAIN db.sessions) >= MaxSessions
                   THEN {oldest} ELSE {}
    IN  Wrote([db EXCEPT !.sessions = With(Without(@, evicted), token, row)], "done")

getSession(db, token, now) ==
    LET session == Row(db.sessions, token)
    IN  IF session # Absent /\ session.expires <= now
        THEN Wrote([db EXCEPT !.sessions = Without(@, {token})], Absent)
        ELSE Wrote(db, session)

deleteSession(db, token) == Wrote([db EXCEPT !.sessions = Without(@, {token})], "done")

createNonce(db, nonce, row, now) ==
    LET expired == {n \in DOMAIN db.nonces : db.nonces[n].expires <= now}
    IN  Wrote([db EXCEPT !.nonces = With(Without(@, expired), nonce, row)], "done")

consumeNonce(db, nonce, now) ==
    IF nonce \notin DOMAIN db.nonces THEN Wrote(db, Absent)
    ELSE Wrote([db EXCEPT !.nonces = Without(@, {nonce})],
               IF db.nonces[nonce].expires <= now THEN Absent ELSE db.nonces[nonce].address)

-----------------------------------------------------------------------------
(* A payment link and its claims, an array in the order they were made.    *)

NewClaim(order, payer, now) == [order |-> order, payer |-> payer, at |-> now, settled |-> FALSE]

upsertLink(db, link) == Wrote([db EXCEPT !.link = link], "done")

claimOrderFromPool(db, payer, now) ==
    IF db.link = Absent \/ db.link.pool = <<>> THEN Wrote(db, Absent)
    ELSE LET rest == [db.link EXCEPT !.pool = Tail(@)]
             order == Head(db.link.pool)
         IN  Wrote([db EXCEPT !.link = rest, !.claims = Append(@, NewClaim(order, payer, now))], order)

reserveQiLinkOrder(db, now) == claimOrderFromPool(db, "qi", now)

mintClaimedOrder(db, order, payer, cap, now) ==
    IF db.link = Absent \/ (cap > 0 /\ Len(db.claims) >= cap) THEN Wrote(db, Absent)
    ELSE Wrote([db EXCEPT !.claims = Append(@, NewClaim(order, payer, now))], order)

Reassign(claims, i, payer, now) == [claims EXCEPT ![i] = [@ EXCEPT !.payer = payer, !.at = now]]

\* The position of the claim of an order.
ClaimOf(db, order) == LET Names(c) == c.order = order IN FirstWhere(db.claims, Names)

\* Whether the link exists is not asked.
claimFixedOrder(db, order, payer, staleAfter, now) ==
    LET i == ClaimOf(db, order)
    IN  IF i = 0
        THEN Wrote([db EXCEPT !.claims = Append(@, NewClaim(order, payer, now))], "claimed")
        ELSE IF db.claims[i].settled THEN Wrote(db, "settled")
        ELSE IF db.claims[i].payer = payer \/ now - db.claims[i].at >= staleAfter
        THEN Wrote([db EXCEPT !.claims = Reassign(@, i, payer, now)], "claimed")
        ELSE Wrote(db, "taken")

\* Whether a claim may be handed to another payer.
Stale(claim, olderThan, now) == ~claim.settled /\ claim.at + olderThan < now

\* The first of the stale claims in the array.
reclaimStaleClaim(db, payer, olderThan, now) ==
    LET IsStale(c) == Stale(c, olderThan, now)
        i == FirstWhere(db.claims, IsStale)
    IN  IF i = 0 THEN Wrote(db, Absent)
        ELSE Wrote([db EXCEPT !.claims = Reassign(@, i, payer, now)], db.claims[i].order)

settleClaimedOrder(db, order) ==
    LET i == ClaimOf(db, order)
    IN  IF i = 0 THEN Wrote(db, "done")
        ELSE Wrote([db EXCEPT !.claims[i] = [@ EXCEPT !.settled = TRUE]], "done")

\* The order of the payer's latest claim.
getLatestClaim(db, payer) ==
    LET Latest(c) ==
            /\ c.payer = payer
            /\ \A i \in DOMAIN db.claims : db.claims[i].payer = payer => db.claims[i].at <= c.at
        i == FirstWhere(db.claims, Latest)
    IN  IF i = 0 THEN Absent ELSE db.claims[i].order

-----------------------------------------------------------------------------
(* The metadata of an order, and Qi orders.                                *)

\* The row is replaced, but for a reference that the new one does not bring.
saveOrderMeta(db, meta) ==
    Wrote([db EXCEPT !.meta =
              IF @ # Absent /\ @.reference # Absent /\ meta.reference = Absent
              THEN [meta EXCEPT !.reference = db.meta.reference]
              ELSE meta],
          "done")

insertQiOrder(db, order, address) ==
    IF \/ order \in DOMAIN db.qiOrders
       \/ \E o \in DOMAIN db.qiOrders : db.qiOrders[o].address = address
    THEN Wrote(db, "refused")
    ELSE Wrote([db EXCEPT !.qiOrders = With(@, order, [address |-> address, settled |-> FALSE])],
               "inserted")

markQiOrderSettled(db, order) ==
    IF order \notin DOMAIN db.qiOrders THEN Wrote(db, Absent)
    ELSE LET row == [db.qiOrders[order] EXCEPT !.settled = TRUE]
         IN  Wrote([db EXCEPT !.qiOrders[order] = row], row)

=============================================================================
