----------------------------- MODULE ConnectorFile ----------------------------
(***************************************************************************)
(* The methods of shopify-app/src/store/file.ts, over its objects in       *)
(* memory: the store of ConnectorPostgres, with the same method names.     *)
(***************************************************************************)
EXTENDS Tables, Naturals

setSession(db, shop, row) == Wrote([db EXCEPT !.sessions = With(@, shop, row)], "done")

removeSession(db, shop) == Wrote([db EXCEPT !.sessions = Without(@, {shop})], "done")

putSettings(db, shop, row) == Wrote([db EXCEPT !.settings = With(@, shop, row)], "done")

clearSettings(db, shop) == Wrote([db EXCEPT !.settings = Without(@, {shop})], "done")

putState(db, state, row) == Wrote([db EXCEPT !.states = With(@, state, row)], "done")

\* Deleted whatever shop it was issued for.
consumeState(db, state, shop) ==
    LET row == Row(db.states, state)
    IN  Wrote([db EXCEPT !.states = Without(@, {state})],
              IF row = Absent \/ row.shop # shop THEN Absent ELSE row)

pruneStates(db, maxAge, now) ==
    LET old == {s \in DOMAIN db.states : db.states[s].at < now - maxAge}
    IN  Wrote([db EXCEPT !.states = Without(@, old)], Cardinality(old))

\* The object keeps its keys in the order in which they were first written.
upsertPending(db, id, row) ==
    Wrote([db EXCEPT !.pending = With(@, id, row),
                     !.order = IF id \in DOMAIN db.pending THEN @ ELSE Append(@, id)],
          "done")

markPaid(db, id) ==
    IF id \notin DOMAIN db.pending THEN Wrote(db, Absent)
    ELSE LET row == [db.pending[id] EXCEPT !.status = "paid"]
         IN  Wrote([db EXCEPT !.pending[id] = row], row)

sweepExpired(db, now) ==
    LET lapsed == {id \in DOMAIN db.pending :
                      db.pending[id].status = "awaiting" /\ db.pending[id].expires <= now}
        Swept(id) == IF id \in lapsed THEN "expired" ELSE db.pending[id].status
    IN  Wrote([db EXCEPT !.pending = [id \in DOMAIN @ |-> [@[id] EXCEPT !.status = Swept(id)]]],
              Cardinality(lapsed))

isLive(db, id, now) ==
    /\ id \in DOMAIN db.pending
    /\ db.pending[id].status = "awaiting"
    /\ db.pending[id].expires > now

\* The first one written.
getPendingForShopOrder(db, shop, order) ==
    LET Matches(id) == db.pending[id].shop = shop /\ db.pending[id].order = order
        first == FirstWhere(db.order, Matches)
    IN  IF first = 0 THEN Absent ELSE db.order[first]

getPendingForOrder(db, order) ==
    LET Matches(id) == db.pending[id].order = order
        first == FirstWhere(db.order, Matches)
    IN  IF first = 0 THEN Absent ELSE db.order[first]

=============================================================================
