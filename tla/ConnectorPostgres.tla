--------------------------- MODULE ConnectorPostgres --------------------------
(***************************************************************************)
(* The methods of shopify-app/src/store/postgres.ts, one statement each,   *)
(* over the tables of the connector's database.                            *)
(***************************************************************************)
EXTENDS Tables, Naturals

setSession(db, shop, row) == Wrote([db EXCEPT !.sessions = With(@, shop, row)], "done")

removeSession(db, shop) == Wrote([db EXCEPT !.sessions = Without(@, {shop})], "done")

putSettings(db, shop, row) == Wrote([db EXCEPT !.settings = With(@, shop, row)], "done")

clearSettings(db, shop) == Wrote([db EXCEPT !.settings = Without(@, {shop})], "done")

\* An issued state is bound to its shop.
putState(db, state, row) ==
    Wrote([db EXCEPT !.states = IF state \in DOMAIN @ THEN @ ELSE With(@, state, row)], "done")

\* The row is deleted and returned if the shop is the one it was issued for.
consumeState(db, state, shop) ==
    IF state \in DOMAIN db.states /\ db.states[state].shop = shop
    THEN Wrote([db EXCEPT !.states = Without(@, {state})], db.states[state])
    ELSE Wrote(db, Absent)

pruneStates(db, maxAge, now) ==
    LET old == {s \in DOMAIN db.states : db.states[s].at + maxAge < now}
    IN  Wrote([db EXCEPT !.states = Without(@, old)], Cardinality(old))

\* Of a row on file the shop, the order and the date stay.
upsertPending(db, id, row) ==
    LET old == Row(db.pending, id)
    IN  Wrote([db EXCEPT !.pending =
                  With(@, id, IF old = Absent THEN row
                              ELSE [old EXCEPT !.status = row.status, !.expires = row.expires])],
              "done")

markPaid(db, id) ==
    IF id \notin DOMAIN db.pending THEN Wrote(db, Absent)
    ELSE LET row == [db.pending[id] EXCEPT !.status = "paid"]
         IN  Wrote([db EXCEPT !.pending[id] = row], row)

sweepExpired(db, now) ==
    LET lapsed == {id \in DOMAIN db.pending :
                      /\ db.pending[id].status = "awaiting"
                      /\ db.pending[id].expires \in 1..now}
    IN  Wrote([db EXCEPT !.pending =
                  [id \in DOMAIN @ |-> IF id \in lapsed THEN [@[id] EXCEPT !.status = "expired"] ELSE @[id]]],
              Cardinality(lapsed))

isLive(db, id, now) ==
    /\ id \in DOMAIN db.pending
    /\ db.pending[id].status = "awaiting"
    /\ db.pending[id].expires > now

\* LIMIT 1 without an order: any of the rows.
getPendingForShopOrder(db, shop, order) ==
    LET rows == {id \in DOMAIN db.pending :
                    db.pending[id].shop = shop /\ db.pending[id].order = order}
    IN  IF rows = {} THEN Absent ELSE CHOOSE id \in rows : TRUE

getPendingForOrder(db, order) ==
    LET rows == {id \in DOMAIN db.pending : db.pending[id].order = order}
    IN  IF rows = {} THEN Absent ELSE CHOOSE id \in rows : TRUE

=============================================================================
