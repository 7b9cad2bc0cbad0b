--------------------------------- MODULE Stores -------------------------------
(***************************************************************************)
(* The two implementations of the backend's Store side by side, and the    *)
(* two of the connector's: the same calls, in the same order, to the one   *)
(* of PostgreSQL and to the one of a JSON file.  The tables fall into      *)
(* groups that no call relates; one behaviour makes the calls of one.      *)
(* Calls one after another are all there is here: what happens between the *)
(* statements of two requests is in LinkClaims, SignIn, Payouts, Connector *)
(* and WebhookQueue.                                                       *)
(***************************************************************************)
EXTENDS Clock, Sequences, FiniteSets

CONSTANTS
    Absent,        \* undefined, or NULL
    MaxSessions,   \* sessions a merchant keeps (20)
    SessionLife,   \* SESSION_TTL_MS, and the life of a nonce
    StaleAfter,    \* CLAIM_STALE_MS
    DefaultChain,
    Networks,      \* chains
    Owners,        \* merchants, each named by the login address
    Keys,          \* API keys, session tokens and nonces: random, issued once
    Payments,      \* the ids of deliveries, and of orders paid in Qi
    Pool,          \* the orders of a link from before orders were minted
    Minted,        \* the random ids of minted orders
    Payers,
    ShopNames,     \* shops with the connector
    StateLife,     \* STATE_TTL_MS
    LinkCap,       \* maxRedemptions of the other links
    MaxAttempts,   \* bound: the attempts of a delivery
    StoreTime      \* bound: the latest instant explored

PoolOrders == {Pool[i] : i \in DOMAIN Pool}

\* Each order of the pool is there once, and no random id is one of them.
PoolOfEach ==
    /\ Pool \in Seq(PoolOrders)
    /\ \A i, j \in DOMAIN Pool : Pool[i] = Pool[j] => i = j
    /\ PoolOrders \cap Minted = {}

ASSUME StoresAssumption ==
    /\ MaxSessions \in Nat \ {0}
    /\ PoolOfEach
    /\ {SessionLife, StaleAfter, StateLife, LinkCap, MaxAttempts, StoreTime} \subseteq Nat
    /\ DefaultChain \in Networks
    /\ Absent \notin Networks \cup Owners \cup Keys \cup Payments \cup Minted

VARIABLES
    group,    \* the tables this behaviour is about
    pg,       \* what the database holds
    json,     \* what the process with the file holds
    held,     \* a delivery as its caller read it, before it writes it back
    agree,    \* the last call had the same answer from both
    parted    \* a call was made that the two are known to treat differently

storeVars == <<group, pg, json, held, agree, parted>>

P == INSTANCE StorePostgres
J == INSTANCE StoreJson
CP == INSTANCE ConnectorPostgres
CF == INSTANCE ConnectorFile

\* A link from before there were chains, its orders registered beforehand.
OldLink == [chain |-> Absent, pool |-> Pool, cap |-> 0, fixed |-> Absent]

NewLinks ==
    {[chain |-> DefaultChain, pool |-> <<>>, cap |-> LinkCap, fixed |-> Absent],
     [chain |-> DefaultChain, pool |-> <<>>, cap |-> 0, fixed |-> Pool[1]]}

OldMeta == [merchant |-> "m", name |-> "n", slug |-> Absent, reference |-> Absent, chain |-> Absent]

\* What is on file when the process first starts: nothing, or what an earlier version left.
StartMerchants ==
    /\ pg = [merchants |-> {}, payouts |-> <<>>, cursors |-> <<>>]
    /\ json = [merchants |-> <<>>, payouts |-> <<>>, cursors |-> <<>>]

StartKeys ==
    \E old \in SUBSET Keys, m \in Owners :
        LET rows == [key \in old |-> [owner |-> m, hashed |-> FALSE]]
        IN  /\ pg = [apiKeys |-> rows]
            /\ json = J!readApiKeys([apiKeys |-> rows, legacyApiKeys |-> <<>>])

StartDeliveries ==
    /\ pg = [deliveries |-> <<>>]
    /\ json = J!indexDeliveries([deliveries |-> <<>>, order |-> <<>>, byOrder |-> Absent])

StartSessions ==
    /\ pg = [sessions |-> <<>>]
    /\ json = J!purgeSessions([sessions |-> <<>>], clock)

StartNonces == pg = [nonces |-> <<>>] /\ json = [nonces |-> <<>>]

StartClaims ==
    \E link \in {Absent, OldLink} :
        /\ pg = P!initLinks([link |-> link, claims |-> <<>>])
        /\ json = J!readLinks([link |-> link, claims |-> <<>>])

StartOrders ==
    \E meta \in {Absent, OldMeta} :
        /\ pg = P!initOrderMeta([meta |-> meta, qiOrders |-> <<>>])
        /\ json = J!readOrderMeta([meta |-> meta, qiOrders |-> <<>>])

StartShops ==
    /\ pg = [sessions |-> <<>>, settings |-> <<>>]
    /\ json = [sessions |-> <<>>, settings |-> <<>>]

StartStates == pg = [states |-> <<>>] /\ json = [states |-> <<>>]

StartPending ==
    /\ pg = [pending |-> <<>>]
    /\ json = [pending |-> <<>>, order |-> <<>>]

OnFile ==
    \/ group = "merchants" /\ StartMerchants
    \/ group = "keys" /\ StartKeys
    \/ group = "deliveries" /\ StartDeliveries
    \/ group = "sessions" /\ StartSessions
    \/ group = "nonces" /\ StartNonces
    \/ group = "claims" /\ StartClaims
    \/ group = "orders" /\ StartOrders
    \/ group = "shops" /\ StartShops
    \/ group = "states" /\ StartStates
    \/ group = "pending" /\ StartPending

Groups ==
    {"merchants", "keys", "deliveries", "sessions", "nonces", "claims", "orders",
     "shops", "states", "pending"}

StoresInit ==
    /\ group \in Groups
    /\ OnFile
    /\ held = Absent
    /\ agree = TRUE
    /\ parted = FALSE

-----------------------------------------------------------------------------
(* A call to both.  After one they treat differently nothing more is said. *)

Differing(p, j, unlike) ==
    /\ ~parted
    /\ pg' = p.db
    /\ json' = j.db
    /\ agree' = (p.answer = j.answer)
    /\ parted' = unlike
    /\ UNCHANGED <<group, clock>>

Both(p, j) == Differing(p, j, FALSE) /\ UNCHANGED held

\* Profiles, payout addresses and the indexer's cursors.
MerchantCalls ==
    /\ group = "merchants"
    /\ \/ \E m \in Owners : Both(P!upsertMerchant(pg, m), J!upsertMerchant(json, m))
       \/ \E m \in pg.merchants, chain \in Networks :
             \/ \E address \in Owners :
                   Both(P!setPayoutAddress(pg, m, chain, address),
                        J!setPayoutAddress(json, m, chain, address))
             \/ Both(P!clearPayoutAddress(pg, m, chain), J!clearPayoutAddress(json, m, chain))
       \/ \E scope \in Networks, block \in 0..1 :
             Both(P!setCursor(pg, scope, block), J!setCursor(json, scope, block))

\* A key is random, issued once.
KeyCalls ==
    /\ group = "keys"
    /\ \E key \in Keys :
          \/ /\ key \notin DOMAIN pg.apiKeys
             /\ \E m \in Owners :
                   Both(P!createMerchantApiKey(pg, key, m), J!createMerchantApiKey(json, key, m))
          \/ Both(P!getMerchantByApiKey(pg, key), J!getMerchantByApiKey(json, key))
          \/ Both(P!revokeMerchantApiKeyByRef(pg, key), J!revokeMerchantApiKeyByRef(json, key))

\* The indexer files a payment, skipped or pending.
FileDelivery(id, status) ==
    LET row == [status |-> status, attempts |-> 0, next |-> clock, created |-> clock, updated |-> clock]
    IN  Both(P!insertDeliveryIfAbsent(pg, id, row), J!insertDeliveryIfAbsent(json, id, row))

\* The dispatcher reads the one it attempts next, if the two agree on it.
TakeDue ==
    /\ held = Absent
    /\ P!NextDue(pg, clock) # Absent
    /\ P!NextDue(pg, clock) = J!NextDue(json, clock)
    /\ held' = [id |-> P!NextDue(pg, clock), row |-> pg.deliveries[P!NextDue(pg, clock)]]
    /\ UNCHANGED <<group, pg, json, agree, parted, clock>>

\* The attempt is recorded, if the row is still the one that was read.
RecordAttempt ==
    /\ held # Absent
    /\ \E status \in {"delivered", "pending", "failed"} :
          LET row == [held.row EXCEPT !.status = status, !.attempts = @ + 1,
                                      !.next = clock + 1, !.updated = clock]
          IN  /\ status = "pending" => row.attempts < MaxAttempts
              /\ Differing(P!updateDeliveryIfCurrent(pg, held.id, row, held.row),
                           J!updateDeliveryIfCurrent(json, held.id, row, held.row), FALSE)
    /\ held' = Absent

\* POST /v1/deliveries/:id/retry.
Retry(id) ==
    /\ pg.deliveries[id].status \notin {"delivered", "skipped"}
    /\ LET row == [pg.deliveries[id] EXCEPT !.status = "pending", !.attempts = 0,
                                            !.next = clock, !.updated = clock]
       IN  Both(P!updateDelivery(pg, id, row), J!updateDelivery(json, id, row))

DeliveryCalls ==
    /\ group = "deliveries"
    /\ \/ \E id \in Payments, status \in {"pending", "skipped"} : FileDelivery(id, status)
       \/ TakeDue
       \/ RecordAttempt
       \/ \E id \in DOMAIN pg.deliveries : Retry(id)
       \/ Both(P!requeueSkippedForMerchant(pg, clock), J!requeueSkippedForMerchant(json, clock))

\* Of two live sessions that began first at the same time, either may be the one evicted.
EvictsEither ==
    LET live == {t \in DOMAIN json.sessions : json.sessions[t].expires > clock}
    IN  /\ Cardinality(DOMAIN json.sessions) >= MaxSessions
        /\ \E t, u \in live :
              /\ t # u
              /\ json.sessions[t].created = json.sessions[u].created
              /\ \A v \in live : json.sessions[t].created <= json.sessions[v].created

SessionCalls ==
    /\ group = "sessions"
    /\ \E id \in Keys :
          \/ /\ id \notin DOMAIN pg.sessions \cup DOMAIN json.sessions
             /\ LET row == [created |-> clock, expires |-> clock + SessionLife]
                IN  Differing(P!createSession(pg, id, row), J!createSession(json, id, row), EvictsEither)
             /\ UNCHANGED held
          \/ Both(P!getSession(pg, id, clock), J!getSession(json, id, clock))
          \/ Both(P!deleteSession(pg, id), J!deleteSession(json, id))

NonceCalls ==
    /\ group = "nonces"
    /\ \E id \in Keys :
          \/ /\ id \notin DOMAIN pg.nonces
             /\ \E m \in Owners :
                   LET row == [address |-> m, expires |-> clock + SessionLife]
                   IN  Both(P!createNonce(pg, id, row, clock), J!createNonce(json, id, row, clock))
          \/ Both(P!consumeNonce(pg, id, clock), J!consumeNonce(json, id, clock))

\* Which of several stale claims is recycled: the oldest, or the first one that was made.
RecyclesAnother ==
    LET IsStale(c) == J!Stale(c, StaleAfter, clock)
        first == J!FirstWhere(json.claims, IsStale)
    IN  \E i \in DOMAIN json.claims :
           i # first /\ IsStale(json.claims[i]) /\ json.claims[i].at <= json.claims[first].at

\* The calls of POST /v1/links, of the claims of a link, and of the Qi indexer.
ClaimCalls ==
    /\ group = "claims"
    /\ \/ /\ pg.link = Absent
          /\ \E link \in NewLinks : Both(P!upsertLink(pg, link), J!upsertLink(json, link))
       \/ /\ pg.link # Absent
          /\ pg.link.fixed = Absent
          /\ \E payer \in Payers \cup {"qi"} :
                /\ Differing(P!reclaimStaleClaim(pg, payer, StaleAfter, clock),
                             J!reclaimStaleClaim(json, payer, StaleAfter, clock), RecyclesAnother)
                /\ UNCHANGED held
       \/ /\ pg.link # Absent
          /\ pg.link.fixed = Absent
          /\ \E payer \in Payers :
                \/ Both(P!claimOrderFromPool(pg, payer, clock), J!claimOrderFromPool(json, payer, clock))
                \/ \E order \in Minted \ DOMAIN pg.claims :
                      Both(P!mintClaimedOrder(pg, order, payer, pg.link.cap, clock),
                           J!mintClaimedOrder(json, order, payer, pg.link.cap, clock))
       \/ /\ pg.link # Absent
          /\ Both(P!reserveQiLinkOrder(pg, clock), J!reserveQiLinkOrder(json, clock))
       \/ /\ pg.link # Absent
          /\ pg.link.fixed # Absent
          /\ \E payer \in Payers :
                Both(P!claimFixedOrder(pg, pg.link.fixed, payer, StaleAfter, clock),
                     J!claimFixedOrder(json, pg.link.fixed, payer, StaleAfter, clock))
       \/ \E order \in DOMAIN pg.claims :
             Both(P!settleClaimedOrder(pg, order), J!settleClaimedOrder(json, order))

\* A row without the name on file, or of another merchant.
ReplacesMore(meta) ==
    /\ json.meta # Absent
    /\ \/ json.meta.merchant # meta.merchant
       \/ json.meta.name # Absent /\ meta.name = Absent

\* The metadata of a gateway order, of a checkout and of a link, and the Qi orders.
OrderCalls ==
    /\ group = "orders"
    /\ \/ \E meta \in [merchant : {"m", "other"}, name : {Absent, "n"}, slug : {Absent, "s"},
                       reference : {Absent, "r"}, chain : Networks] :
             /\ Differing(P!saveOrderMeta(pg, meta), J!saveOrderMeta(json, meta), ReplacesMore(meta))
             /\ UNCHANGED held
       \/ \E order \in Payments, address \in Owners :
             /\ Differing(P!insertQiOrder(pg, order, address), J!insertQiOrder(json, order, address),
                          /\ order \notin DOMAIN pg.qiOrders
                          /\ \E o \in DOMAIN pg.qiOrders : pg.qiOrders[o].address = address)
             /\ UNCHANGED held
       \/ \E order \in Payments : Both(P!markQiOrderSettled(pg, order), J!markQiOrderSettled(json, order))

\* A shop is installed, set up, cleared and uninstalled.
ShopCalls ==
    /\ group = "shops"
    /\ \/ \E shop \in ShopNames, row \in {"before", "after"} :
             \/ Both(CP!setSession(pg, shop, row), CF!setSession(json, shop, row))
             \/ Both(CP!putSettings(pg, shop, row), CF!putSettings(json, shop, row))
       \/ \E shop \in ShopNames :
             \/ Both(CP!removeSession(pg, shop), CF!removeSession(json, shop))
             \/ Both(CP!clearSettings(pg, shop), CF!clearSettings(json, shop))

\* The states of its installation.  One that is presented for another shop is kept by the one
\* store and not by the other.
StateCalls ==
    /\ group = "states"
    /\ \/ \E state \in Keys, shop \in ShopNames :
             \/ /\ state \notin DOMAIN pg.states
                /\ LET row == [shop |-> shop, at |-> clock]
                   IN  Both(CP!putState(pg, state, row), CF!putState(json, state, row))
             \/ /\ Differing(CP!consumeState(pg, state, shop), CF!consumeState(json, state, shop),
                             state \in DOMAIN pg.states /\ pg.states[state].shop # shop)
                /\ UNCHANGED held
       \/ Both(CP!pruneStates(pg, StateLife, clock), CF!pruneStates(json, StateLife, clock))

\* Gateway orders of shop orders: their ids are minted by the backend, each once.
PendingCalls ==
    /\ group = "pending"
    /\ \/ \E id \in Payments \ DOMAIN pg.pending, shop \in ShopNames, order \in {"1", "2"}, life \in 1..2 :
             LET row == [shop |-> shop, order |-> order, status |-> "awaiting", expires |-> clock + life]
             IN  Both(CP!upsertPending(pg, id, row), CF!upsertPending(json, id, row))
       \/ \E id \in Payments : Both(CP!markPaid(pg, id), CF!markPaid(json, id))
       \/ Both(CP!sweepExpired(pg, clock), CF!sweepExpired(json, clock))

\* The process starts again: the database is as it was, the file is read.
StoreRestart ==
    /\ ~parted
    /\ json' = CASE group = "deliveries" -> J!indexDeliveries(json)
                 [] group = "sessions" -> J!purgeSessions(json, clock)
                 [] group = "claims" -> J!readLinks(json)
                 [] group = "orders" -> J!readOrderMeta(json)
                 [] group = "keys" -> J!readApiKeys(json)
                 [] OTHER -> json
    /\ held' = Absent
    /\ UNCHANGED <<group, pg, agree, parted, clock>>

StoreTick ==
    /\ ~parted
    /\ group \in {"deliveries", "sessions", "nonces", "claims", "states", "pending"}
    /\ TickTo(StoreTime)
    /\ UNCHANGED storeVars

StoresNext ==
    \/ MerchantCalls
    \/ KeyCalls
    \/ DeliveryCalls
    \/ SessionCalls
    \/ NonceCalls
    \/ ClaimCalls
    \/ OrderCalls
    \/ ShopCalls
    \/ StateCalls
    \/ PendingCalls
    \/ StoreRestart
    \/ StoreTick

-----------------------------------------------------------------------------
(* Properties.                                                             *)

StoresTypeOK ==
    /\ group \in Groups
    /\ agree \in BOOLEAN
    /\ parted \in BOOLEAN
    /\ held # Absent => group = "deliveries"

\* A payout address of one merchant, whose own login address is paid at itself: otherwise the
\* two look up different merchants.
PlainAddress(chain, address) ==
    /\ Cardinality({m \in pg.merchants : P!Row(pg.payouts, <<m, chain>>) = address} \cup
                   (pg.merchants \cap {address})) <= 1
    /\ address \in pg.merchants => P!Row(pg.payouts, <<address, chain>>) \in {Absent, address}

SameMerchants ==
    /\ pg.merchants = {json.merchants[i] : i \in DOMAIN json.merchants}
    /\ Len(json.merchants) = Cardinality(pg.merchants)
    /\ pg.payouts = json.payouts
    /\ pg.cursors = json.cursors
    /\ \A chain \in Networks, address \in Owners :
          PlainAddress(chain, address) =>
              P!getMerchantByPayoutAddress(pg, chain, address) =
              J!getMerchantByPayoutAddress(json, chain, address)

SameKeys ==
    /\ DOMAIN pg.apiKeys = DOMAIN json.apiKeys \cup DOMAIN json.legacyApiKeys
    /\ DOMAIN json.apiKeys \cap DOMAIN json.legacyApiKeys = {}
    /\ \A m \in Owners : P!listMerchantApiKeys(pg, m) = J!listMerchantApiKeys(json, m)

\* No two of the rows are as old as each other, or due at the same time.
AllDiffer(rows, Column(_)) == \A a, b \in DOMAIN rows : a # b => Column(rows[a]) # Column(rows[b])

SameDeliveries ==
    LET Created(row) == row.created
        NextAt(row) == row.next
    IN  /\ pg.deliveries = json.deliveries
        /\ P!getDueDeliveries(pg, clock) = J!getDueDeliveries(json, clock)
        /\ AllDiffer(pg.deliveries, Created) => P!getDeliveryByOrder(pg) = J!getDeliveryByOrder(json)
        /\ AllDiffer(pg.deliveries, NextAt) => P!NextDue(pg, clock) = J!NextDue(json, clock)

Live(rows) == {[id |-> t, row |-> rows[t]] : t \in {u \in DOMAIN rows : rows[u].expires > clock}}

SameSessions ==
    /\ Live(pg.sessions) = Live(json.sessions)
    /\ Cardinality(DOMAIN pg.sessions) <= MaxSessions

SameNonces == pg.nonces = json.nonces

SameClaims ==
    LET At(row) == row.at
    IN  /\ pg.link = json.link
        /\ Len(json.claims) = Cardinality(DOMAIN pg.claims)
        /\ \A i \in DOMAIN json.claims :
              LET claim == json.claims[i]
              IN  P!Row(pg.claims, claim.order) =
                      [payer |-> claim.payer, at |-> claim.at, settled |-> claim.settled]
        /\ AllDiffer(pg.claims, At) =>
              \A payer \in Payers : P!getLatestClaim(pg, payer) = J!getLatestClaim(json, payer)

SameOrders == pg.meta = json.meta /\ pg.qiOrders = json.qiOrders

\* Where an order of a shop has one row: of several, one store takes any.
SamePending ==
    /\ pg.pending = json.pending
    /\ \A id \in Payments : CP!isLive(pg, id, clock) = CF!isLive(json, id, clock)
    /\ \A id \in DOMAIN pg.pending :
          LET row == pg.pending[id]
              OfOrder == {k \in DOMAIN pg.pending : pg.pending[k].order = row.order}
          IN  Cardinality(OfOrder) = 1 =>
                  /\ CP!getPendingForOrder(pg, row.order) = CF!getPendingForOrder(json, row.order)
                  /\ \A shop \in ShopNames :
                        CP!getPendingForShopOrder(pg, shop, row.order) =
                        CF!getPendingForShopOrder(json, shop, row.order)

\* The two stores are interchangeable: whatever calls were made, one after another and across
\* restarts, both gave the same answers, hold the same rows and read the same from them.
\* There are eight exceptions.  Nothing is said after five calls: a stale claim recycled while
\* another is no younger (RecyclesAnother), an eviction among equals (EvictsEither), metadata
\* written anew without its name or by another merchant (ReplacesMore), a Qi address that is
\* taken, and an install state presented for another shop.  And nothing of three reads: whose
\* a payout address is that several may claim (PlainAddress), which of rows of one instant is
\* the latest or the next due (AllDiffer, TakeDue), and which of several rows of one shop order
\* is meant (SamePending).
Interchangeable ==
    parted \/
        /\ agree
        /\ \/ group = "merchants" /\ SameMerchants
           \/ group = "keys" /\ SameKeys
           \/ group = "deliveries" /\ SameDeliveries
           \/ group = "sessions" /\ SameSessions
           \/ group = "nonces" /\ SameNonces
           \/ group = "claims" /\ SameClaims
           \/ group = "orders" /\ SameOrders
           \/ group \in {"shops", "states"} /\ pg = json
           \/ group = "pending" /\ SamePending

=============================================================================
