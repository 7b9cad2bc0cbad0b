------------------------------- MODULE Connector ------------------------------
(***************************************************************************)
(* The Shopify connector: POST /webhooks/shopify/orders/create, the        *)
(* payment webhook of the gateway, the expiry sweep and the settings of    *)
(* shopify-app/src/index.ts, over the file store its entry point uses.     *)
(*                                                                         *)
(* A handler is cut where it waits for another service.  The store's calls *)
(* are synchronous, so what a handler does between two such waits is one   *)
(* step.  Shopify and the gateway are outside: the first delivers          *)
(* orders/create at least once, the second a payment webhook until it is   *)
(* answered with 2xx or its attempts run out.                              *)
(***************************************************************************)
EXTENDS Clock, Sequences, FiniteSets

CONSTANTS
    ShopOrders,    \* the shop's orders
    GatewayIds,    \* ids of gateway orders
    Accounts,      \* merchant accounts: an API key with its webhook secret
    SharedAccount, \* the account of the environment (GATEWAY_MERCHANT_KEY)
    Unset,         \* no id, no account of the shop's own
    Creates,       \* orders/create requests
    Hooks,         \* payment webhooks
    QuoteLife,     \* expiresInSecs
    HookAttempts,  \* the gateway's WEBHOOK_MAX_ATTEMPTS
    Loads,         \* bound: the requests served side by side, and the changes of the settings
    OrderTime,     \* bound: the latest instant explored
    MaxFaults      \* bound: lost answers, failing calls, given-up webhooks and crashes

ASSUME ConnectorAssumption ==
    /\ SharedAccount \in Accounts
    /\ Unset \notin Accounts \cup GatewayIds
    /\ {QuoteLife, HookAttempts} \subseteq Nat \ {0}
    /\ Loads \subseteq [requests : SUBSET (Creates \cup Hooks), changes : Nat]
    /\ {OrderTime, MaxFaults} \subseteq Nat

VARIABLES
    settings,      \* the account saved for the shop
    rows,          \* pending_payments, in the order they were inserted
    gatewayOrders, \* the gateway's orders and the webhook of each
    paymentUrl,    \* the gateway order the quai.payment_url of a shop order leads to
    creates,       \* the orders/create requests being served
    hooks,         \* the payment webhooks being served
    marks,         \* the sales posted to each shop order
    faults,
    changes        \* changes of the settings still to come

connectorVars ==
    <<settings, rows, gatewayOrders, paymentUrl, creates, hooks, marks, faults, changes>>

NotMinted == [stage |-> "none"]
Free == [step |-> "free"]
Closed == [step |-> "closed"]

\* load: what this behaviour may serve.
ConnectorInit(load) ==
    /\ settings = Unset
    /\ rows = <<>>
    /\ gatewayOrders = [g \in GatewayIds |-> NotMinted]
    /\ paymentUrl = [o \in ShopOrders |-> Unset]
    /\ creates = [r \in Creates |-> IF r \in load.requests THEN Free ELSE Closed]
    /\ hooks = [h \in Hooks |-> IF h \in load.requests THEN Free ELSE Closed]
    /\ marks = [o \in ShopOrders |-> 0]
    /\ faults = 0
    /\ changes = load.changes

\* The shop's own account, or the one of the environment.
Resolve == IF settings = Unset THEN SharedAccount ELSE settings

\* getPendingForOrder: the first of the order's rows, if it has any.
PendingFor(o) ==
    {rows[i] : i \in {k \in DOMAIN rows :
                        rows[k].order = o /\ \A j \in 1 .. k - 1 : rows[j].order # o}}

Fault == faults < MaxFaults /\ faults' = faults + 1

-----------------------------------------------------------------------------
(* orders/create.                                                          *)

EndCreate(r) == creates' = [creates EXCEPT ![r] = Free]

\* The gateway order g of o is on record: its link goes onto the shop order.
ToPublish(r, o, g) ==
    creates' = [creates EXCEPT ![r] = [step |-> "publish", order |-> o, id |-> g]]

\* The order is looked up; unless its row has expired, its gateway order is used again.
OrderCreated(r, o) ==
    /\ creates[r] = Free
    /\ \/ \E row \in PendingFor(o) : row.status # "expired" /\ ToPublish(r, o, row.id)
       \/ /\ \A row \in PendingFor(o) : row.status = "expired"
          /\ creates' = [creates EXCEPT
                 ![r] = [step |-> "mint", order |-> o, account |-> Resolve]]
    /\ UNCHANGED <<clock, settings, rows, gatewayOrders, paymentUrl, hooks, marks, faults,
                   changes>>

\* The gateway creates an order; its answer may not arrive.
Mint(r, g) ==
    /\ creates[r].step = "mint"
    /\ gatewayOrders[g] = NotMinted
    /\ gatewayOrders' = [gatewayOrders EXCEPT
           ![g] = [stage |-> "minted", order |-> creates[r].order,
                   account |-> creates[r].account, expires |-> clock + QuoteLife,
                   left |-> HookAttempts]]
    /\ \/ /\ creates' = [creates EXCEPT
                 ![r] = [step |-> "record", order |-> creates[r].order, id |-> g]]
          /\ UNCHANGED faults
       \/ Fault /\ EndCreate(r)
    /\ UNCHANGED <<clock, settings, rows, paymentUrl, hooks, marks, changes>>

MintFails(r) ==
    /\ creates[r].step = "mint"
    /\ Fault
    /\ EndCreate(r)
    /\ UNCHANGED <<clock, settings, rows, gatewayOrders, paymentUrl, hooks, marks, changes>>

NewRow(o, g) ==
    [id |-> g, order |-> o, status |-> "awaiting", expires |-> gatewayOrders[g].expires]

\* Mutant of RecordPending: the link is published first and the row never written.
PublishUnrecorded(r) ==
    /\ creates[r].step = "record"
    /\ ToPublish(r, creates[r].order, creates[r].id)
    /\ UNCHANGED <<clock, settings, rows, gatewayOrders, paymentUrl, hooks, marks, faults,
                   changes>>

\* upsertPending, under an id that is new.
RecordPending(r) ==
    /\ creates[r].step = "record"
    /\ rows' = Append(rows, NewRow(creates[r].order, creates[r].id))
    /\ ToPublish(r, creates[r].order, creates[r].id)
    /\ UNCHANGED <<clock, settings, gatewayOrders, paymentUrl, hooks, marks, faults, changes>>

\* setOrderPaymentFields; the customer can reach the checkout from now on.
Publish(r) ==
    LET o == creates[r].order
        g == creates[r].id
    IN  /\ creates[r].step = "publish"
        /\ paymentUrl' = [paymentUrl EXCEPT ![o] = g]
        /\ gatewayOrders' = [gatewayOrders EXCEPT
               ![g].stage = IF @ = "minted" THEN "shown" ELSE @]
        /\ EndCreate(r)
        /\ UNCHANGED <<clock, settings, rows, hooks, marks, faults, changes>>

\* A metafield write that fails is logged and swallowed.
PublishFails(r) ==
    /\ creates[r].step = "publish"
    /\ Fault
    /\ EndCreate(r)
    /\ UNCHANGED <<clock, settings, rows, gatewayOrders, paymentUrl, hooks, marks, changes>>

-----------------------------------------------------------------------------
(* The customer and the gateway's webhook.                                 *)

\* A customer who has seen the checkout pays, in time or late.
Pay(g) ==
    /\ gatewayOrders[g].stage = "shown"
    /\ gatewayOrders' = [gatewayOrders EXCEPT ![g].stage = "paid"]
    /\ UNCHANGED <<clock, settings, rows, paymentUrl, creates, hooks, marks, faults, changes>>

\* The gateway's orders once the webhook of each g in given up was refused.
Refused(lost) ==
    [g \in GatewayIds |->
        IF g \notin lost THEN gatewayOrders[g]
        ELSE [gatewayOrders[g] EXCEPT
                 !.left = @ - 1, !.stage = IF gatewayOrders[g].left = 1 THEN "failed" ELSE @]]

Acknowledged(g) == [gatewayOrders EXCEPT ![g].stage = "delivered"]

Serving == {h \in Hooks : hooks[h] \notin {Free, Closed}}

\* Webhooks the gateway waits for an answer to.
Awaited == {hooks[h].id : h \in {k \in Serving : hooks[k].awaited}}

EndHook(h) == hooks' = [hooks EXCEPT ![h] = Free]

\* The handler of g's webhook has found its row: the shop order is to be marked.
Marking(g, row) == [step |-> "mark", id |-> g, row |-> row.id, awaited |-> TRUE]

\* Mutant of HookArrives: the row is closed before Shopify knows of the payment.
HookArrivesClosing(h, g) ==
    LET mine == PendingFor(gatewayOrders[g].order)
    IN  /\ gatewayOrders[g].stage = "paid"
        /\ hooks[h] = Free
        /\ IF \A row \in mine : row.status = "paid"
           THEN gatewayOrders' = Acknowledged(g) /\ UNCHANGED <<hooks, rows>>
           ELSE /\ \E row \in mine :
                      /\ hooks' = [hooks EXCEPT ![h] = Marking(g, row)]
                      /\ rows' = [i \in DOMAIN rows |->
                             IF rows[i] = row THEN [rows[i] EXCEPT !.status = "paid"]
                             ELSE rows[i]]
                /\ UNCHANGED gatewayOrders
        /\ UNCHANGED <<clock, settings, paymentUrl, creates, marks, faults, changes>>

\* The webhook of g arrives.  Its secret is that of the account the row's shop has now (of
\* the environment without a row); an order without a row, or with a row that is paid, is
\* acknowledged without more.
HookArrives(h, g) ==
    LET mine == PendingFor(gatewayOrders[g].order)
    IN  /\ gatewayOrders[g].stage = "paid"
        /\ g \notin Awaited
        /\ hooks[h] = Free
        /\ IF gatewayOrders[g].account # (IF mine = {} THEN SharedAccount ELSE Resolve)
           THEN gatewayOrders' = Refused({g}) /\ UNCHANGED hooks
           ELSE IF \A row \in mine : row.status = "paid"
           THEN gatewayOrders' = Acknowledged(g) /\ UNCHANGED hooks
           ELSE /\ \E row \in mine : hooks' = [hooks EXCEPT ![h] = Marking(g, row)]
                /\ UNCHANGED gatewayOrders
        /\ UNCHANGED <<clock, settings, rows, paymentUrl, creates, marks, faults, changes>>

GoOn(h, step) == hooks' = [hooks EXCEPT ![h].step = step]

OrderOf(h) == gatewayOrders[hooks[h].id].order

\* markOrderPaid: one sale is posted to the shop order.
MarkOrderPaid(h) ==
    /\ hooks[h].step = "mark"
    /\ marks' = [marks EXCEPT ![OrderOf(h)] = @ + 1]
    /\ GoOn(h, "row")
    /\ UNCHANGED <<clock, settings, rows, gatewayOrders, paymentUrl, creates, faults, changes>>

\* The post fails, before or after Shopify has taken the sale: the webhook is answered 500.
MarkOrderFails(h) ==
    /\ hooks[h].step = "mark"
    /\ Fault
    /\ marks' \in {marks, [marks EXCEPT ![OrderOf(h)] = @ + 1]}
    /\ gatewayOrders' = Refused(IF hooks[h].awaited THEN {hooks[h].id} ELSE {})
    /\ EndHook(h)
    /\ UNCHANGED <<clock, settings, rows, paymentUrl, creates, changes>>

\* markPaid.
MarkPaid(h) ==
    /\ hooks[h].step = "row"
    /\ rows' = [i \in DOMAIN rows |->
                   IF rows[i].id = hooks[h].row THEN [rows[i] EXCEPT !.status = "paid"]
                   ELSE rows[i]]
    /\ GoOn(h, "clear")
    /\ UNCHANGED <<clock, settings, gatewayOrders, paymentUrl, creates, marks, faults, changes>>

\* clearOrderPaymentUrl, whose failure is swallowed, and the 204.
ClearUrl(h) ==
    /\ hooks[h].step = "clear"
    /\ \/ paymentUrl' = [paymentUrl EXCEPT ![OrderOf(h)] = Unset] /\ UNCHANGED faults
       \/ Fault /\ UNCHANGED paymentUrl
    /\ gatewayOrders' = IF hooks[h].awaited THEN Acknowledged(hooks[h].id) ELSE gatewayOrders
    /\ EndHook(h)
    /\ UNCHANGED <<clock, settings, rows, creates, marks, changes>>

\* The gateway stops waiting while the handler goes on.
HookTimesOut(h) ==
    /\ h \in Serving
    /\ hooks[h].awaited
    /\ Fault
    /\ hooks' = [hooks EXCEPT ![h].awaited = FALSE]
    /\ gatewayOrders' = Refused({hooks[h].id})
    /\ UNCHANGED <<clock, settings, rows, paymentUrl, creates, marks, changes>>

-----------------------------------------------------------------------------
(* Settings, sweep, restart.                                               *)

\* POST /settings and /settings/clear.
ChangeSettings(a) ==
    /\ a # settings
    /\ changes > 0
    /\ changes' = changes - 1
    /\ settings' = a
    /\ UNCHANGED <<clock, rows, gatewayOrders, paymentUrl, creates, hooks, marks, faults>>

Lapsed(row) == row.status = "awaiting" /\ row.expires <= clock

\* sweepExpired.
SweepExpired ==
    /\ \E i \in DOMAIN rows : Lapsed(rows[i])
    /\ rows' = [i \in DOMAIN rows |->
                   IF Lapsed(rows[i]) THEN [rows[i] EXCEPT !.status = "expired"] ELSE rows[i]]
    /\ UNCHANGED <<clock, settings, gatewayOrders, paymentUrl, creates, hooks, marks, faults,
                   changes>>

\* The process ends and starts again on its file: what was being served is dropped.
ConnectorCrash ==
    /\ Fault
    /\ creates' = [r \in Creates |-> IF creates[r] = Closed THEN Closed ELSE Free]
    /\ hooks' = [h \in Hooks |-> IF hooks[h] = Closed THEN Closed ELSE Free]
    /\ gatewayOrders' = Refused(Awaited)
    /\ UNCHANGED <<clock, settings, rows, paymentUrl, marks, changes>>

-----------------------------------------------------------------------------
Serve(r) ==
    \/ \E g \in GatewayIds : Mint(r, g)
    \/ MintFails(r) \/ RecordPending(r) \/ Publish(r) \/ PublishFails(r)

Answer(h) == MarkOrderPaid(h) \/ MarkOrderFails(h) \/ MarkPaid(h) \/ ClearUrl(h)

ConnectorNext ==
    \/ TickTo(OrderTime) /\ UNCHANGED connectorVars
    \/ \E r \in Creates : Serve(r) \/ \E o \in ShopOrders : OrderCreated(r, o)
    \/ \E g \in GatewayIds : Pay(g) \/ \E h \in Hooks : HookArrives(h, g)
    \/ \E h \in Hooks : Answer(h) \/ HookTimesOut(h)
    \/ \E a \in Accounts \cup {Unset} : ChangeSettings(a)
    \/ SweepExpired
    \/ ConnectorCrash

-----------------------------------------------------------------------------
(* Properties.                                                             *)

RowRecords ==
    [id : GatewayIds, order : ShopOrders, status : {"awaiting", "paid", "expired"},
     expires : Nat]

\* Rows are filed under ids of their own; a webhook has only its attempts; an answer that
\* is being waited for is that of one handler.
ConnectorTypeOK ==
    /\ settings \in Accounts \cup {Unset}
    /\ rows \in Seq(RowRecords)
    /\ \A i, j \in DOMAIN rows : rows[i].id = rows[j].id => i = j
    /\ \A g \in GatewayIds :
          gatewayOrders[g] # NotMinted =>
              /\ gatewayOrders[g].stage \in {"minted", "shown", "paid", "delivered", "failed"}
              /\ gatewayOrders[g].left \in 0 .. HookAttempts
    /\ paymentUrl \in [ShopOrders -> GatewayIds \cup {Unset}]
    /\ \A r \in Creates : creates[r].step \in {"free", "closed", "mint", "record", "publish"}
    /\ \A h \in Hooks : hooks[h].step \in {"free", "closed", "mark", "row", "clear"}
    /\ \A h, k \in Serving :
          hooks[h].awaited /\ hooks[k].awaited => hooks[h].id # hooks[k].id \/ h = k
    /\ marks \in [ShopOrders -> Nat]
    /\ faults \in 0 .. MaxFaults
    /\ changes \in Nat

\* Whatever link a shop order shows, and whatever order a customer has paid, the connector
\* has a row for it under that shop order (orders/create writes the row before it publishes,
\* through retries, lost answers and crashes): the payment's webhook finds it.
PaymentOnBooks ==
    /\ \A o \in ShopOrders :
          paymentUrl[o] # Unset => \E i \in DOMAIN rows :
                                      rows[i].id = paymentUrl[o] /\ rows[i].order = o
    /\ \A g \in GatewayIds :
          gatewayOrders[g].stage \notin {"none", "minted"} =>
              \E i \in DOMAIN rows :
                  rows[i].id = g /\ rows[i].order = gatewayOrders[g].order

MarkedOrMoved(g) ==
    /\ gatewayOrders[g] # NotMinted
    /\ \/ marks[gatewayOrders[g].order] > 0
       \/ Resolve # gatewayOrders[g].account

\* A payment of a gateway order ends as a sale on its shop order, although Shopify, the
\* connector and the answers to the gateway may fail, unless the shop moves to an account
\* with another webhook secret before (payments in flight are then refused).
EveryPaidMarked ==
    \A g \in GatewayIds : gatewayOrders[g].stage = "paid" ~> MarkedOrMoved(g)

=============================================================================
