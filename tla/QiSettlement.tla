----------------------------- MODULE QiSettlement -----------------------------
(***************************************************************************)
(* Payments on the Qi ledger: QiService of backend/src/chain/qi.ts, which  *)
(* gives each order a receive address of its own, and QiIndexer of         *)
(* backend/src/indexer/qi-indexer.ts, which watches these addresses,       *)
(* settles the orders and enqueues their payment.confirmed deliveries.     *)
(*                                                                         *)
(* The wallet derives its addresses in a fixed sequence, so an address is  *)
(* its index; how far the sequence was used is known to the process only,  *)
(* which starts again from nothing and moves past the stored addresses     *)
(* while it is already serving requests.  The store is PostgreSQL; each    *)
(* store call is atomic, and requests and sweeps run side by side.         *)
(***************************************************************************)
EXTENDS Integers, FiniteSets

CONSTANTS
    Orders,       \* order ids
    Requests,     \* requests served at the same time
    Sweeps,       \* sweeps under way at the same time
    Amount,       \* the amount of each order, on the contract or in its link
    Quai,         \* the units of an amount that make one QUAI (10^18)
    QitsPerQuai,  \* QI_QITS_PER_QUAI
    MaxAttempts,  \* the derivations ensureQiOrder tries (5)
    MaxIndex,     \* bound: the last address of the wallet that is derived for an order
    Renamed,      \* bound: the orders customers save metadata for by themselves
    MaxAsks,      \* bound: the number of requests
    MaxBusy,      \* bound: the requests and sweeps under way at the same time
    Purse,        \* bound: the qits customers send for each order
    MaxFaults     \* bound: failing calls and ends of the process

ASSUME QiAssumption ==
    /\ IsFiniteSet(Orders)
    /\ Amount \in [Orders -> Nat]
    /\ Purse \in [Orders -> Nat]
    /\ Renamed \subseteq Orders
    /\ {Quai, MaxAttempts, MaxBusy} \subseteq Nat \ {0}
    /\ {QitsPerQuai, MaxIndex, MaxAsks, MaxFaults} \subseteq Nat

VARIABLES
    boot,        \* how far the process has started
    pointer,     \* the index of the wallet's next address
    records,     \* the table qi_orders
    requests,    \* the requests being served
    sweeps,      \* the sweeps under way
    deliveries,  \* the deliveries filed for Qi orders, with the amount they report
    linked,      \* orders whose metadata names the link they were reserved off
    closed,      \* orders whose claim, if there is one, is marked settled
    shown,       \* the addresses customers were shown, by order
    funds,       \* the unspent value on each address
    sent,        \* what customers sent for each order
    asks,        \* requests so far
    faults       \* faults so far

processVars == <<boot, pointer, requests, sweeps>>
storeVars == <<records, deliveries, linked, closed>>
ledgerVars == <<shown, funds, sent>>
bounded == <<asks, faults>>
vars == <<processVars, storeVars, ledgerVars, bounded>>

Addresses == 0..MaxIndex

Idle == [step |-> "idle"]

\* orderQits: the price of an order in qits.
OrderQits(o) == (Amount[o] \div Quai) * QitsPerQuai

Fresh(o, a) == [order |-> o, address |-> a, settled |-> FALSE, received |-> 0]

Recorded == {row.order : row \in records}

Init ==
    /\ boot = [step |-> "list"]
    /\ pointer = 0
    /\ records = {}
    /\ requests = [r \in Requests |-> Idle]
    /\ sweeps = [s \in Sweeps |-> Idle]
    /\ deliveries = {}
    /\ linked = {}
    /\ closed = {}
    /\ shown = {}
    /\ funds = [a \in Addresses |-> 0]
    /\ sent = [o \in Orders |-> 0]
    /\ asks = 0
    /\ faults = 0

\* The bound MaxBusy leaves room for one more request or sweep.
Room ==
    Cardinality({r \in Requests : requests[r] # Idle})
        + Cardinality({s \in Sweeps : sweeps[s] # Idle}) < MaxBusy

-----------------------------------------------------------------------------
(* Start-up: requests are served from the first moment on.                 *)

\* QiService.init reads the stored orders,
BootList ==
    /\ boot.step = "list"
    /\ boot' = [step |-> "advance", orders |-> Cardinality(records)]
    /\ UNCHANGED <<pointer, requests, sweeps, storeVars, ledgerVars, bounded>>

\* and derives one address for each of them, to be thrown away.  The indexer starts next.
BootAdvance ==
    /\ boot.step = "advance"
    /\ pointer' = pointer + boot.orders
    /\ boot' = [step |-> "sweep"]
    /\ UNCHANGED <<requests, sweeps, storeVars, ledgerVars, bounded>>

-----------------------------------------------------------------------------
(* A request that asks for an order's address: GET /v1/orders (a view), or *)
(* POST qi-claim with an order reserved off a link (a claim).              *)

GoTo(r, step) == requests' = [requests EXCEPT ![r].step = step]

Has(r, step) == requests[r].step = step

Ask(r, kind, o) ==
    /\ requests[r] = Idle
    /\ Room
    /\ asks < MaxAsks
    /\ asks' = asks + 1
    /\ requests' = [requests EXCEPT
           ![r] = [step |-> "load", kind |-> kind, order |-> o, attempt |-> 1,
                   address |-> 0]]
    /\ UNCHANGED <<boot, pointer, sweeps, storeVars, ledgerVars, faults>>

Answer(r, row) ==
    requests' = [requests EXCEPT ![r].step = "answer", ![r].address = row.address]

\* getQiOrder: the order's record, if there is one, is the answer.
Load(r) ==
    /\ Has(r, "load")
    /\ \/ \E row \in records : row.order = requests[r].order /\ Answer(r, row)
       \/ requests[r].order \notin Recorded /\ GoTo(r, "derive")
    /\ UNCHANGED <<boot, pointer, sweeps, storeVars, ledgerVars, bounded>>

\* getNextAddressSync.
Derive(r) ==
    /\ Has(r, "derive")
    /\ pointer \in Addresses
    /\ pointer' = pointer + 1
    /\ requests' = [requests EXCEPT ![r].step = "insert", ![r].address = pointer]
    /\ UNCHANGED <<boot, sweeps, storeVars, ledgerVars, bounded>>

\* Mutant of AddressTaken: the column is not UNIQUE.
NeverTaken(a) == FALSE

AddressTaken(a) == \E row \in records : row.address = a

\* Mutant of AttemptsLeft: one derivation more.
AttemptsLeftLate(r) == requests[r].attempt <= MaxAttempts

AttemptsLeft(r) == requests[r].attempt < MaxAttempts

\* insertQiOrder.  A record of the order makes it return false, and another address is
\* tried; an address that is taken makes it fail, and the request with it.
Insert(r) ==
    LET o == requests[r].order
        a == requests[r].address
    IN
    /\ Has(r, "insert")
    /\ \/ /\ o \notin Recorded
          /\ ~AddressTaken(a)
          /\ records' = records \cup {Fresh(o, a)}
          /\ GoTo(r, "answer")
       \/ /\ o \notin Recorded
          /\ AddressTaken(a)
          /\ requests' = [requests EXCEPT ![r] = Idle]
          /\ UNCHANGED records
       \/ /\ o \in Recorded
          /\ requests' = [requests EXCEPT
                 ![r] = IF AttemptsLeft(r)
                        THEN [requests[r] EXCEPT
                                  !.step = "derive", !.attempt = requests[r].attempt + 1]
                        ELSE Idle]
          /\ UNCHANGED records
    /\ UNCHANGED <<boot, pointer, sweeps, deliveries, linked, closed, ledgerVars, bounded>>

\* The customer is shown the address; a claim has saved the link in the order's metadata.
Show(r) ==
    LET o == requests[r].order
    IN
    /\ Has(r, "answer")
    /\ linked' = IF requests[r].kind = "claim" THEN linked \cup {o} ELSE linked
    /\ shown' = shown \cup {[order |-> o, address |-> requests[r].address]}
    /\ requests' = [requests EXCEPT ![r] = Idle]
    /\ UNCHANGED <<boot, pointer, sweeps, records,
                   deliveries, closed, funds, sent, bounded>>

-----------------------------------------------------------------------------
(* The sweep.                                                              *)

Doing(s, step) == sweeps[s].step = step

\* The first sweep is awaited; after it the timer starts sweeps, whatever is under way.
MaySweep ==
    \/ boot.step = "timer"
    \/ boot.step = "sweep" /\ \A s \in Sweeps : sweeps[s] = Idle

\* listQiOrders: the sweep works on the rows as they are now.
List(s) ==
    /\ sweeps[s] = Idle
    /\ MaySweep
    /\ Room
    /\ sweeps' = [sweeps EXCEPT ![s] = [step |-> "next", todo |-> records]]
    /\ UNCHANGED <<boot, pointer, requests, storeVars, ledgerVars, bounded>>

\* Sweep s goes on, with row at hand.
Take(s, step, row) ==
    sweeps' = [sweeps EXCEPT
        ![s] = [step |-> step, todo |-> sweeps[s].todo \ {row}, row |-> row]]

\* The sweep goes on to the other rows.
Proceed(s, todo) == sweeps' = [sweeps EXCEPT ![s] = [step |-> "next", todo |-> todo]]

\* Mutant of FollowUp: a settled row needs nothing more.
NoFollowUp(row) == FALSE

\* Mutant of FollowUp: a settled row needs nothing once its delivery is filed.
FollowUpUntilFiled(row) ==
    row.settled /\ \A d \in deliveries : d.order # row.order

\* The row was settled before: whatever should have followed is done again.
FollowUp(row) == row.settled

\* A settled row is followed up.
Revisit(s) ==
    /\ Doing(s, "next")
    /\ \E row \in sweeps[s].todo : FollowUp(row) /\ Take(s, "claim", row)
    /\ UNCHANGED <<boot, pointer, requests, storeVars, ledgerVars, bounded>>

\* checkBalance: enough, and the order is to be marked, or not enough yet.
Check(s) ==
    /\ Doing(s, "next")
    /\ \E row \in sweeps[s].todo :
          /\ ~row.settled
          /\ \/ /\ funds[row.address] >= OrderQits(row.order)
                /\ sweeps' = [sweeps EXCEPT
                       ![s] = [step |-> "mark", todo |-> sweeps[s].todo \ {row},
                               row |-> row, balance |-> funds[row.address]]]
             \/ /\ funds[row.address] < OrderQits(row.order)
                /\ Proceed(s, sweeps[s].todo \ {row})
    /\ UNCHANGED <<boot, pointer, requests, storeVars, ledgerVars, bounded>>

\* markQiOrderSettled, whatever the row's state; the sweep goes on with the updated row.
Mark(s) ==
    LET settled == [sweeps[s].row EXCEPT !.settled = TRUE, !.received = sweeps[s].balance]
    IN
    /\ Doing(s, "mark")
    /\ records' = {row \in records : row.order # settled.order} \cup {settled}
    /\ sweeps' = [sweeps EXCEPT
           ![s] = [step |-> "claim", todo |-> sweeps[s].todo, row |-> settled]]
    /\ UNCHANGED <<boot, pointer, requests, deliveries,
                   linked, closed, ledgerVars, bounded>>

\* settleLinkClaim: the link is looked up in the order's metadata as it is by now, and
\* nothing is done for an order whose metadata names none.
SettleLinkClaim(s) ==
    /\ Doing(s, "claim")
    /\ closed' = closed \cup (linked \cap {sweeps[s].row.order})
    /\ sweeps' = [sweeps EXCEPT ![s].step = "look"]
    /\ UNCHANGED <<boot, pointer, requests, records,
                   deliveries, linked, ledgerVars, bounded>>

Filed(o) == \E d \in deliveries : d.order = o

\* enqueueDelivery: getDelivery.
LookUp(s) ==
    /\ Doing(s, "look")
    /\ IF Filed(sweeps[s].row.order) THEN Proceed(s, sweeps[s].todo)
       ELSE sweeps' = [sweeps EXCEPT ![s].step = "file"]
    /\ UNCHANGED <<boot, pointer, requests, storeVars, ledgerVars, bounded>>

Delivery(row) == [order |-> row.order, amount |-> row.received]

\* Mutant of InsertIfAbsent: the look-up is trusted.
InsertAlways(d) == deliveries \cup {d}

\* insertDeliveryIfAbsent.
InsertIfAbsent(d) == IF Filed(d.order) THEN deliveries ELSE deliveries \cup {d}

\* enqueueDelivery: the delivery, queued or skipped as the merchant's record says.
File(s) ==
    /\ Doing(s, "file")
    /\ deliveries' = InsertIfAbsent(Delivery(sweeps[s].row))
    /\ Proceed(s, sweeps[s].todo)
    /\ UNCHANGED <<boot, pointer, requests, records, linked, closed, ledgerVars, bounded>>

\* Nothing is left to do, and the sweep ends.
EndSweep(s) ==
    /\ Doing(s, "next")
    /\ \A row \in sweeps[s].todo : row.settled /\ ~FollowUp(row)
    /\ sweeps' = [sweeps EXCEPT ![s] = Idle]
    /\ boot' = IF boot.step = "sweep" THEN [step |-> "timer"] ELSE boot
    /\ UNCHANGED <<pointer, requests, storeVars, ledgerVars, bounded>>

-----------------------------------------------------------------------------
(* Faults, and customers.                                                  *)

Fault == faults < MaxFaults /\ faults' = faults + 1 /\ UNCHANGED asks

\* A store call of a request fails, and the request with it.
RequestFails(r) ==
    /\ requests[r] # Idle
    /\ Fault
    /\ requests' = [requests EXCEPT ![r] = Idle]
    /\ UNCHANGED <<boot, pointer, sweeps, storeVars, ledgerVars>>

\* A call for a row fails, and the sweep passes over the row.
RowFails(s) ==
    /\ sweeps[s] # Idle
    /\ Fault
    /\ \/ ~Doing(s, "next") /\ Proceed(s, sweeps[s].todo)
       \/ /\ Doing(s, "next")
          /\ \E row \in sweeps[s].todo : ~row.settled /\ Proceed(s, sweeps[s].todo \ {row})
    /\ UNCHANGED <<boot, pointer, requests, storeVars, ledgerVars>>

\* The process ends and is started again.
Restart ==
    /\ Fault
    /\ boot' = [step |-> "list"]
    /\ pointer' = 0
    /\ requests' = [r \in Requests |-> Idle]
    /\ sweeps' = [s \in Sweeps |-> Idle]
    /\ UNCHANGED <<storeVars, ledgerVars>>

\* POST /v1/orders/:merchant/:orderId/meta, open to everyone, at any time and for any
\* order: it names the link again, or replaces the slug on file by NULL or another link's.
CustomerMeta(o) ==
    /\ linked' \in {linked \cup {o}, linked \ {o}}
    /\ UNCHANGED <<processVars, records, deliveries, closed, ledgerVars, bounded>>

\* A customer who wants to pay order o sends a qit to the address shown.
Send(o, a) ==
    /\ [order |-> o, address |-> a] \in shown
    /\ sent[o] < Purse[o]
    /\ funds' = [funds EXCEPT ![a] = @ + 1]
    /\ sent' = [sent EXCEPT ![o] = @ + 1]
    /\ UNCHANGED <<processVars, storeVars, shown, bounded>>

-----------------------------------------------------------------------------

BootStep == BootList \/ BootAdvance

Serve(r) ==
    \/ Load(r)
    \/ Derive(r)
    \/ Insert(r)
    \/ Show(r)

SweepStep(s) ==
    \/ List(s)
    \/ Revisit(s)
    \/ Check(s)
    \/ Mark(s)
    \/ SettleLinkClaim(s)
    \/ LookUp(s)
    \/ File(s)
    \/ EndSweep(s)

Next ==
    \/ BootStep
    \/ \E r \in Requests, kind \in {"view", "claim"}, o \in Orders : Ask(r, kind, o)
    \/ \E r \in Requests : Serve(r) \/ RequestFails(r)
    \/ \E s \in Sweeps : SweepStep(s) \/ RowFails(s)
    \/ \E o \in Renamed : CustomerMeta(o)
    \/ \E o \in Orders, a \in Addresses : Send(o, a)
    \/ Restart

Spec == Init /\ [][Next]_vars

\* The process is restarted when it ends, its timer goes on, and requests are served.
Fairness ==
    /\ WF_vars(BootStep)
    /\ \A s \in Sweeps : WF_vars(SweepStep(s))
    /\ \A r \in Requests : WF_vars(Serve(r))

FairSpec == Spec /\ Fairness

-----------------------------------------------------------------------------
(* Properties.                                                             *)

Rows ==
    [order : Orders, address : Addresses, settled : BOOLEAN, received : Nat]

BootStates == [step : {"list", "sweep", "timer"}] \cup [step : {"advance"}, orders : Nat]

RequestStates ==
    [step : {"load", "derive", "insert", "answer"}, kind : {"view", "claim"},
     order : Orders, attempt : 1..MaxAttempts, address : Addresses]

SweepStates ==
    [step : {"next"}, todo : SUBSET Rows]
        \cup [step : {"mark"}, todo : SUBSET Rows, row : Rows, balance : Nat]
        \cup [step : {"claim", "look", "file"}, todo : SUBSET Rows, row : Rows]

\* The type invariant; a request derives no more than MaxAttempts addresses.
TypeOK ==
    /\ boot \in BootStates
    /\ pointer \in Nat
    /\ records \subseteq Rows /\ IsFiniteSet(records)
    /\ requests \in [Requests -> {Idle} \cup RequestStates]
    /\ sweeps \in [Sweeps -> {Idle} \cup SweepStates]
    /\ deliveries \subseteq [order : Orders, amount : Nat]
    /\ linked \subseteq Orders /\ closed \subseteq Orders
    /\ shown \subseteq [order : Orders, address : Addresses]
    /\ funds \in [Addresses -> Nat]
    /\ sent \in [Orders -> Nat]
    /\ asks \in 0..MaxAsks
    /\ faults \in 0..MaxFaults

\* Every address a customer was ever shown is the one on record, and so watched, for that
\* order and no other: whatever requests race, derivations repeat after a restart, or
\* requests come before the wallet has moved past the stored addresses.
ShownAddressWatched ==
    \A view \in shown :
        /\ \E row \in records : row.order = view.order /\ row.address = view.address
        /\ \A row \in records : row.address = view.address => row.order = view.order

\* A confirmed order was paid: its customers, and not those of another order, have sent
\* what the delivery reports, and that is the price at least.
ConfirmedWasPaid ==
    \A d \in deliveries : OrderQits(d.order) <= d.amount /\ d.amount <= sent[d.order]

\* "turns each settlement into exactly one queued payment.confirmed webhook delivery":
\* overlapping sweeps that saw different balances file one.
ConfirmedOnce ==
    \A d, e \in deliveries : d.order = e.order => d = e

\* An order whose customers have sent its price to the address shown is confirmed in the
\* end, if the process ends or a call fails between any two steps.
EventuallyConfirmed ==
    \A o \in Orders : (o \in Recorded /\ sent[o] >= OrderQits(o)) ~> Filed(o)

SettledRow(o) == \E row \in records : row.order = o /\ row.settled

\* The claim behind a settled order is settled in the end, also when the order's link was
\* saved, or was named again, after the settlement: nothing but a metadata request that
\* takes the link off the order keeps the sweeps from it.
EventuallyClosed ==
    \A o \in Orders : (o \in linked /\ SettledRow(o)) ~> (o \in closed \/ o \notin linked)

\* A confirmed order was paid at the configured rate ("qits charged per 1 QUAI of order
\* value").
ConfirmedAtRate ==
    \A d \in deliveries : sent[d.order] * Quai >= Amount[d.order] * QitsPerQuai

=============================================================================
