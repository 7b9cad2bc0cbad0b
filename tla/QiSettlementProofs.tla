-------------------------- MODULE QiSettlementProofs --------------------------
(***************************************************************************)
(* Proofs about QiSettlement, for any orders, requests, sweeps, amounts,   *)
(* rate and bounds.                                                        *)
(***************************************************************************)
EXTENDS QiSettlement, FiniteSetTheorems, TLAPS

-----------------------------------------------------------------------------
(* The inductive invariant.  Its parts are stated of values, so that they  *)
(* can be claimed of a state and of the next one alike.                    *)

\* Order o has address a in the table rs.
OnRecord(rs, o, a) == \E row \in rs : row.order = o /\ row.address = a

\* n qits are the price of o at least, and no more than its customers have sent, s.
PaidFor(o, n, s) == OrderQits(o) <= n /\ n <= s[o]

OneAddressEach(rs) ==
    \A p, q \in rs : p.order = q.order \/ p.address = q.address => p = q

\* An address holds what was sent for its order; nothing was sent elsewhere.
LedgerOK(rs, f, s) ==
    /\ \A row \in rs : f[row.address] = s[row.order]
    /\ \A a \in Addresses : (\A row \in rs : row.address # a) => f[a] = 0
    /\ \A o \in Orders : (\A row \in rs : row.order # o) => s[o] = 0

SettledPaid(row, s) == row.settled => PaidFor(row.order, row.received, s)

\* A row a sweep has read: the record may have been settled since, but is still there.
RowOK(row, rs, s) == OnRecord(rs, row.order, row.address) /\ SettledPaid(row, s)

RequestOK(q, rs) == q.step = "answer" => OnRecord(rs, q.order, q.address)

SweepOK(w, rs, s) ==
    w # Idle =>
        /\ \A row \in w.todo : RowOK(row, rs, s)
        /\ w.step # "next" => RowOK(w.row, rs, s)
        /\ w.step = "mark" => PaidFor(w.row.order, w.balance, s)
        /\ w.step \notin {"next", "mark"} => w.row.settled

RecordsInv ==
    /\ OneAddressEach(records)
    /\ LedgerOK(records, funds, sent)
    /\ \A row \in records : SettledPaid(row, sent)

RequestsInv == \A r \in Requests : RequestOK(requests[r], records)

SweepsInv == \A s \in Sweeps : SweepOK(sweeps[s], records, sent)

ShownInv == \A view \in shown : OnRecord(records, view.order, view.address)

DeliveriesInv ==
    /\ \A d \in deliveries : PaidFor(d.order, d.amount, sent)
    /\ \A d, e \in deliveries : d.order = e.order => d = e

QiInv == TypeOK /\ RecordsInv /\ RequestsInv /\ SweepsInv /\ ShownInv /\ DeliveriesInv

-----------------------------------------------------------------------------
(* Types.                                                                  *)

LEMMA PriceType == ASSUME NEW o \in Orders PROVE OrderQits(o) \in Nat
  <1>1. Amount[o] \in Nat /\ Quai \in Nat \ {0} /\ QitsPerQuai \in Nat  BY QiAssumption
  <1>2. Amount[o] \div Quai \in Nat  BY <1>1
  <1> QED  BY <1>1, <1>2 DEF OrderQits

LEMMA InitType == Init => TypeOK
  BY QiAssumption, FS_EmptySet DEF Init, TypeOK, Idle, BootStates

\* A request at work, and what its steps make of it.
LEMMA RequestTypes ==
  ASSUME TypeOK, NEW r \in Requests, requests[r] # Idle
  PROVE  /\ requests[r] \in RequestStates
         /\ \A step \in {"load", "derive", "insert", "answer"} :
               GoTo(r, step) => requests' \in [Requests -> {Idle} \cup RequestStates]
         /\ \A row \in Rows :
               Answer(r, row) => requests' \in [Requests -> {Idle} \cup RequestStates]
  BY DEF TypeOK, RequestStates, GoTo, Answer, Rows

LEMMA SweepTypes ==
  ASSUME TypeOK, NEW s \in Sweeps, sweeps[s] # Idle
  PROVE  /\ sweeps[s] \in SweepStates
         /\ sweeps[s].todo \subseteq Rows
         /\ sweeps[s].step # "next" => sweeps[s].row \in Rows
         /\ sweeps[s].step = "mark" => sweeps[s].balance \in Nat
  BY DEF TypeOK, SweepStates

LEMMA ProceedType ==
  ASSUME TypeOK, NEW s \in Sweeps, NEW todo \in SUBSET Rows, Proceed(s, todo)
  PROVE  sweeps' \in [Sweeps -> {Idle} \cup SweepStates]
  BY DEF TypeOK, SweepStates, Proceed

\* Requests leave the sweeps alone, and their own state well typed.
LEMMA RequestStepTypes ==
  ASSUME TypeOK,
         NEW r \in Requests,
         Serve(r) \/ RequestFails(r)
               \/ \E kind \in {"view", "claim"}, o \in Orders : Ask(r, kind, o)
  PROVE  TypeOK'
  <1>1. ASSUME NEW kind \in {"view", "claim"}, NEW o \in Orders, Ask(r, kind, o)
        PROVE  TypeOK'
    <2>1. 1 \in 1..MaxAttempts /\ 0 \in Addresses  BY QiAssumption DEF Addresses
    <2>2. requests' \in [Requests -> {Idle} \cup RequestStates]
      BY <1>1, <2>1 DEF Ask, TypeOK, RequestStates
    <2>3. asks' \in 0..MaxAsks  BY <1>1, QiAssumption DEF Ask, TypeOK
    <2> QED  BY <1>1, <2>2, <2>3 DEF Ask, TypeOK, storeVars, ledgerVars
  <1>2. CASE Load(r)
    <2>1. requests[r] # Idle  BY <1>2 DEF Load, Has, Idle
    <2>2. requests' \in [Requests -> {Idle} \cup RequestStates]
      BY <1>2, <2>1, RequestTypes DEF Load, TypeOK
    <2> QED  BY <1>2, <2>2 DEF Load, TypeOK, storeVars, ledgerVars, bounded
  <1>3. CASE Derive(r)
    <2>1. requests[r] # Idle  BY <1>3 DEF Derive, Has, Idle
    <2>2. requests[r] \in RequestStates /\ pointer \in Addresses
      BY <1>3, <2>1, RequestTypes DEF Derive
    <2>3. requests' \in [Requests -> {Idle} \cup RequestStates]
      BY <1>3, <2>2 DEF Derive, TypeOK, RequestStates
    <2> QED  BY <1>3, <2>3 DEF Derive, TypeOK, storeVars, ledgerVars, bounded
  <1>4. CASE Insert(r)
    <2>1. requests[r] # Idle  BY <1>4 DEF Insert, Has, Idle
    <2>2. requests[r] \in RequestStates  BY <2>1, RequestTypes
    <2>3. Fresh(requests[r].order, requests[r].address) \in Rows
      BY <2>2 DEF Fresh, Rows, RequestStates
    <2>4. AttemptsLeft(r) => requests[r].attempt + 1 \in 1..MaxAttempts
      BY <2>2, QiAssumption DEF AttemptsLeft, RequestStates
    <2>5. records' \subseteq Rows /\ IsFiniteSet(records')
      BY <1>4, <2>3, FS_AddElement DEF Insert, TypeOK
    <2>6. requests' \in [Requests -> {Idle} \cup RequestStates]
      <3>1. CASE GoTo(r, "answer")  BY <3>1, <2>1, RequestTypes
      <3>2. CASE requests' = [requests EXCEPT ![r] = Idle]  BY <3>2 DEF TypeOK
      <3>3. CASE /\ AttemptsLeft(r)
                 /\ requests' = [requests EXCEPT
                      ![r] = [requests[r] EXCEPT
                                  !.step = "derive", !.attempt = requests[r].attempt + 1]]
        <4> DEFINE q == [requests[r] EXCEPT
                            !.step = "derive", !.attempt = requests[r].attempt + 1]
        <4>1. q \in RequestStates  BY <3>3, <2>2, <2>4 DEF RequestStates
        <4> QED  BY <4>1, <3>3 DEF TypeOK
      <3> QED  BY <1>4, <3>1, <3>2, <3>3 DEF Insert
    <2> QED  BY <1>4, <2>5, <2>6 DEF Insert, TypeOK, ledgerVars, bounded
  <1>5. CASE Show(r)
    <2>1. requests[r] # Idle  BY <1>5 DEF Show, Has, Idle
    <2>2. requests[r].order \in Orders /\ requests[r].address \in Addresses
      BY <2>1, RequestTypes DEF RequestStates
    <2> QED  BY <1>5, <2>2 DEF Show, TypeOK, bounded
  <1>6. CASE RequestFails(r)
    BY <1>6, QiAssumption DEF RequestFails, Fault, TypeOK, storeVars, ledgerVars
  <1> QED  BY <1>1, <1>2, <1>3, <1>4, <1>5, <1>6 DEF Serve

LEMMA SweepStepTypes ==
  ASSUME TypeOK, NEW s \in Sweeps, SweepStep(s) \/ RowFails(s)
  PROVE  TypeOK'
  <1> DEFINE SweepsTyped == sweeps' \in [Sweeps -> {Idle} \cup SweepStates]
  <1>1. CASE List(s)
    <2>1. SweepsTyped  BY <1>1 DEF List, TypeOK, SweepStates
    <2> QED  BY <1>1, <2>1 DEF List, TypeOK, storeVars, ledgerVars, bounded
  <1>2. CASE Revisit(s)
    <2>1. sweeps[s] # Idle  BY <1>2 DEF Revisit, Doing, Idle
    <2>2. sweeps[s].todo \subseteq Rows  BY <2>1, SweepTypes
    <2>3. SweepsTyped  BY <1>2, <2>2 DEF Revisit, Take, TypeOK, SweepStates
    <2> QED  BY <1>2, <2>3 DEF Revisit, TypeOK, storeVars, ledgerVars, bounded
  <1>3. CASE Check(s)
    <2>1. sweeps[s] # Idle  BY <1>3 DEF Check, Doing, Idle
    <2>2. sweeps[s].todo \subseteq Rows  BY <2>1, SweepTypes
    <2>3. \A row \in Rows : funds[row.address] \in Nat  BY DEF TypeOK, Rows
    <2>4. SweepsTyped  BY <1>3, <2>2, <2>3 DEF Check, Proceed, TypeOK, SweepStates
    <2> QED  BY <1>3, <2>4 DEF Check, TypeOK, storeVars, ledgerVars, bounded
  <1>4. CASE Mark(s)
    <2>1. sweeps[s] # Idle  BY <1>4 DEF Mark, Doing, Idle
    <2> DEFINE settled ==
                 [sweeps[s].row EXCEPT !.settled = TRUE, !.received = sweeps[s].balance]
    <2>2. /\ sweeps[s].todo \subseteq Rows
          /\ sweeps[s].row \in Rows
          /\ sweeps[s].balance \in Nat
      BY <1>4, <2>1, SweepTypes DEF Mark, Doing
    <2>3. settled \in Rows  BY <2>2 DEF Rows
    <2>4. SweepsTyped
      <3> HIDE DEF settled
      <3>1. sweeps' = [sweeps EXCEPT
                 ![s] = [step |-> "claim", todo |-> sweeps[s].todo, row |-> settled]]
        BY <1>4 DEF Mark, settled
      <3> QED  BY <3>1, <2>2, <2>3 DEF TypeOK, SweepStates
    <2>5. records' \subseteq Rows /\ IsFiniteSet(records')
      <3> HIDE DEF settled
      <3> DEFINE others == {row \in records : row.order # settled.order}
      <3>1. records' = others \cup {settled}
        BY <1>4 DEF Mark, settled
      <3>2. others \subseteq Rows /\ IsFiniteSet(others)
        BY FS_Subset DEF TypeOK
      <3> HIDE DEF others
      <3> QED  BY <3>1, <3>2, <2>3, FS_AddElement
    <2> QED  BY <1>4, <2>4, <2>5 DEF Mark, TypeOK, ledgerVars, bounded
  <1>5. CASE SettleLinkClaim(s)
    <2>1. sweeps[s] # Idle  BY <1>5 DEF SettleLinkClaim, Doing, Idle
    <2>2. /\ sweeps[s] \in SweepStates
          /\ sweeps[s].todo \subseteq Rows
          /\ sweeps[s].row \in Rows
      BY <1>5, <2>1, SweepTypes DEF SettleLinkClaim, Doing
    <2>3. SweepsTyped
      BY <1>5, <2>2 DEF SettleLinkClaim, Doing, TypeOK, SweepStates
    <2> QED  BY <1>5, <2>3 DEF SettleLinkClaim, TypeOK, ledgerVars, bounded
  <1>6. CASE LookUp(s)
    <2>1. sweeps[s] # Idle  BY <1>6 DEF LookUp, Doing, Idle
    <2>2. /\ sweeps[s] \in SweepStates
          /\ sweeps[s].todo \subseteq Rows
          /\ sweeps[s].row \in Rows
      BY <1>6, <2>1, SweepTypes DEF LookUp, Doing
    <2>3. SweepsTyped
      <3>1. CASE Proceed(s, sweeps[s].todo)  BY <3>1, <2>2, ProceedType
      <3>2. CASE sweeps' = [sweeps EXCEPT ![s].step = "file"]
        BY <1>6, <3>2, <2>2 DEF LookUp, Doing, TypeOK, SweepStates
      <3> QED  BY <1>6, <3>1, <3>2 DEF LookUp
    <2> QED  BY <1>6, <2>3 DEF LookUp, TypeOK, storeVars, ledgerVars, bounded
  <1>7. CASE File(s)
    <2>1. sweeps[s] # Idle  BY <1>7 DEF File, Doing, Idle
    <2>2. sweeps[s].todo \subseteq Rows /\ sweeps[s].row \in Rows
      BY <1>7, <2>1, SweepTypes DEF File, Doing
    <2>3. SweepsTyped  BY <1>7, <2>2, ProceedType DEF File
    <2>4. Delivery(sweeps[s].row) \in [order : Orders, amount : Nat]
      BY <2>2 DEF Delivery, Rows
    <2>5. deliveries' \subseteq [order : Orders, amount : Nat]
      BY <1>7, <2>4 DEF File, InsertIfAbsent, TypeOK
    <2> QED  BY <1>7, <2>3, <2>5 DEF File, TypeOK, ledgerVars, bounded
  <1>8. CASE EndSweep(s)
    BY <1>8 DEF EndSweep, TypeOK, BootStates, storeVars, ledgerVars, bounded
  <1>9. CASE RowFails(s)
    <2>1. sweeps[s].todo \subseteq Rows  BY <1>9, SweepTypes DEF RowFails
    <2>2. SweepsTyped  BY <1>9, <2>1, ProceedType DEF RowFails
    <2>3. faults' \in 0..MaxFaults  BY <1>9, QiAssumption DEF RowFails, Fault, TypeOK
    <2> QED  BY <1>9, <2>2, <2>3 DEF RowFails, Fault, TypeOK, storeVars, ledgerVars
  <1> QED  BY <1>1, <1>2, <1>3, <1>4, <1>5, <1>6, <1>7, <1>8, <1>9 DEF SweepStep

LEMMA OtherStepTypes ==
  ASSUME TypeOK,
         \/ BootStep
         \/ Restart
         \/ UNCHANGED vars
         \/ \E o \in Renamed : CustomerMeta(o)
         \/ \E o \in Orders, a \in Addresses : Send(o, a)
  PROVE  TypeOK'
  <1>1. CASE BootList
    <2>1. Cardinality(records) \in Nat  BY FS_CardinalityType DEF TypeOK
    <2> QED  BY <1>1, <2>1 DEF BootList, TypeOK, BootStates, storeVars, ledgerVars, bounded
  <1>2. CASE BootAdvance
    <2>1. boot \in BootStates  BY DEF TypeOK
    <2>2. boot.orders \in Nat  BY <1>2, <2>1 DEF BootAdvance, BootStates
    <2>3. pointer' \in Nat  BY <1>2, <2>2 DEF BootAdvance, TypeOK
    <2> QED
      BY <1>2, <2>3 DEF BootAdvance, TypeOK, BootStates, storeVars, ledgerVars, bounded
  <1>3. CASE Restart
    BY <1>3, QiAssumption DEF Restart, Fault, TypeOK, BootStates, storeVars, ledgerVars
  <1>4. CASE UNCHANGED vars
    BY <1>4 DEF vars, processVars, storeVars, ledgerVars, bounded, TypeOK
  <1>5. ASSUME NEW o \in Orders, NEW a \in Addresses, Send(o, a)
        PROVE  TypeOK'
    BY <1>5 DEF Send, TypeOK, processVars, storeVars, bounded
  <1>6. ASSUME NEW o \in Renamed, CustomerMeta(o)
        PROVE  TypeOK'
    BY <1>6, QiAssumption DEF CustomerMeta, TypeOK, processVars, ledgerVars, bounded
  <1> QED  BY <1>1, <1>2, <1>3, <1>4, <1>5, <1>6 DEF BootStep

LEMMA TypeStep == TypeOK /\ [Next]_vars => TypeOK'
  BY RequestStepTypes, SweepStepTypes, OtherStepTypes DEF Next

\* Every reachable state is well typed.
THEOREM TypeCorrect == Spec => []TypeOK
  BY InitType, TypeStep, PTL DEF Spec

-----------------------------------------------------------------------------
(* What growing tables and payments keep.                                  *)

\* Addresses stay on record, and payments only add up.
Grown(rs, rs2, s, s2) ==
    /\ \A o \in Orders, a \in Addresses : OnRecord(rs, o, a) => OnRecord(rs2, o, a)
    /\ \A o \in Orders : s[o] <= s2[o]

LEMMA PaidForKept ==
  ASSUME NEW s \in [Orders -> Nat], NEW s2 \in [Orders -> Nat],
         \A o \in Orders : s[o] <= s2[o],
         NEW o \in Orders, NEW n \in Nat, PaidFor(o, n, s)
  PROVE  PaidFor(o, n, s2)
  <1>1. s[o] \in Nat /\ s2[o] \in Nat /\ s[o] <= s2[o]  OBVIOUS
  <1>2. OrderQits(o) <= n /\ n <= s[o]  BY DEF PaidFor
  <1> QED  BY <1>1, <1>2 DEF PaidFor

LEMMA RowKept ==
  ASSUME NEW rs, NEW rs2, NEW s \in [Orders -> Nat], NEW s2 \in [Orders -> Nat],
         Grown(rs, rs2, s, s2),
         NEW row \in Rows, RowOK(row, rs, s)
  PROVE  RowOK(row, rs2, s2)
  <1>1. row.order \in Orders /\ row.address \in Addresses /\ row.received \in Nat
    BY DEF Rows
  <1>2. OnRecord(rs2, row.order, row.address)  BY <1>1 DEF RowOK, Grown
  <1>3. SettledPaid(row, s2)  BY <1>1, PaidForKept DEF RowOK, SettledPaid, Grown
  <1> QED  BY <1>2, <1>3 DEF RowOK

LEMMA SweepKept ==
  ASSUME NEW rs, NEW rs2, NEW s \in [Orders -> Nat], NEW s2 \in [Orders -> Nat],
         Grown(rs, rs2, s, s2),
         NEW w \in {Idle} \cup SweepStates, SweepOK(w, rs, s)
  PROVE  SweepOK(w, rs2, s2)
  <1> SUFFICES ASSUME w # Idle  PROVE SweepOK(w, rs2, s2)
    BY DEF SweepOK
  <1>1. w.todo \subseteq Rows  BY DEF SweepStates
  <1>2. w.step # "next" => w.row \in Rows  BY DEF SweepStates
  <1>3. w.step = "mark" => w.balance \in Nat  BY DEF SweepStates
  <1>4. \A row \in w.todo : RowOK(row, rs2, s2)  BY <1>1, RowKept DEF SweepOK
  <1>5. w.step # "next" => RowOK(w.row, rs2, s2)  BY <1>2, RowKept DEF SweepOK
  <1>6. ASSUME w.step = "mark"  PROVE PaidFor(w.row.order, w.balance, s2)
    <2>1. w.row.order \in Orders  BY <1>2, <1>6 DEF Rows
    <2>2. PaidFor(w.row.order, w.balance, s)  BY <1>6 DEF SweepOK
    <2> QED  BY <2>1, <2>2, <1>3, <1>6, PaidForKept DEF Grown
  <1>7. w.step \notin {"next", "mark"} => w.row.settled  BY DEF SweepOK
  <1> QED  BY <1>4, <1>5, <1>6, <1>7 DEF SweepOK

\* What a step keeps that adds to the table or to the payments only.
LEMMA GrownKept ==
  ASSUME QiInv, TypeOK', Grown(records, records', sent, sent')
  PROVE  /\ requests' = requests => RequestsInv'
         /\ \A s \in Sweeps : SweepOK(sweeps[s], records', sent')
         /\ shown' = shown => ShownInv'
         /\ deliveries' = deliveries => DeliveriesInv'
  <1>1. sent \in [Orders -> Nat] /\ sent' \in [Orders -> Nat]  BY DEF QiInv, TypeOK
  <1>2. ASSUME requests' = requests  PROVE RequestsInv'
    <2>1. \A r \in Requests : requests[r].step = "answer" =>
             requests[r].order \in Orders /\ requests[r].address \in Addresses
      BY DEF QiInv, TypeOK, Idle, RequestStates
    <2> QED  BY <1>2, <2>1 DEF QiInv, RequestsInv, RequestOK, Grown
  <1>3. \A s \in Sweeps : SweepOK(sweeps[s], records', sent')
    BY <1>1, SweepKept DEF QiInv, TypeOK, SweepsInv
  <1>4. ASSUME shown' = shown  PROVE ShownInv'
    <2>1. \A view \in shown : view.order \in Orders /\ view.address \in Addresses
      BY DEF QiInv, TypeOK
    <2> QED  BY <1>4, <2>1 DEF QiInv, ShownInv, Grown
  <1>5. ASSUME deliveries' = deliveries  PROVE DeliveriesInv'
    <2>1. \A d \in deliveries : d.order \in Orders /\ d.amount \in Nat
      BY DEF QiInv, TypeOK
    <2>2. \A d \in deliveries : PaidFor(d.order, d.amount, sent')
      BY <1>1, <2>1, PaidForKept DEF QiInv, DeliveriesInv, Grown
    <2> QED  BY <1>5, <2>2 DEF QiInv, DeliveriesInv
  <1> QED  BY <1>2, <1>3, <1>4, <1>5

\* What a step keeps that leaves the table and the payments alone.
LEMMA SameKept ==
  ASSUME QiInv, TypeOK', records' = records, funds' = funds, sent' = sent
  PROVE  /\ RecordsInv'
         /\ requests' = requests => RequestsInv'
         /\ \A s \in Sweeps : SweepOK(sweeps[s], records', sent')
         /\ shown' = shown => ShownInv'
         /\ deliveries' = deliveries => DeliveriesInv'
  <1>1. Grown(records, records', sent, sent')
    <2>1. \A o \in Orders : sent[o] <= sent[o]  BY DEF QiInv, TypeOK
    <2> QED  BY <2>1 DEF Grown
  <1>2. RecordsInv'  BY DEF QiInv, RecordsInv
  <1> QED  BY <1>1, <1>2, GrownKept

-----------------------------------------------------------------------------
(* The steps of requests.                                                  *)

\* An address put into the table belongs to nobody: it holds nothing, and nothing was
\* sent for its order.
LEMMA InsertInv ==
  ASSUME QiInv, TypeOK', NEW r \in Requests, Insert(r)
  PROVE  QiInv'
  <1> DEFINE o == requests[r].order
             a == requests[r].address
             new == Fresh(o, a)
  <1>1. requests[r] \in RequestStates
    BY RequestTypes DEF Insert, Has, Idle, QiInv
  <1>2. o \in Orders /\ a \in Addresses  BY <1>1 DEF RequestStates
  <1>3. UNCHANGED <<sweeps, deliveries, funds, sent, shown>>
    BY DEF Insert, ledgerVars
  <1>4. CASE UNCHANGED records
    <2>1. \A q \in Requests : RequestOK(requests'[q], records)
      <3>1. /\ \A q \in Requests : q # r => requests'[q] = requests[q]
            /\ requests'[r].step # "answer"
        <4>1. \/ requests' = [requests EXCEPT ![r] = Idle]
              \/ requests' = [requests EXCEPT
                     ![r] = [requests[r] EXCEPT
                                 !.step = "derive", !.attempt = requests[r].attempt + 1]]
          <5>1. CASE o \notin Recorded /\ ~AddressTaken(a)
            <6>1. new \in records  BY <1>4, <5>1 DEF Insert
            <6>2. new.order = o  BY DEF Fresh
            <6> QED  BY <5>1, <6>1, <6>2 DEF Recorded
          <5> QED  BY <5>1 DEF Insert
        <4>2. CASE requests' = [requests EXCEPT ![r] = Idle]
          BY <4>2 DEF Idle, QiInv, TypeOK
        <4>3. CASE requests' = [requests EXCEPT
                      ![r] = [requests[r] EXCEPT
                                  !.step = "derive", !.attempt = requests[r].attempt + 1]]
          <5> DEFINE q == [requests[r] EXCEPT
                              !.step = "derive", !.attempt = requests[r].attempt + 1]
          <5>1. q.step = "derive"  BY <1>1 DEF RequestStates
          <5> HIDE DEF q
          <5>2. requests' = [requests EXCEPT ![r] = q]  BY <4>3 DEF q
          <5> QED  BY <5>1, <5>2 DEF QiInv, TypeOK
        <4> QED  BY <4>1, <4>2, <4>3
      <3> QED  BY <3>1 DEF QiInv, RequestsInv, RequestOK
    <2>2. RequestsInv'  BY <2>1, <1>4 DEF RequestsInv
    <2> QED  BY <2>2, <1>3, <1>4, SameKept DEF QiInv, SweepsInv
  <1>5. CASE ~UNCHANGED records
    <2>1. /\ o \notin Recorded
          /\ ~AddressTaken(a)
          /\ records' = records \cup {new}
          /\ GoTo(r, "answer")
      BY <1>5 DEF Insert
    <2>2. new.order = o /\ new.address = a /\ new.settled = FALSE  BY DEF Fresh
    <2>3. \A row \in records : row.order # o /\ row.address # a
      BY <2>1 DEF Recorded, AddressTaken
    <2> HIDE DEF new
    <2>4. Grown(records, records', sent, sent')
      <3>1. \A n \in Orders : sent[n] <= sent[n]  BY DEF QiInv, TypeOK
      <3> QED  BY <3>1, <2>1, <1>3 DEF Grown, OnRecord
    <2>5. OneAddressEach(records')
      BY <2>1, <2>2, <2>3 DEF QiInv, RecordsInv, OneAddressEach
    <2>6. LedgerOK(records', funds', sent')
      <3>1. funds[a] = 0 /\ sent[o] = 0
        BY <1>2, <2>3 DEF QiInv, RecordsInv, LedgerOK
      <3> QED  BY <3>1, <2>1, <2>2, <1>3 DEF QiInv, RecordsInv, LedgerOK
    <2>7. \A row \in records' : SettledPaid(row, sent')
      BY <2>1, <2>2, <1>3 DEF QiInv, RecordsInv, SettledPaid
    <2>8. RequestsInv'
      <3>1. OnRecord(records', o, a)  BY <2>1, <2>2 DEF OnRecord
      <3>2. /\ \A q \in Requests : q # r => requests'[q] = requests[q]
            /\ requests'[r].order = o /\ requests'[r].address = a
        BY <2>1, <1>1 DEF GoTo, RequestStates, QiInv, TypeOK
      <3>3. ASSUME NEW q \in Requests, q # r  PROVE RequestOK(requests[q], records')
        <4>1. requests[q].step = "answer" =>
                 requests[q].order \in Orders /\ requests[q].address \in Addresses
          BY DEF QiInv, TypeOK, Idle, RequestStates
        <4> QED  BY <4>1, <2>4 DEF QiInv, RequestsInv, RequestOK, Grown
      <3> QED  BY <3>1, <3>2, <3>3 DEF RequestsInv, RequestOK
    <2> QED
      BY <2>4, <2>5, <2>6, <2>7, <2>8, <1>3, GrownKept DEF QiInv, RecordsInv, SweepsInv
  <1> QED  BY <1>4, <1>5

LEMMA RequestStepInv ==
  ASSUME QiInv,
         NEW r \in Requests,
         Serve(r) \/ RequestFails(r)
               \/ \E kind \in {"view", "claim"}, o \in Orders : Ask(r, kind, o)
  PROVE  QiInv'
  <1>0. TypeOK'  BY RequestStepTypes DEF QiInv
  <1> DEFINE Quiet ==
               /\ UNCHANGED <<records, sweeps, deliveries, shown, funds, sent>>
               /\ \A q \in Requests : q # r => requests'[q] = requests[q]
               /\ RequestOK(requests'[r], records)
  <1>1. ASSUME Quiet  PROVE QiInv'
    <2>1. RequestsInv'  BY <1>1 DEF QiInv, RequestsInv
    <2> QED  BY <1>0, <1>1, <2>1, SameKept DEF QiInv, SweepsInv
  <1>2. ASSUME NEW kind \in {"view", "claim"}, NEW o \in Orders, Ask(r, kind, o)
        PROVE  Quiet
    BY <1>2 DEF Ask, RequestOK, storeVars, ledgerVars, QiInv, TypeOK
  <1>3. CASE Load(r)
    <2>1. requests[r] \in RequestStates
      BY <1>3, RequestTypes DEF Load, Has, Idle, QiInv
    <2>2. UNCHANGED <<records, sweeps, deliveries, shown, funds, sent>>
      BY <1>3 DEF Load, storeVars, ledgerVars
    <2>3. ASSUME GoTo(r, "derive")  PROVE Quiet
      <3>1. /\ \A q \in Requests : q # r => requests'[q] = requests[q]
            /\ requests'[r].step = "derive"
        <4> DEFINE q == [requests[r] EXCEPT !.step = "derive"]
        <4>1. q.step = "derive"  BY <2>1 DEF RequestStates
        <4>2. requests' = [requests EXCEPT ![r] = q]  BY <2>3 DEF GoTo
        <4> HIDE DEF q
        <4> QED  BY <4>1, <4>2 DEF QiInv, TypeOK
      <3> QED  BY <2>2, <3>1 DEF RequestOK
    <2>4. ASSUME NEW row \in records, row.order = requests[r].order, Answer(r, row)
          PROVE  Quiet
      <3>1. OnRecord(records, requests[r].order, row.address)  BY <2>4 DEF OnRecord
      <3>2. /\ \A q \in Requests : q # r => requests'[q] = requests[q]
            /\ requests'[r].order = requests[r].order
            /\ requests'[r].address = row.address
        <4> DEFINE q == [requests[r] EXCEPT !.step = "answer", !.address = row.address]
        <4>1. q.order = requests[r].order /\ q.address = row.address
          BY <2>1 DEF RequestStates
        <4>2. requests' = [requests EXCEPT ![r] = q]  BY <2>4 DEF Answer
        <4> HIDE DEF q
        <4> QED  BY <4>1, <4>2 DEF QiInv, TypeOK
      <3> QED  BY <2>2, <3>1, <3>2 DEF RequestOK
    <2>5. Quiet
      <3> HIDE DEF Quiet
      <3> QED  BY <1>3, <2>3, <2>4 DEF Load
    <2> QED  BY <2>5, <1>1
  <1>4. CASE Derive(r)
    <2>1. requests[r] \in RequestStates
      BY <1>4, RequestTypes DEF Derive, Has, Idle, QiInv
    <2>2. Quiet
      BY <1>4, <2>1
         DEF Derive, RequestOK, RequestStates, QiInv, TypeOK, storeVars, ledgerVars
    <2> QED  BY <2>2, <1>1
  <1>5. CASE Insert(r)  BY <1>0, <1>5, InsertInv
  <1>6. CASE Show(r)
    <2>1. UNCHANGED <<records, sweeps, deliveries, funds, sent>>  BY <1>6 DEF Show
    <2>2. OnRecord(records, requests[r].order, requests[r].address)
      BY <1>6 DEF Show, Has, QiInv, RequestsInv, RequestOK
    <2>3. ShownInv'
      BY <1>6, <2>1, <2>2 DEF Show, QiInv, ShownInv
    <2>4. RequestsInv'
      BY <1>6, <2>1 DEF Show, Idle, QiInv, TypeOK, RequestsInv, RequestOK
    <2> QED  BY <1>0, <2>1, <2>3, <2>4, SameKept DEF QiInv, SweepsInv
  <1>7. CASE RequestFails(r)
    <2>1. Quiet
      BY <1>7 DEF RequestFails, Idle, RequestOK, QiInv, TypeOK, storeVars, ledgerVars
    <2> QED  BY <2>1, <1>1
  <1> QED  BY <1>1, <1>2, <1>3, <1>4, <1>5, <1>6, <1>7 DEF Serve

-----------------------------------------------------------------------------
(* The steps of sweeps.                                                    *)

\* What a sweep has at hand.
LEMMA AtHand ==
  ASSUME QiInv, NEW s \in Sweeps, sweeps[s] # Idle
  PROVE  /\ \A row \in sweeps[s].todo : row \in Rows /\ RowOK(row, records, sent)
         /\ sweeps[s].step # "next" =>
               sweeps[s].row \in Rows /\ RowOK(sweeps[s].row, records, sent)
         /\ sweeps[s].step = "mark" =>
               /\ sweeps[s].balance \in Nat
               /\ PaidFor(sweeps[s].row.order, sweeps[s].balance, sent)
         /\ sweeps[s].step \notin {"next", "mark"} => sweeps[s].row.settled
  BY SweepTypes DEF QiInv, SweepsInv, SweepOK

\* A sweep that changes only what it has at hand.
LEMMA SweepOnly ==
  ASSUME QiInv, TypeOK', NEW s \in Sweeps,
         UNCHANGED <<requests, records, deliveries, shown, funds, sent>>,
         NEW w, sweeps' = [sweeps EXCEPT ![s] = w], SweepOK(w, records, sent)
  PROVE  QiInv'
  <1>1. SweepsInv'  BY DEF QiInv, TypeOK, SweepsInv
  <1> QED  BY <1>1, SameKept DEF QiInv

\* The balance of an address is what was sent for its order.
LEMMA CheckInv ==
  ASSUME QiInv, TypeOK', NEW s \in Sweeps, Check(s)
  PROVE  QiInv'
  <1>1. sweeps[s] # Idle  BY DEF Check, Doing, Idle
  <1>2. UNCHANGED <<requests, records, deliveries, shown, funds, sent>>
    BY DEF Check, storeVars, ledgerVars
  <1>3. PICK row \in sweeps[s].todo :
          /\ ~row.settled
          /\ \/ /\ funds[row.address] >= OrderQits(row.order)
                /\ sweeps' = [sweeps EXCEPT
                       ![s] = [step |-> "mark", todo |-> sweeps[s].todo \ {row},
                               row |-> row, balance |-> funds[row.address]]]
             \/ /\ funds[row.address] < OrderQits(row.order)
                /\ Proceed(s, sweeps[s].todo \ {row})
    BY DEF Check
  <1>4. CASE Proceed(s, sweeps[s].todo \ {row})
    <2>1. SweepOK([step |-> "next", todo |-> sweeps[s].todo \ {row}], records, sent)
      BY <1>1, AtHand DEF SweepOK
    <2> QED  BY <1>2, <1>4, <2>1, SweepOnly DEF Proceed
  <1>5. CASE /\ funds[row.address] >= OrderQits(row.order)
             /\ sweeps' = [sweeps EXCEPT
                       ![s] = [step |-> "mark", todo |-> sweeps[s].todo \ {row},
                               row |-> row, balance |-> funds[row.address]]]
    <2> DEFINE w == [step |-> "mark", todo |-> sweeps[s].todo \ {row},
                     row |-> row, balance |-> funds[row.address]]
    <2>1. row \in Rows /\ RowOK(row, records, sent)  BY <1>1, AtHand
    <2>2. PICK rec \in records : rec.order = row.order /\ rec.address = row.address
      BY <2>1 DEF RowOK, OnRecord
    <2>3. funds[row.address] = sent[row.order]
      BY <2>2 DEF QiInv, RecordsInv, LedgerOK
    <2>4. OrderQits(row.order) \in Nat /\ sent[row.order] \in Nat
      BY <2>1, PriceType DEF Rows, QiInv, TypeOK
    <2>5. PaidFor(row.order, funds[row.address], sent)
      BY <1>5, <2>3, <2>4 DEF PaidFor
    <2>6. SweepOK(w, records, sent)
      BY <1>1, <2>1, <2>5, AtHand DEF SweepOK
    <2> HIDE DEF w
    <2>7. sweeps' = [sweeps EXCEPT ![s] = w]  BY <1>5 DEF w
    <2> QED  BY <1>2, <2>6, <2>7, SweepOnly
  <1> QED  BY <1>3, <1>4, <1>5

\* The updated row keeps its order and address, whatever another sweep wrote meanwhile.
LEMMA MarkInv ==
  ASSUME QiInv, TypeOK', NEW s \in Sweeps, Mark(s)
  PROVE  QiInv'
  <1> DEFINE row == sweeps[s].row
             settled == [row EXCEPT !.settled = TRUE, !.received = sweeps[s].balance]
             w == [step |-> "claim", todo |-> sweeps[s].todo, row |-> settled]
  <1>1. sweeps[s] # Idle /\ sweeps[s].step = "mark"  BY DEF Mark, Doing, Idle
  <1>2. /\ row \in Rows /\ OnRecord(records, row.order, row.address)
        /\ PaidFor(row.order, sweeps[s].balance, sent)
    BY <1>1, AtHand DEF RowOK
  <1>3. /\ settled.order = row.order /\ settled.address = row.address
        /\ settled.settled /\ settled.received = sweeps[s].balance
    BY <1>2 DEF Rows
  <1>4. SettledPaid(settled, sent)  BY <1>2, <1>3 DEF SettledPaid
  <1>5. /\ records' = {rec \in records : rec.order # settled.order} \cup {settled}
        /\ sweeps' = [sweeps EXCEPT ![s] = w]
        /\ UNCHANGED <<requests, deliveries, shown, funds, sent>>
    BY DEF Mark, ledgerVars
  <1> HIDE DEF settled, row
  <1>6. PICK old \in records : old.order = row.order /\ old.address = row.address
    BY <1>2 DEF OnRecord
  <1>7. \A rec \in records : rec.order = row.order \/ rec.address = row.address => rec = old
    BY <1>6 DEF QiInv, RecordsInv, OneAddressEach
  <1>8. Grown(records, records', sent, sent')
    <2>1. \A o \in Orders : sent[o] <= sent[o]  BY DEF QiInv, TypeOK
    <2>2. ASSUME NEW o, NEW a, OnRecord(records, o, a)  PROVE OnRecord(records', o, a)
      <3>1. PICK rec \in records : rec.order = o /\ rec.address = a
        BY <2>2 DEF OnRecord
      <3>2. CASE rec = old  BY <3>1, <3>2, <1>3, <1>5, <1>6 DEF OnRecord
      <3>3. CASE rec # old
        <4>1. rec \in records'  BY <3>1, <3>3, <1>3, <1>5, <1>7
        <4> QED  BY <3>1, <4>1 DEF OnRecord
      <3> QED  BY <3>2, <3>3
    <2> QED  BY <2>1, <2>2, <1>5 DEF Grown
  <1>9. RecordsInv'
    <2>1. OneAddressEach(records')
      <3>1. \A rec \in records : rec.order # settled.order => rec.address # settled.address
        BY <1>3, <1>6, <1>7
      <3> QED  BY <3>1, <1>5 DEF QiInv, RecordsInv, OneAddressEach
    <2>2. LedgerOK(records', funds', sent')
      <3>1. funds[settled.address] = sent[settled.order]
        BY <1>3, <1>6 DEF QiInv, RecordsInv, LedgerOK
      <3>2. \A rec \in records' : funds[rec.address] = sent[rec.order]
        BY <3>1, <1>5 DEF QiInv, RecordsInv, LedgerOK
      <3>3. ASSUME NEW a \in Addresses, \A rec \in records' : rec.address # a
            PROVE  \A rec \in records : rec.address # a
        BY <3>3, <1>3, <1>5, <1>6, <1>7
      <3>4. ASSUME NEW o \in Orders, \A rec \in records' : rec.order # o
            PROVE  \A rec \in records : rec.order # o
        BY <3>4, <1>5
      <3> QED  BY <3>2, <3>3, <3>4, <1>5 DEF QiInv, RecordsInv, LedgerOK
    <2>3. \A rec \in records' : SettledPaid(rec, sent)
      BY <1>4, <1>5 DEF QiInv, RecordsInv
    <2> QED  BY <2>1, <2>2, <2>3, <1>5 DEF RecordsInv
  <1>10. SweepsInv'
    <2>1. \A q \in Sweeps : SweepOK(sweeps[q], records', sent')  BY <1>8, GrownKept
    <2>2. \A rec \in sweeps[s].todo : RowOK(rec, records', sent')
      BY <1>1, <2>1 DEF SweepOK
    <2>3. RowOK(settled, records', sent')
      <3>1. OnRecord(records', settled.order, settled.address)
        BY <1>5 DEF OnRecord
      <3> QED  BY <3>1, <1>4, <1>5 DEF RowOK
    <2>4. SweepOK(w, records', sent')  BY <2>2, <2>3, <1>3 DEF SweepOK
    <2> HIDE DEF w
    <2> QED  BY <2>1, <2>4, <1>5 DEF SweepsInv, QiInv, TypeOK
  <1> QED  BY <1>5, <1>8, <1>9, <1>10, GrownKept DEF QiInv

LEMMA SweepStepInv ==
  ASSUME QiInv, NEW s \in Sweeps, SweepStep(s) \/ RowFails(s)
  PROVE  QiInv'
  <1>0. TypeOK'  BY SweepStepTypes DEF QiInv
  <1>1. CASE List(s)
    <2> DEFINE w == [step |-> "next", todo |-> records]
    <2>1. \A row \in records : RowOK(row, records, sent)
      BY DEF QiInv, RecordsInv, RowOK, OnRecord
    <2>2. SweepOK(w, records, sent)  BY <2>1 DEF SweepOK
    <2>3. /\ UNCHANGED <<requests, records, deliveries, shown, funds, sent>>
          /\ sweeps' = [sweeps EXCEPT ![s] = w]
      BY <1>1 DEF List, storeVars, ledgerVars
    <2> HIDE DEF w
    <2> QED  BY <1>0, <2>2, <2>3, SweepOnly
  <1>2. CASE Revisit(s)
    <2>1. sweeps[s] # Idle  BY <1>2 DEF Revisit, Doing, Idle
    <2>2. PICK row \in sweeps[s].todo : row.settled /\ Take(s, "claim", row)
      BY <1>2 DEF Revisit, FollowUp
    <2> DEFINE w == [step |-> "claim", todo |-> sweeps[s].todo \ {row}, row |-> row]
    <2>3. SweepOK(w, records, sent)  BY <2>1, <2>2, AtHand DEF SweepOK
    <2>4. /\ UNCHANGED <<requests, records, deliveries, shown, funds, sent>>
          /\ sweeps' = [sweeps EXCEPT ![s] = w]
      BY <1>2, <2>2 DEF Revisit, Take, storeVars, ledgerVars
    <2> HIDE DEF w
    <2> QED  BY <1>0, <2>3, <2>4, SweepOnly
  <1>3. CASE Check(s)  BY <1>0, <1>3, CheckInv
  <1>4. CASE Mark(s)  BY <1>0, <1>4, MarkInv
  <1>5. CASE SettleLinkClaim(s)
    <2>1. sweeps[s] # Idle /\ sweeps[s].step = "claim"
      BY <1>5 DEF SettleLinkClaim, Doing, Idle
    <2>2. sweeps[s] \in SweepStates  BY <2>1, SweepTypes DEF QiInv
    <2> DEFINE w == [sweeps[s] EXCEPT !.step = "look"]
    <2>3. w.step = "look" /\ w.todo = sweeps[s].todo /\ w.row = sweeps[s].row
      BY <2>1, <2>2 DEF SweepStates
    <2> HIDE DEF w
    <2>4. SweepOK(w, records, sent)  BY <2>1, <2>3, AtHand DEF SweepOK
    <2>5. /\ UNCHANGED <<requests, records, deliveries, shown, funds, sent>>
          /\ sweeps' = [sweeps EXCEPT ![s] = w]
      BY <1>5 DEF SettleLinkClaim, ledgerVars, w
    <2> QED  BY <1>0, <2>4, <2>5, SweepOnly
  <1>6. CASE LookUp(s)
    <2>1. sweeps[s] # Idle /\ sweeps[s].step = "look"
      BY <1>6 DEF LookUp, Doing, Idle
    <2>2. UNCHANGED <<requests, records, deliveries, shown, funds, sent>>
      BY <1>6 DEF LookUp, storeVars, ledgerVars
    <2>3. CASE Proceed(s, sweeps[s].todo)
      <3>1. SweepOK([step |-> "next", todo |-> sweeps[s].todo], records, sent)
        BY <2>1, AtHand DEF SweepOK
      <3> QED  BY <1>0, <2>2, <2>3, <3>1, SweepOnly DEF Proceed
    <2>4. CASE sweeps' = [sweeps EXCEPT ![s].step = "file"]
      <3>1. sweeps[s] \in SweepStates  BY <2>1, SweepTypes DEF QiInv
      <3> DEFINE w == [sweeps[s] EXCEPT !.step = "file"]
      <3>2. w.step = "file" /\ w.todo = sweeps[s].todo /\ w.row = sweeps[s].row
        BY <2>1, <3>1 DEF SweepStates
      <3>3. sweeps' = [sweeps EXCEPT ![s] = w]  BY <2>4
      <3> HIDE DEF w
      <3>4. SweepOK(w, records, sent)  BY <2>1, <3>2, AtHand DEF SweepOK
      <3> QED  BY <1>0, <2>2, <3>3, <3>4, SweepOnly
    <2> QED  BY <1>6, <2>3, <2>4 DEF LookUp
  <1>7. CASE File(s)
    <2> DEFINE row == sweeps[s].row
               d == Delivery(row)
    <2>1. sweeps[s] # Idle /\ sweeps[s].step = "file"
      BY <1>7 DEF File, Doing, Idle
    <2>2. /\ UNCHANGED <<requests, records, shown, funds, sent>>
          /\ deliveries' = InsertIfAbsent(d)
          /\ Proceed(s, sweeps[s].todo)
      BY <1>7 DEF File, ledgerVars
    <2>3. PaidFor(row.order, row.received, sent)
      BY <2>1, AtHand DEF RowOK, SettledPaid
    <2>4. d.order = row.order /\ d.amount = row.received  BY DEF Delivery
    <2> HIDE DEF d, row
    <2>5. DeliveriesInv'
      BY <2>2, <2>3, <2>4 DEF QiInv, DeliveriesInv, InsertIfAbsent, Filed
    <2>6. SweepsInv'
      <3>1. \A q \in Sweeps : SweepOK(sweeps'[q], records, sent)
        <4>1. SweepOK([step |-> "next", todo |-> sweeps[s].todo], records, sent)
          BY <2>1, AtHand DEF SweepOK
        <4> QED  BY <2>2, <4>1 DEF Proceed, QiInv, TypeOK, SweepsInv
      <3> QED  BY <2>2, <3>1 DEF SweepsInv
    <2> QED  BY <1>0, <2>2, <2>5, <2>6, SameKept DEF QiInv
  <1>8. CASE EndSweep(s)
    <2>1. SweepOK(Idle, records, sent)  BY DEF SweepOK
    <2>2. /\ UNCHANGED <<requests, records, deliveries, shown, funds, sent>>
          /\ sweeps' = [sweeps EXCEPT ![s] = Idle]
      BY <1>8 DEF EndSweep, storeVars, ledgerVars
    <2> QED  BY <1>0, <2>1, <2>2, SweepOnly
  <1>9. CASE RowFails(s)
    <2>1. sweeps[s] # Idle  BY <1>9 DEF RowFails
    <2>2. UNCHANGED <<requests, records, deliveries, shown, funds, sent>>
      BY <1>9 DEF RowFails, storeVars, ledgerVars
    <2>3. PICK todo \in SUBSET sweeps[s].todo : Proceed(s, todo)
      BY <1>9 DEF RowFails
    <2>4. SweepOK([step |-> "next", todo |-> todo], records, sent)
      BY <2>1, AtHand DEF SweepOK
    <2> QED  BY <1>0, <2>2, <2>3, <2>4, SweepOnly DEF Proceed
  <1> QED  BY <1>1, <1>2, <1>3, <1>4, <1>5, <1>6, <1>7, <1>8, <1>9 DEF SweepStep

-----------------------------------------------------------------------------
(* The other steps.                                                        *)

\* A payment for o goes to the address of o alone.
LEMMA SendInv ==
  ASSUME QiInv, TypeOK', NEW o \in Orders, NEW a \in Addresses, Send(o, a)
  PROVE  QiInv'
  <1>1. /\ [order |-> o, address |-> a] \in shown
        /\ funds' = [funds EXCEPT ![a] = funds[a] + 1]
        /\ sent' = [sent EXCEPT ![o] = sent[o] + 1]
        /\ UNCHANGED <<requests, sweeps, records, deliveries, shown>>
    BY DEF Send, processVars, storeVars
  <1>2. PICK rec \in records : rec.order = o /\ rec.address = a
    BY <1>1 DEF QiInv, ShownInv, OnRecord
  <1>3. \A row \in records : row.order = o \/ row.address = a => row = rec
    BY <1>2 DEF QiInv, RecordsInv, OneAddressEach
  <1>4. Grown(records, records', sent, sent')
    <2>1. \A n \in Orders : sent[n] <= sent'[n]  BY <1>1 DEF QiInv, TypeOK
    <2> QED  BY <1>1, <2>1 DEF Grown
  <1>5. LedgerOK(records', funds', sent')
    <2>1. ASSUME NEW row \in records  PROVE funds'[row.address] = sent'[row.order]
      <3>1. row.address \in Addresses /\ row.order \in Orders
        BY DEF QiInv, TypeOK, Rows
      <3>2. funds[row.address] = sent[row.order]
        BY DEF QiInv, RecordsInv, LedgerOK
      <3>3. row.order = o <=> row.address = a  BY <1>2, <1>3
      <3> QED  BY <1>1, <3>1, <3>2, <3>3 DEF QiInv, TypeOK
    <2>2. ASSUME NEW b \in Addresses, \A row \in records : row.address # b
          PROVE  funds'[b] = 0
      BY <2>2, <1>1, <1>2 DEF QiInv, TypeOK, RecordsInv, LedgerOK
    <2>3. ASSUME NEW n \in Orders, \A row \in records : row.order # n
          PROVE  sent'[n] = 0
      BY <2>3, <1>1, <1>2 DEF QiInv, TypeOK, RecordsInv, LedgerOK
    <2> QED  BY <1>1, <2>1, <2>2, <2>3 DEF LedgerOK
  <1>6. \A row \in records : SettledPaid(row, sent')
    <2>1. \A row \in records : RowOK(row, records, sent)
      BY DEF QiInv, RecordsInv, RowOK, OnRecord
    <2>2. \A row \in records : RowOK(row, records', sent')
      BY <1>4, <2>1, RowKept DEF QiInv, TypeOK
    <2> QED  BY <2>2 DEF RowOK
  <1>7. RecordsInv'  BY <1>1, <1>5, <1>6 DEF QiInv, RecordsInv
  <1> QED  BY <1>1, <1>4, <1>7, GrownKept DEF QiInv, SweepsInv

LEMMA RestartInv == ASSUME QiInv, TypeOK', Restart  PROVE QiInv'
  <1>1. /\ UNCHANGED <<records, deliveries, shown, funds, sent>>
        /\ requests' = [r \in Requests |-> Idle]
        /\ sweeps' = [s \in Sweeps |-> Idle]
    BY DEF Restart, storeVars, ledgerVars
  <1>2. RequestsInv'  BY <1>1 DEF RequestsInv, RequestOK, Idle
  <1>3. SweepsInv'  BY <1>1 DEF SweepsInv, SweepOK
  <1> QED  BY <1>1, <1>2, <1>3, SameKept DEF QiInv

LEMMA QiInvStep == QiInv /\ [Next]_vars => QiInv'
  <1> SUFFICES ASSUME QiInv, [Next]_vars  PROVE QiInv'
    OBVIOUS
  <1>0. TypeOK'  BY TypeStep DEF QiInv
  <1>1. ASSUME BootStep \/ UNCHANGED vars  PROVE QiInv'
    <2>1. UNCHANGED <<requests, sweeps, records, deliveries, shown, funds, sent>>
      BY <1>1 DEF BootStep, BootList, BootAdvance, vars, processVars, storeVars, ledgerVars
    <2> QED  BY <1>0, <2>1, SameKept DEF QiInv, SweepsInv
  <1>2. ASSUME Restart  PROVE QiInv'  BY <1>0, <1>2, RestartInv
  <1>3. ASSUME NEW o \in Orders, NEW a \in Addresses, Send(o, a)  PROVE QiInv'
    BY <1>0, <1>3, SendInv
  <1>4. ASSUME NEW o \in Renamed, CustomerMeta(o)  PROVE QiInv'
    <2>1. UNCHANGED <<requests, sweeps, records, deliveries, shown, funds, sent>>
      BY <1>4 DEF CustomerMeta, processVars, ledgerVars
    <2> QED  BY <1>0, <2>1, SameKept DEF QiInv, SweepsInv
  <1> QED  BY <1>1, <1>2, <1>3, <1>4, RequestStepInv, SweepStepInv DEF Next

LEMMA QiInvInit == Init => QiInv
  <1> SUFFICES ASSUME Init  PROVE QiInv
    OBVIOUS
  <1>1. TypeOK  BY InitType
  <1>2. RecordsInv
    BY DEF Init, RecordsInv, OneAddressEach, LedgerOK
  <1>3. RequestsInv /\ SweepsInv
    BY DEF Init, RequestsInv, RequestOK, SweepsInv, SweepOK, Idle
  <1>4. ShownInv /\ DeliveriesInv  BY DEF Init, ShownInv, DeliveriesInv
  <1> QED  BY <1>1, <1>2, <1>3, <1>4 DEF QiInv

-----------------------------------------------------------------------------
(* The theorems.                                                           *)

\* The inductive invariant holds in every reachable state.
THEOREM QiCorrect == Spec => []QiInv
  BY QiInvInit, QiInvStep, PTL DEF Spec

\* An address a customer was shown is on record for that order and no other, however
\* requests race, derivations repeat and processes restart.
THEOREM ShownAddressWatchedAlways == Spec => []ShownAddressWatched
  <1>1. QiInv => ShownAddressWatched
    BY DEF QiInv, ShownInv, RecordsInv, OnRecord, OneAddressEach, ShownAddressWatched
  <1> QED  BY <1>1, QiCorrect, PTL

\* A delivery reports no more than the order's own customers have sent, and the order's
\* price at least.
THEOREM ConfirmedWasPaidAlways == Spec => []ConfirmedWasPaid
  <1>1. QiInv => ConfirmedWasPaid
    BY DEF QiInv, DeliveriesInv, PaidFor, ConfirmedWasPaid
  <1> QED  BY <1>1, QiCorrect, PTL

\* Sweeps that overlap file one delivery for an order.
THEOREM ConfirmedOnceAlways == Spec => []ConfirmedOnce
  <1>1. QiInv => ConfirmedOnce
    BY DEF QiInv, DeliveriesInv, ConfirmedOnce
  <1> QED  BY <1>1, QiCorrect, PTL

=============================================================================
