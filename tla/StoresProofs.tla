------------------------------ MODULE StoresProofs ----------------------------
(***************************************************************************)
(* Theorems about the two implementations of the stores.                   *)
(*                                                                         *)
(* Each group of tables has an inductive invariant of its own, which       *)
(* relates the rows of the two stores; a call to both then has the same    *)
(* answer and keeps that relation, or it is one of the calls that the two  *)
(* are known to treat differently.                                         *)
(***************************************************************************)
EXTENDS Stores, FiniteSetTheorems, SequenceTheorems, WellFoundedInduction, TLAPS

-----------------------------------------------------------------------------
(* The operators that the stores share.                                    *)

\* Of natural numbers there is a least one.
LEMMA NatMin ==
    ASSUME NEW T \in SUBSET Nat, T # {}
    PROVE  \E x \in T : \A y \in T : x <= y
  <1>1. IsWellFoundedOn(OpToRel(<, Nat), Nat)
    BY NatLessThanWellFounded
  <1>2. PICK x \in T : \A y \in T : ~ (<<y, x>> \in OpToRel(<, Nat))
    BY <1>1, WFMin
  <1>3. \A y \in T : ~ (y < x)
    BY <1>2 DEF OpToRel
  <1> QED BY <1>3

\* The first position chosen among several.
LEMMA LeastChosen ==
    ASSUME NEW T \in SUBSET Nat, T # {}
    PROVE  /\ J!Min(T) \in T /\ \A y \in T : J!Min(T) <= y
           /\ CF!Min(T) \in T /\ \A y \in T : CF!Min(T) <= y
  <1>1. \E x \in T : \A y \in T : x <= y
    BY NatMin
  <1>2. /\ J!Min(T) = CHOOSE x \in T : \A y \in T : x <= y
        /\ CF!Min(T) = CHOOSE x \in T : \A y \in T : x <= y
    BY DEF J!Min, CF!Min
  <1> QED BY <1>1, <1>2

\* The stores count with the same operator.
LEMMA SameCardinality ==
    ASSUME NEW S
    PROVE  /\ P!Cardinality(S) = Cardinality(S) /\ J!Cardinality(S) = Cardinality(S)
           /\ CP!Cardinality(S) = Cardinality(S) /\ CF!Cardinality(S) = Cardinality(S)
  BY DEF Cardinality, P!Cardinality, J!Cardinality, CP!Cardinality, CF!Cardinality

\* What a table is with a row, and without those of some keys.
Put(t, key, row) == [k \in DOMAIN t \cup {key} |-> IF k = key THEN row ELSE t[k]]

Cut(t, keys) == [k \in DOMAIN t \ keys |-> t[k]]

LEMMA SameTableOps ==
    ASSUME NEW t, NEW key, NEW row
    PROVE  /\ P!With(t, key, row) = Put(t, key, row) /\ P!Without(t, key) = Cut(t, key)
           /\ J!With(t, key, row) = Put(t, key, row) /\ J!Without(t, key) = Cut(t, key)
           /\ CP!With(t, key, row) = Put(t, key, row) /\ CP!Without(t, key) = Cut(t, key)
           /\ CF!With(t, key, row) = Put(t, key, row) /\ CF!Without(t, key) = Cut(t, key)
  BY DEF P!With, P!Without, J!With, J!Without, CP!With, CP!Without, CF!With, CF!Without, Put, Cut

\* A table: a function, of keys of K, with rows in R.
TableOf(t, K, R) ==
    /\ t = [k \in DOMAIN t |-> t[k]]
    /\ DOMAIN t \subseteq K
    /\ \A k \in DOMAIN t : t[k] \in R

LEMMA PutTable ==
    ASSUME NEW K, NEW R, NEW t, TableOf(t, K, R), NEW key \in K, NEW row \in R
    PROVE  TableOf(Put(t, key, row), K, R)
  BY DEF TableOf, Put

LEMMA CutTable ==
    ASSUME NEW K, NEW R, NEW t, TableOf(t, K, R), NEW keys
    PROVE  TableOf(Cut(t, keys), K, R)
  BY DEF TableOf, Cut

LEMMA CutNothing ==
    ASSUME NEW K, NEW R, NEW t, TableOf(t, K, R), NEW keys, keys \cap DOMAIN t = {}
    PROVE  Cut(t, keys) = t
  <1>1. DOMAIN t \ keys = DOMAIN t
    OBVIOUS
  <1> QED BY <1>1 DEF TableOf, Cut

-----------------------------------------------------------------------------
(* Shops, and the states of their installation: the same rows.             *)

LEMMA SameTables ==
    ASSUME NEW p, NEW j, Both(p, j), p = j
    PROVE  agree' /\ ~parted' /\ pg' = json' /\ group' = group /\ held' = held
  BY DEF Both, Differing

LEMMA SameShopCalls ==
    ASSUME NEW db, NEW shop, NEW row
    PROVE  /\ CP!setSession(db, shop, row) = CF!setSession(db, shop, row)
           /\ CP!putSettings(db, shop, row) = CF!putSettings(db, shop, row)
           /\ CP!removeSession(db, shop) = CF!removeSession(db, shop)
           /\ CP!clearSettings(db, shop) = CF!clearSettings(db, shop)
  BY DEF CP!setSession, CF!setSession, CP!putSettings,
         CF!putSettings, CP!removeSession, CF!removeSession, CP!clearSettings, CF!clearSettings,
         CP!Wrote, CF!Wrote, CP!With, CF!With, CP!Without, CF!Without

LEMMA ShopsAgree ==
    ASSUME ShopCalls, pg = json
    PROVE  agree' /\ ~parted' /\ pg' = json' /\ group' = group
  BY SameShopCalls, SameTables DEF ShopCalls

StateRows == [shop : ShopNames, at : Nat]

StatesRelated ==
    \E t : TableOf(t, Keys, StateRows) /\ pg = [states |-> t] /\ json = [states |-> t]

LEMMA PutStateSame ==
    ASSUME NEW t, NEW state, NEW row, state \notin DOMAIN t
    PROVE  LET gives == [db |-> [states |-> Put(t, state, row)], answer |-> "done"]
           IN  /\ CP!putState([states |-> t], state, row) = gives
               /\ CF!putState([states |-> t], state, row) = gives
  BY SameTableOps DEF CP!putState, CF!putState, CP!Wrote, CF!Wrote

LEMMA ConsumeStateSame ==
    ASSUME NEW t, NEW state, NEW shop, TableOf(t, Keys, StateRows),
           ~(state \in DOMAIN t /\ t[state].shop # shop)
    PROVE  LET answer == IF state \in DOMAIN t THEN t[state] ELSE Absent
               gives == [db |-> [states |-> Cut(t, {state})], answer |-> answer]
           IN  /\ CP!consumeState([states |-> t], state, shop) = gives
               /\ CF!consumeState([states |-> t], state, shop) = gives
  <1> DEFINE db == [states |-> t]
             answer == IF state \in DOMAIN t THEN t[state] ELSE Absent
  <1>1. CP!consumeState(db, state, shop) =
            IF state \in DOMAIN t /\ t[state].shop = shop
            THEN [db |-> [states |-> Cut(t, {state})], answer |-> t[state]]
            ELSE [db |-> db, answer |-> Absent]
    BY SameTableOps DEF CP!consumeState, CP!Wrote
  <1>2. CF!consumeState(db, state, shop) =
            [db |-> [states |-> Cut(t, {state})],
             answer |-> IF state \notin DOMAIN t THEN Absent
                        ELSE IF t[state] = Absent \/ t[state].shop # shop THEN Absent
                        ELSE t[state]]
    BY SameTableOps DEF CF!consumeState, CF!Wrote, CF!Row
  <1>3. CASE state \in DOMAIN t
    BY <1>1, <1>2, <1>3
  <1>4. CASE state \notin DOMAIN t
    <2>1. {state} \cap DOMAIN t = {}
      BY <1>4
    <2>2. Cut(t, {state}) = t
      BY <2>1, CutNothing
    <2> QED BY <1>1, <1>2, <1>4, <2>2
  <1> QED BY <1>3, <1>4

LEMMA PruneStatesSame ==
    ASSUME NEW t, TableOf(t, Keys, StateRows), NEW db, db = [states |-> t],
           NEW now \in Nat, StateLife \in Nat
    PROVE  LET old == {s \in DOMAIN t : t[s].at + StateLife < now}
               gives == [db |-> [states |-> Cut(t, old)], answer |-> Cardinality(old)]
           IN  CP!pruneStates(db, StateLife, now) = gives /\ CF!pruneStates(db, StateLife, now) = gives
  <1> DEFINE old == {s \in DOMAIN t : t[s].at + StateLife < now}
             inPg == {s \in DOMAIN db.states : db.states[s].at + StateLife < now}
             inFile == {s \in DOMAIN db.states : db.states[s].at < now - StateLife}
  <1>1. db.states = t
    OBVIOUS
  <1>2. inPg = old /\ inFile = old
    BY <1>1 DEF TableOf, StateRows
  <1>3. CP!pruneStates(db, StateLife, now) =
             [db |-> [db EXCEPT !.states = CP!Without(@, inPg)], answer |-> Cardinality(inPg)]
    BY SameCardinality DEF CP!pruneStates, CP!Wrote
  <1>4. CF!pruneStates(db, StateLife, now) =
             [db |-> [db EXCEPT !.states = CF!Without(@, inFile)], answer |-> Cardinality(inFile)]
    BY SameCardinality DEF CF!pruneStates, CF!Wrote
  <1> HIDE DEF old, inPg, inFile
  <1>5. [db EXCEPT !.states = Cut(t, old)] = [states |-> Cut(t, old)]
    OBVIOUS
  <1> QED BY <1>1, <1>2, <1>3, <1>4, <1>5, SameTableOps DEF old

\* What the answers and the rows are after a call that is not one of those treated differently.
LEMMA Called ==
    ASSUME NEW p, NEW j, NEW unlike, Differing(p, j, unlike), ~parted'
    PROVE  /\ ~unlike
           /\ agree' = (p.answer = j.answer) /\ pg' = p.db /\ json' = j.db
           /\ group' = group /\ clock' = clock
  BY DEF Differing

LEMMA CalledBoth ==
    ASSUME NEW p, NEW j, Both(p, j)
    PROVE  /\ agree' = (p.answer = j.answer) /\ pg' = p.db /\ json' = j.db
           /\ group' = group /\ clock' = clock /\ ~parted' /\ held' = held
  BY DEF Differing, Both

LEMMA StatesAgree ==
    ASSUME StateCalls, StatesRelated, StoresAssumption, clock \in Nat, ~parted'
    PROVE  agree' /\ StatesRelated'
  <1>1. PICK t : TableOf(t, Keys, StateRows) /\ pg = [states |-> t] /\ json = [states |-> t]
    BY DEF StatesRelated
  <1> DEFINE db == [states |-> t]
  <1>2. StateLife \in Nat
    BY DEF StoresAssumption
  <1>3. ASSUME NEW p, NEW j, NEW u, TableOf(u, Keys, StateRows), p = j, p.db = [states |-> u],
               NEW unlike, Differing(p, j, unlike)
        PROVE  agree' /\ StatesRelated'
    BY <1>3, Called DEF StatesRelated
  <1>4. ASSUME NEW state \in Keys, NEW shop \in ShopNames, state \notin DOMAIN t,
               Both(CP!putState(db, state, [shop |-> shop, at |-> clock]),
                    CF!putState(db, state, [shop |-> shop, at |-> clock]))
        PROVE  agree' /\ StatesRelated'
    <2> DEFINE row == [shop |-> shop, at |-> clock]
    <2>1. row \in StateRows
      BY DEF StateRows
    <2>2. TableOf(Put(t, state, row), Keys, StateRows)
      BY <1>1, <2>1, PutTable
    <2> HIDE DEF row
    <2>3. /\ CP!putState(db, state, row) =
                 [db |-> [states |-> Put(t, state, row)], answer |-> "done"]
          /\ CF!putState(db, state, row) =
                 [db |-> [states |-> Put(t, state, row)], answer |-> "done"]
      BY <1>4, PutStateSame
    <2>4. Both(CP!putState(db, state, row), CF!putState(db, state, row))
      BY <1>4 DEF row
    <2> HIDE DEF db
    <2> QED BY <1>3, <2>2, <2>3, <2>4 DEF Both
  <1>5. ASSUME NEW state \in Keys, NEW shop \in ShopNames,
               Differing(CP!consumeState(db, state, shop), CF!consumeState(db, state, shop),
                         state \in DOMAIN t /\ t[state].shop # shop)
        PROVE  agree' /\ StatesRelated'
    <2>1. ~(state \in DOMAIN t /\ t[state].shop # shop)
      BY <1>5, Called
    <2> DEFINE answer == IF state \in DOMAIN t THEN t[state] ELSE Absent
               gives == [db |-> [states |-> Cut(t, {state})], answer |-> answer]
    <2>2. /\ CP!consumeState(db, state, shop) = gives
          /\ CF!consumeState(db, state, shop) = gives
      BY <1>1, <2>1, ConsumeStateSame
    <2>3. TableOf(Cut(t, {state}), Keys, StateRows)
      BY <1>1, CutTable
    <2> HIDE DEF db, answer
    <2> QED BY <1>3, <1>5, <2>2, <2>3
  <1>6. ASSUME Both(CP!pruneStates(db, StateLife, clock), CF!pruneStates(db, StateLife, clock))
        PROVE  agree' /\ StatesRelated'
    <2> DEFINE old == {s \in DOMAIN t : t[s].at + StateLife < clock}
               gives == [db |-> [states |-> Cut(t, old)], answer |-> Cardinality(old)]
    <2>1. TableOf(Cut(t, old), Keys, StateRows)
      BY <1>1, CutTable
    <2>2. CP!pruneStates(db, StateLife, clock) = gives /\ CF!pruneStates(db, StateLife, clock) = gives
      BY <1>1, <1>2, PruneStatesSame
    <2> HIDE DEF old, db
    <2> QED BY <1>3, <1>6, <2>1, <2>2 DEF Both
  <1> QED BY <1>1, <1>4, <1>5, <1>6 DEF StateCalls

-----------------------------------------------------------------------------
(* Login nonces.                                                           *)

NonceRows == [address : Owners, expires : Nat]

NonceTable(t) == [nonces |-> t]

NoncesRelated ==
    \E t : TableOf(t, Keys, NonceRows) /\ pg = NonceTable(t) /\ json = NonceTable(t)

LEMMA CreateNonceSame ==
    ASSUME NEW t, NEW db, db = NonceTable(t), NEW nonce, NEW row, NEW now, NEW u,
           u = Put(Cut(t, {n \in DOMAIN t : t[n].expires <= now}), nonce, row)
    PROVE  /\ P!createNonce(db, nonce, row, now) = [db |-> NonceTable(u), answer |-> "done"]
           /\ J!createNonce(db, nonce, row, now) = [db |-> NonceTable(u), answer |-> "done"]
  <1> DEFINE expired == {n \in DOMAIN t : t[n].expires <= now}
             inDb == {n \in DOMAIN db.nonces : db.nonces[n].expires <= now}
  <1>1. db.nonces = t
    BY DEF NonceTable
  <1>2. inDb = expired
    BY <1>1
  <1>3. P!createNonce(db, nonce, row, now) =
            [db |-> [db EXCEPT !.nonces = P!With(P!Without(@, inDb), nonce, row)],
             answer |-> "done"]
    BY DEF P!createNonce, P!Wrote
  <1>4. J!createNonce(db, nonce, row, now) =
            [db |-> [db EXCEPT !.nonces = J!With(J!Without(@, inDb), nonce, row)],
             answer |-> "done"]
    BY DEF J!createNonce, J!Wrote
  <1>5. u = Put(Cut(t, expired), nonce, row)
    OBVIOUS
  <1>6. [db EXCEPT !.nonces = u] = NonceTable(u)
    BY DEF NonceTable
  <1>7. P!With(P!Without(t, expired), nonce, row) = u /\ J!With(J!Without(t, expired), nonce, row) = u
    BY <1>5, SameTableOps
  <1> HIDE DEF expired, inDb
  <1>8. P!createNonce(db, nonce, row, now) = [db |-> NonceTable(u), answer |-> "done"]
    BY <1>1, <1>2, <1>3, <1>6, <1>7
  <1>9. J!createNonce(db, nonce, row, now) = [db |-> NonceTable(u), answer |-> "done"]
    BY <1>1, <1>2, <1>4, <1>6, <1>7
  <1> QED BY <1>8, <1>9

LEMMA ConsumeNonceSame ==
    ASSUME NEW t, TableOf(t, Keys, NonceRows), NEW nonce, NEW now
    PROVE  LET answer == IF nonce \notin DOMAIN t \/ t[nonce].expires <= now THEN Absent
                         ELSE t[nonce].address
               gives == [db |-> NonceTable(Cut(t, {nonce})), answer |-> answer]
           IN  /\ P!consumeNonce(NonceTable(t), nonce, now) = gives
               /\ J!consumeNonce(NonceTable(t), nonce, now) = gives
  <1> DEFINE db == NonceTable(t)
             answer == IF nonce \notin DOMAIN t \/ t[nonce].expires <= now THEN Absent
                       ELSE t[nonce].address
  <1>1. P!consumeNonce(db, nonce, now) = [db |-> NonceTable(Cut(t, {nonce})), answer |-> answer]
    BY SameTableOps DEF P!consumeNonce, P!Wrote, NonceTable
  <1>2. J!consumeNonce(db, nonce, now) =
            IF nonce \notin DOMAIN t THEN [db |-> db, answer |-> Absent]
            ELSE [db |-> NonceTable(Cut(t, {nonce})), answer |-> answer]
    BY SameTableOps DEF J!consumeNonce, J!Wrote, NonceTable
  <1>3. CASE nonce \notin DOMAIN t
    <2>1. {nonce} \cap DOMAIN t = {}
      BY <1>3
    <2>2. Cut(t, {nonce}) = t
      BY <2>1, CutNothing
    <2> QED BY <1>1, <1>2, <1>3, <2>2
  <1> QED BY <1>1, <1>2, <1>3

LEMMA NoncesAgree ==
    ASSUME NonceCalls, NoncesRelated, StoresAssumption, clock \in Nat
    PROVE  agree' /\ NoncesRelated'
  <1>1. PICK t : TableOf(t, Keys, NonceRows) /\ pg = NonceTable(t) /\ json = NonceTable(t)
    BY DEF NoncesRelated
  <1> DEFINE db == NonceTable(t)
  <1>3. ASSUME NEW p, NEW j, NEW u, TableOf(u, Keys, NonceRows), p = j, p.db = NonceTable(u),
               Both(p, j)
        PROVE  agree' /\ NoncesRelated'
    BY <1>3, CalledBoth DEF NoncesRelated
  <1>4. ASSUME NEW id \in Keys, NEW m \in Owners,
               Both(P!createNonce(db, id, [address |-> m, expires |-> clock + SessionLife], clock),
                    J!createNonce(db, id, [address |-> m, expires |-> clock + SessionLife], clock))
        PROVE  agree' /\ NoncesRelated'
    <2> DEFINE row == [address |-> m, expires |-> clock + SessionLife]
               u == Put(Cut(t, {n \in DOMAIN t : t[n].expires <= clock}), id, row)
    <2>1. row \in NonceRows
      BY DEF NonceRows, StoresAssumption
    <2>2. TableOf(u, Keys, NonceRows)
      BY <1>1, <2>1, PutTable, CutTable
    <2>3. u = Put(Cut(t, {n \in DOMAIN t : t[n].expires <= clock}), id, row) /\ db = NonceTable(t)
      OBVIOUS
    <2>4. Both(P!createNonce(db, id, row, clock), J!createNonce(db, id, row, clock))
      BY <1>4
    <2> HIDE DEF row, db, u
    <2>5. /\ P!createNonce(db, id, row, clock) = [db |-> NonceTable(u), answer |-> "done"]
          /\ J!createNonce(db, id, row, clock) = [db |-> NonceTable(u), answer |-> "done"]
      BY <2>3, CreateNonceSame
    <2> QED BY <1>3, <2>2, <2>4, <2>5
  <1>5. ASSUME NEW id \in Keys, Both(P!consumeNonce(db, id, clock), J!consumeNonce(db, id, clock))
        PROVE  agree' /\ NoncesRelated'
    <2> DEFINE answer == IF id \notin DOMAIN t \/ t[id].expires <= clock THEN Absent
                         ELSE t[id].address
               gives == [db |-> NonceTable(Cut(t, {id})), answer |-> answer]
    <2>1. P!consumeNonce(db, id, clock) = gives /\ J!consumeNonce(db, id, clock) = gives
      BY <1>1, ConsumeNonceSame
    <2>2. TableOf(Cut(t, {id}), Keys, NonceRows)
      BY <1>1, CutTable
    <2> HIDE DEF db, answer
    <2> QED BY <1>3, <1>5, <2>1, <2>2
  <1> QED BY <1>1, <1>4, <1>5 DEF NonceCalls

-----------------------------------------------------------------------------
(* Gateway orders that wait for the shop's customer.                       *)

PendingRows ==
    [shop : ShopNames, order : {"1", "2"}, status : {"awaiting", "paid", "expired"},
     expires : Nat \ {0}]

\* s lists what is in D, in some order.
Lists(s, D) == s \in Seq(D) /\ \A d \in D : \E i \in DOMAIN s : s[i] = d

\* One more of them.
Longer(s, x) == Append(s, x)

LEMMA ListsMore ==
    ASSUME NEW D, NEW s, Lists(s, D), NEW x
    PROVE  Lists(Append(s, x), D \cup {x})
  <1> DEFINE E == D \cup {x}
             r == Append(s, x)
  <1>1. s \in Seq(E) /\ s \in Seq(D)
    BY DEF Lists
  <1>2. /\ r \in Seq(E) /\ Len(r) = Len(s) + 1 /\ r[Len(s) + 1] = x
        /\ \A i \in 1 .. Len(s) : r[i] = s[i]
    BY <1>1
  <1>3. DOMAIN s = 1 .. Len(s) /\ DOMAIN r = 1 .. Len(r) /\ Len(s) \in Nat
    BY <1>1, <1>2
  <1>4. ASSUME NEW d \in E
        PROVE  \E i \in DOMAIN r : r[i] = d
    <2>1. CASE d = x
      BY <1>2, <1>3, <2>1
    <2>2. CASE d # x
      <3>1. PICK i \in DOMAIN s : s[i] = d
        BY <2>2 DEF Lists
      <3> QED BY <1>2, <1>3, <3>1
    <2> QED BY <2>1, <2>2
  <1> QED BY <1>2, <1>4 DEF Lists

LEMMA ListsFinite ==
    ASSUME NEW D, NEW s, Lists(s, D)
    PROVE  IsFiniteSet(D)
  BY DEF Lists, IsFiniteSet

PgPending(t) == [pending |-> t]

FilePending(t, s) == [pending |-> t, order |-> s]

PendingRelated ==
    \E t, s :
        /\ TableOf(t, Payments, PendingRows)
        /\ Lists(s, DOMAIN t)
        /\ pg = PgPending(t)
        /\ json = FilePending(t, s)

LEMMA UpsertPendingPg ==
    ASSUME NEW t, NEW id, id \notin DOMAIN t, NEW row
    PROVE  CP!upsertPending(PgPending(t), id, row) =
               [db |-> PgPending(Put(t, id, row)), answer |-> "done"]
  <1>1. CP!Row(t, id) = Absent
    BY DEF CP!Row
  <1> QED BY <1>1, SameTableOps DEF CP!upsertPending, CP!Wrote, PgPending

LEMMA UpsertPendingFile ==
    ASSUME NEW t, NEW s, NEW e, NEW id, NEW row, e = FilePending(t, s), id \notin DOMAIN t
    PROVE  CF!upsertPending(e, id, row) =
               [db |-> FilePending(Put(t, id, row), Longer(s, id)), answer |-> "done"]
  <1> DEFINE more == Longer(s, id)
  <1>0. more = Append(s, id)
    BY DEF Longer
  <1>1. CF!upsertPending(e, id, row) =
            [db |-> [e EXCEPT !.pending = Put(t, id, row), !.order = more], answer |-> "done"]
    BY <1>0, SameTableOps DEF CF!upsertPending, CF!Wrote, FilePending
  <1> HIDE DEF more
  <1>2. ASSUME NEW x, NEW y
        PROVE  [e EXCEPT !.pending = x, !.order = y] = FilePending(x, y)
    <2>1. [e EXCEPT !.pending = x, !.order = y] = [[e EXCEPT !.pending = x] EXCEPT !.order = y]
      OBVIOUS
    <2>2. [e EXCEPT !.pending = x] = [pending |-> x, order |-> s]
      BY DEF FilePending
    <2>3. [[pending |-> x, order |-> s] EXCEPT !.order = y] = [pending |-> x, order |-> y]
      OBVIOUS
    <2> QED BY <2>1, <2>2, <2>3 DEF FilePending
  <1> QED BY <1>1, <1>2 DEF more

LEMMA MarkPaidSame ==
    ASSUME NEW t, NEW s, NEW id
    PROVE  LET row == [t[id] EXCEPT !.status = "paid"]
               paid == [t EXCEPT ![id] = row]
           IN  IF id \in DOMAIN t
               THEN /\ CP!markPaid(PgPending(t), id) = [db |-> PgPending(paid), answer |-> row]
                    /\ CF!markPaid(FilePending(t, s), id) =
                           [db |-> FilePending(paid, s), answer |-> row]
               ELSE /\ CP!markPaid(PgPending(t), id) = [db |-> PgPending(t), answer |-> Absent]
                    /\ CF!markPaid(FilePending(t, s), id) =
                           [db |-> FilePending(t, s), answer |-> Absent]
  BY DEF CP!markPaid, CF!markPaid, CP!Wrote, CF!Wrote, PgPending, FilePending

LEMMA SweepSame ==
    ASSUME NEW t, NEW s, NEW now \in Nat, NEW d, NEW e, d = PgPending(t), e = FilePending(t, s),
           TableOf(t, Payments, PendingRows)
    PROVE  \E u, n :
               /\ TableOf(u, Payments, PendingRows) /\ DOMAIN u = DOMAIN t
               /\ CP!sweepExpired(d, now) = [db |-> PgPending(u), answer |-> n]
               /\ CF!sweepExpired(e, now) = [db |-> FilePending(u, s), answer |-> n]
  <1>0. d = PgPending(t) /\ e = FilePending(t, s)
    OBVIOUS
  <1> DEFINE lapsed == {id \in DOMAIN t : t[id].status = "awaiting" /\ t[id].expires <= now}
             swept == [id \in DOMAIN t |->
                          IF id \in lapsed THEN [t[id] EXCEPT !.status = "expired"] ELSE t[id]]
             inPg == {id \in DOMAIN d.pending :
                         d.pending[id].status = "awaiting" /\ d.pending[id].expires \in 1..now}
             inFile == {id \in DOMAIN e.pending :
                           e.pending[id].status = "awaiting" /\ e.pending[id].expires <= now}
             sweptPg == [id \in DOMAIN d.pending |->
                            IF id \in inPg THEN [d.pending[id] EXCEPT !.status = "expired"]
                            ELSE d.pending[id]]
             sweptFile == [id \in DOMAIN e.pending |->
                              [e.pending[id] EXCEPT !.status =
                                  IF id \in inFile THEN "expired" ELSE e.pending[id].status]]
  <1>1. d.pending = t /\ e.pending = t
    BY <1>0 DEF PgPending, FilePending
  <1>2. inPg = lapsed /\ inFile = lapsed
    BY <1>1 DEF TableOf, PendingRows
  <1>3. CP!sweepExpired(d, now) =
            [db |-> [d EXCEPT !.pending = sweptPg], answer |-> Cardinality(inPg)]
    BY SameCardinality DEF CP!sweepExpired, CP!Wrote
  <1>4. CF!sweepExpired(e, now) =
            [db |-> [e EXCEPT !.pending = sweptFile], answer |-> Cardinality(inFile)]
    BY SameCardinality DEF CF!sweepExpired, CF!Wrote
  <1>5. sweptPg = swept
    BY <1>1, <1>2
  <1>6. \A id \in DOMAIN t : [t[id] EXCEPT !.status = t[id].status] = t[id]
    BY DEF TableOf, PendingRows
  <1>7. sweptFile = swept
    BY <1>1, <1>2, <1>6
  <1>8. TableOf(swept, Payments, PendingRows) /\ DOMAIN swept = DOMAIN t
    BY DEF TableOf, PendingRows
  <1> HIDE DEF lapsed, swept, inPg, inFile, sweptPg, sweptFile
  <1>9. /\ [d EXCEPT !.pending = swept] = PgPending(swept)
        /\ [e EXCEPT !.pending = swept] = FilePending(swept, s)
    BY <1>0 DEF PgPending, FilePending
  <1>10. CP!sweepExpired(d, now) = [db |-> PgPending(swept), answer |-> Cardinality(lapsed)]
    BY <1>2, <1>3, <1>5, <1>9
  <1>11. CF!sweepExpired(e, now) =
             [db |-> FilePending(swept, s), answer |-> Cardinality(lapsed)]
    BY <1>2, <1>4, <1>7, <1>9
  <1> QED BY <1>8, <1>10, <1>11

LEMMA PendingAgree ==
    ASSUME PendingCalls, PendingRelated, StoresAssumption, clock \in Nat
    PROVE  agree' /\ PendingRelated'
  <1>1. PICK t, s : /\ TableOf(t, Payments, PendingRows) /\ Lists(s, DOMAIN t)
                    /\ pg = PgPending(t) /\ json = FilePending(t, s)
    BY DEF PendingRelated
  <1> DEFINE d == PgPending(t)
             e == FilePending(t, s)
  <1>2. ASSUME NEW p, NEW j, NEW u, NEW r, TableOf(u, Payments, PendingRows), Lists(r, DOMAIN u),
               p.answer = j.answer, p.db = PgPending(u), j.db = FilePending(u, r),
               Both(p, j)
        PROVE  agree' /\ PendingRelated'
    <2>1. agree' /\ pg' = PgPending(u) /\ json' = FilePending(u, r)
      BY <1>2, CalledBoth
    <2> QED BY <1>2, <2>1 DEF PendingRelated
  <1>3. ASSUME NEW id \in Payments \ DOMAIN t, NEW shop \in ShopNames, NEW order \in {"1", "2"},
               NEW life \in 1 .. 2,
               LET row == [shop |-> shop, order |-> order, status |-> "awaiting",
                           expires |-> clock + life]
               IN  Both(CP!upsertPending(d, id, row), CF!upsertPending(e, id, row))
        PROVE  agree' /\ PendingRelated'
    <2> DEFINE row == [shop |-> shop, order |-> order, status |-> "awaiting",
                       expires |-> clock + life]
    <2>1. row \in PendingRows
      BY DEF PendingRows
    <2>2. TableOf(Put(t, id, row), Payments, PendingRows)
      BY <1>1, <2>1, PutTable
    <2>3. Lists(Append(s, id), DOMAIN Put(t, id, row))
      BY <1>1, ListsMore DEF Put
    <2>4. Both(CP!upsertPending(d, id, row), CF!upsertPending(e, id, row))
      BY <1>3
    <2> HIDE DEF row
    <2>5. id \notin DOMAIN t
      OBVIOUS
    <2>6. CP!upsertPending(d, id, row) = [db |-> PgPending(Put(t, id, row)), answer |-> "done"]
      BY <2>5, UpsertPendingPg
    <2>7. Lists(Longer(s, id), DOMAIN Put(t, id, row))
      BY <2>3 DEF Longer
    <2>8. CF!upsertPending(e, id, row) =
              [db |-> FilePending(Put(t, id, row), Longer(s, id)), answer |-> "done"]
      BY <2>5, UpsertPendingFile
    <2> HIDE DEF d, e
    <2> QED BY <1>2, <2>2, <2>4, <2>6, <2>7, <2>8
  <1>4. ASSUME NEW id \in Payments, Both(CP!markPaid(d, id), CF!markPaid(e, id))
        PROVE  agree' /\ PendingRelated'
    <2> DEFINE row == [t[id] EXCEPT !.status = "paid"]
               paid == [t EXCEPT ![id] = row]
    <2>1. CASE id \in DOMAIN t
      <3>1. row \in PendingRows
        BY <1>1, <2>1 DEF TableOf, PendingRows
      <3>2. TableOf(paid, Payments, PendingRows) /\ DOMAIN paid = DOMAIN t
        BY <1>1, <3>1 DEF TableOf
      <3>3. /\ CP!markPaid(d, id) = [db |-> PgPending(paid), answer |-> row]
            /\ CF!markPaid(e, id) = [db |-> FilePending(paid, s), answer |-> row]
        BY <2>1, MarkPaidSame
      <3> HIDE DEF d, e, paid, row
      <3> QED BY <1>1, <1>2, <1>4, <3>2, <3>3
    <2>2. CASE id \notin DOMAIN t
      <3>1. /\ CP!markPaid(d, id) = [db |-> d, answer |-> Absent]
            /\ CF!markPaid(e, id) = [db |-> e, answer |-> Absent]
        BY <2>2, MarkPaidSame
      <3> QED BY <1>1, <1>2, <1>4, <3>1
    <2> QED BY <2>1, <2>2
  <1>5. ASSUME Both(CP!sweepExpired(d, clock), CF!sweepExpired(e, clock))
        PROVE  agree' /\ PendingRelated'
    <2> DEFINE p == CP!sweepExpired(d, clock)
               j == CF!sweepExpired(e, clock)
    <2>1. Both(p, j) /\ d = PgPending(t) /\ e = FilePending(t, s)
      BY <1>5
    <2> HIDE DEF d, e
    <2>2. \E u, n : /\ TableOf(u, Payments, PendingRows) /\ DOMAIN u = DOMAIN t
                    /\ p = [db |-> PgPending(u), answer |-> n]
                    /\ j = [db |-> FilePending(u, s), answer |-> n]
      BY <1>1, <2>1, SweepSame
    <2>3. PICK u, n : /\ TableOf(u, Payments, PendingRows) /\ DOMAIN u = DOMAIN t
                      /\ p = [db |-> PgPending(u), answer |-> n]
                      /\ j = [db |-> FilePending(u, s), answer |-> n]
      BY <2>2
    <2> HIDE DEF p, j
    <2>4. Lists(s, DOMAIN u) /\ p.answer = j.answer /\ p.db = PgPending(u) /\ j.db = FilePending(u, s)
      BY <1>1, <2>3
    <2>5. agree' /\ pg' = PgPending(u) /\ json' = FilePending(u, s)
      BY <2>1, <2>4, CalledBoth
    <2>6. TableOf(u, Payments, PendingRows) /\ Lists(s, DOMAIN u)
      BY <2>3, <2>4
    <2> HIDE <2>1, <2>2, <2>3, <2>4
    <2> QED BY <2>5, <2>6 DEF PendingRelated
  <1>6. pg.pending = t
    BY <1>1 DEF PgPending
  <1>7. pg = d /\ json = e
    BY <1>1
  <1> HIDE DEF d, e
  <1> QED BY <1>3, <1>4, <1>5, <1>6, <1>7 DEF PendingCalls

\* What both read: the order of a shop has one row, the one that both find.
LEMMA PendingSame ==
    ASSUME PendingRelated
    PROVE  SamePending
  <1>1. PICK t, s : /\ TableOf(t, Payments, PendingRows) /\ Lists(s, DOMAIN t)
                    /\ pg = PgPending(t) /\ json = FilePending(t, s)
    BY DEF PendingRelated
  <1>2. pg.pending = t /\ json.pending = t /\ json.order = s
    BY <1>1 DEF PgPending, FilePending
  <1>3. IsFiniteSet(DOMAIN t)
    BY <1>1, ListsFinite
  <1>4. \A id \in Payments : CP!isLive(pg, id, clock) = CF!isLive(json, id, clock)
    BY <1>2 DEF CP!isLive, CF!isLive
  <1>5. ASSUME NEW id \in DOMAIN t,
               Cardinality({k \in DOMAIN t : t[k].order = t[id].order}) = 1
        PROVE  /\ CP!getPendingForOrder(pg, t[id].order) = CF!getPendingForOrder(json, t[id].order)
               /\ \A shop \in ShopNames :
                     CP!getPendingForShopOrder(pg, shop, t[id].order) =
                     CF!getPendingForShopOrder(json, shop, t[id].order)
    <2> DEFINE ofOrder == {k \in DOMAIN t : t[k].order = t[id].order}
    <2>1. ofOrder = {id}
      <3>1. IsFiniteSet(ofOrder)
        BY <1>3, FS_Subset
      <3>2. PICK x : ofOrder = {x}
        BY <1>5, <3>1, FS_Singleton
      <3> QED BY <3>2
    <2>2. s \in Seq(DOMAIN t) /\ \E i \in DOMAIN s : s[i] = id
      BY <1>1 DEF Lists
    <2>3. DOMAIN s \subseteq Nat /\ \A i \in DOMAIN s : s[i] \in DOMAIN t
      BY <2>2
    <2>4. /\ id \in DOMAIN pg.pending /\ pg.pending[id] = t[id]
          /\ \A k \in DOMAIN pg.pending : pg.pending[k].order = t[id].order <=> k = id
      BY <1>2, <2>1
    <2>5. /\ \A i \in DOMAIN json.order : i \in Nat /\ i # 0
          /\ \E i \in DOMAIN json.order : json.order[i] = id
      BY <1>2, <2>2
    <2>6. \A i \in DOMAIN json.order :
             json.pending[json.order[i]].order = t[id].order <=> json.order[i] = id
      BY <1>2, <2>1, <2>3
    <2>7. json.pending[id] = t[id]
      BY <1>2
    <2>8. CP!getPendingForOrder(pg, t[id].order) = id
      <3>1. {k \in DOMAIN pg.pending : pg.pending[k].order = t[id].order} = {id}
        BY <2>4
      <3> QED BY <3>1 DEF CP!getPendingForOrder
    <2>9. CF!getPendingForOrder(json, t[id].order) = id
      <3> DEFINE found == {i \in DOMAIN json.order : json.pending[json.order[i]].order = t[id].order}
      <3>1. found \in SUBSET Nat /\ found # {}
        BY <2>5, <2>6
      <3>2. \A i \in found : i # 0 /\ json.order[i] = id
        BY <2>5, <2>6
      <3>3. CF!getPendingForOrder(json, t[id].order) =
                IF (IF found = {} THEN 0 ELSE CF!Min(found)) = 0 THEN Absent
                ELSE json.order[IF found = {} THEN 0 ELSE CF!Min(found)]
        BY DEF CF!getPendingForOrder, CF!FirstWhere
      <3> HIDE DEF found
      <3>4. CF!Min(found) \in found
        BY <3>1, LeastChosen
      <3> QED BY <3>1, <3>2, <3>3, <3>4
    <2>10. ASSUME NEW shop \in ShopNames
           PROVE  CP!getPendingForShopOrder(pg, shop, t[id].order) =
                      CF!getPendingForShopOrder(json, shop, t[id].order)
      <3> DEFINE rows == {k \in DOMAIN pg.pending :
                             pg.pending[k].shop = shop /\ pg.pending[k].order = t[id].order}
                 found == {i \in DOMAIN json.order :
                              /\ json.pending[json.order[i]].shop = shop
                              /\ json.pending[json.order[i]].order = t[id].order}
      <3>1. CP!getPendingForShopOrder(pg, shop, t[id].order) =
                IF rows = {} THEN Absent ELSE CHOOSE k \in rows : TRUE
        BY DEF CP!getPendingForShopOrder
      <3>2. CF!getPendingForShopOrder(json, shop, t[id].order) =
                IF (IF found = {} THEN 0 ELSE CF!Min(found)) = 0 THEN Absent
                ELSE json.order[IF found = {} THEN 0 ELSE CF!Min(found)]
        BY DEF CF!getPendingForShopOrder, CF!FirstWhere
      <3>3. CASE t[id].shop = shop
        <4>1. rows = {id}
          BY <2>4, <3>3
        <4>2. found \in SUBSET Nat /\ found # {}
          BY <2>5, <2>6, <2>7, <3>3
        <4>3. \A i \in found : i # 0 /\ json.order[i] = id
          BY <2>5, <2>6
        <4> HIDE DEF rows, found
        <4>4. CF!Min(found) \in found
          BY <4>2, LeastChosen
        <4> QED BY <3>1, <3>2, <4>1, <4>2, <4>3, <4>4
      <3>4. CASE t[id].shop # shop
        <4>1. rows = {}
          BY <2>4, <3>4
        <4>2. found = {}
          BY <2>6, <2>7, <3>4
        <4> HIDE DEF rows, found
        <4> QED BY <3>1, <3>2, <4>1, <4>2
      <3> QED BY <3>3, <3>4
    <2> QED BY <2>8, <2>9, <2>10
  <1> QED BY <1>2, <1>4, <1>5 DEF SamePending

-----------------------------------------------------------------------------
(* The metadata of an order, and Qi orders.                                *)

MetaRows ==
    [merchant : {"m", "other"}, name : {Absent, "n"}, slug : {Absent, "s"},
     reference : {Absent, "r"}, chain : Networks]

QiRows == [address : Owners, settled : BOOLEAN]

OrderTables(m, q) == [meta |-> m, qiOrders |-> q]

OrdersRelated ==
    \E m, q :
        /\ m = Absent \/ m \in MetaRows
        /\ TableOf(q, Payments, QiRows)
        /\ pg = OrderTables(m, q)
        /\ json = OrderTables(m, q)

\* What is stored is the same row, unless the new one is of another merchant or lacks the name.
LEMMA SaveOrderMetaSame ==
    ASSUME NEW m, m = Absent \/ m \in MetaRows, NEW q, NEW meta \in MetaRows,
           ~(m # Absent /\ (m.merchant # meta.merchant \/ (m.name # Absent /\ meta.name = Absent)))
    PROVE  \E new \in MetaRows :
               /\ P!saveOrderMeta(OrderTables(m, q), meta) =
                      [db |-> OrderTables(new, q), answer |-> "done"]
               /\ J!saveOrderMeta(OrderTables(m, q), meta) =
                      [db |-> OrderTables(new, q), answer |-> "done"]
  <1> DEFINE db == OrderTables(m, q)
             kept == m # Absent /\ m.reference # Absent /\ meta.reference = Absent
             reference == IF kept THEN m.reference ELSE meta.reference
             new == [merchant |-> meta.merchant, name |-> meta.name, slug |-> meta.slug,
                     reference |-> reference, chain |-> meta.chain]
             n == P!Coalesce(meta.name, m.name)
             r == P!Coalesce(meta.reference, m.reference)
             merged == [meta EXCEPT !.merchant = m.merchant, !.name = n, !.reference = r]
             inPg == IF m = Absent THEN meta ELSE merged
             inFile == IF kept THEN [meta EXCEPT !.reference = m.reference] ELSE meta
  <1>1. db.meta = m
    BY DEF OrderTables
  <1>2. ASSUME NEW x
        PROVE  [db EXCEPT !.meta = x] = OrderTables(x, q)
    BY DEF OrderTables
  <1>3. meta = [merchant |-> meta.merchant, name |-> meta.name, slug |-> meta.slug,
                reference |-> meta.reference, chain |-> meta.chain]
    BY DEF MetaRows
  <1>4. new \in MetaRows
    BY DEF MetaRows
  <1>5. inPg = new
    <2>1. CASE m = Absent
      BY <1>3, <2>1
    <2>2. CASE m # Absent
      <3>1. m \in MetaRows
        BY <2>2
      <3>2. merged = [merchant |-> m.merchant, name |-> n, slug |-> meta.slug, reference |-> r,
                      chain |-> meta.chain]
        <4> DEFINE x == m.merchant
                   m1 == [meta EXCEPT !.merchant = x]
                   m2 == [m1 EXCEPT !.name = n]
                   m3 == [m2 EXCEPT !.reference = r]
        <4> HIDE DEF n, r
        <4>1. merged = m3
          OBVIOUS
        <4> HIDE DEF merged, x
        <4>2. m1 = [meta EXCEPT !.merchant = x]
          OBVIOUS
        <4> HIDE DEF m1
        <4>3. m2 = [m1 EXCEPT !.name = n]
          OBVIOUS
        <4> HIDE DEF m2
        <4>4. m3 = [m2 EXCEPT !.reference = r]
          OBVIOUS
        <4> HIDE DEF m3
        <4>5. m1 = [merchant |-> x, name |-> meta.name, slug |-> meta.slug,
                    reference |-> meta.reference, chain |-> meta.chain]
          BY <4>2 DEF MetaRows
        <4>6. m2 = [merchant |-> x, name |-> n, slug |-> meta.slug,
                    reference |-> meta.reference, chain |-> meta.chain]
          BY <4>3, <4>5
        <4>7. m3 = [merchant |-> x, name |-> n, slug |-> meta.slug, reference |-> r,
                    chain |-> meta.chain]
          BY <4>4, <4>6
        <4> QED BY <4>1, <4>7 DEF x
      <3>3. n = meta.name /\ r = reference /\ m.merchant = meta.merchant
        BY <2>2, <3>1 DEF P!Coalesce, MetaRows
      <3> HIDE DEF n, r, merged
      <3> QED BY <2>2, <3>2, <3>3
    <2> QED BY <2>1, <2>2
  <1>6. inFile = new
    BY <1>3 DEF MetaRows
  <1>7. P!saveOrderMeta(db, meta) = [db |-> [db EXCEPT !.meta = inPg], answer |-> "done"]
    <2> DEFINE old == db.meta
               mergedIn == [meta EXCEPT !.merchant = old.merchant,
                                        !.name = P!Coalesce(@, old.name),
                                        !.reference = P!Coalesce(@, old.reference)]
    <2>1. P!saveOrderMeta(db, meta) =
              [db |-> [db EXCEPT !.meta = IF old = Absent THEN meta ELSE mergedIn],
               answer |-> "done"]
      BY DEF P!saveOrderMeta, P!Wrote
    <2>2. old = m
      BY <1>1
    <2> HIDE DEF old, db
    <2>3. mergedIn = merged
      BY <2>2
    <2> HIDE DEF mergedIn, merged
    <2> QED BY <2>1, <2>2, <2>3
  <1>8. J!saveOrderMeta(db, meta) = [db |-> [db EXCEPT !.meta = inFile], answer |-> "done"]
    BY <1>1 DEF J!saveOrderMeta, J!Wrote
  <1> HIDE DEF db, new, inPg, inFile
  <1>9. /\ P!saveOrderMeta(db, meta) = [db |-> OrderTables(new, q), answer |-> "done"]
        /\ J!saveOrderMeta(db, meta) = [db |-> OrderTables(new, q), answer |-> "done"]
    BY <1>2, <1>5, <1>6, <1>7, <1>8
  <1> QED BY <1>4, <1>9 DEF db

\* A call that gives the same answer leaves what it gives.
LEMMA SameGiven ==
    ASSUME NEW a, NEW dp, NEW dj, NEW p, NEW j, NEW unlike,
           p = [db |-> dp, answer |-> a], j = [db |-> dj, answer |-> a],
           Differing(p, j, unlike), ~parted'
    PROVE  agree' /\ pg' = dp /\ json' = dj /\ group' = group /\ clock' = clock /\ ~unlike
  <1>1. p.answer = j.answer /\ p.db = dp /\ j.db = dj
    OBVIOUS
  <1> QED BY <1>1, Called

LEMMA BothGiven ==
    ASSUME NEW a, NEW dp, NEW dj, NEW p, NEW j,
           p = [db |-> dp, answer |-> a], j = [db |-> dj, answer |-> a], Both(p, j)
    PROVE  agree' /\ pg' = dp /\ json' = dj
  <1>1. p.answer = j.answer /\ p.db = dp /\ j.db = dj
    OBVIOUS
  <1> QED BY <1>1 DEF Both, Differing

LEMMA CalledAlike ==
    ASSUME NEW a, NEW dp, NEW dj, NEW p, NEW j,
           p = [db |-> dp, answer |-> a], j = [db |-> dj, answer |-> a], Differing(p, j, FALSE)
    PROVE  agree' /\ pg' = dp /\ json' = dj /\ clock' = clock
  <1>1. p.answer = j.answer /\ p.db = dp /\ j.db = dj
    OBVIOUS
  <1> QED BY <1>1 DEF Differing

LEMMA InsertQiSame ==
    ASSUME NEW m, NEW q, TableOf(q, Payments, QiRows), NEW db, db = OrderTables(m, q),
           NEW order \in Payments, NEW address \in Owners,
           ~(order \notin DOMAIN q /\ \E o \in DOMAIN q : q[o].address = address)
    PROVE  \E new, answer :
               /\ TableOf(new, Payments, QiRows)
               /\ P!insertQiOrder(db, order, address) =
                      [db |-> OrderTables(m, new), answer |-> answer]
               /\ J!insertQiOrder(db, order, address) =
                      [db |-> OrderTables(m, new), answer |-> answer]
  <1> DEFINE row == [address |-> address, settled |-> FALSE]
             new == Put(q, order, row)
             taken == \E o \in DOMAIN q : q[o].address = address
  <1>1. db.qiOrders = q /\ [db EXCEPT !.qiOrders = new] = OrderTables(m, new)
    BY DEF OrderTables
  <1>2. row \in QiRows
    BY DEF QiRows
  <1>3. TableOf(new, Payments, QiRows)
    BY <1>2, PutTable
  <1> HIDE DEF new
  <1>4. P!insertQiOrder(db, order, address) =
            IF order \in DOMAIN q THEN [db |-> db, answer |-> "refused"]
            ELSE IF taken THEN [db |-> db, answer |-> "raised"]
            ELSE [db |-> [db EXCEPT !.qiOrders = new], answer |-> "inserted"]
    <2>1. P!With(q, order, row) = new
      BY SameTableOps DEF new
    <2>2. [db EXCEPT !.qiOrders = P!With(@, order, row)] = [db EXCEPT !.qiOrders = new]
      BY <1>1, <2>1
    <2>3. P!insertQiOrder(db, order, address) =
              IF order \in DOMAIN db.qiOrders THEN [db |-> db, answer |-> "refused"]
              ELSE IF \E o \in DOMAIN db.qiOrders : db.qiOrders[o].address = address
              THEN [db |-> db, answer |-> "raised"]
              ELSE [db |-> [db EXCEPT !.qiOrders = P!With(@, order, row)], answer |-> "inserted"]
      BY DEF P!insertQiOrder, P!Wrote
    <2> QED BY <1>1, <2>2, <2>3
  <1>5. J!insertQiOrder(db, order, address) =
            IF order \in DOMAIN q \/ taken THEN [db |-> db, answer |-> "refused"]
            ELSE [db |-> [db EXCEPT !.qiOrders = new], answer |-> "inserted"]
    <2>1. J!With(q, order, row) = new
      BY SameTableOps DEF new
    <2>2. [db EXCEPT !.qiOrders = J!With(@, order, row)] = [db EXCEPT !.qiOrders = new]
      BY <1>1, <2>1
    <2>3. J!insertQiOrder(db, order, address) =
              IF \/ order \in DOMAIN db.qiOrders
                 \/ \E o \in DOMAIN db.qiOrders : db.qiOrders[o].address = address
              THEN [db |-> db, answer |-> "refused"]
              ELSE [db |-> [db EXCEPT !.qiOrders = J!With(@, order, row)], answer |-> "inserted"]
      BY DEF J!insertQiOrder, J!Wrote
    <2> QED BY <1>1, <2>2, <2>3
  <1> HIDE DEF row
  <1>6. CASE order \in DOMAIN q
    <2>1. /\ P!insertQiOrder(db, order, address) = [db |-> db, answer |-> "refused"]
          /\ J!insertQiOrder(db, order, address) = [db |-> db, answer |-> "refused"]
      BY <1>4, <1>5, <1>6
    <2> QED BY <2>1
  <1>7. CASE order \notin DOMAIN q
    <2>1. /\ P!insertQiOrder(db, order, address) =
                 [db |-> OrderTables(m, new), answer |-> "inserted"]
          /\ J!insertQiOrder(db, order, address) =
                 [db |-> OrderTables(m, new), answer |-> "inserted"]
      BY <1>1, <1>4, <1>5, <1>7
    <2> QED BY <1>3, <2>1
  <1> QED BY <1>6, <1>7

LEMMA MarkQiSame ==
    ASSUME NEW m, NEW q, TableOf(q, Payments, QiRows), NEW db, db = OrderTables(m, q),
           NEW order \in Payments
    PROVE  \E new, answer :
               /\ TableOf(new, Payments, QiRows)
               /\ P!markQiOrderSettled(db, order) =
                      [db |-> OrderTables(m, new), answer |-> answer]
               /\ J!markQiOrderSettled(db, order) =
                      [db |-> OrderTables(m, new), answer |-> answer]
  <1>1. db.qiOrders = q
    BY DEF OrderTables
  <1>2. P!markQiOrderSettled(db, order) = J!markQiOrderSettled(db, order)
    BY DEF P!markQiOrderSettled, J!markQiOrderSettled, P!Wrote, J!Wrote
  <1>3. CASE order \notin DOMAIN q
    <2>1. P!markQiOrderSettled(db, order) = [db |-> db, answer |-> Absent]
      BY <1>1, <1>3 DEF P!markQiOrderSettled, P!Wrote
    <2> QED BY <1>2, <2>1
  <1>4. CASE order \in DOMAIN q
    <2> DEFINE row == [q[order] EXCEPT !.settled = TRUE]
               new == [q EXCEPT ![order] = row]
    <2>1. row \in QiRows
      BY <1>4 DEF TableOf, QiRows
    <2>2. TableOf(new, Payments, QiRows)
      BY <2>1 DEF TableOf
    <2>3. P!markQiOrderSettled(db, order) =
              [db |-> [db EXCEPT !.qiOrders[order] = row], answer |-> row]
      BY <1>1, <1>4 DEF P!markQiOrderSettled, P!Wrote
    <2> HIDE DEF row
    <2>4. [db EXCEPT !.qiOrders[order] = row] = OrderTables(m, new)
      BY <1>1 DEF OrderTables
    <2> HIDE DEF new
    <2> QED BY <1>2, <2>2, <2>3, <2>4
  <1> QED BY <1>3, <1>4

LEMMA OrdersAgree ==
    ASSUME OrderCalls, OrdersRelated, ~parted'
    PROVE  agree' /\ OrdersRelated'
  <1>1. PICK m, q : /\ m = Absent \/ m \in MetaRows
                    /\ TableOf(q, Payments, QiRows)
                    /\ pg = OrderTables(m, q) /\ json = OrderTables(m, q)
    BY DEF OrdersRelated
  <1>2. pg.meta = m /\ json.meta = m /\ pg.qiOrders = q
    BY <1>1 DEF OrderTables
  <1>3. ASSUME NEW n, NEW r, NEW a, NEW p, NEW j, NEW unlike,
               n = Absent \/ n \in MetaRows, TableOf(r, Payments, QiRows),
               p = [db |-> OrderTables(n, r), answer |-> a],
               j = [db |-> OrderTables(n, r), answer |-> a],
               Differing(p, j, unlike)
        PROVE  agree' /\ OrdersRelated'
    <2>1. agree' /\ pg' = OrderTables(n, r) /\ json' = OrderTables(n, r)
      BY <1>3, SameGiven
    <2> QED BY <1>3, <2>1 DEF OrdersRelated
  <1>4. ASSUME NEW meta \in MetaRows,
               Differing(P!saveOrderMeta(pg, meta), J!saveOrderMeta(json, meta), ReplacesMore(meta))
        PROVE  agree' /\ OrdersRelated'
    <2>1. ~ReplacesMore(meta)
      BY <1>4, Called
    <2>2. ~(m # Absent /\ (m.merchant # meta.merchant \/ (m.name # Absent /\ meta.name = Absent)))
      BY <1>2, <2>1 DEF ReplacesMore
    <2>3. PICK new \in MetaRows :
              /\ P!saveOrderMeta(pg, meta) = [db |-> OrderTables(new, q), answer |-> "done"]
              /\ J!saveOrderMeta(json, meta) = [db |-> OrderTables(new, q), answer |-> "done"]
      BY <1>1, <2>2, SaveOrderMetaSame
    <2> QED BY <1>1, <1>3, <1>4, <2>3
  <1>5. ASSUME NEW order \in Payments, NEW address \in Owners,
               Differing(P!insertQiOrder(pg, order, address), J!insertQiOrder(json, order, address),
                         /\ order \notin DOMAIN pg.qiOrders
                         /\ \E o \in DOMAIN pg.qiOrders : pg.qiOrders[o].address = address)
        PROVE  agree' /\ OrdersRelated'
    <2>1. ~(order \notin DOMAIN pg.qiOrders
            /\ \E o \in DOMAIN pg.qiOrders : pg.qiOrders[o].address = address)
      BY <1>5, Called
    <2>2. ~(order \notin DOMAIN q /\ \E o \in DOMAIN q : q[o].address = address)
      BY <1>2, <2>1
    <2>3. PICK new, answer :
              /\ TableOf(new, Payments, QiRows)
              /\ P!insertQiOrder(pg, order, address) =
                     [db |-> OrderTables(m, new), answer |-> answer]
              /\ J!insertQiOrder(json, order, address) =
                     [db |-> OrderTables(m, new), answer |-> answer]
      BY <1>1, <2>2, InsertQiSame
    <2> QED BY <1>1, <1>3, <1>5, <2>3
  <1>6. ASSUME NEW order \in Payments,
               Both(P!markQiOrderSettled(pg, order), J!markQiOrderSettled(json, order))
        PROVE  agree' /\ OrdersRelated'
    <2>1. PICK new, answer :
              /\ TableOf(new, Payments, QiRows)
              /\ P!markQiOrderSettled(pg, order) = [db |-> OrderTables(m, new), answer |-> answer]
              /\ J!markQiOrderSettled(json, order) = [db |-> OrderTables(m, new), answer |-> answer]
      BY <1>1, MarkQiSame
    <2> QED BY <1>1, <1>3, <1>6, <2>1 DEF Both
  <1> QED BY <1>4, <1>5, <1>6 DEF OrderCalls, MetaRows

\* The rows that a process reads when it starts have their chain.
LEMMA OrdersRead ==
    ASSUME OrdersRelated, StoresAssumption
    PROVE  J!readOrderMeta(json) = json
  <1>1. PICK m, q : /\ m = Absent \/ m \in MetaRows
                    /\ json = OrderTables(m, q)
    BY DEF OrdersRelated
  <1>2. J!withChainId(m) = m
    BY <1>1 DEF J!withChainId, MetaRows, StoresAssumption
  <1>3. json.meta = m /\ [json EXCEPT !.meta = m] = json
    BY <1>1 DEF OrderTables
  <1> QED BY <1>2, <1>3 DEF J!readOrderMeta

LEMMA OrdersSame ==
    ASSUME OrdersRelated
    PROVE  SameOrders
  BY DEF OrdersRelated, SameOrders, OrderTables

-----------------------------------------------------------------------------
(* API keys: the hashed ones, and those from before hashing.               *)

KeyRows == [owner : Owners, hashed : BOOLEAN]

Hashed(t) == [key \in {k \in DOMAIN t : t[k].hashed} |-> t[key]]

Legacy(t) == [key \in {k \in DOMAIN t : ~t[k].hashed} |-> t[key].owner]

KeyTables(t) == [apiKeys |-> Hashed(t), legacyApiKeys |-> Legacy(t)]

KeysRelated ==
    \E t : TableOf(t, Keys, KeyRows) /\ pg = [apiKeys |-> t] /\ json = KeyTables(t)

\* A key that is hashed now: a new one, or one from before.
LEMMA HashedNow ==
    ASSUME NEW t, TableOf(t, Keys, KeyRows), NEW key \in Keys, NEW m \in Owners
    PROVE  LET row == [owner |-> m, hashed |-> TRUE]
           IN  /\ TableOf(Put(t, key, row), Keys, KeyRows)
               /\ Hashed(Put(t, key, row)) = Put(Hashed(t), key, row)
               /\ Legacy(Put(t, key, row)) = Cut(Legacy(t), {key})
  <1> DEFINE row == [owner |-> m, hashed |-> TRUE]
             u == Put(t, key, row)
  <1>1. row \in KeyRows /\ row.hashed
    BY DEF KeyRows
  <1>2. TableOf(u, Keys, KeyRows)
    BY <1>1, PutTable
  <1> HIDE DEF row
  <1>3. DOMAIN u = DOMAIN t \cup {key} /\ u[key] = row /\ \A k \in DOMAIN t \ {key} : u[k] = t[k]
    BY DEF Put
  <1>4. {k \in DOMAIN u : u[k].hashed} = {k \in DOMAIN t : t[k].hashed} \cup {key}
    BY <1>1, <1>3
  <1>5. {k \in DOMAIN u : ~u[k].hashed} = {k \in DOMAIN t : ~t[k].hashed} \ {key}
    BY <1>1, <1>3
  <1> HIDE DEF u
  <1>6. Hashed(u) = Put(Hashed(t), key, row)
    BY <1>3, <1>4 DEF Hashed, Put
  <1>7. Legacy(u) = Cut(Legacy(t), {key})
    BY <1>3, <1>5 DEF Legacy, Cut
  <1> QED BY <1>2, <1>6, <1>7 DEF u, row

LEMMA KeyRevoked ==
    ASSUME NEW t, TableOf(t, Keys, KeyRows), NEW key, key \in DOMAIN t => t[key].hashed
    PROVE  /\ Hashed(Cut(t, {key})) = Cut(Hashed(t), {key})
           /\ Legacy(Cut(t, {key})) = Legacy(t)
  <1> DEFINE u == Cut(t, {key})
  <1>1. DOMAIN u = DOMAIN t \ {key} /\ \A k \in DOMAIN u : u[k] = t[k]
    BY DEF Cut
  <1> HIDE DEF u
  <1>2. {k \in DOMAIN u : u[k].hashed} = {k \in DOMAIN t : t[k].hashed} \ {key}
    BY <1>1
  <1>3. {k \in DOMAIN u : ~u[k].hashed} = {k \in DOMAIN t : ~t[k].hashed}
    BY <1>1
  <1>4. Hashed(u) = Cut(Hashed(t), {key})
    BY <1>1, <1>2 DEF Hashed, Cut
  <1>5. Legacy(u) = Legacy(t)
    BY <1>1, <1>3 DEF Legacy
  <1> QED BY <1>4, <1>5 DEF u

LEMMA CreateKeySame ==
    ASSUME NEW t, NEW u, NEW d, NEW e, NEW key, NEW m,
           d = [apiKeys |-> t], e = [apiKeys |-> u, legacyApiKeys |-> Legacy(t)]
    PROVE  LET row == [owner |-> m, hashed |-> TRUE]
           IN  /\ P!createMerchantApiKey(d, key, m) =
                      [db |-> [apiKeys |-> Put(t, key, row)], answer |-> "done"]
               /\ J!createMerchantApiKey(e, key, m) =
                      [db |-> [apiKeys |-> Put(u, key, row), legacyApiKeys |-> Legacy(t)],
                       answer |-> "done"]
  <1> DEFINE row == [owner |-> m, hashed |-> TRUE]
  <1> HIDE DEF row
  <1>1. P!createMerchantApiKey(d, key, m) =
            [db |-> [d EXCEPT !.apiKeys = P!With(@, key, row)], answer |-> "done"]
    BY DEF P!createMerchantApiKey, P!Wrote, row
  <1>2. J!createMerchantApiKey(e, key, m) =
            [db |-> [e EXCEPT !.apiKeys = J!With(@, key, row)], answer |-> "done"]
    BY DEF J!createMerchantApiKey, J!Wrote, row
  <1>3. d.apiKeys = t /\ e.apiKeys = u
    OBVIOUS
  <1>4. P!With(t, key, row) = Put(t, key, row) /\ J!With(u, key, row) = Put(u, key, row)
    BY SameTableOps
  <1>5. /\ [d EXCEPT !.apiKeys = P!With(@, key, row)] = [apiKeys |-> Put(t, key, row)]
        /\ [e EXCEPT !.apiKeys = J!With(@, key, row)] =
               [apiKeys |-> Put(u, key, row), legacyApiKeys |-> Legacy(t)]
    BY <1>3, <1>4
  <1> QED BY <1>1, <1>2, <1>5 DEF row

\* A table with a row that it has.
LEMMA PutSame ==
    ASSUME NEW K, NEW R, NEW t, TableOf(t, K, R), NEW key \in DOMAIN t
    PROVE  Put(t, key, t[key]) = t
  <1>1. DOMAIN t \cup {key} = DOMAIN t
    OBVIOUS
  <1> QED BY <1>1 DEF TableOf, Put

\* A key presented: its owner, and from then on it is hashed.
LEMMA PresentKeySame ==
    ASSUME NEW t, TableOf(t, Keys, KeyRows), NEW key \in Keys, NEW d, NEW e,
           d = [apiKeys |-> t], e = KeyTables(t)
    PROVE  \E u, answer :
               /\ TableOf(u, Keys, KeyRows)
               /\ P!getMerchantByApiKey(d, key) = [db |-> [apiKeys |-> u], answer |-> answer]
               /\ J!getMerchantByApiKey(e, key) = [db |-> KeyTables(u), answer |-> answer]
  <1>1. d.apiKeys = t /\ e.apiKeys = Hashed(t) /\ e.legacyApiKeys = Legacy(t)
    BY DEF KeyTables
  <1>2. /\ DOMAIN Hashed(t) = {k \in DOMAIN t : t[k].hashed}
        /\ DOMAIN Legacy(t) = {k \in DOMAIN t : ~t[k].hashed}
        /\ \A k \in DOMAIN Hashed(t) : Hashed(t)[k] = t[k]
        /\ \A k \in DOMAIN Legacy(t) : Legacy(t)[k] = t[k].owner
    BY DEF Hashed, Legacy
  <1>3. CASE key \notin DOMAIN t
    <2>1. P!getMerchantByApiKey(d, key) = [db |-> d, answer |-> Absent]
      BY <1>1, <1>3 DEF P!getMerchantByApiKey, P!Wrote
    <2>2. J!getMerchantByApiKey(e, key) = [db |-> e, answer |-> Absent]
      BY <1>1, <1>2, <1>3 DEF J!getMerchantByApiKey, J!Wrote
    <2> QED BY <2>1, <2>2
  <1>4. CASE key \in DOMAIN t
    <2> DEFINE m == t[key].owner
               row == [owner |-> m, hashed |-> TRUE]
               u == Put(t, key, row)
    <2>0. m \in Owners /\ t[key] \in KeyRows
      BY <1>4 DEF TableOf, KeyRows
    <2>1. P!getMerchantByApiKey(d, key) = [db |-> [apiKeys |-> u], answer |-> m]
      <3> DEFINE now == [t[key] EXCEPT !.hashed = TRUE]
                 more == [t EXCEPT ![key] = now]
                 nowIn == [d.apiKeys[key] EXCEPT !.hashed = TRUE]
      <3>1. P!getMerchantByApiKey(d, key) =
                [db |-> [d EXCEPT !.apiKeys[key] = nowIn], answer |-> m]
        BY <1>1, <1>4 DEF P!getMerchantByApiKey, P!Wrote
      <3>2. now = row
        <4> DEFINE r == t[key]
        <4>1. r \in KeyRows
          BY <2>0
        <4> HIDE DEF r
        <4>2. [r EXCEPT !.hashed = TRUE] = [owner |-> r.owner, hashed |-> TRUE]
          <5>1. \A x : [r EXCEPT !.hashed = x] = [owner |-> r.owner, hashed |-> x]
            BY <4>1 DEF KeyRows
          <5> QED BY <5>1, Zenon
        <4> QED BY <4>2 DEF r
      <3>3. nowIn = now
        BY <1>1
      <3> HIDE DEF now, nowIn, row
      <3>5. [d EXCEPT !.apiKeys[key] = now] = [apiKeys |-> more]
        BY <1>1
      <3>4. more = u
        <4>1. DOMAIN t \cup {key} = DOMAIN t
          BY <1>4
        <4> QED BY <3>2, <4>1 DEF TableOf, Put
      <3> HIDE DEF more, u, m
      <3> QED BY <3>1, <3>3, <3>4, <3>5
    <2>2. TableOf(u, Keys, KeyRows)
      BY <2>0, HashedNow
    <2>3. J!getMerchantByApiKey(e, key) = [db |-> KeyTables(u), answer |-> m]
      <3>1. CASE t[key].hashed
        <4>1. J!getMerchantByApiKey(e, key) = [db |-> e, answer |-> m]
          BY <1>1, <1>2, <1>4, <3>1 DEF J!getMerchantByApiKey, J!Wrote
        <4>2. t[key] = row
          BY <2>0, <3>1 DEF KeyRows
        <4>3. u = t
          BY <1>4, <4>2, PutSame
        <4> QED BY <4>1, <4>3
      <3>2. CASE ~t[key].hashed
        <4> DEFINE more == [apiKeys |-> Put(Hashed(t), key, row), legacyApiKeys |-> Legacy(t)]
        <4>1. J!createMerchantApiKey(e, key, m) = [db |-> more, answer |-> "done"]
          <5>1. e = [apiKeys |-> Hashed(t), legacyApiKeys |-> Legacy(t)]
            BY DEF KeyTables
          <5> HIDE DEF m
          <5> QED BY <5>1, CreateKeySame
        <4>2. J!getMerchantByApiKey(e, key) =
                  [db |-> [J!createMerchantApiKey(e, key, m).db
                               EXCEPT !.legacyApiKeys = J!Without(@, {key})],
                   answer |-> m]
          BY <1>1, <1>2, <1>4, <3>2 DEF J!getMerchantByApiKey, J!Wrote
        <4>3. Hashed(u) = Put(Hashed(t), key, row) /\ Legacy(u) = Cut(Legacy(t), {key})
          BY <2>0, HashedNow
        <4> HIDE DEF row, u, m
        <4>4. [more EXCEPT !.legacyApiKeys = J!Without(@, {key})] =
                  [apiKeys |-> Put(Hashed(t), key, row),
                   legacyApiKeys |-> J!Without(Legacy(t), {key})]
          OBVIOUS
        <4>5. J!createMerchantApiKey(e, key, m).db = more
          BY <4>1
        <4>6. KeyTables(u) = [more EXCEPT !.legacyApiKeys = J!Without(@, {key})]
          BY <4>3, <4>4, SameTableOps DEF KeyTables
        <4> DEFINE made == J!createMerchantApiKey(e, key, m).db
        <4>7. [made EXCEPT !.legacyApiKeys = J!Without(@, {key})] = KeyTables(u)
          <5> HIDE DEF more, made
          <5>1. made = more
            BY <4>5 DEF made
          <5> QED BY <4>6, <5>1
        <4> HIDE DEF more
        <4> QED BY <4>2, <4>7
      <3> QED BY <3>1, <3>2
    <2> QED BY <2>1, <2>2, <2>3
  <1> QED BY <1>3, <1>4

LEMMA RevokeKeySame ==
    ASSUME NEW t, TableOf(t, Keys, KeyRows), NEW key \in Keys, NEW d, NEW e,
           d = [apiKeys |-> t], e = KeyTables(t)
    PROVE  \E u :
               /\ TableOf(u, Keys, KeyRows)
               /\ P!revokeMerchantApiKeyByRef(d, key) = [db |-> [apiKeys |-> u], answer |-> "done"]
               /\ J!revokeMerchantApiKeyByRef(e, key) = [db |-> KeyTables(u), answer |-> "done"]
  <1>1. d.apiKeys = t /\ e.apiKeys = Hashed(t) /\ e.legacyApiKeys = Legacy(t)
    BY DEF KeyTables
  <1>2. J!revokeMerchantApiKeyByRef(e, key) =
            [db |-> [apiKeys |-> Cut(Hashed(t), {key}), legacyApiKeys |-> Legacy(t)],
             answer |-> "done"]
    <2>1. [e EXCEPT !.apiKeys = J!Without(@, {key})] =
              [apiKeys |-> J!Without(Hashed(t), {key}), legacyApiKeys |-> Legacy(t)]
      BY DEF KeyTables
    <2> QED BY <2>1, SameTableOps DEF J!revokeMerchantApiKeyByRef, J!Wrote
  <1>3. CASE key \in DOMAIN t /\ t[key].hashed
    <2>1. [d EXCEPT !.apiKeys = P!Without(@, {key})] = [apiKeys |-> P!Without(t, {key})]
      BY <1>1
    <2>2. P!revokeMerchantApiKeyByRef(d, key) =
              [db |-> [apiKeys |-> Cut(t, {key})], answer |-> "done"]
      BY <1>1, <1>3, <2>1, SameTableOps DEF P!revokeMerchantApiKeyByRef, P!Wrote
    <2>3. TableOf(Cut(t, {key}), Keys, KeyRows)
      BY CutTable
    <2>4. J!revokeMerchantApiKeyByRef(e, key) =
              [db |-> KeyTables(Cut(t, {key})), answer |-> "done"]
      BY <1>2, <1>3, KeyRevoked DEF KeyTables
    <2> QED BY <2>2, <2>3, <2>4
  <1>4. CASE ~(key \in DOMAIN t /\ t[key].hashed)
    <2>1. P!revokeMerchantApiKeyByRef(d, key) = [db |-> d, answer |-> "done"]
      BY <1>1, <1>4 DEF P!revokeMerchantApiKeyByRef, P!Wrote
    <2>2. Cut(Hashed(t), {key}) = Hashed(t)
      <3>1. DOMAIN Hashed(t) \ {key} = DOMAIN Hashed(t)
        BY <1>4 DEF Hashed
      <3> QED BY <3>1 DEF Cut, Hashed
    <2>3. J!revokeMerchantApiKeyByRef(e, key) = [db |-> e, answer |-> "done"]
      BY <1>2, <2>2 DEF KeyTables
    <2> QED BY <2>1, <2>3
  <1> QED BY <1>3, <1>4

LEMMA KeysAgree ==
    ASSUME KeyCalls, KeysRelated
    PROVE  agree' /\ KeysRelated'
  <1>1. PICK t : TableOf(t, Keys, KeyRows) /\ pg = [apiKeys |-> t] /\ json = KeyTables(t)
    BY DEF KeysRelated
  <1>2. pg.apiKeys = t
    BY <1>1
  <1>3. ASSUME NEW u, NEW a, NEW p, NEW j, TableOf(u, Keys, KeyRows), Both(p, j),
               p = [db |-> [apiKeys |-> u], answer |-> a], j = [db |-> KeyTables(u), answer |-> a]
        PROVE  agree' /\ KeysRelated'
    <2>1. agree' /\ pg' = [apiKeys |-> u] /\ json' = KeyTables(u)
      <3> DEFINE left == [apiKeys |-> u]
                 kept == KeyTables(u)
      <3>1. p = [db |-> left, answer |-> a] /\ j = [db |-> kept, answer |-> a]
        BY <1>3
      <3> HIDE DEF left, kept
      <3>2. agree' /\ pg' = left /\ json' = kept
        BY <1>3, <3>1, BothGiven
      <3> QED BY <3>2 DEF left, kept
    <2> QED BY <1>3, <2>1 DEF KeysRelated
  <1>4. ASSUME NEW key \in Keys, NEW m \in Owners, key \notin DOMAIN t,
               Both(P!createMerchantApiKey(pg, key, m), J!createMerchantApiKey(json, key, m))
        PROVE  agree' /\ KeysRelated'
    <2> DEFINE row == [owner |-> m, hashed |-> TRUE]
               u == Put(t, key, row)
    <2>1. /\ TableOf(u, Keys, KeyRows)
          /\ Hashed(u) = Put(Hashed(t), key, row)
          /\ Legacy(u) = Cut(Legacy(t), {key})
      BY <1>1, HashedNow
    <2>2. Cut(Legacy(t), {key}) = Legacy(t)
      <3>1. DOMAIN Legacy(t) \ {key} = DOMAIN Legacy(t)
        BY <1>4 DEF Legacy
      <3> QED BY <3>1 DEF Cut, Legacy
    <2>3. json = [apiKeys |-> Hashed(t), legacyApiKeys |-> Legacy(t)]
      BY <1>1 DEF KeyTables
    <2>4. /\ P!createMerchantApiKey(pg, key, m) = [db |-> [apiKeys |-> u], answer |-> "done"]
          /\ J!createMerchantApiKey(json, key, m) =
                 [db |-> [apiKeys |-> Put(Hashed(t), key, row), legacyApiKeys |-> Legacy(t)],
                  answer |-> "done"]
      BY <1>1, <2>3, CreateKeySame
    <2> HIDE DEF u, row
    <2> QED BY <1>3, <1>4, <2>1, <2>2, <2>4 DEF KeyTables
  <1>5. ASSUME NEW key \in Keys,
               Both(P!getMerchantByApiKey(pg, key), J!getMerchantByApiKey(json, key))
        PROVE  agree' /\ KeysRelated'
    <2>1. PICK u, answer :
              /\ TableOf(u, Keys, KeyRows)
              /\ P!getMerchantByApiKey(pg, key) = [db |-> [apiKeys |-> u], answer |-> answer]
              /\ J!getMerchantByApiKey(json, key) = [db |-> KeyTables(u), answer |-> answer]
      BY <1>1, PresentKeySame
    <2> QED BY <1>3, <1>5, <2>1
  <1>6. ASSUME NEW key \in Keys,
               Both(P!revokeMerchantApiKeyByRef(pg, key), J!revokeMerchantApiKeyByRef(json, key))
        PROVE  agree' /\ KeysRelated'
    <2>1. PICK u :
              /\ TableOf(u, Keys, KeyRows)
              /\ P!revokeMerchantApiKeyByRef(pg, key) = [db |-> [apiKeys |-> u], answer |-> "done"]
              /\ J!revokeMerchantApiKeyByRef(json, key) = [db |-> KeyTables(u), answer |-> "done"]
      BY <1>1, RevokeKeySame
    <2> QED BY <1>3, <1>6, <2>1
  <1> QED BY <1>2, <1>4, <1>5, <1>6 DEF KeyCalls

\* No row that a process reads is one from before: those are in their bucket already.
LEMMA KeysRead ==
    ASSUME NEW t, TableOf(t, Keys, KeyRows), NEW e, e = KeyTables(t)
    PROVE  J!readApiKeys(e) = e
  <1>1. e.apiKeys = Hashed(t) /\ e.legacyApiKeys = Legacy(t)
    BY DEF KeyTables
  <1> DEFINE old == {key \in DOMAIN e.apiKeys : ~e.apiKeys[key].hashed}
             bucket == [key \in DOMAIN e.legacyApiKeys \cup old |->
                           IF key \in old THEN e.apiKeys[key].owner ELSE e.legacyApiKeys[key]]
  <1>2. old = {}
    BY <1>1 DEF Hashed
  <1>3. J!readApiKeys(e) = [apiKeys |-> J!Without(e.apiKeys, old), legacyApiKeys |-> bucket]
    BY DEF J!readApiKeys
  <1> HIDE DEF old
  <1>4. bucket = Legacy(t)
    BY <1>1, <1>2 DEF Legacy
  <1>5. Cut(Hashed(t), old) = Hashed(t)
    BY <1>2 DEF Cut, Hashed
  <1> HIDE DEF bucket
  <1> QED BY <1>1, <1>3, <1>4, <1>5, SameTableOps DEF KeyTables

LEMMA KeysSame ==
    ASSUME KeysRelated
    PROVE  SameKeys
  <1>1. PICK t : TableOf(t, Keys, KeyRows) /\ pg = [apiKeys |-> t] /\ json = KeyTables(t)
    BY DEF KeysRelated
  <1>2. pg.apiKeys = t /\ json.apiKeys = Hashed(t) /\ json.legacyApiKeys = Legacy(t)
    BY <1>1 DEF KeyTables
  <1>3. /\ DOMAIN Hashed(t) = {k \in DOMAIN t : t[k].hashed}
        /\ DOMAIN Legacy(t) = {k \in DOMAIN t : ~t[k].hashed}
        /\ \A k \in DOMAIN Hashed(t) : Hashed(t)[k] = t[k]
    BY DEF Hashed, Legacy
  <1>4. ASSUME NEW m \in Owners
        PROVE  P!listMerchantApiKeys(pg, m) = J!listMerchantApiKeys(json, m)
    <2>1. \A k \in DOMAIN t : t[k] = [owner |-> m, hashed |-> TRUE] <=> (t[k].hashed /\ t[k].owner = m)
      BY <1>1 DEF TableOf, KeyRows
    <2>2. P!listMerchantApiKeys(pg, m) = {k \in DOMAIN t : t[k].hashed /\ t[k].owner = m}
      BY <1>2, <2>1 DEF P!listMerchantApiKeys
    <2>3. J!listMerchantApiKeys(json, m) = {k \in DOMAIN t : t[k].hashed /\ t[k].owner = m}
      BY <1>2, <1>3 DEF J!listMerchantApiKeys
    <2> QED BY <2>2, <2>3
  <1> QED BY <1>2, <1>3, <1>4 DEF SameKeys

-----------------------------------------------------------------------------
(* Merchants, in the order they first came, payout addresses and cursors.  *)

\* s lists what is in D, each once.
ListsOnce(s, D) ==
    /\ Lists(s, D)
    /\ \A i, j \in DOMAIN s : s[i] = s[j] => i = j

LEMMA OnceMore ==
    ASSUME NEW D, NEW s, ListsOnce(s, D), NEW x, x \notin D
    PROVE  ListsOnce(Append(s, x), D \cup {x})
  <1> DEFINE E == D \cup {x}
             r == Append(s, x)
  <1>1. Lists(r, E)
    BY ListsMore DEF ListsOnce
  <1>2. s \in Seq(E) /\ s \in Seq(D)
    BY DEF ListsOnce, Lists
  <1>3. /\ Len(r) = Len(s) + 1 /\ r[Len(s) + 1] = x
        /\ \A i \in 1 .. Len(s) : r[i] = s[i] /\ s[i] \in D
        /\ r \in Seq(E)
    BY <1>2
  <1>4. DOMAIN s = 1 .. Len(s) /\ DOMAIN r = 1 .. Len(r) /\ Len(s) \in Nat
    BY <1>2, <1>3
  <1>5. ASSUME NEW i \in DOMAIN r, NEW j \in DOMAIN r, r[i] = r[j]
        PROVE  i = j
    <2>1. CASE i \in DOMAIN s /\ j \in DOMAIN s
      BY <1>3, <1>4, <1>5, <2>1 DEF ListsOnce
    <2>2. CASE i \notin DOMAIN s
      <3>1. i = Len(s) + 1
        BY <1>3, <1>4, <2>2
      <3> QED BY <1>3, <1>4, <1>5, <3>1
    <2>3. CASE j \notin DOMAIN s
      <3>1. j = Len(s) + 1
        BY <1>3, <1>4, <2>3
      <3> QED BY <1>3, <1>4, <1>5, <3>1
    <2> QED BY <2>1, <2>2, <2>3
  <1> HIDE DEF r, E
  <1>6. ListsOnce(r, E)
    BY <1>1, <1>5 DEF ListsOnce
  <1> QED BY <1>6 DEF r, E

LEMMA OnceCount ==
    ASSUME NEW D, NEW s, ListsOnce(s, D)
    PROVE  /\ IsFiniteSet(D) /\ Cardinality(D) = Len(s) /\ Len(s) \in Nat
           /\ D = {s[i] : i \in DOMAIN s}
  <1>1. s \in Seq(D) /\ Len(s) \in Nat /\ DOMAIN s = 1 .. Len(s)
    BY DEF ListsOnce, Lists
  <1>2. s \in Bijection(1 .. Len(s), D)
    <2>1. s \in [1 .. Len(s) -> D]
      BY <1>1
    <2>2. s \in Injection(1 .. Len(s), D)
      BY <1>1, <2>1 DEF ListsOnce, Injection, IsInjective
    <2>3. s \in Surjection(1 .. Len(s), D)
      BY <1>1, <2>1 DEF ListsOnce, Lists, Surjection
    <2> QED BY <2>2, <2>3 DEF Bijection
  <1>3. ExistsBijection(1 .. Len(s), D)
    BY <1>2 DEF ExistsBijection
  <1>4. IsFiniteSet(1 .. Len(s)) /\ Cardinality(1 .. Len(s)) = Len(s)
    BY <1>1, FS_Interval
  <1>5. IsFiniteSet(D) /\ Cardinality(D) = Len(s)
    BY <1>3, <1>4, FS_Bijection
  <1>6. D = {s[i] : i \in DOMAIN s}
    BY <1>1 DEF ListsOnce, Lists
  <1> QED BY <1>1, <1>5, <1>6

MerchantTables(m, q, c) == [merchants |-> m, payouts |-> q, cursors |-> c]

MerchantsRelated ==
    \E m, s, q, c :
        /\ ListsOnce(s, m)
        /\ pg = MerchantTables(m, q, c)
        /\ json = MerchantTables(s, q, c)

LEMMA MerchantFields ==
    ASSUME NEW m, NEW q, NEW c, NEW db, db = MerchantTables(m, q, c), NEW x
    PROVE  /\ db.merchants = m /\ db.payouts = q /\ db.cursors = c
           /\ [db EXCEPT !.merchants = x] = MerchantTables(x, q, c)
           /\ [db EXCEPT !.payouts = x] = MerchantTables(m, x, c)
           /\ [db EXCEPT !.cursors = x] = MerchantTables(m, q, x)
  BY DEF MerchantTables

\* A merchant that is on file already is not listed again.
LEMMA UpsertMerchantSame ==
    ASSUME NEW m, NEW s, NEW q, NEW c, ListsOnce(s, m), NEW d, NEW e, NEW x,
           d = MerchantTables(m, q, c), e = MerchantTables(s, q, c)
    PROVE  \E m2, s2 :
               /\ ListsOnce(s2, m2)
               /\ P!upsertMerchant(d, x) = [db |-> MerchantTables(m2, q, c), answer |-> "done"]
               /\ J!upsertMerchant(e, x) = [db |-> MerchantTables(s2, q, c), answer |-> "done"]
  <1> DEFINE m2 == m \cup {x}
             inFile == IF J!Contains(e.merchants, x) THEN e.merchants ELSE Append(e.merchants, x)
  <1>1. P!upsertMerchant(d, x) = [db |-> MerchantTables(m2, q, c), answer |-> "done"]
    <2>1. P!upsertMerchant(d, x) =
              [db |-> [d EXCEPT !.merchants = @ \cup {x}], answer |-> "done"]
      BY DEF P!upsertMerchant, P!Wrote
    <2>2. [d EXCEPT !.merchants = @ \cup {x}] = MerchantTables(m2, q, c)
      BY DEF MerchantTables
    <2> QED BY <2>1, <2>2
  <1>2. J!upsertMerchant(e, x) = [db |-> [e EXCEPT !.merchants = inFile], answer |-> "done"]
    BY DEF J!upsertMerchant, J!Wrote
  <1>3. e.merchants = s
    BY MerchantFields
  <1>4. DOMAIN s = 1 .. Len(s) /\ \A i \in DOMAIN s : s[i] \in m
    BY DEF ListsOnce, Lists
  <1>5. J!Contains(s, x) <=> x \in m
    BY <1>4 DEF J!Contains, ListsOnce, Lists
  <1>6. inFile = IF x \in m THEN s ELSE Append(s, x)
    BY <1>3, <1>5
  <1> HIDE DEF inFile
  <1>7. J!upsertMerchant(e, x) = [db |-> MerchantTables(inFile, q, c), answer |-> "done"]
    BY <1>2, MerchantFields
  <1>8. ListsOnce(inFile, m2)
    <2>1. CASE x \in m
      <3>1. m2 = m
        BY <2>1
      <3> QED BY <1>6, <2>1, <3>1
    <2>2. CASE x \notin m
      BY <1>6, <2>2, OnceMore
    <2> QED BY <2>1, <2>2
  <1> QED BY <1>1, <1>7, <1>8

\* The payout addresses and the cursors are the same table, written alike.
LEMMA SetPayoutSame ==
    ASSUME NEW m, NEW s, NEW q, NEW c, NEW d, NEW e, NEW x \in m, NEW chain, NEW address,
           d = MerchantTables(m, q, c), e = MerchantTables(s, q, c),
           NEW key, key = <<x, chain>>, NEW set, set = Put(q, key, address)
    PROVE  /\ P!setPayoutAddress(d, x, chain, address) = [db |-> MerchantTables(m, set, c), answer |-> "done"]
           /\ J!setPayoutAddress(e, x, chain, address) = [db |-> MerchantTables(s, set, c), answer |-> "done"]
  <1>1. d.merchants = m /\ d.payouts = q /\ e.payouts = q
    BY MerchantFields
  <1>2. P!setPayoutAddress(d, x, chain, address) = [db |-> [d EXCEPT !.payouts = P!With(@, key, address)], answer |-> "done"]
    BY <1>1 DEF P!setPayoutAddress, P!Wrote
  <1>3. J!setPayoutAddress(e, x, chain, address) = [db |-> [e EXCEPT !.payouts = J!With(@, key, address)], answer |-> "done"]
    BY DEF J!setPayoutAddress, J!Wrote
  <1>4. P!With(q, key, address) = set /\ J!With(q, key, address) = set
    BY SameTableOps
  <1>5. ASSUME NEW y
        PROVE  /\ [d EXCEPT !.payouts = y] = MerchantTables(m, y, c)
               /\ [e EXCEPT !.payouts = y] = MerchantTables(s, y, c)
    BY DEF MerchantTables
  <1>6. [d EXCEPT !.payouts = P!With(@, key, address)] = MerchantTables(m, set, c)
    BY <1>1, <1>4, <1>5
  <1>7. [e EXCEPT !.payouts = J!With(@, key, address)] = MerchantTables(s, set, c)
    BY <1>1, <1>4, <1>5
  <1> QED BY <1>2, <1>3, <1>6, <1>7

LEMMA ClearPayoutSame ==
    ASSUME NEW m, NEW s, NEW q, NEW c, NEW d, NEW e, NEW x \in m, NEW chain,
           d = MerchantTables(m, q, c), e = MerchantTables(s, q, c),
           NEW key, key = <<x, chain>>, NEW cleared, cleared = Cut(q, {key})
    PROVE  /\ P!clearPayoutAddress(d, x, chain) = [db |-> MerchantTables(m, cleared, c), answer |-> "done"]
           /\ J!clearPayoutAddress(e, x, chain) = [db |-> MerchantTables(s, cleared, c), answer |-> "done"]
  <1>1. d.merchants = m /\ d.payouts = q /\ e.payouts = q
    BY MerchantFields
  <1>2. P!clearPayoutAddress(d, x, chain) = [db |-> [d EXCEPT !.payouts = P!Without(@, {key})], answer |-> "done"]
    BY <1>1 DEF P!clearPayoutAddress, P!Wrote
  <1>3. J!clearPayoutAddress(e, x, chain) = [db |-> [e EXCEPT !.payouts = J!Without(@, {key})], answer |-> "done"]
    BY DEF J!clearPayoutAddress, J!Wrote
  <1>4. P!Without(q, {key}) = cleared /\ J!Without(q, {key}) = cleared
    BY SameTableOps
  <1>5. ASSUME NEW y
        PROVE  /\ [d EXCEPT !.payouts = y] = MerchantTables(m, y, c)
               /\ [e EXCEPT !.payouts = y] = MerchantTables(s, y, c)
    BY DEF MerchantTables
  <1>6. [d EXCEPT !.payouts = P!Without(@, {key})] = MerchantTables(m, cleared, c)
    BY <1>1, <1>4, <1>5
  <1>7. [e EXCEPT !.payouts = J!Without(@, {key})] = MerchantTables(s, cleared, c)
    BY <1>1, <1>4, <1>5
  <1> QED BY <1>2, <1>3, <1>6, <1>7

LEMMA SetCursorSame ==
    ASSUME NEW m, NEW q, NEW c, NEW db, db = MerchantTables(m, q, c), NEW scope, NEW block
    PROVE  LET gives == [db |-> MerchantTables(m, q, Put(c, scope, block)), answer |-> "done"]
           IN  P!setCursor(db, scope, block) = gives /\ J!setCursor(db, scope, block) = gives
  <1>1. db.cursors = c
    BY MerchantFields
  <1>2. P!With(c, scope, block) = Put(c, scope, block) /\ J!With(c, scope, block) = Put(c, scope, block)
    BY SameTableOps
  <1>3. /\ [db EXCEPT !.cursors = P!With(@, scope, block)] =
               MerchantTables(m, q, Put(c, scope, block))
        /\ [db EXCEPT !.cursors = J!With(@, scope, block)] =
               MerchantTables(m, q, Put(c, scope, block))
    BY <1>1, <1>2, MerchantFields
  <1> QED BY <1>3 DEF P!setCursor, J!setCursor, P!Wrote, J!Wrote

LEMMA MerchantsAgree ==
    ASSUME MerchantCalls, MerchantsRelated
    PROVE  agree' /\ MerchantsRelated'
  <1>1. PICK m, s, q, c : /\ ListsOnce(s, m)
                          /\ pg = MerchantTables(m, q, c) /\ json = MerchantTables(s, q, c)
    BY DEF MerchantsRelated
  <1>2. pg.merchants = m
    BY <1>1, MerchantFields
  <1>3. ASSUME NEW m2, NEW s2, NEW q2, NEW c2, NEW a, NEW p, NEW j, ListsOnce(s2, m2), Both(p, j),
               p = [db |-> MerchantTables(m2, q2, c2), answer |-> a],
               j = [db |-> MerchantTables(s2, q2, c2), answer |-> a]
        PROVE  agree' /\ MerchantsRelated'
    <2>1. agree' /\ pg' = MerchantTables(m2, q2, c2) /\ json' = MerchantTables(s2, q2, c2)
      BY <1>3, BothGiven
    <2> QED BY <1>3, <2>1 DEF MerchantsRelated
  <1>4. ASSUME NEW x \in Owners, Both(P!upsertMerchant(pg, x), J!upsertMerchant(json, x))
        PROVE  agree' /\ MerchantsRelated'
    <2>1. PICK m2, s2 :
              /\ ListsOnce(s2, m2)
              /\ P!upsertMerchant(pg, x) = [db |-> MerchantTables(m2, q, c), answer |-> "done"]
              /\ J!upsertMerchant(json, x) = [db |-> MerchantTables(s2, q, c), answer |-> "done"]
      BY <1>1, UpsertMerchantSame
    <2> QED BY <1>3, <1>4, <2>1
  <1>5. ASSUME NEW x \in m, NEW chain \in Networks, NEW address \in Owners,
               Both(P!setPayoutAddress(pg, x, chain, address),
                    J!setPayoutAddress(json, x, chain, address))
        PROVE  agree' /\ MerchantsRelated'
    <2> DEFINE key == <<x, chain>>
               set == Put(q, key, address)
    <2>1. key = <<x, chain>>
      OBVIOUS
    <2> HIDE DEF key
    <2>2. set = Put(q, key, address)
      OBVIOUS
    <2> HIDE DEF set
    <2>3. /\ P!setPayoutAddress(pg, x, chain, address) =
                 [db |-> MerchantTables(m, set, c), answer |-> "done"]
          /\ J!setPayoutAddress(json, x, chain, address) =
                 [db |-> MerchantTables(s, set, c), answer |-> "done"]
      BY <1>1, <2>1, <2>2, SetPayoutSame
    <2> QED BY <1>1, <1>3, <1>5, <2>3
  <1>6. ASSUME NEW x \in m, NEW chain \in Networks,
               Both(P!clearPayoutAddress(pg, x, chain), J!clearPayoutAddress(json, x, chain))
        PROVE  agree' /\ MerchantsRelated'
    <2> DEFINE key == <<x, chain>>
               cleared == Cut(q, {key})
    <2>1. key = <<x, chain>>
      OBVIOUS
    <2> HIDE DEF key
    <2>2. cleared = Cut(q, {key})
      OBVIOUS
    <2> HIDE DEF cleared
    <2>3. /\ P!clearPayoutAddress(pg, x, chain) =
                 [db |-> MerchantTables(m, cleared, c), answer |-> "done"]
          /\ J!clearPayoutAddress(json, x, chain) =
                 [db |-> MerchantTables(s, cleared, c), answer |-> "done"]
      BY <1>1, <2>1, <2>2, ClearPayoutSame
    <2> QED BY <1>1, <1>3, <1>6, <2>3
  <1>7. ASSUME NEW scope \in Networks, NEW block \in 0 .. 1,
               Both(P!setCursor(pg, scope, block), J!setCursor(json, scope, block))
        PROVE  agree' /\ MerchantsRelated'
    <2> DEFINE at == Put(c, scope, block)
    <2>1. /\ P!setCursor(pg, scope, block) = [db |-> MerchantTables(m, q, at), answer |-> "done"]
          /\ J!setCursor(json, scope, block) = [db |-> MerchantTables(s, q, at), answer |-> "done"]
      BY <1>1, SetCursorSame
    <2> HIDE DEF at
    <2> QED BY <1>1, <1>3, <1>7, <2>1
  <1> QED BY <1>2, <1>4, <1>5, <1>6, <1>7 DEF MerchantCalls

\* Both find the merchant who is paid at a plain address: there is one at most.
LEMMA SameReceiver ==
    ASSUME NEW m, NEW s, NEW q, NEW c, ListsOnce(s, m), NEW chain, NEW address,
           pg = MerchantTables(m, q, c), json = MerchantTables(s, q, c),
           PlainAddress(chain, address)
    PROVE  P!getMerchantByPayoutAddress(pg, chain, address) =
               J!getMerchantByPayoutAddress(json, chain, address)
  <1> DEFINE At(x) == P!Row(q, <<x, chain>>)
             mapped == {x \in m : At(x) = address}
             receivers == mapped \cup (m \cap {address})
             found == {i \in DOMAIN s : At(s[i]) = address \/ (At(s[i]) = Absent /\ s[i] = address)}
  <1>1. pg.merchants = m /\ pg.payouts = q /\ json.merchants = s /\ json.payouts = q
    BY MerchantFields
  <1>2. \A x : J!Row(q, <<x, chain>>) = At(x)
    BY DEF J!Row, P!Row
  <1>3. /\ Cardinality(receivers) <= 1
        /\ address \in m => At(address) \in {Absent, address}
    BY <1>1 DEF PlainAddress
  <1>4. P!getMerchantByPayoutAddress(pg, chain, address) =
            IF mapped # {} THEN CHOOSE x \in mapped : TRUE
            ELSE IF address \in m THEN address ELSE Absent
    <2> DEFINE inPg == {x \in pg.merchants : P!Row(pg.payouts, <<x, chain>>) = address}
    <2>1. P!getMerchantByPayoutAddress(pg, chain, address) =
              IF inPg # {} THEN CHOOSE x \in inPg : TRUE
              ELSE IF address \in pg.merchants THEN address ELSE Absent
      BY DEF P!getMerchantByPayoutAddress
    <2>2. inPg = mapped
      BY <1>1
    <2> HIDE DEF inPg, mapped
    <2> QED BY <1>1, <2>1, <2>2
  <1>5. J!getMerchantByPayoutAddress(json, chain, address) =
            IF (IF found = {} THEN 0 ELSE J!Min(found)) = 0 THEN Absent
            ELSE s[IF found = {} THEN 0 ELSE J!Min(found)]
    <2> DEFINE inFile == {i \in DOMAIN json.merchants :
                             \/ J!Row(json.payouts, <<json.merchants[i], chain>>) = address
                             \/ /\ J!Row(json.payouts, <<json.merchants[i], chain>>) = Absent
                                /\ json.merchants[i] = address}
               at == IF inFile = {} THEN 0 ELSE J!Min(inFile)
    <2>1. J!getMerchantByPayoutAddress(json, chain, address) =
              IF at = 0 THEN Absent ELSE json.merchants[at]
      BY DEF J!getMerchantByPayoutAddress, J!FirstWhere
    <2>2. inFile = found
      BY <1>1, <1>2
    <2> HIDE DEF inFile, found
    <2> QED BY <1>1, <2>1, <2>2 DEF at
  <1>6. IsFiniteSet(m)
    BY OnceCount
  <1>7. IsFiniteSet(receivers) /\ Cardinality(receivers) \in Nat
    <2>1. receivers \in SUBSET m
      OBVIOUS
    <2> HIDE DEF receivers
    <2> QED BY <1>6, <2>1, FS_Subset, FS_CardinalityType
  <1>8. \A i \in DOMAIN s : s[i] \in m /\ i \in Nat \ {0}
    BY DEF ListsOnce, Lists
  <1>9. \A x \in receivers : At(x) = address \/ (At(x) = Absent /\ x = address)
    BY <1>3
  <1>10. \A x \in m : At(x) = address \/ (At(x) = Absent /\ x = address) => x \in receivers
    OBVIOUS
  <1>11. CASE receivers = {}
    <2>1. mapped = {} /\ address \notin m
      BY <1>11
    <2>2. found = {}
      BY <1>8, <1>10, <1>11
    <2> HIDE DEF mapped, found, receivers
    <2> QED BY <1>4, <1>5, <2>1, <2>2
  <1>12. CASE receivers # {}
    <2>1. PICK x : receivers = {x}
      <3>1. Cardinality(receivers) # 0
        <4> HIDE DEF receivers
        <4> QED BY <1>7, <1>12, FS_EmptySet
      <3>2. Cardinality(receivers) = 1
        <4> HIDE DEF receivers
        <4> QED BY <1>3, <1>7, <3>1
      <3> HIDE DEF receivers
      <3> QED BY <1>7, <3>2, FS_Singleton
    <2>2. x \in m
      BY <2>1
    <2>3. found # {} /\ found \in SUBSET Nat
      <3>1. PICK i \in DOMAIN s : s[i] = x
        BY <2>2 DEF ListsOnce, Lists
      <3>2. At(x) = address \/ (At(x) = Absent /\ x = address)
        <4>1. x \in receivers
          BY <2>1
        <4> QED BY <1>9, <4>1
      <3>3. i \in found
        BY <3>1, <3>2
      <3> QED BY <1>8, <3>3
    <2>4. J!Min(found) \in found
      <3> HIDE DEF found
      <3> QED BY <2>3, LeastChosen
    <2>5. s[J!Min(found)] \in receivers /\ J!Min(found) # 0
      BY <1>8, <1>10, <2>4
    <2>6. J!getMerchantByPayoutAddress(json, chain, address) = x
      <3> HIDE DEF found, receivers
      <3> QED BY <1>5, <2>1, <2>3, <2>5
    <2>7. CASE mapped = {}
      <3>1. m \cap {address} = {x}
        BY <2>1, <2>7
      <3>2. address \in m /\ address = x
        BY <3>1
      <3> HIDE DEF mapped
      <3> QED BY <1>4, <2>6, <2>7, <3>2
    <2>8. CASE mapped # {}
      <3>1. mapped = {x}
        BY <2>1, <2>8
      <3> HIDE DEF mapped
      <3> QED BY <1>4, <2>6, <3>1
    <2> QED BY <2>7, <2>8
  <1> QED BY <1>11, <1>12

LEMMA MerchantsSame ==
    ASSUME MerchantsRelated
    PROVE  SameMerchants
  <1>1. PICK m, s, q, c : /\ ListsOnce(s, m)
                          /\ pg = MerchantTables(m, q, c) /\ json = MerchantTables(s, q, c)
    BY DEF MerchantsRelated
  <1>2. /\ pg.merchants = m /\ json.merchants = s
        /\ pg.payouts = json.payouts /\ pg.cursors = json.cursors
    BY <1>1, MerchantFields
  <1>3. m = {s[i] : i \in DOMAIN s} /\ Len(s) = Cardinality(m)
    BY <1>1, OnceCount
  <1>4. \A chain \in Networks, address \in Owners :
            PlainAddress(chain, address) =>
                P!getMerchantByPayoutAddress(pg, chain, address) =
                J!getMerchantByPayoutAddress(json, chain, address)
    BY <1>1, SameReceiver
  <1> QED BY <1>2, <1>3, <1>4 DEF SameMerchants

-----------------------------------------------------------------------------
(* Deliveries of one order, in the order they were filed.                  *)

DeliveryRows ==
    [status : {"pending", "skipped", "delivered", "failed"},
     attempts : Nat, next : Nat, created : Nat, updated : Nat]

LastOf(s) == IF s = <<>> THEN Absent ELSE s[Len(s)]

\* None was filed after the one that follows it, nor after now.
FiledInOrder(t, s, now) ==
    /\ ListsOnce(s, DOMAIN t)
    /\ \A i, j \in DOMAIN s : i <= j => t[s[i]].created <= t[s[j]].created
    /\ \A id \in DOMAIN t : t[id].created <= now

PgTable(t) == [deliveries |-> t]

DeliveryTables(t, s, b) == [deliveries |-> t, order |-> s, byOrder |-> b]

\* What the dispatcher holds was read from a row that is still on file.
HeldOf(t, h) ==
    \/ h = Absent
    \/ /\ h.id \in DOMAIN t
       /\ h.row \in DeliveryRows
       /\ h.row.created = t[h.id].created

DeliveriesRelated ==
    \E t, s :
        /\ TableOf(t, Payments, DeliveryRows)
        /\ FiledInOrder(t, s, clock)
        /\ HeldOf(t, held)
        /\ pg = PgTable(t)
        /\ json = DeliveryTables(t, s, LastOf(s))

LEMMA PgTableFields ==
    ASSUME NEW t, NEW d, d = PgTable(t)
    PROVE  d.deliveries = t /\ \A x : [d EXCEPT !.deliveries = x] = PgTable(x)
  BY DEF PgTable, PgTableFields

LEMMA DeliveryFields ==
    ASSUME NEW t, NEW s, NEW b, NEW e, e = DeliveryTables(t, s, b)
    PROVE  /\ e.deliveries = t /\ e.order = s /\ e.byOrder = b
           /\ \A x : [e EXCEPT !.deliveries = x] = DeliveryTables(x, s, b)
           /\ \A x : [e EXCEPT !.byOrder = x] = DeliveryTables(t, s, x)
  BY DEF DeliveryTables

\* A row in its place, filed when it was.
LEMMA SameFiling ==
    ASSUME NEW t, TableOf(t, Payments, DeliveryRows), NEW s, NEW now, FiledInOrder(t, s, now),
           NEW u, DOMAIN u = DOMAIN t, \A id \in DOMAIN t : u[id].created = t[id].created
    PROVE  FiledInOrder(u, s, now)
  <1>1. \A i \in DOMAIN s : s[i] \in DOMAIN t
    BY DEF FiledInOrder, ListsOnce, Lists
  <1> QED BY <1>1 DEF FiledInOrder

\* A new one, filed now.
LEMMA FiledNow ==
    ASSUME NEW t, TableOf(t, Payments, DeliveryRows), NEW s, NEW now \in Nat,
           FiledInOrder(t, s, now), NEW id \in Payments \ DOMAIN t, NEW row \in DeliveryRows,
           row.created = now
    PROVE  FiledInOrder(Put(t, id, row), Append(s, id), now) /\ LastOf(Append(s, id)) = id
  <1> DEFINE u == Put(t, id, row)
             r == Append(s, id)
  <1>1. DOMAIN u = DOMAIN t \cup {id} /\ u[id] = row /\ \A k \in DOMAIN t : u[k] = t[k]
    BY DEF Put
  <1>2. ListsOnce(r, DOMAIN u)
    BY <1>1, OnceMore DEF FiledInOrder
  <1>3. /\ s \in Seq(DOMAIN t) /\ DOMAIN s = 1 .. Len(s) /\ Len(s) \in Nat
        /\ \A i \in DOMAIN s : s[i] \in DOMAIN t
    BY DEF FiledInOrder, ListsOnce, Lists
  <1>4. s \in Seq(DOMAIN t \cup {id})
    BY <1>3
  <1>5. /\ Len(r) = Len(s) + 1 /\ r[Len(s) + 1] = id
        /\ \A i \in 1 .. Len(s) : r[i] = s[i]
        /\ DOMAIN r = 1 .. Len(r)
    BY <1>3, <1>4
  <1>6. \A k \in DOMAIN u : u[k].created \in Nat /\ u[k].created <= now
    BY <1>1 DEF TableOf, DeliveryRows, FiledInOrder
  <1>7. ASSUME NEW i \in DOMAIN r, NEW j \in DOMAIN r, i <= j
        PROVE  u[r[i]].created <= u[r[j]].created
    <2>1. CASE j = Len(s) + 1
      <3>1. r[i] \in DOMAIN u
        BY <1>1, <1>3, <1>5
      <3>2. u[r[j]].created = now
        BY <1>1, <1>5, <2>1
      <3> QED BY <1>6, <3>1, <3>2
    <2>2. CASE j # Len(s) + 1
      <3>1. i \in DOMAIN s /\ j \in DOMAIN s
        BY <1>3, <1>5, <1>7, <2>2
      <3>2. r[i] = s[i] /\ r[j] = s[j]
        BY <1>3, <1>5, <3>1
      <3> QED BY <1>1, <1>3, <1>7, <3>1, <3>2 DEF FiledInOrder
    <2> QED BY <2>1, <2>2
  <1>8. r # <<>> /\ LastOf(r) = id
    BY <1>3, <1>5 DEF LastOf
  <1> HIDE DEF u, r
  <1>9. FiledInOrder(u, r, now)
    BY <1>2, <1>6, <1>7 DEF FiledInOrder
  <1> QED BY <1>8, <1>9 DEF u, r

LEMMA FileSame ==
    ASSUME NEW t, NEW s, NEW b, NEW d, NEW e, NEW id, NEW row, id \notin DOMAIN t,
           d = PgTable(t), e = DeliveryTables(t, s, b)
    PROVE  /\ P!insertDeliveryIfAbsent(d, id, row) =
                  [db |-> PgTable(Put(t, id, row)), answer |-> TRUE]
           /\ J!insertDeliveryIfAbsent(e, id, row) =
                  [db |-> DeliveryTables(Put(t, id, row), Append(s, id), id), answer |-> TRUE]
  <1>1. d.deliveries = t
    BY PgTableFields
  <1>2. P!Insert(t, id, row) = Put(t, id, row) /\ J!With(t, id, row) = Put(t, id, row)
    BY SameTableOps DEF P!Insert
  <1>3. [d EXCEPT !.deliveries = P!Insert(@, id, row)] = PgTable(Put(t, id, row))
    BY <1>1, <1>2, PgTableFields
  <1>4. P!insertDeliveryIfAbsent(d, id, row) =
            [db |-> [d EXCEPT !.deliveries = P!Insert(@, id, row)], answer |-> TRUE]
    BY <1>1 DEF P!insertDeliveryIfAbsent, P!Wrote
  <1>5. e.deliveries = t /\ e.order = s
    BY DeliveryFields
  <1> DEFINE more == [e EXCEPT !.deliveries = J!With(@, id, row), !.order = Append(@, id), !.byOrder = id]
  <1>6. J!insertDeliveryIfAbsent(e, id, row) = [db |-> more, answer |-> TRUE]
    BY <1>5 DEF J!insertDeliveryIfAbsent, J!Wrote
  <1>7. more = DeliveryTables(Put(t, id, row), Append(s, id), id)
    <2> DEFINE u == Put(t, id, row)
               r == Append(s, id)
               e1 == [e EXCEPT !.deliveries = u]
               e2 == [e1 EXCEPT !.order = r]
               e3 == [e2 EXCEPT !.byOrder = id]
    <2>1. J!With(e.deliveries, id, row) = u /\ Append(e.order, id) = r
      BY <1>2, <1>5
    <2> HIDE DEF u, r
    <2>2. more = [e EXCEPT !.deliveries = u, !.order = r, !.byOrder = id]
      BY <2>1
    <2>3. more = e3
      BY <2>2
    <2>4. e1 = [deliveries |-> u, order |-> s, byOrder |-> b]
      BY DEF DeliveryTables
    <2> HIDE DEF e1
    <2>5. e2 = [deliveries |-> u, order |-> r, byOrder |-> b]
      BY <2>4
    <2> HIDE DEF e2
    <2>6. e3 = [deliveries |-> u, order |-> r, byOrder |-> id]
      BY <2>5
    <2> HIDE DEF more, e3
    <2> QED BY <2>3, <2>6 DEF DeliveryTables, u, r
  <1> HIDE DEF more
  <1> QED BY <1>3, <1>4, <1>6, <1>7

LEMMA FileAgainSame ==
    ASSUME NEW t, NEW s, NEW b, NEW d, NEW e, NEW id \in DOMAIN t, NEW row,
           d = PgTable(t), e = DeliveryTables(t, s, b)
    PROVE  /\ P!insertDeliveryIfAbsent(d, id, row) = [db |-> d, answer |-> FALSE]
           /\ J!insertDeliveryIfAbsent(e, id, row) = [db |-> e, answer |-> FALSE]
  <1>1. d.deliveries = t /\ e.deliveries = t
    BY DeliveryFields, PgTableFields
  <1>2. P!Insert(t, id, row) = t
    BY DEF P!Insert
  <1>3. [d EXCEPT !.deliveries = P!Insert(@, id, row)] = d
    BY <1>1, <1>2, PgTableFields
  <1>4. P!insertDeliveryIfAbsent(d, id, row) =
            [db |-> [d EXCEPT !.deliveries = P!Insert(@, id, row)], answer |-> FALSE]
    BY <1>1 DEF P!insertDeliveryIfAbsent, P!Wrote
  <1>5. J!insertDeliveryIfAbsent(e, id, row) = [db |-> e, answer |-> FALSE]
    BY <1>1 DEF J!insertDeliveryIfAbsent, J!Wrote
  <1> QED BY <1>3, <1>4, <1>5

\* A row that has its created_at already is written by both as it is.
LEMMA UpdatedInPg ==
    ASSUME NEW t, NEW d, NEW id \in DOMAIN t, NEW row \in DeliveryRows,
           row.created = t[id].created, d = PgTable(t)
    PROVE  P!Updated(d, id, row) = PgTable(Put(t, id, row))
  <1>1. d.deliveries = t
    BY PgTableFields
  <1>2. [row EXCEPT !.created = t[id].created] = row
    BY DEF DeliveryRows
  <1> DEFINE kept == [row EXCEPT !.created = d.deliveries[id].created]
  <1>3. kept = row
    BY <1>1, <1>2
  <1>4. P!Updated(d, id, row) = [d EXCEPT !.deliveries = P!Update(@, id, kept)]
    BY DEF P!Updated
  <1> HIDE DEF kept
  <1>5. P!Update(t, id, kept) = Put(t, id, row)
    BY <1>3, SameTableOps DEF P!Update
  <1> QED BY <1>1, <1>4, <1>5, PgTableFields

LEMMA UpdatedInFile ==
    ASSUME NEW t, NEW s, NEW b, NEW e, NEW id, NEW row, e = DeliveryTables(t, s, b)
    PROVE  [e EXCEPT !.deliveries = J!With(@, id, row)] = DeliveryTables(Put(t, id, row), s, b)
  <1>1. e.deliveries = t
    BY DeliveryFields
  <1>2. J!With(t, id, row) = Put(t, id, row)
    BY SameTableOps
  <1> QED BY <1>1, <1>2 DEF DeliveryTables

LEMMA UpdateSame ==
    ASSUME NEW t, NEW s, NEW b, NEW d, NEW e, NEW id \in DOMAIN t, NEW row \in DeliveryRows,
           row.created = t[id].created,
           d = PgTable(t), e = DeliveryTables(t, s, b)
    PROVE  /\ P!updateDelivery(d, id, row) =
                  [db |-> PgTable(Put(t, id, row)), answer |-> "done"]
           /\ J!updateDelivery(e, id, row) =
                  [db |-> DeliveryTables(Put(t, id, row), s, b), answer |-> "done"]
  <1>1. d.deliveries = t
    BY PgTableFields
  <1>2. P!updateDelivery(d, id, row) = [db |-> P!Updated(d, id, row), answer |-> "done"]
    BY <1>1 DEF P!updateDelivery, P!Wrote
  <1>3. J!updateDelivery(e, id, row) =
             [db |-> [e EXCEPT !.deliveries = J!With(@, id, row)], answer |-> "done"]
    BY DEF J!updateDelivery, J!Wrote
  <1>4. P!Updated(d, id, row) = PgTable(Put(t, id, row))
    BY UpdatedInPg
  <1>5. [e EXCEPT !.deliveries = J!With(@, id, row)] = DeliveryTables(Put(t, id, row), s, b)
    BY UpdatedInFile
  <1> QED BY <1>2, <1>3, <1>4, <1>5

\* The compare and swap: both write it, or neither does.
LEMMA SwapSame ==
    ASSUME NEW t, NEW s, NEW b, NEW d, NEW e, NEW id \in DOMAIN t, NEW row \in DeliveryRows,
           row.created = t[id].created, NEW guard,
           d = PgTable(t), e = DeliveryTables(t, s, b)
    PROVE  \/ /\ P!updateDeliveryIfCurrent(d, id, row, guard) =
                     [db |-> PgTable(Put(t, id, row)), answer |-> TRUE]
              /\ J!updateDeliveryIfCurrent(e, id, row, guard) =
                     [db |-> DeliveryTables(Put(t, id, row), s, b), answer |-> TRUE]
           \/ /\ P!updateDeliveryIfCurrent(d, id, row, guard) = [db |-> d, answer |-> FALSE]
              /\ J!updateDeliveryIfCurrent(e, id, row, guard) = [db |-> e, answer |-> FALSE]
  <1> DEFINE current == /\ t[id].attempts = guard.attempts
                        /\ t[id].status = guard.status
                        /\ t[id].next = guard.next
                        /\ t[id].updated = guard.updated
             inFile == [e EXCEPT !.deliveries = J!With(@, id, row)]
  <1>1. d.deliveries = t /\ e.deliveries = t
    BY DeliveryFields, PgTableFields
  <1>2. P!updateDeliveryIfCurrent(d, id, row, guard) =
            IF current THEN [db |-> P!Updated(d, id, row), answer |-> TRUE]
            ELSE [db |-> d, answer |-> FALSE]
    BY <1>1 DEF P!updateDeliveryIfCurrent, P!Wrote
  <1>3. J!updateDeliveryIfCurrent(e, id, row, guard) =
            IF current THEN [db |-> inFile, answer |-> TRUE] ELSE [db |-> e, answer |-> FALSE]
    BY <1>1 DEF J!updateDeliveryIfCurrent, J!Wrote
  <1>4. P!Updated(d, id, row) = PgTable(Put(t, id, row))
    BY UpdatedInPg
  <1>5. inFile = DeliveryTables(Put(t, id, row), s, b)
    BY UpdatedInFile
  <1> HIDE DEF current, inFile
  <1> QED BY <1>2, <1>3, <1>4, <1>5

Again(row, now) == [row EXCEPT !.status = "pending", !.attempts = 0, !.next = now, !.updated = now]

\* A row queued again keeps its created_at.
LEMMA QueuedAgain ==
    ASSUME NEW row \in DeliveryRows, NEW now \in Nat
    PROVE  Again(row, now) \in DeliveryRows /\ Again(row, now).created = row.created
  BY DEF Again, DeliveryRows

LEMMA RequeueSame ==
    ASSUME NEW t, TableOf(t, Payments, DeliveryRows), NEW s, NEW b, NEW d, NEW e, NEW now \in Nat,
           d = PgTable(t), e = DeliveryTables(t, s, b)
    PROVE  \E u, a :
               /\ TableOf(u, Payments, DeliveryRows)
               /\ DOMAIN u = DOMAIN t
               /\ \A id \in DOMAIN t : u[id].created = t[id].created
               /\ P!requeueSkippedForMerchant(d, now) = [db |-> PgTable(u), answer |-> a]
               /\ J!requeueSkippedForMerchant(e, now) = [db |-> DeliveryTables(u, s, b), answer |-> a]
  <1> DEFINE skipped == {id \in DOMAIN t : t[id].status = "skipped"}
             u == [id \in DOMAIN t |-> IF id \in skipped THEN Again(t[id], now) ELSE t[id]]
             inPg == {id \in DOMAIN d.deliveries : d.deliveries[id].status = "skipped"}
             inFile == {id \in DOMAIN e.deliveries : e.deliveries[id].status = "skipped"}
             again == [id \in DOMAIN d.deliveries |->
                          IF id \in inPg THEN P!Requeued(d.deliveries[id], now)
                          ELSE d.deliveries[id]]
             againInFile == [id \in DOMAIN e.deliveries |->
                                IF id \in inFile THEN Again(e.deliveries[id], now)
                                ELSE e.deliveries[id]]
  <1>1. d.deliveries = t /\ e.deliveries = t
    BY DeliveryFields, PgTableFields
  <1>2. inPg = skipped /\ inFile = skipped
    BY <1>1
  <1>3. P!requeueSkippedForMerchant(d, now) =
            [db |-> [d EXCEPT !.deliveries = again], answer |-> Cardinality(inPg)]
    BY SameCardinality DEF P!requeueSkippedForMerchant, P!Wrote
  <1>4. J!requeueSkippedForMerchant(e, now) =
            [db |-> [e EXCEPT !.deliveries = againInFile], answer |-> Cardinality(inFile)]
    BY SameCardinality DEF J!requeueSkippedForMerchant, J!Wrote, Again
  <1>5. \A row : P!Requeued(row, now) = Again(row, now)
    BY DEF P!Requeued, Again
  <1>6. again = u /\ againInFile = u
    BY <1>1, <1>2, <1>5
  <1>7. \A id \in DOMAIN t :
            /\ t[id] \in DeliveryRows
            /\ Again(t[id], now) \in DeliveryRows /\ Again(t[id], now).created = t[id].created
    BY QueuedAgain DEF TableOf
  <1>8. /\ TableOf(u, Payments, DeliveryRows) /\ DOMAIN u = DOMAIN t
        /\ \A id \in DOMAIN t : u[id].created = t[id].created
    BY <1>7 DEF TableOf
  <1> DEFINE count == Cardinality(skipped)
  <1>11. Cardinality(inPg) = count /\ Cardinality(inFile) = count
    BY <1>2
  <1> HIDE DEF again, againInFile, u, inPg, inFile, skipped, count
  <1>9. [d EXCEPT !.deliveries = u] = PgTable(u)
    BY PgTableFields
  <1>10. [e EXCEPT !.deliveries = u] = DeliveryTables(u, s, b)
    BY DeliveryFields
  <1>12. /\ P!requeueSkippedForMerchant(d, now) = [db |-> PgTable(u), answer |-> count]
         /\ J!requeueSkippedForMerchant(e, now) = [db |-> DeliveryTables(u, s, b), answer |-> count]
    BY <1>3, <1>4, <1>6, <1>9, <1>10, <1>11
  <1> QED BY <1>8, <1>12

\* Of several rows one has the least value of a column, and one the greatest if there is a bound.
LEMMA LeastRow ==
    ASSUME NEW D, D # {}, NEW f \in [D -> Nat]
    PROVE  \E x \in D : \A y \in D : f[x] <= f[y]
  <1> DEFINE T == {f[x] : x \in D}
  <1>1. T \in SUBSET Nat /\ T # {}
    OBVIOUS
  <1>2. PICK n \in T : \A k \in T : n <= k
    <2> HIDE DEF T
    <2> QED BY <1>1, NatMin
  <1> QED BY <1>2

LEMMA GreatestRow ==
    ASSUME NEW D, D # {}, NEW f \in [D -> Nat], NEW n \in Nat, \A x \in D : f[x] <= n
    PROVE  \E x \in D : \A y \in D : f[y] <= f[x]
  <1> DEFINE g == [x \in D |-> n - f[x]]
  <1>1. g \in [D -> Nat] /\ \A x \in D : g[x] = n - f[x]
    OBVIOUS
  <1>2. PICK x \in D : \A y \in D : g[x] <= g[y]
    <2> HIDE DEF g
    <2> QED BY <1>1, LeastRow
  <1>3. \A y \in D : f[y] <= f[x]
    BY <1>1, <1>2
  <1> QED BY <1>3

DueIn(t, now) == {id \in DOMAIN t : t[id].status = "pending" /\ t[id].next <= now}

\* One of those that are due at the earliest.
EarliestIn(t, now) ==
    {id \in DueIn(t, now) : \A other \in DueIn(t, now) : t[id].next <= t[other].next}

LEMMA SomeEarliest ==
    ASSUME NEW t, TableOf(t, Payments, DeliveryRows), NEW now, DueIn(t, now) # {}
    PROVE  EarliestIn(t, now) # {}
  <1> DEFINE D == DueIn(t, now)
             f == [id \in D |-> t[id].next]
  <1>1. f \in [D -> Nat]
    BY DEF TableOf, DeliveryRows, DueIn
  <1>2. \A id \in D : f[id] = t[id].next
    OBVIOUS
  <1>3. \E x \in D : \A y \in D : f[x] <= f[y]
    <2> HIDE DEF f, D
    <2>1. D # {}
      BY DEF D
    <2> QED BY <1>1, <2>1, LeastRow
  <1> QED BY <1>2, <1>3 DEF EarliestIn

LEMMA NextDueInPg ==
    ASSUME NEW t, TableOf(t, Payments, DeliveryRows), NEW now, NEW d, d = PgTable(t)
    PROVE  /\ P!getDueDeliveries(d, now) = DueIn(t, now)
           /\ DueIn(t, now) = {} => P!NextDue(d, now) = Absent
           /\ DueIn(t, now) # {} => P!NextDue(d, now) \in EarliestIn(t, now)
  <1>1. d.deliveries = t
    BY PgTableFields
  <1>2. P!getDueDeliveries(d, now) = DueIn(t, now)
    BY <1>1 DEF P!getDueDeliveries, DueIn
  <1> DEFINE due == P!getDueDeliveries(d, now)
  <1>3. P!NextDue(d, now) =
            IF due = {} THEN Absent
            ELSE CHOOSE id \in due :
                     \A other \in due : d.deliveries[id].next <= d.deliveries[other].next
    BY DEF P!NextDue
  <1>4. DueIn(t, now) # {} =>
            P!NextDue(d, now) =
                CHOOSE id \in DueIn(t, now) :
                    \A other \in DueIn(t, now) : t[id].next <= t[other].next
    <2> HIDE DEF due
    <2>1. due = DueIn(t, now)
      BY <1>2 DEF due
    <2> QED BY <1>1, <1>3, <2>1
  <1>5. ASSUME DueIn(t, now) # {}
        PROVE  P!NextDue(d, now) \in EarliestIn(t, now)
    <2>1. \E id \in DueIn(t, now) : \A other \in DueIn(t, now) : t[id].next <= t[other].next
      BY <1>5, SomeEarliest DEF EarliestIn
    <2> QED BY <1>4, <1>5, <2>1 DEF EarliestIn
  <1>6. DueIn(t, now) = {} => P!NextDue(d, now) = Absent
    BY <1>2, <1>3
  <1> QED BY <1>2, <1>5, <1>6

LEMMA NextDueInFile ==
    ASSUME NEW t, TableOf(t, Payments, DeliveryRows), NEW s, Lists(s, DOMAIN t), NEW now,
           NEW b, NEW e, e = DeliveryTables(t, s, b)
    PROVE  /\ J!getDueDeliveries(e, now) = DueIn(t, now)
           /\ DueIn(t, now) = {} => J!NextDue(e, now) = Absent
           /\ DueIn(t, now) # {} => J!NextDue(e, now) \in EarliestIn(t, now)
  <1>1. e.deliveries = t /\ e.order = s
    BY DeliveryFields
  <1>2. J!getDueDeliveries(e, now) = DueIn(t, now)
    BY <1>1 DEF J!getDueDeliveries, DueIn
  <1> DEFINE due == J!getDueDeliveries(e, now)
             inFile == {i \in DOMAIN e.order :
                           /\ e.order[i] \in due
                           /\ \A other \in due :
                                 e.deliveries[e.order[i]].next <= e.deliveries[other].next}
             found == {i \in DOMAIN s : s[i] \in EarliestIn(t, now)}
             at == IF inFile = {} THEN 0 ELSE J!Min(inFile)
  <1>3. J!NextDue(e, now) = IF at = 0 THEN Absent ELSE e.order[at]
    BY DEF J!NextDue, J!FirstWhere
  <1>4. inFile = found
    <2> HIDE DEF due
    <2>1. due = DueIn(t, now)
      BY <1>2 DEF due
    <2> QED BY <1>1, <2>1 DEF EarliestIn
  <1>5. \A i \in DOMAIN s : s[i] \in DOMAIN t /\ i \in Nat \ {0}
    BY DEF Lists
  <1>6. ASSUME DueIn(t, now) = {}
        PROVE  J!NextDue(e, now) = Absent
    <2>1. found = {}
      BY <1>6 DEF EarliestIn
    <2> HIDE DEF inFile, found
    <2> QED BY <1>3, <1>4, <2>1
  <1>7. ASSUME DueIn(t, now) # {}
        PROVE  J!NextDue(e, now) \in EarliestIn(t, now)
    <2>1. PICK id : id \in EarliestIn(t, now)
      BY <1>7, SomeEarliest
    <2>2. id \in DOMAIN t
      BY <2>1 DEF EarliestIn, DueIn
    <2>3. found # {} /\ found \in SUBSET Nat
      <3>1. PICK i \in DOMAIN s : s[i] = id
        BY <2>2 DEF Lists
      <3> QED BY <1>5, <2>1, <3>1
    <2>4. J!Min(found) \in found
      <3> HIDE DEF found
      <3> QED BY <2>3, LeastChosen
    <2>5. s[J!Min(found)] \in EarliestIn(t, now) /\ J!Min(found) # 0
      BY <1>5, <2>4
    <2> HIDE DEF inFile, found
    <2> QED BY <1>1, <1>3, <1>4, <2>3, <2>5
  <1> QED BY <1>2, <1>6, <1>7

\* The last that was filed is the latest of them.
LEMMA LatestSame ==
    ASSUME NEW t, TableOf(t, Payments, DeliveryRows), NEW s, NEW now \in Nat,
           FiledInOrder(t, s, now), NEW d, NEW e,
           d = PgTable(t), e = DeliveryTables(t, s, LastOf(s)),
           \A a, b \in DOMAIN t : a # b => t[a].created # t[b].created
    PROVE  P!getDeliveryByOrder(d) = J!getDeliveryByOrder(e)
  <1>1. d.deliveries = t /\ e.byOrder = LastOf(s)
    BY DeliveryFields, PgTableFields
  <1>2. P!getDeliveryByOrder(d) =
            IF DOMAIN t = {} THEN Absent
            ELSE CHOOSE id \in DOMAIN t : \A other \in DOMAIN t : t[other].created <= t[id].created
    BY <1>1 DEF P!getDeliveryByOrder
  <1>3. J!getDeliveryByOrder(e) = LastOf(s)
    BY <1>1 DEF J!getDeliveryByOrder
  <1>4. /\ s \in Seq(DOMAIN t) /\ DOMAIN s = 1 .. Len(s) /\ Len(s) \in Nat
        /\ \A i \in DOMAIN s : s[i] \in DOMAIN t
    BY DEF FiledInOrder, ListsOnce, Lists
  <1>5. CASE DOMAIN t = {}
    <2>1. s = <<>>
      <3>1. Len(s) = 0
        BY <1>4, <1>5
      <3> QED BY <1>4, <3>1
    <2> QED BY <1>2, <1>3, <1>5, <2>1 DEF LastOf
  <1>6. CASE DOMAIN t # {}
    <2>1. PICK x : x \in DOMAIN t
      BY <1>6
    <2>2. PICK k \in DOMAIN s : s[k] = x
      BY <2>1 DEF FiledInOrder, ListsOnce, Lists
    <2>3. Len(s) \in DOMAIN s /\ s # <<>>
      BY <1>4, <2>2
    <2> DEFINE last == s[Len(s)]
    <2>4. last \in DOMAIN t /\ LastOf(s) = last
      BY <1>4, <2>3 DEF LastOf
    <2>5. ASSUME NEW other \in DOMAIN t
          PROVE  t[other].created <= t[last].created
      <3>1. PICK j \in DOMAIN s : s[j] = other
        BY DEF FiledInOrder, ListsOnce, Lists
      <3>2. j <= Len(s)
        BY <1>4
      <3> QED BY <2>3, <3>1, <3>2 DEF FiledInOrder
    <2>6. \A id \in DOMAIN t : t[id].created \in Nat
      BY DEF TableOf, DeliveryRows
    <2> HIDE DEF last
    <2>7. ASSUME NEW id \in DOMAIN t, \A other \in DOMAIN t : t[other].created <= t[id].created
          PROVE  id = last
      <3>1. t[last].created <= t[id].created /\ t[id].created <= t[last].created
        BY <2>4, <2>5, <2>7
      <3>2. t[last].created = t[id].created
        BY <2>4, <2>6, <3>1
      <3> QED BY <2>4, <3>2
    <2>8. (CHOOSE id \in DOMAIN t : \A other \in DOMAIN t : t[other].created <= t[id].created) = last
      BY <2>4, <2>5, <2>7
    <2> QED BY <1>2, <1>3, <1>6, <2>4, <2>8
  <1> QED BY <1>5, <1>6

LEMMA DeliveriesSame ==
    ASSUME DeliveriesRelated, clock \in Nat
    PROVE  SameDeliveries
  <1>1. PICK t, s : /\ TableOf(t, Payments, DeliveryRows)
                    /\ FiledInOrder(t, s, clock)
                    /\ pg = PgTable(t) /\ json = DeliveryTables(t, s, LastOf(s))
    BY DEF DeliveriesRelated
  <1>2. pg.deliveries = t /\ json.deliveries = t
    BY <1>1, DeliveryFields, PgTableFields
  <1>3. Lists(s, DOMAIN t)
    BY <1>1 DEF FiledInOrder, ListsOnce
  <1> DEFINE b == LastOf(s)
  <1>4. json = DeliveryTables(t, s, b)
    BY <1>1
  <1> HIDE DEF b
  <1>5. /\ P!getDueDeliveries(pg, clock) = DueIn(t, clock)
        /\ DueIn(t, clock) = {} => P!NextDue(pg, clock) = Absent
        /\ DueIn(t, clock) # {} => P!NextDue(pg, clock) \in EarliestIn(t, clock)
    BY <1>1, NextDueInPg
  <1>6. /\ J!getDueDeliveries(json, clock) = DueIn(t, clock)
        /\ DueIn(t, clock) = {} => J!NextDue(json, clock) = Absent
        /\ DueIn(t, clock) # {} => J!NextDue(json, clock) \in EarliestIn(t, clock)
    BY <1>1, <1>3, <1>4, NextDueInFile
  <1>7. ASSUME \A x, y \in DOMAIN t : x # y => t[x].next # t[y].next
        PROVE  P!NextDue(pg, clock) = J!NextDue(json, clock)
    <2>1. \A x, y \in EarliestIn(t, clock) : x = y
      <3>1. \A x, y \in EarliestIn(t, clock) : t[x].next <= t[y].next /\ t[y].next <= t[x].next
        BY DEF EarliestIn
      <3>2. \A x \in EarliestIn(t, clock) : x \in DOMAIN t /\ t[x].next \in Nat
        BY <1>1 DEF EarliestIn, DueIn, TableOf, DeliveryRows
      <3> QED BY <1>7, <3>1, <3>2
    <2> QED BY <1>5, <1>6, <2>1
  <1>8. ASSUME \A x, y \in DOMAIN t : x # y => t[x].created # t[y].created
        PROVE  P!getDeliveryByOrder(pg) = J!getDeliveryByOrder(json)
    BY <1>1, <1>8, LatestSame
  <1> QED BY <1>2, <1>5, <1>6, <1>7, <1>8 DEF SameDeliveries, AllDiffer

\* The index that is built again is the one there was.
LEMMA DeliveriesRead ==
    ASSUME NEW t, NEW s, NEW e, e = DeliveryTables(t, s, LastOf(s))
    PROVE  J!indexDeliveries(e) = e
  <1>1. e.order = s /\ e.byOrder = LastOf(s)
    BY DeliveryFields
  <1> DEFINE built == IF e.order = <<>> THEN Absent ELSE J!Last(e.order)
  <1>2. built = LastOf(s)
    BY <1>1 DEF LastOf, J!Last
  <1>3. J!indexDeliveries(e) = [e EXCEPT !.byOrder = built]
    BY DEF J!indexDeliveries
  <1> HIDE DEF built
  <1>4. [e EXCEPT !.byOrder = built] = DeliveryTables(t, s, built)
    BY DeliveryFields
  <1> QED BY <1>2, <1>3, <1>4

LEMMA DeliveriesAgree ==
    ASSUME DeliveryCalls, DeliveriesRelated, agree, clock \in Nat
    PROVE  agree' /\ DeliveriesRelated'
  <1>1. PICK t, s : /\ TableOf(t, Payments, DeliveryRows)
                    /\ FiledInOrder(t, s, clock)
                    /\ HeldOf(t, held)
                    /\ pg = PgTable(t) /\ json = DeliveryTables(t, s, LastOf(s))
    BY DEF DeliveriesRelated
  <1>2. pg.deliveries = t
    BY <1>1, PgTableFields
  <1> DEFINE b == LastOf(s)
  <1>0. pg = PgTable(t) /\ json = DeliveryTables(t, s, b) /\ b = LastOf(s)
    BY <1>1
  <1> HIDE DEF b
  <1>a. HeldOf(t, held)
    BY <1>1
  <1>3. ASSUME NEW u, NEW r, NEW x,
               agree' /\ pg' = PgTable(u) /\ json' = DeliveryTables(u, r, x) /\ clock' = clock,
               x = LastOf(r), TableOf(u, Payments, DeliveryRows), FiledInOrder(u, r, clock),
               HeldOf(u, held')
        PROVE  agree' /\ DeliveriesRelated'
    <2>1. FiledInOrder(u, r, clock')
      BY <1>3
    <2> QED BY <1>3, <2>1 DEF DeliveriesRelated
  <1>4. ASSUME NEW id \in Payments, NEW status \in {"pending", "skipped"}, FileDelivery(id, status)
        PROVE  agree' /\ DeliveriesRelated'
    <2> DEFINE row == [status |-> status, attempts |-> 0, next |-> clock, created |-> clock,
                       updated |-> clock]
               p == P!insertDeliveryIfAbsent(pg, id, row)
               j == J!insertDeliveryIfAbsent(json, id, row)
    <2>1. Differing(p, j, FALSE) /\ held' = held
      BY <1>4 DEF FileDelivery, Both
    <2>2. row \in DeliveryRows /\ row.created = clock
      BY DEF DeliveryRows
    <2> HIDE DEF row
    <2>3. CASE id \in DOMAIN t
      <3>1. p = [db |-> pg, answer |-> FALSE] /\ j = [db |-> json, answer |-> FALSE]
        BY <1>0, <2>3, FileAgainSame
      <3>2. HeldOf(t, held')
        BY <1>1, <2>1 DEF HeldOf
      <3> HIDE DEF p, j
      <3>3. agree' /\ pg' = pg /\ json' = json /\ clock' = clock
        BY <2>1, <3>1, CalledAlike
      <3> QED BY <1>0, <1>1, <1>3, <3>2, <3>3
    <2>4. CASE id \notin DOMAIN t
      <3> DEFINE u == Put(t, id, row)
                 r == Append(s, id)
      <3>1. /\ p = [db |-> PgTable(u), answer |-> TRUE]
            /\ j = [db |-> DeliveryTables(u, r, id), answer |-> TRUE]
        <4> HIDE DEF u, r
        <4>1. ASSUME u = Put(t, id, row), r = Append(s, id)
              PROVE  /\ p = [db |-> PgTable(u), answer |-> TRUE]
                     /\ j = [db |-> DeliveryTables(u, r, id), answer |-> TRUE]
          BY <1>0, <2>4, <4>1, FileSame
        <4> QED BY <4>1 DEF u, r
      <3>2. TableOf(u, Payments, DeliveryRows)
        BY <1>1, <2>2, PutTable
      <3>3. FiledInOrder(u, r, clock) /\ LastOf(r) = id
        BY <1>1, <2>2, <2>4, FiledNow
      <3>4. HeldOf(u, held')
        BY <1>1, <2>1, <2>4 DEF HeldOf, Put
      <3> HIDE DEF p, j, u, r
      <3>5. agree' /\ pg' = PgTable(u) /\ json' = DeliveryTables(u, r, id) /\ clock' = clock
        BY <2>1, <3>1, CalledAlike
      <3> QED BY <1>3, <3>2, <3>3, <3>4, <3>5
    <2> QED BY <2>3, <2>4
  <1>5. ASSUME TakeDue
        PROVE  agree' /\ DeliveriesRelated'
    <2> DEFINE id == P!NextDue(pg, clock)
    <2>1. id \in DOMAIN t
      <3>1. /\ DueIn(t, clock) = {} => P!NextDue(pg, clock) = Absent
            /\ DueIn(t, clock) # {} => P!NextDue(pg, clock) \in EarliestIn(t, clock)
        BY <1>1, NextDueInPg
      <3> QED BY <1>5, <3>1 DEF TakeDue, EarliestIn, DueIn
    <2>2. held' = [id |-> id, row |-> t[id]] /\ UNCHANGED <<group, pg, json, agree, parted, clock>>
      BY <1>2, <1>5 DEF TakeDue
    <2> HIDE DEF id
    <2>3. HeldOf(t, held')
      BY <1>1, <2>1, <2>2 DEF HeldOf, TableOf
    <2>4. agree' /\ pg' = pg /\ json' = json /\ clock' = clock
      BY <2>2
    <2> QED BY <1>1, <2>3, <2>4 DEF DeliveriesRelated
  <1>6. ASSUME RecordAttempt
        PROVE  agree' /\ DeliveriesRelated'
    <2>1. /\ held # Absent /\ held' = Absent
          /\ \E status \in {"delivered", "pending", "failed"} :
                LET row == [held.row EXCEPT !.status = status, !.attempts = @ + 1,
                                            !.next = clock + 1, !.updated = clock]
                IN  Differing(P!updateDeliveryIfCurrent(pg, held.id, row, held.row),
                              J!updateDeliveryIfCurrent(json, held.id, row, held.row), FALSE)
      BY <1>6 DEF RecordAttempt
    <2> DEFINE id == held.id
               guard == held.row
    <2>2. id \in DOMAIN t /\ guard \in DeliveryRows /\ guard.created = t[id].created
      BY <1>1, <2>1 DEF HeldOf
    <2>3. PICK status \in {"delivered", "pending", "failed"} :
              LET row == [guard EXCEPT !.status = status, !.attempts = @ + 1,
                                       !.next = clock + 1, !.updated = clock]
              IN  Differing(P!updateDeliveryIfCurrent(pg, id, row, guard),
                            J!updateDeliveryIfCurrent(json, id, row, guard), FALSE)
      BY <2>1
    <2> HIDE DEF id, guard
    <2> DEFINE row == [guard EXCEPT !.status = status, !.attempts = @ + 1,
                                    !.next = clock + 1, !.updated = clock]
               p == P!updateDeliveryIfCurrent(pg, id, row, guard)
               j == J!updateDeliveryIfCurrent(json, id, row, guard)
    <2>4. row \in DeliveryRows /\ row.created = t[id].created
      <3> DEFINE r1 == [guard EXCEPT !.status = status]
                 r2 == [r1 EXCEPT !.attempts = guard.attempts + 1]
                 r3 == [r2 EXCEPT !.next = clock + 1]
                 r4 == [r3 EXCEPT !.updated = clock]
      <3>1. row = r4
        OBVIOUS
      <3>2. r1 \in DeliveryRows /\ r1.created = guard.created
        BY <2>2 DEF DeliveryRows
      <3> HIDE DEF r1
      <3>3. r2 \in DeliveryRows /\ r2.created = guard.created
        BY <2>2, <3>2 DEF DeliveryRows
      <3> HIDE DEF r2
      <3>4. r3 \in DeliveryRows /\ r3.created = guard.created
        BY <3>3 DEF DeliveryRows
      <3> HIDE DEF r3
      <3>5. r4 \in DeliveryRows /\ r4.created = guard.created
        BY <3>4 DEF DeliveryRows
      <3> HIDE DEF row, r4
      <3> QED BY <2>2, <3>1, <3>5
    <2>5. Differing(p, j, FALSE)
      BY <2>3
    <2> HIDE DEF row
    <2>7. \/ /\ p = [db |-> PgTable(Put(t, id, row)), answer |-> TRUE]
             /\ j = [db |-> DeliveryTables(Put(t, id, row), s, b), answer |-> TRUE]
          \/ p = [db |-> pg, answer |-> FALSE] /\ j = [db |-> json, answer |-> FALSE]
      BY <1>0, <2>2, <2>4, SwapSame
    <2> HIDE DEF p, j
    <2>8. HeldOf(t, held') /\ HeldOf(Put(t, id, row), held')
      BY <2>1 DEF HeldOf
    <2>9. CASE p = [db |-> pg, answer |-> FALSE] /\ j = [db |-> json, answer |-> FALSE]
      <3>1. agree' /\ pg' = pg /\ json' = json /\ clock' = clock
        BY <2>5, <2>9, CalledAlike
      <3> QED BY <1>0, <1>1, <1>3, <2>8, <3>1
    <2>10. CASE /\ p = [db |-> PgTable(Put(t, id, row)), answer |-> TRUE]
                /\ j = [db |-> DeliveryTables(Put(t, id, row), s, b), answer |-> TRUE]
      <3> DEFINE u == Put(t, id, row)
      <3>1. TableOf(u, Payments, DeliveryRows)
        BY <1>1, <2>2, <2>4, PutTable DEF TableOf
      <3>2. DOMAIN u = DOMAIN t /\ \A k \in DOMAIN t : u[k].created = t[k].created
        BY <2>2, <2>4 DEF Put
      <3> HIDE DEF u
      <3>3. FiledInOrder(u, s, clock)
        BY <1>1, <3>2, SameFiling
      <3>4. HeldOf(u, held')
        BY <2>8 DEF u
      <3>5. /\ p = [db |-> PgTable(u), answer |-> TRUE]
            /\ j = [db |-> DeliveryTables(u, s, b), answer |-> TRUE]
        BY <2>10 DEF u
      <3>6. agree' /\ pg' = PgTable(u) /\ json' = DeliveryTables(u, s, b) /\ clock' = clock
        BY <2>5, <3>5, CalledAlike
      <3> QED BY <1>0, <1>3, <3>1, <3>3, <3>4, <3>6
    <2> QED BY <2>7, <2>9, <2>10
  <1>7. ASSUME NEW id \in DOMAIN t, Retry(id)
        PROVE  agree' /\ DeliveriesRelated'
    <2> DEFINE row == [t[id] EXCEPT !.status = "pending", !.attempts = 0,
                                    !.next = clock, !.updated = clock]
               p == P!updateDelivery(pg, id, row)
               j == J!updateDelivery(json, id, row)
               u == Put(t, id, row)
    <2>1. Differing(p, j, FALSE) /\ held' = held
      BY <1>2, <1>7 DEF Retry, Both
    <2>2. row = Again(t[id], clock) /\ t[id] \in DeliveryRows
      BY <1>1 DEF Again, TableOf
    <2> HIDE DEF row
    <2>3. row \in DeliveryRows /\ row.created = t[id].created
      BY <2>2, QueuedAgain
    <2>5. /\ p = [db |-> PgTable(u), answer |-> "done"]
          /\ j = [db |-> DeliveryTables(u, s, b), answer |-> "done"]
      BY <1>0, <2>3, UpdateSame
    <2>6. TableOf(u, Payments, DeliveryRows)
      BY <1>1, <2>3, PutTable DEF TableOf
    <2>7. DOMAIN u = DOMAIN t /\ \A k \in DOMAIN t : u[k].created = t[k].created
      BY <2>3 DEF Put
    <2> HIDE DEF p, j, u
    <2>8. FiledInOrder(u, s, clock)
      BY <1>1, <2>7, SameFiling
    <2>9. HeldOf(u, held')
      <3>1. held' = held
        BY <2>1
      <3> QED BY <1>a, <2>7, <3>1 DEF HeldOf
    <2>10. agree' /\ pg' = PgTable(u) /\ json' = DeliveryTables(u, s, b) /\ clock' = clock
      BY <2>1, <2>5, CalledAlike
    <2> QED BY <1>0, <1>3, <2>6, <2>8, <2>9, <2>10
  <1>8. ASSUME Both(P!requeueSkippedForMerchant(pg, clock), J!requeueSkippedForMerchant(json, clock))
        PROVE  agree' /\ DeliveriesRelated'
    <2> DEFINE p == P!requeueSkippedForMerchant(pg, clock)
               j == J!requeueSkippedForMerchant(json, clock)
    <2>1. Differing(p, j, FALSE) /\ held' = held
      BY <1>8 DEF Both
    <2>2. PICK u, a :
              /\ TableOf(u, Payments, DeliveryRows)
              /\ DOMAIN u = DOMAIN t
              /\ \A id \in DOMAIN t : u[id].created = t[id].created
              /\ p = [db |-> PgTable(u), answer |-> a]
              /\ j = [db |-> DeliveryTables(u, s, b), answer |-> a]
      BY <1>0, <1>1, RequeueSame
    <2> HIDE DEF p, j
    <2>3. DOMAIN u = DOMAIN t /\ \A id \in DOMAIN t : u[id].created = t[id].created
      BY <2>2
    <2>4. FiledInOrder(u, s, clock)
      BY <1>1, <2>3, SameFiling
    <2>5. HeldOf(u, held')
      <3>1. held' = held
        BY <2>1
      <3> QED BY <1>a, <2>3, <3>1 DEF HeldOf
    <2>6. agree' /\ pg' = PgTable(u) /\ json' = DeliveryTables(u, s, b) /\ clock' = clock
      BY <2>1, <2>2, CalledAlike
    <2> QED BY <1>0, <1>3, <2>2, <2>4, <2>5, <2>6
  <1> QED BY <1>2, <1>4, <1>5, <1>6, <1>7, <1>8 DEF DeliveryCalls

-----------------------------------------------------------------------------
(* A payment link and its claims, in the order they were made.             *)

ClaimRows == [payer : Payers \cup {"qi"}, at : Nat, settled : BOOLEAN]

Links ==
    [chain : Networks, pool : Seq(PoolOrders), cap : {0, LinkCap}, fixed : {Absent, Pool[1]}]

\* The claim of an order, as the array has it, and the array of the claims of a table.
InArray(order, row) ==
    [order |-> order, payer |-> row.payer, at |-> row.at, settled |-> row.settled]

ArrayOf(o, t) == [i \in DOMAIN o |-> InArray(o[i], t[o[i]])]

ClaimTables(l, c) == [link |-> l, claims |-> c]

\* The orders that a link has left are of no claim yet, and each is there once.
PoolOf(l, t) ==
    l = Absent \/
        /\ l \in Links
        /\ l.fixed # Absent => l.pool = <<>>
        /\ \A i, j \in DOMAIN l.pool : l.pool[i] = l.pool[j] => i = j
        /\ \A i \in DOMAIN l.pool : l.pool[i] \notin DOMAIN t

ClaimsOf(o, t) == TableOf(t, DOMAIN t, ClaimRows) /\ ListsOnce(o, DOMAIN t)

ClaimsRelated ==
    \E l, o, t :
        /\ ClaimsOf(o, t)
        /\ PoolOf(l, t)
        /\ pg = ClaimTables(l, t)
        /\ json = ClaimTables(l, ArrayOf(o, t))

LEMMA ClaimFields ==
    ASSUME NEW l, NEW c, NEW db, db = ClaimTables(l, c)
    PROVE  /\ db.link = l /\ db.claims = c
           /\ \A x : [db EXCEPT !.link = x] = ClaimTables(x, c)
           /\ \A x : [db EXCEPT !.claims = x] = ClaimTables(l, x)
  BY DEF ClaimTables

BothWritten(db, x, y) == [db EXCEPT !.link = x, !.claims = y]

LEMMA BothFields ==
    ASSUME NEW l, NEW c, NEW db, db = ClaimTables(l, c), NEW x, NEW y
    PROVE  BothWritten(db, x, y) = ClaimTables(x, y)
  <1> DEFINE db1 == [db EXCEPT !.link = x]
             db2 == [db1 EXCEPT !.claims = y]
  <1>1. BothWritten(db, x, y) = db2
    BY DEF BothWritten
  <1>2. db1 = [link |-> x, claims |-> c]
    BY DEF ClaimTables
  <1> HIDE DEF db1
  <1>3. db2 = [link |-> x, claims |-> y]
    BY <1>2
  <1> QED BY <1>1, <1>3 DEF ClaimTables

LEMMA ArrayFacts ==
    ASSUME NEW o, NEW t, ClaimsOf(o, t)
    PROVE  /\ ArrayOf(o, t) \in Seq({InArray(o[i], t[o[i]]) : i \in DOMAIN o})
           /\ DOMAIN ArrayOf(o, t) = DOMAIN o /\ DOMAIN o = 1 .. Len(o) /\ Len(o) \in Nat
           /\ Len(ArrayOf(o, t)) = Len(o)
           /\ \A i \in DOMAIN o : o[i] \in DOMAIN t /\ t[o[i]] \in ClaimRows
           /\ \A i \in DOMAIN o : ArrayOf(o, t)[i] = InArray(o[i], t[o[i]])
           /\ \A k \in DOMAIN t : \E i \in DOMAIN o : o[i] = k
           /\ \A i, j \in DOMAIN o : o[i] = o[j] => i = j
  <1>1. /\ o \in Seq(DOMAIN t) /\ \A k \in DOMAIN t : \E i \in DOMAIN o : o[i] = k
        /\ \A i, j \in DOMAIN o : o[i] = o[j] => i = j
    BY DEF ClaimsOf, ListsOnce, Lists
  <1>2. /\ DOMAIN o = 1 .. Len(o) /\ Len(o) \in Nat
        /\ \A i \in DOMAIN o : o[i] \in DOMAIN t /\ t[o[i]] \in ClaimRows
    BY <1>1 DEF ClaimsOf, TableOf
  <1> DEFINE S == {InArray(o[i], t[o[i]]) : i \in DOMAIN o}
             a == ArrayOf(o, t)
  <1>3. DOMAIN a = DOMAIN o /\ \A i \in DOMAIN o : a[i] = InArray(o[i], t[o[i]])
    BY DEF ArrayOf
  <1>4. a = [i \in 1 .. Len(o) |-> InArray(o[i], t[o[i]])]
    BY <1>2 DEF ArrayOf
  <1>5. a \in [1 .. Len(o) -> S]
    BY <1>2, <1>4
  <1> HIDE DEF a, S
  <1>6. a \in Seq(S) /\ Len(a) = Len(o)
    BY <1>2, <1>5
  <1> QED BY <1>1, <1>2, <1>3, <1>6 DEF a, S

LEMMA InArrayFields ==
    ASSUME NEW order, NEW row
    PROVE  /\ InArray(order, row).order = order /\ InArray(order, row).payer = row.payer
           /\ InArray(order, row).at = row.at /\ InArray(order, row).settled = row.settled
  BY DEF InArray

\* A claim of an order that has none.
LEMMA ClaimAdded ==
    ASSUME NEW o, NEW t, ClaimsOf(o, t), NEW k, k \notin DOMAIN t, NEW row \in ClaimRows
    PROVE  /\ ClaimsOf(Append(o, k), Put(t, k, row))
           /\ Append(ArrayOf(o, t), InArray(k, row)) = ArrayOf(Append(o, k), Put(t, k, row))
  <1> DEFINE u == Put(t, k, row)
             r == Append(o, k)
             a == ArrayOf(o, t)
             x == InArray(k, row)
             S == {InArray(o[i], t[o[i]]) : i \in DOMAIN o} \cup {x}
  <1>1. DOMAIN u = DOMAIN t \cup {k} /\ u[k] = row /\ \A j \in DOMAIN t : u[j] = t[j]
    BY DEF Put
  <1>2. ListsOnce(r, DOMAIN u)
    BY <1>1, OnceMore DEF ClaimsOf
  <1>3. TableOf(u, DOMAIN u, ClaimRows)
    BY <1>1 DEF ClaimsOf, TableOf, Put
  <1>4. /\ DOMAIN a = DOMAIN o /\ DOMAIN o = 1 .. Len(o) /\ Len(o) \in Nat /\ Len(a) = Len(o)
        /\ \A i \in DOMAIN o : o[i] \in DOMAIN t /\ a[i] = InArray(o[i], t[o[i]])
    BY ArrayFacts
  <1>5. a \in Seq(S) /\ x \in S
    <2>1. a \in Seq({InArray(o[i], t[o[i]]) : i \in DOMAIN o})
      BY ArrayFacts
    <2> HIDE DEF a, x
    <2> QED BY <2>1, SeqMonotonic
  <1>6. o \in Seq(DOMAIN u) /\ k \in DOMAIN u
    <2>1. o \in Seq(DOMAIN t) /\ DOMAIN t \subseteq DOMAIN u /\ k \in DOMAIN u
      BY <1>1 DEF ClaimsOf, ListsOnce, Lists
    <2> HIDE DEF u
    <2> QED BY <2>1, SeqMonotonic
  <1> HIDE DEF a, x, S, u
  <1>7. /\ r \in Seq(DOMAIN u) /\ Len(r) = Len(o) + 1 /\ r[Len(o) + 1] = k
        /\ \A i \in 1 .. Len(o) : r[i] = o[i]
    BY <1>6
  <1>8. DOMAIN r = 1 .. Len(o) + 1
    BY <1>7
  <1> HIDE DEF r
  <1>9. Append(a, x) = ArrayOf(r, u)
    <2> DEFINE b == Append(a, x)
               c == ArrayOf(r, u)
    <2>1. /\ b \in Seq(S) /\ Len(b) = Len(o) + 1 /\ b[Len(o) + 1] = x
          /\ \A i \in 1 .. Len(o) : b[i] = a[i]
      BY <1>4, <1>5
    <2> HIDE DEF b
    <2>2. DOMAIN b = 1 .. Len(o) + 1 /\ b = [i \in 1 .. Len(b) |-> b[i]]
      BY <2>1
    <2> USE DEF b
    <2>3. c = [i \in 1 .. Len(o) + 1 |-> InArray(r[i], u[r[i]])]
      BY <1>8 DEF ArrayOf
    <2>4. \A i \in 1 .. Len(o) + 1 : b[i] = InArray(r[i], u[r[i]])
      <3>1. \A i \in 1 .. Len(o) : b[i] = InArray(r[i], u[r[i]])
        BY <1>1, <1>4, <1>7, <2>1
      <3>2. b[Len(o) + 1] = InArray(r[Len(o) + 1], u[r[Len(o) + 1]])
        BY <1>1, <1>7, <2>1 DEF x
      <3>3. \A i \in 1 .. Len(o) + 1 : i \in 1 .. Len(o) \/ i = Len(o) + 1
        BY <1>4
      <3> HIDE DEF b
      <3> QED BY <3>1, <3>2, <3>3
    <2> HIDE DEF b, c
    <2>5. b = c
      BY <2>2, <2>3, <2>4
    <2> QED BY <2>5 DEF b, c
  <1> QED BY <1>2, <1>3, <1>9 DEF ClaimsOf, u, r, a, x

LEMMA PutFacts ==
    ASSUME NEW t, NEW k \in DOMAIN t, NEW row
    PROVE  DOMAIN Put(t, k, row) = DOMAIN t /\ [t EXCEPT ![k] = row] = Put(t, k, row)
  BY DEF Put

\* A claim written anew: the array has the same orders.
LEMMA ClaimRewritten ==
    ASSUME NEW o, NEW t, ClaimsOf(o, t), NEW i \in DOMAIN o, NEW row \in ClaimRows
    PROVE  /\ ClaimsOf(o, Put(t, o[i], row)) /\ DOMAIN Put(t, o[i], row) = DOMAIN t
           /\ [ArrayOf(o, t) EXCEPT ![i] = InArray(o[i], row)] = ArrayOf(o, Put(t, o[i], row))
  <1> DEFINE u == Put(t, o[i], row)
  <1>1. /\ o[i] \in DOMAIN t
        /\ \A j \in DOMAIN o : o[j] \in DOMAIN t
        /\ \A j \in DOMAIN o : o[j] = o[i] => j = i
    BY ArrayFacts
  <1>2. DOMAIN u = DOMAIN t /\ u[o[i]] = row /\ \A k \in DOMAIN t : k # o[i] => u[k] = t[k]
    BY <1>1 DEF Put
  <1>3. TableOf(u, DOMAIN u, ClaimRows)
    <2>1. TableOf(u, DOMAIN t, ClaimRows)
      BY <1>1, PutTable DEF ClaimsOf
    <2> QED BY <1>2, <2>1
  <1>4. [ArrayOf(o, t) EXCEPT ![i] = InArray(o[i], row)] =
            [j \in DOMAIN o |-> IF j = i THEN InArray(o[i], row) ELSE InArray(o[j], t[o[j]])]
    BY DEF ArrayOf
  <1> HIDE DEF u
  <1>5. \A j \in DOMAIN o : (IF j = i THEN InArray(o[i], row) ELSE InArray(o[j], t[o[j]])) =
                            InArray(o[j], u[o[j]])
    BY <1>1, <1>2
  <1>6. [ArrayOf(o, t) EXCEPT ![i] = InArray(o[i], row)] = ArrayOf(o, u)
    BY <1>4, <1>5 DEF ArrayOf
  <1> QED BY <1>2, <1>3, <1>6 DEF ClaimsOf, u

\* The claim handed to a payer, and the claim settled.
Moved(row, payer, now) == [payer |-> payer, at |-> now, settled |-> row.settled]

MarkedSettled(row) == [payer |-> row.payer, at |-> row.at, settled |-> TRUE]

MovedTo(row, payer, now) == [row EXCEPT !.payer = payer, !.at = now]

LEMMA MovedRow ==
    ASSUME NEW row \in ClaimRows, NEW payer \in Payers \cup {"qi"}, NEW now \in Nat, NEW k
    PROVE  /\ Moved(row, payer, now) \in ClaimRows
           /\ MovedTo(row, payer, now) = Moved(row, payer, now)
           /\ MovedTo(InArray(k, row), payer, now) = InArray(k, Moved(row, payer, now))
  <1> DEFINE r1 == [row EXCEPT !.payer = payer]
             r2 == [r1 EXCEPT !.at = now]
             a == InArray(k, row)
             a1 == [a EXCEPT !.payer = payer]
             a2 == [a1 EXCEPT !.at = now]
  <1>1. Moved(row, payer, now) \in ClaimRows
    BY DEF Moved, ClaimRows
  <1>2. MovedTo(row, payer, now) = r2 /\ MovedTo(a, payer, now) = a2
    BY DEF MovedTo
  <1>3. row = [payer |-> row.payer, at |-> row.at, settled |-> row.settled]
    BY DEF ClaimRows
  <1>4. r1 = [payer |-> payer, at |-> row.at, settled |-> row.settled]
    BY <1>3
  <1> HIDE DEF r1
  <1>5. r2 = Moved(row, payer, now)
    BY <1>4 DEF Moved
  <1>6. a1 = [order |-> k, payer |-> payer, at |-> row.at, settled |-> row.settled]
    BY DEF InArray
  <1> HIDE DEF a1
  <1>7. a2 = [order |-> k, payer |-> payer, at |-> now, settled |-> row.settled]
    BY <1>6
  <1>8. InArray(k, Moved(row, payer, now)) =
            [order |-> k, payer |-> payer, at |-> now, settled |-> row.settled]
    BY DEF InArray, Moved
  <1> QED BY <1>1, <1>2, <1>5, <1>7, <1>8

LEMMA SettledRow ==
    ASSUME NEW row \in ClaimRows, NEW k
    PROVE  /\ MarkedSettled(row) \in ClaimRows
           /\ [row EXCEPT !.settled = TRUE] = MarkedSettled(row)
           /\ [InArray(k, row) EXCEPT !.settled = TRUE] = InArray(k, MarkedSettled(row))
  <1>1. MarkedSettled(row) \in ClaimRows
    BY DEF MarkedSettled, ClaimRows
  <1>2. \A x : [row EXCEPT !.settled = x] = [payer |-> row.payer, at |-> row.at, settled |-> x]
    BY DEF ClaimRows
  <1>3. \A x : [InArray(k, row) EXCEPT !.settled = x] =
                   [order |-> k, payer |-> row.payer, at |-> row.at, settled |-> x]
    BY DEF InArray
  <1>4. InArray(k, MarkedSettled(row)) =
            [order |-> k, payer |-> row.payer, at |-> row.at, settled |-> TRUE]
    BY DEF InArray, MarkedSettled
  <1>5. [row EXCEPT !.settled = TRUE] = MarkedSettled(row)
    BY <1>2, Zenon DEF MarkedSettled
  <1>6. [InArray(k, row) EXCEPT !.settled = TRUE] = InArray(k, MarkedSettled(row))
    BY <1>3, <1>4, Zenon
  <1> QED BY <1>1, <1>5, <1>6

\* The two answer alike, and leave a link and claims that agree.
SameClaimCall(p, j) ==
    \E l, o, t, a :
        /\ ClaimsOf(o, t)
        /\ PoolOf(l, t)
        /\ p = [db |-> ClaimTables(l, t), answer |-> a]
        /\ j = [db |-> ClaimTables(l, ArrayOf(o, t)), answer |-> a]

\* The position of the claim of an order.
LEMMA ClaimFound ==
    ASSUME NEW l, NEW o, NEW t, NEW e, ClaimsOf(o, t), e = ClaimTables(l, ArrayOf(o, t)), NEW k
    PROVE  /\ k \in DOMAIN t => J!ClaimOf(e, k) \in DOMAIN o /\ o[J!ClaimOf(e, k)] = k
           /\ k \notin DOMAIN t => J!ClaimOf(e, k) = 0
  <1> DEFINE a == ArrayOf(o, t)
             found == {i \in DOMAIN e.claims : e.claims[i].order = k}
             there == {i \in DOMAIN o : o[i] = k}
  <1>1. e.claims = a
    BY ClaimFields
  <1>2. /\ DOMAIN a = DOMAIN o /\ DOMAIN o \subseteq Nat
        /\ \A i \in DOMAIN o : o[i] \in DOMAIN t /\ a[i] = InArray(o[i], t[o[i]])
        /\ \A d \in DOMAIN t : \E i \in DOMAIN o : o[i] = d
    <2>1. DOMAIN o = 1 .. Len(o) /\ Len(o) \in Nat
      BY ArrayFacts
    <2>2. DOMAIN o \subseteq Nat
      BY <2>1
    <2>3. DOMAIN a = DOMAIN o
      BY ArrayFacts
    <2>4. \A i \in DOMAIN o : a[i] = InArray(o[i], t[o[i]])
      BY ArrayFacts
    <2>5. \A i \in DOMAIN o : o[i] \in DOMAIN t
      BY ArrayFacts
    <2>6. \A d \in DOMAIN t : \E i \in DOMAIN o : o[i] = d
      BY ArrayFacts
    <2> HIDE DEF a
    <2> QED BY <2>2, <2>3, <2>4, <2>5, <2>6
  <1>3. \A i \in DOMAIN o : a[i].order = o[i]
    BY <1>2, InArrayFields
  <1>4. J!ClaimOf(e, k) = IF found = {} THEN 0 ELSE J!Min(found)
    BY DEF J!ClaimOf, J!FirstWhere
  <1>5. found = there
    BY <1>1, <1>2, <1>3
  <1>6. ASSUME k \in DOMAIN t
        PROVE  J!ClaimOf(e, k) \in DOMAIN o /\ o[J!ClaimOf(e, k)] = k
    <2>1. there # {} /\ there \in SUBSET Nat
      BY <1>2, <1>6
    <2> HIDE DEF found
    <2>2. J!Min(there) \in there
      BY <2>1, LeastChosen
    <2> QED BY <1>4, <1>5, <2>1, <2>2
  <1>7. ASSUME k \notin DOMAIN t
        PROVE  J!ClaimOf(e, k) = 0
    <2>1. there = {}
      BY <1>2, <1>7
    <2> HIDE DEF found, there
    <2> QED BY <1>4, <1>5, <2>1
  <1> QED BY <1>6, <1>7

LEMMA UpsertLinkSame ==
    ASSUME NEW l, NEW o, NEW t, NEW d, NEW e, d = ClaimTables(l, t), e = ClaimTables(l, ArrayOf(o, t)),
           ClaimsOf(o, t), NEW link \in NewLinks, StoresAssumption
    PROVE  SameClaimCall(P!upsertLink(d, link), J!upsertLink(e, link))
  <1>1. P!upsertLink(d, link) = [db |-> ClaimTables(link, t), answer |-> "done"]
    <2>1. [d EXCEPT !.link = link] = ClaimTables(link, t)
      BY ClaimFields
    <2> QED BY <2>1 DEF P!upsertLink, P!Wrote
  <1>2. J!upsertLink(e, link) = [db |-> ClaimTables(link, ArrayOf(o, t)), answer |-> "done"]
    <2>1. [e EXCEPT !.link = link] = ClaimTables(link, ArrayOf(o, t))
      BY ClaimFields
    <2> QED BY <2>1 DEF J!upsertLink, J!Wrote
  <1>3. PoolOf(link, t)
    <2>1. link \in Links /\ link.pool = <<>>
      <3>1. DefaultChain \in Networks /\ <<>> \in Seq(PoolOrders)
        BY DEF StoresAssumption
      <3>2. \A chain \in Networks, pool \in Seq(PoolOrders), cap \in {0, LinkCap},
               fixed \in {Absent, Pool[1]} :
               [chain |-> chain, pool |-> pool, cap |-> cap, fixed |-> fixed] \in Links
        BY DEF Links
      <3>3. \/ link = [chain |-> DefaultChain, pool |-> <<>>, cap |-> LinkCap, fixed |-> Absent]
            \/ link = [chain |-> DefaultChain, pool |-> <<>>, cap |-> 0, fixed |-> Pool[1]]
        BY DEF NewLinks
      <3>4. CASE link = [chain |-> DefaultChain, pool |-> <<>>, cap |-> LinkCap, fixed |-> Absent]
        <4>1. link.pool = <<>>
          BY <3>4
        <4>2. LinkCap \in {0, LinkCap} /\ Absent \in {Absent, Pool[1]}
          OBVIOUS
        <4> QED BY <3>1, <3>2, <3>4, <4>1, <4>2, Zenon
      <3>5. CASE link = [chain |-> DefaultChain, pool |-> <<>>, cap |-> 0, fixed |-> Pool[1]]
        <4>1. link.pool = <<>>
          BY <3>5
        <4>2. 0 \in {0, LinkCap} /\ Pool[1] \in {Absent, Pool[1]}
          OBVIOUS
        <4> QED BY <3>1, <3>2, <3>5, <4>1, <4>2, Zenon
      <3> QED BY <3>3, <3>4, <3>5
    <2>2. DOMAIN link.pool = {}
      BY <2>1
    <2> QED BY <2>1, <2>2 DEF PoolOf
  <1> QED BY <1>1, <1>2, <1>3 DEF SameClaimCall

\* What the pool and a claim of its first order leave.
LEMMA PoolTaken ==
    ASSUME NEW l \in Links, NEW t, PoolOf(l, t), l # Absent, l.pool # <<>>, NEW row
    PROVE  /\ Head(l.pool) \notin DOMAIN t
           /\ PoolOf([l EXCEPT !.pool = Tail(@)], Put(t, Head(l.pool), row))
  <1> DEFINE s == l.pool
             k == Head(l.pool)
             r == Tail(l.pool)
             m == [l EXCEPT !.pool = Tail(@)]
             u == Put(t, k, row)
  <1>1. s \in Seq(PoolOrders) /\ s # <<>>
    BY DEF Links
  <1>2. /\ \A i, j \in DOMAIN s : s[i] = s[j] => i = j
        /\ \A i \in DOMAIN s : s[i] \notin DOMAIN t
        /\ l.fixed = Absent
    BY <1>1 DEF PoolOf
  <1>3. l = [chain |-> l.chain, pool |-> l.pool, cap |-> l.cap, fixed |-> l.fixed]
    BY DEF Links
  <1>4. m = [chain |-> l.chain, pool |-> r, cap |-> l.cap, fixed |-> l.fixed]
    <2>1. \A x : [l EXCEPT !.pool = x] =
                     [chain |-> l.chain, pool |-> x, cap |-> l.cap, fixed |-> l.fixed]
      BY <1>3
    <2>2. m = [l EXCEPT !.pool = r]
      OBVIOUS
    <2> QED BY <2>1, <2>2, Zenon
  <1> HIDE DEF s, k, r, m
  <1>5. /\ Len(s) \in Nat /\ Len(s) >= 1 /\ DOMAIN s = 1 .. Len(s)
        /\ r \in Seq(PoolOrders) /\ DOMAIN r = 1 .. Len(s) - 1
        /\ \A i \in DOMAIN r : r[i] = s[i + 1]
        /\ k = s[1]
    <2>1. Len(s) \in Nat /\ Len(s) # 0 /\ DOMAIN s = 1 .. Len(s)
      BY <1>1, EmptySeq
    <2>2. r \in Seq(PoolOrders) /\ Len(r) = Len(s) - 1 /\ \A i \in 1 .. Len(r) : r[i] = s[i + 1]
      BY <1>1, HeadTailProperties DEF r, s
    <2>3. k = s[1]
      BY <1>1, HeadTailProperties DEF k, s
    <2> QED BY <2>1, <2>2, <2>3
  <1>6. k \notin DOMAIN t
    BY <1>2, <1>5
  <1>7. m \in Links /\ m.fixed = Absent /\ m.pool = r
    <2>1. m.chain = l.chain /\ m.pool = r /\ m.cap = l.cap /\ m.fixed = l.fixed
      BY <1>4
    <2>2. l.chain \in Networks /\ l.cap \in {0, LinkCap} /\ l.fixed \in {Absent, Pool[1]}
      BY DEF Links
    <2> QED BY <1>2, <1>4, <1>5, <2>1, <2>2 DEF Links
  <1>8. \A i \in DOMAIN r : i \in Nat /\ i + 1 \in DOMAIN s /\ i + 1 # 1
    BY <1>5
  <1>9. \A i, j \in DOMAIN r : r[i] = r[j] => i = j
    BY <1>2, <1>5, <1>8
  <1>10. \A i \in DOMAIN r : r[i] \notin DOMAIN t /\ r[i] # k
    <2> SUFFICES ASSUME NEW i \in DOMAIN r
                 PROVE  r[i] \notin DOMAIN t /\ r[i] # k
      OBVIOUS
    <2>1. r[i] = s[i + 1] /\ i + 1 \in DOMAIN s /\ 1 \in DOMAIN s /\ i + 1 # 1
      BY <1>5, <1>8
    <2> QED BY <1>2, <1>5, <2>1
  <1>11. DOMAIN u = DOMAIN t \cup {k}
    BY DEF Put
  <1>12. PoolOf(m, u)
    <2> HIDE DEF u
    <2> QED BY <1>7, <1>9, <1>10, <1>11 DEF PoolOf
  <1> QED BY <1>6, <1>12 DEF k, m, s

LEMMA NoClaimMade ==
    ASSUME NEW l, NEW o, NEW t, NEW d, NEW e, NEW a, d = ClaimTables(l, t),
           e = ClaimTables(l, ArrayOf(o, t)), ClaimsOf(o, t), PoolOf(l, t)
    PROVE  SameClaimCall([db |-> d, answer |-> a], [db |-> e, answer |-> a])
  BY DEF SameClaimCall

LEMMA ClaimBegun ==
    ASSUME NEW payer \in Payers \cup {"qi"}, NEW now \in Nat, NEW k
    PROVE  /\ P!NewClaim(payer, now) \in ClaimRows
           /\ J!NewClaim(k, payer, now) = InArray(k, P!NewClaim(payer, now))
  BY DEF P!NewClaim, J!NewClaim, InArray, ClaimRows

LEMMA PoolClaimSame ==
    ASSUME NEW l, NEW o, NEW t, NEW d, NEW e, d = ClaimTables(l, t), e = ClaimTables(l, ArrayOf(o, t)),
           ClaimsOf(o, t), PoolOf(l, t), NEW payer \in Payers \cup {"qi"}, NEW now \in Nat
    PROVE  SameClaimCall(P!claimOrderFromPool(d, payer, now), J!claimOrderFromPool(e, payer, now))
  <1> DEFINE k == Head(l.pool)
             row == P!NewClaim(payer, now)
             m == [l EXCEPT !.pool = Tail(@)]
             u == Put(t, k, row)
             r == Append(o, k)
  <1>1. d.link = l /\ d.claims = t /\ e.link = l /\ e.claims = ArrayOf(o, t)
    BY ClaimFields
  <1>2. CASE l = Absent \/ l.pool = <<>>
    <2>1. /\ P!claimOrderFromPool(d, payer, now) = [db |-> d, answer |-> Absent]
          /\ J!claimOrderFromPool(e, payer, now) = [db |-> e, answer |-> Absent]
      BY <1>1, <1>2 DEF P!claimOrderFromPool, J!claimOrderFromPool, P!Wrote, J!Wrote
    <2> QED BY <2>1, NoClaimMade
  <1>3. CASE l # Absent /\ l.pool # <<>>
    <2>1. row \in ClaimRows /\ J!NewClaim(k, payer, now) = InArray(k, row)
      BY ClaimBegun
    <2>2. l \in Links
      BY <1>3 DEF PoolOf
    <2>3. k \notin DOMAIN t /\ PoolOf(m, u)
      BY <1>3, <2>2, PoolTaken
    <2>4. P!Insert(t, k, row) = u
      BY <2>3, SameTableOps DEF P!Insert
    <2>5. P!claimOrderFromPool(d, payer, now) =
              [db |-> BothWritten(d, m, P!Insert(t, k, row)), answer |-> k]
      BY <1>1, <1>3 DEF P!claimOrderFromPool, P!Wrote, BothWritten
    <2>6. J!claimOrderFromPool(e, payer, now) =
              [db |-> BothWritten(e, m, Append(ArrayOf(o, t), J!NewClaim(k, payer, now))),
               answer |-> k]
      BY <1>1, <1>3 DEF J!claimOrderFromPool, J!Wrote, BothWritten
    <2>7. ClaimsOf(r, u) /\ Append(ArrayOf(o, t), InArray(k, row)) = ArrayOf(r, u)
      BY <2>1, <2>3, ClaimAdded
    <2> HIDE DEF k, row, m, u, r
    <2>8. BothWritten(d, m, u) = ClaimTables(m, u)
      BY BothFields
    <2>9. BothWritten(e, m, ArrayOf(r, u)) = ClaimTables(m, ArrayOf(r, u))
      BY BothFields
    <2>10. P!claimOrderFromPool(d, payer, now) = [db |-> ClaimTables(m, u), answer |-> k]
      BY <2>4, <2>5, <2>8
    <2>11. J!claimOrderFromPool(e, payer, now) = [db |-> ClaimTables(m, ArrayOf(r, u)), answer |-> k]
      BY <2>1, <2>6, <2>7, <2>9
    <2> QED BY <2>3, <2>7, <2>10, <2>11 DEF SameClaimCall
  <1> QED BY <1>2, <1>3

\* An order whose id is new, and in no pool.
LEMMA OtherOrder ==
    ASSUME NEW l, NEW t, PoolOf(l, t), NEW k, NEW row,
           l # Absent => \A i \in DOMAIN l.pool : l.pool[i] # k
    PROVE  PoolOf(l, Put(t, k, row))
  <1> DEFINE u == Put(t, k, row)
  <1>1. DOMAIN u = DOMAIN t \cup {k}
    BY DEF Put
  <1> HIDE DEF u
  <1>2. PoolOf(l, u)
    BY <1>1 DEF PoolOf
  <1> QED BY <1>2 DEF u

LEMMA MintSame ==
    ASSUME NEW l, NEW o, NEW t, NEW d, NEW e, d = ClaimTables(l, t), e = ClaimTables(l, ArrayOf(o, t)),
           ClaimsOf(o, t), PoolOf(l, t), NEW k \in Minted, k \notin DOMAIN t, StoresAssumption,
           NEW payer \in Payers \cup {"qi"}, NEW cap, NEW now \in Nat
    PROVE  SameClaimCall(P!mintClaimedOrder(d, k, payer, cap, now), J!mintClaimedOrder(e, k, payer, cap, now))
  <1> DEFINE row == P!NewClaim(payer, now)
             u == Put(t, k, row)
             r == Append(o, k)
             full == l = Absent \/ (cap > 0 /\ Len(o) >= cap)
  <1>1. d.link = l /\ d.claims = t /\ e.link = l /\ e.claims = ArrayOf(o, t)
    BY ClaimFields
  <1>2. Len(ArrayOf(o, t)) = Len(o)
    BY ArrayFacts
  <1>3. P!Cardinality(DOMAIN t) = Len(o)
    BY OnceCount, SameCardinality DEF ClaimsOf
  <1>4. P!mintClaimedOrder(d, k, payer, cap, now) =
            IF full THEN [db |-> d, answer |-> Absent]
            ELSE [db |-> [d EXCEPT !.claims = P!Insert(t, k, row)], answer |-> k]
    BY <1>1, <1>3 DEF P!mintClaimedOrder, P!Wrote
  <1>5. J!mintClaimedOrder(e, k, payer, cap, now) =
            IF full THEN [db |-> e, answer |-> Absent]
            ELSE [db |-> [e EXCEPT !.claims = Append(ArrayOf(o, t), J!NewClaim(k, payer, now))],
                  answer |-> k]
    BY <1>1, <1>2 DEF J!mintClaimedOrder, J!Wrote
  <1>6. row \in ClaimRows /\ J!NewClaim(k, payer, now) = InArray(k, row)
    BY ClaimBegun
  <1>7. P!Insert(t, k, row) = u
    BY SameTableOps DEF P!Insert
  <1>8. ClaimsOf(r, u) /\ Append(ArrayOf(o, t), InArray(k, row)) = ArrayOf(r, u)
    BY <1>6, ClaimAdded
  <1>9. PoolOf(l, u)
    <2>1. l # Absent => \A i \in DOMAIN l.pool : l.pool[i] \in PoolOrders
      BY DEF PoolOf, Links
    <2>2. PoolOrders \cap Minted = {}
      BY DEF StoresAssumption, PoolOfEach
    <2> QED BY <2>1, <2>2, OtherOrder
  <1>10. [d EXCEPT !.claims = u] = ClaimTables(l, u)
    BY ClaimFields
  <1>11. [e EXCEPT !.claims = ArrayOf(r, u)] = ClaimTables(l, ArrayOf(r, u))
    BY ClaimFields
  <1> HIDE DEF row, u, r, full
  <1>12. CASE full
    <2>1. /\ P!mintClaimedOrder(d, k, payer, cap, now) = [db |-> d, answer |-> Absent]
          /\ J!mintClaimedOrder(e, k, payer, cap, now) = [db |-> e, answer |-> Absent]
      BY <1>4, <1>5, <1>12
    <2> QED BY <2>1, NoClaimMade
  <1>13. CASE ~full
    <2>1. P!mintClaimedOrder(d, k, payer, cap, now) = [db |-> ClaimTables(l, u), answer |-> k]
      BY <1>4, <1>7, <1>10, <1>13
    <2>2. J!mintClaimedOrder(e, k, payer, cap, now) = [db |-> ClaimTables(l, ArrayOf(r, u)), answer |-> k]
      BY <1>5, <1>6, <1>8, <1>11, <1>13
    <2> QED BY <1>8, <1>9, <2>1, <2>2 DEF SameClaimCall
  <1> QED BY <1>12, <1>13

LEMMA ClaimCallSame ==
    ASSUME NEW l, NEW o, NEW t, ClaimsOf(o, t), PoolOf(l, t), NEW a, NEW p, NEW j,
           p = [db |-> ClaimTables(l, t), answer |-> a],
           j = [db |-> ClaimTables(l, ArrayOf(o, t)), answer |-> a]
    PROVE  SameClaimCall(p, j)
  BY DEF SameClaimCall

\* A claim that both write anew, at its position and under its order.
LEMMA RewriteSame ==
    ASSUME NEW l, NEW o, NEW t, NEW d, NEW e, d = ClaimTables(l, t), e = ClaimTables(l, ArrayOf(o, t)),
           ClaimsOf(o, t), PoolOf(l, t), NEW i \in DOMAIN o, NEW row \in ClaimRows, NEW answer,
           NEW p, NEW j,
           p = [db |-> [d EXCEPT !.claims = Put(t, o[i], row)], answer |-> answer],
           j = [db |-> [e EXCEPT !.claims = [ArrayOf(o, t) EXCEPT ![i] = InArray(o[i], row)]],
                answer |-> answer]
    PROVE  SameClaimCall(p, j)
  <1> DEFINE u == Put(t, o[i], row)
  <1>1. /\ ClaimsOf(o, u) /\ DOMAIN u = DOMAIN t
        /\ [ArrayOf(o, t) EXCEPT ![i] = InArray(o[i], row)] = ArrayOf(o, u)
    BY ClaimRewritten
  <1>2. [d EXCEPT !.claims = u] = ClaimTables(l, u)
    BY ClaimFields
  <1>3. [e EXCEPT !.claims = ArrayOf(o, u)] = ClaimTables(l, ArrayOf(o, u))
    BY ClaimFields
  <1>4. PoolOf(l, u)
    <2> HIDE DEF u
    <2> QED BY <1>1 DEF PoolOf
  <1> HIDE DEF u
  <1>5. p = [db |-> ClaimTables(l, u), answer |-> answer]
    BY <1>2 DEF u
  <1>6. j = [db |-> ClaimTables(l, ArrayOf(o, u)), answer |-> answer]
    BY <1>1, <1>3 DEF u
  <1>7. ClaimsOf(o, u)
    BY <1>1
  <1> QED BY <1>4, <1>5, <1>6, <1>7, ClaimCallSame

\* Both hand the claim to the payer, or both settle it.
LEMMA HandedOver ==
    ASSUME NEW o, NEW t, ClaimsOf(o, t), NEW i \in DOMAIN o,
           NEW payer \in Payers \cup {"qi"}, NEW now \in Nat
    PROVE  \E row \in ClaimRows :
               /\ P!Reassign(t, o[i], payer, now) = Put(t, o[i], row)
               /\ J!Reassign(ArrayOf(o, t), i, payer, now) =
                      [ArrayOf(o, t) EXCEPT ![i] = InArray(o[i], row)]
  <1> DEFINE old == t[o[i]]
             a == ArrayOf(o, t)
             row == Moved(old, payer, now)
  <1>1. o[i] \in DOMAIN t /\ old \in ClaimRows
    BY ArrayFacts
  <1>2. a[i] = InArray(o[i], old)
    <2>1. \A k \in DOMAIN o : ArrayOf(o, t)[k] = InArray(o[k], t[o[k]])
      BY ArrayFacts
    <2> QED BY <2>1, Zenon
  <1>3. /\ row \in ClaimRows
        /\ MovedTo(old, payer, now) = row
        /\ MovedTo(InArray(o[i], old), payer, now) = InArray(o[i], row)
    BY <1>1, MovedRow
  <1>4. P!Reassign(t, o[i], payer, now) = [t EXCEPT ![o[i]] = MovedTo(old, payer, now)]
    BY DEF P!Reassign, MovedTo
  <1>5. J!Reassign(a, i, payer, now) = [a EXCEPT ![i] = MovedTo(a[i], payer, now)]
    BY DEF J!Reassign, MovedTo
  <1>6. [t EXCEPT ![o[i]] = row] = Put(t, o[i], row)
    BY <1>1, PutFacts
  <1> HIDE DEF row, a
  <1>7. P!Reassign(t, o[i], payer, now) = Put(t, o[i], row)
    BY <1>3, <1>4, <1>6
  <1>8. J!Reassign(a, i, payer, now) = [a EXCEPT ![i] = InArray(o[i], row)]
    BY <1>2, <1>3, <1>5
  <1> QED BY <1>3, <1>7, <1>8 DEF a

LEMMA SettleSame ==
    ASSUME NEW l, NEW o, NEW t, NEW d, NEW e, d = ClaimTables(l, t), e = ClaimTables(l, ArrayOf(o, t)),
           ClaimsOf(o, t), PoolOf(l, t), NEW k \in DOMAIN t
    PROVE  SameClaimCall(P!settleClaimedOrder(d, k), J!settleClaimedOrder(e, k))
  <1> DEFINE i == J!ClaimOf(e, k)
             a == ArrayOf(o, t)
             row == MarkedSettled(t[k])
             p == P!settleClaimedOrder(d, k)
             j == J!settleClaimedOrder(e, k)
  <1>1. d.claims = t /\ e.claims = a
    BY ClaimFields
  <1>2. i \in DOMAIN o /\ o[i] = k
    BY ClaimFound
  <1>3. i # 0
    <2>1. DOMAIN o = 1 .. Len(o) /\ Len(o) \in Nat
      BY ArrayFacts
    <2> HIDE DEF i
    <2> QED BY <1>2, <2>1
  <1> HIDE DEF i
  <1>4. a[i] = InArray(k, t[k]) /\ t[k] \in ClaimRows
    BY <1>2, ArrayFacts
  <1>5. /\ row \in ClaimRows /\ [t[k] EXCEPT !.settled = TRUE] = row
        /\ [InArray(k, t[k]) EXCEPT !.settled = TRUE] = InArray(k, row)
    BY <1>4, SettledRow
  <1>6. p = [db |-> [d EXCEPT !.claims = [t EXCEPT ![k] = [t[k] EXCEPT !.settled = TRUE]]],
             answer |-> "done"]
    BY <1>1 DEF P!settleClaimedOrder, P!Wrote
  <1>7. j = [db |-> [e EXCEPT !.claims = [a EXCEPT ![i] = [a[i] EXCEPT !.settled = TRUE]]],
             answer |-> "done"]
    <2>1. [e EXCEPT !.claims[i] = [@ EXCEPT !.settled = TRUE]] =
              [e EXCEPT !.claims = [e.claims EXCEPT ![i] = [e.claims[i] EXCEPT !.settled = TRUE]]]
      OBVIOUS
    <2> QED BY <1>1, <1>3, <2>1 DEF J!settleClaimedOrder, J!Wrote, i
  <1>8. [t EXCEPT ![k] = row] = Put(t, k, row)
    BY PutFacts
  <1> HIDE DEF row, a, p, j
  <1>9. p = [db |-> [d EXCEPT !.claims = Put(t, o[i], row)], answer |-> "done"]
    BY <1>2, <1>5, <1>6, <1>8
  <1>10. j = [db |-> [e EXCEPT !.claims = [ArrayOf(o, t) EXCEPT ![i] = InArray(o[i], row)]],
              answer |-> "done"]
    BY <1>2, <1>4, <1>5, <1>7 DEF a
  <1>11. SameClaimCall(p, j)
    BY <1>2, <1>5, <1>9, <1>10, RewriteSame
  <1> QED BY <1>11 DEF p, j

LEMMA FixedSame ==
    ASSUME NEW l, NEW o, NEW t, NEW d, NEW e, d = ClaimTables(l, t), e = ClaimTables(l, ArrayOf(o, t)),
           ClaimsOf(o, t), PoolOf(l, t), l # Absent, l.fixed # Absent, NEW k,
           NEW payer \in Payers \cup {"qi"}, NEW stale \in Nat, NEW now \in Nat
    PROVE  SameClaimCall(P!claimFixedOrder(d, k, payer, stale, now),
                         J!claimFixedOrder(e, k, payer, stale, now))
  <1> DEFINE p == P!claimFixedOrder(d, k, payer, stale, now)
             j == J!claimFixedOrder(e, k, payer, stale, now)
             i == J!ClaimOf(e, k)
             a == ArrayOf(o, t)
  <1>1. d.link = l /\ d.claims = t /\ e.claims = a
    BY ClaimFields
  <1>2. CASE k \notin DOMAIN t
    <2> DEFINE row == P!NewClaim(payer, now)
               u == Put(t, k, row)
               r == Append(o, k)
    <2>1. row \in ClaimRows /\ J!NewClaim(k, payer, now) = InArray(k, row)
      BY ClaimBegun
    <2>2. p = [db |-> [d EXCEPT !.claims = P!With(t, k, row)], answer |-> "claimed"]
      BY <1>1, <1>2 DEF P!claimFixedOrder, P!Wrote
    <2>3. i = 0
      BY <1>2, ClaimFound
    <2>4. j = [db |-> [e EXCEPT !.claims = Append(a, J!NewClaim(k, payer, now))], answer |-> "claimed"]
      BY <1>1, <2>3 DEF J!claimFixedOrder, J!Wrote
    <2>5. ClaimsOf(r, u) /\ Append(a, InArray(k, row)) = ArrayOf(r, u)
      BY <1>2, <2>1, ClaimAdded
    <2>6. PoolOf(l, u)
      <3>1. l.pool = <<>>
        BY DEF PoolOf
      <3>2. \A n \in DOMAIN l.pool : l.pool[n] # k
        BY <3>1
      <3> QED BY <3>2, OtherOrder
    <2>7. P!With(t, k, row) = u
      BY SameTableOps
    <2>8. [d EXCEPT !.claims = u] = ClaimTables(l, u)
      BY ClaimFields
    <2>9. [e EXCEPT !.claims = ArrayOf(r, u)] = ClaimTables(l, ArrayOf(r, u))
      BY ClaimFields
    <2> HIDE DEF p, j, row, u, r, a
    <2>10. p = [db |-> ClaimTables(l, u), answer |-> "claimed"]
      BY <2>2, <2>7, <2>8
    <2>11. j = [db |-> ClaimTables(l, ArrayOf(r, u)), answer |-> "claimed"]
      BY <2>1, <2>4, <2>5, <2>9
    <2>12. SameClaimCall(p, j)
      BY <2>5, <2>6, <2>10, <2>11, ClaimCallSame
    <2> QED BY <2>12 DEF p, j
  <1>3. CASE k \in DOMAIN t
    <2>1. i \in DOMAIN o /\ o[i] = k
      BY <1>3, ClaimFound
    <2>2. i # 0
      <3>1. DOMAIN o = 1 .. Len(o) /\ Len(o) \in Nat
        BY ArrayFacts
      <3> HIDE DEF i
      <3> QED BY <2>1, <3>1
    <2>3. a[i] = InArray(k, t[k]) /\ t[k] \in ClaimRows
      <3>1. \A n \in DOMAIN o : a[n] = InArray(o[n], t[o[n]])
        BY ArrayFacts
      <3>2. \A n \in DOMAIN o : t[o[n]] \in ClaimRows
        BY ArrayFacts
      <3> HIDE DEF i, a
      <3> QED BY <2>1, <3>1, <3>2
    <2> DEFINE old == t[k]
    <2>4. a[i].payer = old.payer /\ a[i].at = old.at /\ a[i].settled = old.settled
      <3> HIDE DEF a, i
      <3> QED BY <2>3, InArrayFields
    <2>5. old.at \in Nat /\ old.settled \in BOOLEAN
      BY <2>3 DEF ClaimRows
    <2> DEFINE taken == old.payer # payer /\ now - old.at < stale
    <2>6. (old.payer = payer \/ now - old.at >= stale) <=> ~taken
      BY <2>5
    <2>7. p = IF old.settled THEN [db |-> d, answer |-> "settled"]
              ELSE IF taken THEN [db |-> d, answer |-> "taken"]
              ELSE [db |-> [d EXCEPT !.claims = P!Reassign(t, k, payer, now)], answer |-> "claimed"]
      BY <1>1, <1>3 DEF P!claimFixedOrder, P!Wrote
    <2>8. j = IF old.settled THEN [db |-> e, answer |-> "settled"]
              ELSE IF ~taken
              THEN [db |-> [e EXCEPT !.claims = J!Reassign(a, i, payer, now)], answer |-> "claimed"]
              ELSE [db |-> e, answer |-> "taken"]
      <3>1. j = IF i = 0
                THEN [db |-> [e EXCEPT !.claims = Append(a, J!NewClaim(k, payer, now))],
                      answer |-> "claimed"]
                ELSE IF a[i].settled THEN [db |-> e, answer |-> "settled"]
                ELSE IF a[i].payer = payer \/ now - a[i].at >= stale
                THEN [db |-> [e EXCEPT !.claims = J!Reassign(a, i, payer, now)], answer |-> "claimed"]
                ELSE [db |-> e, answer |-> "taken"]
        BY <1>1 DEF J!claimFixedOrder, J!Wrote
      <3> HIDE DEF i, a, j, taken
      <3> QED BY <2>2, <2>4, <2>6, <3>1
    <2> HIDE DEF taken, i, a, p, j
    <2>9. CASE old.settled \/ taken
      <3>1. PICK answer : p = [db |-> d, answer |-> answer] /\ j = [db |-> e, answer |-> answer]
        BY <2>7, <2>8, <2>9
      <3>2. SameClaimCall(p, j)
        BY <3>1, NoClaimMade
      <3> QED BY <3>2 DEF p, j
    <2>10. CASE ~old.settled /\ ~taken
      <3>1. PICK row \in ClaimRows :
                /\ P!Reassign(t, o[i], payer, now) = Put(t, o[i], row)
                /\ J!Reassign(ArrayOf(o, t), i, payer, now) =
                       [ArrayOf(o, t) EXCEPT ![i] = InArray(o[i], row)]
        BY <2>1, HandedOver
      <3>2. p = [db |-> [d EXCEPT !.claims = Put(t, o[i], row)], answer |-> "claimed"]
        BY <2>1, <2>7, <2>10, <3>1
      <3>3. j = [db |-> [e EXCEPT !.claims = [ArrayOf(o, t) EXCEPT ![i] = InArray(o[i], row)]],
                 answer |-> "claimed"]
        BY <2>8, <2>10, <3>1 DEF a
      <3>4. SameClaimCall(p, j)
        BY <2>1, <3>2, <3>3, RewriteSame
      <3> QED BY <3>4 DEF p, j
    <2> QED BY <2>9, <2>10
  <1> QED BY <1>2, <1>3

\* The claim that both recycle: the first stale one of the array, when no other is as old.
LEMMA RecycleSame ==
    ASSUME NEW l, NEW o, NEW t, NEW d, NEW e, d = ClaimTables(l, t), e = ClaimTables(l, ArrayOf(o, t)),
           ClaimsOf(o, t), PoolOf(l, t),
           NEW payer \in Payers \cup {"qi"}, StaleAfter \in Nat, NEW now \in Nat,
           LET IsStale(c) == J!Stale(c, StaleAfter, now)
               first == J!FirstWhere(e.claims, IsStale)
           IN  ~ \E i \in DOMAIN e.claims :
                     /\ i # first
                     /\ IsStale(e.claims[i])
                     /\ e.claims[i].at <= e.claims[first].at
    PROVE  SameClaimCall(P!reclaimStaleClaim(d, payer, StaleAfter, now),
                         J!reclaimStaleClaim(e, payer, StaleAfter, now))
  <1> DEFINE a == ArrayOf(o, t)
             p == P!reclaimStaleClaim(d, payer, StaleAfter, now)
             j == J!reclaimStaleClaim(e, payer, StaleAfter, now)
             inArray == {i \in DOMAIN e.claims : J!Stale(e.claims[i], StaleAfter, now)}
             inTable == {k \in DOMAIN d.claims :
                            ~d.claims[k].settled /\ d.claims[k].at + StaleAfter < now}
             Old(k) == ~t[k].settled /\ t[k].at + StaleAfter < now
             stale == {k \in DOMAIN t : Old(k)}
             there == {i \in DOMAIN o : Old(o[i])}
             f == IF inArray = {} THEN 0 ELSE J!Min(inArray)
             oldest == CHOOSE k \in inTable : \A q \in inTable : d.claims[k].at <= d.claims[q].at
  <1>1. d.claims = t /\ e.claims = a
    BY ClaimFields
  <1>2. /\ DOMAIN a = DOMAIN o /\ DOMAIN o = 1 .. Len(o) /\ Len(o) \in Nat
    BY ArrayFacts
  <1>3. \A i \in DOMAIN o : /\ o[i] \in DOMAIN t /\ t[o[i]] \in ClaimRows
                            /\ a[i] = InArray(o[i], t[o[i]])
    <2>1. \A i \in DOMAIN o : o[i] \in DOMAIN t /\ t[o[i]] \in ClaimRows
      BY ArrayFacts
    <2>2. \A i \in DOMAIN o : a[i] = InArray(o[i], t[o[i]])
      BY ArrayFacts
    <2> QED BY <2>1, <2>2
  <1>4. /\ \A k \in DOMAIN t : \E i \in DOMAIN o : o[i] = k
        /\ \A m, n \in DOMAIN o : o[m] = o[n] => m = n
    BY ArrayFacts
  <1> HIDE DEF a
  <1>5. \A i \in DOMAIN o : a[i].at = t[o[i]].at /\ a[i].settled = t[o[i]].settled
    BY <1>3, InArrayFields
  <1>6. inTable = stale
    BY <1>1
  <1>7. inArray = there
    BY <1>1, <1>2, <1>5 DEF J!Stale
  <1>8. p = IF inTable = {} THEN [db |-> d, answer |-> Absent]
            ELSE [db |-> [d EXCEPT !.claims = P!Reassign(t, oldest, payer, now)], answer |-> oldest]
    BY <1>1 DEF P!reclaimStaleClaim, P!Wrote
  <1>9. j = IF f = 0 THEN [db |-> e, answer |-> Absent]
            ELSE [db |-> [e EXCEPT !.claims = J!Reassign(a, f, payer, now)], answer |-> e.claims[f].order]
    BY <1>1 DEF J!reclaimStaleClaim, J!Wrote, J!FirstWhere
  <1>10. \A i \in inArray : i # f => ~(e.claims[i].at <= e.claims[f].at)
    BY DEF J!FirstWhere
  <1>11. CASE stale = {}
    <2>1. inTable = {} /\ inArray = {}
      BY <1>3, <1>6, <1>7, <1>11
    <2>2. f = 0
      BY <2>1
    <2> HIDE DEF inTable, inArray, f, p, j
    <2>3. p = [db |-> d, answer |-> Absent] /\ j = [db |-> e, answer |-> Absent]
      BY <1>8, <1>9, <2>1, <2>2
    <2>4. SameClaimCall(p, j)
      BY <2>3, NoClaimMade
    <2> QED BY <2>4 DEF p, j
  <1>12. CASE stale # {}
    <2>1. there # {} /\ there \in SUBSET Nat
      BY <1>2, <1>4, <1>12
    <2>2. f \in there
      <3>1. inArray # {} /\ inArray \in SUBSET Nat
        BY <1>7, <2>1
      <3> HIDE DEF inArray
      <3>2. J!Min(inArray) \in inArray
        BY <3>1, LeastChosen
      <3> QED BY <1>7, <3>1, <3>2
    <2> HIDE DEF f
    <2>3. f \in DOMAIN o /\ Old(o[f]) /\ f # 0
      BY <1>2, <2>2
    <2> DEFINE k == o[f]
    <2>4. k \in stale
      BY <1>3, <2>3
    <2>5. \A q \in stale : q # k => t[k].at < t[q].at
      <3> SUFFICES ASSUME NEW q \in stale, q # k
                   PROVE  t[k].at < t[q].at
        OBVIOUS
      <3>1. PICK i \in DOMAIN o : o[i] = q
        BY <1>4
      <3>2. i # f /\ i \in inArray
        BY <1>7, <3>1
      <3>3. ~(e.claims[i].at <= e.claims[f].at)
        BY <1>10, <3>2
      <3>4. ~(t[q].at <= t[k].at)
        BY <1>1, <1>5, <2>3, <3>1, <3>3
      <3>5. t[q].at \in Nat /\ t[k].at \in Nat
        <4>1. t[o[i]] \in ClaimRows /\ t[o[f]] \in ClaimRows
          BY <1>3, <2>3
        <4> QED BY <3>1, <4>1 DEF ClaimRows
      <3> QED BY <3>4, <3>5
    <2>6. \A q \in stale : t[q].at \in Nat
      <3>1. \A q \in stale : t[q] \in ClaimRows
        BY <1>3, <1>4
      <3> QED BY <3>1 DEF ClaimRows
    <2>7. oldest = k
      <3>1. oldest = CHOOSE n \in stale : \A q \in stale : t[n].at <= t[q].at
        BY <1>1, <1>6
      <3> DEFINE Least(n) == \A q \in stale : t[n].at <= t[q].at
      <3> HIDE DEF stale, oldest, k
      <3>2. Least(k) /\ \A n \in stale : Least(n) => n = k
        BY <2>4, <2>5, <2>6
      <3> HIDE DEF Least
      <3>3. (CHOOSE n \in stale : Least(n)) = k
        BY <2>4, <3>2
      <3> QED BY <3>1, <3>3 DEF Least
    <2>8. inTable # {}
      BY <1>6, <1>12
    <2>9. e.claims[f].order = k
      BY <1>1, <1>3, <2>3, InArrayFields
    <2> HIDE DEF inTable, oldest, p, j
    <2>10. PICK row \in ClaimRows :
               /\ P!Reassign(t, o[f], payer, now) = Put(t, o[f], row)
               /\ J!Reassign(ArrayOf(o, t), f, payer, now) =
                      [ArrayOf(o, t) EXCEPT ![f] = InArray(o[f], row)]
      BY <2>3, HandedOver
    <2>11. p = [db |-> [d EXCEPT !.claims = Put(t, o[f], row)], answer |-> k]
      BY <1>8, <2>7, <2>8, <2>10
    <2>12. j = [db |-> [e EXCEPT !.claims = [ArrayOf(o, t) EXCEPT ![f] = InArray(o[f], row)]],
                answer |-> k]
      BY <1>9, <2>3, <2>9, <2>10 DEF a
    <2> HIDE DEF k
    <2>13. SameClaimCall(p, j)
      BY <2>3, <2>11, <2>12, RewriteSame
    <2> QED BY <2>13 DEF p, j
  <1> QED BY <1>11, <1>12

LEMMA ClaimsAgree ==
    ASSUME ClaimCalls, ClaimsRelated, StoresAssumption, clock \in Nat, ~parted'
    PROVE  agree' /\ ClaimsRelated'
  <1>1. PICK l, o, t : /\ ClaimsOf(o, t) /\ PoolOf(l, t)
                       /\ pg = ClaimTables(l, t) /\ json = ClaimTables(l, ArrayOf(o, t))
    BY DEF ClaimsRelated
  <1>2. ASSUME NEW p, NEW j, SameClaimCall(p, j), NEW unlike, Differing(p, j, unlike)
        PROVE  agree' /\ ClaimsRelated'
    <2>1. PICK m, r, u, a : /\ ClaimsOf(r, u) /\ PoolOf(m, u)
                            /\ p = [db |-> ClaimTables(m, u), answer |-> a]
                            /\ j = [db |-> ClaimTables(m, ArrayOf(r, u)), answer |-> a]
      BY <1>2 DEF SameClaimCall
    <2>2. /\ p.answer = j.answer
          /\ p.db = ClaimTables(m, u) /\ j.db = ClaimTables(m, ArrayOf(r, u))
      BY <2>1
    <2>3. agree' /\ pg' = p.db /\ json' = j.db
      BY <1>2, <2>2, Called
    <2>4. ClaimsOf(r, u) /\ PoolOf(m, u)
      BY <2>1
    <2>5. pg' = ClaimTables(m, u) /\ json' = ClaimTables(m, ArrayOf(r, u))
      BY <2>2, <2>3
    <2> QED BY <2>3, <2>4, <2>5 DEF ClaimsRelated
  <1>3. pg.link = l /\ pg.claims = t /\ json.claims = ArrayOf(o, t)
    BY <1>1, ClaimFields
  <1>4. StaleAfter \in Nat
    BY DEF StoresAssumption
  <1>5. ASSUME NEW link \in NewLinks, Both(P!upsertLink(pg, link), J!upsertLink(json, link))
        PROVE  agree' /\ ClaimsRelated'
    <2>1. SameClaimCall(P!upsertLink(pg, link), J!upsertLink(json, link))
      BY <1>1, UpsertLinkSame
    <2> QED BY <1>2, <1>5, <2>1 DEF Both
  <1>6. ASSUME NEW payer \in Payers \cup {"qi"},
               Differing(P!reclaimStaleClaim(pg, payer, StaleAfter, clock),
                         J!reclaimStaleClaim(json, payer, StaleAfter, clock), RecyclesAnother)
        PROVE  agree' /\ ClaimsRelated'
    <2>1. ~RecyclesAnother
      BY <1>6, Called
    <2>2. LET IsStale(c) == J!Stale(c, StaleAfter, clock)
              first == J!FirstWhere(json.claims, IsStale)
          IN  ~ \E i \in DOMAIN json.claims :
                    /\ i # first
                    /\ IsStale(json.claims[i])
                    /\ json.claims[i].at <= json.claims[first].at
      BY <2>1 DEF RecyclesAnother
    <2>3. SameClaimCall(P!reclaimStaleClaim(pg, payer, StaleAfter, clock),
                        J!reclaimStaleClaim(json, payer, StaleAfter, clock))
      BY <1>1, <1>4, <2>2, RecycleSame
    <2> QED BY <1>2, <1>6, <2>3
  <1>7. ASSUME NEW payer \in Payers \cup {"qi"},
               Both(P!claimOrderFromPool(pg, payer, clock), J!claimOrderFromPool(json, payer, clock))
        PROVE  agree' /\ ClaimsRelated'
    <2>1. SameClaimCall(P!claimOrderFromPool(pg, payer, clock), J!claimOrderFromPool(json, payer, clock))
      BY <1>1, PoolClaimSame
    <2> QED BY <1>2, <1>7, <2>1 DEF Both
  <1>8. ASSUME NEW payer \in Payers, NEW order \in Minted \ DOMAIN pg.claims, NEW cap,
               Both(P!mintClaimedOrder(pg, order, payer, cap, clock),
                    J!mintClaimedOrder(json, order, payer, cap, clock))
        PROVE  agree' /\ ClaimsRelated'
    <2>1. order \in Minted /\ order \notin DOMAIN t /\ payer \in Payers \cup {"qi"}
      BY <1>3
    <2>2. SameClaimCall(P!mintClaimedOrder(pg, order, payer, cap, clock),
                        J!mintClaimedOrder(json, order, payer, cap, clock))
      BY <1>1, <2>1, MintSame
    <2> QED BY <1>2, <1>8, <2>2 DEF Both
  <1>9. ASSUME NEW payer \in Payers, pg.link # Absent, pg.link.fixed # Absent,
               Both(P!claimFixedOrder(pg, pg.link.fixed, payer, StaleAfter, clock),
                    J!claimFixedOrder(json, pg.link.fixed, payer, StaleAfter, clock))
        PROVE  agree' /\ ClaimsRelated'
    <2> DEFINE k == pg.link.fixed
    <2>1. l # Absent /\ l.fixed # Absent /\ payer \in Payers \cup {"qi"}
      BY <1>3, <1>9
    <2> HIDE DEF k
    <2>2. SameClaimCall(P!claimFixedOrder(pg, k, payer, StaleAfter, clock),
                        J!claimFixedOrder(json, k, payer, StaleAfter, clock))
      BY <1>1, <1>4, <2>1, FixedSame
    <2> QED BY <1>2, <1>9, <2>2 DEF Both, k
  <1>10. ASSUME NEW order \in DOMAIN pg.claims,
                Both(P!settleClaimedOrder(pg, order), J!settleClaimedOrder(json, order))
         PROVE  agree' /\ ClaimsRelated'
    <2>1. order \in DOMAIN t
      BY <1>3
    <2>2. SameClaimCall(P!settleClaimedOrder(pg, order), J!settleClaimedOrder(json, order))
      BY <1>1, <2>1, SettleSame
    <2> QED BY <1>2, <1>10, <2>2 DEF Both
  <1>11. CASE Both(P!reserveQiLinkOrder(pg, clock), J!reserveQiLinkOrder(json, clock))
    <2>1. /\ P!reserveQiLinkOrder(pg, clock) = P!claimOrderFromPool(pg, "qi", clock)
          /\ J!reserveQiLinkOrder(json, clock) = J!claimOrderFromPool(json, "qi", clock)
      BY DEF P!reserveQiLinkOrder, J!reserveQiLinkOrder
    <2>2. "qi" \in Payers \cup {"qi"}
      OBVIOUS
    <2> QED BY <1>7, <1>11, <2>1, <2>2
  <1>12. \A payer \in Payers : payer \in Payers \cup {"qi"}
    OBVIOUS
  <1> QED BY <1>5, <1>6, <1>7, <1>8, <1>9, <1>10, <1>11, <1>12 DEF ClaimCalls

\* A restart reads the file as it is: the link has its chain.
LEMMA ClaimsRead ==
    ASSUME ClaimsRelated, StoresAssumption
    PROVE  J!readLinks(json) = json
  <1>1. PICK l, o, t : PoolOf(l, t) /\ json = ClaimTables(l, ArrayOf(o, t))
    BY DEF ClaimsRelated
  <1>2. l = Absent \/ l.chain # Absent
    <2>1. Absent \notin Networks
      BY DEF StoresAssumption
    <2> QED BY <1>1, <2>1 DEF PoolOf, Links
  <1>3. J!withChainId(l) = l
    BY <1>2 DEF J!withChainId
  <1>4. json.link = l /\ [json EXCEPT !.link = l] = json
    BY <1>1, ClaimFields
  <1> QED BY <1>3, <1>4 DEF J!readLinks

\* Of the rows of a finite table one is the greatest: a smallest set without one has none.
LEMMA GreatestOfFinite ==
    ASSUME NEW D, IsFiniteSet(D), D # {}, NEW f \in [D -> Nat]
    PROVE  \E x \in D : \A y \in D : f[y] <= f[x]
  <1> DEFINE Has(S) == \E x \in S : \A y \in S : f[y] <= f[x]
             bad == {n \in Nat : \E S \in SUBSET D : S # {} /\ Cardinality(S) = n /\ ~Has(S)}
  <1>1. \A S \in SUBSET D : IsFiniteSet(S)
    BY FS_Subset
  <1>2. \A x \in D : f[x] \in Nat
    OBVIOUS
  <1>3. bad = {}
    <2> SUFFICES ASSUME bad # {}
                 PROVE  FALSE
      OBVIOUS
    <2>1. PICK n \in bad : \A m \in bad : n <= m
      <3>1. bad \in SUBSET Nat
        OBVIOUS
      <3> HIDE DEF bad
      <3> QED BY <3>1, NatMin
    <2>2. PICK S \in SUBSET D : S # {} /\ Cardinality(S) = n /\ ~Has(S)
      BY <2>1
    <2>3. PICK x \in S : TRUE
      BY <2>2
    <2> DEFINE R == S \ {x}
    <2>4. IsFiniteSet(S) /\ IsFiniteSet(R) /\ Cardinality(R) = Cardinality(S) - 1
      BY <1>1, <2>3, FS_RemoveElement
    <2>5. Cardinality(R) \in Nat /\ Cardinality(R) < n
      BY <2>2, <2>4, FS_CardinalityType
    <2>6. R = {} \/ Has(R)
      <3>1. Cardinality(R) \notin bad
        <4>1. n \in Nat /\ \A m \in bad : n <= m
          BY <2>1
        <4> HIDE DEF bad, R
        <4> QED BY <2>5, <4>1
      <3> QED BY <2>5, <3>1
    <2>7. CASE R = {}
      BY <1>2, <2>2, <2>3, <2>7
    <2>8. CASE Has(R)
      <3>1. PICK y \in R : \A z \in R : f[z] <= f[y]
        BY <2>8
      <3>2. S = R \cup {x} /\ x \in D /\ R \subseteq D
        BY <2>3
      <3> HIDE DEF R
      <3>3. CASE f[x] <= f[y]
        BY <1>2, <2>2, <3>1, <3>2, <3>3
      <3>4. CASE f[y] <= f[x]
        BY <1>2, <2>2, <3>1, <3>2, <3>4
      <3> QED BY <1>2, <3>1, <3>2, <3>3, <3>4
    <2> QED BY <2>6, <2>7, <2>8
  <1>4. Cardinality(D) \in Nat
    BY FS_CardinalityType
  <1>5. Has(D)
    <2>1. D \in SUBSET D /\ Cardinality(D) \notin bad
      BY <1>3
    <2> HIDE DEF Has
    <2> QED BY <1>4, <2>1
  <1> QED BY <1>5

\* The latest claim of a payer, when no two were made at the same time.
LEMMA LatestClaimSame ==
    ASSUME NEW l, NEW o, NEW t, NEW d, NEW e, d = ClaimTables(l, t), e = ClaimTables(l, ArrayOf(o, t)),
           ClaimsOf(o, t), \A x, y \in DOMAIN t : x # y => t[x].at # t[y].at, NEW payer
    PROVE  P!getLatestClaim(d, payer) = J!getLatestClaim(e, payer)
  <1> DEFINE a == ArrayOf(o, t)
             inTable == {k \in DOMAIN d.claims : d.claims[k].payer = payer}
             theirs == {k \in DOMAIN t : t[k].payer = payer}
             Latest(k) == \A q \in theirs : t[q].at <= t[k].at
             inArray == {i \in DOMAIN e.claims :
                            /\ e.claims[i].payer = payer
                            /\ \A n \in DOMAIN e.claims :
                                  e.claims[n].payer = payer => e.claims[n].at <= e.claims[i].at}
             there == {i \in DOMAIN o : o[i] \in theirs /\ Latest(o[i])}
  <1>1. d.claims = t /\ e.claims = a
    BY ClaimFields
  <1>2. /\ DOMAIN a = DOMAIN o /\ DOMAIN o = 1 .. Len(o) /\ Len(o) \in Nat
    BY ArrayFacts
  <1>3. \A i \in DOMAIN o : /\ o[i] \in DOMAIN t /\ t[o[i]] \in ClaimRows
                            /\ a[i] = InArray(o[i], t[o[i]])
    <2>1. \A i \in DOMAIN o : o[i] \in DOMAIN t /\ t[o[i]] \in ClaimRows
      BY ArrayFacts
    <2>2. \A i \in DOMAIN o : a[i] = InArray(o[i], t[o[i]])
      BY ArrayFacts
    <2> QED BY <2>1, <2>2
  <1>4. \A k \in DOMAIN t : \E i \in DOMAIN o : o[i] = k
    BY ArrayFacts
  <1> HIDE DEF a
  <1>5. \A i \in DOMAIN o : /\ a[i].at = t[o[i]].at /\ a[i].payer = t[o[i]].payer
                            /\ a[i].order = o[i]
    BY <1>3, InArrayFields
  <1>6. inTable = theirs
    BY <1>1
  <1>7. \A k \in theirs : t[k].at \in Nat
    <2>1. \A k \in theirs : t[k] \in ClaimRows
      BY <1>3, <1>4
    <2> QED BY <2>1 DEF ClaimRows
  <1>8. inArray = there
    <2>1. \A i \in DOMAIN o : e.claims[i].payer = payer <=> o[i] \in theirs
      BY <1>1, <1>3, <1>5
    <2>2. \A i \in DOMAIN o : (\A n \in DOMAIN o : o[n] \in theirs => t[o[n]].at <= t[o[i]].at) <=>
                              Latest(o[i])
      BY <1>4
    <2>3. DOMAIN e.claims = DOMAIN o /\ \A i \in DOMAIN o : e.claims[i].at = t[o[i]].at
      BY <1>1, <1>2, <1>5
    <2> HIDE DEF theirs, Latest
    <2> QED BY <2>1, <2>2, <2>3
  <1>9. P!getLatestClaim(d, payer) =
            IF inTable = {} THEN Absent
            ELSE CHOOSE k \in inTable : \A q \in inTable : d.claims[q].at <= d.claims[k].at
    BY DEF P!getLatestClaim
  <1>10. J!getLatestClaim(e, payer) =
             IF (IF inArray = {} THEN 0 ELSE J!Min(inArray)) = 0 THEN Absent
             ELSE e.claims[IF inArray = {} THEN 0 ELSE J!Min(inArray)].order
    BY DEF J!getLatestClaim, J!FirstWhere
  <1>11. CASE theirs = {}
    <2>1. inTable = {} /\ inArray = {}
      BY <1>6, <1>8, <1>11
    <2> HIDE DEF inTable, inArray
    <2> QED BY <1>9, <1>10, <2>1
  <1>12. CASE theirs # {}
    <2>1. PICK k \in theirs : Latest(k)
      <3> DEFINE f == [q \in theirs |-> t[q].at]
      <3>1. IsFiniteSet(theirs)
        <4>1. IsFiniteSet(DOMAIN t)
          BY OnceCount DEF ClaimsOf
        <4> QED BY <4>1, FS_Subset
      <3>2. f \in [theirs -> Nat] /\ \A q \in theirs : f[q] = t[q].at
        BY <1>7
      <3> HIDE DEF f, theirs
      <3>3. PICK k \in theirs : \A q \in theirs : f[q] <= f[k]
        BY <1>12, <3>1, <3>2, GreatestOfFinite
      <3> QED BY <3>2, <3>3
    <2>2. \A q \in theirs : Latest(q) => q = k
      BY <1>7, <2>1
    <2>3. P!getLatestClaim(d, payer) = k
      <3>1. P!getLatestClaim(d, payer) = CHOOSE q \in theirs : Latest(q)
        BY <1>1, <1>6, <1>9, <1>12
      <3> HIDE DEF Latest, theirs
      <3>2. (CHOOSE q \in theirs : Latest(q)) = k
        BY <2>1, <2>2
      <3> QED BY <3>1, <3>2
    <2>4. there # {} /\ there \in SUBSET Nat
      <3>1. PICK i \in DOMAIN o : o[i] = k
        BY <1>4, <2>1
      <3> QED BY <1>2, <2>1, <3>1
    <2> DEFINE f == J!Min(inArray)
    <2>5. f \in there
      <3>1. inArray # {} /\ inArray \in SUBSET Nat
        BY <1>8, <2>4
      <3> HIDE DEF inArray
      <3>2. J!Min(inArray) \in inArray
        BY <3>1, LeastChosen
      <3> QED BY <1>8, <3>2
    <2> HIDE DEF f
    <2>6. f \in DOMAIN o /\ o[f] = k /\ f # 0
      BY <1>2, <2>2, <2>5
    <2>7. e.claims[f].order = k
      BY <1>1, <1>5, <2>6
    <2>8. inArray # {}
      BY <1>8, <2>4
    <2> HIDE DEF inArray
    <2> QED BY <1>10, <2>3, <2>6, <2>7, <2>8 DEF f
  <1> QED BY <1>11, <1>12

LEMMA ClaimsSame ==
    ASSUME ClaimsRelated
    PROVE  SameClaims
  <1>1. PICK l, o, t : /\ ClaimsOf(o, t)
                       /\ pg = ClaimTables(l, t) /\ json = ClaimTables(l, ArrayOf(o, t))
    BY DEF ClaimsRelated
  <1> DEFINE a == ArrayOf(o, t)
  <1>2. pg.link = l /\ pg.claims = t /\ json.link = l /\ json.claims = a
    BY <1>1, ClaimFields
  <1>3. Len(a) = Cardinality(DOMAIN t)
    <2>1. Len(a) = Len(o)
      BY <1>1, ArrayFacts
    <2>2. Cardinality(DOMAIN t) = Len(o)
      BY <1>1, OnceCount DEF ClaimsOf
    <2> HIDE DEF a
    <2> QED BY <2>1, <2>2
  <1>4. ASSUME NEW i \in DOMAIN a
        PROVE  P!Row(t, a[i].order) =
                   [payer |-> a[i].payer, at |-> a[i].at, settled |-> a[i].settled]
    <2>1. DOMAIN a = DOMAIN o
      BY <1>1, ArrayFacts
    <2>2. i \in DOMAIN o
      BY <1>4, <2>1
    <2>3. a[i] = InArray(o[i], t[o[i]]) /\ o[i] \in DOMAIN t /\ t[o[i]] \in ClaimRows
      <3>1. \A k \in DOMAIN o : a[k] = InArray(o[k], t[o[k]])
        BY <1>1, ArrayFacts
      <3>2. \A k \in DOMAIN o : o[k] \in DOMAIN t /\ t[o[k]] \in ClaimRows
        BY <1>1, ArrayFacts
      <3> HIDE DEF a
      <3> QED BY <2>2, <3>1, <3>2
    <2> HIDE DEF a
    <2>4. /\ a[i].order = o[i] /\ a[i].payer = t[o[i]].payer /\ a[i].at = t[o[i]].at
          /\ a[i].settled = t[o[i]].settled
      BY <2>3, InArrayFields
    <2>5. t[o[i]] = [payer |-> t[o[i]].payer, at |-> t[o[i]].at, settled |-> t[o[i]].settled]
      BY <2>3 DEF ClaimRows
    <2> QED BY <2>3, <2>4, <2>5 DEF P!Row
  <1>5. ASSUME \A x, y \in DOMAIN t : x # y => t[x].at # t[y].at, NEW payer \in Payers
        PROVE  P!getLatestClaim(pg, payer) = J!getLatestClaim(json, payer)
    BY <1>1, <1>5, LatestClaimSame
  <1> HIDE DEF a
  <1> QED BY <1>2, <1>3, <1>4, <1>5 DEF SameClaims, AllDiffer

-----------------------------------------------------------------------------
(* Login sessions: the live ones are the same.                             *)

SessionRows == [created : Nat, expires : Nat]

SessionTable(t) == [sessions |-> t]

SessionsOf(t, now) ==
    /\ TableOf(t, Keys, SessionRows)
    /\ IsFiniteSet(DOMAIN t)
    /\ Cardinality(DOMAIN t) <= MaxSessions
    /\ \A k \in DOMAIN t : t[k].expires = t[k].created + SessionLife /\ t[k].created <= now

LiveIn(t, now) == {k \in DOMAIN t : t[k].expires > now}

SameLive(t, u, now) == LiveIn(t, now) = LiveIn(u, now) /\ \A k \in LiveIn(t, now) : t[k] = u[k]

SessionsRelated ==
    \E t, u :
        /\ SessionsOf(t, clock)
        /\ SessionsOf(u, clock)
        /\ SameLive(t, u, clock)
        /\ pg = SessionTable(t)
        /\ json = SessionTable(u)

LEMMA SessionFields ==
    ASSUME NEW t, NEW db, db = SessionTable(t)
    PROVE  db.sessions = t /\ \A x : [db EXCEPT !.sessions = x] = SessionTable(x)
  BY DEF SessionTable

LEMMA SessionsCut ==
    ASSUME NEW t, NEW now \in Nat, SessionsOf(t, now), NEW keys, NEW u, u = Cut(t, keys)
    PROVE  /\ SessionsOf(u, now) /\ LiveIn(u, now) = LiveIn(t, now) \ keys
           /\ DOMAIN u = DOMAIN t \ keys /\ \A k \in DOMAIN u : u[k] = t[k]
  <1>1. DOMAIN u = DOMAIN t \ keys /\ \A k \in DOMAIN u : u[k] = t[k]
    BY DEF Cut
  <1>2. TableOf(u, Keys, SessionRows)
    BY CutTable DEF SessionsOf
  <1>3. IsFiniteSet(DOMAIN u) /\ Cardinality(DOMAIN u) <= MaxSessions
    <2>1. IsFiniteSet(DOMAIN t) /\ Cardinality(DOMAIN t) <= MaxSessions /\ DOMAIN u \subseteq DOMAIN t
      BY <1>1 DEF SessionsOf
    <2>2. /\ IsFiniteSet(DOMAIN u) /\ Cardinality(DOMAIN u) <= Cardinality(DOMAIN t)
          /\ Cardinality(DOMAIN u) \in Nat /\ Cardinality(DOMAIN t) \in Nat
      BY <2>1, FS_Subset, FS_CardinalityType
    <2>3. MaxSessions \in Nat
      BY StoresAssumption
    <2> QED BY <2>1, <2>2, <2>3
  <1>4. SessionsOf(u, now)
    BY <1>1, <1>2, <1>3 DEF SessionsOf
  <1>5. LiveIn(u, now) = LiveIn(t, now) \ keys
    BY <1>1 DEF LiveIn
  <1> QED BY <1>1, <1>4, <1>5

\* A session that begins.
Begun(now) == [created |-> now, expires |-> now + SessionLife]

LEMMA SessionsPut ==
    ASSUME NEW t, NEW now \in Nat, SessionsOf(t, now), Cardinality(DOMAIN t) < MaxSessions,
           NEW id \in Keys, id \notin DOMAIN t, NEW u, u = Put(t, id, Begun(now))
    PROVE  /\ SessionsOf(u, now) /\ DOMAIN u = DOMAIN t \cup {id} /\ u[id] = Begun(now)
           /\ \A k \in DOMAIN t : u[k] = t[k]
  <1> DEFINE row == Begun(now)
  <1>1. SessionLife \in Nat /\ MaxSessions \in Nat
    BY StoresAssumption
  <1>2. row \in SessionRows /\ row.expires = row.created + SessionLife /\ row.created <= now
    BY <1>1 DEF SessionRows, Begun
  <1> HIDE DEF row
  <1>3. DOMAIN u = DOMAIN t \cup {id} /\ u[id] = row /\ \A k \in DOMAIN t : u[k] = t[k]
    BY DEF Put, row
  <1>4. TableOf(u, Keys, SessionRows)
    <2>1. TableOf(Put(t, id, row), Keys, SessionRows)
      BY <1>2, PutTable DEF SessionsOf
    <2> QED BY <2>1 DEF row
  <1>5. IsFiniteSet(DOMAIN u) /\ Cardinality(DOMAIN u) <= MaxSessions
    <2>1. IsFiniteSet(DOMAIN t)
      BY DEF SessionsOf
    <2>2. IsFiniteSet(DOMAIN u) /\ Cardinality(DOMAIN u) = Cardinality(DOMAIN t) + 1
      BY <1>3, <2>1, FS_AddElement
    <2>3. Cardinality(DOMAIN t) \in Nat
      BY <2>1, FS_CardinalityType
    <2> QED BY <1>1, <2>2, <2>3
  <1>6. SessionsOf(u, now)
    BY <1>2, <1>3, <1>4, <1>5 DEF SessionsOf
  <1> QED BY <1>3, <1>6 DEF row

\* A session begun in both, when those that are live were the same.
LEMMA BegunInBoth ==
    ASSUME NEW t, NEW u, NEW now \in Nat, SessionsOf(t, now), SessionsOf(u, now), SameLive(t, u, now),
           Cardinality(DOMAIN t) < MaxSessions, Cardinality(DOMAIN u) < MaxSessions,
           NEW id \in Keys, id \notin DOMAIN t, id \notin DOMAIN u
    PROVE  LET v == Put(t, id, Begun(now))
               w == Put(u, id, Begun(now))
           IN  SessionsOf(v, now) /\ SessionsOf(w, now) /\ SameLive(v, w, now)
  <1> DEFINE v == Put(t, id, Begun(now))
             w == Put(u, id, Begun(now))
  <1>v. v = Put(t, id, Begun(now))
    OBVIOUS
  <1>w. w = Put(u, id, Begun(now))
    OBVIOUS
  <1> HIDE DEF v, w
  <1>0. ASSUME NEW x, SessionsOf(x, now), Cardinality(DOMAIN x) < MaxSessions, id \notin DOMAIN x,
               NEW y, y = Put(x, id, Begun(now))
        PROVE  /\ SessionsOf(y, now) /\ DOMAIN y = DOMAIN x \cup {id} /\ y[id] = Begun(now)
               /\ \A k \in DOMAIN x : y[k] = x[k]
    BY <1>0, SessionsPut
  <1>1. /\ SessionsOf(v, now) /\ DOMAIN v = DOMAIN t \cup {id} /\ v[id] = Begun(now)
        /\ \A k \in DOMAIN t : v[k] = t[k]
    BY <1>0, <1>v
  <1>2. /\ SessionsOf(w, now) /\ DOMAIN w = DOMAIN u \cup {id} /\ w[id] = Begun(now)
        /\ \A k \in DOMAIN u : w[k] = u[k]
    BY <1>0, <1>w
  <1>3. \A k : k \in LiveIn(v, now) <=> k \in LiveIn(w, now)
    BY <1>1, <1>2 DEF SameLive, LiveIn
  <1>4. \A k \in LiveIn(v, now) : v[k] = w[k]
    BY <1>1, <1>2, <1>3 DEF SameLive, LiveIn
  <1>5. SameLive(v, w, now)
    BY <1>3, <1>4 DEF SameLive
  <1> QED BY <1>1, <1>2, <1>5 DEF v, w

\* What makes room for one more: nothing, or a session that began first when there are as many
\* as a merchant keeps.
Evicts(t, keys) ==
    \/ keys = {} /\ Cardinality(DOMAIN t) < MaxSessions
    \/ \E x \in DOMAIN t :
          /\ keys = {x}
          /\ Cardinality(DOMAIN t) = MaxSessions
          /\ \A k \in DOMAIN t : t[x].created <= t[k].created

LEMMA RoomMade ==
    ASSUME NEW t, NEW now \in Nat, SessionsOf(t, now), NEW keys, Evicts(t, keys)
    PROVE  Cardinality(DOMAIN Cut(t, keys)) < MaxSessions
  <1>1. IsFiniteSet(DOMAIN t) /\ Cardinality(DOMAIN t) \in Nat /\ MaxSessions \in Nat \ {0}
    BY StoresAssumption, FS_CardinalityType DEF SessionsOf
  <1>2. DOMAIN Cut(t, keys) = DOMAIN t \ keys
    BY DEF Cut
  <1>3. CASE keys = {} /\ Cardinality(DOMAIN t) < MaxSessions
    BY <1>2, <1>3
  <1>4. ASSUME NEW x \in DOMAIN t, keys = {x}, Cardinality(DOMAIN t) = MaxSessions
        PROVE  Cardinality(DOMAIN Cut(t, keys)) < MaxSessions
    <2>1. Cardinality(DOMAIN t \ {x}) = Cardinality(DOMAIN t) - 1
      BY <1>1, FS_RemoveElement
    <2> QED BY <1>1, <1>2, <1>4, <2>1
  <1> QED BY <1>3, <1>4 DEF Evicts

\* A live session is evicted only where all of them are live.
LEMMA AllAreLive ==
    ASSUME NEW t, NEW now \in Nat, SessionsOf(t, now), NEW keys, Evicts(t, keys),
           NEW x \in keys, x \in LiveIn(t, now)
    PROVE  /\ DOMAIN t = LiveIn(t, now) /\ Cardinality(DOMAIN t) = MaxSessions
           /\ keys = {x} /\ \A k \in DOMAIN t : t[x].created <= t[k].created
  <1>1. /\ keys = {x} /\ x \in DOMAIN t /\ Cardinality(DOMAIN t) = MaxSessions
        /\ \A k \in DOMAIN t : t[x].created <= t[k].created
    BY DEF Evicts
  <1>2. SessionLife \in Nat
    BY StoresAssumption
  <1>3. \A k \in DOMAIN t : t[k].created \in Nat /\ t[k].expires = t[k].created + SessionLife
    BY DEF SessionsOf, TableOf, SessionRows
  <1>4. \A k \in DOMAIN t : t[k].expires > now
    <2>1. t[x].expires > now
      BY DEF LiveIn
    <2> QED BY <1>1, <1>2, <1>3, <2>1
  <1> QED BY <1>1, <1>4 DEF LiveIn

LEMMA SameWhenFull ==
    ASSUME NEW t, NEW u, NEW now \in Nat, SessionsOf(t, now), SessionsOf(u, now), SameLive(t, u, now),
           DOMAIN t = LiveIn(t, now), Cardinality(DOMAIN t) = MaxSessions
    PROVE  DOMAIN u = DOMAIN t /\ Cardinality(DOMAIN u) = MaxSessions
  <1>1. DOMAIN t \subseteq DOMAIN u
    BY DEF SameLive, LiveIn
  <1>2. IsFiniteSet(DOMAIN u) /\ Cardinality(DOMAIN u) <= MaxSessions
    BY DEF SessionsOf
  <1>3. /\ Cardinality(DOMAIN t) <= Cardinality(DOMAIN u)
        /\ Cardinality(DOMAIN t) = Cardinality(DOMAIN u) => DOMAIN t = DOMAIN u
    BY <1>1, <1>2, FS_Subset
  <1>4. Cardinality(DOMAIN u) \in Nat /\ Cardinality(DOMAIN t) \in Nat
    BY <1>2, FS_CardinalityType, StoresAssumption
  <1>5. Cardinality(DOMAIN t) = Cardinality(DOMAIN u)
    BY <1>2, <1>3, <1>4
  <1> QED BY <1>3, <1>5

LEMMA SameWithoutThem ==
    ASSUME NEW t, NEW u, NEW now \in Nat, SessionsOf(t, now), SessionsOf(u, now), SameLive(t, u, now),
           NEW a, NEW b, a \cap LiveIn(t, now) = b \cap LiveIn(t, now)
    PROVE  SameLive(Cut(t, a), Cut(u, b), now)
  <1> DEFINE v == Cut(t, a)
             w == Cut(u, b)
  <1>1. DOMAIN v = DOMAIN t \ a /\ \A k \in DOMAIN v : v[k] = t[k]
    BY DEF Cut
  <1>2. DOMAIN w = DOMAIN u \ b /\ \A k \in DOMAIN w : w[k] = u[k]
    BY DEF Cut
  <1> HIDE DEF v, w
  <1>3. LiveIn(v, now) = LiveIn(t, now) \ a
    BY <1>1 DEF LiveIn
  <1>4. LiveIn(w, now) = LiveIn(u, now) \ b
    BY <1>2 DEF LiveIn
  <1>5. LiveIn(t, now) = LiveIn(u, now) /\ \A k \in LiveIn(t, now) : t[k] = u[k]
    BY DEF SameLive
  <1>6. LiveIn(t, now) \ a = LiveIn(u, now) \ b
    BY <1>5
  <1>7. \A k \in LiveIn(v, now) : k \in DOMAIN v /\ k \in DOMAIN w /\ k \in LiveIn(t, now)
    BY <1>3, <1>4, <1>6 DEF LiveIn
  <1>8. \A k \in LiveIn(v, now) : v[k] = w[k]
    BY <1>1, <1>2, <1>5, <1>7
  <1>9. SameLive(v, w, now)
    BY <1>3, <1>4, <1>6, <1>8 DEF SameLive
  <1> QED BY <1>9 DEF v, w

\* Both evict the same live session, or none that is live, unless either of two may go.
LEMMA EvictedAlike ==
    ASSUME NEW t, NEW u, NEW now \in Nat, SessionsOf(t, now), SessionsOf(u, now), SameLive(t, u, now),
           NEW a, NEW b, Evicts(t, a), Evicts(u, b),
           ~ (/\ Cardinality(DOMAIN u) >= MaxSessions
              /\ \E x, y \in LiveIn(u, now) :
                    /\ x # y
                    /\ u[x].created = u[y].created
                    /\ \A v \in LiveIn(u, now) : u[x].created <= u[v].created)
    PROVE  SameLive(Cut(t, a), Cut(u, b), now)
  <1> DEFINE L == LiveIn(t, now)
  <1>1. L = LiveIn(u, now) /\ \A k \in L : t[k] = u[k]
    BY DEF SameLive
  <1>2. ASSUME DOMAIN t = L, DOMAIN u = L, Cardinality(DOMAIN t) = MaxSessions,
               Cardinality(DOMAIN u) = MaxSessions
        PROVE  a = b
    <2>1. PICK x \in DOMAIN t : a = {x} /\ \A k \in DOMAIN t : t[x].created <= t[k].created
      BY <1>2, StoresAssumption DEF Evicts
    <2>2. PICK y \in DOMAIN u : b = {y} /\ \A k \in DOMAIN u : u[y].created <= u[k].created
      BY <1>2, StoresAssumption DEF Evicts
    <2>3. \A k \in L : t[k].created \in Nat
      BY <1>2 DEF SessionsOf, TableOf, SessionRows
    <2> HIDE DEF L
    <2>4. t[x].created = t[y].created
      BY <1>1, <1>2, <2>1, <2>2, <2>3
    <2>5. \A v \in L : u[x].created <= u[v].created
      BY <1>1, <1>2, <2>1
    <2>6. Cardinality(DOMAIN u) >= MaxSessions
      BY <1>2, StoresAssumption
    <2>7. x = y
      BY <1>1, <1>2, <2>4, <2>5, <2>6
    <2> QED BY <2>1, <2>2, <2>7
  <1>3. a \cap L = b \cap L
    <2>1. ASSUME NEW x \in a \cap L
          PROVE  a = b
      <3>1. DOMAIN t = L /\ Cardinality(DOMAIN t) = MaxSessions
        BY AllAreLive
      <3>2. DOMAIN u = DOMAIN t /\ Cardinality(DOMAIN u) = MaxSessions
        BY <3>1, SameWhenFull
      <3> QED BY <1>2, <3>1, <3>2
    <2>2. ASSUME NEW x \in b \cap L
          PROVE  a = b
      <3>1. DOMAIN u = LiveIn(u, now) /\ Cardinality(DOMAIN u) = MaxSessions
        BY <1>1, AllAreLive
      <3>2. SameLive(u, t, now)
        BY <1>1 DEF SameLive
      <3>3. DOMAIN t = DOMAIN u /\ Cardinality(DOMAIN t) = MaxSessions
        BY <3>1, <3>2, SameWhenFull
      <3> QED BY <1>1, <1>2, <3>1, <3>3
    <2> QED BY <2>1, <2>2
  <1> HIDE DEF L
  <1> QED BY <1>3, SameWithoutThem DEF L

\* A session that began first.
LEMMA OldestSession ==
    ASSUME NEW t, NEW now, SessionsOf(t, now), DOMAIN t # {}
    PROVE  \E x \in DOMAIN t : \A k \in DOMAIN t : t[x].created <= t[k].created
  <1> DEFINE f == [k \in DOMAIN t |-> t[k].created]
             D == DOMAIN t
  <1>1. f \in [D -> Nat] /\ \A k \in D : f[k] = t[k].created
    BY DEF SessionsOf, TableOf, SessionRows
  <1>2. D # {}
    OBVIOUS
  <1> HIDE DEF f, D
  <1>3. \E x \in D : \A k \in D : f[x] <= f[k]
    BY <1>1, <1>2, LeastRow
  <1> QED BY <1>1, <1>3 DEF D

LEMMA PgMin ==
    ASSUME NEW m \in Nat, NEW n \in Nat
    PROVE  P!Min({m, n}) = IF m <= n THEN m ELSE n
  <1>1. P!Min({m, n}) = CHOOSE x \in {m, n} : \A y \in {m, n} : x <= y
    BY DEF P!Min
  <1>2. CASE m <= n
    <2>1. (CHOOSE x \in {m, n} : \A y \in {m, n} : x <= y) = m
      BY <1>2
    <2> QED BY <1>1, <1>2, <2>1
  <1>3. CASE ~(m <= n)
    <2>1. (CHOOSE x \in {m, n} : \A y \in {m, n} : x <= y) = n
      BY <1>3
    <2> QED BY <1>1, <1>3, <2>1
  <1> QED BY <1>2, <1>3

\* The rows that the database keeps.
LEMMA NewestKept ==
    ASSUME NEW t, NEW now \in Nat, SessionsOf(t, now)
    PROVE  \E a : Evicts(t, a) /\ P!Restrict(t, P!Newest(t)) = Cut(t, a)
  <1> DEFINE D == DOMAIN t
             N == P!Newest(t)
             c == Cardinality(D)
             m == P!Min({MaxSessions - 1, c})
             Keeps(K) == Cardinality(K) = m /\ \A x \in K, y \in D \ K : t[y].created <= t[x].created
  <1>1. MaxSessions \in Nat \ {0}
    BY StoresAssumption
  <1>2. IsFiniteSet(D) /\ c \in Nat /\ c <= MaxSessions
    BY FS_CardinalityType DEF SessionsOf
  <1> HIDE DEF c
  <1>3. m = IF MaxSessions - 1 <= c THEN MaxSessions - 1 ELSE c
    <2>1. MaxSessions - 1 \in Nat
      BY <1>1
    <2> QED BY <1>2, <2>1, PgMin
  <1>4. ASSUME NEW K \in SUBSET D, Keeps(K)
        PROVE  N \in SUBSET D /\ Keeps(N)
    <2> DEFINE Q(S) == /\ P!Cardinality(S) = P!Min({MaxSessions - 1, P!Cardinality(D)})
                       /\ \A x \in S, y \in D \ S : t[y].created <= t[x].created
    <2>1. \A S : Q(S) <=> Keeps(S)
      BY SameCardinality DEF c
    <2>2. N = CHOOSE S \in SUBSET D : Q(S)
      BY DEF P!Newest
    <2> HIDE DEF Q, Keeps, N, D
    <2> QED BY <1>4, <2>1, <2>2
  <1>5. P!Restrict(t, N) = [x \in N |-> t[x]]
    BY DEF P!Restrict
  <1> HIDE DEF m, N
  <1>6. CASE c < MaxSessions
    <2>1. m = c
      BY <1>1, <1>2, <1>3, <1>6
    <2>2. D \in SUBSET D /\ Keeps(D)
      BY <2>1 DEF c
    <2>3. N \in SUBSET D /\ Cardinality(N) = Cardinality(D)
      BY <1>4, <2>1, <2>2 DEF c
    <2>4. N = D
      BY <1>2, <2>3, FS_Subset
    <2>5. Cut(t, {}) = [x \in D |-> t[x]]
      <3>1. D \ {} = D
        OBVIOUS
      <3> QED BY <3>1 DEF Cut
    <2>6. P!Restrict(t, N) = Cut(t, {})
      BY <1>5, <2>4, <2>5
    <2>7. Evicts(t, {})
      BY <1>6 DEF Evicts, c
    <2> QED BY <2>6, <2>7 DEF N
  <1>7. CASE c = MaxSessions
    <2>1. m = MaxSessions - 1
      BY <1>1, <1>2, <1>3, <1>7
    <2>2. D # {}
      BY <1>1, <1>7, FS_EmptySet DEF c
    <2>3. PICK x \in D : \A k \in D : t[x].created <= t[k].created
      BY <2>2, OldestSession
    <2>4. Cardinality(D \ {x}) = m
      BY <1>2, <1>7, <2>1, FS_RemoveElement DEF c
    <2>5. D \ {x} \in SUBSET D /\ Keeps(D \ {x})
      BY <2>3, <2>4
    <2> HIDE DEF D
    <2>6. N \in SUBSET D /\ Keeps(N)
      BY <1>4, <2>5
    <2>7. D \cap N = N
      BY <2>6
    <2>8. IsFiniteSet(D \ N) /\ Cardinality(D \ N) = 1
      <3>1. IsFiniteSet(D \ N) /\ Cardinality(D \ N) = Cardinality(D) - Cardinality(D \cap N)
        BY <1>2, FS_Difference
      <3>2. Cardinality(D \cap N) = MaxSessions - 1 /\ Cardinality(D) = MaxSessions
        BY <1>7, <2>1, <2>6, <2>7 DEF c
      <3> HIDE DEF Keeps
      <3>3. Cardinality(D \ N) = MaxSessions - (MaxSessions - 1)
        BY <3>1, <3>2
      <3> QED BY <1>1, <3>1, <3>3
    <2>9. PICK z : D \ N = {z}
      BY <2>8, FS_Singleton
    <2>10. z \in D /\ z \notin N /\ N = D \ {z}
      BY <2>6, <2>9
    <2>11. \A k \in D : t[z].created <= t[k].created
      <3>1. \A k \in N : t[z].created <= t[k].created
        BY <2>6, <2>10
      <3>2. t[z].created \in Nat
        BY <2>10 DEF SessionsOf, TableOf, SessionRows, D
      <3> QED BY <2>10, <3>1, <3>2
    <2>12. Evicts(t, {z})
      BY <1>7, <2>10, <2>11 DEF Evicts, c, D
    <2>13. P!Restrict(t, N) = Cut(t, {z})
      BY <1>5, <2>10 DEF Cut, D
    <2> QED BY <2>12, <2>13 DEF N
  <1> QED BY <1>1, <1>2, <1>6, <1>7

LEMMA BegunInPg ==
    ASSUME NEW t, NEW d, d = SessionTable(t), NEW now \in Nat, SessionsOf(t, now), NEW id, NEW row
    PROVE  \E a : /\ Evicts(t, a)
                  /\ P!createSession(d, id, row) =
                         [db |-> SessionTable(Put(Cut(t, a), id, row)), answer |-> "done"]
  <1>1. PICK a : Evicts(t, a) /\ P!Restrict(t, P!Newest(t)) = Cut(t, a)
    BY NewestKept
  <1>2. d.sessions = t
    BY SessionFields
  <1> DEFINE u == P!With(P!Restrict(t, P!Newest(t)), id, row)
  <1>3. P!createSession(d, id, row) = [db |-> [d EXCEPT !.sessions = u], answer |-> "done"]
    BY <1>2 DEF P!createSession, P!Wrote
  <1>4. u = Put(Cut(t, a), id, row)
    BY <1>1, SameTableOps
  <1> HIDE DEF u
  <1>5. [d EXCEPT !.sessions = u] = SessionTable(u)
    BY SessionFields
  <1> QED BY <1>1, <1>3, <1>4, <1>5

LEMMA BegunInFile ==
    ASSUME NEW u, NEW e, e = SessionTable(u), NEW now \in Nat, SessionsOf(u, now),
           NEW id, id \notin DOMAIN u, NEW row
    PROVE  \E b : /\ Evicts(u, b)
                  /\ J!createSession(e, id, row) =
                         [db |-> SessionTable(Put(Cut(u, b), id, row)), answer |-> "done"]
  <1> DEFINE D == DOMAIN u
             oldest == CHOOSE x \in D : \A k \in D : u[x].created <= u[k].created
             b == IF Cardinality(D) >= MaxSessions THEN {oldest} ELSE {}
             v == J!With(J!Without(u, b), id, row)
  <1>1. e.sessions = u
    BY SessionFields
  <1>2. J!createSession(e, id, row) = [db |-> [e EXCEPT !.sessions = v], answer |-> "done"]
    BY <1>1, SameCardinality DEF J!createSession, J!Wrote
  <1>3. IsFiniteSet(D) /\ Cardinality(D) \in Nat /\ Cardinality(D) <= MaxSessions /\ MaxSessions \in Nat \ {0}
    BY FS_CardinalityType, StoresAssumption DEF SessionsOf
  <1>4. Evicts(u, b)
    <2>1. CASE Cardinality(D) >= MaxSessions
      <3>1. Cardinality(D) = MaxSessions
        BY <1>3, <2>1
      <3>2. D # {}
        BY <1>3, <3>1, FS_EmptySet
      <3>3. oldest \in D /\ \A k \in D : u[oldest].created <= u[k].created
        BY <3>2, OldestSession
      <3>4. b = {oldest}
        BY <2>1
      <3> HIDE DEF oldest, b
      <3> QED BY <3>1, <3>3, <3>4 DEF Evicts
    <2>2. CASE ~(Cardinality(D) >= MaxSessions)
      BY <1>3, <2>2 DEF Evicts
    <2> QED BY <2>1, <2>2
  <1> HIDE DEF b
  <1>5. v = Put(Cut(u, b), id, row)
    BY SameTableOps
  <1> HIDE DEF v
  <1>6. [e EXCEPT !.sessions = v] = SessionTable(v)
    BY SessionFields
  <1> QED BY <1>2, <1>4, <1>5, <1>6

\* The two answer alike, and leave the same sessions live.
SameSessionCall(p, j, now) ==
    \E t, u, a :
        /\ SessionsOf(t, now) /\ SessionsOf(u, now) /\ SameLive(t, u, now)
        /\ p = [db |-> SessionTable(t), answer |-> a]
        /\ j = [db |-> SessionTable(u), answer |-> a]

\* A restart leaves out those that have expired.
LEMMA ExpiredCut ==
    ASSUME NEW t, NEW u, NEW now \in Nat, SessionsOf(t, now), SessionsOf(u, now), SameLive(t, u, now),
           NEW a, NEW b, a \cap LiveIn(t, now) = b \cap LiveIn(t, now), NEW v, NEW w,
           v = Cut(t, a), w = Cut(u, b)
    PROVE  SessionsOf(v, now) /\ SessionsOf(w, now) /\ SameLive(v, w, now)
  BY SessionsCut, SameWithoutThem

LEMMA CreateSessionSame ==
    ASSUME NEW t, NEW u, NEW d, NEW e, d = SessionTable(t), e = SessionTable(u), NEW now \in Nat,
           SessionsOf(t, now), SessionsOf(u, now), SameLive(t, u, now),
           NEW id \in Keys, id \notin DOMAIN t, id \notin DOMAIN u,
           ~ (/\ Cardinality(DOMAIN u) >= MaxSessions
              /\ \E x, y \in LiveIn(u, now) :
                    /\ x # y
                    /\ u[x].created = u[y].created
                    /\ \A v \in LiveIn(u, now) : u[x].created <= u[v].created)
    PROVE  SameSessionCall(P!createSession(d, id, Begun(now)), J!createSession(e, id, Begun(now)), now)
  <1> DEFINE p == P!createSession(d, id, Begun(now))
             j == J!createSession(e, id, Begun(now))
  <1>1. PICK a : Evicts(t, a) /\ p = [db |-> SessionTable(Put(Cut(t, a), id, Begun(now))), answer |-> "done"]
    BY BegunInPg
  <1>2. PICK b : Evicts(u, b) /\ j = [db |-> SessionTable(Put(Cut(u, b), id, Begun(now))), answer |-> "done"]
    BY BegunInFile
  <1>3. SameLive(Cut(t, a), Cut(u, b), now)
    BY <1>1, <1>2, EvictedAlike
  <1>4. Cardinality(DOMAIN Cut(t, a)) < MaxSessions /\ Cardinality(DOMAIN Cut(u, b)) < MaxSessions
    BY <1>1, <1>2, RoomMade
  <1>5. id \notin DOMAIN Cut(t, a) /\ id \notin DOMAIN Cut(u, b)
    BY DEF Cut
  <1>6. SessionsOf(Cut(t, a), now) /\ SessionsOf(Cut(u, b), now)
    BY SessionsCut
  <1> DEFINE ta == Cut(t, a)
             ub == Cut(u, b)
             v == Put(ta, id, Begun(now))
             w == Put(ub, id, Begun(now))
  <1>7. SameLive(ta, ub, now) /\ SessionsOf(ta, now) /\ SessionsOf(ub, now)
    BY <1>3, <1>6
  <1>8. /\ Cardinality(DOMAIN ta) < MaxSessions /\ Cardinality(DOMAIN ub) < MaxSessions
        /\ id \notin DOMAIN ta /\ id \notin DOMAIN ub
    BY <1>4, <1>5
  <1>9. p = [db |-> SessionTable(v), answer |-> "done"] /\ j = [db |-> SessionTable(w), answer |-> "done"]
    BY <1>1, <1>2
  <1> HIDE DEF ta, ub, p, j
  <1>10. SessionsOf(v, now) /\ SessionsOf(w, now) /\ SameLive(v, w, now)
    BY <1>7, <1>8, StoresAssumption, BegunInBoth
  <1> HIDE DEF v, w
  <1>11. SameSessionCall(p, j, now)
    BY <1>9, <1>10 DEF SameSessionCall
  <1> QED BY <1>11 DEF p, j

LEMMA DeleteSessionSame ==
    ASSUME NEW t, NEW u, NEW d, NEW e, d = SessionTable(t), e = SessionTable(u), NEW now \in Nat,
           SessionsOf(t, now), SessionsOf(u, now), SameLive(t, u, now), NEW id
    PROVE  SameSessionCall(P!deleteSession(d, id), J!deleteSession(e, id), now)
  <1> DEFINE v == Cut(t, {id})
             w == Cut(u, {id})
             p == P!deleteSession(d, id)
             j == J!deleteSession(e, id)
  <1>1. d.sessions = t /\ e.sessions = u
    BY SessionFields
  <1>2. p = [db |-> [d EXCEPT !.sessions = P!Without(t, {id})], answer |-> "done"]
    BY <1>1 DEF P!deleteSession, P!Wrote
  <1>3. j = [db |-> [e EXCEPT !.sessions = J!Without(u, {id})], answer |-> "done"]
    BY <1>1 DEF J!deleteSession, J!Wrote
  <1>4. P!Without(t, {id}) = v /\ J!Without(u, {id}) = w
    BY SameTableOps
  <1>5. v = Cut(t, {id}) /\ w = Cut(u, {id})
    OBVIOUS
  <1> HIDE DEF v, w, p, j
  <1>6. [d EXCEPT !.sessions = v] = SessionTable(v) /\ [e EXCEPT !.sessions = w] = SessionTable(w)
    BY SessionFields
  <1>7. SessionsOf(v, now) /\ SessionsOf(w, now) /\ SameLive(v, w, now)
    BY <1>5, ExpiredCut
  <1>8. p = [db |-> SessionTable(v), answer |-> "done"] /\ j = [db |-> SessionTable(w), answer |-> "done"]
    BY <1>2, <1>3, <1>4, <1>6
  <1>9. SameSessionCall(p, j, now)
    BY <1>7, <1>8 DEF SameSessionCall
  <1> QED BY <1>9 DEF p, j

\* What a read of one finds: the row of a live one, otherwise nothing, and the row may be gone.
LEMMA SessionReadInPg ==
    ASSUME NEW t, NEW d, d = SessionTable(t), NEW now \in Nat, SessionsOf(t, now), NEW id
    PROVE  \/ /\ id \in LiveIn(t, now)
              /\ P!getSession(d, id, now) = [db |-> SessionTable(t), answer |-> t[id]]
           \/ /\ id \notin LiveIn(t, now)
              /\ \E a \in SUBSET {id} :
                    P!getSession(d, id, now) = [db |-> SessionTable(Cut(t, a)), answer |-> Absent]
  <1> DEFINE p == P!getSession(d, id, now)
             session == P!Row(t, id)
             v == Cut(t, {id})
             w == Cut(t, {})
  <1>1. d.sessions = t
    BY SessionFields
  <1>2. p = IF session # Absent /\ session.expires <= now
            THEN [db |-> [d EXCEPT !.sessions = P!Without(t, {id})], answer |-> Absent]
            ELSE [db |-> d, answer |-> session]
    BY <1>1 DEF P!getSession, P!Wrote
  <1>3. P!Without(t, {id}) = v
    BY SameTableOps
  <1>4. session = IF id \in DOMAIN t THEN t[id] ELSE Absent
    BY DEF P!Row
  <1>5. \A k \in DOMAIN t : t[k].expires \in Nat
    BY DEF SessionsOf, TableOf, SessionRows
  <1>6. w = t
    BY CutNothing DEF SessionsOf
  <1> HIDE DEF p, session, v, w
  <1>7. [d EXCEPT !.sessions = v] = SessionTable(v)
    BY SessionFields
  <1>8. CASE id \in LiveIn(t, now)
    <2>1. session = t[id] /\ t[id].expires > now /\ t[id].expires \in Nat
      BY <1>4, <1>5, <1>8 DEF LiveIn
    <2>2. ~(session.expires <= now)
      BY <2>1
    <2> QED BY <1>2, <1>8, <2>1, <2>2 DEF p
  <1>9. CASE id \notin LiveIn(t, now)
    <2>1. p = [db |-> SessionTable(v), answer |-> Absent] \/ p = [db |-> SessionTable(w), answer |-> Absent]
      <3>1. CASE id \in DOMAIN t
        <4>1. session = t[id] /\ t[id].expires <= now
          BY <1>4, <1>5, <1>9, <3>1 DEF LiveIn
        <4> QED BY <1>2, <1>3, <1>6, <1>7, <4>1
      <3>2. CASE id \notin DOMAIN t
        BY <1>2, <1>4, <1>6, <3>2
      <3> QED BY <3>1, <3>2
    <2> QED BY <1>9, <2>1 DEF p, v, w
  <1> QED BY <1>8, <1>9

LEMMA SessionReadInFile ==
    ASSUME NEW t, NEW d, d = SessionTable(t), NEW now \in Nat, SessionsOf(t, now), NEW id
    PROVE  \/ /\ id \in LiveIn(t, now)
              /\ J!getSession(d, id, now) = [db |-> SessionTable(t), answer |-> t[id]]
           \/ /\ id \notin LiveIn(t, now)
              /\ \E a \in SUBSET {id} :
                    J!getSession(d, id, now) = [db |-> SessionTable(Cut(t, a)), answer |-> Absent]
  <1>1. J!getSession(d, id, now) = P!getSession(d, id, now)
    BY DEF J!getSession, P!getSession, J!Row, P!Row, J!Without, P!Without, J!Wrote, P!Wrote
  <1> QED BY <1>1, SessionReadInPg

LEMMA GetSessionSame ==
    ASSUME NEW t, NEW u, NEW d, NEW e, d = SessionTable(t), e = SessionTable(u), NEW now \in Nat,
           SessionsOf(t, now), SessionsOf(u, now), SameLive(t, u, now), NEW id
    PROVE  SameSessionCall(P!getSession(d, id, now), J!getSession(e, id, now), now)
  <1> DEFINE p == P!getSession(d, id, now)
             j == J!getSession(e, id, now)
  <1>1. \/ id \in LiveIn(t, now) /\ p = [db |-> SessionTable(t), answer |-> t[id]]
        \/ /\ id \notin LiveIn(t, now)
           /\ \E a \in SUBSET {id} : p = [db |-> SessionTable(Cut(t, a)), answer |-> Absent]
    BY SessionReadInPg
  <1>2. \/ id \in LiveIn(u, now) /\ j = [db |-> SessionTable(u), answer |-> u[id]]
        \/ /\ id \notin LiveIn(u, now)
           /\ \E a \in SUBSET {id} : j = [db |-> SessionTable(Cut(u, a)), answer |-> Absent]
    BY SessionReadInFile
  <1> HIDE DEF p, j
  <1>3. LiveIn(t, now) = LiveIn(u, now) /\ \A k \in LiveIn(t, now) : t[k] = u[k]
    BY DEF SameLive
  <1>4. CASE id \in LiveIn(t, now)
    <2>1. p = [db |-> SessionTable(t), answer |-> t[id]] /\ j = [db |-> SessionTable(u), answer |-> t[id]]
      BY <1>1, <1>2, <1>3, <1>4
    <2>2. SameSessionCall(p, j, now)
      BY <2>1 DEF SameSessionCall
    <2> QED BY <2>2 DEF p, j
  <1>5. CASE id \notin LiveIn(t, now)
    <2>1. PICK a \in SUBSET {id} : p = [db |-> SessionTable(Cut(t, a)), answer |-> Absent]
      BY <1>1, <1>5
    <2>2. PICK b \in SUBSET {id} : j = [db |-> SessionTable(Cut(u, b)), answer |-> Absent]
      BY <1>2, <1>3, <1>5
    <2>3. a \cap LiveIn(t, now) = b \cap LiveIn(t, now)
      BY <1>5, <2>1, <2>2
    <2> DEFINE v == Cut(t, a)
               w == Cut(u, b)
    <2>4. SessionsOf(v, now) /\ SessionsOf(w, now) /\ SameLive(v, w, now)
      <3>1. v = Cut(t, a) /\ w = Cut(u, b)
        OBVIOUS
      <3> HIDE DEF v, w
      <3> QED BY <2>3, <3>1, ExpiredCut
    <2>5. p = [db |-> SessionTable(v), answer |-> Absent] /\ j = [db |-> SessionTable(w), answer |-> Absent]
      BY <2>1, <2>2
    <2> HIDE DEF v, w
    <2>6. SameSessionCall(p, j, now)
      BY <2>4, <2>5 DEF SameSessionCall
    <2> QED BY <2>6 DEF p, j
  <1> QED BY <1>4, <1>5

LEMMA SessionsAgree ==
    ASSUME SessionCalls, SessionsRelated, StoresAssumption, clock \in Nat, ~parted'
    PROVE  agree' /\ SessionsRelated'
  <1>1. PICK t, u : /\ SessionsOf(t, clock) /\ SessionsOf(u, clock) /\ SameLive(t, u, clock)
                    /\ pg = SessionTable(t) /\ json = SessionTable(u)
    BY DEF SessionsRelated
  <1>2. pg.sessions = t /\ json.sessions = u
    BY <1>1, SessionFields
  <1>3. ASSUME NEW p, NEW j, NEW unlike, Differing(p, j, unlike), SameSessionCall(p, j, clock)
        PROVE  agree' /\ SessionsRelated'
    <2>1. PICK v, w, a : /\ SessionsOf(v, clock) /\ SessionsOf(w, clock) /\ SameLive(v, w, clock)
                         /\ p = [db |-> SessionTable(v), answer |-> a]
                         /\ j = [db |-> SessionTable(w), answer |-> a]
      BY <1>3 DEF SameSessionCall
    <2>2. agree' /\ pg' = SessionTable(v) /\ json' = SessionTable(w) /\ clock' = clock
      BY <1>3, <2>1 DEF Differing
    <2>3. SessionsOf(v, clock') /\ SessionsOf(w, clock') /\ SameLive(v, w, clock')
      BY <2>1, <2>2
    <2> QED BY <2>2, <2>3 DEF SessionsRelated
  <1>4. ASSUME NEW id \in Keys, id \notin DOMAIN pg.sessions \cup DOMAIN json.sessions,
               Differing(P!createSession(pg, id, [created |-> clock, expires |-> clock + SessionLife]),
                         J!createSession(json, id, [created |-> clock, expires |-> clock + SessionLife]),
                         EvictsEither)
        PROVE  agree' /\ SessionsRelated'
    <2>1. ~EvictsEither
      BY <1>4 DEF Differing
    <2>2. {k \in DOMAIN json.sessions : json.sessions[k].expires > clock} = LiveIn(u, clock)
      BY <1>2 DEF LiveIn
    <2>3. ~ (/\ Cardinality(DOMAIN u) >= MaxSessions
             /\ \E x, y \in LiveIn(u, clock) :
                   /\ x # y
                   /\ u[x].created = u[y].created
                   /\ \A v \in LiveIn(u, clock) : u[x].created <= u[v].created)
      BY <1>2, <2>1, <2>2 DEF EvictsEither
    <2>4. id \notin DOMAIN t /\ id \notin DOMAIN u
      BY <1>2, <1>4
    <2> DEFINE p == P!createSession(pg, id, Begun(clock))
               j == J!createSession(json, id, Begun(clock))
    <2>5. Differing(p, j, EvictsEither)
      BY <1>4 DEF Begun
    <2>6. SameSessionCall(p, j, clock)
      BY <1>1, <2>3, <2>4, CreateSessionSame
    <2> HIDE DEF p, j
    <2> QED BY <1>3, <2>5, <2>6
  <1>5. ASSUME NEW id, Both(P!getSession(pg, id, clock), J!getSession(json, id, clock))
        PROVE  agree' /\ SessionsRelated'
    <2> DEFINE p == P!getSession(pg, id, clock)
               j == J!getSession(json, id, clock)
    <2>1. Differing(p, j, FALSE)
      BY <1>5 DEF Both
    <2>2. SameSessionCall(p, j, clock)
      BY <1>1, GetSessionSame
    <2> HIDE DEF p, j
    <2> QED BY <1>3, <2>1, <2>2
  <1>6. ASSUME NEW id, Both(P!deleteSession(pg, id), J!deleteSession(json, id))
        PROVE  agree' /\ SessionsRelated'
    <2> DEFINE p == P!deleteSession(pg, id)
               j == J!deleteSession(json, id)
    <2>1. Differing(p, j, FALSE)
      BY <1>6 DEF Both
    <2>2. SameSessionCall(p, j, clock)
      BY <1>1, DeleteSessionSame
    <2> HIDE DEF p, j
    <2> QED BY <1>3, <2>1, <2>2
  <1>7. \/ \E id \in Keys :
             /\ id \notin DOMAIN pg.sessions \cup DOMAIN json.sessions
             /\ Differing(P!createSession(pg, id, [created |-> clock, expires |-> clock + SessionLife]),
                          J!createSession(json, id, [created |-> clock, expires |-> clock + SessionLife]),
                          EvictsEither)
        \/ \E id \in Keys : Both(P!getSession(pg, id, clock), J!getSession(json, id, clock))
        \/ \E id \in Keys : Both(P!deleteSession(pg, id), J!deleteSession(json, id))
    BY Zenon DEF SessionCalls
  <1> QED BY <1>4, <1>5, <1>6, <1>7

\* A restart of the process leaves the expired ones out of the file's.
LEMMA SessionsRead ==
    ASSUME NEW t, NEW u, NEW e, e = SessionTable(u), NEW now \in Nat,
           SessionsOf(t, now), SessionsOf(u, now), SameLive(t, u, now)
    PROVE  \E v : /\ J!purgeSessions(e, now) = SessionTable(v)
                  /\ SessionsOf(v, now) /\ SameLive(t, v, now)
  <1> DEFINE gone == {k \in DOMAIN u : u[k].expires <= now}
             v == Cut(u, gone)
             w == Cut(t, {})
  <1>1. e.sessions = u
    BY SessionFields
  <1>2. J!purgeSessions(e, now) = [e EXCEPT !.sessions = J!Without(u, gone)]
    BY <1>1 DEF J!purgeSessions
  <1>3. J!Without(u, gone) = v
    BY SameTableOps
  <1>4. w = t
    BY CutNothing DEF SessionsOf
  <1>5. {} \cap LiveIn(t, now) = gone \cap LiveIn(t, now)
    <2>1. \A k \in DOMAIN u : u[k].expires \in Nat
      BY DEF SessionsOf, TableOf, SessionRows
    <2>2. LiveIn(t, now) = LiveIn(u, now)
      BY DEF SameLive
    <2> QED BY <2>1, <2>2 DEF LiveIn
  <1>6. v = Cut(u, gone) /\ w = Cut(t, {})
    OBVIOUS
  <1> HIDE DEF v, w, gone
  <1>7. [e EXCEPT !.sessions = v] = SessionTable(v)
    BY SessionFields
  <1>8. SessionsOf(v, now) /\ SameLive(w, v, now)
    BY <1>5, <1>6, ExpiredCut
  <1>9. J!purgeSessions(e, now) = SessionTable(v) /\ SessionsOf(v, now) /\ SameLive(t, v, now)
    BY <1>2, <1>3, <1>4, <1>7, <1>8
  <1> QED BY <1>9

\* As time passes fewer of them are live, and the same ones.
LEMMA SessionsLater ==
    ASSUME NEW t, NEW u, NEW now \in Nat, NEW later \in Nat, now <= later,
           SessionsOf(t, now), SessionsOf(u, now), SameLive(t, u, now)
    PROVE  SessionsOf(t, later) /\ SessionsOf(u, later) /\ SameLive(t, u, later)
  <1>1. /\ \A k \in DOMAIN t : t[k].created \in Nat /\ t[k].expires \in Nat
        /\ \A k \in DOMAIN u : u[k].created \in Nat /\ u[k].expires \in Nat
    BY DEF SessionsOf, TableOf, SessionRows
  <1>2. SessionsOf(t, later) /\ SessionsOf(u, later)
    BY <1>1 DEF SessionsOf
  <1>3. LiveIn(t, now) = LiveIn(u, now) /\ \A k \in LiveIn(t, now) : t[k] = u[k]
    BY DEF SameLive
  <1>4. \A k : k \in LiveIn(t, later) <=> k \in LiveIn(t, now) /\ t[k].expires > later
    BY <1>1 DEF LiveIn
  <1>5. \A k : k \in LiveIn(u, later) <=> k \in LiveIn(u, now) /\ u[k].expires > later
    BY <1>1 DEF LiveIn
  <1>6. \A k : k \in LiveIn(t, later) <=> k \in LiveIn(u, later)
    BY <1>3, <1>4, <1>5
  <1>7. \A k \in LiveIn(t, later) : t[k] = u[k]
    BY <1>3, <1>4
  <1> QED BY <1>2, <1>6, <1>7 DEF SameLive

LEMMA SessionsSame ==
    ASSUME SessionsRelated
    PROVE  SameSessions
  <1>1. PICK t, u : /\ SessionsOf(t, clock) /\ SessionsOf(u, clock) /\ SameLive(t, u, clock)
                    /\ pg = SessionTable(t) /\ json = SessionTable(u)
    BY DEF SessionsRelated
  <1>2. pg.sessions = t /\ json.sessions = u
    BY <1>1, SessionFields
  <1>3. LiveIn(t, clock) = LiveIn(u, clock) /\ \A k \in LiveIn(t, clock) : t[k] = u[k]
    BY <1>1 DEF SameLive
  <1>4. /\ Live(t) = {[id |-> k, row |-> t[k]] : k \in LiveIn(t, clock)}
        /\ Live(u) = {[id |-> k, row |-> u[k]] : k \in LiveIn(u, clock)}
    BY DEF Live, LiveIn
  <1>5. Live(t) = Live(u)
    BY <1>3, <1>4
  <1> QED BY <1>1, <1>2, <1>5 DEF SameSessions, SessionsOf

-----------------------------------------------------------------------------
(* The inductive invariant, and what it says of every behaviour.           *)

StoresRelated ==
    /\ group = "merchants" => MerchantsRelated
    /\ group = "keys" => KeysRelated
    /\ group = "deliveries" => DeliveriesRelated
    /\ group = "sessions" => SessionsRelated
    /\ group = "nonces" => NoncesRelated
    /\ group = "claims" => ClaimsRelated
    /\ group = "orders" => OrdersRelated
    /\ group = "shops" => pg = json
    /\ group = "states" => StatesRelated
    /\ group = "pending" => PendingRelated

StoresInv == StoresTypeOK /\ (parted \/ (agree /\ StoresRelated))

LEMMA NoRows ==
    ASSUME NEW K, NEW R
    PROVE  TableOf(<<>>, K, R) /\ DOMAIN <<>> = {} /\ ListsOnce(<<>>, {}) /\ DOMAIN <<>> = 1..0
  <1>1. DOMAIN <<>> = {}
    OBVIOUS
  <1>2. <<>> = [k \in DOMAIN <<>> |-> <<>>[k]]
    OBVIOUS
  <1>3. <<>> \in Seq({})
    OBVIOUS
  <1> QED BY <1>1, <1>2, <1>3 DEF TableOf, ListsOnce, Lists

LEMMA MerchantsStart == StartMerchants => MerchantsRelated
  <1> SUFFICES ASSUME StartMerchants PROVE MerchantsRelated
    OBVIOUS
  <1>1. /\ pg = MerchantTables({}, <<>>, <<>>)
        /\ json = MerchantTables(<<>>, <<>>, <<>>)
    BY DEF StartMerchants, MerchantTables
  <1> QED BY <1>1, NoRows DEF MerchantsRelated

LEMMA KeysStart == StartKeys => KeysRelated
  <1> SUFFICES ASSUME StartKeys PROVE KeysRelated
    OBVIOUS
  <1>1. PICK old \in SUBSET Keys, m \in Owners :
             LET rows == [key \in old |-> [owner |-> m, hashed |-> FALSE]]
             IN  /\ pg = [apiKeys |-> rows]
                 /\ json = J!readApiKeys([apiKeys |-> rows, legacyApiKeys |-> <<>>])
    BY DEF StartKeys
  <1> DEFINE t == [key \in old |-> [owner |-> m, hashed |-> FALSE]]
             e == [apiKeys |-> t, legacyApiKeys |-> <<>>]
  <1>2. TableOf(t, Keys, KeyRows)
    BY DEF TableOf, KeyRows
  <1>3. e.apiKeys = t /\ e.legacyApiKeys = <<>> /\ DOMAIN <<>> = {}
    OBVIOUS
  <1>4. DOMAIN t = old /\ \A k \in old : ~t[k].hashed /\ t[k].owner = m
    OBVIOUS
  <1> DEFINE gone == {k \in DOMAIN t : ~t[k].hashed}
  <1>5. gone = old
    BY <1>4
  <1>6. pg = [apiKeys |-> t] /\ json = J!readApiKeys(e)
    BY <1>1
  <1> HIDE DEF t, e
  <1>7. J!readApiKeys(e) = [apiKeys |-> J!Without(t, gone),
                            legacyApiKeys |-> [k \in DOMAIN <<>> \cup gone |->
                                                  IF k \in gone THEN t[k].owner ELSE <<>>[k]]]
    BY <1>3 DEF J!readApiKeys
  <1>8. J!Without(t, gone) = Hashed(t)
    BY DEF J!Without, Hashed
  <1>9. [k \in DOMAIN <<>> \cup gone |-> IF k \in gone THEN t[k].owner ELSE <<>>[k]] = Legacy(t)
    BY <1>3 DEF Legacy
  <1>10. json = KeyTables(t)
    BY <1>6, <1>7, <1>8, <1>9 DEF KeyTables
  <1> QED BY <1>2, <1>6, <1>10 DEF KeysRelated

LEMMA DeliveriesStart == StartDeliveries /\ held = Absent => DeliveriesRelated
  <1> SUFFICES ASSUME StartDeliveries, held = Absent PROVE DeliveriesRelated
    OBVIOUS
  <1> DEFINE t == <<>>
             b == Absent
  <1>1. pg = PgTable(t) /\ LastOf(<<>>) = Absent
    BY DEF StartDeliveries, PgTable, LastOf
  <1>2. json = DeliveryTables(t, <<>>, b)
    <2> DEFINE e == [deliveries |-> t, order |-> <<>>, byOrder |-> Absent]
    <2>1. e = DeliveryTables(t, <<>>, LastOf(<<>>))
      BY <1>1 DEF DeliveryTables
    <2>2. json = J!indexDeliveries(e)
      BY DEF StartDeliveries
    <2> HIDE DEF e, t
    <2>3. J!indexDeliveries(e) = e
      BY <2>1, DeliveriesRead
    <2> QED BY <1>1, <2>1, <2>2, <2>3
  <1>3. /\ TableOf(t, Payments, DeliveryRows)
        /\ FiledInOrder(t, <<>>, clock)
        /\ HeldOf(t, held)
    BY NoRows DEF FiledInOrder, HeldOf
  <1> HIDE DEF t
  <1> QED BY <1>1, <1>2, <1>3 DEF DeliveriesRelated

LEMMA SessionsStart == StartSessions /\ clock \in Nat => SessionsRelated
  <1> SUFFICES ASSUME StartSessions, clock \in Nat PROVE SessionsRelated
    OBVIOUS
  <1> DEFINE t == <<>>
             e == SessionTable(t)
  <1>1. MaxSessions \in Nat
    BY StoresAssumption
  <1>2. IsFiniteSet({}) /\ Cardinality({}) = 0
    BY FS_EmptySet
  <1>3. SessionsOf(t, clock) /\ SameLive(t, t, clock)
    BY <1>1, <1>2, NoRows DEF SessionsOf, SameLive
  <1>4. pg = SessionTable(t) /\ json = J!purgeSessions(e, clock) /\ e = SessionTable(t)
    BY DEF StartSessions, SessionTable
  <1> HIDE DEF t, e
  <1>5. PICK v : /\ J!purgeSessions(e, clock) = SessionTable(v)
                 /\ SessionsOf(v, clock) /\ SameLive(t, v, clock)
    BY <1>3, <1>4, SessionsRead
  <1> QED BY <1>3, <1>4, <1>5 DEF SessionsRelated

LEMMA NoncesStart == StartNonces => NoncesRelated
  BY NoRows DEF StartNonces, NoncesRelated, NonceTable

LEMMA StatesStart == StartStates => StatesRelated
  BY NoRows DEF StartStates, StatesRelated

LEMMA PendingStart == StartPending => PendingRelated
  <1> SUFFICES ASSUME StartPending PROVE PendingRelated
    OBVIOUS
  <1>1. pg = PgPending(<<>>) /\ json = FilePending(<<>>, <<>>)
    BY DEF StartPending, PgPending, FilePending
  <1>2. TableOf(<<>>, Payments, PendingRows) /\ Lists(<<>>, DOMAIN <<>>)
    BY NoRows DEF ListsOnce
  <1> QED BY <1>1, <1>2 DEF PendingRelated

\* The two fill in the chain of an old row alike.
LEMMA BackfillSame ==
    ASSUME NEW row
    PROVE  P!Backfilled(row) = J!withChainId(row)
  BY DEF P!Backfilled, J!withChainId

LEMMA ClaimsStart == StartClaims /\ StoresAssumption => ClaimsRelated
  <1> SUFFICES ASSUME StartClaims, StoresAssumption PROVE ClaimsRelated
    OBVIOUS
  <1>1. PICK link \in {Absent, OldLink} :
             /\ pg = P!initLinks([link |-> link, claims |-> <<>>])
             /\ json = J!readLinks([link |-> link, claims |-> <<>>])
    BY DEF StartClaims
  <1> DEFINE t == <<>>
             d == ClaimTables(link, t)
             l == J!withChainId(link)
  <1>2. pg = P!initLinks(d) /\ json = J!readLinks(d) /\ d = ClaimTables(link, t)
    BY <1>1 DEF ClaimTables
  <1>3. ClaimsOf(<<>>, t)
    BY NoRows DEF ClaimsOf
  <1>4. ArrayOf(<<>>, t) = t
    BY DEF ArrayOf
  <1>5. PoolOf(l, t)
    <2>1. CASE link = Absent
      BY <2>1 DEF J!withChainId, PoolOf
    <2>2. CASE link # Absent /\ link = OldLink
      <3>1. /\ DefaultChain \in Networks /\ LinkCap \in Nat /\ Pool \in Seq(PoolOrders)
            /\ \A i, j \in DOMAIN Pool : Pool[i] = Pool[j] => i = j
        BY DEF StoresAssumption, PoolOfEach
      <3>2. l = [chain |-> DefaultChain, pool |-> Pool, cap |-> 0, fixed |-> Absent]
        BY <2>2 DEF J!withChainId, OldLink
      <3>3. l \in Links
        BY <3>1, <3>2 DEF Links
      <3>4. l.fixed = Absent /\ l.pool = Pool /\ DOMAIN t = {}
        BY <3>2
      <3> HIDE DEF l, t
      <3> QED BY <3>1, <3>3, <3>4 DEF PoolOf
    <2> QED BY <2>1, <2>2
  <1> HIDE DEF t, d, l
  <1>6. d.link = link /\ [d EXCEPT !.link = l] = ClaimTables(l, t)
    BY <1>2, ClaimFields
  <1>7. pg = ClaimTables(l, t) /\ json = ClaimTables(l, t)
    BY <1>2, <1>6, BackfillSame DEF P!initLinks, J!readLinks, l
  <1> QED BY <1>3, <1>4, <1>5, <1>7 DEF ClaimsRelated

LEMMA OrdersStart == StartOrders /\ StoresAssumption => OrdersRelated
  <1> SUFFICES ASSUME StartOrders, StoresAssumption PROVE OrdersRelated
    OBVIOUS
  <1>1. PICK meta \in {Absent, OldMeta} :
             /\ pg = P!initOrderMeta([meta |-> meta, qiOrders |-> <<>>])
             /\ json = J!readOrderMeta([meta |-> meta, qiOrders |-> <<>>])
    BY DEF StartOrders
  <1> DEFINE m == J!withChainId(meta)
  <1>2. m = Absent \/ m \in MetaRows
    <2>1. CASE meta = Absent
      BY <2>1 DEF J!withChainId
    <2>2. CASE meta # Absent /\ meta = OldMeta
      <3>1. DefaultChain \in Networks
        BY DEF StoresAssumption
      <3>2. m = [merchant |-> "m", name |-> "n", slug |-> Absent, reference |-> Absent,
                 chain |-> DefaultChain]
        BY <2>2 DEF J!withChainId, OldMeta
      <3> QED BY <3>1, <3>2 DEF MetaRows
    <2> QED BY <2>1, <2>2
  <1>3. P!Backfilled(meta) = m
    BY BackfillSame
  <1> HIDE DEF m
  <1>4. pg = OrderTables(m, <<>>) /\ json = OrderTables(m, <<>>)
    BY <1>1, <1>3 DEF P!initOrderMeta, J!readOrderMeta, OrderTables, m
  <1> QED BY <1>2, <1>4, NoRows DEF OrdersRelated

LEMMA StoresInitInv == StoresInit /\ clock \in Nat => StoresInv
  <1> SUFFICES ASSUME StoresInit, clock \in Nat PROVE StoresInv
    OBVIOUS
  <1>1. StoresTypeOK /\ agree
    BY DEF StoresInit, StoresTypeOK
  <1>2. held = Absent /\ StoresAssumption
    BY StoresAssumption DEF StoresInit
  <1>3. StartShops => pg = json
    BY DEF StartShops
  <1>4. StoresRelated
    BY <1>2, <1>3, MerchantsStart, KeysStart, DeliveriesStart, SessionsStart, NoncesStart,
       ClaimsStart, OrdersStart, StatesStart, PendingStart
       DEF StoresInit, OnFile, StoresRelated
  <1> QED BY <1>1, <1>4 DEF StoresInv

\* No call makes what was parted agree again, nor leaves the group it is about; only the
\* dispatcher's calls have a delivery at hand.
StoresFrame ==
    /\ group' = group
    /\ agree' \in BOOLEAN
    /\ parted' \in BOOLEAN
    /\ parted => parted'
    /\ held' = held \/ held' = Absent \/ group = "deliveries"

LEMMA FrameOfCall ==
    ASSUME NEW p, NEW j, NEW unlike \in BOOLEAN, Differing(p, j, unlike),
           held' = held \/ held' = Absent \/ group = "deliveries"
    PROVE  StoresFrame
  <1>1. (p.answer = j.answer) \in BOOLEAN
    OBVIOUS
  <1>2. ~parted /\ agree' = (p.answer = j.answer) /\ parted' = unlike /\ group' = group
    BY DEF Differing
  <1>3. agree' \in BOOLEAN /\ parted' \in BOOLEAN
    BY <1>1, <1>2
  <1> QED BY <1>2, <1>3 DEF StoresFrame

LEMMA FrameOfBoth ==
    ASSUME NEW p, NEW j, Both(p, j)
    PROVE  StoresFrame
  <1>1. Differing(p, j, FALSE) /\ held' = held
    BY Zenon DEF Both
  <1> QED BY <1>1, FrameOfCall

LEMMA FrameOfDelivery ==
    ASSUME DeliveryCalls, agree \in BOOLEAN, parted \in BOOLEAN
    PROVE  StoresFrame
  <1>1. group = "deliveries"
    BY DEF DeliveryCalls
  <1>2. CASE TakeDue
    <2>1. /\ held' = [id |-> P!NextDue(pg, clock), row |-> pg.deliveries[P!NextDue(pg, clock)]]
          /\ UNCHANGED <<group, pg, json, agree, parted, clock>>
      BY <1>2 DEF TakeDue
    <2> QED BY <1>1, <2>1 DEF StoresFrame
  <1>3. CASE RecordAttempt
    <2>1. \E p, j : Differing(p, j, FALSE)
      BY <1>3, Zenon DEF RecordAttempt
    <2> QED BY <1>1, <2>1, FrameOfCall
  <1>4. ASSUME NEW id, NEW status, FileDelivery(id, status)
        PROVE  StoresFrame
    <2>1. \E p, j : Both(p, j)
      BY <1>4, Zenon DEF FileDelivery
    <2> QED BY <2>1, FrameOfBoth
  <1>5. ASSUME NEW id, Retry(id)
        PROVE  StoresFrame
    <2>1. \E p, j : Both(p, j)
      BY <1>5, Zenon DEF Retry
    <2> QED BY <2>1, FrameOfBoth
  <1>6. CASE Both(P!requeueSkippedForMerchant(pg, clock), J!requeueSkippedForMerchant(json, clock))
    BY <1>6, FrameOfBoth
  <1> QED BY <1>2, <1>3, <1>4, <1>5, <1>6 DEF DeliveryCalls

LEMMA FrameOfSession == SessionCalls => StoresFrame
  <1> SUFFICES ASSUME SessionCalls PROVE StoresFrame
    OBVIOUS
  <1>1. EvictsEither \in BOOLEAN
    BY Zenon DEF EvictsEither
  <1>2. \/ \E p, j : Differing(p, j, EvictsEither) /\ held' = held
        \/ \E p, j : Both(p, j)
    BY Zenon DEF SessionCalls
  <1> HIDE DEF EvictsEither
  <1> QED BY <1>1, <1>2, FrameOfCall, FrameOfBoth

LEMMA FrameOfClaim == ClaimCalls => StoresFrame
  <1> SUFFICES ASSUME ClaimCalls PROVE StoresFrame
    OBVIOUS
  <1>1. RecyclesAnother \in BOOLEAN
    BY Zenon DEF RecyclesAnother
  <1>2. \/ \E p, j : Differing(p, j, RecyclesAnother) /\ held' = held
        \/ \E p, j : Both(p, j)
    BY Zenon DEF ClaimCalls
  <1> QED BY <1>1, <1>2, FrameOfCall, FrameOfBoth

LEMMA FrameOfOrder == OrderCalls => StoresFrame
  <1> SUFFICES ASSUME OrderCalls PROVE StoresFrame
    OBVIOUS
  <1>1. ASSUME NEW meta PROVE ReplacesMore(meta) \in BOOLEAN
    BY Zenon DEF ReplacesMore
  <1>2. ASSUME NEW order, NEW address, NEW q
        PROVE  (order \notin DOMAIN q /\ \E o \in DOMAIN q : q[o].address = address) \in BOOLEAN
    BY Zenon
  <1>3. \/ \E meta, p, j : Differing(p, j, ReplacesMore(meta)) /\ held' = held
        \/ \E order, address, p, j :
              /\ Differing(p, j, /\ order \notin DOMAIN pg.qiOrders
                                 /\ \E o \in DOMAIN pg.qiOrders : pg.qiOrders[o].address = address)
              /\ held' = held
        \/ \E p, j : Both(p, j)
    BY Zenon DEF OrderCalls
  <1> QED BY <1>1, <1>2, <1>3, FrameOfCall, FrameOfBoth

LEMMA FrameOfState == StateCalls => StoresFrame
  <1> SUFFICES ASSUME StateCalls PROVE StoresFrame
    OBVIOUS
  <1>1. ASSUME NEW state, NEW shop, NEW q
        PROVE  (state \in DOMAIN q /\ q[state].shop # shop) \in BOOLEAN
    BY Zenon
  <1>2. \/ \E state, shop, p, j :
              /\ Differing(p, j, state \in DOMAIN pg.states /\ pg.states[state].shop # shop)
              /\ held' = held
        \/ \E p, j : Both(p, j)
    BY Zenon DEF StateCalls
  <1> QED BY <1>1, <1>2, FrameOfCall, FrameOfBoth

LEMMA FrameOfNext ==
    ASSUME StoresNext, agree \in BOOLEAN, parted \in BOOLEAN
    PROVE  StoresFrame
  <1>1. CASE MerchantCalls \/ KeyCalls \/ NonceCalls \/ ShopCalls \/ PendingCalls
    <2>1. \E p, j : Both(p, j)
      BY <1>1, Zenon DEF MerchantCalls, KeyCalls, NonceCalls, ShopCalls, PendingCalls
    <2> QED BY <2>1, FrameOfBoth
  <1>2. CASE StoreRestart
    BY <1>2 DEF StoreRestart, StoresFrame
  <1>3. CASE StoreTick
    BY <1>3 DEF StoreTick, StoresFrame, storeVars
  <1> QED BY <1>1, <1>2, <1>3, FrameOfDelivery, FrameOfSession, FrameOfClaim, FrameOfOrder,
          FrameOfState DEF StoresNext

\* As time passes without a call what relates the two stays true.
LEMMA StoresLater ==
    ASSUME StoresRelated, UNCHANGED storeVars, clock \in Nat, clock' \in Nat, clock <= clock'
    PROVE  StoresRelated'
  <1>1. group' = group /\ pg' = pg /\ json' = json /\ held' = held
    BY DEF storeVars
  <1>2. ASSUME DeliveriesRelated PROVE DeliveriesRelated'
    <2>1. PICK t, s : /\ TableOf(t, Payments, DeliveryRows)
                      /\ FiledInOrder(t, s, clock)
                      /\ HeldOf(t, held)
                      /\ pg = PgTable(t) /\ json = DeliveryTables(t, s, LastOf(s))
      BY <1>2 DEF DeliveriesRelated
    <2>2. \A id \in DOMAIN t : t[id].created \in Nat
      BY <2>1 DEF TableOf, DeliveryRows
    <2>3. FiledInOrder(t, s, clock')
      BY <2>1, <2>2 DEF FiledInOrder
    <2>4. pg' = PgTable(t) /\ json' = DeliveryTables(t, s, LastOf(s)) /\ HeldOf(t, held')
      BY <1>1, <2>1
    <2> QED BY <2>1, <2>3, <2>4 DEF DeliveriesRelated
  <1>3. ASSUME SessionsRelated PROVE SessionsRelated'
    <2>1. PICK t, u : /\ SessionsOf(t, clock) /\ SessionsOf(u, clock) /\ SameLive(t, u, clock)
                      /\ pg = SessionTable(t) /\ json = SessionTable(u)
      BY <1>3 DEF SessionsRelated
    <2>2. SessionsOf(t, clock') /\ SessionsOf(u, clock') /\ SameLive(t, u, clock')
      BY <2>1, SessionsLater
    <2>3. pg' = SessionTable(t) /\ json' = SessionTable(u)
      BY <1>1, <2>1
    <2> QED BY <2>2, <2>3 DEF SessionsRelated
  <1>4. /\ MerchantsRelated => MerchantsRelated'
        /\ KeysRelated => KeysRelated'
        /\ NoncesRelated => NoncesRelated'
        /\ OrdersRelated => OrdersRelated'
    BY <1>1 DEF MerchantsRelated, KeysRelated, NoncesRelated, OrdersRelated
  <1>5. /\ ClaimsRelated => ClaimsRelated'
        /\ StatesRelated => StatesRelated'
        /\ PendingRelated => PendingRelated'
        /\ pg = json => pg' = json'
    BY <1>1 DEF ClaimsRelated, StatesRelated, PendingRelated
  <1> QED BY <1>1, <1>2, <1>3, <1>4, <1>5 DEF StoresRelated

\* A restart of the process with the file.
LEMMA RestartRelates ==
    ASSUME StoreRestart, StoresRelated, StoresAssumption, clock \in Nat
    PROVE  agree' = agree /\ StoresRelated'
  <1>1. /\ held' = Absent /\ group' = group /\ pg' = pg /\ agree' = agree /\ clock' = clock
        /\ json' = CASE group = "deliveries" -> J!indexDeliveries(json)
                     [] group = "sessions" -> J!purgeSessions(json, clock)
                     [] group = "claims" -> J!readLinks(json)
                     [] group = "orders" -> J!readOrderMeta(json)
                     [] group = "keys" -> J!readApiKeys(json)
                     [] OTHER -> json
    BY DEF StoreRestart
  <1>2. CASE group = "deliveries"
    <2>1. PICK t, s : /\ TableOf(t, Payments, DeliveryRows)
                      /\ FiledInOrder(t, s, clock)
                      /\ pg = PgTable(t) /\ json = DeliveryTables(t, s, LastOf(s))
      BY <1>2 DEF StoresRelated, DeliveriesRelated
    <2>2. J!indexDeliveries(json) = json
      BY <2>1, DeliveriesRead
    <2>3. json' = json
      BY <1>1, <1>2, <2>2
    <2>4. FiledInOrder(t, s, clock') /\ HeldOf(t, held')
      BY <1>1, <2>1 DEF HeldOf
    <2>5. pg' = PgTable(t) /\ json' = DeliveryTables(t, s, LastOf(s))
      BY <1>1, <2>1, <2>3
    <2>6. DeliveriesRelated'
      BY <2>1, <2>4, <2>5 DEF DeliveriesRelated
    <2> QED BY <1>1, <1>2, <2>6 DEF StoresRelated
  <1>3. CASE group = "sessions"
    <2>1. PICK t, u : /\ SessionsOf(t, clock) /\ SessionsOf(u, clock) /\ SameLive(t, u, clock)
                      /\ pg = SessionTable(t) /\ json = SessionTable(u)
      BY <1>3 DEF StoresRelated, SessionsRelated
    <2>2. PICK v : /\ J!purgeSessions(json, clock) = SessionTable(v)
                   /\ SessionsOf(v, clock) /\ SameLive(t, v, clock)
      BY <2>1, SessionsRead
    <2>3. json' = SessionTable(v) /\ pg' = SessionTable(t)
      BY <1>1, <1>3, <2>1, <2>2
    <2>4. SessionsOf(t, clock') /\ SessionsOf(v, clock') /\ SameLive(t, v, clock')
      BY <1>1, <2>1, <2>2
    <2>5. SessionsRelated'
      BY <2>3, <2>4 DEF SessionsRelated
    <2> QED BY <1>1, <1>3, <2>5 DEF StoresRelated
  <1>4. CASE group \notin {"deliveries", "sessions"}
    <2>1. group = "claims" => J!readLinks(json) = json
      BY ClaimsRead DEF StoresRelated
    <2>2. group = "orders" => J!readOrderMeta(json) = json
      BY OrdersRead DEF StoresRelated
    <2>3. group = "keys" => J!readApiKeys(json) = json
      BY KeysRead DEF StoresRelated, KeysRelated
    <2>4. json' = json
      BY <1>1, <1>4, <2>1, <2>2, <2>3
    <2>5. /\ MerchantsRelated => MerchantsRelated'
          /\ KeysRelated => KeysRelated'
          /\ NoncesRelated => NoncesRelated'
          /\ OrdersRelated => OrdersRelated'
      BY <1>1, <2>4 DEF MerchantsRelated, KeysRelated, NoncesRelated, OrdersRelated
    <2>6. /\ ClaimsRelated => ClaimsRelated'
          /\ StatesRelated => StatesRelated'
          /\ PendingRelated => PendingRelated'
          /\ pg = json => pg' = json'
      BY <1>1, <2>4 DEF ClaimsRelated, StatesRelated, PendingRelated
    <2> QED BY <1>1, <1>4, <2>5, <2>6 DEF StoresRelated
  <1> QED BY <1>2, <1>3, <1>4

\* A call keeps what relates the two, and gets the same answer from both, unless it is one that
\* they are known to treat differently.
LEMMA CallRelates ==
    ASSUME MerchantCalls \/ KeyCalls \/ DeliveryCalls \/ SessionCalls \/ NonceCalls \/ ClaimCalls
               \/ OrderCalls \/ ShopCalls \/ StateCalls \/ PendingCalls,
           StoresRelated, StoresAssumption, clock \in Nat, agree, group' = group, ~parted'
    PROVE  agree' /\ StoresRelated'
  <1>1. CASE MerchantCalls
    <2>1. group = "merchants" /\ MerchantsRelated
      BY <1>1 DEF MerchantCalls, StoresRelated
    <2>2. agree' /\ MerchantsRelated'
      BY <1>1, <2>1, MerchantsAgree
    <2> QED BY <2>1, <2>2 DEF StoresRelated
  <1>2. CASE KeyCalls
    <2>1. group = "keys" /\ KeysRelated
      BY <1>2 DEF KeyCalls, StoresRelated
    <2>2. agree' /\ KeysRelated'
      BY <1>2, <2>1, KeysAgree
    <2> QED BY <2>1, <2>2 DEF StoresRelated
  <1>3. CASE DeliveryCalls
    <2>1. group = "deliveries" /\ DeliveriesRelated
      BY <1>3 DEF DeliveryCalls, StoresRelated
    <2>2. agree' /\ DeliveriesRelated'
      BY <1>3, <2>1, DeliveriesAgree
    <2> QED BY <2>1, <2>2 DEF StoresRelated
  <1>4. CASE SessionCalls
    <2>1. group = "sessions" /\ SessionsRelated
      BY <1>4 DEF SessionCalls, StoresRelated
    <2>2. agree' /\ SessionsRelated'
      BY <1>4, <2>1, SessionsAgree
    <2> QED BY <2>1, <2>2 DEF StoresRelated
  <1>5. CASE NonceCalls
    <2>1. group = "nonces" /\ NoncesRelated
      BY <1>5 DEF NonceCalls, StoresRelated
    <2>2. agree' /\ NoncesRelated'
      BY <1>5, <2>1, NoncesAgree
    <2> QED BY <2>1, <2>2 DEF StoresRelated
  <1>6. CASE ClaimCalls
    <2>1. group = "claims" /\ ClaimsRelated
      BY <1>6 DEF ClaimCalls, StoresRelated
    <2>2. agree' /\ ClaimsRelated'
      BY <1>6, <2>1, ClaimsAgree
    <2> QED BY <2>1, <2>2 DEF StoresRelated
  <1>7. CASE OrderCalls
    <2>1. group = "orders" /\ OrdersRelated
      BY <1>7 DEF OrderCalls, StoresRelated
    <2>2. agree' /\ OrdersRelated'
      BY <1>7, <2>1, OrdersAgree
    <2> QED BY <2>1, <2>2 DEF StoresRelated
  <1>8. CASE ShopCalls
    <2>1. group = "shops" /\ pg = json
      BY <1>8 DEF ShopCalls, StoresRelated
    <2>2. agree' /\ pg' = json'
      BY <1>8, <2>1, ShopsAgree
    <2> QED BY <2>1, <2>2 DEF StoresRelated
  <1>9. CASE StateCalls
    <2>1. group = "states" /\ StatesRelated
      BY <1>9 DEF StateCalls, StoresRelated
    <2>2. agree' /\ StatesRelated'
      BY <1>9, <2>1, StatesAgree
    <2> QED BY <2>1, <2>2 DEF StoresRelated
  <1>10. CASE PendingCalls
    <2>1. group = "pending" /\ PendingRelated
      BY <1>10 DEF PendingCalls, StoresRelated
    <2>2. agree' /\ PendingRelated'
      BY <1>10, <2>1, PendingAgree
    <2> QED BY <2>1, <2>2 DEF StoresRelated
  <1> QED BY <1>1, <1>2, <1>3, <1>4, <1>5, <1>6, <1>7, <1>8, <1>9, <1>10

LEMMA StoresStep ==
    ASSUME StoresInv, StoresNext \/ UNCHANGED storeVars, clock \in Nat,
           clock' = clock \/ clock' = clock + 1
    PROVE  StoresInv'
  <1>1. /\ agree \in BOOLEAN /\ parted \in BOOLEAN /\ group \in Groups
        /\ held # Absent => group = "deliveries"
        /\ parted \/ (agree /\ StoresRelated)
    BY DEF StoresInv, StoresTypeOK
  <1>2. StoresFrame
    <2>1. CASE StoresNext
      BY <1>1, <2>1, FrameOfNext
    <2>2. CASE UNCHANGED storeVars
      BY <1>1, <2>2 DEF StoresFrame, storeVars
    <2> QED BY <2>1, <2>2
  <1>3. StoresTypeOK'
    BY <1>1, <1>2 DEF StoresFrame, StoresTypeOK
  <1>4. ASSUME ~parted'
        PROVE  agree' /\ StoresRelated'
    <2>1. agree /\ StoresRelated /\ group' = group
      BY <1>1, <1>2, <1>4 DEF StoresFrame
    <2>2. CASE UNCHANGED storeVars
      <3>1. agree' = agree /\ clock' \in Nat /\ clock <= clock'
        BY <2>2 DEF storeVars
      <3> QED BY <2>1, <2>2, <3>1, StoresLater
    <2>3. CASE StoreTick
      <3>1. UNCHANGED storeVars
        BY <2>3 DEF StoreTick
      <3> QED BY <2>2, <3>1
    <2>4. CASE StoreRestart
      BY <2>1, <2>4, StoresAssumption, RestartRelates
    <2>5. CASE MerchantCalls \/ KeyCalls \/ DeliveryCalls \/ SessionCalls \/ NonceCalls \/ ClaimCalls
                   \/ OrderCalls \/ ShopCalls \/ StateCalls \/ PendingCalls
      BY <1>4, <2>1, <2>5, StoresAssumption, CallRelates
    <2> QED BY <2>2, <2>3, <2>4, <2>5 DEF StoresNext
  <1> QED BY <1>3, <1>4 DEF StoresInv

LEMMA StoresImplied ==
    ASSUME StoresInv, clock \in Nat
    PROVE  StoresTypeOK /\ Interchangeable
  <1>1. group \in Groups /\ StoresTypeOK /\ (parted \/ (agree /\ StoresRelated))
    BY DEF StoresInv, StoresTypeOK
  <1>2. StatesRelated => pg = json
    BY DEF StatesRelated
  <1>3. StoresRelated =>
            \/ group = "merchants" /\ SameMerchants
            \/ group = "keys" /\ SameKeys
            \/ group = "deliveries" /\ SameDeliveries
            \/ group = "sessions" /\ SameSessions
            \/ group = "nonces" /\ SameNonces
            \/ group = "claims" /\ SameClaims
            \/ group = "orders" /\ SameOrders
            \/ group \in {"shops", "states"} /\ pg = json
            \/ group = "pending" /\ SamePending
    <2> SUFFICES ASSUME StoresRelated
                 PROVE  \/ group = "merchants" /\ SameMerchants
                        \/ group = "keys" /\ SameKeys
                        \/ group = "deliveries" /\ SameDeliveries
                        \/ group = "sessions" /\ SameSessions
                        \/ group = "nonces" /\ SameNonces
                        \/ group = "claims" /\ SameClaims
                        \/ group = "orders" /\ SameOrders
                        \/ group \in {"shops", "states"} /\ pg = json
                        \/ group = "pending" /\ SamePending
      OBVIOUS
    <2>1. NoncesRelated => SameNonces
      BY DEF NoncesRelated, SameNonces, NonceTable
    <2> QED BY <1>1, <1>2, <2>1, MerchantsSame, KeysSame, DeliveriesSame, SessionsSame, ClaimsSame,
               OrdersSame, PendingSame DEF StoresRelated, Groups
  <1> QED BY <1>1, <1>3 DEF Interchangeable

=============================================================================
