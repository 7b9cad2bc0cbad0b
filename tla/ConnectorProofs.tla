----------------------------- MODULE ConnectorProofs --------------------------
(***************************************************************************)
(* Theorems about the Shopify connector: what PaymentOnBooks rests on, for *)
(* any number of checkouts, webhooks, gateway orders and failures.         *)
(***************************************************************************)
EXTENDS Connector, TLAPS

Stages == {"minted", "shown", "paid", "delivered", "failed"}

OrderRecords ==
    [stage : Stages, order : ShopOrders, account : Accounts, expires : Nat,
     left : 0 .. HookAttempts]

OnBooks(g, o, rs) == \E i \in DOMAIN rs : rs[i].id = g /\ rs[i].order = o

\* Rows have ids of their own, those of minted orders, and a shop order shows one of its own.
BooksOK(rs, gs, url) ==
    /\ rs \in Seq(RowRecords)
    /\ \A i, j \in DOMAIN rs : rs[i].id = rs[j].id => i = j
    /\ \A i \in DOMAIN rs : gs[rs[i].id] # NotMinted /\ gs[rs[i].id].order = rs[i].order
    /\ url \in [ShopOrders -> GatewayIds \cup {Unset}]
    /\ \A o \in ShopOrders : url[o] # Unset => OnBooks(url[o], o, rs)

\* A gateway order that a customer has seen is on the connector's books.
GatewayOK(x, g, rs) ==
    \/ x = NotMinted
    \/ /\ x \in OrderRecords
       /\ x.stage \in {"minted", "shown", "paid"} => x.left > 0
       /\ x.stage # "minted" => OnBooks(g, x.order, rs)

GatewayPart(gs, rs) ==
    /\ gs = [g \in GatewayIds |-> gs[g]]
    /\ \A g \in GatewayIds : GatewayOK(gs[g], g, rs)

\* A request publishes what is on the books, and records what is not yet.
CreateOK(c, gs, rs) ==
    \/ c \in {Free, Closed}
    \/ c \in [step : {"mint"}, order : ShopOrders, account : Accounts]
    \/ /\ c \in [step : {"record", "publish"}, order : ShopOrders, id : GatewayIds]
       /\ gs[c.id] # NotMinted
       /\ gs[c.id].order = c.order
       /\ c.step = "record" => \A i \in DOMAIN rs : rs[i].id # c.id
       /\ c.step = "publish" => OnBooks(c.id, c.order, rs)

CreatesOK(cs, gs, rs) ==
    /\ cs = [r \in Creates |-> cs[r]]
    /\ \A r \in Creates : CreateOK(cs[r], gs, rs)
    /\ \A r, q \in Creates :
          cs[r].step = "record" /\ cs[q].step = "record" /\ cs[r].id = cs[q].id => r = q

\* The gateway waits for one handler of a webhook at a time, and only while it is paid.
HookOK(h, gs) ==
    \/ h \in {Free, Closed}
    \/ /\ h \in [step : {"mark", "row", "clear"}, id : GatewayIds, row : GatewayIds,
                 awaited : BOOLEAN]
       /\ gs[h.id] # NotMinted
       /\ h.awaited => gs[h.id].stage = "paid"

HooksOK(hs, gs) ==
    /\ hs = [h \in Hooks |-> hs[h]]
    /\ \A h \in Hooks : HookOK(hs[h], gs)
    /\ \A h, k \in Hooks :
          /\ hs[h] \notin {Free, Closed} /\ hs[h].awaited
          /\ hs[k] \notin {Free, Closed} /\ hs[k].awaited
          /\ hs[h].id = hs[k].id
          => h = k

CountsOK ==
    /\ settings \in Accounts \cup {Unset}
    /\ marks \in [ShopOrders -> Nat]
    /\ faults \in 0 .. MaxFaults
    /\ changes \in Nat

ConnectorInv ==
    /\ CountsOK
    /\ BooksOK(rows, gatewayOrders, paymentUrl)
    /\ GatewayPart(gatewayOrders, rows)
    /\ CreatesOK(creates, gatewayOrders, rows)
    /\ HooksOK(hooks, gatewayOrders)

\* No order is unminted, or moved to another shop order.
MintedKept(gs1, gs2) ==
    \A g \in GatewayIds :
        gs1[g] # NotMinted => gs2[g] # NotMinted /\ gs2[g].order = gs1[g].order

\* The same rows, but for what becomes of their quotes.
SameRows(rs1, rs2) ==
    /\ DOMAIN rs1 = DOMAIN rs2
    /\ \A i \in DOMAIN rs1 : rs1[i].id = rs2[i].id /\ rs1[i].order = rs2[i].order

LEMMA SameOnBooks ==
    ASSUME NEW g, NEW o, NEW rs1, NEW rs2, SameRows(rs1, rs2), OnBooks(g, o, rs1)
    PROVE  OnBooks(g, o, rs2)
  BY DEF SameRows, OnBooks

LEMMA SameAsItself == (\A rs : SameRows(rs, rs)) /\ (\A gs : MintedKept(gs, gs))
  BY DEF SameRows, MintedKept

LEMMA BooksKept ==
    ASSUME NEW rs1, NEW rs2 \in Seq(RowRecords), NEW gs1, NEW gs2, NEW url,
           BooksOK(rs1, gs1, url), SameRows(rs1, rs2), MintedKept(gs1, gs2)
    PROVE  BooksOK(rs2, gs2, url)
  <1>1. \A i, j \in DOMAIN rs2 : rs2[i].id = rs2[j].id => i = j
    BY DEF BooksOK, SameRows
  <1>2. ASSUME NEW i \in DOMAIN rs2
        PROVE  gs2[rs2[i].id] # NotMinted /\ gs2[rs2[i].id].order = rs2[i].order
    <2>1. rs2[i].id \in GatewayIds
      <3>1. rs2[i] \in RowRecords
        OBVIOUS
      <3> QED BY <3>1 DEF RowRecords
    <2> QED BY <2>1 DEF BooksOK, SameRows, MintedKept
  <1>3. \A o \in ShopOrders : url[o] # Unset => OnBooks(url[o], o, rs2)
    BY SameOnBooks DEF BooksOK
  <1> QED BY <1>1, <1>2, <1>3 DEF BooksOK

LEMMA GatewayRowsKept ==
    ASSUME NEW gs, NEW rs1, NEW rs2, GatewayPart(gs, rs1), SameRows(rs1, rs2)
    PROVE  GatewayPart(gs, rs2)
  <1>1. ASSUME NEW g \in GatewayIds PROVE GatewayOK(gs[g], g, rs2)
    BY SameOnBooks DEF GatewayPart, GatewayOK
  <1> QED BY <1>1 DEF GatewayPart

LEMMA GatewaySet ==
    ASSUME NEW gs, NEW rs, NEW g \in GatewayIds, NEW x, GatewayPart(gs, rs), GatewayOK(x, g, rs)
    PROVE  GatewayPart([gs EXCEPT ![g] = x], rs)
  <1> DEFINE gs2 == [gs EXCEPT ![g] = x]
  <1>1. gs2 = [f \in GatewayIds |-> gs2[f]]
    BY DEF GatewayPart
  <1>2. \A f \in GatewayIds : gs2[f] = IF f = g THEN x ELSE gs[f]
    BY DEF GatewayPart
  <1> HIDE DEF gs2
  <1>3. GatewayPart(gs2, rs)
    BY <1>1, <1>2 DEF GatewayPart
  <1> QED BY <1>3 DEF gs2

LEMMA CreatesKept ==
    ASSUME NEW cs, NEW gs1, NEW gs2, NEW rs1, NEW rs2,
           CreatesOK(cs, gs1, rs1), SameRows(rs1, rs2), MintedKept(gs1, gs2)
    PROVE  CreatesOK(cs, gs2, rs2)
  <1>1. ASSUME NEW r \in Creates PROVE CreateOK(cs[r], gs2, rs2)
    <2>1. CreateOK(cs[r], gs1, rs1)
      BY DEF CreatesOK
    <2>2. CASE cs[r] \in [step : {"record", "publish"}, order : ShopOrders, id : GatewayIds]
      <3>1. /\ gs1[cs[r].id] # NotMinted
            /\ gs1[cs[r].id].order = cs[r].order
            /\ cs[r].step = "record" => \A i \in DOMAIN rs1 : rs1[i].id # cs[r].id
            /\ cs[r].step = "publish" => OnBooks(cs[r].id, cs[r].order, rs1)
        BY <2>1, <2>2 DEF CreateOK, Free, Closed
      <3>2. gs2[cs[r].id] # NotMinted /\ gs2[cs[r].id].order = cs[r].order
        BY <2>2, <3>1 DEF MintedKept
      <3>3. cs[r].step = "record" => \A i \in DOMAIN rs2 : rs2[i].id # cs[r].id
        BY <3>1 DEF SameRows
      <3>4. cs[r].step = "publish" => OnBooks(cs[r].id, cs[r].order, rs2)
        BY <3>1, SameOnBooks
      <3> QED BY <2>2, <3>2, <3>3, <3>4 DEF CreateOK
    <2> QED BY <2>1, <2>2 DEF CreateOK
  <1> QED BY <1>1 DEF CreatesOK

LEMMA CreateSet ==
    ASSUME NEW cs, NEW gs, NEW rs, NEW r \in Creates, NEW c,
           CreatesOK(cs, gs, rs), CreateOK(c, gs, rs),
           c.step = "record" => \A q \in Creates : cs[q].step = "record" => cs[q].id # c.id
    PROVE  CreatesOK([cs EXCEPT ![r] = c], gs, rs)
  <1> DEFINE cs2 == [cs EXCEPT ![r] = c]
  <1>1. cs2 = [q \in Creates |-> cs2[q]]
    BY DEF CreatesOK
  <1>2. \A q \in Creates : cs2[q] = IF q = r THEN c ELSE cs[q]
    BY DEF CreatesOK
  <1> HIDE DEF cs2
  <1>3. \A q \in Creates : CreateOK(cs2[q], gs, rs)
    BY <1>2 DEF CreatesOK
  <1>4. \A p, q \in Creates :
            cs2[p].step = "record" /\ cs2[q].step = "record" /\ cs2[p].id = cs2[q].id => p = q
    BY <1>2 DEF CreatesOK
  <1>5. CreatesOK(cs2, gs, rs)
    BY <1>1, <1>3, <1>4 DEF CreatesOK
  <1> QED BY <1>5 DEF cs2

\* The handlers stay in order when the webhooks they are awaited for stay paid.
LEMMA HooksKept ==
    ASSUME NEW hs, NEW gs1, NEW gs2, HooksOK(hs, gs1), MintedKept(gs1, gs2),
           \A h \in Hooks :
               hs[h] \notin {Free, Closed} /\ hs[h].awaited => gs2[hs[h].id].stage = "paid"
    PROVE  HooksOK(hs, gs2)
  <1>1. ASSUME NEW h \in Hooks PROVE HookOK(hs[h], gs2)
    <2>1. HookOK(hs[h], gs1)
      BY DEF HooksOK
    <2>2. CASE hs[h] \in [step : {"mark", "row", "clear"}, id : GatewayIds, row : GatewayIds,
                          awaited : BOOLEAN]
      <3>1. gs1[hs[h].id] # NotMinted /\ hs[h] \notin {Free, Closed}
        BY <2>1, <2>2 DEF HookOK, Free, Closed
      <3>2. gs2[hs[h].id] # NotMinted
        BY <2>2, <3>1 DEF MintedKept
      <3>3. hs[h].awaited => gs2[hs[h].id].stage = "paid"
        BY <3>1
      <3> QED BY <2>2, <3>2, <3>3 DEF HookOK
    <2> QED BY <2>1, <2>2 DEF HookOK
  <1> QED BY <1>1 DEF HooksOK

LEMMA HookSet ==
    ASSUME NEW hs, NEW gs, NEW h \in Hooks, NEW x, HooksOK(hs, gs), HookOK(x, gs),
           x \notin {Free, Closed} /\ x.awaited =>
               \A k \in Hooks :
                   k # h /\ hs[k] \notin {Free, Closed} /\ hs[k].awaited => hs[k].id # x.id
    PROVE  HooksOK([hs EXCEPT ![h] = x], gs)
  <1> DEFINE hs2 == [hs EXCEPT ![h] = x]
  <1>1. hs2 = [k \in Hooks |-> hs2[k]]
    BY DEF HooksOK
  <1>2. \A k \in Hooks : hs2[k] = IF k = h THEN x ELSE hs[k]
    BY DEF HooksOK
  <1> HIDE DEF hs2
  <1>3. \A k \in Hooks : HookOK(hs2[k], gs)
    BY <1>2 DEF HooksOK
  <1>4. \A j, k \in Hooks :
          /\ hs2[j] \notin {Free, Closed} /\ hs2[j].awaited
          /\ hs2[k] \notin {Free, Closed} /\ hs2[k].awaited
          /\ hs2[j].id = hs2[k].id
          => j = k
    BY <1>2 DEF HooksOK
  <1>5. HooksOK(hs2, gs)
    BY <1>1, <1>3, <1>4 DEF HooksOK
  <1> QED BY <1>5 DEF hs2

LEMMA FaultCount ==
    ASSUME CountsOK, Fault \/ UNCHANGED faults
    PROVE  faults' \in 0 .. MaxFaults
  <1>1. faults \in 0 .. MaxFaults /\ MaxFaults \in Nat
    BY ConnectorAssumption DEF ConnectorAssumption, CountsOK
  <1> QED BY <1>1 DEF Fault

\* Steps of an orders/create request that change nothing else.
LEMMA CreateAlone ==
    ASSUME ConnectorInv, NEW r \in Creates, NEW c, creates' = [creates EXCEPT ![r] = c],
           UNCHANGED <<settings, rows, gatewayOrders, paymentUrl, hooks, marks, changes>>,
           Fault \/ UNCHANGED faults,
           CreateOK(c, gatewayOrders, rows), c.step # "record"
    PROVE  ConnectorInv'
  <1>1. CreatesOK(creates', gatewayOrders, rows)
    BY CreateSet DEF ConnectorInv
  <1>2. CountsOK'
    BY FaultCount DEF ConnectorInv, CountsOK
  <1> QED BY <1>1, <1>2 DEF ConnectorInv

LEMMA FreeIsOK == \A gs, rs : CreateOK(Free, gs, rs) /\ HookOK(Free, gs)
  BY DEF CreateOK, HookOK

LEMMA OrderCreatedStep ==
    ASSUME ConnectorInv, NEW r \in Creates, NEW o \in ShopOrders, OrderCreated(r, o)
    PROVE  ConnectorInv'
  <1>1. UNCHANGED <<settings, rows, gatewayOrders, paymentUrl, hooks, marks, faults, changes>>
    BY DEF OrderCreated
  <1>2. ASSUME NEW row \in PendingFor(o), ToPublish(r, o, row.id)
        PROVE  ConnectorInv'
    <2> DEFINE c == [step |-> "publish", order |-> o, id |-> row.id]
    <2>1. PICK i \in DOMAIN rows : row = rows[i] /\ rows[i].order = o
      BY DEF PendingFor
    <2>2. rows[i] \in RowRecords
      BY DEF ConnectorInv, BooksOK
    <2>3. row.id \in GatewayIds
      BY <2>1, <2>2 DEF RowRecords
    <2>4. /\ gatewayOrders[row.id] # NotMinted /\ gatewayOrders[row.id].order = o
          /\ OnBooks(row.id, o, rows)
      BY <2>1 DEF ConnectorInv, BooksOK, OnBooks
    <2>5. CreateOK(c, gatewayOrders, rows)
      BY <2>3, <2>4 DEF CreateOK
    <2>6. creates' = [creates EXCEPT ![r] = c] /\ c.step # "record"
      BY <1>2 DEF ToPublish
    <2> HIDE DEF c
    <2> QED BY <1>1, <2>5, <2>6, CreateAlone
  <1>3. CASE creates' = [creates EXCEPT ![r] = [step |-> "mint", order |-> o, account |-> Resolve]]
    <2>1. Resolve \in Accounts
      BY ConnectorAssumption DEF ConnectorAssumption, Resolve, ConnectorInv, CountsOK
    <2>2. CreateOK([step |-> "mint", order |-> o, account |-> Resolve], gatewayOrders, rows)
      BY <2>1 DEF CreateOK
    <2> QED BY <1>1, <1>3, <2>2, CreateAlone
  <1> QED BY <1>2, <1>3 DEF OrderCreated

LEMMA CreateFailsStep ==
    ASSUME ConnectorInv, NEW r \in Creates, MintFails(r) \/ PublishFails(r)
    PROVE  ConnectorInv'
  <1>1. /\ UNCHANGED <<settings, rows, gatewayOrders, paymentUrl, hooks, marks, changes>>
        /\ Fault /\ creates' = [creates EXCEPT ![r] = Free]
    BY DEF MintFails, PublishFails, EndCreate
  <1>2. Free.step # "record"
    BY DEF Free
  <1> QED BY <1>1, <1>2, FreeIsOK, CreateAlone

\* Minting: no row and no request has the new order's id yet.
LEMMA MintStep ==
    ASSUME ConnectorInv, NEW r \in Creates, NEW g \in GatewayIds, Mint(r, g), clock \in Nat
    PROVE  ConnectorInv'
  <1> DEFINE x == [stage |-> "minted", order |-> creates[r].order,
                   account |-> creates[r].account, expires |-> clock + QuoteLife,
                   left |-> HookAttempts]
             c == [step |-> "record", order |-> creates[r].order, id |-> g]
  <1>1. /\ gatewayOrders[g] = NotMinted
        /\ gatewayOrders' = [gatewayOrders EXCEPT ![g] = x]
        /\ \/ creates' = [creates EXCEPT ![r] = c] /\ UNCHANGED faults
           \/ Fault /\ creates' = [creates EXCEPT ![r] = Free]
        /\ UNCHANGED <<settings, rows, paymentUrl, hooks, marks, changes>>
    BY DEF Mint, EndCreate
  <1>2. creates[r].order \in ShopOrders /\ creates[r].account \in Accounts
    <2>1. CreateOK(creates[r], gatewayOrders, rows) /\ creates[r].step = "mint"
      BY DEF ConnectorInv, CreatesOK, Mint
    <2> QED BY <2>1 DEF CreateOK, Free, Closed
  <1>3. HookAttempts \in Nat \ {0} /\ QuoteLife \in Nat
    BY ConnectorAssumption DEF ConnectorAssumption
  <1>4. x \in OrderRecords
    BY <1>2, <1>3 DEF OrderRecords, Stages
  <1>5. GatewayOK(x, g, rows)
    BY <1>3, <1>4 DEF GatewayOK
  <1>6. x.order = creates[r].order /\ x # NotMinted
    BY DEF NotMinted
  <1>7. c \in [step : {"record", "publish"}, order : ShopOrders, id : GatewayIds] /\ c.step = "record"
        /\ c.id = g /\ c.order = creates[r].order
    BY <1>2
  <1> HIDE DEF x, c
  <1>8. GatewayPart(gatewayOrders', rows)
    BY <1>1, <1>5, GatewaySet DEF ConnectorInv
  <1>9. gatewayOrders'[g] = x /\ MintedKept(gatewayOrders, gatewayOrders')
    BY <1>1 DEF ConnectorInv, GatewayPart, MintedKept
  <1>10. BooksOK(rows, gatewayOrders', paymentUrl)
    <2>1. SameRows(rows, rows) /\ BooksOK(rows, gatewayOrders, paymentUrl)
      BY SameAsItself DEF ConnectorInv
    <2>2. rows \in Seq(RowRecords)
      BY <2>1 DEF BooksOK
    <2> QED BY <1>9, <2>1, <2>2, BooksKept
  <1>11. CreatesOK(creates, gatewayOrders', rows)
    BY <1>9, SameAsItself, CreatesKept DEF ConnectorInv
  <1>12. CreatesOK(creates', gatewayOrders', rows)
    <2>1. \A i \in DOMAIN rows : rows[i].id # g
      BY <1>1 DEF ConnectorInv, BooksOK
    <2>2. CreateOK(c, gatewayOrders', rows)
      BY <1>6, <1>7, <1>9, <2>1 DEF CreateOK
    <2>3. \A q \in Creates : creates[q].step = "record" => creates[q].id # c.id
      BY <1>1, <1>7 DEF ConnectorInv, CreatesOK, CreateOK, Free, Closed
    <2>4. CASE creates' = [creates EXCEPT ![r] = c]
      BY <1>11, <2>2, <2>3, <2>4, CreateSet
    <2>5. CASE creates' = [creates EXCEPT ![r] = Free]
      <3>1. Free.step # "record" /\ CreateOK(Free, gatewayOrders', rows)
        BY FreeIsOK DEF Free
      <3> QED BY <1>11, <2>5, <3>1, CreateSet
    <2> QED BY <1>1, <2>4, <2>5
  <1>13. HooksOK(hooks, gatewayOrders')
    <2>1. ASSUME NEW h \in Hooks, hooks[h] \notin {Free, Closed}, hooks[h].awaited
          PROVE  gatewayOrders'[hooks[h].id].stage = "paid"
      <3>1. hooks[h].id \in GatewayIds /\ gatewayOrders[hooks[h].id].stage = "paid"
        BY <2>1 DEF ConnectorInv, HooksOK, HookOK
      <3>2. hooks[h].id # g
        BY <1>1, <3>1 DEF NotMinted
      <3> QED BY <1>1, <3>1, <3>2 DEF ConnectorInv, GatewayPart
    <2> QED BY <1>9, <2>1, HooksKept DEF ConnectorInv
  <1>14. CountsOK'
    BY <1>1, FaultCount DEF ConnectorInv, CountsOK
  <1> QED BY <1>1, <1>8, <1>10, <1>12, <1>13, <1>14 DEF ConnectorInv

\* The row is written under an id that no row has, and only then is the link published.
LEMMA RecordStep ==
    ASSUME ConnectorInv, NEW r \in Creates, RecordPending(r)
    PROVE  ConnectorInv'
  <1> DEFINE o == creates[r].order
             g == creates[r].id
             row == NewRow(o, g)
             rs == Append(rows, row)
             c == [step |-> "publish", order |-> o, id |-> g]
  <1>1. /\ rows' = rs /\ creates' = [creates EXCEPT ![r] = c]
        /\ UNCHANGED <<settings, gatewayOrders, paymentUrl, hooks, marks, faults, changes>>
    BY DEF RecordPending, ToPublish
  <1>2. /\ o \in ShopOrders /\ g \in GatewayIds /\ gatewayOrders[g] # NotMinted
        /\ gatewayOrders[g].order = o
        /\ \A i \in DOMAIN rows : rows[i].id # g
    <2>1. CreateOK(creates[r], gatewayOrders, rows) /\ creates[r].step = "record"
      BY DEF ConnectorInv, CreatesOK, RecordPending
    <2> QED BY <2>1 DEF CreateOK, Free, Closed
  <1>3. row \in RowRecords /\ row.id = g /\ row.order = o
    <2>1. gatewayOrders[g] \in OrderRecords
      BY <1>2 DEF ConnectorInv, GatewayPart, GatewayOK
    <2>2. gatewayOrders[g].expires \in Nat
      BY <2>1 DEF OrderRecords
    <2> QED BY <1>2, <2>2 DEF NewRow, RowRecords
  <1>4. c \in [step : {"record", "publish"}, order : ShopOrders, id : GatewayIds]
        /\ c.step = "publish" /\ c.id = g /\ c.order = o
    BY <1>2
  <1> HIDE DEF row, c
  <1>5. rows \in Seq(RowRecords)
    BY DEF ConnectorInv, BooksOK
  <1>6. /\ rs \in Seq(RowRecords) /\ DOMAIN rs = 1 .. Len(rows) + 1 /\ Len(rows) \in Nat
        /\ DOMAIN rows = 1 .. Len(rows)
        /\ rs[Len(rows) + 1] = row
        /\ \A i \in DOMAIN rows : rs[i] = rows[i]
    BY <1>3, <1>5
  <1> HIDE DEF rs
  <1>7. ASSUME NEW f, NEW p, OnBooks(f, p, rows) PROVE OnBooks(f, p, rs)
    BY <1>6, <1>7 DEF OnBooks
  <1>8. OnBooks(g, o, rs)
    BY <1>3, <1>6 DEF OnBooks
  <1>9. BooksOK(rs, gatewayOrders, paymentUrl)
    <2>1. \A i, j \in DOMAIN rs : rs[i].id = rs[j].id => i = j
      BY <1>2, <1>3, <1>6 DEF ConnectorInv, BooksOK
    <2>2. \A i \in DOMAIN rs :
              gatewayOrders[rs[i].id] # NotMinted /\ gatewayOrders[rs[i].id].order = rs[i].order
      BY <1>2, <1>3, <1>6 DEF ConnectorInv, BooksOK
    <2> QED BY <1>6, <1>7, <2>1, <2>2 DEF ConnectorInv, BooksOK
  <1>10. GatewayPart(gatewayOrders, rs)
    BY <1>7 DEF ConnectorInv, GatewayPart, GatewayOK
  <1>11. CreatesOK(creates', gatewayOrders, rs)
    <2>1. CreateOK(c, gatewayOrders, rs)
      BY <1>2, <1>4, <1>8 DEF CreateOK
    <2>2. ASSUME NEW q \in Creates, q # r PROVE CreateOK(creates[q], gatewayOrders, rs)
      <3>1. CreateOK(creates[q], gatewayOrders, rows)
        BY DEF ConnectorInv, CreatesOK
      <3>2. CASE creates[q] \in [step : {"record", "publish"}, order : ShopOrders, id : GatewayIds]
        <4>1. /\ gatewayOrders[creates[q].id] # NotMinted
              /\ gatewayOrders[creates[q].id].order = creates[q].order
              /\ creates[q].step = "record" => \A i \in DOMAIN rows : rows[i].id # creates[q].id
              /\ creates[q].step = "publish" => OnBooks(creates[q].id, creates[q].order, rows)
          BY <3>1, <3>2 DEF CreateOK, Free, Closed
        <4>2. creates[q].step = "record" => creates[q].id # g
          BY <2>2 DEF ConnectorInv, CreatesOK, RecordPending
        <4>3. creates[q].step = "record" => \A i \in DOMAIN rs : rs[i].id # creates[q].id
          BY <1>3, <1>6, <4>1, <4>2
        <4>4. creates[q].step = "publish" => OnBooks(creates[q].id, creates[q].order, rs)
          BY <1>7, <4>1
        <4> QED BY <3>2, <4>1, <4>3, <4>4 DEF CreateOK
      <3> QED BY <3>1, <3>2 DEF CreateOK
    <2>3. \A q \in Creates : creates'[q] = IF q = r THEN c ELSE creates[q]
      BY <1>1 DEF ConnectorInv, CreatesOK
    <2>4. creates' = [q \in Creates |-> creates'[q]]
      BY <1>1 DEF ConnectorInv, CreatesOK
    <2>5. \A q \in Creates : CreateOK(creates'[q], gatewayOrders, rs)
      BY <2>1, <2>2, <2>3
    <2>6. \A p, q \in Creates : /\ creates'[p].step = "record" /\ creates'[q].step = "record"
                                /\ creates'[p].id = creates'[q].id
                                => p = q
      BY <1>4, <2>3 DEF ConnectorInv, CreatesOK
    <2> QED BY <2>4, <2>5, <2>6 DEF CreatesOK
  <1>12. CountsOK'
    BY <1>1 DEF ConnectorInv, CountsOK
  <1> QED BY <1>1, <1>9, <1>10, <1>11, <1>12 DEF ConnectorInv

\* The gateway's orders change, and no more than that is on the books.
LEMMA GatewayMoves ==
    ASSUME ConnectorInv, NEW gs, MintedKept(gatewayOrders, gs)
    PROVE  BooksOK(rows, gs, paymentUrl) /\ CreatesOK(creates, gs, rows)
  <1>1. SameRows(rows, rows) /\ BooksOK(rows, gatewayOrders, paymentUrl)
        /\ CreatesOK(creates, gatewayOrders, rows)
    BY SameAsItself DEF ConnectorInv
  <1>2. rows \in Seq(RowRecords)
    BY <1>1 DEF BooksOK
  <1> QED BY <1>1, <1>2, BooksKept, CreatesKept

Staged(g, stage2) == [gatewayOrders EXCEPT ![g].stage = stage2]

\* One gateway order moves to another stage.
LEMMA StageMoves ==
    ASSUME ConnectorInv, NEW g \in GatewayIds, NEW stage2 \in Stages, NEW gs,
           gatewayOrders[g] # NotMinted,
           gs = Staged(g, stage2),
           stage2 # "minted" => OnBooks(g, gatewayOrders[g].order, rows),
           stage2 \in {"minted", "shown", "paid"} =>
               gatewayOrders[g].stage \in {"minted", "shown", "paid"}
    PROVE  /\ GatewayPart(gs, rows) /\ MintedKept(gatewayOrders, gs)
           /\ gs[g].stage = stage2
           /\ \A f \in GatewayIds : f # g => gs[f] = gatewayOrders[f]
  <1> DEFINE x == [gatewayOrders[g] EXCEPT !.stage = stage2]
  <1>1. gs = [gatewayOrders EXCEPT ![g] = x]
    BY DEF Staged
  <1>2. /\ gatewayOrders[g] \in OrderRecords
        /\ gatewayOrders[g].stage \in {"minted", "shown", "paid"} => gatewayOrders[g].left > 0
    BY DEF ConnectorInv, GatewayPart, GatewayOK
  <1>3. /\ x \in OrderRecords /\ x.stage = stage2 /\ x.order = gatewayOrders[g].order
        /\ x.left = gatewayOrders[g].left
    BY <1>2 DEF OrderRecords
  <1>4. x # NotMinted
    BY <1>3 DEF NotMinted, Stages
  <1> HIDE DEF x
  <1>5. GatewayOK(x, g, rows)
    BY <1>2, <1>3 DEF GatewayOK
  <1>6. GatewayPart(gs, rows)
    <2>1. GatewayPart(gatewayOrders, rows)
      BY DEF ConnectorInv
    <2>2. GatewayPart([gatewayOrders EXCEPT ![g] = x], rows)
      BY <1>5, <2>1, GatewaySet
    <2> QED BY <1>1, <2>2
  <1>7. \A f \in GatewayIds : gs[f] = IF f = g THEN x ELSE gatewayOrders[f]
    BY <1>1 DEF ConnectorInv, GatewayPart
  <1>8. MintedKept(gatewayOrders, gs)
    BY <1>3, <1>4, <1>7 DEF MintedKept
  <1> QED BY <1>3, <1>6, <1>7, <1>8

\* Publishing: the link shown is that of a row.
LEMMA PublishStep ==
    ASSUME ConnectorInv, NEW r \in Creates, Publish(r)
    PROVE  ConnectorInv'
  <1> DEFINE o == creates[r].order
             g == creates[r].id
             stage2 == IF gatewayOrders[g].stage = "minted" THEN "shown"
                       ELSE gatewayOrders[g].stage
             url == [paymentUrl EXCEPT ![o] = g]
  <1>1. /\ paymentUrl' = url
        /\ gatewayOrders' = Staged(g, stage2)
        /\ creates' = [creates EXCEPT ![r] = Free]
        /\ UNCHANGED <<settings, rows, hooks, marks, faults, changes>>
    BY DEF Publish, EndCreate, Staged, ConnectorInv, GatewayPart
  <1>2. /\ o \in ShopOrders /\ g \in GatewayIds /\ gatewayOrders[g] # NotMinted
        /\ gatewayOrders[g].order = o /\ OnBooks(g, o, rows)
    <2>1. CreateOK(creates[r], gatewayOrders, rows) /\ creates[r].step = "publish"
      BY DEF ConnectorInv, CreatesOK, Publish
    <2> QED BY <2>1 DEF CreateOK, Free, Closed
  <1>3. stage2 \in Stages /\ stage2 # "minted"
        /\ (stage2 \in {"minted", "shown", "paid"} =>
               gatewayOrders[g].stage \in {"minted", "shown", "paid"})
        /\ (gatewayOrders[g].stage = "paid" => stage2 = "paid")
    <2>1. gatewayOrders[g] \in OrderRecords
      BY <1>2 DEF ConnectorInv, GatewayPart, GatewayOK
    <2>2. gatewayOrders[g].stage \in Stages
      BY <2>1 DEF OrderRecords
    <2> QED BY <2>2 DEF Stages
  <1> HIDE DEF stage2
  <1>4. /\ GatewayPart(gatewayOrders', rows) /\ MintedKept(gatewayOrders, gatewayOrders')
        /\ gatewayOrders'[g].stage = stage2
        /\ \A f \in GatewayIds : f # g => gatewayOrders'[f] = gatewayOrders[f]
    BY <1>1, <1>2, <1>3, StageMoves
  <1>5. BooksOK(rows, gatewayOrders', paymentUrl) /\ CreatesOK(creates, gatewayOrders', rows)
    BY <1>4, GatewayMoves
  <1>6. BooksOK(rows, gatewayOrders', paymentUrl')
    <2>1. paymentUrl' \in [ShopOrders -> GatewayIds \cup {Unset}]
      BY <1>1, <1>2, <1>5 DEF BooksOK
    <2>2. \A p \in ShopOrders : paymentUrl'[p] # Unset => OnBooks(paymentUrl'[p], p, rows)
      BY <1>1, <1>2, <1>5 DEF BooksOK
    <2> QED BY <1>5, <2>1, <2>2 DEF BooksOK
  <1>7. CreatesOK(creates', gatewayOrders', rows)
    <2>1. Free.step # "record" /\ CreateOK(Free, gatewayOrders', rows)
      BY FreeIsOK DEF Free
    <2> QED BY <1>1, <1>5, <2>1, CreateSet
  <1>8. HooksOK(hooks, gatewayOrders')
    <2>1. ASSUME NEW h \in Hooks, hooks[h] \notin {Free, Closed}, hooks[h].awaited
          PROVE  gatewayOrders'[hooks[h].id].stage = "paid"
      <3>1. hooks[h].id \in GatewayIds /\ gatewayOrders[hooks[h].id].stage = "paid"
        BY <2>1 DEF ConnectorInv, HooksOK, HookOK
      <3> QED BY <1>3, <1>4, <3>1
    <2> QED BY <1>4, <2>1, HooksKept DEF ConnectorInv
  <1>9. CountsOK'
    BY <1>1 DEF ConnectorInv, CountsOK
  <1> QED BY <1>1, <1>4, <1>6, <1>7, <1>8, <1>9 DEF ConnectorInv

LEMMA PayStep ==
    ASSUME ConnectorInv, NEW g \in GatewayIds, Pay(g)
    PROVE  ConnectorInv'
  <1>1. /\ gatewayOrders' = Staged(g, "paid")
        /\ gatewayOrders[g].stage = "shown" /\ gatewayOrders[g] # NotMinted
        /\ UNCHANGED <<settings, rows, paymentUrl, creates, hooks, marks, faults, changes>>
    BY DEF Pay, Staged, NotMinted
  <1>2. OnBooks(g, gatewayOrders[g].order, rows)
    BY <1>1 DEF ConnectorInv, GatewayPart, GatewayOK
  <1>3. "paid" \in Stages
    BY DEF Stages
  <1>4. /\ GatewayPart(gatewayOrders', rows) /\ MintedKept(gatewayOrders, gatewayOrders')
        /\ gatewayOrders'[g].stage = "paid"
        /\ \A f \in GatewayIds : f # g => gatewayOrders'[f] = gatewayOrders[f]
    BY <1>1, <1>2, <1>3, StageMoves
  <1>5. BooksOK(rows, gatewayOrders', paymentUrl) /\ CreatesOK(creates, gatewayOrders', rows)
    BY <1>4, GatewayMoves
  <1>6. HooksOK(hooks, gatewayOrders')
    <2>1. ASSUME NEW h \in Hooks, hooks[h] \notin {Free, Closed}, hooks[h].awaited
          PROVE  gatewayOrders'[hooks[h].id].stage = "paid"
      <3>1. hooks[h].id \in GatewayIds /\ gatewayOrders[hooks[h].id].stage = "paid"
        BY <2>1 DEF ConnectorInv, HooksOK, HookOK
      <3> QED BY <1>4, <3>1
    <2> QED BY <1>4, <2>1, HooksKept DEF ConnectorInv
  <1>7. CountsOK'
    BY <1>1 DEF ConnectorInv, CountsOK
  <1> QED BY <1>1, <1>4, <1>5, <1>6, <1>7 DEF ConnectorInv

LEMMA LessOne ==
    ASSUME NEW y \in OrderRecords, NEW end
    PROVE  [y EXCEPT !.left = @ - 1, !.stage = end] =
               [stage |-> end, order |-> y.order, account |-> y.account, expires |-> y.expires,
                left |-> y.left - 1]
  <1> DEFINE z == [y EXCEPT !.left = @ - 1]
  <1>1. z = [stage |-> y.stage, order |-> y.order, account |-> y.account,
             expires |-> y.expires, left |-> y.left - 1]
    BY DEF OrderRecords
  <1>2. [y EXCEPT !.left = @ - 1, !.stage = end] = [z EXCEPT !.stage = end]
    OBVIOUS
  <1> HIDE DEF z
  <1>3. [z EXCEPT !.stage = end] =
            [stage |-> end, order |-> y.order, account |-> y.account, expires |-> y.expires,
             left |-> y.left - 1]
    BY <1>1
  <1> QED BY <1>2, <1>3

\* A refused webhook was paid for: its order stays on the books, with an attempt less.
LEMMA RefusedOK ==
    ASSUME ConnectorInv, NEW lost, \A g \in lost : gatewayOrders[g].stage = "paid"
    PROVE  /\ GatewayPart(Refused(lost), rows)
           /\ MintedKept(gatewayOrders, Refused(lost))
           /\ \A g \in GatewayIds : g \notin lost => Refused(lost)[g] = gatewayOrders[g]
  <1> DEFINE gs == Refused(lost)
             x(g) == [gatewayOrders[g] EXCEPT
                         !.left = @ - 1,
                         !.stage = IF gatewayOrders[g].left = 1 THEN "failed" ELSE @]
  <1>1. /\ gs = [g \in GatewayIds |-> gs[g]]
        /\ \A g \in GatewayIds : gs[g] = IF g \notin lost THEN gatewayOrders[g] ELSE x(g)
    BY DEF Refused
  <1>2. ASSUME NEW g \in GatewayIds, g \in lost
        PROVE  /\ GatewayOK(x(g), g, rows) /\ x(g) # NotMinted
               /\ x(g).order = gatewayOrders[g].order
    <2>1. /\ gatewayOrders[g] \in OrderRecords /\ gatewayOrders[g].left > 0
          /\ gatewayOrders[g].stage = "paid"
          /\ OnBooks(g, gatewayOrders[g].order, rows)
      BY <1>2 DEF ConnectorInv, GatewayPart, GatewayOK, NotMinted
    <2>2. HookAttempts \in Nat
      BY ConnectorAssumption DEF ConnectorAssumption
    <2>3. CASE gatewayOrders[g].left = 1
      <3>1. x(g) = [stage |-> "failed", order |-> gatewayOrders[g].order,
                    account |-> gatewayOrders[g].account, expires |-> gatewayOrders[g].expires,
                    left |-> gatewayOrders[g].left - 1]
        BY <2>1, <2>3, LessOne DEF x
      <3>2. gatewayOrders[g].left - 1 \in 0 .. HookAttempts
        BY <2>2, <2>3
      <3> QED BY <2>1, <2>2, <3>1, <3>2 DEF OrderRecords, Stages, GatewayOK, NotMinted
    <2>4. CASE gatewayOrders[g].left # 1
      <3>1. x(g) = [stage |-> "paid", order |-> gatewayOrders[g].order,
                    account |-> gatewayOrders[g].account, expires |-> gatewayOrders[g].expires,
                    left |-> gatewayOrders[g].left - 1]
        BY <2>1, <2>4, LessOne DEF x
      <3>2. gatewayOrders[g].left - 1 \in 1 .. HookAttempts
        BY <2>1, <2>2, <2>4 DEF OrderRecords
      <3> QED BY <2>1, <2>2, <3>1, <3>2 DEF OrderRecords, Stages, GatewayOK, NotMinted
    <2> QED BY <2>3, <2>4
  <1> HIDE DEF gs, x
  <1>3. \A g \in GatewayIds : GatewayOK(gs[g], g, rows)
    BY <1>1, <1>2 DEF ConnectorInv, GatewayPart
  <1>4. GatewayPart(gs, rows)
    BY <1>1, <1>3 DEF GatewayPart
  <1>5. MintedKept(gatewayOrders, gs)
    BY <1>1, <1>2 DEF MintedKept
  <1> QED BY <1>1, <1>4, <1>5 DEF gs

\* What a handler being served is.
LEMMA HookServed ==
    ASSUME ConnectorInv, NEW h \in Hooks, hooks[h] \notin {Free, Closed}
    PROVE  /\ hooks[h] \in [step : {"mark", "row", "clear"}, id : GatewayIds, row : GatewayIds,
                            awaited : BOOLEAN]
           /\ gatewayOrders[hooks[h].id] # NotMinted
           /\ hooks[h].awaited => gatewayOrders[hooks[h].id].stage = "paid"
           /\ OrderOf(h) \in ShopOrders
           /\ gatewayOrders[hooks[h].id].stage \in Stages
  <1>1. HookOK(hooks[h], gatewayOrders)
    BY DEF ConnectorInv, HooksOK
  <1>2. /\ hooks[h] \in [step : {"mark", "row", "clear"}, id : GatewayIds, row : GatewayIds,
                            awaited : BOOLEAN]
        /\ gatewayOrders[hooks[h].id] # NotMinted
        /\ hooks[h].awaited => gatewayOrders[hooks[h].id].stage = "paid"
    BY <1>1 DEF HookOK
  <1>3. hooks[h].id \in GatewayIds
    BY <1>2
  <1>4. gatewayOrders[hooks[h].id] \in OrderRecords
    BY <1>2, <1>3 DEF ConnectorInv, GatewayPart, GatewayOK
  <1> QED BY <1>2, <1>4 DEF OrderOf, OrderRecords

\* The handlers other than h, after the webhook h was awaited for has got its answer.
LEMMA AnsweredHooks ==
    ASSUME ConnectorInv, NEW h \in Hooks, NEW x, NEW gs, MintedKept(gatewayOrders, gs),
           HookOK(x, gs), x \in {Free, Closed} \/ ~x.awaited,
           hooks[h] \notin {Free, Closed},
           \A g \in GatewayIds :
               g # hooks[h].id \/ ~hooks[h].awaited => gs[g] = gatewayOrders[g]
    PROVE  HooksOK([hooks EXCEPT ![h] = x], gs)
  <1> DEFINE hs == [hooks EXCEPT ![h] = x]
  <1>1. /\ hs = [k \in Hooks |-> hs[k]]
        /\ \A k \in Hooks : hs[k] = IF k = h THEN x ELSE hooks[k]
    BY DEF ConnectorInv, HooksOK
  <1> HIDE DEF hs
  <1>2. ASSUME NEW k \in Hooks, k # h PROVE HookOK(hooks[k], gs)
    <2>1. HookOK(hooks[k], gatewayOrders)
      BY DEF ConnectorInv, HooksOK
    <2>2. CASE hooks[k] \in {Free, Closed}
      BY <2>2 DEF HookOK
    <2>3. CASE hooks[k] \notin {Free, Closed}
      <3>1. /\ hooks[k] \in [step : {"mark", "row", "clear"}, id : GatewayIds, row : GatewayIds,
                             awaited : BOOLEAN]
            /\ gatewayOrders[hooks[k].id] # NotMinted
            /\ hooks[k].awaited => gatewayOrders[hooks[k].id].stage = "paid"
        BY <2>3, HookServed
      <3>2. hooks[k].id \in GatewayIds
        BY <3>1
      <3>3. gs[hooks[k].id] # NotMinted
        BY <3>1, <3>2 DEF MintedKept
      <3>4. hooks[k].awaited => hooks[k].id # hooks[h].id \/ ~hooks[h].awaited
        BY <1>2, <2>3 DEF ConnectorInv, HooksOK
      <3>5. hooks[k].awaited => gs[hooks[k].id].stage = "paid"
        BY <3>1, <3>2, <3>4
      <3> QED BY <3>1, <3>3, <3>5 DEF HookOK
    <2> QED BY <2>2, <2>3
  <1>3. \A k \in Hooks : HookOK(hs[k], gs)
    BY <1>1, <1>2
  <1>4. \A j, k \in Hooks :
          /\ hs[j] \notin {Free, Closed} /\ hs[j].awaited
          /\ hs[k] \notin {Free, Closed} /\ hs[k].awaited
          /\ hs[j].id = hs[k].id
          => j = k
    BY <1>1 DEF ConnectorInv, HooksOK
  <1>5. HooksOK(hs, gs)
    BY <1>1, <1>3, <1>4 DEF HooksOK
  <1> QED BY <1>5 DEF hs

\* The handlers when the answer of a webhook nobody awaits changes its order.
LEMMA UnawaitedHooks ==
    ASSUME ConnectorInv, NEW g \in GatewayIds, g \notin Awaited, NEW gs,
           MintedKept(gatewayOrders, gs),
           \A f \in GatewayIds : f # g => gs[f] = gatewayOrders[f]
    PROVE  HooksOK(hooks, gs)
  <1>1. ASSUME NEW h \in Hooks, hooks[h] \notin {Free, Closed}, hooks[h].awaited
        PROVE  gs[hooks[h].id].stage = "paid"
    <2>1. hooks[h].id \in Awaited
      BY <1>1 DEF Awaited, Serving
    <2>2. hooks[h].id \in GatewayIds /\ gatewayOrders[hooks[h].id].stage = "paid"
      BY <1>1, HookServed
    <2> QED BY <2>1, <2>2
  <1> QED BY <1>1, HooksKept DEF ConnectorInv

LEMMA AcknowledgedOK ==
    ASSUME ConnectorInv, NEW g \in GatewayIds, gatewayOrders[g].stage = "paid"
    PROVE  /\ GatewayPart(Acknowledged(g), rows)
           /\ MintedKept(gatewayOrders, Acknowledged(g))
           /\ \A f \in GatewayIds : f # g => Acknowledged(g)[f] = gatewayOrders[f]
  <1>1. Acknowledged(g) = Staged(g, "delivered") /\ "delivered" \in Stages
    BY DEF Acknowledged, Staged, Stages
  <1>2. gatewayOrders[g] # NotMinted /\ OnBooks(g, gatewayOrders[g].order, rows)
    BY DEF ConnectorInv, GatewayPart, GatewayOK, NotMinted
  <1> QED BY <1>1, <1>2, StageMoves

LEMMA HookArrivesStep ==
    ASSUME ConnectorInv, NEW h \in Hooks, NEW g \in GatewayIds, HookArrives(h, g)
    PROVE  ConnectorInv'
  <1>1. /\ gatewayOrders[g].stage = "paid" /\ g \notin Awaited /\ hooks[h] = Free
        /\ UNCHANGED <<settings, rows, paymentUrl, creates, marks, faults, changes>>
        /\ \/ gatewayOrders' = Refused({g}) /\ UNCHANGED hooks
           \/ gatewayOrders' = Acknowledged(g) /\ UNCHANGED hooks
           \/ /\ \E row \in PendingFor(gatewayOrders[g].order) :
                     hooks' = [hooks EXCEPT ![h] = Marking(g, row)]
              /\ UNCHANGED gatewayOrders
    BY DEF HookArrives
  <1>2. CountsOK'
    BY <1>1 DEF ConnectorInv, CountsOK
  <1>3. ASSUME GatewayPart(gatewayOrders', rows), MintedKept(gatewayOrders, gatewayOrders'),
               \A f \in GatewayIds : f # g => gatewayOrders'[f] = gatewayOrders[f],
               UNCHANGED hooks
        PROVE  ConnectorInv'
    <2>1. BooksOK(rows, gatewayOrders', paymentUrl) /\ CreatesOK(creates, gatewayOrders', rows)
      BY <1>3, GatewayMoves
    <2>2. HooksOK(hooks, gatewayOrders')
      BY <1>1, <1>3, UnawaitedHooks
    <2> QED BY <1>1, <1>2, <1>3, <2>1, <2>2 DEF ConnectorInv
  <1>4. CASE gatewayOrders' = Refused({g}) /\ UNCHANGED hooks
    <2>1. /\ GatewayPart(Refused({g}), rows) /\ MintedKept(gatewayOrders, Refused({g}))
          /\ \A f \in GatewayIds : f \notin {g} => Refused({g})[f] = gatewayOrders[f]
      BY <1>1, RefusedOK
    <2> QED BY <1>3, <1>4, <2>1
  <1>5. CASE gatewayOrders' = Acknowledged(g) /\ UNCHANGED hooks
    <2>1. /\ GatewayPart(Acknowledged(g), rows) /\ MintedKept(gatewayOrders, Acknowledged(g))
          /\ \A f \in GatewayIds : f # g => Acknowledged(g)[f] = gatewayOrders[f]
      BY <1>1, AcknowledgedOK
    <2> QED BY <1>3, <1>5, <2>1
  <1>6. ASSUME NEW row \in PendingFor(gatewayOrders[g].order),
               hooks' = [hooks EXCEPT ![h] = Marking(g, row)], UNCHANGED gatewayOrders
        PROVE  ConnectorInv'
    <2> DEFINE x == Marking(g, row)
    <2>1. row.id \in GatewayIds
      <3>1. PICK i \in DOMAIN rows : row = rows[i]
        BY DEF PendingFor
      <3>2. rows[i] \in RowRecords
        BY DEF ConnectorInv, BooksOK
      <3> QED BY <3>1, <3>2 DEF RowRecords
    <2>2. x \in [step : {"mark", "row", "clear"}, id : GatewayIds, row : GatewayIds,
                 awaited : BOOLEAN] /\ x.id = g
      BY <2>1 DEF Marking
    <2>3. HookOK(x, gatewayOrders)
      BY <1>1, <2>2 DEF HookOK, NotMinted
    <2>4. \A k \in Hooks :
              k # h /\ hooks[k] \notin {Free, Closed} /\ hooks[k].awaited => hooks[k].id # x.id
      BY <1>1, <2>2 DEF Awaited, Serving
    <2> HIDE DEF x
    <2>5. HooksOK([hooks EXCEPT ![h] = x], gatewayOrders)
      BY <2>3, <2>4, HookSet DEF ConnectorInv
    <2>6. HooksOK(hooks', gatewayOrders)
      BY <1>6, <2>5 DEF x
    <2> QED BY <1>1, <1>2, <1>6, <2>6 DEF ConnectorInv
  <1> QED BY <1>1, <1>4, <1>5, <1>6

\* A handler goes on to its next step.
LEMMA GoOnOK ==
    ASSUME ConnectorInv, NEW h \in Hooks, NEW step \in {"row", "clear"},
           hooks[h] \notin {Free, Closed}, GoOn(h, step)
    PROVE  HooksOK(hooks', gatewayOrders)
  <1> DEFINE x == [step |-> step, id |-> hooks[h].id, row |-> hooks[h].row,
                   awaited |-> hooks[h].awaited]
  <1>1. /\ hooks[h] \in [step : {"mark", "row", "clear"}, id : GatewayIds, row : GatewayIds,
                         awaited : BOOLEAN]
        /\ gatewayOrders[hooks[h].id] # NotMinted
        /\ hooks[h].awaited => gatewayOrders[hooks[h].id].stage = "paid"
    BY HookServed
  <1>2. hooks' = [hooks EXCEPT ![h] = [hooks[h] EXCEPT !.step = step]]
    BY DEF GoOn
  <1>3. [hooks[h] EXCEPT !.step = step] = x
    BY <1>1
  <1>4. /\ x \in [step : {"mark", "row", "clear"}, id : GatewayIds, row : GatewayIds,
                  awaited : BOOLEAN]
        /\ x.id = hooks[h].id /\ x.awaited = hooks[h].awaited
    BY <1>1
  <1> HIDE DEF x
  <1>5. HookOK(x, gatewayOrders)
    BY <1>1, <1>4 DEF HookOK
  <1>6. x.awaited => \A k \in Hooks :
            k # h /\ hooks[k] \notin {Free, Closed} /\ hooks[k].awaited => hooks[k].id # x.id
    BY <1>4 DEF ConnectorInv, HooksOK
  <1>7. HooksOK([hooks EXCEPT ![h] = x], gatewayOrders)
    BY <1>5, <1>6, HookSet DEF ConnectorInv
  <1> QED BY <1>2, <1>3, <1>7

LEMMA MarkStep ==
    ASSUME ConnectorInv, NEW h \in Hooks, MarkOrderPaid(h)
    PROVE  ConnectorInv'
  <1>1. /\ hooks[h] \notin {Free, Closed} /\ GoOn(h, "row")
        /\ marks' = [marks EXCEPT ![OrderOf(h)] = @ + 1]
        /\ UNCHANGED <<settings, rows, gatewayOrders, paymentUrl, creates, faults, changes>>
    BY DEF MarkOrderPaid, Free, Closed
  <1>2. HooksOK(hooks', gatewayOrders)
    BY <1>1, GoOnOK
  <1>3. marks' \in [ShopOrders -> Nat]
    <2>1. OrderOf(h) \in ShopOrders
      BY <1>1, HookServed
    <2> QED BY <1>1, <2>1 DEF ConnectorInv, CountsOK
  <1>4. CountsOK'
    BY <1>1, <1>3 DEF ConnectorInv, CountsOK
  <1> QED BY <1>1, <1>2, <1>4 DEF ConnectorInv

\* The handler h ends, and with it the wait for it, in an answer that leaves gs.
LEMMA HookEnds ==
    ASSUME ConnectorInv, NEW h \in Hooks, NEW gs, hooks[h] \notin {Free, Closed},
           GatewayPart(gs, rows), MintedKept(gatewayOrders, gs),
           \A g \in GatewayIds :
               g # hooks[h].id \/ ~hooks[h].awaited => gs[g] = gatewayOrders[g]
    PROVE  /\ GatewayPart(gs, rows)
           /\ BooksOK(rows, gs, paymentUrl)
           /\ CreatesOK(creates, gs, rows)
           /\ HooksOK([hooks EXCEPT ![h] = Free], gs)
           /\ HooksOK([hooks EXCEPT ![h] =
                  [step |-> hooks[h].step, id |-> hooks[h].id, row |-> hooks[h].row,
                   awaited |-> FALSE]], gs)
  <1> DEFINE x == [step |-> hooks[h].step, id |-> hooks[h].id, row |-> hooks[h].row,
                   awaited |-> FALSE]
  <1>1. BooksOK(rows, gs, paymentUrl) /\ CreatesOK(creates, gs, rows)
    BY GatewayMoves
  <1>2. HooksOK([hooks EXCEPT ![h] = Free], gs)
    BY FreeIsOK, AnsweredHooks
  <1>3. /\ hooks[h] \in [step : {"mark", "row", "clear"}, id : GatewayIds, row : GatewayIds,
                         awaited : BOOLEAN]
        /\ gatewayOrders[hooks[h].id] # NotMinted
    BY HookServed
  <1>4. HookOK(x, gs) /\ ~x.awaited
    BY <1>3 DEF HookOK, MintedKept
  <1> HIDE DEF x
  <1>5. HooksOK([hooks EXCEPT ![h] = x], gs)
    BY <1>4, AnsweredHooks
  <1> QED BY <1>1, <1>2, <1>5 DEF x

\* The webhooks of handlers that are awaited were paid.
LEMMA AwaitedPaid ==
    ASSUME ConnectorInv, NEW h \in Hooks, hooks[h] \notin {Free, Closed}, NEW lost,
           lost = IF hooks[h].awaited THEN {hooks[h].id} ELSE {}
    PROVE  /\ GatewayPart(Refused(lost), rows)
           /\ MintedKept(gatewayOrders, Refused(lost))
           /\ \A g \in GatewayIds :
                 g # hooks[h].id \/ ~hooks[h].awaited => Refused(lost)[g] = gatewayOrders[g]
  <1>1. \A g \in lost : gatewayOrders[g].stage = "paid"
    BY HookServed
  <1>2. /\ GatewayPart(Refused(lost), rows)
        /\ MintedKept(gatewayOrders, Refused(lost))
        /\ \A g \in GatewayIds : g \notin lost => Refused(lost)[g] = gatewayOrders[g]
    BY <1>1, RefusedOK
  <1> QED BY <1>2

LEMMA MarkFailsStep ==
    ASSUME ConnectorInv, NEW h \in Hooks, MarkOrderFails(h)
    PROVE  ConnectorInv'
  <1> DEFINE lost == IF hooks[h].awaited THEN {hooks[h].id} ELSE {}
  <1>1. /\ hooks[h] \notin {Free, Closed} /\ Fault
        /\ marks' \in {marks, [marks EXCEPT ![OrderOf(h)] = @ + 1]}
        /\ gatewayOrders' = Refused(lost)
        /\ hooks' = [hooks EXCEPT ![h] = Free]
        /\ UNCHANGED <<settings, rows, paymentUrl, creates, changes>>
    BY DEF MarkOrderFails, EndHook, Free, Closed
  <1>2. /\ GatewayPart(Refused(lost), rows)
        /\ MintedKept(gatewayOrders, Refused(lost))
        /\ \A g \in GatewayIds :
              g # hooks[h].id \/ ~hooks[h].awaited => Refused(lost)[g] = gatewayOrders[g]
    BY <1>1, AwaitedPaid
  <1> HIDE DEF lost
  <1>3. /\ BooksOK(rows, Refused(lost), paymentUrl)
        /\ CreatesOK(creates, Refused(lost), rows)
        /\ HooksOK([hooks EXCEPT ![h] = Free], Refused(lost))
    BY <1>1, <1>2, HookEnds
  <1>4. marks' \in [ShopOrders -> Nat]
    <2>1. OrderOf(h) \in ShopOrders
      BY <1>1, HookServed
    <2> QED BY <1>1, <2>1 DEF ConnectorInv, CountsOK
  <1>5. CountsOK'
    <2>1. faults' \in 0 .. MaxFaults
      BY <1>1, FaultCount DEF ConnectorInv
    <2> QED BY <1>1, <1>4, <2>1 DEF ConnectorInv, CountsOK
  <1> QED BY <1>1, <1>2, <1>3, <1>5 DEF ConnectorInv

\* Rows whose quotes end are the same rows.
LEMMA RowsMove ==
    ASSUME ConnectorInv, NEW rs \in Seq(RowRecords), SameRows(rows, rs)
    PROVE  /\ BooksOK(rs, gatewayOrders, paymentUrl)
           /\ GatewayPart(gatewayOrders, rs)
           /\ CreatesOK(creates, gatewayOrders, rs)
  <1>1. /\ BooksOK(rows, gatewayOrders, paymentUrl) /\ GatewayPart(gatewayOrders, rows)
        /\ CreatesOK(creates, gatewayOrders, rows)
        /\ MintedKept(gatewayOrders, gatewayOrders)
    BY SameAsItself DEF ConnectorInv
  <1> QED BY <1>1, BooksKept, GatewayRowsKept, CreatesKept

LEMMA RowsStatus ==
    ASSUME ConnectorInv, NEW due, NEW status \in {"paid", "expired"},
           rows' = [i \in DOMAIN rows |->
                       IF i \in due THEN [rows[i] EXCEPT !.status = status] ELSE rows[i]]
    PROVE  rows' \in Seq(RowRecords) /\ SameRows(rows, rows')
  <1>1. rows \in Seq(RowRecords)
    BY DEF ConnectorInv, BooksOK
  <1>2. Len(rows) \in Nat /\ DOMAIN rows = 1 .. Len(rows)
    BY <1>1
  <1>3. ASSUME NEW i \in DOMAIN rows
        PROVE  rows'[i] \in RowRecords /\ rows'[i].id = rows[i].id /\ rows'[i].order = rows[i].order
    <2>1. rows[i] \in RowRecords
      BY <1>1
    <2>2. CASE i \in due
      <3>1. rows'[i] = [rows[i] EXCEPT !.status = status]
        BY <2>2
      <3> QED BY <2>1, <3>1 DEF RowRecords
    <2>3. CASE i \notin due
      BY <2>1, <2>3
    <2> QED BY <2>2, <2>3
  <1>4. DOMAIN rows' = DOMAIN rows
    OBVIOUS
  <1>5. rows' \in [1 .. Len(rows) -> RowRecords]
    BY <1>2, <1>3
  <1>6. rows' \in Seq(RowRecords)
    BY <1>2, <1>5
  <1> QED BY <1>3, <1>4, <1>6 DEF SameRows

LEMMA MarkPaidStep ==
    ASSUME ConnectorInv, NEW h \in Hooks, MarkPaid(h)
    PROVE  ConnectorInv'
  <1> DEFINE due == {i \in DOMAIN rows : rows[i].id = hooks[h].row}
  <1>1. /\ hooks[h] \notin {Free, Closed} /\ GoOn(h, "clear")
        /\ rows' = [i \in DOMAIN rows |->
                       IF i \in due THEN [rows[i] EXCEPT !.status = "paid"] ELSE rows[i]]
        /\ UNCHANGED <<settings, gatewayOrders, paymentUrl, creates, marks, faults, changes>>
    BY DEF MarkPaid, Free, Closed
  <1> HIDE DEF due
  <1>2. rows' \in Seq(RowRecords) /\ SameRows(rows, rows')
    BY <1>1, RowsStatus
  <1>3. /\ BooksOK(rows', gatewayOrders, paymentUrl) /\ GatewayPart(gatewayOrders, rows')
        /\ CreatesOK(creates, gatewayOrders, rows')
    BY <1>2, RowsMove
  <1>4. HooksOK(hooks', gatewayOrders)
    BY <1>1, GoOnOK
  <1>5. CountsOK'
    BY <1>1 DEF ConnectorInv, CountsOK
  <1> QED BY <1>1, <1>3, <1>4, <1>5 DEF ConnectorInv

LEMMA SweepExpiredStep ==
    ASSUME ConnectorInv, SweepExpired
    PROVE  ConnectorInv'
  <1> DEFINE due == {i \in DOMAIN rows : Lapsed(rows[i])}
  <1>1. /\ rows' = [i \in DOMAIN rows |->
                       IF i \in due THEN [rows[i] EXCEPT !.status = "expired"] ELSE rows[i]]
        /\ UNCHANGED <<settings, gatewayOrders, paymentUrl, creates, hooks, marks, faults,
                       changes>>
    BY DEF SweepExpired
  <1> HIDE DEF due
  <1>2. rows' \in Seq(RowRecords) /\ SameRows(rows, rows')
    BY <1>1, RowsStatus
  <1>3. /\ BooksOK(rows', gatewayOrders, paymentUrl) /\ GatewayPart(gatewayOrders, rows')
        /\ CreatesOK(creates, gatewayOrders, rows')
    BY <1>2, RowsMove
  <1>4. CountsOK'
    BY <1>1 DEF ConnectorInv, CountsOK
  <1> QED BY <1>1, <1>3, <1>4 DEF ConnectorInv

\* The 204: the webhook is acknowledged, and the shop order shows no link any more.
LEMMA ClearStep ==
    ASSUME ConnectorInv, NEW h \in Hooks, ClearUrl(h)
    PROVE  ConnectorInv'
  <1>1. /\ hooks[h] \notin {Free, Closed}
        /\ Fault \/ UNCHANGED faults
        /\ paymentUrl' \in {paymentUrl, [paymentUrl EXCEPT ![OrderOf(h)] = Unset]}
        /\ gatewayOrders' = IF hooks[h].awaited THEN Acknowledged(hooks[h].id) ELSE gatewayOrders
        /\ hooks' = [hooks EXCEPT ![h] = Free]
        /\ UNCHANGED <<settings, rows, creates, marks, changes>>
    BY DEF ClearUrl, EndHook, Free, Closed
  <1>2. /\ hooks[h].id \in GatewayIds
        /\ hooks[h].awaited => gatewayOrders[hooks[h].id].stage = "paid"
        /\ OrderOf(h) \in ShopOrders
    BY <1>1, HookServed
  <1>3. /\ GatewayPart(gatewayOrders', rows) /\ MintedKept(gatewayOrders, gatewayOrders')
        /\ \A g \in GatewayIds :
              g # hooks[h].id \/ ~hooks[h].awaited => gatewayOrders'[g] = gatewayOrders[g]
    <2>1. CASE hooks[h].awaited
      BY <1>1, <1>2, <2>1, AcknowledgedOK
    <2>2. CASE ~hooks[h].awaited
      BY <1>1, <2>2, SameAsItself DEF ConnectorInv
    <2> QED BY <2>1, <2>2
  <1>4. /\ BooksOK(rows, gatewayOrders', paymentUrl)
        /\ CreatesOK(creates, gatewayOrders', rows)
        /\ HooksOK([hooks EXCEPT ![h] = Free], gatewayOrders')
    BY <1>1, <1>3, HookEnds
  <1>5. BooksOK(rows, gatewayOrders', paymentUrl')
    <2>1. CASE paymentUrl' = [paymentUrl EXCEPT ![OrderOf(h)] = Unset]
      <3>1. paymentUrl' \in [ShopOrders -> GatewayIds \cup {Unset}]
        BY <1>4, <2>1 DEF BooksOK
      <3>2. \A p \in ShopOrders : paymentUrl'[p] # Unset => OnBooks(paymentUrl'[p], p, rows)
        BY <1>2, <1>4, <2>1 DEF BooksOK
      <3> QED BY <1>4, <3>1, <3>2 DEF BooksOK
    <2>2. CASE paymentUrl' = paymentUrl
      BY <1>4, <2>2
    <2> QED BY <1>1, <2>1, <2>2
  <1>6. CountsOK'
    <2>1. faults' \in 0 .. MaxFaults
      BY <1>1, FaultCount DEF ConnectorInv
    <2> QED BY <1>1, <2>1 DEF ConnectorInv, CountsOK
  <1> QED BY <1>1, <1>3, <1>4, <1>5, <1>6 DEF ConnectorInv

LEMMA Unawaited ==
    ASSUME NEW y \in [step : {"mark", "row", "clear"}, id : GatewayIds, row : GatewayIds,
                      awaited : BOOLEAN], NEW b
    PROVE  [y EXCEPT !.awaited = b] =
               [step |-> y.step, id |-> y.id, row |-> y.row, awaited |-> b]
  OBVIOUS

LEMMA TimesOutStep ==
    ASSUME ConnectorInv, NEW h \in Hooks, HookTimesOut(h)
    PROVE  ConnectorInv'
  <1> DEFINE lost == {hooks[h].id}
             x == [step |-> hooks[h].step, id |-> hooks[h].id, row |-> hooks[h].row,
                   awaited |-> FALSE]
  <1>1. /\ hooks[h] \notin {Free, Closed} /\ hooks[h].awaited /\ Fault
        /\ hooks' = [hooks EXCEPT ![h] = [hooks[h] EXCEPT !.awaited = FALSE]]
        /\ gatewayOrders' = Refused(lost)
        /\ UNCHANGED <<settings, rows, paymentUrl, creates, marks, changes>>
    BY DEF HookTimesOut, Serving
  <1>2. [hooks[h] EXCEPT !.awaited = FALSE] = x
    <2>1. hooks[h] \in [step : {"mark", "row", "clear"}, id : GatewayIds, row : GatewayIds,
                        awaited : BOOLEAN]
      BY <1>1, HookServed
    <2> QED BY <2>1, Unawaited
  <1>3. /\ GatewayPart(Refused(lost), rows)
        /\ MintedKept(gatewayOrders, Refused(lost))
        /\ \A g \in GatewayIds :
              g # hooks[h].id \/ ~hooks[h].awaited => Refused(lost)[g] = gatewayOrders[g]
    BY <1>1, AwaitedPaid
  <1> HIDE DEF lost
  <1>4. /\ BooksOK(rows, Refused(lost), paymentUrl)
        /\ CreatesOK(creates, Refused(lost), rows)
        /\ HooksOK([hooks EXCEPT ![h] = x], Refused(lost))
    BY <1>1, <1>3, HookEnds
  <1> HIDE DEF x
  <1>5. CountsOK'
    <2>1. faults' \in 0 .. MaxFaults
      BY <1>1, FaultCount DEF ConnectorInv
    <2> QED BY <1>1, <2>1 DEF ConnectorInv, CountsOK
  <1> QED BY <1>1, <1>2, <1>3, <1>4, <1>5 DEF ConnectorInv

LEMMA SettingsStep ==
    ASSUME ConnectorInv, NEW a \in Accounts \cup {Unset}, ChangeSettings(a)
    PROVE  ConnectorInv'
  <1>1. CountsOK'
    BY DEF ConnectorInv, CountsOK, ChangeSettings
  <1> QED BY <1>1 DEF ConnectorInv, ChangeSettings

\* After a crash no request is served, and the webhooks waited for were refused.
LEMMA CrashStep ==
    ASSUME ConnectorInv, ConnectorCrash
    PROVE  ConnectorInv'
  <1>1. /\ Fault
        /\ creates' = [r \in Creates |-> IF creates[r] = Closed THEN Closed ELSE Free]
        /\ hooks' = [h \in Hooks |-> IF hooks[h] = Closed THEN Closed ELSE Free]
        /\ gatewayOrders' = Refused(Awaited)
        /\ UNCHANGED <<settings, rows, paymentUrl, marks, changes>>
    BY DEF ConnectorCrash
  <1>2. \A g \in Awaited : gatewayOrders[g].stage = "paid"
    BY HookServed DEF Awaited, Serving
  <1>3. /\ GatewayPart(Refused(Awaited), rows) /\ MintedKept(gatewayOrders, Refused(Awaited))
    BY <1>2, RefusedOK
  <1>4. BooksOK(rows, Refused(Awaited), paymentUrl)
    BY <1>3, GatewayMoves
  <1>5. CreatesOK(creates', gatewayOrders', rows)
    BY <1>1 DEF CreatesOK, CreateOK, Free, Closed
  <1>6. HooksOK(hooks', gatewayOrders')
    BY <1>1 DEF HooksOK, HookOK
  <1>7. CountsOK'
    <2>1. faults' \in 0 .. MaxFaults
      BY <1>1, FaultCount DEF ConnectorInv
    <2> QED BY <1>1, <2>1 DEF ConnectorInv, CountsOK
  <1> QED BY <1>1, <1>3, <1>4, <1>5, <1>6, <1>7 DEF ConnectorInv

LEMMA ConnectorStep ==
    ASSUME ConnectorInv, clock \in Nat, ConnectorNext \/ UNCHANGED connectorVars
    PROVE  ConnectorInv'
  <1>1. CASE UNCHANGED connectorVars
    BY <1>1 DEF connectorVars, ConnectorInv, CountsOK
  <1>2. ASSUME NEW r \in Creates, Serve(r) \/ \E o \in ShopOrders : OrderCreated(r, o)
        PROVE  ConnectorInv'
    BY <1>2, MintStep, CreateFailsStep, RecordStep, PublishStep, OrderCreatedStep DEF Serve
  <1>3. ASSUME NEW g \in GatewayIds, Pay(g) \/ \E h \in Hooks : HookArrives(h, g)
        PROVE  ConnectorInv'
    BY <1>3, PayStep, HookArrivesStep
  <1>4. ASSUME NEW h \in Hooks, Answer(h) \/ HookTimesOut(h)
        PROVE  ConnectorInv'
    BY <1>4, MarkStep, MarkFailsStep, MarkPaidStep, ClearStep, TimesOutStep DEF Answer
  <1>5. CASE (\E a \in Accounts \cup {Unset} : ChangeSettings(a)) \/ SweepExpired \/ ConnectorCrash
    BY <1>5, SettingsStep, SweepExpiredStep, CrashStep
  <1> QED BY <1>1, <1>2, <1>3, <1>4, <1>5 DEF ConnectorNext

LEMMA ConnectorInitInv ==
    ASSUME NEW load \in Loads, ConnectorInit(load)
    PROVE  ConnectorInv
  <1>1. CountsOK
    <2>1. load.changes \in Nat /\ MaxFaults \in Nat
      BY ConnectorAssumption DEF ConnectorAssumption
    <2> QED BY <2>1 DEF ConnectorInit, CountsOK
  <1>2. BooksOK(rows, gatewayOrders, paymentUrl)
    BY DEF ConnectorInit, BooksOK
  <1>3. GatewayPart(gatewayOrders, rows)
    BY DEF ConnectorInit, GatewayPart, GatewayOK
  <1>4. CreatesOK(creates, gatewayOrders, rows)
    BY DEF ConnectorInit, CreatesOK, CreateOK, Free, Closed
  <1>5. HooksOK(hooks, gatewayOrders)
    BY DEF ConnectorInit, HooksOK, HookOK
  <1> QED BY <1>1, <1>2, <1>3, <1>4, <1>5 DEF ConnectorInv

LEMMA ConnectorImplied ==
    ASSUME ConnectorInv
    PROVE  ConnectorTypeOK /\ PaymentOnBooks
  <1>1. ASSUME NEW g \in GatewayIds, gatewayOrders[g] # NotMinted
        PROVE  /\ gatewayOrders[g].stage \in {"minted", "shown", "paid", "delivered", "failed"}
               /\ gatewayOrders[g].left \in 0 .. HookAttempts
               /\ gatewayOrders[g].stage # "minted" => OnBooks(g, gatewayOrders[g].order, rows)
    BY <1>1 DEF ConnectorInv, GatewayPart, GatewayOK, OrderRecords, Stages
  <1>2. \A r \in Creates : creates[r].step \in {"free", "closed", "mint", "record", "publish"}
    BY DEF ConnectorInv, CreatesOK, CreateOK, Free, Closed
  <1>3. \A h \in Hooks : hooks[h].step \in {"free", "closed", "mark", "row", "clear"}
    BY DEF ConnectorInv, HooksOK, HookOK, Free, Closed
  <1>4. \A h, k \in Serving :
            hooks[h].awaited /\ hooks[k].awaited => hooks[h].id # hooks[k].id \/ h = k
    BY DEF ConnectorInv, HooksOK, Serving
  <1>5. ConnectorTypeOK
    BY <1>1, <1>2, <1>3, <1>4 DEF ConnectorTypeOK, ConnectorInv, CountsOK, BooksOK
  <1>6. PaymentOnBooks
    <2>1. ASSUME NEW g \in GatewayIds, gatewayOrders[g].stage \notin {"none", "minted"}
          PROVE  OnBooks(g, gatewayOrders[g].order, rows)
      BY <1>1, <2>1 DEF NotMinted
    <2> QED BY <2>1 DEF PaymentOnBooks, ConnectorInv, BooksOK, OnBooks
  <1> QED BY <1>5, <1>6

\* Of the time, it is told only that it passes.
LEMMA ConnectorClock ==
    ASSUME ConnectorNext
    PROVE  clock' = clock \/ clock' = clock + 1
  <1>1. CASE TickTo(OrderTime)
    BY <1>1 DEF TickTo
  <1>2. ASSUME NEW r \in Creates, Serve(r) \/ \E o \in ShopOrders : OrderCreated(r, o)
        PROVE  clock' = clock
    BY <1>2 DEF Serve, OrderCreated, Mint, MintFails, RecordPending, Publish, PublishFails
  <1>3. ASSUME NEW g \in GatewayIds, Pay(g) \/ \E h \in Hooks : HookArrives(h, g)
        PROVE  clock' = clock
    BY <1>3 DEF Pay, HookArrives
  <1>4. ASSUME NEW h \in Hooks, Answer(h) \/ HookTimesOut(h)
        PROVE  clock' = clock
    BY <1>4 DEF Answer, HookTimesOut, MarkOrderPaid, MarkOrderFails, MarkPaid, ClearUrl
  <1>5. CASE (\E a \in Accounts \cup {Unset} : ChangeSettings(a)) \/ SweepExpired
                \/ ConnectorCrash
    BY <1>5 DEF ChangeSettings, SweepExpired, ConnectorCrash
  <1> QED BY <1>1, <1>2, <1>3, <1>4, <1>5 DEF ConnectorNext

=============================================================================
