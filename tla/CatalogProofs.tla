---------------------------- MODULE CatalogProofs ----------------------------
(***************************************************************************)
(* RecipeOnRecord, BuildsMoveGoodsOnce, UnitsExistOnce and                 *)
(* OrdersFollowTheirPath of Catalog, for any products, recipes, production *)
(* orders, units, customer orders and clerks; and what Chart promises, for *)
(* any organizations, accounts, charts and backfills.                      *)
(***************************************************************************)
EXTENDS Catalog, Chart, FiniteSetTheorems, WellFoundedInduction, TLAPS

-----------------------------------------------------------------------------
(* The inductive invariant.                                                *)

Version == [lines : Recipes, batch : Batches \cup {1}]
Movement == [src : Builds \cup {"hand"}, qty : {-1, 1}]
Live == {"draft", "completed", "cancelled"}

HistoryTyped ==
  /\ versions \in [Goods -> Seq(Version)]
  /\ recipe \in [Goods -> Recipes \cup {Empty}]

OnRecord(history, f, lines) ==
  lines # Empty => \E i \in DOMAIN history[f] : history[f][i].lines = lines

BuildsTyped ==
  /\ build \in [Builds -> [status : Live \cup {"none", "gone"}, product : Goods \cup {None},
                           lines : Recipes \cup {Empty}]]
  /\ \A b \in Builds : build[b].status \in Live => build[b].product \in Goods /\ build[b].lines \in Recipes
  /\ net = [b \in Builds |-> [p \in Products |-> net[b][p]]]
  /\ trail \in [Units -> Seq(Movement)]

\* What a production order's rows add up to in each status, and which units
\* name it: at most one, from its completion on.
BuildNet(b) ==
  LET lines == build[b].lines
      f == build[b].product
  IN /\ build[b].status \in {"none", "draft"} => Posted(b) = {} /\ \A p \in Products : net[b][p] = 0
     /\ build[b].status = "completed" =>
          /\ \A p \in DOMAIN lines \ {f} : net[b][p] = -lines[p]
          /\ net[b][f] = 1
          /\ Posted(b) = {} \/ \E u : Posted(b) = {u}
     /\ build[b].status = "cancelled" =>
          /\ \A p \in DOMAIN lines \ {f} : net[b][p] = 0
          /\ net[b][f] \in {0, 1}

BuildsNet == \A b \in Builds : BuildNet(b)

OrdersTyped ==
  order \in [Orders -> [status : OrderStatuses \cup {"none", "gone"}, lines : SUBSET LineIds]]

\* What a request has checked by the time it is parked. A save that records no
\* version carries a recipe that is on record, and versions are never removed.
Legal(history, r) ==
  /\ r.op = "recipe" =>
       /\ r.product \in Goods /\ r.lines \in Recipes /\ r.batch \in Batches \cup {1}
       /\ ~r.record => OnRecord(history, r.product, r.lines)
  /\ r.op = "build" => r.build \in Builds /\ r.product \in Goods /\ r.lines \in Recipes
  /\ r.op = "status" =>
       /\ r.build \in Builds /\ r.serials \subseteq Units
       /\ r.from \in Live /\ r.to \in Live /\ BuildMoves(r.from, r.to)
  /\ r.op = "order" =>
       r.from \in OrderStatuses /\ r.to \in {r.from} \cup orderStatusTransitions[r.from]

Requests ==
  /\ req = [c \in Clerks |-> req[c]]
  /\ \A c \in Clerks : Legal(versions, req[c])

IInv == HistoryTyped /\ RecipeOnRecord /\ BuildsTyped /\ BuildsNet /\ OrdersTyped /\ Requests

\* The invariant holds before any request.
LEMMA InitIInv == Init => IInv
<1> SUFFICES ASSUME Init PROVE IInv
  OBVIOUS
<1>1. HistoryTyped
  BY DEF Init, HistoryTyped
<1>2. RecipeOnRecord
  BY DEF Init, RecipeOnRecord
<1>3. BuildsTyped
  BY DEF Init, BuildsTyped, NoBuild, Live
<1>4. BuildsNet
  BY DEF Init, BuildsNet, BuildNet, NoBuild, Posted
<1>5. OrdersTyped
  BY DEF Init, OrdersTyped, NoOrder
<1>6. Requests
  BY DEF Init, Requests, Legal, Idle
<1> QED
  BY <1>1, <1>2, <1>3, <1>4, <1>5, <1>6 DEF IInv

-----------------------------------------------------------------------------
(* What a step leaves alone.                                               *)

\* A step that leaves recipes and their history leaves what is said of them.
LEMMA HistoryStays ==
  ASSUME IInv, UNCHANGED <<recipe, versions>>
  PROVE  HistoryTyped' /\ RecipeOnRecord'
  BY DEF IInv, HistoryTyped, RecipeOnRecord

\* A step that leaves production orders and their rows leaves what is said of them.
LEMMA BuildsStay ==
  ASSUME IInv, UNCHANGED <<build, net, trail>>
  PROVE  BuildsTyped' /\ BuildsNet'
<1>1. \A b \in Builds : Posted(b)' = Posted(b)
  BY DEF Posted
<1>2. BuildsTyped'
  BY DEF IInv, BuildsTyped
<1>3. BuildsNet'
  BY <1>1 DEF IInv, BuildsNet, BuildNet
<1> QED
  BY <1>2, <1>3

\* A step that leaves the customer orders leaves their type.
LEMMA OrdersStay ==
  ASSUME IInv, UNCHANGED order
  PROVE  OrdersTyped'
  BY DEF IInv, OrdersTyped

\* Requests stay legal as the history grows.
LEMMA LegalStays ==
  ASSUME NEW r, Legal(versions, r),
         \A f \in Goods : \A i \in DOMAIN versions[f] :
           i \in DOMAIN versions'[f] /\ versions'[f][i] = versions[f][i]
  PROVE  Legal(versions', r)
  BY DEF Legal, OnRecord

\* A step that leaves the requests and the history leaves them legal.
LEMMA RequestsStay ==
  ASSUME IInv, UNCHANGED <<versions, req>>
  PROVE  Requests'
  BY LegalStays DEF IInv, Requests

\* A request that ends leaves the others legal, whatever it recorded.
LEMMA RequestEnds ==
  ASSUME IInv, NEW c, req' = [req EXCEPT ![c] = Idle],
         \A f \in Goods : \A i \in DOMAIN versions[f] :
           i \in DOMAIN versions'[f] /\ versions'[f][i] = versions[f][i]
  PROVE  Requests'
<1>1. \A d \in Clerks : req'[d] = IF d = c THEN Idle ELSE req[d]
  BY DEF IInv, Requests
<1>2. req' = [d \in Clerks |-> req'[d]]
  BY DEF IInv, Requests
<1>3. \A d \in Clerks : Legal(versions', req'[d])
  <2> TAKE d \in Clerks
  <2>1. CASE req'[d] = Idle
    BY <2>1 DEF Idle, Legal
  <2>2. CASE req'[d] = req[d]
    BY <2>2, LegalStays DEF IInv, Requests
  <2> QED
    BY <1>1, <2>1, <2>2
<1> QED
  BY <1>2, <1>3 DEF Requests

-----------------------------------------------------------------------------
(* Requests that are parked.                                               *)

\* A request that is parked has checked what makes it legal.
LEMMA RequestParked ==
  ASSUME IInv, NEW c, NEW r, Legal(versions, r), Park(c, r), UNCHANGED <<shop, desk>>
  PROVE  IInv'
<1>1. UNCHANGED <<recipe, versions, build, net, trail, order>>
  BY DEF shop, desk
<1>2. \A d \in Clerks : req'[d] = IF d = c THEN r ELSE req[d]
  BY DEF Park, IInv, Requests
<1>3. req' = [d \in Clerks |-> req'[d]]
  BY DEF Park, IInv, Requests
<1>4. \A d \in Clerks : Legal(versions', req'[d])
  BY <1>1, <1>2, LegalStays DEF IInv, Requests
<1>5. Requests'
  BY <1>3, <1>4 DEF Requests
<1> QED
  BY <1>1, <1>5, HistoryStays, BuildsStay, OrdersStay DEF IInv

\* A save or restore parks what it will write; unrecorded, it is the latest.
LEMMA ReplaceReadIInv ==
  ASSUME IInv, NEW c, NEW f \in Goods, NEW lines \in Recipes, NEW batch \in Batches \cup {1},
         NEW restored \in BOOLEAN, ReplaceRead(c, f, lines, batch, restored)
  PROVE  IInv'
<1> DEFINE r == [op |-> "recipe", product |-> f, lines |-> lines, batch |-> BatchOf(f, batch),
                 record |-> restored \/ Changed(f, lines, BatchOf(f, batch))]
<1>1. versions[f] \in Seq(Version)
  BY DEF IInv, HistoryTyped
<1>2. Recorded(f) => /\ Latest(f) \in Version
                     /\ Len(versions[f]) \in DOMAIN versions[f]
                     /\ Latest(f) = versions[f][Len(versions[f])]
  BY <1>1 DEF Recorded, Latest, Last
<1>3. BatchOf(f, batch) \in Batches \cup {1}
  BY <1>2 DEF BatchOf, Version
<1>4. ~r.record => OnRecord(versions, f, lines)
  BY <1>2 DEF Changed, OnRecord
<1>5. Legal(versions, r)
  BY <1>3, <1>4 DEF Legal
<1> QED
  BY <1>5, RequestParked DEF ReplaceRead

\* Every read that starts a request keeps the invariant.
LEMMA StartIInv ==
  ASSUME IInv, NEW c \in Clerks, Start(c)
  PROVE  IInv'
<1>1. ASSUME NEW p \in Products, NEW category, NEW tracked, NEW serialized,
             UpdateProductRead(c, p, category, tracked, serialized)
      PROVE  IInv'
  <2> DEFINE r == [op |-> "product", product |-> p, category |-> category,
                   tracked |-> tracked, serialized |-> tracked /\ serialized]
  <2>1. Legal(versions, r)
    BY DEF Legal
  <2> QED
    BY <1>1, <2>1, RequestParked DEF UpdateProductRead
<1>2. ASSUME NEW f \in Goods, NEW lines \in Recipes, NEW batch \in Batches,
             ReplaceRead(c, f, lines, batch, FALSE)
      PROVE  IInv'
  BY <1>2, ReplaceReadIInv
<1>3. ASSUME NEW f \in Goods, NEW i \in DOMAIN versions[f], RestoreRead(c, f, i)
      PROVE  IInv'
  <2>1. versions[f][i] \in Version
    BY DEF IInv, HistoryTyped
  <2> QED
    BY <1>3, <2>1, ReplaceReadIInv DEF RestoreRead, Version
<1>4. ASSUME NEW b \in Builds, NEW f \in Goods, CreateBuildRead(c, b, f)
      PROVE  IInv'
  <2> DEFINE r == [op |-> "build", build |-> b, product |-> f, lines |-> recipe[f]]
  <2>1. Legal(versions, r)
    BY <1>4 DEF Legal, CreateBuildRead, IInv, HistoryTyped
  <2> QED
    BY <1>4, <2>1, RequestParked DEF CreateBuildRead
<1>5. ASSUME NEW b \in Builds, NEW to \in {"completed", "cancelled"}, NEW serials \in SUBSET Units,
             BuildStatusRead(c, b, to, serials)
      PROVE  IInv'
  <2> DEFINE r == [op |-> "status", build |-> b, from |-> build[b].status, to |-> to,
                   serials |-> serials, serialized |-> product[build[b].product].serialized,
                   enough |-> 1 <= product[build[b].product].stock]
  <2>1. build[b].status \in Live
    BY <1>5 DEF BuildStatusRead, IInv, BuildsTyped
  <2>2. Legal(versions, r)
    BY <1>5, <2>1 DEF Legal, Live, BuildStatusRead
  <2> QED
    BY <1>5, <2>2, RequestParked DEF BuildStatusRead
<1>6. ASSUME NEW o \in Orders, NEW to \in OrderStatuses, UpdateOrderStatusRead(c, o, to)
      PROVE  IInv'
  <2> DEFINE r == [op |-> "order", order |-> o, from |-> order[o].status, to |-> to]
  <2>1. Legal(versions, r)
    BY <1>6 DEF Legal, UpdateOrderStatusRead, OrderStands
  <2> QED
    BY <1>6, <2>1, RequestParked DEF UpdateOrderStatusRead
<1>7. ASSUME NEW d \in Deliveries, NEW o \in Orders, NEW covers, CreateDeliveryRead(c, d, o, covers)
      PROVE  IInv'
  <2> DEFINE r == [op |-> "delivery", delivery |-> d, order |-> o, covers |-> covers]
  <2>1. Legal(versions, r)
    BY DEF Legal
  <2> QED
    BY <1>7, <2>1, RequestParked DEF CreateDeliveryRead
<1>8. ASSUME NEW d \in Deliveries, NEW to, DeliveryStatusRead(c, d, to)
      PROVE  IInv'
  <2> DEFINE r == [op |-> "ship", delivery |-> d, order |-> delivery[d].order,
                   from |-> delivery[d].status, to |-> to]
  <2>1. Legal(versions, r)
    BY DEF Legal
  <2> QED
    BY <1>8, <2>1, RequestParked DEF DeliveryStatusRead
<1>9. CASE \/ \E p \in Goods, serialized \in BOOLEAN : UpdateProductRead(c, p, "finished", TRUE, serialized)
           \/ \E p \in Parts, category \in {"component", "finished"} : UpdateProductRead(c, p, category, TRUE, FALSE)
  BY <1>1, <1>9 DEF Products
<1>10. CASE \E f \in Goods :
              /\ Len(versions[f]) < MaxVersions
              /\ \/ \E lines \in Recipes, batch \in Batches : ReplaceRead(c, f, lines, batch, FALSE)
                 \/ \E i \in DOMAIN versions[f] : RestoreRead(c, f, i)
  BY <1>2, <1>3, <1>10
<1>11. CASE \E b \in Builds :
              \/ \E f \in Goods : CreateBuildRead(c, b, f)
              \/ \E serials \in SUBSET Units : BuildStatusRead(c, b, "completed", serials)
              \/ BuildStatusRead(c, b, "cancelled", {})
  <2>1. "completed" \in {"completed", "cancelled"} /\ "cancelled" \in {"completed", "cancelled"} /\ {} \in SUBSET Units
    OBVIOUS
  <2> QED
    BY <1>4, <1>5, <1>11, <2>1
<1>12. CASE \E o \in Orders, to \in OrderStatuses : UpdateOrderStatusRead(c, o, to)
  BY <1>6, <1>12
<1>13. CASE \E d \in Deliveries :
              \/ \E o \in Orders, covers \in SUBSET LineIds : CreateDeliveryRead(c, d, o, covers)
              \/ \E to \in OrderStatuses : DeliveryStatusRead(c, d, to)
  BY <1>7, <1>8, <1>13
<1> QED
  BY <1>9, <1>10, <1>11, <1>12, <1>13 DEF Start

-----------------------------------------------------------------------------
(* Recipes.                                                                *)

\* A save puts a recipe in force that it records, or that was on record.
LEMMA ReplaceWriteIInv ==
  ASSUME IInv, NEW c \in Clerks, req[c].op = "recipe",
         ReplaceWrite(c, req[c].product, req[c].lines, req[c].batch, req[c].record)
  PROVE  IInv'
<1> DEFINE r == req[c]
           f == r.product
           v == [lines |-> r.lines, batch |-> r.batch]
<1>1. Legal(versions, r)
  BY DEF IInv, Requests
<1>2. f \in Goods /\ r.lines \in Recipes /\ v \in Version
  BY <1>1 DEF Legal, Version
<1>3. recipe' = [recipe EXCEPT ![f] = r.lines]
  BY DEF ReplaceWrite
<1>4. versions' = IF r.record THEN [versions EXCEPT ![f] = Append(@, v)] ELSE versions
  BY DEF ReplaceWrite
<1>5. versions \in [Goods -> Seq(Version)] /\ recipe \in [Goods -> Recipes \cup {Empty}]
  BY DEF IInv, HistoryTyped
<1>6. HistoryTyped'
  <2>1. Append(versions[f], v) \in Seq(Version)
    BY <1>2, <1>5
  <2> QED
    BY <1>2, <1>3, <1>4, <1>5, <2>1 DEF HistoryTyped
<1>7. \A g \in Goods : \A i \in DOMAIN versions[g] :
        i \in DOMAIN versions'[g] /\ versions'[g][i] = versions[g][i]
  <2> TAKE g \in Goods
  <2>1. CASE r.record /\ g = f
    <3>1. versions[g] \in Seq(Version) /\ versions'[g] = Append(versions[g], v)
      BY <1>4, <1>5, <2>1
    <3> QED
      BY <3>1
  <2>2. CASE ~(r.record /\ g = f)
    BY <1>4, <1>5, <2>2
  <2> QED
    BY <2>1, <2>2
<1>8. RecipeOnRecord'
  <2> SUFFICES ASSUME NEW g \in Goods, recipe'[g] # Empty
               PROVE  \E i \in DOMAIN versions'[g] : versions'[g][i].lines = recipe'[g]
    BY DEF RecipeOnRecord
  <2>1. CASE g # f
    BY <1>3, <1>5, <1>7, <2>1 DEF IInv, RecipeOnRecord
  <2>2. CASE g = f /\ ~r.record
    <3>1. recipe'[g] = r.lines /\ OnRecord(versions, f, r.lines)
      BY <1>1, <1>3, <1>5, <2>2 DEF Legal
    <3> QED
      BY <1>7, <2>2, <3>1 DEF OnRecord
  <2>3. CASE g = f /\ r.record
    <3>1. versions[g] \in Seq(Version) /\ versions'[g] = Append(versions[g], v)
      BY <1>4, <1>5, <2>3
    <3>2. Len(versions[g]) + 1 \in DOMAIN versions'[g] /\ versions'[g][Len(versions[g]) + 1] = v
      BY <3>1
    <3> QED
      BY <1>3, <1>5, <2>3, <3>2
  <2> QED
    BY <2>1, <2>2, <2>3
<1>9. Requests'
  BY <1>7, RequestEnds DEF ReplaceWrite, Resume
<1> QED
  BY <1>6, <1>8, <1>9, BuildsStay, OrdersStay DEF ReplaceWrite, IInv, desk

-----------------------------------------------------------------------------
(* Production orders.                                                      *)

\* Requests and orders are not concerned by what happens to builds.
LEMMA BuildStep ==
  ASSUME IInv, UNCHANGED <<recipe, versions, order>>, Requests', BuildsTyped', BuildsNet'
  PROVE  IInv'
  BY HistoryStays, OrdersStay DEF IInv

\* A production order is created a draft that has moved nothing.
LEMMA CreateBuildIInv ==
  ASSUME IInv, NEW c \in Clerks, req[c].op = "build",
         CreateBuildWrite(c, req[c].build, req[c].product, req[c].lines)
  PROVE  IInv'
<1> DEFINE b == req[c].build
           new == [status |-> "draft", product |-> req[c].product, lines |-> req[c].lines]
<1>1. b \in Builds /\ req[c].product \in Goods /\ req[c].lines \in Recipes
  BY DEF IInv, Requests, Legal
<1>2. build[b].status = "none" /\ build' = [build EXCEPT ![b] = new] /\ UNCHANGED <<net, trail>>
  BY DEF CreateBuildWrite
<1>3. \A a \in Builds : build'[a] = IF a = b THEN new ELSE build[a]
  BY <1>2 DEF IInv, BuildsTyped
<1>4. BuildsTyped'
  BY <1>1, <1>2, <1>3 DEF IInv, BuildsTyped, Live
<1>5. BuildsNet'
  <2> SUFFICES ASSUME NEW a \in Builds PROVE BuildNet(a)'
    BY DEF BuildsNet
  <2>1. BuildNet(a) /\ Posted(a)' = Posted(a) /\ net'[a] = net[a]
    BY <1>2 DEF IInv, BuildsNet, Posted
  <2>2. CASE a = b
    <3>1. build[a].status = "none" /\ build'[a].status = "draft"
      BY <1>2, <1>3, <2>2
    <3> HIDE DEF b, new
    <3> QED BY <2>1, <3>1 DEF BuildNet
  <2>3. CASE a # b
    <3>1. build'[a] = build[a]
      BY <1>3, <2>3
    <3> QED BY ONLY <2>1, <3>1 DEF BuildNet
  <2> QED BY <2>2, <2>3
<1>6. Requests'
  BY RequestEnds DEF CreateBuildWrite, Resume
<1> QED
  BY <1>4, <1>5, <1>6, BuildStep DEF CreateBuildWrite, desk

\* A deleted draft had moved nothing.
LEMMA DeleteBuildIInv ==
  ASSUME IInv, NEW b \in Builds, DeleteBuild(b)
  PROVE  IInv'
<1> DEFINE new == [NoBuild EXCEPT !.status = "gone"]
<1>1. build' = [build EXCEPT ![b] = new] /\ UNCHANGED <<net, trail>>
  BY DEF DeleteBuild
<1>2. \A a \in Builds : build'[a] = IF a = b THEN new ELSE build[a]
  BY <1>1 DEF IInv, BuildsTyped
<1>3. new = [status |-> "gone", product |-> None, lines |-> Empty]
  BY DEF NoBuild
<1>4. BuildsTyped'
  BY <1>1, <1>2, <1>3 DEF IInv, BuildsTyped, Live
<1>5. BuildsNet'
  BY <1>1, <1>2, <1>3 DEF IInv, BuildsNet, BuildNet, Posted
<1> QED
  BY <1>4, <1>5, BuildStep, RequestsStay DEF DeleteBuild, desk

\* Whether a trail has a row.
HasRow(s, row) == \E i \in DOMAIN s : s[i] = row

\* A trail with one more row has that row and those it had.
LEMMA OneMoreRow ==
  ASSUME NEW s \in Seq(Movement), NEW row \in Movement, NEW x
  PROVE  /\ Append(s, row) \in Seq(Movement)
         /\ HasRow(Append(s, row), x) <=> HasRow(s, x) \/ row = x
<1>1. Append(s, row) \in Seq(Movement)
  OBVIOUS
<1>2. DOMAIN s = 1..Len(s) /\ DOMAIN Append(s, row) = 1..(Len(s) + 1) /\ Len(s) \in Nat
  OBVIOUS
<1>3. /\ \A i \in 1..Len(s) : Append(s, row)[i] = s[i]
      /\ Append(s, row)[Len(s) + 1] = row
  OBVIOUS
<1>4. \A i \in 1..(Len(s) + 1) : i \in 1..Len(s) \/ i = Len(s) + 1
  BY <1>2
<1>5. Len(s) + 1 \in 1..(Len(s) + 1) /\ 1..Len(s) \subseteq 1..(Len(s) + 1)
  BY <1>2
<1> QED
  BY <1>1, <1>2, <1>3, <1>4, <1>5 DEF HasRow

\* A movement of some units that is not the making of one by the build a
\* leaves the units a has made.
LEMMA OthersRows ==
  ASSUME trail \in [Units -> Seq(Movement)], NEW row \in Movement, NEW units,
         trail' \in [Units -> Seq(Movement)],
         \A u \in Units : trail'[u] = IF u \in units THEN Append(trail[u], row) ELSE trail[u]
  PROVE  \A a \in Builds :
           Posted(a)' = IF row = [src |-> a, qty |-> 1] THEN Posted(a) \cup (Units \cap units) ELSE Posted(a)
<1> TAKE a \in Builds
<1> DEFINE mine == [src |-> a, qty |-> 1]
<1>1. \A u \in Units : HasRow(trail'[u], mine) <=> HasRow(trail[u], mine) \/ (u \in units /\ row = mine)
  <2> TAKE u \in Units
  <2>1. trail[u] \in Seq(Movement)
    OBVIOUS
  <2>2. CASE u \in units
    <3>1. HasRow(Append(trail[u], row), mine) <=> HasRow(trail[u], mine) \/ row = mine
      BY <2>1, OneMoreRow
    <3> QED
      BY <2>2, <3>1
  <2>3. CASE u \notin units
    BY <2>3
  <2> QED
    BY <2>2, <2>3
<1>2. Posted(a) = {u \in Units : HasRow(trail[u], mine)}
  BY DEF Posted, HasRow
<1>3. Posted(a)' = {u \in Units : HasRow(trail'[u], mine)}
  BY DEF Posted, HasRow
<1> QED
  BY <1>1, <1>2, <1>3

\* A movement by hand makes no unit of a build.
LEMMA MoveIInv ==
  ASSUME IInv, NEW p \in Products, NEW u \in Units, NEW qty \in {-1, 1}, Move(p, u, qty)
  PROVE  IInv'
<1> DEFINE row == [src |-> "hand", qty |-> qty]
           units == IF trail' = trail THEN {} ELSE {u}
<1>1. trail' = trail \/ trail' = [trail EXCEPT ![u] = Append(@, row)]
  BY DEF Move
<1>2. trail \in [Units -> Seq(Movement)] /\ row \in Movement
  BY DEF IInv, BuildsTyped, Movement
<1>3. Append(trail[u], row) \in Seq(Movement)
  BY <1>2, OneMoreRow
<1>4. trail' \in [Units -> Seq(Movement)]
  BY <1>1, <1>2, <1>3
<1>5. \A w \in Units : trail'[w] = IF w \in units THEN Append(trail[w], row) ELSE trail[w]
  BY <1>1, <1>2
<1>6. \A b \in Builds : row # [src |-> b, qty |-> 1]
  BY ConstantsAssumption
<1>7. \A b \in Builds : Posted(b)' = Posted(b)
  <2> HIDE DEF units, row
  <2> QED
    BY <1>2, <1>4, <1>5, <1>6, OthersRows
<1>8. build' = build /\ net' = net
  BY DEF Move
<1>9. BuildsTyped'
  BY <1>4, <1>8 DEF IInv, BuildsTyped
<1>10. BuildsNet'
  BY <1>7, <1>8 DEF IInv, BuildsNet, BuildNet
<1> QED
  BY <1>9, <1>10, BuildStep, RequestsStay DEF Move, desk

\* Writing a production order's status keeps its product and its lines.
LEMMA StatusWritten ==
  ASSUME IInv, NEW b \in Builds, NEW to \in Live, build[b].status \in Live,
         build' = [build EXCEPT ![b].status = to]
  PROVE  /\ build' \in [Builds -> [status : Live \cup {"none", "gone"}, product : Goods \cup {None},
                                   lines : Recipes \cup {Empty}]]
         /\ \A a \in Builds \ {b} : build'[a] = build[a]
         /\ build'[b].status = to /\ build'[b].product = build[b].product
         /\ build'[b].lines = build[b].lines
         /\ build[b].product \in Goods /\ build[b].lines \in Recipes
  BY DEF IInv, BuildsTyped

\* The rows of a build are its own: they make its units when it produces, and
\* no other build's.
LEMMA RowsPosted ==
  ASSUME IInv, NEW b \in Builds, NEW f, NEW lines, NEW sign \in {-1, 1}, NEW units \in SUBSET Units,
         NEW bulk, Rows(b, f, lines, sign, units, bulk)
  PROVE  /\ trail' \in [Units -> Seq(Movement)]
         /\ \A a \in Builds \ {b} : Posted(a)' = Posted(a)
         /\ sign = 1 => Posted(b)' = Posted(b) \cup units
<1> DEFINE row == [src |-> b, qty |-> sign]
<1>1. trail \in [Units -> Seq(Movement)] /\ row \in Movement
  BY DEF IInv, BuildsTyped, Movement
<1>2. trail' = [u \in Units |-> IF u \in units THEN Append(trail[u], row) ELSE trail[u]]
  BY DEF Rows
<1>3. \A u \in Units : trail'[u] \in Seq(Movement)
  <2> TAKE u \in Units
  <2>1. trail[u] \in Seq(Movement) /\ Append(trail[u], row) \in Seq(Movement)
    BY <1>1, OneMoreRow
  <2> QED
    BY <1>2, <2>1
<1>4. trail' \in [Units -> Seq(Movement)]
  BY <1>2, <1>3
<1>5. \A u \in Units : trail'[u] = IF u \in units THEN Append(trail[u], row) ELSE trail[u]
  BY <1>2
<1>6. \A a \in Builds :
        Posted(a)' = IF row = [src |-> a, qty |-> 1] THEN Posted(a) \cup (Units \cap units) ELSE Posted(a)
  <2> HIDE DEF row
  <2> QED
    BY <1>1, <1>4, <1>5, OthersRows
<1>7. \A a \in Builds \ {b} : row # [src |-> a, qty |-> 1]
  OBVIOUS
<1>8. Units \cap units = units
  OBVIOUS
<1> QED
  BY <1>4, <1>6, <1>7, <1>8

\* The units of a completed build, and of one that is completed now.
LEMMA OneUnit ==
  ASSUME NEW units \in SUBSET Units
  PROVE  /\ IsFiniteSet(units) /\ Cardinality(units) \in Nat
         /\ Cardinality(units) = 1 => \E u : units = {u}
         /\ units = {} \/ (\E u : units = {u}) => Cardinality(units) \in {0, 1}
<1>1. IsFiniteSet(units)
  BY ConstantsAssumption, FS_Subset
<1> QED
  BY <1>1, FS_CardinalityType, FS_Singleton, FS_EmptySet

\* What a build's rows add to what its movements add up to.
LEMMA RowsNet ==
  ASSUME IInv, NEW b \in Builds, NEW f \in Products, NEW lines, NEW sign \in {-1, 1},
         NEW units \in SUBSET Units, NEW bulk \in {0, 1},
         DOMAIN lines \subseteq Products, \A p \in DOMAIN lines : lines[p] \in Nat,
         Rows(b, f, lines, sign, units, bulk)
  PROVE  /\ net' = [a \in Builds |-> [p \in Products |-> net'[a][p]]]
         /\ \A a \in Builds \ {b} : net'[a] = net[a]
         /\ sign = 1 => /\ net'[b][f] = net[b][f] + (bulk + Cardinality(units))
                        /\ \A p \in DOMAIN lines \ {f} : net'[b][p] = net[b][p] + -lines[p]
         /\ sign = -1 => /\ net'[b][f] = net[b][f] + -(bulk + Cardinality(units))
                         /\ \A p \in DOMAIN lines \ {f} : net'[b][p] = net[b][p] + lines[p]
<1> DEFINE new == [p \in Products |-> net[b][p] + IF p = f THEN sign * (bulk + Cardinality(units))
                                                  ELSE IF p \in DOMAIN lines THEN -sign * lines[p] ELSE 0]
<1>1. net' = [net EXCEPT ![b] = new]
  BY DEF Rows
<1>2. net = [a \in Builds |-> [p \in Products |-> net[a][p]]]
  BY DEF IInv, BuildsTyped
<1>3. \A a \in Builds : net'[a] = IF a = b THEN new ELSE net[a]
  BY <1>1, <1>2
<1>4. \A a \in Builds : net'[a] = [p \in Products |-> net'[a][p]]
  BY <1>2, <1>3
<1>5. net' = [a \in Builds |-> net'[a]]
  BY <1>1, <1>2
<1>6. net' = [a \in Builds |-> [p \in Products |-> net'[a][p]]]
  BY <1>4, <1>5
<1>7. \A p \in Products : net'[b][p] = new[p]
  BY <1>3
<1>8. Cardinality(units) \in Nat
  BY OneUnit
<1>9. net'[b][f] = net[b][f] + sign * (bulk + Cardinality(units))
  BY <1>7
<1>10. \A p \in DOMAIN lines \ {f} : net'[b][p] = net[b][p] + -sign * lines[p]
  BY <1>7
<1>11. bulk + Cardinality(units) \in Int
  BY <1>8
<1>12. \A a \in Builds \ {b} : net'[a] = net[a]
  BY <1>3
<1> HIDE DEF new
<1>13. CASE sign = 1
  <2>1. \A p \in DOMAIN lines \ {f} : -sign * lines[p] = -lines[p]
    BY <1>13
  <2>2. sign * (bulk + Cardinality(units)) = bulk + Cardinality(units)
    BY <1>11, <1>13
  <2> QED
    BY <1>6, <1>9, <1>10, <1>12, <1>13, <2>1, <2>2
<1>14. CASE sign = -1
  <2>1. \A p \in DOMAIN lines \ {f} : -sign * lines[p] = lines[p]
    BY <1>14
  <2>2. sign * (bulk + Cardinality(units)) = -(bulk + Cardinality(units))
    BY <1>11, <1>14
  <2> QED
    BY <1>6, <1>9, <1>10, <1>12, <1>14, <2>1, <2>2
<1> QED
  BY <1>13, <1>14

\* The invariant of the builds, when one of them is written with its rows.
LEMMA BuildWritten ==
  ASSUME IInv, NEW b \in Builds, NEW to \in {"completed", "cancelled"}, build[b].status \in Live,
         build' = [build EXCEPT ![b].status = to],
         trail' \in [Units -> Seq(Movement)],
         net' = [a \in Builds |-> [p \in Products |-> net'[a][p]]],
         \A a \in Builds \ {b} : Posted(a)' = Posted(a) /\ net'[a] = net[a],
         LET lines == build[b].lines
             f == build[b].product
         IN /\ to = "completed" =>
                 /\ \A p \in DOMAIN lines \ {f} : net'[b][p] = -lines[p]
                 /\ net'[b][f] = 1
                 /\ Posted(b)' = {} \/ \E u : Posted(b)' = {u}
            /\ to = "cancelled" =>
                 /\ \A p \in DOMAIN lines \ {f} : net'[b][p] = 0
                 /\ net'[b][f] \in {0, 1}
  PROVE  BuildsTyped' /\ BuildsNet'
<1>1. /\ build' \in [Builds -> [status : Live \cup {"none", "gone"}, product : Goods \cup {None},
                                lines : Recipes \cup {Empty}]]
      /\ \A a \in Builds \ {b} : build'[a] = build[a]
      /\ build'[b].status = to /\ build'[b].product = build[b].product
      /\ build'[b].lines = build[b].lines
      /\ build[b].product \in Goods /\ build[b].lines \in Recipes
  <2>1. to \in Live
    BY DEF Live
  <2> QED
    BY <2>1, StatusWritten
<1>2. BuildsTyped'
  <2>1. \A a \in Builds : build'[a].status \in Live => build'[a].product \in Goods /\ build'[a].lines \in Recipes
    BY <1>1 DEF IInv, BuildsTyped
  <2> QED
    BY <1>1, <2>1 DEF BuildsTyped
<1>3. \A a \in Builds \ {b} :
        build'[a] = build[a] /\ net'[a] = net[a] /\ Posted(a)' = Posted(a)
  BY <1>1
<1>4. \A a \in Builds \ {b} : BuildNet(a)'
  <2> TAKE a \in Builds \ {b}
  <2>1. BuildNet(a)
    BY DEF IInv, BuildsNet
  <2>2. build'[a] = build[a] /\ net'[a] = net[a] /\ Posted(a)' = Posted(a)
    BY <1>3
  <2> QED
    BY ONLY <2>1, <2>2 DEF BuildNet
<1>5. BuildNet(b)'
  <2> DEFINE lines == build[b].lines
             f == build[b].product
  <2>1. build'[b].lines = lines /\ build'[b].product = f /\ build'[b].status = to
    BY <1>1
  <2>2. /\ to = "completed" =>
             /\ \A p \in DOMAIN lines \ {f} : net'[b][p] = -lines[p]
             /\ net'[b][f] = 1
             /\ Posted(b)' = {} \/ \E u : Posted(b)' = {u}
        /\ to = "cancelled" =>
             /\ \A p \in DOMAIN lines \ {f} : net'[b][p] = 0
             /\ net'[b][f] \in {0, 1}
    OBVIOUS
  <2> HIDE DEF lines, f
  <2> QED BY <2>1, <2>2 DEF BuildNet
<1>6. BuildsNet'
  BY <1>4, <1>5 DEF BuildsNet
<1> QED
  BY <1>2, <1>6

\* A draft that is completed consumes its lines and makes its one unit.
LEMMA CompleteIInv ==
  ASSUME IInv, NEW b \in Builds, build[b].status = "draft",
         NEW serials \in SUBSET Units, NEW serialized, Complete(b, serials, serialized),
         build' = [build EXCEPT ![b].status = "completed"]
  PROVE  BuildsTyped' /\ BuildsNet'
<1> DEFINE lines == build[b].lines
           f == build[b].product
<1>1. PICK units \in SUBSET Units, bulk \in {0, 1} :
        /\ Rows(b, f, lines, 1, units, bulk)
        /\ bulk + Cardinality(units) = 1
        /\ units = {} \/ \E u : units = {u}
  <2>1. CASE serialized
    <3>1. Rows(b, f, lines, 1, serials, 0) /\ Cardinality(serials) = 1
      BY <2>1 DEF Complete
    <3>2. \E u : serials = {u}
      BY <3>1, OneUnit
    <3>3. 0 + Cardinality(serials) = 1
      BY <3>1
    <3> QED
      BY <3>1, <3>2, <3>3
  <2>2. CASE ~serialized
    <3>1. Rows(b, f, lines, 1, {}, 1) /\ 1 + Cardinality({}) = 1
      BY <2>2, FS_EmptySet DEF Complete
    <3> QED
      BY <3>1
  <2> QED
    BY <2>1, <2>2
<1>2. f \in Goods /\ lines \in Recipes
  BY DEF IInv, BuildsTyped, Live
<1>3. DOMAIN lines \subseteq Products /\ f \in Products /\ \A p \in DOMAIN lines : lines[p] \in Nat
  BY <1>2, ConstantsAssumption DEF Products
<1>4. Posted(b) = {} /\ \A p \in Products : net[b][p] = 0
  BY DEF IInv, BuildsNet, BuildNet
<1>5. /\ trail' \in [Units -> Seq(Movement)]
      /\ \A a \in Builds \ {b} : Posted(a)' = Posted(a)
      /\ Posted(b)' = units
  <2> HIDE DEF lines, f
  <2>1. /\ trail' \in [Units -> Seq(Movement)]
        /\ \A a \in Builds \ {b} : Posted(a)' = Posted(a)
        /\ Posted(b)' = Posted(b) \cup units
    BY <1>1, RowsPosted
  <2> QED BY <1>4, <2>1
<1>6. /\ net' = [a \in Builds |-> [p \in Products |-> net'[a][p]]]
      /\ \A a \in Builds \ {b} : net'[a] = net[a]
      /\ net'[b][f] = net[b][f] + (bulk + Cardinality(units))
      /\ \A p \in DOMAIN lines \ {f} : net'[b][p] = net[b][p] + -lines[p]
  BY <1>1, <1>3, RowsNet
<1>7. net'[b][f] = 1
  BY <1>1, <1>3, <1>4, <1>6
<1>8. \A p \in DOMAIN lines \ {f} : net'[b][p] = -lines[p]
  BY <1>3, <1>4, <1>6
<1>9. build[b].status \in Live /\ "completed" # "cancelled"
  BY DEF Live
<1> QED
  BY <1>1, <1>5, <1>6, <1>7, <1>8, <1>9, BuildWritten

\* A completed build that is cancelled gives its lines back, and the unit it
\* made unless none is named or all of it was counted in bulk.
LEMMA TakeBackIInv ==
  ASSUME IInv, NEW b \in Builds, build[b].status = "completed",
         NEW serialized, NEW enough, TakeBack(b, serialized, enough),
         build' = [build EXCEPT ![b].status = "cancelled"]
  PROVE  BuildsTyped' /\ BuildsNet'
<1> DEFINE lines == build[b].lines
           f == build[b].product
<1>1. /\ \A p \in DOMAIN lines \ {f} : net[b][p] = -lines[p]
      /\ net[b][f] = 1
      /\ Posted(b) = {} \/ \E u : Posted(b) = {u}
  BY DEF IInv, BuildsNet, BuildNet
<1>2. Posted(b) \in SUBSET Units
  BY DEF Posted
<1>3. PICK units \in SUBSET Units, bulk \in {0, 1} :
        /\ Rows(b, f, lines, -1, units, bulk)
        /\ bulk + Cardinality(units) \in {0, 1}
  <2>1. CASE serialized
    <3>1. Rows(b, f, lines, -1, Posted(b), 0)
      BY <2>1 DEF TakeBack
    <3>2. 0 + Cardinality(Posted(b)) \in {0, 1}
      BY <1>1, <1>2, OneUnit
    <3> QED
      BY <1>2, <3>1, <3>2
  <2>2. CASE ~serialized
    BY <2>2, FS_EmptySet DEF TakeBack
  <2> QED
    BY <2>1, <2>2
<1>4. f \in Goods /\ lines \in Recipes
  BY DEF IInv, BuildsTyped, Live
<1>5. DOMAIN lines \subseteq Products /\ f \in Products /\ \A p \in DOMAIN lines : lines[p] \in Nat
  BY <1>4, ConstantsAssumption DEF Products
<1>6. /\ trail' \in [Units -> Seq(Movement)]
      /\ \A a \in Builds \ {b} : Posted(a)' = Posted(a)
  BY <1>3, RowsPosted
<1>7. /\ net' = [a \in Builds |-> [p \in Products |-> net'[a][p]]]
      /\ \A a \in Builds \ {b} : net'[a] = net[a]
      /\ net'[b][f] = net[b][f] + -(bulk + Cardinality(units))
      /\ \A p \in DOMAIN lines \ {f} : net'[b][p] = net[b][p] + lines[p]
  BY <1>3, <1>5, RowsNet
<1>8. net'[b][f] \in {0, 1}
  BY <1>1, <1>3, <1>5, <1>7
<1>9. \A p \in DOMAIN lines \ {f} : net'[b][p] = 0
  BY <1>1, <1>5, <1>7
<1>10. build[b].status \in Live /\ "completed" # "cancelled"
  BY DEF Live
<1> QED
  BY <1>6, <1>7, <1>8, <1>9, <1>10, BuildWritten

\* A status is written only if the order's is still the one that was read: a
\* draft is completed, a completed one taken back, and nothing else moves.
LEMMA BuildStatusIInv ==
  ASSUME IInv, NEW c \in Clerks, req[c].op = "status",
         BuildStatusWrite(c, req[c].build, req[c].from, req[c].to, req[c].serials,
                          req[c].serialized, req[c].enough)
  PROVE  IInv'
<1> DEFINE r == req[c]
           b == r.build
<1>1. /\ b \in Builds /\ r.serials \in SUBSET Units
      /\ r.from \in Live /\ r.to \in Live /\ BuildMoves(r.from, r.to)
  BY DEF IInv, Requests, Legal
<1>2. build[b].status = r.from /\ build' = [build EXCEPT ![b].status = r.to]
  BY DEF BuildStatusWrite
<1>3. BuildsTyped' /\ BuildsNet'
  <2>1. CASE r.from = "draft" /\ r.to = "completed"
    <3>1. Complete(b, r.serials, r.serialized)
      BY <2>1 DEF BuildStatusWrite
    <3> QED
      BY <1>1, <1>2, <2>1, <3>1, CompleteIInv
  <2>2. CASE r.from = "completed" /\ r.to = "cancelled"
    <3>1. TakeBack(b, r.serialized, r.enough)
      BY <2>2 DEF BuildStatusWrite
    <3> QED
      BY <1>1, <1>2, <2>2, <3>1, TakeBackIInv
  <2>3. CASE r.from = "draft" /\ r.to = "cancelled"
    <3>1. UNCHANGED <<net, trail>>
      BY <2>3 DEF BuildStatusWrite
    <3>2. \A a \in Builds : Posted(a)' = Posted(a)
      BY <3>1 DEF Posted
    <3>3. BuildNet(b)
      BY <1>1 DEF IInv, BuildsNet
    <3>4. build[b].product \in Goods /\ DOMAIN build[b].lines \subseteq Products
      BY <1>1, <1>2, ConstantsAssumption DEF IInv, BuildsTyped, Products
    <3>5. net[b][build[b].product] = 0 /\ \A p \in DOMAIN build[b].lines : net[b][p] = 0
      BY <1>2, <2>3, <3>3, <3>4 DEF BuildNet, Products
    <3>6. trail' \in [Units -> Seq(Movement)] /\ net' = [a \in Builds |-> [p \in Products |-> net'[a][p]]]
      BY <3>1 DEF IInv, BuildsTyped
    <3> QED
      BY <1>1, <1>2, <2>3, <3>1, <3>2, <3>5, <3>6, BuildWritten
  <2>4. CASE r.from = r.to
    <3>1. UNCHANGED <<net, trail>>
      BY <2>4 DEF BuildStatusWrite
    <3>2. build' = build
      BY <1>1, <1>2, <2>4 DEF IInv, BuildsTyped
    <3> QED
      BY <3>1, <3>2, BuildsStay
  <2> QED
    BY <1>1, <2>1, <2>2, <2>3, <2>4 DEF BuildMoves
<1>4. Requests'
  BY RequestEnds DEF BuildStatusWrite, Resume
<1> QED
  BY <1>3, <1>4, BuildStep DEF BuildStatusWrite, desk

-----------------------------------------------------------------------------
(* Customer orders.                                                        *)

\* Recipes and builds are not concerned by what happens to orders.
LEMMA DeskStep ==
  ASSUME IInv, UNCHANGED <<trail, recipe, versions, build, net>>, OrdersTyped', Requests'
  PROVE  IInv'
  BY HistoryStays, BuildsStay DEF IInv

\* What OrdersFollowTheirPath says of one step.
Path ==
  \A o \in Orders :
    OrderStands(o) /\ order'[o].status \notin {order[o].status, "gone"} =>
      order'[o].status \in orderStatusTransitions[order[o].status]

\* The three handlers of one transaction that write an order.
LEMMA OrderHandlers ==
  ASSUME IInv, NEW o \in Orders,
         \/ \E status \in OrderStatuses, lines \in NewLines : CreateOrder(o, status, lines)
         \/ \E lines \in SUBSET LineIds : UpdateOrder(o, lines)
         \/ DeleteOrder(o)
  PROVE  IInv' /\ Path
<1>1. order \in [Orders -> [status : OrderStatuses \cup {"none", "gone"}, lines : SUBSET LineIds]]
  BY DEF IInv, OrdersTyped
<1>2. CASE \E status \in OrderStatuses, lines \in NewLines : CreateOrder(o, status, lines)
  <2>1. OrdersTyped'
    BY <1>1, <1>2, ConstantsAssumption DEF CreateOrder, OrdersTyped
  <2>2. Path
    <3>1. "none" \notin OrderStatuses
      BY DEF OrderStatuses, orderStatusTransitions
    <3> QED
      BY <1>1, <1>2, <3>1 DEF CreateOrder, Path, OrderStands
  <2>3. UNCHANGED <<trail, recipe, versions, build, net, req>>
    BY <1>2 DEF CreateOrder, shop
  <2> QED
    BY <2>1, <2>2, <2>3, DeskStep, RequestsStay
<1>3. CASE \E lines \in SUBSET LineIds : UpdateOrder(o, lines)
  <2>1. OrdersTyped'
    BY <1>1, <1>3 DEF UpdateOrder, OrdersTyped
  <2>2. Path
    BY <1>1, <1>3 DEF UpdateOrder, Path
  <2>3. UNCHANGED <<trail, recipe, versions, build, net, req>>
    BY <1>3 DEF UpdateOrder, shop
  <2> QED
    BY <2>1, <2>2, <2>3, DeskStep, RequestsStay
<1>4. CASE DeleteOrder(o)
  <2>1. order' = [order EXCEPT ![o] = [status |-> "gone", lines |-> {}]]
    <3>1. [NoOrder EXCEPT !.status = "gone"] = [status |-> "gone", lines |-> {}]
      BY DEF NoOrder
    <3> QED
      BY <1>4, <3>1 DEF DeleteOrder
  <2>2. OrdersTyped'
    BY <1>1, <2>1 DEF OrdersTyped
  <2>3. Path
    BY <1>1, <2>1 DEF Path
  <2>4. UNCHANGED <<trail, recipe, versions, build, net, req>>
    BY <1>4 DEF DeleteOrder, shop
  <2> QED
    BY <2>2, <2>3, <2>4, DeskStep, RequestsStay
<1> QED
  BY <1>2, <1>3, <1>4

\* A status set by hand is the one that was read, or a legal step from it.
LEMMA OrderStatusStep ==
  ASSUME IInv, NEW c \in Clerks, req[c].op = "order",
         UpdateOrderStatusWrite(c, req[c].order, req[c].from, req[c].to)
  PROVE  IInv' /\ Path
<1> DEFINE r == req[c]
<1>1. r.from \in OrderStatuses /\ r.to \in {r.from} \cup orderStatusTransitions[r.from]
  BY DEF IInv, Requests, Legal
<1>2. order \in [Orders -> [status : OrderStatuses \cup {"none", "gone"}, lines : SUBSET LineIds]]
  BY DEF IInv, OrdersTyped
<1>3. order[r.order].status = r.from /\ order' = [order EXCEPT ![r.order].status = r.to]
  BY DEF UpdateOrderStatusWrite
<1>4. r.to \in OrderStatuses
  BY <1>1 DEF OrderStatuses, orderStatusTransitions
<1>5. OrdersTyped'
  BY <1>2, <1>3, <1>4 DEF OrdersTyped
<1>6. Path
  BY <1>1, <1>2, <1>3 DEF Path
<1>7. UNCHANGED <<trail, recipe, versions, build, net>> /\ Requests'
  BY RequestEnds DEF UpdateOrderStatusWrite, Resume, shop
<1> QED
  BY <1>5, <1>6, <1>7, DeskStep

\* A delivery moves its order from confirmed to shipped and from shipped to
\* delivered, and otherwise leaves it.
LEMMA DeliveryStatusStep ==
  ASSUME IInv, NEW c \in Clerks, req[c].op = "ship",
         DeliveryStatusWrite(c, req[c].delivery, req[c].order, req[c].from, req[c].to)
  PROVE  IInv' /\ Path
<1> DEFINE o == req[c].order
           to == req[c].to
<1>1. order \in [Orders -> [status : OrderStatuses \cup {"none", "gone"}, lines : SUBSET LineIds]]
  BY DEF IInv, OrdersTyped
<1>2. order' = order \/ (OrderStands(o) /\ order' = [order EXCEPT ![o].status = Advanced(o, to)])
  BY DEF DeliveryStatusWrite
<1>3. \/ Advanced(o, to) = order[o].status
      \/ Advanced(o, to) = "shipped" /\ order[o].status = "confirmed"
      \/ Advanced(o, to) = "delivered" /\ order[o].status = "shipped"
  BY DEF Advanced
<1>4. /\ "shipped" \in OrderStatuses /\ "delivered" \in OrderStatuses
      /\ "shipped" \in orderStatusTransitions["confirmed"]
      /\ "delivered" \in orderStatusTransitions["shipped"]
  BY DEF OrderStatuses, orderStatusTransitions
<1>5. OrdersTyped'
  BY <1>1, <1>2, <1>3, <1>4 DEF OrdersTyped
<1>6. Path
  BY <1>1, <1>2, <1>3, <1>4 DEF Path
<1>7. UNCHANGED <<trail, recipe, versions, build, net>> /\ Requests'
  BY RequestEnds DEF DeliveryStatusWrite, Resume, shop
<1> QED
  BY <1>5, <1>6, <1>7, DeskStep

\* A step that leaves the orders leaves their path.
LEMMA PathStays ==
  ASSUME UNCHANGED order
  PROVE  Path
  BY DEF Path

-----------------------------------------------------------------------------
(* Every step.                                                             *)

\* The steps that touch none of what the invariant is about but the requests.
LEMMA QuietIInv ==
  ASSUME IInv, UNCHANGED <<trail, recipe, versions, build, net, order>>, Requests'
  PROVE  IInv'
  BY HistoryStays, BuildsStay, OrdersStay DEF IInv

\* Every handler of one transaction keeps the invariant and the path.
LEMMA DoStep ==
  ASSUME IInv, Do
  PROVE  IInv' /\ Path
<1>1. CASE \E p \in Products, u \in Units, qty \in {-1, 1} :
             product[p].stock + qty \in 0..MaxStock /\ Move(p, u, qty)
  <2>1. PICK p \in Products, u \in Units, qty \in {-1, 1} : Move(p, u, qty)
    BY <1>1
  <2>2. UNCHANGED desk
    BY <2>1 DEF Move
  <2>3. IInv'
    BY <2>1, MoveIInv
  <2> QED BY <2>2, <2>3, PathStays DEF desk
<1>2. CASE \E p \in Products : DeleteProduct(p)
  BY <1>2, QuietIInv, RequestsStay, PathStays DEF DeleteProduct, desk
<1>3. CASE \E b \in Builds : DeleteBuild(b)
  BY <1>3, DeleteBuildIInv, PathStays DEF DeleteBuild, desk
<1>4. CASE \E o \in Orders :
             \/ \E status \in OrderStatuses, lines \in NewLines : CreateOrder(o, status, lines)
             \/ \E lines \in SUBSET LineIds : UpdateOrder(o, lines)
             \/ DeleteOrder(o)
  BY <1>4, OrderHandlers
<1>5. CASE \E d \in Deliveries :
             \/ \E covers \in SUBSET LineIds : UpdateDelivery(d, covers)
             \/ DeleteDelivery(d)
  BY <1>5, QuietIInv, RequestsStay, PathStays DEF UpdateDelivery, DeleteDelivery, shop
<1> QED
  BY <1>1, <1>2, <1>3, <1>4, <1>5 DEF Do

\* No read changes an order.
LEMMA StartPath ==
  ASSUME NEW c \in Clerks, Start(c)
  PROVE  Path
<1>1. UNCHANGED order
  BY DEF Start, UpdateProductRead, ReplaceRead, RestoreRead, CreateBuildRead, BuildStatusRead,
         UpdateOrderStatusRead, CreateDeliveryRead, DeliveryStatusRead, desk
<1> QED
  BY <1>1, PathStays

\* Every transaction of a request keeps the invariant and the path.
LEMMA FinishStep ==
  ASSUME IInv, NEW c \in Clerks, Finish(c)
  PROVE  IInv' /\ Path
<1> DEFINE r == req[c]
<1>1. CASE r.op = "product" /\ UpdateProductWrite(c, r.product, r.category, r.tracked, r.serialized)
  BY <1>1, QuietIInv, RequestEnds, PathStays DEF UpdateProductWrite, Resume, desk
<1>2. CASE r.op = "recipe" /\ ReplaceWrite(c, r.product, r.lines, r.batch, r.record)
  BY <1>2, ReplaceWriteIInv, PathStays DEF ReplaceWrite, desk
<1>3. CASE r.op = "build" /\ CreateBuildWrite(c, r.build, r.product, r.lines)
  BY <1>3, CreateBuildIInv, PathStays DEF CreateBuildWrite, desk
<1>4. CASE r.op = "status" /\ BuildStatusWrite(c, r.build, r.from, r.to, r.serials, r.serialized, r.enough)
  BY <1>4, BuildStatusIInv, PathStays DEF BuildStatusWrite, desk
<1>5. CASE r.op = "order" /\ UpdateOrderStatusWrite(c, r.order, r.from, r.to)
  BY <1>5, OrderStatusStep
<1>6. CASE r.op = "delivery" /\ CreateDeliveryWrite(c, r.delivery, r.order, r.covers)
  BY <1>6, QuietIInv, RequestEnds, PathStays DEF CreateDeliveryWrite, Resume, shop
<1>7. CASE r.op = "ship" /\ DeliveryStatusWrite(c, r.delivery, r.order, r.from, r.to)
  BY <1>7, DeliveryStatusStep
<1>8. CASE Fail(c)
  BY <1>8, QuietIInv, RequestEnds, PathStays DEF Fail, shop, desk
<1> QED
  BY <1>1, <1>2, <1>3, <1>4, <1>5, <1>6, <1>7, <1>8 DEF Finish

\* Every step keeps the invariant and the path.
LEMMA StepIInv ==
  ASSUME IInv, [Next]_vars
  PROVE  IInv' /\ Path
<1>1. CASE Do
  BY <1>1, DoStep
<1>2. CASE \E c \in Clerks : Start(c)
  BY <1>2, StartIInv, StartPath
<1>3. CASE \E c \in Clerks : Finish(c)
  BY <1>3, FinishStep
<1>4. CASE UNCHANGED vars
  BY <1>4, QuietIInv, RequestsStay, PathStays DEF vars
<1> QED
  BY <1>1, <1>2, <1>3, <1>4 DEF Next

-----------------------------------------------------------------------------
(* Sums of movements. FoldLeft hides a recursive function on sets of       *)
(* positions; that it exists, and that a row more adds what it moves, is   *)
(* shown on a smallest counterexample.                                     *)

\* g adds up the rows of q at every subset of S, the last one last.
Runs(q, S, g) ==
  g = [s \in SUBSET S |-> IF s = {} THEN 0 ELSE g[s \ {Max(s)}] + q[Max(s)].qty]

NetOf(q) == FoldLeft(LAMBDA n, row : n + row.qty, 0, q)

\* U is a set of positions.
Positions(U) == \E n \in Nat : U \subseteq 1..n

\* What a fold stands for.
LEMMA NetDef ==
  ASSUME NEW q
  PROVE  NetOf(q) = (CHOOSE g : Runs(q, DOMAIN q, g))[DOMAIN q]
  BY DEF NetOf, FoldLeft, MapThenFoldSet, Runs

\* Positions have a largest.
LEMMA MaxIn ==
  ASSUME NEW n \in Nat, NEW s, s \subseteq 1..n, s # {}
  PROVE  Max(s) \in s /\ \A k \in s : Max(s) >= k
<1> DEFINE T == {n - k : k \in s}
<1>1. T \subseteq Nat /\ T # {}
  <2>1. \A k \in s : k \in 1..n
    OBVIOUS
  <2>2. \A k \in 1..n : n - k \in Nat
    OBVIOUS
  <2> QED
    BY <2>1, <2>2
<1>2. PICK m \in T : \A k \in T : <<k, m>> \notin OpToRel(<, Nat)
  <2> HIDE DEF T
  <2> QED
    BY <1>1, NatLessThanWellFounded, WFMin
<1>3. PICK x \in s : m = n - x
  BY <1>2
<1>4. \A k \in s : n - k \in T /\ n - k \in Nat /\ m \in Nat
  BY <1>1, <1>2
<1>5. \A k \in s : ~(n - k < m)
  <2> HIDE DEF T
  <2> QED
    BY <1>2, <1>4 DEF OpToRel
<1>6. \A k \in s : x >= k
  BY <1>3, <1>5
<1> QED
  BY <1>6 DEF Max

\* The recursion, unfolded once.
LEMMA RunsAt ==
  ASSUME NEW q, NEW S, NEW g, Runs(q, S, g), NEW s \in SUBSET S
  PROVE  /\ s = {} => g[s] = 0
         /\ s # {} => g[s] = g[s \ {Max(s)}] + q[Max(s)].qty
<1> DEFINE G(t) == IF t = {} THEN 0 ELSE g[t \ {Max(t)}] + q[Max(t)].qty
<1>1. g = [t \in SUBSET S |-> G(t)]
  BY DEF Runs
<1> HIDE DEF G
<1>2. g[s] = G(s)
  BY <1>1
<1> QED
  BY <1>2 DEF G

\* Of any sets of positions one is smallest.
LEMMA SmallestSet ==
  ASSUME NEW S, IsFiniteSet(S), NEW C \in SUBSET SUBSET S, C # {}
  PROVE  \E s \in C : \A t \in SUBSET s : t # s => t \notin C
<1>1. IsWellFoundedOn(StrictSubsetOrdering(S), SUBSET S)
  BY FS_FiniteSubsetsOfFinite, FS_StrictSubsetOrderingWellFounded
<1>2. PICK s \in C : \A t \in C : <<t, s>> \notin StrictSubsetOrdering(S)
  BY <1>1, WFMin
<1> QED
  BY <1>2 DEF StrictSubsetOrdering

\* Sequences that agree on some positions have the same sum there.
LEMMA RunsAgree ==
  ASSUME NEW q, NEW U, NEW g, Runs(q, U, g), Positions(U),
         NEW p, NEW T, NEW h, Runs(p, T, h), U \subseteq T,
         \A i \in U : q[i] = p[i]
  PROVE  g[U] = h[U]
<1> DEFINE C == {s \in SUBSET U : g[s] # h[s]}
<1>1. SUFFICES ASSUME C # {} PROVE FALSE
  OBVIOUS
<1> PICK n \in Nat : U \subseteq 1..n
  BY DEF Positions
<1>2. IsFiniteSet(U)
  <2>1. IsFiniteSet(1..n)
    BY FS_Interval
  <2> QED
    BY <2>1, FS_Subset
<1>3. PICK s \in C : \A t \in SUBSET s : t # s => t \notin C
  <2>1. C \in SUBSET SUBSET U
    OBVIOUS
  <2> HIDE DEF C
  <2> QED
    BY <1>1, <1>2, <2>1, SmallestSet
<1>4. s \in SUBSET U /\ s \in SUBSET T /\ s \subseteq 1..n
  OBVIOUS
<1>5. s # {}
  <2>1. Runs(q, U, g) /\ s \in SUBSET U /\ Runs(p, T, h) /\ s \in SUBSET T /\ g[s] # h[s]
    BY <1>4
  <2> HIDE DEF C
  <2>2. s = {} => g[s] = 0
    BY ONLY <2>1, RunsAt
  <2>3. s = {} => h[s] = 0
    BY ONLY <2>1, RunsAt
  <2> QED
    BY <2>1, <2>2, <2>3
<1>6. Max(s) \in s
  BY <1>4, <1>5, MaxIn
<1>7. g[s \ {Max(s)}] = h[s \ {Max(s)}]
  BY <1>3, <1>6
<1>8. g[s] # h[s] /\ q[Max(s)] = p[Max(s)]
  BY <1>6
<1> HIDE DEF C
<1>9. g[s] = g[s \ {Max(s)}] + q[Max(s)].qty
  <2>1. Runs(q, U, g) /\ s \in SUBSET U /\ s # {}
    BY <1>4, <1>5
  <2> QED
    BY ONLY <2>1, RunsAt
<1>10. h[s] = h[s \ {Max(s)}] + p[Max(s)].qty
  <2>1. Runs(p, T, h) /\ s \in SUBSET T /\ s # {}
    BY <1>4, <1>5
  <2> QED
    BY ONLY <2>1, RunsAt
<1> QED
  BY <1>7, <1>8, <1>9, <1>10

LEMMA RunsWithin ==
  ASSUME NEW q, NEW U, NEW g, Runs(q, U, g), Positions(U), NEW T, NEW h, Runs(q, T, h), U \subseteq T
  PROVE  g[U] = h[U]
<1>1. \A i \in U : q[i] = q[i]
  OBVIOUS
<1> QED
  BY <1>1, RunsAgree

\* The sum of a sequence exists.
LEMMA RunsExist ==
  ASSUME NEW n \in Nat, NEW q
  PROVE  \E g : Runs(q, 1..n, g)
<1> DEFINE C == {s \in SUBSET (1..n) : ~\E g : Runs(q, s, g)}
<1>1. SUFFICES ASSUME C # {} PROVE FALSE
  OBVIOUS
<1>2. PICK s \in C : \A t \in SUBSET s : t # s => t \notin C
  <2>1. C \in SUBSET SUBSET (1..n) /\ IsFiniteSet(1..n)
    BY FS_Interval
  <2> HIDE DEF C
  <2> QED
    BY <1>1, <2>1, SmallestSet
<1>3. \A t \in SUBSET s : t # s => \E g : Runs(q, t, g)
  BY <1>2
<1> DEFINE part(t) == CHOOSE g : Runs(q, t, g)
           down(t) == IF t = s THEN IF s = {} THEN 0 ELSE part(s \ {Max(s)})[s \ {Max(s)}] + q[Max(s)].qty
                      ELSE part(t)[t]
           g == [t \in SUBSET s |-> down(t)]
<1>4. \A t \in SUBSET s : t # s => Runs(q, t, part(t))
  BY <1>3
<1> HIDE DEF part
<1>5. ASSUME NEW t \in SUBSET s
      PROVE  g[t] = IF t = {} THEN 0 ELSE g[t \ {Max(t)}] + q[Max(t)].qty
  <2>1. CASE t = {}
    <3>1. CASE t = s
      BY <2>1, <3>1
    <3>2. CASE t # s
      BY <2>1, <3>2, <1>4, RunsAt
    <3> QED
      BY <3>1, <3>2
  <2>2. CASE t # {}
    <3> DEFINE u == t \ {Max(t)}
    <3>1. Max(t) \in t /\ t \subseteq 1..n
      BY <2>2, MaxIn
    <3>2. u \in SUBSET s /\ u # s /\ u \subseteq t /\ u \subseteq 1..n
      BY <3>1
    <3>3. g[u] = part(u)[u]
      BY <3>2
    <3>4. CASE t = s
      BY <2>2, <3>3, <3>4
    <3>5. CASE t # s
      <4>1. g[t] = part(t)[t]
        BY <3>5
      <4>2. Runs(q, t, part(t)) /\ Runs(q, u, part(u))
        BY <1>4, <3>2, <3>5
      <4>3. part(t)[t] = part(t)[u] + q[Max(t)].qty
        BY <2>2, <4>2, RunsAt
      <4>4. part(t)[u] = part(u)[u]
        <5>1. Positions(u) /\ u \subseteq t
          BY <3>2 DEF Positions
        <5> HIDE DEF u
        <5> QED
          BY ONLY <4>2, <5>1, RunsWithin
      <4> QED
        BY <2>2, <4>1, <4>3, <4>4, <3>3
    <3> QED
      BY <3>4, <3>5
  <2> QED
    BY <2>1, <2>2
<1>6. Runs(q, s, g)
  <2> DEFINE G(t) == IF t = {} THEN 0 ELSE g[t \ {Max(t)}] + q[Max(t)].qty
  <2>1. \A t \in SUBSET s : g[t] = G(t)
    BY <1>5
  <2>2. g = [t \in SUBSET s |-> g[t]]
    OBVIOUS
  <2> HIDE DEF g, G
  <2>3. g = [t \in SUBSET s |-> G(t)]
    BY <2>1, <2>2
  <2> QED
    BY <2>3 DEF Runs, G
<1> QED
  BY <1>2, <1>6

\* So it is the sum of all positions.
LEMMA NetRuns ==
  ASSUME NEW n \in Nat, NEW q, DOMAIN q = 1..n
  PROVE  \E g : Runs(q, 1..n, g) /\ NetOf(q) = g[1..n]
<1> DEFINE g == CHOOSE h : Runs(q, 1..n, h)
<1>1. Runs(q, 1..n, g)
  BY RunsExist
<1>2. NetOf(q) = g[1..n]
  BY NetDef
<1> QED
  BY <1>1, <1>2

\* No rows add up to nothing.
LEMMA NetEmpty == NetOf(<<>>) = 0
<1>1. PICK g : Runs(<<>>, 1..0, g) /\ NetOf(<<>>) = g[1..0]
  BY NetRuns
<1>2. 1..0 = {}
  OBVIOUS
<1> QED
  BY <1>1, <1>2, RunsAt

\* A row more adds what it moves.
LEMMA NetAppend ==
  ASSUME NEW M, NEW q \in Seq(M), NEW x
  PROVE  NetOf(Append(q, x)) = NetOf(q) + x.qty
<1> DEFINE n == Len(q)
           p == Append(q, x)
           U == 1..n
           V == 1..(n + 1)
<1>1. n \in Nat /\ DOMAIN q = 1..n /\ DOMAIN p = 1..(n + 1)
  OBVIOUS
<1>2. p[n + 1] = x /\ \A i \in U : q[i] = p[i]
  OBVIOUS
<1> HIDE DEF n, p
<1>3. PICK g : Runs(q, U, g) /\ NetOf(q) = g[U]
  BY <1>1, NetRuns
<1>4. n + 1 \in Nat
  BY <1>1
<1>5. PICK h : Runs(p, V, h) /\ NetOf(p) = h[V]
  BY <1>1, <1>4, NetRuns
<1>6. Max(V) = n + 1
  <2>1. Max(V) \in V /\ \A k \in V : Max(V) >= k
    BY <1>1, <1>4, MaxIn
  <2>2. n + 1 \in V
    BY <1>1
  <2> QED
    BY <1>1, <2>1, <2>2
<1>7. V # {} /\ V \ {n + 1} = U /\ U \subseteq V
  <2>1. n + 1 \in V
    BY <1>1
  <2>2. \A i : i \in U <=> (i \in V /\ i # n + 1)
    BY <1>1
  <2> HIDE DEF U, V
  <2> QED
    BY <2>1, <2>2
<1> HIDE DEF U, V
<1>8. h[V] = h[U] + p[n + 1].qty
  BY <1>5, <1>6, <1>7, RunsAt
<1>9. g[U] = h[U]
  <2>1. Positions(U)
    BY <1>1 DEF Positions, U
  <2> QED
    BY <1>2, <1>3, <1>5, <1>7, <2>1, RunsAgree
<1> QED
  BY <1>2, <1>3, <1>5, <1>8, <1>9 DEF p

-----------------------------------------------------------------------------
(* Serial numbers. Every handler looks at a unit before it moves it, so a  *)
(* unit's rows come in turns, and their sum is what the last of them says. *)

Counted == \A u \in Units : Balance(u) = IF InStock(u) THEN 1 ELSE 0

\* A step moves a unit at most once, in if it is out and out if it is in.
InTurn(u) ==
  \/ trail'[u] = trail[u]
  \/ \E row : /\ row.qty \in {-1, 1} /\ (row.qty = -1 <=> InStock(u))
              /\ trail'[u] = Append(trail[u], row)

\* A production order's rows take its units in turn, if those were looked at.
LEMMA RowsInTurn ==
  ASSUME NEW b, NEW f, NEW lines, NEW sign \in {-1, 1}, NEW units, NEW bulk,
         Rows(b, f, lines, sign, units, bulk),
         \A u \in units : sign = -1 <=> InStock(u)
  PROVE  \A u \in Units : InTurn(u)
<1> TAKE u \in Units
<1>1. trail'[u] = IF u \in units THEN Append(trail[u], [src |-> b, qty |-> sign]) ELSE trail[u]
  BY DEF Rows
<1>2. CASE u \in units
  <2>1. /\ [src |-> b, qty |-> sign].qty = sign
        /\ sign \in {-1, 1} /\ (sign = -1 <=> InStock(u))
    BY <1>2
  <2> QED
    BY <1>1, <1>2, <2>1 DEF InTurn
<1>3. CASE u \notin units
  BY <1>1, <1>3 DEF InTurn
<1> QED
  BY <1>2, <1>3

\* So does every handler.
LEMMA StepInTurn ==
  ASSUME IInv, [Next]_vars
  PROVE  \A u \in Units : InTurn(u)
<1>1. UNCHANGED trail => \A u \in Units : InTurn(u)
  BY DEF InTurn
<1>2. ASSUME NEW p \in Products, NEW v \in Units, NEW qty \in {-1, 1}, Move(p, v, qty)
      PROVE  \A u \in Units : InTurn(u)
  <2>1. CASE ~product[p].serialized
    BY <1>1, <1>2, <2>1 DEF Move
  <2>2. CASE product[p].serialized
    <3> TAKE u \in Units
    <3>1. qty = -1 <=> InStock(v)
      BY <1>2, <2>2 DEF Move
    <3>2. trail'[u] = IF u = v THEN Append(trail[u], [src |-> "hand", qty |-> qty]) ELSE trail[u]
      BY <1>2, <2>2 DEF Move, IInv, BuildsTyped
    <3>3. [src |-> "hand", qty |-> qty].qty = qty
      OBVIOUS
    <3> QED
      BY <3>1, <3>2, <3>3 DEF InTurn
  <2> QED
    BY <2>1, <2>2
<1>3. ASSUME NEW c \in Clerks, NEW r, r = req[c],
             BuildStatusWrite(c, r.build, r.from, r.to, r.serials, r.serialized, r.enough)
      PROVE  \A u \in Units : InTurn(u)
  <2>1. CASE r.from = "draft" /\ r.to = "completed"
    <3>1. Complete(r.build, r.serials, r.serialized)
      BY <1>3, <2>1 DEF BuildStatusWrite
    <3>2. CASE r.serialized
      BY <3>1, <3>2, RowsInTurn DEF Complete
    <3>3. CASE ~r.serialized
      BY <3>1, <3>3, RowsInTurn DEF Complete
    <3> QED
      BY <3>2, <3>3
  <2>2. CASE r.from = "completed" /\ r.to = "cancelled"
    <3>1. TakeBack(r.build, r.serialized, r.enough)
      BY <1>3, <2>2 DEF BuildStatusWrite
    <3>2. CASE r.serialized
      BY <3>1, <3>2, RowsInTurn DEF TakeBack
    <3>3. CASE ~r.serialized
      BY <3>1, <3>3, RowsInTurn DEF TakeBack
    <3> QED
      BY <3>2, <3>3
  <2>3. CASE ~(r.from = "draft" /\ r.to = "completed") /\ ~(r.from = "completed" /\ r.to = "cancelled")
    BY <1>1, <1>3, <2>3 DEF BuildStatusWrite
  <2> QED
    BY <2>1, <2>2, <2>3
<1>4. CASE Do
  <2>1. ASSUME ~\E p \in Products, u \in Units, qty \in {-1, 1} : Move(p, u, qty)
        PROVE  UNCHANGED trail
    BY <1>4, <2>1 DEF Do, DeleteProduct, DeleteBuild, CreateOrder, UpdateOrder, DeleteOrder,
                      UpdateDelivery, DeleteDelivery, shop
  <2> QED
    BY <1>1, <1>2, <2>1
<1>5. CASE \E c \in Clerks : Start(c)
  <2>1. UNCHANGED trail
    <3>1. PICK c \in Clerks : Start(c)
      BY <1>5
    <3>2. \A p, category, tracked, serialized :
            UpdateProductRead(c, p, category, tracked, serialized) => UNCHANGED trail
      BY DEF UpdateProductRead, shop
    <3>3. \A f, lines, batch, restoring : ReplaceRead(c, f, lines, batch, restoring) => UNCHANGED trail
      BY DEF ReplaceRead, shop
    <3>4. \A f, i : RestoreRead(c, f, i) => UNCHANGED trail
      BY <3>3 DEF RestoreRead
    <3>5. \A b, f : CreateBuildRead(c, b, f) => UNCHANGED trail
      BY DEF CreateBuildRead, shop
    <3>6. \A b, to, serials : BuildStatusRead(c, b, to, serials) => UNCHANGED trail
      BY DEF BuildStatusRead, shop
    <3>7. \A o, to : UpdateOrderStatusRead(c, o, to) => UNCHANGED trail
      BY DEF UpdateOrderStatusRead, shop
    <3>8. \A d, o, covers : CreateDeliveryRead(c, d, o, covers) => UNCHANGED trail
      BY DEF CreateDeliveryRead, shop
    <3>9. \A d, to : DeliveryStatusRead(c, d, to) => UNCHANGED trail
      BY DEF DeliveryStatusRead, shop
    <3> QED BY <3>1, <3>2, <3>3, <3>4, <3>5, <3>6, <3>7, <3>8, <3>9 DEF Start
  <2> QED
    BY <1>1, <2>1
<1>6. CASE \E c \in Clerks : Finish(c)
  <2> SUFFICES ASSUME NEW c \in Clerks, Finish(c)
               PROVE  \A u \in Units : InTurn(u)
    BY <1>6
  <2>1. CASE LET r == req[c] IN BuildStatusWrite(c, r.build, r.from, r.to, r.serials, r.serialized, r.enough)
    BY <1>3, <2>1
  <2>2. CASE ~LET r == req[c] IN BuildStatusWrite(c, r.build, r.from, r.to, r.serials, r.serialized, r.enough)
    <3>1. UNCHANGED trail
      BY <2>2 DEF Finish, UpdateProductWrite, ReplaceWrite, CreateBuildWrite, UpdateOrderStatusWrite,
                  CreateDeliveryWrite, DeliveryStatusWrite, Fail, shop
    <3> QED
      BY <1>1, <3>1
  <2> QED
    BY <2>1, <2>2
<1>7. CASE UNCHANGED vars
  BY <1>1, <1>7 DEF vars
<1> QED
  BY <1>4, <1>5, <1>6, <1>7 DEF Next

\* A unit's balance is the sum of its rows.
BalanceIsNet == \A u \in Units : Balance(u) = NetOf(trail[u])

LEMMA NetIsBalance == BalanceIsNet
  BY DEF BalanceIsNet, Balance, NetOf

\* And moved in turn, a unit's rows keep adding up to what the last says.
LEMMA NextCounted ==
  ASSUME IInv, Counted, [Next]_vars
  PROVE  Counted'
<1> SUFFICES ASSUME NEW u \in Units
             PROVE  Balance(u)' = IF InStock(u)' THEN 1 ELSE 0
  BY DEF Counted
<1>1. Balance(u) = (IF InStock(u) THEN 1 ELSE 0) /\ trail[u] \in Seq(Movement) /\ InTurn(u)
  BY StepInTurn DEF Counted, IInv, BuildsTyped
<1>2. Balance(u) = NetOf(trail[u]) /\ Balance(u)' = NetOf(trail'[u])
  <2>1. BalanceIsNet /\ BalanceIsNet'
    BY NetIsBalance, PTL
  <2> QED
    BY <2>1 DEF BalanceIsNet
<1>3. CASE trail'[u] = trail[u]
  BY <1>1, <1>2, <1>3 DEF InStock
<1>4. CASE trail'[u] # trail[u]
  <2>1. PICK row : /\ row.qty \in {-1, 1} /\ (row.qty = -1 <=> InStock(u))
                   /\ trail'[u] = Append(trail[u], row)
    BY <1>1, <1>4 DEF InTurn
  <2>2. Balance(u)' = Balance(u) + row.qty
    BY <1>1, <1>2, <2>1, NetAppend
  <2>3. InStock(u)' <=> row.qty > 0
    <3>1. Append(trail[u], row) # <<>> /\ Last(Append(trail[u], row)) = row
      BY <1>1 DEF Last
    <3> QED
      BY <2>1, <3>1 DEF InStock
  <2> QED
    BY <1>1, <2>1, <2>2, <2>3
<1> QED
  BY <1>3, <1>4

-----------------------------------------------------------------------------
(* The theorems.                                                           *)

\* The invariant holds of every behaviour.
THEOREM CatalogInvariant == Spec => []IInv
<1>1. Init => IInv
  BY InitIInv
<1>2. IInv /\ [Next]_vars => IInv'
  BY StepIInv
<1> QED
  BY <1>1, <1>2, PTL DEF Spec

\* A recipe in force is one the history records, whatever saves, restores and
\* deletions race (ReplaceBillOfMaterials, DeleteProduct).
THEOREM CatalogRecipeOnRecord == Spec => []RecipeOnRecord
<1>1. IInv => RecipeOnRecord
  BY DEF IInv
<1> QED
  BY <1>1, CatalogInvariant, PTL

\* However overlapping requests complete and cancel it, a production order has
\* consumed and produced once while completed and nothing otherwise but a unit
\* that stays behind (UpdateProductionOrderStatus).
THEOREM CatalogBuildsMoveOnce == Spec => []BuildsMoveGoodsOnce
<1>1. ASSUME IInv PROVE BuildsMoveGoodsOnce
  <2> SUFFICES ASSUME NEW b \in Builds, build[b].status \in {"draft", "completed", "cancelled"}
               PROVE  LET lines == build[b].lines
                          f == build[b].product
                          done == build[b].status = "completed"
                      IN /\ \A p \in DOMAIN lines \ {f} : net[b][p] = IF done THEN -lines[p] ELSE 0
                         /\ net[b][f] = (IF done THEN 1 ELSE 0) \/ (build[b].status = "cancelled" /\ net[b][f] = 1)
    BY DEF BuildsMoveGoodsOnce
  <2>1. BuildNet(b)
    BY <1>1 DEF IInv, BuildsNet
  <2>2. build[b].product \in Products /\ DOMAIN build[b].lines \subseteq Products
    BY <1>1, ConstantsAssumption DEF IInv, BuildsTyped, Live, Products
  <2>3. CASE build[b].status = "draft"
    BY <2>1, <2>2, <2>3 DEF BuildNet
  <2>4. CASE build[b].status = "completed"
    BY <2>1, <2>4 DEF BuildNet
  <2>5. CASE build[b].status = "cancelled"
    BY <2>1, <2>5 DEF BuildNet
  <2> QED
    BY <2>3, <2>4, <2>5
<1> QED
  BY <1>1, CatalogInvariant, PTL

\* An order's status only ever takes a legal step, by hand or by its
\* deliveries, whatever overlaps (orderStatusTransitions).
THEOREM CatalogOrdersFollowTheirPath == Spec => OrdersFollowTheirPath
<1>1. IInv /\ [Next]_vars => [Path]_vars
  BY StepIInv
<1>2. OrdersFollowTheirPath <=> [][Path]_vars
  BY PTL DEF OrdersFollowTheirPath, Path
<1> QED
  BY <1>1, <1>2, CatalogInvariant, PTL DEF Spec

\* A serialized unit is in stock once or not at all, whatever order builds are
\* completed and cancelled and units used in, however many units, orders and
\* movements there are (lookupSerialNumbersTx, serialInStockByIDTx).
THEOREM CatalogUnitsExistOnce == Spec => []UnitsExistOnce
<1>1. Init => Counted
  <2> SUFFICES ASSUME Init, NEW u \in Units PROVE Balance(u) = 0 /\ ~InStock(u)
    BY DEF Counted
  <2>1. trail[u] = <<>>
    BY DEF Init
  <2> QED
    BY <2>1, NetEmpty DEF Balance, NetOf, InStock
<1>2. IInv /\ Counted /\ [Next]_vars => Counted'
  BY NextCounted
<1>3. Counted => UnitsExistOnce
  BY DEF Counted, UnitsExistOnce
<1> QED
  BY <1>1, <1>2, <1>3, CatalogInvariant, PTL DEF Spec

-----------------------------------------------------------------------------
(* The chart of accounts. What a request checked of owners is still so when *)
(* it writes, because an account keeps its owner and an id is used once.    *)

\* What a parked request names was there, and what of it is left has the owner
\* that was checked.
ParkedHome(r) ==
  /\ r.op = "account" =>
       /\ r.id <= made /\ r.parent <= made
       /\ Exists(r.id) /\ r.parent # Unset /\ Exists(r.parent)
            => account[r.parent].org = account[r.id].org
  /\ r.op = "defaults" => \A col \in DOMAIN r.new : r.new[col] # Unset =>
       /\ r.new[col] <= made
       /\ Exists(r.new[col]) => account[r.new[col]].org = r.org

ParkedHomes == \A e \in Editors : ParkedHome(editing[e])

\* A chart under way: the organization has the rows made so far, in order, and
\* no default yet.
ChartUnderWay ==
  startup.org # Nobody /\ startup.pass = 0 =>
    /\ startup.at - 1 <= made
    /\ \A i \in AccountIds : account[i].org = startup.org <=>
                               i > made - (startup.at - 1) /\ i <= made
    /\ \A k \in 1..(startup.at - 1) :
         account[made - (startup.at - 1) + k].code = Template[k].code
    /\ column[startup.org] = Blank

\* A start of the server, which has the tables to itself.
Seeding ==
  /\ startup.phase # "serving" => \A e \in Editors : editing[e] = NoEdit
  /\ startup.phase # "seeding" => startup.org = Nobody /\ startup.todo = {} /\ startup.pass = 0
  /\ startup.todo \subseteq present
  /\ startup.org # Nobody =>
       /\ startup.org \in startup.todo
       /\ startup.at <= Len(PassRows(startup.pass)) + 1
       /\ \A col \in Columns : startup.wired[col] # Unset =>
            account[startup.wired[col]].org = startup.org
  /\ ChartUnderWay

ChartIInv == ChartTypeOK /\ ReferencesStayHome /\ ParkedHomes /\ Seeding

LEMMA ChartStarts == ChartInit => ChartIInv
<1> SUFFICES ASSUME ChartInit PROVE ChartIInv
  OBVIOUS
<1> USE DEF ChartInit
<1>1. Blank \in [Columns -> AccountIds \cup {Unset}]
  BY DEF Blank
<1>2. ChartTypeOK
  BY <1>1, ChartAssumption DEF ChartTypeOK, Stopped, Exists, NoAccount, Methods, AccountIds
<1>3. ReferencesStayHome
  BY DEF ReferencesStayHome, AccountsHome, ColumnsHome, LinesHome, Exists, NoAccount, Blank
<1>4. ParkedHomes /\ Seeding
  BY DEF ParkedHomes, ParkedHome, Seeding, ChartUnderWay, Stopped, NoEdit
<1> QED
  BY <1>2, <1>3, <1>4 DEF ChartIInv

-----------------------------------------------------------------------------
(* Steps of requests. They leave the start of the server alone.            *)

LEMMA SeedingRests ==
  ASSUME Seeding, startup.phase = "serving", startup' = startup
  PROVE  Seeding'
BY DEF Seeding, ChartUnderWay

\* What was parked holds on while accounts are only added at the end, or removed.
LEMMA ParkedRests ==
  ASSUME ChartTypeOK, ParkedHomes, made \in Nat, made' \in Nat, made <= made',
         \A i \in AccountIds : i <= made => account'[i].org \in {account[i].org, Nobody},
         \A e \in Editors : editing'[e] = editing[e] \/ editing'[e] = NoEdit
  PROVE  ParkedHomes'
<1> SUFFICES ASSUME NEW e \in Editors PROVE ParkedHome(editing[e])'
  BY DEF ParkedHomes
<1>1. CASE editing'[e] = NoEdit
  BY <1>1 DEF ParkedHome, NoEdit
<1>2. CASE editing'[e] = editing[e]
  <2>1. ParkedHome(editing[e])
    BY DEF ParkedHomes
  <2>2. editing[e] \in {NoEdit} \cup Update \cup Defaults
    BY DEF ChartTypeOK
  <2>3. CASE editing[e] \in Update
    <3> DEFINE u == editing[e]
    <3>1. u.op = "account" /\ u.op # "defaults" /\ u.id \in AccountIds /\ u.id \in Int
      BY <2>3 DEF Update, AccountIds
    <3>2. u.parent \in Int /\ (u.parent # Unset => u.parent \in AccountIds)
      BY <2>3 DEF Update, AccountIds, Unset
    <3>3. /\ u.id <= made /\ u.parent <= made
          /\ Exists(u.id) /\ u.parent # Unset /\ Exists(u.parent)
               => account[u.parent].org = account[u.id].org
      BY <2>1, <3>1 DEF ParkedHome
    <3> HIDE DEF u
    <3>4. ParkedHome(u)'
      BY <1>2, <3>1, <3>2, <3>3 DEF ParkedHome, Exists, u
    <3> QED
      BY <3>4 DEF u
  <2>4. CASE editing[e] \in Defaults
    <3>1. editing[e].op = "defaults" /\ editing[e].op # "account"
      BY <2>4 DEF Defaults
    <3> SUFFICES ASSUME NEW col \in DOMAIN editing[e].new, editing[e].new[col] # Unset
                 PROVE  /\ editing[e].new[col] <= made'
                        /\ Exists(editing[e].new[col])' => account'[editing[e].new[col]].org = editing[e].org
      BY <1>2, <3>1 DEF ParkedHome, Exists
    <3>2. editing[e].new[col] \in AccountIds
      BY <2>4 DEF Defaults
    <3>3. editing[e].new[col] \in Int
      BY <3>2 DEF AccountIds
    <3> QED
      BY <1>2, <2>1, <3>1, <3>2, <3>3 DEF ParkedHome, Exists
  <2>5. CASE editing[e] = NoEdit
    BY <1>2, <2>5 DEF ParkedHome, NoEdit
  <2> QED
    BY <2>2, <2>3, <2>4, <2>5
<1> QED
  BY <1>1, <1>2

\* A new account, with a header of its own organization.
LEMMA ChartInserts ==
  ASSUME ChartTypeOK, ReferencesStayHome, ParkedHomes, NEW o \in Organizations,
         NEW p \in AccountIds \cup {Unset}, NEW code \in Codes, NEW type \in Types,
         NEW group \in BOOLEAN, Insert(o, p, code, type, group),
         o \in present, ParentOf(o, p),
         UNCHANGED <<present, column, drafted, posted, editing>>
  PROVE  /\ made \in Nat /\ made' = made + 1 /\ made + 1 \in AccountIds
         /\ account' \in [AccountIds -> Account \cup {NoAccount}]
         /\ made' \in 0..MaxAccounts /\ \A i \in AccountIds : i > made' => ~Exists(i)'
         /\ account'[made + 1] =
              [org |-> o, parent |-> p, code |-> code, type |-> type, group |-> group]
         /\ \A i \in AccountIds : i # made + 1 => account'[i] = account[i]
         /\ \A i \in AccountIds : Exists(i) => i # made + 1
         /\ ReferencesStayHome' /\ ParkedHomes'
<1>1. /\ made < MaxAccounts /\ made' = made + 1 /\ made \in Nat /\ MaxAccounts \in Nat
      /\ made + 1 \in AccountIds /\ ~Exists(made + 1)
      /\ account' = [account EXCEPT ![made + 1] =
           [org |-> o, parent |-> p, code |-> code, type |-> type, group |-> group]]
  BY ChartAssumption DEF Insert, ChartTypeOK, AccountIds
<1>2. \A i \in AccountIds : i # made + 1 => account'[i] = account[i]
  BY <1>1 DEF ChartTypeOK
<1>3. account'[made + 1] = [org |-> o, parent |-> p, code |-> code, type |-> type, group |-> group]
  BY <1>1 DEF ChartTypeOK
<1>4. account' \in [AccountIds -> Account \cup {NoAccount}]
  BY <1>1 DEF ChartTypeOK, Account
<1>5. made' \in 0..MaxAccounts /\ \A i \in AccountIds : i > made' => ~Exists(i)'
  BY <1>1, <1>2 DEF ChartTypeOK, AccountIds, Exists
<1>6. \A i \in AccountIds : Exists(i) => i # made + 1
  BY <1>1
<1>7. ReferencesStayHome'
  <2>1. p # Unset => p # made + 1 /\ p \in AccountIds
    BY <1>1, ChartAssumption DEF ParentOf, Exists
  <2>2. AccountsHome'
    <3> SUFFICES ASSUME NEW i \in AccountIds, Exists(i)'
                 PROVE  account'[i].org \in present' /\ ParentOf(account[i].org, account[i].parent)'
      BY DEF AccountsHome
    <3>1. CASE i = made + 1
      BY <1>1, <1>2, <1>3, <2>1, <3>1 DEF ParentOf
    <3>2. CASE i # made + 1
      <4>1. Exists(i) /\ account[i].org \in present /\ ParentOf(account[i].org, account[i].parent)
        BY <1>2, <3>2 DEF ReferencesStayHome, AccountsHome, Exists
      <4>2. account[i].parent # Unset => account[i].parent \in AccountIds /\ account[i].parent # made + 1
        BY <1>1, <4>1 DEF ChartTypeOK, Account, NoAccount, ParentOf, Exists
      <4> QED
        BY <1>1, <1>2, <3>2, <4>1, <4>2 DEF ParentOf
    <3> QED
      BY <3>1, <3>2
  <2>3. ColumnsHome'
    <3> SUFFICES ASSUME NEW q \in Organizations, NEW col \in Columns, column[q][col] # Unset
                 PROVE  q \in present /\ account'[column[q][col]].org = q
      BY <1>1 DEF ColumnsHome
    <3>1. column[q][col] \in AccountIds
      BY DEF ChartTypeOK
    <3> QED
      BY <1>1, <1>2, <3>1, ChartAssumption DEF ReferencesStayHome, ColumnsHome, Exists
  <2>4. LinesHome'
    BY <1>1, <1>2, <1>6 DEF ReferencesStayHome, LinesHome, ChartTypeOK, Exists
  <2> QED
    BY <2>2, <2>3, <2>4 DEF ReferencesStayHome
<1>8. ParkedHomes'
  BY <1>1, <1>2, ParkedRests
<1> QED
  BY <1>1, <1>2, <1>3, <1>4, <1>5, <1>6, <1>7, <1>8

LEMMA ChartCreates ==
  ASSUME ChartIInv, NEW e \in Editors, NEW o \in Organizations,
         NEW p \in AccountIds \cup {Unset}, NEW code \in Codes, NEW type \in Types,
         NEW group \in BOOLEAN, CreateAccount(e, o, p, code, type, group)
  PROVE  ChartIInv'
<1> USE DEF ChartIInv
<1>1. /\ Insert(o, p, code, type, group) /\ o \in present /\ ParentOf(o, p)
      /\ UNCHANGED <<present, column, methods, drafted, posted, editing, startup>>
      /\ startup.phase = "serving"
  BY DEF CreateAccount, entryLines, Ready, Serving
<1>2. /\ account' \in [AccountIds -> Account \cup {NoAccount}]
      /\ made' \in 0..MaxAccounts /\ \A i \in AccountIds : i > made' => ~Exists(i)'
      /\ ReferencesStayHome' /\ ParkedHomes'
  BY <1>1, ChartInserts
<1>3. ChartTypeOK'
  BY <1>1, <1>2 DEF ChartTypeOK
<1>4. Seeding'
  BY <1>1, SeedingRests
<1> QED
  BY <1>2, <1>3, <1>4

\* Steps that change no table.
LEMMA ChartParks ==
  ASSUME ChartIInv, startup.phase = "serving",
         UNCHANGED <<account, made, present, column, methods, startup>>,
         drafted' \cup posted' \subseteq AccountIds,
         \A i \in drafted' \cup posted' : Exists(i),
         editing' \in [Editors -> {NoEdit} \cup Update \cup Defaults], ParkedHomes'
  PROVE  ChartIInv'
<1> USE DEF ChartIInv
<1>1. ChartTypeOK'
  BY DEF ChartTypeOK, Exists
<1>2. ReferencesStayHome'
  <2>1. AccountsHome'
    BY DEF ReferencesStayHome, AccountsHome, ParentOf, Exists
  <2>2. ColumnsHome'
    BY DEF ReferencesStayHome, ColumnsHome
  <2>3. LinesHome'
    BY DEF LinesHome, Exists
  <2> QED
    BY <2>1, <2>2, <2>3 DEF ReferencesStayHome
<1>3. Seeding'
  BY SeedingRests
<1> QED
  BY <1>1, <1>2, <1>3

LEMMA ChartChecksAccount ==
  ASSUME ChartIInv, NEW e \in Editors, NEW i \in AccountIds, NEW p \in AccountIds \cup {Unset},
         NEW code \in Codes, NEW type \in Types, NEW group \in BOOLEAN,
         UpdateAccountRead(e, i, p, code, type, group)
  PROVE  ChartIInv'
<1> USE DEF ChartIInv
<1> DEFINE u == [op |-> "account", id |-> i, parent |-> p, code |-> code, type |-> type,
                 group |-> group]
<1>1. /\ startup.phase = "serving" /\ editing' = [editing EXCEPT ![e] = u]
      /\ UNCHANGED <<account, made, present, column, methods, drafted, posted, startup>>
      /\ Exists(i) /\ ParentOf(account[i].org, p)
  BY DEF UpdateAccountRead, StartEdit, Ready, Serving, accountTables, entryLines, MayEdit
<1>2. u \in Update
  BY DEF Update
<1>3. editing' \in [Editors -> {NoEdit} \cup Update \cup Defaults]
  BY <1>1, <1>2 DEF ChartTypeOK
<1>4. ParkedHome(u)'
  <2>1. i <= made
    BY <1>1 DEF ChartTypeOK, AccountIds
  <2>2. p <= made /\ (p # Unset => account[p].org = account[i].org)
    BY <1>1 DEF ChartTypeOK, AccountIds, ParentOf, Exists, Unset
  <2> QED
    BY <1>1, <2>1, <2>2 DEF ParkedHome, Exists
<1> HIDE DEF u
<1>5. \A f \in Editors : editing'[f] = u \/ editing'[f] = editing[f]
  BY <1>1 DEF ChartTypeOK
<1>6. \A f \in Editors : ParkedHome(editing[f])'
  <2> SUFFICES ASSUME NEW f \in Editors PROVE ParkedHome(editing[f])'
    OBVIOUS
  <2>1. CASE editing'[f] = u
    BY <1>4, <2>1 DEF ParkedHome, Exists, u
  <2>2. CASE editing'[f] = editing[f]
    <3>1. ParkedHome(editing[f])
      BY DEF ParkedHomes
    <3> QED
      BY <1>1, <2>2, <3>1 DEF ParkedHome, Exists
  <2> QED
    BY <1>5, <2>1, <2>2
<1>7. ParkedHomes'
  BY <1>6 DEF ParkedHomes
<1>8. drafted' \cup posted' \subseteq AccountIds /\ \A j \in drafted' \cup posted' : Exists(j)
  BY <1>1 DEF ChartTypeOK, ReferencesStayHome, LinesHome
<1> QED
  BY <1>1, <1>3, <1>7, <1>8, ChartParks

LEMMA ChartChecksDefaults ==
  ASSUME ChartIInv, NEW e \in Editors, NEW o \in Organizations, NEW cols \in ColumnSets,
         NEW new \in [cols -> AccountIds \cup {Unset}], NEW mode \in Methods \cup {"keep"},
         UpdateOrganizationRead(e, o, new, mode)
  PROVE  ChartIInv'
<1> USE DEF ChartIInv
<1> DEFINE u == [op |-> "defaults", org |-> o, new |-> new, mode |-> mode]
<1>1. /\ startup.phase = "serving" /\ editing' = [editing EXCEPT ![e] = u]
      /\ UNCHANGED <<account, made, present, column, methods, drafted, posted, startup>>
      /\ \A col \in DOMAIN new : new[col] # Unset => account[new[col]].org = o
  BY DEF UpdateOrganizationRead, StartEdit, Ready, Serving, accountTables, entryLines, OwnAccount
<1>2. u \in Defaults
  BY DEF Defaults
<1>3. editing' \in [Editors -> {NoEdit} \cup Update \cup Defaults]
  BY <1>1, <1>2 DEF ChartTypeOK
<1>4. \A col \in DOMAIN new : new[col] # Unset => new[col] <= made /\ account[new[col]].org = o
  BY <1>1, ChartAssumption DEF ChartTypeOK, AccountIds, Exists
<1>5. ParkedHome(u)'
  BY <1>1, <1>4 DEF ParkedHome, Exists
<1> HIDE DEF u
<1>6. \A f \in Editors : editing'[f] = u \/ editing'[f] = editing[f]
  BY <1>1 DEF ChartTypeOK
<1>7. \A f \in Editors : ParkedHome(editing[f])'
  <2> SUFFICES ASSUME NEW f \in Editors PROVE ParkedHome(editing[f])'
    OBVIOUS
  <2>1. CASE editing'[f] = u
    BY <1>5, <2>1 DEF ParkedHome, Exists, u
  <2>2. CASE editing'[f] = editing[f]
    <3>1. ParkedHome(editing[f])
      BY DEF ParkedHomes
    <3> QED
      BY <1>1, <2>2, <3>1 DEF ParkedHome, Exists
  <2> QED
    BY <1>6, <2>1, <2>2
<1>8. ParkedHomes'
  BY <1>7 DEF ParkedHomes
<1>9. drafted' \cup posted' \subseteq AccountIds /\ \A j \in drafted' \cup posted' : Exists(j)
  BY <1>1 DEF ChartTypeOK, ReferencesStayHome, LinesHome
<1> QED
  BY <1>1, <1>3, <1>8, <1>9, ChartParks

\* A request that ends, or that only looks at entries.
LEMMA ChartEntries ==
  ASSUME ChartIInv, NEW e \in Editors,
         \/ \E i \in AccountIds :
              DraftLine(e, i) \/ DeleteDraft(e, i) \/ PostDraft(e, i) \/ PostLine(e, i)
         \/ FailEdit(e)
  PROVE  ChartIInv'
<1> USE DEF ChartIInv
<1>1. /\ startup.phase = "serving"
      /\ UNCHANGED <<account, made, present, column, methods, startup>>
      /\ editing' = editing \/ editing' = [editing EXCEPT ![e] = NoEdit]
  BY DEF DraftLine, DeleteDraft, PostDraft, PostLine, FailEdit, Ready, Serving, EndEdit,
         accountTables, entryLines
<1>2. drafted' \cup posted' \subseteq AccountIds /\ \A j \in drafted' \cup posted' : Exists(j)
  BY DEF DraftLine, DeleteDraft, PostDraft, PostLine, FailEdit, Postable, entryLines,
         ChartTypeOK, ReferencesStayHome, LinesHome
<1>3. editing' \in [Editors -> {NoEdit} \cup Update \cup Defaults]
      /\ \A f \in Editors : editing'[f] = editing[f] \/ editing'[f] = NoEdit
  BY <1>1 DEF ChartTypeOK
<1>4. made \in Nat
  BY ChartAssumption DEF ChartTypeOK
<1>5. ParkedHomes'
  BY <1>1, <1>3, <1>4, ParkedRests
<1> QED
  BY <1>1, <1>2, <1>3, <1>5, ChartParks

LEMMA ChartWritesAccount ==
  ASSUME ChartIInv, NEW e \in Editors, UpdateAccountWrite(e)
  PROVE  ChartIInv'
<1> USE DEF ChartIInv
<1> DEFINE u == editing[e]
           new == [org |-> account[u.id].org, parent |-> u.parent, code |-> u.code,
                   type |-> u.type, group |-> u.group]
<1>1. u \in Update
  BY DEF UpdateAccountWrite, ChartTypeOK, NoEdit, Defaults
<1>2. u.id \in AccountIds /\ u.parent \in AccountIds \cup {Unset} /\ u.op = "account"
  BY <1>1 DEF Update
<1>3. /\ Exists(u.id) /\ (u.parent # Unset => Exists(u.parent))
      /\ account' = [account EXCEPT ![u.id] = new]
      /\ editing' = [editing EXCEPT ![e] = NoEdit] /\ startup.phase = "serving"
      /\ UNCHANGED <<made, present, column, methods, drafted, posted, startup>>
  BY DEF UpdateAccountWrite, EndEdit, Serving, entryLines
<1>4. ParentOf(account[u.id].org, u.parent)
  <2>1. ParkedHome(u)
    BY DEF ParkedHomes
  <2> QED
    BY <1>2, <1>3, <2>1 DEF ParkedHome, ParentOf
<1>5. new \in Account /\ new.org = account[u.id].org /\ new.parent = u.parent
  <2>1. account[u.id] \in Account
    BY <1>2, <1>3 DEF ChartTypeOK, Exists, NoAccount
  <2> QED
    BY <1>1, <2>1 DEF Account, Update
<1> HIDE DEF u, new
<1>6. /\ \A i \in AccountIds : i # u.id => account'[i] = account[i]
      /\ account'[u.id] = new
  BY <1>2, <1>3 DEF ChartTypeOK
<1>7. \A i \in AccountIds : account'[i].org = account[i].org
  BY <1>5, <1>6
<1>8. ChartTypeOK'
  <2>1. account' \in [AccountIds -> Account \cup {NoAccount}]
    BY <1>2, <1>3, <1>5 DEF ChartTypeOK
  <2>2. editing' \in [Editors -> {NoEdit} \cup Update \cup Defaults]
    BY <1>3 DEF ChartTypeOK
  <2>3. \A i \in AccountIds : i > made' => ~Exists(i)'
    BY <1>3, <1>7 DEF ChartTypeOK, Exists
  <2> QED
    BY <1>3, <2>1, <2>2, <2>3 DEF ChartTypeOK
<1>9. ReferencesStayHome'
  <2>1. AccountsHome'
    <3> SUFFICES ASSUME NEW i \in AccountIds, Exists(i)'
                 PROVE  account'[i].org \in present' /\ ParentOf(account[i].org, account[i].parent)'
      BY DEF AccountsHome
    <3>1. Exists(i) /\ account[i].org \in present /\ ParentOf(account[i].org, account[i].parent)
      BY <1>7 DEF ReferencesStayHome, AccountsHome, Exists
    <3>2. CASE i = u.id
      BY <1>2, <1>3, <1>4, <1>5, <1>6, <1>7, <3>1, <3>2 DEF ParentOf
    <3>3. CASE i # u.id
      <4>1. account[i].parent # Unset => account[i].parent \in AccountIds
        BY <3>1 DEF ChartTypeOK, Account, NoAccount
      <4> QED
        BY <1>3, <1>6, <1>7, <3>1, <3>3, <4>1 DEF ParentOf
    <3> QED
      BY <3>2, <3>3
  <2>2. ColumnsHome'
    <3> SUFFICES ASSUME NEW q \in Organizations, NEW col \in Columns, column[q][col] # Unset
                 PROVE  q \in present /\ account'[column[q][col]].org = q
      BY <1>3 DEF ColumnsHome
    <3>1. column[q][col] \in AccountIds
      BY DEF ChartTypeOK
    <3> QED
      BY <1>7, <3>1 DEF ReferencesStayHome, ColumnsHome
  <2>3. LinesHome'
    BY <1>3, <1>7 DEF ReferencesStayHome, LinesHome, ChartTypeOK, Exists
  <2> QED
    BY <2>1, <2>2, <2>3 DEF ReferencesStayHome
<1>10. ParkedHomes'
  <2>1. made \in Nat
    BY ChartAssumption DEF ChartTypeOK
  <2>2. \A f \in Editors : editing'[f] = editing[f] \/ editing'[f] = NoEdit
    BY <1>3 DEF ChartTypeOK
  <2> QED
    BY <1>3, <1>7, <2>1, <2>2, ParkedRests
<1>11. Seeding'
  BY <1>3, SeedingRests
<1> QED
  BY <1>8, <1>9, <1>10, <1>11

LEMMA ChartWritesDefaults ==
  ASSUME ChartIInv, NEW e \in Editors, UpdateOrganizationWrite(e)
  PROVE  ChartIInv'
<1> USE DEF ChartIInv
<1> DEFINE u == editing[e]
           wires == Rewired(u.org, u.new)
<1>1. u \in Defaults
  BY DEF UpdateOrganizationWrite, ChartTypeOK, NoEdit, Update
<1>2. u.org \in Organizations /\ u.op = "defaults" /\ u.mode \in Methods \cup {"keep"}
      /\ \A col \in DOMAIN u.new : u.new[col] \in AccountIds \cup {Unset}
  BY <1>1 DEF Defaults
<1>3. /\ u.org \in present
      /\ \A col \in DOMAIN u.new : u.new[col] # Unset => Exists(u.new[col])
      /\ column' = [column EXCEPT ![u.org] = wires]
      /\ methods' = [methods EXCEPT ![u.org] = Switched(u.org, u.mode)]
      /\ editing' = [editing EXCEPT ![e] = NoEdit] /\ startup.phase = "serving"
      /\ UNCHANGED <<account, made, present, drafted, posted, startup>>
  BY DEF UpdateOrganizationWrite, EndEdit, Serving, entryLines
<1>4. \A col \in DOMAIN u.new : u.new[col] # Unset => account[u.new[col]].org = u.org
  <2>1. ParkedHome(u)
    BY DEF ParkedHomes
  <2> QED
    BY <1>2, <1>3, <2>1 DEF ParkedHome
<1>5. \A col \in Columns : /\ wires[col] \in AccountIds \cup {Unset}
                           /\ wires[col] # Unset => account[wires[col]].org = u.org
  <2> SUFFICES ASSUME NEW col \in Columns
               PROVE  /\ wires[col] \in AccountIds \cup {Unset}
                      /\ wires[col] # Unset => account[wires[col]].org = u.org
    OBVIOUS
  <2>1. CASE col \in DOMAIN u.new
    <3>1. wires[col] = u.new[col]
      BY <2>1 DEF Rewired
    <3> QED
      BY <1>2, <1>4, <2>1, <3>1
  <2>2. CASE col \notin DOMAIN u.new
    <3>1. wires[col] = column[u.org][col]
      BY <2>2 DEF Rewired
    <3>2. column[u.org][col] \in AccountIds \cup {Unset}
      BY <1>2 DEF ChartTypeOK
    <3> QED
      BY <1>2, <3>1, <3>2 DEF ReferencesStayHome, ColumnsHome
  <2> QED
    BY <2>1, <2>2
<1>6. wires \in [Columns -> AccountIds \cup {Unset}]
  BY <1>5 DEF Rewired
<1>7. Switched(u.org, u.mode) \in Methods
  BY <1>2 DEF Switched, Methods, ChartTypeOK
<1> HIDE DEF u, wires
<1>8. ChartTypeOK'
  <2>1. column' \in [Organizations -> [Columns -> AccountIds \cup {Unset}]]
    BY <1>2, <1>3, <1>6 DEF ChartTypeOK
  <2>2. methods' \in [Organizations -> Methods]
    BY <1>2, <1>3, <1>7 DEF ChartTypeOK
  <2>3. editing' \in [Editors -> {NoEdit} \cup Update \cup Defaults]
    BY <1>3 DEF ChartTypeOK
  <2> QED
    BY <1>3, <2>1, <2>2, <2>3 DEF ChartTypeOK, Exists
<1>9. ReferencesStayHome'
  <2>1. AccountsHome' /\ LinesHome'
    BY <1>3 DEF ReferencesStayHome, AccountsHome, LinesHome, ParentOf, Exists
  <2>2. ColumnsHome'
    <3> SUFFICES ASSUME NEW q \in Organizations, NEW col \in Columns, column'[q][col] # Unset
                 PROVE  q \in present /\ account[column'[q][col]].org = q
      BY <1>3 DEF ColumnsHome
    <3>1. CASE q = u.org
      BY <1>2, <1>3, <1>5, <3>1 DEF ChartTypeOK
    <3>2. CASE q # u.org
      BY <1>3, <3>2 DEF ChartTypeOK, ReferencesStayHome, ColumnsHome
    <3> QED
      BY <3>1, <3>2
  <2> QED
    BY <2>1, <2>2 DEF ReferencesStayHome
<1>10. ParkedHomes'
  <2>1. made \in Nat
    BY ChartAssumption DEF ChartTypeOK
  <2>2. \A f \in Editors : editing'[f] = editing[f] \/ editing'[f] = NoEdit
    BY <1>3 DEF ChartTypeOK
  <2> QED
    BY <1>3, <2>1, <2>2, ParkedRests
<1>11. Seeding'
  BY <1>3, SeedingRests
<1> QED
  BY <1>8, <1>9, <1>10, <1>11

\* Accounts go, and with them what referred to them.
Without(gone) == [i \in AccountIds |-> IF i \in gone THEN NoAccount ELSE account[i]]

LEMMA ChartRemoves ==
  ASSUME ChartIInv, NEW gone, account' = Without(gone),
         UNCHANGED <<made, editing, startup>>, startup.phase = "serving",
         present' \subseteq present, methods' \in [Organizations -> Methods],
         column' \in [Organizations -> [Columns -> AccountIds \cup {Unset}]],
         \A i \in AccountIds \ gone : Exists(i) =>
           account[i].org \in present' /\ account[i].parent \notin gone,
         \A o \in Organizations, col \in Columns : column'[o][col] # Unset =>
           column'[o][col] = column[o][col] /\ column[o][col] \notin gone /\ o \in present',
         drafted' \subseteq drafted \ gone, posted' \subseteq posted \ gone
  PROVE  ChartIInv'
<1> USE DEF ChartIInv
<1>1. \A i \in AccountIds : account'[i] = IF i \in gone THEN NoAccount ELSE account[i]
  BY DEF Without
<1>2. \A i \in AccountIds : Exists(i)' => i \notin gone /\ account'[i] = account[i] /\ Exists(i)
  BY <1>1 DEF Exists, NoAccount
<1>3. ChartTypeOK'
  <2>1. account' \in [AccountIds -> Account \cup {NoAccount}]
    BY DEF ChartTypeOK, Without
  <2>2. \A i \in AccountIds : i > made' => ~Exists(i)'
    BY <1>2 DEF ChartTypeOK
  <2>3. present' \subseteq Organizations /\ drafted' \subseteq AccountIds /\ posted' \subseteq AccountIds
    BY DEF ChartTypeOK
  <2> QED
    BY <2>1, <2>2, <2>3 DEF ChartTypeOK
<1>4. ReferencesStayHome'
  <2>1. AccountsHome'
    <3> SUFFICES ASSUME NEW i \in AccountIds, Exists(i)'
                 PROVE  account'[i].org \in present' /\ ParentOf(account[i].org, account[i].parent)'
      BY DEF AccountsHome
    <3>1. /\ account'[i] = account[i] /\ account[i].org \in present' /\ account[i].parent \notin gone
          /\ ParentOf(account[i].org, account[i].parent)
      BY <1>2 DEF ReferencesStayHome, AccountsHome
    <3>2. account[i].parent # Unset => account[i].parent \in AccountIds
      BY DEF ChartTypeOK, Account, NoAccount
    <3> QED
      BY <1>1, <3>1, <3>2 DEF ParentOf
  <2>2. ColumnsHome'
    <3> SUFFICES ASSUME NEW q \in Organizations, NEW col \in Columns, column'[q][col] # Unset
                 PROVE  q \in present' /\ account'[column'[q][col]].org = q
      BY DEF ColumnsHome
    <3>1. column'[q][col] \in AccountIds
      OBVIOUS
    <3>2. account[column'[q][col]].org = q /\ column'[q][col] \notin gone
      BY DEF ReferencesStayHome, ColumnsHome
    <3> QED
      BY <1>1, <3>1, <3>2
  <2>3. LinesHome'
    BY <1>1 DEF ReferencesStayHome, LinesHome, ChartTypeOK, Exists
  <2> QED
    BY <2>1, <2>2, <2>3 DEF ReferencesStayHome
<1>5. ParkedHomes'
  <2>1. made \in Nat
    BY ChartAssumption DEF ChartTypeOK
  <2>2. \A i \in AccountIds : account'[i].org \in {account[i].org, Nobody}
    BY <1>1 DEF NoAccount
  <2> QED
    BY <2>1, <2>2, ParkedRests
<1>6. Seeding'
  BY SeedingRests
<1> QED
  BY <1>3, <1>4, <1>5, <1>6

LEMMA ChartDeletes ==
  ASSUME ChartIInv, NEW e \in Editors, NEW i \in AccountIds, DeleteAccount(e, i)
  PROVE  ChartIInv'
<1> USE DEF ChartIInv
<1>1. /\ startup.phase = "serving" /\ Exists(i) /\ Children(i) = {} /\ ~InUse(i)
      /\ account' = [account EXCEPT ![i] = NoAccount]
      /\ UNCHANGED <<made, present, column, methods, drafted, posted, editing, startup>>
  BY DEF DeleteAccount, Ready, Serving, entryLines
<1>2. account' = Without({i})
  BY <1>1 DEF Without, ChartTypeOK
<1>3. \A j \in AccountIds \ {i} : Exists(j) => account[j].org \in present /\ account[j].parent \notin {i}
  BY <1>1 DEF ReferencesStayHome, AccountsHome, Children
<1>4. \A o \in Organizations, col \in Columns : column[o][col] # Unset =>
        column[o][col] \notin {i} /\ o \in present
  BY <1>1 DEF InUse, ReferencesStayHome, ColumnsHome
<1>5. drafted \subseteq drafted \ {i} /\ posted \subseteq posted \ {i}
  BY <1>1 DEF InUse
<1>6. /\ methods' \in [Organizations -> Methods]
      /\ column' \in [Organizations -> [Columns -> AccountIds \cup {Unset}]]
  BY <1>1 DEF ChartTypeOK
<1> QED
  BY <1>1, <1>2, <1>3, <1>4, <1>5, <1>6, ChartRemoves

\* What removing the accounts of o leaves of the rest.
LEMMA ChartEmpties ==
  ASSUME ChartIInv, NEW o \in Organizations
  PROVE  /\ Wiped(o) = Without(Accounts(o))
         /\ \A i \in AccountIds \ Accounts(o) : Exists(i) =>
              account[i].org \in present \ {o} /\ account[i].parent \notin Accounts(o)
         /\ \A q \in Organizations, col \in Columns : q # o /\ column[q][col] # Unset =>
              column[q][col] \notin Accounts(o) /\ q \in present
<1> USE DEF ChartIInv
<1>1. Wiped(o) = Without(Accounts(o))
  BY DEF Wiped, Without, Accounts
<1>2. ASSUME NEW i \in AccountIds, i \notin Accounts(o), Exists(i)
      PROVE  account[i].org \in present \ {o} /\ account[i].parent \notin Accounts(o)
  <2>1. account[i].org \in present /\ account[i].org # o /\ ParentOf(account[i].org, account[i].parent)
    BY <1>2 DEF ReferencesStayHome, AccountsHome, Accounts
  <2>2. Unset \notin AccountIds
    BY DEF Unset, AccountIds
  <2> QED
    BY <2>1, <2>2 DEF ParentOf, Accounts
<1>3. \A q \in Organizations, col \in Columns : q # o /\ column[q][col] # Unset =>
        column[q][col] \notin Accounts(o) /\ q \in present
  BY DEF ReferencesStayHome, ColumnsHome, Accounts
<1> QED
  BY <1>1, <1>2, <1>3

LEMMA ChartDropsOrganization ==
  ASSUME ChartIInv, NEW e \in Editors, NEW o \in Organizations, DeleteOrganization(e, o)
  PROVE  ChartIInv'
<1> USE DEF ChartIInv
<1>1. /\ startup.phase = "serving" /\ present' = present \ {o} /\ account' = Wiped(o)
      /\ column' = [column EXCEPT ![o] = Blank]
      /\ methods' = [methods EXCEPT ![o] = "cash_only"]
      /\ drafted' = drafted \ Accounts(o) /\ posted' = posted \ Accounts(o)
      /\ UNCHANGED <<made, editing, startup>>
  BY DEF DeleteOrganization, Ready, Serving, ForgetLines
<1>2. /\ methods' \in [Organizations -> Methods]
      /\ column' \in [Organizations -> [Columns -> AccountIds \cup {Unset}]]
  BY <1>1 DEF ChartTypeOK, Methods, Blank
<1>3. \A q \in Organizations, col \in Columns : column'[q][col] # Unset =>
        q # o /\ column'[q][col] = column[q][col]
  BY <1>1 DEF ChartTypeOK, Blank
<1>4. /\ account' = Without(Accounts(o))
      /\ \A i \in AccountIds \ Accounts(o) : Exists(i) =>
           account[i].org \in present' /\ account[i].parent \notin Accounts(o)
      /\ \A q \in Organizations, col \in Columns : column'[q][col] # Unset =>
           column'[q][col] = column[q][col] /\ column[q][col] \notin Accounts(o) /\ q \in present'
  BY <1>1, <1>3, ChartEmpties
<1> QED
  BY <1>1, <1>2, <1>4, ChartRemoves

LEMMA ChartResets ==
  ASSUME ChartIInv, NEW e \in Editors, NEW o \in Organizations, NEW master \in BOOLEAN,
         ResetOrganizationData(e, o, master)
  PROVE  ChartIInv'
<1> USE DEF ChartIInv
<1>1. /\ startup.phase = "serving" /\ UNCHANGED <<made, present, methods, editing, startup>>
      /\ drafted' = drafted \ Accounts(o) /\ posted' = posted \ Accounts(o)
      /\ IF master THEN account' = Wiped(o) /\ column' = [column EXCEPT ![o] = Blank]
         ELSE UNCHANGED <<account, column>>
  BY DEF ResetOrganizationData, Ready, Serving, ForgetLines
<1>2. CASE master
  <2>1. /\ methods' \in [Organizations -> Methods]
        /\ column' \in [Organizations -> [Columns -> AccountIds \cup {Unset}]]
    BY <1>1, <1>2 DEF ChartTypeOK, Blank
  <2>2. \A q \in Organizations, col \in Columns : column'[q][col] # Unset =>
          q # o /\ column'[q][col] = column[q][col]
    BY <1>1, <1>2 DEF ChartTypeOK, Blank
  <2>3. /\ account' = Without(Accounts(o))
        /\ \A i \in AccountIds \ Accounts(o) : Exists(i) =>
             account[i].org \in present' /\ account[i].parent \notin Accounts(o)
        /\ \A q \in Organizations, col \in Columns : column'[q][col] # Unset =>
             column'[q][col] = column[q][col] /\ column[q][col] \notin Accounts(o) /\ q \in present'
    BY <1>1, <1>2, <2>2, ChartEmpties
  <2> QED
    BY <1>1, <2>1, <2>3, ChartRemoves
<1>3. CASE ~master
  <2>1. ParkedHomes'
    BY <1>1, <1>3 DEF ParkedHomes, ParkedHome, Exists
  <2>2. drafted' \cup posted' \subseteq AccountIds /\ \A j \in drafted' \cup posted' : Exists(j)
    BY <1>1 DEF ChartTypeOK, ReferencesStayHome, LinesHome
  <2>3. editing' \in [Editors -> {NoEdit} \cup Update \cup Defaults]
    BY <1>1 DEF ChartTypeOK
  <2> QED
    BY <1>1, <1>3, <2>1, <2>2, <2>3, ChartParks
<1> QED
  BY <1>2, <1>3

LEMMA TemplateRows ==
  /\ Len(Template) \in Nat /\ DOMAIN Template = 1..Len(Template)
  /\ \A k \in 1..Len(Template) :
       /\ Template[k].code \in Codes /\ Template[k].type \in Types
       /\ Template[k].group \in BOOLEAN
       /\ Template[k].parent \in Nat /\ Template[k].parent < k
       /\ Template[k].column \in ChartColumns \cup {Nobody}
<1>1. Template \in Seq(Row)
  BY ChartAssumption
<1>2. Len(Template) \in Nat /\ DOMAIN Template = 1..Len(Template)
  BY <1>1
<1>3. ASSUME NEW k \in 1..Len(Template) PROVE Template[k] \in Row
  BY <1>1, <1>3
<1> QED
  BY <1>2, <1>3, ChartAssumption DEF Row

LEMMA ChartFounds ==
  ASSUME ChartIInv, NEW e \in Editors, NEW o \in Organizations, NEW mode \in Methods,
         CreateOrganization(e, o, mode)
  PROVE  ChartIInv'
<1> USE DEF ChartIInv
<1> DEFINE n == Len(Template)
           wires == [col \in Columns |-> IF col \in ChartColumns THEN ChartDefault(col, made)
                                         ELSE Unset]
<1>1. /\ startup.phase = "serving" /\ o \notin present /\ made + n <= MaxAccounts
      /\ present' = present \cup {o} /\ account' = Charted(o, made) /\ made' = made + n
      /\ column' = [column EXCEPT ![o] = wires]
      /\ methods' = [methods EXCEPT ![o] = mode]
      /\ UNCHANGED <<drafted, posted, editing, startup>>
  BY DEF CreateOrganization, Ready, Serving, entryLines
<1>2. n \in Nat /\ made \in Nat /\ MaxAccounts \in Nat /\ made' \in Nat /\ made <= made'
  BY <1>1, TemplateRows, ChartAssumption DEF ChartTypeOK
<1> HIDE DEF n, wires
<1>3. ASSUME NEW i \in AccountIds, i \in (made + 1)..(made + n)
      PROVE  /\ account'[i] \in Account /\ account'[i].org = o
             /\ account'[i].parent # Unset =>
                  account'[i].parent \in AccountIds /\ account'[i].parent \in (made + 1)..(made + n)
  <2> DEFINE r == Template[i - made]
  <2>1. i - made \in 1..n /\ i \in Int
    BY <1>2, <1>3
  <2>2. /\ r.code \in Codes /\ r.type \in Types /\ r.group \in BOOLEAN
        /\ r.parent \in Nat /\ r.parent < i - made
    BY <2>1, TemplateRows DEF n
  <2> HIDE DEF r
  <2>3. account'[i] = [org |-> o, parent |-> IF r.parent = 0 THEN Unset ELSE made + r.parent,
                       code |-> r.code, type |-> r.type, group |-> r.group]
    BY <1>1, <1>3 DEF Charted, n, r
  <2>4. r.parent # 0 => made + r.parent \in AccountIds /\ made + r.parent \in (made + 1)..(made + n)
    BY <1>1, <1>2, <2>1, <2>2 DEF AccountIds
  <2> QED
    BY <2>2, <2>3, <2>4 DEF Account
<1>4. ASSUME NEW i \in AccountIds, i \notin (made + 1)..(made + n)
      PROVE  account'[i] = account[i]
  BY <1>1, <1>4 DEF Charted, n
<1>5. \A i \in AccountIds : Exists(i) => i \notin (made + 1)..(made + n)
  BY <1>2 DEF ChartTypeOK, AccountIds
<1>6. ASSUME NEW col \in Columns
      PROVE  /\ wires[col] \in AccountIds \cup {Unset}
             /\ wires[col] # Unset => account'[wires[col]].org = o
  <2>1. CASE col \in ChartColumns /\ \E k \in DOMAIN Template : Template[k].column = col
    <3>1. PICK k \in DOMAIN Template : k = CHOOSE j \in DOMAIN Template : Template[j].column = col
      BY <2>1
    <3>2. wires[col] = made + k
      BY <2>1, <3>1 DEF wires, ChartDefault
    <3>3. k \in 1..n
      BY <3>1, TemplateRows DEF n
    <3>4. made + k \in AccountIds /\ made + k \in (made + 1)..(made + n)
      BY <1>1, <1>2, <3>3 DEF AccountIds
    <3> QED
      BY <1>3, <3>2, <3>4
  <2>2. CASE ~(col \in ChartColumns /\ \E k \in DOMAIN Template : Template[k].column = col)
    BY <2>2 DEF wires, ChartDefault
  <2> QED
    BY <2>1, <2>2
<1>7. wires \in [Columns -> AccountIds \cup {Unset}]
  BY <1>6 DEF wires
<1>8. ChartTypeOK'
  <2>1. account' \in [AccountIds -> Account \cup {NoAccount}]
    <3>1. \A i \in AccountIds : account'[i] \in Account \cup {NoAccount}
      BY <1>3, <1>4 DEF ChartTypeOK
    <3>2. account' = [i \in AccountIds |-> account'[i]]
      BY <1>1 DEF Charted
    <3> QED
      BY <3>1, <3>2
  <2>2. made' \in 0..MaxAccounts /\ \A i \in AccountIds : i > made' => ~Exists(i)'
    <3>1. \A i \in AccountIds : i > made' => i > made /\ i \notin (made + 1)..(made + n)
      BY <1>1, <1>2 DEF AccountIds
    <3> QED
      BY <1>1, <1>2, <1>4, <3>1 DEF ChartTypeOK, Exists
  <2>3. column' \in [Organizations -> [Columns -> AccountIds \cup {Unset}]]
    BY <1>1, <1>7 DEF ChartTypeOK
  <2>4. methods' \in [Organizations -> Methods] /\ present' \subseteq Organizations
    BY <1>1 DEF ChartTypeOK, Methods
  <2> QED
    BY <1>1, <2>1, <2>2, <2>3, <2>4 DEF ChartTypeOK
<1>9. ReferencesStayHome'
  <2>1. AccountsHome'
    <3> SUFFICES ASSUME NEW i \in AccountIds, Exists(i)'
                 PROVE  account'[i].org \in present' /\ ParentOf(account[i].org, account[i].parent)'
      BY DEF AccountsHome
    <3>1. CASE i \in (made + 1)..(made + n)
      BY <1>1, <1>3, <3>1 DEF ParentOf
    <3>2. CASE i \notin (made + 1)..(made + n)
      <4>1. Exists(i) /\ account[i].org \in present /\ ParentOf(account[i].org, account[i].parent)
        BY <1>4, <3>2 DEF ReferencesStayHome, AccountsHome, Exists
      <4>2. account[i].parent # Unset => /\ account[i].parent \in AccountIds
                                         /\ account[i].parent \notin (made + 1)..(made + n)
        BY <1>5, <4>1, ChartAssumption DEF ChartTypeOK, Account, NoAccount, ParentOf, Exists
      <4> QED
        BY <1>1, <1>4, <3>2, <4>1, <4>2 DEF ParentOf
    <3> QED
      BY <3>1, <3>2
  <2>2. ColumnsHome'
    <3> SUFFICES ASSUME NEW q \in Organizations, NEW col \in Columns, column'[q][col] # Unset
                 PROVE  q \in present' /\ account'[column'[q][col]].org = q
      BY DEF ColumnsHome
    <3>1. CASE q = o
      BY <1>1, <1>6, <3>1 DEF ChartTypeOK
    <3>2. CASE q # o
      <4>1. column'[q][col] = column[q][col] /\ column[q][col] \in AccountIds
        BY <1>1, <3>2 DEF ChartTypeOK
      <4>2. q \in present /\ account[column[q][col]].org = q
        BY <4>1 DEF ReferencesStayHome, ColumnsHome
      <4>3. Exists(column[q][col])
        BY <4>2, ChartAssumption DEF Exists
      <4> QED
        BY <1>1, <1>4, <1>5, <4>1, <4>2, <4>3
    <3> QED
      BY <3>1, <3>2
  <2>3. LinesHome'
    BY <1>1, <1>4, <1>5 DEF ReferencesStayHome, LinesHome, ChartTypeOK, Exists
  <2> QED
    BY <2>1, <2>2, <2>3 DEF ReferencesStayHome
<1>10. ParkedHomes'
  <2>1. \A i \in AccountIds : i <= made => account'[i].org = account[i].org
    BY <1>2, <1>4 DEF AccountIds
  <2> QED
    BY <1>1, <1>2, <2>1, ParkedRests
<1>11. Seeding'
  BY <1>1, SeedingRests
<1> QED
  BY <1>8, <1>9, <1>10, <1>11

-----------------------------------------------------------------------------
(* Steps of a start.                                                       *)

\* What a start leaves alone when it does not insert or wire.
LEMMA StartRests ==
  ASSUME ChartIInv, UNCHANGED <<account, made, present, column, methods, drafted, posted>>,
         \A e \in Editors : editing'[e] = editing[e] \/ editing'[e] = NoEdit
  PROVE  ReferencesStayHome' /\ ParkedHomes'
<1> USE DEF ChartIInv
<1>1. ReferencesStayHome'
  BY DEF ReferencesStayHome, AccountsHome, ColumnsHome, LinesHome, ParentOf, Exists
<1>2. made \in Nat
  BY ChartAssumption DEF ChartTypeOK
<1>3. ParkedHomes'
  BY <1>2, ParkedRests
<1> QED
  BY <1>1, <1>3

LEMMA PassTyped ==
  ASSUME NEW pass \in 0..Len(Backfills)
  PROVE  /\ PassRows(pass) \in Seq(Row) /\ Len(PassRows(pass)) \in Nat
         /\ DOMAIN PassRows(pass) = 1..Len(PassRows(pass))
<1>1. CASE pass = 0
  BY <1>1, ChartAssumption DEF PassRows
<1>2. CASE pass # 0
  <2>1. Backfills \in Seq(Seq(Row)) /\ pass \in 1..Len(Backfills)
    BY <1>2, ChartAssumption
  <2>2. Backfills[pass] \in Seq(Row)
    BY <2>1
  <2> QED
    BY <1>2, <2>2 DEF PassRows
<1> QED
  BY <1>1, <1>2

StartState ==
  [phase : {"stopped", "seeding", "serving"}, pass : 0..Len(Backfills),
   todo : SUBSET Organizations, org : Organizations \cup {Nobody},
   at : Nat \ {0}, wired : [Columns -> AccountIds \cup {Unset}]]

LEMMA StartTyped ==
  ASSUME ChartTypeOK, UNCHANGED <<account, made, present, column, methods, drafted, posted>>,
         editing' \in [Editors -> {NoEdit} \cup Update \cup Defaults], startup' \in StartState
  PROVE  ChartTypeOK'
BY DEF ChartTypeOK, StartState, Exists

LEMMA ChartBegins ==
  ASSUME ChartIInv, Begin
  PROVE  ChartIInv'
<1> USE DEF ChartIInv
<1>1. /\ startup.phase = "stopped"
      /\ startup' = [startup EXCEPT !.phase = "seeding", !.todo = present]
      /\ UNCHANGED <<account, made, present, column, methods, drafted, posted, editing>>
  BY DEF Begin, accountTables, entryLines
<1>2. ReferencesStayHome' /\ ParkedHomes'
  BY <1>1, StartRests
<1>3. ChartTypeOK'
  BY <1>1 DEF ChartTypeOK, Exists
<1>4. Seeding'
  <2>1. startup.org = Nobody /\ startup.pass = 0 /\ \A e \in Editors : editing[e] = NoEdit
    BY <1>1 DEF Seeding
  <2>2. startup'.org = Nobody /\ startup'.phase = "seeding" /\ startup'.todo = present
    BY <1>1, <2>1 DEF ChartTypeOK
  <2> QED
    BY <1>1, <2>1, <2>2 DEF Seeding, ChartUnderWay
<1> QED
  BY <1>2, <1>3, <1>4

LEMMA ChartTakesUp ==
  ASSUME ChartIInv, NEW o \in Organizations, SeedNext(o)
  PROVE  ChartIInv'
<1> USE DEF ChartIInv
<1>1. /\ startup.phase = "seeding" /\ startup.org = Nobody /\ o \in startup.todo
      /\ startup' = IF Due(o, startup.pass)
                    THEN [startup EXCEPT !.org = o, !.at = 1, !.wired = Blank]
                    ELSE [startup EXCEPT !.todo = @ \ {o}]
      /\ UNCHANGED <<account, made, present, column, methods, drafted, posted, editing>>
  BY DEF SeedNext, accountTables, entryLines
<1>2. ReferencesStayHome' /\ ParkedHomes'
  BY <1>1, StartRests
<1>3. o \in present /\ \A e \in Editors : editing[e] = NoEdit
  BY <1>1 DEF Seeding
<1>4. CASE Due(o, startup.pass)
  <2>1. startup' = [startup EXCEPT !.org = o, !.at = 1, !.wired = Blank]
    BY <1>1, <1>4
  <2>2. /\ startup'.phase = "seeding" /\ startup'.org = o /\ startup'.at = 1
        /\ startup'.todo = startup.todo /\ startup'.pass = startup.pass /\ startup'.wired = Blank
    BY <1>1, <2>1 DEF ChartTypeOK
  <2>3. ChartTypeOK'
    <3>1. Blank \in [Columns -> AccountIds \cup {Unset}] /\ 1 \in Nat \ {0}
      BY DEF Blank
    <3>2. startup' \in StartState
      BY <2>1, <3>1 DEF ChartTypeOK, StartState
    <3> QED
      BY <1>1, <3>2, StartTyped DEF ChartTypeOK
  <2>4. startup.pass = 0 => column[o] = Blank /\ \A i \in AccountIds : account[i].org # o
    <3> SUFFICES ASSUME startup.pass = 0
                 PROVE  column[o] = Blank /\ \A i \in AccountIds : account[i].org # o
      OBVIOUS
    <3>1. Accounts(o) = {}
      BY <1>4 DEF Due
    <3>2. \A i \in AccountIds : account[i].org # o
      BY <3>1 DEF Accounts
    <3>3. \A col \in Columns : column[o][col] = Unset
      BY <3>2 DEF ReferencesStayHome, ColumnsHome, ChartTypeOK
    <3>4. column[o] \in [Columns -> AccountIds \cup {Unset}]
      BY DEF ChartTypeOK
    <3>5. column[o] = Blank
      BY <3>3, <3>4 DEF Blank
    <3> QED
      BY <3>2, <3>5
  <2>5. made \in Nat /\ made - 0 = made /\ \A i \in AccountIds : ~(i > made /\ i <= made)
    BY ChartAssumption DEF ChartTypeOK, AccountIds
  <2>6. ChartUnderWay'
    BY <1>1, <2>2, <2>4, <2>5 DEF ChartUnderWay
  <2>7. 1 <= Len(PassRows(startup.pass)) + 1
    BY PassTyped DEF ChartTypeOK
  <2>8. Seeding'
    BY <1>1, <1>3, <2>2, <2>6, <2>7 DEF Seeding, Blank
  <2> QED
    BY <1>2, <2>3, <2>8
<1>5. CASE ~Due(o, startup.pass)
  <2>1. startup' = [startup EXCEPT !.todo = @ \ {o}]
    BY <1>1, <1>5
  <2>2. startup'.phase = "seeding" /\ startup'.org = Nobody /\ startup'.todo = startup.todo \ {o}
    BY <1>1, <2>1 DEF ChartTypeOK
  <2>3. ChartTypeOK'
    BY <1>1, <2>1 DEF ChartTypeOK, Exists
  <2>4. Seeding'
    BY <1>1, <1>3, <2>2 DEF Seeding, ChartUnderWay
  <2> QED
    BY <1>2, <2>3, <2>4
<1> QED
  BY <1>4, <1>5

\* A chart under way has no code twice, so no row of it is skipped.
LEMMA NoRowSkipped ==
  ASSUME ChartIInv, startup.pass = 0, startup.org # Nobody,
         startup.at \in DOMAIN Template
  PROVE  ~Taken(startup.org, Template[startup.at].code, Unset)
<1> USE DEF ChartIInv
<1> DEFINE n == startup.at - 1
<1> SUFFICES ASSUME Taken(startup.org, Template[startup.at].code, Unset) PROVE FALSE
  OBVIOUS
<1>1. PICK i \in AccountIds : account[i].org = startup.org
                              /\ account[i].code = Template[startup.at].code
  BY DEF Taken, Accounts
<1>2. /\ n <= made /\ i > made - n /\ i <= made
      /\ \A k \in 1..n : account[made - n + k].code = Template[k].code
  BY <1>1 DEF Seeding, ChartUnderWay
<1>3. startup.at \in 1..Len(Template) /\ Len(Template) \in Nat /\ made \in Nat /\ i \in Nat
  BY TemplateRows, ChartAssumption DEF ChartTypeOK, AccountIds
<1>6. n \in Int /\ n < startup.at /\ n < Len(Template)
  BY <1>3
<1> HIDE DEF n
<1> DEFINE j == i - made + n
<1>7. i > made - n /\ i <= made
  BY <1>2
<1>4. j \in 1..n /\ made - n + j = i /\ j \in 1..Len(Template) /\ j # startup.at
  BY ONLY <1>3, <1>6, <1>7
<1> HIDE DEF j
<1>5. Template[j].code = Template[startup.at].code
  BY <1>1, <1>2, <1>4
<1> QED
  BY <1>3, <1>4, <1>5, TemplateRows, ChartAssumption

LEMMA ChartSeeds ==
  ASSUME ChartIInv, SeedRow
  PROVE  ChartIInv'
<1> USE DEF ChartIInv
<1> DEFINE o == startup.org
           r == PassRows(startup.pass)[startup.at]
<1>1. /\ startup.phase = "seeding" /\ o # Nobody
      /\ startup.at \in DOMAIN PassRows(startup.pass)
      /\ \/ /\ ~Taken(o, r.code, Unset)
            /\ \E p \in Parents(o, r) : Insert(o, p, r.code, r.type, r.group)
            /\ startup' = [startup EXCEPT !.at = @ + 1,
                             !.wired = IF r.column = Nobody THEN @
                                       ELSE [@ EXCEPT ![r.column] = made + 1]]
         \/ /\ Taken(o, r.code, Unset)
            /\ startup' = [startup EXCEPT !.at = @ + 1]
            /\ UNCHANGED <<account, made>>
      /\ UNCHANGED <<present, column, methods, drafted, posted, editing>>
  BY DEF SeedRow, entryLines
<1>2. o \in Organizations /\ o \in startup.todo /\ o \in present /\ \A e \in Editors : editing[e] = NoEdit
  BY <1>1 DEF Seeding, ChartTypeOK
<1>3. startup.pass \in 0..Len(Backfills) /\ startup.at \in Nat /\ startup.at >= 1
  BY DEF ChartTypeOK
<1>4. startup.at \in 1..Len(PassRows(startup.pass)) /\ Len(PassRows(startup.pass)) \in Nat
      /\ r \in Row
  <2>1. PassRows(startup.pass) \in Seq(Row) /\ Len(PassRows(startup.pass)) \in Nat
        /\ DOMAIN PassRows(startup.pass) = 1..Len(PassRows(startup.pass))
    BY <1>3, PassTyped
  <2> QED
    BY <1>1, <2>1
<1>5. startup.pass = 0 => /\ r = Template[startup.at] /\ startup.at \in 1..Len(Template)
                          /\ r.parent \in Nat /\ r.parent < startup.at
  BY <1>4, TemplateRows DEF PassRows
<1>6. startup.pass = 0 => ~Taken(o, r.code, Unset)
  BY <1>1, <1>5, NoRowSkipped, TemplateRows
<1> HIDE DEF r
<1>7. CASE Taken(o, r.code, Unset)
  <2>1. /\ startup' = [startup EXCEPT !.at = @ + 1] /\ UNCHANGED <<account, made>>
        /\ startup.pass # 0
    BY <1>1, <1>6, <1>7
  <2>2. /\ startup'.phase = "seeding" /\ startup'.org = o /\ startup'.at = startup.at + 1
        /\ startup'.todo = startup.todo /\ startup'.pass = startup.pass
        /\ startup'.wired = startup.wired
    BY <1>1, <2>1 DEF ChartTypeOK
  <2>3. ReferencesStayHome' /\ ParkedHomes'
    BY <1>1, <2>1, StartRests
  <2>4. ChartTypeOK'
    BY <1>1, <1>3, <2>1 DEF ChartTypeOK, Exists
  <2>5. Seeding'
    BY <1>1, <1>2, <1>3, <1>4, <2>1, <2>2 DEF Seeding, ChartUnderWay
  <2> QED
    BY <2>3, <2>4, <2>5
<1>8. CASE ~Taken(o, r.code, Unset)
  <2>1. PICK p \in Parents(o, r) : Insert(o, p, r.code, r.type, r.group)
    BY <1>1, <1>8
  <2>2. startup' = [startup EXCEPT !.at = @ + 1,
                      !.wired = IF r.column = Nobody THEN @
                                ELSE [@ EXCEPT ![r.column] = made + 1]]
    BY <1>1, <1>8
  <2>3. p \in AccountIds \cup {Unset} /\ ParentOf(o, p)
    <3>1. CASE startup.pass = 0 /\ r.parent = 0
      BY <2>1, <3>1 DEF Parents, ParentOf
    <3>2. CASE startup.pass = 0 /\ r.parent # 0
      <4>1. p = made - (startup.at - 1) + r.parent
        BY <2>1, <3>2 DEF Parents
      <4>2. /\ startup.at - 1 <= made
            /\ \A i \in AccountIds : account[i].org = o <=>
                                       i > made - (startup.at - 1) /\ i <= made
        BY <1>1, <3>2 DEF Seeding, ChartUnderWay
      <4>3. made \in 0..MaxAccounts /\ MaxAccounts \in Nat
        BY ChartAssumption DEF ChartTypeOK
      <4>4. p \in AccountIds /\ p > made - (startup.at - 1) /\ p <= made
        BY <1>3, <1>5, <3>2, <4>1, <4>2, <4>3 DEF AccountIds
      <4> QED
        BY <4>2, <4>4 DEF ParentOf
    <3>3. CASE startup.pass # 0
      BY <2>1, <3>3 DEF Parents, ParentOf, Accounts
    <3> QED
      BY <3>1, <3>2, <3>3
  <2>4. r.code \in Codes /\ r.type \in Types /\ r.group \in BOOLEAN /\ r.column \in Columns \cup {Nobody}
    BY <1>4 DEF Row
  <2>5. /\ made \in Nat /\ made' = made + 1 /\ made + 1 \in AccountIds
        /\ account' \in [AccountIds -> Account \cup {NoAccount}]
        /\ made' \in 0..MaxAccounts /\ \A i \in AccountIds : i > made' => ~Exists(i)'
        /\ account'[made + 1] = [org |-> o, parent |-> p, code |-> r.code, type |-> r.type,
                                 group |-> r.group]
        /\ \A i \in AccountIds : i # made + 1 => account'[i] = account[i]
        /\ \A i \in AccountIds : Exists(i) => i # made + 1
        /\ ReferencesStayHome' /\ ParkedHomes'
    BY <1>1, <1>2, <2>1, <2>3, <2>4, ChartInserts
  <2>6. /\ startup'.phase = "seeding" /\ startup'.org = o /\ startup'.at = startup.at + 1
        /\ startup'.todo = startup.todo /\ startup'.pass = startup.pass
        /\ startup'.wired \in [Columns -> AccountIds \cup {Unset}]
        /\ \A col \in Columns : startup'.wired[col] \in {startup.wired[col], made + 1}
    BY <1>1, <2>2, <2>4, <2>5 DEF ChartTypeOK
  <2>7. ChartTypeOK'
    <3> DEFINE w == IF r.column = Nobody THEN startup.wired
                    ELSE [startup.wired EXCEPT ![r.column] = made + 1]
    <3>1. w \in [Columns -> AccountIds \cup {Unset}]
      BY <2>5 DEF ChartTypeOK
    <3>2. startup' = [startup EXCEPT !.at = startup.at + 1, !.wired = w]
      BY <2>2
    <3>3. startup.at + 1 \in Nat \ {0}
      BY <1>3
    <3> HIDE DEF w
    <3>4. startup' \in StartState
      BY <3>1, <3>2, <3>3 DEF ChartTypeOK, StartState
    <3> QED
      BY <1>1, <2>5, <3>4 DEF ChartTypeOK, StartState
  <2>8. ASSUME NEW col \in Columns, startup'.wired[col] # Unset
        PROVE  account'[startup'.wired[col]].org = o
    <3>1. CASE startup'.wired[col] = made + 1
      BY <2>5, <3>1
    <3>2. CASE startup'.wired[col] = startup.wired[col]
      <4>1. startup.wired[col] \in AccountIds
        BY <2>8, <3>2 DEF ChartTypeOK
      <4>2. account[startup.wired[col]].org = o
        BY <1>1, <2>8, <3>2 DEF Seeding
      <4>3. Exists(startup.wired[col])
        BY <1>1, <4>2 DEF Exists
      <4> QED
        BY <2>5, <3>2, <4>1, <4>2, <4>3
    <3> QED
      BY <2>6, <3>1, <3>2
  <2>9. ChartUnderWay'
    <3> SUFFICES ASSUME startup.pass = 0 PROVE ChartUnderWay'
      BY <2>6 DEF ChartUnderWay
    <3> DEFINE n == startup.at - 1
    <3>1. /\ n <= made
          /\ \A i \in AccountIds : account[i].org = o <=> i > made - n /\ i <= made
          /\ \A k \in 1..n : account[made - n + k].code = Template[k].code
          /\ column[o] = Blank
      BY <1>1 DEF Seeding, ChartUnderWay
    <3>2. n \in Nat /\ startup'.at - 1 = n + 1 /\ made' - (n + 1) = made - n /\ n + 1 = startup.at
      BY <1>3, <2>5, <2>6
    <3> HIDE DEF n
    <3>3. \A i \in AccountIds : account'[i].org = o <=> i > made - n /\ i <= made'
      <4> SUFFICES ASSUME NEW i \in AccountIds
                   PROVE  account'[i].org = o <=> i > made - n /\ i <= made'
        OBVIOUS
      <4>1. i \in Int
        BY DEF AccountIds
      <4>2. CASE i = made + 1
        BY <2>5, <3>1, <3>2, <4>2
      <4>3. CASE i # made + 1
        BY <2>5, <3>1, <4>1, <4>3
      <4> QED
        BY <4>2, <4>3
    <3>4. ASSUME NEW k \in 1..(n + 1)
          PROVE  account'[made - n + k].code = Template[k].code
      <4>1. CASE k = n + 1
        <5>1. made - n + k = made + 1
          BY <2>5, <3>2, <4>1
        <5> QED
          BY <1>5, <2>5, <3>2, <4>1, <5>1
      <4>2. CASE k \in 1..n
        <5>1. made - n + k \in AccountIds /\ made - n + k # made + 1
          <6>1. made \in 0..MaxAccounts /\ MaxAccounts \in Nat
            BY ChartAssumption DEF ChartTypeOK
          <6> QED
            BY <3>1, <3>2, <4>2, <6>1 DEF AccountIds
        <5> QED
          BY <2>5, <3>1, <4>2, <5>1
      <4> QED
        BY <3>2, <4>1, <4>2
    <3> QED
      BY <1>1, <2>5, <2>6, <3>1, <3>2, <3>3, <3>4 DEF ChartUnderWay
  <2>10. Seeding'
    BY <1>1, <1>2, <1>3, <1>4, <2>6, <2>8, <2>9 DEF Seeding
  <2> QED
    BY <2>5, <2>7, <2>10
<1> QED
  BY <1>7, <1>8

\* The defaults of a chart are its own accounts.
LEMMA ChartWires ==
  ASSUME ChartIInv, SeedWire
  PROVE  ChartIInv'
<1> USE DEF ChartIInv
<1> DEFINE o == startup.org
<1>1. /\ startup.phase = "seeding" /\ o # Nobody
      /\ column' = [column EXCEPT ![o] = Wired(o)]
      /\ startup' = [startup EXCEPT !.org = Nobody, !.todo = @ \ {o}]
      /\ UNCHANGED <<account, made, present, methods, drafted, posted, editing>>
  BY DEF SeedWire, entryLines
<1>2. /\ o \in Organizations /\ o \in startup.todo /\ o \in present
      /\ \A e \in Editors : editing[e] = NoEdit
  BY <1>1 DEF Seeding, ChartTypeOK
<1> HIDE DEF o
<1>3. /\ Wired(o) \in [Columns -> AccountIds \cup {Unset}]
      /\ \A col \in Columns : Wired(o)[col] \in {startup.wired[col], column[o][col]}
  BY <1>2 DEF Wired, ChartTypeOK
<1>4. /\ column'[o] = Wired(o)
      /\ \A q \in Organizations : q # o => column'[q] = column[q]
      /\ column' \in [Organizations -> [Columns -> AccountIds \cup {Unset}]]
  BY <1>1, <1>2, <1>3 DEF ChartTypeOK
<1>5. ReferencesStayHome'
  <2>1. AccountsHome' /\ LinesHome'
    BY <1>1 DEF ReferencesStayHome, AccountsHome, LinesHome, ParentOf, Exists
  <2>2. ColumnsHome'
    <3> SUFFICES ASSUME NEW q \in Organizations, NEW col \in Columns, column'[q][col] # Unset
                 PROVE  q \in present /\ account[column'[q][col]].org = q
      BY <1>1 DEF ColumnsHome
    <3>1. CASE q # o
      BY <1>4, <3>1 DEF ReferencesStayHome, ColumnsHome
    <3>2. CASE q = o
      <4>1. CASE column'[q][col] = column[o][col]
        BY <1>2, <3>2, <4>1 DEF ReferencesStayHome, ColumnsHome
      <4>2. CASE column'[q][col] = startup.wired[col]
        BY <1>1, <1>2, <3>2, <4>2 DEF Seeding, o
      <4> QED
        BY <1>3, <1>4, <3>2, <4>1, <4>2
    <3> QED
      BY <3>1, <3>2
  <2> QED
    BY <2>1, <2>2 DEF ReferencesStayHome
<1>6. ParkedHomes'
  BY <1>1, <1>2 DEF ParkedHomes, ParkedHome, NoEdit
<1>7. /\ startup'.phase = "seeding" /\ startup'.org = Nobody
      /\ startup'.todo = startup.todo \ {o} /\ startup' \in StartState
  BY <1>1 DEF ChartTypeOK, StartState
<1>8. ChartTypeOK'
  BY <1>1, <1>4, <1>7 DEF ChartTypeOK, StartState, Exists
<1>9. Seeding'
  BY <1>1, <1>2, <1>7 DEF Seeding, ChartUnderWay
<1> QED
  BY <1>5, <1>6, <1>8, <1>9

LEMMA ChartPasses ==
  ASSUME ChartIInv, NextPass
  PROVE  ChartIInv'
<1> USE DEF ChartIInv
<1>1. /\ startup.phase = "seeding" /\ startup.org = Nobody
      /\ startup' = IF startup.pass < Len(Backfills)
                    THEN [startup EXCEPT !.pass = @ + 1, !.todo = present]
                    ELSE [Stopped EXCEPT !.phase = "serving"]
      /\ UNCHANGED <<account, made, present, column, methods, drafted, posted, editing>>
  BY DEF NextPass, accountTables, entryLines
<1>2. ReferencesStayHome' /\ ParkedHomes'
  BY <1>1, StartRests
<1>3. Len(Backfills) \in Nat /\ startup.pass \in 0..Len(Backfills) /\ startup.pass \in Nat
  BY ChartAssumption DEF ChartTypeOK
<1>4. \A e \in Editors : editing[e] = NoEdit
  BY <1>1 DEF Seeding
<1>5. CASE startup.pass < Len(Backfills)
  <2>1. startup' = [startup EXCEPT !.pass = startup.pass + 1, !.todo = present]
    BY <1>1, <1>5
  <2>2. startup.pass + 1 \in 0..Len(Backfills) /\ present \in SUBSET Organizations
    BY <1>3, <1>5 DEF ChartTypeOK
  <2>3. startup' \in StartState /\ startup'.org = Nobody /\ startup'.todo = present
        /\ startup'.phase = "seeding"
    BY <1>1, <2>1, <2>2 DEF ChartTypeOK, StartState
  <2>4. ChartTypeOK'
    BY <1>1, <2>3, StartTyped DEF ChartTypeOK
  <2>5. Seeding'
    BY <1>1, <1>4, <2>3 DEF Seeding, ChartUnderWay
  <2> QED
    BY <1>2, <2>4, <2>5
<1>6. CASE ~(startup.pass < Len(Backfills))
  <2>1. startup' = [Stopped EXCEPT !.phase = "serving"]
    BY <1>1, <1>6
  <2>2. Blank \in [Columns -> AccountIds \cup {Unset}] /\ 0 \in 0..Len(Backfills)
    BY <1>3 DEF Blank
  <2>3. startup' \in StartState /\ startup'.org = Nobody /\ startup'.todo = {}
        /\ startup'.phase = "serving" /\ startup'.pass = 0
    BY <2>1, <2>2 DEF Stopped, StartState
  <2>4. ChartTypeOK'
    BY <1>1, <2>3, StartTyped DEF ChartTypeOK
  <2>5. Seeding'
    BY <2>3 DEF Seeding, ChartUnderWay
  <2> QED
    BY <1>2, <2>4, <2>5
<1> QED
  BY <1>5, <1>6

LEMMA ChartHalts ==
  ASSUME ChartIInv, Halt
  PROVE  ChartIInv'
<1> USE DEF ChartIInv
<1>1. /\ startup' = Stopped /\ editing' = [e \in Editors |-> NoEdit]
      /\ UNCHANGED <<account, made, present, column, methods, drafted, posted>>
  BY DEF Halt, accountTables, entryLines
<1>2. ReferencesStayHome' /\ ParkedHomes'
  BY <1>1, StartRests
<1>3. Blank \in [Columns -> AccountIds \cup {Unset}] /\ Len(Backfills) \in Nat
      /\ 0 \in 0..Len(Backfills)
  BY ChartAssumption DEF Blank
<1>4. startup' \in StartState
  BY <1>1, <1>3 DEF Stopped, StartState
<1>5. ChartTypeOK'
  BY <1>1, <1>4, StartTyped
<1>6. Seeding'
  BY <1>1 DEF Seeding, ChartUnderWay, Stopped
<1> QED
  BY <1>2, <1>5, <1>6

-----------------------------------------------------------------------------
(* What every step keeps, and what holds of every state.                   *)

LEMMA ChartStep ==
  ASSUME ChartIInv, [ChartNext]_chartVars
  PROVE  ChartIInv'
<1>1. ASSUME NEW e \in Editors, Accounting(e)
      PROVE  ChartIInv'
  <2>1. CASE \E o \in Organizations, p \in AccountIds \cup {Unset}, code \in Codes,
                type \in Types, group \in BOOLEAN : CreateAccount(e, o, p, code, type, group)
    BY <2>1, ChartCreates
  <2>2. CASE \E i \in AccountIds, p \in AccountIds \cup {Unset}, code \in Codes,
                type \in Types, group \in BOOLEAN : UpdateAccountRead(e, i, p, code, type, group)
    BY <2>2, ChartChecksAccount
  <2>3. CASE UpdateAccountWrite(e)
    BY <2>3, ChartWritesAccount
  <2>4. CASE \E i \in AccountIds : DeleteAccount(e, i)
    BY <2>4, ChartDeletes
  <2>5. CASE \E i \in AccountIds : \/ DraftLine(e, i) \/ DeleteDraft(e, i)
                                   \/ PostDraft(e, i) \/ PostLine(e, i)
    BY <2>5, ChartEntries
  <2> QED
    BY <1>1, <2>1, <2>2, <2>3, <2>4, <2>5 DEF Accounting
<1>2. ASSUME NEW e \in Editors, Administering(e)
      PROVE  ChartIInv'
  <2>1. CASE \E o \in Organizations, mode \in Methods : CreateOrganization(e, o, mode)
    BY <2>1, ChartFounds
  <2>2. CASE \E o \in Organizations : DeleteOrganization(e, o)
    BY <2>2, ChartDropsOrganization
  <2>3. CASE \E o \in Organizations, cols \in ColumnSets :
               \E new \in [cols -> AccountIds \cup {Unset}], mode \in Methods \cup {"keep"} :
                 UpdateOrganizationRead(e, o, new, mode)
    BY <2>3, ChartChecksDefaults
  <2>4. CASE UpdateOrganizationWrite(e)
    BY <2>4, ChartWritesDefaults
  <2>5. CASE \E o \in Organizations, master \in BOOLEAN : ResetOrganizationData(e, o, master)
    BY <2>5, ChartResets
  <2>6. CASE FailEdit(e)
    BY <2>6, ChartEntries
  <2> QED
    BY <1>2, <2>1, <2>2, <2>3, <2>4, <2>5, <2>6 DEF Administering
<1>3. CASE Starting
  BY <1>3, ChartBegins, ChartSeeds, ChartWires, ChartPasses, ChartTakesUp DEF Starting
<1>4. CASE Halt
  BY <1>4, ChartHalts
<1>5. CASE UNCHANGED chartVars
  <2>1. UNCHANGED <<account, made, present, column, methods, drafted, posted, editing, startup>>
    BY <1>5 DEF chartVars
  <2>2. ReferencesStayHome' /\ ParkedHomes'
    BY <2>1, StartRests
  <2>3. ChartTypeOK'
    BY <2>1 DEF ChartTypeOK, Exists, ChartIInv
  <2>4. Seeding'
    BY <2>1 DEF Seeding, ChartUnderWay, ChartIInv
  <2> QED
    BY <2>2, <2>3, <2>4 DEF ChartIInv
<1> QED
  BY <1>1, <1>2, <1>3, <1>4, <1>5 DEF ChartNext

LEMMA ChartInvariant == ChartSpec => []ChartIInv
<1>1. ChartInit => ChartIInv
  BY ChartStarts
<1>2. ChartIInv /\ [ChartNext]_chartVars => ChartIInv'
  BY ChartStep
<1> QED
  BY <1>1, <1>2, PTL DEF ChartSpec

\* Tables, requests and the start hold what the handlers write, and accounts are
\* made in the order of their ids.
THEOREM ChartTyped == ChartSpec => []ChartTypeOK
<1>1. ChartIInv => ChartTypeOK
  BY DEF ChartIInv
<1> QED
  BY <1>1, ChartInvariant, PTL

\* Whatever is edited, deleted, reset or seeded at once, an organization's
\* accounts, headers and defaults are its own (db/organization.go:690).
THEOREM ChartReferencesStayHome == ChartSpec => []ReferencesStayHome
<1>1. ChartIInv => ReferencesStayHome
  BY DEF ChartIInv
<1> QED
  BY <1>1, ChartInvariant, PTL

-----------------------------------------------------------------------------
(* What a start does to the defaults. Only SeedWire writes them.           *)

LEMMA OnlyTheStart ==
  ASSUME startup.phase = "seeding", [ChartNext]_chartVars
  PROVE  Starting \/ Halt \/ UNCHANGED chartVars
<1>1. ASSUME NEW e \in Editors, Accounting(e) \/ Administering(e)
      PROVE  FALSE
  BY <1>1 DEF Accounting, Administering, CreateAccount, UpdateAccountRead, UpdateAccountWrite,
       DeleteAccount, DraftLine, DeleteDraft, PostDraft, PostLine, CreateOrganization,
       DeleteOrganization, UpdateOrganizationRead, UpdateOrganizationWrite,
       ResetOrganizationData, FailEdit, Ready, StartEdit, EndEdit, Serving
<1> QED
  BY <1>1 DEF ChartNext

LEMMA OnlyWireWrites ==
  ASSUME startup.phase = "seeding", [ChartNext]_chartVars
  PROVE  UNCHANGED <<column>> \/ SeedWire
<1>1. CASE Starting
  BY <1>1 DEF Starting, Begin, SeedRow, NextPass, SeedNext, accountTables
<1>2. CASE Halt \/ UNCHANGED chartVars
  BY <1>2 DEF Halt, accountTables, chartVars
<1> QED
  BY <1>1, <1>2, OnlyTheStart

\* A chart is made for an organization without accounts, which has no default
\* set because a default is an account of its own, and a backfill writes only
\* what is unset (db/account.go:617).
THEOREM ChartKeepsChoices == ChartSpec => StartupKeepsChoices
<1>1. ASSUME ChartIInv, [ChartNext]_chartVars, startup.phase = "seeding",
             NEW o \in Organizations, NEW col \in Columns, column[o][col] # Unset
      PROVE  column'[o][col] = column[o][col]
  <2>1. CASE UNCHANGED <<column>>
    BY <2>1
  <2>2. CASE SeedWire
    <3>1. /\ startup.org # Nobody
          /\ column' = [column EXCEPT ![startup.org] = Wired(startup.org)]
      BY <2>2 DEF SeedWire
    <3>2. CASE startup.pass = 0 /\ o = startup.org
      BY <1>1, <3>1, <3>2 DEF ChartIInv, Seeding, ChartUnderWay, Blank
    <3>3. CASE startup.pass # 0 \/ o # startup.org
      BY <1>1, <3>1, <3>3 DEF Wired, ChartIInv, ChartTypeOK
    <3> QED
      BY <3>2, <3>3
  <2> QED
    BY <1>1, <2>1, <2>2, OnlyWireWrites
<1>2. ChartIInv /\ [ChartNext]_chartVars =>
        [startup.phase = "seeding" => \A o \in Organizations, col \in Columns :
           column[o][col] # Unset => column'[o][col] = column[o][col]]_chartVars
  BY <1>1
<1> QED
  BY <1>2, ChartInvariant, PTL DEF ChartSpec, StartupKeepsChoices

\* A default is filled, or the organization has the code of its row.
Filled(o, k) ==
  \A j \in DOMAIN Backfills[k] :
    column[o][Backfills[k][j].column] # Unset \/ Taken(o, Backfills[k][j].code, Unset)

\* How far a start has come: the passes behind it are done everywhere, this one
\* where there is nothing to do any more, and of the organization at hand the
\* rows so far have their codes.
SeedingFills ==
  startup.phase = "seeding" =>
    /\ \A o \in present, k \in DOMAIN Backfills :
         k < startup.pass \/ (k = startup.pass /\ o \notin startup.todo) => Filled(o, k)
    /\ startup.org # Nobody /\ startup.pass # 0 =>
         \A j \in 1..(startup.at - 1) :
           Taken(startup.org, PassRows(startup.pass)[j].code, Unset)

LEMMA BackfillIndex ==
  DOMAIN Backfills = 1..Len(Backfills) /\ Len(Backfills) \in Nat
BY ChartAssumption

\* Where accounts are only added, what is taken or filled stays so.
LEMMA FilledStays ==
  ASSUME NEW o, NEW k \in DOMAIN Backfills, Filled(o, k),
         \A i \in Accounts(o) : account'[i] = account[i],
         \A col \in Columns : column[o][col] # Unset => column'[o][col] # Unset
  PROVE  Filled(o, k)'
<1>1. \A code : Taken(o, code, Unset) => Taken(o, code, Unset)'
  BY DEF Taken, Accounts
<1>2. \A j \in DOMAIN Backfills[k] : Backfills[k][j].column \in Columns
  BY ChartAssumption
<1> QED
  BY <1>1, <1>2 DEF Filled

LEMMA FillsStep ==
  ASSUME ChartIInv, SeedingFills, Starting
  PROVE  SeedingFills'
<1> USE DEF ChartIInv
<1>1. CASE Begin
  <2>1. startup'.pass = 0 /\ startup'.org = Nobody
    BY <1>1 DEF Begin, Seeding, ChartTypeOK
  <2>2. \A k \in DOMAIN Backfills : ~(k < 0) /\ k # 0
    BY BackfillIndex
  <2> QED
    BY <2>1, <2>2 DEF SeedingFills
<1>2. ASSUME NEW o \in Organizations, SeedNext(o)
      PROVE  SeedingFills'
  <2>1. /\ startup.phase = "seeding" /\ startup.org = Nobody /\ o \in startup.todo
        /\ startup' = IF Due(o, startup.pass)
                      THEN [startup EXCEPT !.org = o, !.at = 1, !.wired = Blank]
                      ELSE [startup EXCEPT !.todo = @ \ {o}]
        /\ UNCHANGED <<account, made, present, column>>
    BY <1>2 DEF SeedNext, accountTables
  <2>2. \A q, k : Filled(q, k)' <=> Filled(q, k)
    BY <2>1 DEF Filled, Taken, Accounts
  <2>3. CASE Due(o, startup.pass)
    <3>1. /\ startup'.pass = startup.pass /\ startup'.todo = startup.todo /\ startup'.at = 1
      BY <2>1, <2>3 DEF ChartTypeOK
    <3>2. ~(\E j \in 1..(startup'.at - 1) : TRUE)
      BY <3>1
    <3>3. \A q \in present', k \in DOMAIN Backfills :
            k < startup'.pass \/ (k = startup'.pass /\ q \notin startup'.todo) => Filled(q, k)'
      BY <2>1, <2>2, <3>1 DEF SeedingFills
    <3> QED
      BY <3>2, <3>3 DEF SeedingFills
  <2>4. CASE ~Due(o, startup.pass)
    <3>1. /\ startup'.pass = startup.pass /\ startup'.todo = startup.todo \ {o}
          /\ startup'.org = Nobody
      BY <2>1, <2>4 DEF ChartTypeOK
    <3>2. \A k \in DOMAIN Backfills : k = startup.pass => Filled(o, k)
      BY <2>4, BackfillIndex DEF Due, PassRows, Filled
    <3> QED
      BY <2>1, <2>2, <3>1, <3>2 DEF SeedingFills
  <2> QED
    BY <2>3, <2>4
<1>3. CASE SeedRow
  <2>1. /\ startup.phase = "seeding" /\ startup.org # Nobody
        /\ UNCHANGED <<present, column>>
        /\ startup'.pass = startup.pass /\ startup'.todo = startup.todo
        /\ startup'.org = startup.org /\ startup'.at = startup.at + 1
    BY <1>3 DEF SeedRow, ChartTypeOK
  <2>2. startup.org \in Organizations /\ startup.at \in Nat \ {0}
    BY <2>1 DEF Seeding, ChartTypeOK
  <2>0. PICK o \in Organizations : o = startup.org
    BY <2>2
  <2>3. PICK r : o = startup.org /\ r = PassRows(startup.pass)[startup.at]
    BY <2>0
  <2>4. /\ \A i \in AccountIds : Exists(i) => account'[i] = account[i]
        /\ Taken(o, r.code, Unset)'
    <3>1. ASSUME NEW p, Insert(o, p, r.code, r.type, r.group)
          PROVE  /\ \A i \in AccountIds : Exists(i) => account'[i] = account[i]
                 /\ Taken(o, r.code, Unset)'
      <4>1. /\ made + 1 \in AccountIds /\ made + 1 # Unset /\ ~Exists(made + 1)
            /\ account' = [account EXCEPT ![made + 1] =
                 [org |-> o, parent |-> p, code |-> r.code, type |-> r.type, group |-> r.group]]
        BY <3>1, ChartAssumption DEF Insert, ChartTypeOK, AccountIds, Unset
      <4>2. account'[made + 1].org = o /\ account'[made + 1].code = r.code
        BY <4>1 DEF ChartTypeOK
      <4> QED
        BY <4>1, <4>2 DEF ChartTypeOK, Taken, Accounts
    <3>2. CASE Taken(o, r.code, Unset) /\ UNCHANGED account
      BY <3>2 DEF Taken, Accounts
    <3>3. \/ \E p \in Parents(o, r) : Insert(o, p, r.code, r.type, r.group)
          \/ Taken(o, r.code, Unset) /\ UNCHANGED account
      BY <1>3, <2>3 DEF SeedRow
    <3> QED
      BY <3>1, <3>2, <3>3
  <2>5. \A q \in Organizations : \A i \in Accounts(q) : account'[i] = account[i]
    BY <2>4, ChartAssumption DEF Accounts, Exists
  <2>6. ASSUME NEW q \in present, NEW k \in DOMAIN Backfills, Filled(q, k)
        PROVE  Filled(q, k)'
    BY <2>1, <2>5, <2>6, FilledStays DEF ChartTypeOK
  <2>7. \A q \in present', k \in DOMAIN Backfills :
          k < startup'.pass \/ (k = startup'.pass /\ q \notin startup'.todo) => Filled(q, k)'
    BY <2>1, <2>6 DEF SeedingFills
  <2>8. PICK rows : rows = PassRows(startup.pass) /\ rows = PassRows(startup.pass)'
    BY <2>1 DEF PassRows
  <2>9. ASSUME startup.pass # 0, NEW j \in 1..startup.at
        PROVE  Taken(o, rows[j].code, Unset)'
    <3>1. CASE j = startup.at
      BY <2>3, <2>4, <2>8, <3>1
    <3>2. CASE j \in 1..(startup.at - 1)
      <4>1. Taken(o, rows[j].code, Unset)
        BY <2>1, <2>3, <2>8, <2>9, <3>2 DEF SeedingFills
      <4> QED
        BY <2>5, <4>1 DEF Taken, Accounts
    <3> QED
      BY <2>2, <3>1, <3>2
  <2>10. startup'.at - 1 = startup.at
    BY <2>1, <2>2
  <2>11. startup'.org = o /\ PassRows(startup.pass)' = rows
    BY <2>1, <2>3, <2>8
  <2> QED
    BY <2>1, <2>7, <2>9, <2>10, <2>11 DEF SeedingFills
<1>4. CASE SeedWire
  <2>1. startup.org # Nobody /\ startup.org \in Organizations /\ startup.pass \in 0..Len(Backfills)
    BY <1>4 DEF SeedWire, Seeding, ChartTypeOK
  <2>2. PICK o \in Organizations : o = startup.org
    BY <2>1
  <2>3. /\ startup.phase = "seeding"
        /\ startup.at = Len(PassRows(startup.pass)) + 1
        /\ column' = [column EXCEPT ![o] = Wired(o)]
        /\ UNCHANGED <<account, present>>
        /\ startup'.pass = startup.pass /\ startup'.todo = startup.todo \ {o}
        /\ startup'.org = Nobody
    BY <1>4, <2>2 DEF SeedWire, ChartTypeOK
  <2>4. ASSUME NEW q \in present, NEW k \in DOMAIN Backfills, Filled(q, k), startup.pass # 0
        PROVE  Filled(q, k)'
    <3>1. q \in Organizations
      BY DEF ChartTypeOK
    <3>2. \A col \in Columns : column[q][col] # Unset => column'[q][col] # Unset
      BY <2>3, <2>4, <3>1 DEF Wired, ChartTypeOK
    <3> QED
      BY <2>3, <2>4, <3>2, FilledStays
  <2>5. ASSUME NEW k \in DOMAIN Backfills, k = startup.pass
        PROVE  Filled(o, k)'
    <3>1. k # 0 /\ PassRows(startup.pass) = Backfills[k]
      BY <2>5, BackfillIndex DEF PassRows
    <3>2. DOMAIN Backfills[k] = 1..Len(Backfills[k]) /\ Len(Backfills[k]) \in Nat
      BY <2>1, <3>1, PassTyped
    <3>3. startup.at - 1 = Len(Backfills[k])
      BY <2>3, <3>1, <3>2
    <3>4. \A j \in DOMAIN Backfills[k] : Taken(o, Backfills[k][j].code, Unset)
      BY <2>1, <2>2, <2>3, <2>5, <3>1, <3>2, <3>3 DEF SeedingFills
    <3>5. \A code : Taken(o, code, Unset) => Taken(o, code, Unset)'
      BY <2>3 DEF Taken, Accounts
    <3> QED
      BY <3>4, <3>5 DEF Filled
  <2>6. \A k \in DOMAIN Backfills : k < startup.pass \/ k = startup.pass => startup.pass # 0
    BY <2>1, BackfillIndex
  <2>7. ASSUME NEW q \in present, NEW k \in DOMAIN Backfills,
               k < startup.pass \/ (k = startup.pass /\ q \notin startup.todo \ {o})
        PROVE  Filled(q, k)'
    <3>1. CASE k = startup.pass /\ q = o
      BY <2>5, <3>1
    <3>2. CASE k < startup.pass \/ (k = startup.pass /\ q \notin startup.todo)
      BY <2>3, <2>4, <2>6, <3>2 DEF SeedingFills
    <3> QED
      BY <2>7, <3>1, <3>2
  <2> QED
    BY <2>3, <2>7 DEF SeedingFills
<1>5. CASE NextPass
  <2>1. /\ startup.phase = "seeding" /\ startup.org = Nobody /\ startup.todo = {}
        /\ startup' = IF startup.pass < Len(Backfills)
                      THEN [startup EXCEPT !.pass = @ + 1, !.todo = present]
                      ELSE [Stopped EXCEPT !.phase = "serving"]
        /\ UNCHANGED <<account, present, column>>
    BY <1>5 DEF NextPass, accountTables
  <2>2. CASE startup.pass < Len(Backfills)
    <3>1. startup'.pass = startup.pass + 1 /\ startup'.todo = present /\ startup'.org = Nobody
      BY <2>1, <2>2 DEF ChartTypeOK
    <3>2. \A k \in DOMAIN Backfills : k < startup.pass + 1 => k < startup.pass \/ k = startup.pass
      BY BackfillIndex DEF ChartTypeOK
    <3>3. \A q, k : Filled(q, k)' <=> Filled(q, k)
      BY <2>1 DEF Filled, Taken, Accounts
    <3> QED
      BY <2>1, <3>1, <3>2, <3>3 DEF SeedingFills
  <2>3. CASE ~(startup.pass < Len(Backfills))
    <3>1. startup'.phase = "serving"
      BY <2>1, <2>3 DEF Stopped
    <3> QED
      BY <3>1 DEF SeedingFills
  <2> QED
    BY <2>2, <2>3
<1> QED
  BY <1>1, <1>2, <1>3, <1>4, <1>5 DEF Starting

LEMMA SeedingFillsAlways == ChartSpec => []SeedingFills
<1>1. ChartInit => SeedingFills
  BY DEF ChartInit, SeedingFills, Stopped
<1>2. ChartIInv /\ SeedingFills /\ [ChartNext]_chartVars => SeedingFills'
  <2> SUFFICES ASSUME ChartIInv, SeedingFills, [ChartNext]_chartVars PROVE SeedingFills'
    OBVIOUS
  <2>1. CASE Starting
    BY <2>1, FillsStep
  <2>2. CASE Halt
    BY <2>2 DEF Halt, Stopped, SeedingFills
  <2>3. CASE UNCHANGED chartVars
    BY <2>3 DEF chartVars, SeedingFills, Filled, Taken, Accounts, PassRows
  <2>4. ASSUME NEW e \in Editors, Accounting(e) \/ Administering(e)
        PROVE  SeedingFills'
    <3>1. startup.phase = "serving" /\ startup' = startup
      BY <2>4 DEF Accounting, Administering, CreateAccount, UpdateAccountRead,
           UpdateAccountWrite, DeleteAccount, DraftLine, DeleteDraft, PostDraft, PostLine,
           CreateOrganization, DeleteOrganization, UpdateOrganizationRead,
           UpdateOrganizationWrite, ResetOrganizationData, FailEdit, Ready, StartEdit,
           EndEdit, Serving
    <3> QED
      BY <3>1 DEF SeedingFills
  <2> QED
    BY <2>1, <2>2, <2>3, <2>4 DEF ChartNext
<1> QED
  BY <1>1, <1>2, ChartInvariant, PTL DEF ChartSpec

\* Through all its passes, a start leaves no default of a later feature unset
\* but where the organization has its account already (db/account.go:732).
THEOREM ChartFills == ChartSpec => StartupFills
<1>1. ASSUME ChartIInv, SeedingFills, [ChartNext]_chartVars,
             startup.phase = "seeding", startup'.phase = "serving",
             NEW o \in present, NEW k \in DOMAIN Backfills
      PROVE  Filled(o, k)
  <2>1. NextPass
    <3>1. CASE Starting
      BY <1>1, <3>1 DEF Starting, Begin, SeedNext, SeedRow, SeedWire, ChartIInv, ChartTypeOK
    <3>2. CASE Halt \/ UNCHANGED chartVars
      BY <1>1, <3>2 DEF Halt, Stopped, chartVars
    <3> QED
      BY <1>1, <3>1, <3>2, OnlyTheStart
  <2>2. ~(startup.pass < Len(Backfills)) /\ startup.todo = {}
    BY <1>1, <2>1 DEF NextPass, ChartIInv, ChartTypeOK
  <2>3. k < startup.pass \/ k = startup.pass
    BY <1>1, <2>2, BackfillIndex DEF ChartIInv, ChartTypeOK
  <2> QED
    BY <1>1, <2>2, <2>3 DEF SeedingFills
<1>2. ChartIInv /\ SeedingFills /\ [ChartNext]_chartVars =>
        [startup.phase = "seeding" /\ startup'.phase = "serving" =>
           \A o \in present, k \in DOMAIN Backfills : \A j \in DOMAIN Backfills[k] :
             LET r == Backfills[k][j] IN
             column[o][r.column] # Unset \/ Taken(o, r.code, Unset)]_chartVars
  BY <1>1 DEF Filled
<1> QED
  BY <1>2, ChartInvariant, SeedingFillsAlways, PTL DEF ChartSpec, StartupFills

-----------------------------------------------------------------------------
(* One editor at a time. Then what a request checked is still so when it    *)
(* writes: the class of an account in use, and the pair of bank and         *)
(* register, hold. With two they do not: MCChart_alone with a second editor *)
(* shows both.                                                              *)

OneEditor == \A d, e \in Editors : d = e

\* What a parked request found allowed.
Checked(r) ==
  /\ r.op = "account" => MayEdit(r.id, r.parent, r.type, r.group)
  /\ r.op = "defaults" => PairKept(r.org, r.new, r.mode)

\* A chart wires no register, and a backfill no bank.
WiresApart ==
  startup.org # Nobody => /\ startup.wired["register"] = Unset
                          /\ startup.pass # 0 => startup.wired["bank"] = Unset

SoleIInv ==
  /\ \A e \in Editors : Checked(editing[e])
  /\ HeadersCarryNothing
  /\ WiresApart
  /\ BankIsNotTheRegister

\* While the one request is parked, nothing else happens.
LEMMA ParkedAlone ==
  ASSUME OneEditor, ChartIInv, NEW e \in Editors, editing[e] # NoEdit, [ChartNext]_chartVars
  PROVE  editing'[e] = NoEdit \/ UNCHANGED chartVars
<1>1. Serving
  BY DEF ChartIInv, Seeding, Serving
<1>2. ASSUME NEW d \in Editors, Accounting(d) \/ Administering(d)
      PROVE  editing'[e] = NoEdit
  <2>1. d = e /\ ~Ready(d)
    BY DEF OneEditor, Ready
  <2>2. EndEdit(e)
    BY <1>2, <2>1 DEF Accounting, Administering, CreateAccount, UpdateAccountRead,
       UpdateAccountWrite, DeleteAccount, DraftLine, DeleteDraft, PostDraft, PostLine,
       CreateOrganization, DeleteOrganization, UpdateOrganizationRead,
       UpdateOrganizationWrite, ResetOrganizationData, FailEdit, StartEdit
  <2> QED
    BY <2>2 DEF EndEdit, ChartIInv, ChartTypeOK
<1>3. ~Starting
  BY <1>1 DEF Serving, Starting, Begin, SeedRow, SeedWire, NextPass, SeedNext
<1>4. CASE Halt
  BY <1>4 DEF Halt
<1> QED
  BY <1>2, <1>3, <1>4 DEF ChartNext

\* What is parked anew was checked on tables that stand.
LEMMA ParkedChecked ==
  ASSUME OneEditor, ChartIInv, SoleIInv, [ChartNext]_chartVars, NEW e \in Editors
  PROVE  Checked(editing[e])'
<1>1. CASE UNCHANGED chartVars
  BY <1>1 DEF chartVars, SoleIInv, Checked, MayEdit, InUse, Children, ParentOf, PairKept,
              PairAllowed, Switched, Rewired
<1>2. CASE editing'[e] = NoEdit
  BY <1>2 DEF Checked, NoEdit
<1>3. CASE editing'[e] # NoEdit /\ editing[e] = NoEdit
  <2>1. \/ \E i \in AccountIds, p \in AccountIds \cup {Unset}, code \in Codes, type \in Types,
              group \in BOOLEAN : UpdateAccountRead(e, i, p, code, type, group)
        \/ \E o \in Organizations, cols \in ColumnSets :
             \E new \in [cols -> AccountIds \cup {Unset}], mode \in Methods \cup {"keep"} :
               UpdateOrganizationRead(e, o, new, mode)
    <3>1. ASSUME NEW d \in Editors, Accounting(d) \/ Administering(d)
          PROVE  \/ \E i \in AccountIds, p \in AccountIds \cup {Unset}, code \in Codes,
                       type \in Types, group \in BOOLEAN :
                      UpdateAccountRead(e, i, p, code, type, group)
                 \/ \E o \in Organizations, cols \in ColumnSets :
                      \E new \in [cols -> AccountIds \cup {Unset}], mode \in Methods \cup {"keep"} :
                        UpdateOrganizationRead(e, o, new, mode)
      <4>1. d = e
        BY DEF OneEditor
      <4>2. editing' # editing /\ ~EndEdit(e)
        BY <1>3 DEF EndEdit, ChartIInv, ChartTypeOK
      <4> QED
        BY <3>1, <4>1, <4>2 DEF Accounting, Administering, CreateAccount,
           UpdateAccountWrite, DeleteAccount, DraftLine, DeleteDraft, PostDraft, PostLine,
           CreateOrganization, DeleteOrganization, UpdateOrganizationWrite,
           ResetOrganizationData, FailEdit
    <3>2. ~Starting /\ ~Halt /\ ~UNCHANGED chartVars
      BY <1>3 DEF Starting, Begin, SeedRow, SeedWire, NextPass, SeedNext, Halt, chartVars
    <3> QED
      BY <3>1, <3>2 DEF ChartNext
  <2>2. ASSUME NEW i \in AccountIds, NEW p \in AccountIds \cup {Unset}, NEW code \in Codes,
               NEW type \in Types, NEW group \in BOOLEAN,
               UpdateAccountRead(e, i, p, code, type, group)
        PROVE  Checked(editing[e])'
    <3>1. /\ MayEdit(i, p, type, group)
          /\ editing'[e] = [op |-> "account", id |-> i, parent |-> p, code |-> code,
                            type |-> type, group |-> group]
          /\ UNCHANGED <<account, column, present, drafted, posted>>
      BY <2>2 DEF UpdateAccountRead, StartEdit, accountTables, entryLines, ChartIInv, ChartTypeOK
    <3>2. MayEdit(i, p, type, group)'
      BY <3>1 DEF MayEdit, InUse, Children, ParentOf
    <3> QED
      BY <3>1, <3>2 DEF Checked
  <2>3. ASSUME NEW o \in Organizations, NEW cols \in ColumnSets,
               NEW new \in [cols -> AccountIds \cup {Unset}], NEW mode \in Methods \cup {"keep"},
               UpdateOrganizationRead(e, o, new, mode)
        PROVE  Checked(editing[e])'
    <3>1. /\ PairKept(o, new, mode)
          /\ editing'[e] = [op |-> "defaults", org |-> o, new |-> new, mode |-> mode]
          /\ UNCHANGED <<column, methods>>
      BY <2>3 DEF UpdateOrganizationRead, StartEdit, accountTables, ChartIInv, ChartTypeOK
    <3>2. PairKept(o, new, mode)'
      BY <3>1 DEF PairKept, PairAllowed, Switched, Rewired
    <3> QED
      BY <3>1, <3>2 DEF Checked
  <2> QED
    BY <2>1, <2>2, <2>3
<1>4. CASE editing[e] # NoEdit
  BY <1>1, <1>2, <1>4, ParkedAlone
<1> QED
  BY <1>2, <1>3, <1>4

\* An account with a line of a posted entry keeps its class.
LEMMA ClassKept ==
  ASSUME ChartIInv, SoleIInv, [ChartNext]_chartVars, NEW i \in posted, i \in posted'
  PROVE  account'[i].type = account[i].type /\ account'[i].group = account[i].group
<1>1. i \in AccountIds /\ Exists(i) /\ InUse(i) /\ i <= made /\ made \in Nat /\ i \in Int
      /\ account \in [AccountIds -> Account \cup {NoAccount}]
  BY ChartAssumption DEF ChartIInv, ChartTypeOK, ReferencesStayHome, LinesHome, InUse, AccountIds
<1>2. ASSUME NEW o, NEW p, NEW code, NEW type, NEW group, Insert(o, p, code, type, group)
      PROVE  account'[i] = account[i]
  BY <1>1, <1>2 DEF Insert
<1>3. ASSUME NEW e \in Editors, UpdateAccountWrite(e)
      PROVE  account'[i].type = account[i].type /\ account'[i].group = account[i].group
  <2>1. editing[e] \in Update
    BY <1>3 DEF UpdateAccountWrite, ChartIInv, ChartTypeOK, NoEdit, Defaults
  <2>2. /\ editing[e].id \in AccountIds
        /\ account' = [account EXCEPT ![editing[e].id] =
             [org |-> account[editing[e].id].org, parent |-> editing[e].parent,
              code |-> editing[e].code, type |-> editing[e].type, group |-> editing[e].group]]
    BY <1>3, <2>1 DEF UpdateAccountWrite, Update
  <2>3. editing[e].id = i => editing[e].type = account[i].type /\ editing[e].group = account[i].group
    BY <1>1, <1>3 DEF SoleIInv, Checked, MayEdit, UpdateAccountWrite
  <2> QED
    BY <1>1, <2>2, <2>3
<1>4. ASSUME NEW e \in Editors, Accounting(e)
      PROVE  account'[i].type = account[i].type /\ account'[i].group = account[i].group
  <2>1. CASE \E o \in Organizations, p \in AccountIds \cup {Unset}, code \in Codes,
                type \in Types, group \in BOOLEAN : CreateAccount(e, o, p, code, type, group)
    BY <1>2, <2>1 DEF CreateAccount
  <2>2. CASE \E j \in AccountIds : DeleteAccount(e, j)
    BY <1>1, <2>2 DEF DeleteAccount
  <2>3. CASE UNCHANGED account
    BY <2>3
  <2> QED
    BY <1>3, <1>4, <2>1, <2>2, <2>3 DEF Accounting, UpdateAccountRead, DraftLine, DeleteDraft,
       PostDraft, PostLine, accountTables
<1>5. ASSUME NEW e \in Editors, Administering(e)
      PROVE  account'[i] = account[i]
  <2>1. CASE \E o \in Organizations, mode \in Methods : CreateOrganization(e, o, mode)
    <3>1. account'[i] = account[i]
      BY <1>1, <2>1 DEF CreateOrganization, Charted
    <3> QED
      BY <3>1
  <2>2. ASSUME NEW o \in Organizations, account' = Wiped(o) /\ ForgetLines(o)
        PROVE  account'[i] = account[i]
    BY <1>1, <2>2 DEF Wiped, ForgetLines, Accounts
  <2>3. CASE UNCHANGED account
    BY <2>3
  <2> QED
    BY <1>5, <2>1, <2>2, <2>3 DEF Administering, DeleteOrganization, ResetOrganizationData,
       UpdateOrganizationRead, UpdateOrganizationWrite, FailEdit, accountTables
<1>6. CASE Starting
  BY <1>2, <1>6 DEF Starting, Begin, SeedNext, SeedRow, SeedWire, NextPass, accountTables
<1>7. CASE Halt \/ UNCHANGED chartVars
  BY <1>7 DEF Halt, chartVars, accountTables
<1> QED
  BY <1>4, <1>5, <1>6, <1>7 DEF ChartNext

LEMMA LeavesCarry ==
  ASSUME ChartIInv, SoleIInv, [ChartNext]_chartVars
  PROVE  HeadersCarryNothing'
<1> SUFFICES ASSUME NEW i \in posted' PROVE ~account'[i].group
  BY DEF HeadersCarryNothing
<1>1. CASE i \in posted
  BY <1>1, ClassKept DEF SoleIInv, HeadersCarryNothing
<1>2. CASE i \notin posted
  <2>1. ~(UNCHANGED posted) /\ ~(posted' \subseteq posted)
    BY <1>2
  <2>2. ASSUME NEW e \in Editors, Accounting(e)
        PROVE  \E j \in AccountIds : PostDraft(e, j) \/ PostLine(e, j)
    BY <2>1, <2>2 DEF Accounting, CreateAccount, UpdateAccountRead, UpdateAccountWrite,
       DeleteAccount, DraftLine, DeleteDraft, entryLines
  <2>3. ASSUME NEW e \in Editors, NEW j \in AccountIds, PostDraft(e, j) \/ PostLine(e, j)
        PROVE  ~account'[i].group
    <3>1. Postable(j) /\ posted' = posted \cup {j} /\ UNCHANGED account
      BY <2>3 DEF PostDraft, PostLine, accountTables
    <3> QED
      BY <1>2, <3>1 DEF Postable
  <2>4. ASSUME NEW e \in Editors, Administering(e)
        PROVE  FALSE
    BY <2>1, <2>4 DEF Administering, CreateOrganization, DeleteOrganization,
       UpdateOrganizationRead, UpdateOrganizationWrite, ResetOrganizationData, FailEdit,
       ForgetLines, entryLines
  <2>5. ~Starting /\ ~Halt /\ ~UNCHANGED chartVars
    BY <2>1 DEF Starting, Begin, SeedNext, SeedRow, SeedWire, NextPass, Halt, chartVars, entryLines
  <2> QED
    BY <2>2, <2>3, <2>4, <2>5 DEF ChartNext
<1> QED
  BY <1>1, <1>2

LEMMA WiresStayApart ==
  ASSUME ChartIInv, SoleIInv, [ChartNext]_chartVars
  PROVE  WiresApart'
<1>1. {"bank", "register"} \subseteq Columns /\ "bank" # "register"
  BY ChartAssumption
<1>2. CASE Begin \/ SeedWire \/ NextPass \/ Halt
  <2>1. CASE Begin
    BY <2>1 DEF Begin, WiresApart, ChartIInv, ChartTypeOK, Seeding
  <2>2. CASE SeedWire
    BY <2>2 DEF SeedWire, WiresApart, ChartIInv, ChartTypeOK
  <2>3. CASE NextPass
    <3>1. startup'.org = Nobody
      BY <2>3 DEF NextPass, ChartIInv, ChartTypeOK, Stopped
    <3> QED
      BY <3>1 DEF WiresApart
  <2>4. CASE Halt
    BY <2>4 DEF Halt, WiresApart, Stopped
  <2> QED
    BY <1>2, <2>1, <2>2, <2>3, <2>4
<1>3. ASSUME NEW o \in Organizations, SeedNext(o)
      PROVE  WiresApart'
  BY <1>1, <1>3 DEF SeedNext, WiresApart, ChartIInv, ChartTypeOK, Blank
<1>4. CASE SeedRow
  <2> DEFINE r == PassRows(startup.pass)[startup.at]
  <2>1. r.column # "register" /\ (startup.pass # 0 => r.column # "bank")
    <3>1. startup.pass \in 0..Len(Backfills) /\ startup.at \in DOMAIN PassRows(startup.pass)
      BY <1>4 DEF SeedRow, ChartIInv, ChartTypeOK
    <3>2. CASE startup.pass = 0
      <4>1. r.column \in ChartColumns \cup {Nobody}
        BY <3>1, <3>2, ChartAssumption DEF PassRows
      <4> QED
        BY <1>1, <3>2, <4>1, ChartAssumption
    <3>3. CASE startup.pass # 0
      <4>1. startup.pass \in DOMAIN Backfills
        BY <3>1, <3>3, BackfillIndex
      <4>2. r.column \in ChartColumns \ {"bank"}
        BY <3>1, <3>3, <4>1, ChartAssumption DEF PassRows
      <4> QED
        BY <4>2, ChartAssumption
    <3> QED
      BY <3>2, <3>3
  <2> HIDE DEF r
  <2>2. /\ startup.org # Nobody /\ startup'.pass = startup.pass
        /\ \/ startup'.wired = startup.wired
           \/ startup'.wired = [startup.wired EXCEPT ![r.column] = made + 1]
    BY <1>4 DEF SeedRow, ChartIInv, ChartTypeOK, r
  <2>3. startup.wired \in [Columns -> AccountIds \cup {Unset}]
    BY DEF ChartIInv, ChartTypeOK
  <2>4. /\ startup'.wired["register"] = startup.wired["register"]
        /\ startup.pass # 0 => startup'.wired["bank"] = startup.wired["bank"]
    BY <1>1, <2>1, <2>2, <2>3
  <2> QED
    BY <2>2, <2>4 DEF SoleIInv, WiresApart
<1>5. CASE UNCHANGED startup
  BY <1>5 DEF SoleIInv, WiresApart
<1>6. ASSUME NEW e \in Editors, Accounting(e) \/ Administering(e)
      PROVE  UNCHANGED startup
  BY <1>6 DEF Accounting, Administering, CreateAccount, UpdateAccountRead,
     UpdateAccountWrite, DeleteAccount, DraftLine, DeleteDraft, PostDraft, PostLine,
     CreateOrganization, DeleteOrganization, UpdateOrganizationRead,
     UpdateOrganizationWrite, ResetOrganizationData, FailEdit
<1> QED
  BY <1>2, <1>3, <1>4, <1>5, <1>6 DEF ChartNext, Starting, chartVars

\* Every write of the pair is one that was checked, or clears a side of it.
LEMMA PairStays ==
  ASSUME ChartIInv, SoleIInv, [ChartNext]_chartVars
  PROVE  BankIsNotTheRegister'
<1> SUFFICES ASSUME NEW o \in present'
             PROVE  PairAllowed(methods'[o], column'[o]["bank"], column'[o]["register"])
  BY DEF BankIsNotTheRegister, PairAllowed
<1>1. /\ column \in [Organizations -> [Columns -> AccountIds \cup {Unset}]]
      /\ methods \in [Organizations -> Methods]
      /\ "bank" \in Columns /\ "register" \in Columns /\ present \subseteq Organizations
  BY ChartAssumption DEF ChartIInv, ChartTypeOK
<1>2. o \in present => PairAllowed(methods[o], column[o]["bank"], column[o]["register"])
  BY DEF SoleIInv, BankIsNotTheRegister
<1>3. CASE UNCHANGED <<present, column, methods>>
  BY <1>2, <1>3
<1>4. ASSUME NEW e \in Editors, NEW q \in Organizations, NEW mode \in Methods,
             CreateOrganization(e, q, mode)
      PROVE  PairAllowed(methods'[o], column'[o]["bank"], column'[o]["register"])
  <2>1. CASE o = q
    <3>1. column'[o]["register"] = Unset
      BY <1>1, <1>4, <2>1, ChartAssumption DEF CreateOrganization
    <3> QED
      BY <3>1 DEF PairAllowed, Unset
  <2>2. CASE o # q
    BY <1>1, <1>2, <1>4, <2>2 DEF CreateOrganization
  <2> QED
    BY <2>1, <2>2
<1>5. ASSUME NEW e \in Editors, NEW q \in Organizations, NEW master \in BOOLEAN,
             DeleteOrganization(e, q) \/ ResetOrganizationData(e, q, master)
      PROVE  PairAllowed(methods'[o], column'[o]["bank"], column'[o]["register"])
  <2>1. CASE o = q
    BY <1>1, <1>2, <1>5, <2>1 DEF DeleteOrganization, ResetOrganizationData, PairAllowed, Blank
  <2>2. CASE o # q
    BY <1>1, <1>2, <1>5, <2>2 DEF DeleteOrganization, ResetOrganizationData
  <2> QED
    BY <2>1, <2>2
<1>6. ASSUME NEW e \in Editors, UpdateOrganizationWrite(e)
      PROVE  PairAllowed(methods'[o], column'[o]["bank"], column'[o]["register"])
  <2> DEFINE u == editing[e]
  <2>1. /\ PairKept(u.org, u.new, u.mode)
        /\ u.org \in present /\ UNCHANGED present
        /\ column' = [column EXCEPT ![u.org] = Rewired(u.org, u.new)]
        /\ methods' = [methods EXCEPT ![u.org] = Switched(u.org, u.mode)]
    BY <1>6 DEF UpdateOrganizationWrite, SoleIInv, Checked
  <2> HIDE DEF u
  <2>2. CASE o # u.org
    BY <1>1, <1>2, <2>1, <2>2
  <2>3. CASE o = u.org
    <3>1. methods'[o] = Switched(o, u.mode) /\ column'[o] = Rewired(o, u.new)
      BY <1>1, <2>1, <2>3
    <3>2. CASE u.mode # "keep" \/ {"bank", "register"} \cap DOMAIN u.new # {}
      BY <2>1, <2>3, <3>1, <3>2 DEF PairKept
    <3>3. CASE u.mode = "keep" /\ {"bank", "register"} \cap DOMAIN u.new = {}
      <4>1. "bank" \notin DOMAIN u.new /\ "register" \notin DOMAIN u.new
        BY <3>3
      <4>2. methods'[o] = methods[o] /\ column'[o]["bank"] = column[o]["bank"]
            /\ column'[o]["register"] = column[o]["register"]
        BY <1>1, <3>1, <3>3, <4>1 DEF Rewired, Switched
      <4> QED
        BY <1>2, <2>1, <4>2
    <3> QED
      BY <3>2, <3>3
  <2> QED
    BY <2>2, <2>3
<1>7. CASE SeedWire
  <2>1. /\ startup.org # Nobody /\ startup.org \in present /\ startup.org \in Organizations
        /\ column' = [column EXCEPT ![startup.org] = Wired(startup.org)]
        /\ UNCHANGED <<present, methods>>
    BY <1>7 DEF SeedWire, ChartIInv, ChartTypeOK, Seeding
  <2>2. CASE o # startup.org
    BY <1>1, <1>2, <2>1, <2>2
  <2>3. CASE o = startup.org /\ startup.pass = 0
    <3>1. column[o]["register"] = Unset /\ "register" \notin ChartColumns
      BY <1>1, <2>1, <2>3, ChartAssumption DEF ChartIInv, Seeding, ChartUnderWay, Blank
    <3>2. column'[o]["register"] = Unset
      BY <1>1, <2>1, <2>3, <3>1 DEF Wired
    <3> QED
      BY <3>2 DEF PairAllowed
  <2>4. CASE o = startup.org /\ startup.pass # 0
    <3>1. startup.wired["register"] = Unset /\ startup.wired["bank"] = Unset
      BY <2>1, <2>4 DEF SoleIInv, WiresApart
    <3>2. column'[o]["bank"] = column[o]["bank"] /\ column'[o]["register"] = column[o]["register"]
      BY <1>1, <2>1, <2>4, <3>1 DEF Wired
    <3> QED
      BY <1>2, <2>1, <3>2
  <2> QED
    BY <2>2, <2>3, <2>4
<1>8. ASSUME NEW e \in Editors, Accounting(e)
      PROVE  UNCHANGED <<present, column, methods>>
  BY <1>8 DEF Accounting, CreateAccount, UpdateAccountRead, UpdateAccountWrite, DeleteAccount,
     DraftLine, DeleteDraft, PostDraft, PostLine, accountTables
<1>9. ASSUME NEW e \in Editors, Administering(e)
      PROVE  PairAllowed(methods'[o], column'[o]["bank"], column'[o]["register"])
  BY <1>3, <1>4, <1>5, <1>6, <1>9 DEF Administering, UpdateOrganizationRead, FailEdit, accountTables
<1>10. CASE Starting
  BY <1>3, <1>7, <1>10 DEF Starting, Begin, SeedNext, SeedRow, NextPass, accountTables
<1>11. CASE Halt \/ UNCHANGED chartVars
  BY <1>3, <1>11 DEF Halt, accountTables, chartVars
<1> QED
  BY <1>3, <1>8, <1>9, <1>10, <1>11 DEF ChartNext

LEMMA SoleInvariant ==
  ASSUME OneEditor
  PROVE  ChartSpec => []SoleIInv
<1>1. ChartInit => SoleIInv
  BY DEF ChartInit, SoleIInv, Checked, NoEdit, HeadersCarryNothing, WiresApart, Stopped,
         BankIsNotTheRegister, PairAllowed
<1>2. ChartIInv /\ SoleIInv /\ [ChartNext]_chartVars => SoleIInv'
  BY ParkedChecked, LeavesCarry, WiresStayApart, PairStays DEF SoleIInv
<1> QED
  BY <1>1, <1>2, ChartInvariant, PTL DEF ChartSpec

\* With one editor, an account that entries are posted to keeps its type and
\* stays a leaf (db/account.go:136).
THEOREM ChartHistoryKeepsItsClass ==
  ASSUME OneEditor
  PROVE  ChartSpec => HistoryKeepsItsClass
<1>1. ChartIInv /\ SoleIInv /\ [ChartNext]_chartVars =>
        [\A i \in posted \cap posted' : /\ account'[i].type = account[i].type
                                        /\ account'[i].group = account[i].group]_chartVars
  BY ClassKept
<1> QED
  BY <1>1, ChartInvariant, SoleInvariant, PTL DEF ChartSpec, HistoryKeepsItsClass

\* With one editor, nothing is posted to a header (db/account.go:32).
THEOREM ChartHeadersCarryNothing ==
  ASSUME OneEditor
  PROVE  ChartSpec => []HeadersCarryNothing
<1>1. SoleIInv => HeadersCarryNothing
  BY DEF SoleIInv
<1> QED
  BY <1>1, SoleInvariant, PTL

\* With one editor, where card payments are taken the bank and the register are
\* two accounts, whatever charts and backfills wire (db/organization.go:694).
THEOREM ChartKeepsThePair ==
  ASSUME OneEditor
  PROVE  ChartSpec => []BankIsNotTheRegister
<1>1. SoleIInv => BankIsNotTheRegister
  BY DEF SoleIInv
<1> QED
  BY <1>1, SoleInvariant, PTL
=============================================================================
