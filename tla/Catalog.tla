------------------------------- MODULE Catalog -------------------------------
(***************************************************************************)
(* Products and the documents made of them: recipes and their history      *)
(* (db/product_bom.go), production orders (db/production_order.go),        *)
(* customer orders (db/order.go) and the deliveries that move an order     *)
(* along (db/delivery.go).                                                 *)
(*                                                                         *)
(* Most handlers here read before their transaction and write what they    *)
(* read: each is a read, parked in req, and a write. Costs and entries are *)
(* Postings' subject, the goods of deliveries and receipts Stock's; here a *)
(* product's stock also moves by hand, one unit at a time.                 *)
(***************************************************************************)
EXTENDS Integers, Sequences, FiniteSetsExt, SequencesExt, Functions

CONSTANTS
  Goods,        \* finished products
  Parts,        \* components
  Units,        \* serial numbers of finished products
  Recipes,      \* what a recipe may be saved as: quantities of some parts
  Batches,      \* batch sizes of the editor; 0 asks for none
  Builds,       \* production orders, each of one unit
  MaxVersions,  \* a bound on recipe versions
  MaxStock,     \* a bound on what hand moves leave, none below zero
  Orders,       \* customer orders
  LineIds,      \* lines of a customer order, each of one unit
  NewLines,     \* the lines one may be created with, to be edited later: a bound
  Deliveries,   \* deliveries made for an order
  Clerks,       \* requests that may be in flight at once
  None

VARIABLES
  product,      \* rows of products
  trail,        \* the movements of each unit, oldest first: source and sign
  recipe,       \* bill_of_materials of each finished product
  versions,     \* bill_of_materials_versions
  build,        \* production_orders with their component lines
  net,          \* what each production order's movements add up to
  order,        \* orders with their lines
  delivery,     \* outbound_deliveries: their order and the lines they cover
  req           \* what each clerk's handler has read and not yet written

ASSUME ConstantsAssumption ==
  /\ "hand" \notin Builds /\ IsFiniteSet(Units) /\ NewLines \subseteq SUBSET LineIds
  /\ \A lines \in Recipes : DOMAIN lines \subseteq Parts /\ \A p \in DOMAIN lines : lines[p] \in Nat

vars == <<product, trail, recipe, versions, build, net, order, delivery, req>>
shop == <<product, trail, recipe, versions, build, net>>
desk == <<order, delivery>>

-----------------------------------------------------------------------------
(* Data.                                                                   *)

Products == Goods \cup Parts
Idle == [op |-> "idle"]
Empty == <<>>                      \* no lines: the function without arguments

NoBuild == [status |-> "none", product |-> None, lines |-> Empty]
NoOrder == [status |-> "none", lines |-> {}]
NoDelivery == [status |-> "none", order |-> None, covers |-> {}]

Park(c, r) == req[c] = Idle /\ req' = [req EXCEPT ![c] = r]
Resume(c, r) == req[c] = r /\ req' = [req EXCEPT ![c] = Idle]

\* A parked handler is refused by its transaction, which rolls back.
Fail(c) ==
  /\ req[c] # Idle
  /\ req' = [req EXCEPT ![c] = Idle]
  /\ UNCHANGED <<shop, desk>>

\* serialInStock: a unit is in stock when its last movement is positive.
InStock(u) == trail[u] # <<>> /\ Last(trail[u]).qty > 0
Balance(u) == FoldLeft(LAMBDA n, row : n + row.qty, 0, trail[u])

-----------------------------------------------------------------------------
(* Products.                                                               *)

\* CreateStockMovement: "in" or "out", by unit for a serialized product.
Move(p, u, qty) ==
  /\ product[p].there
  /\ IF product[p].serialized
       THEN /\ p \in Goods /\ (qty = -1 <=> InStock(u))
            /\ trail' = [trail EXCEPT ![u] = Append(@, [src |-> "hand", qty |-> qty])]
       ELSE UNCHANGED trail
  /\ product' = [product EXCEPT ![p].stock = @ + qty, ![p].moved = TRUE]
  /\ UNCHANGED <<recipe, versions, build, net, desk, req>>

\* UpdateProduct: serial tracking is switched only without stock, as read. A
\* product without stock tracking has no serial numbers, a service no category.
UpdateProductRead(c, p, category, tracked, serialized) ==
  LET serial == tracked /\ serialized
  IN /\ product[p].there
     /\ serial # product[p].serialized => product[p].stock = 0
     /\ Park(c, [op |-> "product", product |-> p, category |-> category,
                 tracked |-> tracked, serialized |-> serial])
     /\ UNCHANGED <<shop, desk>>

UpdateProductWrite(c, p, category, tracked, serialized) ==
  /\ product[p].there
  /\ Resume(c, [op |-> "product", product |-> p, category |-> category,
                tracked |-> tracked, serialized |-> serialized])
  /\ product' = [product EXCEPT ![p].category = category, ![p].tracked = tracked,
                                ![p].serialized = serialized]
  /\ UNCHANGED <<trail, recipe, versions, build, net, desk>>

\* productReferencingTables
Used(p) ==
  \/ product[p].moved
  \/ \E f \in Goods : \/ f = p /\ (recipe[f] # Empty \/ versions[f] # <<>>)
                      \/ p \in DOMAIN recipe[f]
                      \/ \E i \in DOMAIN versions[f] : p \in DOMAIN versions[f][i].lines
  \/ \E b \in Builds : build[b].status # "none" /\ (build[b].product = p \/ p \in DOMAIN build[b].lines)

\* DeleteProduct: only what nothing refers to, counted in the transaction.
DeleteProduct(p) ==
  /\ product[p].there /\ ~Used(p)
  /\ product' = [product EXCEPT ![p].there = FALSE]
  /\ UNCHANGED <<trail, recipe, versions, build, net, desk, req>>

-----------------------------------------------------------------------------
(* Recipes.                                                                *)

Recorded(f) == versions[f] # <<>>
Latest(f) == Last(versions[f])

\* A request without a batch size keeps the latest version's.
BatchOf(f, batch) == IF batch > 0 THEN batch ELSE IF Recorded(f) THEN Latest(f).batch ELSE 1

\* Mutant of Changed: a line that went is not noticed.
ChangedWhereListed(f, lines, batch) ==
  IF Recorded(f) THEN \/ Latest(f).batch # batch
                      \/ \E p \in DOMAIN lines :
                           ~(p \in DOMAIN Latest(f).lines /\ lines[p] = Latest(f).lines[p])
                 ELSE lines # Empty

\* Whether a save differs from the latest version, so that it is recorded.
Changed(f, lines, batch) ==
  IF Recorded(f) THEN Latest(f).batch # batch \/ Latest(f).lines # lines ELSE lines # Empty

\* replaceBillOfMaterials up to its transaction; a restore always records.
ReplaceRead(c, f, lines, batch, restored) ==
  /\ product[f].there /\ product[f].category = "finished"
  /\ \A p \in DOMAIN lines : product[p].there /\ product[p].category = "component"
  /\ Park(c, [op |-> "recipe", product |-> f, lines |-> lines, batch |-> BatchOf(f, batch),
              record |-> restored \/ Changed(f, lines, BatchOf(f, batch))])
  /\ UNCHANGED <<shop, desk>>

\* The recipe is replaced whole, and the version numbered in the transaction.
ReplaceWrite(c, f, lines, batch, record) ==
  /\ Resume(c, [op |-> "recipe", product |-> f, lines |-> lines, batch |-> batch, record |-> record])
  /\ product[f].there /\ \A p \in DOMAIN lines : product[p].there
  /\ recipe' = [recipe EXCEPT ![f] = lines]
  /\ versions' = IF record THEN [versions EXCEPT ![f] = Append(@, [lines |-> lines, batch |-> batch])]
                 ELSE versions
  /\ UNCHANGED <<product, trail, build, net, desk>>

\* RestoreBillOfMaterialsVersion
RestoreRead(c, f, i) == ReplaceRead(c, f, versions[f][i].lines, versions[f][i].batch, TRUE)

-----------------------------------------------------------------------------
(* Production orders.                                                      *)

\* CreateProductionOrder copies the recipe it read into the order's own lines.
CreateBuildRead(c, b, f) ==
  /\ build[b].status = "none"
  /\ product[f].there /\ product[f].category = "finished" /\ product[f].tracked
  /\ recipe[f] # Empty /\ \A p \in DOMAIN recipe[f] : ~product[p].serialized
  /\ Park(c, [op |-> "build", build |-> b, product |-> f, lines |-> recipe[f]])
  /\ UNCHANGED <<shop, desk>>

CreateBuildWrite(c, b, f, lines) ==
  /\ build[b].status = "none"
  /\ product[f].there /\ \A p \in DOMAIN lines : product[p].there
  /\ Resume(c, [op |-> "build", build |-> b, product |-> f, lines |-> lines])
  /\ build' = [build EXCEPT ![b] = [status |-> "draft", product |-> f, lines |-> lines]]
  /\ UNCHANGED <<product, trail, recipe, versions, net, desk>>

BuildMoves(from, to) == \/ from = to
                        \/ from = "draft" /\ to \in {"completed", "cancelled"}
                        \/ from = "completed" /\ to = "cancelled"

\* UpdateProductionOrderStatus up to its transaction: what is on hand, and
\* whether the finished product is serialized, are read here and trusted.
BuildStatusRead(c, b, to, serials) ==
  LET from == build[b].status
      f == build[b].product
      lines == build[b].lines
  IN /\ from \notin {"none", "gone"} /\ BuildMoves(from, to)
     /\ (from = "draft" /\ to = "completed") =>
          \A p \in DOMAIN lines : ~product[p].serialized /\ lines[p] <= product[p].stock
     /\ Park(c, [op |-> "status", build |-> b, from |-> from, to |-> to, serials |-> serials,
                 serialized |-> product[f].serialized, enough |-> 1 <= product[f].stock])
     /\ UNCHANGED <<shop, desk>>

\* The rows a build inserts: sign is 1 to produce, -1 to take it back.
Rows(b, f, lines, sign, units, bulk) ==
  /\ product' = [p \in Products |->
       IF p = f THEN [product[p] EXCEPT !.stock = @ + sign * (bulk + Cardinality(units)), !.moved = TRUE]
       ELSE IF p \in DOMAIN lines THEN [product[p] EXCEPT !.stock = @ - sign * lines[p], !.moved = TRUE]
       ELSE product[p]]
  /\ net' = [net EXCEPT ![b] =
       [p \in Products |-> @[p] + IF p = f THEN sign * (bulk + Cardinality(units))
                                  ELSE IF p \in DOMAIN lines THEN -sign * lines[p] ELSE 0]]
  /\ trail' = [u \in Units |-> IF u \in units THEN Append(trail[u], [src |-> b, qty |-> sign])
                               ELSE trail[u]]

\* Consume the components and produce the unit; a unit in stock is refused.
Complete(b, serials, serialized) ==
  IF serialized
    THEN /\ Cardinality(serials) = 1 /\ \A u \in serials : ~InStock(u)
         /\ Rows(b, build[b].product, build[b].lines, 1, serials, 0)
    ELSE Rows(b, build[b].product, build[b].lines, 1, {}, 1)

\* The units whose rows name the build.
Posted(b) == {u \in Units : \E i \in DOMAIN trail[u] : trail[u][i] = [src |-> b, qty |-> 1]}

\* Mutant of TakeBack: the units are not looked at again.
TakeBackBlindly(b, serialized, enough) ==
  IF serialized
    THEN Rows(b, build[b].product, build[b].lines, -1, Posted(b), 0)
    ELSE enough /\ Rows(b, build[b].product, build[b].lines, -1, {}, 1)

\* The components go back; what was produced must still be there.
TakeBack(b, serialized, enough) ==
  IF serialized
    THEN /\ \A u \in Posted(b) : InStock(u)
         /\ Rows(b, build[b].product, build[b].lines, -1, Posted(b), 0)
    ELSE enough /\ Rows(b, build[b].product, build[b].lines, -1, {}, 1)

\* Mutant of BuildStatusWrite: the status is not read again.
BuildStatusWriteUnchecked(c, b, from, to, serials, serialized, enough) ==
  /\ Resume(c, [op |-> "status", build |-> b, from |-> from, to |-> to, serials |-> serials,
                serialized |-> serialized, enough |-> enough])
  /\ build[b].status \notin {"none", "gone"}
  /\ CASE from = "draft" /\ to = "completed" -> Complete(b, serials, serialized)
       [] from = "completed" /\ to = "cancelled" -> TakeBack(b, serialized, enough)
       [] OTHER -> UNCHANGED <<product, net, trail>>
  /\ build' = [build EXCEPT ![b].status = to]
  /\ UNCHANGED <<recipe, versions, desk>>

BuildStatusWrite(c, b, from, to, serials, serialized, enough) ==
  /\ Resume(c, [op |-> "status", build |-> b, from |-> from, to |-> to, serials |-> serials,
                serialized |-> serialized, enough |-> enough])
  /\ build[b].status = from
  /\ CASE from = "draft" /\ to = "completed" -> Complete(b, serials, serialized)
       [] from = "completed" /\ to = "cancelled" -> TakeBack(b, serialized, enough)
       [] OTHER -> UNCHANGED <<product, net, trail>>
  /\ build' = [build EXCEPT ![b].status = to]
  /\ UNCHANGED <<recipe, versions, desk>>

DeleteBuild(b) ==
  /\ build[b].status = "draft"
  /\ build' = [build EXCEPT ![b] = [NoBuild EXCEPT !.status = "gone"]]
  /\ UNCHANGED <<product, trail, recipe, versions, net, desk, req>>

-----------------------------------------------------------------------------
(* Customer orders.                                                        *)

orderStatusTransitions ==
  [draft |-> {"confirmed", "cancelled"}, confirmed |-> {"shipped", "cancelled"},
   shipped |-> {"delivered", "cancelled"}, delivered |-> {},
   cancelled |-> {"confirmed", "shipped", "delivered"}]
OrderStatuses == DOMAIN orderStatusTransitions
OrderStands(o) == order[o].status \in OrderStatuses

CreateOrder(o, status, lines) ==
  /\ order[o].status = "none"
  /\ order' = [order EXCEPT ![o] = [status |-> status, lines |-> lines]]
  /\ UNCHANGED <<shop, delivery, req>>

\* The delivery lines that keep their order line; the others lose the link.
Unlinked(o, gone) ==
  [d \in Deliveries |-> IF delivery[d].order = o THEN [delivery[d] EXCEPT !.covers = @ \ gone]
                        ELSE delivery[d]]

\* UpdateOrder with other lines, whatever the status; kept lines keep their
\* ids (reconcileLineItemIDs).
UpdateOrder(o, lines) ==
  /\ OrderStands(o)
  /\ order' = [order EXCEPT ![o].lines = lines]
  /\ delivery' = Unlinked(o, order[o].lines \ lines)
  /\ UNCHANGED <<shop, req>>

UpdateOrderStatusRead(c, o, to) ==
  /\ OrderStands(o)
  /\ to \in {order[o].status} \cup orderStatusTransitions[order[o].status]
  /\ Park(c, [op |-> "order", order |-> o, from |-> order[o].status, to |-> to])
  /\ UNCHANGED <<shop, desk>>

\* Mutant of UpdateOrderStatusWrite: written over whatever it is by now.
UpdateOrderStatusWriteUnchecked(c, o, from, to) ==
  /\ OrderStands(o)
  /\ Resume(c, [op |-> "order", order |-> o, from |-> from, to |-> to])
  /\ order' = [order EXCEPT ![o].status = to]
  /\ UNCHANGED <<shop, delivery>>

UpdateOrderStatusWrite(c, o, from, to) ==
  /\ Resume(c, [op |-> "order", order |-> o, from |-> from, to |-> to])
  /\ order[o].status = from
  /\ order' = [order EXCEPT ![o].status = to]
  /\ UNCHANGED <<shop, delivery>>

\* DeleteOrder: the status is read again in the transaction, and the
\* deliveries of the order lose their links to it.
DeleteOrder(o) ==
  /\ OrderStands(o) /\ order[o].status \notin {"shipped", "delivered"}
  /\ order' = [order EXCEPT ![o] = [NoOrder EXCEPT !.status = "gone"]]
  /\ delivery' = [d \in Deliveries |->
       IF delivery[d].order = o THEN [delivery[d] EXCEPT !.order = None, !.covers = {}]
       ELSE delivery[d]]
  /\ UNCHANGED <<shop, req>>

-----------------------------------------------------------------------------
(* Deliveries.                                                             *)

\* CreateDelivery, requireShippableOrder: the order as read.
CreateDeliveryRead(c, d, o, covers) ==
  /\ delivery[d].status = "none"
  /\ OrderStands(o) /\ order[o].status \notin {"draft", "cancelled"}
  /\ Park(c, [op |-> "delivery", delivery |-> d, order |-> o, covers |-> covers])
  /\ UNCHANGED <<shop, desk>>

CreateDeliveryWrite(c, d, o, covers) ==
  /\ delivery[d].status = "none"
  /\ OrderStands(o) /\ covers \subseteq order[o].lines
  /\ Resume(c, [op |-> "delivery", delivery |-> d, order |-> o, covers |-> covers])
  /\ delivery' = [delivery EXCEPT ![d] = [status |-> "draft", order |-> o, covers |-> covers]]
  /\ UNCHANGED <<shop, order>>

\* UpdateDelivery with other lines: frozen once shipped.
UpdateDelivery(d, covers) ==
  /\ delivery[d].status \in {"draft", "cancelled"} /\ delivery[d].order # None
  /\ covers \subseteq order[delivery[d].order].lines
  /\ delivery' = [delivery EXCEPT ![d].covers = covers]
  /\ UNCHANGED <<shop, order, req>>

deliveryStatusTransitions == [draft |-> {"shipped", "cancelled"}, shipped |-> {"delivered", "cancelled"},
                              delivered |-> {}, cancelled |-> {}]

DeliveryStatusRead(c, d, to) ==
  /\ delivery[d].status \in DOMAIN deliveryStatusTransitions
  /\ to \in deliveryStatusTransitions[delivery[d].status]
  /\ Park(c, [op |-> "ship", delivery |-> d, order |-> delivery[d].order,
              from |-> delivery[d].status, to |-> to])
  /\ UNCHANGED <<shop, desk>>

\* orderFullyDeliveredTx: every line covered by deliveries that arrived.
FullyDelivered(o) ==
  /\ order[o].lines # {}
  /\ \A l \in order[o].lines : \E d \in Deliveries :
       delivery'[d].order = o /\ delivery'[d].status = "delivered" /\ l \in delivery'[d].covers

\* advanceOrderStatusToShippedTx, advanceOrderStatusToDeliveredTx
Advanced(o, to) ==
  CASE to = "shipped" /\ order[o].status = "confirmed" -> "shipped"
    [] to = "delivered" /\ order[o].status = "shipped" /\ FullyDelivered(o) -> "delivered"
    [] OTHER -> order[o].status

DeliveryStatusWrite(c, d, o, from, to) ==
  /\ Resume(c, [op |-> "ship", delivery |-> d, order |-> o, from |-> from, to |-> to])
  /\ delivery[d].status = from
  /\ delivery' = [delivery EXCEPT ![d].status = to]
  /\ order' = IF o # None /\ OrderStands(o) THEN [order EXCEPT ![o].status = Advanced(o, to)] ELSE order
  /\ UNCHANGED shop

DeleteDelivery(d) ==
  /\ delivery[d].status \in {"draft", "cancelled"}
  /\ delivery' = [delivery EXCEPT ![d] = [NoDelivery EXCEPT !.status = "gone"]]
  /\ UNCHANGED <<shop, order, req>>

-----------------------------------------------------------------------------
(* The specification.                                                      *)

Init ==
  /\ product = [p \in Products |->
       [there |-> TRUE, category |-> IF p \in Goods THEN "finished" ELSE "component",
        tracked |-> TRUE, serialized |-> FALSE, stock |-> 0, moved |-> FALSE]]
  /\ trail = [u \in Units |-> <<>>]
  /\ recipe = [f \in Goods |-> Empty] /\ versions = [f \in Goods |-> <<>>]
  /\ build = [b \in Builds |-> NoBuild]
  /\ net = [b \in Builds |-> [p \in Products |-> 0]]
  /\ order = [o \in Orders |-> NoOrder] /\ delivery = [d \in Deliveries |-> NoDelivery]
  /\ req = [c \in Clerks |-> Idle]

\* Handlers of one transaction.
Do ==
  \/ \E p \in Products, u \in Units, qty \in {-1, 1} :
       product[p].stock + qty \in 0..MaxStock /\ Move(p, u, qty)
  \/ \E p \in Products : DeleteProduct(p)
  \/ \E b \in Builds : DeleteBuild(b)
  \/ \E o \in Orders :
       \/ \E status \in OrderStatuses, lines \in NewLines : CreateOrder(o, status, lines)
       \/ \E lines \in SUBSET LineIds : UpdateOrder(o, lines)
       \/ DeleteOrder(o)
  \/ \E d \in Deliveries :
       \/ \E covers \in SUBSET LineIds : UpdateDelivery(d, covers)
       \/ DeleteDelivery(d)

\* Handlers that read first, up to their transaction.
Start(c) ==
  \/ \E p \in Goods, serialized \in BOOLEAN : UpdateProductRead(c, p, "finished", TRUE, serialized)
  \/ \E p \in Parts, category \in {"component", "finished"} : UpdateProductRead(c, p, category, TRUE, FALSE)
  \/ \E f \in Goods :
       /\ Len(versions[f]) < MaxVersions
       /\ \/ \E lines \in Recipes, batch \in Batches : ReplaceRead(c, f, lines, batch, FALSE)
          \/ \E i \in DOMAIN versions[f] : RestoreRead(c, f, i)
  \/ \E b \in Builds :
       \/ \E f \in Goods : CreateBuildRead(c, b, f)
       \/ \E serials \in SUBSET Units : BuildStatusRead(c, b, "completed", serials)
       \/ BuildStatusRead(c, b, "cancelled", {})
  \/ \E o \in Orders, to \in OrderStatuses : UpdateOrderStatusRead(c, o, to)
  \/ \E d \in Deliveries :
       \/ \E o \in Orders, covers \in SUBSET LineIds : CreateDeliveryRead(c, d, o, covers)
       \/ \E to \in OrderStatuses : DeliveryStatusRead(c, d, to)

\* Their transactions.
Finish(c) ==
  LET r == req[c]
  IN \/ r.op = "product" /\ UpdateProductWrite(c, r.product, r.category, r.tracked, r.serialized)
     \/ r.op = "recipe" /\ ReplaceWrite(c, r.product, r.lines, r.batch, r.record)
     \/ r.op = "build" /\ CreateBuildWrite(c, r.build, r.product, r.lines)
     \/ r.op = "status" /\ BuildStatusWrite(c, r.build, r.from, r.to, r.serials, r.serialized, r.enough)
     \/ r.op = "order" /\ UpdateOrderStatusWrite(c, r.order, r.from, r.to)
     \/ r.op = "delivery" /\ CreateDeliveryWrite(c, r.delivery, r.order, r.covers)
     \/ r.op = "ship" /\ DeliveryStatusWrite(c, r.delivery, r.order, r.from, r.to)
     \/ Fail(c)

Next == Do \/ \E c \in Clerks : Start(c) \/ Finish(c)

Spec == Init /\ [][Next]_vars

-----------------------------------------------------------------------------
(* Properties.                                                             *)

\* However overlapping requests complete and cancel it, a production order has
\* consumed and produced once while completed and nothing otherwise; only the
\* produced unit may stay behind, when serial tracking was switched after
\* (UpdateProductionOrderStatus).
BuildsMoveGoodsOnce ==
  \A b \in Builds :
    LET lines == build[b].lines
        f == build[b].product
        done == build[b].status = "completed"
    IN build[b].status \in {"draft", "completed", "cancelled"} =>
         /\ \A p \in DOMAIN lines \ {f} : net[b][p] = IF done THEN -lines[p] ELSE 0
         /\ net[b][f] = (IF done THEN 1 ELSE 0) \/ (build[b].status = "cancelled" /\ net[b][f] = 1)

\* A serialized unit is in stock once or not at all, whatever order builds are
\* completed and cancelled and units used in (lookupSerialNumbersTx,
\* serialInStockByIDTx).
UnitsExistOnce == \A u \in Units : Balance(u) \in {0, 1}

\* A recipe in force is one the history records, through racing saves,
\* restores and deletions (ReplaceBillOfMaterials, DeleteProduct).
RecipeOnRecord ==
  \A f \in Goods :
    recipe[f] # Empty => \E i \in DOMAIN versions[f] : versions[f][i].lines = recipe[f]

\* An order's status only ever takes a legal step, by hand or by its
\* deliveries: no overlap skips one or brings a delivered order back
\* (orderStatusTransitions).
OrdersFollowTheirPath ==
  [][\A o \in Orders :
       OrderStands(o) /\ order'[o].status \notin {order[o].status, "gone"} =>
         order'[o].status \in orderStatusTransitions[order[o].status]]_vars

\* Cancelling a production order takes back what it produced, or is refused
\* because "the unit(s) may have since shipped out"
\* (UpdateProductionOrderStatus).
CancelledBuildsNetToZero ==
  \A b \in Builds : build[b].status = "cancelled" => \A p \in Products : net[b][p] = 0

\* "a cancelled one shouldn't ship at all" (requireShippableOrder).
CancelledOrdersDontShip ==
  [][\A d \in Deliveries :
       delivery[d].status = "draft" /\ delivery'[d].status = "shipped" /\ delivery[d].order # None =>
         order[delivery[d].order].status # "cancelled"]_vars
=============================================================================
