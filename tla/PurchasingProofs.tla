-------------------------- MODULE PurchasingProofs --------------------------
(***************************************************************************)
(* What holds of orders, receipts and bills for any number of them, any    *)
(* lines, terms and requests in flight. The matching and the GRNI account  *)
(* add up quantities and values of sets of documents, and the proofs take  *)
(* one document out of such a sum, or split it by order line (SumsProofs). *)
(***************************************************************************)
EXTENDS Purchasing, SumsProofs

-----------------------------------------------------------------------------
(* Types.                                                                  *)

Placed == [st : InStatuses, line : Lines, qty : Nat \ {0}, price : Nat \ {0}]
MetTerms == [st : {"none"}, line : Lines, qty : Nat \ {0}, price : Nat \ {0}]
ReceiptRecord ==
  [st : {"none", "draft", "received", "cancelled"}, po : Orders \cup {None},
   line : Lines \cup {None}, qty : Nat, cost : Nat, accrued : Nat, met : {NoOrder} \cup MetTerms]
BillRecord ==
  [st : BillStates \cup {"none"}, line : Lines \cup {None}, qty : Nat, price : Nat,
   override : BOOLEAN, posted : BOOLEAN, cleared : Nat]
ItemRecord == [line : Lines \cup {None}, qty : Nat, cost : Nat]

DeleteRequest == [op : {"delete order"}, on : Orders]
EditRequest == [op : {"edit receipt"}, on : Receipts, po : Orders, lines : BOOLEAN]
StatusRequest ==
  [op : {"receipt status"}, on : Receipts, from : {"draft", "received"},
   to : {"received", "cancelled"}, item : ItemRecord]
BillRequest ==
  [op : {"bill state"}, on : Bills, to : BillStates, bill : {x \in BillRecord : x.st # "none"},
   cleared : Nat]
Request == {Idle} \cup DeleteRequest \cup EditRequest \cup StatusRequest \cup BillRequest

Typed ==
  /\ order \in [Orders -> {NoOrder} \cup Placed]
  /\ receipt \in [Receipts -> ReceiptRecord]
  /\ bill \in [Bills -> BillRecord]
  /\ req \in [Clients -> Request]
  /\ stale \in BOOLEAN

\* A line id is of one order.
LinesUnique ==
  \A o, p \in Orders : order[o].line = order[p].line /\ order[o].line # None => o = p

\* Receipts and bills name lines and orders that are there.
Linked ==
  /\ \A r \in Receipts : /\ receipt[r].line \in {None} \cup Held
                         /\ receipt[r].po \in {None} \cup {o \in Orders : order[o] # NoOrder}
  /\ \A b \in Bills : bill[b].line \in {None} \cup Held

BillsForSomething == \A b \in Bills : bill[b].st # "none" => bill[b].qty > 0

IInv == Typed /\ LinesUnique /\ Linked /\ BillsForSomething

\* The order of a line is on record.
LEMMA OrderOfLine ==
  ASSUME NEW l \in Held
  PROVE  /\ l # None /\ (CHOOSE o \in OrdersOf(l) : TRUE) \in Orders
         /\ order[CHOOSE o \in OrdersOf(l) : TRUE].line = l
<1>1. PICK o \in Orders : order[o].line = l /\ l # None
  BY DEF Held
<1>2. o \in OrdersOf(l)
  BY <1>1 DEF OrdersOf
<1>3. (CHOOSE p \in OrdersOf(l) : TRUE) \in OrdersOf(l)
  BY <1>2
<1> QED BY <1>1, <1>3 DEF OrdersOf

LEMMA HeldLines == ASSUME Typed PROVE Held \subseteq Lines
BY DEF Typed, Held, Placed, NoOrder

\* What a receipt line and a bill line are typed as.
LEMMA WithLineTyped ==
  ASSUME Typed, NEW x \in ReceiptRecord, NEW t \in ReceiptTerms,
         NEW l \in Links \cap (Held \cup {None}), NEW y, y = WithLine(x, l, t)
  PROVE  /\ y \in ReceiptRecord
         /\ y.st = x.st /\ y.po = x.po /\ y.line = l /\ y.accrued = x.accrued /\ y.met = x.met
         /\ y.qty = t.qty /\ y.cost = UnitCost(l, t)
<1>1. t.qty \in Nat \ {0} /\ t.cost \in Nat
  BY ConstantsAssumption
<1>2. UnitCost(l, t) \in Nat
  <2>1. CASE l \in Held
    <3>1. order[CHOOSE o \in OrdersOf(l) : TRUE].price \in Nat
      BY <2>1, OrderOfLine DEF Typed, Placed, NoOrder
    <3> QED BY <1>1, <3>1 DEF UnitCost
  <2>2. CASE l \notin Held
    BY <1>1, <2>2 DEF UnitCost
  <2> QED BY <2>1, <2>2
<1>3. l \in Lines \cup {None}
  BY HeldLines
<1> QED BY <1>1, <1>2, <1>3 DEF WithLine, ReceiptRecord

LEMMA BilledTyped ==
  ASSUME Typed, NEW x \in BillRecord, NEW t \in BillTerms, NEW override \in Overrides,
         NEW l \in Links \cap (Held \cup {None}), NEW y, y = Billed(x, l, t, override)
  PROVE  /\ y \in BillRecord
         /\ y.st = x.st /\ y.line = l /\ y.posted = x.posted /\ y.cleared = x.cleared
         /\ y.override = override /\ y.qty \in Nat \ {0}
<1>1. t.qty \in Nat \ {0} /\ t.price \in Nat \ {0} /\ override \in BOOLEAN
  BY ConstantsAssumption
<1>2. l \in Lines \cup {None}
  BY HeldLines
<1> QED BY <1>1, <1>2 DEF Billed, BillRecord

LEMMA ItemTyped == ASSUME Typed, NEW r \in Receipts PROVE ItemOf(r) \in ItemRecord
BY DEF Typed, ItemOf, ItemRecord, ReceiptRecord

\* The quantities that are added up are natural numbers.
LEMMA Quantities ==
  ASSUME Typed
  PROVE  /\ \A l, but : ClearedQty(l, but) \in Nat
         /\ \A l : MatchedQty(l) \in Nat /\ ReceivedQty(l) \in Nat /\ AccruedCents(l) \in Nat
<1>1. \A b \in Bills : BilledQty[b] \in Nat
  BY DEF Typed, BilledQty, BillRecord
<1>2. \A r \in Receipts : Quantity[r] \in Nat /\ Value[r] \in Nat
  BY DEF Typed, Quantity, Value, ReceiptRecord
<1>3. IsFiniteSet(Recorded) /\ Recorded \subseteq Bills /\ IsFiniteSet(Received) /\ Received \subseteq Receipts
  BY ConstantsAssumption, FS_Subset DEF Recorded, Received
<1>4. ASSUME NEW l, NEW but PROVE ClearedQty(l, but) \in Nat
  <2> DEFINE T == {b \in Recorded \ {but} : bill[b].line = l}
  <2>1. IsFiniteSet(T) /\ \A b \in T : BilledQty[b] \in Nat
    BY <1>1, <1>3, FS_Subset
  <2> HIDE DEF T
  <2>2. Total(BilledQty, T) \in Nat
    BY <2>1, TotalNat
  <2> QED BY <2>2 DEF ClearedQty, T
<1>5. ASSUME NEW l PROVE MatchedQty(l) \in Nat
  <2> DEFINE T == {b \in Recorded : bill[b].line = l /\ ~bill[b].override}
  <2>1. IsFiniteSet(T) /\ \A b \in T : BilledQty[b] \in Nat
    BY <1>1, <1>3, FS_Subset
  <2> HIDE DEF T
  <2>2. Total(BilledQty, T) \in Nat
    BY <2>1, TotalNat
  <2> QED BY <2>2 DEF MatchedQty, T
<1>6. ASSUME NEW l PROVE ReceivedQty(l) \in Nat /\ AccruedCents(l) \in Nat
  <2> DEFINE T == {r \in Received : receipt[r].line = l}
  <2>1. IsFiniteSet(T) /\ \A r \in T : Quantity[r] \in Nat /\ Value[r] \in Nat
    BY <1>2, <1>3, FS_Subset
  <2> HIDE DEF T
  <2>2. Total(Quantity, T) \in Nat /\ Total(Value, T) \in Nat
    BY <2>1, TotalNat
  <2> QED BY <2>2 DEF ReceivedQty, AccruedCents, T
<1> QED BY <1>4, <1>5, <1>6

LEMMA RoundedNat ==
  ASSUME NEW n \in Nat, NEW d \in Nat \ {0} PROVE RoundHalfUp(n, d) \in Nat
BY DEF RoundHalfUp

LEMMA ClearingTyped ==
  ASSUME Typed, NEW b \in Bills PROVE Clearing(b) \in Nat
<1> DEFINE l == bill[b].line
           first == SmallerOf(bill[b].qty, Less(ReceivedQty(l), ClearedQty(l, b)))
<1>1. ReceivedQty(l) \in Nat /\ ClearedQty(l, b) \in Nat /\ AccruedCents(l) \in Nat
  BY Quantities
<1>2. bill[b].qty \in Nat
  BY DEF Typed, BillRecord
<1>3. first \in Nat
  BY <1>1, <1>2 DEF SmallerOf, Less
<1>4. Clearing(b) = IF l = None \/ ReceivedQty(l) = 0 THEN 0
                    ELSE RoundHalfUp(first * AccruedCents(l), ReceivedQty(l))
  BY DEF Clearing
<1> HIDE DEF first, l
<1>5. first * AccruedCents(l) \in Nat
  BY <1>1, <1>3
<1> QED BY <1>1, <1>4, <1>5, RoundedNat

-----------------------------------------------------------------------------
(* The types are kept.                                                     *)

\* An order is placed, edited or deleted; its line is new or the one it had.
LEMMA OrderChange ==
  ASSUME IInv, NEW o \in Orders, NEW v \in {NoOrder} \cup Placed,
         order' = [order EXCEPT ![o] = v], v.line = order[o].line \/ v.line \notin Held
  PROVE  /\ order' \in [Orders -> {NoOrder} \cup Placed] /\ LinesUnique'
         /\ \A l \in Held : l # order[o].line \/ l = v.line => l \in Held'
         /\ \A p \in Orders : order[p] # NoOrder /\ (p = o => v # NoOrder) => order'[p] # NoOrder
<1>1. order' \in [Orders -> {NoOrder} \cup Placed]
  BY DEF IInv, Typed
<1>2. order'[o] = v /\ \A p \in Orders \ {o} : order'[p] = order[p]
  BY DEF IInv, Typed
<1>3. ASSUME NEW p \in Orders, NEW q \in Orders, order'[p].line = order'[q].line, order'[p].line # None
      PROVE  p = q
  <2>1. CASE p # o /\ q # o
    BY <1>2, <1>3, <2>1 DEF IInv, LinesUnique
  <2>2. ASSUME NEW x \in Orders \ {o}, order[x].line = v.line, v.line # None PROVE FALSE
    <3>1. v.line \in Held
      BY <2>2 DEF Held
    <3> QED BY <3>1, <2>2 DEF IInv, LinesUnique
  <2> QED BY <1>2, <1>3, <2>1, <2>2
<1>4. ASSUME NEW l \in Held, l # order[o].line \/ l = v.line PROVE l \in Held'
  <2>1. PICK p \in Orders : order[p].line = l /\ l # None
    BY DEF Held
  <2>2. \E q \in Orders : order'[q].line = l
    BY <1>2, <1>4, <2>1
  <2> QED BY <2>1, <2>2 DEF Held
<1> QED BY <1>1, <1>2, <1>3, <1>4 DEF LinesUnique

\* Documents keep everything but a line that goes.
LEMMA UnlinkedReceipts ==
  ASSUME Typed, NEW gone, NEW x, x = Unlinked(receipt, gone)
  PROVE  /\ x \in [Receipts -> ReceiptRecord]
         /\ \A r \in Receipts :
              /\ x[r].line = IF receipt[r].line = gone THEN None ELSE receipt[r].line
              /\ x[r].st = receipt[r].st /\ x[r].po = receipt[r].po /\ x[r].qty = receipt[r].qty
              /\ x[r].cost = receipt[r].cost /\ x[r].accrued = receipt[r].accrued
              /\ x[r].met = receipt[r].met
<1>1. DOMAIN x = Receipts
  BY DEF Unlinked, Typed
<1>2. ASSUME NEW r \in Receipts
      PROVE  /\ x[r] \in ReceiptRecord
             /\ x[r].line = IF receipt[r].line = gone THEN None ELSE receipt[r].line
             /\ x[r].st = receipt[r].st /\ x[r].po = receipt[r].po /\ x[r].qty = receipt[r].qty
             /\ x[r].cost = receipt[r].cost /\ x[r].accrued = receipt[r].accrued
             /\ x[r].met = receipt[r].met
  <2>1. receipt[r] \in ReceiptRecord
    BY DEF Typed
  <2>2. x[r] = IF receipt[r].line = gone THEN [receipt[r] EXCEPT !.line = None] ELSE receipt[r]
    BY DEF Unlinked, Typed
  <2> QED BY <2>1, <2>2 DEF ReceiptRecord
<1>3. x = [r \in Receipts |-> x[r]]
  BY <1>1 DEF Unlinked
<1> QED BY <1>2, <1>3

LEMMA UnlinkedBills ==
  ASSUME Typed, NEW gone, NEW x, x = Unlinked(bill, gone)
  PROVE  /\ x \in [Bills -> BillRecord]
         /\ \A b \in Bills :
              /\ x[b].line = IF bill[b].line = gone THEN None ELSE bill[b].line
              /\ x[b].st = bill[b].st /\ x[b].qty = bill[b].qty /\ x[b].price = bill[b].price
              /\ x[b].override = bill[b].override /\ x[b].posted = bill[b].posted
              /\ x[b].cleared = bill[b].cleared
<1>1. DOMAIN x = Bills
  BY DEF Unlinked, Typed
<1>2. ASSUME NEW b \in Bills
      PROVE  /\ x[b] \in BillRecord
             /\ x[b].line = IF bill[b].line = gone THEN None ELSE bill[b].line
             /\ x[b].st = bill[b].st /\ x[b].qty = bill[b].qty /\ x[b].price = bill[b].price
             /\ x[b].override = bill[b].override /\ x[b].posted = bill[b].posted
             /\ x[b].cleared = bill[b].cleared
  <2>1. bill[b] \in BillRecord
    BY DEF Typed
  <2>2. x[b] = IF bill[b].line = gone THEN [bill[b] EXCEPT !.line = None] ELSE bill[b]
    BY DEF Unlinked, Typed
  <2> QED BY <2>1, <2>2 DEF BillRecord
<1>3. x = [b \in Bills |-> x[b]]
  BY <1>1 DEF Unlinked
<1> QED BY <1>2, <1>3

\* What a request keeps and drops.
LEMMA Requests ==
  ASSUME Typed, NEW c \in Clients
  PROVE  /\ Unread(c) => req' \in [Clients -> Request]
         /\ \A q \in Request : Park(c, q) => req' \in [Clients -> Request]
         /\ \A op : Resume(c, op) => req' \in [Clients -> Request]
         /\ Resume(c, "delete order") => req[c] \in DeleteRequest
         /\ Resume(c, "edit receipt") => req[c] \in EditRequest
         /\ Resume(c, "receipt status") => req[c] \in StatusRequest
         /\ Resume(c, "bill state") => req[c] \in BillRequest
<1>1. req \in [Clients -> Request] /\ Idle \in Request
  BY DEF Typed, Request
<1>2. /\ Unread(c) => req' \in [Clients -> Request]
      /\ \A q \in Request : Park(c, q) => req' \in [Clients -> Request]
      /\ \A op : Resume(c, op) => req' \in [Clients -> Request]
  BY <1>1 DEF Unread, Park, Resume
<1>3. /\ req[c].op = "delete order" => req[c] \in DeleteRequest
      /\ req[c].op = "edit receipt" => req[c] \in EditRequest
      /\ req[c].op = "receipt status" => req[c] \in StatusRequest
      /\ req[c].op = "bill state" => req[c] \in BillRequest
  <2>1. /\ Idle.op = "idle"
        /\ \A q \in DeleteRequest : q.op = "delete order"
        /\ \A q \in EditRequest : q.op = "edit receipt"
        /\ \A q \in StatusRequest : q.op = "receipt status"
        /\ \A q \in BillRequest : q.op = "bill state"
    BY DEF Idle, DeleteRequest, EditRequest, StatusRequest, BillRequest
  <2> QED BY <1>1, <2>1 DEF Request
<1> QED BY <1>2, <1>3 DEF Resume

\* The documents follow an order that changes: what names its old line, or the
\* order itself, does so only while it is there.
ReceiptsFollow(o, v) ==
  \A r \in Receipts :
    /\ \/ receipt'[r].line = None
       \/ /\ receipt'[r].line = receipt[r].line
          /\ receipt[r].line # order[o].line \/ receipt[r].line = v.line
    /\ \/ receipt'[r].po = None
       \/ /\ receipt'[r].po = receipt[r].po
          /\ receipt[r].po = o => v # NoOrder

BillsFollow(o, v) ==
  \A b \in Bills :
    /\ \/ bill'[b].line = None
       \/ /\ bill'[b].line = bill[b].line
          /\ bill[b].line # order[o].line \/ bill[b].line = v.line
    /\ bill'[b].st = bill[b].st /\ bill'[b].qty = bill[b].qty

DocumentsTyped ==
  /\ receipt' \in [Receipts -> ReceiptRecord] /\ bill' \in [Bills -> BillRecord]
  /\ req' \in [Clients -> Request] /\ stale' \in BOOLEAN

LEMMA FollowsOrder ==
  ASSUME IInv, NEW o \in Orders, NEW v \in {NoOrder} \cup Placed,
         order' = [order EXCEPT ![o] = v], v.line = order[o].line \/ v.line \notin Held,
         DocumentsTyped, ReceiptsFollow(o, v), BillsFollow(o, v)
  PROVE  IInv'
<1>1. /\ order' \in [Orders -> {NoOrder} \cup Placed] /\ LinesUnique'
      /\ \A l \in Held : l # order[o].line \/ l = v.line => l \in Held'
      /\ \A p \in Orders : order[p] # NoOrder /\ (p = o => v # NoOrder) => order'[p] # NoOrder
  BY OrderChange
<1>2. ASSUME NEW r \in Receipts
      PROVE  /\ receipt'[r].line \in {None} \cup Held'
             /\ receipt'[r].po \in {None} \cup {p \in Orders : order'[p] # NoOrder}
  <2>1. receipt[r].line \in {None} \cup Held /\ receipt[r].po \in {None} \cup {p \in Orders : order[p] # NoOrder}
    BY DEF IInv, Linked
  <2>2. receipt'[r].line \in {None} \cup Held'
    BY <1>1, <2>1 DEF ReceiptsFollow
  <2>3. receipt'[r].po \in {None} \cup {p \in Orders : order'[p] # NoOrder}
    BY <1>1, <2>1 DEF ReceiptsFollow
  <2> QED BY <2>2, <2>3
<1>3. ASSUME NEW b \in Bills PROVE bill'[b].line \in {None} \cup Held'
  BY <1>1 DEF IInv, Linked, BillsFollow
<1>4. BillsForSomething'
  BY DEF IInv, BillsForSomething, BillsFollow
<1> QED BY <1>1, <1>2, <1>3, <1>4 DEF IInv, Typed, DocumentsTyped, Linked

\* The orders stay, and the documents name what is there.
LEMMA OrdersStay ==
  ASSUME IInv, order' = order, DocumentsTyped,
         \A r \in Receipts : /\ receipt'[r].line \in {None} \cup Held
                             /\ receipt'[r].po \in {None} \cup {o \in Orders : order[o] # NoOrder},
         \A b \in Bills : bill'[b].line \in {None} \cup Held,
         BillsForSomething'
  PROVE  IInv'
<1>1. Held' = Held
  BY DEF Held
<1>2. LinesUnique'
  BY DEF IInv, LinesUnique
<1>3. Linked'
  BY <1>1 DEF Linked
<1>4. Typed'
  BY DEF IInv, Typed, DocumentsTyped
<1> QED BY <1>2, <1>3, <1>4 DEF IInv

\* The terms of a line are those of its order.
LEMMA MetTyped ==
  ASSUME Typed, NEW l \in Held \cup {None}
  PROVE  Met(l) \in {NoOrder} \cup MetTerms
<1>1. CASE OrdersOf(l) = {}
  BY <1>1 DEF Met
<1>2. CASE OrdersOf(l) # {}
  <2> DEFINE o == CHOOSE p \in OrdersOf(l) : TRUE
  <2>1. o \in OrdersOf(l)
    BY <1>2
  <2>2. o \in Orders /\ l # None /\ order[o].line = l
    BY <2>1 DEF OrdersOf
  <2>3. Met(l) = [order[o] EXCEPT !.st = "none"]
    BY <1>2 DEF Met
  <2> HIDE DEF o
  <2>4. order[o] \in Placed
    BY <2>2 DEF Typed, NoOrder
  <2> QED BY <2>3, <2>4 DEF Placed, MetTerms
<1> QED BY <1>1, <1>2

LEMMA CreateOrderIInv ==
  ASSUME IInv, NEW c \in Clients, NEW o \in Orders, NEW t \in OrderTerms, NEW st \in InStatuses,
         CreatePurchaseOrder(c, o, st, t)
  PROVE  IInv'
<1>1. PICK l \in Lines \ Held : order' = [order EXCEPT ![o] = Order(st, l, t)]
  BY DEF CreatePurchaseOrder
<1>2. Order(st, l, t) \in Placed /\ Order(st, l, t).line = l /\ order[o] = NoOrder
  BY ConstantsAssumption DEF Order, Placed, CreatePurchaseOrder
<1>3. UNCHANGED <<receipt, bill, stale>> /\ req' \in [Clients -> Request]
  BY Requests DEF CreatePurchaseOrder, IInv
<1> DEFINE v == Order(st, l, t)
<1>4. v \in {NoOrder} \cup Placed /\ order' = [order EXCEPT ![o] = v] /\ v.line \notin Held
  BY <1>1, <1>2
<1>5. order[o].line = None /\ v # NoOrder /\ None \notin Held
  BY <1>2, ConstantsAssumption DEF NoOrder, Placed, Held
<1> HIDE DEF v
<1>6. DocumentsTyped
  BY <1>3 DEF IInv, Typed, DocumentsTyped
<1>7. ReceiptsFollow(o, v) /\ BillsFollow(o, v)
  BY <1>3, <1>5 DEF ReceiptsFollow, BillsFollow, IInv, Linked
<1> QED BY <1>4, <1>6, <1>7, FollowsOrder

LEMMA UpdateOrderIInv ==
  ASSUME IInv, NEW c \in Clients, NEW o \in Orders, NEW t \in OrderTerms, NEW l \in Lines,
         UpdatePurchaseOrder(c, o, l, t)
  PROVE  IInv'
<1> DEFINE v == Order(order[o].st, l, t)
<1>1. order[o] \in Placed
  BY DEF IInv, Typed, UpdatePurchaseOrder
<1>2. v \in Placed /\ v.line = l /\ v # NoOrder
  BY <1>1, ConstantsAssumption DEF Order, Placed, NoOrder
<1>3. order' = [order EXCEPT ![o] = v] /\ (l = order[o].line \/ l \notin Held)
  BY DEF UpdatePurchaseOrder, ReplaceLine
<1>4. stale' \in BOOLEAN /\ req' \in [Clients -> Request]
  BY Requests DEF UpdatePurchaseOrder, IInv, Typed
<1> HIDE DEF v
<1>5. CASE l = order[o].line
  <2>1. UNCHANGED <<receipt, bill>>
    BY <1>5 DEF UpdatePurchaseOrder, ReplaceLine
  <2>2. DocumentsTyped
    BY <1>4, <2>1 DEF IInv, Typed, DocumentsTyped
  <2>3. ReceiptsFollow(o, v) /\ BillsFollow(o, v)
    BY <1>2, <1>5, <2>1 DEF ReceiptsFollow, BillsFollow
  <2> QED BY <1>2, <1>3, <2>2, <2>3, FollowsOrder
<1>6. CASE l # order[o].line
  <2>1. receipt' = Unlinked(receipt, order[o].line) /\ bill' = Unlinked(bill, order[o].line)
    BY <1>6 DEF UpdatePurchaseOrder, ReplaceLine
  <2>2. /\ receipt' \in [Receipts -> ReceiptRecord]
        /\ \A r \in Receipts :
             /\ receipt'[r].line = IF receipt[r].line = order[o].line THEN None ELSE receipt[r].line
             /\ receipt'[r].po = receipt[r].po
    BY <2>1, UnlinkedReceipts DEF IInv
  <2>3. /\ bill' \in [Bills -> BillRecord]
        /\ \A b \in Bills :
             /\ bill'[b].line = IF bill[b].line = order[o].line THEN None ELSE bill[b].line
             /\ bill'[b].st = bill[b].st /\ bill'[b].qty = bill[b].qty
    BY <2>1, UnlinkedBills DEF IInv
  <2>4. DocumentsTyped
    BY <1>4, <2>2, <2>3 DEF DocumentsTyped
  <2>5. ReceiptsFollow(o, v) /\ BillsFollow(o, v)
    BY <1>2, <2>2, <2>3 DEF ReceiptsFollow, BillsFollow
  <2> QED BY <1>2, <1>3, <2>4, <2>5, FollowsOrder
<1> QED BY <1>5, <1>6

LEMMA OrderStatusIInv ==
  ASSUME IInv, NEW c \in Clients, NEW o \in Orders, NEW st \in InStatuses,
         UpdatePurchaseOrderStatus(c, o, st)
  PROVE  IInv'
<1>1. order[o] \in Placed
  BY ConstantsAssumption DEF IInv, Typed, UpdatePurchaseOrderStatus, OrderMoves, NoOrder
<1> DEFINE v == [order[o] EXCEPT !.st = st]
<1>2. v \in Placed /\ v.line = order[o].line
  BY <1>1 DEF Placed
<1>3. v # NoOrder
  BY <1>2, ConstantsAssumption DEF Placed, NoOrder
<1>4. order' = [order EXCEPT ![o] = v] /\ UNCHANGED <<receipt, bill, stale>>
  BY DEF UpdatePurchaseOrderStatus
<1>5. req' \in [Clients -> Request]
  BY Requests DEF UpdatePurchaseOrderStatus, IInv
<1>6. DocumentsTyped
  BY <1>4, <1>5 DEF IInv, Typed, DocumentsTyped
<1> HIDE DEF v
<1>7. ReceiptsFollow(o, v) /\ BillsFollow(o, v)
  BY <1>2, <1>3, <1>4 DEF ReceiptsFollow, BillsFollow
<1> QED BY <1>2, <1>4, <1>6, <1>7, FollowsOrder

\* What a deletion leaves of the receipts.
Left(o) ==
  [r \in Receipts |-> LET x == Unlinked(receipt, order[o].line)[r] IN
     IF x.po = o THEN [x EXCEPT !.po = None] ELSE x]

LEMMA DeletedOrderReceipts ==
  ASSUME Typed, NEW o \in Orders, receipt' = Left(o)
  PROVE  /\ receipt' \in [Receipts -> ReceiptRecord]
         /\ \A r \in Receipts :
              /\ receipt'[r].line = IF receipt[r].line = order[o].line THEN None ELSE receipt[r].line
              /\ receipt'[r].po = IF receipt[r].po = o THEN None ELSE receipt[r].po
              /\ receipt'[r].st = receipt[r].st /\ receipt'[r].qty = receipt[r].qty
              /\ receipt'[r].cost = receipt[r].cost /\ receipt'[r].accrued = receipt[r].accrued
              /\ receipt'[r].met = receipt[r].met
<1> DEFINE x == Unlinked(receipt, order[o].line)
<1>1. /\ x \in [Receipts -> ReceiptRecord]
      /\ \A r \in Receipts :
           /\ x[r].line = IF receipt[r].line = order[o].line THEN None ELSE receipt[r].line
           /\ x[r].st = receipt[r].st /\ x[r].po = receipt[r].po /\ x[r].qty = receipt[r].qty
           /\ x[r].cost = receipt[r].cost /\ x[r].accrued = receipt[r].accrued
           /\ x[r].met = receipt[r].met
  BY UnlinkedReceipts
<1>2. receipt' = [r \in Receipts |-> IF x[r].po = o THEN [x[r] EXCEPT !.po = None] ELSE x[r]]
  BY DEF Left
<1> HIDE DEF x
<1>3. ASSUME NEW r \in Receipts
      PROVE  /\ receipt'[r] \in ReceiptRecord
             /\ receipt'[r].line = x[r].line /\ receipt'[r].st = x[r].st
             /\ receipt'[r].po = IF x[r].po = o THEN None ELSE x[r].po
             /\ receipt'[r].qty = x[r].qty /\ receipt'[r].cost = x[r].cost
             /\ receipt'[r].accrued = x[r].accrued /\ receipt'[r].met = x[r].met
  <2>1. x[r] \in ReceiptRecord /\ receipt'[r] = IF x[r].po = o THEN [x[r] EXCEPT !.po = None] ELSE x[r]
    BY <1>1, <1>2
  <2> QED BY <2>1 DEF ReceiptRecord
<1> QED BY <1>1, <1>2, <1>3

LEMMA DeleteOrderIInv ==
  ASSUME IInv, NEW c \in Clients, DeletePurchaseOrderWrite(c)
  PROVE  IInv'
<1> DEFINE o == req[c].on
<1>1. o \in Orders /\ req' \in [Clients -> Request] /\ stale' = stale
  <2>1. req' \in [Clients -> Request] /\ req[c] \in DeleteRequest
    BY Requests DEF DeletePurchaseOrderWrite, IInv
  <2> QED BY <2>1 DEF DeleteRequest, DeletePurchaseOrderWrite
<1>2. CASE FreezingReceipts(o) # {}
  <2>1. UNCHANGED <<order, receipt, bill>>
    BY <1>2 DEF DeletePurchaseOrderWrite
  <2>2. DocumentsTyped /\ BillsForSomething'
    BY <1>1, <2>1 DEF IInv, Typed, DocumentsTyped, BillsForSomething
  <2> QED BY <2>1, <2>2, OrdersStay DEF IInv, Linked
<1>3. CASE FreezingReceipts(o) = {}
  <2>1. /\ order' = [order EXCEPT ![o] = NoOrder] /\ bill' = Unlinked(bill, order[o].line)
        /\ receipt' = Left(o)
    BY <1>3 DEF DeletePurchaseOrderWrite, Left
  <2> HIDE DEF o
  <2>2. /\ receipt' \in [Receipts -> ReceiptRecord]
        /\ \A r \in Receipts :
             /\ receipt'[r].line = IF receipt[r].line = order[o].line THEN None ELSE receipt[r].line
             /\ receipt'[r].po = IF receipt[r].po = o THEN None ELSE receipt[r].po
    BY <1>1, <2>1, DeletedOrderReceipts DEF IInv
  <2>3. /\ bill' \in [Bills -> BillRecord]
        /\ \A b \in Bills :
             /\ bill'[b].line = IF bill[b].line = order[o].line THEN None ELSE bill[b].line
             /\ bill'[b].st = bill[b].st /\ bill'[b].qty = bill[b].qty
    BY <2>1, UnlinkedBills DEF IInv
  <2>4. NoOrder.line = None /\ None \notin Held
    BY DEF NoOrder, Held
  <2>5. DocumentsTyped
    BY <1>1, <2>2, <2>3 DEF IInv, Typed, DocumentsTyped
  <2>6. ReceiptsFollow(o, NoOrder) /\ BillsFollow(o, NoOrder)
    BY <2>2, <2>3 DEF ReceiptsFollow, BillsFollow
  <2> QED BY <1>1, <2>1, <2>4, <2>5, <2>6, FollowsOrder
<1> QED BY <1>2, <1>3

LEMMA CreateReceiptIInv ==
  ASSUME IInv, NEW c \in Clients, NEW r \in Receipts, NEW o \in Orders \cup {None}, NEW l \in Links,
         NEW t \in ReceiptTerms, CreateInboundDelivery(c, r, o, l, t)
  PROVE  IInv'
<1> DEFINE x == [NoReceipt EXCEPT !.st = "draft", !.po = o]
           y == WithLine(x, l, t)
<1>1. l \in Links \cap (Held \cup {None}) /\ (o # None => order[o] # NoOrder)
  BY DEF CreateInboundDelivery
<1>2. x \in ReceiptRecord /\ x.po = o
  BY DEF NoReceipt, ReceiptRecord
<1>3. receipt' = [receipt EXCEPT ![r] = y] /\ UNCHANGED <<order, bill, stale>>
  BY DEF CreateInboundDelivery
<1> HIDE DEF x
<1>4. y \in ReceiptRecord /\ y.line = l /\ y.po = o
  BY <1>1, <1>2, WithLineTyped DEF IInv
<1> HIDE DEF y
<1>5. DocumentsTyped /\ BillsForSomething'
  <2>1. req' \in [Clients -> Request]
    <3>1. Typed /\ Unread(c)
      BY DEF IInv, CreateInboundDelivery
    <3> QED BY <3>1, Requests
  <2>2. receipt' \in [Receipts -> ReceiptRecord]
    BY <1>3, <1>4 DEF IInv, Typed
  <2>3. bill' = bill /\ stale' = stale
    BY <1>3
  <2> QED BY <2>1, <2>2, <2>3 DEF IInv, Typed, DocumentsTyped, BillsForSomething
<1>6. ASSUME NEW q \in Receipts
      PROVE  /\ receipt'[q].line \in {None} \cup Held
             /\ receipt'[q].po \in {None} \cup {p \in Orders : order[p] # NoOrder}
  <2>1. receipt'[q] = IF q = r THEN y ELSE receipt[q]
    BY <1>3 DEF IInv, Typed
  <2> QED BY <1>1, <1>4, <2>1 DEF IInv, Linked
<1> QED BY <1>3, <1>5, <1>6, OrdersStay DEF IInv, Linked

LEMMA EditReceiptIInv ==
  ASSUME IInv, NEW c \in Clients, NEW l \in Links, NEW t \in ReceiptTerms,
         UpdateInboundDeliveryWrite(c, l, t)
  PROVE  IInv'
<1> DEFINE r == req[c].on
           o == req[c].po
           lines == req[c].lines
<1>1. r \in Receipts /\ o \in Orders /\ req' \in [Clients -> Request]
  BY Requests DEF IInv, UpdateInboundDeliveryWrite, EditRequest
<1>2. UNCHANGED <<order, bill>> /\ BillsForSomething'
  BY DEF IInv, BillsForSomething, UpdateInboundDeliveryWrite
<1>3. l \in Links \cap (Held \cup {None}) /\ receipt[r] \in ReceiptRecord
  BY <1>1 DEF IInv, Typed, UpdateInboundDeliveryWrite
<1>4. CASE receipt[r] = NoReceipt \/ order[o] = NoOrder
  <2>1. UNCHANGED <<receipt, stale>>
    BY <1>4 DEF UpdateInboundDeliveryWrite
  <2>2. DocumentsTyped
    BY <1>1, <1>2, <2>1 DEF IInv, Typed, DocumentsTyped
  <2> QED BY <1>2, <2>1, <2>2, OrdersStay DEF IInv, Linked
<1>5. CASE ~(receipt[r] = NoReceipt \/ order[o] = NoOrder)
  <2>1. PICK y \in ReceiptRecord :
          receipt' = [receipt EXCEPT ![r] = y] /\ y.line \in {None} \cup Held /\ y.po = o
    <3>1. CASE lines
      <4> DEFINE met == IF receipt[r].st = "received" THEN Met(l) ELSE receipt[r].met
                 x == [receipt[r] EXCEPT !.po = o, !.met = met]
                 y == WithLine(x, l, t)
      <4>1. met \in {NoOrder} \cup MetTerms
        BY <1>3, MetTyped DEF IInv, ReceiptRecord
      <4>2. x \in ReceiptRecord /\ x.po = o
        <5> HIDE DEF met
        <5> QED BY <1>1, <1>3, <4>1 DEF ReceiptRecord
      <4>3. receipt' = [receipt EXCEPT ![r] = y]
        BY <1>5, <3>1 DEF UpdateInboundDeliveryWrite
      <4> HIDE DEF x
      <4>4. y \in ReceiptRecord /\ y.line = l /\ y.po = o
        BY <1>3, <4>2, WithLineTyped DEF IInv
      <4> QED BY <1>3, <4>3, <4>4
    <3>2. CASE ~lines
      <4> DEFINE y == [receipt[r] EXCEPT !.po = o]
      <4>1. receipt' = [receipt EXCEPT ![r] = y]
        BY <1>5, <3>2 DEF UpdateInboundDeliveryWrite
      <4>2. y \in ReceiptRecord /\ y.po = o /\ y.line = receipt[r].line
        BY <1>1, <1>3 DEF ReceiptRecord
      <4> QED BY <1>1, <4>1, <4>2 DEF IInv, Linked
    <3> QED BY <3>1, <3>2
  <2>2. stale' \in BOOLEAN
    BY <1>5 DEF IInv, Typed, UpdateInboundDeliveryWrite
  <2> HIDE DEF r, o, lines
  <2>3. DocumentsTyped
    BY <1>1, <1>2, <2>1, <2>2 DEF IInv, Typed, DocumentsTyped
  <2>4. ASSUME NEW q \in Receipts
        PROVE  /\ receipt'[q].line \in {None} \cup Held
               /\ receipt'[q].po \in {None} \cup {p \in Orders : order[p] # NoOrder}
    <3>1. receipt'[q] = IF q = r THEN y ELSE receipt[q]
      BY <2>1 DEF IInv, Typed
    <3> QED BY <1>1, <1>5, <2>1, <3>1 DEF IInv, Linked
  <2> QED BY <1>2, <2>3, <2>4, OrdersStay DEF IInv, Linked
<1> QED BY <1>4, <1>5

LEMMA DeleteReceiptIInv ==
  ASSUME IInv, NEW c \in Clients, NEW r \in Receipts, DeleteInboundDelivery(c, r)
  PROVE  IInv'
<1>1. receipt' = [receipt EXCEPT ![r] = NoReceipt] /\ UNCHANGED <<order, bill, stale>>
  BY DEF DeleteInboundDelivery
<1>2. NoReceipt \in ReceiptRecord /\ NoReceipt.line = None /\ NoReceipt.po = None
  BY DEF NoReceipt, ReceiptRecord
<1>3. DocumentsTyped /\ BillsForSomething'
  BY <1>1, <1>2, Requests DEF IInv, Typed, DocumentsTyped, BillsForSomething, DeleteInboundDelivery
<1>4. ASSUME NEW q \in Receipts
      PROVE  /\ receipt'[q].line \in {None} \cup Held
             /\ receipt'[q].po \in {None} \cup {p \in Orders : order[p] # NoOrder}
  <2>1. receipt'[q] = IF q = r THEN NoReceipt ELSE receipt[q]
    BY <1>1 DEF IInv, Typed
  <2> QED BY <1>2, <2>1 DEF IInv, Linked
<1> QED BY <1>1, <1>3, <1>4, OrdersStay DEF IInv, Linked

LEMMA ReceiptStatusIInv ==
  ASSUME IInv, NEW c \in Clients, UpdateInboundDeliveryStatusWrite(c)
  PROVE  IInv'
<1> DEFINE r == req[c].on
           item == req[c].item
           to == req[c].to
<1>1. /\ r \in Receipts /\ item \in ItemRecord /\ to \in {"received", "cancelled"}
      /\ req' \in [Clients -> Request]
  BY Requests DEF IInv, UpdateInboundDeliveryStatusWrite, StatusRequest
<1>2. UNCHANGED <<order, bill>> /\ BillsForSomething'
  BY DEF IInv, BillsForSomething, UpdateInboundDeliveryStatusWrite
<1>3. PICK y \in ReceiptRecord :
        /\ receipt' = [receipt EXCEPT ![r] = y]
        /\ y.line = receipt[r].line /\ y.po = receipt[r].po
  <2>1. receipt[r] \in ReceiptRecord
    BY <1>1 DEF IInv, Typed
  <2>2. CASE receipt' = receipt
    <3>1. receipt' = [receipt EXCEPT ![r] = receipt[r]]
      BY <1>1, <2>2 DEF IInv, Typed
    <3> QED BY <2>1, <3>1
  <2>3. CASE receipt' # receipt
    <3> DEFINE acc == IF to = "received" THEN Accrual(item) ELSE 0
               met == IF to = "received" THEN Met(receipt[r].line) ELSE NoOrder
               y == [receipt[r] EXCEPT !.st = to, !.accrued = acc, !.met = met]
    <3>1. acc \in Nat
      BY <1>1 DEF Accrual, ItemRecord
    <3>2. met \in {NoOrder} \cup MetTerms
      BY MetTyped, <1>1 DEF IInv, Linked
    <3>3. receipt' = [receipt EXCEPT ![r] = y]
      BY <2>3 DEF UpdateInboundDeliveryStatusWrite
    <3> HIDE DEF acc, met
    <3>4. y \in ReceiptRecord /\ y.line = receipt[r].line /\ y.po = receipt[r].po
      BY <1>1, <2>1, <3>1, <3>2 DEF ReceiptRecord
    <3> QED BY <3>3, <3>4
  <2> QED BY <2>2, <2>3
<1>4. stale' \in BOOLEAN
  BY DEF IInv, Typed, UpdateInboundDeliveryStatusWrite
<1> HIDE DEF r, item, to
<1>5. DocumentsTyped
  BY <1>1, <1>2, <1>3, <1>4 DEF IInv, Typed, DocumentsTyped
<1>6. ASSUME NEW q \in Receipts
      PROVE  /\ receipt'[q].line \in {None} \cup Held
             /\ receipt'[q].po \in {None} \cup {p \in Orders : order[p] # NoOrder}
  <2>1. receipt'[q] = IF q = r THEN y ELSE receipt[q]
    BY <1>3 DEF IInv, Typed
  <2> QED BY <1>1, <1>3, <2>1 DEF IInv, Linked
<1> QED BY <1>2, <1>5, <1>6, OrdersStay DEF IInv, Linked

\* One bill changes.
LEMMA BillChange ==
  ASSUME IInv, NEW b \in Bills, NEW y \in BillRecord, bill' = [bill EXCEPT ![b] = y],
         y.line \in {None} \cup Held, y.st # "none" => y.qty > 0,
         UNCHANGED <<order, receipt>>, req' \in [Clients -> Request], stale' \in BOOLEAN
  PROVE  IInv'
<1>1. \A d \in Bills : bill'[d] = IF d = b THEN y ELSE bill[d]
  BY DEF IInv, Typed
<1>2. DocumentsTyped
  BY DEF IInv, Typed, DocumentsTyped
<1>3. BillsForSomething'
  BY <1>1 DEF IInv, BillsForSomething
<1>4. \A d \in Bills : bill'[d].line \in {None} \cup Held
  BY <1>1 DEF IInv, Linked
<1> QED BY <1>2, <1>3, <1>4, OrdersStay DEF IInv, Linked

LEMMA CreateBillIInv ==
  ASSUME IInv, NEW c \in Clients, NEW b \in Bills, NEW st \in CreatedAs, NEW l \in Links,
         NEW t \in BillTerms, NEW override \in Overrides,
         CreateIncomingInvoice(c, b, st, l, t, override)
  PROVE  IInv'
<1> DEFINE x == [NoBill EXCEPT !.st = st]
           y == Billed(x, l, t, override)
<1>1. x \in BillRecord
  BY ConstantsAssumption DEF NoBill, BillRecord, BillStates
<1>2. l \in Links \cap (Held \cup {None}) /\ bill' = [bill EXCEPT ![b] = y]
  BY DEF CreateIncomingInvoice
<1>3. UNCHANGED <<order, receipt, stale>> /\ req' \in [Clients -> Request]
  BY Requests DEF CreateIncomingInvoice, IInv
<1> HIDE DEF x
<1>4. y \in BillRecord /\ y.line = l /\ y.qty \in Nat \ {0}
  BY <1>1, <1>2, BilledTyped DEF IInv
<1> HIDE DEF y
<1>5. y.line \in {None} \cup Held /\ y.qty > 0
  BY <1>2, <1>4
<1>6. stale' \in BOOLEAN
  BY <1>3 DEF IInv, Typed
<1> QED BY <1>2, <1>3, <1>4, <1>5, <1>6, BillChange

LEMMA UpdateBillIInv ==
  ASSUME IInv, NEW c \in Clients, NEW b \in Bills, NEW l \in Links,
         NEW t \in BillTerms, NEW override \in Overrides,
         UpdateIncomingInvoice(c, b, l, t, override)
  PROVE  IInv'
<1> DEFINE y == Billed(bill[b], l, t, override)
<1>1. bill[b] \in BillRecord
  BY DEF IInv, Typed
<1>2. l \in Links \cap (Held \cup {None}) /\ bill' = [bill EXCEPT ![b] = y]
  BY DEF UpdateIncomingInvoice, BillEditable
<1>3. UNCHANGED <<order, receipt, stale>> /\ req' \in [Clients -> Request]
  BY Requests DEF UpdateIncomingInvoice, IInv
<1>4. y \in BillRecord /\ y.line = l /\ y.qty \in Nat \ {0}
  BY <1>1, <1>2, BilledTyped DEF IInv
<1> HIDE DEF y
<1>5. y.line \in {None} \cup Held /\ y.qty > 0
  BY <1>2, <1>4
<1>6. stale' \in BOOLEAN
  BY <1>3 DEF IInv, Typed
<1> QED BY <1>2, <1>3, <1>4, <1>5, <1>6, BillChange

\* What a change of state makes of the bill.
LEMMA BillStateWritten ==
  ASSUME Typed, NEW c \in Clients, UpdateIncomingInvoiceStateWrite(c)
  PROVE  /\ req[c].on \in Bills /\ req[c].to \in BillStates /\ req' \in [Clients -> Request]
         /\ \E y \in BillRecord :
              /\ bill' = [bill EXCEPT ![req[c].on] = y]
              /\ y.st = IF bill[req[c].on].st = "none" THEN "none" ELSE req[c].to
              /\ y.line = bill[req[c].on].line /\ y.qty = bill[req[c].on].qty
              /\ y.price = bill[req[c].on].price /\ y.override = bill[req[c].on].override
              /\ y.posted = NeedsEntry(req[c].to)
              /\ y.cleared = IF ~NeedsEntry(req[c].to) THEN 0
                             ELSE IF bill[req[c].on].posted THEN bill[req[c].on].cleared
                             ELSE req[c].cleared
<1> DEFINE b == req[c].on
           to == req[c].to
           st == IF bill[b].st = "none" THEN "none" ELSE to
           posted == NeedsEntry(to)
           cleared == IF ~NeedsEntry(to) THEN 0
                      ELSE IF bill[b].posted THEN bill[b].cleared ELSE req[c].cleared
           y == [bill[b] EXCEPT !.st = st, !.posted = posted, !.cleared = cleared]
<1>1. /\ req[c] \in BillRequest /\ req' \in [Clients -> Request]
  BY Requests DEF UpdateIncomingInvoiceStateWrite
<1>2. b \in Bills /\ to \in BillStates /\ req[c].cleared \in Nat
  BY <1>1 DEF BillRequest
<1>3. bill[b] \in BillRecord
  BY <1>2 DEF Typed
<1>4. bill' = [bill EXCEPT ![b] = y]
  BY DEF UpdateIncomingInvoiceStateWrite
<1>5. st \in BillStates \cup {"none"} /\ posted \in BOOLEAN /\ cleared \in Nat
  BY <1>2, <1>3 DEF NeedsEntry, BillRecord
<1> HIDE DEF st, posted, cleared, b, to
<1>6. /\ y \in BillRecord /\ y.st = st /\ y.posted = posted /\ y.cleared = cleared
      /\ y.line = bill[b].line /\ y.qty = bill[b].qty /\ y.price = bill[b].price
      /\ y.override = bill[b].override
  BY <1>3, <1>5 DEF BillRecord
<1> HIDE DEF y
<1> QED BY <1>1, <1>2, <1>4, <1>6 DEF st, posted, cleared, b, to

LEMMA BillStateIInv ==
  ASSUME IInv, NEW c \in Clients, UpdateIncomingInvoiceStateWrite(c)
  PROVE  IInv'
<1> DEFINE b == req[c].on
<1>1. PICK y \in BillRecord :
        /\ bill' = [bill EXCEPT ![b] = y]
        /\ y.line = bill[b].line /\ y.qty = bill[b].qty
        /\ y.st = IF bill[b].st = "none" THEN "none" ELSE req[c].to
  BY BillStateWritten DEF IInv
<1>2. b \in Bills /\ req' \in [Clients -> Request]
  BY BillStateWritten DEF IInv
<1>3. UNCHANGED <<order, receipt>> /\ stale' \in BOOLEAN
  BY DEF IInv, Typed, UpdateIncomingInvoiceStateWrite
<1> HIDE DEF b
<1>4. y.line \in {None} \cup Held /\ (y.st # "none" => y.qty > 0)
  BY <1>1, <1>2 DEF IInv, Linked, BillsForSomething
<1> QED BY <1>1, <1>2, <1>3, <1>4, BillChange

LEMMA DeleteBillIInv ==
  ASSUME IInv, NEW c \in Clients, NEW b \in Bills, DeleteIncomingInvoice(c, b)
  PROVE  IInv'
<1>1. NoBill \in BillRecord /\ NoBill.line = None /\ NoBill.st = "none"
  BY DEF NoBill, BillRecord
<1>2. bill' = [bill EXCEPT ![b] = NoBill] /\ UNCHANGED <<order, receipt, stale>>
  BY DEF DeleteIncomingInvoice
<1>3. req' \in [Clients -> Request]
  BY Requests DEF DeleteIncomingInvoice, IInv
<1> QED BY <1>1, <1>2, <1>3, BillChange DEF IInv, Typed

\* A request that parks what it read leaves the documents alone.
LEMMA ParkedIInv ==
  ASSUME IInv, UNCHANGED <<order, receipt, bill, stale>>, req' \in [Clients -> Request]
  PROVE  IInv'
<1>1. DocumentsTyped /\ BillsForSomething'
  BY DEF IInv, Typed, DocumentsTyped, BillsForSomething
<1> QED BY <1>1, OrdersStay DEF IInv, Linked

LEMMA ReadsPark ==
  ASSUME IInv, NEW c \in Clients
  PROVE  /\ \A o \in Orders : DeletePurchaseOrderRead(c, o) => req' \in [Clients -> Request]
         /\ \A r \in Receipts, o \in Orders :
              UpdateInboundDeliveryRead(c, r, o) => req' \in [Clients -> Request]
         /\ \A r \in Receipts, st \in {"received", "cancelled"} :
              UpdateInboundDeliveryStatusRead(c, r, st) => req' \in [Clients -> Request]
         /\ \A b \in Bills, st \in BillStates :
              UpdateIncomingInvoiceStateRead(c, b, st) => req' \in [Clients -> Request]
<1>1. ASSUME NEW o \in Orders, DeletePurchaseOrderRead(c, o) PROVE req' \in [Clients -> Request]
  <2>1. [op |-> "delete order", on |-> o] \in Request
    BY DEF DeleteRequest, Request
  <2> QED BY <1>1, <2>1, Requests DEF IInv, DeletePurchaseOrderRead
<1>2. ASSUME NEW r \in Receipts, NEW o \in Orders, UpdateInboundDeliveryRead(c, r, o)
      PROVE  req' \in [Clients -> Request]
  <2>1. PICK lines \in {TRUE, FALSE} :
          Park(c, [op |-> "edit receipt", on |-> r, po |-> o, lines |-> lines])
    BY <1>2 DEF UpdateInboundDeliveryRead
  <2>2. [op |-> "edit receipt", on |-> r, po |-> o, lines |-> lines] \in Request
    BY DEF EditRequest, Request
  <2> QED BY <2>1, <2>2, Requests DEF IInv
<1>3. ASSUME NEW r \in Receipts, NEW st \in {"received", "cancelled"},
             UpdateInboundDeliveryStatusRead(c, r, st)
      PROVE  req' \in [Clients -> Request]
  <2> DEFINE q == [op |-> "receipt status", on |-> r, from |-> receipt[r].st, to |-> st,
                   item |-> ItemOf(r)]
  <2>1. receipt[r].st \in {"draft", "received"} /\ ItemOf(r) \in ItemRecord
    BY <1>3, ItemTyped DEF IInv, UpdateInboundDeliveryStatusRead, ReceiptMoves
  <2>2. q \in Request
    BY <2>1 DEF StatusRequest, Request
  <2> QED BY <1>3, <2>2, Requests DEF IInv, UpdateInboundDeliveryStatusRead
<1>4. ASSUME NEW b \in Bills, NEW st \in BillStates, UpdateIncomingInvoiceStateRead(c, b, st)
      PROVE  req' \in [Clients -> Request]
  <2> DEFINE x == [bill[b] EXCEPT !.posted = FALSE, !.cleared = 0]
             cleared == IF NeedsEntry(st) THEN Clearing(b) ELSE 0
             q == [op |-> "bill state", on |-> b, to |-> st, bill |-> x, cleared |-> cleared]
  <2>1. bill[b] \in BillRecord
    BY DEF IInv, Typed
  <2>2. x \in BillRecord /\ x.st # "none"
    BY <1>4, <2>1 DEF BillRecord, UpdateIncomingInvoiceStateRead
  <2>3. cleared \in Nat
    BY ClearingTyped DEF IInv
  <2>4. Park(c, q)
    BY <1>4 DEF UpdateIncomingInvoiceStateRead
  <2> HIDE DEF x, cleared
  <2>5. q \in Request
    BY <2>2, <2>3 DEF BillRequest, Request
  <2> QED BY <2>4, <2>5, Requests DEF IInv
<1> QED BY <1>1, <1>2, <1>3, <1>4

-----------------------------------------------------------------------------
LEMMA InitIInv == Init => IInv
<1> SUFFICES ASSUME Init PROVE IInv
  OBVIOUS
<1>1. NoReceipt \in ReceiptRecord /\ NoReceipt.line = None /\ NoReceipt.po = None
  BY DEF NoReceipt, ReceiptRecord
<1>2. NoBill \in BillRecord /\ NoBill.line = None /\ NoBill.st = "none"
  BY DEF NoBill, BillRecord
<1>3. Typed
  BY <1>1, <1>2 DEF Init, Typed, Request
<1>4. LinesUnique
  BY DEF Init, LinesUnique, NoOrder
<1>5. Linked /\ BillsForSomething
  BY <1>1, <1>2 DEF Init, Linked, BillsForSomething
<1> QED BY <1>3, <1>4, <1>5 DEF IInv

LEMMA OrderStepIInv == ASSUME IInv, NEW c \in Clients, OrderStep(c) PROVE IInv'
<1>1. ASSUME NEW o \in Orders, NEW t \in OrderTerms, NEW st \in InStatuses,
             CreatePurchaseOrder(c, o, st, t)
      PROVE  IInv'
  BY <1>1, CreateOrderIInv
<1>2. ASSUME NEW o \in Orders, NEW t \in OrderTerms, NEW l \in Lines, UpdatePurchaseOrder(c, o, l, t)
      PROVE  IInv'
  BY <1>2, UpdateOrderIInv
<1>3. ASSUME NEW o \in Orders, NEW st \in InStatuses, UpdatePurchaseOrderStatus(c, o, st)
      PROVE  IInv'
  BY <1>3, OrderStatusIInv
<1>4. ASSUME NEW o \in Orders, DeletePurchaseOrderRead(c, o) PROVE IInv'
  BY <1>4, ReadsPark, ParkedIInv DEF DeletePurchaseOrderRead
<1>5. CASE DeletePurchaseOrderWrite(c)
  BY <1>5, DeleteOrderIInv
<1> QED BY <1>1, <1>2, <1>3, <1>4, <1>5 DEF OrderStep

LEMMA ReceiptStepIInv == ASSUME IInv, NEW c \in Clients, ReceiptStep(c) PROVE IInv'
<1>1. ASSUME NEW r \in Receipts, NEW o \in Orders \cup {None}, NEW l \in Links, NEW t \in ReceiptTerms,
             CreateInboundDelivery(c, r, o, l, t)
      PROVE  IInv'
  BY <1>1, CreateReceiptIInv
<1>2. ASSUME NEW r \in Receipts, NEW o \in Orders, UpdateInboundDeliveryRead(c, r, o) PROVE IInv'
  BY <1>2, ReadsPark, ParkedIInv DEF UpdateInboundDeliveryRead
<1>3. ASSUME NEW l \in Links, NEW t \in ReceiptTerms, UpdateInboundDeliveryWrite(c, l, t) PROVE IInv'
  BY <1>3, EditReceiptIInv
<1>4. ASSUME NEW r \in Receipts, DeleteInboundDelivery(c, r) PROVE IInv'
  BY <1>4, DeleteReceiptIInv
<1>5. ASSUME NEW r \in Receipts, NEW st \in {"received", "cancelled"},
             UpdateInboundDeliveryStatusRead(c, r, st)
      PROVE  IInv'
  BY <1>5, ReadsPark, ParkedIInv DEF UpdateInboundDeliveryStatusRead
<1>6. CASE UpdateInboundDeliveryStatusWrite(c)
  BY <1>6, ReceiptStatusIInv
<1> QED BY <1>1, <1>2, <1>3, <1>4, <1>5, <1>6 DEF ReceiptStep

LEMMA BillStepIInv == ASSUME IInv, NEW c \in Clients, BillStep(c) PROVE IInv'
<1>1. ASSUME NEW b \in Bills, NEW l \in Links, NEW t \in BillTerms, NEW override \in Overrides,
             NEW st \in CreatedAs, CreateIncomingInvoice(c, b, st, l, t, override)
      PROVE  IInv'
  BY <1>1, CreateBillIInv
<1>2. ASSUME NEW b \in Bills, NEW l \in Links, NEW t \in BillTerms, NEW override \in Overrides,
             UpdateIncomingInvoice(c, b, l, t, override)
      PROVE  IInv'
  BY <1>2, UpdateBillIInv
<1>3. ASSUME NEW b \in Bills, NEW st \in BillStates, UpdateIncomingInvoiceStateRead(c, b, st)
      PROVE  IInv'
  BY <1>3, ReadsPark, ParkedIInv DEF UpdateIncomingInvoiceStateRead
<1>4. ASSUME NEW b \in Bills, DeleteIncomingInvoice(c, b) PROVE IInv'
  BY <1>4, DeleteBillIInv
<1>5. CASE UpdateIncomingInvoiceStateWrite(c)
  BY <1>5, BillStateIInv
<1> QED BY <1>1, <1>2, <1>3, <1>4, <1>5 DEF BillStep

LEMMA StepIInv == IInv /\ [Next]_vars => IInv'
<1> SUFFICES ASSUME IInv, [Next]_vars PROVE IInv'
  OBVIOUS
<1>1. ASSUME NEW c \in Clients, OrderStep(c) PROVE IInv'
  BY <1>1, OrderStepIInv
<1>2. ASSUME NEW c \in Clients, ReceiptStep(c) PROVE IInv'
  BY <1>2, ReceiptStepIInv
<1>3. ASSUME NEW c \in Clients, BillStep(c) PROVE IInv'
  BY <1>3, BillStepIInv
<1>4. CASE UNCHANGED vars
  BY <1>4, ParkedIInv DEF vars, IInv, Typed
<1> QED BY <1>1, <1>2, <1>3, <1>4 DEF Next

\* The invariant the properties rest on: documents are typed, a line id is of
\* one order, and no receipt or bill names an order or a line that is gone.
THEOREM DocumentsLinked == Spec => []IInv
<1> QED BY InitIInv, StepIInv, PTL DEF Spec

\* Orders, receipts and bills stay typed, and what they name is on record.
THEOREM TypesHold == Spec => []TypeOK
<1>1. IInv => TypeOK
  <2> SUFFICES ASSUME IInv PROVE TypeOK
    OBVIOUS
  <2>1. order \in [Orders -> OrderRecord]
    <3>1. {NoOrder} \cup Placed \subseteq OrderRecord
      BY DEF NoOrder, Placed, OrderRecord
    <3> QED BY <3>1 DEF IInv, Typed
  <2>2. ASSUME NEW r \in Receipts
        PROVE  /\ receipt[r].st \in {"none", "draft", "received", "cancelled"}
               /\ receipt[r].qty \in Nat /\ receipt[r].cost \in Nat /\ receipt[r].accrued \in Nat
    BY DEF IInv, Typed, ReceiptRecord
  <2>3. ASSUME NEW b \in Bills
        PROVE  /\ bill[b].st \in BillStates \cup {"none"}
               /\ bill[b].posted \in BOOLEAN /\ bill[b].cleared \in Nat
    BY DEF IInv, Typed, BillRecord
  <2>4. stale \in BOOLEAN
    BY DEF IInv, Typed
  <2> QED BY <2>1, <2>2, <2>3, <2>4 DEF TypeOK, IInv, Linked
<1> QED BY <1>1, DocumentsLinked, PTL

-----------------------------------------------------------------------------
(* The terms of a received line are frozen.                                *)

Terms(x) == [x EXCEPT !.st = "none"]

\* A received receipt keeps its line and the terms it met, and the order of
\* the line keeps its terms; or what it meets is written down now.
KeepsTerms(r) ==
  /\ receipt[r].st = "received" /\ receipt'[r].line = receipt[r].line /\ receipt'[r].met = receipt[r].met
  /\ \A o \in Orders : receipt[r].line # None /\ order[o].line = receipt[r].line =>
       order'[o].line = order[o].line /\ Terms(order'[o]) = Terms(order[o])

MeetsTerms(r) == order' = order /\ receipt'[r].met = Met(receipt'[r].line)

LEMMA TermsFollow ==
  ASSUME IInv, ReceivedTermsFrozen, receipt' \in [Receipts -> ReceiptRecord],
         \A r \in Receipts : receipt'[r].st = "received" => KeepsTerms(r) \/ MeetsTerms(r)
  PROVE  ReceivedTermsFrozen'
<1> SUFFICES ASSUME NEW r \in Receipts, receipt'[r].st = "received", receipt'[r].met # NoOrder
             PROVE  \E o \in Orders : receipt'[r].line = order'[o].line
                                   /\ receipt'[r].met = Terms(order'[o])
  BY DEF ReceivedTermsFrozen, Received, Terms, NoOrder
<1>1. CASE KeepsTerms(r)
  <2>1. PICK o \in Orders : receipt[r].line = order[o].line /\ receipt[r].met = Terms(order[o])
    BY <1>1 DEF ReceivedTermsFrozen, Received, Terms, KeepsTerms
  <2>2. receipt[r].met \in MetTerms
    BY <1>1 DEF IInv, Typed, ReceiptRecord, KeepsTerms
  <2>3. order[o] \in {NoOrder} \cup Placed
    BY DEF IInv, Typed
  <2>4. receipt[r].met.line = order[o].line
    BY <2>1, <2>3 DEF Terms, NoOrder, Placed
  <2>5. order[o].line # None
    BY <2>2, <2>4, ConstantsAssumption DEF MetTerms
  <2> QED BY <1>1, <2>1, <2>5 DEF KeepsTerms
<1>2. CASE MeetsTerms(r)
  <2> DEFINE l == receipt'[r].line
             o == CHOOSE p \in OrdersOf(l) : TRUE
  <2>1. OrdersOf(l) # {} /\ receipt'[r].met = Met(l)
    BY <1>2 DEF MeetsTerms, Met
  <2>2. o \in OrdersOf(l)
    BY <2>1
  <2>3. Met(l) = Terms(order[o])
    BY <2>1 DEF Met, Terms
  <2> HIDE DEF o
  <2>4. o \in Orders /\ order[o].line = l
    BY <2>2 DEF OrdersOf
  <2> QED BY <1>2, <2>1, <2>3, <2>4 DEF MeetsTerms
<1> QED BY <1>1, <1>2

\* A step that leaves the orders and the received receipts alone.
LEMMA UnmetSteps ==
  ASSUME IInv, IInv', ReceivedTermsFrozen, order' = order,
         \A r \in Receipts : receipt'[r].st = "received" => receipt'[r] = receipt[r]
  PROVE  ReceivedTermsFrozen'
<1>1. \A r \in Receipts : receipt'[r].st = "received" => KeepsTerms(r)
  BY DEF KeepsTerms
<1> QED BY <1>1, TermsFollow DEF IInv, Typed

\* No received receipt is on the line of an order that nothing freezes.
LEMMA NotFrozen ==
  ASSUME IInv, NEW o \in Orders, FreezingReceipts(o) = {},
         NEW r \in Receipts, receipt[r].st = "received"
  PROVE  receipt[r].line = None \/ receipt[r].line # order[o].line
BY DEF FreezingReceipts, Received

LEMMA OrderChangeTerms ==
  ASSUME IInv, IInv', ReceivedTermsFrozen, NEW o \in Orders, NEW v, order' = [order EXCEPT ![o] = v],
         \/ order[o] = NoOrder
         \/ v.line = order[o].line /\ Terms(v) = Terms(order[o])
         \/ FreezingReceipts(o) = {},
         \A r \in Receipts : /\ receipt'[r].st = receipt[r].st /\ receipt'[r].met = receipt[r].met
                             /\ \/ receipt'[r].line = receipt[r].line
                                \/ /\ receipt[r].line = order[o].line /\ receipt'[r].line = None
                                   /\ FreezingReceipts(o) = {}
  PROVE  ReceivedTermsFrozen'
<1>1. ASSUME NEW r \in Receipts, receipt'[r].st = "received", receipt[r].line # None
      PROVE  KeepsTerms(r)
  <2>1. receipt[r].st = "received" /\ receipt'[r].met = receipt[r].met
    BY <1>1
  <2>2. receipt'[r].line = receipt[r].line
    BY <1>1, <2>1, NotFrozen
  <2>3. ASSUME NEW p \in Orders, order[p].line = receipt[r].line
        PROVE  order'[p].line = order[p].line /\ Terms(order'[p]) = Terms(order[p])
    <3>1. order'[p] = IF p = o THEN v ELSE order[p]
      BY DEF IInv, Typed
    <3>2. order[p] # NoOrder
      BY <1>1, <2>3 DEF NoOrder
    <3> QED BY <1>1, <2>1, <2>3, <3>1, <3>2, NotFrozen
  <2> QED BY <2>1, <2>2, <2>3 DEF KeepsTerms
<1>2. ASSUME NEW r \in Receipts, receipt'[r].st = "received", receipt[r].line = None
      PROVE  KeepsTerms(r)
  <2>1. receipt'[r].line = None
    BY <1>2
  <2> QED BY <1>2, <2>1 DEF KeepsTerms
<1>3. receipt' \in [Receipts -> ReceiptRecord]
  BY DEF IInv, Typed
<1> QED BY <1>1, <1>2, <1>3, TermsFollow

LEMMA OrderStepTerms ==
  ASSUME IInv, IInv', ReceivedTermsFrozen, NEW c \in Clients, OrderStep(c)
  PROVE  ReceivedTermsFrozen'
<1>1. ASSUME NEW o \in Orders, NEW t \in OrderTerms, NEW st \in InStatuses,
             CreatePurchaseOrder(c, o, st, t)
      PROVE  ReceivedTermsFrozen'
  <2>1. PICK l \in Lines \ Held : order' = [order EXCEPT ![o] = Order(st, l, t)]
    BY <1>1 DEF CreatePurchaseOrder
  <2>2. order[o] = NoOrder /\ receipt' = receipt
    BY <1>1 DEF CreatePurchaseOrder
  <2> QED BY <2>1, <2>2, OrderChangeTerms
<1>2. ASSUME NEW o \in Orders, NEW t \in OrderTerms, NEW l \in Lines, UpdatePurchaseOrder(c, o, l, t)
      PROVE  ReceivedTermsFrozen'
  <2> DEFINE v == Order(order[o].st, l, t)
  <2>1. order' = [order EXCEPT ![o] = v]
    BY <1>2 DEF UpdatePurchaseOrder, ReplaceLine
  <2>2. FreezingReceipts(o) = {} \/ v = order[o]
    BY <1>2 DEF UpdatePurchaseOrder, LineUnchanged
  <2>3. v.line = l
    BY DEF Order
  <2> HIDE DEF v
  <2>4. CASE l = order[o].line
    <3>1. receipt' = receipt
      BY <1>2, <2>4 DEF UpdatePurchaseOrder, ReplaceLine
    <3> QED BY <2>1, <2>2, <3>1, OrderChangeTerms
  <2>5. CASE l # order[o].line
    <3>1. receipt' = Unlinked(receipt, order[o].line)
      BY <1>2, <2>5 DEF UpdatePurchaseOrder, ReplaceLine
    <3>2. FreezingReceipts(o) = {}
      BY <2>2, <2>3, <2>5
    <3>3. \A r \in Receipts :
            /\ receipt'[r].line = IF receipt[r].line = order[o].line THEN None ELSE receipt[r].line
            /\ receipt'[r].st = receipt[r].st /\ receipt'[r].met = receipt[r].met
      BY <3>1, UnlinkedReceipts DEF IInv
    <3> QED BY <2>1, <3>2, <3>3, OrderChangeTerms
  <2> QED BY <2>4, <2>5
<1>3. ASSUME NEW o \in Orders, NEW st \in InStatuses, UpdatePurchaseOrderStatus(c, o, st)
      PROVE  ReceivedTermsFrozen'
  <2> DEFINE v == [order[o] EXCEPT !.st = st]
  <2>1. order' = [order EXCEPT ![o] = v] /\ receipt' = receipt
    BY <1>3 DEF UpdatePurchaseOrderStatus
  <2>2. order[o] \in {NoOrder} \cup Placed
    BY DEF IInv, Typed
  <2>3. v.line = order[o].line /\ Terms(v) = Terms(order[o])
    BY <2>2 DEF Terms, NoOrder, Placed
  <2> HIDE DEF v
  <2> QED BY <2>1, <2>3, OrderChangeTerms
<1>4. ASSUME NEW o \in Orders, DeletePurchaseOrderRead(c, o) PROVE ReceivedTermsFrozen'
  BY <1>4, UnmetSteps DEF DeletePurchaseOrderRead
<1>5. CASE DeletePurchaseOrderWrite(c)
  <2> DEFINE o == req[c].on
  <2>1. o \in Orders
    BY <1>5, Requests DEF DeletePurchaseOrderWrite, IInv, DeleteRequest
  <2>2. CASE FreezingReceipts(o) # {}
    BY <1>5, <2>2, UnmetSteps DEF DeletePurchaseOrderWrite
  <2>3. CASE FreezingReceipts(o) = {}
    <3>1. /\ order' = [order EXCEPT ![o] = NoOrder]
          /\ receipt' = Left(o)
      BY <1>5, <2>3 DEF DeletePurchaseOrderWrite, Left
    <3> HIDE DEF o
    <3>2. \A r \in Receipts :
            /\ receipt'[r].line = IF receipt[r].line = order[o].line THEN None ELSE receipt[r].line
            /\ receipt'[r].st = receipt[r].st /\ receipt'[r].met = receipt[r].met
      BY <2>1, <3>1, DeletedOrderReceipts DEF IInv
    <3>3. \A r \in Receipts :
            /\ receipt'[r].st = receipt[r].st /\ receipt'[r].met = receipt[r].met
            /\ \/ receipt'[r].line = receipt[r].line
               \/ receipt[r].line = order[o].line /\ receipt'[r].line = None /\ FreezingReceipts(o) = {}
      BY <2>3, <3>2
    <3>4. order' = [order EXCEPT ![o] = NoOrder]
      BY <3>1
    <3> QED BY <2>1, <2>3, <3>3, <3>4, OrderChangeTerms
  <2> QED BY <2>2, <2>3
<1> QED BY <1>1, <1>2, <1>3, <1>4, <1>5 DEF OrderStep

\* One receipt changes: what is not received meets nothing.
LEMMA ReceiptChangeTerms ==
  ASSUME IInv, IInv', ReceivedTermsFrozen, order' = order, NEW r \in Receipts, NEW y,
         receipt' = [receipt EXCEPT ![r] = y],
         \/ y.st # "received"
         \/ y.met = Met(y.line)
         \/ y.st = receipt[r].st /\ y.line = receipt[r].line /\ y.met = receipt[r].met
  PROVE  ReceivedTermsFrozen'
<1>1. ASSUME NEW q \in Receipts, receipt'[q].st = "received" PROVE KeepsTerms(q) \/ MeetsTerms(q)
  <2>1. receipt'[q] = IF q = r THEN y ELSE receipt[q]
    BY DEF IInv, Typed
  <2> QED BY <1>1, <2>1 DEF KeepsTerms, MeetsTerms
<1> QED BY <1>1, TermsFollow DEF IInv, Typed

LEMMA ReceiptStepTerms ==
  ASSUME IInv, IInv', ReceivedTermsFrozen, NEW c \in Clients, ReceiptStep(c)
  PROVE  ReceivedTermsFrozen'
<1>1. ASSUME NEW r \in Receipts, NEW o \in Orders \cup {None}, NEW l \in Links, NEW t \in ReceiptTerms,
             CreateInboundDelivery(c, r, o, l, t)
      PROVE  ReceivedTermsFrozen'
  <2> DEFINE x == [NoReceipt EXCEPT !.st = "draft", !.po = o]
             y == WithLine(x, l, t)
  <2>1. order' = order /\ receipt' = [receipt EXCEPT ![r] = y]
    BY <1>1 DEF CreateInboundDelivery
  <2>2. x \in ReceiptRecord /\ x.st = "draft"
    BY DEF NoReceipt, ReceiptRecord
  <2>3. l \in Links \cap (Held \cup {None})
    BY <1>1 DEF CreateInboundDelivery
  <2> HIDE DEF x
  <2>4. y.st = "draft"
    BY <2>2, <2>3, WithLineTyped DEF IInv
  <2> QED BY <2>1, <2>4, ReceiptChangeTerms
<1>2. ASSUME NEW r \in Receipts, NEW o \in Orders, UpdateInboundDeliveryRead(c, r, o)
      PROVE  ReceivedTermsFrozen'
  BY <1>2, UnmetSteps DEF UpdateInboundDeliveryRead
<1>3. ASSUME NEW l \in Links, NEW t \in ReceiptTerms, UpdateInboundDeliveryWrite(c, l, t)
      PROVE  ReceivedTermsFrozen'
  <2> DEFINE r == req[c].on
             o == req[c].po
  <2>1. r \in Receipts /\ o \in Orders
    BY <1>3, Requests DEF IInv, UpdateInboundDeliveryWrite, EditRequest
  <2>2. receipt[r] \in ReceiptRecord
    BY <2>1 DEF IInv, Typed
  <2>3. order' = order /\ l \in Links \cap (Held \cup {None})
    BY <1>3 DEF UpdateInboundDeliveryWrite
  <2>4. CASE receipt[r] = NoReceipt \/ order[o] = NoOrder
    BY <1>3, <2>4, UnmetSteps DEF UpdateInboundDeliveryWrite
  <2>5. CASE ~(receipt[r] = NoReceipt \/ order[o] = NoOrder) /\ req[c].lines
    <3> DEFINE met == IF receipt[r].st = "received" THEN Met(l) ELSE receipt[r].met
               x == [receipt[r] EXCEPT !.po = o, !.met = met]
               y == WithLine(x, l, t)
    <3>1. receipt' = [receipt EXCEPT ![r] = y]
      BY <1>3, <2>5 DEF UpdateInboundDeliveryWrite
    <3>2. met \in {NoOrder} \cup MetTerms
      BY <2>2, <2>3, MetTyped DEF IInv, ReceiptRecord
    <3>3. x \in ReceiptRecord /\ x.st = receipt[r].st /\ x.met = met
      <4> HIDE DEF met
      <4> QED BY <2>1, <2>2, <3>2 DEF ReceiptRecord
    <3> HIDE DEF x
    <3>4. y.st = receipt[r].st /\ y.met = met /\ y.line = l
      BY <2>3, <3>3, WithLineTyped DEF IInv
    <3> HIDE DEF y
    <3>5. y.st # "received" \/ y.met = Met(y.line)
      BY <3>4
    <3> QED BY <2>1, <2>3, <3>1, <3>5, ReceiptChangeTerms
  <2>6. CASE ~(receipt[r] = NoReceipt \/ order[o] = NoOrder) /\ ~req[c].lines
    <3> DEFINE y == [receipt[r] EXCEPT !.po = o]
    <3>1. receipt' = [receipt EXCEPT ![r] = y]
      BY <1>3, <2>6 DEF UpdateInboundDeliveryWrite
    <3>2. y.st = receipt[r].st /\ y.line = receipt[r].line /\ y.met = receipt[r].met
      BY <2>2 DEF ReceiptRecord
    <3> HIDE DEF y
    <3> QED BY <2>1, <2>3, <3>1, <3>2, ReceiptChangeTerms
  <2> QED BY <2>4, <2>5, <2>6
<1>4. ASSUME NEW r \in Receipts, DeleteInboundDelivery(c, r) PROVE ReceivedTermsFrozen'
  <2>1. NoReceipt.st # "received"
    BY DEF NoReceipt
  <2> QED BY <1>4, <2>1, ReceiptChangeTerms DEF DeleteInboundDelivery
<1>5. ASSUME NEW r \in Receipts, NEW st \in {"received", "cancelled"},
             UpdateInboundDeliveryStatusRead(c, r, st)
      PROVE  ReceivedTermsFrozen'
  BY <1>5, UnmetSteps DEF UpdateInboundDeliveryStatusRead
<1>6. CASE UpdateInboundDeliveryStatusWrite(c)
  <2> DEFINE r == req[c].on
             to == req[c].to
  <2>1. r \in Receipts
    BY <1>6, Requests DEF IInv, UpdateInboundDeliveryStatusWrite, StatusRequest
  <2>2. receipt[r] \in ReceiptRecord /\ order' = order
    BY <1>6, <2>1 DEF IInv, Typed, UpdateInboundDeliveryStatusWrite
  <2>3. CASE receipt' = receipt
    BY <2>2, <2>3, UnmetSteps
  <2>4. CASE receipt' # receipt
    <3> DEFINE acc == IF to = "received" THEN Accrual(req[c].item) ELSE 0
               met == IF to = "received" THEN Met(receipt[r].line) ELSE NoOrder
               y == [receipt[r] EXCEPT !.st = to, !.accrued = acc, !.met = met]
    <3>1. receipt' = [receipt EXCEPT ![r] = y]
      BY <1>6, <2>4 DEF UpdateInboundDeliveryStatusWrite
    <3> HIDE DEF acc, to, r
    <3>2. y.st = to /\ y.line = receipt[r].line /\ y.met = met
      <4> HIDE DEF met
      <4> QED BY <2>2 DEF ReceiptRecord
    <3> HIDE DEF y
    <3>3. y.st # "received" \/ y.met = Met(y.line)
      BY <3>2
    <3> QED BY <2>1, <2>2, <3>1, <3>3, ReceiptChangeTerms
  <2> QED BY <2>3, <2>4
<1> QED BY <1>1, <1>2, <1>3, <1>4, <1>5, <1>6 DEF ReceiptStep

LEMMA BillsLeaveGoods ==
  ASSUME NEW c \in Clients, BillStep(c) PROVE order' = order /\ receipt' = receipt
BY DEF BillStep, CreateIncomingInvoice, UpdateIncomingInvoice, UpdateIncomingInvoiceStateRead,
       UpdateIncomingInvoiceStateWrite, DeleteIncomingInvoice

\* The order line goods were received against keeps its id, quantity and price
\* as long as they are received (db/purchase_order_freeze.go:9-69): an edit or
\* a deletion is refused by the receipts of the line, whatever order their
\* header names, and those are all there are, since a line id is of one order.
THEOREM ReceivedLinesFrozen == Spec => []ReceivedTermsFrozen
<1>1. Init => ReceivedTermsFrozen
  <2> SUFFICES ASSUME Init, NEW r \in Received PROVE FALSE
    BY DEF ReceivedTermsFrozen
  <2>1. r \in Receipts /\ receipt[r] = NoReceipt
    BY DEF Init, Received
  <2> QED BY <2>1 DEF Received, NoReceipt
<1>2. IInv /\ IInv' /\ ReceivedTermsFrozen /\ [Next]_vars => ReceivedTermsFrozen'
  <2> SUFFICES ASSUME IInv, IInv', ReceivedTermsFrozen, [Next]_vars PROVE ReceivedTermsFrozen'
    OBVIOUS
  <2>1. ASSUME NEW c \in Clients, OrderStep(c) PROVE ReceivedTermsFrozen'
    BY <2>1, OrderStepTerms
  <2>2. ASSUME NEW c \in Clients, ReceiptStep(c) PROVE ReceivedTermsFrozen'
    BY <2>2, ReceiptStepTerms
  <2>3. ASSUME NEW c \in Clients, BillStep(c) PROVE ReceivedTermsFrozen'
    BY <2>3, BillsLeaveGoods, UnmetSteps
  <2>4. CASE UNCHANGED vars
    BY <2>4, UnmetSteps DEF vars
  <2> QED BY <2>1, <2>2, <2>3, <2>4 DEF Next
<1> QED BY <1>1, <1>2, DocumentsLinked, PTL DEF Spec

-----------------------------------------------------------------------------
(* Matching.                                                               *)

\* What other bills have billed of a line is what all have, less the bill's own.
LEMMA ClearedByOthers ==
  ASSUME Typed, NEW b \in Bills
  PROVE  LET l == bill[b].line IN
         ClearedQty(l, None) = ClearedQty(l, b) + IF b \in Recorded THEN bill[b].qty ELSE 0
<1> DEFINE l == bill[b].line
           T == {x \in Recorded : bill[x].line = l}
<1>1. IsFiniteSet(Bills) /\ T \in SUBSET Bills
  BY ConstantsAssumption DEF Recorded
<1>2. IsFiniteSet(T)
  BY <1>1, FS_Subset
<1>3. \A x \in T : BilledQty[x] \in Nat
  BY <1>1 DEF Typed, BilledQty, BillRecord
<1>4. ClearedQty(l, None) = Total(BilledQty, T)
  <2>1. {x \in Recorded \ {None} : bill[x].line = l} = T
    BY ConstantsAssumption DEF Recorded
  <2> QED BY <2>1 DEF ClearedQty
<1>5. ClearedQty(l, b) = Total(BilledQty, T \ {b})
  <2>1. {x \in Recorded \ {b} : bill[x].line = l} = T \ {b}
    OBVIOUS
  <2> QED BY <2>1 DEF ClearedQty
<1>6. Total(BilledQty, T \ {b}) \in Nat
  BY Quantities, <1>5
<1>7. CASE b \in Recorded
  <2>1. b \in T /\ BilledQty[b] = bill[b].qty /\ bill[b].qty \in Nat
    BY <1>7 DEF BilledQty, Typed, BillRecord
  <2> HIDE DEF T
  <2>2. Total(BilledQty, T) = BilledQty[b] + Total(BilledQty, T \ {b})
    BY <1>2, <1>3, <2>1, TotalRemove
  <2> QED BY <1>4, <1>5, <1>6, <1>7, <2>1, <2>2
<1>8. CASE b \notin Recorded
  <2>1. T \ {b} = T
    BY <1>8
  <2> HIDE DEF T
  <2> QED BY <1>4, <1>5, <1>6, <1>8, <2>1
<1> QED BY <1>7, <1>8

\* The list of bills says of each bill what its own page says
\* (db/incoming_invoice_match.go:272): the list's one sum per order line, with
\* the bill's own part taken back out, is the sum over the other bills.
THEOREM SummariesMatch == Spec => []SummariesMatchPerInvoice
<1>1. IInv => SummariesMatchPerInvoice
  <2> SUFFICES ASSUME IInv, NEW b \in Bills PROVE Summary(b) = Match(b)
    BY DEF SummariesMatchPerInvoice
  <2> DEFINE l == bill[b].line
  <2>1. CASE OrdersOf(l) = {}
    BY <2>1 DEF Summary, Match
  <2>2. CASE OrdersOf(l) # {}
    <3>1. l \in Lines
      BY <2>2, HeldLines DEF IInv, Linked, OrdersOf
    <3>2. BilledByLine[l] = ClearedQty(l, None)
      BY <3>1 DEF BilledByLine
    <3>3. ClearedQty(l, None) = ClearedQty(l, b) + IF b \in Recorded THEN bill[b].qty ELSE 0
      BY ClearedByOthers DEF IInv
    <3>4. ClearedQty(l, b) \in Nat /\ bill[b].qty \in Nat
      BY Quantities DEF IInv, Typed, BillRecord
    <3>5. BilledByLine[l] - (IF b \in Recorded THEN bill[b].qty ELSE 0) = ClearedQty(l, b)
      BY <3>2, <3>3, <3>4
    <3> QED BY <2>2, <3>5 DEF Summary, Match
  <2> QED BY <2>1, <2>2
<1> QED BY <1>1, DocumentsLinked, PTL

-----------------------------------------------------------------------------
(* Billed goods.                                                           *)

OnRecord(x) == x.st \in {"approved", "paid"}
\* A bill on record for a line whose variance nobody signed for.
Charges(x, l) == OnRecord(x) /\ x.line = l /\ ~x.override

\* What a step leaves of a line: its received goods; its bills; neither, when
\* it goes, which it does only while nothing of it is received; and that it had
\* no bill on record.
KeepsGoods(l) ==
  \A r \in Receipts : receipt[r].st = "received" /\ receipt[r].line = l =>
    /\ receipt'[r].st = "received" /\ receipt'[r].line = l
    /\ receipt'[r].qty = receipt[r].qty /\ receipt'[r].cost = receipt[r].cost
AddsNoBill(l) ==
  \A b \in Bills : Charges(bill'[b], l) => Charges(bill[b], l) /\ bill'[b].qty = bill[b].qty
LineGoes(l) ==
  /\ \A r \in Receipts : ~(receipt[r].st = "received" /\ receipt[r].line = l)
  /\ \A r \in Receipts : receipt'[r].line # l
  /\ \A b \in Bills : bill'[b].line # l
NoneBilled(l) == \A b \in Bills : ~(OnRecord(bill[b]) /\ bill[b].line = l)

LEMMA RecordedBills == Recorded = {b \in Bills : OnRecord(bill[b])}
BY DEF Recorded, OnRecord

\* A line nothing of whose goods is billed is named by no bill on record.
LEMMA NothingBilled ==
  ASSUME IInv, NEW l \in Lines, ClearedQty(l, None) = 0
  PROVE  NoneBilled(l)
<1> SUFFICES ASSUME NEW b \in Bills, OnRecord(bill[b]), bill[b].line = l PROVE FALSE
  BY DEF NoneBilled
<1> DEFINE T == {x \in Recorded \ {None} : bill[x].line = l}
<1>1. b \in T /\ T \in SUBSET Bills
  BY ConstantsAssumption DEF Recorded, OnRecord
<1>2. IsFiniteSet(T)
  BY <1>1, ConstantsAssumption, FS_Subset
<1>3. \A x \in T : BilledQty[x] \in Nat
  BY <1>1 DEF IInv, Typed, BilledQty, BillRecord
<1>4. Total(BilledQty, T) = 0
  BY DEF ClearedQty
<1> HIDE DEF T
<1>5. BilledQty[b] = 0
  BY <1>1, <1>2, <1>3, <1>4, TotalZero
<1>6. bill[b].qty = 0
  BY <1>5 DEF BilledQty
<1> QED BY <1>6 DEF IInv, BillsForSomething, OnRecord

LEMMA OrderStepGoods ==
  ASSUME IInv, NEW c \in Clients, OrderStep(c), NEW l \in Lines
  PROVE  AddsNoBill(l) /\ (KeepsGoods(l) \/ LineGoes(l))
<1>1. ASSUME receipt' = receipt, bill' = bill PROVE AddsNoBill(l) /\ KeepsGoods(l)
  BY <1>1 DEF AddsNoBill, KeepsGoods
<1>2. ASSUME NEW gone, bill' = Unlinked(bill, gone),
             \A r \in Receipts :
               /\ receipt'[r].line = IF receipt[r].line = gone THEN None ELSE receipt[r].line
               /\ receipt'[r].st = receipt[r].st /\ receipt'[r].qty = receipt[r].qty
               /\ receipt'[r].cost = receipt[r].cost,
             \A r \in Receipts : ~(receipt[r].st = "received" /\ receipt[r].line = gone)
                                \/ gone = None
      PROVE  AddsNoBill(l) /\ (KeepsGoods(l) \/ LineGoes(l))
  <2>1. \A b \in Bills :
          /\ bill'[b].line = IF bill[b].line = gone THEN None ELSE bill[b].line
          /\ bill'[b].st = bill[b].st /\ bill'[b].qty = bill[b].qty
          /\ bill'[b].override = bill[b].override
    BY <1>2, UnlinkedBills DEF IInv
  <2>2. l # None
    BY ConstantsAssumption
  <2>3. AddsNoBill(l)
    BY <2>1, <2>2 DEF AddsNoBill, Charges, OnRecord
  <2>4. CASE l = gone
    BY <1>2, <2>1, <2>2, <2>3, <2>4 DEF LineGoes
  <2>5. CASE l # gone
    BY <1>2, <2>2, <2>3, <2>5 DEF KeepsGoods
  <2> QED BY <2>4, <2>5
<1>3. ASSUME NEW o \in Orders, NEW t \in OrderTerms, NEW st \in InStatuses,
             CreatePurchaseOrder(c, o, st, t)
      PROVE  AddsNoBill(l) /\ (KeepsGoods(l) \/ LineGoes(l))
  BY <1>1, <1>3 DEF CreatePurchaseOrder
<1>4. ASSUME NEW o \in Orders, NEW t \in OrderTerms, NEW k \in Lines, UpdatePurchaseOrder(c, o, k, t)
      PROVE  AddsNoBill(l) /\ (KeepsGoods(l) \/ LineGoes(l))
  <2>1. CASE k = order[o].line
    BY <1>1, <1>4, <2>1 DEF UpdatePurchaseOrder, ReplaceLine
  <2>2. CASE k # order[o].line
    <3>1. receipt' = Unlinked(receipt, order[o].line) /\ bill' = Unlinked(bill, order[o].line)
      BY <1>4, <2>2 DEF UpdatePurchaseOrder, ReplaceLine
    <3>2. \A r \in Receipts :
            /\ receipt'[r].line = IF receipt[r].line = order[o].line THEN None ELSE receipt[r].line
            /\ receipt'[r].st = receipt[r].st /\ receipt'[r].qty = receipt[r].qty
            /\ receipt'[r].cost = receipt[r].cost
      BY <3>1, UnlinkedReceipts DEF IInv
    <3>3. FreezingReceipts(o) = {}
      <4>1. Order(order[o].st, k, t).line = k
        BY DEF Order
      <4> QED BY <1>4, <2>2, <4>1 DEF UpdatePurchaseOrder, LineUnchanged
    <3>4. \A r \in Receipts : ~(receipt[r].st = "received" /\ receipt[r].line = order[o].line)
                              \/ order[o].line = None
      BY <3>3, NotFrozen
    <3> QED BY <1>2, <3>1, <3>2, <3>4
  <2> QED BY <2>1, <2>2
<1>5. ASSUME NEW o \in Orders, NEW st \in InStatuses, UpdatePurchaseOrderStatus(c, o, st)
      PROVE  AddsNoBill(l) /\ (KeepsGoods(l) \/ LineGoes(l))
  BY <1>1, <1>5 DEF UpdatePurchaseOrderStatus
<1>6. ASSUME NEW o \in Orders, DeletePurchaseOrderRead(c, o)
      PROVE  AddsNoBill(l) /\ (KeepsGoods(l) \/ LineGoes(l))
  BY <1>1, <1>6 DEF DeletePurchaseOrderRead
<1>7. CASE DeletePurchaseOrderWrite(c)
  <2> DEFINE o == req[c].on
  <2>1. o \in Orders
    BY <1>7, Requests DEF DeletePurchaseOrderWrite, IInv, DeleteRequest
  <2>2. CASE FreezingReceipts(o) # {}
    BY <1>1, <1>7, <2>2 DEF DeletePurchaseOrderWrite
  <2>3. CASE FreezingReceipts(o) = {}
    <3>1. /\ bill' = Unlinked(bill, order[o].line)
          /\ receipt' = Left(o)
      BY <1>7, <2>3 DEF DeletePurchaseOrderWrite, Left
    <3> HIDE DEF o
    <3>2. \A r \in Receipts :
            /\ receipt'[r].line = IF receipt[r].line = order[o].line THEN None ELSE receipt[r].line
            /\ receipt'[r].st = receipt[r].st /\ receipt'[r].qty = receipt[r].qty
            /\ receipt'[r].cost = receipt[r].cost
      BY <2>1, <3>1, DeletedOrderReceipts DEF IInv
    <3>3. bill' = Unlinked(bill, order[o].line)
      BY <3>1
    <3>4. \A r \in Receipts : ~(receipt[r].st = "received" /\ receipt[r].line = order[o].line)
                              \/ order[o].line = None
      BY <2>1, <2>3, NotFrozen
    <3> QED BY <1>2, <3>2, <3>3, <3>4
  <2> QED BY <2>2, <2>3
<1> QED BY <1>3, <1>4, <1>5, <1>6, <1>7 DEF OrderStep

\* One receipt changes: it was not received, or its line, quantity and cost stay.
LEMMA ReceiptChangeGoods ==
  ASSUME IInv, NEW r \in Receipts, NEW y, receipt' = [receipt EXCEPT ![r] = y], NEW l,
         \/ receipt[r].st # "received"
         \/ /\ y.st = "received" /\ y.line = receipt[r].line
            /\ y.qty = receipt[r].qty /\ y.cost = receipt[r].cost
         \/ receipt[r].line # l
  PROVE  KeepsGoods(l)
<1>1. \A q \in Receipts : receipt'[q] = IF q = r THEN y ELSE receipt[q]
  BY DEF IInv, Typed
<1> QED BY <1>1 DEF KeepsGoods

\* What a request that was read in time makes of a receipt it received or
\* gives back.
LEMMA StatusGoods ==
  ASSUME IInv, NEW c \in Clients, UpdateInboundDeliveryStatusWrite(c), ~stale', NEW l \in Lines
  PROVE  KeepsGoods(l) \/ NoneBilled(l)
<1> DEFINE r == req[c].on
           item == req[c].item
           to == req[c].to
<1>1. r \in Receipts /\ to \in {"received", "cancelled"}
  BY Requests DEF IInv, UpdateInboundDeliveryStatusWrite, StatusRequest
<1>2. receipt[r] \in ReceiptRecord
  BY <1>1 DEF IInv, Typed
<1>3. CASE receipt' = receipt
  BY <1>3 DEF KeepsGoods
<1>4. CASE receipt' # receipt
  <2> DEFINE acc == IF to = "received" THEN Accrual(item) ELSE 0
             met == IF to = "received" THEN Met(receipt[r].line) ELSE NoOrder
             y == [receipt[r] EXCEPT !.st = to, !.accrued = acc, !.met = met]
  <2>1. receipt' = [receipt EXCEPT ![r] = y]
    BY <1>4 DEF UpdateInboundDeliveryStatusWrite
  <2>2. item = ItemOf(r) /\ (receipt[r].st = "received" => Cancellable(item))
    BY <1>4 DEF UpdateInboundDeliveryStatusWrite
  <2>3. CASE receipt[r].st = "received" /\ receipt[r].line = l
    <3>1. item.line = l /\ Cancellable(item)
      BY <2>2, <2>3 DEF ItemOf
    <3>2. ClearedQty(l, None) = 0
      BY <3>1, ConstantsAssumption DEF Cancellable
    <3> QED BY <3>2, NothingBilled
  <2>4. CASE ~(receipt[r].st = "received" /\ receipt[r].line = l)
    <3> HIDE DEF y
    <3> QED BY <1>1, <2>1, <2>4, ReceiptChangeGoods
  <2> QED BY <2>3, <2>4
<1> QED BY <1>3, <1>4

LEMMA ReceiptStepGoods ==
  ASSUME IInv, NEW c \in Clients, ReceiptStep(c), ~stale', NEW l \in Lines
  PROVE  bill' = bill /\ (KeepsGoods(l) \/ NoneBilled(l))
<1>1. ASSUME receipt' = receipt PROVE KeepsGoods(l)
  BY <1>1 DEF KeepsGoods
<1>2. ASSUME NEW r \in Receipts, NEW o \in Orders \cup {None}, NEW k \in Links, NEW t \in ReceiptTerms,
             CreateInboundDelivery(c, r, o, k, t)
      PROVE  bill' = bill /\ KeepsGoods(l)
  <2>1. receipt[r].st # "received"
    BY <1>2 DEF CreateInboundDelivery, NoReceipt
  <2> QED BY <1>2, <2>1, ReceiptChangeGoods DEF CreateInboundDelivery
<1>3. ASSUME NEW r \in Receipts, NEW o \in Orders, UpdateInboundDeliveryRead(c, r, o)
      PROVE  bill' = bill /\ KeepsGoods(l)
  BY <1>1, <1>3 DEF UpdateInboundDeliveryRead
<1>4. ASSUME NEW k \in Links, NEW t \in ReceiptTerms, UpdateInboundDeliveryWrite(c, k, t)
      PROVE  bill' = bill /\ KeepsGoods(l)
  <2> DEFINE r == req[c].on
             o == req[c].po
  <2>1. r \in Receipts
    BY <1>4, Requests DEF IInv, UpdateInboundDeliveryWrite, EditRequest
  <2>2. receipt[r] \in ReceiptRecord
    BY <2>1 DEF IInv, Typed
  <2>3. bill' = bill
    BY <1>4 DEF UpdateInboundDeliveryWrite
  <2>4. CASE receipt[r] = NoReceipt \/ order[o] = NoOrder
    BY <1>1, <1>4, <2>3, <2>4 DEF UpdateInboundDeliveryWrite
  <2>5. CASE ~(receipt[r] = NoReceipt \/ order[o] = NoOrder) /\ req[c].lines
    <3>1. PICK y : receipt' = [receipt EXCEPT ![r] = y]
      BY <1>4, <2>5 DEF UpdateInboundDeliveryWrite
    <3>2. receipt[r].st = "draft"
      BY <1>4, <2>5 DEF UpdateInboundDeliveryWrite
    <3> HIDE DEF r
    <3> QED BY <2>1, <2>3, <3>1, <3>2, ReceiptChangeGoods
  <2>6. CASE ~(receipt[r] = NoReceipt \/ order[o] = NoOrder) /\ ~req[c].lines
    <3> DEFINE y == [receipt[r] EXCEPT !.po = o]
    <3>1. receipt' = [receipt EXCEPT ![r] = y]
      BY <1>4, <2>6 DEF UpdateInboundDeliveryWrite
    <3>2. /\ y.st = receipt[r].st /\ y.line = receipt[r].line
          /\ y.qty = receipt[r].qty /\ y.cost = receipt[r].cost
      BY <2>2 DEF ReceiptRecord
    <3> HIDE DEF y, r
    <3> QED BY <2>1, <2>3, <3>1, <3>2, ReceiptChangeGoods
  <2> QED BY <2>4, <2>5, <2>6
<1>5. ASSUME NEW r \in Receipts, DeleteInboundDelivery(c, r) PROVE bill' = bill /\ KeepsGoods(l)
  BY <1>5, ReceiptChangeGoods DEF DeleteInboundDelivery
<1>6. ASSUME NEW r \in Receipts, NEW st \in {"received", "cancelled"},
             UpdateInboundDeliveryStatusRead(c, r, st)
      PROVE  bill' = bill /\ KeepsGoods(l)
  BY <1>1, <1>6 DEF UpdateInboundDeliveryStatusRead
<1>7. CASE UpdateInboundDeliveryStatusWrite(c)
  BY <1>7, StatusGoods DEF UpdateInboundDeliveryStatusWrite
<1> QED BY <1>2, <1>3, <1>4, <1>5, <1>6, <1>7 DEF ReceiptStep

\* The goods of a bill on record stay received (db/inbound_delivery.go:545),
\* short of a request that writes what it would no longer read: a receipt is
\* given back only while nothing of its lines is billed.
THEOREM BilledGoodsKept == Spec => BilledGoodsStayReceived
<1>1. ASSUME IInv, [Next]_vars, ~stale', NEW r \in Received, NEW b \in Recorded,
             receipt[r].line = bill[b].line, bill[b].line # None
      PROVE  receipt'[r].st = "received" \/ receipt[r].line # receipt'[r].line
  <2> DEFINE l == bill[b].line
  <2>1. r \in Receipts /\ receipt[r].st = "received" /\ b \in Bills /\ OnRecord(bill[b])
    BY DEF Received, Recorded, OnRecord
  <2>2. l \in Lines
    BY <1>1, <2>1, HeldLines DEF IInv, Linked
  <2> HIDE DEF l
  <2>3. bill[b].line = l /\ receipt[r].line = l
    BY <1>1 DEF l
  <2>4. ~NoneBilled(l)
    BY <2>1, <2>3 DEF NoneBilled
  <2>5. CASE KeepsGoods(l) \/ LineGoes(l)
    BY <2>1, <2>3, <2>5 DEF KeepsGoods, LineGoes
  <2>6. ASSUME NEW c \in Clients, OrderStep(c) PROVE KeepsGoods(l) \/ LineGoes(l)
    BY <1>1, <2>2, <2>6, OrderStepGoods
  <2>7. ASSUME NEW c \in Clients, ReceiptStep(c) PROVE KeepsGoods(l)
    BY <1>1, <2>2, <2>4, <2>7, ReceiptStepGoods
  <2>8. ASSUME NEW c \in Clients, BillStep(c) PROVE KeepsGoods(l)
    BY <2>8, BillsLeaveGoods DEF KeepsGoods
  <2>9. CASE UNCHANGED vars
    <3>1. receipt' = receipt
      BY <2>9 DEF vars
    <3>2. KeepsGoods(l)
      BY <3>1 DEF KeepsGoods
    <3> QED BY <2>5, <3>2
  <2> QED BY <1>1, <2>5, <2>6, <2>7, <2>8, <2>9 DEF Next
<1>2. IInv /\ [Next]_vars =>
        [~stale' => \A r \in Received : receipt[r].line \in {bill[b].line : b \in Recorded} \ {None}
           => receipt'[r].st = "received" \/ receipt[r].line # receipt'[r].line]_vars
  BY <1>1
<1> QED BY <1>2, DocumentsLinked, PTL DEF Spec, BilledGoodsStayReceived

-----------------------------------------------------------------------------
(* Goods are billed once.                                                  *)

\* A bill is created as a draft or cancelled, and posted when it goes on record.
CreatedOffRecord == CreatedAs \cap {"approved", "paid"} = {}

Posted == \A b \in Bills : OnRecord(bill[b]) => bill[b].posted
OnceAt(l) == MatchedQty(l) <= ReceivedQty(l)

Charging(l) == {b \in Bills : Charges(bill[b], l)}
ReceivedOn(l) == {r \in Receipts : receipt[r].st = "received" /\ receipt[r].line = l}

\* The sums of a line are sums over those sets.
SumsOfLines ==
  \A l :
    /\ MatchedQty(l) = Total(BilledQty, Charging(l)) /\ MatchedQty(l) \in Nat
    /\ ReceivedQty(l) = Total(Quantity, ReceivedOn(l)) /\ ReceivedQty(l) \in Nat
    /\ IsFiniteSet(Charging(l)) /\ \A b \in Charging(l) : BilledQty[b] \in Nat
    /\ IsFiniteSet(ReceivedOn(l)) /\ \A r \in ReceivedOn(l) : Quantity[r] \in Nat

LEMMA Parts == Typed => SumsOfLines
<1> SUFFICES ASSUME Typed, NEW l
             PROVE  /\ MatchedQty(l) = Total(BilledQty, Charging(l)) /\ MatchedQty(l) \in Nat
                    /\ ReceivedQty(l) = Total(Quantity, ReceivedOn(l)) /\ ReceivedQty(l) \in Nat
                    /\ IsFiniteSet(Charging(l)) /\ \A b \in Charging(l) : BilledQty[b] \in Nat
                    /\ IsFiniteSet(ReceivedOn(l)) /\ \A r \in ReceivedOn(l) : Quantity[r] \in Nat
  BY DEF SumsOfLines
<1>1. Charging(l) = {b \in Recorded : bill[b].line = l /\ ~bill[b].override}
  BY DEF Charging, Charges, OnRecord, Recorded
<1>2. ReceivedOn(l) = {r \in Received : receipt[r].line = l}
  BY DEF ReceivedOn, Received
<1>3. IsFiniteSet(Charging(l)) /\ IsFiniteSet(ReceivedOn(l))
  BY ConstantsAssumption, FS_Subset DEF Charging, ReceivedOn
<1>4. /\ \A b \in Charging(l) : BilledQty[b] \in Nat
      /\ \A r \in ReceivedOn(l) : Quantity[r] \in Nat
  BY DEF Typed, BillRecord, ReceiptRecord, BilledQty, Quantity, Charging, ReceivedOn
<1> QED BY <1>1, <1>2, <1>3, <1>4, Quantities DEF MatchedQty, ReceivedQty

LEMMA NextParts == Typed' => SumsOfLines'
BY Parts, PTL

\* Bills go off record or stay.
LEMMA MatchedShrinks ==
  ASSUME Typed, Typed', NEW l, AddsNoBill(l)
  PROVE  MatchedQty(l)' <= MatchedQty(l) /\ MatchedQty(l)' \in Nat /\ MatchedQty(l) \in Nat
<1>1. Charging(l)' \in SUBSET Charging(l)
  BY DEF Charging, AddsNoBill
<1>2. \A b \in Charging(l)' : BilledQty'[b] = BilledQty[b] /\ BilledQty'[b] \in Int
  BY DEF Charging, AddsNoBill, BilledQty, Typed, BillRecord
<1>3. IsFiniteSet(Charging(l)')
  BY <1>1, Parts, FS_Subset DEF SumsOfLines
<1>4. MatchedQty(l)' = Total(BilledQty', Charging(l)')
  BY NextParts DEF SumsOfLines
<1>5. Total(BilledQty', Charging(l)') = Total(BilledQty, Charging(l)')
  BY <1>2, <1>3, TotalEqual
<1>6. /\ Total(BilledQty, Charging(l)') \in Nat /\ Total(BilledQty, Charging(l)) \in Nat
      /\ Total(BilledQty, Charging(l)') <= Total(BilledQty, Charging(l))
  BY <1>1, Parts, TotalSubset DEF SumsOfLines
<1> QED BY <1>4, <1>5, <1>6, Parts DEF SumsOfLines

\* Received goods stay received, and others come in.
LEMMA ReceivedGrows ==
  ASSUME Typed, Typed', NEW l, KeepsGoods(l)
  PROVE  ReceivedQty(l) <= ReceivedQty(l)' /\ ReceivedQty(l)' \in Nat /\ ReceivedQty(l) \in Nat
<1>1. ReceivedOn(l) \in SUBSET ReceivedOn(l)'
  BY DEF ReceivedOn, KeepsGoods
<1>2. \A r \in ReceivedOn(l) : Quantity[r] = Quantity'[r] /\ Quantity[r] \in Int
  BY DEF ReceivedOn, KeepsGoods, Quantity, Typed, ReceiptRecord
<1>3. ReceivedQty(l)' = Total(Quantity', ReceivedOn(l)')
  BY NextParts DEF SumsOfLines
<1>4. IsFiniteSet(ReceivedOn(l)') /\ \A r \in ReceivedOn(l)' : Quantity'[r] \in Nat
  BY NextParts DEF SumsOfLines
<1>5. Total(Quantity, ReceivedOn(l)) = Total(Quantity', ReceivedOn(l))
  BY <1>2, Parts, TotalEqual DEF SumsOfLines
<1>6. /\ Total(Quantity', ReceivedOn(l)) \in Nat /\ Total(Quantity', ReceivedOn(l)') \in Nat
      /\ Total(Quantity', ReceivedOn(l)) <= Total(Quantity', ReceivedOn(l)')
  BY <1>1, <1>4, TotalSubset
<1> QED BY <1>3, <1>5, <1>6, Parts DEF SumsOfLines

\* A step that adds no bill and keeps the goods of a line, or leaves the line
\* without bills.
LEMMA OnceKept ==
  ASSUME Typed, Typed', NEW l \in Lines, OnceAt(l), AddsNoBill(l),
         KeepsGoods(l) \/ LineGoes(l) \/ NoneBilled(l)
  PROVE  OnceAt(l)'
<1>1. MatchedQty(l)' <= MatchedQty(l) /\ MatchedQty(l)' \in Nat /\ MatchedQty(l) \in Nat
  BY MatchedShrinks
<1>2. CASE KeepsGoods(l)
  <2>1. ReceivedQty(l) <= ReceivedQty(l)' /\ ReceivedQty(l)' \in Nat /\ ReceivedQty(l) \in Nat
    BY <1>2, ReceivedGrows
  <2> QED BY <1>1, <2>1 DEF OnceAt
<1>3. CASE LineGoes(l) \/ NoneBilled(l)
  <2>1. Charging(l)' = {}
    BY <1>3 DEF Charging, Charges, LineGoes, NoneBilled, AddsNoBill
  <2>2. MatchedQty(l)' = Total(BilledQty', Charging(l)')
    BY NextParts DEF SumsOfLines
  <2>3. MatchedQty(l)' = 0
    BY <2>1, <2>2, TotalEmpty
  <2>4. ReceivedQty(l)' \in Nat
    BY NextParts DEF SumsOfLines
  <2> QED BY <2>3, <2>4 DEF OnceAt
<1> QED BY <1>2, <1>3

\* What other bills charge a line with is part of what they have billed of it.
LEMMA ChargedByOthers ==
  ASSUME Typed, NEW l, NEW b \in Bills
  PROVE  /\ Total(BilledQty, Charging(l) \ {b}) \in Nat
         /\ Total(BilledQty, Charging(l) \ {b}) <= ClearedQty(l, b)
<1> DEFINE T == {x \in Recorded \ {b} : bill[x].line = l}
           U == Charging(l) \ {b}
<1>1. U \in SUBSET T /\ T \in SUBSET Bills
  BY DEF Charging, Charges, OnRecord, Recorded
<1>2. IsFiniteSet(T)
  BY <1>1, ConstantsAssumption, FS_Subset
<1>3. \A x \in T : BilledQty[x] \in Nat
  BY <1>1 DEF Typed, BilledQty, BillRecord
<1>4. ClearedQty(l, b) = Total(BilledQty, T)
  BY DEF ClearedQty
<1> HIDE DEF T, U
<1>5. Total(BilledQty, U) \in Nat /\ Total(BilledQty, U) <= Total(BilledQty, T)
  BY <1>1, <1>2, <1>3, TotalSubset
<1> QED BY <1>4, <1>5 DEF U

\* A bill that goes on record in time was matched, or overrides its variance.
LEMMA StateWriteOnce ==
  ASSUME IInv, IInv', NEW c \in Clients, UpdateIncomingInvoiceStateWrite(c), ~stale',
         NEW l \in Lines, OnceAt(l)
  PROVE  OnceAt(l)'
<1> DEFINE b == req[c].on
           st == req[c].to
<1>1. PICK y \in BillRecord :
        /\ bill' = [bill EXCEPT ![b] = y]
        /\ y.st = IF bill[b].st = "none" THEN "none" ELSE st
        /\ y.line = bill[b].line /\ y.qty = bill[b].qty /\ y.override = bill[b].override
  BY BillStateWritten DEF IInv
<1>2. b \in Bills
  BY BillStateWritten DEF IInv
<1>3. Gated(b, st) => Approvable(b)
  BY DEF UpdateIncomingInvoiceStateWrite
<1>4. receipt' = receipt
  BY DEF UpdateIncomingInvoiceStateWrite
<1> HIDE DEF b, st
<1>5. \A x \in Bills : bill'[x] = IF x = b THEN y ELSE bill[x]
  BY <1>1 DEF IInv, Typed
<1>6. CASE ~Charges(y, l) \/ Charges(bill[b], l)
  <2>1. AddsNoBill(l)
    BY <1>1, <1>5, <1>6 DEF AddsNoBill
  <2>2. KeepsGoods(l)
    BY <1>4 DEF KeepsGoods
  <2> QED BY <2>1, <2>2, OnceKept DEF IInv
<1>7. CASE Charges(y, l) /\ ~Charges(bill[b], l)
  <2>1. bill[b].line = l /\ ~bill[b].override /\ st \in {"approved", "paid"} /\ ~OnRecord(bill[b])
    BY <1>1, <1>7 DEF Charges, OnRecord
  <2>2. Match(b) \in {"matched", "unlinked"}
    BY <1>3, <2>1 DEF Gated, OnRecord, Approvable
  <2>3. OrdersOf(l) # {}
    <3>1. l \in Held
      BY <1>2, <2>1, ConstantsAssumption DEF IInv, Linked
    <3> QED BY <3>1 DEF OrdersOf, Held
  <2>4. classifyMatch(bill[b], ClearedQty(l, b)) \in {"matched", "unlinked"}
    BY <2>1, <2>2, <2>3 DEF Match
  <2>5. ~(ClearedQty(l, b) + bill[b].qty > ReceivedQty(l))
    BY <2>1, <2>4 DEF classifyMatch
  <2>6. ClearedQty(l, b) \in Nat /\ bill[b].qty \in Nat /\ ReceivedQty(l) \in Nat
    BY <1>2, Quantities DEF IInv, Typed, BillRecord
  <2>7. ReceivedQty(l)' = ReceivedQty(l)
    BY <1>4 DEF ReceivedQty, Received, Quantity
  <2>8. MatchedQty(l)' = bill[b].qty + Total(BilledQty, Charging(l) \ {b})
    <3>1. Charging(l)' \ {b} = Charging(l) \ {b} /\ b \in Charging(l)'
      BY <1>2, <1>5, <1>7 DEF Charging
    <3>2. /\ MatchedQty(l)' = Total(BilledQty', Charging(l)') /\ IsFiniteSet(Charging(l)')
          /\ \A x \in Charging(l)' : BilledQty'[x] \in Nat
      BY NextParts DEF SumsOfLines, IInv
    <3>3. Total(BilledQty', Charging(l)') = BilledQty'[b] + Total(BilledQty', Charging(l)' \ {b})
      BY <3>1, <3>2, TotalRemove
    <3>4. BilledQty'[b] = bill[b].qty
      BY <1>1, <1>2, <1>5 DEF BilledQty
    <3>5. Total(BilledQty', Charging(l)' \ {b}) = Total(BilledQty, Charging(l)' \ {b})
      <4>1. \A x \in Charging(l)' \ {b} : BilledQty'[x] = BilledQty[x] /\ BilledQty'[x] \in Int
        BY <1>5, <3>2 DEF BilledQty, Charging
      <4>2. IsFiniteSet(Charging(l)' \ {b})
        BY <3>2, FS_Subset
      <4> QED BY <4>1, <4>2, TotalEqual
    <3> QED BY <3>1, <3>2, <3>3, <3>4, <3>5
  <2>9. /\ Total(BilledQty, Charging(l) \ {b}) \in Nat
        /\ Total(BilledQty, Charging(l) \ {b}) <= ClearedQty(l, b)
    BY <1>2, ChargedByOthers DEF IInv
  <2> QED BY <2>5, <2>6, <2>7, <2>8, <2>9 DEF OnceAt
<1> QED BY <1>6, <1>7

LEMMA BillStepOnce ==
  ASSUME IInv, IInv', Posted, CreatedOffRecord, NEW c \in Clients, BillStep(c), ~stale',
         NEW l \in Lines, OnceAt(l)
  PROVE  OnceAt(l)'
<1>1. KeepsGoods(l)
  BY BillsLeaveGoods DEF KeepsGoods
<1>2. ASSUME NEW b \in Bills, NEW y, bill' = [bill EXCEPT ![b] = y], ~OnRecord(y) PROVE OnceAt(l)'
  <2>1. \A x \in Bills : bill'[x] = IF x = b THEN y ELSE bill[x]
    BY <1>2 DEF IInv, Typed
  <2>2. AddsNoBill(l)
    BY <1>2, <2>1 DEF AddsNoBill, Charges
  <2> QED BY <1>1, <2>2, OnceKept DEF IInv
<1>3. ASSUME NEW b \in Bills, NEW k \in Links, NEW t \in BillTerms, NEW override \in Overrides,
             NEW st \in CreatedAs, CreateIncomingInvoice(c, b, st, k, t, override)
      PROVE  OnceAt(l)'
  <2> DEFINE x == [NoBill EXCEPT !.st = st]
             y == Billed(x, k, t, override)
  <2>1. x \in BillRecord /\ x.st = st
    BY ConstantsAssumption DEF NoBill, BillRecord, BillStates
  <2>2. k \in Links \cap (Held \cup {None}) /\ bill' = [bill EXCEPT ![b] = y]
    BY <1>3 DEF CreateIncomingInvoice
  <2> HIDE DEF x
  <2>3. y.st = st
    BY <2>1, <2>2, BilledTyped DEF IInv
  <2> HIDE DEF y
  <2>4. ~OnRecord(y)
    BY <2>3 DEF OnRecord, CreatedOffRecord
  <2> QED BY <1>2, <2>2, <2>4
<1>4. ASSUME NEW b \in Bills, NEW k \in Links, NEW t \in BillTerms, NEW override \in Overrides,
             UpdateIncomingInvoice(c, b, k, t, override)
      PROVE  OnceAt(l)'
  <2> DEFINE y == Billed(bill[b], k, t, override)
  <2>1. bill[b] \in BillRecord /\ ~bill[b].posted
    BY <1>4 DEF IInv, Typed, UpdateIncomingInvoice, BillEditable
  <2>2. k \in Links \cap (Held \cup {None}) /\ bill' = [bill EXCEPT ![b] = y]
    BY <1>4 DEF UpdateIncomingInvoice, BillEditable
  <2>3. y.st = bill[b].st
    BY <2>1, <2>2, BilledTyped DEF IInv
  <2> HIDE DEF y
  <2>4. ~OnRecord(y)
    BY <2>1, <2>3 DEF OnRecord, Posted
  <2> QED BY <1>2, <2>2, <2>4
<1>5. ASSUME NEW b \in Bills, NEW st \in BillStates, UpdateIncomingInvoiceStateRead(c, b, st)
      PROVE  OnceAt(l)'
  <2>1. AddsNoBill(l)
    BY <1>5 DEF AddsNoBill, UpdateIncomingInvoiceStateRead
  <2> QED BY <1>1, <2>1, OnceKept DEF IInv
<1>6. ASSUME NEW b \in Bills, DeleteIncomingInvoice(c, b) PROVE OnceAt(l)'
  BY <1>2, <1>6 DEF DeleteIncomingInvoice, NoBill, OnRecord
<1>7. CASE UpdateIncomingInvoiceStateWrite(c)
  BY <1>7, StateWriteOnce
<1> QED BY <1>3, <1>4, <1>5, <1>6, <1>7 DEF BillStep

LEMMA PostedKept ==
  ASSUME IInv, Posted, CreatedOffRecord, [Next]_vars
  PROVE  Posted'
<1>1. ASSUME bill' = bill PROVE Posted'
  BY <1>1 DEF Posted
<1>2. ASSUME NEW gone, bill' = Unlinked(bill, gone) PROVE Posted'
  BY <1>2, UnlinkedBills DEF IInv, Posted, OnRecord
<1>3. ASSUME NEW b \in Bills, NEW y, bill' = [bill EXCEPT ![b] = y], OnRecord(y) => y.posted PROVE Posted'
  BY <1>3 DEF IInv, Typed, Posted
<1>4. ASSUME NEW c \in Clients, OrderStep(c) PROVE Posted'
  BY <1>1, <1>2, <1>4 DEF OrderStep, CreatePurchaseOrder, UpdatePurchaseOrder, ReplaceLine,
     UpdatePurchaseOrderStatus, DeletePurchaseOrderRead, DeletePurchaseOrderWrite
<1>5. ASSUME NEW c \in Clients, ReceiptStep(c) PROVE Posted'
  BY <1>1, <1>5 DEF ReceiptStep, CreateInboundDelivery, UpdateInboundDeliveryRead,
     UpdateInboundDeliveryWrite, DeleteInboundDelivery, UpdateInboundDeliveryStatusRead,
     UpdateInboundDeliveryStatusWrite
<1>6. ASSUME NEW c \in Clients, NEW b \in Bills, NEW k \in Links, NEW t \in BillTerms,
             NEW override \in Overrides, NEW st \in CreatedAs,
             CreateIncomingInvoice(c, b, st, k, t, override)
      PROVE  Posted'
  <2> DEFINE x == [NoBill EXCEPT !.st = st]
             y == Billed(x, k, t, override)
  <2>1. x \in BillRecord /\ x.st = st
    BY ConstantsAssumption DEF NoBill, BillRecord, BillStates
  <2>2. k \in Links \cap (Held \cup {None}) /\ bill' = [bill EXCEPT ![b] = y]
    BY <1>6 DEF CreateIncomingInvoice
  <2> HIDE DEF x
  <2>3. y.st = st
    BY <2>1, <2>2, BilledTyped DEF IInv
  <2> HIDE DEF y
  <2> QED BY <1>3, <2>2, <2>3 DEF OnRecord, CreatedOffRecord
<1>7. ASSUME NEW c \in Clients, NEW b \in Bills, NEW k \in Links, NEW t \in BillTerms,
             NEW override \in Overrides, UpdateIncomingInvoice(c, b, k, t, override)
      PROVE  Posted'
  <2> DEFINE y == Billed(bill[b], k, t, override)
  <2>1. bill[b] \in BillRecord /\ ~bill[b].posted
    BY <1>7 DEF IInv, Typed, UpdateIncomingInvoice, BillEditable
  <2>2. k \in Links \cap (Held \cup {None}) /\ bill' = [bill EXCEPT ![b] = y]
    BY <1>7 DEF UpdateIncomingInvoice, BillEditable
  <2>3. y.st = bill[b].st
    BY <2>1, <2>2, BilledTyped DEF IInv
  <2> HIDE DEF y
  <2> QED BY <1>3, <2>1, <2>2, <2>3 DEF OnRecord, Posted
<1>8. ASSUME NEW c \in Clients, NEW b \in Bills, NEW st \in BillStates,
             UpdateIncomingInvoiceStateRead(c, b, st)
      PROVE  Posted'
  BY <1>1, <1>8 DEF UpdateIncomingInvoiceStateRead
<1>9. ASSUME NEW c \in Clients, NEW b \in Bills, DeleteIncomingInvoice(c, b) PROVE Posted'
  BY <1>3, <1>9 DEF DeleteIncomingInvoice, NoBill, OnRecord
<1>10. ASSUME NEW c \in Clients, UpdateIncomingInvoiceStateWrite(c) PROVE Posted'
  <2> DEFINE b == req[c].on
  <2>1. b \in Bills
    BY <1>10, BillStateWritten DEF IInv
  <2>2. PICK y \in BillRecord :
          /\ bill' = [bill EXCEPT ![b] = y]
          /\ y.st = IF bill[b].st = "none" THEN "none" ELSE req[c].to
          /\ y.posted = NeedsEntry(req[c].to)
    BY <1>10, BillStateWritten DEF IInv
  <2> HIDE DEF b
  <2> QED BY <1>3, <2>1, <2>2 DEF OnRecord, NeedsEntry
<1>11. ASSUME NEW c \in Clients, BillStep(c) PROVE Posted'
  BY <1>6, <1>7, <1>8, <1>9, <1>10, <1>11 DEF BillStep
<1>12. CASE UNCHANGED vars
  BY <1>1, <1>12 DEF vars
<1> QED BY <1>4, <1>5, <1>11, <1>12 DEF Next

LEMMA StaleStays == ASSUME [Next]_vars, stale PROVE stale'
<1>1. ASSUME NEW c \in Clients, OrderStep(c) PROVE stale'
  BY <1>1 DEF OrderStep, CreatePurchaseOrder, UpdatePurchaseOrder, UpdatePurchaseOrderStatus,
     DeletePurchaseOrderRead, DeletePurchaseOrderWrite
<1>2. ASSUME NEW c \in Clients, ReceiptStep(c) PROVE stale'
  <2>1. ASSUME NEW r \in Receipts, NEW o \in Orders \cup {None}, NEW l \in Links,
               NEW t \in ReceiptTerms, CreateInboundDelivery(c, r, o, l, t)
        PROVE  stale'
    BY <2>1 DEF CreateInboundDelivery
  <2>2. ASSUME NEW l \in Links, NEW t \in ReceiptTerms, UpdateInboundDeliveryWrite(c, l, t)
        PROVE  stale'
    BY <2>2 DEF UpdateInboundDeliveryWrite
  <2>3. ASSUME UpdateInboundDeliveryStatusWrite(c) PROVE stale'
    BY <2>3 DEF UpdateInboundDeliveryStatusWrite
  <2> QED BY <1>2, <2>1, <2>2, <2>3 DEF ReceiptStep, UpdateInboundDeliveryRead,
             DeleteInboundDelivery, UpdateInboundDeliveryStatusRead
<1>3. ASSUME NEW c \in Clients, BillStep(c) PROVE stale'
  BY <1>3 DEF BillStep, CreateIncomingInvoice, UpdateIncomingInvoice, UpdateIncomingInvoiceStateRead,
     UpdateIncomingInvoiceStateWrite, DeleteIncomingInvoice
<1>4. CASE UNCHANGED vars
  BY <1>4 DEF vars
<1> QED BY <1>1, <1>2, <1>3, <1>4 DEF Next

\* Where bills start off record, what the bills of an order line charge was
\* received (db/incoming_invoice_match.go:105-122), those that override a
\* variance apart: a bill is matched against what other bills have billed, and
\* no receipt of a billed line is given back. A bill that is created approved
\* is not matched, and the hypothesis leaves it out.
THEOREM GoodsBilledOnce == CreatedOffRecord => (Spec => []BilledOnce)
<1> SUFFICES ASSUME CreatedOffRecord PROVE Spec => []BilledOnce
  OBVIOUS
<1>1. Init => Posted /\ BilledOnce
  <2> SUFFICES ASSUME Init PROVE Posted /\ BilledOnce
    OBVIOUS
  <2>1. \A b \in Bills : ~OnRecord(bill[b])
    BY DEF Init, OnRecord, NoBill
  <2>2. ASSUME NEW l \in Lines PROVE MatchedQty(l) <= ReceivedQty(l)
    <3>1. Charging(l) = {}
      BY <2>1 DEF Charging, Charges
    <3>2. MatchedQty(l) = Total(BilledQty, Charging(l)) /\ ReceivedQty(l) \in Nat
      BY Parts, InitIInv DEF IInv, SumsOfLines
    <3> QED BY <3>1, <3>2, TotalEmpty
  <2> QED BY <2>1, <2>2 DEF Posted, BilledOnce
<1>2. IInv /\ IInv' /\ Posted /\ BilledOnce /\ [Next]_vars => BilledOnce'
  <2> SUFFICES ASSUME IInv, IInv', Posted, BilledOnce, [Next]_vars, ~stale', NEW l \in Lines
               PROVE  OnceAt(l)'
    BY DEF BilledOnce, OnceAt
  <2>1. ~stale
    BY StaleStays
  <2>2. OnceAt(l)
    BY <2>1 DEF BilledOnce, OnceAt
  <2>3. ASSUME NEW c \in Clients, OrderStep(c) PROVE OnceAt(l)'
    BY <2>2, <2>3, OrderStepGoods, OnceKept DEF IInv
  <2>4. ASSUME NEW c \in Clients, ReceiptStep(c) PROVE OnceAt(l)'
    <3>1. bill' = bill /\ (KeepsGoods(l) \/ NoneBilled(l))
      BY <2>4, ReceiptStepGoods
    <3>2. AddsNoBill(l)
      BY <3>1 DEF AddsNoBill
    <3> QED BY <2>2, <3>1, <3>2, OnceKept DEF IInv
  <2>5. ASSUME NEW c \in Clients, BillStep(c) PROVE OnceAt(l)'
    BY <2>2, <2>5, BillStepOnce
  <2>6. CASE UNCHANGED vars
    <3>1. receipt' = receipt /\ bill' = bill
      BY <2>6 DEF vars
    <3>2. AddsNoBill(l) /\ KeepsGoods(l)
      BY <3>1 DEF AddsNoBill, KeepsGoods
    <3> QED BY <2>2, <3>2, OnceKept DEF IInv
  <2> QED BY <2>3, <2>4, <2>5, <2>6 DEF Next
<1>3. IInv /\ Posted /\ [Next]_vars => Posted'
  BY PostedKept
<1> QED BY <1>1, <1>2, <1>3, DocumentsLinked, PTL DEF Spec

-----------------------------------------------------------------------------
(* GRNI. Bills override nothing here, so that what is billed was received. *)

OverridesNothing == Overrides \subseteq {FALSE}
NoneOverrides == \A b \in Bills : ~bill[b].override

\* What each document has put into GRNI and taken out of it.
AccrualsRight ==
  \A r \in Receipts :
    receipt[r].accrued = IF receipt[r].st = "received" THEN receipt[r].qty * receipt[r].cost ELSE 0
ClearingRight(b) ==
  /\ ~OnRecord(bill[b]) \/ bill[b].line = None => bill[b].cleared = 0
  /\ OnRecord(bill[b]) /\ bill[b].line # None =>
       \A r \in ReceivedOn(bill[b].line) : bill[b].cleared = bill[b].qty * receipt[r].cost
PostedOnly == \A b \in Bills : bill[b].posted => OnRecord(bill[b])

GrniRight == AccrualsRight /\ PostedOnly /\ \A b \in Bills : ClearingRight(b)

LEMMA RoundedExactly ==
  ASSUME NEW n \in Nat, NEW d \in Nat \ {0} PROVE RoundHalfUp(n * d, d) = n
<1> DEFINE m == 2 * (n * d) + d
           e == 2 * d
<1>1. n * d \in Nat /\ n * e = 2 * (n * d)
  OBVIOUS
<1>2. m = n * e + d /\ e \in Nat \ {0} /\ n * e \in Nat /\ 0 <= d /\ d < e
  BY <1>1
<1> HIDE DEF m, e
<1>3. ASSUME NEW q \in Int, q * e <= m, m < (q + 1) * e PROVE q = n
  <2>1. CASE q <= n - 1
    <3>1. (q + 1) * e <= n * e
      BY <1>2, <2>1
    <3> QED BY <1>2, <1>3, <3>1
  <2>2. CASE q >= n + 1
    <3>1. q * e >= (n + 1) * e
      BY <1>2, <2>2
    <3> QED BY <1>2, <1>3, <3>1
  <2> QED BY <2>1, <2>2
<1>4. m \in Nat
  BY <1>2
<1>5. (m \div e) \in Int /\ (m \div e) * e <= m /\ m < ((m \div e) + 1) * e
  BY <1>2, <1>4
<1>6. m \div e = n
  BY <1>3, <1>5
<1> QED BY <1>6 DEF RoundHalfUp, m, e

\* Bills on record for a line.
BilledOn(l) == {b \in Bills : OnRecord(bill[b]) /\ bill[b].line = l}

\* Where no bill overrides, what is billed of a line is what is matched.
LEMMA AllMatched ==
  ASSUME Typed, NoneOverrides, NEW l
  PROVE  /\ ClearedQty(l, None) = MatchedQty(l) /\ Charging(l) = BilledOn(l)
         /\ MatchedQty(l) = Total(BilledQty, BilledOn(l))
<1>1. {b \in Recorded \ {None} : bill[b].line = l} = BilledOn(l) /\ Charging(l) = BilledOn(l)
  BY ConstantsAssumption DEF Recorded, Charging, Charges, OnRecord, NoneOverrides, BilledOn
<1>2. MatchedQty(l) = Total(BilledQty, Charging(l))
  BY Parts DEF SumsOfLines
<1> QED BY <1>1, <1>2 DEF ClearedQty

\* What was accrued on a line is its quantity at the one cost it has.
LEMMA AccruedAtCost ==
  ASSUME Typed, CostsAgree, NEW l, l # None, NEW r \in ReceivedOn(l)
  PROVE  /\ AccruedCents(l) = ReceivedQty(l) * receipt[r].cost
         /\ AccruedCents(l) = Total(Value, ReceivedOn(l))
<1> DEFINE k == receipt[r].cost
<1>1. IsFiniteSet(ReceivedOn(l)) /\ ReceivedQty(l) = Total(Quantity, ReceivedOn(l))
  BY Parts DEF SumsOfLines
<1>2. k \in Int
  BY DEF Typed, ReceiptRecord, ReceivedOn
<1>3. \A x \in ReceivedOn(l) : Quantity[x] \in Int /\ Value[x] = Quantity[x] * k
  <2> SUFFICES ASSUME NEW x \in ReceivedOn(l) PROVE Quantity[x] \in Int /\ Value[x] = Quantity[x] * k
    OBVIOUS
  <2>1. x \in Receipts /\ receipt[x].cost = k /\ receipt[x].qty \in Nat
    BY DEF CostsAgree, Received, ReceivedOn, Typed, ReceiptRecord
  <2> QED BY <2>1 DEF Quantity, Value
<1> HIDE DEF k
<1>4. Total(Value, ReceivedOn(l)) = Total(Quantity, ReceivedOn(l)) * k
  BY <1>1, <1>2, <1>3, TotalScale
<1>5. ReceivedOn(l) = {x \in Received : receipt[x].line = l}
  BY DEF ReceivedOn, Received
<1> QED BY <1>1, <1>4, <1>5 DEF AccruedCents, k

\* What is left of a line in GRNI.
LEMMA LineLeft ==
  ASSUME IInv, CostsAgree, NoneOverrides, GrniRight, NEW l \in Lines, OnceAt(l)
  PROVE  /\ AccruedCents(l) \in Int /\ Total(Cleared, BilledOn(l)) \in Int
         /\ UnbilledValue[l] = AccruedCents(l) - Total(Cleared, BilledOn(l))
<1> DEFINE R == ReceivedQty(l)
           C == MatchedQty(l)
           B == Total(Cleared, BilledOn(l))
<1>1. l # None /\ Typed
  BY ConstantsAssumption DEF IInv
<1>2. R \in Nat /\ C \in Nat /\ C <= R /\ ClearedQty(l, None) = C /\ AccruedCents(l) \in Nat
  BY <1>1, AllMatched, Quantities DEF OnceAt
<1>3. IsFiniteSet(BilledOn(l)) /\ C = Total(BilledQty, BilledOn(l))
  BY <1>1, AllMatched, ConstantsAssumption, FS_Subset DEF BilledOn
<1>4. Unbilled(l) = R - C
  BY <1>2 DEF Unbilled, Less
<1>5. UnbilledValue[l] = IF Unbilled(l) = 0 THEN 0 ELSE Unbilled(l) * CostOf(l)
  BY DEF UnbilledValue
<1>6. CASE ReceivedOn(l) = {}
  <2>1. R = 0 /\ AccruedCents(l) = 0
    <3>1. {r \in Received : receipt[r].line = l} = {}
      BY <1>6 DEF ReceivedOn, Received
    <3> QED BY <3>1, TotalEmpty DEF ReceivedQty, AccruedCents
  <2>2. C = 0
    BY <1>2, <2>1
  <2>3. NoneBilled(l)
    BY <1>2, <2>2, NothingBilled
  <2>4. BilledOn(l) = {}
    BY <2>3 DEF NoneBilled, BilledOn
  <2>5. B = 0
    BY <2>4, TotalEmpty
  <2> HIDE DEF R, C, B
  <2> QED BY <1>4, <1>5, <2>1, <2>2, <2>5 DEF B
<1>7. CASE ReceivedOn(l) # {}
  <2> DEFINE r == CHOOSE x \in Received : receipt[x].line = l
             k == receipt[r].cost
  <2>1. r \in ReceivedOn(l)
    BY <1>7 DEF ReceivedOn, Received
  <2>2. CostOf(l) = k
    BY DEF CostOf
  <2> HIDE DEF r
  <2>3. k \in Nat
    BY <1>1, <2>1 DEF Typed, ReceiptRecord, ReceivedOn
  <2>4. AccruedCents(l) = R * k
    BY <1>1, <2>1, AccruedAtCost
  <2>5. \A b \in BilledOn(l) : BilledQty[b] \in Int /\ Cleared[b] = BilledQty[b] * k
    BY <1>1, <2>1 DEF GrniRight, ClearingRight, BilledOn, BilledQty, Cleared, Typed, BillRecord
  <2> HIDE DEF k
  <2>6. B = C * k
    BY <1>3, <2>3, <2>5, TotalScale
  <2> HIDE DEF R, C, B
  <2>7. (R - C) * k = R * k - C * k /\ R * k \in Int /\ C * k \in Int
    BY <1>2, <2>3
  <2>8. UnbilledValue[l] = (R - C) * k
    <3>1. CASE R - C = 0
      BY <1>2, <1>4, <1>5, <2>3, <3>1
    <3>2. CASE R - C # 0
      BY <1>4, <1>5, <2>2, <3>2
    <3> QED BY <3>1, <3>2
  <2> QED BY <2>4, <2>6, <2>7, <2>8 DEF B
<1> QED BY <1>6, <1>7

\* GRNI, line by line.
LEMMA GrniByLine ==
  ASSUME IInv, CostsAgree, NoneOverrides, GrniRight, \A l \in Lines : OnceAt(l)
  PROVE  Grni = UnbilledGoods
<1> DEFINE A == [l \in Lines |-> AccruedCents(l)]
           B == [l \in Lines |-> Total(Cleared, BilledOn(l))]
           Loose == {r \in Received : receipt[r].line = None}
           OnOrder == {r \in Received : receipt[r].line \in Lines}
           OnLines == {b \in Recorded : bill[b].line \in Lines}
<1>1. IsFiniteSet(Lines) /\ IsFiniteSet(Receipts) /\ IsFiniteSet(Bills) /\ Typed
  BY ConstantsAssumption DEF IInv
<1>2. IsFiniteSet(Received) /\ IsFiniteSet(Recorded) /\ Received \in SUBSET Receipts
      /\ Recorded \in SUBSET Bills
  BY <1>1, FS_Subset DEF Received, Recorded
<1>3. \A l \in Lines : A[l] \in Int /\ B[l] \in Int /\ UnbilledValue[l] = A[l] - B[l]
  BY LineLeft
<1>4. Total(UnbilledValue, Lines) = Total(A, Lines) - Total(B, Lines)
  <2> HIDE DEF A, B
  <2> QED BY <1>1, <1>3, TotalMinus
<1>5. \A r \in Receipts : Accrued[r] \in Int /\ Value[r] \in Int
  BY <1>1 DEF Accrued, Value, Typed, ReceiptRecord
<1>6. Total(Accrued, Receipts) = Total(Value, Received)
  <2>1. \A r \in Receipts \ Received : Accrued[r] = 0
    BY DEF GrniRight, AccrualsRight, Accrued, Received
  <2>2. Total(Accrued, Receipts) = Total(Accrued, Received)
    BY <1>1, <1>2, <1>5, <2>1, TotalSupport
  <2>3. \A r \in Received : Accrued[r] = Value[r] /\ Accrued[r] \in Int
    BY <1>5 DEF GrniRight, AccrualsRight, Accrued, Value, Received
  <2>4. Total(Accrued, Received) = Total(Value, Received)
    BY <1>2, <2>3, TotalEqual
  <2> QED BY <2>2, <2>4
<1>7. Total(Value, Received) = Total(Value, Loose) + Total(Value, OnOrder)
  <2>1. Received = Loose \cup OnOrder
    BY <1>1, <1>2 DEF Typed, ReceiptRecord
  <2>2. Loose \cap OnOrder = {}
    BY ConstantsAssumption
  <2>3. IsFiniteSet(Loose) /\ IsFiniteSet(OnOrder)
    BY <1>2, FS_Subset
  <2>4. \A r \in Loose \cup OnOrder : Value[r] \in Int
    BY <1>2, <1>5
  <2> HIDE DEF Loose, OnOrder
  <2> QED BY <2>1, <2>2, <2>3, <2>4, TotalUnion
<1>8. Total(A, Lines) = Total(Value, OnOrder)
  <2> DEFINE line == [r \in Receipts |-> receipt[r].line]
  <2>1. \A l \in Lines : A[l] = Total(Value, OfClass(Received, line, l))
    <3>1. \A l : OfClass(Received, line, l) = {r \in Received : receipt[r].line = l}
      BY <1>2 DEF OfClass
    <3> QED BY <3>1 DEF AccruedCents
  <2>2. OnOrder = OfClasses(Received, line, Lines)
    BY <1>2 DEF OfClasses
  <2>3. \A r \in Received : Value[r] \in Int
    BY <1>2, <1>5
  <2> HIDE DEF A, line, OnOrder
  <2> QED BY <1>1, <1>2, <2>1, <2>2, <2>3, TotalByClass
<1>9. \A b \in Bills : Cleared[b] \in Int
  BY <1>1 DEF Cleared, Typed, BillRecord
<1>10. Total(Cleared, Bills) = Total(Cleared, OnLines)
  <2>1. OnLines \in SUBSET Bills
    BY <1>2
  <2>2. \A b \in Bills \ OnLines : Cleared[b] = 0
    BY <1>1 DEF GrniRight, ClearingRight, Cleared, Recorded, OnRecord, Typed, BillRecord
  <2> HIDE DEF OnLines
  <2> QED BY <1>1, <1>9, <2>1, <2>2, TotalSupport
<1>11. Total(B, Lines) = Total(Cleared, OnLines)
  <2> DEFINE line == [b \in Bills |-> bill[b].line]
  <2>1. \A l \in Lines : B[l] = Total(Cleared, OfClass(Recorded, line, l))
    <3>1. \A l : OfClass(Recorded, line, l) = BilledOn(l)
      BY <1>2 DEF OfClass, BilledOn, Recorded, OnRecord
    <3> QED BY <3>1
  <2>2. OnLines = OfClasses(Recorded, line, Lines)
    BY <1>2 DEF OfClasses
  <2>3. \A b \in Recorded : Cleared[b] \in Int
    BY <1>2, <1>9
  <2> HIDE DEF B, line, OnLines
  <2> QED BY <1>1, <1>2, <2>1, <2>2, <2>3, TotalByClass
<1>12. /\ Total(Value, Loose) \in Int /\ Total(Value, OnOrder) \in Int
       /\ Total(Cleared, OnLines) \in Int
  <2>1. IsFiniteSet(Loose) /\ IsFiniteSet(OnOrder) /\ IsFiniteSet(OnLines)
    BY <1>2, FS_Subset
  <2>2. /\ \A r \in Loose : Value[r] \in Int
        /\ \A r \in OnOrder : Value[r] \in Int
        /\ \A b \in OnLines : Cleared[b] \in Int
    BY <1>2, <1>5, <1>9
  <2> HIDE DEF Loose, OnOrder, OnLines
  <2> QED BY <2>1, <2>2, TotalType
<1>13. /\ Grni = Total(Accrued, Receipts) - Total(Cleared, Bills)
       /\ UnbilledGoods = Total(Value, Loose) + Total(UnbilledValue, Lines)
  BY DEF Grni, UnbilledGoods
<1> HIDE DEF A, B, Loose, OnOrder, OnLines
<1> QED BY <1>4, <1>6, <1>7, <1>8, <1>10, <1>11, <1>12, <1>13

\* Orders leave what was accrued alone.
LEMMA OrderStepAccruals ==
  ASSUME IInv, NEW c \in Clients, OrderStep(c), AccrualsRight
  PROVE  AccrualsRight'
<1>1. ASSUME receipt' = receipt PROVE AccrualsRight'
  BY <1>1 DEF AccrualsRight
<1>2. ASSUME \A r \in Receipts :
               /\ receipt'[r].st = receipt[r].st /\ receipt'[r].qty = receipt[r].qty
               /\ receipt'[r].cost = receipt[r].cost /\ receipt'[r].accrued = receipt[r].accrued
      PROVE  AccrualsRight'
  BY <1>2 DEF AccrualsRight
<1>3. ASSUME NEW o \in Orders, NEW t \in OrderTerms, NEW k \in Lines, UpdatePurchaseOrder(c, o, k, t)
      PROVE  AccrualsRight'
  <2>1. receipt' = receipt \/ receipt' = Unlinked(receipt, order[o].line)
    BY <1>3 DEF UpdatePurchaseOrder, ReplaceLine
  <2> QED BY <1>1, <1>2, <2>1, UnlinkedReceipts DEF IInv
<1>4. CASE DeletePurchaseOrderWrite(c)
  <2> DEFINE o == req[c].on
  <2>1. o \in Orders
    BY <1>4, Requests DEF DeletePurchaseOrderWrite, IInv, DeleteRequest
  <2>2. CASE FreezingReceipts(o) # {}
    BY <1>1, <1>4, <2>2 DEF DeletePurchaseOrderWrite
  <2>3. CASE FreezingReceipts(o) = {}
    <3>1. receipt' = Left(o)
      BY <1>4, <2>3 DEF DeletePurchaseOrderWrite, Left
    <3> HIDE DEF o
    <3> QED BY <1>2, <2>1, <3>1, DeletedOrderReceipts DEF IInv
  <2> QED BY <2>2, <2>3
<1> QED BY <1>1, <1>3, <1>4 DEF OrderStep, CreatePurchaseOrder, UpdatePurchaseOrderStatus,
           DeletePurchaseOrderRead

\* A receipt that changes carries what it accrues.
LEMMA ReceiptStepAccruals ==
  ASSUME IInv, NEW c \in Clients, ReceiptStep(c), ~stale', AccrualsRight
  PROVE  AccrualsRight'
<1>1. ASSUME receipt' = receipt PROVE AccrualsRight'
  BY <1>1 DEF AccrualsRight
<1>2. ASSUME NEW r \in Receipts, NEW y, receipt' = [receipt EXCEPT ![r] = y],
             y.accrued = IF y.st = "received" THEN y.qty * y.cost ELSE 0
      PROVE  AccrualsRight'
  <2>1. \A q \in Receipts : receipt'[q] = IF q = r THEN y ELSE receipt[q]
    BY <1>2 DEF IInv, Typed
  <2> QED BY <1>2, <2>1 DEF AccrualsRight
<1>3. ASSUME NEW r \in Receipts, NEW o \in Orders \cup {None}, NEW k \in Links, NEW t \in ReceiptTerms,
             CreateInboundDelivery(c, r, o, k, t)
      PROVE  AccrualsRight'
  <2> DEFINE x == [NoReceipt EXCEPT !.st = "draft", !.po = o]
             y == WithLine(x, k, t)
  <2>1. receipt' = [receipt EXCEPT ![r] = y] /\ k \in Links \cap (Held \cup {None})
    BY <1>3 DEF CreateInboundDelivery
  <2>2. x \in ReceiptRecord /\ x.st = "draft" /\ x.accrued = 0
    BY DEF NoReceipt, ReceiptRecord
  <2> HIDE DEF x
  <2>3. y.st = "draft" /\ y.accrued = 0
    BY <2>1, <2>2, WithLineTyped DEF IInv
  <2> HIDE DEF y
  <2> QED BY <1>2, <2>1, <2>3
<1>4. ASSUME NEW k \in Links, NEW t \in ReceiptTerms, UpdateInboundDeliveryWrite(c, k, t)
      PROVE  AccrualsRight'
  <2> DEFINE r == req[c].on
             o == req[c].po
  <2>1. r \in Receipts /\ o \in Orders
    BY <1>4, Requests DEF IInv, UpdateInboundDeliveryWrite, EditRequest
  <2>2. receipt[r] \in ReceiptRecord
    BY <2>1 DEF IInv, Typed
  <2>3. k \in Links \cap (Held \cup {None})
    BY <1>4 DEF UpdateInboundDeliveryWrite
  <2>4. CASE receipt[r] = NoReceipt \/ order[o] = NoOrder
    BY <1>1, <1>4, <2>4 DEF UpdateInboundDeliveryWrite
  <2>5. CASE ~(receipt[r] = NoReceipt \/ order[o] = NoOrder) /\ req[c].lines
    <3> DEFINE met == IF receipt[r].st = "received" THEN Met(k) ELSE receipt[r].met
               x == [receipt[r] EXCEPT !.po = o, !.met = met]
               y == WithLine(x, k, t)
    <3>1. receipt' = [receipt EXCEPT ![r] = y] /\ receipt[r].st = "draft"
      BY <1>4, <2>5 DEF UpdateInboundDeliveryWrite
    <3>2. met \in {NoOrder} \cup MetTerms
      BY <2>2, <2>3, MetTyped DEF IInv, ReceiptRecord
    <3>3. x \in ReceiptRecord /\ x.st = receipt[r].st /\ x.accrued = receipt[r].accrued
      <4> HIDE DEF met
      <4> QED BY <2>1, <2>2, <3>2 DEF ReceiptRecord
    <3> HIDE DEF x
    <3>4. y.st = receipt[r].st /\ y.accrued = receipt[r].accrued
      BY <2>3, <3>3, WithLineTyped DEF IInv
    <3>5. receipt[r].accrued = 0
      BY <2>1, <3>1 DEF AccrualsRight
    <3> HIDE DEF y, r
    <3> QED BY <1>2, <2>1, <3>1, <3>4, <3>5
  <2>6. CASE ~(receipt[r] = NoReceipt \/ order[o] = NoOrder) /\ ~req[c].lines
    <3> DEFINE y == [receipt[r] EXCEPT !.po = o]
    <3>1. receipt' = [receipt EXCEPT ![r] = y]
      BY <1>4, <2>6 DEF UpdateInboundDeliveryWrite
    <3>2. /\ y.st = receipt[r].st /\ y.accrued = receipt[r].accrued
          /\ y.qty = receipt[r].qty /\ y.cost = receipt[r].cost
      BY <2>2 DEF ReceiptRecord
    <3> HIDE DEF y, r
    <3> QED BY <1>2, <2>1, <3>1, <3>2 DEF AccrualsRight
  <2> QED BY <2>4, <2>5, <2>6
<1>5. ASSUME NEW r \in Receipts, DeleteInboundDelivery(c, r) PROVE AccrualsRight'
  <2>1. NoReceipt.st # "received" /\ NoReceipt.accrued = 0
    BY DEF NoReceipt
  <2> QED BY <1>2, <1>5, <2>1 DEF DeleteInboundDelivery
<1>6. CASE UpdateInboundDeliveryStatusWrite(c)
  <2> DEFINE r == req[c].on
             item == req[c].item
             to == req[c].to
  <2>1. r \in Receipts
    BY <1>6, Requests DEF IInv, UpdateInboundDeliveryStatusWrite, StatusRequest
  <2>2. receipt[r] \in ReceiptRecord
    BY <2>1 DEF IInv, Typed
  <2>3. CASE receipt' # receipt
    <3> DEFINE acc == IF to = "received" THEN Accrual(item) ELSE 0
               met == IF to = "received" THEN Met(receipt[r].line) ELSE NoOrder
               y == [receipt[r] EXCEPT !.st = to, !.accrued = acc, !.met = met]
    <3>1. receipt' = [receipt EXCEPT ![r] = y] /\ item = ItemOf(r)
      BY <1>6, <2>3 DEF UpdateInboundDeliveryStatusWrite
    <3>2. Accrual(item) = receipt[r].qty * receipt[r].cost
      BY <3>1 DEF Accrual, ItemOf
    <3>3. acc = IF to = "received" THEN receipt[r].qty * receipt[r].cost ELSE 0
      BY <3>2
    <3> HIDE DEF acc, met, to, item, r
    <3>4. y.st = to /\ y.accrued = acc /\ y.qty = receipt[r].qty /\ y.cost = receipt[r].cost
      BY <2>2 DEF ReceiptRecord
    <3> HIDE DEF y
    <3> QED BY <1>2, <2>1, <3>1, <3>3, <3>4
  <2> QED BY <1>1, <2>3
<1> QED BY <1>1, <1>3, <1>4, <1>5, <1>6 DEF ReceiptStep, UpdateInboundDeliveryRead,
           UpdateInboundDeliveryStatusRead

\* A line that is billed has goods.
LEMMA BilledHasGoods ==
  ASSUME IInv, NoneOverrides, NEW b \in Bills, OnRecord(bill[b]), bill[b].line # None,
         OnceAt(bill[b].line)
  PROVE  ReceivedOn(bill[b].line) # {}
<1> DEFINE l == bill[b].line
<1>1. l \in Lines
  BY HeldLines DEF IInv, Linked
<1>2. MatchedQty(l) = ClearedQty(l, None) /\ MatchedQty(l) \in Nat /\ ReceivedQty(l) \in Nat
  BY AllMatched, Quantities DEF IInv
<1>3. ~NoneBilled(l)
  BY DEF NoneBilled
<1>4. ClearedQty(l, None) # 0
  BY <1>1, <1>3, NothingBilled
<1>5. ReceivedQty(l) = Total(Quantity, ReceivedOn(l))
  BY Parts DEF SumsOfLines, IInv
<1> HIDE DEF l
<1>6. ReceivedQty(l) # 0
  BY <1>2, <1>4 DEF OnceAt, l
<1>7. ReceivedOn(l) # {}
  BY <1>5, <1>6, TotalEmpty
<1> QED BY <1>7 DEF l

\* Bills follow their orders; one on record loses its line only with the goods.
LEMMA OrderStepBills ==
  ASSUME IInv, NEW c \in Clients, OrderStep(c), NEW b \in Bills
  PROVE  /\ bill'[b].st = bill[b].st /\ bill'[b].qty = bill[b].qty
         /\ bill'[b].override = bill[b].override /\ bill'[b].posted = bill[b].posted
         /\ bill'[b].cleared = bill[b].cleared
         /\ \/ bill'[b].line = bill[b].line
            \/ bill'[b].line = None /\ (bill[b].line = None \/ ReceivedOn(bill[b].line) = {})
<1> DEFINE Same == /\ bill'[b].st = bill[b].st /\ bill'[b].qty = bill[b].qty
                   /\ bill'[b].override = bill[b].override /\ bill'[b].posted = bill[b].posted
                   /\ bill'[b].cleared = bill[b].cleared
           Follows == \/ bill'[b].line = bill[b].line
                      \/ bill'[b].line = None /\ (bill[b].line = None \/ ReceivedOn(bill[b].line) = {})
<1>1. ASSUME bill' = bill PROVE Same /\ Follows
  BY <1>1
<1>2. ASSUME NEW o \in Orders, bill' = Unlinked(bill, order[o].line), FreezingReceipts(o) = {}
      PROVE  Same /\ Follows
  <2>1. /\ Same
        /\ bill'[b].line = IF bill[b].line = order[o].line THEN None ELSE bill[b].line
    BY <1>2, UnlinkedBills DEF IInv
  <2>2. order[o].line = None \/ ReceivedOn(order[o].line) = {}
    BY <1>2, NotFrozen DEF ReceivedOn
  <2> HIDE DEF Same
  <2> QED BY <2>1, <2>2
<1>3. ASSUME NEW o \in Orders, NEW t \in OrderTerms, NEW k \in Lines, UpdatePurchaseOrder(c, o, k, t)
      PROVE  Same /\ Follows
  <2>1. CASE k = order[o].line
    BY <1>1, <1>3, <2>1 DEF UpdatePurchaseOrder, ReplaceLine
  <2>2. CASE k # order[o].line
    <3>1. bill' = Unlinked(bill, order[o].line)
      BY <1>3, <2>2 DEF UpdatePurchaseOrder, ReplaceLine
    <3>2. FreezingReceipts(o) = {}
      <4>1. Order(order[o].st, k, t).line = k
        BY DEF Order
      <4> QED BY <1>3, <2>2, <4>1 DEF UpdatePurchaseOrder, LineUnchanged
    <3> HIDE DEF Same, Follows
    <3> QED BY <1>2, <3>1, <3>2
  <2> QED BY <2>1, <2>2
<1>4. CASE DeletePurchaseOrderWrite(c)
  <2> DEFINE o == req[c].on
  <2>1. o \in Orders
    BY <1>4, Requests DEF DeletePurchaseOrderWrite, IInv, DeleteRequest
  <2>2. CASE FreezingReceipts(o) # {}
    BY <1>1, <1>4, <2>2 DEF DeletePurchaseOrderWrite
  <2>3. CASE FreezingReceipts(o) = {}
    <3>1. bill' = Unlinked(bill, order[o].line)
      BY <1>4, <2>3 DEF DeletePurchaseOrderWrite
    <3> HIDE DEF Same, Follows, o
    <3>2. Same /\ Follows
      BY <1>2, <2>1, <2>3, <3>1
    <3> QED BY <3>2 DEF Same, Follows
  <2> QED BY <2>2, <2>3
<1>5. ASSUME bill' # bill, ~DeletePurchaseOrderWrite(c) PROVE Same /\ Follows
  <2>1. \E o \in Orders, t \in OrderTerms, k \in Lines : UpdatePurchaseOrder(c, o, k, t)
    BY <1>5 DEF OrderStep, CreatePurchaseOrder, UpdatePurchaseOrderStatus, DeletePurchaseOrderRead
  <2> HIDE DEF Same, Follows
  <2> QED BY <1>3, <2>1
<1>6. Same /\ Follows
  <2> HIDE DEF Same, Follows
  <2> QED BY <1>1, <1>5, <1>4 DEF Same, Follows
<1> QED BY <1>6

\* A bill that stays as it is stays right, whatever goods come to its line.
LEMMA ClearingStays ==
  ASSUME IInv, CostsAgree', NoneOverrides, NEW b \in Bills, ClearingRight(b),
         \A l \in Lines : OnceAt(l),
         bill'[b].st = bill[b].st, bill'[b].qty = bill[b].qty, bill'[b].cleared = bill[b].cleared,
         OnRecord(bill[b]) => /\ bill'[b].line = bill[b].line
                              /\ bill[b].line # None => KeepsGoods(bill[b].line)
  PROVE  ClearingRight(b)'
<1>1. CASE ~OnRecord(bill[b])
  BY <1>1 DEF ClearingRight, OnRecord
<1>2. CASE OnRecord(bill[b]) /\ bill[b].line = None
  BY <1>2 DEF ClearingRight, OnRecord
<1>3. CASE OnRecord(bill[b]) /\ bill[b].line # None
  <2> DEFINE l == bill[b].line
  <2>1. l \in Lines
    BY <1>3, HeldLines DEF IInv, Linked
  <2>2. PICK r \in Receipts : receipt[r].st = "received" /\ receipt[r].line = l
    BY <1>3, <2>1, BilledHasGoods DEF ReceivedOn
  <2>3. /\ receipt'[r].st = "received" /\ receipt'[r].line = l
        /\ receipt'[r].cost = receipt[r].cost
    BY <1>3, <2>2 DEF KeepsGoods
  <2>4. bill[b].cleared = bill[b].qty * receipt[r].cost
    BY <1>3, <2>2 DEF ClearingRight, ReceivedOn
  <2>5. \A q \in Receipts : receipt'[q].st = "received" /\ receipt'[q].line = l =>
          receipt'[q].cost = receipt'[r].cost
    BY <1>3, <2>3 DEF CostsAgree, Received
  <2>6. \A q \in Receipts : receipt'[q].st = "received" /\ receipt'[q].line = l =>
          bill'[b].cleared = bill'[b].qty * receipt'[q].cost
    BY <2>3, <2>4, <2>5
  <2>7. bill'[b].line = l /\ l # None /\ OnRecord(bill'[b])
    BY <1>3 DEF OnRecord
  <2> HIDE DEF l
  <2> QED BY <2>6, <2>7 DEF ClearingRight, ReceivedOn
<1> QED BY <1>1, <1>2, <1>3

\* A bill that is matched clears its quantity at what the goods of its line cost.
LEMMA ClearedInTime ==
  ASSUME IInv, CostsAgree, NEW b \in Bills, bill[b].st # "none", bill[b].line # None,
         Match(b) \in {"matched", "unlinked"}, NEW r \in ReceivedOn(bill[b].line)
  PROVE  Clearing(b) = bill[b].qty * receipt[r].cost
<1> DEFINE l == bill[b].line
           R == ReceivedQty(l)
           C == ClearedQty(l, b)
           q == bill[b].qty
           k == receipt[r].cost
           first == SmallerOf(q, Less(R, C))
<1>1. R \in Nat /\ C \in Nat /\ q \in Nat /\ q > 0 /\ k \in Nat
  <2>1. q \in Nat /\ q > 0
    BY DEF IInv, Typed, BillRecord, BillsForSomething
  <2>2. k \in Nat
    BY DEF IInv, Typed, ReceiptRecord, ReceivedOn
  <2> QED BY <2>1, <2>2, Quantities DEF IInv
<1>2. ~(C + q > R)
  <2>1. OrdersOf(l) # {}
    <3>1. l \in Held
      BY DEF IInv, Linked
    <3> QED BY <3>1 DEF OrdersOf, Held
  <2>2. classifyMatch(bill[b], C) \in {"matched", "unlinked"}
    BY <2>1 DEF Match
  <2> QED BY <2>2 DEF classifyMatch
<1>3. first = q
  BY <1>1, <1>2 DEF SmallerOf, Less
<1>4. AccruedCents(l) = R * k
  BY AccruedAtCost DEF IInv
<1>5. Clearing(b) = IF l = None \/ R = 0 THEN 0 ELSE RoundHalfUp(first * AccruedCents(l), R)
  BY DEF Clearing
<1> HIDE DEF first, R, C, q, k, l
<1>6. R \in Nat \ {0}
  BY <1>1, <1>2
<1>7. Clearing(b) = RoundHalfUp(q * (R * k), R)
  BY <1>3, <1>4, <1>5, <1>6 DEF l
<1>8. q * (R * k) = (q * k) * R /\ q * k \in Nat
  BY <1>1
<1>9. RoundHalfUp((q * k) * R, R) = q * k
  BY <1>6, <1>8, RoundedExactly
<1> QED BY <1>7, <1>8, <1>9 DEF q, k

\* One bill changes, and clears what it should.
LEMMA BillChangeGrni ==
  ASSUME IInv, GrniRight, receipt' = receipt, NEW b \in Bills, NEW y, bill' = [bill EXCEPT ![b] = y],
         y.posted => OnRecord(y), ~OnRecord(y) \/ y.line = None => y.cleared = 0,
         OnRecord(y) /\ y.line # None =>
           \A r \in ReceivedOn(y.line) : y.cleared = y.qty * receipt[r].cost
  PROVE  GrniRight'
<1>1. \A x \in Bills : bill'[x] = IF x = b THEN y ELSE bill[x]
  BY DEF IInv, Typed
<1>2. AccrualsRight'
  BY DEF GrniRight, AccrualsRight
<1>3. PostedOnly'
  BY <1>1 DEF GrniRight, PostedOnly
<1>4. ASSUME NEW x \in Bills PROVE ClearingRight(x)'
  <2>1. CASE x = b
    BY <1>1, <2>1 DEF ClearingRight, ReceivedOn
  <2>2. CASE x # b
    <3>1. bill'[x] = bill[x] /\ ClearingRight(x)
      BY <1>1, <2>2 DEF GrniRight
    <3> QED BY <3>1 DEF ClearingRight, ReceivedOn
  <2> QED BY <2>1, <2>2
<1> QED BY <1>2, <1>3, <1>4 DEF GrniRight

LEMMA StateWriteGrni ==
  ASSUME IInv, CostsAgree, Posted, NoneOverrides, GrniRight, NEW c \in Clients,
         UpdateIncomingInvoiceStateWrite(c), ~stale'
  PROVE  GrniRight'
<1> DEFINE b == req[c].on
           st == req[c].to
<1>1. PICK y \in BillRecord :
        /\ bill' = [bill EXCEPT ![b] = y]
        /\ y.st = IF bill[b].st = "none" THEN "none" ELSE st
        /\ y.line = bill[b].line /\ y.qty = bill[b].qty /\ y.posted = NeedsEntry(st)
        /\ y.cleared = IF ~NeedsEntry(st) THEN 0
                       ELSE IF bill[b].posted THEN bill[b].cleared ELSE req[c].cleared
  BY BillStateWritten DEF IInv
<1>2. b \in Bills /\ receipt' = receipt /\ req[c].bill.st # "none"
  BY BillStateWritten, Requests DEF IInv, UpdateIncomingInvoiceStateWrite, BillRequest
<1>3. /\ [bill[b] EXCEPT !.posted = FALSE, !.cleared = 0] = req[c].bill
      /\ Gated(b, st) => Approvable(b)
      /\ NeedsEntry(st) => Clearing(b) = req[c].cleared
  BY DEF UpdateIncomingInvoiceStateWrite
<1>4. bill[b].st # "none"
  <2>1. bill[b] \in BillRecord
    BY <1>2 DEF IInv, Typed
  <2>2. [bill[b] EXCEPT !.posted = FALSE, !.cleared = 0].st = bill[b].st
    BY <2>1 DEF BillRecord
  <2> QED BY <1>2, <1>3, <2>2
<1> HIDE DEF b, st
<1>5. CASE ~NeedsEntry(st)
  <2>1. ~OnRecord(y) /\ y.cleared = 0 /\ ~y.posted
    BY <1>1, <1>5 DEF OnRecord, NeedsEntry
  <2> QED BY <1>1, <1>2, <2>1, BillChangeGrni
<1>6. CASE NeedsEntry(st) /\ bill[b].posted
  <2>1. OnRecord(y) /\ OnRecord(bill[b]) /\ ClearingRight(b)
    BY <1>1, <1>2, <1>4, <1>6 DEF OnRecord, NeedsEntry, GrniRight, PostedOnly
  <2>2. y.cleared = bill[b].cleared
    BY <1>1, <1>6
  <2>3. y.line = None => y.cleared = 0
    BY <1>1, <2>1, <2>2 DEF ClearingRight
  <2>4. y.line # None => \A r \in ReceivedOn(y.line) : y.cleared = y.qty * receipt[r].cost
    BY <1>1, <2>1, <2>2 DEF ClearingRight
  <2> QED BY <1>1, <1>2, <2>1, <2>3, <2>4, BillChangeGrni
<1>7. CASE NeedsEntry(st) /\ ~bill[b].posted
  <2>1. OnRecord(y) /\ y.cleared = Clearing(b)
    BY <1>1, <1>3, <1>4, <1>7 DEF OnRecord, NeedsEntry
  <2>2. ~OnRecord(bill[b])
    BY <1>2, <1>7 DEF Posted
  <2>3. Match(b) \in {"matched", "unlinked"}
    BY <1>2, <1>3, <1>7, <2>2 DEF Gated, NeedsEntry, OnRecord, Approvable, NoneOverrides
  <2>4. y.line = None => y.cleared = 0
    BY <1>1, <2>1 DEF Clearing
  <2>5. y.line # None => \A r \in ReceivedOn(y.line) : y.cleared = y.qty * receipt[r].cost
    BY <1>1, <1>2, <1>4, <2>1, <2>3, ClearedInTime
  <2> QED BY <1>1, <1>2, <2>1, <2>4, <2>5, BillChangeGrni
<1> QED BY <1>5, <1>6, <1>7

LEMMA BillStepGrni ==
  ASSUME IInv, CostsAgree, Posted, NoneOverrides, GrniRight, CreatedOffRecord,
         NEW c \in Clients, BillStep(c), ~stale'
  PROVE  GrniRight'
<1>1. receipt' = receipt
  BY BillsLeaveGoods
<1>2. ASSUME NEW b \in Bills, NEW y, bill' = [bill EXCEPT ![b] = y],
             ~OnRecord(y), ~y.posted, y.cleared = 0
      PROVE  GrniRight'
  BY <1>1, <1>2, BillChangeGrni
<1>3. ASSUME NEW b \in Bills, NEW k \in Links, NEW t \in BillTerms, NEW override \in Overrides,
             NEW st \in CreatedAs, CreateIncomingInvoice(c, b, st, k, t, override)
      PROVE  GrniRight'
  <2> DEFINE x == [NoBill EXCEPT !.st = st]
             y == Billed(x, k, t, override)
  <2>1. x \in BillRecord /\ x.st = st /\ ~x.posted /\ x.cleared = 0
    BY ConstantsAssumption DEF NoBill, BillRecord, BillStates
  <2>2. k \in Links \cap (Held \cup {None}) /\ bill' = [bill EXCEPT ![b] = y]
    BY <1>3 DEF CreateIncomingInvoice
  <2> HIDE DEF x
  <2>3. y.st = st /\ ~y.posted /\ y.cleared = 0
    BY <2>1, <2>2, BilledTyped DEF IInv
  <2> HIDE DEF y
  <2>4. ~OnRecord(y)
    BY <2>3 DEF OnRecord, CreatedOffRecord
  <2> QED BY <1>2, <2>2, <2>3, <2>4
<1>4. ASSUME NEW b \in Bills, NEW k \in Links, NEW t \in BillTerms, NEW override \in Overrides,
             UpdateIncomingInvoice(c, b, k, t, override)
      PROVE  GrniRight'
  <2> DEFINE y == Billed(bill[b], k, t, override)
  <2>1. bill[b] \in BillRecord /\ ~bill[b].posted
    BY <1>4 DEF IInv, Typed, UpdateIncomingInvoice, BillEditable
  <2>2. k \in Links \cap (Held \cup {None}) /\ bill' = [bill EXCEPT ![b] = y]
    BY <1>4 DEF UpdateIncomingInvoice, BillEditable
  <2>3. y.st = bill[b].st /\ y.posted = bill[b].posted /\ y.cleared = bill[b].cleared
    BY <2>1, <2>2, BilledTyped DEF IInv
  <2> HIDE DEF y
  <2>4. ~OnRecord(bill[b])
    BY <2>1 DEF Posted
  <2>5. ~OnRecord(y) /\ y.cleared = 0
    BY <2>3, <2>4 DEF OnRecord, GrniRight, ClearingRight
  <2> QED BY <1>2, <2>1, <2>2, <2>3, <2>5
<1>5. ASSUME bill' = bill PROVE GrniRight'
  <2>1. AccrualsRight' /\ PostedOnly'
    BY <1>1, <1>5 DEF GrniRight, AccrualsRight, PostedOnly
  <2>2. ASSUME NEW b \in Bills PROVE ClearingRight(b)'
    <3>1. ClearingRight(b)
      BY DEF GrniRight
    <3> QED BY <1>1, <1>5, <3>1 DEF ClearingRight, ReceivedOn
  <2> QED BY <2>1, <2>2 DEF GrniRight
<1>6. ASSUME NEW b \in Bills, DeleteIncomingInvoice(c, b) PROVE GrniRight'
  <2>1. ~OnRecord(NoBill) /\ ~NoBill.posted /\ NoBill.cleared = 0
    BY DEF NoBill, OnRecord
  <2>2. bill' = [bill EXCEPT ![b] = NoBill]
    BY <1>6 DEF DeleteIncomingInvoice
  <2> QED BY <1>2, <2>1, <2>2
<1>7. CASE UpdateIncomingInvoiceStateWrite(c)
  BY <1>7, StateWriteGrni
<1> QED BY <1>3, <1>4, <1>5, <1>6, <1>7 DEF BillStep, UpdateIncomingInvoiceStateRead

\* Bills override nothing as long as no request does.
LEMMA NoneOverridesKept ==
  ASSUME IInv, OverridesNothing, NoneOverrides, [Next]_vars
  PROVE  NoneOverrides'
<1>1. ASSUME bill' = bill PROVE NoneOverrides'
  BY <1>1 DEF NoneOverrides
<1>2. ASSUME NEW b \in Bills, NEW y, bill' = [bill EXCEPT ![b] = y], ~y.override PROVE NoneOverrides'
  BY <1>2 DEF IInv, Typed, NoneOverrides
<1>3. ASSUME NEW c \in Clients, OrderStep(c) PROVE NoneOverrides'
  BY <1>3, OrderStepBills DEF NoneOverrides
<1>4. ASSUME NEW c \in Clients, ReceiptStep(c) PROVE NoneOverrides'
  BY <1>1, <1>4 DEF ReceiptStep, CreateInboundDelivery, UpdateInboundDeliveryRead,
     UpdateInboundDeliveryWrite, DeleteInboundDelivery, UpdateInboundDeliveryStatusRead,
     UpdateInboundDeliveryStatusWrite
<1>5. ASSUME NEW c \in Clients, NEW b \in Bills, NEW k \in Links, NEW t \in BillTerms,
             NEW override \in Overrides, NEW st \in CreatedAs,
             CreateIncomingInvoice(c, b, st, k, t, override)
      PROVE  NoneOverrides'
  <2> DEFINE x == [NoBill EXCEPT !.st = st]
             y == Billed(x, k, t, override)
  <2>1. x \in BillRecord
    BY ConstantsAssumption DEF NoBill, BillRecord, BillStates
  <2>2. k \in Links \cap (Held \cup {None}) /\ bill' = [bill EXCEPT ![b] = y]
    BY <1>5 DEF CreateIncomingInvoice
  <2> HIDE DEF x
  <2>3. y.override = override
    BY <2>1, <2>2, BilledTyped DEF IInv
  <2>4. ~override
    BY DEF OverridesNothing
  <2> HIDE DEF y
  <2>5. ~y.override
    BY <2>3, <2>4
  <2> QED BY <1>2, <2>2, <2>5
<1>6. ASSUME NEW c \in Clients, NEW b \in Bills, NEW k \in Links, NEW t \in BillTerms,
             NEW override \in Overrides, UpdateIncomingInvoice(c, b, k, t, override)
      PROVE  NoneOverrides'
  <2> DEFINE y == Billed(bill[b], k, t, override)
  <2>1. bill[b] \in BillRecord
    BY DEF IInv, Typed
  <2>2. k \in Links \cap (Held \cup {None}) /\ bill' = [bill EXCEPT ![b] = y]
    BY <1>6 DEF UpdateIncomingInvoice, BillEditable
  <2>3. y.override = override
    BY <2>1, <2>2, BilledTyped DEF IInv
  <2>4. ~override
    BY DEF OverridesNothing
  <2> HIDE DEF y
  <2>5. ~y.override
    BY <2>3, <2>4
  <2> QED BY <1>2, <2>2, <2>5
<1>7. ASSUME NEW c \in Clients, NEW b \in Bills, DeleteIncomingInvoice(c, b) PROVE NoneOverrides'
  <2>1. ~NoBill.override
    BY DEF NoBill
  <2>2. bill' = [bill EXCEPT ![b] = NoBill]
    BY <1>7 DEF DeleteIncomingInvoice
  <2> QED BY <1>2, <2>1, <2>2
<1>8. ASSUME NEW c \in Clients, UpdateIncomingInvoiceStateWrite(c) PROVE NoneOverrides'
  <2> DEFINE b == req[c].on
  <2>1. b \in Bills
    BY <1>8, BillStateWritten DEF IInv
  <2>2. PICK y \in BillRecord : bill' = [bill EXCEPT ![b] = y] /\ y.override = bill[b].override
    BY <1>8, BillStateWritten DEF IInv
  <2> HIDE DEF b
  <2> QED BY <1>2, <2>1, <2>2 DEF NoneOverrides
<1>9. ASSUME NEW c \in Clients, BillStep(c) PROVE NoneOverrides'
  BY <1>1, <1>5, <1>6, <1>7, <1>8, <1>9 DEF BillStep, UpdateIncomingInvoiceStateRead
<1>10. CASE UNCHANGED vars
  BY <1>1, <1>10 DEF vars
<1> QED BY <1>3, <1>4, <1>9, <1>10 DEF Next

LEMMA StepGrni ==
  ASSUME IInv, CostsAgree, CostsAgree', Posted, NoneOverrides, GrniRight, CreatedOffRecord,
         \A l \in Lines : OnceAt(l), [Next]_vars, ~stale'
  PROVE  GrniRight'
<1>1. ASSUME NEW c \in Clients, OrderStep(c) PROVE GrniRight'
  <2>1. AccrualsRight'
    BY <1>1, OrderStepAccruals DEF GrniRight
  <2>2. PostedOnly'
    BY <1>1, OrderStepBills DEF GrniRight, PostedOnly, OnRecord
  <2>3. ASSUME NEW b \in Bills PROVE ClearingRight(b)'
    <3>1. /\ bill'[b].st = bill[b].st /\ bill'[b].qty = bill[b].qty /\ bill'[b].cleared = bill[b].cleared
          /\ \/ bill'[b].line = bill[b].line
             \/ bill'[b].line = None /\ (bill[b].line = None \/ ReceivedOn(bill[b].line) = {})
      BY <1>1, OrderStepBills
    <3>2. ASSUME OnRecord(bill[b]), bill[b].line # None
          PROVE  bill'[b].line = bill[b].line /\ KeepsGoods(bill[b].line)
      <4>1. bill[b].line \in Lines
        BY <3>2, HeldLines DEF IInv, Linked
      <4>2. ReceivedOn(bill[b].line) # {}
        BY <3>2, <4>1, BilledHasGoods
      <4>3. KeepsGoods(bill[b].line) \/ LineGoes(bill[b].line)
        BY <1>1, <4>1, OrderStepGoods
      <4> QED BY <3>1, <3>2, <4>2, <4>3 DEF LineGoes, ReceivedOn
    <3>3. ClearingRight(b)
      BY DEF GrniRight
    <3> QED BY <3>1, <3>2, <3>3, ClearingStays
  <2> QED BY <2>1, <2>2, <2>3 DEF GrniRight
<1>2. ASSUME NEW c \in Clients, ReceiptStep(c) PROVE GrniRight'
  <2>1. AccrualsRight'
    BY <1>2, ReceiptStepAccruals DEF GrniRight
  <2>2. ASSUME NEW l \in Lines PROVE bill' = bill /\ (KeepsGoods(l) \/ NoneBilled(l))
    BY <1>2, <2>2, ReceiptStepGoods
  <2>3. bill' = bill
    BY <1>2 DEF ReceiptStep, CreateInboundDelivery, UpdateInboundDeliveryRead,
       UpdateInboundDeliveryWrite, DeleteInboundDelivery, UpdateInboundDeliveryStatusRead,
       UpdateInboundDeliveryStatusWrite
  <2>4. PostedOnly'
    BY <2>3 DEF GrniRight, PostedOnly
  <2>5. ASSUME NEW b \in Bills PROVE ClearingRight(b)'
    <3>1. ClearingRight(b)
      BY DEF GrniRight
    <3>2. ASSUME OnRecord(bill[b]), bill[b].line # None PROVE KeepsGoods(bill[b].line)
      <4>1. bill[b].line \in Lines
        BY <3>2, HeldLines DEF IInv, Linked
      <4>2. ~NoneBilled(bill[b].line)
        BY <3>2 DEF NoneBilled
      <4> QED BY <2>2, <4>1, <4>2
    <3> QED BY <2>3, <3>1, <3>2, ClearingStays
  <2> QED BY <2>1, <2>4, <2>5 DEF GrniRight
<1>3. ASSUME NEW c \in Clients, BillStep(c) PROVE GrniRight'
  BY <1>3, BillStepGrni
<1>4. CASE UNCHANGED vars
  <2>1. receipt' = receipt /\ bill' = bill
    BY <1>4 DEF vars
  <2>2. AccrualsRight' /\ PostedOnly'
    BY <2>1 DEF GrniRight, AccrualsRight, PostedOnly
  <2>3. ASSUME NEW b \in Bills PROVE ClearingRight(b)'
    <3>1. ClearingRight(b)
      BY DEF GrniRight
    <3> QED BY <2>1, <3>1 DEF ClearingRight, ReceivedOn
  <2> QED BY <2>2, <2>3 DEF GrniRight
<1> QED BY <1>1, <1>2, <1>3, <1>4 DEF Next

\* Where bills start off record and override nothing, and the receipts of a
\* line always agree on its cost, GRNI is what was received and not billed, at
\* that cost (db/gl_posting.go:907-945, db/inbound_delivery.go:700), whatever
\* order receipts and bills come, go and are rounded in. What a receipt accrued
\* stays with it, and what a bill cleared stays right because a billed line
\* keeps goods to compare the cost of later ones with.
THEOREM GrniIsWhatIsUnbilled ==
  CreatedOffRecord /\ OverridesNothing => (Spec /\ []CostsAgree => []GrniIsUnbilledGoods)
<1> SUFFICES ASSUME CreatedOffRecord, OverridesNothing
             PROVE  Spec /\ []CostsAgree => []GrniIsUnbilledGoods
  OBVIOUS
<1> DEFINE J == Posted /\ NoneOverrides /\ (~stale => GrniRight)
<1>1. Init => J
  <2> SUFFICES ASSUME Init PROVE J
    OBVIOUS
  <2>1. \A b \in Bills : ~OnRecord(bill[b]) /\ ~bill[b].posted /\ ~bill[b].override /\ bill[b].cleared = 0
    BY DEF Init, OnRecord, NoBill
  <2>2. AccrualsRight
    BY DEF Init, AccrualsRight, NoReceipt
  <2> QED BY <2>1, <2>2 DEF Posted, NoneOverrides, GrniRight, PostedOnly, ClearingRight
<1>2. IInv /\ J /\ BilledOnce /\ CostsAgree /\ CostsAgree' /\ [Next]_vars => J'
  <2> SUFFICES ASSUME IInv, J, BilledOnce, CostsAgree, CostsAgree', [Next]_vars PROVE J'
    OBVIOUS
  <2>1. Posted' /\ NoneOverrides'
    BY PostedKept, NoneOverridesKept
  <2>2. ASSUME ~stale' PROVE GrniRight'
    <3>1. ~stale
      BY <2>2, StaleStays
    <3>2. \A l \in Lines : OnceAt(l)
      BY <3>1 DEF BilledOnce, OnceAt
    <3> QED BY <2>2, <3>1, <3>2, StepGrni
  <2> QED BY <2>1, <2>2
<1>3. IInv /\ J /\ BilledOnce /\ CostsAgree => GrniIsUnbilledGoods
  BY GrniByLine DEF BilledOnce, OnceAt, GrniIsUnbilledGoods
<1>4. Spec => []BilledOnce
  BY GoodsBilledOnce
<1> HIDE DEF J
<1> QED BY <1>1, <1>2, <1>3, <1>4, DocumentsLinked, PTL DEF Spec

\* So a vendor bill that matches clears GRNI exactly (CHANGELOG.md:1966) where
\* the receipts of a line agree on its cost; the run that clears it at another
\* is the one in which they do not.
THEOREM MatchingBillsClear ==
  CreatedOffRecord /\ OverridesNothing => (Spec /\ []CostsAgree => [](~stale => VendorBillsClearGrni))
<1> SUFFICES ASSUME CreatedOffRecord, OverridesNothing
             PROVE  Spec /\ []CostsAgree => [](~stale => VendorBillsClearGrni)
  OBVIOUS
<1>1. IInv /\ GrniIsUnbilledGoods => (~stale => VendorBillsClearGrni)
  <2> SUFFICES ASSUME IInv, Grni = UnbilledGoods, \A r \in Received : receipt[r].line # None,
                      \A l \in Lines : ClearedQty(l, None) = ReceivedQty(l)
               PROVE  Grni = 0
    BY DEF GrniIsUnbilledGoods, VendorBillsClearGrni
  <2>1. {r \in Received : receipt[r].line = None} = {}
    OBVIOUS
  <2>2. \A l \in Lines : UnbilledValue[l] = 0
    <3> TAKE l \in Lines
    <3>1. Unbilled(l) = 0
      BY Quantities DEF Unbilled, Less, IInv
    <3> QED BY <3>1 DEF UnbilledValue
  <2>3. IsFiniteSet(Lines) /\ {} \in SUBSET Lines
    BY ConstantsAssumption
  <2>4. Total(UnbilledValue, Lines) = Total(UnbilledValue, {})
    BY <2>2, <2>3, TotalSupport
  <2>5. Total(UnbilledValue, Lines) = 0 /\ Total(Value, {r \in Received : receipt[r].line = None}) = 0
    BY <2>1, <2>4, TotalEmpty
  <2> QED BY <2>5 DEF UnbilledGoods
<1>2. Spec /\ []CostsAgree => []GrniIsUnbilledGoods
  BY GrniIsWhatIsUnbilled
<1> QED BY <1>1, <1>2, DocumentsLinked, PTL
=============================================================================
