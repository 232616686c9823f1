------------------------------ MODULE Purchasing ------------------------------
(***************************************************************************)
(* Purchase orders, the goods receipts and vendor bills linked to their    *)
(* lines, three-way matching and the account of goods received and not     *)
(* invoiced (GRNI): db/purchase_order.go, db/purchase_order_freeze.go,     *)
(* db/inbound_delivery.go, db/incoming_invoice.go,                         *)
(* db/incoming_invoice_match.go, db/gl_posting.go.                         *)
(*                                                                         *)
(* A document has one line; its taxes, currency, stock and payments are in *)
(* Settlement, Stock and Postings. A handler that reads before its         *)
(* transaction parks what it read, and other requests may come in between. *)
(***************************************************************************)
EXTENDS Integers, FiniteSets, Sums

CONSTANTS
  Clients,       \* requests in flight at once
  Orders, Receipts, Bills,
  Lines,         \* ids a purchase order line may get
  Links,         \* lines a receipt or bill may name, None for none
  OrderTerms,    \* [qty, price] a line may be ordered at
  ReceiptTerms,  \* [qty, cost] a line may be received at
  BillTerms,     \* [qty, price] a line may be billed at
  InStatuses,    \* statuses orders are looked at in
  Overrides,     \* whether a bill may override its variance
  CreatedAs,     \* states a bill is created in
  None

ASSUME ConstantsAssumption ==
  /\ IsFiniteSet(Receipts) /\ IsFiniteSet(Bills) /\ IsFiniteSet(Lines)
  /\ None \notin Lines \cup Orders \cup Bills /\ Links \subseteq Lines \cup {None}
  /\ OrderTerms \cup BillTerms \subseteq [qty : Nat \ {0}, price : Nat \ {0}]
  /\ ReceiptTerms \subseteq [qty : Nat \ {0}, cost : Nat]
  /\ InStatuses \subseteq {"draft", "confirmed", "received", "cancelled"}
  /\ Overrides \subseteq BOOLEAN
  /\ CreatedAs \subseteq {"draft", "approved", "paid", "cancelled"}

VARIABLES
  order,    \* purchase orders with their line
  receipt,  \* goods receipts, what they accrued and what order line they met
  bill,     \* vendor bills and what their entry cleared from GRNI
  req,      \* what each request has read and not yet used
  stale     \* whether a request has written what it would no longer read

vars == <<order, receipt, bill, req, stale>>

-----------------------------------------------------------------------------
(* Documents.                                                              *)

NoOrder == [st |-> "none", line |-> None, qty |-> 0, price |-> 0]
NoReceipt == [st |-> "none", po |-> None, line |-> None, qty |-> 0, cost |-> 0,
              accrued |-> 0, met |-> NoOrder]
NoBill == [st |-> "none", line |-> None, qty |-> 0, price |-> 0, override |-> FALSE,
           posted |-> FALSE, cleared |-> 0]

Order(st, line, t) == [st |-> st, line |-> line, qty |-> t.qty, price |-> t.price]

OrderMoves == {<<"draft", "confirmed">>, <<"draft", "cancelled">>, <<"confirmed", "received">>,
               <<"confirmed", "cancelled">>, <<"cancelled", "confirmed">>, <<"cancelled", "received">>}
ReceiptMoves == {<<"draft", "received">>, <<"draft", "cancelled">>, <<"received", "cancelled">>}
BillStates == {"draft", "approved", "paid", "cancelled"}

OrdersOf(l) == {o \in Orders : l # None /\ order[o].line = l}
Held == {order[o].line : o \in Orders} \ {None}
Received == {r \in Receipts : receipt[r].st = "received"}
Recorded == {b \in Bills : bill[b].st \in {"approved", "paid"}}

\* The terms of an order line, for ReceivedTermsFrozen.
Met(l) == IF OrdersOf(l) = {} THEN NoOrder
          ELSE [order[CHOOSE o \in OrdersOf(l) : TRUE] EXCEPT !.st = "none"]

\* ON DELETE SET NULL on the lines of receipts and bills.
Unlinked(docs, gone) == [d \in DOMAIN docs |->
  IF docs[d].line = gone THEN [docs[d] EXCEPT !.line = None] ELSE docs[d]]

Idle == [op |-> "idle"]
Park(c, r) == req[c] = Idle /\ req' = [req EXCEPT ![c] = r]
Resume(c, op) == req[c].op = op /\ req' = [req EXCEPT ![c] = Idle]
Unread(c) == req[c] = Idle /\ UNCHANGED req

-----------------------------------------------------------------------------
(* Purchase orders.                                                        *)

CreatePurchaseOrder(c, o, st, t) ==
  /\ Unread(c) /\ order[o] = NoOrder /\ st \in InStatuses
  /\ \E l \in Lines \ Held : order' = [order EXCEPT ![o] = Order(st, l, t)]
  /\ UNCHANGED <<receipt, bill, stale>>

\* Mutant of FreezingReceipts: only the header's link counts.
FreezingByHeader(o) == {r \in Received : receipt[r].po = o}

\* A receipt freezes the order its header names, and the one of its line.
FreezingReceipts(o) ==
  {r \in Received : receipt[r].po = o \/ (receipt[r].line # None /\ receipt[r].line = order[o].line)}

\* An edit sends its line with the id it has, or as a new one.
LineUnchanged(o, l, t) == order[o] = Order(order[o].st, l, t)

ReplaceLine(o, l, t) ==
  /\ order' = [order EXCEPT ![o] = Order(@.st, l, t)]
  /\ IF l = order[o].line THEN UNCHANGED <<receipt, bill>>
     ELSE receipt' = Unlinked(receipt, order[o].line) /\ bill' = Unlinked(bill, order[o].line)

UpdatePurchaseOrder(c, o, l, t) ==
  /\ Unread(c) /\ order[o] # NoOrder /\ l \in {order[o].line} \cup (Lines \ Held)
  /\ (FreezingReceipts(o) # {} => LineUnchanged(o, l, t))
  /\ ReplaceLine(o, l, t)
  /\ UNCHANGED stale

\* The update is conditional on the status the move was checked against.
UpdatePurchaseOrderStatus(c, o, st) ==
  /\ Unread(c) /\ <<order[o].st, st>> \in OrderMoves
  /\ order' = [order EXCEPT ![o].st = st]
  /\ UNCHANGED <<receipt, bill, stale>>

DeletePurchaseOrderRead(c, o) ==
  /\ order[o].st \notin {"none", "received"}
  /\ Park(c, [op |-> "delete order", on |-> o])
  /\ UNCHANGED <<order, receipt, bill, stale>>

DeletePurchaseOrderWrite(c) ==
  LET o == req[c].on IN
  /\ Resume(c, "delete order")
  /\ IF FreezingReceipts(o) # {} THEN UNCHANGED <<order, receipt, bill>>
     ELSE /\ order' = [order EXCEPT ![o] = NoOrder]
          /\ receipt' = [r \in Receipts |-> LET x == Unlinked(receipt, order[o].line)[r] IN
                           IF x.po = o THEN [x EXCEPT !.po = None] ELSE x]
          /\ bill' = Unlinked(bill, order[o].line)
  /\ UNCHANGED stale

-----------------------------------------------------------------------------
(* Goods receipts.                                                         *)

\* A line from an order takes that order's price unless it names a cost.
UnitCost(l, t) ==
  IF t.cost = 0 /\ l # None THEN order[CHOOSE o \in OrdersOf(l) : TRUE].price ELSE t.cost
WithLine(x, l, t) == [x EXCEPT !.line = l, !.qty = t.qty, !.cost = UnitCost(l, t)]
ItemOf(r) == [line |-> receipt[r].line, qty |-> receipt[r].qty, cost |-> receipt[r].cost]

CreateInboundDelivery(c, r, o, l, t) ==
  /\ Unread(c) /\ receipt[r] = NoReceipt /\ l \in Links \cap (Held \cup {None})
  /\ (o # None => order[o] # NoOrder)
  /\ receipt' = [receipt EXCEPT ![r] = WithLine([NoReceipt EXCEPT !.st = "draft", !.po = o], l, t)]
  /\ UNCHANGED <<order, bill, stale>>

\* Lines are refused unless the receipt is a draft when it is read; the header
\* may name another order at any time.
UpdateInboundDeliveryRead(c, r, o) ==
  /\ receipt[r] # NoReceipt /\ o \in Orders /\ order[o] # NoOrder
  /\ \E lines \in {TRUE, FALSE} :
       /\ lines => receipt[r].st = "draft"
       /\ Park(c, [op |-> "edit receipt", on |-> r, po |-> o, lines |-> lines])
  /\ UNCHANGED <<order, receipt, bill, stale>>

UpdateInboundDeliveryWrite(c, l, t) ==
  LET r == req[c].on  o == req[c].po IN
  /\ Resume(c, "edit receipt") /\ l \in Links \cap (Held \cup {None})
  /\ IF receipt[r] = NoReceipt \/ order[o] = NoOrder THEN UNCHANGED <<receipt, stale>>
     ELSE IF req[c].lines
          THEN /\ receipt' = [receipt EXCEPT ![r] = WithLine([receipt[r] EXCEPT !.po = o,
                       !.met = IF receipt[r].st = "received" THEN Met(l) ELSE receipt[r].met], l, t)]
               /\ stale' = (stale \/ receipt[r].st # "draft")
          ELSE receipt' = [receipt EXCEPT ![r].po = o] /\ UNCHANGED stale
  /\ UNCHANGED <<order, bill>>

DeleteInboundDelivery(c, r) ==
  /\ Unread(c) /\ receipt[r].st \in {"draft", "cancelled"}
  /\ receipt' = [receipt EXCEPT ![r] = NoReceipt]
  /\ UNCHANGED <<order, bill, stale>>

UpdateInboundDeliveryStatusRead(c, r, st) ==
  /\ <<receipt[r].st, st>> \in ReceiptMoves
  /\ Park(c, [op |-> "receipt status", on |-> r, from |-> receipt[r].st, to |-> st, item |-> ItemOf(r)])
  /\ UNCHANGED <<order, receipt, bill, stale>>

\* Quantity billed against an order line, by other bills than one.
BilledQty == [b \in Bills |-> bill[b].qty]
ClearedQty(l, but) == Total(BilledQty, {b \in Recorded \ {but} : bill[b].line = l})

\* Mutant of Cancellable: bills that are paid are forgotten.
CancellableUnlessApproved(item) ==
  item.line = None \/ \A b \in Bills : bill[b].line = item.line => bill[b].st # "approved"

\* Billed goods are not given back: their accrual has been cleared.
Cancellable(item) == item.line = None \/ ClearedQty(item.line, None) = 0

\* GRNI is accrued at the vendor's cost of the lines read before the transaction.
Accrual(item) == item.qty * item.cost

UpdateInboundDeliveryStatusWrite(c) ==
  LET r == req[c].on  item == req[c].item IN
  /\ Resume(c, "receipt status")
  /\ IF \/ receipt[r].st # req[c].from
        \/ req[c].from = "received" /\ ~Cancellable(item)
     THEN UNCHANGED <<receipt, stale>>
     ELSE /\ receipt' = [receipt EXCEPT ![r].st = req[c].to,
               ![r].accrued = IF req[c].to = "received" THEN Accrual(item) ELSE 0,
               ![r].met = IF req[c].to = "received" THEN Met(receipt[r].line) ELSE NoOrder]
          /\ stale' = (stale \/ item # ItemOf(r))
  /\ UNCHANGED <<order, bill>>

-----------------------------------------------------------------------------
(* Three-way matching: the bill against its order line and the goods       *)
(* received, counting what other bills have billed of them.                *)

Quantity == [r \in Receipts |-> receipt[r].qty]
ReceivedQty(l) == Total(Quantity, {r \in Received : receipt[r].line = l})

classifyMatch(x, previously) ==
  LET ordered == order[CHOOSE o \in OrdersOf(x.line) : TRUE] IN
  CASE previously + x.qty > ReceivedQty(x.line) -> "over_received"
    [] x.qty > ordered.qty                      -> "quantity_variance"
    [] x.price # ordered.price                  -> "price_variance"
    [] OTHER                                    -> "matched"

\* Mutant of Match: what other bills have billed is not counted.
MatchAlone(b) ==
  IF OrdersOf(bill[b].line) = {} THEN "unlinked" ELSE classifyMatch(bill[b], 0)

Match(b) ==
  IF OrdersOf(bill[b].line) = {} THEN "unlinked"
  ELSE classifyMatch(bill[b], ClearedQty(bill[b].line, b))

\* The list of bills takes one sum per order line and takes a bill's own part
\* back out of it.
BilledByLine == [l \in Lines |-> ClearedQty(l, None)]

\* Mutant of Summary: a bill on record counts against itself.
SummaryWithItself(b) ==
  IF OrdersOf(bill[b].line) = {} THEN "unlinked"
  ELSE classifyMatch(bill[b], BilledByLine[bill[b].line])

Summary(b) ==
  IF OrdersOf(bill[b].line) = {} THEN "unlinked"
  ELSE classifyMatch(bill[b], BilledByLine[bill[b].line] - IF b \in Recorded THEN bill[b].qty ELSE 0)

Approvable(b) == bill[b].override \/ Match(b) \in {"matched", "unlinked"}

-----------------------------------------------------------------------------
(* GRNI: what the received receipts of a line accrued, at its average, for *)
(* the quantity a bill is the first to bill.                               *)

RoundHalfUp(n, d) == (2 * n + d) \div (2 * d)
SmallerOf(a, b) == IF a < b THEN a ELSE b
Less(a, b) == IF a > b THEN a - b ELSE 0

Value == [r \in Receipts |-> receipt[r].qty * receipt[r].cost]
AccruedCents(l) == Total(Value, {r \in Received : receipt[r].line = l})

\* Mutant of Clearing: at the bill's own price.
ClearingAtBilledPrice(b) ==
  LET l == bill[b].line
      first == SmallerOf(bill[b].qty, Less(ReceivedQty(l), ClearedQty(l, b)))
  IN IF l = None THEN 0 ELSE first * bill[b].price

Clearing(b) ==
  LET l == bill[b].line
      first == SmallerOf(bill[b].qty, Less(ReceivedQty(l), ClearedQty(l, b)))
  IN IF l = None \/ ReceivedQty(l) = 0 THEN 0
     ELSE RoundHalfUp(first * AccruedCents(l), ReceivedQty(l))

-----------------------------------------------------------------------------
(* Bills.                                                                  *)

Billed(x, l, t, override) ==
  [x EXCEPT !.line = l, !.qty = t.qty, !.price = t.price, !.override = override]

CreateIncomingInvoice(c, b, st, l, t, override) ==
  /\ Unread(c) /\ bill[b] = NoBill /\ st \in CreatedAs /\ l \in Links \cap (Held \cup {None})
  /\ bill' = [bill EXCEPT ![b] = Billed([NoBill EXCEPT !.st = st], l, t, override)]
  /\ UNCHANGED <<order, receipt, stale>>

\* Refused once posted, checked again in the transaction. New lines clear an
\* override this request does not state again.
BillEditable(b, l) ==
  bill[b].st # "none" /\ ~bill[b].posted /\ l \in Links \cap (Held \cup {None})

UpdateIncomingInvoice(c, b, l, t, override) ==
  /\ Unread(c) /\ BillEditable(b, l)
  /\ bill' = [bill EXCEPT ![b] = Billed(@, l, t, override)]
  /\ UNCHANGED <<order, receipt, stale>>

Gated(b, st) == st = "approved" \/ (st = "paid" /\ bill[b].st # "approved")
NeedsEntry(st) == st \in {"approved", "paid"}

UpdateIncomingInvoiceStateRead(c, b, st) ==
  /\ bill[b].st # "none" /\ st \in BillStates
  /\ Gated(b, st) => Approvable(b)
  /\ Park(c, [op |-> "bill state", on |-> b, to |-> st,
              bill |-> [bill[b] EXCEPT !.posted = FALSE, !.cleared = 0],
              cleared |-> IF NeedsEntry(st) THEN Clearing(b) ELSE 0])
  /\ UNCHANGED <<order, receipt, bill, stale>>

\* The transaction looks again for a posted entry, and for nothing else.
UpdateIncomingInvoiceStateWrite(c) ==
  LET b == req[c].on  st == req[c].to
      fresh == /\ [bill[b] EXCEPT !.posted = FALSE, !.cleared = 0] = req[c].bill
               /\ Gated(b, st) => Approvable(b)
               /\ NeedsEntry(st) => Clearing(b) = req[c].cleared
  IN
  /\ Resume(c, "bill state")
  /\ bill' = [bill EXCEPT
       ![b].st = IF @ = "none" THEN @ ELSE st,
       ![b].posted = NeedsEntry(st),
       ![b].cleared = IF ~NeedsEntry(st) THEN 0 ELSE IF bill[b].posted THEN @ ELSE req[c].cleared]
  /\ stale' = (stale \/ ~fresh)
  /\ UNCHANGED <<order, receipt>>

DeleteIncomingInvoice(c, b) ==
  /\ Unread(c) /\ bill[b].st \notin {"none", "paid"} /\ ~bill[b].posted
  /\ bill' = [bill EXCEPT ![b] = NoBill]
  /\ UNCHANGED <<order, receipt, stale>>

-----------------------------------------------------------------------------

Init ==
  /\ order = [o \in Orders |-> NoOrder]
  /\ receipt = [r \in Receipts |-> NoReceipt]
  /\ bill = [b \in Bills |-> NoBill]
  /\ req = [c \in Clients |-> Idle]
  /\ stale = FALSE

OrderStep(c) ==
  \/ \E o \in Orders, t \in OrderTerms :
       \/ \E st \in InStatuses : CreatePurchaseOrder(c, o, st, t)
       \/ \E l \in Lines : UpdatePurchaseOrder(c, o, l, t)
  \/ \E o \in Orders :
       \/ \E st \in InStatuses : UpdatePurchaseOrderStatus(c, o, st)
       \/ DeletePurchaseOrderRead(c, o)
  \/ DeletePurchaseOrderWrite(c)

ReceiptStep(c) ==
  \/ \E r \in Receipts, o \in Orders \cup {None}, l \in Links, t \in ReceiptTerms :
       CreateInboundDelivery(c, r, o, l, t)
  \/ \E r \in Receipts, o \in Orders : UpdateInboundDeliveryRead(c, r, o)
  \/ \E l \in Links, t \in ReceiptTerms : UpdateInboundDeliveryWrite(c, l, t)
  \/ \E r \in Receipts : DeleteInboundDelivery(c, r)
  \/ \E r \in Receipts, st \in {"received", "cancelled"} : UpdateInboundDeliveryStatusRead(c, r, st)
  \/ UpdateInboundDeliveryStatusWrite(c)

BillStep(c) ==
  \/ \E b \in Bills, l \in Links, t \in BillTerms, override \in Overrides :
       \/ \E st \in CreatedAs : CreateIncomingInvoice(c, b, st, l, t, override)
       \/ UpdateIncomingInvoice(c, b, l, t, override)
  \/ \E b \in Bills :
       \/ \E st \in BillStates : UpdateIncomingInvoiceStateRead(c, b, st)
       \/ DeleteIncomingInvoice(c, b)
  \/ UpdateIncomingInvoiceStateWrite(c)

Next == \E c \in Clients : OrderStep(c) \/ ReceiptStep(c) \/ BillStep(c)

Spec == Init /\ [][Next]_vars

-----------------------------------------------------------------------------
(* Properties.                                                             *)

OrderRecord == [st : InStatuses \cup {"none"}, line : Lines \cup {None}, qty : Nat, price : Nat]

TypeOK ==
  /\ order \in [Orders -> OrderRecord]
  /\ \A r \in Receipts :
       /\ receipt[r].st \in {"none", "draft", "received", "cancelled"}
       /\ receipt[r].po \in {None} \cup {o \in Orders : order[o] # NoOrder}
       /\ receipt[r].line \in {None} \cup Held
       /\ receipt[r].qty \in Nat /\ receipt[r].cost \in Nat /\ receipt[r].accrued \in Nat
  /\ \A b \in Bills :
       /\ bill[b].st \in BillStates \cup {"none"}
       /\ bill[b].line \in {None} \cup Held
       /\ bill[b].posted \in BOOLEAN /\ bill[b].cleared \in Nat
  /\ stale \in BOOLEAN

\* The order line goods were received against keeps its id, quantity and price
\* for as long as they are received, whatever edits, deletions and receipts
\* come in between (db/purchase_order_freeze.go:9-69).
ReceivedTermsFrozen ==
  \A r \in Received : receipt[r].met # NoOrder =>
    \E o \in Orders : receipt[r].line = order[o].line
                     /\ receipt[r].met = [order[o] EXCEPT !.st = "none"]

Accrued == [r \in Receipts |-> receipt[r].accrued]
Cleared == [b \in Bills |-> bill[b].cleared]
Grni == Total(Accrued, Receipts) - Total(Cleared, Bills)

Unbilled(l) == Less(ReceivedQty(l), ClearedQty(l, None))
CostOf(l) == receipt[CHOOSE r \in Received : receipt[r].line = l].cost
UnbilledValue == [l \in Lines |-> IF Unbilled(l) = 0 THEN 0 ELSE Unbilled(l) * CostOf(l)]
UnbilledGoods == Total(Value, {r \in Received : receipt[r].line = None}) + Total(UnbilledValue, Lines)

\* The receipts of an order line agree on what a unit of it costs.
CostsAgree ==
  \A r, s \in Received : receipt[r].line = receipt[s].line /\ receipt[r].line # None
    => receipt[r].cost = receipt[s].cost

\* Where the costs of a line have always agreed, GRNI holds what was received
\* and not billed, at that cost: receipts and bills that come and go in any
\* order leave no residue (db/gl_posting.go:907-945, db/inbound_delivery.go:700).
GrniIsUnbilledGoods == ~stale => Grni = UnbilledGoods

\* The list's badges say of each bill what its own page says, at every moment
\* (db/incoming_invoice_match.go:272 "identical to GetIncomingInvoiceMatch's").
SummariesMatchPerInvoice == \A b \in Bills : Summary(b) = Match(b)

\* Quantity of an order line on the bills whose variance nobody signed for.
MatchedQty(l) ==
  Total(BilledQty, {b \in Recorded : bill[b].line = l /\ ~bill[b].override})

\* Goods of an order line are approved for payment once: what its bills charge
\* was received, those that override a variance apart
\* (db/incoming_invoice_match.go:105-122).
BilledOnce == ~stale => \A l \in Lines : MatchedQty(l) <= ReceivedQty(l)

\* The goods of a bill on record stay received (db/inbound_delivery.go:545).
BilledGoodsStayReceived ==
  [][~stale' => \A r \in Received : receipt[r].line \in {bill[b].line : b \in Recorded} \ {None}
       => receipt'[r].st = "received" \/ receipt[r].line # receipt'[r].line]_vars

\* "a matching vendor bill still clears it exactly" (CHANGELOG.md:1966): once
\* all that was received is billed, GRNI is back to nothing.
VendorBillsClearGrni ==
  (/\ \A r \in Received : receipt[r].line # None
   /\ \A l \in Lines : ClearedQty(l, None) = ReceivedQty(l)) => Grni = 0
=============================================================================
