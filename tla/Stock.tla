-------------------------------- MODULE Stock --------------------------------
(***************************************************************************)
(* Goods in and out of stock: outbound deliveries (db/delivery.go), goods  *)
(* receipts (db/inbound_delivery.go), manual movements (db/stock.go) and   *)
(* the registry of serialized units (db/serial_number.go).                 *)
(*                                                                         *)
(* Nothing stores how much is in stock or which unit is: both are computed *)
(* from the movement rows, which are the state here. There are two         *)
(* products, a bulk one counted and a serialized one made of Units. A      *)
(* status change reads its document's lines, what is on hand and the units *)
(* before its transaction, which only looks again at the status and at     *)
(* some of the units: it is a read, parked in req, and a write.            *)
(***************************************************************************)
EXTENDS Integers, FiniteSets, FiniteSetsExt

CONSTANTS
  Deliveries,   \* outbound deliveries
  Receipts,     \* goods receipts
  Manuals,      \* manual movements (batch ids): the bound on how many
  Units,        \* serial numbers of the serialized product
  Bulk,         \* the product counted in quantities
  Clients,      \* requests that may be in flight at once
  MaxQty,       \* the largest bulk quantity of a document: a bound
  LineChoices,  \* the line items a request may carry: a bound
  Valued,       \* whether a document's goods have a cost and are booked
  ManualValued  \* likewise for a manual movement

VARIABLES
  docs,         \* rows of outbound_deliveries and inbound_deliveries
  rows,         \* stockMovements
  entry,        \* sources with a live COGS, GRNI or adjustment entry
  req           \* what each client's handler has read and not yet written

vars == <<docs, rows, entry, req>>

-----------------------------------------------------------------------------
(* Data.                                                                   *)

Docs == Deliveries \cup Receipts
Sources == Docs \cup Manuals
Items == Units \cup {Bulk}

\* Line items: the bulk lines' total and the largest of them, and how many
\* units the serialized lines ask for.
Lines == [bulk : 0..MaxQty, largest : 0..MaxQty, count : 0..Cardinality(Units)]

Doc == [status : {"absent", "deleted", "draft", "shipped", "delivered", "received", "cancelled"},
        lines : Lines]

\* at: the transaction that inserted the row, in rowid order.
Row == [at : Nat, src : Sources, item : Items, qty : -MaxQty..MaxQty]

NoLines == [bulk |-> 0, largest |-> 0, count |-> 0]
Idle == [op |-> "idle"]

Request == {Idle}
      \cup [op : {"edit"}, doc : Receipts, lines : Lines]
      \cup [op : {"status"}, doc : Docs, from : {"draft", "shipped", "received"},
            to : {"shipped", "delivered", "received", "cancelled"},
            lines : Lines, units : SUBSET Units, posts : BOOLEAN]
      \cup [op : {"manual"}, src : Manuals, qty : {-1, 1}, units : SUBSET Units, posts : BOOLEAN]

ASSUME ConstantsAssumption ==
  /\ MaxQty \in Nat \ {0}
  /\ Deliveries \cap Receipts = {} /\ Docs \cap Manuals = {}
  /\ Bulk \notin Units
  /\ IsFiniteSet(Units)
  /\ LineChoices \subseteq Lines
  /\ \A l \in LineChoices : l.largest <= l.bulk /\ (l.bulk > 0 => l.largest > 0)
  /\ Valued \subseteq BOOLEAN /\ ManualValued \subseteq BOOLEAN

Exists(d) == docs[d].status \notin {"absent", "deleted"}
Issued(d) == docs[d].status \in {"shipped", "delivered", "received"}

\* What issuing a document does to stock, and the status that says it did.
Sign(d) == IF d \in Deliveries THEN -1 ELSE 1
Go(d) == IF d \in Deliveries THEN "shipped" ELSE "received"

\* The status changes that move goods: issuing the document, and undoing it.
Issues(d, to) == to = Go(d)
Undoes(d, from, to) == from = Go(d) /\ to = "cancelled"

RowsOf(s) == {r \in rows : r.src = s}
UnitsMoved(d, sign) == {r.item : r \in {x \in RowsOf(d) : x.item # Bulk /\ x.qty = sign}}

\* products.stockQuantity of the bulk product: the sum of its movements.
OnHand == MapThenSumSet(LAMBDA r : r.qty, {r \in rows : r.item = Bulk})

\* latest_serial_movement: a unit is in stock when its last row is positive.
InStock == {u \in Units : \E r \in rows : /\ r.item = u /\ r.qty > 0
                                          /\ \A x \in rows : x.item = u => x.at <= r.at}

NextAt == IF rows = {} THEN 1
          ELSE (CHOOSE r \in rows : \A x \in rows : x.at <= r.at).at + 1

\* The rows a transaction inserts for source s.
Inserted(s, sign, bulk, units) ==
  {[at |-> NextAt, src |-> s, item |-> Bulk, qty |-> sign * b] : b \in {bulk} \ {0}}
    \cup {[at |-> NextAt, src |-> s, item |-> u, qty |-> sign] : u \in units}

\* A handler that is one transaction, or one statement, is never parked; it
\* still is a request, so one client alone runs its requests one at a time.
AtOnce == (\E c \in Clients : req[c] = Idle) /\ UNCHANGED req

Park(c, r) == req[c] = Idle /\ req' = [req EXCEPT ![c] = r]
Resume(c, r) == req[c] = r /\ req' = [req EXCEPT ![c] = Idle]

\* A parked handler is refused by its transaction, which rolls back: no open
\* year for the journal entry, a receipt already billed, SQL or the process.
Fail(c) ==
  /\ req[c] # Idle
  /\ req' = [req EXCEPT ![c] = Idle]
  /\ UNCHANGED <<docs, rows, entry>>

-----------------------------------------------------------------------------
(* Documents.                                                              *)

\* CreateDelivery, CreateInboundDelivery
Create(d, lines) ==
  /\ AtOnce
  /\ docs[d].status = "absent"
  /\ docs' = [docs EXCEPT ![d] = [status |-> "draft", lines |-> lines]]
  /\ UNCHANGED <<rows, entry>>

\* Mutant of UpdateDelivery: no status frozen.
UpdateDeliveryUnfrozen(d, lines) ==
  /\ AtOnce
  /\ Exists(d)
  /\ docs' = [docs EXCEPT ![d].lines = lines]
  /\ UNCHANGED <<rows, entry>>

\* UpdateDelivery with other line items: the status is read in the transaction.
UpdateDelivery(d, lines) ==
  /\ AtOnce
  /\ Exists(d) /\ ~Issued(d)
  /\ docs' = [docs EXCEPT ![d].lines = lines]
  /\ UNCHANGED <<rows, entry>>

UpdateInboundDeliveryRead(c, d, lines) ==
  /\ docs[d].status = "draft"
  /\ Park(c, [op |-> "edit", doc |-> d, lines |-> lines])
  /\ UNCHANGED <<docs, rows, entry>>

\* The status is not looked at again.
UpdateInboundDeliveryWrite(c, d, lines) ==
  /\ Resume(c, [op |-> "edit", doc |-> d, lines |-> lines])
  /\ Exists(d)
  /\ docs' = [docs EXCEPT ![d].lines = lines]
  /\ UNCHANGED <<rows, entry>>

\* Mutant of Delete: whatever its status.
DeleteIssued(d) ==
  /\ AtOnce
  /\ Exists(d)
  /\ docs' = [docs EXCEPT ![d].status = "deleted"]
  /\ UNCHANGED <<rows, entry>>

\* DeleteDelivery, DeleteInboundDelivery: a cancelled document's rows stay.
Delete(d) ==
  /\ AtOnce
  /\ Exists(d) /\ ~Issued(d)
  /\ docs' = [docs EXCEPT ![d].status = "deleted"]
  /\ UNCHANGED <<rows, entry>>

\* deliveryStatusTransitions, inboundDeliveryStatusTransitions. Asking for
\* the status a document already has changes nothing.
Transition(d, from, to) ==
  \/ from = "draft" /\ to \in {Go(d), "cancelled"}
  \/ from = Go(d) /\ to = "cancelled"
  \/ from = "shipped" /\ to = "delivered"

\* Issuing a delivery takes each line from what is on hand and units that are
\* in stock; cancelling a receipt takes each line back from what is on hand.
Available(d, from, to, lines, units) ==
  LET enough == lines.largest > 0 => lines.largest <= OnHand
  IN /\ d \in Deliveries /\ Issues(d, to) => enough /\ units \subseteq InStock
     /\ d \in Receipts /\ Undoes(d, from, to) => enough

\* posts: whether journal lines are built, or an entry is found to reverse.
UpdateStatusRead(c, d, to, units, valued) ==
  LET from == docs[d].status
      lines == docs[d].lines
  IN /\ Transition(d, from, to)
     /\ Cardinality(units) = IF Issues(d, to) THEN lines.count ELSE 0
     /\ Available(d, from, to, lines, units)
     /\ Park(c, [op |-> "status", doc |-> d, from |-> from, to |-> to,
                 lines |-> lines, units |-> units,
                 posts |-> \/ Issues(d, to) /\ valued /\ lines # NoLines
                           \/ Undoes(d, from, to) /\ d \in entry])
     /\ UNCHANGED <<docs, rows, entry>>

\* The rows of a status change: those of the lines and units read before, or,
\* undoing them, the bulk lines read before and every unit the document moved,
\* provided the lines still name the serialized product.
Moved(r) ==
  LET d == r.doc IN
  CASE Issues(d, r.to) -> Inserted(d, Sign(d), r.lines.bulk, r.units)
    [] Undoes(d, r.from, r.to) ->
         Inserted(d, -Sign(d), r.lines.bulk,
                  IF r.lines.count > 0 THEN UnitsMoved(d, Sign(d)) ELSE {})
    [] OTHER -> {}

\* The units are looked at in the transaction when a receipt brings them in
\* and when a cancellation returns them, not when a delivery takes them.
UnitsFree(r) ==
  LET d == r.doc IN
  /\ d \in Receipts /\ Issues(d, r.to) => r.units \cap InStock = {}
  /\ Undoes(d, r.from, r.to) /\ r.lines.count > 0 =>
       IF d \in Deliveries THEN UnitsMoved(d, -1) \cap InStock = {}
                           ELSE UnitsMoved(d, 1) \subseteq InStock

\* Mutant of Booked: any status other than the first takes the entry away.
BookedWhileIssuing(r) ==
  IF Issues(r.doc, r.to) /\ r.posts THEN entry \cup {r.doc} ELSE entry \ {r.doc}

\* The entry is posted when the goods move and reversed when they move back.
Booked(r) ==
  IF ~r.posts THEN entry
  ELSE IF Issues(r.doc, r.to) THEN entry \cup {r.doc} ELSE entry \ {r.doc}

\* Mutant of UpdateStatusWrite: the status is not looked at again (pre-F48).
UpdateStatusWriteUnchecked(c, r) ==
  /\ Resume(c, r)
  /\ Exists(r.doc)
  /\ UnitsFree(r)
  /\ rows' = rows \cup Moved(r)
  /\ docs' = [docs EXCEPT ![r.doc].status = r.to]
  /\ entry' = Booked(r)

UpdateStatusWrite(c, r) ==
  /\ Resume(c, r)
  /\ docs[r.doc].status = r.from
  /\ UnitsFree(r)
  /\ rows' = rows \cup Moved(r)
  /\ docs' = [docs EXCEPT ![r.doc].status = r.to]
  /\ entry' = Booked(r)

-----------------------------------------------------------------------------
(* Manual movements.                                                       *)

Unused(m) == RowsOf(m) = {} /\ m \notin entry

\* CreateStockMovement of the bulk product: nothing is looked at.
CreateStockMovement(m, qty, valued) ==
  /\ AtOnce
  /\ Unused(m)
  /\ rows' = rows \cup Inserted(m, 1, qty, {})
  /\ entry' = IF valued THEN entry \cup {m} ELSE entry
  /\ UNCHANGED docs

\* Units come in that are not in stock, or go out that are.
CreateStockMovementRead(c, m, qty, units, valued) ==
  /\ Unused(m)
  /\ units # {}
  /\ IF qty = 1 THEN units \cap InStock = {} ELSE units \subseteq InStock
  /\ Park(c, [op |-> "manual", src |-> m, qty |-> qty, units |-> units, posts |-> valued])
  /\ UNCHANGED <<docs, rows, entry>>

\* The units are not looked at again.
CreateStockMovementWrite(c, r) ==
  /\ Resume(c, r)
  /\ Unused(r.src)
  /\ rows' = rows \cup Inserted(r.src, r.qty, 0, r.units)
  /\ entry' = IF r.posts THEN entry \cup {r.src} ELSE entry
  /\ UNCHANGED docs

\* A row is kept by its document as long as the document exists, and by its
\* own journal entry.
Owned(r) == r.src \in Docs /\ Exists(r.src)

DeleteStockMovement(r) ==
  /\ AtOnce
  /\ ~Owned(r)
  /\ r.src \in Manuals => r.src \notin entry
  /\ rows' = rows \ {r}
  /\ UNCHANGED <<docs, entry>>

-----------------------------------------------------------------------------

Init ==
  /\ docs = [d \in Docs |-> [status |-> "absent", lines |-> NoLines]]
  /\ rows = {}
  /\ entry = {}
  /\ req = [c \in Clients |-> Idle]

DocumentNext ==
  \/ \E d \in Docs, l \in LineChoices : Create(d, l)
  \/ \E d \in Deliveries, l \in LineChoices : UpdateDelivery(d, l)
  \/ \E d \in Docs : Delete(d)
  \/ \E c \in Clients, d \in Receipts, l \in LineChoices :
       UpdateInboundDeliveryRead(c, d, l) \/ UpdateInboundDeliveryWrite(c, d, l)
  \/ \E c \in Clients, d \in Docs, u \in SUBSET Units, v \in Valued :
       \E to \in {"shipped", "delivered", "received", "cancelled"} :
         UpdateStatusRead(c, d, to, u, v)
  \/ \E c \in Clients : req[c].op = "status" /\ UpdateStatusWrite(c, req[c])

ManualNext ==
  \/ \E m \in Manuals, q \in -MaxQty..MaxQty, v \in ManualValued :
       q # 0 /\ CreateStockMovement(m, q, v)
  \/ \E c \in Clients, m \in Manuals, q \in {-1, 1}, u \in SUBSET Units, v \in ManualValued :
       CreateStockMovementRead(c, m, q, u, v)
  \/ \E c \in Clients : req[c].op = "manual" /\ CreateStockMovementWrite(c, req[c])
  \/ \E r \in rows : DeleteStockMovement(r)

Next == DocumentNext \/ ManualNext \/ \E c \in Clients : Fail(c)

Spec == Init /\ [][Next]_vars

-----------------------------------------------------------------------------
(* Properties.                                                             *)

\* Every variable keeps its type.
TypeOK ==
  /\ docs \in [Docs -> Doc]
  /\ rows \subseteq Row
  /\ entry \subseteq Sources
  /\ req \in [Clients -> Request]

\* F48, F103: the COGS or GRNI entry of a document is live only while the
\* document is issued, however its shipping, cancelling and deleting race.
EntryFollowsStatus == \A d \in Docs : d \in entry => Issued(d)

\* F48: no document moves stock twice. A draft has moved none, an issued
\* document once and in its own direction, a cancelled one at most once each
\* way, undoing after doing.
MovesOnce ==
  \A d \in Docs : Exists(d) =>
    /\ docs[d].status = "draft" => RowsOf(d) = {}
    /\ Issued(d) => \A r \in RowsOf(d) : r.qty * Sign(d) > 0
    /\ \A r \in RowsOf(d), x \in RowsOf(d) :
         /\ r.qty * x.qty > 0 => r.at = x.at
         /\ r.qty * Sign(d) > 0 /\ x.qty * Sign(d) < 0 => r.at < x.at

\* What the document put in and took out of stock is nothing in all.
NetsToZero(d) ==
  /\ MapThenSumSet(LAMBDA r : r.qty, {r \in RowsOf(d) : r.item = Bulk}) = 0
  /\ UnitsMoved(d, 1) = UnitsMoved(d, -1)

\* Issued, edited and cancelled one request at a time, a document leaves the
\* stock as if it had never been (UpdateDelivery's freeze of issued lines).
CancelledNetsToZero ==
  \A d \in Docs : docs[d].status = "cancelled" => NetsToZero(d)

\* Issued and cancelled one request at a time, with a cost for all its goods,
\* a document is on the books exactly while its goods are out or in.
BooksFollowGoods ==
  Valued = {TRUE} =>
    \A d \in Docs : Exists(d) => (d \in entry <=> Issued(d) /\ RowsOf(d) # {})

\* UpdateInboundDeliveryStatus: nothing "can change a receipt's own line
\* items" between its reads and its writes.
ReceiptMovesItsLines ==
  \A d \in Receipts : docs[d].status = "received" =>
    /\ MapThenSumSet(LAMBDA r : r.qty, {r \in RowsOf(d) : r.item = Bulk}) = docs[d].lines.bulk
    /\ Cardinality(UnitsMoved(d, 1)) = docs[d].lines.count

\* UpdateDeliveryStatus rejects a shipment "if any stock-enabled product
\* doesn't have enough available stock": one that is done leaves no less than
\* nothing of what it takes.
ShipsWhatIsOnHand ==
  [][\A d \in Deliveries :
       docs[d].status = "draft" /\ docs'[d].status = "shipped" /\ rows' # rows
         => OnHand' >= 0 \/ OnHand' = OnHand]_vars
=============================================================================
