----------------------------- MODULE StockProofs -----------------------------
(***************************************************************************)
(* What holds of deliveries and receipts for any number of them, of units, *)
(* of movements and of clients. The journal entry of a document's goods is *)
(* live only while the document is issued: a cancellation decides whether  *)
(* there is an entry to reverse before its transaction, so this needs that *)
(* nothing posts one between. And no document moves stock twice: its rows  *)
(* are of one transaction each way, the way back after the way there.      *)
(* When no two requests overlap, a cancelled document nets to nothing and  *)
(* the books follow the goods.                                             *)
(***************************************************************************)
EXTENDS Stock, FiniteSetTheorems, WellFoundedInduction, TLAPS

\* The types the argument needs; the rows have no part in it.
Typed ==
  /\ docs \in [Docs -> Doc]
  /\ entry \subseteq Sources
  /\ req \in [Clients -> Request]

\* A parked status change is one of the legal ones.
ParkedIsLegal ==
  \A c \in Clients : req[c].op = "status" => Transition(req[c].doc, req[c].from, req[c].to)

\* Whoever undoes a document has seen it issued, so it can no longer be
\* issued; and as long as it stands, its entry was there to be seen.
ParkedUndoKnowsEntry ==
  \A c \in Clients :
    req[c].op = "status" /\ Undoes(req[c].doc, req[c].from, req[c].to) =>
      /\ docs[req[c].doc].status \notin {"absent", "draft"}
      /\ docs[req[c].doc].status = req[c].from /\ req[c].doc \in entry => req[c].posts

\* The inductive invariant.
IInv == Typed /\ EntryFollowsStatus /\ ParkedIsLegal /\ ParkedUndoKnowsEntry

-----------------------------------------------------------------------------

\* Initially nothing exists.
LEMMA InitIInv == Init => IInv
<1> SUFFICES ASSUME Init PROVE IInv
  OBVIOUS
<1> USE ConstantsAssumption
<1>1. NoLines \in Lines
  <2>1. 0 \in 0..Cardinality(Units)
    BY FS_CardinalityType
  <2> QED
    BY <2>1 DEF NoLines, Lines
<1>2. Typed
  BY <1>1 DEF Typed, Init, Doc, Request, Idle
<1> QED
  BY <1>2 DEF IInv, Init, EntryFollowsStatus, ParkedIsLegal, ParkedUndoKnowsEntry, Idle

\* A step that leaves the entries of documents alone, lets no document be
\* born and changes no document's status except to delete one that is not
\* issued, keeps what the parked requests rely on.
LEMMA RequestsOnly ==
  ASSUME IInv, Typed', entry' = entry, docs' = docs,
         NEW c \in Clients, NEW r \in Request, req' = [req EXCEPT ![c] = r],
         r.op = "status" => /\ Transition(r.doc, r.from, r.to)
                            /\ r.from = docs[r.doc].status
                            /\ Undoes(r.doc, r.from, r.to) /\ r.doc \in entry => r.posts
  PROVE  IInv'
<1>1. \A e \in Clients : req'[e] = IF e = c THEN r ELSE req[e]
  BY DEF IInv, Typed
<1>2. ParkedIsLegal'
  BY <1>1 DEF IInv, ParkedIsLegal, Transition, Go
<1>3. ParkedUndoKnowsEntry'
  BY <1>1 DEF IInv, ParkedUndoKnowsEntry, Undoes, Go
<1>4. EntryFollowsStatus'
  BY DEF IInv, EntryFollowsStatus, Issued
<1> QED
  BY <1>2, <1>3, <1>4 DEF IInv

\* A step that ends a request, or none, and whatever it does to documents
\* leaves the undoing requests of others what they rely on.
LEMMA DocumentsOnly ==
  ASSUME IInv, Typed', EntryFollowsStatus',
         \A c \in Clients : req'[c] = req[c] \/ req'[c] = Idle,
         \A d \in Docs : docs[d].status \notin {"absent", "draft"} =>
                            docs'[d].status \notin {"absent", "draft"},
         \A d \in Docs : docs[d].status \notin {"absent", "draft"} =>
                            \/ docs'[d].status # docs[d].status
                            \/ d \in entry' => d \in entry,
         \A d \in Docs : docs[d].status \notin {"absent", "draft"}
                            /\ docs'[d].status = Go(d) => docs[d].status = Go(d)
  PROVE  IInv'
<1>1. ParkedIsLegal'
  BY DEF IInv, ParkedIsLegal, Transition, Go, Idle
<1>2. ParkedUndoKnowsEntry'
  <2> SUFFICES ASSUME NEW c \in Clients, req'[c].op = "status",
                      Undoes(req'[c].doc, req'[c].from, req'[c].to)
               PROVE  /\ docs'[req'[c].doc].status \notin {"absent", "draft"}
                      /\ docs'[req'[c].doc].status = req'[c].from /\ req'[c].doc \in entry'
                           => req'[c].posts
    BY DEF ParkedUndoKnowsEntry, Undoes, Go
  <2>1. req'[c] = req[c] /\ req[c].op = "status"
    BY DEF Idle
  <2>2. req[c].doc \in Docs
    BY <2>1 DEF IInv, Typed, Request, Idle
  <2>3. docs[req[c].doc].status \notin {"absent", "draft"}
    BY <2>1 DEF IInv, ParkedUndoKnowsEntry
  <2> QED
    BY <2>1, <2>2, <2>3 DEF IInv, ParkedUndoKnowsEntry, Undoes
<1> QED
  BY <1>1, <1>2 DEF IInv

-----------------------------------------------------------------------------
(* One lemma per kind of step.                                             *)

\* A draft is created without an entry.
LEMMA CreateIInv ==
  ASSUME IInv, NEW d \in Docs, NEW l \in LineChoices, Create(d, l)
  PROVE  IInv'
<1>1. [status |-> "draft", lines |-> l] \in Doc
  BY ConstantsAssumption DEF Doc
<1>2. Typed'
  BY <1>1 DEF Create, AtOnce, IInv, Typed
<1>3. \A e \in Docs : e # d => docs'[e] = docs[e]
  BY DEF Create, IInv, Typed
<1>4. EntryFollowsStatus'
  BY <1>3 DEF Create, IInv, EntryFollowsStatus, Issued
<1> QED
  BY <1>2, <1>3, <1>4, DocumentsOnly DEF Create, AtOnce

\* Editing lines, in one transaction or two, leaves every status alone.
LEMMA LinesIInv ==
  ASSUME IInv, NEW d \in Docs, NEW l \in Lines,
         docs' = [docs EXCEPT ![d].lines = l], entry' = entry,
         req' \in [Clients -> Request],
         \A c \in Clients : req'[c] = req[c] \/ req'[c] = Idle
  PROVE  IInv'
<1>1. \A e \in Docs : docs'[e] \in Doc /\ docs'[e].status = docs[e].status
  BY DEF IInv, Typed, Doc
<1>2. Typed'
  BY <1>1 DEF IInv, Typed
<1>3. EntryFollowsStatus'
  BY <1>1 DEF IInv, EntryFollowsStatus, Issued
<1> QED
  BY <1>1, <1>2, <1>3, DocumentsOnly

\* Only a document without an entry is deleted.
LEMMA DeleteIInv ==
  ASSUME IInv, NEW d \in Docs, Delete(d)
  PROVE  IInv'
<1>1. docs'[d] \in Doc /\ docs'[d].status = "deleted"
  BY DEF Delete, IInv, Typed, Doc
<1>2. \A e \in Docs : e # d => docs'[e] = docs[e]
  BY DEF Delete, IInv, Typed
<1>3. Typed'
  BY <1>1, <1>2 DEF Delete, AtOnce, IInv, Typed
<1>4. EntryFollowsStatus'
  BY <1>2 DEF Delete, IInv, EntryFollowsStatus, Issued
<1>5. Go(d) # "deleted"
  BY DEF Go
<1> QED
  BY <1>1, <1>2, <1>3, <1>4, <1>5, DocumentsOnly DEF Delete, AtOnce

\* A status change is parked if it is legal, knowing whether there is an entry.
LEMMA UpdateStatusReadIInv ==
  ASSUME IInv, NEW c \in Clients, NEW d \in Docs, NEW u \in SUBSET Units, NEW v \in Valued,
         NEW to \in {"shipped", "delivered", "received", "cancelled"},
         UpdateStatusRead(c, d, to, u, v)
  PROVE  IInv'
<1> DEFINE r == [op |-> "status", doc |-> d, from |-> docs[d].status, to |-> to,
                 lines |-> docs[d].lines, units |-> u,
                 posts |-> \/ Issues(d, to) /\ v /\ docs[d].lines # NoLines
                           \/ Undoes(d, docs[d].status, to) /\ d \in entry]
<1>1. Transition(d, docs[d].status, to)
  BY DEF UpdateStatusRead
<1>2. docs[d].status \in {"draft", "shipped", "received"}
  BY <1>1 DEF Transition, Go
<1>3. docs[d].lines \in Lines
  BY DEF IInv, Typed, Doc
<1>4. r.posts \in BOOLEAN
  BY ConstantsAssumption DEF Issues, Undoes
<1>5. r \in Request
  BY <1>2, <1>3, <1>4 DEF Request
<1>6. req' = [req EXCEPT ![c] = r] /\ docs' = docs /\ entry' = entry
  BY DEF UpdateStatusRead, Park
<1>7. Typed'
  BY <1>5, <1>6 DEF IInv, Typed
<1>8. Undoes(r.doc, r.from, r.to) /\ r.doc \in entry => r.posts
  OBVIOUS
<1> QED
  BY <1>1, <1>5, <1>6, <1>7, <1>8, RequestsOnly

\* A status change finds the status it read: it posts the entry or takes it away.
LEMMA UpdateStatusWriteIInv ==
  ASSUME IInv, NEW c \in Clients, NEW r \in Request, req[c] = r,
         r.op = "status", UpdateStatusWrite(c, r)
  PROVE  IInv'
<1> DEFINE d == r.doc
<1>1. d \in Docs /\ r.to \in {"shipped", "delivered", "received", "cancelled"} /\ r.posts \in BOOLEAN
  BY DEF Request, Idle
<1>2. Transition(d, docs[d].status, r.to) /\ docs[d].status = r.from
  BY DEF UpdateStatusWrite, IInv, ParkedIsLegal
<1>3. docs'[d] \in Doc /\ docs'[d].status = r.to
  BY <1>1 DEF UpdateStatusWrite, IInv, Typed, Doc
<1>4. \A e \in Docs : e # d => docs'[e] = docs[e]
  BY DEF UpdateStatusWrite, IInv, Typed
<1>5. entry' \subseteq entry \cup {d}
  BY DEF UpdateStatusWrite, Booked
<1>6. req' \in [Clients -> Request] /\ \A e \in Clients : req'[e] = req[e] \/ req'[e] = Idle
  <2>1. Idle \in Request
    BY DEF Request
  <2> QED
    BY <2>1 DEF UpdateStatusWrite, Resume, IInv, Typed
<1>7. Typed'
  <2>1. docs' \in [Docs -> Doc]
    BY <1>3, <1>4 DEF UpdateStatusWrite, IInv, Typed
  <2> QED
    BY <1>1, <1>5, <1>6, <2>1 DEF IInv, Typed, Sources
<1>8. d \in entry' => Issued(d)'
  <2>1. CASE r.to = "cancelled"
    <3>1. ~Issues(d, r.to)
      BY <2>1 DEF Issues, Go
    <3>2. CASE docs[d].status = "draft"
      BY <1>1, <3>1, <3>2 DEF IInv, EntryFollowsStatus, Issued, UpdateStatusWrite, Booked
    <3>3. CASE docs[d].status # "draft"
      <4>1. Undoes(d, r.from, r.to)
        BY <1>2, <2>1, <3>3 DEF Transition, Undoes
      <4>2. d \in entry => r.posts
        BY <1>2, <4>1 DEF IInv, ParkedUndoKnowsEntry
      <4> QED
        BY <3>1, <4>2 DEF UpdateStatusWrite, Booked
    <3> QED
      BY <3>2, <3>3
  <2>2. CASE r.to # "cancelled"
    BY <1>1, <1>3, <2>2 DEF Issued
  <2> QED
    BY <2>1, <2>2
<1>9. EntryFollowsStatus'
  BY <1>4, <1>5, <1>8 DEF IInv, EntryFollowsStatus, Issued
<1>10. docs[d].status # "draft" => r.to # Go(d)
  BY <1>2 DEF Transition, Go
<1>11. docs[d].status # "draft" => r.to # docs[d].status
  BY <1>2 DEF Transition, Go
<1>12. r.to \notin {"absent", "draft"}
  BY <1>1
<1>13. \A e \in Docs : docs[e].status \notin {"absent", "draft"} =>
         /\ docs'[e].status \notin {"absent", "draft"}
         /\ docs'[e].status # docs[e].status \/ (e \in entry' => e \in entry)
         /\ docs'[e].status = Go(e) => docs[e].status = Go(e)
  BY <1>3, <1>4, <1>5, <1>10, <1>11, <1>12
<1> QED
  BY <1>6, <1>7, <1>9, <1>13, DocumentsOnly

\* Manual movements book entries of their own.
LEMMA ManualIInv ==
  ASSUME IInv, NEW m \in Manuals, docs' = docs, entry' \subseteq entry \cup {m},
         req' \in [Clients -> Request],
         \A c \in Clients : req'[c] = req[c] \/ req'[c] = Idle
  PROVE  IInv'
<1>1. m \notin Docs
  BY ConstantsAssumption
<1>2. Typed'
  BY DEF IInv, Typed, Sources
<1>3. EntryFollowsStatus'
  BY <1>1 DEF IInv, EntryFollowsStatus, Issued
<1> QED
  BY <1>1, <1>2, <1>3, DocumentsOnly

-----------------------------------------------------------------------------

\* Every step keeps the invariant.
LEMMA NextIInv == IInv /\ [Next]_vars => IInv'
<1> SUFFICES ASSUME IInv, [Next]_vars PROVE IInv'
  OBVIOUS
<1>typed. Typed /\ LineChoices \subseteq Lines
  BY ConstantsAssumption DEF IInv
<1>idle. Idle \in Request
  BY DEF Request
<1>1. CASE UNCHANGED vars
  BY <1>1 DEF vars, IInv, Typed, EntryFollowsStatus, Issued, ParkedIsLegal,
              ParkedUndoKnowsEntry, Transition, Undoes, Go
<1>2. ASSUME NEW d \in Docs, NEW l \in LineChoices, Create(d, l) PROVE IInv'
  BY <1>2, CreateIInv
<1>3. ASSUME NEW d \in Deliveries, NEW l \in LineChoices, UpdateDelivery(d, l) PROVE IInv'
  BY <1>typed, <1>3, LinesIInv DEF UpdateDelivery, AtOnce, Typed, Docs
<1>4. ASSUME NEW d \in Docs, Delete(d) PROVE IInv'
  BY <1>4, DeleteIInv
<1>5. ASSUME NEW c \in Clients, NEW d \in Receipts, NEW l \in LineChoices,
             UpdateInboundDeliveryRead(c, d, l)
      PROVE  IInv'
  <2> DEFINE r == [op |-> "edit", doc |-> d, lines |-> l]
  <2>1. r \in Request
    BY <1>typed DEF Request
  <2>2. Typed' /\ docs' = docs /\ entry' = entry /\ req' = [req EXCEPT ![c] = r]
    BY <1>typed, <1>5, <2>1 DEF UpdateInboundDeliveryRead, Park, Typed
  <2> QED
    BY <2>1, <2>2, RequestsOnly
<1>6. ASSUME NEW c \in Clients, NEW d \in Receipts, NEW l \in LineChoices,
             UpdateInboundDeliveryWrite(c, d, l)
      PROVE  IInv'
  BY <1>typed, <1>idle, <1>6, LinesIInv DEF UpdateInboundDeliveryWrite, Resume, Typed, Docs
<1>7. ASSUME NEW c \in Clients, NEW d \in Docs, NEW u \in SUBSET Units, NEW v \in Valued,
             NEW to \in {"shipped", "delivered", "received", "cancelled"},
             UpdateStatusRead(c, d, to, u, v)
      PROVE  IInv'
  BY <1>7, UpdateStatusReadIInv
<1>8. ASSUME NEW c \in Clients, req[c].op = "status", UpdateStatusWrite(c, req[c])
      PROVE  IInv'
  <2>1. PICK r \in Request : req[c] = r
    BY <1>typed DEF Typed
  <2> QED
    BY <1>8, <2>1, UpdateStatusWriteIInv
<1>9. ASSUME NEW m \in Manuals, NEW q \in -MaxQty..MaxQty, NEW v \in ManualValued,
             CreateStockMovement(m, q, v)
      PROVE  IInv'
  <2>1. docs' = docs /\ entry' \subseteq entry \cup {m} /\ req' = req
    BY <1>9 DEF CreateStockMovement, AtOnce
  <2> QED
    BY <1>typed, <2>1, ManualIInv DEF Typed
<1>10. ASSUME NEW c \in Clients, NEW m \in Manuals, NEW q \in {-1, 1}, NEW u \in SUBSET Units,
              NEW v \in ManualValued, CreateStockMovementRead(c, m, q, u, v)
       PROVE  IInv'
  <2> DEFINE r == [op |-> "manual", src |-> m, qty |-> q, units |-> u, posts |-> v]
  <2>1. r \in Request
    BY ConstantsAssumption DEF Request
  <2>2. Typed' /\ docs' = docs /\ entry' = entry /\ req' = [req EXCEPT ![c] = r]
    BY <1>typed, <1>10, <2>1 DEF CreateStockMovementRead, Park, Typed
  <2> QED
    BY <2>1, <2>2, RequestsOnly
<1>11. ASSUME NEW c \in Clients, req[c].op = "manual", CreateStockMovementWrite(c, req[c])
       PROVE  IInv'
  <2>1. PICK m \in Manuals : req[c].src = m
    BY <1>typed, <1>11 DEF Typed, Request, Idle
  <2>2. docs' = docs /\ entry' \subseteq entry \cup {m}
    BY <1>11, <2>1 DEF CreateStockMovementWrite
  <2>3. req' \in [Clients -> Request] /\ \A e \in Clients : req'[e] = req[e] \/ req'[e] = Idle
    BY <1>typed, <1>idle, <1>11 DEF CreateStockMovementWrite, Resume, Typed
  <2> QED
    BY <2>2, <2>3, ManualIInv
<1>12. ASSUME NEW x \in rows, DeleteStockMovement(x) PROVE IInv'
  BY <1>12 DEF DeleteStockMovement, Owned, AtOnce, IInv, Typed, EntryFollowsStatus, Issued,
               ParkedIsLegal, ParkedUndoKnowsEntry, Transition, Undoes, Go
<1>13. ASSUME NEW c \in Clients, Fail(c) PROVE IInv'
  <2>1. Typed' /\ docs' = docs /\ entry' = entry /\ req' = [req EXCEPT ![c] = Idle]
    BY <1>typed, <1>idle, <1>13 DEF Fail, Typed
  <2>2. Idle.op # "status"
    BY DEF Idle
  <2> QED
    BY <1>idle, <2>1, <2>2, RequestsOnly
<1> QED
  BY <1>1, <1>2, <1>3, <1>4, <1>5, <1>6, <1>7, <1>8, <1>9, <1>10, <1>11, <1>12, <1>13
     DEF Next, DocumentNext, ManualNext

\* The invariant holds of every reachable state.
THEOREM StockInvariant == Spec => []IInv
<1>1. IInv /\ [Next]_vars => IInv'
  BY NextIInv
<1> QED
  BY <1>1, InitIInv, PTL DEF Spec

\* F48, F103: a document's COGS or GRNI entry is live only while the document
\* is issued, however shipping, cancelling, editing and deleting it race.
THEOREM StockEntryFollows == Spec => []EntryFollowsStatus
<1>1. IInv => EntryFollowsStatus
  BY DEF IInv
<1> QED
  BY <1>1, StockInvariant, PTL

-----------------------------------------------------------------------------
(* The rows.                                                               *)

\* Rows are typed, and there is a last transaction.
RowsTyped ==
  /\ rows \subseteq Row
  /\ \E n \in Nat : \A x \in rows : x.at <= n

\* A row in the direction of its document, and one that undoes it.
Forth(d, r) == IF d \in Deliveries THEN r.qty < 0 ELSE r.qty > 0
Back(d, r) == IF d \in Deliveries THEN r.qty > 0 ELSE r.qty < 0

\* What MovesOnce says of a document, with the documents not created yet: an
\* issued document has moved in one transaction and not back.
Moves(d) ==
  /\ docs[d].status \in {"absent", "draft"} => RowsOf(d) = {}
  /\ Issued(d) => \A r \in RowsOf(d) : Forth(d, r) /\ \A x \in RowsOf(d) : r.at = x.at
  /\ docs[d].status = "cancelled" => \A r \in RowsOf(d) :
       /\ Forth(d, r) \/ Back(d, r)
       /\ \A x \in RowsOf(d) : /\ Forth(d, r) /\ Forth(d, x) => r.at = x.at
                               /\ Back(d, r) /\ Back(d, x) => r.at = x.at
                               /\ Forth(d, r) /\ Back(d, x) => r.at < x.at

\* The inductive invariant of the rows, beside IInv.
RInv == RowsTyped /\ \A d \in Docs : Moves(d)

\* Naturals that have a bound have a last one.
LEMMA LastRow ==
  ASSUME NEW R \in SUBSET Row, R # {}, NEW n \in Nat, \A x \in R : x.at <= n
  PROVE  \E r \in R : \A x \in R : x.at <= r.at
<1> DEFINE T == {n - x.at : x \in R}
<1>1. \A x \in R : x.at \in Nat
  BY DEF Row
<1>2. T \subseteq Nat /\ T # {}
  BY <1>1
<1>3. PICK k \in T : \A j \in T : ~(<<j, k>> \in OpToRel(<, Nat))
  BY <1>2, NatLessThanWellFounded, WFMin
<1>4. \A j \in T : ~(j < k)
  BY <1>2, <1>3 DEF OpToRel
<1>5. PICK r \in R : k = n - r.at
  OBVIOUS
<1>6. \A x \in R : ~(n - x.at < n - r.at)
  BY <1>4, <1>5
<1> QED
  BY <1>1, <1>6

\* The next transaction comes after all of them.
LEMMA NextAtIsLast ==
  ASSUME RowsTyped
  PROVE  NextAt \in Nat /\ \A x \in rows : x.at < NextAt
<1>1. CASE rows = {}
  BY <1>1 DEF NextAt
<1>2. CASE rows # {}
  <2> DEFINE Last(r) == \A x \in rows : x.at <= r.at
             last == CHOOSE r \in rows : Last(r)
  <2>1. \E r \in rows : Last(r)
    BY <1>2, LastRow DEF RowsTyped
  <2>2. last \in rows /\ Last(last)
    BY <2>1
  <2>3. NextAt = last.at + 1
    BY <1>2 DEF NextAt
  <2>4. \A x \in rows : x.at \in Nat
    BY DEF RowsTyped, Row
  <2> HIDE DEF last
  <2> QED
    BY <2>2, <2>3, <2>4
<1> QED
  BY <1>1, <1>2

\* What a transaction inserts.
LEMMA InsertedRows ==
  ASSUME RowsTyped, NEW s \in Sources, NEW sign \in {-1, 1}, NEW bulk \in Int,
         sign * bulk \in -MaxQty..MaxQty, NEW units \in SUBSET Units
  PROVE  \A r \in Inserted(s, sign, bulk, units) :
           /\ r \in Row /\ r.src = s /\ r.at = NextAt
           /\ bulk \in Nat /\ sign = 1 => r.qty > 0
           /\ bulk \in Nat /\ sign = -1 => r.qty < 0
<1> TAKE r \in Inserted(s, sign, bulk, units)
<1>1. NextAt \in Nat /\ MaxQty \in Nat \ {0}
  BY NextAtIsLast, ConstantsAssumption
<1>2. CASE r \in {[at |-> NextAt, src |-> s, item |-> Bulk, qty |-> sign * b] : b \in {bulk} \ {0}}
  <2>1. r = [at |-> NextAt, src |-> s, item |-> Bulk, qty |-> sign * bulk] /\ bulk # 0
    BY <1>2
  <2>2. r \in Row
    BY <1>1, <2>1 DEF Row, Items
  <2>3. CASE sign = 1
    BY <2>1, <2>2, <2>3
  <2>4. CASE sign = -1
    BY <2>1, <2>2, <2>4
  <2> QED
    BY <2>3, <2>4
<1>3. CASE r \in {[at |-> NextAt, src |-> s, item |-> u, qty |-> sign] : u \in units}
  <2>1. PICK u \in units : r = [at |-> NextAt, src |-> s, item |-> u, qty |-> sign]
    BY <1>3
  <2>2. sign \in -MaxQty..MaxQty
    BY <1>1
  <2>3. r \in Row
    BY <1>1, <2>1, <2>2 DEF Row, Items
  <2> QED
    BY <2>1, <2>3
<1> QED
  BY <1>2, <1>3 DEF Inserted

\* Rows of one transaction, the next, come in, or rows go.
LEMMA RowsInserted ==
  ASSUME RowsTyped, NEW new, \A r \in new : r \in Row /\ r.at = NextAt, rows' = rows \cup new
  PROVE  RowsTyped'
<1>1. NextAt \in Nat /\ \A x \in rows : x.at < NextAt
  BY NextAtIsLast
<1>2. \A x \in rows : x.at \in Nat
  BY DEF RowsTyped, Row
<1>3. \A x \in rows' : x.at <= NextAt
  BY <1>1, <1>2
<1>4. rows' \subseteq Row
  BY DEF RowsTyped
<1> QED
  BY <1>1, <1>3, <1>4 DEF RowsTyped

\* Rows that go leave a last transaction.
LEMMA RowsRemoved ==
  ASSUME RowsTyped, rows' \subseteq rows
  PROVE  RowsTyped'
  BY DEF RowsTyped

\* A document that gets no rows and takes no other status than these.
LEMMA MovesStays ==
  ASSUME NEW e \in Docs, Moves(e), RowsOf(e)' \subseteq RowsOf(e),
         \/ docs'[e].status = docs[e].status
         \/ docs[e].status = "absent" /\ docs'[e].status = "draft"
         \/ docs'[e].status = "deleted"
  PROVE  Moves(e)'
<1>1. CASE docs'[e].status = docs[e].status
  <2>1. Issued(e)' <=> Issued(e)
    BY <1>1 DEF Issued
  <2> QED
    BY <1>1, <2>1 DEF Moves, Forth, Back
<1>2. CASE docs[e].status = "absent" /\ docs'[e].status = "draft"
  <2>1. ~Issued(e)'
    BY <1>2 DEF Issued
  <2> QED
    BY <1>2, <2>1 DEF Moves
<1>3. CASE docs'[e].status = "deleted"
  <2>1. ~Issued(e)'
    BY <1>3 DEF Issued
  <2> QED
    BY <1>3, <2>1 DEF Moves
<1> QED
  BY <1>1, <1>2, <1>3

\* The rows a source gets are its own.
LEMMA RowsOfSource ==
  ASSUME NEW s, NEW new, \A r \in new : r.src = s, rows' = rows \cup new
  PROVE  /\ RowsOf(s)' = RowsOf(s) \cup new
         /\ \A e : e # s => RowsOf(e)' = RowsOf(e)
  BY DEF RowsOf

\* A draft is issued: its rows are new, of one transaction and its direction.
LEMMA IssueMoves ==
  ASSUME RowsTyped, NEW d \in Docs, NEW lines \in Lines, NEW units \in SUBSET Units,
         Moves(d), docs[d].status = "draft", docs'[d].status = Go(d),
         rows' = rows \cup Inserted(d, Sign(d), lines.bulk, units)
  PROVE  /\ Moves(d)' /\ RowsTyped'
         /\ \A e \in Docs \ {d} : RowsOf(e)' = RowsOf(e)
<1> DEFINE new == Inserted(d, Sign(d), lines.bulk, units)
<1>1. Sign(d) \in {-1, 1} /\ (d \in Deliveries <=> Sign(d) = -1)
  BY DEF Sign
<1>2. lines.bulk \in Nat /\ lines.bulk \in Int /\ Sign(d) * lines.bulk \in -MaxQty..MaxQty
  <2>1. lines.bulk \in 0..MaxQty /\ MaxQty \in Nat
    BY ConstantsAssumption DEF Lines
  <2>2. CASE Sign(d) = 1
    BY <2>1, <2>2
  <2>3. CASE Sign(d) = -1
    BY <2>1, <2>3
  <2> QED
    BY <1>1, <2>1, <2>2, <2>3
<1>3. d \in Sources
  BY DEF Sources
<1>4. \A r \in new : /\ r \in Row /\ r.src = d /\ r.at = NextAt
                     /\ Sign(d) = 1 => r.qty > 0
                     /\ Sign(d) = -1 => r.qty < 0
  BY <1>1, <1>2, <1>3, InsertedRows
<1>5. RowsOf(d)' = RowsOf(d) \cup new /\ \A e \in Docs \ {d} : RowsOf(e)' = RowsOf(e)
  BY <1>4, RowsOfSource
<1>typed. RowsTyped'
  BY <1>4, RowsInserted
<1>6. RowsOf(d) = {}
  BY DEF Moves
<1> HIDE DEF new
<1>7. \A r \in new : Forth(d, r)
  BY <1>1, <1>4 DEF Forth
<1>8. docs'[d].status \notin {"absent", "draft", "cancelled"}
  BY DEF Go
<1>9. Issued(d)' => \A r \in RowsOf(d)' : Forth(d, r) /\ \A x \in RowsOf(d)' : r.at = x.at
  BY <1>4, <1>5, <1>6, <1>7
<1> QED
  BY <1>5, <1>typed, <1>8, <1>9 DEF Moves, Forth

\* The opposite of a direction.
LEMMA Opposite ==
  ASSUME NEW x \in {-1, 1}
  PROVE  /\ x = -1 => -x = 1
         /\ x = 1 => -x = -1
  OBVIOUS

\* An issued document is undone: what comes back comes after what went.
LEMMA UndoMoves ==
  ASSUME RowsTyped, NEW d \in Docs, NEW lines \in Lines, NEW units \in SUBSET Units,
         Moves(d), docs[d].status = Go(d), docs'[d].status = "cancelled",
         rows' = rows \cup Inserted(d, -Sign(d), lines.bulk, units)
  PROVE  /\ Moves(d)' /\ RowsTyped'
         /\ \A e \in Docs \ {d} : RowsOf(e)' = RowsOf(e)
<1>1. PICK sign \in {-1, 1} : sign = -Sign(d) /\ (d \in Deliveries <=> sign = 1)
  <2>1. CASE d \in Deliveries
    <3>1. Sign(d) = -1
      BY <2>1 DEF Sign
    <3>2. Sign(d) \in {-1, 1}
      BY <3>1
    <3>3. -Sign(d) = 1
      BY <3>1, <3>2, Opposite
    <3> QED
      BY <2>1, <3>3
  <2>2. CASE d \notin Deliveries
    BY <2>2 DEF Sign
  <2> QED
    BY <2>1, <2>2
<1> DEFINE new == Inserted(d, sign, lines.bulk, units)
<1>2. lines.bulk \in Nat /\ lines.bulk \in Int /\ sign * lines.bulk \in -MaxQty..MaxQty
  <2>1. lines.bulk \in 0..MaxQty /\ MaxQty \in Nat
    BY ConstantsAssumption DEF Lines
  <2>2. CASE sign = 1
    BY <2>1, <2>2
  <2>3. CASE sign = -1
    BY <2>1, <2>3
  <2> QED
    BY <2>1, <2>2, <2>3
<1>3. d \in Sources
  BY DEF Sources
<1>4. \A r \in new : /\ r \in Row /\ r.src = d /\ r.at = NextAt
                     /\ sign = 1 => r.qty > 0
                     /\ sign = -1 => r.qty < 0
  BY <1>1, <1>2, <1>3, InsertedRows
<1>5. RowsOf(d)' = RowsOf(d) \cup new /\ \A e \in Docs \ {d} : RowsOf(e)' = RowsOf(e)
  BY <1>1, <1>4, RowsOfSource
<1>typed. RowsTyped'
  BY <1>1, <1>4, RowsInserted
<1> HIDE DEF new
<1>6. \A r \in new : Back(d, r) /\ ~Forth(d, r)
  <2> TAKE r \in new
  <2>1. r.qty \in Int
    BY <1>4 DEF Row
  <2>2. CASE d \in Deliveries
    BY <1>1, <1>4, <2>1, <2>2 DEF Back, Forth
  <2>3. CASE d \notin Deliveries
    <3>1. sign = -1
      BY <1>1, <2>3
    <3> QED
      BY <1>4, <2>1, <2>3, <3>1 DEF Back, Forth
  <2> QED
    BY <2>2, <2>3
<1>7. Issued(d)
  BY DEF Issued, Go
<1>8. \A r \in RowsOf(d) : /\ Forth(d, r) /\ ~Back(d, r) /\ r.at < NextAt
                           /\ \A x \in RowsOf(d) : r.at = x.at
  <2> TAKE r \in RowsOf(d)
  <2>1. r \in rows /\ r.qty \in Int
    BY DEF RowsOf, RowsTyped, Row
  <2>2. Forth(d, r) /\ \A x \in RowsOf(d) : r.at = x.at
    BY <1>7 DEF Moves
  <2>3. ~Back(d, r)
    BY <2>1, <2>2 DEF Forth, Back
  <2>4. r.at < NextAt
    BY <2>1, NextAtIsLast
  <2> QED
    BY <2>2, <2>3, <2>4
<1>9. \A r \in RowsOf(d)' :
        /\ Forth(d, r) \/ Back(d, r)
        /\ \A x \in RowsOf(d)' : /\ Forth(d, r) /\ Forth(d, x) => r.at = x.at
                                 /\ Back(d, r) /\ Back(d, x) => r.at = x.at
                                 /\ Forth(d, r) /\ Back(d, x) => r.at < x.at
  BY <1>4, <1>5, <1>6, <1>8
<1>10. ~Issued(d)'
  BY DEF Issued
<1> QED
  BY <1>5, <1>typed, <1>9, <1>10 DEF Moves, Forth, Back

-----------------------------------------------------------------------------
(* Every step, for the rows.                                               *)

\* A status change finds the status it read: it issues a draft, undoes what
\* was issued, or moves nothing.
LEMMA UpdateStatusWriteRInv ==
  ASSUME IInv, RInv, NEW c \in Clients, NEW r \in Request, req[c] = r,
         r.op = "status", UpdateStatusWrite(c, r)
  PROVE  RInv'
<1> DEFINE d == r.doc
<1>1. /\ d \in Docs /\ r.lines \in Lines /\ r.units \in SUBSET Units
      /\ r.to \in {"shipped", "delivered", "received", "cancelled"}
  BY DEF Request, Idle
<1>2. Transition(d, docs[d].status, r.to) /\ docs[d].status = r.from
  BY DEF UpdateStatusWrite, IInv, ParkedIsLegal
<1>3. docs'[d].status = r.to /\ \A e \in Docs : e # d => docs'[e] = docs[e]
  BY <1>1 DEF UpdateStatusWrite, IInv, Typed, Doc
<1>4. rows' = rows \cup Moved(r)
  BY DEF UpdateStatusWrite
<1>5. RowsTyped /\ \A e \in Docs : Moves(e)
  BY DEF RInv
<1>6. Moves(d)' /\ RowsTyped' /\ \A e \in Docs \ {d} : RowsOf(e)' = RowsOf(e)
  <2>1. CASE Issues(d, r.to)
    <3>1. r.to = Go(d) /\ docs[d].status = "draft"
      BY <1>2, <2>1 DEF Issues, Transition, Go
    <3>2. Moved(r) = Inserted(d, Sign(d), r.lines.bulk, r.units)
      <4>1. ~Undoes(d, r.from, r.to)
        BY <3>1 DEF Undoes, Go
      <4> QED
        BY <2>1, <4>1 DEF Moved
    <3> QED
      <4>1. /\ Moves(d) /\ RowsTyped /\ docs'[d].status = Go(d)
            /\ rows' = rows \cup Inserted(d, Sign(d), r.lines.bulk, r.units)
        BY <1>1, <1>3, <1>4, <1>5, <3>1, <3>2
      <4> HIDE DEF d
      <4> QED
        BY ONLY <1>1, <3>1, <4>1, IssueMoves
  <2>2. CASE Undoes(d, r.from, r.to)
    <3>1. docs[d].status = Go(d) /\ r.to = "cancelled" /\ ~Issues(d, r.to)
      BY <1>2, <2>2 DEF Issues, Undoes, Go
    <3>2. PICK units \in SUBSET Units : Moved(r) = Inserted(d, -Sign(d), r.lines.bulk, units)
      <4> DEFINE units == IF r.lines.count > 0 THEN UnitsMoved(d, Sign(d)) ELSE {}
      <4>1. UnitsMoved(d, Sign(d)) \subseteq Units
        BY <1>5 DEF UnitsMoved, RowsOf, RowsTyped, Row, Items
      <4>2. Moved(r) = Inserted(d, -Sign(d), r.lines.bulk, units)
        BY <2>2, <3>1 DEF Moved
      <4> QED
        BY <4>1, <4>2
    <3> QED
      <4>1. /\ Moves(d) /\ RowsTyped /\ docs'[d].status = "cancelled"
            /\ rows' = rows \cup Inserted(d, -Sign(d), r.lines.bulk, units)
        BY <1>1, <1>3, <1>4, <1>5, <3>1, <3>2
      <4> HIDE DEF d
      <4> QED
        BY ONLY <1>1, <3>1, <4>1, UndoMoves
  <2>3. CASE ~Issues(d, r.to) /\ ~Undoes(d, r.from, r.to)
    <3>1. rows' = rows
      BY <1>4, <2>3 DEF Moved
    <3>2. RowsTyped' /\ \A e \in Docs : RowsOf(e)' = RowsOf(e)
      BY <1>5, <3>1, RowsRemoved DEF RowsOf
    <3>3. \/ docs[d].status = "draft" /\ r.to = "cancelled"
          \/ docs[d].status = "shipped" /\ r.to = "delivered"
      BY <1>2, <2>3 DEF Transition, Issues, Undoes
    <3>4. CASE docs[d].status = "draft" /\ r.to = "cancelled"
      <4>1. RowsOf(d)' = {} /\ ~Issued(d)'
        BY <1>1, <1>3, <1>5, <3>2, <3>4 DEF Moves, Issued
      <4> QED
        BY <1>3, <3>2, <3>4, <4>1 DEF Moves
    <3>5. CASE docs[d].status = "shipped" /\ r.to = "delivered"
      <4>1. Issued(d)
        BY <3>5 DEF Issued
      <4>2. Moves(d)'
        BY <1>1, <1>3, <1>5, <3>2, <3>5, <4>1 DEF Moves, Forth
      <4> QED
        BY <3>2, <4>2
    <3> QED
      BY <3>3, <3>4, <3>5
  <2> QED
    BY <2>1, <2>2, <2>3
<1>7. \A e \in Docs \ {d} : Moves(e)'
  BY <1>3, <1>5, <1>6, MovesStays
<1> QED
  BY <1>6, <1>7 DEF RInv

\* A movement by hand inserts rows of its own.
LEMMA ManualRInv ==
  ASSUME RInv, NEW m \in Manuals, NEW sign \in {-1, 1}, NEW bulk \in Int,
         sign * bulk \in -MaxQty..MaxQty, NEW units \in SUBSET Units,
         rows' = rows \cup Inserted(m, sign, bulk, units), docs' = docs
  PROVE  RInv'
<1>1. RowsTyped /\ \A e \in Docs : Moves(e)
  BY DEF RInv
<1>2. m \in Sources /\ m \notin Docs
  BY ConstantsAssumption DEF Sources
<1>3. \A r \in Inserted(m, sign, bulk, units) : r \in Row /\ r.src = m /\ r.at = NextAt
  BY <1>1, <1>2, InsertedRows
<1>4. RowsTyped' /\ \A e \in Docs : RowsOf(e)' = RowsOf(e)
  BY <1>1, <1>2, <1>3, RowsInserted, RowsOfSource
<1>5. \A e \in Docs : Moves(e)'
  BY <1>1, <1>4, MovesStays
<1> QED
  BY <1>4, <1>5 DEF RInv

\* No rows come in, and documents are created, edited or deleted at most.
LEMMA QuietRInv ==
  ASSUME RInv, rows' \subseteq rows,
         \A e \in Docs : \/ docs'[e].status = docs[e].status
                         \/ docs[e].status = "absent" /\ docs'[e].status = "draft"
                         \/ docs'[e].status = "deleted"
  PROVE  RInv'
<1>1. \A e \in Docs : RowsOf(e)' \subseteq RowsOf(e)
  BY DEF RowsOf
<1>2. \A e \in Docs : Moves(e)'
  BY <1>1, MovesStays DEF RInv
<1> QED
  BY <1>2, RowsRemoved DEF RInv

\* Every step keeps the invariant of the rows.
LEMMA NextRInv == IInv /\ RInv /\ [Next]_vars => RInv'
<1> SUFFICES ASSUME IInv, RInv, [Next]_vars PROVE RInv'
  OBVIOUS
<1>typed. Typed
  BY DEF IInv
<1>1. CASE UNCHANGED vars
  BY <1>1, QuietRInv DEF vars
<1>2. ASSUME NEW d \in Docs, NEW l \in LineChoices, Create(d, l) PROVE RInv'
  <2>1. \A e \in Docs : \/ docs'[e].status = docs[e].status
                        \/ docs[e].status = "absent" /\ docs'[e].status = "draft"
    BY <1>typed, <1>2 DEF Create, Typed
  <2> QED
    BY <1>2, <2>1, QuietRInv DEF Create
<1>3. ASSUME NEW d \in Docs, NEW l \in LineChoices, docs' = [docs EXCEPT ![d].lines = l], rows' = rows
      PROVE  RInv'
  <2>1. \A e \in Docs : docs'[e].status = docs[e].status
    BY <1>typed, <1>3 DEF Typed, Doc
  <2> QED
    BY <1>3, <2>1, QuietRInv
<1>4. ASSUME NEW d \in Docs, Delete(d) PROVE RInv'
  <2>1. \A e \in Docs : docs'[e].status = docs[e].status \/ docs'[e].status = "deleted"
    BY <1>typed, <1>4 DEF Delete, Typed, Doc
  <2> QED
    BY <1>4, <2>1, QuietRInv DEF Delete
<1>5. ASSUME docs' = docs, rows' = rows PROVE RInv'
  BY <1>5, QuietRInv
<1>6. CASE \E c \in Clients : req[c].op = "status" /\ UpdateStatusWrite(c, req[c])
  <2>1. PICK c \in Clients : req[c].op = "status" /\ UpdateStatusWrite(c, req[c])
    BY <1>6
  <2>2. PICK r \in Request : req[c] = r
    BY <1>typed DEF Typed
  <2> QED
    BY <2>1, <2>2, UpdateStatusWriteRInv
<1>7. CASE \E d \in Docs, l \in LineChoices : Create(d, l)
  BY <1>2, <1>7
<1>8. CASE \E d \in Deliveries, l \in LineChoices : UpdateDelivery(d, l)
  BY <1>3, <1>8 DEF UpdateDelivery, Docs
<1>9. CASE \E d \in Docs : Delete(d)
  BY <1>4, <1>9
<1>10. CASE \E c \in Clients, d \in Receipts, l \in LineChoices :
              UpdateInboundDeliveryRead(c, d, l) \/ UpdateInboundDeliveryWrite(c, d, l)
  BY <1>3, <1>5, <1>10 DEF UpdateInboundDeliveryRead, UpdateInboundDeliveryWrite, Docs
<1>11. CASE \E c \in Clients, d \in Docs, u \in SUBSET Units, v \in Valued :
              \E to \in {"shipped", "delivered", "received", "cancelled"} :
                UpdateStatusRead(c, d, to, u, v)
  BY <1>5, <1>11 DEF UpdateStatusRead
<1>12. CASE \E m \in Manuals, q \in -MaxQty..MaxQty, v \in ManualValued :
              q # 0 /\ CreateStockMovement(m, q, v)
  <2>1. PICK m \in Manuals, q \in -MaxQty..MaxQty, v \in ManualValued : CreateStockMovement(m, q, v)
    BY <1>12
  <2>2. q \in Int /\ 1 * q \in -MaxQty..MaxQty
    BY ConstantsAssumption
  <2>3. rows' = rows \cup Inserted(m, 1, q, {}) /\ docs' = docs
    BY <2>1 DEF CreateStockMovement
  <2> QED
    BY <2>2, <2>3, ManualRInv
<1>13. CASE \E c \in Clients, m \in Manuals, q \in {-1, 1}, u \in SUBSET Units, v \in ManualValued :
              CreateStockMovementRead(c, m, q, u, v)
  BY <1>5, <1>13 DEF CreateStockMovementRead
<1>14. CASE \E c \in Clients : req[c].op = "manual" /\ CreateStockMovementWrite(c, req[c])
  <2>1. PICK c \in Clients : req[c].op = "manual" /\ CreateStockMovementWrite(c, req[c])
    BY <1>14
  <2>2. req[c].src \in Manuals /\ req[c].qty \in {-1, 1} /\ req[c].units \in SUBSET Units
    BY <1>typed, <2>1 DEF Typed, Request, Idle
  <2>3. req[c].qty * 0 \in -MaxQty..MaxQty
    BY <2>2, ConstantsAssumption
  <2>4. rows' = rows \cup Inserted(req[c].src, req[c].qty, 0, req[c].units) /\ docs' = docs
    BY <2>1 DEF CreateStockMovementWrite
  <2> QED
    BY <2>2, <2>3, <2>4, ManualRInv
<1>15. CASE \E r \in rows : DeleteStockMovement(r)
  <2>1. docs' = docs /\ rows' \subseteq rows
    BY <1>15 DEF DeleteStockMovement
  <2> QED
    BY <2>1, QuietRInv
<1>16. CASE \E c \in Clients : Fail(c)
  BY <1>5, <1>16 DEF Fail
<1> QED
  BY <1>1, <1>6, <1>7, <1>8, <1>9, <1>10, <1>11, <1>12, <1>13, <1>14, <1>15, <1>16
     DEF Next, DocumentNext, ManualNext

\* The invariant of the rows holds of every reachable state.
THEOREM StockRowsInvariant == Spec => [](IInv /\ RInv)
<1>1. Init => IInv /\ RInv
  <2> SUFFICES ASSUME Init PROVE RInv
    BY InitIInv
  <2>1. RowsTyped
    BY DEF Init, RowsTyped
  <2>2. \A d \in Docs : Moves(d)
    BY DEF Init, Moves, RowsOf, Issued
  <2> QED
    BY <2>1, <2>2 DEF RInv
<1>2. IInv /\ RInv /\ [Next]_vars => (IInv /\ RInv)'
  BY NextIInv, NextRInv
<1> QED
  BY <1>1, <1>2, PTL DEF Spec

\* Every variable keeps its type, the rows with their quantities and times.
THEOREM StockTypeOK == Spec => []TypeOK
<1>1. IInv /\ RInv => TypeOK
  BY DEF IInv, RInv, Typed, RowsTyped, TypeOK
<1> QED
  BY <1>1, StockRowsInvariant, PTL

\* F48: no document moves stock twice, and none takes back what has not moved
\* before, however its status changes and deletions race.
THEOREM StockMovesOnce == Spec => []MovesOnce
<1>1. ASSUME IInv, RInv PROVE MovesOnce
  <2> SUFFICES ASSUME NEW d \in Docs, Exists(d)
               PROVE  /\ docs[d].status = "draft" => RowsOf(d) = {}
                      /\ Issued(d) => \A r \in RowsOf(d) : r.qty * Sign(d) > 0
                      /\ \A r \in RowsOf(d), x \in RowsOf(d) :
                           /\ r.qty * x.qty > 0 => r.at = x.at
                           /\ r.qty * Sign(d) > 0 /\ x.qty * Sign(d) < 0 => r.at < x.at
    BY DEF MovesOnce
  <2>1. Moves(d)
    BY <1>1 DEF RInv
  <2>2. \A r \in RowsOf(d) : r.qty \in Int
    BY <1>1 DEF RInv, RowsTyped, Row, RowsOf
  <2>3. \A r \in RowsOf(d) : /\ Forth(d, r) <=> r.qty * Sign(d) > 0
                             /\ Back(d, r) <=> r.qty * Sign(d) < 0
    <3>1. CASE d \in Deliveries
      BY <2>2, <3>1 DEF Forth, Back, Sign
    <3>2. CASE d \notin Deliveries
      BY <2>2, <3>2 DEF Forth, Back, Sign
    <3> QED
      BY <3>1, <3>2
  <2>4. \A r \in RowsOf(d), x \in RowsOf(d) :
          r.qty * x.qty > 0 => (Forth(d, r) /\ Forth(d, x)) \/ (Back(d, r) /\ Back(d, x))
    <3>1. \A a, b \in Int : a * b > 0 => (a > 0 /\ b > 0) \/ (a < 0 /\ b < 0)
      OBVIOUS
    <3> QED
      BY <2>2, <3>1 DEF Forth, Back
  <2>5. \A r \in RowsOf(d), x \in RowsOf(d) :
          /\ Forth(d, r) /\ Forth(d, x) => r.at = x.at
          /\ Back(d, r) /\ Back(d, x) => r.at = x.at
          /\ Forth(d, r) /\ Back(d, x) => r.at < x.at
    <3>1. CASE docs[d].status = "draft"
      BY <2>1, <3>1 DEF Moves
    <3>2. CASE Issued(d)
      <4>1. \A r \in RowsOf(d) : Forth(d, r) /\ ~Back(d, r) /\ \A x \in RowsOf(d) : r.at = x.at
        BY <2>1, <2>2, <3>2 DEF Moves, Forth, Back
      <4> QED
        BY <4>1
    <3>3. CASE docs[d].status = "cancelled"
      BY <2>1, <3>3 DEF Moves
    <3> QED
      BY <1>1, <3>1, <3>2, <3>3 DEF IInv, Typed, Doc, Exists, Issued
  <2>6. docs[d].status = "draft" => RowsOf(d) = {}
    BY <2>1 DEF Moves
  <2>7. Issued(d) => \A r \in RowsOf(d) : r.qty * Sign(d) > 0
    BY <2>1, <2>3 DEF Moves
  <2> HIDE DEF Forth, Back
  <2> QED
    BY <2>3, <2>4, <2>5, <2>6, <2>7
<1> QED
  BY <1>1, StockRowsInvariant, PTL

-----------------------------------------------------------------------------
(* Requests one at a time. The lines a status change read are then those   *)
(* its document still has when it writes, so what is undone is what was    *)
(* done, and the books are told of both.                                   *)

OneAtATime == \A c, e \in Clients : c = e

\* What a set of rows adds up to, with the function that sums its subsets.
Quantity(S) == MapThenSumSet(LAMBDA r : r.qty, S)
Qty(r) == r.qty
First(s) == CHOOSE r \in s : TRUE
Sums(S, g) ==
  g = [s \in SUBSET S |-> IF s = {} THEN 0 ELSE Qty(First(s)) + g[s \ {First(s)}]]

\* A sum is the value of such a function.
LEMMA QuantityDef == ASSUME NEW S PROVE Quantity(S) = (CHOOSE g : Sums(S, g))[S]
  BY DEF Quantity, MapThenSumSet, MapThenFoldSet, Sums, First, Qty

\* The function at a set is a row of it and the rest.
LEMMA SumsAt ==
  ASSUME NEW S, NEW g, Sums(S, g), NEW s \in SUBSET S
  PROVE  g[s] = IF s = {} THEN 0 ELSE Qty(First(s)) + g[s \ {First(s)}]
<1> DEFINE G(t) == IF t = {} THEN 0 ELSE Qty(First(t)) + g[t \ {First(t)}]
<1>1. g = [t \in SUBSET S |-> G(t)]
  BY DEF Sums
<1> HIDE DEF G
<1>2. g[s] = G(s)
  BY <1>1
<1> QED
  BY <1>2 DEF G

\* No rows add up to nothing, two to both.
LEMMA NoQuantity == Quantity({}) = 0
<1> DEFINE g == [s \in SUBSET {} |-> 0]
<1>1. Sums({}, g)
  <2>1. \A s \in SUBSET {} : s = {}
    OBVIOUS
  <2> QED
    BY <2>1 DEF Sums
<1>2. Sums({}, CHOOSE h : Sums({}, h))
  BY <1>1
<1> QED
  BY <1>2, QuantityDef, SumsAt

LEMMA PairQuantity ==
  ASSUME NEW x, NEW y, x # y, Qty(x) \in Int, Qty(y) \in Int
  PROVE  Quantity({x, y}) = Qty(x) + Qty(y)
<1>0. Qty(x) + 0 = Qty(x) /\ Qty(y) + 0 = Qty(y) /\ Qty(y) + Qty(x) = Qty(x) + Qty(y)
  OBVIOUS
<1> DEFINE S == {x, y}
           OneX == {x}
           OneY == {y}
<1>1. OneX # {} /\ OneY # {} /\ OneX # OneY /\ S # {} /\ S # OneX /\ S # OneY
  <2>1. OneX # {} /\ OneY # {} /\ OneX # OneY
    OBVIOUS
  <2>2. x \in S /\ y \in S /\ y \notin OneX /\ x \notin OneY
    OBVIOUS
  <2> QED
    BY <2>1, <2>2
<1>2. OneX \in SUBSET S /\ OneY \in SUBSET S /\ S \in SUBSET S /\ {} \in SUBSET S
  OBVIOUS
<1>3. S \ {x} = OneY /\ S \ {y} = OneX
  OBVIOUS
<1>4. OneX \ {x} = {} /\ OneY \ {y} = {}
  OBVIOUS
<1>5. ASSUME NEW s \in SUBSET S PROVE s = {} \/ s = OneX \/ s = OneY \/ s = S
  <2>1. CASE x \in s /\ y \in s
    BY <2>1
  <2>2. CASE x \in s /\ y \notin s
    BY <2>2
  <2>3. CASE x \notin s /\ y \in s
    BY <2>3
  <2>4. CASE x \notin s /\ y \notin s
    BY <2>4
  <2> QED
    BY <2>1, <2>2, <2>3, <2>4
<1>6. First(OneX) = x /\ First(OneY) = y
  BY DEF First
<1>7. First(S) = x \/ First(S) = y
  BY DEF First
<1> HIDE DEF S, OneX, OneY
<1> DEFINE v(s) == IF s = {} THEN 0 ELSE IF s = OneX THEN Qty(x) ELSE IF s = OneY THEN Qty(y)
                   ELSE Qty(x) + Qty(y)
           g == [s \in SUBSET S |-> v(s)]
<1>8. g[{}] = 0 /\ g[OneX] = Qty(x) /\ g[OneY] = Qty(y) /\ g[S] = Qty(x) + Qty(y)
  BY <1>1, <1>2
<1>9. g = [s \in SUBSET S |-> g[s]]
  OBVIOUS
<1> HIDE DEF g
<1> DEFINE G(s) == IF s = {} THEN 0 ELSE Qty(First(s)) + g[s \ {First(s)}]
<1>10. ASSUME NEW s \in SUBSET S PROVE g[s] = G(s)
  <2>1. g[{}] = G({})
    BY <1>8
  <2>2. g[OneX] = G(OneX)
    BY <1>0, <1>1, <1>4, <1>6, <1>8
  <2>3. g[OneY] = G(OneY)
    BY <1>0, <1>1, <1>4, <1>6, <1>8
  <2>4. g[S] = G(S)
    <3>1. CASE First(S) = x
      BY <1>0, <1>1, <1>3, <1>8, <3>1
    <3>2. CASE First(S) = y
      BY <1>0, <1>1, <1>3, <1>8, <3>2
    <3> QED
      BY <1>7, <3>1, <3>2
  <2> HIDE DEF G
  <2> QED
    BY <1>5, <2>1, <2>2, <2>3, <2>4
<1>11. Sums(S, g)
  <2> HIDE DEF G
  <2>1. g = [s \in SUBSET S |-> G(s)]
    BY <1>9, <1>10
  <2> QED
    BY <2>1 DEF Sums, G
<1> DEFINE h == CHOOSE f : Sums(S, f)
<1>12. Sums(S, h)
  BY <1>11
<1>13. Quantity(S) = h[S]
  BY QuantityDef
<1> HIDE DEF h
<1>14. h[{}] = 0
  BY <1>2, <1>12, SumsAt
<1>15. h[OneX] = Qty(x) + h[{}]
  BY <1>1, <1>2, <1>4, <1>6, <1>12, SumsAt
<1>16. h[OneY] = Qty(y) + h[{}]
  BY <1>1, <1>2, <1>4, <1>6, <1>12, SumsAt
<1>17. h[S] = Qty(First(S)) + h[S \ {First(S)}]
  BY <1>1, <1>2, <1>12, SumsAt
<1>18. h[S] = Qty(x) + Qty(y)
  <2>1. CASE First(S) = x
    BY <1>0, <1>3, <1>14, <1>16, <1>17, <2>1
  <2>2. CASE First(S) = y
    BY <1>0, <1>3, <1>14, <1>15, <1>17, <2>2
  <2> QED
    BY <1>7, <2>1, <2>2
<1> QED
  BY <1>13, <1>18 DEF S

\* The rows one issue of a document inserts: its bulk lines and its units.
Lot(n, d, bulk, units) ==
  {[at |-> n, src |-> d, item |-> Bulk, qty |-> Sign(d) * b] : b \in {bulk} \ {0}}
    \cup {[at |-> n, src |-> d, item |-> u, qty |-> Sign(d)] : u \in units}

\* An issued document's rows are one lot of the lines it has.
OneLot(d) ==
  \E n \in Nat, units \in SUBSET Units :
    Cardinality(units) = docs[d].lines.count /\ RowsOf(d) = Lot(n, d, docs[d].lines.bulk, units)

\* What holds of a document when no two requests overlap.
Straight(d) ==
  /\ docs[d].lines \in LineChoices \cup {NoLines}
  /\ Issued(d) => OneLot(d)
  /\ Issued(d) /\ Valued = {TRUE} => (d \in entry <=> RowsOf(d) # {})
  /\ docs[d].status = "cancelled" => NetsToZero(d)

\* And of a request: what it read is still so.
UpToDate(r) ==
  /\ r.op = "edit" => docs[r.doc].status = "draft" /\ r.lines \in LineChoices
  /\ r.op = "status" =>
       /\ docs[r.doc].status = r.from /\ docs[r.doc].lines = r.lines
       /\ Issues(r.doc, r.to) => Cardinality(r.units) = r.lines.count
       /\ Issues(r.doc, r.to) /\ Valued = {TRUE} => (r.posts <=> r.lines # NoLines)
       /\ Undoes(r.doc, r.from, r.to) => (r.posts <=> r.doc \in entry)
       /\ r.posts => Issues(r.doc, r.to) \/ Undoes(r.doc, r.from, r.to)

\* The inductive invariant, beside IInv and RInv.
AInv == (\A d \in Docs : Straight(d)) /\ (\A c \in Clients : UpToDate(req[c]))

\* Two sets of rows that mirror each other net to zero, as no rows do.
Netted(R) ==
  /\ Quantity({r \in R : r.item = Bulk}) = 0
  /\ {r.item : r \in {x \in R : x.item # Bulk /\ x.qty = 1}}
       = {r.item : r \in {x \in R : x.item # Bulk /\ x.qty = -1}}

NettedIsIt == \A d \in Docs : NetsToZero(d) <=> Netted(RowsOf(d))

LEMMA NetsToZeroIsNetted == NettedIsIt
  BY DEF NettedIsIt, NetsToZero, Netted, Quantity, UnitsMoved

LEMMA NetsToZeroIsNettedNext ==
  ASSUME NEW d \in Docs PROVE NetsToZero(d)' <=> Netted(RowsOf(d)')
<1>1. NettedIsIt'
  BY NetsToZeroIsNetted, PTL
<1> QED
  BY <1>1 DEF NettedIsIt, Netted

LEMMA NothingNets == Netted({})
<1>1. {r \in {} : r.item = Bulk} = {}
  OBVIOUS
<1> QED
  BY <1>1, NoQuantity DEF Netted

\* A document whose rows stay, or which is not issued or cancelled any more.
LEMMA StraightStays ==
  ASSUME NEW d \in Docs, Straight(d), docs'[d].lines \in LineChoices \cup {NoLines},
         Issued(d)' => Issued(d) /\ docs'[d].lines = docs[d].lines,
         docs'[d].status = "cancelled" => docs[d].status = "cancelled",
         Issued(d)' \/ docs'[d].status = "cancelled" => RowsOf(d)' = RowsOf(d),
         d \in entry' <=> d \in entry
  PROVE  Straight(d)'
<1>1. Issued(d)' => OneLot(d)'
  <2> SUFFICES ASSUME Issued(d)' PROVE OneLot(d)'
    OBVIOUS
  <2>1. OneLot(d) /\ RowsOf(d)' = RowsOf(d) /\ docs'[d].lines = docs[d].lines
    BY DEF Straight
  <2> QED
    BY <2>1 DEF OneLot, Lot, Sign
<1>2. docs'[d].status = "cancelled" => NetsToZero(d)'
  BY NetsToZeroIsNetted, NetsToZeroIsNettedNext DEF Straight, NettedIsIt
<1> QED
  BY <1>1, <1>2 DEF Straight

\* With one request at a time, who is at work is alone.
LEMMA AtOnceAlone ==
  ASSUME OneAtATime, AtOnce PROVE \A c \in Clients : req'[c] = Idle
  BY DEF OneAtATime, AtOnce

LEMMA ResumeAlone ==
  ASSUME OneAtATime, Typed, NEW c \in Clients, req' = [req EXCEPT ![c] = Idle]
  PROVE  \A e \in Clients : req'[e] = Idle
  BY DEF OneAtATime, Typed

LEMMA ParkAlone ==
  ASSUME OneAtATime, Typed, NEW c \in Clients, NEW r, req' = [req EXCEPT ![c] = r]
  PROVE  \A e \in Clients : req'[e] = r
  BY DEF OneAtATime, Typed

LEMMA IdleAInv ==
  ASSUME \A c \in Clients : req'[c] = Idle, \A d \in Docs : Straight(d)'
  PROVE  AInv'
<1>1. Idle.op = "idle"
  BY DEF Idle
<1>2. \A c \in Clients : UpToDate(req[c])'
  BY <1>1 DEF UpToDate
<1> QED
  BY <1>2 DEF AInv

\* A request that reads leaves documents, rows and entries alone.
LEMMA ReadAInv ==
  ASSUME AInv, OneAtATime, Typed, docs' = docs, rows' = rows, entry' = entry,
         NEW c \in Clients, NEW r \in Request, req' = [req EXCEPT ![c] = r], UpToDate(r)
  PROVE  AInv'
<1>1. \A d \in Docs : Straight(d)'
  BY StraightStays DEF AInv, Straight, Issued, RowsOf
<1>2. \A e \in Clients : req'[e] = r
  BY ParkAlone
<1>3. \A e \in Clients : UpToDate(req[e])'
  <2> SUFFICES ASSUME NEW e \in Clients PROVE UpToDate(req[e])'
    OBVIOUS
  <2>1. req'[e] = r
    BY <1>2
  <2>2. req'[e].op = "edit" =>
          docs'[req'[e].doc].status = "draft" /\ req'[e].lines \in LineChoices
    BY <2>1 DEF UpToDate
  <2>3. ASSUME req'[e].op = "status"
        PROVE  /\ docs'[req'[e].doc].status = req'[e].from
               /\ docs'[req'[e].doc].lines = req'[e].lines
               /\ Issues(req'[e].doc, req'[e].to) =>
                    Cardinality(req'[e].units) = req'[e].lines.count
    BY <2>1, <2>3 DEF UpToDate
  <2>4. ASSUME req'[e].op = "status" PROVE req'[e].posts \in BOOLEAN
    BY <2>1, <2>4 DEF Request, Idle
  <2>5. ASSUME req'[e].op = "status", Issues(req'[e].doc, req'[e].to), Valued = {TRUE}
        PROVE  req'[e].posts <=> req'[e].lines # NoLines
    BY <2>1, <2>4, <2>5 DEF UpToDate
  <2>6. ASSUME req'[e].op = "status", Undoes(req'[e].doc, req'[e].from, req'[e].to)
        PROVE  req'[e].posts <=> req'[e].doc \in entry'
    BY <2>1, <2>4, <2>6 DEF UpToDate
  <2>7. ASSUME req'[e].op = "status", req'[e].posts
        PROVE  Issues(req'[e].doc, req'[e].to) \/ Undoes(req'[e].doc, req'[e].from, req'[e].to)
    BY <2>1, <2>4, <2>7 DEF UpToDate
  <2> QED
    BY <2>2, <2>3, <2>5, <2>6, <2>7 DEF UpToDate, Issues, Undoes, Go
<1> QED
  BY <1>1, <1>3 DEF AInv

\* A lot has rows exactly if the document has lines.
LEMMA LotOfLines ==
  ASSUME NEW lines \in LineChoices \cup {NoLines}, NEW units \in SUBSET Units,
         Cardinality(units) = lines.count, NEW n, NEW d
  PROVE  (Lot(n, d, lines.bulk, units) # {} <=> lines # NoLines)
<1>1. IsFiniteSet(units) /\ (lines.count = 0 <=> units = {})
  BY ConstantsAssumption, FS_Subset, FS_EmptySet
<1>2. CASE lines = NoLines
  <2>1. units = {} /\ lines.bulk = 0
    BY <1>1, <1>2 DEF NoLines
  <2> QED
    BY <1>2, <2>1 DEF Lot
<1>3. CASE lines # NoLines
  <2>1. lines \in Lines /\ lines.largest <= lines.bulk
    BY <1>3, ConstantsAssumption
  <2>2. lines.bulk # 0 \/ lines.count # 0
    <3>1. lines = [bulk |-> lines.bulk, largest |-> lines.largest, count |-> lines.count]
      BY <2>1 DEF Lines
    <3>2. lines.bulk = 0 => lines.largest = 0
      BY <2>1, ConstantsAssumption DEF Lines
    <3> QED
      BY <1>3, <3>1, <3>2 DEF NoLines
  <2>3. lines.bulk # 0 => Lot(n, d, lines.bulk, units) # {}
    BY DEF Lot
  <2>4. units # {} => Lot(n, d, lines.bulk, units) # {}
    BY DEF Lot
  <2> QED
    BY <1>1, <1>3, <2>2, <2>3, <2>4
<1> QED
  BY <1>2, <1>3

\* The same of what a request read.
LEMMA LotOfRequest ==
  ASSUME NEW r, NEW n, NEW e, r.lines \in LineChoices \cup {NoLines}, r.units \in SUBSET Units,
         Cardinality(r.units) = r.lines.count
  PROVE  Lot(n, e, r.lines.bulk, r.units) # {} <=> r.lines # NoLines
<1>1. PICK lines \in LineChoices \cup {NoLines}, units \in SUBSET Units :
        lines = r.lines /\ units = r.units /\ Cardinality(units) = lines.count
  OBVIOUS
<1>2. (Lot(n, e, lines.bulk, units) # {}) <=> (lines # NoLines)
  BY <1>1, LotOfLines
<1> QED
  BY <1>1, <1>2

\* What a status change inserts is a lot, and its mirror when it is undone.
LEMMA InsertedIsLot ==
  ASSUME NEW d, NEW bulk, NEW units
  PROVE  Inserted(d, Sign(d), bulk, units) = Lot(NextAt, d, bulk, units)
  BY DEF Inserted, Lot

\* The units of a lot, all in its direction.
LEMMA UnitsOfLot ==
  ASSUME NEW n, NEW d, NEW bulk, NEW units \in SUBSET Units
  PROVE  {r.item : r \in {x \in Lot(n, d, bulk, units) : x.item # Bulk /\ x.qty = Sign(d)}} = units
<1> DEFINE T == {x \in Lot(n, d, bulk, units) : x.item # Bulk /\ x.qty = Sign(d)}
           row(u) == [at |-> n, src |-> d, item |-> u, qty |-> Sign(d)]
<1>1. ASSUME NEW u \in units PROVE row(u) \in T
  BY ConstantsAssumption DEF Lot
<1>2. ASSUME NEW x \in T PROVE x.item \in units
  BY <1>2 DEF Lot
<1>3. \A u \in units : row(u).item = u
  OBVIOUS
<1> HIDE DEF T, row
<1>4. {r.item : r \in T} = units
  BY <1>1, <1>2, <1>3
<1> QED
  BY <1>4 DEF T

\* A lot and its mirror.
LEMMA MirrorNets ==
  ASSUME NEW d \in Docs, NEW n \in Nat, NEW k \in Nat, NEW bulk \in 0..MaxQty,
         NEW units \in SUBSET Units
  PROVE  Netted(Lot(n, d, bulk, units) \cup
           ({[at |-> k, src |-> d, item |-> Bulk, qty |-> (-Sign(d)) * b] : b \in {bulk} \ {0}}
              \cup {[at |-> k, src |-> d, item |-> u, qty |-> -Sign(d)] : u \in units}))
<1> DEFINE back == {[at |-> k, src |-> d, item |-> Bulk, qty |-> (-Sign(d)) * b] : b \in {bulk} \ {0}}
                     \cup {[at |-> k, src |-> d, item |-> u, qty |-> -Sign(d)] : u \in units}
           R == Lot(n, d, bulk, units) \cup back
           x == [at |-> n, src |-> d, item |-> Bulk, qty |-> Sign(d) * bulk]
           y == [at |-> k, src |-> d, item |-> Bulk, qty |-> (-Sign(d)) * bulk]
           there(u) == [at |-> n, src |-> d, item |-> u, qty |-> Sign(d)]
           again(u) == [at |-> k, src |-> d, item |-> u, qty |-> -Sign(d)]
<1>1. Bulk \notin units /\ bulk \in Nat
  BY ConstantsAssumption
<1>2. \/ Sign(d) = 1 /\ -Sign(d) = -1
      \/ Sign(d) = -1 /\ -Sign(d) = 1
  <2>1. CASE d \in Deliveries
    <3>1. Sign(d) = -1
      BY <2>1 DEF Sign
    <3>2. Sign(d) \in {-1, 1}
      BY <3>1
    <3> QED
      BY <3>1, <3>2, Opposite
  <2>2. CASE d \notin Deliveries
    BY <2>2 DEF Sign
  <2> QED
    BY <2>1, <2>2
<1>3. ASSUME NEW r PROVE r \in R <=> \/ bulk # 0 /\ (r = x \/ r = y)
                                     \/ \E u \in units : r = there(u) \/ r = again(u)
  BY DEF Lot
<1>4. x.item = Bulk /\ y.item = Bulk /\ \A u \in units : there(u).item = u /\ again(u).item = u
  OBVIOUS
<1>5. \A u \in units : there(u).qty = Sign(d) /\ again(u).qty = -Sign(d)
  OBVIOUS
<1>6. x.qty = Sign(d) * bulk /\ y.qty = (-Sign(d)) * bulk
  OBVIOUS
<1> HIDE DEF R, x, y, there, again
<1>7. Quantity({r \in R : r.item = Bulk}) = 0
  <2>1. CASE bulk = 0
    <3>1. {r \in R : r.item = Bulk} = {}
      BY <1>1, <1>3, <1>4, <2>1
    <3> QED
      BY <3>1, NoQuantity
  <2>2. CASE bulk # 0
    <3>1. {r \in R : r.item = Bulk} = {x, y}
      BY <1>1, <1>3, <1>4, <2>2
    <3>2. x.qty \in Int /\ y.qty \in Int /\ x.qty + y.qty = 0 /\ x.qty # y.qty
      BY <1>1, <1>2, <1>6, <2>2
    <3>3. Qty(x) \in Int /\ Qty(y) \in Int /\ Qty(x) + Qty(y) = 0 /\ x # y
      BY <3>2 DEF Qty
    <3> QED
      BY <3>1, <3>3, PairQuantity
  <2> QED
    BY <2>1, <2>2
<1>8. \A s \in {1, -1} : {r.item : r \in {z \in R : z.item # Bulk /\ z.qty = s}} = units
  <2> SUFFICES ASSUME NEW s \in {1, -1}
               PROVE  {r.item : r \in {z \in R : z.item # Bulk /\ z.qty = s}} = units
    OBVIOUS
  <2> DEFINE T == {z \in R : z.item # Bulk /\ z.qty = s}
  <2>1. ASSUME NEW u \in units PROVE \E z \in T : z.item = u
    BY <1>1, <1>2, <1>3, <1>4, <1>5
  <2>2. ASSUME NEW z \in T PROVE z.item \in units
    BY <1>3, <1>4
  <2> HIDE DEF T
  <2>3. {r.item : r \in T} = units
    BY <2>1, <2>2
  <2> QED
    BY <2>3 DEF T
<1>9. Netted(R)
  BY <1>7, <1>8 DEF Netted
<1> QED
  BY <1>9 DEF R

\* A draft is issued: its rows become one lot of the lines it has, and the
\* entry is posted if there are any.
LEMMA IssueStraight ==
  ASSUME IInv, RInv, AInv, NEW c \in Clients, NEW r \in Request, req[c] = r, r.op = "status",
         UpdateStatusWrite(c, r), Issues(r.doc, r.to), docs[r.doc].status = "draft",
         docs'[r.doc].status = r.to, docs'[r.doc].lines = docs[r.doc].lines,
         RowsOf(r.doc)' = RowsOf(r.doc) \cup Moved(r)
  PROVE  Straight(r.doc)'
<1> DEFINE d == r.doc
<1>1. d \in Docs /\ r.units \in SUBSET Units /\ r.posts \in BOOLEAN
  BY DEF Request, Idle
<1>2. /\ Straight(d) /\ Moves(d) /\ r.lines = docs[d].lines
      /\ Cardinality(r.units) = r.lines.count
      /\ Valued = {TRUE} => (r.posts <=> r.lines # NoLines)
  <2>1. UpToDate(r)
    BY DEF AInv
  <2>2. Straight(d) /\ Moves(d)
    BY <1>1 DEF AInv, RInv
  <2>3. Valued = {TRUE} => (r.posts <=> r.lines # NoLines)
    BY <1>1, <2>1 DEF UpToDate
  <2> QED
    BY <2>1, <2>2, <2>3 DEF UpToDate
<1>3. Moved(r) = Lot(NextAt, d, r.lines.bulk, r.units)
  <2>1. ~Undoes(d, r.from, r.to)
    BY DEF Issues, Undoes, Go
  <2> QED
    BY <2>1, InsertedIsLot DEF Moved
<1>4. RowsOf(d)' = Lot(NextAt, d, docs'[d].lines.bulk, r.units)
  BY <1>2, <1>3 DEF Moves
<1>5. NextAt \in Nat
  BY NextAtIsLast DEF RInv
<1>6. OneLot(d)'
  <2>1. Cardinality(r.units) = docs'[d].lines.count
    BY <1>2
  <2> QED
    BY <1>1, <1>4, <1>5, <2>1 DEF OneLot, Lot, Sign
<1>7. d \notin entry
  BY <1>1 DEF IInv, EntryFollowsStatus, Issued
<1>8. d \in entry' <=> r.posts
  BY <1>1, <1>7 DEF UpdateStatusWrite, Booked
<1>9. docs'[d].lines \in LineChoices \cup {NoLines}
  BY <1>2 DEF Straight
<1>10. Valued = {TRUE} => (d \in entry' <=> RowsOf(d)' # {})
  <2>1. RowsOf(d)' # {} <=> r.lines # NoLines
    <3>1. r.lines \in LineChoices \cup {NoLines} /\ RowsOf(d)' = Lot(NextAt, d, r.lines.bulk, r.units)
      BY <1>2, <1>4, <1>9
    <3>2. Cardinality(r.units) = r.lines.count /\ r.units \in SUBSET Units
      BY <1>1, <1>2
    <3> QED
      BY <3>1, <3>2, LotOfRequest
  <2> QED
    BY <1>1, <1>2, <1>8, <2>1
<1>11. docs'[d].status # "cancelled"
  BY DEF Issues, Go
<1> QED
  BY <1>6, <1>9, <1>10, <1>11 DEF Straight

\* An issued document is undone: the mirror of its lot comes in.
LEMMA UndoStraight ==
  ASSUME IInv, RInv, AInv, NEW c \in Clients, NEW r \in Request, req[c] = r, r.op = "status",
         UpdateStatusWrite(c, r), Undoes(r.doc, r.from, r.to), docs[r.doc].status = r.from,
         docs'[r.doc].status = r.to, docs'[r.doc].lines = docs[r.doc].lines,
         RowsOf(r.doc)' = RowsOf(r.doc) \cup Moved(r)
  PROVE  Straight(r.doc)'
<1> DEFINE d == r.doc
<1>1. d \in Docs /\ r.units \in SUBSET Units /\ r.posts \in BOOLEAN
  BY DEF Request, Idle
<1>2. Straight(d) /\ r.lines = docs[d].lines /\ Issued(d)
  <2>1. UpToDate(r)
    BY DEF AInv
  <2>2. Straight(d)
    BY <1>1 DEF AInv
  <2> QED
    BY <2>1, <2>2 DEF UpToDate, Undoes, Go, Issued
<1>3. PICK n \in Nat, units \in SUBSET Units :
        Cardinality(units) = r.lines.count /\ RowsOf(d) = Lot(n, d, r.lines.bulk, units)
  BY <1>2 DEF Straight, OneLot
<1>4. (IF r.lines.count > 0 THEN UnitsMoved(d, Sign(d)) ELSE {}) = units
  <2>1. UnitsMoved(d, Sign(d)) = units
    BY <1>3, UnitsOfLot DEF UnitsMoved
  <2>2. IsFiniteSet(units) /\ (Cardinality(units) = 0 <=> units = {})
    BY ConstantsAssumption, FS_Subset, FS_EmptySet
  <2>3. Cardinality(units) \in Nat
    BY <2>2, FS_CardinalityType
  <2> QED
    BY <1>3, <2>1, <2>2, <2>3
<1>5. Moved(r) = Inserted(d, -Sign(d), r.lines.bulk, units)
  <2>1. ~Issues(d, r.to)
    BY DEF Issues, Undoes, Go
  <2> QED
    BY <1>4, <2>1 DEF Moved
<1>6. NextAt \in Nat
  BY NextAtIsLast DEF RInv
<1>7. docs[d].lines \in LineChoices \cup {NoLines}
  BY <1>2 DEF Straight
<1>8. r.lines.bulk \in 0..MaxQty
  <2>1. NoLines.bulk = 0 /\ MaxQty \in Nat
    BY ConstantsAssumption DEF NoLines
  <2>2. \A l \in LineChoices : l.bulk \in 0..MaxQty
    BY ConstantsAssumption DEF Lines
  <2> QED
    BY <1>2, <1>7, <2>1, <2>2
<1>9. Netted(RowsOf(d)')
  BY <1>1, <1>3, <1>5, <1>6, <1>8, MirrorNets DEF Inserted
<1>10. NetsToZero(d)'
  BY <1>1, <1>9, NetsToZeroIsNettedNext
<1>11. ~Issued(d)'
  BY DEF Undoes, Issued
<1> QED
  BY <1>7, <1>10, <1>11 DEF Straight

\* Every status change, request after request.
LEMMA UpdateStatusWriteAInv ==
  ASSUME OneAtATime, IInv, RInv, AInv, NEW c \in Clients, NEW r \in Request, req[c] = r,
         r.op = "status", UpdateStatusWrite(c, r)
  PROVE  AInv'
<1> DEFINE d == r.doc
<1>1. /\ d \in Docs /\ r.lines \in Lines /\ r.units \in SUBSET Units /\ r.posts \in BOOLEAN
      /\ r.to \in {"shipped", "delivered", "received", "cancelled"}
  BY DEF Request, Idle
<1>2. Transition(d, docs[d].status, r.to) /\ docs[d].status = r.from
  BY DEF UpdateStatusWrite, IInv, ParkedIsLegal
<1>3. /\ docs'[d].status = r.to /\ docs'[d].lines = docs[d].lines
      /\ \A e \in Docs : e # d => docs'[e] = docs[e]
  BY <1>1 DEF UpdateStatusWrite, IInv, Typed, Doc
<1>4. \A x \in Moved(r) : x.src = d
  <2>1. \A sign, bulk, units : \A x \in Inserted(d, sign, bulk, units) : x.src = d
    BY DEF Inserted
  <2>2. CASE Issues(d, r.to)
    <3>1. Moved(r) = Inserted(d, Sign(d), r.lines.bulk, r.units)
      <4>1. r.to # "cancelled"
        BY <2>2 DEF Issues, Go
      <4> QED
        BY <2>2, <4>1 DEF Moved, Undoes
    <3> QED
      BY <2>1, <3>1
  <2>3. CASE ~Issues(d, r.to) /\ Undoes(d, r.from, r.to)
    <3> DEFINE units == IF r.lines.count > 0 THEN UnitsMoved(d, Sign(d)) ELSE {}
    <3>1. Moved(r) = Inserted(d, -Sign(d), r.lines.bulk, units)
      BY <2>3 DEF Moved
    <3> HIDE DEF units
    <3> QED
      BY <2>1, <3>1
  <2>4. CASE ~Issues(d, r.to) /\ ~Undoes(d, r.from, r.to)
    BY <2>4 DEF Moved
  <2> QED
    BY <2>2, <2>3, <2>4
<1>5. RowsOf(d)' = RowsOf(d) \cup Moved(r) /\ \A e \in Docs \ {d} : RowsOf(e)' = RowsOf(e)
  BY <1>4, RowsOfSource DEF UpdateStatusWrite
<1>6. \A e \in Docs \ {d} : e \in entry' <=> e \in entry
  BY DEF UpdateStatusWrite, Booked
<1>7. \A e \in Docs \ {d} : Straight(e)'
  <2> SUFFICES ASSUME NEW e \in Docs \ {d} PROVE Straight(e)'
    OBVIOUS
  <2>1. Straight(e) /\ docs'[e] = docs[e]
    BY <1>3 DEF AInv
  <2>2. Issued(e)' => Issued(e)
    BY <2>1 DEF Issued
  <2> QED
    BY <1>5, <1>6, <2>1, <2>2, StraightStays DEF Straight
<1>8. Straight(d)'
  <2>1. CASE Issues(d, r.to)
    <3>1. docs[d].status = "draft"
      BY <1>2, <2>1 DEF Issues, Transition, Go
    <3> QED
      BY <1>3, <1>5, <2>1, <3>1, IssueStraight
  <2>2. CASE Undoes(d, r.from, r.to)
    BY <1>2, <1>3, <1>5, <2>2, UndoStraight
  <2>3. CASE ~Issues(d, r.to) /\ ~Undoes(d, r.from, r.to)
    <3>1. RowsOf(d)' = RowsOf(d)
      BY <1>5, <2>3 DEF Moved
    <3>2. Straight(d)
      BY <1>1 DEF AInv
    <3>3. entry' = entry
      <4>1. ~r.posts
        BY <2>3 DEF AInv, UpToDate
      <4> QED
        BY <4>1 DEF UpdateStatusWrite, Booked
    <3>4. \/ docs[d].status = "draft" /\ r.to = "cancelled"
          \/ docs[d].status = "shipped" /\ r.to = "delivered"
      BY <1>2, <2>3 DEF Transition, Issues, Undoes
    <3>5. CASE docs[d].status = "draft" /\ r.to = "cancelled"
      <4>1. RowsOf(d)' = {}
        BY <1>1, <3>1, <3>5 DEF RInv, Moves
      <4>2. NetsToZero(d)'
        BY <1>1, <4>1, NothingNets, NetsToZeroIsNettedNext
      <4>3. ~Issued(d)'
        BY <1>3, <3>5 DEF Issued
      <4> QED
        BY <1>3, <3>2, <4>2, <4>3 DEF Straight
    <3>6. CASE docs[d].status = "shipped" /\ r.to = "delivered"
      <4>1. Issued(d)
        BY <3>6 DEF Issued
      <4> QED
        BY <1>1, <1>3, <3>1, <3>2, <3>3, <3>6, <4>1, StraightStays DEF Straight
    <3> QED
      BY <3>4, <3>5, <3>6
  <2> QED
    BY <2>1, <2>2, <2>3
<1>9. \A e \in Clients : req'[e] = Idle
  BY ResumeAlone DEF UpdateStatusWrite, Resume, IInv
<1> QED
  BY <1>7, <1>8, <1>9, IdleAInv

\* A document is created, edited or deleted, or movements by hand come and go.
LEMMA QuietAInv ==
  ASSUME AInv, \A c \in Clients : req'[c] = Idle,
         \A d \in Docs :
           /\ docs'[d].lines \in LineChoices \cup {NoLines}
           /\ Issued(d)' => Issued(d) /\ docs'[d].lines = docs[d].lines
           /\ docs'[d].status = "cancelled" => docs[d].status = "cancelled"
           /\ Issued(d)' \/ docs'[d].status = "cancelled" => RowsOf(d)' = RowsOf(d)
           /\ d \in entry' <=> d \in entry
  PROVE  AInv'
<1>1. \A d \in Docs : Straight(d)'
  BY StraightStays DEF AInv
<1> QED
  BY <1>1, IdleAInv

\* A status change is read: what it will rely on stays so.
LEMMA UpdateStatusReadAInv ==
  ASSUME OneAtATime, IInv, AInv, NEW c \in Clients, NEW d \in Docs, NEW u \in SUBSET Units,
         NEW v \in Valued, NEW to \in {"shipped", "delivered", "received", "cancelled"},
         UpdateStatusRead(c, d, to, u, v)
  PROVE  AInv'
<1> DEFINE p == \/ Issues(d, to) /\ v /\ docs[d].lines # NoLines
                \/ Undoes(d, docs[d].status, to) /\ d \in entry
           r == [op |-> "status", doc |-> d, from |-> docs[d].status, to |-> to,
                 lines |-> docs[d].lines, units |-> u, posts |-> p]
<1>1. Transition(d, docs[d].status, to)
  BY DEF UpdateStatusRead
<1>2. docs[d].status \in {"draft", "shipped", "received"}
  BY <1>1 DEF Transition, Go
<1>3. docs[d].lines \in Lines
  BY DEF IInv, Typed, Doc
<1>4. p \in BOOLEAN /\ v \in BOOLEAN
  BY ConstantsAssumption DEF Issues, Undoes
<1>5. r \in Request
  <2> HIDE DEF p
  <2> QED
    BY <1>2, <1>3, <1>4 DEF Request
<1>6. /\ Issues(d, to) => ~Undoes(d, docs[d].status, to)
      /\ Valued = {TRUE} => v = TRUE
  BY DEF Issues, Undoes, Go
<1>7. UpToDate(r)
  <2>1. /\ r.op = "status" /\ r.doc = d /\ r.from = docs[d].status /\ r.to = to
        /\ r.lines = docs[d].lines /\ r.units = u /\ (r.posts <=> p)
    OBVIOUS
  <2>2. Issues(d, to) => Cardinality(u) = docs[d].lines.count
    BY DEF UpdateStatusRead
  <2>3. Issues(d, to) /\ Valued = {TRUE} => (p <=> docs[d].lines # NoLines)
    BY <1>6
  <2>4. Undoes(d, docs[d].status, to) => (p <=> d \in entry)
    BY <1>6
  <2>5. p => Issues(d, to) \/ Undoes(d, docs[d].status, to)
    OBVIOUS
  <2> HIDE DEF r, p
  <2> QED
    BY <2>1, <2>2, <2>3, <2>4, <2>5 DEF UpToDate
<1>8. req' = [req EXCEPT ![c] = r] /\ docs' = docs /\ rows' = rows /\ entry' = entry
  BY DEF UpdateStatusRead, Park
<1> HIDE DEF r
<1> QED
  BY <1>5, <1>7, <1>8, ReadAInv DEF IInv

\* Every step keeps the invariant, if requests come one at a time.
LEMMA NextAInv == OneAtATime /\ IInv /\ RInv /\ AInv /\ [Next]_vars => AInv'
<1> SUFFICES ASSUME OneAtATime, IInv, RInv, AInv, [Next]_vars PROVE AInv'
  OBVIOUS
<1>typed. Typed /\ \A d \in Docs : Straight(d) /\ docs[d].lines \in LineChoices \cup {NoLines}
  BY DEF IInv, AInv, Straight
<1>rows. \A new : (\A x \in new : x.src \notin Docs) /\ rows' = rows \cup new =>
           \A d \in Docs : RowsOf(d)' = RowsOf(d)
  BY DEF RowsOf
<1>manual. \A m \in Manuals : m \notin Docs
  BY ConstantsAssumption
<1>src. \A s, sign, bulk, units : \A x \in Inserted(s, sign, bulk, units) : x.src = s
  BY DEF Inserted
<1>1. CASE UNCHANGED vars
  <2>1. UNCHANGED <<docs, rows, entry, req>>
    BY <1>1 DEF vars
  <2>2. \A d \in Docs : Straight(d)'
    BY <1>typed, <2>1, StraightStays DEF Issued, RowsOf
  <2>3. CASE Clients = {}
    BY <2>2, <2>3 DEF AInv
  <2>4. CASE Clients # {}
    <3>1. PICK c \in Clients : TRUE
      BY <2>4
    <3>2. PICK r \in Request : req[c] = r
      BY <1>typed DEF Typed
    <3>3. req' = [req EXCEPT ![c] = r]
      BY <1>typed, <2>1, <3>2 DEF Typed
    <3> QED
      BY <1>typed, <2>1, <3>2, <3>3, ReadAInv DEF AInv
  <2> QED
    BY <2>3, <2>4
<1>2. ASSUME NEW d \in Docs, NEW l \in LineChoices, Create(d, l) PROVE AInv'
  <2>1. docs'[d] = [status |-> "draft", lines |-> l] /\ \A e \in Docs : e # d => docs'[e] = docs[e]
    BY <1>typed, <1>2 DEF Create, Typed
  <2>2. \A e \in Docs : RowsOf(e)' = RowsOf(e)
    BY <1>2 DEF Create, RowsOf
  <2> QED
    BY <1>typed, <1>2, <2>1, <2>2, AtOnceAlone, QuietAInv DEF Create, Issued
<1>3. ASSUME NEW d \in Docs, NEW l \in LineChoices, ~Issued(d),
             docs' = [docs EXCEPT ![d].lines = l], rows' = rows, entry' = entry,
             \A c \in Clients : req'[c] = Idle
      PROVE  AInv'
  <2>1. /\ docs'[d].lines = l /\ docs'[d].status = docs[d].status
        /\ \A e \in Docs : e # d => docs'[e] = docs[e]
    BY <1>typed, <1>3 DEF Typed, Doc
  <2>2. \A e \in Docs : RowsOf(e)' = RowsOf(e)
    BY <1>3 DEF RowsOf
  <2> QED
    BY <1>typed, <1>3, <2>1, <2>2, QuietAInv DEF Issued
<1>4. ASSUME NEW d \in Docs, Delete(d) PROVE AInv'
  <2>1. /\ docs'[d].lines = docs[d].lines /\ docs'[d].status = "deleted"
        /\ \A e \in Docs : e # d => docs'[e] = docs[e]
    BY <1>typed, <1>4 DEF Delete, Typed, Doc
  <2>2. \A e \in Docs : RowsOf(e)' = RowsOf(e)
    BY <1>4 DEF Delete, RowsOf
  <2> QED
    BY <1>typed, <1>4, <2>1, <2>2, AtOnceAlone, QuietAInv DEF Delete, Issued
<1>5. CASE \E c \in Clients, d \in Receipts, l \in LineChoices : UpdateInboundDeliveryRead(c, d, l)
  <2>1. PICK c \in Clients, d \in Receipts, l \in LineChoices : UpdateInboundDeliveryRead(c, d, l)
    BY <1>5
  <2> DEFINE r == [op |-> "edit", doc |-> d, lines |-> l]
  <2>2. r \in Request
    BY ConstantsAssumption DEF Request
  <2>3. UpToDate(r)
    BY <2>1 DEF UpdateInboundDeliveryRead, UpToDate
  <2>4. req' = [req EXCEPT ![c] = r] /\ docs' = docs /\ rows' = rows /\ entry' = entry
    BY <2>1 DEF UpdateInboundDeliveryRead, Park
  <2> HIDE DEF r
  <2> QED
    BY <1>typed, <2>2, <2>3, <2>4, ReadAInv
<1>6. CASE \E c \in Clients, d \in Receipts, l \in LineChoices : UpdateInboundDeliveryWrite(c, d, l)
  <2>1. PICK c \in Clients, d \in Receipts, l \in LineChoices : UpdateInboundDeliveryWrite(c, d, l)
    BY <1>6
  <2>2. req[c] = [op |-> "edit", doc |-> d, lines |-> l] /\ req' = [req EXCEPT ![c] = Idle]
    BY <2>1 DEF UpdateInboundDeliveryWrite, Resume
  <2>3. docs[d].status = "draft"
    <3> DEFINE r == [op |-> "edit", doc |-> d, lines |-> l]
    <3>1. UpToDate(r)
      BY <2>2 DEF AInv
    <3>2. r.op = "edit" /\ r.doc = d
      OBVIOUS
    <3> HIDE DEF r
    <3> QED
      BY <3>1, <3>2 DEF UpToDate
  <2>4. ~Issued(d) /\ d \in Docs
    BY <2>3 DEF Issued, Docs
  <2>5. \A e \in Clients : req'[e] = Idle
    BY <1>typed, <2>2, ResumeAlone
  <2> QED
    BY <1>3, <2>1, <2>4, <2>5 DEF UpdateInboundDeliveryWrite
<1>7. CASE \E c \in Clients, d \in Docs, u \in SUBSET Units, v \in Valued :
             \E to \in {"shipped", "delivered", "received", "cancelled"} :
               UpdateStatusRead(c, d, to, u, v)
  BY <1>7, UpdateStatusReadAInv
<1>8. CASE \E c \in Clients : req[c].op = "status" /\ UpdateStatusWrite(c, req[c])
  <2>1. PICK c \in Clients : req[c].op = "status" /\ UpdateStatusWrite(c, req[c])
    BY <1>8
  <2>2. PICK r \in Request : req[c] = r
    BY <1>typed DEF Typed
  <2> QED
    BY <2>1, <2>2, UpdateStatusWriteAInv
<1>9. ASSUME docs' = docs, \A d \in Docs : d \in entry' <=> d \in entry,
             \A c \in Clients : req'[c] = Idle,
             \A d \in Docs : Exists(d) => RowsOf(d)' = RowsOf(d)
      PROVE  AInv'
  BY <1>typed, <1>9, QuietAInv DEF Issued, Exists
<1>10. CASE \E m \in Manuals, q \in -MaxQty..MaxQty, v \in ManualValued :
              q # 0 /\ CreateStockMovement(m, q, v)
  <2>1. PICK m \in Manuals, q \in -MaxQty..MaxQty, v \in ManualValued : CreateStockMovement(m, q, v)
    BY <1>10
  <2>2. \A x \in Inserted(m, 1, q, {}) : x.src = m
    BY <1>src
  <2>3. \A d \in Docs : RowsOf(d)' = RowsOf(d)
    BY <1>rows, <1>manual, <2>1, <2>2 DEF CreateStockMovement
  <2> QED
    BY <1>9, <1>manual, <2>1, <2>3, AtOnceAlone DEF CreateStockMovement
<1>11. CASE \E c \in Clients, m \in Manuals, q \in {-1, 1}, u \in SUBSET Units, v \in ManualValued :
              CreateStockMovementRead(c, m, q, u, v)
  <2>1. PICK c \in Clients, m \in Manuals, q \in {-1, 1}, u \in SUBSET Units, v \in ManualValued :
          CreateStockMovementRead(c, m, q, u, v)
    BY <1>11
  <2> DEFINE r == [op |-> "manual", src |-> m, qty |-> q, units |-> u, posts |-> v]
  <2>2. r \in Request
    BY ConstantsAssumption DEF Request
  <2>3. UpToDate(r)
    BY DEF UpToDate
  <2>4. req' = [req EXCEPT ![c] = r] /\ docs' = docs /\ rows' = rows /\ entry' = entry
    BY <2>1 DEF CreateStockMovementRead, Park
  <2> HIDE DEF r
  <2> QED
    BY <1>typed, <2>2, <2>3, <2>4, ReadAInv
<1>12. CASE \E c \in Clients : req[c].op = "manual" /\ CreateStockMovementWrite(c, req[c])
  <2>1. PICK c \in Clients : req[c].op = "manual" /\ CreateStockMovementWrite(c, req[c])
    BY <1>12
  <2>2. req[c].src \in Manuals
    BY <1>typed, <2>1 DEF Typed, Request, Idle
  <2>3. \A x \in Inserted(req[c].src, req[c].qty, 0, req[c].units) : x.src = req[c].src
    BY <1>src
  <2>4. \A d \in Docs : RowsOf(d)' = RowsOf(d)
    BY <1>rows, <1>manual, <2>1, <2>2, <2>3 DEF CreateStockMovementWrite
  <2>5. \A e \in Clients : req'[e] = Idle
    BY <1>typed, <2>1, ResumeAlone DEF CreateStockMovementWrite, Resume
  <2>6. \A d \in Docs : d \in entry' <=> d \in entry
    BY <1>manual, <2>1, <2>2 DEF CreateStockMovementWrite
  <2> QED
    BY <1>9, <2>1, <2>4, <2>5, <2>6 DEF CreateStockMovementWrite
<1>13. CASE \E x \in rows : DeleteStockMovement(x)
  <2>1. PICK x \in rows : DeleteStockMovement(x)
    BY <1>13
  <2>2. \A d \in Docs : Exists(d) => RowsOf(d)' = RowsOf(d)
    BY <2>1 DEF DeleteStockMovement, Owned, RowsOf
  <2> QED
    BY <1>9, <2>1, <2>2, AtOnceAlone DEF DeleteStockMovement
<1>14. CASE \E c \in Clients : Fail(c)
  <2>1. \A e \in Clients : req'[e] = Idle
    BY <1>typed, <1>14, ResumeAlone DEF Fail
  <2>2. \A d \in Docs : RowsOf(d)' = RowsOf(d)
    BY <1>14 DEF Fail, RowsOf
  <2> QED
    BY <1>9, <1>14, <2>1, <2>2 DEF Fail
<1>15. CASE \E d \in Docs, l \in LineChoices : Create(d, l)
  BY <1>2, <1>15
<1>16. CASE \E d \in Deliveries, l \in LineChoices : UpdateDelivery(d, l)
  BY <1>3, <1>16, AtOnceAlone DEF UpdateDelivery, Docs
<1>17. CASE \E d \in Docs : Delete(d)
  BY <1>4, <1>17
<1> QED
  BY <1>1, <1>5, <1>6, <1>7, <1>8, <1>10, <1>11, <1>12, <1>13, <1>14, <1>15, <1>16, <1>17
     DEF Next, DocumentNext, ManualNext

\* Requests one at a time leave documents straight.
LEMMA AlwaysStraight == OneAtATime => (Spec => [](IInv /\ RInv /\ AInv))
<1> SUFFICES ASSUME OneAtATime PROVE Spec => [](IInv /\ RInv /\ AInv)
  OBVIOUS
<1>1. Init => AInv
  <2> SUFFICES ASSUME Init PROVE AInv
    OBVIOUS
  <2>1. \A d \in Docs : docs[d].status = "absent" /\ docs[d].lines = NoLines
    BY DEF Init
  <2>2. \A d \in Docs : Straight(d)
    BY <2>1 DEF Straight, Issued
  <2>3. \A c \in Clients : UpToDate(req[c])
    BY DEF Init, UpToDate, Idle
  <2> QED
    BY <2>2, <2>3 DEF AInv
<1>2. IInv /\ RInv /\ AInv /\ [Next]_vars => AInv'
  BY NextAInv
<1>3. Spec => []AInv
  BY <1>1, <1>2, StockRowsInvariant, PTL DEF Spec
<1> QED
  BY <1>3, StockRowsInvariant, PTL

\* Issued, edited and cancelled by requests that do not overlap, a document
\* leaves the stock as if it had never been, however many documents, lines and
\* units there are: the freeze of issued lines keeps what a cancellation takes
\* back what the issue brought. Overlapping requests break it.
THEOREM StockCancelledNets == OneAtATime => (Spec => []CancelledNetsToZero)
<1>1. AInv => CancelledNetsToZero
  BY DEF AInv, Straight, CancelledNetsToZero
<1> QED
  BY <1>1, AlwaysStraight, PTL

\* And if its goods have a cost, it is on the books exactly while they are out
\* or in.
THEOREM StockBooksFollow == OneAtATime => (Spec => []BooksFollowGoods)
<1>1. IInv /\ AInv => BooksFollowGoods
  <2> SUFFICES ASSUME IInv, AInv, Valued = {TRUE}, NEW d \in Docs
               PROVE  d \in entry <=> Issued(d) /\ RowsOf(d) # {}
    BY DEF BooksFollowGoods
  <2> QED
    BY DEF IInv, EntryFollowsStatus, AInv, Straight
<1> QED
  BY <1>1, AlwaysStraight, PTL
=============================================================================
