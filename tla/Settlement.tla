----------------------------- MODULE Settlement -----------------------------
(***************************************************************************)
(* Sales invoices (db/invoice.go), vendor bills (db/incoming_invoice.go)   *)
(* and the payments that settle them (db/payment.go, db/payment_state.go). *)
(*                                                                         *)
(* Changing a document's state posts or reverses its journal entry; what   *)
(* the entry looks like is Ledger's subject, here it is the total it was   *)
(* posted with. A handler whose transaction looks again at everything its  *)
(* earlier reads decided is one action. Two handlers carry figures from    *)
(* before their transaction into it, the state change and the payment:     *)
(* each is a read, parked in req, and a write.                             *)
(***************************************************************************)
EXTENDS Integers, Sums

CONSTANTS
  Invoices,     \* sales invoices, settled by inbound payments
  Bills,        \* incoming invoices, settled by outbound payments
  Payments,     \* payment ids: the bound on payments recorded
  Clients,      \* requests that may be in flight at once
  MaxTotal,     \* the largest document total: a bound
  None          \* no live entry

VARIABLES
  docs,         \* rows of invoices and incoming_invoices
  entry,        \* the total each document's live entry was posted with
  payments,     \* payments with their applications
  req           \* what each client's handler has read and not yet written

vars == <<docs, entry, payments, req>>

-----------------------------------------------------------------------------
(* Data.                                                                   *)

Docs == Invoices \cup Bills
Totals == 0..MaxTotal
Applications == [Docs -> Totals]        \* 0: not applied to that document

\* The state a document is issued in (paidStateDocument).
Open(d) == IF d \in Invoices THEN "sent" ELSE "approved"

States(d) == {"draft", Open(d), "paid", "cancelled"}

\* clear: the 3-way match finds no blocking variance, or it is overridden.
Doc == [state : {"absent", "deleted", "draft", "sent", "approved", "paid", "cancelled"},
        total : Totals,
        clear : BOOLEAN]

Payment == [status : {"absent", "posted", "voided"}, applied : Applications]

Nothing == [d \in Docs |-> 0]
Idle == [op |-> "idle"]

Request == {Idle}
      \cup [op : {"state"}, doc : Docs,
            to : {"draft", "sent", "approved", "paid", "cancelled"}, total : Totals]
      \cup [op : {"pay"}, applied : Applications, totals : Applications]

ASSUME ConstantsAssumption ==
  /\ MaxTotal \in Nat
  /\ Invoices \cap Bills = {}
  /\ None \notin Totals

Exists(d) == docs[d].state \notin {"absent", "deleted"}
Issued(d) == docs[d].state \in {Open(d), "paid"}
HasEntry(d) == entry[d] # None

\* Non-voided payments applied to d, and what they cover.
PaymentsOn(d) == {p \in Payments : payments[p].status = "posted" /\ payments[p].applied[d] > 0}
Paid(d) == Total([p \in Payments |-> payments[p].applied[d]], PaymentsOn(d))

\* needsInvoiceGLPresence, needsIncomingInvoiceGLPresence
NeedsEntry(d, state, total) == state \in {Open(d), "paid"} /\ total # 0

Park(c, r) == req[c] = Idle /\ req' = [req EXCEPT ![c] = r]
Resume(c, r) == req[c] = r /\ req' = [req EXCEPT ![c] = Idle]

\* A parked handler is refused by its transaction, which rolls back: the
\* ledger has no open year for the date, SQL fails, the process stops.
Fail(c) ==
  /\ req[c] # Idle
  /\ req' = [req EXCEPT ![c] = Idle]
  /\ UNCHANGED <<docs, entry, payments>>

-----------------------------------------------------------------------------
(* Documents.                                                              *)

\* CreateInvoice, CreateIncomingInvoice: any state may be asked for, and
\* nothing is posted.
Create(d, state, total, clear) ==
  /\ docs[d].state = "absent"
  /\ docs' = [docs EXCEPT ![d] = [state |-> state, total |-> total, clear |-> clear]]
  /\ UNCHANGED <<entry, payments, req>>

\* Looked at before the transaction and again inside it: no posted entry.
Editable(d) == Exists(d) /\ ~HasEntry(d)

\* UpdateInvoice, UpdateIncomingInvoice changing what an entry is built from;
\* a bill's variance and override change with it.
Update(d, total, clear) ==
  /\ Editable(d)
  /\ docs' = [docs EXCEPT ![d].total = total, ![d].clear = clear]
  /\ UNCHANGED <<entry, payments, req>>

\* The match is computed on read: a receipt cancelled, another bill approved
\* or this bill's override edited turns it at any time.
MatchChanges(d) ==
  /\ Exists(d)
  /\ docs' = [docs EXCEPT ![d].clear = ~@]
  /\ UNCHANGED <<entry, payments, req>>

Delete(d) ==
  /\ Exists(d) /\ docs[d].state # "paid" /\ ~HasEntry(d)
  /\ docs' = [docs EXCEPT ![d].state = "deleted"]
  /\ UNCHANGED <<entry, payments, req>>

\* The matching gate: a bill that is being approved, or paid unapproved.
Gated(d, state) ==
  /\ d \in Bills
  /\ state = "approved" \/ (state = "paid" /\ docs[d].state # "approved")

\* A change that takes the entry away needs the payments voided first.
PaymentsAllow(d, state, total) ==
  ~NeedsEntry(d, state, total) /\ HasEntry(d) => PaymentsOn(d) = {}

\* The journal lines are built here, from the total read here.
UpdateStateRead(c, d, state) ==
  /\ Exists(d)
  /\ Gated(d, state) => docs[d].clear
  /\ PaymentsAllow(d, state, docs[d].total)
  /\ Park(c, [op |-> "state", doc |-> d, to |-> state, total |-> docs[d].total])
  /\ UNCHANGED <<docs, entry, payments>>

\* Mutant of UpdateStateWrite: the payments are not looked at again.
UpdateStateWriteUnchecked(c, d, state, total) ==
  /\ Resume(c, [op |-> "state", doc |-> d, to |-> state, total |-> total])
  /\ docs' = IF Exists(d) THEN [docs EXCEPT ![d].state = state] ELSE docs
  /\ entry' = [entry EXCEPT ![d] = IF ~NeedsEntry(d, state, total) THEN None
                                   ELSE IF HasEntry(d) THEN @ ELSE total]
  /\ UNCHANGED payments

\* Whether an entry is live is read in the transaction, its lines are not; the
\* UPDATE of a row deleted meanwhile changes nothing and is not noticed.
UpdateStateWrite(c, d, state, total) ==
  /\ Resume(c, [op |-> "state", doc |-> d, to |-> state, total |-> total])
  /\ PaymentsAllow(d, state, total)
  /\ docs' = IF Exists(d) THEN [docs EXCEPT ![d].state = state] ELSE docs
  /\ entry' = [entry EXCEPT ![d] = IF ~NeedsEntry(d, state, total) THEN None
                                   ELSE IF HasEntry(d) THEN @ ELSE total]
  /\ UNCHANGED payments

-----------------------------------------------------------------------------
(* Payments.                                                               *)

\* A payment settles invoices or bills, not both: its direction decides.
OneDirection(a) == \/ \A d \in Bills : a[d] = 0
                   \/ \A d \in Invoices : a[d] = 0

CreatePaymentRead(c, a) ==
  /\ a # Nothing /\ OneDirection(a)
  /\ \A d \in Docs : a[d] > 0 => Exists(d) /\ HasEntry(d) /\ a[d] <= docs[d].total - Paid(d)
  /\ Park(c, [op |-> "pay", applied |-> a,
              totals |-> [d \in Docs |-> IF a[d] > 0 THEN docs[d].total ELSE 0]])
  /\ UNCHANGED <<docs, entry, payments>>

\* markPaidIfSettledTx, once applications a are in.
MarkPaidIfSettled(a) ==
  [d \in Docs |->
     IF /\ a[d] > 0 /\ docs[d].state = Open(d)
        /\ docs[d].total > 0 /\ Paid(d) + a[d] >= docs[d].total
     THEN [docs[d] EXCEPT !.state = "paid"] ELSE docs[d]]

\* Mutant of CreatePaymentWrite: the balance is the one read before (pre-F48).
CreatePaymentWriteUnchecked(c, p, a, totals) ==
  /\ Resume(c, [op |-> "pay", applied |-> a, totals |-> totals])
  /\ payments[p].status = "absent"
  /\ \A d \in Docs : a[d] > 0 => Issued(d) /\ HasEntry(d)
  /\ payments' = [payments EXCEPT ![p] = [status |-> "posted", applied |-> a]]
  /\ docs' = MarkPaidIfSettled(a)
  /\ UNCHANGED entry

\* State, entry and payments are read again; the totals are not.
CreatePaymentWrite(c, p, a, totals) ==
  /\ Resume(c, [op |-> "pay", applied |-> a, totals |-> totals])
  /\ payments[p].status = "absent"
  /\ \A d \in Docs : a[d] > 0 => Issued(d) /\ HasEntry(d) /\ a[d] <= totals[d] - Paid(d)
  /\ payments' = [payments EXCEPT ![p] = [status |-> "posted", applied |-> a]]
  /\ docs' = MarkPaidIfSettled(a)
  /\ UNCHANGED entry

\* Mutant of ReopenIfUnsettled: only a document left without any payment.
ReopenIfUnpaid(a) ==
  [d \in Docs |->
     IF /\ a[d] > 0 /\ docs[d].state = "paid"
        /\ Paid(d) >= docs[d].total /\ Paid(d) = a[d]
     THEN [docs[d] EXCEPT !.state = Open(d)] ELSE docs[d]]

\* reopenIfUnsettledTx, once applications a no longer count.
ReopenIfUnsettled(a) ==
  [d \in Docs |->
     IF /\ a[d] > 0 /\ docs[d].state = "paid"
        /\ Paid(d) >= docs[d].total /\ Paid(d) - a[d] < docs[d].total
     THEN [docs[d] EXCEPT !.state = Open(d)] ELSE docs[d]]

\* The transaction fails unless the payment's entry is still posted, which is
\* as long as the payment is.
VoidPayment(p) ==
  /\ payments[p].status = "posted"
  /\ payments' = [payments EXCEPT ![p].status = "voided"]
  /\ docs' = ReopenIfUnsettled(payments[p].applied)
  /\ UNCHANGED <<entry, req>>

-----------------------------------------------------------------------------

Init ==
  /\ docs = [d \in Docs |-> [state |-> "absent", total |-> 0, clear |-> TRUE]]
  /\ entry = [d \in Docs |-> None]
  /\ payments = [p \in Payments |-> [status |-> "absent", applied |-> Nothing]]
  /\ req = [c \in Clients |-> Idle]

\* Only a bill has a match that can fail.
Matches(d) == IF d \in Bills THEN BOOLEAN ELSE {TRUE}

DocumentNext ==
  \/ \E d \in Docs, t \in Totals : \E m \in Matches(d) :
       \/ \E s \in States(d) : Create(d, s, t, m)
       \/ Update(d, t, m)
  \/ \E d \in Docs : Delete(d)
  \/ \E d \in Bills : MatchChanges(d)
  \/ \E c \in Clients, d \in Docs : \E s \in States(d) :
       \/ UpdateStateRead(c, d, s)
       \/ \E t \in Totals : UpdateStateWrite(c, d, s, t)

PaymentNext ==
  \/ \E c \in Clients, a \in Applications : CreatePaymentRead(c, a)
  \/ \E c \in Clients, p \in Payments :
       /\ req[c].op = "pay"
       /\ CreatePaymentWrite(c, p, req[c].applied, req[c].totals)
  \/ \E p \in Payments : VoidPayment(p)

Next == DocumentNext \/ PaymentNext \/ \E c \in Clients : Fail(c)

Spec == Init /\ [][Next]_vars

-----------------------------------------------------------------------------
(* Properties.                                                             *)

\* Every variable keeps its type, and every document and request a state its
\* kind of document has.
TypeOK ==
  /\ docs \in [Docs -> Doc]
  /\ \A d \in Docs : docs[d].state \in States(d) \cup {"absent", "deleted"}
  /\ entry \in [Docs -> Totals \cup {None}]
  /\ payments \in [Payments -> Payment]
  /\ req \in [Clients -> Request]
  /\ \A c \in Clients : req[c].op = "state" => req[c].to \in States(req[c].doc)

\* CreatePayment's and UpdateInvoiceState's re-checks: a payment stands only
\* on an issued document whose receivable or payable is on the books, so no
\* cancellation, edit or delete in flight leaves a settlement without one.
PaymentsBacked ==
  \A d \in Docs : PaymentsOn(d) # {} => Issued(d) /\ HasEntry(d)

\* UpdateInvoiceState, "brings the invoice's GL presence in line": a document
\* back in draft or cancelled has no live entry, whoever posted it meanwhile.
EntryOnlyWhenIssued ==
  \A d \in Docs : HasEntry(d) /\ Exists(d) => Issued(d)

\* While an entry stays live no step changes the total of its document.
FiguresFrozen ==
  \A d \in Docs : HasEntry(d) /\ entry'[d] = entry[d] => docs'[d].total = docs[d].total

\* UpdateInvoice: a posted entry's figures are never edited "out from under it".
PostedFiguresFrozen == [][FiguresFrozen]_vars

\* A step by which payments come to cover a document's total leaves it paid
\* unless it was not open, and one after which they no longer do never leaves
\* it paid.
BalanceMovesState ==
  \A d \in Docs : docs[d].total > 0 /\ docs'[d].total > 0 =>
    /\ Paid(d) < docs[d].total /\ Paid(d)' >= docs'[d].total => docs'[d].state # Open(d)
    /\ Paid(d) >= docs[d].total /\ Paid(d)' < docs'[d].total => docs'[d].state # "paid"

\* payment_state.go: payments keep "paid" in step with the balance, and no
\* edit of the total gets past them.
PaidTracksBalance == [][BalanceMovesState]_vars

\* F48: payments recorded at once never together settle more than a document
\* is for: one that does was computed from a total since edited.
OverpaidOnlyByStaleTotal ==
  [][\A d \in Docs : Paid(d) <= docs[d].total /\ Paid(d)' > docs'[d].total =>
       \E c \in Clients : /\ req[c].op = "pay" /\ req'[c] = Idle
                          /\ req[c].totals[d] > docs[d].total]_vars

\* F191: an entry is never "left describing stale line items".
EntryDescribesDocument ==
  \A d \in Docs : HasEntry(d) /\ Exists(d) => entry[d] = docs[d].total

\* UpdateIncomingInvoiceState: a bill with an unresolved variance "never
\* reaches buildIncomingInvoiceGLLines" for an entry it does not have yet.
VarianceNeverPosted ==
  [][\A c \in Clients, d \in Bills :
       /\ req[c] = Idle /\ req'[c].op = "state" /\ req'[c].doc = d
       /\ NeedsEntry(d, req'[c].to, req'[c].total) /\ ~HasEntry(d)
       => docs[d].clear]_vars
=============================================================================
