-------------------------- MODULE SettlementProofs --------------------------
(***************************************************************************)
(* What holds of invoices, bills and payments for any number of them, of   *)
(* clients and of amounts. PaymentsBacked is inductive only together with  *)
(* the types: an entry is taken away or a state is changed by a request    *)
(* that carries an old total, and it is the look at the payments inside    *)
(* its transaction that keeps the settlement standing.                     *)
(*                                                                         *)
(* The second part, of Postings, is about the entries that these documents *)
(* and the movements of goods post: for any lines, taxes, rates and costs. *)
(* An entry is one step, and what is to be shown of it is arithmetic:      *)
(* sums of rounded shares, each within half a cent of what it stands for.  *)
(***************************************************************************)
EXTENDS Settlement, Postings, SumsProofs

\* A document that was never created has no entry and no request under way.
AbsentUntouched ==
  \A d \in Docs : docs[d].state = "absent" =>
    /\ ~HasEntry(d)
    /\ \A c \in Clients : req[c].op = "state" => req[c].doc # d

\* The inductive invariant.
IInv == TypeOK /\ AbsentUntouched /\ PaymentsBacked /\ EntryOnlyWhenIssued

-----------------------------------------------------------------------------

LEMMA StatesAreDocStates ==
  ASSUME NEW d \in Docs
  PROVE  States(d) \subseteq {"draft", "sent", "approved", "paid", "cancelled"}
  BY DEF States, Open

\* Initially nothing exists.
LEMMA InitIInv == Init => IInv
<1> SUFFICES ASSUME Init PROVE IInv
  OBVIOUS
<1> USE ConstantsAssumption
<1>1. Nothing \in Applications
  BY DEF Nothing, Applications, Totals
<1>2. TypeOK
  BY <1>1 DEF Init, TypeOK, Doc, Payment, Request, Idle, Totals
<1>3. \A d \in Docs : PaymentsOn(d) = {} /\ ~HasEntry(d)
  BY DEF Init, PaymentsOn, HasEntry
<1> QED
  BY <1>2, <1>3 DEF IInv, PaymentsBacked, EntryOnlyWhenIssued, AbsentUntouched, Init, Idle

-----------------------------------------------------------------------------
(* Types, one action at a time. What a step makes of the documents is      *)
(* well typed when it makes each of them so.                               *)

DocOK(d, r) == r \in Doc /\ r.state \in States(d) \cup {"absent", "deleted"}

LEMMA DocsTyped ==
  ASSUME TypeOK, NEW d \in Docs
  PROVE  DocOK(d, docs[d])
  BY DEF TypeOK, DocOK

LEMMA CreateType ==
  ASSUME TypeOK, NEW d \in Docs, NEW t \in Totals, NEW m \in BOOLEAN,
         NEW s \in States(d), Create(d, s, t, m)
  PROVE  TypeOK'
<1>1. [state |-> s, total |-> t, clear |-> m] \in Doc
  BY StatesAreDocStates DEF Doc
<1> QED
  BY <1>1 DEF TypeOK, Create, States, Open

LEMMA UpdateType ==
  ASSUME TypeOK, NEW d \in Docs, NEW t \in Totals, NEW m \in BOOLEAN, Update(d, t, m)
  PROVE  TypeOK'
<1>1. docs'[d] \in Doc /\ docs'[d].state = docs[d].state
  BY DEF Update, Editable, TypeOK, Doc
<1>2. \A e \in Docs : e # d => docs'[e] = docs[e]
  BY DEF Update, Editable, TypeOK
<1>3. docs' \in [Docs -> Doc]
  BY <1>1, <1>2 DEF Update, Editable, TypeOK
<1>4. \A e \in Docs : docs'[e].state = docs[e].state
  BY <1>1, <1>2
<1> QED
  BY <1>3, <1>4 DEF TypeOK, Update, Editable, States, Open

LEMMA MatchChangesType ==
  ASSUME TypeOK, NEW d \in Docs, MatchChanges(d)
  PROVE  TypeOK'
<1>1. docs'[d] \in Doc /\ docs'[d].state = docs[d].state
  BY DEF MatchChanges, TypeOK, Doc
<1>2. \A e \in Docs : e # d => docs'[e] = docs[e]
  BY DEF MatchChanges, TypeOK
<1>3. docs' \in [Docs -> Doc]
  BY <1>1, <1>2 DEF MatchChanges, TypeOK
<1>4. \A e \in Docs : docs'[e].state = docs[e].state
  BY <1>1, <1>2
<1> QED
  BY <1>3, <1>4 DEF TypeOK, MatchChanges, States, Open

LEMMA DeleteType ==
  ASSUME TypeOK, NEW d \in Docs, Delete(d)
  PROVE  TypeOK'
  BY DEF TypeOK, Delete, Doc, States, Open

LEMMA ParkType ==
  ASSUME TypeOK, NEW c \in Clients, NEW r \in Request, Park(c, r),
         r.op = "state" => r.to \in States(r.doc),
         UNCHANGED <<docs, entry, payments>>
  PROVE  TypeOK'
  BY DEF TypeOK, Park, States, Open

LEMMA ResumeTypes ==
  ASSUME TypeOK, NEW c \in Clients, req' = [req EXCEPT ![c] = Idle]
  PROVE  /\ req' \in [Clients -> Request]
         /\ \A k \in Clients : req'[k].op = "state" => req'[k].to \in States(req'[k].doc)
  BY DEF TypeOK, Idle, Request

LEMMA UpdateStateReadType ==
  ASSUME TypeOK, NEW c \in Clients, NEW d \in Docs, NEW s \in States(d),
         UpdateStateRead(c, d, s)
  PROVE  TypeOK'
<1> DEFINE r == [op |-> "state", doc |-> d, to |-> s, total |-> docs[d].total]
<1>1. docs[d].total \in Totals
  BY DEF TypeOK, Doc
<1>2. s \in {"draft", "sent", "approved", "paid", "cancelled"}
  BY StatesAreDocStates
<1>3. r \in Request
  BY <1>1, <1>2 DEF Request
<1> QED
  BY <1>3, ParkType DEF UpdateStateRead

LEMMA UpdateStateWriteType ==
  ASSUME TypeOK, NEW c \in Clients, NEW d \in Docs, NEW s \in States(d),
         NEW t \in Totals, UpdateStateWrite(c, d, s, t)
  PROVE  TypeOK'
<1>1. docs' \in [Docs -> Doc] /\ \A e \in Docs : docs'[e].state \in States(e) \cup {"absent", "deleted"}
  <2>1. CASE Exists(d)
    <3>1. docs' = [docs EXCEPT ![d].state = s]
      BY <2>1 DEF UpdateStateWrite
    <3>2. s \in {"draft", "sent", "approved", "paid", "cancelled"}
      BY StatesAreDocStates
    <3>3. docs'[d] \in Doc /\ docs'[d].state = s
      BY <3>1, <3>2 DEF TypeOK, Doc
    <3>4. \A e \in Docs : e # d => docs'[e] = docs[e]
      BY <3>1 DEF TypeOK
    <3>5. docs' \in [Docs -> Doc]
      BY <3>1, <3>3, <3>4 DEF TypeOK
    <3> QED
      BY <3>3, <3>4, <3>5 DEF TypeOK
  <2>2. CASE ~Exists(d)
    BY <2>2 DEF UpdateStateWrite, TypeOK
  <2> QED
    BY <2>1, <2>2
<1>2. entry' \in [Docs -> Totals \cup {None}]
  BY DEF UpdateStateWrite, TypeOK
<1>3. payments' \in [Payments -> Payment]
  BY DEF UpdateStateWrite, TypeOK
<1>4. req' = [req EXCEPT ![c] = Idle]
  BY DEF UpdateStateWrite, Resume
<1> QED
  BY <1>1, <1>2, <1>3, <1>4, ResumeTypes DEF TypeOK, States, Open

LEMMA CreatePaymentReadType ==
  ASSUME TypeOK, NEW c \in Clients, NEW a \in Applications, CreatePaymentRead(c, a)
  PROVE  TypeOK'
<1> DEFINE ts == [d \in Docs |-> IF a[d] > 0 THEN docs[d].total ELSE 0]
           r == [op |-> "pay", applied |-> a, totals |-> ts]
<1>1. \A d \in Docs : docs[d].total \in Totals
  BY DEF TypeOK, Doc
<1>2. ts \in Applications
  BY <1>1, ConstantsAssumption DEF Applications, Totals
<1>3. r \in Request
  BY <1>2 DEF Request
<1>4. r.op = "pay"
  OBVIOUS
<1>5. Park(c, r) /\ UNCHANGED <<docs, entry, payments>>
  BY DEF CreatePaymentRead
<1> HIDE DEF r
<1> QED
  BY <1>3, <1>4, <1>5, ParkType

\* Both ways payments move a state leave the total and the match alone.
LEMMA MovesTyped ==
  ASSUME TypeOK, NEW a \in Applications,
         docs' \in {MarkPaidIfSettled(a), ReopenIfUnsettled(a)}
  PROVE  /\ docs' \in [Docs -> Doc]
         /\ \A d \in Docs : docs'[d].state \in States(d) \cup {"absent", "deleted"}
<1> SUFFICES ASSUME NEW d \in Docs
             PROVE  DocOK(d, MarkPaidIfSettled(a)[d]) /\ DocOK(d, ReopenIfUnsettled(a)[d])
  BY DEF DocOK, MarkPaidIfSettled, ReopenIfUnsettled
<1>1. DocOK(d, docs[d])
  BY DocsTyped
<1>2. DocOK(d, [docs[d] EXCEPT !.state = "paid"])
  BY <1>1 DEF DocOK, Doc, States
<1>3. DocOK(d, [docs[d] EXCEPT !.state = Open(d)])
  BY <1>1 DEF DocOK, Doc, States, Open
<1> QED
  BY <1>1, <1>2, <1>3 DEF MarkPaidIfSettled, ReopenIfUnsettled

LEMMA CreatePaymentWriteType ==
  ASSUME TypeOK, NEW c \in Clients, NEW p \in Payments, NEW a \in Applications,
         NEW ts \in Applications, CreatePaymentWrite(c, p, a, ts)
  PROVE  TypeOK'
<1>1. [status |-> "posted", applied |-> a] \in Payment
  BY DEF Payment
<1>2. payments' \in [Payments -> Payment]
  BY <1>1 DEF CreatePaymentWrite, TypeOK
<1>3. req' = [req EXCEPT ![c] = Idle]
  BY DEF CreatePaymentWrite, Resume
<1>4. docs' = MarkPaidIfSettled(a) /\ entry' = entry
  BY DEF CreatePaymentWrite
<1> QED
  BY <1>2, <1>3, <1>4, MovesTyped, ResumeTypes DEF TypeOK, States, Open

LEMMA VoidPaymentType ==
  ASSUME TypeOK, NEW p \in Payments, VoidPayment(p)
  PROVE  TypeOK'
<1>1. payments[p].applied \in Applications
  BY DEF TypeOK, Payment
<1>2. payments' \in [Payments -> Payment]
  BY DEF VoidPayment, TypeOK, Payment
<1>3. docs' = ReopenIfUnsettled(payments[p].applied) /\ entry' = entry /\ req' = req
  BY DEF VoidPayment
<1> QED
  BY <1>1, <1>2, <1>3, MovesTyped DEF TypeOK, States, Open

-----------------------------------------------------------------------------
(* Standing of the documents that are settled or posted.                   *)

Standing == PaymentsBacked /\ EntryOnlyWhenIssued

\* A step that adds no payment, takes no entry away and keeps issued documents
\* issued leaves every settlement standing.
LEMMA StandingKept ==
  ASSUME Standing,
         \A d \in Docs : PaymentsOn(d)' # {} => PaymentsOn(d) # {},
         \A d \in Docs : HasEntry(d)' <=> HasEntry(d),
         \A d \in Docs : HasEntry(d) /\ Issued(d) => Issued(d)',
         \A d \in Docs : HasEntry(d) /\ Exists(d)' => Exists(d)
  PROVE  Standing'
  BY DEF Standing, PaymentsBacked, EntryOnlyWhenIssued

\* Steps that only touch documents without an entry, and not their payments.
LEMMA UnpostedChange ==
  ASSUME Standing, NEW d \in Docs, ~HasEntry(d),
         \A e \in Docs \ {d} : docs'[e] = docs[e],
         UNCHANGED <<entry, payments>>
  PROVE  Standing'
  BY DEF Standing, PaymentsBacked, EntryOnlyWhenIssued, PaymentsOn, HasEntry, Issued, Exists, Open

LEMMA CreateStanding ==
  ASSUME TypeOK, AbsentUntouched, Standing, NEW d \in Docs, NEW t \in Totals,
         NEW m \in BOOLEAN, NEW s \in States(d), Create(d, s, t, m)
  PROVE  Standing'
<1>1. ~HasEntry(d)
  BY DEF Create, AbsentUntouched
<1> QED
  BY <1>1, UnpostedChange DEF Create, TypeOK

LEMMA MatchChangesStanding ==
  ASSUME TypeOK, Standing, NEW d \in Docs, MatchChanges(d)
  PROVE  Standing'
<1>1. \A e \in Docs : docs'[e].state = docs[e].state
  BY DEF MatchChanges, TypeOK, Doc
<1> QED
  BY <1>1, StandingKept DEF MatchChanges, PaymentsOn, HasEntry, Issued, Exists, Open

LEMMA UpdateStateWriteStanding ==
  ASSUME TypeOK, AbsentUntouched, Standing, NEW c \in Clients, NEW d \in Docs,
         NEW s \in States(d), NEW t \in Totals, UpdateStateWrite(c, d, s, t)
  PROVE  Standing'
<1>1. \A e \in Docs : PaymentsOn(e)' = PaymentsOn(e)
  BY DEF UpdateStateWrite, PaymentsOn
<1>2. \A e \in Docs \ {d} : docs'[e] = docs[e] /\ entry'[e] = entry[e]
  BY DEF UpdateStateWrite, TypeOK
<1>3. Exists(d)' => docs'[d].state = s
  BY DEF UpdateStateWrite, TypeOK, Exists, Doc
<1>4. CASE NeedsEntry(d, s, t)
  <2>1. s \in {Open(d), "paid"}
    BY <1>4 DEF NeedsEntry
  <2>2. HasEntry(d)'
    BY <1>4, ConstantsAssumption DEF UpdateStateWrite, TypeOK, HasEntry
  <2>3. PaymentsOn(d) # {} => Exists(d)
    BY DEF Standing, PaymentsBacked, Issued, Exists, Open
  <2>4. Exists(d) => docs'[d].state = s
    BY DEF UpdateStateWrite, TypeOK, Doc
  <2> QED
    BY <1>1, <1>2, <1>3, <2>1, <2>2, <2>3, <2>4
       DEF Standing, PaymentsBacked, EntryOnlyWhenIssued, Issued, HasEntry, Exists, Open
<1>5. CASE ~NeedsEntry(d, s, t)
  <2>1. ~HasEntry(d)'
    BY <1>5 DEF UpdateStateWrite, TypeOK, HasEntry
  <2>2. PaymentsOn(d) = {}
    BY <1>5 DEF UpdateStateWrite, PaymentsAllow, Standing, PaymentsBacked
  <2> QED
    BY <1>1, <1>2, <2>1, <2>2
       DEF Standing, PaymentsBacked, EntryOnlyWhenIssued, Issued, HasEntry, Exists, Open
<1> QED
  BY <1>4, <1>5

\* Payments move a document between its open state and paid, both issued.
LEMMA MovesIssued ==
  ASSUME TypeOK, NEW a \in Applications, NEW d \in Docs,
         docs' \in {MarkPaidIfSettled(a), ReopenIfUnsettled(a)}
  PROVE  (Issued(d)' <=> Issued(d)) /\ (Exists(d)' <=> Exists(d))
<1>1. docs[d] \in Doc
  BY DEF TypeOK
<1>2. \/ docs'[d] = docs[d]
      \/ docs[d].state = Open(d) /\ docs'[d].state = "paid"
      \/ docs[d].state = "paid" /\ docs'[d].state = Open(d)
  BY <1>1 DEF MarkPaidIfSettled, ReopenIfUnsettled, Doc
<1> QED
  BY <1>2 DEF Issued, Exists, Open

LEMMA CreatePaymentWriteStanding ==
  ASSUME TypeOK, Standing, NEW c \in Clients, NEW p \in Payments, NEW a \in Applications,
         NEW ts \in Applications, CreatePaymentWrite(c, p, a, ts)
  PROVE  Standing'
<1>1. \A d \in Docs : (Issued(d)' <=> Issued(d)) /\ (Exists(d)' <=> Exists(d))
  BY MovesIssued DEF CreatePaymentWrite
<1>2. \A d \in Docs : HasEntry(d)' <=> HasEntry(d)
  BY DEF CreatePaymentWrite, HasEntry
<1>3. ASSUME NEW d \in Docs, PaymentsOn(d)' # {}
      PROVE  Issued(d) /\ HasEntry(d)
  <2>1. CASE a[d] > 0
    BY <2>1 DEF CreatePaymentWrite
  <2>2. CASE ~(a[d] > 0)
    <3>1. PaymentsOn(d)' \subseteq PaymentsOn(d)
      BY <2>2 DEF CreatePaymentWrite, PaymentsOn, TypeOK
    <3> QED
      BY <3>1, <1>3 DEF Standing, PaymentsBacked
  <2> QED
    BY <2>1, <2>2
<1> QED
  BY <1>1, <1>2, <1>3 DEF Standing, PaymentsBacked, EntryOnlyWhenIssued

LEMMA VoidPaymentStanding ==
  ASSUME TypeOK, Standing, NEW p \in Payments, VoidPayment(p)
  PROVE  Standing'
<1>1. payments[p].applied \in Applications
  BY DEF TypeOK, Payment
<1>2. \A d \in Docs : (Issued(d)' <=> Issued(d)) /\ (Exists(d)' <=> Exists(d))
  BY <1>1, MovesIssued DEF VoidPayment
<1>3. \A d \in Docs : PaymentsOn(d)' \subseteq PaymentsOn(d)
  BY DEF VoidPayment, PaymentsOn, TypeOK, Payment
<1>4. \A d \in Docs : HasEntry(d)' <=> HasEntry(d)
  BY DEF VoidPayment, HasEntry
<1> QED
  BY <1>2, <1>3, <1>4, StandingKept

-----------------------------------------------------------------------------
(* Documents that were never created.                                      *)

LEMMA UntouchedKept ==
  ASSUME AbsentUntouched,
         \A d \in Docs : docs'[d].state = "absent" => docs[d].state = "absent" /\ entry'[d] = entry[d],
         \A k \in Clients : req'[k].op = "state" =>
            \/ req[k].op = "state" /\ req'[k].doc = req[k].doc
            \/ docs[req'[k].doc].state # "absent"
  PROVE  AbsentUntouched'
  BY DEF AbsentUntouched, HasEntry

LEMMA ResumeUntouched ==
  ASSUME TypeOK, NEW c \in Clients, req' = [req EXCEPT ![c] = Idle]
  PROVE  \A k \in Clients : req'[k].op = "state" => req[k].op = "state" /\ req'[k].doc = req[k].doc
<1> SUFFICES ASSUME NEW k \in Clients, req'[k].op = "state"
             PROVE  req[k].op = "state" /\ req'[k].doc = req[k].doc
  OBVIOUS
<1>1. k # c
  BY DEF TypeOK, Idle
<1> QED
  BY <1>1 DEF TypeOK

-----------------------------------------------------------------------------
(* Every step keeps the inductive invariant.                               *)

\* Next, an action of a handler at a time: what the proofs below split on.
LEMMA NextSteps ==
  ASSUME TypeOK, Next
  PROVE  \/ \E d \in Docs, t \in Totals, m \in BOOLEAN : \E s \in States(d) : Create(d, s, t, m)
         \/ \E d \in Docs, t \in Totals, m \in BOOLEAN : Update(d, t, m)
         \/ \E d \in Docs : Delete(d)
         \/ \E d \in Docs : MatchChanges(d)
         \/ \E c \in Clients, d \in Docs : \E s \in States(d) : UpdateStateRead(c, d, s)
         \/ \E c \in Clients, d \in Docs, t \in Totals : \E s \in States(d) :
              UpdateStateWrite(c, d, s, t)
         \/ \E c \in Clients, a \in Applications : CreatePaymentRead(c, a)
         \/ \E c \in Clients, p \in Payments, a \in Applications, ts \in Applications :
              CreatePaymentWrite(c, p, a, ts)
         \/ \E p \in Payments : VoidPayment(p)
         \/ \E c \in Clients : Fail(c)
<1>1. \A c \in Clients : req[c].op = "pay" => req[c].applied \in Applications /\ req[c].totals \in Applications
  BY DEF TypeOK, Request, Idle
<1>2. \A d \in Docs : Matches(d) \subseteq BOOLEAN
  BY DEF Matches
<1>3. Bills \subseteq Docs
  BY DEF Docs
<1>4. CASE DocumentNext
  BY <1>2, <1>3, <1>4, Zenon DEF DocumentNext
<1>5. CASE PaymentNext
  BY <1>1, <1>5, Zenon DEF PaymentNext
<1> QED
  BY <1>4, <1>5 DEF Next

LEMMA StepIInv == IInv /\ [Next]_vars => IInv'
<1> SUFFICES ASSUME IInv, [Next]_vars PROVE IInv'
  OBVIOUS
<1> TypeOK /\ AbsentUntouched /\ Standing
  BY DEF IInv, Standing
<1> SUFFICES TypeOK' /\ AbsentUntouched' /\ Standing'
  BY DEF IInv, Standing
<1>1. ASSUME NEW d \in Docs, NEW t \in Totals, NEW m \in BOOLEAN, NEW s \in States(d),
             Create(d, s, t, m)
      PROVE  TypeOK' /\ AbsentUntouched' /\ Standing'
  <2>1. \A e \in Docs : docs'[e].state = "absent" => docs[e].state = "absent"
    BY <1>1, StatesAreDocStates DEF Create, TypeOK
  <2>2. AbsentUntouched'
    BY <1>1, <2>1, UntouchedKept DEF Create
  <2> QED
    BY <1>1, <2>2, CreateType, CreateStanding
<1>2. ASSUME NEW d \in Docs, NEW t \in Totals, NEW m \in BOOLEAN, Update(d, t, m)
      PROVE  TypeOK' /\ AbsentUntouched' /\ Standing'
  <2>1. \A e \in Docs : docs'[e].state = docs[e].state
    BY <1>2 DEF Update, Editable, TypeOK, Doc
  <2>2. AbsentUntouched'
    BY <1>2, <2>1, UntouchedKept DEF Update, Editable
  <2>3. Standing'
    BY <1>2, UnpostedChange DEF Update, Editable, TypeOK
  <2> QED
    BY <1>2, <2>2, <2>3, UpdateType
<1>3. ASSUME NEW d \in Docs, Delete(d)
      PROVE  TypeOK' /\ AbsentUntouched' /\ Standing'
  <2>1. \A e \in Docs : docs'[e].state = "absent" => docs[e].state = "absent"
    BY <1>3 DEF Delete, TypeOK, Doc
  <2>2. AbsentUntouched'
    BY <1>3, <2>1, UntouchedKept DEF Delete
  <2>3. Standing'
    BY <1>3, UnpostedChange DEF Delete, TypeOK
  <2> QED
    BY <1>3, <2>2, <2>3, DeleteType
<1>4. ASSUME NEW d \in Docs, MatchChanges(d)
      PROVE  TypeOK' /\ AbsentUntouched' /\ Standing'
  <2>1. \A e \in Docs : docs'[e].state = docs[e].state
    BY <1>4 DEF MatchChanges, TypeOK, Doc
  <2>2. AbsentUntouched'
    BY <1>4, <2>1, UntouchedKept DEF MatchChanges
  <2> QED
    BY <1>4, <2>2, MatchChangesType, MatchChangesStanding
<1>5. ASSUME NEW c \in Clients, NEW d \in Docs, NEW s \in States(d), UpdateStateRead(c, d, s)
      PROVE  TypeOK' /\ AbsentUntouched' /\ Standing'
  <2>1. \A k \in Clients : k # c => req'[k] = req[k]
    BY <1>5 DEF UpdateStateRead, Park, TypeOK
  <2>2. req'[c].doc = d /\ docs[d].state # "absent"
    BY <1>5 DEF UpdateStateRead, Park, TypeOK, Exists
  <2>3. AbsentUntouched'
    BY <1>5, <2>1, <2>2, UntouchedKept DEF UpdateStateRead
  <2>4. Standing'
    BY <1>5, StandingKept DEF UpdateStateRead, PaymentsOn, HasEntry, Issued, Exists
  <2> QED
    BY <1>5, <2>3, <2>4, UpdateStateReadType
<1>6. ASSUME NEW c \in Clients, NEW d \in Docs, NEW s \in States(d), NEW t \in Totals,
             UpdateStateWrite(c, d, s, t)
      PROVE  TypeOK' /\ AbsentUntouched' /\ Standing'
  <2>1. docs[d].state # "absent"
    BY <1>6 DEF UpdateStateWrite, Resume, AbsentUntouched
  <2>2. \A e \in Docs \ {d} : docs'[e] = docs[e] /\ entry'[e] = entry[e]
    BY <1>6 DEF UpdateStateWrite, TypeOK
  <2>3. docs'[d].state # "absent"
    BY <1>6, <2>1, StatesAreDocStates DEF UpdateStateWrite, TypeOK, Doc
  <2>4. req' = [req EXCEPT ![c] = Idle]
    BY <1>6 DEF UpdateStateWrite, Resume
  <2>5. AbsentUntouched'
    BY <2>2, <2>3, <2>4, UntouchedKept, ResumeUntouched
  <2> QED
    BY <1>6, <2>5, UpdateStateWriteType, UpdateStateWriteStanding
<1>7. ASSUME NEW c \in Clients, NEW a \in Applications, CreatePaymentRead(c, a)
      PROVE  TypeOK' /\ AbsentUntouched' /\ Standing'
  <2>1. \A k \in Clients : k # c => req'[k] = req[k]
    BY <1>7 DEF CreatePaymentRead, Park, TypeOK
  <2>2. req'[c].op = "pay"
    BY <1>7 DEF CreatePaymentRead, Park, TypeOK
  <2>3. AbsentUntouched'
    BY <1>7, <2>1, <2>2, UntouchedKept DEF CreatePaymentRead
  <2>4. Standing'
    BY <1>7, StandingKept DEF CreatePaymentRead, PaymentsOn, HasEntry, Issued, Exists
  <2> QED
    BY <1>7, <2>3, <2>4, CreatePaymentReadType
<1>8. ASSUME NEW c \in Clients, NEW p \in Payments, NEW a \in Applications,
             NEW ts \in Applications, CreatePaymentWrite(c, p, a, ts)
      PROVE  TypeOK' /\ AbsentUntouched' /\ Standing'
  <2>1. \A d \in Docs : docs'[d].state = "absent" => docs[d].state = "absent"
    BY <1>8, MovesIssued DEF CreatePaymentWrite, MarkPaidIfSettled, TypeOK, Doc
  <2>2. req' = [req EXCEPT ![c] = Idle] /\ entry' = entry
    BY <1>8 DEF CreatePaymentWrite, Resume
  <2>3. AbsentUntouched'
    BY <2>1, <2>2, UntouchedKept, ResumeUntouched
  <2> QED
    BY <1>8, <2>3, CreatePaymentWriteType, CreatePaymentWriteStanding
<1>9. ASSUME NEW p \in Payments, VoidPayment(p)
      PROVE  TypeOK' /\ AbsentUntouched' /\ Standing'
  <2>1. \A d \in Docs : docs'[d].state = "absent" => docs[d].state = "absent"
    BY <1>9 DEF VoidPayment, ReopenIfUnsettled, TypeOK, Doc, Open
  <2>2. AbsentUntouched'
    BY <1>9, <2>1, UntouchedKept DEF VoidPayment
  <2> QED
    BY <1>9, <2>2, VoidPaymentType, VoidPaymentStanding
<1>10. ASSUME NEW c \in Clients, Fail(c)
       PROVE  TypeOK' /\ AbsentUntouched' /\ Standing'
  <2>1. req' = [req EXCEPT ![c] = Idle] /\ UNCHANGED <<docs, entry, payments>>
    BY <1>10 DEF Fail
  <2>2. TypeOK'
    BY <2>1, ResumeTypes DEF TypeOK, States, Open
  <2>3. AbsentUntouched'
    BY <2>1, UntouchedKept, ResumeUntouched
  <2>4. Standing'
    BY <2>1, StandingKept DEF PaymentsOn, HasEntry, Issued, Exists
  <2> QED
    BY <2>2, <2>3, <2>4
<1>11. CASE UNCHANGED vars
  BY <1>11 DEF vars, TypeOK, AbsentUntouched, Standing, PaymentsBacked, EntryOnlyWhenIssued,
               PaymentsOn, HasEntry, Issued, Exists, Open, States
<1>12. CASE Next
  BY <1>1, <1>2, <1>3, <1>4, <1>5, <1>6, <1>7, <1>8, <1>9, <1>10, <1>12, NextSteps, Zenon
<1> QED
  BY <1>11, <1>12

-----------------------------------------------------------------------------

\* The inductive invariant holds of every behaviour.
THEOREM SettlementInvariant == Spec => []IInv
  BY InitIInv, StepIInv, PTL DEF Spec

\* Every variable keeps its type, and documents and requests the states of
\* their kind.
THEOREM SettlementTypeOK == Spec => []TypeOK
<1>1. IInv => TypeOK
  BY DEF IInv
<1> QED
  BY <1>1, SettlementInvariant, PTL

\* A payment stands only on an issued document with a live entry, whatever
\* state changes, edits and deletes were in flight with it.
THEOREM SettlementBacked == Spec => []PaymentsBacked
<1>1. IInv => PaymentsBacked
  BY DEF IInv
<1> QED
  BY <1>1, SettlementInvariant, PTL

\* A document back in draft or cancelled has no live entry.
THEOREM SettlementEntryIssued == Spec => []EntryOnlyWhenIssued
<1>1. IInv => EntryOnlyWhenIssued
  BY DEF IInv
<1> QED
  BY <1>1, SettlementInvariant, PTL

\* While an entry is live, no handler changes the total it was posted for.
THEOREM SettlementFrozen == Spec => PostedFiguresFrozen
<1>1. ASSUME IInv, [Next]_vars PROVE [FiguresFrozen]_vars
  <2> SUFFICES ASSUME Next, NEW d \in Docs, HasEntry(d), entry'[d] = entry[d]
               PROVE  docs'[d].total = docs[d].total
    BY <1>1 DEF FiguresFrozen
  <2> TypeOK /\ AbsentUntouched
    BY <1>1 DEF IInv
  <2>1. ASSUME NEW e \in Docs, NEW t \in Totals, NEW m \in BOOLEAN, NEW s \in States(e),
               Create(e, s, t, m)
        PROVE  docs'[d].total = docs[d].total
    <3>1. d # e
      BY <2>1 DEF Create, AbsentUntouched
    <3> QED
      BY <2>1, <3>1 DEF Create, TypeOK
  <2>2. ASSUME NEW e \in Docs, NEW t \in Totals, NEW m \in BOOLEAN, Update(e, t, m)
        PROVE  docs'[d].total = docs[d].total
    BY <2>2 DEF Update, Editable, TypeOK
  <2>3. ASSUME NEW e \in Docs, Delete(e) \/ MatchChanges(e)
        PROVE  docs'[d].total = docs[d].total
    BY <2>3 DEF Delete, MatchChanges, TypeOK, Doc
  <2>4. ASSUME NEW c \in Clients, NEW e \in Docs, NEW s \in States(e), NEW t \in Totals,
               UpdateStateWrite(c, e, s, t)
        PROVE  docs'[d].total = docs[d].total
    BY <2>4 DEF UpdateStateWrite, TypeOK, Doc
  <2>5. ASSUME NEW c \in Clients, NEW a \in Applications, CreatePaymentRead(c, a)
        PROVE  docs'[d].total = docs[d].total
    BY <2>5 DEF CreatePaymentRead
  <2>6. ASSUME NEW a \in Applications, docs' \in {MarkPaidIfSettled(a), ReopenIfUnsettled(a)}
        PROVE  docs'[d].total = docs[d].total
    BY <2>6 DEF MarkPaidIfSettled, ReopenIfUnsettled, TypeOK, Doc
  <2>7. ASSUME NEW c \in Clients, NEW p \in Payments, NEW a \in Applications,
               NEW ts \in Applications, CreatePaymentWrite(c, p, a, ts)
        PROVE  docs'[d].total = docs[d].total
    BY <2>6, <2>7 DEF CreatePaymentWrite
  <2>8. ASSUME NEW p \in Payments, VoidPayment(p)
        PROVE  docs'[d].total = docs[d].total
    BY <2>6, <2>8 DEF VoidPayment, TypeOK, Payment
  <2>9. ASSUME NEW c \in Clients, Fail(c)
        PROVE  docs'[d].total = docs[d].total
    BY <2>9 DEF Fail
  <2>10. \A c \in Clients, e \in Docs : \A s \in States(e) :
            UpdateStateRead(c, e, s) => docs'[d].total = docs[d].total
    BY DEF UpdateStateRead
  <2> QED
    BY <2>1, <2>2, <2>3, <2>4, <2>5, <2>7, <2>8, <2>9, <2>10, NextSteps, Zenon
<1> QED
  BY <1>1, SettlementInvariant, PTL DEF Spec, PostedFiguresFrozen
-----------------------------------------------------------------------------
(* What payments cover. Payments are recorded one at a time, so those on a *)
(* document are finitely many, and a step takes one into Paid or out of it.*)

FinitelyPaid == \A d \in Docs : IsFiniteSet(PaymentsOn(d))

Records(p, a) ==
  /\ payments[p].status = "absent"
  /\ payments' = [payments EXCEPT ![p] = [status |-> "posted", applied |-> a]]

Voids(p) ==
  /\ payments[p].status = "posted"
  /\ payments' = [payments EXCEPT ![p].status = "voided"]

\* What a step does to the payments, by the action that does it.
LEMMA PaymentActions ==
  ASSUME TypeOK, Next
  PROVE  \/ UNCHANGED payments
         \/ \E c \in Clients, p \in Payments, a \in Applications, ts \in Applications :
              CreatePaymentWrite(c, p, a, ts)
         \/ \E p \in Payments : VoidPayment(p)
<1>1. ASSUME NEW c \in Clients, NEW d, NEW s, NEW t, UpdateStateRead(c, d, s) \/ UpdateStateWrite(c, d, s, t)
      PROVE  UNCHANGED payments
  BY <1>1 DEF UpdateStateRead, UpdateStateWrite
<1>2. ASSUME NEW d, NEW s, NEW t, NEW m, Create(d, s, t, m) \/ Update(d, t, m) \/ Delete(d) \/ MatchChanges(d)
      PROVE  UNCHANGED payments
  BY <1>2 DEF Create, Update, Delete, MatchChanges
<1>3. ASSUME NEW c \in Clients, NEW a, CreatePaymentRead(c, a) \/ Fail(c)
      PROVE  UNCHANGED payments
  BY <1>3 DEF CreatePaymentRead, Fail
<1> QED
  BY <1>1, <1>2, <1>3, NextSteps, Zenon

\* A step records a payment, voids one or leaves them alone.
LEMMA PaymentsChange ==
  ASSUME TypeOK, [Next]_vars
  PROVE  \/ UNCHANGED payments
         \/ \E p \in Payments, a \in Applications : Records(p, a)
         \/ \E p \in Payments : Voids(p)
<1>1. CASE UNCHANGED vars
  BY <1>1 DEF vars
<1>2. CASE Next
  BY <1>2, PaymentActions DEF CreatePaymentWrite, VoidPayment, Records, Voids
<1> QED
  BY <1>1, <1>2

\* The amounts payments apply to d.
Amounts(d) == [p \in Payments |-> payments[p].applied[d]]

LEMMA AmountsTyped ==
  ASSUME TypeOK, NEW d \in Docs, NEW p \in Payments
  PROVE  Amounts(d)[p] \in Nat
BY ConstantsAssumption DEF TypeOK, Payment, Applications, Totals, Amounts

LEMMA PaidIsTotal == ASSUME NEW d PROVE Paid(d) = Total(Amounts(d), PaymentsOn(d))
BY DEF Paid, Amounts

LEMMA PaidTyped ==
  ASSUME TypeOK, FinitelyPaid, NEW d \in Docs
  PROVE  Paid(d) \in Nat
<1>1. \A p \in PaymentsOn(d) : Amounts(d)[p] \in Nat
  BY AmountsTyped DEF PaymentsOn
<1> QED
  BY <1>1, PaidIsTotal, TotalNat DEF FinitelyPaid

\* Nothing is paid on what has no payment.
LEMMA PaidNothing ==
  ASSUME NEW d, PaymentsOn(d) = {}
  PROVE  Paid(d) = 0
BY PaidIsTotal, TotalEmpty

\* A recorded payment adds what it applies.
LEMMA RecordsPaid ==
  ASSUME TypeOK, FinitelyPaid, NEW p \in Payments, NEW a \in Applications, Records(p, a), NEW d \in Docs
  PROVE  Paid(d)' = Paid(d) + a[d] /\ IsFiniteSet(PaymentsOn(d)')
<1>1. a[d] \in Nat
  BY ConstantsAssumption DEF Applications, Totals
<1>2. p \notin PaymentsOn(d) /\ IsFiniteSet(PaymentsOn(d)) /\ PaymentsOn(d) \subseteq Payments
  BY DEF Records, PaymentsOn, FinitelyPaid
<1>3. \A q \in Payments \ {p} : payments'[q] = payments[q]
  BY DEF Records, TypeOK
<1>4. payments'[p].status = "posted" /\ payments'[p].applied = a
  BY DEF Records, TypeOK
<1>5. \A q \in PaymentsOn(d) : Amounts(d)[q] = Amounts(d)'[q] /\ Amounts(d)[q] \in Nat
  BY <1>2, <1>3, AmountsTyped DEF Amounts
<1>6. Total(Amounts(d), PaymentsOn(d)) = Total(Amounts(d)', PaymentsOn(d))
  BY <1>2, <1>5, TotalEqual
<1>7. Paid(d)' = Total(Amounts(d)', PaymentsOn(d)')
  BY DEF Paid, Amounts
<1>8. CASE a[d] > 0
  <2>1. PaymentsOn(d)' = PaymentsOn(d) \cup {p}
    BY <1>2, <1>3, <1>4, <1>8 DEF PaymentsOn
  <2>2. Amounts(d)'[p] = a[d]
    BY <1>4 DEF Amounts
  <2> DEFINE now == PaymentsOn(d) \cup {p}
  <2>3. IsFiniteSet(now) /\ p \in now /\ now \ {p} = PaymentsOn(d)
    BY <1>2, FS_AddElement
  <2>4. \A q \in now : Amounts(d)'[q] \in Int
    BY <1>1, <1>5, <2>2
  <2>5. Total(Amounts(d)', now) = a[d] + Total(Amounts(d)', PaymentsOn(d))
    <3> HIDE DEF now
    <3> QED BY <2>2, <2>3, <2>4, TotalRemove
  <2>6. Paid(d) \in Nat
    BY PaidTyped
  <2> QED
    BY <1>1, <1>6, <1>7, <2>1, <2>3, <2>5, <2>6, PaidIsTotal
<1>9. CASE a[d] = 0
  <2>1. PaymentsOn(d)' = PaymentsOn(d)
    BY <1>2, <1>3, <1>4, <1>9 DEF PaymentsOn
  <2>2. Paid(d) \in Nat
    BY PaidTyped
  <2> QED
    BY <1>2, <1>6, <1>7, <1>9, <2>1, <2>2, PaidIsTotal
<1> QED
  BY <1>1, <1>8, <1>9

\* A voided one takes it away.
LEMMA VoidsPaid ==
  ASSUME TypeOK, FinitelyPaid, NEW p \in Payments, Voids(p), NEW d \in Docs
  PROVE  /\ Paid(d)' = Paid(d) - payments[p].applied[d]
         /\ Paid(d)' \in Nat
         /\ IsFiniteSet(PaymentsOn(d)')
<1> DEFINE a == payments[p].applied
<1>1. a[d] \in Nat
  BY ConstantsAssumption DEF TypeOK, Payment, Applications, Totals
<1>2. IsFiniteSet(PaymentsOn(d)) /\ PaymentsOn(d) \subseteq Payments
  BY DEF PaymentsOn, FinitelyPaid
<1>3. \A q \in Payments \ {p} : payments'[q] = payments[q]
  BY DEF Voids, TypeOK
<1>4. payments'[p].status = "voided" /\ payments'[p].applied = a
  BY DEF Voids, TypeOK, Payment
<1>5. PaymentsOn(d)' = PaymentsOn(d) \ {p}
  BY <1>3, <1>4 DEF PaymentsOn
<1>6. IsFiniteSet(PaymentsOn(d) \ {p})
  BY <1>2, FS_Subset
<1>7. \A q \in PaymentsOn(d) \ {p} : Amounts(d)[q] = Amounts(d)'[q] /\ Amounts(d)[q] \in Nat
  BY <1>2, <1>3, AmountsTyped DEF Amounts
<1>8. Total(Amounts(d), PaymentsOn(d) \ {p}) = Total(Amounts(d)', PaymentsOn(d) \ {p})
  <2> DEFINE rest == PaymentsOn(d) \ {p}
  <2> HIDE DEF rest
  <2> QED BY <1>6, <1>7, TotalEqual DEF rest
<1>9. Paid(d)' = Total(Amounts(d)', PaymentsOn(d)')
  BY DEF Paid, Amounts
<1>10. Total(Amounts(d), PaymentsOn(d) \ {p}) \in Nat
  BY <1>6, <1>7, TotalNat
<1>11. CASE p \in PaymentsOn(d)
  <2>1. \A q \in PaymentsOn(d) : Amounts(d)[q] \in Int
    BY <1>2, AmountsTyped
  <2>2. Total(Amounts(d), PaymentsOn(d)) = Amounts(d)[p] + Total(Amounts(d), PaymentsOn(d) \ {p})
    BY <1>2, <1>11, <2>1, TotalRemove
  <2>3. Amounts(d)[p] = a[d]
    BY DEF Amounts
  <2> QED
    BY <1>1, <1>5, <1>6, <1>8, <1>9, <1>10, <2>2, <2>3, PaidIsTotal
<1>12. CASE p \notin PaymentsOn(d)
  <2>1. a[d] = 0
    BY <1>1, <1>12 DEF PaymentsOn, Voids
  <2>2. PaymentsOn(d) \ {p} = PaymentsOn(d)
    BY <1>12
  <2> QED
    BY <1>1, <1>5, <1>6, <1>8, <1>9, <1>10, <2>1, <2>2, PaidIsTotal
<1> QED
  BY <1>11, <1>12

LEMMA FinitelyPaidStep == TypeOK /\ FinitelyPaid /\ [Next]_vars => FinitelyPaid'
<1> SUFFICES ASSUME TypeOK, FinitelyPaid, [Next]_vars, NEW d \in Docs
             PROVE  IsFiniteSet(PaymentsOn(d)')
  BY DEF FinitelyPaid, Docs
<1>1. CASE UNCHANGED payments
  BY <1>1 DEF FinitelyPaid, PaymentsOn
<1>2. ASSUME NEW p \in Payments, NEW a \in Applications, Records(p, a)
      PROVE  IsFiniteSet(PaymentsOn(d)')
  BY <1>2, RecordsPaid
<1>3. ASSUME NEW p \in Payments, Voids(p)
      PROVE  IsFiniteSet(PaymentsOn(d)')
  BY <1>3, VoidsPaid
<1> QED
  BY <1>1, <1>2, <1>3, PaymentsChange

\* What is paid on a document is always a finite sum.
LEMMA AlwaysFinitelyPaid == Spec => []FinitelyPaid
<1>1. Init => FinitelyPaid
  <2>1. Init => \A d \in Docs : PaymentsOn(d) = {}
    BY DEF Init, PaymentsOn
  <2> QED
    BY <2>1, FS_EmptySet DEF FinitelyPaid
<1> QED
  BY <1>1, SettlementTypeOK, FinitelyPaidStep, PTL DEF Spec

\* Documents without an entry, or not issued, have nothing paid.
LEMMA UnbackedUnpaid ==
  ASSUME PaymentsBacked, NEW d \in Docs, ~HasEntry(d) \/ ~Issued(d)
  PROVE  PaymentsOn(d) = {} /\ Paid(d) = 0
BY PaidNothing DEF PaymentsBacked

\* A step that is no payment changes the total of an unpaid document only.
LEMMA TotalsChange ==
  ASSUME IInv, Next, UNCHANGED payments, NEW d \in Docs
  PROVE  /\ Paid(d)' = Paid(d)
         /\ docs'[d].total = docs[d].total \/ Paid(d) = 0
<1> TypeOK /\ PaymentsBacked
  BY DEF IInv
<1>1. Paid(d)' = Paid(d)
  BY DEF Paid, PaymentsOn
<1>2. ASSUME NEW e \in Docs, NEW t, NEW m, NEW s, Create(e, s, t, m)
      PROVE  docs'[d].total = docs[d].total \/ Paid(d) = 0
  <2>1. ~Issued(e)
    BY <1>2 DEF Create, Issued, Open
  <2>2. d # e => docs'[d] = docs[d]
    BY <1>2 DEF Create, TypeOK
  <2> QED
    BY <2>1, <2>2, UnbackedUnpaid
<1>3. ASSUME NEW e \in Docs, NEW t, NEW m, Update(e, t, m)
      PROVE  docs'[d].total = docs[d].total \/ Paid(d) = 0
  <2>1. ~HasEntry(e)
    BY <1>3 DEF Update, Editable
  <2>2. d # e => docs'[d] = docs[d]
    BY <1>3 DEF Update, TypeOK
  <2> QED
    BY <2>1, <2>2, UnbackedUnpaid
<1>4. ASSUME NEW e \in Docs, Delete(e) \/ MatchChanges(e)
      PROVE  docs'[d].total = docs[d].total
  BY <1>4 DEF Delete, MatchChanges, TypeOK, Doc
<1>5. ASSUME NEW c \in Clients, NEW e \in Docs, NEW s, NEW t,
             UpdateStateRead(c, e, s) \/ UpdateStateWrite(c, e, s, t)
      PROVE  docs'[d].total = docs[d].total
  BY <1>5 DEF UpdateStateRead, UpdateStateWrite, TypeOK, Doc
<1>6. ASSUME NEW c \in Clients, NEW a, CreatePaymentRead(c, a) \/ Fail(c)
      PROVE  docs'[d].total = docs[d].total
  BY <1>6 DEF CreatePaymentRead, Fail
<1>7. ASSUME NEW a \in Applications, docs' \in {MarkPaidIfSettled(a), ReopenIfUnsettled(a)}
      PROVE  docs'[d].total = docs[d].total
  BY <1>7 DEF MarkPaidIfSettled, ReopenIfUnsettled, TypeOK, Doc
<1>8. ASSUME NEW c \in Clients, NEW p \in Payments, NEW a \in Applications, NEW ts,
             CreatePaymentWrite(c, p, a, ts)
      PROVE  docs'[d].total = docs[d].total
  BY <1>7, <1>8 DEF CreatePaymentWrite
<1>9. ASSUME NEW p \in Payments, VoidPayment(p)
      PROVE  docs'[d].total = docs[d].total
  BY <1>7, <1>9 DEF VoidPayment, TypeOK, Payment
<1> QED
  BY <1>1, <1>2, <1>3, <1>4, <1>5, <1>6, <1>8, <1>9, NextSteps, Zenon

\* The two steps that change what is paid.
LEMMA PayingStep ==
  ASSUME IInv, FinitelyPaid, NEW c \in Clients, NEW p \in Payments, NEW a \in Applications,
         NEW ts \in Applications, CreatePaymentWrite(c, p, a, ts), NEW d \in Docs
  PROVE  /\ Paid(d)' = Paid(d) + a[d] /\ a[d] \in Nat
         /\ docs'[d].total = docs[d].total
         /\ a[d] > 0 => Paid(d) + a[d] <= ts[d]
         /\ a[d] > 0 /\ docs[d].state = Open(d) /\ docs[d].total > 0
              /\ Paid(d) + a[d] >= docs[d].total => docs'[d].state = "paid"
         /\ docs'[d].state = docs[d].state \/ docs'[d].state = "paid"
<1> TypeOK
  BY DEF IInv
<1>1. Records(p, a)
  BY DEF CreatePaymentWrite, Records
<1>2. Paid(d)' = Paid(d) + a[d] /\ Paid(d) \in Nat
  BY <1>1, RecordsPaid, PaidTyped
<1>3. a[d] \in Nat /\ ts[d] \in Nat
  BY ConstantsAssumption DEF Applications, Totals
<1>4. docs'[d] = IF /\ a[d] > 0 /\ docs[d].state = Open(d)
                    /\ docs[d].total > 0 /\ Paid(d) + a[d] >= docs[d].total
                 THEN [docs[d] EXCEPT !.state = "paid"] ELSE docs[d]
  BY DEF CreatePaymentWrite, MarkPaidIfSettled
<1>5. docs[d] \in Doc
  BY DEF TypeOK
<1>6. a[d] > 0 => a[d] <= ts[d] - Paid(d)
  BY DEF CreatePaymentWrite
<1>7. a[d] > 0 => Paid(d) + a[d] <= ts[d]
  BY <1>2, <1>3, <1>6
<1> QED
  BY <1>2, <1>3, <1>4, <1>5, <1>7 DEF Doc

LEMMA VoidingStep ==
  ASSUME IInv, FinitelyPaid, NEW p \in Payments, VoidPayment(p), NEW d \in Docs
  PROVE  /\ Paid(d)' = Paid(d) - payments[p].applied[d] /\ payments[p].applied[d] \in Nat
         /\ docs'[d].total = docs[d].total
         /\ docs[d].state = "paid" /\ Paid(d) >= docs[d].total /\ Paid(d)' < docs[d].total
              => docs'[d].state # "paid"
         /\ docs'[d].state = "paid" => docs[d].state = "paid"
<1> TypeOK
  BY DEF IInv
<1> DEFINE a == payments[p].applied
<1>1. Voids(p)
  BY DEF VoidPayment, Voids
<1>2. Paid(d)' = Paid(d) - a[d] /\ Paid(d) \in Nat
  BY <1>1, VoidsPaid, PaidTyped
<1>3. a[d] \in Nat
  BY ConstantsAssumption DEF TypeOK, Payment, Applications, Totals
<1>4. docs'[d] = IF /\ a[d] > 0 /\ docs[d].state = "paid"
                    /\ Paid(d) >= docs[d].total /\ Paid(d) - a[d] < docs[d].total
                 THEN [docs[d] EXCEPT !.state = Open(d)] ELSE docs[d]
  BY DEF VoidPayment, ReopenIfUnsettled
<1>5. docs[d] \in Doc /\ docs[d].total \in Nat
  BY ConstantsAssumption DEF TypeOK, Doc, Totals
<1>6. Paid(d)' < docs[d].total /\ Paid(d) >= docs[d].total => a[d] > 0
  BY <1>2, <1>3, <1>5
<1>7. Open(d) # "paid"
  BY DEF Open
<1> HIDE DEF a
<1>8. docs'[d].total = docs[d].total
  BY <1>4, <1>5 DEF Doc
<1>9. docs[d].state = "paid" /\ Paid(d) >= docs[d].total /\ Paid(d)' < docs[d].total
        => docs'[d].state # "paid"
  BY <1>2, <1>4, <1>5, <1>6, <1>7 DEF Doc
<1>10. docs'[d].state = "paid" => docs[d].state = "paid"
  BY <1>4, <1>5, <1>7 DEF Doc
<1> QED
  BY <1>2, <1>3, <1>8, <1>9, <1>10 DEF a

\* Payments keep "paid" in step with the balance: the payment that covers a
\* total moves its document, the void that uncovers it moves it back, and no
\* total is edited while anything is paid (payment_state.go).
THEOREM SettlementPaidTracks == Spec => PaidTracksBalance
<1>1. ASSUME IInv, FinitelyPaid, [Next]_vars PROVE [BalanceMovesState]_vars
  <2> SUFFICES ASSUME Next, NEW d \in Docs, docs[d].total > 0, docs'[d].total > 0
               PROVE  /\ Paid(d) < docs[d].total /\ Paid(d)' >= docs'[d].total => docs'[d].state # Open(d)
                      /\ Paid(d) >= docs[d].total /\ Paid(d)' < docs'[d].total => docs'[d].state # "paid"
    BY <1>1 DEF BalanceMovesState
  <2> TypeOK
    BY <1>1 DEF IInv
  <2> Paid(d) \in Nat /\ docs[d].total \in Nat /\ docs[d] \in Doc /\ Open(d) # "paid"
    BY <1>1, PaidTyped, ConstantsAssumption DEF TypeOK, Doc, Totals, Open
  <2>1. CASE UNCHANGED payments
    <3>1. Paid(d)' = Paid(d) /\ (docs'[d].total = docs[d].total \/ Paid(d) = 0)
      BY <1>1, <2>1, TotalsChange
    <3>2. docs'[d].total \in Nat
      <4>1. TypeOK'
        BY <1>1, StepIInv DEF IInv
      <4> QED
        BY <4>1, ConstantsAssumption DEF TypeOK, Doc, Docs, Totals
    <3> QED
      BY <3>1, <3>2
  <2>2. ASSUME NEW c \in Clients, NEW p \in Payments, NEW a \in Applications,
               NEW ts \in Applications, CreatePaymentWrite(c, p, a, ts)
        PROVE  /\ Paid(d) < docs[d].total /\ Paid(d)' >= docs'[d].total => docs'[d].state # Open(d)
               /\ Paid(d) >= docs[d].total /\ Paid(d)' < docs'[d].total => docs'[d].state # "paid"
    <3>1. /\ Paid(d)' = Paid(d) + a[d] /\ a[d] \in Nat
          /\ docs'[d].total = docs[d].total
          /\ a[d] > 0 /\ docs[d].state = Open(d) /\ docs[d].total > 0
               /\ Paid(d) + a[d] >= docs[d].total => docs'[d].state = "paid"
          /\ docs'[d].state = docs[d].state \/ docs'[d].state = "paid"
      BY <1>1, <2>2, PayingStep
    <3>2. Paid(d) < docs[d].total /\ Paid(d) + a[d] >= docs[d].total => a[d] > 0
      BY <3>1
    <3> QED
      BY <3>1, <3>2
  <2>3. ASSUME NEW p \in Payments, VoidPayment(p)
        PROVE  /\ Paid(d) < docs[d].total /\ Paid(d)' >= docs'[d].total => docs'[d].state # Open(d)
               /\ Paid(d) >= docs[d].total /\ Paid(d)' < docs'[d].total => docs'[d].state # "paid"
    <3>1. /\ Paid(d)' = Paid(d) - payments[p].applied[d] /\ payments[p].applied[d] \in Nat
          /\ docs'[d].total = docs[d].total
          /\ docs[d].state = "paid" /\ Paid(d) >= docs[d].total /\ Paid(d)' < docs[d].total
               => docs'[d].state # "paid"
          /\ docs'[d].state = "paid" => docs[d].state = "paid"
      BY <1>1, <2>3, VoidingStep
    <3>2. ~(Paid(d) < docs[d].total /\ Paid(d)' >= docs[d].total)
      BY <3>1
    <3> QED
      BY <3>1, <3>2
  <2> QED
    BY <2>1, <2>2, <2>3, PaymentActions
<1> QED
  BY <1>1, SettlementInvariant, AlwaysFinitelyPaid, PTL DEF Spec, PaidTracksBalance

\* Payments recorded at once never together settle more than a document is
\* for, but for one computed from a total since edited (F48).
THEOREM SettlementOverpaid == Spec => OverpaidOnlyByStaleTotal
<1> DEFINE Stale(d) == \E c \in Clients : /\ req[c].op = "pay" /\ req'[c] = Idle
                                          /\ req[c].totals[d] > docs[d].total
           NotOverpaid == \A d \in Docs : Paid(d) <= docs[d].total /\ Paid(d)' > docs'[d].total => Stale(d)
<1>1. ASSUME IInv, FinitelyPaid, [Next]_vars PROVE [NotOverpaid]_vars
  <2> SUFFICES ASSUME Next, NEW d \in Docs, Paid(d) <= docs[d].total, Paid(d)' > docs'[d].total
               PROVE  Stale(d)
    BY <1>1
  <2> TypeOK
    BY <1>1 DEF IInv
  <2> Paid(d) \in Nat /\ docs[d].total \in Nat
    BY <1>1, PaidTyped, ConstantsAssumption DEF TypeOK, Doc, Totals
  <2>1. CASE UNCHANGED payments
    <3>1. Paid(d)' = Paid(d) /\ (docs'[d].total = docs[d].total \/ Paid(d) = 0)
      BY <1>1, <2>1, TotalsChange
    <3>2. docs'[d].total \in Nat
      <4>1. TypeOK'
        BY <1>1, StepIInv DEF IInv
      <4> QED
        BY <4>1, ConstantsAssumption DEF TypeOK, Doc, Docs, Totals
    <3> QED
      BY <3>1, <3>2
  <2>2. ASSUME NEW c \in Clients, NEW p \in Payments, NEW a \in Applications,
               NEW ts \in Applications, CreatePaymentWrite(c, p, a, ts)
        PROVE  Stale(d)
    <3>1. /\ Paid(d)' = Paid(d) + a[d] /\ a[d] \in Nat
          /\ docs'[d].total = docs[d].total
          /\ a[d] > 0 => Paid(d) + a[d] <= ts[d]
      BY <1>1, <2>2, PayingStep
    <3>2. ts[d] \in Nat
      BY ConstantsAssumption DEF Applications, Totals
    <3>3. ts[d] > docs[d].total
      BY <3>1, <3>2
    <3>4. req[c].op = "pay" /\ req[c].totals = ts /\ req'[c] = Idle
      BY <2>2 DEF CreatePaymentWrite, Resume, TypeOK
    <3> QED
      BY <3>3, <3>4
  <2>3. ASSUME NEW p \in Payments, VoidPayment(p)
        PROVE  Stale(d)
    <3>1. /\ Paid(d)' = Paid(d) - payments[p].applied[d] /\ payments[p].applied[d] \in Nat
          /\ docs'[d].total = docs[d].total
      BY <1>1, <2>3, VoidingStep
    <3> QED
      BY <3>1
  <2> QED
    BY <2>1, <2>2, <2>3, PaymentActions
<1> QED
  BY <1>1, SettlementInvariant, AlwaysFinitelyPaid, PTL DEF Spec, OverpaidOnlyByStaleTotal

-----------------------------------------------------------------------------
(* Postings: rounding.                                                     *)

LEMMA RoundType ==
  ASSUME NEW n \in Int, NEW d \in Nat \ {0}
  PROVE  /\ roundHalfUp(<<n, d>>) \in Int
         /\ n >= 0 => roundHalfUp(<<n, d>>) \in Nat
<1> DEFINE q == (2 * n + d) \div (2 * d)
           r == (2 * (-n) + d) \div (2 * d)
<1>1. 2 * d \in Nat \ {0} /\ 2 * n + d \in Int /\ 2 * (-n) + d \in Int
  OBVIOUS
<1>2. q \in Int /\ r \in Int /\ (n >= 0 => q >= 0)
  BY <1>1
<1>3. roundHalfUp(<<n, d>>) = IF n >= 0 THEN q ELSE -r
  BY DEF roundHalfUp
<1> HIDE DEF q, r
<1> QED BY <1>2, <1>3

\* The rounded amount is at most half a unit away.
LEMMA RoundClose ==
  ASSUME NEW n \in Nat, NEW d \in Nat \ {0}, NEW q, q = roundHalfUp(<<n, d>>)
  PROVE  q \in Nat /\ -d <= 2 * (q * d) - 2 * n /\ 2 * (q * d) - 2 * n <= d
<1> DEFINE m == 2 * n + d
           e == 2 * d
<1>1. m \in Nat /\ e \in Nat \ {0} /\ q = m \div e
  BY DEF roundHalfUp
<1> HIDE DEF m, e
<1>2. (m \div e) \in Nat /\ (m \div e) * e <= m /\ m < ((m \div e) + 1) * e
  BY <1>1
<1>3. q \in Nat /\ q * e <= m /\ m < (q + 1) * e
  BY <1>1, <1>2
<1>4. (q + 1) * e = q * e + e /\ q * e = 2 * (q * d)
  BY <1>1, <1>3 DEF e
<1>5. q * d \in Nat
  BY <1>3
<1> HIDE DEF e
<1>6. q * e = 2 * (q * d) /\ e = 2 * d /\ m = 2 * n + d
  BY <1>4 DEF e, m
<1> QED BY <1>3, <1>4, <1>5, <1>6

LEMMA ProductNat == ASSUME NEW a \in Nat, NEW b \in Nat PROVE a * b \in Nat
OBVIOUS

LEMMA ConvertType ==
  ASSUME NEW cents \in Int, NEW rate \in Rate
  PROVE  /\ convertCents(cents, rate) \in Int
         /\ cents >= 0 => convertCents(cents, rate) \in Nat
<1>1. rate[1] \in Nat \ {0} /\ rate[2] \in Nat \ {0}
  BY DEF Rate
<1>2. cents * rate[1] \in Int /\ (cents >= 0 => cents * rate[1] >= 0)
  BY <1>1, ProductNat
<1> QED BY <1>1, <1>2, RoundType DEF convertCents

-----------------------------------------------------------------------------
(* What sets of legs add up to.                                            *)

LegAmounts(legs) ==
  IsFiniteSet(legs) /\ \A l \in legs : l.debit \in Int /\ l.credit \in Int

LEMMA NetIs ==
  ASSUME NEW legs, LegAmounts(legs), NEW f, \A l \in legs : f[l] = l.debit - l.credit
  PROVE  NetOf(legs) = Total(f, legs) /\ NetOf(legs) \in Int
<1> DEFINE g == [l \in legs |-> l.debit - l.credit]
<1>1. NetOf(legs) = Total(g, legs)
  BY DEF NetOf, SumOf
<1>2. \A l \in legs : g[l] = f[l] /\ g[l] \in Int
  BY DEF LegAmounts
<1> HIDE DEF g
<1> QED BY <1>1, <1>2, TotalEqual, TotalType DEF LegAmounts

LEMMA NetUnion ==
  ASSUME NEW A, NEW B, LegAmounts(A), LegAmounts(B), A \cap B = {}
  PROVE  /\ LegAmounts(A \cup B) /\ NetOf(A \cup B) = NetOf(A) + NetOf(B)
         /\ NetOf(A) \in Int /\ NetOf(B) \in Int
<1> DEFINE f == [l \in A \cup B |-> l.debit - l.credit]
<1>1. LegAmounts(A \cup B)
  BY FS_Union DEF LegAmounts
<1>2. \A l \in A \cup B : f[l] = l.debit - l.credit /\ f[l] \in Int
  BY DEF LegAmounts
<1> HIDE DEF f
<1>3. NetOf(A) = Total(f, A) /\ NetOf(A) \in Int
  BY <1>2, NetIs
<1>4. NetOf(B) = Total(f, B) /\ NetOf(B) \in Int
  BY <1>2, NetIs
<1>5. NetOf(A \cup B) = Total(f, A \cup B)
  BY <1>1, <1>2, NetIs
<1>6. Total(f, A \cup B) = Total(f, A) + Total(f, B)
  BY <1>2, TotalUnion DEF LegAmounts
<1> QED BY <1>1, <1>3, <1>4, <1>5, <1>6

LEMMA NetOne ==
  ASSUME NEW l, l.debit \in Int, l.credit \in Int
  PROVE  LegAmounts({l}) /\ NetOf({l}) = l.debit - l.credit
<1> DEFINE f == [k \in {l} |-> k.debit - k.credit]
<1>1. LegAmounts({l})
  BY FS_Singleton DEF LegAmounts
<1>2. f[l] = l.debit - l.credit /\ f[l] \in Int
  OBVIOUS
<1>3. \A k \in {l} : f[k] = k.debit - k.credit
  OBVIOUS
<1> HIDE DEF f
<1>4. NetOf({l}) = Total(f, {l})
  BY <1>1, <1>3, NetIs
<1>5. {l} \ {l} = {} /\ \A k \in {l} : f[k] \in Int
  BY <1>2
<1>6. Total(f, {l}) = f[l] + Total(f, {l} \ {l})
  BY <1>1, <1>5, TotalRemove DEF LegAmounts
<1>7. Total(f, {l}) = f[l] + 0
  BY <1>5, <1>6, TotalEmpty
<1> QED BY <1>1, <1>2, <1>4, <1>7

\* Legs of nothing add nothing.
LEMMA NetLegs ==
  ASSUME NEW legs, LegAmounts(legs)
  PROVE  LegAmounts(Legs(legs)) /\ NetOf(Legs(legs)) = NetOf(legs)
<1> DEFINE f == [l \in legs |-> l.debit - l.credit]
<1>1. Legs(legs) \in SUBSET legs /\ LegAmounts(Legs(legs))
  BY FS_Subset DEF Legs, LegAmounts
<1>2. \A l \in legs : f[l] = l.debit - l.credit /\ f[l] \in Int
  BY DEF LegAmounts
<1>3. \A l \in legs \ Legs(legs) : f[l] = 0
  BY <1>2 DEF Legs
<1> HIDE DEF f
<1>4. NetOf(legs) = Total(f, legs)
  BY <1>2, NetIs
<1>5. NetOf(Legs(legs)) = Total(f, Legs(legs))
  BY <1>1, <1>2, NetIs
<1> QED BY <1>1, <1>2, <1>3, <1>4, <1>5, TotalSupport DEF LegAmounts

\* A leg for each of S.
LEMMA NetEach ==
  ASSUME NEW S, IsFiniteSet(S), NEW row, \A a, b \in S : row[a] = row[b] => a = b,
         \A a \in S : row[a].debit \in Int /\ row[a].credit \in Int,
         NEW f, \A a \in S : f[a] = row[a].debit - row[a].credit
  PROVE  LegAmounts({row[a] : a \in S}) /\ NetOf({row[a] : a \in S}) = Total(f, S)
<1> DEFINE legs == {row[a] : a \in S}
           g == [l \in legs |-> l.debit - l.credit]
<1>1. LegAmounts(legs)
  <2>1. IsFiniteSet({row[a] : a \in S})
    BY ImageFinite
  <2> QED BY <2>1 DEF LegAmounts
<1>2. /\ \A l \in legs : g[l] = l.debit - l.credit
      /\ \A a \in S : g[row[a]] = f[a] /\ f[a] \in Int
  OBVIOUS
<1> HIDE DEF g
<1>3. NetOf(legs) = Total(g, legs)
  BY <1>1, <1>2, NetIs
<1>4. Total(g, {row[a] : a \in S}) = Total(f, S)
  BY <1>2, TotalImage
<1> QED BY <1>1, <1>3, <1>4

\* What balances has equal sides.
LEMMA SidesEqual ==
  ASSUME NEW legs, LegAmounts(legs), NetOf(legs) = 0
  PROVE  SumOf([l \in legs |-> l.debit]) = SumOf([l \in legs |-> l.credit])
<1> DEFINE f == [l \in legs |-> l.debit]
           g == [l \in legs |-> l.credit]
           h == [l \in legs |-> l.debit - l.credit]
<1>1. \A l \in legs : f[l] \in Int /\ g[l] \in Int /\ h[l] = f[l] - g[l]
  BY DEF LegAmounts
<1>2. SumOf(f) = Total(f, legs) /\ SumOf(g) = Total(g, legs) /\ Total(h, legs) = 0
  BY DEF SumOf, NetOf
<1> HIDE DEF f, g, h
<1>3. Total(f, legs) - Total(g, legs) = 0 /\ Total(f, legs) \in Int /\ Total(g, legs) \in Int
  BY <1>1, <1>2, TotalMinus, TotalType DEF LegAmounts
<1>4. SumOf(f) = SumOf(g)
  BY <1>2, <1>3
<1> QED BY <1>4 DEF f, g

-----------------------------------------------------------------------------
(* The residual.                                                           *)

\* One group takes what the others leave of the target.
TakenBy(new, amounts, S, target, l) ==
  /\ \A a \in S \ {l} : new[a] = amounts[a]
  /\ new[l] = target - Total(amounts, S \ {l})

LEMMA Absorbed ==
  ASSUME NEW S, IsFiniteSet(S), S # {}, NEW amounts \in [S -> Int], NEW target \in Int
  PROVE  /\ absorbResidual(amounts, target) \in [S -> Int]
         /\ \E l \in S : TakenBy(absorbResidual(amounts, target), amounts, S, target, l)
<1> DEFINE largest == CHOOSE a \in DOMAIN amounts : \A b \in DOMAIN amounts : amounts[a] >= amounts[b]
           sum == SumOf(amounts)
           new == [amounts EXCEPT ![largest] = @ + target - sum]
<1>1. absorbResidual(amounts, target) = new
  BY DEF absorbResidual
<1>2. largest \in S
  BY Greatest
<1>3. sum = Total(amounts, S) /\ sum \in Int
  BY TotalType DEF SumOf
<1> HIDE DEF largest, sum
<1>4. new \in [S -> Int] /\ new[largest] = amounts[largest] + target - sum
      /\ \A a \in S \ {largest} : new[a] = amounts[a]
  BY <1>2, <1>3
<1> HIDE DEF new
<1>5. Total(amounts, S) = amounts[largest] + Total(amounts, S \ {largest})
  BY <1>2, TotalRemove
<1>6. amounts[largest] \in Int /\ Total(amounts, S \ {largest}) \in Int
  <2>1. IsFiniteSet(S \ {largest}) /\ \A a \in S \ {largest} : amounts[a] \in Int
    BY FS_Subset
  <2> QED BY <1>2, <2>1, TotalType
<1>7. new[largest] = target - Total(amounts, S \ {largest})
  BY <1>3, <1>4, <1>5, <1>6
<1>8. TakenBy(new, amounts, S, target, largest)
  BY <1>4, <1>7 DEF TakenBy
<1> QED BY <1>1, <1>2, <1>4, <1>8

LEMMA AbsorbTotal ==
  ASSUME NEW S, IsFiniteSet(S), NEW amounts \in [S -> Int], NEW target \in Int
  PROVE  /\ absorbResidual(amounts, target) \in [S -> Int]
         /\ S # {} => SumOf(absorbResidual(amounts, target)) = target
<1> DEFINE new == absorbResidual(amounts, target)
<1>1. CASE S = {}
  BY <1>1 DEF absorbResidual
<1>2. CASE S # {}
  <2>1. new \in [S -> Int]
    BY <1>2, Absorbed
  <2>2. PICK l \in S : TakenBy(new, amounts, S, target, l)
    BY <1>2, Absorbed
  <2> HIDE DEF new
  <2> USE DEF TakenBy
  <2>3. SumOf(new) = Total(new, S)
    BY <2>1 DEF SumOf
  <2>4. Total(new, S) = new[l] + Total(new, S \ {l})
    BY <2>1, TotalRemove
  <2>5. Total(new, S \ {l}) = Total(amounts, S \ {l}) /\ Total(amounts, S \ {l}) \in Int
    <3>1. IsFiniteSet(S \ {l})
      BY FS_Subset
    <3>2. \A a \in S \ {l} : new[a] = amounts[a] /\ new[a] \in Int /\ amounts[a] \in Int
      BY <2>1, <2>2
    <3> QED BY <3>1, <3>2, TotalEqual, TotalType
  <2> QED BY <2>1, <2>2, <2>3, <2>4, <2>5 DEF new
<1> QED BY <1>1, <1>2

-----------------------------------------------------------------------------
(* Invoices and bills.                                                     *)

LEMMA PartsFinite ==
  ASSUME NEW x, IsInvoice(x) PROVE IsFiniteSet(Accounts(x)) /\ IsFiniteSet(Taxes(x))
<1> DEFINE account == [i \in DOMAIN x.lines |-> x.lines[i].account]
           tax == [i \in DOMAIN x.lines |-> x.lines[i].tax]
<1>1. Accounts(x) = {account[i] : i \in DOMAIN x.lines}
  BY DEF Accounts
<1>2. Taxes(x) \subseteq {tax[i] : i \in DOMAIN x.lines}
  BY DEF Taxes
<1> HIDE DEF account, tax
<1>3. IsFiniteSet({account[i] : i \in DOMAIN x.lines})
  BY ImageFinite DEF IsInvoice
<1>4. IsFiniteSet({tax[i] : i \in DOMAIN x.lines})
  BY ImageFinite DEF IsInvoice
<1> QED BY <1>1, <1>2, <1>3, <1>4, FS_Subset

LEMMA WorthOfLines ==
  ASSUME NEW x, IsInvoice(x)
  PROVE  /\ All(x) \in Nat
         /\ \A a : OnAccount(x, a) \in Nat /\ AtTax(x, a) \in Nat
<1>1. \A i \in DOMAIN x.lines : Worth(x)[i] \in Nat
  BY ProductNat DEF IsInvoice, Worth
<1>2. All(x) = Total(Worth(x), DOMAIN x.lines)
  BY DEF All, SumOf, Worth
<1>3. ASSUME NEW S \in SUBSET DOMAIN x.lines PROVE Total(Worth(x), S) \in Nat
  BY <1>1, FS_Subset, TotalNat DEF IsInvoice
<1> QED BY <1>2, <1>3 DEF OnAccount, AtTax

LEMMA NetType ==
  ASSUME NEW x, IsInvoice(x), NEW tenths \in Nat
  PROVE  \E n \in Int, d \in Nat \ {0} :
           Net(x, tenths) = <<n, d>> /\ (10 * x.discount <= All(x) => n >= 0)
<1>1. All(x) \in Nat /\ x.discount \in Int
  BY WorthOfLines DEF IsInvoice
<1>2. CASE ~(x.discount > 0 /\ All(x) > 0)
  BY <1>2 DEF Net
<1>3. CASE x.discount > 0 /\ All(x) > 0
  <2> DEFINE n == tenths * All(x) - (x.discount * tenths) * 10
             d == 10 * All(x)
  <2>1. Net(x, tenths) = <<n, d>>
    BY <1>3 DEF Net, Minus
  <2>2. n \in Int /\ d \in Nat \ {0}
    BY <1>1, <1>3
  <2>3. n = tenths * (All(x) - 10 * x.discount)
    BY <1>1
  <2>4. 10 * x.discount <= All(x) => n >= 0
    BY <1>1, <2>3, ProductNat
  <2> HIDE DEF n, d
  <2> QED BY <2>1, <2>2, <2>4
<1> QED BY <1>2, <1>3

LEMMA TaxType ==
  ASSUME NEW x, IsInvoice(x), NEW t \in Taxes(x)
  PROVE  Tax(x, t) \in Int /\ (10 * x.discount <= All(x) => Tax(x, t) \in Nat)
<1>1. AtTax(x, t) \in Nat /\ PerMille[t] \in Nat
  BY WorthOfLines DEF IsInvoice
<1>2. PICK n \in Int, d \in Nat \ {0} :
        Net(x, AtTax(x, t)) = <<n, d>> /\ (10 * x.discount <= All(x) => n >= 0)
  BY <1>1, NetType
<1>3. Times(Net(x, AtTax(x, t)), <<PerMille[t], 1000>>) = <<n * PerMille[t], d * 1000>>
  BY <1>2 DEF Times
<1>4. n * PerMille[t] \in Int /\ d * 1000 \in Nat \ {0}
      /\ (n >= 0 => n * PerMille[t] >= 0)
  BY <1>1, ProductNat
<1> QED BY <1>2, <1>3, <1>4, RoundType DEF Tax

LEMMA GroupType ==
  ASSUME NEW x, IsInvoice(x)
  PROVE  /\ GroupCents(x) \in [Accounts(x) -> Int]
         /\ 10 * x.discount <= All(x) => \A a \in Accounts(x) : GroupCents(x)[a] >= 0
         /\ TaxCents(x) \in [Taxes(x) -> Int]
         /\ 10 * x.discount <= All(x) => \A t \in Taxes(x) : TaxCents(x)[t] >= 0
<1>1. x.rate \in Rate
  BY DEF IsInvoice
<1>2. ASSUME NEW a \in Accounts(x)
      PROVE  /\ GroupCents(x)[a] \in Int
             /\ 10 * x.discount <= All(x) => GroupCents(x)[a] >= 0
  <2>1. OnAccount(x, a) \in Nat
    BY WorthOfLines
  <2>2. PICK n \in Int, d \in Nat \ {0} :
          Net(x, OnAccount(x, a)) = <<n, d>> /\ (10 * x.discount <= All(x) => n >= 0)
    BY <2>1, NetType
  <2>3. roundHalfUp(<<n, d>>) \in Int /\ (n >= 0 => roundHalfUp(<<n, d>>) \in Nat)
    BY RoundType
  <2>4. GroupCents(x)[a] = convertCents(roundHalfUp(<<n, d>>), x.rate)
    BY <2>2 DEF GroupCents
  <2> QED BY <1>1, <2>2, <2>3, <2>4, ConvertType
<1>3. ASSUME NEW t \in Taxes(x)
      PROVE  /\ TaxCents(x)[t] \in Int
             /\ 10 * x.discount <= All(x) => TaxCents(x)[t] >= 0
  <2>1. TaxCents(x)[t] = convertCents(Tax(x, t), x.rate)
    BY DEF TaxCents
  <2> QED BY <1>1, <2>1, TaxType, ConvertType
<1>4. GroupCents(x) = [a \in Accounts(x) |-> GroupCents(x)[a]]
      /\ TaxCents(x) = [t \in Taxes(x) |-> TaxCents(x)[t]]
  BY DEF GroupCents, TaxCents
<1> QED BY <1>2, <1>3, <1>4

\* What a document of lines comes to is not negative once it is found valid.
LEMMA DueType ==
  ASSUME NEW x, IsInvoice(x), x.discount >= 0, 10 * x.discount <= All(x)
  PROVE  Due(x) \in Nat /\ Owed(x) \in Nat /\ AllTax(x) \in Nat
<1> DEFINE tax == [t \in Taxes(x) |-> Tax(x, t)]
           net == All(x) - 10 * x.discount
<1>1. All(x) \in Nat /\ x.discount \in Int /\ x.stamp \in Nat /\ x.rate \in Rate
  BY WorthOfLines DEF IsInvoice
<1>2. net \in Nat
  BY <1>1
<1>3. TaxTotal(x) = Total(tax, Taxes(x))
  BY DEF TaxTotal, SumOf
<1>4. \A t \in Taxes(x) : tax[t] \in Nat
  BY TaxType
<1>5. Due(x) = roundHalfUp(<<net, 10>>) + TaxTotal(x) + x.stamp
  BY DEF Due
<1> HIDE DEF tax, net
<1>6. TaxTotal(x) \in Nat
  BY <1>3, <1>4, PartsFinite, TotalNat
<1>7. roundHalfUp(<<net, 10>>) \in Nat
  BY <1>2, RoundType
<1>8. Due(x) \in Nat
  BY <1>1, <1>5, <1>6, <1>7
<1>9. Owed(x) \in Nat
  BY <1>1, <1>8, ConvertType DEF Owed
<1>10. AllTax(x) = Total(TaxCents(x), Taxes(x))
  BY DEF AllTax, SumOf, TaxCents
<1>11. \A t \in Taxes(x) : TaxCents(x)[t] \in Nat
  BY <1>1, GroupType
<1>12. AllTax(x) \in Nat
  BY <1>10, <1>11, PartsFinite, TotalNat
<1> QED BY <1>8, <1>9, <1>12

\* The groups share what the tax and the rest leave of the total, of a document
\* without lines too.
LEMMA SharesTotal ==
  ASSUME NEW x, IsInvoice(x), x.discount >= 0, 10 * x.discount <= All(x),
         NEW rest \in Int, Accounts(x) = {} => Owed(x) = rest
  PROVE  /\ Shares(x, rest) \in [Accounts(x) -> Int]
         /\ Total(Shares(x, rest), Accounts(x)) = Owed(x) - AllTax(x) - rest
<1> DEFINE target == Owed(x) - AllTax(x) - rest
<1>1. target \in Int /\ Owed(x) \in Nat /\ AllTax(x) \in Nat
  BY DueType
<1>2. Shares(x, rest) = absorbResidual(GroupCents(x), target)
  BY DEF Shares
<1>3. GroupCents(x) \in [Accounts(x) -> Int] /\ IsFiniteSet(Accounts(x))
  BY GroupType, PartsFinite
<1> HIDE DEF target
<1>4. /\ Shares(x, rest) \in [Accounts(x) -> Int]
      /\ Accounts(x) # {} => SumOf(Shares(x, rest)) = target
  BY <1>1, <1>2, <1>3, AbsorbTotal
<1>5. SumOf(Shares(x, rest)) = Total(Shares(x, rest), Accounts(x))
  BY <1>4 DEF SumOf
<1>6. ASSUME Accounts(x) = {} PROVE Total(Shares(x, rest), Accounts(x)) = target
  <2>1. DOMAIN x.lines = {} /\ Taxes(x) = {}
    BY <1>6 DEF Accounts, Taxes
  <2>2. AllTax(x) = 0
    <3>1. AllTax(x) = Total(TaxCents(x), {})
      BY <2>1 DEF AllTax, SumOf, TaxCents
    <3> QED BY <3>1, TotalEmpty
  <2>3. target = 0
    BY <1>1, <1>6, <2>2 DEF target
  <2> QED BY <1>6, <2>3, TotalEmpty
<1>7. Total(Shares(x, rest), Accounts(x)) = target
  BY <1>4, <1>5, <1>6
<1> QED BY <1>4, <1>7 DEF target

\* A document without lines comes to its stamp duty.
LEMMA DueOfNoLines ==
  ASSUME NEW x, IsInvoice(x), x.discount >= 0, 10 * x.discount <= All(x), Accounts(x) = {}
  PROVE  Due(x) = x.stamp
<1>1. DOMAIN x.lines = {} /\ Taxes(x) = {}
  BY DEF Accounts, Taxes
<1>2. All(x) = 0
  <2>1. All(x) = Total(Worth(x), {})
    BY <1>1 DEF All, SumOf, Worth
  <2> QED BY <2>1, TotalEmpty
<1>3. x.discount = 0 /\ x.stamp \in Nat
  BY <1>2 DEF IsInvoice
<1>4. TaxTotal(x) = 0
  <2>1. TaxTotal(x) = Total([t \in Taxes(x) |-> Tax(x, t)], {})
    BY <1>1 DEF TaxTotal, SumOf
  <2> QED BY <2>1, TotalEmpty
<1>5. roundHalfUp(<<All(x) - 10 * x.discount, 10>>) = 0
  BY <1>2, <1>3 DEF roundHalfUp
<1> QED BY <1>3, <1>4, <1>5 DEF Due

\* The legs of a document: one for each group, one for each tax, one more, and
\* the one of the party.
Assembled(x, row, f, col, g, more, party, legs) ==
  /\ IsInvoice(x)
  /\ \A a \in Accounts(x) : row[a].account = a /\ row[a].debit \in Int /\ row[a].credit \in Int
  /\ \A a \in Accounts(x) : f[a] = row[a].debit - row[a].credit
  /\ \A t \in Taxes(x) : col[t].account = t /\ col[t].debit \in Int /\ col[t].credit \in Int
  /\ \A t \in Taxes(x) : g[t] = col[t].debit - col[t].credit
  /\ more.account \in {"stamp duty", "grni"} /\ more.debit \in Int /\ more.credit \in Int
  /\ party.account \in {"receivable", "payable"} /\ party.debit \in Int /\ party.credit \in Int
  /\ legs = Legs({row[a] : a \in Accounts(x)} \cup {col[t] : t \in Taxes(x)} \cup {more}) \cup {party}

LEMMA DocumentLegs ==
  ASSUME NEW x, NEW row, NEW f, NEW col, NEW g, NEW more, NEW party, NEW legs,
         Assembled(x, row, f, col, g, more, party, legs)
  PROVE  /\ LegAmounts(legs)
         /\ NetOf(legs) = Total(f, Accounts(x)) + Total(g, Taxes(x))
                            + (more.debit - more.credit) + (party.debit - party.credit)
         /\ {l \in legs : l.account = party.account} = {party}
         /\ \A a \in Accounts(x) : NetOf({l \in legs : l.account = a}) = f[a]
<1> USE DEF Assembled
<1> DEFINE A == {row[a] : a \in Accounts(x)}
           T == {col[t] : t \in Taxes(x)}
<1>1. /\ \A l \in A : l.account \in Accounts(x)
      /\ \A l \in T : l.account \in Taxes(x)
  <2>1. ASSUME NEW l \in A PROVE l.account \in Accounts(x)
    <3>1. PICK a \in Accounts(x) : l = row[a]
      OBVIOUS
    <3> QED BY <3>1
  <2>2. ASSUME NEW l \in T PROVE l.account \in Taxes(x)
    <3>1. PICK t \in Taxes(x) : l = col[t]
      OBVIOUS
    <3> QED BY <3>1
  <2> QED BY <2>1, <2>2
<1>2. Accounts(x) \cap Taxes(x) = {} /\ (Accounts(x) \cup Taxes(x)) \cap Named = {}
  BY DEF IsInvoice
<1>3. LegAmounts(A) /\ NetOf(A) = Total(f, Accounts(x))
  <2>1. \A a, b \in Accounts(x) : row[a] = row[b] => a = b
    <3>1. ASSUME NEW a \in Accounts(x), NEW b \in Accounts(x), row[a] = row[b] PROVE a = b
      <4>1. row[a].account = a /\ row[b].account = b
        OBVIOUS
      <4> QED BY <3>1, <4>1
    <3> QED BY <3>1
  <2>2. IsFiniteSet(Accounts(x)) /\ \A a \in Accounts(x) : row[a].debit \in Int /\ row[a].credit \in Int
    BY PartsFinite
  <2>3. \A a \in Accounts(x) : f[a] = row[a].debit - row[a].credit
    OBVIOUS
  <2>4. LegAmounts({row[a] : a \in Accounts(x)}) /\ NetOf({row[a] : a \in Accounts(x)}) = Total(f, Accounts(x))
    BY ONLY <2>1, <2>2, <2>3, NetEach
  <2> QED BY <2>4
<1>4. LegAmounts(T) /\ NetOf(T) = Total(g, Taxes(x))
  <2>1. \A a, b \in Taxes(x) : col[a] = col[b] => a = b
    <3>1. ASSUME NEW a \in Taxes(x), NEW b \in Taxes(x), col[a] = col[b] PROVE a = b
      <4>1. col[a].account = a /\ col[b].account = b
        OBVIOUS
      <4> QED BY <3>1, <4>1
    <3> QED BY <3>1
  <2>2. IsFiniteSet(Taxes(x)) /\ \A a \in Taxes(x) : col[a].debit \in Int /\ col[a].credit \in Int
    BY PartsFinite
  <2>3. \A a \in Taxes(x) : g[a] = col[a].debit - col[a].credit
    OBVIOUS
  <2>4. LegAmounts({col[a] : a \in Taxes(x)}) /\ NetOf({col[a] : a \in Taxes(x)}) = Total(g, Taxes(x))
    BY ONLY <2>1, <2>2, <2>3, NetEach
  <2> QED BY <2>4
<1>5. legs = Legs((A \cup T) \cup {more}) \cup {party}
  OBVIOUS
<1>15. /\ more.account \in {"stamp duty", "grni"} /\ more.debit \in Int /\ more.credit \in Int
       /\ party.account \in {"receivable", "payable"} /\ party.debit \in Int /\ party.credit \in Int
  OBVIOUS
<1>17. \A a \in Accounts(x) : /\ row[a] \in A /\ row[a].account = a
                             /\ row[a].debit \in Int /\ row[a].credit \in Int
                             /\ f[a] = row[a].debit - row[a].credit
                             /\ \A l \in A : l.account = a => l = row[a]
  <2>1. ASSUME NEW a \in Accounts(x), NEW l \in A, l.account = a PROVE l = row[a]
    <3>1. PICK b \in Accounts(x) : l = row[b]
      OBVIOUS
    <3>2. row[b].account = b
      OBVIOUS
    <3> QED BY <2>1, <3>1, <3>2
  <2> QED BY <2>1
<1> HIDE DEF Assembled
<1> HIDE DEF A, T
<1>6. A \cap T = {} /\ (A \cup T) \cap {more} = {} /\ party \notin A \cup T \cup {more}
      /\ \A l \in A \cup T \cup {more} : l.account # party.account
  BY <1>1, <1>2, <1>15 DEF Named
<1>7. LegAmounts(A \cup T) /\ NetOf(A \cup T) = NetOf(A) + NetOf(T)
      /\ NetOf(A) \in Int /\ NetOf(T) \in Int
  BY <1>3, <1>4, <1>6, NetUnion
<1>8. LegAmounts({more}) /\ NetOf({more}) = more.debit - more.credit
      /\ LegAmounts({party}) /\ NetOf({party}) = party.debit - party.credit
  BY <1>15, NetOne
<1> DEFINE B == (A \cup T) \cup {more}
<1>9. LegAmounts(B) /\ NetOf(B) = NetOf(A \cup T) + NetOf({more})
  BY <1>6, <1>7, <1>8, NetUnion
<1>10. legs = Legs(B) \cup {party} /\ (\A l \in B : l.account # party.account)
  BY <1>5, <1>6
<1> HIDE DEF B
<1>11. LegAmounts(Legs(B)) /\ NetOf(Legs(B)) = NetOf(B) /\ Legs(B) \in SUBSET B
  BY <1>9, NetLegs DEF Legs
<1>12. Legs(B) \cap {party} = {}
  BY <1>10, <1>11
<1>13. LegAmounts(legs) /\ NetOf(legs) = NetOf(Legs(B)) + NetOf({party})
  <2>1. LegAmounts({party})
    BY <1>8
  <2>2. LegAmounts(Legs(B) \cup {party}) /\ NetOf(Legs(B) \cup {party}) = NetOf(Legs(B)) + NetOf({party})
    BY <2>1, <1>11, <1>12, NetUnion
  <2> QED BY <1>10, <2>2
<1>14. {l \in legs : l.account = party.account} = {party}
  BY <1>10, <1>11
<1>18. ASSUME NEW a \in Accounts(x) PROVE NetOf({l \in legs : l.account = a}) = f[a]
  <2>1. \A l \in T \cup {more, party} : l.account # a
    BY <1>1, <1>2, <1>15 DEF Named
  <2>2. \A l \in legs : l.account = a => l = row[a] /\ (l.debit # 0 \/ l.credit # 0)
    BY <1>10, <1>17, <2>1 DEF B, Legs
  <2>3. row[a].debit # 0 \/ row[a].credit # 0 => row[a] \in legs
    BY <1>10, <1>17 DEF B, Legs
  <2>4. \A l : l \in {k \in legs : k.account = a} <=> l \in Legs({row[a]})
    BY <1>17, <2>2, <2>3 DEF Legs
  <2>5. {k \in legs : k.account = a} = Legs({row[a]})
    BY ONLY <2>4
  <2>6. LegAmounts({row[a]}) /\ NetOf({row[a]}) = row[a].debit - row[a].credit
    BY <1>17, NetOne
  <2>7. NetOf(Legs({row[a]})) = NetOf({row[a]})
    BY <2>6, NetLegs
  <2> QED BY <1>17, <2>5, <2>6, <2>7
<1> QED BY <1>3, <1>4, <1>7, <1>8, <1>9, <1>11, <1>13, <1>14, <1>18

LEMMA TotalNegative ==
  ASSUME NEW S, IsFiniteSet(S), NEW f, NEW g, \A a \in S : f[a] \in Int /\ g[a] = 0 - f[a]
  PROVE  Total(g, S) = 0 - Total(f, S)
<1> DEFINE z == [a \in S |-> 0]
<1>1. \A a \in S : z[a] = 0 /\ z[a] \in Int /\ g[a] = z[a] - f[a]
  OBVIOUS
<1> HIDE DEF z
<1>2. Total(g, S) = Total(z, S) - Total(f, S)
  BY <1>1, TotalMinus
<1>3. Total(z, S) = 0
  BY <1>1, TotalNone
<1> QED BY <1>2, <1>3

Balanced(e) == e.outcome = "posted" => LegAmounts(e.legs) /\ NetOf(e.legs) = 0
OnTheLeg(e, a) == NetOf({l \in e.legs : l.account = a})

LEMMA PostedIs ==
  ASSUME NEW legs
  PROVE  /\ Posted(legs).outcome = "posted" => Posted(legs).legs = legs
         /\ Posted(legs).outcome = "fails" => \E l \in legs : ~Recordable(l)
         /\ Posted(legs).outcome \in {"posted", "fails"}
BY DEF Posted

LEMMA InvoiceSound ==
  ASSUME NEW x, IsInvoice(x), x.kind = "invoice", x.discount >= 0, 10 * x.discount <= All(x),
         NEW e, e = buildInvoiceGLLines(x)
  PROVE  /\ Balanced(e) /\ e.outcome \in {"posted", "fails"}
         /\ e.outcome = "posted" =>
              /\ OnTheLeg(e, "receivable") = Owed(x)
              /\ \A a \in Accounts(x) :
                   OnTheLeg(e, a) = 0 - Shares(x, convertCents(x.stamp, x.rate))[a]
         /\ e.outcome = "fails" => Owed(x) = 0 \/ Overdrawn(x)
<1> DEFINE stamp == convertCents(x.stamp, x.rate)
           revenue == Shares(x, stamp)
           row == [a \in Accounts(x) |-> Leg(a, 0, revenue[a])]
           col == [t \in Taxes(x) |-> Leg(t, 0, TaxCents(x)[t])]
           f == [a \in Accounts(x) |-> -revenue[a]]
           g == [t \in Taxes(x) |-> -TaxCents(x)[t]]
           more == Leg("stamp duty", 0, stamp)
           party == Leg("receivable", Owed(x), 0)
           rows == {row[a] : a \in Accounts(x)}
           cols == {col[t] : t \in Taxes(x)}
           legs == Legs(rows \cup cols \cup {more}) \cup {party}
<1>26. revenue = Shares(x, convertCents(x.stamp, x.rate))
  OBVIOUS
<1>1. e = Posted(legs)
  <2>1. {Leg(a, 0, revenue[a]) : a \in Accounts(x)} = rows
    OBVIOUS
  <2>2. {Leg(t, 0, TaxCents(x)[t]) : t \in Taxes(x)} = cols
    OBVIOUS
  <2>3. e = Posted(Legs({Leg(a, 0, revenue[a]) : a \in Accounts(x)}
                         \cup {Leg(t, 0, TaxCents(x)[t]) : t \in Taxes(x)}
                         \cup {Leg("stamp duty", 0, stamp)})
                    \cup {Leg("receivable", Owed(x), 0)})
    BY DEF buildInvoiceGLLines
  <2> HIDE DEF revenue, stamp
  <2> QED BY <2>1, <2>2, <2>3
<1>2. stamp \in Nat /\ Owed(x) \in Nat /\ AllTax(x) \in Nat
  <2>1. x.stamp \in Nat /\ x.rate \in Rate
    BY DEF IsInvoice
  <2> QED BY <2>1, ConvertType, DueType
<1>3. Accounts(x) = {} => Owed(x) = stamp
  BY DueOfNoLines DEF Owed
<1>4. Overdrawn(x) <=> \E a \in Accounts(x) : revenue[a] < 0
  BY DEF Overdrawn
<1> HIDE DEF stamp
<1>5. revenue \in [Accounts(x) -> Int] /\ Total(revenue, Accounts(x)) = Owed(x) - AllTax(x) - stamp
  BY <1>2, <1>3, SharesTotal
<1>6. /\ TaxCents(x) \in [Taxes(x) -> Int] /\ \A t \in Taxes(x) : TaxCents(x)[t] >= 0
      /\ Total(TaxCents(x), Taxes(x)) = AllTax(x)
  BY GroupType DEF AllTax, SumOf
<1> HIDE DEF revenue
<1>7. \A a \in Accounts(x) : /\ row[a] = Leg(a, 0, revenue[a]) /\ row[a].account = a
                             /\ row[a].debit = 0 /\ row[a].credit = revenue[a]
                             /\ row[a].debit \in Int /\ row[a].credit \in Int
                             /\ f[a] = row[a].debit - row[a].credit
                             /\ f[a] = 0 - revenue[a] /\ f[a] \in Int /\ revenue[a] \in Int
  BY <1>5 DEF Leg
<1>8. \A t \in Taxes(x) : /\ col[t].account = t
                          /\ col[t].debit = 0 /\ col[t].credit = TaxCents(x)[t]
                          /\ col[t].debit \in Int /\ col[t].credit \in Int
                          /\ g[t] = col[t].debit - col[t].credit
                          /\ g[t] = 0 - TaxCents(x)[t] /\ g[t] \in Int /\ TaxCents(x)[t] \in Int
  BY <1>6 DEF Leg
<1>9. /\ more.debit = 0 /\ more.credit = stamp /\ party.debit = Owed(x) /\ party.credit = 0
  BY DEF Leg
<1>25. more.account = "stamp duty" /\ party.account = "receivable"
  BY DEF Leg
<1> HIDE DEF row, col, f, g, more, party
<1>10. legs = Legs({row[a] : a \in Accounts(x)} \cup {col[t] : t \in Taxes(x)} \cup {more}) \cup {party}
  OBVIOUS
<1>11. /\ more.account \in {"stamp duty", "grni"} /\ party.account \in {"receivable", "payable"}
       /\ more.debit \in Int /\ more.credit \in Int /\ party.debit \in Int /\ party.credit \in Int
  <2>1. more.account \in {"stamp duty", "grni"} /\ party.account \in {"receivable", "payable"}
    BY <1>25
  <2>2. more.debit \in Int /\ more.credit \in Int /\ party.debit \in Int /\ party.credit \in Int
    BY <1>2, <1>9
  <2> QED BY <2>1, <2>2
<1>12. /\ \A l \in rows : \E a \in Accounts(x) : l = row[a]
       /\ \A l \in cols : \E t \in Taxes(x) : l = col[t]
  OBVIOUS
<1>13. \A l \in legs : l \in rows \/ l \in cols \/ l = more \/ l = party
  BY DEF Legs
<1>14. \A l \in legs : l = party \/ l.debit # 0 \/ l.credit # 0
  BY DEF Legs
<1> HIDE DEF legs, rows, cols
<1>15. /\ LegAmounts(legs)
       /\ NetOf(legs) = Total(f, Accounts(x)) + Total(g, Taxes(x))
                          + (more.debit - more.credit) + (party.debit - party.credit)
       /\ {l \in legs : l.account = party.account} = {party}
       /\ \A a \in Accounts(x) : NetOf({l \in legs : l.account = a}) = f[a]
  <2>1. \A a \in Accounts(x) : /\ row[a].account = a
                               /\ row[a].debit \in Int /\ row[a].credit \in Int
    BY <1>7
  <2>2. \A t \in Taxes(x) : /\ col[t].account = t
                            /\ col[t].debit \in Int /\ col[t].credit \in Int
    BY <1>8
  <2>3. /\ \A a \in Accounts(x) : f[a] = row[a].debit - row[a].credit
        /\ \A t \in Taxes(x) : g[t] = col[t].debit - col[t].credit
    BY <1>7, <1>8
  <2>4. IsInvoice(x)
    OBVIOUS
  <2> QED
    <3>1. Assembled(x, row, f, col, g, more, party, legs)
      BY ONLY <1>10, <1>11, <2>1, <2>2, <2>3, <2>4 DEF Assembled
    <3> QED BY ONLY <3>1, DocumentLegs
<1>16. IsFiniteSet(Accounts(x)) /\ IsFiniteSet(Taxes(x))
  BY PartsFinite
<1>17. Total(f, Accounts(x)) = 0 - Total(revenue, Accounts(x)) /\ Total(revenue, Accounts(x)) \in Int
  BY <1>7, <1>16, TotalNegative, TotalType
<1>18. Total(g, Taxes(x)) = 0 - AllTax(x)
  BY <1>6, <1>8, <1>16, TotalNegative
<1>19. NetOf(legs) = 0
  <2>1. /\ more.debit - more.credit = 0 - stamp /\ party.debit - party.credit = Owed(x)
        /\ stamp \in Nat /\ Owed(x) \in Nat /\ AllTax(x) \in Nat
    BY <1>2, <1>9
  <2> QED BY <1>5, <1>15, <1>17, <1>18, <2>1
<1>20. e.outcome = "posted" => e.legs = legs
  BY <1>1, PostedIs
<1>21. Balanced(e)
  BY <1>15, <1>19, <1>20 DEF Balanced
<1>22. ASSUME e.outcome = "posted" PROVE OnTheLeg(e, "receivable") = Owed(x)
  <2>1. {l \in e.legs : l.account = "receivable"} = {party}
    BY <1>25, <1>15, <1>20, <1>22
  <2>2. NetOf({party}) = party.debit - party.credit
    BY <1>11, NetOne
  <2>3. NetOf({party}) = Owed(x)
    BY <1>2, <1>9, <2>2
  <2> QED BY <2>1, <2>3 DEF OnTheLeg
<1>23. ASSUME e.outcome = "fails" PROVE Owed(x) = 0 \/ Overdrawn(x)
  <2>1. PICK l \in legs : ~Recordable(l)
    BY <1>1, <1>23, PostedIs
  <2>2. CASE l = party
    <3>1. l.debit = Owed(x) /\ l.credit = 0 /\ Owed(x) \in Nat
      BY <1>2, <1>9, <2>2
    <3> QED BY <2>1, <3>1 DEF Recordable
  <2>3. CASE l # party /\ l = more
    <3>1. l.debit = 0 /\ l.credit \in Nat /\ l.credit # 0
      BY <1>2, <1>9, <1>14, <2>3
    <3> QED BY <2>1, <3>1 DEF Recordable
  <2>4. CASE l # party /\ l \in cols
    <3>1. PICK t \in Taxes(x) : l = col[t]
      BY <1>12, <2>4
    <3>2. l.debit = 0 /\ l.credit \in Int /\ l.credit >= 0 /\ l.credit # 0
      BY <1>6, <1>8, <1>14, <2>4, <3>1
    <3> QED BY <2>1, <3>2 DEF Recordable
  <2>5. CASE l # party /\ l \in rows
    <3>1. PICK a \in Accounts(x) : l = row[a]
      BY <1>12, <2>5
    <3>2. l.debit = 0 /\ l.credit = revenue[a] /\ revenue[a] \in Int /\ l.credit # 0
      BY <1>7, <1>14, <2>5, <3>1
    <3>3. revenue[a] < 0
      BY <2>1, <3>2 DEF Recordable
    <3> QED BY <1>4, <3>3
  <2> QED BY <1>13, <2>2, <2>3, <2>4, <2>5
<1>27. ASSUME e.outcome = "posted", NEW a \in Accounts(x) PROVE OnTheLeg(e, a) = 0 - revenue[a]
  <2>1. f[a] = 0 - revenue[a]
    BY <1>7
  <2>2. OnTheLeg(e, a) = NetOf({l \in legs : l.account = a})
    BY <1>20, <1>27 DEF OnTheLeg
  <2>3. NetOf({l \in legs : l.account = a}) = f[a]
    BY <1>15
  <2> QED BY ONLY <2>1, <2>2, <2>3
<1>24. e.outcome \in {"posted", "fails"}
  BY <1>1, PostedIs
<1> QED BY <1>21, <1>22, <1>23, <1>24, <1>26, <1>27

LEMMA BillSound ==
  ASSUME NEW x, IsInvoice(x), x.kind = "bill", x.discount >= 0, 10 * x.discount <= All(x),
         Due(x) # 0, NEW e, e = buildIncomingInvoiceGLLines(x)
  PROVE  /\ Balanced(e) /\ e.outcome \in {"posted", "fails"}
         /\ e.outcome = "posted" => OnTheLeg(e, "payable") = -Owed(x)
         /\ e.outcome = "fails" => Owed(x) = 0 \/ Overdrawn(x)
<1> DEFINE expense == Shares(x, 0)
           cleared(a) == IF a = "inventory" THEN x.cleared ELSE 0
           grni == [a \in Accounts(x) |-> cleared(a)]
           total == SumOf(grni)
           net(a) == expense[a] - cleared(a)
           row == [a \in Accounts(x) |-> IF cleared(a) # 0 /\ net(a) < 0 THEN Leg(a, 0, -net(a)) ELSE Leg(a, net(a), 0)]
           col == [t \in Taxes(x) |-> Leg(t, TaxCents(x)[t], 0)]
           f == [a \in Accounts(x) |-> expense[a] - grni[a]]
           g == TaxCents(x)
           more == Leg("grni", total, 0)
           party == Leg("payable", 0, Owed(x))
           rows == {row[a] : a \in Accounts(x)}
           cols == {col[t] : t \in Taxes(x)}
           legs == Legs(rows \cup cols \cup {more}) \cup {party}
<1>1. e = Posted(legs)
  <2>1. {IF cleared(a) # 0 /\ net(a) < 0 THEN Leg(a, 0, -net(a)) ELSE Leg(a, net(a), 0) : a \in Accounts(x)} = rows
    <3> HIDE DEF net, cleared
    <3> QED OBVIOUS
  <2>2. {Leg(t, TaxCents(x)[t], 0) : t \in Taxes(x)} = cols
    OBVIOUS
  <2>3. e = Posted(Legs({IF cleared(a) # 0 /\ net(a) < 0 THEN Leg(a, 0, -net(a)) ELSE Leg(a, net(a), 0) : a \in Accounts(x)}
                         \cup {Leg(t, TaxCents(x)[t], 0) : t \in Taxes(x)}
                         \cup {Leg("grni", total, 0)})
                    \cup {Leg("payable", 0, Owed(x))})
    BY DEF buildIncomingInvoiceGLLines
  <2> HIDE DEF net, cleared, total
  <2> QED BY <2>1, <2>2, <2>3
<1>2. Owed(x) \in Nat /\ AllTax(x) \in Nat
  BY DueType
<1>3. Accounts(x) # {}
  BY DueOfNoLines DEF IsInvoice
<1>4. Overdrawn(x) <=> \E a \in Accounts(x) : expense[a] < 0
  BY DEF Overdrawn
<1>5. expense \in [Accounts(x) -> Int] /\ Total(expense, Accounts(x)) = Owed(x) - AllTax(x)
  <2>1. Total(expense, Accounts(x)) = Owed(x) - AllTax(x) - 0 /\ expense \in [Accounts(x) -> Int]
    BY <1>3, SharesTotal
  <2> HIDE DEF expense
  <2> QED BY <1>2, <2>1
<1>6. /\ TaxCents(x) \in [Taxes(x) -> Int] /\ \A t \in Taxes(x) : TaxCents(x)[t] >= 0
      /\ Total(TaxCents(x), Taxes(x)) = AllTax(x)
  BY GroupType DEF AllTax, SumOf
<1>26. /\ \A a \in Accounts(x) : grni[a] = cleared(a) /\ grni[a] \in Nat
       /\ total = Total(grni, Accounts(x)) /\ total \in Nat
  <2>1. \A a \in Accounts(x) : grni[a] = cleared(a) /\ grni[a] \in Nat
    BY DEF IsInvoice
  <2>2. total = Total(grni, Accounts(x))
    BY DEF SumOf
  <2> HIDE DEF grni, total
  <2> QED BY <2>1, <2>2, PartsFinite, TotalNat
<1> HIDE DEF expense, grni, total
<1>7. ASSUME NEW a \in Accounts(x)
      PROVE  /\ row[a].account = a
             /\ row[a].debit \in Int /\ row[a].credit \in Int
             /\ f[a] = row[a].debit - row[a].credit
             /\ f[a] = expense[a] - grni[a] /\ f[a] \in Int /\ expense[a] \in Int /\ grni[a] \in Nat
             /\ ~Recordable(row[a]) /\ (row[a].debit # 0 \/ row[a].credit # 0) => expense[a] < 0
  <2>1. expense[a] \in Int /\ grni[a] \in Nat /\ grni[a] = cleared(a) /\ f[a] = expense[a] - grni[a]
    BY <1>5, <1>26
  <2>2. row[a] = IF grni[a] # 0 /\ f[a] < 0 THEN Leg(a, 0, -f[a]) ELSE Leg(a, f[a], 0)
    BY <2>1
  <2> HIDE DEF row, f, cleared
  <2>3. CASE grni[a] # 0 /\ f[a] < 0
    <3>1. row[a].account = a /\ row[a].debit = 0 /\ row[a].credit = -f[a]
      BY <2>2, <2>3 DEF Leg
    <3>2. Recordable(row[a])
      BY <2>1, <2>3, <3>1 DEF Recordable
    <3> QED BY <2>1, <3>1, <3>2
  <2>4. CASE ~(grni[a] # 0 /\ f[a] < 0)
    <3>1. row[a].account = a /\ row[a].debit = f[a] /\ row[a].credit = 0
      BY <2>2, <2>4 DEF Leg
    <3>2. ~Recordable(row[a]) /\ (row[a].debit # 0 \/ row[a].credit # 0) => expense[a] < 0
      BY <2>1, <2>4, <3>1 DEF Recordable
    <3> QED BY <2>1, <3>1, <3>2
  <2> QED BY <2>3, <2>4
<1>8. \A t \in Taxes(x) : /\ col[t].account = t
                          /\ col[t].debit = TaxCents(x)[t] /\ col[t].credit = 0
                          /\ col[t].debit \in Int /\ col[t].credit \in Int
                          /\ g[t] = col[t].debit - col[t].credit
                          /\ TaxCents(x)[t] \in Int
  BY <1>6 DEF Leg
<1>18. Total(g, Taxes(x)) = AllTax(x)
  BY <1>6
<1>9. /\ more.debit = total /\ more.credit = 0 /\ party.debit = 0 /\ party.credit = Owed(x)
  BY DEF Leg
<1>25. more.account = "grni" /\ party.account = "payable"
  BY DEF Leg
<1> HIDE DEF row, col, f, g, more, party
<1>10. legs = Legs({row[a] : a \in Accounts(x)} \cup {col[t] : t \in Taxes(x)} \cup {more}) \cup {party}
  OBVIOUS
<1>11. /\ more.account \in {"stamp duty", "grni"} /\ party.account \in {"receivable", "payable"}
       /\ more.debit \in Int /\ more.credit \in Int /\ party.debit \in Int /\ party.credit \in Int
  <2>1. more.account \in {"stamp duty", "grni"} /\ party.account \in {"receivable", "payable"}
    BY <1>25
  <2>2. more.debit \in Int /\ more.credit \in Int /\ party.debit \in Int /\ party.credit \in Int
    BY <1>2, <1>9, <1>26
  <2> QED BY <2>1, <2>2
<1>12. /\ \A l \in rows : \E a \in Accounts(x) : l = row[a]
       /\ \A l \in cols : \E t \in Taxes(x) : l = col[t]
  OBVIOUS
<1>13. \A l \in legs : l \in rows \/ l \in cols \/ l = more \/ l = party
  BY DEF Legs
<1>14. \A l \in legs : l = party \/ l.debit # 0 \/ l.credit # 0
  BY DEF Legs
<1> HIDE DEF legs, rows, cols
<1>15. /\ LegAmounts(legs)
       /\ NetOf(legs) = Total(f, Accounts(x)) + Total(g, Taxes(x))
                          + (more.debit - more.credit) + (party.debit - party.credit)
       /\ {l \in legs : l.account = party.account} = {party}
  <2>1. \A a \in Accounts(x) : /\ row[a].account = a
                               /\ row[a].debit \in Int /\ row[a].credit \in Int
    BY <1>7
  <2>2. \A t \in Taxes(x) : /\ col[t].account = t
                            /\ col[t].debit \in Int /\ col[t].credit \in Int
    BY <1>8
  <2>3. /\ \A a \in Accounts(x) : f[a] = row[a].debit - row[a].credit
        /\ \A t \in Taxes(x) : g[t] = col[t].debit - col[t].credit
    BY <1>7, <1>8
  <2>4. IsInvoice(x)
    OBVIOUS
  <2> QED
    <3>1. Assembled(x, row, f, col, g, more, party, legs)
      BY ONLY <1>10, <1>11, <2>1, <2>2, <2>3, <2>4 DEF Assembled
    <3> QED BY ONLY <3>1, DocumentLegs
<1>16. IsFiniteSet(Accounts(x)) /\ IsFiniteSet(Taxes(x))
  BY PartsFinite
<1>17. Total(f, Accounts(x)) = Total(expense, Accounts(x)) - total
  <2>1. \A a \in Accounts(x) : expense[a] \in Int /\ grni[a] \in Int /\ f[a] = expense[a] - grni[a]
    BY <1>7
  <2> QED BY <1>16, <1>26, <2>1, TotalMinus
<1>19. NetOf(legs) = 0
  <2>1. more.debit - more.credit = total /\ party.debit - party.credit = 0 - Owed(x)
    BY <1>2, <1>9, <1>26
  <2> QED BY <1>2, <1>5, <1>15, <1>17, <1>18, <1>26, <2>1
<1>20. e.outcome = "posted" => e.legs = legs
  BY <1>1, PostedIs
<1>21. Balanced(e)
  BY <1>15, <1>19, <1>20 DEF Balanced
<1>22. ASSUME e.outcome = "posted" PROVE OnTheLeg(e, "payable") = -Owed(x)
  <2>1. {l \in e.legs : l.account = "payable"} = {party}
    BY <1>25, <1>15, <1>20, <1>22
  <2>2. NetOf({party}) = party.debit - party.credit
    BY <1>11, NetOne
  <2>3. NetOf({party}) = -Owed(x)
    BY <1>2, <1>9, <2>2
  <2> QED BY <2>1, <2>3 DEF OnTheLeg
<1>23. ASSUME e.outcome = "fails" PROVE Owed(x) = 0 \/ Overdrawn(x)
  <2>1. PICK l \in legs : ~Recordable(l)
    BY <1>1, <1>23, PostedIs
  <2>2. CASE l = party
    <3>1. l.debit = 0 /\ l.credit = Owed(x) /\ Owed(x) \in Nat
      BY <1>2, <1>9, <2>2
    <3> QED BY <2>1, <3>1 DEF Recordable
  <2>3. CASE l # party /\ l = more
    <3>1. l.credit = 0 /\ l.debit \in Nat /\ l.debit # 0
      BY <1>26, <1>9, <1>14, <2>3
    <3> QED BY <2>1, <3>1 DEF Recordable
  <2>4. CASE l # party /\ l \in cols
    <3>1. PICK t \in Taxes(x) : l = col[t]
      BY <1>12, <2>4
    <3>2. l.credit = 0 /\ l.debit \in Int /\ l.debit >= 0 /\ l.debit # 0
      BY <1>6, <1>8, <1>14, <2>4, <3>1
    <3> QED BY <2>1, <3>2 DEF Recordable
  <2>5. CASE l # party /\ l \in rows
    <3>1. PICK a \in Accounts(x) : l = row[a]
      BY <1>12, <2>5
    <3>2. expense[a] < 0
      BY <1>7, <1>14, <2>1, <2>5, <3>1
    <3> QED BY <1>4, <3>2
  <2> QED BY <1>13, <2>2, <2>3, <2>4, <2>5
<1>24. e.outcome \in {"posted", "fails"}
  BY <1>1, PostedIs
<1> QED BY <1>21, <1>22, <1>23, <1>24

-----------------------------------------------------------------------------
(* The other entries.                                                      *)

LEMMA NetNone == LegAmounts({}) /\ NetOf({}) = 0
<1> DEFINE f == [l \in {} |-> l.debit - l.credit]
<1>1. LegAmounts({}) /\ \A l \in {} : f[l] = l.debit - l.credit
  BY FS_EmptySet DEF LegAmounts
<1> HIDE DEF f
<1>2. NetOf({}) = Total(f, {})
  BY <1>1, NetIs
<1> QED BY <1>1, <1>2, TotalEmpty

Opposite(d, c, n) ==
  /\ d # c /\ n \in Int /\ n > 0
  /\ d.debit = n /\ d.credit = 0 /\ c.debit = 0 /\ c.credit = n

LEMMA TwoLegs ==
  ASSUME NEW d, NEW c, NEW n, Opposite(d, c, n), NEW e, e = Posted({d, c})
  PROVE  /\ Balanced(e) /\ e.outcome = "posted" /\ e.legs = {d, c}
         /\ NetOf({d}) = n /\ NetOf({c}) = 0 - n
<1> USE DEF Opposite
<1>1. \A l \in {d, c} : Recordable(l)
  BY DEF Recordable
<1>2. e.outcome = "posted" /\ e.legs = {d, c}
  BY <1>1 DEF Posted
<1>3. /\ LegAmounts({d}) /\ NetOf({d}) = n
      /\ LegAmounts({c}) /\ NetOf({c}) = 0 - n
  <2>1. d.debit \in Int /\ d.credit \in Int /\ c.debit \in Int /\ c.credit \in Int
        /\ d.debit - d.credit = n /\ c.debit - c.credit = 0 - n
    OBVIOUS
  <2>2. LegAmounts({d}) /\ NetOf({d}) = d.debit - d.credit
    BY <2>1, NetOne
  <2>3. LegAmounts({c}) /\ NetOf({c}) = c.debit - c.credit
    BY <2>1, NetOne
  <2> QED BY <2>1, <2>2, <2>3
<1>4. {d} \cap {c} = {} /\ {d, c} = {d} \cup {c}
  OBVIOUS
<1>5. LegAmounts({d} \cup {c}) /\ NetOf({d} \cup {c}) = NetOf({d}) + NetOf({c})
  BY ONLY <1>3, <1>4, NetUnion
<1>6. LegAmounts({d, c}) /\ NetOf({d, c}) = 0
  BY <1>3, <1>4, <1>5
<1> QED BY <1>2, <1>3, <1>6 DEF Balanced

LEMMA SignedSound ==
  ASSUME NEW account, NEW against, account # against, NEW cents \in Int,
         NEW e, e = Signed(account, against, cents)
  PROVE  /\ Balanced(e) /\ e.outcome \in {"nothing", "posted"}
         /\ OnTheLeg(e, against) = 0 - cents
<1>1. CASE cents = 0
  <2>1. e = NoEntry
    BY <1>1 DEF Signed
  <2>2. e.outcome = "nothing" /\ e.legs = {}
    BY <2>1 DEF NoEntry
  <2>3. {l \in e.legs : l.account = against} = {}
    BY <2>2
  <2> QED BY <1>1, <2>2, <2>3, NetNone DEF Balanced, OnTheLeg
<1>2. CASE cents > 0
  <2> DEFINE n == cents
             d == Leg(account, n, 0)
             c == Leg(against, 0, n)
  <2>1. e = Posted({d, c})
    BY <1>2 DEF Signed
  <2>2. d # c /\ d.account = account /\ c.account = against
    BY DEF Leg
  <2>3. d.debit = n /\ d.credit = 0 /\ c.debit = 0 /\ c.credit = n
    BY DEF Leg
  <2>4. n \in Int /\ n > 0 /\ n = cents
    BY <1>2
  <2> HIDE DEF d, c, n
  <2>0. Opposite(d, c, n)
    BY <2>2, <2>3, <2>4 DEF Opposite
  <2>6. Balanced(e) /\ e.outcome = "posted" /\ e.legs = {d, c} /\ NetOf({c}) = 0 - n
    BY ONLY <2>0, <2>1, TwoLegs
  <2>5. {l \in e.legs : l.account = against} = {c}
    BY <2>2, <2>6
  <2> QED BY <2>4, <2>5, <2>6 DEF OnTheLeg
<1>3. CASE cents < 0
  <2> DEFINE n == -cents
             d == Leg(against, n, 0)
             c == Leg(account, 0, n)
  <2>1. e = Posted({d, c})
    <3>1. e = Posted({c, d})
      BY <1>3 DEF Signed
    <3>2. {c, d} = {d, c}
      OBVIOUS
    <3> HIDE DEF c, d
    <3> QED BY <3>1, <3>2
  <2>2. d # c /\ d.account = against /\ c.account = account
    BY DEF Leg
  <2>3. d.debit = n /\ d.credit = 0 /\ c.debit = 0 /\ c.credit = n
    BY DEF Leg
  <2>4. n \in Int /\ n > 0 /\ n = 0 - cents
    BY <1>3
  <2> HIDE DEF d, c, n
  <2>0. Opposite(d, c, n)
    BY <2>2, <2>3, <2>4 DEF Opposite
  <2>5. Balanced(e) /\ e.outcome = "posted" /\ e.legs = {d, c} /\ NetOf({d}) = n
    BY ONLY <2>0, <2>1, TwoLegs
  <2>6. {l \in e.legs : l.account = against} = {d}
    BY <2>2, <2>5
  <2> QED BY <2>4, <2>5, <2>6 DEF OnTheLeg
<1> QED BY <1>1, <1>2, <1>3

Settles(x, e) ==
  /\ Balanced(e) /\ e.outcome \in {"refused", "posted"}
  /\ e.outcome = "posted" =>
       OnTheLeg(e, "exchange gain") + OnTheLeg(e, "exchange loss")
         = IF x.inbound THEN SumOf(Settled(x)) - convertCents(Collected(x), x.rate)
           ELSE convertCents(Collected(x), x.rate) - SumOf(Settled(x))

LEMMA PaymentSound ==
  ASSUME NEW x, IsPayment(x), NEW e, e = PostPayment(x)
  PROVE  /\ Settles(x, e)
         /\ Collected(x) \in Nat /\ SumOf(Settled(x)) \in Nat
         /\ convertCents(Collected(x), x.rate) \in Nat
<1> DEFINE moved == convertCents(Collected(x), x.rate)
           paid == Settled(x)
           settled == SumOf(paid)
           gain == IF x.inbound THEN moved - settled ELSE settled - moved
           bank == IF x.inbound THEN Leg("bank", moved, 0) ELSE Leg("bank", 0, moved)
           row == [i \in DOMAIN x.applied |->
                     [account |-> "settled", no |-> i,
                      debit |-> IF x.inbound THEN 0 ELSE paid[i],
                      credit |-> IF x.inbound THEN paid[i] ELSE 0]]
           f == [i \in DOMAIN x.applied |-> IF x.inbound THEN 0 - paid[i] ELSE paid[i]]
           difference == IF gain > 0 THEN Leg("exchange gain", 0, gain) ELSE Leg("exchange loss", -gain, 0)
           rows == {row[i] : i \in DOMAIN x.applied}
           legs == {bank} \cup rows \cup Legs({difference})
           face == [i \in DOMAIN x.applied |-> x.applied[i].cents]
<1>1. x.inbound \in BOOLEAN /\ x.rate \in Rate /\ IsFiniteSet(DOMAIN x.applied)
  BY FS_Interval DEF IsPayment
<1>2. Collected(x) \in Nat
  <2>1. Collected(x) = Total(face, DOMAIN x.applied) /\ \A i \in DOMAIN x.applied : face[i] \in Nat
    BY DEF Collected, SumOf, IsPayment
  <2> HIDE DEF face
  <2> QED BY <1>1, <2>1, TotalNat
<1>3. moved \in Nat
  BY <1>1, <1>2, ConvertType
<1>4. \A i \in DOMAIN x.applied : paid[i] \in Nat
  BY ConvertType DEF IsPayment, Settled
<1>5. settled = Total(paid, DOMAIN x.applied)
  BY DEF SumOf, Settled
<1>6. settled \in Nat
  <2> HIDE DEF settled, paid
  <2> QED BY <1>1, <1>4, <1>5, TotalNat
<1>7. e = IF moved = 0 \/ \E i \in DOMAIN x.applied : paid[i] = 0 THEN Refused ELSE Posted(legs)
  <2> DEFINE leg(i) == [(IF ~x.inbound THEN Leg("settled", paid[i], 0) ELSE Leg("settled", 0, paid[i]))
                          EXCEPT !.no = i]
  <2>1. ASSUME NEW i \in DOMAIN x.applied PROVE row[i] = leg(i)
    <3> HIDE DEF paid
    <3> QED BY <1>1 DEF Leg
  <2>2. e = IF moved = 0 \/ \E i \in DOMAIN x.applied : paid[i] = 0 THEN Refused
            ELSE Posted({bank} \cup {leg(i) : i \in DOMAIN x.applied} \cup Legs({difference}))
    BY DEF PostPayment
  <2> HIDE DEF leg, row
  <2>3. {leg(i) : i \in DOMAIN x.applied} = rows
    BY <2>1
  <2> HIDE DEF rows, bank, difference, moved, paid, settled, gain
  <2> QED BY <2>2, <2>3
<1> DEFINE I == DOMAIN x.applied
           net == IF x.inbound THEN moved ELSE 0 - moved
<1>8. gain \in Int /\ net \in Int
  BY <1>1, <1>3, <1>6
<1>9. /\ bank.debit \in Int /\ bank.credit \in Int /\ bank.debit - bank.credit = net
      /\ moved # 0 => Recordable(bank)
  <2> HIDE DEF moved, gain
  <2> QED BY <1>1, <1>3 DEF Leg, Recordable
<1>10. bank.account = "bank"
  BY DEF Leg
<1>11. ASSUME NEW i \in I
       PROVE  /\ row[i].debit \in Int /\ row[i].credit \in Int
              /\ f[i] = row[i].debit - row[i].credit /\ f[i] \in Int
              /\ paid[i] # 0 => Recordable(row[i])
              /\ f[i] = IF x.inbound THEN 0 - paid[i] ELSE paid[i]
  <2> HIDE DEF paid
  <2> QED BY <1>1, <1>4 DEF Recordable
<1>12. \A i \in I : row[i].account = "settled" /\ row[i].no = i
  OBVIOUS
<1>13. /\ difference.debit \in Int /\ difference.credit \in Int
       /\ difference.debit - difference.credit = 0 - gain
       /\ gain # 0 => Recordable(difference)
       /\ gain = 0 <=> difference.debit = 0 /\ difference.credit = 0
  <2> HIDE DEF moved, settled, gain
  <2> QED BY <1>8 DEF Leg, Recordable
<1>14. difference.account \in {"exchange gain", "exchange loss"}
  BY DEF Leg
<1>15. \A l \in rows : \E i \in I : l = row[i]
  OBVIOUS
<1> DEFINE rest == Legs({difference})
<1>16. rest = IF gain = 0 THEN {} ELSE {difference}
  <2> HIDE DEF gain, difference
  <2> QED BY <1>13 DEF Legs
<1>17. legs = ({bank} \cup rows) \cup rest
  OBVIOUS
<1> HIDE DEF bank, row, f, difference, net
<1>18. Total(f, I) = IF x.inbound THEN 0 - settled ELSE settled
  <2>1. CASE x.inbound
    <3>1. \A i \in I : paid[i] \in Int /\ f[i] = 0 - paid[i]
      BY <1>4, <1>11, <2>1
    <3> HIDE DEF I, paid
    <3> QED BY <1>1, <1>5, <2>1, <3>1, TotalNegative DEF I
  <2>2. CASE ~x.inbound
    <3>1. \A i \in I : paid[i] = f[i] /\ paid[i] \in Int
      BY <1>4, <1>11, <2>2
    <3> HIDE DEF I, paid
    <3> QED BY <1>1, <1>5, <2>2, <3>1, TotalEqual DEF I
  <2> QED BY <2>1, <2>2
<1>19. LegAmounts(rows) /\ NetOf(rows) = Total(f, I)
  <2>1. \A i, k \in I : row[i] = row[k] => i = k
    <3>1. ASSUME NEW i \in I, NEW k \in I, row[i] = row[k] PROVE i = k
      <4>1. row[i].no = i /\ row[k].no = k
        BY <1>12
      <4> QED BY <3>1, <4>1
    <3> QED BY <3>1
  <2>2. IsFiniteSet(I) /\ (\A i \in I : row[i].debit \in Int /\ row[i].credit \in Int)
        /\ (\A i \in I : f[i] = row[i].debit - row[i].credit)
    BY <1>1, <1>11
  <2> HIDE DEF I
  <2>3. LegAmounts({row[i] : i \in I}) /\ NetOf({row[i] : i \in I}) = Total(f, I)
    BY ONLY <2>1, <2>2, NetEach
  <2> QED BY <2>3 DEF I
<1>20. LegAmounts({bank}) /\ NetOf({bank}) = net
  BY <1>9, NetOne
<1>21. LegAmounts(rest) /\ NetOf(rest) = 0 - gain
  <2>1. CASE gain = 0
    BY <1>16, <2>1, NetNone
  <2>2. CASE gain # 0
    <3>1. LegAmounts({difference}) /\ NetOf({difference}) = difference.debit - difference.credit
      BY <1>13, NetOne
    <3> QED BY <1>13, <1>16, <2>2, <3>1
  <2> QED BY <2>1, <2>2
<1> HIDE DEF rows, rest, legs
<1>22. {bank} \cap rows = {} /\ ({bank} \cup rows) \cap rest = {}
       /\ \A l \in legs : l.account \in {"exchange gain", "exchange loss"} <=> l \in rest
  <2>1. \A l \in rows : l.account = "settled"
    BY <1>12, <1>15
  <2>2. \A l \in rest : l.account \in {"exchange gain", "exchange loss"}
    BY <1>14, <1>16
  <2>3. \A l \in rows : l # bank /\ l \notin rest
    BY <1>10, <2>1, <2>2
  <2>4. bank \notin rest
    BY <1>10, <2>2
  <2>5. \A l \in legs : l.account \in {"exchange gain", "exchange loss"} <=> l \in rest
    BY <1>10, <1>17, <2>1, <2>2
  <2> QED BY <2>3, <2>4, <2>5
<1>23. LegAmounts({bank} \cup rows) /\ NetOf({bank} \cup rows) = net + Total(f, I)
  <2>1. LegAmounts({bank} \cup rows) /\ NetOf({bank} \cup rows) = NetOf({bank}) + NetOf(rows)
    BY <1>19, <1>20, <1>22, NetUnion
  <2> QED BY <1>19, <1>20, <2>1
<1>24. LegAmounts(legs) /\ NetOf(legs) = (net + Total(f, I)) + (0 - gain)
  <2>1. LegAmounts(({bank} \cup rows) \cup rest)
        /\ NetOf(({bank} \cup rows) \cup rest) = NetOf({bank} \cup rows) + NetOf(rest)
        /\ NetOf({bank} \cup rows) \in Int
    BY <1>21, <1>22, <1>23, NetUnion
  <2>2. NetOf(legs) = (net + Total(f, I)) + (0 - gain)
    BY <1>17, <1>21, <1>23, <2>1
  <2>3. LegAmounts(legs)
    BY <1>17, <2>1
  <2> QED BY <2>2, <2>3
<1>25. NetOf(legs) = 0
  <2> HIDE DEF moved, settled
  <2> QED BY <1>1, <1>3, <1>6, <1>18, <1>24 DEF net
<1>26. CASE moved = 0 \/ \E i \in I : paid[i] = 0
  <2>1. e = Refused
    BY <1>7, <1>26
  <2>2. e.outcome = "refused"
    BY <2>1 DEF Refused
  <2>3. Settles(x, e)
    BY <2>2 DEF Settles, Balanced
  <2> QED BY <1>2, <1>3, <1>6, <2>3
<1>27. CASE ~(moved = 0 \/ \E i \in I : paid[i] = 0)
  <2>1. \A l \in legs : Recordable(l)
    BY <1>9, <1>11, <1>13, <1>15, <1>16, <1>17, <1>27
  <2>2. e.outcome = "posted" /\ e.legs = legs
    BY <1>7, <1>27, <2>1 DEF Posted
  <2>3. Balanced(e)
    BY <1>24, <1>25, <2>2 DEF Balanced
  <2>4. \A l \in legs : l.account \in {"exchange gain", "exchange loss"} <=> l \in rest
    BY <1>22
  <2>5. OnTheLeg(e, "exchange gain") + OnTheLeg(e, "exchange loss") = 0 - gain
    <3> DEFINE gained == {l \in e.legs : l.account = "exchange gain"}
               lost == {l \in e.legs : l.account = "exchange loss"}
    <3>1. /\ \A l \in gained : l \in rest /\ l.account = "exchange gain"
          /\ \A l \in lost : l \in rest /\ l.account = "exchange loss"
          /\ \A l \in rest : l \in gained \/ l \in lost
      BY <1>17, <2>2, <2>4
    <3>2. OnTheLeg(e, "exchange gain") = NetOf(gained) /\ OnTheLeg(e, "exchange loss") = NetOf(lost)
      BY DEF OnTheLeg
    <3> HIDE DEF gained, lost
    <3>3. rest = gained \cup lost /\ gained \cap lost = {}
      BY <3>1
    <3>4. LegAmounts(gained) /\ LegAmounts(lost)
      <4>1. gained \in SUBSET rest /\ lost \in SUBSET rest
        BY <3>3
      <4> QED BY <1>21, <4>1, FS_Subset DEF LegAmounts
    <3>5. NetOf(gained \cup lost) = NetOf(gained) + NetOf(lost)
      BY <3>3, <3>4, NetUnion
    <3> QED BY <1>21, <3>2, <3>3, <3>5
  <2>6. 0 - gain = IF x.inbound THEN settled - moved ELSE moved - settled
    <3> HIDE DEF moved, settled
    <3> QED BY <1>1, <1>3, <1>6
  <2>7. Settles(x, e)
    BY <2>2, <2>3, <2>5, <2>6 DEF Settles
  <2> QED BY <1>2, <1>3, <1>6, <2>7
<1> QED BY <1>26, <1>27

LEMMA Half ==
  ASSUME NEW cents \in Nat, NEW tenths \in Nat
  PROVE  tenths * cents \in Nat /\ roundHalfUp(<<tenths * cents, 10>>) \in Nat
BY ProductNat, RoundType

LEMMA ReceiptSound ==
  ASSUME NEW x, IsReceipt(x), NEW e, e = buildReceiptGRNILines(x)
  PROVE  Balanced(e) /\ e.outcome \in {"nothing", "posted"}
<1> DEFINE vendor == VendorValue(x)
           landed == applyLandedCost(x)
           stock == Leg("inventory", vendor + landed, 0)
           grni == Leg("grni", 0, vendor)
           costs == Leg("import costs", 0, landed)
           rest == Legs({costs})
           legs == {stock, grni} \cup rest
<1>1. x.rate \in Rate /\ x.freight \in Nat /\ IsFiniteSet(DOMAIN x.lines) /\ IsFiniteSet(DOMAIN x.orders)
  BY FS_Interval DEF IsReceipt
<1>2. \A i \in DOMAIN x.lines : x.lines[i].qty \in Nat /\ (x.lines[i].cost # Missing => x.lines[i].cost \in Nat)
  BY DEF IsReceipt, Cost
<1>3. vendor \in Nat
  <2> DEFINE L == {i \in DOMAIN x.lines : x.lines[i].cost # Missing}
             f == [i \in L |-> roundHalfUp(<<x.lines[i].qty * convertCents(x.lines[i].cost, x.rate), 10>>)]
  <2>1. ASSUME NEW i \in L PROVE f[i] \in Nat
    <3>1. convertCents(x.lines[i].cost, x.rate) \in Nat
      BY <1>1, <1>2, ConvertType
    <3> QED BY <1>2, <3>1, Half
  <2>2. vendor = Total(f, L)
    BY DEF VendorValue, SumOf
  <2>3. IsFiniteSet(L)
    BY <1>1, FS_Subset
  <2> HIDE DEF L, f
  <2> QED BY <2>1, <2>2, <2>3, TotalNat
<1>4. totalCommittedPOValueForImport(x.orders) \in Nat
  <2> DEFINE O == {i \in DOMAIN x.orders : ~x.orders[i].cancelled}
             f == [i \in O |-> x.orders[i].qty * convertCents(x.orders[i].price, x.orders[i].rate)]
  <2>1. ASSUME NEW i \in O PROVE f[i] \in Nat
    <3>1. x.orders[i].qty \in Nat /\ x.orders[i].price \in Nat /\ x.orders[i].rate \in Rate
      BY DEF IsReceipt
    <3>2. convertCents(x.orders[i].price, x.orders[i].rate) \in Nat
      BY <3>1, ConvertType
    <3> QED BY <3>1, <3>2, ProductNat
  <2>2. totalCommittedPOValueForImport(x.orders) = Total(f, O)
    BY DEF totalCommittedPOValueForImport, SumOf
  <2>3. IsFiniteSet(O)
    BY <1>1, FS_Subset
  <2> HIDE DEF O, f
  <2> QED BY <2>1, <2>2, <2>3, TotalNat
<1>5. ASSUME NEW i \in DOMAIN x.lines PROVE MarkupPerUnit(x, i) \in Nat
  <2> DEFINE committed == totalCommittedPOValueForImport(x.orders)
             worth == convertCents(x.lines[i].cost, x.rate)
  <2>1. CASE x.lines[i].cost = Missing \/ ~x.lines[i].imported
    BY <2>1 DEF MarkupPerUnit
  <2>2. CASE ~(x.lines[i].cost = Missing \/ ~x.lines[i].imported)
    <3>1. MarkupPerUnit(x, i) = roundHalfUp(Times(Frac(worth), landedCostRate(x.freight, committed)))
      BY <2>2 DEF MarkupPerUnit
    <3>2. worth \in Nat /\ committed \in Nat
      BY <1>1, <1>2, <1>4, <2>2, ConvertType
    <3> HIDE DEF worth, committed
    <3>3. CASE committed = 0
      <4>1. Times(Frac(worth), landedCostRate(x.freight, committed)) = <<worth * 0, 1>>
        BY <3>3 DEF Times, Frac, landedCostRate
      <4>2. worth * 0 \in Nat
        BY <3>2
      <4> QED BY <3>1, <4>1, <4>2, RoundType
    <3>4. CASE committed # 0
      <4>1. Times(Frac(worth), landedCostRate(x.freight, committed)) = <<worth * (10 * x.freight), 1 * committed>>
        BY <3>4 DEF Times, Frac, landedCostRate
      <4>2. worth * (10 * x.freight) \in Nat /\ 1 * committed \in Nat \ {0}
        <5>1. 10 * x.freight \in Nat
          BY <1>1
        <5> QED BY <3>2, <3>4, <5>1, ProductNat
      <4> QED BY <3>1, <4>1, <4>2, RoundType
    <3> QED BY <3>3, <3>4
  <2> QED BY <2>1, <2>2
<1>6. landed \in Nat
  <2> DEFINE f == [i \in DOMAIN x.lines |-> roundHalfUp(<<x.lines[i].qty * MarkupPerUnit(x, i), 10>>)]
  <2>1. ASSUME NEW i \in DOMAIN x.lines PROVE f[i] \in Nat
    BY <1>2, <1>5, Half
  <2>2. landed = Total(f, DOMAIN x.lines)
    BY DEF applyLandedCost, SumOf
  <2> HIDE DEF f
  <2> QED BY <1>1, <2>1, <2>2, TotalNat
<1>7. e = IF x.quantityOnly \/ vendor = 0 THEN NoEntry ELSE Posted(legs)
  BY DEF buildReceiptGRNILines
<1> HIDE DEF vendor, landed
<1>8. /\ stock.account = "inventory" /\ grni.account = "grni" /\ costs.account = "import costs"
  BY DEF Leg
<1>9. /\ stock.debit = vendor + landed /\ stock.credit = 0 /\ grni.debit = 0 /\ grni.credit = vendor
      /\ costs.debit = 0 /\ costs.credit = landed
  BY DEF Leg
<1> HIDE DEF stock, grni, costs
<1>10. rest = IF landed = 0 THEN {} ELSE {costs}
  BY <1>6, <1>9 DEF Legs
<1>11. legs = ({stock} \cup {grni}) \cup rest
  OBVIOUS
<1> HIDE DEF rest, legs
<1>12. /\ LegAmounts({stock}) /\ NetOf({stock}) = vendor + landed
       /\ LegAmounts({grni}) /\ NetOf({grni}) = 0 - vendor
       /\ LegAmounts({costs}) /\ NetOf({costs}) = 0 - landed
  <2>1. /\ stock.debit \in Int /\ stock.credit \in Int /\ grni.debit \in Int /\ grni.credit \in Int
        /\ costs.debit \in Int /\ costs.credit \in Int
        /\ stock.debit - stock.credit = vendor + landed /\ grni.debit - grni.credit = 0 - vendor
        /\ costs.debit - costs.credit = 0 - landed
    BY <1>3, <1>6, <1>9
  <2>2. LegAmounts({stock}) /\ NetOf({stock}) = stock.debit - stock.credit
    BY <2>1, NetOne
  <2>3. LegAmounts({grni}) /\ NetOf({grni}) = grni.debit - grni.credit
    BY <2>1, NetOne
  <2>4. LegAmounts({costs}) /\ NetOf({costs}) = costs.debit - costs.credit
    BY <2>1, NetOne
  <2> QED BY <2>1, <2>2, <2>3, <2>4
<1>13. LegAmounts(rest) /\ NetOf(rest) = 0 - landed
  BY <1>6, <1>10, <1>12, NetNone
<1>14. {stock} \cap {grni} = {} /\ ({stock} \cup {grni}) \cap rest = {}
  BY <1>8, <1>10
<1>15. LegAmounts({stock} \cup {grni}) /\ NetOf({stock} \cup {grni}) = NetOf({stock}) + NetOf({grni})
  BY <1>12, <1>14, NetUnion
<1>16. LegAmounts(legs) /\ NetOf(legs) = NetOf({stock} \cup {grni}) + NetOf(rest)
  BY <1>11, <1>13, <1>14, <1>15, NetUnion
<1>17. NetOf(legs) = 0
  <2>1. NetOf(legs) = ((vendor + landed) + (0 - vendor)) + (0 - landed)
    BY <1>12, <1>13, <1>15, <1>16
  <2> QED BY <1>3, <1>6, <2>1
<1>18. CASE x.quantityOnly \/ vendor = 0
  <2>1. e = NoEntry
    BY <1>7, <1>18
  <2> QED BY <2>1 DEF NoEntry, Balanced
<1>19. CASE ~(x.quantityOnly \/ vendor = 0)
  <2>1. \A l \in legs : Recordable(l)
    <3>1. vendor > 0 /\ vendor + landed > 0
      BY <1>3, <1>6, <1>19
    <3>2. Recordable(stock) /\ Recordable(grni)
      BY <1>9, <3>1 DEF Recordable
    <3>3. landed # 0 => Recordable(costs)
      BY <1>6, <1>9 DEF Recordable
    <3> QED BY <1>10, <1>11, <3>2, <3>3
  <2>2. e.outcome = "posted" /\ e.legs = legs
    BY <1>7, <1>19, <2>1 DEF Posted
  <2> QED BY <1>16, <1>17, <2>2 DEF Balanced
<1> QED BY <1>18, <1>19

LEMMA ShipmentSound ==
  ASSUME NEW x, IsShipment(x), NEW e, e = buildCOGSGLLines(x)
  PROVE  Balanced(e) /\ e.outcome \in {"nothing", "refused", "posted"}
<1> DEFINE f == [i \in DOMAIN x.lines |-> x.lines[i].qty * resolveMovementCost(x.lines[i])]
           worth == SumOf(f)
           cents == roundHalfUp(<<worth, 10>>)
           unknown == \E i \in DOMAIN x.lines : resolveMovementCost(x.lines[i]) = Missing
<1>1. e = IF x.quantityOnly THEN NoEntry ELSE IF unknown THEN Refused
          ELSE Signed("cost of goods", "inventory", cents)
  BY DEF buildCOGSGLLines
<1>2. CASE x.quantityOnly \/ unknown
  <2>1. e = NoEntry \/ e = Refused
    BY <1>1, <1>2
  <2> QED BY <2>1 DEF NoEntry, Refused, Balanced
<1>3. CASE ~(x.quantityOnly \/ unknown)
  <2>1. \A i \in DOMAIN x.lines : f[i] \in Int
    <3>1. ASSUME NEW i \in DOMAIN x.lines PROVE f[i] \in Int
      <4>1. resolveMovementCost(x.lines[i]) \in Nat /\ x.lines[i].qty \in Nat
        BY <1>3 DEF IsShipment, resolveMovementCost, Cost
      <4> QED BY <4>1, ProductNat
    <3> QED BY <3>1
  <2>2. worth = Total(f, DOMAIN x.lines) /\ IsFiniteSet(DOMAIN x.lines)
    BY DEF SumOf, IsShipment
  <2> HIDE DEF f, worth
  <2>3. worth \in Int
    BY <2>1, <2>2, TotalType
  <2>4. cents \in Int
    BY <2>3, RoundType
  <2>5. e = Signed("cost of goods", "inventory", cents) /\ "cost of goods" # "inventory"
    BY <1>1, <1>3
  <2> HIDE DEF cents
  <2> QED BY <2>4, <2>5, SignedSound
<1> QED BY <1>2, <1>3

LEMMA AdjustmentSound ==
  ASSUME NEW x, x.qty \in Int, x.stated \in Cost, x.unitCost \in Cost, x.average \in Cost,
         NEW e, e = buildStockAdjustmentGLLines(x)
  PROVE  Balanced(e) /\ e.outcome \in {"nothing", "refused", "posted"}
<1> DEFINE cost == IF x.qty > 0 /\ x.stated # Missing THEN x.stated ELSE resolveMovementCost(x)
           worthless == x.quantityOnly \/ (x.qty > 0 /\ cost = Missing)
           cents == roundHalfUp(<<x.qty * cost, 10>>)
<1>1. e = IF worthless THEN NoEntry ELSE IF cost = Missing THEN Refused
          ELSE Signed("inventory", "adjustment", cents)
  BY DEF buildStockAdjustmentGLLines
<1>2. cost # Missing => cost \in Nat
  BY DEF resolveMovementCost, Cost
<1> HIDE DEF cost
<1>3. CASE worthless \/ cost = Missing
  <2>1. e = NoEntry \/ e = Refused
    BY <1>1, <1>3
  <2> QED BY <2>1 DEF NoEntry, Refused, Balanced
<1>4. CASE ~(worthless \/ cost = Missing)
  <2>1. x.qty * cost \in Int
    BY <1>2, <1>4
  <2>2. cents \in Int
    BY <2>1, RoundType
  <2>3. e = Signed("inventory", "adjustment", cents) /\ "inventory" # "adjustment"
    BY <1>1, <1>4
  <2> HIDE DEF cents
  <2> QED BY <2>2, <2>3, SignedSound
<1> QED BY <1>3, <1>4

LEMMA ProductionSound ==
  ASSUME NEW x, x.qty \in Nat \ {0}, x.components \in Nat,
         NEW e, e = buildProductionOrderGLLines(x)
  PROVE  Balanced(e) /\ e.outcome \in {"nothing", "posted"}
<1> DEFINE unit == UnitCost(x.components, x.qty)
           made == roundHalfUp(<<x.qty * unit, 10>>)
           cents == made - x.components
<1>1. e = IF x.quantityOnly THEN NoEntry ELSE Signed("inventory", "adjustment", cents)
  BY DEF buildProductionOrderGLLines
<1>2. unit \in Nat
  BY RoundType DEF UnitCost
<1> HIDE DEF unit
<1>3. made \in Nat
  BY <1>2, Half
<1> HIDE DEF made
<1>4. cents \in Int
  BY <1>3
<1> HIDE DEF cents
<1>5. CASE x.quantityOnly
  BY <1>1, <1>5 DEF NoEntry, Balanced
<1>6. CASE ~x.quantityOnly
  <2>1. e = Signed("inventory", "adjustment", cents) /\ "inventory" # "adjustment"
    BY <1>1, <1>6
  <2> QED BY <1>4, <2>1, SignedSound
<1> QED BY <1>5, <1>6

-----------------------------------------------------------------------------
(* Every entry.                                                            *)

EntrySound(x, e) ==
  /\ Balanced(e)
  /\ e.outcome = "posted" =>
       /\ x.kind = "invoice" => OnTheLeg(e, "receivable") = Owed(x)
       /\ x.kind = "bill" => OnTheLeg(e, "payable") = -Owed(x)
  /\ e.outcome = "fails" =>
       x.kind \in {"invoice", "bill"} /\ (Owed(x) = 0 \/ Overdrawn(x))

LEMMA EntriesSound ==
  ASSUME NEW x \in Documents, NEW e, e = EntryOf(x)
  PROVE  EntrySound(x, e)
<1>1. CASE x.kind \in {"invoice", "bill"}
  <2>1. e = PostInvoice(x) /\ IsInvoice(x)
    BY <1>1, PostingsAssumption DEF EntryOf
  <2>2. CASE validateInvoiceTotals(x) # "valid" \/ Due(x) = 0
    <3>1. e \in {Refused, Panics, NoEntry}
      BY <2>1, <2>2 DEF PostInvoice, validateInvoiceTotals
    <3>2. e.outcome \notin {"posted", "fails"}
      BY <3>1 DEF Refused, Panics, NoEntry
    <3> QED BY <3>2 DEF EntrySound, Balanced
  <2>3. CASE validateInvoiceTotals(x) = "valid" /\ Due(x) # 0
    <3>1. x.discount >= 0 /\ 10 * x.discount <= All(x)
      <4>1. ~(x.discount < 0 \/ All(x) < 10 * x.discount)
        BY <2>3 DEF validateInvoiceTotals
      <4>2. x.discount \in Int /\ All(x) \in Nat
        BY <2>1, WorthOfLines DEF IsInvoice
      <4> QED BY <4>1, <4>2
    <3>2. CASE x.kind = "invoice"
      <4>1. e = buildInvoiceGLLines(x)
        BY <2>1, <2>3, <3>2 DEF PostInvoice
      <4> QED BY <2>1, <3>1, <3>2, <4>1, InvoiceSound DEF EntrySound
    <3>3. CASE x.kind = "bill"
      <4>1. e = buildIncomingInvoiceGLLines(x)
        BY <2>1, <2>3, <3>3 DEF PostInvoice
      <4> QED BY <2>1, <2>3, <3>1, <3>3, <4>1, BillSound DEF EntrySound
    <3> QED BY <1>1, <3>2, <3>3
  <2>4. validateInvoiceTotals(x) = "valid" \/ validateInvoiceTotals(x) # "valid"
    OBVIOUS
  <2> QED BY <2>2, <2>3, <2>4
<1>2. ASSUME Balanced(e), e.outcome # "fails", x.kind \notin {"invoice", "bill"}
      PROVE  EntrySound(x, e)
  BY <1>2 DEF EntrySound
<1>3. CASE x.kind = "payment"
  <2>1. e = PostPayment(x) /\ IsPayment(x)
    BY <1>3, PostingsAssumption DEF EntryOf
  <2> QED BY <1>2, <1>3, <2>1, PaymentSound DEF Settles
<1>4. CASE x.kind = "receipt"
  <2>1. e = buildReceiptGRNILines(x) /\ IsReceipt(x)
    BY <1>4, PostingsAssumption DEF EntryOf
  <2> QED BY <1>2, <1>4, <2>1, ReceiptSound
<1>5. CASE x.kind = "shipment"
  <2>1. e = buildCOGSGLLines(x) /\ IsShipment(x)
    BY <1>5, PostingsAssumption DEF EntryOf
  <2> QED BY <1>2, <1>5, <2>1, ShipmentSound
<1>6. CASE x.kind = "adjustment"
  <2>1. e = buildStockAdjustmentGLLines(x)
    BY <1>6 DEF EntryOf
  <2>2. x.qty \in Int /\ x.stated \in Cost /\ x.unitCost \in Cost /\ x.average \in Cost
    BY <1>6, PostingsAssumption
  <2> QED BY <1>2, <1>6, <2>1, <2>2, AdjustmentSound
<1>7. CASE x.kind = "production"
  <2>1. e = buildProductionOrderGLLines(x)
    BY <1>7 DEF EntryOf
  <2>2. x.qty \in Nat \ {0} /\ x.components \in Nat
    BY <1>7, PostingsAssumption
  <2> QED BY <1>2, <1>7, <2>1, <2>2, ProductionSound
<1>8. CASE x.kind \in {"history", "recipe"}
  <2>1. e = NoEntry
    BY <1>8 DEF EntryOf
  <2> QED BY <1>2, <1>8, <2>1 DEF NoEntry, Balanced
<1>9. x.kind \in {"invoice", "bill", "payment", "receipt", "shipment", "adjustment",
                  "production", "history", "recipe"}
  BY PostingsAssumption
<1> QED BY <1>1, <1>3, <1>4, <1>5, <1>6, <1>7, <1>8, <1>9

\* There is a document, and its entry is the one that the code makes of it.
PostingInvariant == doc \in Documents /\ posting \in {Unposted, EntryOf(doc)}

LEMMA PostingInvariantHolds == PostingSpec => []PostingInvariant
<1>1. PostingInit => PostingInvariant
  BY DEF PostingInit, PostingInvariant
<1>2. PostingInvariant /\ [PostingNext]_postingVars => PostingInvariant'
  <2>1. PostingInvariant /\ Post => PostingInvariant'
    BY DEF PostingInvariant, Post
  <2>2. PostingInvariant /\ UNCHANGED postingVars => PostingInvariant'
    BY DEF PostingInvariant, postingVars
  <2> QED BY <2>1, <2>2 DEF PostingNext
<1> QED BY <1>1, <1>2, PTL DEF PostingSpec

\* Every entry the code makes of a document, of any number of lines, taxes and
\* accounts and at any rates, balances and leaves the document's total with the
\* party; the table refuses one only of a document too small or too splintered
\* (db/gl_posting.go:275-330, db/payment.go:680-703).
THEOREM PostedEntrySound == PostingSpec => []EntryIsSound
<1>1. PostingInvariant => EntryIsSound
  <2>1. SUFFICES ASSUME PostingInvariant PROVE EntryIsSound
    OBVIOUS
  <2>2. CASE posting = Unposted
    BY <2>2 DEF Unposted, EntryIsSound
  <2>3. CASE posting = EntryOf(doc)
    <3>1. EntrySound(doc, posting)
      BY <2>1, <2>3, EntriesSound DEF PostingInvariant
    <3>2. ASSUME posting.outcome = "posted" PROVE Debits = Credits
      <4>1. LegAmounts(posting.legs) /\ NetOf(posting.legs) = 0
        BY <3>1, <3>2 DEF EntrySound, Balanced
      <4> QED BY <4>1, SidesEqual DEF Debits, Credits
    <3> QED BY <3>1, <3>2 DEF EntrySound, EntryIsSound, OnLeg, OnTheLeg
  <2> QED BY <2>1, <2>2, <2>3 DEF PostingInvariant
<1> QED BY <1>1, PostingInvariantHolds, PTL

\* What is never more than k away from nothing adds up to at most k each.
LEMMA TotalBounded ==
  ASSUME NEW S, IsFiniteSet(S), NEW k \in Int,
         NEW f, \A a \in S : f[a] \in Int /\ -k <= f[a] /\ f[a] <= k
  PROVE  /\ Cardinality(S) \in Nat
         /\ -(Cardinality(S) * k) <= Total(f, S) /\ Total(f, S) <= Cardinality(S) * k
<1> DEFINE G == {s \in SUBSET S : /\ -(Cardinality(s) * k) <= Total(f, s)
                                  /\ Total(f, s) <= Cardinality(s) * k}
<1>1. {} \in G
  <2>1. Total(f, {}) = 0 /\ Cardinality({}) = 0 /\ 0 * k = 0
    BY TotalEmpty, FS_EmptySet
  <2> QED BY <2>1
<1>2. ASSUME NEW s \in SUBSET S, NEW x \in s, s \ {x} \in G PROVE s \in G
  <2> DEFINE n == Cardinality(s \ {x})
             total == Total(f, s \ {x})
  <2>1. IsFiniteSet(s) /\ IsFiniteSet(s \ {x})
    BY FS_Subset
  <2>2. n \in Nat /\ Cardinality(s) = n + 1
    BY <2>1, FS_RemoveElement, FS_CardinalityType
  <2>3. total \in Int /\ Total(f, s) = f[x] + total
    BY <2>1, TotalType, TotalRemove
  <2>4. f[x] \in Int /\ -k <= f[x] /\ f[x] <= k
    OBVIOUS
  <2>5. -(n * k) <= total /\ total <= n * k
    BY <1>2
  <2> HIDE DEF n, total
  <2>6. (n + 1) * k = n * k + k /\ n * k \in Int
    BY <2>2
  <2>7. -((n + 1) * k) <= f[x] + total /\ f[x] + total <= (n + 1) * k
    BY <2>3, <2>4, <2>5, <2>6
  <2> QED BY <2>2, <2>3, <2>7
<1> HIDE DEF G
<1>3. S \in G
  BY <1>1, <1>2, Inductively
<1>4. Cardinality(S) \in Nat
  BY FS_CardinalityType
<1> QED BY <1>3, <1>4 DEF G

\* Converted amounts, times the denominator of the rate.
LEMMA ConvertClose ==
  ASSUME NEW cents \in Nat, NEW rate \in Rate
  PROVE  /\ convertCents(cents, rate) \in Nat
         /\ -rate[2] <= 2 * (convertCents(cents, rate) * rate[2]) - 2 * (cents * rate[1])
         /\ 2 * (convertCents(cents, rate) * rate[2]) - 2 * (cents * rate[1]) <= rate[2]
<1>1. rate[1] \in Nat \ {0} /\ rate[2] \in Nat \ {0}
  BY DEF Rate
<1>2. cents * rate[1] \in Nat
  BY <1>1, ProductNat
<1>3. convertCents(cents, rate) = roundHalfUp(<<cents * rate[1], rate[2]>>)
  BY DEF convertCents
<1> QED BY <1>1, <1>2, <1>3, RoundClose

\* LegAmounts converted one by one.
LEMMA ConvertedSum ==
  ASSUME NEW S, IsFiniteSet(S), NEW rate \in Rate,
         NEW face, NEW paid, \A i \in S : face[i] \in Nat /\ paid[i] = convertCents(face[i], rate),
         NEW off, off = 2 * (Total(paid, S) * rate[2]) - 2 * (Total(face, S) * rate[1])
  PROVE  /\ Total(face, S) \in Nat /\ Total(paid, S) \in Nat /\ Cardinality(S) \in Nat
         /\ off \in Int /\ -(Cardinality(S) * rate[2]) <= off /\ off <= Cardinality(S) * rate[2]
<1> DEFINE num == rate[1]
           den == rate[2]
           each == [i \in S |-> 2 * (paid[i] * den) - 2 * (face[i] * num)]
           paidBy == [i \in S |-> paid[i] * (2 * den)]
           faceBy == [i \in S |-> face[i] * (2 * num)]
<1>1. num \in Nat \ {0} /\ den \in Nat \ {0}
  BY DEF Rate
<1>2. ASSUME NEW i \in S
      PROVE  /\ face[i] \in Nat /\ paid[i] \in Nat
             /\ each[i] = 2 * (paid[i] * den) - 2 * (face[i] * num)
             /\ -den <= each[i] /\ each[i] <= den
  BY ConvertClose
<1>3. /\ \A i \in S : paid[i] \in Int /\ paidBy[i] = paid[i] * (2 * den)
      /\ \A i \in S : face[i] \in Int /\ faceBy[i] = face[i] * (2 * num)
  BY <1>2
<1> HIDE DEF num, den, each, paidBy, faceBy
<1>4. \A i \in S : /\ each[i] \in Int /\ paidBy[i] \in Int /\ faceBy[i] \in Int
                   /\ each[i] = paidBy[i] - faceBy[i]
  <2>1. ASSUME NEW i \in S
        PROVE  each[i] \in Int /\ paidBy[i] \in Int /\ faceBy[i] \in Int /\ each[i] = paidBy[i] - faceBy[i]
    <3>1. paid[i] * (2 * den) = 2 * (paid[i] * den) /\ paid[i] * den \in Int
      BY <1>1, <1>2
    <3>2. face[i] * (2 * num) = 2 * (face[i] * num) /\ face[i] * num \in Int
      BY <1>1, <1>2
    <3> QED BY <1>2, <1>3, <3>1, <3>2
  <2> QED BY <2>1
<1>5. /\ Cardinality(S) \in Nat
      /\ -(Cardinality(S) * den) <= Total(each, S) /\ Total(each, S) <= Cardinality(S) * den
  <2>1. den \in Int /\ \A i \in S : each[i] \in Int /\ -den <= each[i] /\ each[i] <= den
    BY <1>1, <1>2, <1>4
  <2> QED BY <2>1, TotalBounded
<1>6. Total(each, S) = Total(paidBy, S) - Total(faceBy, S)
  BY <1>4, TotalMinus
<1>7. Total(face, S) \in Nat /\ Total(paid, S) \in Nat
  BY <1>2, TotalNat
<1>8. Total(paidBy, S) = Total(paid, S) * (2 * den)
  <2>1. 2 * den \in Int
    BY <1>1
  <2> QED BY <1>3, <2>1, TotalScale
<1>9. Total(faceBy, S) = Total(face, S) * (2 * num)
  <2>1. 2 * num \in Int
    BY <1>1
  <2> QED BY <1>3, <2>1, TotalScale
<1>10. off = Total(each, S) /\ off \in Int
  <2>1. off = 2 * (Total(paid, S) * den) - 2 * (Total(face, S) * num)
    BY DEF num, den
  <2>2. /\ Total(paid, S) * (2 * den) = 2 * (Total(paid, S) * den) /\ Total(paid, S) * den \in Int
        /\ Total(face, S) * (2 * num) = 2 * (Total(face, S) * num) /\ Total(face, S) * num \in Int
    BY <1>1, <1>7
  <2> QED BY <1>6, <1>8, <1>9, <2>1, <2>2
<1> QED BY <1>5, <1>7, <1>10 DEF den

\* Documents converted at one rate, one by one and together.
LEMMA SettledClose ==
  ASSUME NEW x, IsPayment(x), \A i \in DOMAIN x.applied : x.applied[i].rate = x.rate,
         NEW moved, moved = convertCents(Collected(x), x.rate),
         NEW settled, settled = SumOf(Settled(x))
  PROVE  2 * (moved - settled) <= 1 + Len(x.applied) /\ 2 * (settled - moved) <= 1 + Len(x.applied)
<1> DEFINE I == DOMAIN x.applied
           num == x.rate[1]
           den == x.rate[2]
           face == [i \in I |-> x.applied[i].cents]
           paid == Settled(x)
           all == Collected(x)
           n == Len(x.applied)
<1>1. x.rate \in Rate /\ num \in Nat \ {0} /\ den \in Nat \ {0} /\ n \in Nat
  BY DEF IsPayment, Rate
<1>2. IsFiniteSet(I) /\ Cardinality(I) = n
  <2>1. I = 1..n
    BY DEF IsPayment
  <2> HIDE DEF I, n
  <2>2. IsFiniteSet(1..n) /\ Cardinality(1..n) = IF 1 > n THEN 0 ELSE n-1+1
    <3>1. 1 \in Int /\ n \in Int
      BY <1>1
    <3> QED BY ONLY <3>1, FS_Interval
  <2> QED BY <1>1, <2>1, <2>2
<1>3. all = Total(face, I) /\ settled = Total(paid, I)
  BY DEF Collected, Settled, SumOf
<1>4. all \in Nat /\ settled \in Nat /\ moved \in Nat
  BY PaymentSound
<1>5. \A i \in I : face[i] \in Nat /\ paid[i] = convertCents(face[i], x.rate)
  BY DEF IsPayment, Settled
<1> HIDE DEF all, n, face, paid, I
<1>6. -den <= 2 * (moved * den) - 2 * (all * num) /\ 2 * (moved * den) - 2 * (all * num) <= den
  BY <1>1, <1>4, ConvertClose DEF all
<1>7. /\ -(n * den) <= 2 * (settled * den) - 2 * (all * num)
      /\ 2 * (settled * den) - 2 * (all * num) <= n * den
  BY <1>1, <1>2, <1>3, <1>5, ConvertedSum
<1> HIDE DEF num, den
<1>8. settled * den \in Int /\ all * num \in Int /\ moved * den \in Int /\ n * den \in Int
  BY <1>1, <1>4
<1>9. /\ 2 * (moved * den) - 2 * (settled * den) <= den + n * den
      /\ 2 * (settled * den) - 2 * (moved * den) <= den + n * den
  BY <1>1, <1>6, <1>7, <1>8
<1>10. /\ 2 * (moved * den) - 2 * (settled * den) = (2 * (moved - settled)) * den
       /\ 2 * (settled * den) - 2 * (moved * den) = (2 * (settled - moved)) * den
       /\ den + n * den = (1 + n) * den
  BY <1>1, <1>4
<1>11. \A a, b \in Int : a * den <= b * den => a <= b
  BY <1>1
<1>12. 2 * (moved - settled) \in Int /\ 2 * (settled - moved) \in Int /\ 1 + n \in Int
  BY <1>1, <1>4
<1>13. 2 * (moved - settled) <= 1 + n /\ 2 * (settled - moved) <= 1 + n
  BY <1>9, <1>10, <1>11, <1>12
<1> QED BY <1>13 DEF n

\* However many documents a payment settles and whatever the rate they share,
\* exchange gains and losses are at most half a cent for each of the roundings
\* (db/payment.go:680-703).
THEOREM PaymentGainsAreRateDifferences == PostingSpec => []GainsAreRateDifferences
<1>1. PostingInvariant => GainsAreRateDifferences
  <2>1. SUFFICES ASSUME PostingInvariant,
                        doc.kind = "payment", posting.outcome = "posted",
                        \A i \in DOMAIN doc.applied : doc.applied[i].rate = doc.rate
                 PROVE  2 * Abs(OnLeg("exchange gain") + OnLeg("exchange loss")) <= 1 + Len(doc.applied)
    BY DEF GainsAreRateDifferences
  <2>2. posting = PostPayment(doc) /\ IsPayment(doc)
    <3>1. posting = EntryOf(doc) /\ doc \in Documents
      BY <2>1 DEF PostingInvariant, Unposted
    <3> QED BY <2>1, <3>1, PostingsAssumption DEF EntryOf
  <2> DEFINE moved == convertCents(Collected(doc), doc.rate)
             settled == SumOf(Settled(doc))
             gain == OnLeg("exchange gain") + OnLeg("exchange loss")
  <2>3. /\ Settles(doc, posting)
        /\ settled \in Nat /\ moved \in Nat
    BY <2>2, PaymentSound
  <2>4. gain = IF doc.inbound THEN settled - moved ELSE moved - settled
    BY <2>1, <2>3 DEF Settles, OnLeg, OnTheLeg
  <2>5. 2 * (moved - settled) <= 1 + Len(doc.applied) /\ 2 * (settled - moved) <= 1 + Len(doc.applied)
    BY <2>1, <2>2, SettledClose
  <2> HIDE DEF moved, settled, gain
  <2>6. 2 * Abs(gain) <= 1 + Len(doc.applied)
    <3>1. gain = settled - moved \/ gain = moved - settled
      BY <2>4
    <3>2. Abs(gain) = settled - moved \/ Abs(gain) = moved - settled
      BY <2>3, <3>1 DEF Abs
    <3> QED BY <2>5, <3>2
  <2> QED BY <2>6 DEF gain
<1> QED BY <1>1, PostingInvariantHolds, PTL

-----------------------------------------------------------------------------
(* The share of each account. LegAmounts are compared times the denominators  *)
(* of the discount and of the rate.                                        *)

LEMMA Multiplied ==
  ASSUME NEW a \in Int, NEW b \in Int, NEW k \in Nat, -b <= a, a <= b
  PROVE  a * k \in Int /\ b * k \in Int /\ -(b * k) <= a * k /\ a * k <= b * k
<1>1. (b - a) * k \in Nat /\ (b + a) * k \in Nat
  BY ProductNat
<1>2. (b - a) * k = b * k - a * k /\ (b + a) * k = b * k + a * k /\ a * k \in Int /\ b * k \in Int
  OBVIOUS
<1> QED BY <1>1, <1>2

\* One discount for every group: w tenths are worth w * p out of 10 * q.
NetsTo(x, p, q) ==
  /\ \A w \in Nat : Net(x, w) = <<w * p, 10 * q>>
  /\ All(x) * p = (All(x) - 10 * x.discount) * q

LEMMA NetScale ==
  ASSUME NEW x, IsInvoice(x), x.discount >= 0, 10 * x.discount <= All(x)
  PROVE  \E p \in Nat, q \in Nat \ {0} : NetsTo(x, p, q)
<1> USE DEF NetsTo
<1>1. All(x) \in Nat /\ x.discount \in Int
  BY WorthOfLines DEF IsInvoice
<1>2. CASE x.discount > 0 /\ All(x) > 0
  <2> DEFINE p == All(x) - 10 * x.discount
  <2>1. ASSUME NEW w \in Nat PROVE Net(x, w) = <<w * p, 10 * All(x)>>
    <3>1. Net(x, w) = <<w * All(x) - (x.discount * w) * 10, 10 * All(x)>>
      BY <1>2 DEF Net, Minus
    <3>2. w * All(x) - (x.discount * w) * 10 = w * p
      BY <1>1
    <3> QED BY <3>1, <3>2
  <2>2. p \in Nat /\ All(x) \in Nat \ {0} /\ All(x) * p = p * All(x)
    BY <1>1, <1>2
  <2> HIDE DEF p
  <2> QED BY <2>1, <2>2 DEF p
<1>3. CASE ~(x.discount > 0 /\ All(x) > 0)
  <2>1. \A w \in Nat : Net(x, w) = <<w * 1, 10 * 1>>
    BY <1>3 DEF Net
  <2>2. All(x) * 1 = (All(x) - 10 * x.discount) * 1
    BY <1>1, <1>3
  <2> QED BY <2>1, <2>2
<1> QED BY <1>2, <1>3

\* A group, rounded and converted.
LEMMA GroupClose ==
  ASSUME NEW w \in Nat, NEW p \in Nat, NEW q \in Nat \ {0}, NEW rate \in Rate,
         NEW cents, cents = convertCents(roundHalfUp(<<w * p, 10 * q>>), rate),
         NEW off, off = (2 * (cents * rate[2])) * (10 * q) - (2 * (w * p)) * rate[1]
  PROVE  /\ cents \in Nat /\ off \in Int
         /\ -((10 * q) * (rate[1] + rate[2])) <= off /\ off <= (10 * q) * (rate[1] + rate[2])
<1> DEFINE num == rate[1]
           den == rate[2]
           e == 10 * q
           net == w * p
           m == roundHalfUp(<<net, e>>)
           a == 2 * (cents * den) - 2 * (m * num)
           b == 2 * (m * e) - 2 * net
<1>1. num \in Nat \ {0} /\ den \in Nat \ {0} /\ e \in Nat \ {0} /\ net \in Nat
  BY ProductNat DEF Rate
<1> HIDE DEF e, net
<1>2. m \in Nat /\ -e <= b /\ b <= e
  BY <1>1, RoundClose
<1> HIDE DEF m
<1>3. cents \in Nat /\ -den <= a /\ a <= den
  BY <1>2, ConvertClose DEF m, e, net
<1> HIDE DEF num, den
<1>4. cents * den \in Int /\ m * num \in Int /\ m * e \in Int
  BY <1>1, <1>2, <1>3
<1>5. a \in Int /\ b \in Int /\ den \in Nat /\ e \in Nat /\ num \in Nat
  BY <1>1, <1>4
<1>6. off = a * e + b * num
  <2>1. off = (2 * (cents * den)) * e - (2 * net) * num
    BY DEF num, den, e, net
  <2>2. (2 * (cents * den)) * e - (2 * net) * num = a * e + b * num
    BY <1>1, <1>2, <1>3
  <2> QED BY <2>1, <2>2
<1> HIDE DEF a, b
<1>7. a * e \in Int /\ den * e \in Int /\ -(den * e) <= a * e /\ a * e <= den * e
  BY <1>3, <1>5, Multiplied
<1>8. b * num \in Int /\ e * num \in Int /\ -(e * num) <= b * num /\ b * num <= e * num
  BY <1>2, <1>5, Multiplied
<1>9. e * (num + den) = den * e + e * num
  BY <1>5
<1>10. off \in Int /\ -(e * (num + den)) <= off /\ off <= e * (num + den)
  BY <1>6, <1>7, <1>8, <1>9
<1> QED BY <1>3, <1>10 DEF e, num, den

\* What the accounts of a document earn is what its lines do.
LEMMA AccountsEarnAll ==
  ASSUME NEW x, IsInvoice(x), NEW w, \A a \in Accounts(x) : w[a] = OnAccount(x, a)
  PROVE  Total(w, Accounts(x)) = All(x)
<1> DEFINE S == DOMAIN x.lines
           k == [i \in S |-> x.lines[i].account]
<1>1. IsFiniteSet(S) /\ IsFiniteSet(Accounts(x))
  BY PartsFinite DEF IsInvoice
<1>2. \A i \in S : Worth(x)[i] \in Int
  BY ProductNat DEF IsInvoice, Worth
<1>3. All(x) = Total(Worth(x), S)
  BY DEF All, SumOf, Worth
<1>4. ASSUME NEW a \in Accounts(x) PROVE w[a] = Total(Worth(x), OfClass(S, k, a))
  <2>1. OfClass(S, k, a) = {i \in DOMAIN x.lines : x.lines[i].account = a}
    BY DEF OfClass
  <2> QED BY <2>1 DEF OnAccount
<1>5. OfClasses(S, k, Accounts(x)) = S
  BY DEF OfClasses, Accounts
<1> HIDE DEF S, k
<1>6. Total(w, Accounts(x)) = Total(Worth(x), OfClasses(S, k, Accounts(x)))
  BY <1>1, <1>2, <1>4, TotalByClass
<1> QED BY <1>3, <1>5, <1>6

\* What is left for the groups, converted, against what all the lines earn.
LEMMA TargetClose ==
  ASSUME NEW x, IsInvoice(x), x.discount >= 0, 10 * x.discount <= All(x),
         NEW p \in Nat, NEW q \in Nat \ {0}, All(x) * p = (All(x) - 10 * x.discount) * q,
         NEW target, target = Owed(x) - AllTax(x) - convertCents(x.stamp, x.rate),
         NEW off, off = (2 * (target * x.rate[2])) * (10 * q) - (2 * (All(x) * p)) * x.rate[1],
         NEW bound, bound = (10 * q) * (x.rate[1] + x.rate[2])
  PROVE  /\ target \in Int /\ off \in Int /\ Cardinality(Taxes(x)) \in Nat
         /\ -((Cardinality(Taxes(x)) + 2) * bound) <= off
         /\ off <= (Cardinality(Taxes(x)) + 2) * bound
<1> DEFINE num == x.rate[1]
           den == x.rate[2]
           e == 10 * q
           all == All(x)
           net == All(x) - 10 * x.discount
           m == roundHalfUp(<<net, 10>>)
           tax == [t \in Taxes(x) |-> Tax(x, t)]
           taxes == Total(tax, Taxes(x))
           allTax == AllTax(x)
           owed == Owed(x)
           due == Due(x)
           stamp == x.stamp
           stampCents == convertCents(x.stamp, x.rate)
           n == Cardinality(Taxes(x))
           a == 2 * (owed * den) - 2 * (due * num)
           b == 2 * (m * 10) - 2 * net
           c == 2 * (allTax * den) - 2 * (taxes * num)
           d == 2 * (stampCents * den) - 2 * (stamp * num)
<1>1. /\ x.rate \in Rate /\ num \in Nat \ {0} /\ den \in Nat \ {0} /\ e \in Nat \ {0}
      /\ stamp \in Nat /\ x.discount \in Int /\ all \in Nat
  BY WorthOfLines DEF IsInvoice, Rate
<1>2. net \in Nat
  BY <1>1
<1>3. owed \in Nat /\ allTax \in Nat /\ due \in Nat
  BY DueType
<1>4. m \in Nat /\ -10 <= b /\ b <= 10
  <2> HIDE DEF net
  <2> QED BY <1>2, RoundClose
<1>5. due = m + taxes + stamp
  BY DEF Due, TaxTotal, SumOf
<1>6. /\ taxes \in Nat /\ n \in Nat /\ c \in Int /\ -(n * den) <= c /\ c <= n * den
  <2>1. \A t \in Taxes(x) : tax[t] \in Nat /\ TaxCents(x)[t] = convertCents(tax[t], x.rate)
    BY TaxType DEF TaxCents
  <2>2. allTax = Total(TaxCents(x), Taxes(x)) /\ IsFiniteSet(Taxes(x))
    BY PartsFinite DEF AllTax, SumOf, TaxCents
  <2> HIDE DEF tax, allTax, num, den
  <2>3. c = 2 * (Total(TaxCents(x), Taxes(x)) * x.rate[2]) - 2 * (Total(tax, Taxes(x)) * x.rate[1])
    BY <2>2 DEF num, den
  <2> HIDE DEF c
  <2>4. /\ Total(tax, Taxes(x)) \in Nat /\ Cardinality(Taxes(x)) \in Nat
        /\ c \in Int /\ -(Cardinality(Taxes(x)) * x.rate[2]) <= c /\ c <= Cardinality(Taxes(x)) * x.rate[2]
    BY <1>1, <2>1, <2>2, <2>3, ConvertedSum
  <2> QED BY <2>4 DEF den
<1>7. stampCents \in Nat /\ -den <= d /\ d <= den
  BY <1>1, ConvertClose
<1>8. -den <= a /\ a <= den
  BY <1>1, <1>3, ConvertClose DEF Owed
<1>9. all * p = net * q
  OBVIOUS
<1>10. target = owed - allTax - stampCents /\ target \in Int
  BY <1>3, <1>7
<1>11. off = (2 * (target * den)) * e - (2 * (all * p)) * num /\ bound = e * (num + den)
  OBVIOUS
<1> HIDE DEF num, den, all, net, m, tax, taxes, allTax, owed, due, stamp, stampCents, n
<1>12. a \in Int /\ b \in Int /\ d \in Int
  BY <1>1, <1>2, <1>3, <1>4, <1>7
<1>13. off = (a - c - d) * e + (b * q) * num
  <2>1. 2 * (target * den) = (a - c - d) + 2 * (m * num)
    <3>1. target * den = owed * den - allTax * den - stampCents * den
      BY <1>1, <1>3, <1>7, <1>10
    <3>2. due * num = m * num + taxes * num + stamp * num
      BY <1>1, <1>4, <1>5, <1>6
    <3>3. /\ owed * den \in Int /\ allTax * den \in Int /\ stampCents * den \in Int
          /\ m * num \in Int /\ taxes * num \in Int /\ stamp * num \in Int
      BY <1>1, <1>3, <1>4, <1>6, <1>7
    <3> QED BY <3>1, <3>2, <3>3
  <2>2. (b * q) * num = (2 * (m * num)) * e - (2 * (net * q)) * num
    BY <1>1, <1>2, <1>4
  <2>3. (2 * (target * den)) * e = (a - c - d) * e + (2 * (m * num)) * e
    <3>1. m * num \in Int /\ a - c - d \in Int
      BY <1>1, <1>4, <1>6, <1>12
    <3> HIDE DEF a, c, d, e
    <3> QED BY <1>1, <2>1, <3>1
  <2>4. (2 * (m * num)) * e \in Int /\ (2 * (net * q)) * num \in Int /\ (a - c - d) * e \in Int
    <3>1. m * num \in Int /\ a - c - d \in Int /\ net * q \in Int
      BY <1>1, <1>2, <1>4, <1>6, <1>12
    <3> HIDE DEF a, c, d, e
    <3> QED BY <1>1, <3>1
  <2> HIDE DEF a, b, c, d, e
  <2> QED BY <1>9, <1>11, <2>2, <2>3, <2>4
<1> HIDE DEF a, b, c, d
<1> DEFINE k == (n + 2) * den
<1>14. k \in Nat /\ -k <= a - c - d /\ a - c - d <= k /\ a - c - d \in Int
  <2>1. k = n * den + 2 * den /\ n * den \in Nat
    BY <1>1, <1>6, ProductNat
  <2> QED BY <1>1, <1>6, <1>7, <1>8, <1>12, <2>1
<1>15. /\ (a - c - d) * e \in Int /\ k * e \in Int
       /\ -(k * e) <= (a - c - d) * e /\ (a - c - d) * e <= k * e
  <2> HIDE DEF k, e
  <2> QED BY <1>1, <1>14, Multiplied
<1>16. /\ (b * q) * num \in Int /\ e * num \in Int
       /\ -(e * num) <= (b * q) * num /\ (b * q) * num <= e * num
  <2>1. b * q \in Int /\ 10 * q \in Int /\ -(10 * q) <= b * q /\ b * q <= 10 * q
    BY <1>4, <1>12, Multiplied
  <2> QED BY <1>1, <2>1, Multiplied
<1>17. k * e + e * num <= (n + 2) * bound /\ (n + 2) * bound \in Int
  <2>1. e * num \in Nat /\ (n + 1) * (e * num) \in Nat
    <3>1. e * num \in Nat
      BY <1>1, ProductNat
    <3>2. n + 1 \in Nat
      BY <1>6
    <3> QED BY <3>1, <3>2, ProductNat
  <2> HIDE DEF e
  <2>2. (n + 2) * bound = (k * e + e * num) + (n + 1) * (e * num)
    <3>1. bound = e * (num + den)
      BY <1>11
    <3>2. (n + 2) * (e * (num + den)) = (((n + 2) * den) * e + e * num) + (n + 1) * (e * num)
      BY <1>1, <1>6
    <3> QED BY <3>1, <3>2
  <2>3. k * e + e * num \in Int
    BY <1>15, <1>16
  <2> HIDE DEF k
  <2> QED BY <2>1, <2>2, <2>3
<1>18. off \in Int /\ -((n + 2) * bound) <= off /\ off <= (n + 2) * bound
  <2> HIDE DEF e, k
  <2> QED BY <1>13, <1>15, <1>16, <1>17
<1> QED BY <1>6, <1>10, <1>18 DEF n

\* Each account's share against what its own lines earn: the largest takes the
\* roundings of all.
LEMMA SharesClose ==
  ASSUME NEW x, IsInvoice(x), x.discount >= 0, 10 * x.discount <= All(x),
         NEW p \in Nat, NEW q \in Nat \ {0}, NetsTo(x, p, q),
         NEW a \in Accounts(x),
         NEW share, share = Shares(x, convertCents(x.stamp, x.rate))[a],
         NEW off, off = (2 * (share * x.rate[2])) * (10 * q) - (2 * (OnAccount(x, a) * p)) * x.rate[1],
         NEW bound, bound = (10 * q) * (x.rate[1] + x.rate[2]),
         NEW roundings, roundings = Cardinality(Accounts(x)) + Cardinality(Taxes(x)) + 2
  PROVE  /\ share \in Int /\ off \in Int /\ roundings \in Nat
         /\ -(roundings * bound) <= off /\ off <= roundings * bound
<1> USE DEF NetsTo
<1> DEFINE num == x.rate[1]
           den == x.rate[2]
           e == 10 * q
           S == Accounts(x)
           n == Cardinality(S)
           m == Cardinality(Taxes(x))
           target == Owed(x) - AllTax(x) - convertCents(x.stamp, x.rate)
           G == GroupCents(x)
           w == [b \in S |-> OnAccount(x, b)]
           dev == [b \in S |-> (2 * (G[b] * den)) * e - (2 * (w[b] * p)) * num]
           byShare == [b \in S |-> G[b] * ((2 * den) * e)]
           byLines == [b \in S |-> w[b] * ((2 * p) * num)]
           revenue == absorbResidual(G, target)
           offTarget == (2 * (target * den)) * e - (2 * (All(x) * p)) * num
<1>1. x.rate \in Rate /\ num \in Nat \ {0} /\ den \in Nat \ {0} /\ e \in Nat \ {0}
  BY DEF IsInvoice, Rate
<1>2. /\ target \in Int /\ offTarget \in Int /\ m \in Nat
      /\ -((m + 2) * bound) <= offTarget /\ offTarget <= (m + 2) * bound
  <2> HIDE DEF target, offTarget, m
  <2>1. /\ target = Owed(x) - AllTax(x) - convertCents(x.stamp, x.rate) /\ m = Cardinality(Taxes(x))
        /\ offTarget = (2 * (target * x.rate[2])) * (10 * q) - (2 * (All(x) * p)) * x.rate[1]
    BY DEF target, offTarget, m
  <2> QED BY <2>1, TargetClose
<1>3. share = revenue[a]
  BY DEF Shares
<1>4. G \in [S -> Int] /\ IsFiniteSet(S) /\ n \in Nat
  BY GroupType, PartsFinite, FS_CardinalityType
<1>5. bound \in Nat /\ bound = e * (num + den)
  <2>1. num + den \in Nat /\ bound = e * (num + den)
    BY <1>1
  <2> HIDE DEF num, den, e
  <2> QED BY <1>1, <2>1, ProductNat
<1>6. ASSUME NEW b \in S
      PROVE  /\ w[b] \in Nat /\ G[b] \in Nat
             /\ dev[b] = (2 * (G[b] * den)) * e - (2 * (w[b] * p)) * num
             /\ dev[b] \in Int /\ -bound <= dev[b] /\ dev[b] <= bound
  <2>1. w[b] = OnAccount(x, b) /\ w[b] \in Nat
    BY WorthOfLines
  <2>2. G[b] = convertCents(roundHalfUp(<<w[b] * p, 10 * q>>), x.rate)
    BY <2>1 DEF GroupCents
  <2>3. dev[b] = (2 * (G[b] * x.rate[2])) * (10 * q) - (2 * (w[b] * p)) * x.rate[1]
    OBVIOUS
  <2> HIDE DEF w, G, dev, num, den, e, S
  <2>4. /\ G[b] \in Nat /\ dev[b] \in Int
        /\ -((10 * q) * (x.rate[1] + x.rate[2])) <= dev[b]
        /\ dev[b] <= (10 * q) * (x.rate[1] + x.rate[2])
    BY <1>1, <2>1, <2>2, <2>3, GroupClose
  <2> QED BY <2>1, <2>3, <2>4 DEF num, den, e
<1>7. Total(w, S) = All(x)
  <2>1. \A b \in Accounts(x) : w[b] = OnAccount(x, b)
    OBVIOUS
  <2> HIDE DEF w
  <2> QED BY <2>1, AccountsEarnAll
<1>28. PICK l \in S : TakenBy(revenue, G, S, target, l)
  <2>1. IsFiniteSet(S) /\ S # {} /\ G \in [S -> Int] /\ target \in Int
    BY <1>2, <1>4
  <2> HIDE DEF G, target, S
  <2>2. \E l \in S : TakenBy(absorbResidual(G, target), G, S, target, l)
    BY <2>1, Absorbed
  <2> QED BY <2>2
<1>8. /\ \A b \in S \ {l} : revenue[b] = G[b]
      /\ revenue[l] = target - Total(G, S \ {l})
  <2> HIDE DEF revenue, G, S, target
  <2> QED BY <1>28 DEF TakenBy
<1> DEFINE rest == S \ {l}
           shared == Total(G, rest)
           earned == Total(w, rest)
<1>9. IsFiniteSet(rest) /\ n = Cardinality(rest) + 1 /\ Cardinality(rest) \in Nat
  <2>1. l \in S /\ IsFiniteSet(S)
    BY <1>4, <1>8
  <2> HIDE DEF S, n
  <2>2. IsFiniteSet(S \ {l}) /\ Cardinality(S \ {l}) = Cardinality(S) - 1
    BY ONLY <2>1, FS_RemoveElement
  <2>3. Cardinality(S \ {l}) \in Nat
    BY <2>2, FS_CardinalityType
  <2>4. n = Cardinality(S) /\ n \in Nat
    BY <1>4 DEF n
  <2> QED BY <2>2, <2>3, <2>4
<1>10. off = (2 * (share * den)) * e - (2 * (w[a] * p)) * num
  OBVIOUS
<1> HIDE DEF revenue, G, w, dev, num, den, e, S, n, m, target
<1>11. roundings = n + m + 2 /\ roundings \in Nat /\ n >= 1
  BY <1>2, <1>4, <1>9 DEF n, m, S
<1>12. ASSUME NEW k \in Nat, k <= roundings, -(k * bound) <= off, off <= k * bound, off \in Int
       PROVE  -(roundings * bound) <= off /\ off <= roundings * bound
  <2>1. (roundings - k) * bound \in Nat
    <3>1. roundings - k \in Nat
      BY <1>11, <1>12
    <3> QED BY <1>5, <3>1, ProductNat
  <2>2. (roundings - k) * bound = roundings * bound - k * bound /\ k * bound \in Int /\ roundings * bound \in Int
    BY <1>5, <1>11
  <2> QED BY <1>12, <2>1, <2>2
<1>13. CASE a # l
  <2>1. a \in S
    BY DEF S
  <2>2. share = G[a] /\ off = dev[a]
    BY <1>3, <1>6, <1>8, <1>10, <1>13, <2>1
  <2>3. off \in Int /\ -(1 * bound) <= off /\ off <= 1 * bound /\ share \in Int
    <3>1. 1 * bound = bound
      BY <1>5
    <3> QED BY <1>6, <2>1, <2>2, <3>1
  <2>4. 1 \in Nat /\ 1 <= roundings
    BY <1>2, <1>4, <1>11
  <2>5. -(roundings * bound) <= off /\ off <= roundings * bound
    BY <1>12, <2>3, <2>4
  <2> QED BY <1>11, <2>3, <2>5
<1>14. CASE a = l
  <2>1. \A b \in rest : dev[b] \in Int /\ -bound <= dev[b] /\ dev[b] <= bound
    BY <1>6
  <2>2. /\ -(Cardinality(rest) * bound) <= Total(dev, rest)
        /\ Total(dev, rest) <= Cardinality(rest) * bound /\ Total(dev, rest) \in Int
    <3> HIDE DEF rest
    <3>1. bound \in Int /\ IsFiniteSet(rest)
      BY <1>5, <1>9
    <3>2. Total(dev, rest) \in Int
      BY <2>1, <3>1, TotalType
    <3>3. -(Cardinality(rest) * bound) <= Total(dev, rest)
          /\ Total(dev, rest) <= Cardinality(rest) * bound
      BY ONLY <2>1, <3>1, TotalBounded
    <3> QED BY <3>2, <3>3
  <2>3. shared \in Int /\ earned \in Int
    <3>1. \A b \in rest : G[b] \in Int /\ w[b] \in Int
      BY <1>6
    <3> HIDE DEF rest
    <3> QED BY <1>9, <3>1, TotalType
  <2>4. Total(dev, rest) = (2 * (shared * den)) * e - (2 * (earned * p)) * num
    <3>1. \A b \in rest : /\ G[b] \in Int /\ byShare[b] = G[b] * ((2 * den) * e)
                          /\ w[b] \in Int /\ byLines[b] = w[b] * ((2 * p) * num)
      BY <1>6
    <3>2. \A b \in rest : byShare[b] \in Int /\ byLines[b] \in Int /\ dev[b] = byShare[b] - byLines[b]
      <4>1. ASSUME NEW b \in rest
            PROVE  byShare[b] \in Int /\ byLines[b] \in Int /\ dev[b] = byShare[b] - byLines[b]
        <5>1. G[b] * ((2 * den) * e) = (2 * (G[b] * den)) * e /\ G[b] * ((2 * den) * e) \in Int
          BY <1>1, <1>6
        <5>2. w[b] * ((2 * p) * num) = (2 * (w[b] * p)) * num /\ w[b] * ((2 * p) * num) \in Int
          BY <1>1, <1>6
        <5> QED BY <1>6, <3>1, <5>1, <5>2
      <4> QED BY <4>1
    <3> HIDE DEF byShare, byLines, rest
    <3>3. Total(dev, rest) = Total(byShare, rest) - Total(byLines, rest)
      BY <1>9, <3>2, TotalMinus
    <3>4. Total(byShare, rest) = shared * ((2 * den) * e)
      <4>1. (2 * den) * e \in Int
        BY <1>1
      <4> QED BY <1>9, <3>1, <4>1, TotalScale
    <3>5. Total(byLines, rest) = earned * ((2 * p) * num)
      <4>1. (2 * p) * num \in Int
        BY <1>1
      <4> QED BY <1>9, <3>1, <4>1, TotalScale
    <3> HIDE DEF shared, earned
    <3>6. /\ shared * ((2 * den) * e) = (2 * (shared * den)) * e
          /\ earned * ((2 * p) * num) = (2 * (earned * p)) * num
      BY <1>1, <2>3
    <3> QED BY <3>3, <3>4, <3>5, <3>6
  <2>5. All(x) = w[l] + earned /\ w[l] \in Nat
    <3>1. \A b \in S : w[b] \in Int
      BY <1>6
    <3>2. Total(w, S) = w[l] + Total(w, S \ {l})
      BY <1>4, <3>1, TotalRemove
    <3> QED BY <1>6, <1>7, <3>2
  <2>6. share = target - shared /\ share \in Int
    BY <1>2, <1>3, <1>8, <1>14, <2>3
  <2> HIDE DEF shared, earned, rest
  <2>7. off = offTarget - Total(dev, rest)
    <3>1. off = (2 * (share * den)) * e - (2 * (w[l] * p)) * num
      BY <1>10, <1>14
    <3>2. offTarget = (2 * (target * den)) * e - (2 * (All(x) * p)) * num
      OBVIOUS
    <3> HIDE DEF offTarget
    <3>3. (2 * (share * den)) * e = (2 * (target * den)) * e - (2 * (shared * den)) * e
      BY <1>1, <1>2, <2>3, <2>6
    <3>4. (2 * (All(x) * p)) * num = (2 * (w[l] * p)) * num + (2 * (earned * p)) * num
      BY <1>1, <2>3, <2>5
    <3>5. /\ (2 * (target * den)) * e \in Int /\ (2 * (shared * den)) * e \in Int
          /\ (2 * (w[l] * p)) * num \in Int /\ (2 * (earned * p)) * num \in Int
      BY <1>1, <1>2, <2>3, <2>5
    <3> QED BY <2>4, <3>1, <3>2, <3>3, <3>4, <3>5
  <2> HIDE DEF offTarget
  <2> DEFINE k == (m + 2) + Cardinality(rest)
  <2>8. k \in Nat /\ k <= roundings
    BY <1>2, <1>9, <1>11
  <2>9. k * bound = (m + 2) * bound + Cardinality(rest) * bound
        /\ (m + 2) * bound \in Int /\ Cardinality(rest) * bound \in Int
    <3> DEFINE c == Cardinality(rest)
    <3>1. c \in Nat /\ m \in Nat /\ bound \in Nat
      BY <1>2, <1>5, <1>9
    <3> HIDE DEF c
    <3>2. ((m + 2) + c) * bound = (m + 2) * bound + c * bound
          /\ (m + 2) * bound \in Int /\ c * bound \in Int
      BY ONLY <3>1
    <3> QED BY <3>2 DEF c
  <2> HIDE DEF k
  <2>10. off \in Int /\ -(k * bound) <= off /\ off <= k * bound
    BY <1>2, <2>2, <2>7, <2>9
  <2> QED BY <1>11, <1>12, <2>6, <2>8, <2>10
<1> QED BY <1>13, <1>14

\* Whatever the discount, the taxes and the rate, each account of an invoice is
\* credited with what its own lines earn but for the roundings of the entry
\* (db/gl_posting.go:246-269, 377-404).
THEOREM PostedSharesFair == PostingSpec => []SharesFair
<1>1. PostingInvariant => SharesFair
  <2>1. SUFFICES ASSUME PostingInvariant, doc.kind = "invoice", posting.outcome = "posted",
                        NEW a \in Accounts(doc)
                 PROVE  LET roundings == Cardinality(Accounts(doc)) + Cardinality(Taxes(doc)) + 2
                            slack == <<roundings * (doc.rate[1] + doc.rate[2]), 2 * doc.rate[2]>>
                        IN LessEq(Distance(Frac(-OnLeg(a)), Times(Net(doc, OnAccount(doc, a)), doc.rate)), slack)
    BY DEF SharesFair
  <2>2. posting = PostInvoice(doc) /\ IsInvoice(doc)
    <3>1. posting = EntryOf(doc) /\ doc \in Documents
      BY <2>1 DEF PostingInvariant, Unposted
    <3> QED BY <2>1, <3>1, PostingsAssumption DEF EntryOf
  <2>3. posting = buildInvoiceGLLines(doc) /\ ~(doc.discount < 0 \/ All(doc) < 10 * doc.discount)
    BY <2>1, <2>2 DEF PostInvoice, validateInvoiceTotals, Refused, Panics, NoEntry
  <2>4. doc.discount >= 0 /\ 10 * doc.discount <= All(doc) /\ doc.rate \in Rate
    <3>1. doc.discount \in Int /\ All(doc) \in Nat /\ doc.rate \in Rate
      BY <2>2, WorthOfLines DEF IsInvoice
    <3> QED BY <2>3, <3>1
  <2>5. PICK p \in Nat, q \in Nat \ {0} : NetsTo(doc, p, q)
    BY <2>2, <2>4, NetScale
  <2> DEFINE num == doc.rate[1]
             den == doc.rate[2]
             e == 10 * q
             w == OnAccount(doc, a)
             share == Shares(doc, convertCents(doc.stamp, doc.rate))[a]
             roundings == Cardinality(Accounts(doc)) + Cardinality(Taxes(doc)) + 2
             off == (2 * (share * den)) * e - (2 * (w * p)) * num
             bound == e * (num + den)
  <2>6. /\ share \in Int /\ off \in Int /\ roundings \in Nat
        /\ -(roundings * bound) <= off /\ off <= roundings * bound
    <3>1. off = (2 * (share * doc.rate[2])) * (10 * q) - (2 * (OnAccount(doc, a) * p)) * doc.rate[1]
          /\ bound = (10 * q) * (doc.rate[1] + doc.rate[2])
      OBVIOUS
    <3> HIDE DEF off, bound, share, roundings
    <3>2. share = Shares(doc, convertCents(doc.stamp, doc.rate))[a]
          /\ roundings = Cardinality(Accounts(doc)) + Cardinality(Taxes(doc)) + 2
      BY DEF share, roundings
    <3>3. /\ IsInvoice(doc) /\ doc.discount >= 0 /\ 10 * doc.discount <= All(doc)
          /\ p \in Nat /\ q \in Nat \ {0} /\ a \in Accounts(doc)
      BY <2>1, <2>2, <2>4
    <3> QED BY ONLY <2>5, <3>1, <3>2, <3>3, SharesClose
  <2>7. OnLeg(a) = 0 - share
    BY <2>1, <2>2, <2>3, <2>4, InvoiceSound DEF OnLeg, OnTheLeg
  <2>8. w \in Nat /\ num \in Nat \ {0} /\ den \in Nat \ {0} /\ e \in Nat \ {0}
    BY <2>2, <2>4, WorthOfLines DEF Rate
  <2>9. Net(doc, w) = <<w * p, e>>
    BY <2>5, <2>8 DEF NetsTo
  <2> HIDE DEF share, roundings, w, e, num, den
  <2> DEFINE far == share * (e * den) - ((w * p) * num) * 1
  <2>10. Distance(Frac(-OnLeg(a)), Times(Net(doc, w), doc.rate)) = <<Abs(far), 1 * (e * den)>>
    <3>1. -OnLeg(a) = share
      BY <2>6, <2>7
    <3>2. Times(Net(doc, w), doc.rate) = <<(w * p) * num, e * den>>
      BY <2>9 DEF Times, num, den
    <3> QED BY <3>1, <3>2 DEF Distance, Minus, Frac
  <2>11. off = 2 * far /\ far \in Int
    BY <2>6, <2>8
  <2> HIDE DEF far, off
  <2>12. 2 * Abs(far) <= roundings * bound /\ Abs(far) \in Nat
    <3>1. roundings * bound \in Int
      <4>1. bound \in Int
        BY <2>8
      <4> QED BY <2>6, <4>1
    <3> DEFINE most == roundings * bound
    <3> HIDE DEF most
    <3>2. most \in Int /\ -most <= 2 * far /\ 2 * far <= most
      BY <2>6, <2>11, <3>1 DEF most
    <3>3. 2 * Abs(far) <= most /\ Abs(far) \in Nat
      BY <2>11, <3>2 DEF Abs
    <3> QED BY <3>3 DEF most
  <2>13. Abs(far) * (2 * den) <= (roundings * (num + den)) * (1 * (e * den))
    <3>1. bound = e * (num + den) /\ bound \in Nat
      <4>1. num + den \in Nat
        BY <2>8
      <4> QED BY <2>8, <4>1, ProductNat
    <3> HIDE DEF bound
    <3>2. roundings * bound - 2 * Abs(far) \in Nat
      BY <2>6, <2>12, <3>1
    <3>3. (roundings * bound - 2 * Abs(far)) * den \in Nat
      BY <2>8, <3>2, ProductNat
    <3>4. (roundings * bound - 2 * Abs(far)) * den = (roundings * bound) * den - Abs(far) * (2 * den)
          /\ (roundings * bound) * den \in Int /\ Abs(far) * (2 * den) \in Int
      BY <2>6, <2>8, <2>12, <3>1
    <3>5. (roundings * bound) * den = (roundings * (num + den)) * (1 * (e * den))
      BY <2>6, <2>8, <3>1
    <3> QED BY <3>3, <3>4, <3>5
  <2>14. LessEq(<<Abs(far), 1 * (e * den)>>, <<roundings * (num + den), 2 * den>>)
    BY <2>13 DEF LessEq
  <2> QED BY <2>10, <2>14 DEF roundings, num, den, w
<1> QED BY <1>1, PostingInvariantHolds, PTL

-----------------------------------------------------------------------------
(* What goods are worth.                                                   *)

\* What is nowhere further from nothing than g adds up to at most what g does.
LEMMA TotalWithin ==
  ASSUME NEW S, IsFiniteSet(S), NEW g, NEW f,
         \A a \in S : f[a] \in Int /\ g[a] \in Int /\ -g[a] <= f[a] /\ f[a] <= g[a]
  PROVE  -Total(g, S) <= Total(f, S) /\ Total(f, S) <= Total(g, S)
<1> DEFINE more == [a \in S |-> g[a] - f[a]]
           less == [a \in S |-> g[a] + f[a]]
<1>1. \A a \in S : /\ more[a] = g[a] - f[a] /\ more[a] \in Nat
                   /\ less[a] = g[a] + f[a] /\ less[a] \in Nat
  OBVIOUS
<1> HIDE DEF more, less
<1>2. Total(more, S) \in Nat /\ Total(less, S) \in Nat
  BY <1>1, TotalNat
<1>3. Total(more, S) = Total(g, S) - Total(f, S)
  BY <1>1, TotalMinus
<1>4. Total(less, S) = Total(g, S) + Total(f, S)
  BY <1>1, TotalPlus
<1>5. Total(g, S) \in Int /\ Total(f, S) \in Int
  BY TotalType
<1> QED BY <1>2, <1>3, <1>4, <1>5

\* One line's share of the freight, times what all of it is committed for.
LEMMA LandedLine ==
  ASSUME NEW qty \in Nat, NEW worth \in Nat, NEW freight \in Nat, NEW all \in Nat \ {0},
         NEW markup, markup = roundHalfUp(<<worth * (10 * freight), all>>),
         NEW landed, landed = roundHalfUp(<<qty * markup, 10>>),
         NEW off, off = (20 * landed) * all - ((20 * qty) * worth) * freight
  PROVE  /\ landed \in Nat /\ off \in Int
         /\ -((10 + qty) * all) <= off /\ off <= (10 + qty) * all
<1> DEFINE a == 2 * (landed * 10) - 2 * (qty * markup)
           b == 2 * (markup * all) - 2 * (worth * (10 * freight))
<1>1. markup \in Nat /\ -all <= b /\ b <= all
  <2>1. worth * (10 * freight) \in Nat
    <3>1. 10 * freight \in Nat
      OBVIOUS
    <3> QED BY <3>1, ProductNat
  <2> QED BY <2>1, RoundClose
<1>2. landed \in Nat /\ -10 <= a /\ a <= 10
  BY <1>1, ProductNat, RoundClose
<1>3. a \in Int /\ b \in Int
  BY <1>1, <1>2
<1>4. off = a * all + b * qty
  BY <1>1, <1>2
<1> HIDE DEF a, b
<1>5. a * all \in Int /\ -(10 * all) <= a * all /\ a * all <= 10 * all
  BY <1>2, <1>3, Multiplied
<1>6. b * qty \in Int /\ all * qty \in Int /\ -(all * qty) <= b * qty /\ b * qty <= all * qty
  BY <1>1, <1>3, Multiplied
<1>7. (10 + qty) * all = 10 * all + all * qty /\ 10 * all \in Int
  OBVIOUS
<1> QED BY <1>2, <1>4, <1>5, <1>6, <1>7

\* The freight reaches the goods but for half a cent a unit and a line.
LEMMA FreightReachesGoods ==
  ASSUME Missing \notin Nat, NEW x, IsReceipt(x), AllOfImport(x)
  PROVE  LessEq(Distance(Frac(applyLandedCost(x)), Frac(x.freight)),
                <<Tenths(x) + 10 * Len(x.lines), 20>>)
<1> DEFINE I == DOMAIN x.lines
           all == totalCommittedPOValueForImport(x.orders)
           n == Len(x.lines)
           qty == [i \in I |-> x.lines[i].qty]
           worth == [i \in I |-> convertCents(x.lines[i].cost, x.rate)]
           landed == [i \in I |-> roundHalfUp(<<x.lines[i].qty * MarkupPerUnit(x, i), 10>>)]
           earned == [i \in I |-> qty[i] * worth[i]]
           off == [i \in I |-> (20 * landed[i]) * all - ((20 * qty[i]) * worth[i]) * x.freight]
           landedBy == [i \in I |-> landed[i] * (20 * all)]
           earnedBy == [i \in I |-> earned[i] * (20 * x.freight)]
           most == [i \in I |-> (10 + qty[i]) * all]
           flat == [i \in I |-> 10]
           each == [i \in I |-> 10 + qty[i]]
           L == applyLandedCost(x)
           F == x.freight
<1>1. x.rate \in Rate /\ F \in Nat /\ n \in Nat /\ I = 1..n /\ all > 0
  BY DEF IsReceipt, AllOfImport
<1>2. IsFiniteSet(I) /\ Cardinality(I) = n
  <2> HIDE DEF I, n
  <2>1. IsFiniteSet(1..n) /\ Cardinality(1..n) = IF 1 > n THEN 0 ELSE n-1+1
    <3>1. 1 \in Int /\ n \in Int
      BY <1>1
    <3> QED BY ONLY <3>1, FS_Interval
  <2> QED BY <1>1, <2>1
<1>3. ASSUME NEW i \in I
      PROVE  /\ qty[i] \in Nat /\ worth[i] \in Nat /\ earned[i] \in Nat
             /\ x.lines[i].imported /\ x.lines[i].cost # Missing
             /\ ~x.orders[i].cancelled
             /\ x.orders[i].qty * convertCents(x.orders[i].price, x.orders[i].rate) = earned[i]
  <2>1. /\ i \in DOMAIN x.orders /\ ~x.orders[i].cancelled /\ x.orders[i].rate = x.rate
        /\ [qty |-> x.orders[i].qty, cost |-> x.orders[i].price, imported |-> TRUE] = x.lines[i]
    BY DEF AllOfImport
  <2>2. x.orders[i].qty \in Nat /\ x.orders[i].price \in Nat
    BY <2>1 DEF IsReceipt
  <2>3. /\ x.lines[i].qty = x.orders[i].qty /\ x.lines[i].cost = x.orders[i].price
        /\ x.lines[i].imported = TRUE
    <3>1. [qty |-> x.orders[i].qty, cost |-> x.orders[i].price, imported |-> TRUE].imported = TRUE
      OBVIOUS
    <3>2. [qty |-> x.orders[i].qty, cost |-> x.orders[i].price, imported |-> TRUE].qty = x.orders[i].qty
      OBVIOUS
    <3>3. [qty |-> x.orders[i].qty, cost |-> x.orders[i].price, imported |-> TRUE].cost = x.orders[i].price
      OBVIOUS
    <3> QED BY <2>1, <3>1, <3>2, <3>3
  <2>4. worth[i] \in Nat /\ qty[i] = x.lines[i].qty /\ worth[i] = convertCents(x.lines[i].cost, x.rate)
    BY <1>1, <2>2, <2>3, ConvertType
  <2> HIDE DEF qty, worth
  <2>5. earned[i] = qty[i] * worth[i] /\ earned[i] \in Nat
    BY <2>2, <2>3, <2>4, ProductNat
  <2> HIDE DEF earned
  <2> QED BY <2>1, <2>2, <2>3, <2>4, <2>5
<1>4. all = Total(earned, I)
  <2> DEFINE f == [i \in I |-> x.orders[i].qty * convertCents(x.orders[i].price, x.orders[i].rate)]
  <2>1. {i \in DOMAIN x.orders : ~x.orders[i].cancelled} = I
    BY <1>3 DEF AllOfImport
  <2>2. all = Total(f, I)
    BY <2>1 DEF totalCommittedPOValueForImport, SumOf
  <2>3. \A i \in I : f[i] = earned[i] /\ earned[i] \in Int /\ f[i] \in Int
    <3>1. \A i \in I : f[i] = x.orders[i].qty * convertCents(x.orders[i].price, x.orders[i].rate)
      OBVIOUS
    <3> HIDE DEF f, earned, I
    <3> QED BY <1>3, <3>1
  <2> HIDE DEF f, earned, I
  <2> QED BY <1>2, <2>2, <2>3, TotalEqual
<1>5. all \in Nat \ {0}
  <2> HIDE DEF earned, I, all
  <2>1. \A i \in I : earned[i] \in Nat
    BY <1>3
  <2>2. Total(earned, I) \in Nat
    BY <1>2, <2>1, TotalNat
  <2> QED BY <1>1, <1>4, <2>2
<1>6. L = Total(landed, I)
  BY DEF applyLandedCost, SumOf
<1>7. Tenths(x) = Total(qty, I)
  BY DEF Tenths, SumOf
<1>8. ASSUME NEW i \in I
      PROVE  /\ landed[i] \in Nat /\ off[i] \in Int /\ -most[i] <= off[i] /\ off[i] <= most[i]
             /\ off[i] = (20 * landed[i]) * all - ((20 * qty[i]) * worth[i]) * F
  <2> DEFINE markup == MarkupPerUnit(x, i)
  <2>1. markup = roundHalfUp(<<worth[i] * (10 * F), all>>)
    <3>1. markup = roundHalfUp(Times(Frac(worth[i]), landedCostRate(F, all)))
      BY <1>3 DEF MarkupPerUnit
    <3>2. landedCostRate(F, all) = <<10 * F, all>>
      BY <1>5 DEF landedCostRate
    <3>3. 1 * all = all
      BY <1>5
    <3> HIDE DEF markup, worth, all
    <3> QED BY <3>1, <3>2, <3>3 DEF Times, Frac
  <2>2. landed[i] = roundHalfUp(<<qty[i] * markup, 10>>)
    OBVIOUS
  <2>3. off[i] = (20 * landed[i]) * all - ((20 * qty[i]) * worth[i]) * F /\ most[i] = (10 + qty[i]) * all
    OBVIOUS
  <2>4. qty[i] \in Nat /\ worth[i] \in Nat /\ F \in Nat /\ all \in Nat \ {0}
    BY <1>1, <1>3, <1>5
  <2> HIDE DEF markup, landed, off, qty, worth, all, most, I, F
  <2>5. /\ landed[i] \in Nat /\ off[i] \in Int
        /\ -((10 + qty[i]) * all) <= off[i] /\ off[i] <= (10 + qty[i]) * all
    BY ONLY <2>1, <2>2, <2>3, <2>4, LandedLine
  <2> QED BY ONLY <2>3, <2>5
<1>9. \A i \in I : /\ each[i] = flat[i] + qty[i] /\ most[i] = each[i] * all
                   /\ landedBy[i] = landed[i] * (20 * all)
                   /\ earnedBy[i] = earned[i] * (20 * F) /\ earned[i] = qty[i] * worth[i]
                   /\ flat[i] = 10
  OBVIOUS
<1> HIDE DEF I, all, n, qty, worth, landed, earned, off, landedBy, earnedBy, most, flat, each, L, F
<1>10. \A i \in I : /\ landed[i] \in Int /\ earned[i] \in Int /\ qty[i] \in Int
                    /\ flat[i] \in Int /\ each[i] \in Int /\ most[i] \in Int
                    /\ landedBy[i] \in Int /\ earnedBy[i] \in Int
                    /\ off[i] = landedBy[i] - earnedBy[i]
  <2>1. ASSUME NEW i \in I
        PROVE  /\ landed[i] \in Int /\ earned[i] \in Int /\ qty[i] \in Int
               /\ flat[i] \in Int /\ each[i] \in Int /\ most[i] \in Int
               /\ landedBy[i] \in Int /\ earnedBy[i] \in Int
               /\ off[i] = landedBy[i] - earnedBy[i]
    <3>1. /\ landed[i] \in Nat /\ earned[i] \in Nat /\ qty[i] \in Nat /\ worth[i] \in Nat
          /\ flat[i] \in Int /\ each[i] \in Int
      BY <1>3, <1>8, <1>9
    <3>2. most[i] \in Int
      BY <1>5, <1>9, <3>1
    <3>3. landedBy[i] \in Int /\ landedBy[i] = (20 * landed[i]) * all
      BY <1>5, <1>9, <3>1
    <3>4. earnedBy[i] \in Int /\ earnedBy[i] = ((20 * qty[i]) * worth[i]) * F
      <4> DEFINE q == qty[i]
                 w == worth[i]
      <4>1. q \in Nat /\ w \in Nat /\ F \in Nat /\ earnedBy[i] = (q * w) * (20 * F)
        BY <1>1, <1>9, <3>1
      <4> HIDE DEF q, w
      <4>2. (q * w) * (20 * F) \in Int /\ (q * w) * (20 * F) = ((20 * q) * w) * F
        BY ONLY <4>1
      <4> QED BY <4>1, <4>2 DEF q, w
    <3> QED BY <1>8, <3>1, <3>2, <3>3, <3>4
  <2> QED BY <2>1
<1>11. Total(off, I) = L * (20 * all) - all * (20 * F)
  <2>1. Total(off, I) = Total(landedBy, I) - Total(earnedBy, I)
    BY <1>2, <1>10, TotalMinus
  <2>2. 20 * all \in Int /\ 20 * F \in Int
    BY <1>1, <1>5
  <2>3. Total(landedBy, I) = Total(landed, I) * (20 * all)
    BY <1>2, <1>9, <1>10, <2>2, TotalScale
  <2>4. Total(earnedBy, I) = Total(earned, I) * (20 * F)
    BY <1>2, <1>9, <1>10, <2>2, TotalScale
  <2> QED BY <1>4, <1>6, <2>1, <2>3, <2>4
<1>12. Total(flat, I) <= 10 * n /\ Total(flat, I) \in Int
  <2>1. \A i \in I : flat[i] \in Int /\ -10 <= flat[i] /\ flat[i] <= 10
    BY <1>9
  <2>2. Total(flat, I) <= Cardinality(I) * 10
    BY <1>2, <2>1, TotalBounded
  <2>3. Total(flat, I) \in Int
    BY <1>2, <2>1, TotalType
  <2> QED BY <1>1, <1>2, <2>2, <2>3
<1>13. Total(each, I) = Total(flat, I) + Tenths(x) /\ Tenths(x) \in Nat
  <2>1. Total(each, I) = Total(flat, I) + Total(qty, I)
    BY <1>2, <1>9, <1>10, TotalPlus
  <2>2. Total(qty, I) \in Nat
    BY <1>2, <1>3, TotalNat
  <2> QED BY <1>7, <2>1, <2>2
<1>14. Total(most, I) = Total(each, I) * all
  <2>1. all \in Int
    BY <1>5
  <2> QED BY <1>2, <1>9, <1>10, <2>1, TotalScale
<1>15. -Total(most, I) <= Total(off, I) /\ Total(off, I) <= Total(most, I)
  BY <1>2, <1>8, <1>10, TotalWithin
<1>16. L \in Nat
  BY <1>2, <1>6, <1>8, TotalNat
<1> DEFINE k == Total(each, I)
           far == L - F
<1>17. k \in Int /\ far \in Int /\ k <= Tenths(x) + 10 * n
  BY <1>1, <1>12, <1>13, <1>16
<1>18. L * (20 * all) - all * (20 * F) = (20 * far) * all
  BY <1>1, <1>5, <1>16
<1> HIDE DEF k, far
<1>19. -(k * all) <= (20 * far) * all /\ (20 * far) * all <= k * all
  BY <1>11, <1>14, <1>15, <1>18 DEF k
<1>20. \A a, b \in Int : a * all <= b * all => a <= b
  BY <1>5
<1>21. 20 * far <= k
  <2>1. 20 * far \in Int
    BY <1>17
  <2> QED BY <1>17, <1>19, <1>20, <2>1
<1>22. -k <= 20 * far
  <2>1. 20 * far \in Int /\ -k \in Int /\ (-k) * all = -(k * all)
    BY <1>5, <1>17
  <2> QED BY <1>19, <1>20, <2>1
<1>23. Abs(far) * 20 <= (Tenths(x) + 10 * n) * 1
  <2>1. 20 * Abs(far) <= k /\ Abs(far) \in Int
    BY <1>17, <1>21, <1>22 DEF Abs
  <2> QED BY <1>1, <1>13, <1>17, <2>1
<1>24. Distance(Frac(L), Frac(F)) = <<Abs(far), 1>>
  <2>1. L * 1 - F * 1 = far
    BY <1>1, <1>16 DEF far
  <2> QED BY <2>1 DEF Distance, Frac, Minus
<1>25. LessEq(<<Abs(far), 1>>, <<Tenths(x) + 10 * n, 20>>)
  BY <1>23 DEF LessEq
<1> QED BY <1>24, <1>25 DEF L, F, n

\* What goods made lose or gain against their components.
LEMMA GoodsMadeClose ==
  ASSUME NEW qty \in Nat \ {0}, NEW components \in Nat,
         NEW cents, cents = roundHalfUp(<<qty * UnitCost(components, qty), 10>>) - components
  PROVE  cents \in Int /\ -(qty + 10) <= 20 * cents /\ 20 * cents <= qty + 10
<1> DEFINE unit == UnitCost(components, qty)
           made == roundHalfUp(<<qty * unit, 10>>)
<1>1. /\ unit \in Nat /\ -qty <= 2 * (unit * qty) - 2 * (10 * components)
      /\ 2 * (unit * qty) - 2 * (10 * components) <= qty
  BY RoundClose DEF UnitCost
<1> HIDE DEF unit
<1>2. qty * unit \in Nat /\ unit * qty = qty * unit
  BY <1>1, ProductNat
<1>3. /\ made \in Nat /\ -10 <= 2 * (made * 10) - 2 * (qty * unit)
      /\ 2 * (made * 10) - 2 * (qty * unit) <= 10
  BY <1>2, RoundClose
<1>4. cents = made - components
  BY DEF unit
<1> HIDE DEF made
<1> QED BY <1>1, <1>2, <1>3, <1>4

LEMMA GoodsMadeAtCost ==
  ASSUME NEW x, x.qty \in Nat \ {0}, x.components \in Nat,
         NEW e, e = Unposted \/ e = buildProductionOrderGLLines(x)
  PROVE  20 * Abs(OnTheLeg(e, "adjustment")) <= x.qty + 10
<1> DEFINE cents == roundHalfUp(<<x.qty * UnitCost(x.components, x.qty), 10>>) - x.components
<1>1. cents \in Int /\ -(x.qty + 10) <= 20 * cents /\ 20 * cents <= x.qty + 10
  BY GoodsMadeClose
<1>2. CASE e.legs = {}
  <2>1. {l \in e.legs : l.account = "adjustment"} = {}
    BY <1>2
  <2>2. OnTheLeg(e, "adjustment") = 0
    BY <2>1, NetNone DEF OnTheLeg
  <2> QED BY <2>2 DEF Abs
<1>3. CASE e = Signed("inventory", "adjustment", cents)
  <2> HIDE DEF cents
  <2>1. "inventory" # "adjustment"
    OBVIOUS
  <2>2. OnTheLeg(e, "adjustment") = 0 - cents
    BY <1>1, <1>3, <2>1, SignedSound
  <2>3. 20 * Abs(0 - cents) <= x.qty + 10
    BY <1>1 DEF Abs
  <2> QED BY <2>2, <2>3
<1>4. e.legs = {} \/ e = Signed("inventory", "adjustment", cents)
  <2> HIDE DEF cents
  <2> QED BY DEF buildProductionOrderGLLines, Unposted, NoEntry, cents
<1> QED BY <1>2, <1>3, <1>4

LEMMA InSeq ==
  ASSUME NEW T, NEW s, s \in Seq(T)
  PROVE  /\ DOMAIN s = 1..Len(s) /\ Len(s) \in Nat /\ IsFiniteSet(DOMAIN s)
         /\ s = <<>> <=> DOMAIN s = {}
         /\ \A i \in DOMAIN s : s[i] \in T
<1>1. DOMAIN s = 1..Len(s) /\ Len(s) \in Nat /\ \A i \in DOMAIN s : s[i] \in T
  OBVIOUS
<1>2. 1 \in Int /\ Len(s) \in Int
  BY <1>1
<1>3. IsFiniteSet(1..Len(s))
  BY ONLY <1>2, FS_Interval
<1>4. s = <<>> <=> DOMAIN s = {}
  <2>1. s = <<>> <=> Len(s) = 0
    OBVIOUS
  <2>2. DOMAIN s = {} <=> Len(s) = 0
    BY ONLY <1>1
  <2> QED BY <2>1, <2>2
<1> QED BY <1>1, <1>3, <1>4

\* The most of a part there is stock for.
LEMMA MostBuildable ==
  ASSUME NEW line, line.qty \in Nat \ {0}, line.stock \in Int
  PROVE  /\ maxBuildable(line) \in Nat
         /\ \A n \in Nat \ {0} : n * line.qty <= line.stock <=> n <= maxBuildable(line)
<1> DEFINE q == line.qty
           s == line.stock
           m == maxBuildable(line)
<1>1. CASE s <= 0
  <2>1. m = 0
    BY <1>1 DEF maxBuildable
  <2>2. \A n \in Nat \ {0} : n * q > 0
    OBVIOUS
  <2>3. \A n \in Nat \ {0} : ~(n * q <= s) /\ ~(n <= m)
    <3>1. \A n \in Nat \ {0} : n * q \in Int
      OBVIOUS
    <3> QED BY <1>1, <2>1, <2>2, <3>1
  <2> QED BY <2>1, <2>3
<1>2. CASE s > 0
  <2>1. m = s \div q
    BY <1>2 DEF maxBuildable
  <2>2. (s \div q) \in Nat /\ (s \div q) * q <= s /\ s < ((s \div q) + 1) * q
    BY <1>2
  <2>3. m \in Nat /\ m * q <= s /\ s < (m + 1) * q
    BY <2>1, <2>2
  <2> HIDE DEF m
  <2>4. ASSUME NEW n \in Nat \ {0} PROVE n * q <= s <=> n <= m
    <3>1. CASE n <= m
      <4>1. (m - n) * q \in Nat
        <5>1. m - n \in Nat
          BY <2>3, <3>1
        <5> QED BY <5>1, ProductNat
      <4>2. (m - n) * q = m * q - n * q /\ m * q \in Int /\ n * q \in Int
        BY <2>3
      <4> QED BY <2>3, <3>1, <4>1, <4>2
    <3>2. CASE ~(n <= m)
      <4>1. (n - (m + 1)) * q \in Nat
        <5>1. n - (m + 1) \in Nat
          BY <2>3, <3>2
        <5> QED BY <5>1, ProductNat
      <4>2. (n - (m + 1)) * q = n * q - (m + 1) * q /\ (m + 1) * q \in Int /\ n * q \in Int
        <5>1. n \in Int /\ m \in Int /\ q \in Int
          BY <2>3
        <5> HIDE DEF q
        <5> QED BY ONLY <5>1
      <4> QED BY <2>3, <3>2, <4>1, <4>2
    <3> QED BY <3>1, <3>2
  <2> QED BY <2>3, <2>4 DEF m
<1> QED BY <1>1, <1>2

\* The cost of one of n units, rounded for all and then for one, against the
\* cost of one.
LEMMA UnitOfMany ==
  ASSUME NEW worth \in Nat, NEW n \in Nat \ {0},
         NEW all, all = roundHalfUp(<<n * worth, 10>>),
         NEW one, one = roundHalfUp(<<worth, 10>>)
  PROVE  Abs(UnitCost(all, 10 * n) - one) <= 1
<1> DEFINE unit == UnitCost(all, 10 * n)
<1>1. /\ all \in Nat /\ -10 <= 2 * (all * 10) - 2 * (n * worth)
      /\ 2 * (all * 10) - 2 * (n * worth) <= 10
  BY ProductNat, RoundClose
<1>2. one \in Nat /\ -10 <= 2 * (one * 10) - 2 * worth /\ 2 * (one * 10) - 2 * worth <= 10
  BY RoundClose
<1>3. /\ unit \in Nat /\ -(10 * n) <= 2 * (unit * (10 * n)) - 2 * (10 * all)
      /\ 2 * (unit * (10 * n)) - 2 * (10 * all) <= 10 * n
  <2>1. 10 * all \in Nat /\ 10 * n \in Nat \ {0}
    BY <1>1
  <2>2. unit = roundHalfUp(<<10 * all, 10 * n>>)
    BY DEF UnitCost
  <2> HIDE DEF unit
  <2> QED BY <2>1, <2>2, RoundClose
<1> HIDE DEF unit
<1> DEFINE far == unit - one
           c == 2 * (one * 10) - 2 * worth
<1>4. far \in Int /\ c \in Int
  BY <1>2, <1>3
<1>5. 20 * (far * n) = (2 * (unit * (10 * n)) - 2 * (10 * all)) + (2 * (all * 10) - 2 * (n * worth)) - c * n
  BY <1>1, <1>2, <1>3
<1>6. -(10 * n) <= c * n /\ c * n <= 10 * n /\ c * n \in Int
  <2> HIDE DEF c
  <2>1. 10 \in Int /\ -10 <= c /\ c <= 10
    BY <1>2 DEF c
  <2> QED BY <1>4, <2>1, Multiplied
<1>7. /\ unit * (10 * n) \in Int /\ n * worth \in Int
      /\ 2 * (unit * (10 * n)) - 2 * (10 * all) \in Int /\ 2 * (all * 10) - 2 * (n * worth) \in Int
  BY <1>1, <1>3
<1> HIDE DEF c, far
<1>8. -(20 * n + 10) <= 20 * (far * n) /\ 20 * (far * n) <= 20 * n + 10
  BY <1>1, <1>3, <1>5, <1>6, <1>7
<1>9. far <= 1
  <2>1. SUFFICES ASSUME far >= 2 PROVE FALSE
    BY <1>4
  <2>2. (far - 2) * n \in Nat
    BY <1>4, <2>1, ProductNat
  <2>3. (far - 2) * n = far * n - 2 * n /\ far * n \in Int
    BY <1>4
  <2> QED BY <1>8, <2>2, <2>3
<1>10. far >= -1
  <2>1. SUFFICES ASSUME far <= -2 PROVE FALSE
    BY <1>4
  <2>2. (-2 - far) * n \in Nat
    <3>1. -2 - far \in Nat
      BY <1>4, <2>1
    <3> QED BY <3>1, ProductNat
  <2>3. (-2 - far) * n = -(2 * n) - far * n /\ far * n \in Int
    BY <1>4
  <2> QED BY <1>8, <2>2, <2>3
<1>11. Abs(far) <= 1
  BY <1>4, <1>9, <1>10 DEF Abs
<1> QED BY <1>11 DEF far, unit

LEMMA RecipeKeeps ==
  ASSUME Missing \notin Nat, NEW x, IsRecipe(x) PROVE RecipeKept(x)
<1> DEFINE lines == DOMAIN x.lines
           uncosted == {i \in lines : x.lines[i].average = Missing}
           worth == [i \in lines |-> x.lines[i].qty * x.lines[i].average]
           cost == roundHalfUp(<<SumOf(worth), 10>>)
           most == [i \in lines |-> maxBuildable(x.lines[i])]
           least == {i \in lines : \A k \in lines : maxBuildable(x.lines[i]) <= maxBuildable(x.lines[k])}
           limit == CHOOSE i \in least : TRUE
           recipe == computeBOMRecipe(x)
           blocks == \/ lines = {} \/ ~x.tracked \/ \E i \in lines : x.lines[i].serialized
                     \/ ~x.quantityOnly /\ uncosted # {}
<1> DEFINE part == [qty : Nat \ {0}, stock : Int, average : Cost, serialized : BOOLEAN]
<1>1. /\ IsFiniteSet(lines) /\ (x.lines = <<>> <=> lines = {})
      /\ \A i \in lines : x.lines[i] \in part
  <2>1. x.lines \in Seq(part)
    BY DEF IsRecipe
  <2> HIDE DEF part
  <2> QED BY ONLY <2>1, InSeq
<1>2. ASSUME NEW i \in lines
      PROVE  /\ x.lines[i].qty \in Nat \ {0} /\ x.lines[i].stock \in Int
             /\ (x.lines[i].average # Missing => x.lines[i].average \in Nat)
             /\ x.lines[i].serialized \in BOOLEAN
             /\ most[i] \in Nat /\ most[i] = maxBuildable(x.lines[i])
             /\ \A n \in Nat \ {0} : n * x.lines[i].qty <= x.lines[i].stock <=> n <= most[i]
  <2>1. x.lines[i] \in [qty : Nat \ {0}, stock : Int, average : Cost, serialized : BOOLEAN]
    BY <1>1
  <2>2. x.lines[i].qty \in Nat \ {0} /\ x.lines[i].stock \in Int /\ x.lines[i].average \in Cost
        /\ x.lines[i].serialized \in BOOLEAN
    BY <2>1
  <2>3. most[i] = maxBuildable(x.lines[i])
    OBVIOUS
  <2> HIDE DEF most
  <2> QED BY <2>2, <2>3, MostBuildable DEF Cost
<1>3. lines # {} => /\ limit \in lines
                    /\ \A k \in lines : most[limit] <= most[k]
  <2> DEFINE down == [i \in lines |-> 0 - most[i]]
  <2>1. SUFFICES ASSUME lines # {} PROVE least # {}
    BY <1>2
  <2>2. \A i \in lines : down[i] = 0 - most[i] /\ down[i] \in Int
    <3>1. ASSUME NEW i \in lines PROVE down[i] = 0 - most[i] /\ down[i] \in Int
      <4>1. most[i] \in Nat
        BY <1>2
      <4> HIDE DEF most, lines
      <4> QED BY <4>1
    <3> QED BY <3>1
  <2> HIDE DEF down, most
  <2>3. PICK i \in lines : \A k \in lines : down[i] >= down[k]
    <3> HIDE DEF lines
    <3> QED BY <1>1, <2>1, <2>2, Greatest
  <2>4. \A k \in lines : maxBuildable(x.lines[i]) <= maxBuildable(x.lines[k])
    BY <1>2, <2>2, <2>3
  <2> QED BY <2>4
<1> DEFINE blocked == CASE lines = {} -> "no recipe"
                        [] lines # {} /\ ~x.tracked -> "stock not tracked"
                        [] OTHER -> IF \E i \in lines : x.lines[i].serialized THEN "serialized component"
                                    ELSE IF ~x.quantityOnly /\ uncosted # {} THEN "uncosted component"
                                    ELSE "no"
           buildable == IF blocked = "no" THEN maxBuildable(x.lines[limit]) ELSE 0
<1>11. recipe = [blocked |-> IF blocked = "no" /\ buildable = 0 THEN "short" ELSE blocked,
                 buildable |-> buildable,
                 cost |-> IF x.quantityOnly \/ uncosted # {} \/ lines = {} THEN Missing ELSE cost,
                 belowCost |-> ~x.quantityOnly /\ uncosted = {} /\ lines # {} /\ 0 < x.price /\ x.price < cost]
  BY DEF computeBOMRecipe
<1>12. blocked = "no" <=> ~blocks
  <2>1. CASE lines = {}
    BY <2>1
  <2>2. CASE lines # {} /\ ~x.tracked
    BY <2>2
  <2>3. CASE lines # {} /\ x.tracked
    <3>1. blocked = IF \E i \in lines : x.lines[i].serialized THEN "serialized component"
                    ELSE IF ~x.quantityOnly /\ uncosted # {} THEN "uncosted component"
                    ELSE "no"
      BY <2>3
    <3> QED BY <2>3, <3>1
  <2> QED BY <2>1, <2>2, <2>3
<1> HIDE DEF blocked
<1>4. recipe.buildable = IF blocks THEN 0 ELSE most[limit]
  <2>1. recipe.buildable = IF blocked = "no" THEN maxBuildable(x.lines[limit]) ELSE 0
    BY <1>11
  <2>2. ~blocks => most[limit] = maxBuildable(x.lines[limit])
    BY <1>3
  <2> HIDE DEF blocks, most, recipe, limit
  <2> QED BY <1>12, <2>1, <2>2
<1>5. recipe.cost # Missing => recipe.cost = cost /\ uncosted = {}
  <2>1. recipe.cost = IF x.quantityOnly \/ uncosted # {} \/ lines = {} THEN Missing ELSE cost
    BY <1>11
  <2> HIDE DEF recipe, cost, uncosted
  <2> QED BY <2>1
<1> HIDE DEF recipe, limit, most, least, blocks
<1>6. recipe.buildable \in Nat
  BY <1>2, <1>3, <1>4 DEF blocks
<1>7. ASSUME NEW n \in 1..(recipe.buildable + 1) PROVE Builds(x, n) <=> n <= recipe.buildable
  <2>1. n \in Nat \ {0}
    BY <1>6
  <2>2. CASE blocks
    <3>1. recipe.buildable = 0
      BY <1>4, <2>2
    <3>2. ~Builds(x, n)
      BY <1>1, <2>2 DEF Builds, blocks
    <3> QED BY <2>1, <3>1, <3>2
  <2>3. CASE ~blocks
    <3>1. lines # {} /\ x.tracked /\ (\A i \in lines : ~x.lines[i].serialized)
          /\ (x.quantityOnly \/ \A i \in lines : x.lines[i].average # Missing)
      BY <2>3 DEF blocks
    <3>2. Builds(x, n) <=> \A i \in lines : n * x.lines[i].qty <= x.lines[i].stock
      BY <1>1, <3>1 DEF Builds
    <3>3. Builds(x, n) <=> \A i \in lines : n <= most[i]
      BY <1>2, <2>1, <3>2
    <3>4. recipe.buildable = most[limit] /\ limit \in lines /\ \A i \in lines : most[limit] <= most[i]
      BY <1>3, <1>4, <2>3, <3>1
    <3> QED BY <1>2, <2>1, <3>3, <3>4
  <2> QED BY <2>2, <2>3
<1>8. ASSUME NEW n \in 1..(recipe.buildable + 1), recipe.cost # Missing
      PROVE  Abs(UnitCost(ComponentsCost(x, n), 10 * n) - recipe.cost) <= 1
  <2> DEFINE made == [i \in lines |-> n * x.lines[i].qty * x.lines[i].average]
  <2>1. n \in Nat \ {0}
    BY <1>6
  <2>2. \A i \in lines : x.lines[i].average \in Nat /\ x.lines[i].qty \in Nat
    BY <1>2, <1>5, <1>8
  <2>3. \A i \in lines : /\ worth[i] = x.lines[i].qty * x.lines[i].average /\ worth[i] \in Nat
                         /\ made[i] = n * x.lines[i].qty * x.lines[i].average
    BY <2>2, ProductNat
  <2>4. SumOf(worth) = Total(worth, lines) /\ SumOf(made) = Total(made, lines)
    BY DEF SumOf
  <2>5. ComponentsCost(x, n) = roundHalfUp(<<SumOf(made), 10>>) /\ recipe.cost = roundHalfUp(<<SumOf(worth), 10>>)
    BY <1>5, <1>8 DEF ComponentsCost
  <2> HIDE DEF worth, made, lines
  <2>6. \A i \in lines : worth[i] \in Int /\ made[i] = worth[i] * n
    <3>1. ASSUME NEW i \in lines PROVE made[i] = worth[i] * n
      <4> DEFINE q == x.lines[i].qty
                 c == x.lines[i].average
      <4>1. q \in Nat /\ c \in Nat /\ worth[i] = q * c /\ made[i] = n * q * c
        BY <2>2, <2>3
      <4> HIDE DEF q, c
      <4> QED BY <2>1, <4>1
    <3> QED BY <2>3, <3>1
  <2>7. Total(made, lines) = Total(worth, lines) * n
    BY <1>1, <2>1, <2>6, TotalScale
  <2>8. Total(worth, lines) \in Nat
    BY <1>1, <2>3, TotalNat
  <2> DEFINE w == Total(worth, lines)
  <2>9. SumOf(made) = n * w /\ SumOf(worth) = w /\ w \in Nat
    BY <2>1, <2>4, <2>7, <2>8
  <2> HIDE DEF w
  <2> QED BY <2>1, <2>5, <2>9, UnitOfMany
<1> QED BY <1>7, <1>8 DEF RecipeKept, recipe

-----------------------------------------------------------------------------
(* What goods cost on average.                                             *)

LEMMA NotNegative ==
  ASSUME NEW a \in Int, NEW d \in Nat \ {0}, a * d >= 0
  PROVE  a >= 0
<1>1. SUFFICES ASSUME a <= -1 PROVE FALSE
  OBVIOUS
<1>2. (-1 - a) * d \in Nat
  <2>1. -1 - a \in Nat
    BY <1>1
  <2> QED BY <2>1, ProductNat
<1>3. (-1 - a) * d = -d - a * d /\ a * d \in Int
  OBVIOUS
<1> QED BY <1>2, <1>3

LEMMA QuotientIs ==
  ASSUME NEW a \in Nat, NEW b \in Nat \ {0}, NEW q \in Nat, q * b <= a, a < (q + 1) * b
  PROVE  a \div b = q
<1> DEFINE r == a \div b
<1>1. r \in Nat /\ r * b <= a /\ a < (r + 1) * b
  OBVIOUS
<1> HIDE DEF r
<1>2. q * b \in Int /\ r * b \in Int /\ (q + 1) * b = q * b + b /\ (r + 1) * b = r * b + b
  BY <1>1
<1>3. ~(r < q)
  <2>1. SUFFICES ASSUME r < q PROVE FALSE
    OBVIOUS
  <2>2. (q - r - 1) * b \in Nat
    <3>1. q - r - 1 \in Nat
      BY <1>1, <2>1
    <3> QED BY <3>1, ProductNat
  <2>3. (q - r - 1) * b = q * b - r * b - b
    BY <1>1
  <2> QED BY <1>1, <1>2, <2>2, <2>3
<1>4. ~(q < r)
  <2>1. SUFFICES ASSUME q < r PROVE FALSE
    OBVIOUS
  <2>2. (r - q - 1) * b \in Nat
    <3>1. r - q - 1 \in Nat
      BY <1>1, <2>1
    <3> QED BY <3>1, ProductNat
  <2>3. (r - q - 1) * b = r * b - q * b - b
    BY <1>1
  <2> QED BY <1>1, <1>2, <2>2, <2>3
<1>5. r = q
  BY <1>1, <1>3, <1>4
<1> QED BY <1>5 DEF r

\* Rounding does not depend on how a fraction is written.
LEMMA RoundScale ==
  ASSUME NEW n \in Nat, NEW d \in Nat \ {0}, NEW k \in Nat \ {0}
  PROVE  roundHalfUp(<<n * k, d * k>>) = roundHalfUp(<<n, d>>)
<1> DEFINE m == 2 * n + d
           e == 2 * d
           q == m \div e
<1>1. m \in Nat /\ e \in Nat \ {0}
  OBVIOUS
<1>2. q \in Nat /\ q * e <= m /\ m < (q + 1) * e
  <2> HIDE DEF m, e
  <2> QED BY <1>1
<1>3. roundHalfUp(<<n, d>>) = q
  BY DEF roundHalfUp
<1>4. n * k \in Nat /\ d * k \in Nat /\ 2 * (n * k) + d * k = m * k /\ 2 * (d * k) = e * k
  BY ProductNat
<1>5. roundHalfUp(<<n * k, d * k>>) = (m * k) \div (e * k)
  <2>1. roundHalfUp(<<n * k, d * k>>) = (2 * (n * k) + d * k) \div (2 * (d * k))
    BY <1>4 DEF roundHalfUp
  <2> QED BY <1>4, <2>1
<1> HIDE DEF m, e, q
<1>6. m * k \in Nat /\ e * k \in Nat \ {0}
  <2>1. m * k \in Nat /\ e * k \in Nat
    BY <1>1, ProductNat
  <2>2. (e - 1) * k \in Nat
    <3>1. e - 1 \in Nat
      BY <1>1
    <3> QED BY <3>1, ProductNat
  <2>3. (e - 1) * k = e * k - k
    BY <1>1
  <2> QED BY <2>1, <2>2, <2>3
<1>7. q * (e * k) <= m * k
  <2>1. (m - q * e) * k \in Nat
    <3>1. m - q * e \in Nat
      BY <1>1, <1>2
    <3> QED BY <3>1, ProductNat
  <2>2. (m - q * e) * k = m * k - q * (e * k) /\ q * (e * k) \in Int
    BY <1>1, <1>2
  <2> QED BY <1>6, <2>1, <2>2
<1>8. m * k < (q + 1) * (e * k)
  <2> DEFINE z == (q + 1) * e
  <2>1. z \in Int /\ m < z
    BY <1>1, <1>2
  <2>2. z * k = (q + 1) * (e * k)
    BY <1>1, <1>2
  <2> HIDE DEF z
  <2>3. (z - m - 1) * k \in Nat
    <3>1. z - m - 1 \in Nat
      BY <1>1, <2>1
    <3> QED BY <3>1, ProductNat
  <2>4. (z - m - 1) * k = z * k - m * k - k
    BY <1>1, <2>1
  <2>5. z * k \in Int
    BY <2>1
  <2>6. m * k < z * k
    BY <1>6, <2>3, <2>4, <2>5
  <2> QED BY <2>2, <2>6
<1>9. (m * k) \div (e * k) = q
  BY <1>2, <1>6, <1>7, <1>8, QuotientIs
<1> QED BY <1>3, <1>5, <1>9

\* What lies between two whole amounts is rounded to one between them.
LEMMA RoundBetween ==
  ASSUME NEW n \in Nat, NEW d \in Nat \ {0}, NEW low \in Nat, NEW high \in Nat,
         low * d <= n, n <= high * d, NEW q, q = roundHalfUp(<<n, d>>)
  PROVE  q \in Nat /\ low <= q /\ q <= high
<1>1. q \in Nat /\ -d <= 2 * (q * d) - 2 * n /\ 2 * (q * d) - 2 * n <= d
  BY RoundClose
<1>2. low * d \in Int /\ high * d \in Int /\ q * d \in Int
  BY <1>1
<1>3. q - low >= 0
  <2>1. SUFFICES ASSUME q - low <= -1 PROVE FALSE
    BY <1>1
  <2>2. (low - q - 1) * d \in Nat
    <3>1. low - q - 1 \in Nat
      BY <1>1, <2>1
    <3> QED BY <3>1, ProductNat
  <2>3. (low - q - 1) * d = low * d - q * d - d
    BY <1>1
  <2> QED BY <1>1, <1>2, <2>2, <2>3
<1>4. high - q >= 0
  <2>1. SUFFICES ASSUME high - q <= -1 PROVE FALSE
    BY <1>1
  <2>2. (q - high - 1) * d \in Nat
    <3>1. q - high - 1 \in Nat
      BY <1>1, <2>1
    <3> QED BY <3>1, ProductNat
  <2>3. (q - high - 1) * d = q * d - high * d - d
    BY <1>1
  <2> QED BY <1>1, <1>2, <2>2, <2>3
<1> QED BY <1>1, <1>3, <1>4

\* Stock whose value lies between two costs, after some comes in at one of them
\* or between.
LEMMA ValueBetween ==
  ASSUME NEW Q \in Nat, NEW v \in Nat, NEW w \in Nat \ {0}, NEW low \in Nat, NEW high \in Nat,
         low * (Q * w) <= v, v <= high * (Q * w),
         NEW q \in Nat, NEW c \in Nat, low <= c, c <= high
  PROVE  /\ low * ((Q + q) * w) <= v + (q * c) * w
         /\ v + (q * c) * w <= high * ((Q + q) * w)
         /\ v + (q * c) * w \in Nat
<1> DEFINE P == Q * w
           R == q * w
<1>1. P \in Nat /\ R \in Nat /\ (Q + q) * w = P + R /\ (q * c) * w = c * R
  BY ProductNat
<1> HIDE DEF P, R
<1>2. (c - low) * R \in Nat /\ (high - c) * R \in Nat /\ c * R \in Nat
  <2>1. c - low \in Nat /\ high - c \in Nat
    OBVIOUS
  <2> QED BY <1>1, <2>1, ProductNat
<1>3. /\ (c - low) * R = c * R - low * R /\ (high - c) * R = high * R - c * R
      /\ low * R \in Int /\ high * R \in Int /\ low * P \in Int /\ high * P \in Int
      /\ low * (P + R) = low * P + low * R /\ high * (P + R) = high * P + high * R
  BY <1>1
<1>4. low * P <= v /\ v <= high * P
  BY DEF P
<1>5. low * (P + R) <= v + c * R /\ v + c * R <= high * (P + R) /\ v + c * R \in Nat
  BY <1>2, <1>3, <1>4
<1> QED BY <1>1, <1>5

\* Stock at an average between two costs has a value between them.
LEMMA AverageBetween ==
  ASSUME NEW Q \in Nat, NEW v \in Nat, NEW w \in Nat \ {0}, NEW low \in Nat, NEW high \in Nat,
         NEW n \in Nat, NEW d \in Nat \ {0}, v * d = (Q * w) * n, low * d <= n, n <= high * d
  PROVE  low * (Q * w) <= v /\ v <= high * (Q * w)
<1> DEFINE P == Q * w
<1>1. P \in Nat /\ v * d = P * n
  BY ProductNat
<1> HIDE DEF P
<1>2. P * (n - low * d) \in Nat /\ P * (high * d - n) \in Nat
  <2>1. n - low * d \in Nat /\ high * d - n \in Nat
    OBVIOUS
  <2> QED BY <1>1, <2>1, ProductNat
<1>3. v - low * P \in Int /\ high * P - v \in Int
  BY <1>1
<1>4. /\ (v - low * P) * d = P * (n - low * d)
      /\ (high * P - v) * d = P * (high * d - n)
  <2>1. (v - low * P) * d = v * d - (low * P) * d /\ P * (n - low * d) = P * n - (low * P) * d
    BY <1>1
  <2>2. (high * P - v) * d = (high * P) * d - v * d /\ P * (high * d - n) = (high * P) * d - P * n
    BY <1>1
  <2> QED BY <1>1, <2>1, <2>2
<1>5. v - low * P >= 0 /\ high * P - v >= 0
  <2>1. (v - low * P) * d >= 0 /\ (high * P - v) * d >= 0
    BY <1>2, <1>4
  <2> QED BY <1>3, <2>1, NotNegative
<1>6. low * P \in Int /\ high * P \in Int
  BY <1>1
<1> QED BY <1>5, <1>6 DEF P

\* The states a product's cost goes through, over its first n movements.
Unknown == [known |-> FALSE, qty |-> 0, value |-> Frac(0), average |-> Frac(0)]
Replays(h, n, g) == g = [k \in 0..n |-> IF k = 0 THEN Unknown ELSE Replayed(g[k - 1], h[k])]

LEMMA ReplayDef == ASSUME NEW h PROVE Replay(h) = (CHOOSE g : Replays(h, Len(h), g))[Len(h)]
BY DEF Replay, Replays, Unknown

LEMMA ReplaysAt ==
  ASSUME NEW h, NEW n \in Nat, NEW g, Replays(h, n, g)
  PROVE  g[0] = Unknown /\ \A k \in 1..n : g[k] = Replayed(g[k - 1], h[k])
<1> DEFINE G(k) == IF k = 0 THEN Unknown ELSE Replayed(g[k - 1], h[k])
<1>1. g = [k \in 0..n |-> G(k)]
  BY DEF Replays
<1> HIDE DEF G
<1>2. \A k \in 0..n : g[k] = G(k)
  BY <1>1
<1>3. G(0) = Unknown /\ \A k \in 1..n : G(k) = Replayed(g[k - 1], h[k])
  BY DEF G
<1>4. 0 \in 0..n /\ \A k \in 1..n : k \in 0..n
  OBVIOUS
<1> QED BY <1>2, <1>3, <1>4

LEMMA ReplaysExist == ASSUME NEW h, NEW n \in Nat PROVE \E g : Replays(h, n, g)
<1> DEFINE C == {k \in Nat : ~\E g : Replays(h, k, g)}
<1>1. SUFFICES ASSUME C # {} PROVE FALSE
  OBVIOUS
<1>2. PICK m \in C : \A k \in C : m <= k
  <2>1. C \subseteq Nat
    OBVIOUS
  <2> HIDE DEF C
  <2> QED BY <1>1, <2>1, LeastOf
<1>3. CASE m = 0
  <2> DEFINE g == [k \in 0..0 |-> Unknown]
  <2>1. \A k \in 0..0 : k = 0
    OBVIOUS
  <2>2. g = [k \in 0..0 |-> IF k = 0 THEN Unknown ELSE Replayed(g[k - 1], h[k])]
    BY <2>1
  <2>3. Replays(h, 0, g)
    BY <2>2 DEF Replays
  <2> QED BY <1>2, <1>3, <2>3
<1>4. CASE m # 0
  <2>1. m \in Nat /\ m - 1 \in Nat /\ m - 1 \notin C
    BY <1>2, <1>4
  <2>2. PICK g : Replays(h, m - 1, g)
    BY <2>1
  <2>3. g[0] = Unknown /\ \A k \in 1..(m - 1) : g[k] = Replayed(g[k - 1], h[k])
    BY <2>1, <2>2, ReplaysAt
  <2> DEFINE f == [k \in 0..m |-> IF k = m THEN Replayed(g[m - 1], h[m]) ELSE g[k]]
             F(k) == IF k = 0 THEN Unknown ELSE Replayed(f[k - 1], h[k])
  <2>4. ASSUME NEW k \in 0..m PROVE f[k] = F(k)
    <3>1. CASE k = 0
      BY <1>4, <2>1, <2>3, <3>1
    <3>2. CASE k # 0 /\ k = m
      <4>1. k - 1 \in 0..m /\ k - 1 # m /\ k - 1 = m - 1
        BY <2>1, <3>2
      <4>2. f[k - 1] = g[m - 1]
        BY <4>1
      <4>3. f[k] = Replayed(g[m - 1], h[m])
        BY <3>2
      <4> HIDE DEF f
      <4> QED BY <3>2, <4>2, <4>3
    <3>3. CASE k # 0 /\ k # m
      <4>1. k \in 1..(m - 1) /\ k - 1 \in 0..m /\ k - 1 # m
        BY <2>1, <3>3
      <4>2. f[k - 1] = g[k - 1] /\ f[k] = g[k]
        BY <3>3, <4>1
      <4> HIDE DEF f
      <4> QED BY <2>3, <3>3, <4>1, <4>2
    <3> QED BY <3>1, <3>2, <3>3
  <2>5. f = [k \in 0..m |-> F(k)]
    <3>1. f = [k \in 0..m |-> f[k]]
      OBVIOUS
    <3> HIDE DEF f, F
    <3> QED BY <2>4, <3>1
  <2>6. Replays(h, m, f)
    BY <2>5 DEF Replays
  <2> QED BY <1>2, <2>6
<1> QED BY <1>3, <1>4

LEMMA ReplayIs ==
  ASSUME NEW h, Len(h) \in Nat
  PROVE  \E g : Replays(h, Len(h), g) /\ Replay(h) = g[Len(h)]
<1> DEFINE g == CHOOSE f : Replays(h, Len(h), f)
<1>1. Replays(h, Len(h), g)
  BY ReplaysExist
<1>2. Replay(h) = g[Len(h)]
  BY ReplayDef
<1> QED BY <1>1, <1>2

\* What happened first does not depend on what happened next.
LEMMA ReplaysAgree ==
  ASSUME NEW h, NEW n \in Nat, NEW g, Replays(h, n, g),
         NEW i, NEW m \in 0..n, NEW f, Replays(i, m, f), \A k \in 1..m : i[k] = h[k]
  PROVE  f[m] = g[m]
<1> DEFINE C == {k \in 0..m : f[k] # g[k]}
<1>1. SUFFICES ASSUME C # {} PROVE FALSE
  OBVIOUS
<1>2. PICK c \in C : \A k \in C : c <= k
  <2>1. C \subseteq Nat
    OBVIOUS
  <2> HIDE DEF C
  <2> QED BY <1>1, <2>1, LeastOf
<1>3. m \in Nat /\ g[0] = Unknown /\ (\A k \in 1..n : g[k] = Replayed(g[k - 1], h[k]))
      /\ f[0] = Unknown /\ (\A k \in 1..m : f[k] = Replayed(f[k - 1], i[k]))
  BY ReplaysAt
<1>4. c \in 1..m /\ c \in 1..n /\ c - 1 \in 0..m
  <2>1. c \in 0..m /\ c # 0
    BY <1>2, <1>3
  <2> QED BY <2>1
<1>5. f[c - 1] = g[c - 1]
  <2>1. c - 1 \notin C
    BY <1>2, <1>4
  <2> QED BY <1>4, <2>1
<1>6. f[c] = g[c]
  BY <1>3, <1>4, <1>5
<1> QED BY <1>2, <1>6

\* A product whose cost is known is worth its stock at the average of what it
\* came in at.
Valued(s, low, high) ==
  /\ s.known /\ s.qty \in Nat
  /\ s.value[1] \in Nat /\ s.value[2] \in Nat \ {0}
  /\ s.average[1] \in Nat /\ s.average[2] \in Nat \ {0}
  /\ s.value[1] * s.average[2] = (s.qty * s.value[2]) * s.average[1]
  /\ low * s.average[2] <= s.average[1] /\ s.average[1] <= high * s.average[2]
CostedMove(move) == move.qty > 0 /\ move.cost # Missing

LEMMA CostedReplayed ==
  ASSUME NEW s, NEW low \in Nat, NEW high \in Nat, s = Unknown \/ Valued(s, low, high),
         NEW move, move.qty \in Int, CostedMove(move), move.cost \in Nat,
         low <= move.cost, move.cost <= high
  PROVE  Valued(Replayed(s, move), low, high)
<1> DEFINE q == move.qty
           c == move.cost
           Q == s.qty
           v == s.value[1]
           w == s.value[2]
           t == Replayed(s, move)
<1>1. /\ Q \in Nat /\ v \in Nat /\ w \in Nat \ {0}
      /\ low * (Q * w) <= v /\ v <= high * (Q * w)
  <2>1. CASE s = Unknown
    <3>1. Q = 0 /\ v = 0 /\ w = 1
      BY <2>1 DEF Unknown, Frac
    <3> HIDE DEF Q, v, w
    <3>2. Q * w = 0
      BY <3>1
    <3> QED BY <3>1, <3>2
  <2>2. CASE Valued(s, low, high)
    <3> DEFINE n == s.average[1]
               d == s.average[2]
    <3>1. /\ Q \in Nat /\ v \in Nat /\ w \in Nat \ {0} /\ n \in Nat /\ d \in Nat \ {0}
          /\ v * d = (Q * w) * n /\ low * d <= n /\ n <= high * d
      BY <2>2 DEF Valued
    <3> HIDE DEF Q, v, w, n, d
    <3> QED BY <3>1, AverageBetween
  <2> QED BY <2>1, <2>2
<1>2. q \in Nat \ {0} /\ c \in Nat /\ c # Missing /\ low <= c /\ c <= high
  BY DEF CostedMove
<1>3. Q + q > 0
  <2> HIDE DEF Q, q
  <2> QED BY <1>1, <1>2
<1> DEFINE v2 == v + (q * c) * w
<1>4. /\ t.known /\ t.qty = Q + q
      /\ t.value[1] = v * (1 * 1) + (q * c) * w /\ t.value[2] = w * (1 * 1)
      /\ t.average[1] = (v * (1 * 1) + (q * c) * w) * 1 /\ t.average[2] = (w * (1 * 1)) * (Q + q)
  <2>1. t = [known |-> TRUE, qty |-> Q + q,
             value |-> Plus(s.value, Times(Frac(q), Frac(c))),
             average |-> Over(Plus(s.value, Times(Frac(q), Frac(c))), Frac(Q + q))]
    <3>1. move.qty > 0 /\ move.cost # Missing /\ s.qty + move.qty > 0
      BY <1>2, <1>3
    <3> QED BY <3>1 DEF Replayed
  <2>2. /\ t.known /\ t.qty = Q + q /\ t.value = Plus(s.value, Times(Frac(q), Frac(c)))
        /\ t.average = Over(t.value, Frac(Q + q))
    BY <2>1
  <2> HIDE DEF t
  <2>3. t.value = <<v * (1 * 1) + (q * c) * w, w * (1 * 1)>>
    BY <2>2 DEF Plus, Times, Frac
  <2>4. t.average = <<t.value[1] * 1, t.value[2] * (Q + q)>>
    BY <1>3, <2>2 DEF Over, Frac
  <2> HIDE DEF Q, q, v, w, c
  <2>5. t.value[1] = v * (1 * 1) + (q * c) * w /\ t.value[2] = w * (1 * 1)
    BY <2>3
  <2>6. t.average[1] = t.value[1] * 1 /\ t.average[2] = t.value[2] * (Q + q)
    BY <2>4
  <2> QED BY <2>2, <2>5, <2>6
<1> HIDE DEF t, Q, q, c, v, w
<1>5. /\ low * ((Q + q) * w) <= v2 /\ v2 <= high * ((Q + q) * w) /\ v2 \in Nat
  BY <1>1, <1>2, ValueBetween
<1>6. q * c \in Int /\ (q * c) * w \in Int
  BY <1>1, <1>2
<1>7. /\ t.value[1] = v2 /\ t.value[2] = w /\ t.average[1] = v2 /\ t.average[2] = w * (Q + q)
  BY <1>1, <1>4, <1>6
<1>8. w * (Q + q) \in Nat \ {0} /\ w * (Q + q) = (Q + q) * w /\ Q + q \in Nat
  <2>1. w * (Q + q) = w + w * (Q + q - 1) /\ w * (Q + q) = (Q + q) * w
    BY <1>1, <1>2
  <2>2. w * (Q + q - 1) \in Nat
    <3>1. Q + q - 1 \in Nat
      BY <1>1, <1>2
    <3> QED BY <1>1, <3>1, ProductNat
  <2> QED BY <1>1, <1>2, <2>1, <2>2
<1> HIDE DEF v2
<1>9. v2 * (w * (Q + q)) = ((Q + q) * w) * v2
  BY <1>5, <1>8
<1>10. low * t.average[2] <= t.average[1] /\ t.average[1] <= high * t.average[2]
  BY <1>5, <1>7, <1>8
<1>11. t.value[1] * t.average[2] = (t.qty * t.value[2]) * t.average[1]
  BY <1>4, <1>7, <1>9
<1>12. Valued(t, low, high)
  BY <1>1, <1>4, <1>5, <1>7, <1>8, <1>10, <1>11 DEF Valued
<1> QED BY <1>12 DEF t

\* Any other movement leaves the average as it was, however it is written.
LEMMA OtherReplayed ==
  ASSUME NEW s, NEW low \in Nat, NEW high \in Nat, Valued(s, low, high),
         NEW move, move.qty \in Int, ~CostedMove(move)
  PROVE  /\ Valued(Replayed(s, move), low, high)
         /\ roundHalfUp(Replayed(s, move).average) = roundHalfUp(s.average)
<1> DEFINE q == move.qty
           Q == s.qty
           v == s.value[1]
           w == s.value[2]
           n == s.average[1]
           d == s.average[2]
           t == Replayed(s, move)
<1>1. /\ s.known /\ Q \in Nat /\ v \in Nat /\ w \in Nat \ {0} /\ n \in Nat /\ d \in Nat \ {0}
      /\ v * d = (Q * w) * n /\ low * d <= n /\ n <= high * d /\ q \in Int
  BY DEF Valued
<1>2. CASE Q + q > 0
  <2>1. t = [known |-> TRUE, qty |-> Q + q,
             value |-> Plus(s.value, Times(Frac(q), s.average)),
             average |-> Over(Plus(s.value, Times(Frac(q), s.average)), Frac(Q + q))]
    BY <1>1, <1>2 DEF Replayed, CostedMove
  <2>2. /\ t.known /\ t.qty = Q + q /\ t.value = Plus(s.value, Times(Frac(q), s.average))
        /\ t.average = Over(t.value, Frac(Q + q))
    BY <2>1
  <2> HIDE DEF t
  <2>3. t.value = <<v * (1 * d) + (q * n) * w, w * (1 * d)>>
    BY <2>2 DEF Plus, Times, Frac
  <2>4. t.average = <<t.value[1] * 1, t.value[2] * (Q + q)>>
    BY <1>2, <2>2 DEF Over, Frac
  <2> HIDE DEF Q, q, v, w, n, d
  <2>5. t.value[1] = v * (1 * d) + (q * n) * w /\ t.value[2] = w * (1 * d)
    BY <2>3
  <2>6. t.average[1] = t.value[1] * 1 /\ t.average[2] = t.value[2] * (Q + q)
    BY <2>4
  <2> DEFINE k == w * (Q + q)
  <2>7. k \in Nat \ {0} /\ Q + q \in Nat
    <3>1. w * (Q + q) = w + w * (Q + q - 1)
      BY <1>1
    <3>2. w * (Q + q - 1) \in Nat
      <4>1. Q + q - 1 \in Nat
        BY <1>1, <1>2
      <4> QED BY <1>1, <4>1, ProductNat
    <3> QED BY <1>1, <1>2, <3>1, <3>2
  <2>8. v * (1 * d) + (q * n) * w = n * k
    <3>1. v * (1 * d) = (Q * w) * n
      BY <1>1
    <3>2. (Q * w) * n + (q * n) * w = n * (w * (Q + q))
      BY <1>1
    <3> QED BY <3>1, <3>2
  <2>9. w * (1 * d) = w * d /\ (w * (1 * d)) * (Q + q) = d * k
    BY <1>1
  <2>10. n * k \in Nat /\ d * k \in Nat \ {0} /\ w * d \in Nat \ {0}
    <3>1. n * k \in Nat /\ (d - 1) * k \in Nat /\ (w - 1) * d \in Nat
      <4>1. d - 1 \in Nat /\ w - 1 \in Nat
        BY <1>1
      <4> HIDE DEF k
      <4> QED BY <1>1, <2>7, <4>1, ProductNat
    <3>2. d * k = (d - 1) * k + k /\ w * d = (w - 1) * d + d
      <4> HIDE DEF k
      <4> QED BY <1>1, <2>7
    <3> HIDE DEF k
    <3> QED BY <1>1, <2>7, <3>1, <3>2
  <2>11. t.value[1] = n * k /\ t.value[2] = w * d /\ t.average[1] = n * k /\ t.average[2] = d * k
    <3> HIDE DEF k
    <3> QED BY <2>5, <2>6, <2>8, <2>9, <2>10
  <2>12. t.value[1] * t.average[2] = (t.qty * t.value[2]) * t.average[1]
    <3>1. d * k = (Q + q) * (w * d)
      BY <1>1
    <3> HIDE DEF k
    <3>2. (n * k) * (d * k) = (d * k) * (n * k)
      BY <2>10
    <3> QED BY <2>2, <2>11, <3>1, <3>2
  <2>13. low * t.average[2] <= t.average[1] /\ t.average[1] <= high * t.average[2]
    <3> HIDE DEF k
    <3>1. (n - low * d) * k \in Nat /\ (high * d - n) * k \in Nat
      <4>1. n - low * d \in Nat /\ high * d - n \in Nat
        BY <1>1
      <4> QED BY <2>7, <4>1, ProductNat
    <3>2. (n - low * d) * k = n * k - low * (d * k) /\ (high * d - n) * k = high * (d * k) - n * k
      BY <1>1, <2>7
    <3>3. low * (d * k) \in Int /\ high * (d * k) \in Int
      BY <2>10
    <3> QED BY <2>10, <2>11, <3>1, <3>2, <3>3
  <2>14. roundHalfUp(t.average) = roundHalfUp(s.average)
    <3> HIDE DEF k
    <3>1. roundHalfUp(t.average) = roundHalfUp(<<n * k, d * k>>)
      BY <2>11 DEF roundHalfUp
    <3>2. roundHalfUp(s.average) = roundHalfUp(<<n, d>>)
      BY DEF roundHalfUp, n, d
    <3>3. roundHalfUp(<<n * k, d * k>>) = roundHalfUp(<<n, d>>)
      BY <1>1, <2>7, RoundScale
    <3> QED BY <3>1, <3>2, <3>3
  <2> HIDE DEF k
  <2>15. Valued(t, low, high)
    BY <2>2, <2>7, <2>10, <2>11, <2>12, <2>13 DEF Valued
  <2> QED BY <2>14, <2>15 DEF t
<1>3. CASE ~(Q + q > 0)
  <2>1. t = [known |-> TRUE, qty |-> 0, value |-> Frac(0), average |-> s.average]
    BY <1>1, <1>3 DEF Replayed, CostedMove
  <2>2. t.known /\ t.qty = 0 /\ t.value = <<0, 1>> /\ t.average = s.average
    BY <2>1 DEF Frac
  <2> HIDE DEF t
  <2>3. t.value[1] = 0 /\ t.value[2] = 1 /\ t.average[1] = n /\ t.average[2] = d
    BY <2>2
  <2> HIDE DEF n, d
  <2>4. 0 * d = (0 * 1) * n
    BY <1>1
  <2>5. Valued(t, low, high)
    BY <1>1, <2>2, <2>3, <2>4 DEF Valued
  <2> QED BY <2>2, <2>5 DEF t
<1> QED BY <1>2, <1>3

LEMMA OtherUnknown ==
  ASSUME NEW move, ~CostedMove(move) PROVE Replayed(Unknown, move) = Unknown
BY DEF Replayed, Unknown, CostedMove

LEMMA HistoryTyped ==
  ASSUME NEW h, h \in Seq([qty : Int, cost : Cost])
  PROVE  /\ Len(h) \in Nat /\ DOMAIN h = 1..Len(h) /\ IsFiniteSet(DOMAIN h)
         /\ \A i \in DOMAIN h : h[i].qty \in Int /\ h[i].cost \in Cost
<1>1. /\ Len(h) \in Nat /\ DOMAIN h = 1..Len(h) /\ IsFiniteSet(DOMAIN h)
      /\ \A i \in DOMAIN h : h[i] \in [qty : Int, cost : Cost]
  BY InSeq
<1> QED BY <1>1

\* Every state of a replay is of a product of no known cost, or of one worth
\* between the least and the greatest cost.
LEMMA ReplayValued ==
  ASSUME NEW h, h \in Seq([qty : Int, cost : Cost]), NEW low \in Nat, NEW high \in Nat,
         \A i \in Costed(h) : h[i].cost \in Nat /\ low <= h[i].cost /\ h[i].cost <= high,
         NEW g, Replays(h, Len(h), g), NEW n \in 0..Len(h)
  PROVE  /\ (\A i \in Costed(h) : i > n) => g[n] = Unknown
         /\ (\E i \in Costed(h) : i <= n) => Valued(g[n], low, high)
<1> DEFINE NoneBy(k) == \A i \in Costed(h) : i > k
           SomeBy(k) == \E i \in Costed(h) : i <= k
           Holds(k) == (NoneBy(k) => g[k] = Unknown) /\ (SomeBy(k) => Valued(g[k], low, high))
           C == {k \in 0..Len(h) : ~Holds(k)}
<1>1. /\ Len(h) \in Nat /\ DOMAIN h = 1..Len(h)
      /\ \A i \in DOMAIN h : h[i].qty \in Int /\ h[i].cost \in Cost
  BY HistoryTyped
<1>2. /\ Costed(h) \subseteq 1..Len(h)
      /\ \A i \in 1..Len(h) : i \in Costed(h) <=> CostedMove(h[i])
  BY <1>1 DEF Costed, CostedMove
<1>3. g[0] = Unknown /\ \A k \in 1..Len(h) : g[k] = Replayed(g[k - 1], h[k])
  BY <1>1, ReplaysAt
<1>4. SUFFICES ASSUME C # {} PROVE FALSE
  OBVIOUS
<1>5. PICK m \in C : \A k \in C : m <= k
  <2>1. C \subseteq Nat
    BY <1>1
  <2> HIDE DEF C
  <2> QED BY <1>4, <2>1, LeastOf
<1>6. m \in 0..Len(h) /\ ~Holds(m)
  BY <1>5
<1>7. m # 0
  <2>1. SUFFICES ASSUME m = 0 PROVE FALSE
    OBVIOUS
  <2>2. ~SomeBy(0)
    BY <1>1, <1>2
  <2>3. Holds(0)
    BY <1>3, <2>2
  <2> QED BY <1>6, <2>1, <2>3
<1>8. m \in 1..Len(h) /\ m - 1 \in 0..Len(h) /\ Holds(m - 1)
  <2>1. m \in 1..Len(h) /\ m - 1 \in 0..Len(h)
    BY <1>1, <1>6, <1>7
  <2>2. ~(m <= m - 1)
    BY <2>1
  <2>3. m - 1 \notin C
    BY <1>5, <2>2
  <2> QED BY <2>1, <2>3
<1> HIDE DEF C
<1>9. g[m] = Replayed(g[m - 1], h[m]) /\ h[m].qty \in Int
  BY <1>1, <1>3, <1>8
<1>10. NoneBy(m - 1) \/ SomeBy(m - 1)
  BY <1>1, <1>2, <1>8
<1>11. CASE m \in Costed(h)
  <2>1. g[m - 1] = Unknown \/ Valued(g[m - 1], low, high)
    BY <1>8, <1>10
  <2>2. CostedMove(h[m]) /\ h[m].cost \in Nat /\ low <= h[m].cost /\ h[m].cost <= high
    BY <1>2, <1>8, <1>11
  <2>3. Valued(g[m], low, high)
    BY <1>9, <2>1, <2>2, CostedReplayed
  <2>4. ~NoneBy(m)
    BY <1>8, <1>11
  <2> QED BY <1>6, <2>3, <2>4
<1>12. CASE m \notin Costed(h)
  <2>1. ~CostedMove(h[m])
    BY <1>2, <1>8, <1>12
  <2>2. (NoneBy(m) <=> NoneBy(m - 1)) /\ (SomeBy(m) <=> SomeBy(m - 1))
    <3>1. \A i \in Costed(h) : i \in Int /\ i # m /\ (i > m <=> i > m - 1) /\ (i <= m <=> i <= m - 1)
      BY <1>1, <1>2, <1>8, <1>12
    <3> QED BY <3>1
  <2>3. NoneBy(m) => g[m] = Unknown
    BY <1>8, <1>9, <2>1, <2>2, OtherUnknown
  <2>4. SomeBy(m) => Valued(g[m], low, high)
    <3>1. SomeBy(m) => Valued(g[m - 1], low, high)
      BY <1>8, <2>2
    <3> HIDE DEF SomeBy
    <3> QED BY <1>9, <2>1, <3>1, OtherReplayed
  <2> QED BY <1>6, <2>3, <2>4
<1> QED BY <1>11, <1>12

LEMMA AverageKept ==
  ASSUME Missing \notin Nat, NEW h, h \in Seq([qty : Int, cost : Cost]), Costed(h) # {}
  PROVE  AverageOfCosts(h)
<1> DEFINE average == recomputeAverageCost(h, Missing)
           length == Len(h)
           final == h[length]
           before == SubSeq(h, 1, length - 1)
<1>1. /\ length \in Nat /\ DOMAIN h = 1..length /\ IsFiniteSet(DOMAIN h)
      /\ \A i \in DOMAIN h : h[i].qty \in Int /\ h[i].cost \in Cost
  BY HistoryTyped
<1>2. Costed(h) \subseteq 1..length /\ IsFiniteSet(Costed(h)) /\ \A i \in Costed(h) : h[i].cost \in Nat
  <2>1. Costed(h) \subseteq DOMAIN h /\ \A i \in Costed(h) : h[i].cost # Missing
    BY DEF Costed
  <2>2. IsFiniteSet(Costed(h))
    BY <1>1, <2>1, FS_Subset
  <2> QED BY <1>1, <2>1, <2>2 DEF Cost
<1>3. PICK b \in Costed(h) : \A i \in Costed(h) : h[b].cost >= h[i].cost
  <2> DEFINE f == [i \in Costed(h) |-> h[i].cost]
  <2>1. \A i \in Costed(h) : f[i] = h[i].cost /\ f[i] \in Int
    BY <1>2
  <2> HIDE DEF f
  <2>2. \E i \in Costed(h) : \A k \in Costed(h) : f[i] >= f[k]
    BY <1>2, <2>1, Greatest
  <2> QED BY <2>1, <2>2
<1>4. PICK a \in Costed(h) : \A i \in Costed(h) : h[a].cost <= h[i].cost
  <2> DEFINE f == [i \in Costed(h) |-> 0 - h[i].cost]
  <2>1. \A i \in Costed(h) : f[i] = 0 - h[i].cost /\ f[i] \in Int /\ h[i].cost \in Int
    BY <1>2
  <2> HIDE DEF f
  <2>2. PICK i \in Costed(h) : \A k \in Costed(h) : f[i] >= f[k]
    BY <1>2, <2>1, Greatest
  <2>3. ASSUME NEW k \in Costed(h) PROVE h[i].cost <= h[k].cost
    <3>1. f[i] >= f[k]
      BY <2>2
    <3>2. f[i] = 0 - h[i].cost /\ f[k] = 0 - h[k].cost /\ h[i].cost \in Int /\ h[k].cost \in Int
      BY <2>1
    <3> QED BY ONLY <3>1, <3>2
  <2> QED BY <2>3
<1> DEFINE low == h[a].cost
           high == h[b].cost
<1>5. low \in Nat /\ high \in Nat /\ \A i \in Costed(h) : h[i].cost \in Nat /\ low <= h[i].cost /\ h[i].cost <= high
  BY <1>2, <1>3, <1>4
<1>6. PICK g : Replays(h, length, g) /\ Replay(h) = g[length]
  BY <1>1, ReplayIs
<1> HIDE DEF low, high
<1>7. \A n \in 0..length : (\E i \in Costed(h) : i <= n) => Valued(g[n], low, high)
  BY <1>5, <1>6, ReplayValued
<1>8. Valued(g[length], low, high)
  <2>1. length \in 0..length /\ a \in Costed(h) /\ a <= length
    BY <1>1, <1>2
  <2> HIDE DEF length
  <2> QED BY <1>7, <2>1
<1>9. average = roundHalfUp(g[length].average)
  BY <1>6 DEF recomputeAverageCost
<1>10. average \in Nat /\ low <= average /\ average <= high
  <2> DEFINE n == g[length].average[1]
             d == g[length].average[2]
  <2>1. n \in Nat /\ d \in Nat \ {0} /\ low * d <= n /\ n <= high * d
    BY <1>8 DEF Valued
  <2>2. average = roundHalfUp(<<n, d>>)
    BY <1>9 DEF roundHalfUp
  <2> HIDE DEF average, n, d
  <2> QED BY <1>5, <2>1, <2>2, RoundBetween
<1>11. final.qty < 0 => average = recomputeAverageCost(before, Missing)
  <2>1. SUFFICES ASSUME final.qty < 0 PROVE average = recomputeAverageCost(before, Missing)
    OBVIOUS
  <2>2. length \in Nat \ {0} /\ length \in 1..length
    BY <1>1, <1>2
  <2>3. ~CostedMove(final) /\ length \notin Costed(h) /\ final.qty \in Int
    BY <1>1, <2>1, <2>2 DEF CostedMove, Costed
  <2> HIDE DEF length
  <2>4. a \in 1..(length - 1) /\ length - 1 \in 0..length
    BY <1>2, <2>2, <2>3
  <2>5. /\ Len(before) = length - 1 /\ DOMAIN before = 1..(length - 1)
        /\ \A k \in 1..(length - 1) : before[k] = h[k]
    BY <1>1, <2>2 DEF length
  <2> HIDE DEF before
  <2>6. Costed(before) # {}
    <3>1. a \in Costed(before)
      BY <2>4, <2>5 DEF Costed
    <3> QED BY <3>1
  <2>7. PICK f : Replays(before, length - 1, f) /\ Replay(before) = f[length - 1]
    BY <2>2, <2>5, ReplayIs
  <2>8. f[length - 1] = g[length - 1]
    BY <1>6, <2>2, <2>4, <2>5, <2>7, ReplaysAgree
  <2>9. Valued(g[length - 1], low, high)
    BY <1>7, <2>4
  <2>10. g[length] = Replayed(g[length - 1], final)
    BY <1>6, <2>2, ReplaysAt
  <2>11. roundHalfUp(g[length].average) = roundHalfUp(g[length - 1].average)
    <3> HIDE DEF final
    <3> QED BY <1>5, <2>3, <2>9, <2>10, OtherReplayed
  <2>12. recomputeAverageCost(before, Missing) = roundHalfUp(g[length - 1].average)
    BY <2>6, <2>7, <2>8 DEF recomputeAverageCost
  <2> HIDE DEF average
  <2> QED BY <1>9, <2>11, <2>12
<1> HIDE DEF average
<1>12. (\E i \in Costed(h) : h[i].cost <= average) /\ (\E i \in Costed(h) : h[i].cost >= average)
  BY <1>5, <1>10 DEF low, high
<1> QED BY <1>11, <1>12 DEF AverageOfCosts, average

\* Freight and customs reach the goods of their import, goods made are worth
\* their components, the average cost of goods is one of theirs or between
\* them, and what a recipe says can be made, and at what cost, is what an order
\* finds: for every receipt, production order, history of movements and recipe
\* (db/gl_posting.go:756-830, 1250, db/product_cost.go:13-36,
\* db/bom_summary.go:42-50, 310).
THEOREM PostedGoodsAtCost == PostingSpec => []GoodsAtCost
<1>1. PostingInvariant => GoodsAtCost
  <2>1. SUFFICES ASSUME PostingInvariant PROVE GoodsAtCost
    OBVIOUS
  <2>2. doc \in Documents /\ posting \in {Unposted, EntryOf(doc)} /\ Missing \notin Nat
    BY <2>1, PostingsAssumption DEF PostingInvariant
  <2>3. doc.kind = "receipt" /\ AllOfImport(doc)
        => LessEq(Distance(Frac(applyLandedCost(doc)), Frac(doc.freight)),
                  <<Tenths(doc) + 10 * Len(doc.lines), 20>>)
    <3>1. doc.kind = "receipt" => IsReceipt(doc)
      BY <2>2, PostingsAssumption
    <3> QED BY <2>2, <3>1, FreightReachesGoods
  <2>4. doc.kind = "production" => 20 * Abs(OnLeg("adjustment")) <= doc.qty + 10
    <3>1. SUFFICES ASSUME doc.kind = "production"
                   PROVE  20 * Abs(OnTheLeg(posting, "adjustment")) <= doc.qty + 10
      BY DEF OnLeg, OnTheLeg
    <3>2. doc.qty \in Nat \ {0} /\ doc.components \in Nat
      BY <2>2, <3>1, PostingsAssumption
    <3>3. EntryOf(doc) = buildProductionOrderGLLines(doc)
      BY <3>1 DEF EntryOf
    <3>4. posting = Unposted \/ posting = buildProductionOrderGLLines(doc)
      BY <2>2, <3>3
    <3> QED BY ONLY <3>2, <3>4, GoodsMadeAtCost
  <2>5. doc.kind = "history" /\ Costed(doc.moves) # {} => AverageOfCosts(doc.moves)
    <3>1. doc.kind = "history" => doc.moves \in Seq([qty : Int, cost : Cost])
      BY <2>2, PostingsAssumption DEF IsHistory
    <3> QED BY <2>2, <3>1, AverageKept
  <2>6. doc.kind = "recipe" => RecipeKept(doc)
    <3>1. doc.kind = "recipe" => IsRecipe(doc)
      BY <2>2, PostingsAssumption
    <3> QED BY <2>2, <3>1, RecipeKeeps
  <2> QED BY <2>3, <2>4, <2>5, <2>6 DEF GoodsAtCost
<1> QED BY <1>1, PostingInvariantHolds, PTL
=============================================================================
