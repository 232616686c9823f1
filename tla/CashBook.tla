------------------------------ MODULE CashBook ------------------------------
(***************************************************************************)
(* The counter: cash sales that take their own stock out                   *)
(* (db/cash_sale.go, db/invoice_stock.go), collections that name the line  *)
(* they settle (db/cash_sale_payment.go), and loans brought forward from   *)
(* the paper register in batches that can be undone (db/opening_loan.go,   *)
(* db/loan_import.go).                                                     *)
(*                                                                         *)
(* A handler whose transaction looks again at all its earlier reads is one *)
(* action. Three carry something across: a state change its stock plan, an *)
(* import its customers, an undo its look at the collections; each parks   *)
(* it in held between a read and a write.                                   *)
(***************************************************************************)
EXTENDS LoanLines

CONSTANTS
  Sales,        \* ids of cash sales
  Refs,         \* references in the paper register
  Register,     \* what the register says of each: customer, lines, paid to date
  Walkins,      \* new customers the counter may type in: name and phone
  Baskets,      \* what a sale may hold: line values, total, units of stock
  Files,        \* import files: sequences of references
  Batches,      \* import batches
  Cashiers,       \* requests that may be in flight at once
  Amounts,      \* payment amounts tried
  MaxPayments,  \* a bound on payments recorded
  Unknown          \* no CIN, no phone

VARIABLES
  inv,          \* rows of invoices: cash sales and loans brought forward
  pays,         \* payments, each applied to one invoice or one of its lines
  ar,           \* the live receivable entry of each invoice: its amount, 0 if none
  moved,        \* what each sale's stock movements net to
  cogs,         \* sales whose cost entry is live
  clients,      \* rows of clients
  booked,       \* clients that journal lines name
  undone,       \* batches whose undo is on record
  stale,        \* sales a state change wrote about when they had been deleted:
                \* history, which the code does not keep
  held          \* what each clerk's handler has read and not yet written

cashVars == <<inv, pays, ar, moved, cogs, clients, booked, undone, stale, held>>

-----------------------------------------------------------------------------
(* Data.                                                                   *)

Loans == Refs \X Batches
Invoices == Sales \cup Loans

\* planOpeningLoan: what a loan of the register was for, and what of it is open.
LineSum(r) == Total(Register[r].net, DOMAIN Register[r].net)
Owed(r) == LineSum(r) - Register[r].paid

\* An invoice's id is nobody else's and is none; no total is negative, and no
\* loan was paid beyond its total (planOpeningLoan).
ASSUME CashAssumption ==
  /\ Sales \cap Loans = {} /\ Unknown \notin Invoices
  /\ \A basket \in Baskets : /\ basket.net \in Seq(Int)
                             /\ basket.total \in Nat /\ basket.units \in Nat
  /\ \A r \in Refs : /\ Register[r].net \in Seq(Int)
                     /\ Register[r].paid \in Nat /\ Owed(r) \in Nat
  /\ \A file \in Files : file \in Seq(Refs)
  /\ Amounts \subseteq Nat \ {0} /\ MaxPayments \in Nat
  /\ 0 \notin Batches

Free == [op |-> "idle"]
NoRow == [state |-> "none", client |-> Unknown, lines |-> <<0>>, total |-> 0, units |-> 0]

\* What is left of a deleted row: only what a request that read it still carries.
Gone(d) == [inv[d] EXCEPT !.state = "gone"]

Stands(d) == inv[d].state \notin {"none", "gone"}
Issued(d) == inv[d].state \in {"sent", "paid"}

\* The imported paid-to-date goes and comes with its loan: it has no entry of
\* its own and cannot be voided.
OpeningPaid(d) == IF d \in Loans /\ Stands(d) THEN Register[d[1]].paid ELSE 0

On(d) == {p \in DOMAIN pays : pays[p].doc = d}
Posted(d) == {p \in On(d) : pays[p].status = "posted"}
Received(S) == Total([p \in DOMAIN pays |-> pays[p].amount], S)
Paid(d) == OpeningPaid(d) + Received(Posted(d))

\* invoiceLineBalances: what each line has been paid and still owes.
Direct(d) == Tuple([k \in DOMAIN inv[d].lines |-> Received({p \in Posted(d) : pays[p].line = k})])
LinesPaid(d) ==
  LinePaid(inv[d].lines, Direct(d),
           OpeningPaid(d) + Received({p \in Posted(d) : pays[p].line = 0}))
Outstanding(d, k) == inv[d].lines[k] - LinesPaid(d)[k]

Hold(c, r) == held[c] = Free /\ held' = [held EXCEPT ![c] = r]
Release(c, r) == held[c] = r /\ held' = [held EXCEPT ![c] = Free]

\* A parked handler is refused by its transaction, which rolls back.
Fail(c) ==
  /\ held[c] # Free
  /\ held' = [held EXCEPT ![c] = Free]
  /\ UNCHANGED <<inv, pays, ar, moved, cogs, clients, booked, undone, stale>>

-----------------------------------------------------------------------------
(* Cash sales.                                                             *)

\* findClientByPhone, looked up again inside the sale's transaction.
PhoneTaken(who) == who.phone # Unknown /\ \E c \in clients : who.phone \in c.phones

Payment(d, k, a) == [doc |-> d, line |-> k, amount |-> a, status |-> "posted"]

\* CreateCashSale: customer, invoice, stock, money and every entry at once.
\* "paid" is decided by the amount received, so a free sale is paid.
CreateCashSale(s, basket, client, received) ==
  /\ inv[s].state = "none"
  /\ received <= basket.total
  /\ inv' = [inv EXCEPT ![s] =
       [state |-> IF received = basket.total THEN "paid" ELSE "sent", client |-> client,
        lines |-> LineAmounts(basket.net, basket.total), total |-> basket.total,
        units |-> basket.units]]
  /\ ar' = [ar EXCEPT ![s] = basket.total]
  /\ moved' = [moved EXCEPT ![s] = -basket.units]
  /\ cogs' = IF basket.units > 0 THEN cogs \cup {s} ELSE cogs
  /\ pays' = IF received > 0 THEN Append(pays, Payment(s, 0, received)) ELSE pays
  /\ booked' = IF basket.total > 0 THEN booked \cup {client} ELSE booked
  /\ UNCHANGED <<undone, stale, held>>

\* CreateInvoice for a client on file: a draft that moves no stock.
CreateInvoice(s, basket, client) ==
  /\ inv[s].state = "none"
  /\ inv' = [inv EXCEPT ![s] = [state |-> "draft", client |-> client,
                               lines |-> LineAmounts(basket.net, basket.total), total |-> basket.total,
        units |-> 0]]
  /\ UNCHANGED <<pays, ar, moved, cogs, clients, booked, undone, stale, held>>

SaleToClient(s, basket, received) ==
  \E row \in clients : CreateCashSale(s, basket, row.id, received) /\ UNCHANGED clients

SaleToWalkin(s, basket, received) ==
  \E who \in Walkins :
    /\ ~PhoneTaken(who)
    /\ CreateCashSale(s, basket, s, received)
    /\ clients' = clients \cup {[id |-> s, name |-> who.name, cin |-> Unknown,
                                 phones |-> {who.phone} \ {Unknown}, batch |-> 0]}

-----------------------------------------------------------------------------
(* Payments (db/cash_sale_payment.go, db/payment.go, db/payment_state.go). *)

\* markPaidIfSettledTx
SettledBy(d, a) == IF inv[d].state = "sent" /\ inv[d].total > 0 /\ Paid(d) + a >= inv[d].total
                     THEN "paid" ELSE inv[d].state

Collect(d, k, a) ==
  /\ Issued(d) /\ ar[d] # 0
  /\ pays' = Append(pays, Payment(d, k, a))
  /\ inv' = [inv EXCEPT ![d].state = SettledBy(d, a)]
  /\ booked' = booked \cup {inv[d].client}
  /\ UNCHANGED <<ar, moved, cogs, clients, undone, stale, held>>

\* Mutant of CreateCashSalePayment: the line's own payments only are counted.
CreateCashSalePaymentDirectOnly(d, k, a) ==
  /\ a <= inv[d].lines[k] - Direct(d)[k]
  /\ Collect(d, k, a)

CreateCashSalePayment(d, k, a) ==
  /\ a <= Outstanding(d, k)
  /\ Collect(d, k, a)

\* CreatePayment, applied to one invoice as a whole.
CreatePayment(d, a) ==
  /\ a <= inv[d].total - Paid(d)
  /\ Collect(d, 0, a)

\* VoidPayment, with reopenIfUnsettledTx.
VoidPayment(p) ==
  LET d == pays[p].doc
  IN /\ pays[p].status = "posted"
     /\ pays' = [pays EXCEPT ![p].status = "voided"]
     /\ inv' = IF inv[d].state = "paid" /\ Paid(d) >= inv[d].total
                 THEN [inv EXCEPT ![d].state = "sent"] ELSE inv
     /\ UNCHANGED <<ar, moved, cogs, clients, booked, undone, stale, held>>

-----------------------------------------------------------------------------
(* State changes of a sale, and what its stock does with them.             *)

\* UpdateInvoiceState. A stock plan is made only when the stock-out looks
\* unposted; paid documents keep their entry.
UpdateStateRead(c, s, state) ==
  /\ Stands(s)
  /\ (ar[s] # 0 /\ state \notin {"sent", "paid"}) => Posted(s) = {}
  /\ Hold(c, [op |-> "state", doc |-> s, to |-> state,
              plan |-> state \in {"sent", "paid"} /\ moved[s] = 0])
  /\ UNCHANGED <<inv, pays, ar, moved, cogs, clients, booked, undone, stale>>

\* postedInvoiceStockTx: a sale's movements, seen through its row. A deleted
\* sale's are there and not seen.
StockSeen(s) == IF Stands(s) THEN moved[s] ELSE 0

\* applyInvoiceStockOutTx, reverseInvoiceStockOutTx: the movements, and the
\* cost entry with them. A second live cost entry of one sale is refused
\* (idx_journal_entries_posted_source_document).
StockFollows(s, needed, plan) ==
  CASE needed /\ StockSeen(s) = 0 ->
         /\ plan
         /\ inv[s].units > 0 => s \notin cogs
         /\ moved' = [moved EXCEPT ![s] = @ - inv[s].units]
         /\ cogs' = IF inv[s].units > 0 THEN cogs \cup {s} ELSE cogs
    [] ~needed /\ StockSeen(s) # 0 ->
         /\ moved' = [moved EXCEPT ![s] = 0]
         /\ cogs' = cogs \ {s}
    [] OTHER -> UNCHANGED <<moved, cogs>>

\* The entry of a sale is posted when it has to have one and has none, and
\* reversed when it must not. Posting fails a foreign key once the client is gone.
EntryFollows(s, needed) ==
  LET posts == needed /\ ar[s] = 0 /\ inv[s].total > 0
  IN /\ (ar[s] # 0 /\ ~needed) => Posted(s) = {}
     /\ posts => \E row \in clients : row.id = inv[s].client
     /\ ar' = [ar EXCEPT ![s] = IF posts THEN inv[s].total ELSE IF needed THEN @ ELSE 0]
     /\ booked' = IF posts THEN booked \cup {inv[s].client} ELSE booked

\* The UPDATE of a sale deleted meanwhile matches no row, and nobody notices.
RestateSale(s, state) ==
  /\ inv' = IF Stands(s) THEN [inv EXCEPT ![s].state = state] ELSE inv
  /\ stale' = IF Stands(s) THEN stale ELSE stale \cup {s}

\* Mutant of UpdateStateWrite: what was planned is posted, without looking at
\* the movements again.
UpdateStateWriteAsPlanned(c, s, state, plan) ==
  LET needed == state \in {"sent", "paid"}
  IN /\ Release(c, [op |-> "state", doc |-> s, to |-> state, plan |-> plan])
     /\ RestateSale(s, state)
     /\ EntryFollows(s, needed)
     /\ moved' = [moved EXCEPT ![s] = IF plan THEN @ - inv[s].units ELSE IF needed THEN @ ELSE 0]
     /\ cogs' = IF needed /\ inv[s].units > 0 THEN cogs \cup {s} ELSE cogs \ {s}
     /\ UNCHANGED <<pays, clients, undone>>

UpdateStateWrite(c, s, state, plan) ==
  LET needed == state \in {"sent", "paid"}
  IN /\ Release(c, [op |-> "state", doc |-> s, to |-> state, plan |-> plan])
     /\ RestateSale(s, state)
     /\ EntryFollows(s, needed)
     /\ StockFollows(s, needed, plan)
     /\ UNCHANGED <<pays, clients, undone>>

DeleteInvoice(s) ==
  /\ Stands(s) /\ inv[s].state # "paid" /\ ar[s] = 0 /\ moved[s] = 0
  /\ inv' = [inv EXCEPT ![s] = Gone(s)]
  /\ UNCHANGED <<pays, ar, moved, cogs, clients, booked, undone, stale, held>>

\* DeleteClient: refused while the ledger or a payment names the client; its
\* invoices go with it (ON DELETE CASCADE).
DeleteClient(row) ==
  /\ row \in clients /\ row.id \notin booked
  /\ \A d \in Invoices : inv[d].client = row.id => On(d) = {} /\ OpeningPaid(d) = 0
  /\ clients' = clients \ {row}
  /\ inv' = [d \in Invoices |-> IF inv[d].client = row.id THEN Gone(d) ELSE inv[d]]
  /\ UNCHANGED <<pays, ar, moved, cogs, booked, undone, stale, held>>

-----------------------------------------------------------------------------
(* Loans brought forward.                                                  *)

\* updateOpeningLoanState: sent <-> paid only, if the state is still the one
\* read; the ledger does not move.
UpdateLoanStateRead(c, d, state) ==
  /\ Issued(d) /\ state \in {"sent", "paid"} \ {inv[d].state}
  /\ Hold(c, [op |-> "loan", doc |-> d, to |-> state, from |-> inv[d].state])
  /\ UNCHANGED <<inv, pays, ar, moved, cogs, clients, booked, undone, stale>>

UpdateLoanStateWrite(c, d, state, from) ==
  /\ Release(c, [op |-> "loan", doc |-> d, to |-> state, from |-> from])
  /\ inv[d].state = from
  /\ inv' = [inv EXCEPT ![d].state = state]
  /\ UNCHANGED <<pays, ar, moved, cogs, clients, booked, undone, stale>>

\* matchCustomer: by CIN, then by name and phone, then by name. A phone alone
\* never matches, and what is ambiguous is refused.
Match(rows, who) ==
  LET byCin == {c \in rows : who.cin # Unknown /\ c.cin = who.cin}
      named == {c \in rows : c.name = who.name}
      both == {c \in named : who.phone \in c.phones}
      owners == {c \in rows : who.phone \in c.phones}
      found(S) == [ok |-> Cardinality(S) = 1, hit |-> S]
  IN IF byCin # {} THEN found(byCin)
     ELSE IF both # {} THEN found(both)
     ELSE IF owners # {} THEN found({})
     ELSE IF named = {} THEN [ok |-> TRUE, hit |-> {}]
     ELSE IF who.phone # Unknown /\ \E c \in named : c.phones # {} THEN found({})
     ELSE found(named)

Imported(r) == \E b \in Batches : Stands(<<r, b>>)

\* The same CIN under two names in one file.
CinsAgree(file) ==
  \A i, j \in {k \in DOMAIN file : ~Imported(file[k])} :
    LET a == Register[file[i]].who b == Register[file[j]].who
    IN a.cin = b.cin /\ a.cin # Unknown => a.name = b.name

NewClient(r, b, who) ==
  [id |-> <<r, b>>, name |-> who.name, cin |-> who.cin, phones |-> {who.phone} \ {Unknown}, batch |-> b]

\* enrichNewClient: a customer this file creates takes what a later loan adds.
Enriched(row, who) ==
  [row EXCEPT !.cin = IF @ = Unknown THEN who.cin ELSE @,
              !.phones = IF Cardinality(@) < 2 THEN @ \cup ({who.phone} \ {Unknown}) ELSE @]

\* A loan of the file joins the plan, for a client on file or one this file
\* creates; one imported before is skipped.
PlanLoan(plan, r, b) ==
  LET who == Register[r].who
      m == Match(clients \cup plan.new, who)
      hit == CHOOSE c \in m.hit : TRUE
  IN IF Imported(r) THEN plan
     ELSE IF ~m.ok THEN [plan EXCEPT !.ok = FALSE]
     ELSE [ok |-> plan.ok, refs |-> Append(plan.refs, r),
           new |-> IF m.hit = {} THEN plan.new \cup {NewClient(r, b, who)}
                   ELSE IF hit \in plan.new THEN (plan.new \ {hit}) \cup {Enriched(hit, who)}
                   ELSE plan.new,
           of |-> Append(plan.of, IF m.hit = {} THEN <<r, b>> ELSE hit.id)]

\* planLoanImport: one loan after the other.
PlanImport(file, b) ==
  LET plan[n \in 0..Len(file)] ==
        IF n = 0 THEN [ok |-> CinsAgree(file), refs |-> <<>>, new |-> {}, of |-> <<>>]
        ELSE PlanLoan(plan[n - 1], file[n], b)
  IN plan[Len(file)]

\* ImportLoanRegister: a file with an error, or nothing new, writes nothing.
ImportRead(c, file, b) ==
  LET plan == PlanImport(file, b)
  IN /\ plan.refs # <<>> /\ plan.ok
     /\ \A r \in Refs : inv[<<r, b>>].state = "none"
     /\ Hold(c, [op |-> "import", batch |-> b, refs |-> plan.refs,
                 new |-> plan.new, of |-> plan.of])
     /\ UNCHANGED <<inv, pays, ar, moved, cogs, clients, booked, undone, stale>>

\* applyOpeningLoanTx: a settled loan is history, with no entry.
LoanRow(r, client) ==
  [state |-> IF Owed(r) = 0 THEN "paid" ELSE "sent", client |-> client,
   lines |-> LineAmounts(Register[r].net, LineSum(r)), total |-> LineSum(r), units |-> 0]

\* Mutant of ImportWrite: the references are not looked up again.
ImportWriteUnchecked(c, b, refs, new, of) ==
  LET at(d) == CHOOSE i \in DOMAIN refs : refs[i] = d[1]
      brought == {<<refs[i], b>> : i \in DOMAIN refs}
  IN /\ Release(c, [op |-> "import", batch |-> b, refs |-> refs, new |-> new, of |-> of])
     /\ \A r \in Refs : inv[<<r, b>>].state = "none"
     /\ \A i \in DOMAIN of : \E row \in clients \cup new : row.id = of[i]
     /\ clients' = clients \cup new
     /\ inv' = [d \in Invoices |-> IF d \in brought THEN LoanRow(d[1], of[at(d)]) ELSE inv[d]]
     /\ ar' = [d \in Invoices |-> IF d \in brought THEN Owed(d[1]) ELSE ar[d]]
     /\ booked' = booked \cup {of[i] : i \in {j \in DOMAIN refs : Owed(refs[j]) > 0}}
     /\ UNCHANGED <<pays, moved, cogs, undone, stale>>

\* applyOpeningLoanTx for every loan of the plan, in one transaction; it looks
\* each reference up again, and a client deleted meanwhile fails a foreign key.
ImportWrite(c, b, refs, new, of) ==
  LET at(d) == CHOOSE i \in DOMAIN refs : refs[i] = d[1]
      brought == {<<refs[i], b>> : i \in DOMAIN refs}
  IN /\ Release(c, [op |-> "import", batch |-> b, refs |-> refs, new |-> new, of |-> of])
     /\ \A r \in Refs : inv[<<r, b>>].state = "none"
     /\ \A i \in DOMAIN refs : ~Imported(refs[i])
     /\ \A i \in DOMAIN of : \E row \in clients \cup new : row.id = of[i]
     /\ clients' = clients \cup new
     /\ inv' = [d \in Invoices |-> IF d \in brought THEN LoanRow(d[1], of[at(d)]) ELSE inv[d]]
     /\ ar' = [d \in Invoices |-> IF d \in brought THEN Owed(d[1]) ELSE ar[d]]
     /\ booked' = booked \cup {of[i] : i \in {j \in DOMAIN refs : Owed(refs[j]) > 0}}
     /\ UNCHANGED <<pays, moved, cogs, undone, stale>>

\* loanImportCollectedQuery: voided collections count too.
Collected(b) == \E d \in Refs \X {b} : On(d) # {}
InBatch(b) == {d \in Refs \X {b} : Stands(d)}

UndoRead(c, b) ==
  /\ InBatch(b) # {} /\ b \notin undone /\ ~Collected(b)
  /\ Hold(c, [op |-> "undo", batch |-> b])
  /\ UNCHANGED <<inv, pays, ar, moved, cogs, clients, booked, undone, stale>>

\* Mutant of Removable: any customer the import created goes.
RemovableAll(b) == {row \in clients : row.batch = b /\ row.id \notin booked}

\* The customers the import created that nothing refers to any more.
Removable(b) ==
  {row \in clients :
    /\ row.batch = b /\ row.id \notin booked
    /\ \A d \in Invoices \ InBatch(b) : Stands(d) => inv[d].client # row.id
    /\ \A p \in DOMAIN pays : inv[pays[p].doc].client # row.id}

\* Mutant of UndoWrite: the collections are not counted again.
UndoWriteUnchecked(c, b) ==
  /\ Release(c, [op |-> "undo", batch |-> b])
  /\ inv' = [d \in Invoices |-> IF d \in InBatch(b) THEN Gone(d) ELSE inv[d]]
  /\ ar' = [d \in Invoices |-> IF d \in InBatch(b) THEN 0 ELSE ar[d]]
  /\ clients' = clients \ Removable(b)
  /\ undone' = undone \cup {b}
  /\ UNCHANGED <<pays, moved, cogs, booked, stale>>

\* UndoLoanImportBatch: entries reversed, loans and their paid-to-date deleted.
UndoWrite(c, b) ==
  /\ Release(c, [op |-> "undo", batch |-> b])
  /\ ~Collected(b)
  /\ inv' = [d \in Invoices |-> IF d \in InBatch(b) THEN Gone(d) ELSE inv[d]]
  /\ ar' = [d \in Invoices |-> IF d \in InBatch(b) THEN 0 ELSE ar[d]]
  /\ clients' = clients \ Removable(b)
  /\ undone' = undone \cup {b}
  /\ UNCHANGED <<pays, moved, cogs, booked, stale>>

-----------------------------------------------------------------------------
(* The specification.                                                      *)

CashInit ==
  /\ inv = [d \in Invoices |-> NoRow]
  /\ pays = <<>>
  /\ ar = [d \in Invoices |-> 0]
  /\ moved = [s \in Sales |-> 0]
  /\ cogs = {} /\ clients = {} /\ booked = {} /\ undone = {} /\ stale = {}
  /\ held = [c \in Cashiers |-> Free]

CanPay == Len(pays) < MaxPayments

Invoice == \E s \in Sales, basket \in Baskets, row \in clients : CreateInvoice(s, basket, row.id)
Sell == \E s \in Sales, basket \in Baskets, received \in Amounts \cup {0} :
          /\ received > 0 => CanPay
          /\ SaleToClient(s, basket, received) \/ SaleToWalkin(s, basket, received)
Pay == CanPay /\ \E d \in Invoices, a \in Amounts :
         \/ \E k \in DOMAIN inv[d].lines : CreateCashSalePayment(d, k, a)
         \/ CreatePayment(d, a)
Void == \E p \in DOMAIN pays : VoidPayment(p)
StartState(c) == \E s \in Sales, state \in {"draft", "sent", "paid", "cancelled"} :
                   UpdateStateRead(c, s, state)
StartLoanState(c) == \E d \in Loans, state \in {"sent", "paid"} : UpdateLoanStateRead(c, d, state)
StartImport(c) == \E file \in Files, b \in Batches : ImportRead(c, file, b)
StartUndo(c) == \E b \in Batches : UndoRead(c, b)
Drop == \/ \E s \in Sales : DeleteInvoice(s)
        \/ \E row \in clients : DeleteClient(row)
Finish(c) ==
  LET r == held[c]
  IN \/ r.op = "state" /\ UpdateStateWrite(c, r.doc, r.to, r.plan)
     \/ r.op = "loan" /\ UpdateLoanStateWrite(c, r.doc, r.to, r.from)
     \/ r.op = "import" /\ ImportWrite(c, r.batch, r.refs, r.new, r.of)
     \/ r.op = "undo" /\ UndoWrite(c, r.batch)
     \/ Fail(c)

CashNext ==
  \/ Invoice \/ Sell \/ Pay \/ Void \/ Drop
  \/ \E c \in Cashiers :
       StartState(c) \/ StartLoanState(c) \/ StartImport(c) \/ StartUndo(c) \/ Finish(c)

CashSpec == CashInit /\ [][CashNext]_cashVars

-----------------------------------------------------------------------------
(* Properties.                                                             *)

\* What the ledger says a customer owes on an invoice, its receivable less the
\* collections posted against it, is what the loan tracker says: nothing is
\* collected on a sale that was cancelled or a loan that was undone, and a
\* loan brought forward owes only what was outstanding at the cutover. Said of
\* every invoice but a sale that a state change wrote about after its deletion
\* (UpdateInvoiceState, whose UPDATE then matches no row).
LedgerOwesWhatTrackerSays ==
  \A d \in Invoices \ stale :
    ar[d] - Received(Posted(d)) = IF Issued(d) THEN inv[d].total - Paid(d) ELSE 0

\* A sale's stock is out, with its cost entry, exactly while it is issued,
\* and it is out once (needsInvoiceStockPresence), however its state changes
\* overlap; with the same exception.
StockFollowsSale ==
  \A s \in Sales \ stale :
    /\ moved[s] = IF Issued(s) THEN -inv[s].units ELSE 0
    /\ s \in cogs <=> moved[s] # 0

\* A deleted sale leaves no receivable, no stock out and no cost entry behind:
\* what DeleteInvoice looks again for, so that no entry is left "that the
\* delete would then orphan". Not so for a state change that writes after it.
DeletedSalesLeaveNothing ==
  \A s \in Sales : inv[s].state = "gone" => ar[s] = 0 /\ moved[s] = 0 /\ s \notin cogs

\* No line is ever collected beyond its share of the invoice, and the lines,
\* where there are any, account for every cent (allocateInvoiceLines,
\* CreateCashSalePayment).
LinesNeverOvercollected ==
  \A d \in Invoices : Issued(d) =>
    /\ \A k \in DOMAIN inv[d].lines : LinesPaid(d)[k] \in 0..inv[d].lines[k]
    /\ inv[d].lines # <<>> => Total(LinesPaid(d), DOMAIN inv[d].lines) = Paid(d)

\* A loan of the paper register stands at most once, whatever files are
\* imported at the same time (applyOpeningLoanTx).
BroughtForwardOnce ==
  \A r \in Refs : Cardinality({b \in Batches : Stands(<<r, b>>)}) <= 1

\* Undoing an import removes no customer that a document still needs or that
\* the ledger names (UndoLoanImportBatch).
NothingLosesItsCustomer ==
  /\ \A d \in Invoices : Stands(d) => \E row \in clients : row.id = inv[d].client
  /\ \A id \in booked : \E row \in clients : row.id = id

\* A payment that names a line leaves what every other line owes alone, to the
\* cent (the comment on allocateInvoiceLines).
OtherLinesUntouched ==
  [][\A d \in Invoices :
       Len(pays') = Len(pays) + 1 /\ Issued(d) /\ pays'[Len(pays')].doc = d =>
         \A k \in DOMAIN inv[d].lines :
           pays'[Len(pays')].line \notin {0, k} => Outstanding(d, k)' = Outstanding(d, k)]_cashVars
=============================================================================
