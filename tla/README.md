# FaturaCloud: specifications and proofs

FaturaCloud is an invoicing, stock and accounting server. One Go process
(`src/main.go`) serves a JSON API (`src/api`) and a compiled TypeScript client
over one SQLite file, and everything that changes data is a method of
`db.Database` (`src/db`). This directory holds TLA+ modules for the parts of it
that are hard to get right by testing, the TLC configurations that check them
on small instances, and TLAPS proofs that cover every instance.

Paths below are relative to `src/`.

## 1. Inventory

### How the program runs, and what may interleave

`db/db.go` opens the file with `SetMaxOpenConns(1)` for writing (line 58) and a
`query_only` pool beside it (line 79). A transaction is therefore atomic and
transactions are serial; a statement outside one is atomic too. HTTP requests
run concurrently, and a typical handler

1. reads what it needs through `d.DB`, each read on its own,
2. checks what it read, builds journal lines and movement rows from it,
3. runs one transaction, which reads some of it again and writes.

So what goes wrong in the business logic is of one kind: what was read in 1 is
no longer so in 3. The comments call these places F48, F49, F50, F103, F191 and
repair them by reading again through the transaction; the question the models
ask is whether what is read again is *enough*.

Around that, the process has one read-write lock on the database handle
(`dbMu`). Every handler holds it for reading while it uses the handle; restoring
a backup holds it for writing, because it closes the handle, removes the write-ahead
log, copies a file over the database and opens it again. The backup
loop, the pruning of the audit log and of the rate limiter are goroutines of
`api/background.go`; shutdown cancels them and waits. Here the questions are
different: what survives a crash between two steps, and does everything that
waits get to go on.

### Components

About 31,000 lines of `db/` and 8,100 of `api/` are Go that is not tests; the
TypeScript client (`src/src/`) is larger and holds no state the server relies on.

| component | state | operations | what makes it correct | here |
|---|---|---|---|---|
| General ledger (`journal_entry`, `gl_posting`, `fiscal_period`, `fiscal_year_closing`) | entries and lines, years, periods | draft, post, delete, reverse; automatic posting and reversal; create and close years and periods; retire accounts | a book only added to, gapless, one live entry per document, a closed year final and carried to equity | `Ledger`, `Journal`, `LedgerJournal` |
| Reports and exports (`gl_reports`, `export_fec`, `export_datev`) | none: sums over lines | read | they agree with each other and with the close | `Reports` |
| Invoices, bills, payments (`invoice`, `incoming_invoice`, `payment`, `payment_state`) | documents, payments and applications | create, edit, change state, delete, pay, void | payments stand on a posted receivable; paid follows the balance; a posted figure is frozen; no over-payment | `Settlement` |
| Posting arithmetic and costing (`gl_posting`, `invoice_totals`, `exchange_rate`, `import`, `product_cost`, `bom_summary`) | none | compute lines, roundings, averages | entries balance to the cent, shares are fair, goods are carried at cost | `Cents`, `Postings` |
| Purchasing (`purchase_order`, `purchase_order_freeze`, `inbound_delivery`, `incoming_invoice_match`) | orders, receipts, bills, the GRNI account | order, receive, bill, re-line, match, approve, cancel, delete | received terms are frozen, goods are billed once, GRNI is what is received and not billed | `Purchasing` |
| Stock (`delivery`, `inbound_delivery`, `stock`, `serial_number`) | documents, movement rows; quantities and unit states are computed from rows | create, edit, issue, deliver, cancel, delete; manual movements | goods move once each way, cancelling nets to zero, entries follow the goods | `Stock` |
| Products, recipes, production, orders (`product`, `product_bom`, `production_order`, `order`) | products, recipes and versions, builds, orders | edit, save, restore, complete, cancel, ship, advance | builds move goods once, the recipe in force is on record, orders take legal steps | `Catalog` |
| Cash book (`cash_sale`, `cash_sale_payment`, `invoice_stock`, `dashboard`) | sales, payments by line | sell, collect, void, change state | lines, ledger and stock agree | `CashBook`, `LoanLines` |
| Loans brought forward (`opening_loan`, `loan_import`) | loans, import batches, customers made by them | plan, import, undo | a loan stands once, nothing loses its customer | `CashBook` |
| Backup, restore, shutdown (`api/utility`, `api/background`, `main`) | the files, the handle, the lock | change, back up, restore, stop, crash, start | what was acknowledged is kept and served, everything ends | `Server` |
| Roles, organizations, sessions (`api/users`, `api/auth`, `api/oidc`, `api/middleware`, `api/sections`, `api/router`, `db/organization_user`) | users, members, tokens | sign in and out, renew, change, remove | an ended session stays ended, an admin remains, menu and gates agree | `Access` |
| Chart of accounts, defaults, organizations (`account`, `organization`, `reset`, the seeding `main` starts with) | accounts and their headers, the accounts an organization names as defaults | create, edit, delete, post to; create, edit, reset and delete an organization; seed and backfill at every start | references stay within the organization, posted accounts keep their class, a start fills what is missing and overwrites nothing | `Chart` |
| Document numbers (`document_number`, `document_number_unique`, `invoice_number`) | a counter and a format for each kind of document | assign, type, rename, delete, change settings, reset | no number stands twice; none is given again by mistake | `Numbers` |
| Cash movements, clients and vendors, taxes, mass import, dashboards, e-invoices, audit log, web client | | | | not modelled, section 7 |

### How they interact

* Documents call the ledger inside their own transaction: `postAutoEntryTx` and
  `reverseEntryTx` take the caller's `tx`. A document and its entry commit
  together or not at all; a refusal (no open year, a retired account, lines that do
  not balance) rolls back the document too.
* The ledger knows documents by `(sourceDocumentType, sourceDocumentId)` alone;
  `findPostedEntryForSourceDocument` is how a document asks whether it is posted.
  `Ledger` therefore has anonymous documents, and the modules of documents keep
  of the ledger only which entry of theirs is live.
* Deliveries advance orders; receipts advance purchase orders and accrue GRNI,
  which bills clear; the match of a bill reads receipts and other bills.
  `Purchasing` computes the match that `Settlement` takes as a Boolean.
* Stock documents, production orders and cash sales share only movement rows;
  `products.stockQuantity` is a recomputed sum, a unit's state its latest row.
* Everything above runs under the lock and the membership checks of the API;
  `Server` and `Access` model those with the data behind them abstracted away.
* A document posts to the accounts its organization names as defaults. `Chart` has those
  accounts and names, and of entries only which accounts they touch; in `Ledger` and
  `Postings` the accounts are given.

### Hard behaviours

`PROJECT.json` lists each at its line. The families are: figures read before a
transaction and used in it; the same request sent twice; a delete or edit
crossing a state change; documents that were legal when saved and are used
later; numbers derived by `MAX + 1`; sums whose parts are rounded one by one;
checks per line that should have been per sum; lists kept by hand in two
languages; a crash in the middle of a file swap, or between two statements of a
start; a lock taken twice.

## 2. Plan

Each module takes its sizes as CONSTANTS under a named assumption, has one
action per handler or step of it, and declares no RECURSIVE operator
(`LoanLines` and the import's plan in `CashBook` use recursive functions), so that it can be proved about as it
stands. The order was by consequence: the ledger and what it promises; documents
and payments; stock; their proofs; the abstract journal and its refinement,
proved; the process around the database; purchasing; the posting arithmetic;
access; the cash book; recipes, production and orders; reports; the proofs of
access and of the process; document numbers; the proofs of the catalog, of purchasing, of
stock one request at a time, of payments, of the reports, of the cash book, of the
posting arithmetic and of the split over lines; the chart of accounts and its proofs; that
retiring an account strands nothing.

What is left, in order:

1. A composition of `Settlement` and `Purchasing`, where the Boolean match of the
   first is the second's, with payments of bills.
2. Imports as records, with their edits against receipts in flight.

## 3. Modules

| module | models | state ↔ code |
|---|---|---|
| `Ledger` | the general ledger of one organization | `entries` ↔ `journal_entries` and `journal_lines`; `years`, `periods` ↔ the status columns; `inactive` ↔ `accounts.isActive = 0` |
| `Journal` | what the ledger promises: an append-only book | `book`, `year`; no code of its own, it states what the handlers add up to |
| `LedgerJournal` | `Ledger` implements `Journal` | `Book` is the refinement mapping |
| `Reports` | the accounting reports and exports, as operators over `Ledger`'s state | |
| `Settlement` | invoices, bills, payments | `docs` ↔ `invoices`, `incoming_invoices`; `entry` ↔ the total the live entry was posted with; `payments` ↔ `payments` with `payment_applications` |
| `Stock` | deliveries, receipts, manual movements, serial units | `docs` ↔ `outbound_deliveries`, `inbound_deliveries`; `rows` ↔ `stockMovements`; `entry` ↔ sources with a live entry |
| `Purchasing` | purchase orders, receipts and bills of their lines, GRNI | `order`, `receipt`, `bill` ↔ the tables with their line; `stale` ↔ a request wrote what it would no longer read |
| `Cents`, `Postings` | rounding and conversion; the lines of every automatic entry, averages, landed cost, recipes | `doc`, `posting`: one document and its entry, made in one step |
| `CashBook`, `LoanLines` | cash sales, collections, loans brought forward; the split over lines | `inv`, `pays`, `clients` ↔ the tables; `ar`, `cogs` ↔ live entries; `moved` ↔ a sale's net movements; `booked` ↔ clients named by journal lines |
| `Catalog` | products, recipes and their history, production orders, customer orders and their deliveries | `product`, `recipe`, `versions`, `build`, `order`, `delivery` ↔ the tables; `trail`, `net` ↔ movement rows |
| `Server` | lock, handle, files, backups, restore, shutdown, crash | `lock` ↔ `dbMu`; `handle` ↔ `h.db`; `disk` ↔ database, log and safety copy; `snaps` ↔ the backups directory; `pc` ↔ where each request is |
| `Access` | users, sessions, members, gates and menus | `users`, `members`, `live` ↔ the tables; `tokens` ↔ cookies browsers hold; `clock` in periods of `tokenRenewAfter` |
| `Numbers` | assigned, typed and changed document numbers, the unique indexes, both settings pages | `number` ↔ the number columns; `counter`, `format` ↔ `document_number_settings`, or the columns of `organizations` for invoices; `issued`, `reissued`: history, what the code does not keep |
| `Chart` | accounts, default accounts, resets, what a start seeds | `account` ↔ `accounts`; `column`, `methods` ↔ columns of `organizations`; `drafted`, `posted` ↔ accounts with `journal_lines`; `editing` ↔ what a request has checked and not written; `startup` ↔ where `main.go` is in its seeding |
| `Sums` | the sum of a function over a finite set, as SQL's `SUM` takes it | |
| `MC*` | instances for TLC | |
| `*Proofs` | theorems: `Ledger` (with `Journal` and `Reports`), `Settlement` (with `Postings`), `Stock`, `Purchasing`, `Catalog` (with `Chart`); `Server` (with `Access`), `Counter` (`CashBook` and `Numbers`); and `Sums`, the lemmas on sums all of them cite | |

One convention runs through all of them. A handler whose transaction reads again
all it depends on is a single action. A handler that carries something from
before its transaction into it is two: a read, which parks what was learned in
`req[c]` (`held[c]` in `CashBook`, `editing[e]` in `Chart`), and a write, which resumes from it and whose guards are *only*
what the transaction looks at again. `Fail(c)` lets a parked handler end without
writing, as a rolled-back transaction, an SQL error or a stopped process would.
Definitions commented "Mutant of" are not part of any model: each is a
plausible bug in the definition that follows it, and a property is kept only if
such a bug violates it.

**Ledger.** An entry's lines are the net movement on five kinds of account, the
ones the rules tell apart: `asset`, `revenue` and `expense` (which a close zeroes),
`retained` and `header` (on which nothing may be posted). Dates are days of a
small calendar; `YearSpan` and `PeriodSpan` say which days a year or period has.
`ResolvedFor` is `resolveFiscalPeriodForDateOpts`; `Finalizable` and `Finalized`
are `allocateAndFinalizeEntryTx`; `PostAutoEntry` and `ReverseEntry` are what
document handlers call, and `PostDocument` and `ReverseDocumentRead`/`Write` stand
for any such handler. Amounts are bounded by `MaxMoney`; a closing sum that
does not fit makes the close fail, as SQLite's `SUM` does.

**Journal.** The promise, in two actions: an entry is entered, balanced, numbered
next, in an open year, for a document that has none standing; an entry that stands
is corrected by entering its mirror. Beside that, years open once and close once.
Drafts, requests in flight, periods, retired accounts and the order in which
handlers look at things are not in it. `Book` maps drafts and deleted drafts to
blanks. `KeepsTheBook` is its specification.

**Reports.** The sums of `gl_reports.go` by year and by date, the day by day rows
with their carried balance, the rows of the FEC and the bookings of DATEV with
the account each books against. `ReportsAgree` ties them to each other and to the
closing entry.

**Settlement.** A document has a state, a total and, if a bill, whether its 3-way
match is `clear`. `UpdateStateRead` applies the match gate and the payments guard
and parks the total; `UpdateStateWrite` looks again at the live entry and the
payments, posts or reverses, and writes the state, to no row at all if the document
has been deleted. `CreatePaymentRead` parks the totals it compared with;
`CreatePaymentWrite` looks again at state, entry and payments, and moves a document
it settles to `paid`. `VoidPayment` reopens the documents it no longer covers. An
invoice's `sent` and a bill's `approved` are both `Open(d)`.

**Stock.** One bulk product counted in quantities and one serialized product made
of `Units`. A document's lines are the total of its bulk lines, the largest of
them (the code compares line by line) and the number of units it asks for.
`at` stands for rowid order. `AtOnce` makes a one-transaction handler a request
too, so that with one client requests run strictly one after another.

**Purchasing.** Documents have one line. An order's line keeps an id through edits
or gets a new one when its terms change (`reconcileLineItemIDs`), and the freeze
refuses that once goods are received. `Match` is `GetIncomingInvoiceMatch` and
`Summary` the batched version of the list; `Accrual`, `ClearedQty`, `AccruedCents`
and `Clearing` are the GRNI side. `stale` records that a request has written
what it would no longer read; properties that such a request breaks are
stated up to it, and the rest are stated outright. A bill may override the variance it is
told of (`Overrides`), and may be created in a later state than draft (`CreatedAs`);
`MatchedQty` counts what is billed by bills that override nothing. `CostsAgree` says
that the receipts of a line agree on its cost.

**Postings.** Quantities in tenths, prices in cents, rates as fractions; a value is
rounded where the code rounds and exact elsewhere. Operators keep the names of the
code's functions. A document is chosen and posted in one step, so TLC's work is to
enumerate documents. `PostingsAssumption` says what a document of each kind is: amounts and
rates that the handlers let through, and accounts that are not those of a leg of its own.
`EntryOf` is defined for any of them, of any length.

**CashBook.** A sale, its receivable, payments that name a line or the invoice,
state changes that take stock out and put it back with the plan they made
before their transaction, the import of a register in a plan step and a commit
step, its undo, and customers matched by name, CIN and phone. A deleted row is not
seen (`Stands`), but a state change that read it still carries its data (`Gone`), and its
write looks at the entry, the payments and the movements and not at the row:
`RestateSale` then changes no row, and what was planned is posted. `stale` is history:
the sales such a write was about.

**Catalog.** Saves and restores of a recipe compare with the latest version before
they record a new one; completing and cancelling a production order plan goods and
units before the transaction; serial tracking can be switched in between; orders are
moved by hand and by their deliveries.

**Server.** A version of the data stands for what a file holds; a log built on one
version and read over another gives garbage. A restore is six steps and its
rollback two, in the order of `api/utility.go`, each may fail where the code can, and
the process can crash between any two.
The lock is Go's `sync.RWMutex`: a waiting writer announces itself, and readers
that come later wait behind it.

**Access.** Authentication and a handler's reads are one step, its transaction
another. `sectionRoles`, the route groups of `router.go` and `ROLE_MENU` of the
client are three tables, as in the code.

**Numbers.** One kind of document at a time: `kind` says whether its numbering is that of
invoices (`invoice_number.go`, counter on the organization, settings page that sends every
field) or that of the other five (`document_number.go`, counter in a table, page that leaves
an untouched counter out). `FirstFree` is the search from the counter, `IndexAllows` the
unique indexes of migrations 0106 and 0108. Updates of the five kinds compare with the number
they read before their transaction, so renaming is two steps; for invoices it is one. A
number typed by hand does not count as assigned, and a counter set to another value than was
shown starts the count anew from there, which is what whoever sets it asks for.

**Chart.** Creating an account, deleting one and posting to one are single steps: what they
check, the statement, the unique index on codes or a foreign key checks again. Editing an
account or an organization checks first and writes blindly, so each is a read and a write.
Posting to an account appears only as the line it leaves (`DraftLine`, `PostDraft`,
`PostLine`); several drafts on one account count as one, and ids are never given twice.
A start of the server runs its statements one by one: pass 0 makes a chart where
there is none (`Charted` is the same in one transaction, for a new organization), pass k adds the
rows of `Backfills[k]` and wires the columns still unset. `Halt` may come between any two. A backfilled
row goes under the earliest header of its type; headers made in one millisecond are equally
early, so any of them. `InUse` has the two kinds of reference `Chart` has, journal lines and
defaults. The parent of an account is checked to be neither itself nor another organization's and
nothing more, as in the code, which lets two accounts be each other's parent. An SQL error that ends a pass is logged and the start goes on with the next
(`main.go:115`); that is left out, a crash is not.

## 4. Runs

| run | instance | checks |
|---|---|---|
| `ledger_entries` | 4 entries, 2 consecutive years, 1 period, 1 document, 2 clients, an account to retire | `KeepsTheBook` (the refinement), `GaplessNumbers`, `ReportsAgree`, `DeactivationStrandsNothing`, `ClosedYearsStaySealed` |
| `settlement_invoices` | 1 invoice, 1 bill, 3 payments, 2 clients, totals to 2 | `PaymentsBacked`, `PaidTracksBalance`, `OverpaidOnlyByStaleTotal` |
| `stock_races` | 1 delivery, 1 receipt, 1 manual movement, 1 unit, 2 clients | `EntryFollowsStatus`, `MovesOnce` |
| `stock_alone` | the same with 1 client, quantities to 2 and mixed lines | `CancelledNetsToZero`, `BooksFollowGoods` |
| `server_restore` | 2 requests (changes, restores of a backup or of a file that does not open, single sign-on, the backup loop), 1 crash, 2 versions | `AcknowledgedHeld`, `ServesAcknowledged`, `RequestsEnd` (liveness) |
| `purchasing_races` | 1 order with two line ids, 1 receipt, 2 bills, 2 clients | `ReceivedTermsFrozen`, `GrniIsUnbilledGoods`, `BilledOnce`, `SummariesMatchPerInvoice`, `BilledGoodsStayReceived` |
| `postings_entries` | 580,000 documents of up to two lines, every kind | `EntryIsSound`, `SharesFair`, `GainsAreRateDifferences`, `GoodsAtCost` |
| `access_roles` | 2 users, 1 organization, 6 roles, 2 requests, 2 tokens, 7 periods | `RevokedStaysRevoked`, `ServesItsMenu`, `AdminsRemain` |
| `cashbook_counter` | 1 sale of 2 lines, 2 loans of one family, 2 imports, 2 payments, 2 cashiers | `LedgerOwesWhatTrackerSays`, `StockFollowsSale`, `LinesNeverOvercollected`, `BroughtForwardOnce`, `NothingLosesItsCustomer` |
| `catalog_shop` | 1 product of 2 parts, 1 unit, 2 production orders, 1 order of 2 lines with 2 deliveries, 2 clerks | `BuildsMoveGoodsOnce`, `UnitsExistOnce`, `RecipeOnRecord`, `OrdersFollowTheirPath` |
| `numbers_unique` | 2 documents, 2 clerks or open pages, a counter to 3, a format with and one without `{number}`, each numbering | `UniqueNumbers`, `NeverReissued` |
| `chart_accounts` | 2 organizations, 2 editors, a chart of 1 row, a backfill of 2, 4 accounts | `ReferencesStayHome`, `StartupFills` |

Every property of a passing run is violated when one definition of the model is
replaced by its mutant.

**Why these bounds.** Every race in this code is between two requests over one
document, year, user or file, so two requests in flight suffice; the third payment,
the second bill, the second import and the second production order are what one
more competitor needs to see the result. Four entries are a posting, its reversal, a
closing entry and one more to compete with any of them; two years let a
reversal land in a later year than its original. Quantities up to 2 let two
lines of 1 differ from one line of 2. In `purchasing_races` goods are received at
three times the order's price, so that GRNI holds amounts the order does not name.
In `postings_entries` the prices, rates and discounts are those whose divisions
leave remainders: thirds, 29/10, 33 cents, tenths of a unit. In `numbers_unique` a search gives
up after two taken numbers (1000 in the code), and a counter of 3 is enough for a number to be
typed ahead, skipped, freed and met again. In `chart_accounts` two rows of a
backfill let one be there and the other not, and beside them and the chart's there is room for an
account that takes the code of one.

**What is left out of an instance.** Where a module's parts multiply without
meeting, a constraint looks at them in turn. Each is a definition of the MC module:

* `MCLedger!Focus`: entries start once the years exist; retired accounts, the period,
  and an entry with two accounts on either side are looked at with at most two
  entries in being; a draft that must not be posted is looked at alone.
* `MCSettlement!Focus`: the bill is looked at with totals of one cent, one request
  in flight and two payments, the invoice without it in full.
* `MCPurchasing!Fresh`: exploration ends where a request has written what it would
  no longer read. What comes of such a write is in section 5.
* `MCAccess!Focus`: sessions with one user and no organization; the roles other
  than admin and general while no request is in flight.
* `MCCashBook!Focus`: two at a time of sale and import batches; one payment when a
  batch is there; the two-step state change without batches.
* `MCCatalog!Focus`: recipes and their history, production with goods moving, and an
  order with its deliveries, one at a time; a unit moves three times, once by hand. An
  order is created with both lines and edited to any (`NewLines`).
* `MCChart!Focus`: the starts with one organization and no entries, its codes edited and its
  defaults; two organizations once the server serves, with an edit of an account's parent and
  one of a default in flight and one account with lines. No headers, cash only: these are in
  `MCChart_alone`, a configuration beside the runs (section 5).

**Deadlock** is checked in `ledger_entries`, `purchasing_races` and `chart_accounts`. The other
configurations say `CHECK_DEADLOCK FALSE`: ids are not reused, so once every document,
payment or token is used nothing is left to do; a server whose file does not
open stays down; a posted document is the end of `Postings`.

**Fairness.** Only `Server` states it, because only there is something promised to
happen. Every step of a request in flight is weakly fair: a goroutine that can run
is run. Announcing as a writer is strongly fair: `sync.RWMutex` hands the lock over
and starves no writer. Arrivals, the backup loop, retention, stopping, starting and
crashing are not fair, so `RequestsEnd` does not lean on the process being
restarted. Everything else is safety.

**Symmetry** is used for clients, organizations, ids of documents, payments, movements, units and
the like, which are interchangeable; `server_restore`, which checks liveness, uses
none.

`TypeOK` of every module, and `ReversalsPair`, `OneLiveEntry`, `EntryWithinItsYear`,
`PostedNeverChanges`, `ClosedPeriodsAdmitOnlyDrafts`, `EntryOnlyWhenIssued`,
`PostedFiguresFrozen`, `SessionsEnd` and `StartupKeepsChoices`, are not in a run. The last nine
are proved, and so are the types of `Ledger`, `Settlement`, `Stock`, `Purchasing`, `CashBook`,
`Access` and `Chart` (section 6).

## 5. What the runs show

Most of what the code and its comments promise holds, with requests interleaved at
will. The ledger implements an append-only book. Every report and export agrees with
every other, whatever was reversed and in whichever year. Restores keep what was
acknowledged through a crash at any step, and no request waits for ever. Sessions that
ended stay ended; menus and gates agree for every role. Goods received are billed once
and the list of bills says what each bill's page says. Entries balance to the document's
total whatever is rounded. Accounts, headers and defaults stay within their organization,
and a start that gets through has filled every default it found a free code for, wherever the
one before it crashed.

No two documents of a kind carry one number; that takes the unique index, because the check in
front of it compares with a number read earlier.

Some statements of the repository are written as properties that TLC refutes. They
are kept with a configuration of their own where one is needed, so that a change of
the code can be tried against them; "with the property" means the configuration with that property
in place of its own:

| property | configuration | what TLC finds | what is said |
|---|---|---|---|
| `Settlement!EntryDescribesDocument` | `MCSettlement_stale_entry` | an edit commits between a state change's reads and its transaction; the entry is built from the old figures | `CHANGELOG.md:78`: refused "even when a state change posts its entry at the same moment", which holds for the edit that comes second and not for the one in between |
| `Settlement!VarianceNeverPosted` | `MCSettlement_variance` | a bill created as approved never met the match gate, and paying it skips the gate | `db/incoming_invoice.go:540-542` |
| `Stock!ShipsWhatIsOnHand` | `MCStock_oversold` | each line is compared with what is on hand by itself: two lines of one product together ship more than there is | `db/delivery.go:407-411` says shipping rejects that |
| `Stock!ReceiptMovesItsLines` | `MCStock_receipt_edit` | a receipt's lines are replaced as it is received | `db/inbound_delivery.go:483-487` |
| `Purchasing!VendorBillsClearGrni` | `MCPurchasing_clearing` | receipts of one line at two costs, each bill clearing at the average of what was received when it was posted: a residue stays | `CHANGELOG.md:1966-1968` |
| `Server!ServesAcknowledged` | `MCServer_rollback` | an upload whose migration fails half way leaves a log; the rollback copies the safety file beside it | `CHANGELOG.md:2535`: "rolls back to the pre-restore safety backup on failure" |
| `Postings!TotalsAreDefined` | `MCPostings_free` | a taxed document of free goods only: the discount, whatever it is, is divided by a subtotal of zero | `db/invoice_totals.go:141` |
| `Access!AnAdminRemains` | `MCAccess_roles` with the property | two requests that each saw the other's admin remove both | `api/users.go:261,359` |
| `CashBook!StockFollowsSale` | `MCCashBook_gift` | a sale of a gift has no receivable and so does not keep its customer; deleting the customer deletes the sale and leaves its stock out | `db/client.go:205-209` |
| `CashBook!DeletedSalesLeaveNothing` | `MCCashBook_counter` with the property | a state change has read the sale, the sale is deleted, and the write, whose `UPDATE` matches no row (`db/invoice.go:781-814`), leaves its receivable, stock out and cost entry | `db/invoice.go:864-868`: `DeleteInvoice` looks again lest a state change be "posting a GL entry that the delete would then orphan" |
| `CashBook!OtherLinesUntouched` | `MCCashBook_lines` | the invoice's own payments are spread afresh whenever a line is paid, and what no longer fits a line moves on with its left-over cents | `db/dashboard.go:455-456`: paying one line leaves "every other line's balance untouched, to the cent" |
| `Numbers!InvoiceNumbersNeverReused` | `MCNumbers_unique` with the property | the page of the invoice settings is opened, an invoice is numbered and deleted, the page is saved with the counter it was opened with (`src/routes/settings/invoice.tsx:183`, `db/organization.go:746`): the number is given again. The page of the other documents was changed to leave the counter out | `db/invoice_number.go:9-11`: "never reused within an organization" |
| `Numbers!PreviewNeverFalls` | `MCNumbers_unique` with the property | a number typed ahead is skipped by the preview until its document is deleted | `db/document_number.go:274-276`: "monotonically increasing even across edits/deletes" |
| `Catalog!CancelledBuildsNetToZero` | `MCCatalog_shop` with the property | serial tracking switched on after completion: nothing to take back is found, and the order is cancelled all the same | `db/production_order.go:636-638` |
| `Chart!StartupConfigures` | `MCChart_accounts` with the property | a backfill skips a row whose code is taken and then has no account to wire. Taken by an account made by hand, or by the very account of a start that stopped before wiring (`db/account.go:614`): no later start fills the default | `db/gl_posting.go:1281-1286`: unset is "only reachable by deliberately clearing the field and not restarting" |
| `Chart!HeadersCarryNothing` | `MCChart_alone` with two editors | an account is posted to after an edit found it unused and before the edit makes it a header; `HistoryKeepsItsClass` fails the same way | `db/account.go:32`: headers are "never postable" |
| `Chart!BankIsNotTheRegister` | `MCChart_alone` with two editors | one edit sets the bank and another the register, each checked against the columns before the other | `db/organization.go:705-708`: "a selection that passes validation now can't leave the organization unable to take card/transfer money" |
| `Catalog!CancelledOrdersDontShip` | `MCCatalog_shop` with the property | the order is cancelled between a delivery's look at it and its shipping | `db/delivery.go:188` |

Two administrators can also create overlapping years: `CreateFiscalYear` looks for an
overlap and inserts in two statements (`db/fiscal_period.go:97,110`). The close of one year
then resolves its closing entry by date and may post it into the other, and the closed
year keeps its income (`db/fiscal_year_closing.go:37-43`). `ReportsAgree` is therefore
claimed of years that do not overlap (`YearsApart`); the rest of what is proved of the ledger
holds for any.

The models also take steps that the code takes and that no property forbids,
because nothing in the repository says otherwise or because the consequence is better
stated than asserted:

* *Ledger.* A draft keeps the year it was saved with, and posting looks at the year and
  not at the period: `ClosedPeriodsAdmitOnlyDrafts` says this is the only way into a
  closed period. A period may be set open by a request that read its year before the year
  closed; `ClosedYearsStaySealed` shows that nothing can be posted into it.
* *Settlement.* A document deleted between a state change's reads and its transaction
  leaves an entry of no document. A payment computed from a total that was edited
  meanwhile can settle more than the document is for; `OverpaidOnlyByStaleTotal` says
  it is the only way. An invoice created as sent has no entry until its state is set
  once more, and cannot be paid until then.
* *Stock.* Two deliveries, or a delivery and a manual outflow, that saw the same goods or
  the same unit both take them. A cancelled document can be deleted, and then each of its
  movement rows by itself. Lines edited between the reads of shipping and its
  transaction are not what is undone on cancelling: `CancelledNetsToZero` and
  `BooksFollowGoods` are claimed of requests one at a time.
* *Purchasing.* `UpdateIncomingInvoiceState` looks again for the posted entry and for
  nothing else, so two bills matched at once can both be approved; `BilledOnce` and
  `GrniIsUnbilledGoods` hold until a request writes what it would no longer read. A bill
  created in a later state bypasses the gate. A bill with two lines on one order line can
  bill it twice (documents have one line here).
* *Postings.* A total that converts to no cent at all gives a leg the table's CHECK
  refuses, and the document cannot be posted. Nor can one with so many accounts whose shares
  are smaller than a cent that rounding them up leaves the largest less than nothing
  (`Overdrawn`; `Splinters` of `MCPostings` has four lines of half a cent): the invoice is
  valid and its entry has a negative leg.
* *Catalog.* A save that finds nothing changed is compared with a version that may no
  longer be the latest; it then writes the recipe without recording it, to a version on
  record. Serial tracking may be switched between a production order's look at its units and
  its transaction. A component may be recategorised while recipes use it.
* *CashBook.* Two imports that race can each create the same new customer. Customers
  are matched by the data that identify them; how names are folded is left out. A sale
  deleted between a state change's reads and its transaction leaves what the change posts
  (`DeletedSalesLeaveNothing`): `LedgerOwesWhatTrackerSays` and `StockFollowsSale` are claimed
  of every document but the sales of which that is so (`stale`).
* *Access.* The creator of an organization becomes its admin in a statement of its own,
  after the organization exists. The cash book's role sees clients and may not write them;
  `ServesItsMenu` names that exception.
* *Chart.* `HistoryKeepsItsClass`, `HeadersCarryNothing` and `BankIsNotTheRegister` are
  claimed of requests one at a time, and `MCChart_alone` checks them so, with one editor. Two
  accounts may each become the other's parent. A header that a start is to put its accounts
  under may be edited away; they are then made without one. A reset of all master data leaves
  an organization without a chart until the next start.
* *Server.* After a crash between truncating and copying, the main file is empty and a
  start takes it for a fresh installation. The acknowledged data are still in the safety
  copy (`AcknowledgedHeld`), which nothing reads at a start; the next restore replaces it.

## 6. Proofs

Every theorem holds for any values of the constants that satisfy the assumption its module
names. Five are narrower, and say so in their statement: `OneAtATime`, `YearsApart`, `NoGifts`,
`OneEditor` and the conditions on bills of `Purchasing`; the runs and section 5 show what happens without
them. The Server theorems assume one thing of uploads, stated below. The form is always the
same: an inductive invariant `IInv`, `Init => IInv`, `IInv /\ [Next]_vars => IInv'` with a
lemma per kind of step, and the properties as consequences.

**Sums** (`SumsProofs`). Balances, quantities and GRNI are sums over sets of rows. The
lemmas say what a sum becomes when a member is added, removed or changed, when members are
grouped or renamed, and when all are zero. `MapThenSumSet` is recursive and induction theorems
that take a formula as a parameter cannot be instantiated here, so each lemma is proved by looking at a
smallest set for which it fails (`Smallest`, from the well-foundedness of inclusion on finite
sets), the existence of the recursive function included (`SumsExist`).

**Ledger** (`LedgerProofs`). `IInv` is `TypeOK`, `EntryWithinItsYear`, `OneLiveEntry`,
`ReversalsPair` and three strengthenings. `UnrecordedIsBlank`: a draft or deleted entry has
no number, document or original, so it can be dropped without leaving a gap or orphaning
a mirror. `NumbersAreInterval`: the numbers of a year's journal are exactly 1..n;
`GaplessNumbers` speaks of each entry on its own and is not inductive, because that the
next number is n + 1 needs one n for all. `ClosingMeansClosed`: a year with a live closing
entry is closed, so a second close, which finds the year open in its transaction, has none.
From `IInv` follow `LedgerGapless`, `LedgerReversalsPair`, `LedgerOneLiveEntry`,
`LedgerWithinYear` and, as action properties, `LedgerImmutable`, `LedgerYearsSealed` and
`LedgerPeriodsAdmit`, which goes through every action that records an entry.
That holds with any number of overlapping years, however they came to overlap.
`LedgerStrandsNothing` is `Spec => []DeactivationStrandsNothing`: whatever accounts are retired,
a standing entry can be reversed on any day open for posting and an open year closed. It is
stated by what the handlers ask of the books (`ReversalAdmitted`, `ClosingAdmitted`) and not by
`ENABLED`, and needs beside `IInv` that recorded entries balance (`RecordedBalances`), so that a mirror and a closing
entry built from them do, that they are finitely many, and that the last day of an open year lies in an open year,
whichever of the overlapping ones the closing entry finds.

**The refinement** (also in `LedgerProofs`). `LedgerImplementsJournal` is
`Spec => KeepsTheBook`: every behaviour of the handlers is one of `Journal` under
`Book`. The proof takes each action of `Ledger` to an action of `Journal` or a stutter:
creating and deleting drafts, requests parked or failed, periods and accounts are
stutters, because `Book` blanks what is not recorded; posting a draft, a document's entry
and a closing entry are `Enter`; a reversal is `Correct`; years opening and closing are
`Calendar`. `IInv` supplies what the handlers do not look at: that the number
after the largest continues an interval, and that a closing year has no closing entry.

**Reports** (in `LedgerProofs`). `LedgerReportsAgree` is `YearsApart => (Spec => []ReportsAgree)`:
for years that do not overlap, the trial balance, the statements, the day by day rows, the
exports and the close agree on every account. `RInv` is what the sums need of the ledger: recorded
entries balance and none touches a header account; a closing entry stands, in the year it
closes, because reversals under way are of documents' entries only; what is recorded is finite; and
income sums to nothing in a closed year. The last is where `YearsApart` is used: the close writes
into the year it finds by date. Both recursions of the reports, over entries and over days, are met by the lemmas on sums.

**Settlement** (`SettlementProofs`). `IInv` is `TypeOK`, `PaymentsBacked`,
`EntryOnlyWhenIssued` and `AbsentUntouched`: a document not yet created has no entry and
nobody has read it, so a creation never meets an entry. The argument shows exactly which
second looks matter: `UpdateStateWrite` needs the payments and the entry again,
`CreatePaymentWrite` the state and the entry; neither needs the total, which is why
over-payment by a stale total is not excluded. `SettlementFrozen` is the action property
that no step changes the total of a document whose entry stays live. `SettlementPaidTracks` and
`SettlementOverpaid` are about what is paid of a document, a sum over its payments: they are
finitely many (`FinitelyPaid`), and a step takes one payment in, or one out, or no total of a document with payments changes.

**Stock** (`StockProofs`). `EntryFollowsStatus` is not inductive: a cancellation decides
before its transaction whether there is an entry to reverse. `IInv` adds that parked status
changes are legal (`ParkedIsLegal`) and that one which undoes an issued document either
knows of its entry or will find another status (`ParkedUndoKnowsEntry`). For `MovesOnce`,
`RInv` adds the rows: `Moves` says that a document not yet issued has none, an issued one
those of one transaction in its direction, and a cancelled one at most two lots in order.
`NextAt` chooses the last row, which exists because the rows stay below some number
(`LastRow`, from the well-foundedness of the naturals), also when rows are deleted.
`StockCancelledNets` and `StockBooksFollow` assume `OneAtATime`, that no two requests are in flight
at once: without it neither holds (section 5). `AInv` then says that an issued document's rows are one lot of the
lines it has now, that a cancelled one's mirror each other, and that what a request read is still so.

**Purchasing** (`PurchasingProofs`). `IInv` is the types, that a line id belongs to one order
(`LinesUnique`), that no document names a line that is gone (`Linked`) and that a bill bills
something. `ReceivedLinesFrozen` goes through every action that writes an order or a receipt:
what a line offered when it was met is what it offers now. `SummariesMatch` reduces the batched
sums of the list to the single ones of the match. `BilledGoodsKept` is the action property that a
receipt of a billed line is not given back. Three theorems have hypotheses, and each is needed:
`GoodsBilledOnce` that bills are created off record (`CreatedOffRecord`), because one created as
approved meets no match (`db/incoming_invoice.go:562`); `GrniIsWhatIsUnbilled` and
`MatchingBillsClear` besides that no bill overrides its variance, which lets it bill goods that
never came, and that the receipts of a line always agree on its cost (`CostsAgree`), because a
bill clears at the average cost at that moment and a later receipt changes it: the residue
`MCPurchasing_clearing` shows. Under them, what each receipt accrued and each bill cleared is
its quantity at that cost (`GrniRight`): the average and its rounding are then exact
(`RoundedExactly`), and the sums go line by line (`TotalByClass`).

**Access** (in `ServerProofs`). `AccessIInv` has a part for each variable and one for what a parked
request had learned. `VersionCounts`: the row's version is the number of times its sessions
were ended. `TokensSound` and `ParkedSound`: a token, or a request about to issue one, holds
the version of the sign-in it goes back to, and was issued within `MaxAge` of it.
`ParkedChecked`: a change or removal under way had passed its check on the admins it saw.
`AccessRevoked` and `AccessSessionsEnd` follow from the first two. `AccessAdminsRemain`
follows from the third, action by action: a request that commits while the admins are those
it saw leaves one, and no other action takes any. The constraint that narrows TLC's
instance (`Focus` of `MCAccess`) has no part in the proof. `AccessServesItsMenu` compares the
menu, the gates and the routes role by role, for any users and organizations; that an absent
member is not a screen is its only assumption (`NoScreenAssumption`).

**Server** (`ServerProofs`). `IInv` says what each step of a restore knows. Only the holder
of the write lock is past its check (`PcInv`); from the safety copy on, that copy holds what
was acknowledged; once the database is closed, so does the main file, until the upload is
copied over it; after the copy back it does again (`SwapInv`). With nobody at that work the
process serves what opens (`ServedInv`). `ServerAcknowledgedHeld` and
`ServerServesAcknowledged` then hold with any number of clients, crashes and restores, under
one assumption: no upload is `"stuck"`, that is, fails half-way through its migrations.
`MCServer_rollback` shows why it is needed.

**Numbers** (in `CounterProofs`). `NumbersIInv` is `UniqueNumbers`, `NeverReissued` and, for every kind but
invoices, that what was assigned lies at or below the counter; the counter of invoices may fall
behind, by the settings page. A creation uses a counter beyond the one stored, so its number
is new. `UniqueNumbers` is kept by the index in `RenameWrite` whatever the check in front of it saw.

**Catalog** (`CatalogProofs`). `IInv` is `RecipeOnRecord` with three strengthenings.
`Legal`: a parked save that will record no version carries a recipe that is already on
record, and versions are only added; a parked status change is a legal one. `BuildNet`:
what the rows of a production order add up to in each status, and that while it is completed
at most one unit names it, which is why taking that unit back moves 1 or 0. `OthersRows`: no
other build's rows, and no movement by hand, make a unit of this one. `BuildsMoveGoodsOnce`
and `OrdersFollowTheirPath` follow, the second from the second look at the status in
`UpdateOrderStatusWrite` and the two transitions of `Advanced`. `CatalogUnitsExistOnce`
is about a fold over a unit's rows: each step moves a unit in if it is out and out if it is in
(`InTurn`), so the sum of its rows is 0 or 1 whatever their number. TLC looks at recipes,
production and selling apart (`Focus` of `MCCatalog`); the theorems hold with all at once.

**Chart** (in `CatalogProofs`). `ChartIInv` is the types, `ReferencesStayHome` and two more
parts. `ParkedHome`: what a parked edit names still has the owner it was checked to have or is
gone, because an id is used once and an account never changes hands; with the foreign keys'
second look this is all that two editors, a reset and a deletion at once need. `Seeding`: a
start has the tables to itself, and (`ChartUnderWay`) while it makes a chart, the accounts of
the organization are the rows made so far and its default columns are unset, so no row is
skipped and the bare assignment that wires the chart overwrites nothing.
`ChartReferencesStayHome` and `ChartKeepsChoices` follow. `ChartFills` needs `SeedingFills`:
of the passes gone through, and of the one at work for the organizations done with, each
column is set or its code taken, and of the organization at hand the rows so far have their
codes. Nothing of this assumes that a start is the first, or that the one before it got
through. The three theorems under `OneEditor` add `SoleIInv`: what the one parked edit was
checked against is still so.

**Cash book** (`CounterProofs`). `CashTypeOK` types the rows and what requests hold, the plan of
an import included, which a recursive function builds a loan at a time: that every prefix of the
plan is a plan is proved by its least counterexample. `BookIInv` has three parts. `LedgerFollows(d)`: the live entry of a
document is what was open of it when it was issued, it names its customer, and no money is posted
without it. A sale in `stale` is excepted from the first and is gone for good; the rest
holds of it as well, so `NothingLosesItsCustomer` is proved of every document. `MadeFirst` says that a state change is parked only for a sale that has been
made. `CounterLedgerAgrees` follows by taking what was received out of both sides.
`StandsOnce`: only a commit of an import makes a loan stand, and it looks again.
`NothingLosesItsCustomer`, which is inductive as it stands beside the first. `CounterStockFollows` assumes `NoGifts`, that what
takes stock has a price: `MCCashBook_gift` shows a gift's customer deleted and its stock left out.
`CounterLinesFit` has two halves. The arithmetic: `LineAmountsFit` (the lines add up to the total,
the last one of any value absorbing what the divisions left, and none is negative), `SpreadFits`
(each round and each pass keep what is placed and what is left to place adding up, and no slot over its
cap; where the caps have room for it all, every pass places a cent or more, so nothing is left) and
`LinePaidFits` (a share that a line's own payments leave no room for finds room on the others).
The rounds and passes are `Repeated`, so facts about them go from one iterate to the next (`UpTo`).
The counter: `LinesFollow(d)` says that the invoice is not paid beyond its total nor a line beyond
its amount by the payments that name it, that every payment names a line of its invoice or none,
and that the lines add up. `CoveredFits` is why a collection that names a line keeps it: what
the line has left is no more than what the invoice has left, as no line is over.

**Postings** (in `SettlementProofs`). There is one step, and what is to be shown of it is
arithmetic over any number of lines, accounts, taxes and parts. `PostedEntrySound`:
`absorbResidual` makes the shares add up to the target whatever they were rounded to
(`AbsorbTotal`), so the legs, which are distinct because their accounts are, balance
(`DocumentLegs`). `PaymentGainsAreRateDifferences` and `PostedSharesFair` add up the
roundings: each is at most half a cent off (`RoundClose`), sums of them at most half a cent
each (`ConvertedSum`, `TargetClose`, `GroupClose`), and the account that absorbs the residual is off
by the others' roundings and the total's (`SharesClose`). The solvers do not multiply
inequalities, so fractions are brought to one denominator and each product is a lemma or a
step. `PostedGoodsAtCost` has four parts: freight (`FreightReachesGoods`), goods made
(`GoodsMadeClose`), recipes (`RecipeKeeps`: the most that can be made is what the scarcest
part allows) and the average cost. For the last, `ReplayValued` is an invariant of the replay,
by its least counterexample: stock is worth its quantity at the average (`Valued`), which lies
between the least and the greatest cost that goods came in at, and a movement at the average writes
the same fraction differently (`RoundScale`).

**Model-checked only.** `RequestsEnd` is liveness under fairness, which is out of the prover's
reach. Every other property of a run is proved.

## 7. Not modelled

* *Accounts.* References to accounts from tax rates, products and payments; names and DATEV
  numbers. An account's type is fixed in `Ledger`; that it stays so while entries stand on
  the account is `HistoryKeepsItsClass` of `Chart`, for one editor at a time.
* *Cash movements* insert a row and call `postAutoEntryTx` in one transaction, which
  `PostDocument` of `Ledger` already is. *Clients, vendors, taxes, units, templates* are
  single rows without a protocol. *Mass import* loops over single-row operations.
* *Dashboards, e-invoices, spreadsheets, templates*: read-only queries and formats. Of the
  reports, inventory valuation, time zones, an as-of date of 0, and the field layout and
  refusals of DATEV and FEC are left out.
* *Around requests*: rate limits, cross-site checks, the identity provider's protocol,
  cookie signatures, and the 25 seconds after which a shutdown no longer waits
  (`main.go`); `RequestsEnd` is about a shutdown that may wait.
* *Inside the modelled parts*: partners and currencies of journal lines; the reference fallback for movements older than source ids; edits of a serial's
  registry row; imports as records; edits of a cash sale (they are `Settlement!Update`);
  `CreateOpeningLoan`, which only tests call; dates and client codes inside number formats; quantities of recipes, which lie on a grid of
  four decimals where the code's rounding is exact.
* *The audit log*: rows beside each request that no decision reads. *The web client and demo
  seeding*: a client of the API and a data generator; the role menu alone is in `Access`.
