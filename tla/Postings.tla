------------------------------ MODULE Postings ------------------------------
(***************************************************************************)
(* The arithmetic of the automatic journal entries: what an invoice, a     *)
(* bill, a payment, a goods receipt, a shipment, a stock adjustment and a  *)
(* production order post, from their lines, taxes, rates and costs         *)
(* (db/gl_posting.go, db/invoice_totals.go, db/exchange_rate.go,           *)
(* db/payment.go, db/import.go, db/product_cost.go).                       *)
(*                                                                         *)
(* A document is chosen and posted in one step. Quantities are in tenths,  *)
(* prices in cents, tax rates per mille, exchange rates fractions.         *)
(***************************************************************************)
EXTENDS Cents, Sums, Sequences, FiniteSets

CONSTANTS
  Documents,  \* the documents there are to post
  PerMille,   \* tax rates, each with its percentage times ten
  Missing     \* no tax, no known cost

VARIABLES doc, posting

postingVars == <<doc, posting>>

SumOf(f) == Total(f, DOMAIN f)

-----------------------------------------------------------------------------
(* Entries: a set of legs, each with an account and one amount. A leg of   *)
(* nothing is left out.                                                    *)

Leg(account, debit, credit) == [account |-> account, no |-> 0, debit |-> debit, credit |-> credit]
Legs(legs) == {l \in legs : l.debit # 0 \/ l.credit # 0}
\* The table refuses a leg of nothing or less, and the request fails.
Recordable(l) == (l.debit > 0 /\ l.credit = 0) \/ (l.debit = 0 /\ l.credit > 0)
Posted(legs) ==
  IF \A l \in legs : Recordable(l) THEN [outcome |-> "posted", legs |-> legs]
  ELSE [outcome |-> "fails", legs |-> {}]
NoEntry == [outcome |-> "nothing", legs |-> {}]
Refused == [outcome |-> "refused", legs |-> {}]
Panics == [outcome |-> "panics", legs |-> {}]

\* One account against another, the way the sign of the amount says.
Signed(account, against, cents) ==
  IF cents = 0 THEN NoEntry
  ELSE IF cents > 0 THEN Posted({Leg(account, cents, 0), Leg(against, 0, cents)})
  ELSE Posted({Leg(account, 0, -cents), Leg(against, -cents, 0)})

-----------------------------------------------------------------------------
(* Invoices and bills.                                                     *)

Worth(x) == [i \in DOMAIN x.lines |-> x.lines[i].qty * x.lines[i].price]
All(x) == SumOf(Worth(x))
Accounts(x) == {x.lines[i].account : i \in DOMAIN x.lines}
Taxes(x) == {x.lines[i].tax : i \in DOMAIN x.lines} \ {Missing}
OnAccount(x, a) == Total(Worth(x), {i \in DOMAIN x.lines : x.lines[i].account = a})
AtTax(x, t) == Total(Worth(x), {i \in DOMAIN x.lines : x.lines[i].tax = t})

\* Mutant of Net: the discount comes off every group.
NetOfAll(x, tenths) == <<tenths - 10 * x.discount, 10>>

\* A discount is spread over groups of lines by their share of the subtotal.
Net(x, tenths) ==
  IF x.discount > 0 /\ All(x) > 0
  THEN Minus(<<tenths, 10>>, <<x.discount * tenths, All(x)>>) ELSE <<tenths, 10>>

\* Tax is rounded once per rate, not per line.
Tax(x, t) == roundHalfUp(Times(Net(x, AtTax(x, t)), <<PerMille[t], 1000>>))

TaxTotal(x) == SumOf([t \in Taxes(x) |-> Tax(x, t)])
Due(x) == roundHalfUp(<<All(x) - 10 * x.discount, 10>>) + TaxTotal(x) + x.stamp

\* validateInvoiceTotals divides the discount by the subtotal, whatever the
\* discount, as soon as a line is taxed.
validateInvoiceTotals(x) ==
  IF x.discount < 0 \/ All(x) < 10 * x.discount THEN "refused"
  ELSE IF Taxes(x) # {} /\ All(x) = 0 THEN "panics"
  ELSE "valid"

\* Mutant of absorbResidual: what is left over is left.
LeaveResidual(amounts, target) == amounts

\* The largest group takes what rounding and conversion leave over.
absorbResidual(amounts, target) ==
  IF DOMAIN amounts = {} THEN amounts
  ELSE LET largest == CHOOSE a \in DOMAIN amounts : \A b \in DOMAIN amounts : amounts[a] >= amounts[b]
       IN [amounts EXCEPT ![largest] = @ + target - SumOf(amounts)]

GroupCents(x) ==
  [a \in Accounts(x) |-> convertCents(roundHalfUp(Net(x, OnAccount(x, a))), x.rate)]
TaxCents(x) == [t \in Taxes(x) |-> convertCents(Tax(x, t), x.rate)]
AllTax(x) == SumOf(TaxCents(x))
Owed(x) == convertCents(Due(x), x.rate)
Shares(x, rest) == absorbResidual(GroupCents(x), Owed(x) - AllTax(x) - rest)

buildInvoiceGLLines(x) ==
  LET stamp == convertCents(x.stamp, x.rate)
      revenue == Shares(x, stamp)
  IN Posted(Legs({Leg(a, 0, revenue[a]) : a \in Accounts(x)}
                 \cup {Leg(t, 0, TaxCents(x)[t]) : t \in Taxes(x)}
                 \cup {Leg("stamp duty", 0, stamp)})
            \cup {Leg("receivable", Owed(x), 0)})

\* What goods received had accrued is cleared from GRNI, and the account they
\* were capitalized to keeps the difference in price.
buildIncomingInvoiceGLLines(x) ==
  LET expense == Shares(x, 0)
      cleared(a) == IF a = "inventory" THEN x.cleared ELSE 0
      total == SumOf([a \in Accounts(x) |-> cleared(a)])
      net(a) == expense[a] - cleared(a)
  IN Posted(Legs({IF cleared(a) # 0 /\ net(a) < 0 THEN Leg(a, 0, -net(a)) ELSE Leg(a, net(a), 0) : a \in Accounts(x)}
                 \cup {Leg(t, TaxCents(x)[t], 0) : t \in Taxes(x)}
                 \cup {Leg("grni", total, 0)})
            \cup {Leg("payable", 0, Owed(x))})

\* NoEntry is posted for a document of nothing.
PostInvoice(x) ==
  IF validateInvoiceTotals(x) = "refused" THEN Refused
  ELSE IF validateInvoiceTotals(x) = "panics" THEN Panics
  ELSE IF Due(x) = 0 THEN NoEntry
  ELSE IF x.kind = "invoice" THEN buildInvoiceGLLines(x) ELSE buildIncomingInvoiceGLLines(x)

-----------------------------------------------------------------------------
(* Payments: the money at the day's rate, each document at its own, and    *)
(* the difference to exchange gains or losses.                             *)

\* Mutant of Settled: documents count at their face.
SettledAtFace(x) == [i \in DOMAIN x.applied |-> x.applied[i].cents]

Settled(x) == [i \in DOMAIN x.applied |-> convertCents(x.applied[i].cents, x.applied[i].rate)]
Collected(x) == SumOf([i \in DOMAIN x.applied |-> x.applied[i].cents])

PostPayment(x) ==
  LET moved == convertCents(Collected(x), x.rate)
      settled == SumOf(Settled(x))
      gain == IF x.inbound THEN moved - settled ELSE settled - moved
      side(account, cents, debit) == IF debit THEN Leg(account, cents, 0) ELSE Leg(account, 0, cents)
  IN IF moved = 0 \/ \E i \in DOMAIN x.applied : Settled(x)[i] = 0 THEN Refused
     ELSE Posted({side("bank", moved, x.inbound)}
                 \cup {[side("settled", Settled(x)[i], ~x.inbound) EXCEPT !.no = i] : i \in DOMAIN x.applied}
                 \cup Legs({IF gain > 0 THEN Leg("exchange gain", 0, gain) ELSE Leg("exchange loss", -gain, 0)}))

-----------------------------------------------------------------------------
(* Goods: receipts with the freight and customs of their import, and what  *)
(* goods are worth when they leave.                                        *)

\* What an import's orders commit, in the organization's currency.
totalCommittedPOValueForImport(orders) ==
  SumOf([i \in {i \in DOMAIN orders : ~orders[i].cancelled} |->
           orders[i].qty * convertCents(orders[i].price, orders[i].rate)])
landedCostRate(freight, tenths) == IF tenths = 0 THEN Frac(0) ELSE <<10 * freight, tenths>>

MarkupPerUnit(x, i) ==
  LET line == x.lines[i] IN
  IF line.cost = Missing \/ ~line.imported THEN 0
  ELSE roundHalfUp(Times(Frac(convertCents(line.cost, x.rate)),
                         landedCostRate(x.freight, totalCommittedPOValueForImport(x.orders))))

applyLandedCost(x) ==
  SumOf([i \in DOMAIN x.lines |-> roundHalfUp(<<x.lines[i].qty * MarkupPerUnit(x, i), 10>>)])

VendorValue(x) ==
  SumOf([i \in {i \in DOMAIN x.lines : x.lines[i].cost # Missing} |->
           roundHalfUp(<<x.lines[i].qty * convertCents(x.lines[i].cost, x.rate), 10>>)])

buildReceiptGRNILines(x) ==
  IF x.quantityOnly \/ VendorValue(x) = 0 THEN NoEntry
  ELSE Posted({Leg("inventory", VendorValue(x) + applyLandedCost(x), 0), Leg("grni", 0, VendorValue(x))}
              \cup Legs({Leg("import costs", 0, applyLandedCost(x))}))

\* A unit leaves at what it came in at, bulk at the average; goods of no known
\* cost do not leave.
resolveMovementCost(line) == IF line.unitCost # Missing THEN line.unitCost ELSE line.average

buildCOGSGLLines(x) ==
  IF x.quantityOnly THEN NoEntry
  ELSE IF \E i \in DOMAIN x.lines : resolveMovementCost(x.lines[i]) = Missing THEN Refused
  ELSE Signed("cost of goods", "inventory",
         roundHalfUp(<<SumOf([i \in DOMAIN x.lines |-> x.lines[i].qty * resolveMovementCost(x.lines[i])]), 10>>))

\* Goods found at no known cost are worth nothing; goods lost need a cost.
buildStockAdjustmentGLLines(x) ==
  LET cost == IF x.qty > 0 /\ x.stated # Missing THEN x.stated ELSE resolveMovementCost(x) IN
  IF x.quantityOnly \/ (x.qty > 0 /\ cost = Missing) THEN NoEntry
  ELSE IF cost = Missing THEN Refused
  ELSE Signed("inventory", "adjustment", roundHalfUp(<<x.qty * cost, 10>>))

\* Components leave as goods come in; only what the rounding of the cost of
\* one unit loses is posted.
UnitCost(components, qty) == roundHalfUp(<<10 * components, qty>>)
buildProductionOrderGLLines(x) ==
  IF x.quantityOnly THEN NoEntry
  ELSE Signed("inventory", "adjustment", roundHalfUp(<<x.qty * UnitCost(x.components, x.qty), 10>>) - x.components)

-----------------------------------------------------------------------------
(* Recipes: what a product's parts cost and how many units the stock of    *)
(* them allows, and what an order for n units finds when it is completed.  *)
(* Quantities per unit are saved rounded, so that totals are exact.        *)

maxBuildable(line) == IF line.qty <= 0 \/ line.stock <= 0 THEN 0 ELSE line.stock \div line.qty

computeBOMRecipe(x) ==
  LET lines == DOMAIN x.lines
      uncosted == {i \in lines : x.lines[i].average = Missing}
      cost == roundHalfUp(<<SumOf([i \in lines |-> x.lines[i].qty * x.lines[i].average]), 10>>)
      least == {i \in lines : \A k \in lines : maxBuildable(x.lines[i]) <= maxBuildable(x.lines[k])}
      blocked == CASE lines = {} -> "no recipe"
                   [] lines # {} /\ ~x.tracked -> "stock not tracked"
                   [] OTHER -> IF \E i \in lines : x.lines[i].serialized THEN "serialized component"
                               ELSE IF ~x.quantityOnly /\ uncosted # {} THEN "uncosted component"
                               ELSE "no"
      buildable == IF blocked = "no" THEN maxBuildable(x.lines[CHOOSE i \in least : TRUE]) ELSE 0
  IN [blocked |-> IF blocked = "no" /\ buildable = 0 THEN "short" ELSE blocked,
      buildable |-> buildable,
      cost |-> IF x.quantityOnly \/ uncosted # {} \/ lines = {} THEN Missing ELSE cost,
      belowCost |-> ~x.quantityOnly /\ uncosted = {} /\ lines # {} /\ 0 < x.price /\ x.price < cost]

\* CreateProductionOrder for n units, and UpdateProductionOrderStatus.
Builds(x, n) ==
  /\ x.tracked /\ x.lines # <<>>
  /\ \A i \in DOMAIN x.lines : /\ ~x.lines[i].serialized
                               /\ n * x.lines[i].qty <= x.lines[i].stock
                               /\ x.quantityOnly \/ x.lines[i].average # Missing
ComponentsCost(x, n) ==
  roundHalfUp(<<SumOf([i \in DOMAIN x.lines |-> n * x.lines[i].qty * x.lines[i].average]), 10>>)

-----------------------------------------------------------------------------
(* Weighted average cost: replayed from the movements every time.          *)

Costed(h) == {i \in DOMAIN h : h[i].qty > 0 /\ h[i].cost # Missing}

\* Mutant of Replayed: stock that runs out keeps its value.
ReplayedFrom(s, move) ==
  LET known == s.known \/ (move.qty > 0 /\ move.cost # Missing)
      at == IF move.qty > 0 /\ move.cost # Missing THEN Frac(move.cost) ELSE s.average
      qty == s.qty + move.qty
      value == Plus(s.value, Times(Frac(move.qty), at))
  IN IF ~known THEN s
     ELSE [known |-> TRUE, qty |-> qty, value |-> value,
           average |-> IF qty > 0 THEN Over(value, Frac(qty)) ELSE s.average]

Replayed(s, move) ==
  LET known == s.known \/ (move.qty > 0 /\ move.cost # Missing)
      at == IF move.qty > 0 /\ move.cost # Missing THEN Frac(move.cost) ELSE s.average
      qty == s.qty + move.qty
      value == Plus(s.value, Times(Frac(move.qty), at))
  IN IF ~known THEN s
     ELSE IF qty > 0
     THEN [known |-> TRUE, qty |-> qty, value |-> value, average |-> Over(value, Frac(qty))]
     ELSE [known |-> TRUE, qty |-> 0, value |-> Frac(0), average |-> s.average]

\* What the product's cost becomes; a cost typed in by hand stays until goods
\* come in at a cost.
Replay(h) ==
  LET steps[n \in 0..Len(h)] ==
        IF n = 0 THEN [known |-> FALSE, qty |-> 0, value |-> Frac(0), average |-> Frac(0)]
        ELSE Replayed(steps[n - 1], h[n])
  IN steps[Len(h)]
recomputeAverageCost(h, manual) ==
  IF Costed(h) = {} THEN manual ELSE roundHalfUp(Replay(h).average)

-----------------------------------------------------------------------------

EntryOf(x) ==
  CASE x.kind \in {"invoice", "bill"} -> PostInvoice(x)
    [] x.kind = "payment"    -> PostPayment(x)
    [] x.kind = "receipt"    -> buildReceiptGRNILines(x)
    [] x.kind = "shipment"   -> buildCOGSGLLines(x)
    [] x.kind = "adjustment" -> buildStockAdjustmentGLLines(x)
    [] x.kind = "production" -> buildProductionOrderGLLines(x)
    [] x.kind \in {"history", "recipe"} -> NoEntry

Unposted == [outcome |-> "none", legs |-> {}]

\* Amounts are not negative (db/invoice_totals.go:182), rates are positive, a
\* bill has neither stamp nor discount (db/incoming_invoice.go:186), and legs
\* that the code posts as lines of their own have names of their own.
Rate == (Nat \ {0}) \X (Nat \ {0})
Cost == Nat \cup {Missing}
Named == {"receivable", "payable", "stamp duty", "grni"}

IsInvoice(x) ==
  /\ IsFiniteSet(DOMAIN x.lines)
  /\ \A i \in DOMAIN x.lines : x.lines[i].qty \in Nat /\ x.lines[i].price \in Nat
  /\ \A t \in Taxes(x) : PerMille[t] \in Nat
  /\ x.rate \in Rate /\ x.discount \in Int /\ x.stamp \in Nat /\ x.cleared \in Nat
  /\ x.kind = "bill" => x.stamp = 0 /\ x.discount = 0
  /\ Accounts(x) \cap Taxes(x) = {} /\ (Accounts(x) \cup Taxes(x)) \cap Named = {}
IsPayment(x) ==
  /\ x.inbound \in BOOLEAN /\ x.rate \in Rate /\ Len(x.applied) \in Nat
  /\ DOMAIN x.applied = 1..Len(x.applied)
  /\ \A i \in DOMAIN x.applied : x.applied[i].cents \in Nat /\ x.applied[i].rate \in Rate
IsReceipt(x) ==
  /\ x.rate \in Rate /\ x.freight \in Nat /\ Len(x.lines) \in Nat
  /\ DOMAIN x.lines = 1..Len(x.lines) /\ IsFiniteSet(DOMAIN x.orders)
  /\ \A i \in DOMAIN x.lines : x.lines[i].qty \in Nat /\ x.lines[i].cost \in Cost
  /\ \A i \in DOMAIN x.orders :
       x.orders[i].qty \in Nat /\ x.orders[i].price \in Nat /\ x.orders[i].rate \in Rate
IsShipment(x) ==
  /\ IsFiniteSet(DOMAIN x.lines)
  /\ \A i \in DOMAIN x.lines :
       x.lines[i].qty \in Nat /\ x.lines[i].unitCost \in Cost /\ x.lines[i].average \in Cost

\* A part's quantity is not so small that it is saved as nothing
\* (db/product_bom.go:261, 284).
IsRecipe(x) ==
  x.lines \in Seq([qty : Nat \ {0}, stock : Int, average : Cost, serialized : BOOLEAN])
IsHistory(x) == x.moves \in Seq([qty : Int, cost : Cost])

ASSUME PostingsAssumption ==
  Missing \notin Nat /\ \A x \in Documents :
    /\ x.kind \in {"invoice", "bill", "payment", "receipt", "shipment", "adjustment",
                   "production", "history", "recipe"}
    /\ x.kind \in {"invoice", "bill"} => IsInvoice(x)
    /\ x.kind = "payment" => IsPayment(x)
    /\ x.kind = "receipt" => IsReceipt(x)
    /\ x.kind = "shipment" => IsShipment(x)
    /\ x.kind = "adjustment" =>
         x.qty \in Int /\ {x.stated, x.unitCost, x.average} \subseteq Cost
    /\ x.kind = "production" => x.qty \in Nat \ {0} /\ x.components \in Nat
    /\ x.kind = "recipe" => IsRecipe(x)
    /\ x.kind = "history" => IsHistory(x)

PostingInit == doc \in Documents /\ posting = Unposted
Post == posting = Unposted /\ posting' = EntryOf(doc) /\ UNCHANGED doc
PostingNext == Post
PostingSpec == PostingInit /\ [][PostingNext]_postingVars

-----------------------------------------------------------------------------
(* Properties.                                                             *)

NetOf(legs) == SumOf([l \in legs |-> l.debit - l.credit])
OnLeg(a) == NetOf({l \in posting.legs : l.account = a})
Debits == SumOf([l \in posting.legs |-> l.debit])
Credits == SumOf([l \in posting.legs |-> l.credit])

\* What rounding has given to the groups is more than the largest can return.
Overdrawn(x) ==
  LET shares == Shares(x, IF x.kind = "invoice" THEN convertCents(x.stamp, x.rate) ELSE 0)
  IN \E a \in Accounts(x) : shares[a] < 0

\* Whatever its rounding, an entry balances, a client owes or a vendor is owed
\* exactly the document's total, and no leg is one the table refuses but of a
\* document too small to convert, or of one whose groups are many and smaller
\* than a cent (db/gl_posting.go:275, migrations/0052:76).
EntryIsSound ==
  /\ posting.outcome = "posted" =>
    /\ Debits = Credits
    /\ doc.kind = "invoice" => OnLeg("receivable") = Owed(doc)
    /\ doc.kind = "bill" => OnLeg("payable") = -Owed(doc)
  /\ posting.outcome = "fails" =>
       doc.kind \in {"invoice", "bill"} /\ (Owed(doc) = 0 \/ Overdrawn(doc))

\* An account of an invoice is credited with what its own lines earn, net of
\* their share of the discount and converted, but for half a cent for every
\* rounding in the entry (db/gl_posting.go:246-269, 377-404).
SharesFair ==
  doc.kind = "invoice" /\ posting.outcome = "posted" =>
    LET roundings == Cardinality(Accounts(doc)) + Cardinality(Taxes(doc)) + 2
        slack == <<roundings * (doc.rate[1] + doc.rate[2]), 2 * doc.rate[2]>>
    IN \A a \in Accounts(doc) :
         LessEq(Distance(Frac(-OnLeg(a)), Times(Net(doc, OnAccount(doc, a)), doc.rate)), slack)

\* A payment at the rate its documents were posted at gains and loses nothing
\* but roundings (db/payment.go:680-703).
GainsAreRateDifferences ==
  doc.kind = "payment" /\ posting.outcome = "posted"
    /\ (\A i \in DOMAIN doc.applied : doc.applied[i].rate = doc.rate)
  => 2 * Abs(OnLeg("exchange gain") + OnLeg("exchange loss")) <= 1 + Len(doc.applied)

Tenths(x) == SumOf([i \in DOMAIN x.lines |-> x.lines[i].qty])

\* An import whose goods are all received, at the rate of its orders.
AllOfImport(x) ==
  /\ totalCommittedPOValueForImport(x.orders) > 0 /\ DOMAIN x.orders = DOMAIN x.lines
  /\ \A i \in DOMAIN x.orders :
       /\ ~x.orders[i].cancelled /\ x.orders[i].rate = x.rate
       /\ [qty |-> x.orders[i].qty, cost |-> x.orders[i].price, imported |-> TRUE] = x.lines[i]

\* The average cost of goods is one that they came in at, or between them, that
\* no outflow moves.
AverageOfCosts(h) ==
  LET average == recomputeAverageCost(h, Missing) IN
  /\ \E i \in Costed(h) : h[i].cost <= average
  /\ \E i \in Costed(h) : h[i].cost >= average
  /\ h[Len(h)].qty < 0 => average = recomputeAverageCost(SubSeq(h, 1, Len(h) - 1), Missing)

\* What a recipe says can be made is the most an order can be completed for, at
\* the cost it says but for a cent.
RecipeKept(x) ==
  LET recipe == computeBOMRecipe(x)
  IN \A n \in 1..(recipe.buildable + 1) :
       /\ Builds(x, n) <=> n <= recipe.buildable
       /\ Builds(x, n) /\ recipe.cost # Missing =>
            Abs(UnitCost(ComponentsCost(x, n), 10 * n) - recipe.cost) <= 1

\* The freight and customs of an import reach the goods of its orders, but for
\* half a cent a unit and a line; goods made are worth their components, but
\* for the same; the average cost of goods is theirs, and a recipe keeps what
\* it says (db/gl_posting.go:756-830, 1250, db/product_cost.go:13-36,
\* db/bom_summary.go:42-50, 310).
GoodsAtCost ==
  /\ doc.kind = "receipt" /\ AllOfImport(doc)
     => LessEq(Distance(Frac(applyLandedCost(doc)), Frac(doc.freight)),
               <<Tenths(doc) + 10 * Len(doc.lines), 20>>)
  /\ doc.kind = "production" => 20 * Abs(OnLeg("adjustment")) <= doc.qty + 10
  /\ doc.kind = "history" /\ Costed(doc.moves) # {} => AverageOfCosts(doc.moves)
  /\ doc.kind = "recipe" => RecipeKept(doc)

\* "subtotalUnits > 0 here: a non-empty groupOrder implies at least one line
\* item" (db/invoice_totals.go:141): a document of free goods is not.
TotalsAreDefined == posting.outcome # "panics"
=============================================================================
