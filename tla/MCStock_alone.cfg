SPECIFICATION Spec
CONSTANTS
  Deliveries = {d1}
  Receipts = {r1}
  Manuals = {m1}
  Units = {u1}
  Bulk = Bulk
  Clients = {c1}
  MaxQty = 2
  LineChoices <- AllLines
  Valued = {TRUE}
  ManualValued = {TRUE, FALSE}
SYMMETRY Symmetry
INVARIANT CancelledNetsToZero
INVARIANT BooksFollowGoods
\* Every document deleted and every movement id used: nothing is left to do.
CHECK_DEADLOCK FALSE
