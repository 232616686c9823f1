SPECIFICATION Spec
CONSTANTS
  Deliveries = {d1}
  Receipts = {r1}
  Manuals = {m1}
  Units = {u1}
  Bulk = Bulk
  Clients = {c1, c2}
  MaxQty = 1
  LineChoices <- MixedLines
  Valued = {TRUE}
  ManualValued = {TRUE}
SYMMETRY Symmetry
INVARIANT EntryFollowsStatus
INVARIANT MovesOnce
\* Every document deleted and every movement id used: nothing is left to do.
CHECK_DEADLOCK FALSE
