SPECIFICATION CashSpec
CONSTANTS
  r1 = r1
  r2 = r2
  Sales = {s1}
  Refs = {r1, r2}
  Register <- Family
  Walkins <- Strangers
  Baskets <- TwoLines
  Files <- BothFiles
  Batches = {1, 2}
  Cashiers = {c1, c2}
  Amounts = {2, 3}
  MaxPayments = 2
  Unknown = Unknown
CONSTRAINT Focus
SYMMETRY Symmetry
INVARIANT LedgerOwesWhatTrackerSays
INVARIANT StockFollowsSale
INVARIANT LinesNeverOvercollected
INVARIANT BroughtForwardOnce
INVARIANT NothingLosesItsCustomer
CHECK_DEADLOCK FALSE
