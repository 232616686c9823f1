SPECIFICATION Spec
CONSTANTS
  Invoices = {i1}
  Bills = {b1}
  Payments = {p1, p2, p3}
  Clients = {c1, c2}
  MaxTotal = 2
  None = None
CONSTRAINT Focus
SYMMETRY Symmetry
INVARIANT PaymentsBacked
PROPERTY PaidTracksBalance
PROPERTY OverpaidOnlyByStaleTotal
\* Every document deleted and every payment id used: nothing is left to do.
CHECK_DEADLOCK FALSE
