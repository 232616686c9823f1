SPECIFICATION Spec
CONSTANTS
  Clients = {c1, c2}
  Orders = {o1}
  Receipts = {r1}
  Bills = {b1, b2}
  Lines = {l1, l2}
  Links = {l1, l2}
  OrderTerms <- OneAtOne
  ReceiptTerms <- ReceivedAtThree
  BillTerms <- OneAtOne
  InStatuses = {"confirmed", "received"}
  Overrides = {FALSE}
  CreatedAs = {"draft"}
  None = None
CONSTRAINT Fresh
SYMMETRY Symmetry
INVARIANT ReceivedTermsFrozen
INVARIANT GrniIsUnbilledGoods
INVARIANT BilledOnce
INVARIANT SummariesMatchPerInvoice
PROPERTY BilledGoodsStayReceived
