SPECIFICATION Spec
CONSTANTS
  y1 = y1
  y2 = y2
  p1 = p1
  Ids = {e1, e2, e3, e4}
  Years = {y1, y2}
  Periods = {p1}
  Journals = {sales, misc}
  MiscJournal = misc
  DocJournal = sales
  Docs = {d1}
  Clients = {c1, c2}
  Dates = {1, 2, 3, 4}
  PostingDates = {1, 3}
  MaxMoney = 2
  HasRetainedEarnings = TRUE
  SeededYears = {y2}
  SeededPeriods = {}
  Toggled = {"asset"}
  None = None
  YearSpan <- DisjointYears
  PeriodSpan <- OnePeriod
  LineChoices <- SaleAndMistakes
CONSTRAINT Focus
SYMMETRY Symmetry
INVARIANT GaplessNumbers
INVARIANT ReportsAgree
INVARIANT DeactivationStrandsNothing
PROPERTY KeepsTheBook
PROPERTY ClosedYearsStaySealed
