SPECIFICATION ChartSpec
CONSTANTS
  Organizations = {A, B}
  Editors = {e1, e2}
  Codes = {"1020", "1150", "5150"}
  Types = {"asset"}
  Columns = {"bank", "register", "inventory", "cogs"}
  ChartColumns = {"bank", "inventory", "cogs"}
  ColumnSets <- Edited
  Template <- Lone
  Backfills <- Phase7
  MaxAccounts = 4
  Nobody = Nobody
CONSTRAINT Focus
SYMMETRY Symmetry
INVARIANT ReferencesStayHome
PROPERTY StartupFills
