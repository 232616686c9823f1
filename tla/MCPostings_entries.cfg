SPECIFICATION PostingSpec
CONSTANTS
  Documents <- AllDocuments
  PerMille <- TaxTable
  Missing = Missing
INVARIANT EntryIsSound
INVARIANT SharesFair
INVARIANT GainsAreRateDifferences
INVARIANT GoodsAtCost
CHECK_DEADLOCK FALSE
