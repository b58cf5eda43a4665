SPECIFICATION Spec
CONSTANTS
  Names = {1, 2, 3}
  Threshold = 2
  ByteBits = 2
  Version = 1
  Values <- MCTables
  HashChoices <- MCHashChoices
  Filters <- MCFilters
  Selections <- MCSelections
  MaxAsked = 1
INVARIANT
  FilterLeavesRows
