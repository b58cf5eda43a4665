CONSTANTS
  Keys = {1, 2}
  Numeric = {}
  NotWords = {}
  Accented = {2}
  Fractions = {}
  Scalars <- MCScalars
  NaN = NaN
  Half = 4
  Bases <- CounterDocuments
  Targets <- CounterDocuments
  Ops = {}
  MaxOps = 0
  Missing = Missing
SPECIFICATION PatchSpec
INVARIANTS PatchGivesTarget
