CONSTANTS
  Keys = {1, 7}
  Numeric = {7}
  NotWords = {7}
  Accented = {2}
  Fractions = {}
  Scalars <- MCScalars
  NaN = NaN
  Half = 4
  Bases <- MCDocuments
  Targets <- MCDocuments
  Ops = {}
  MaxOps = 0
  Missing = Missing
SPECIFICATION PatchSpec
INVARIANTS Converges Resumable EmptyMeansEqual PatchedThroughText
PROPERTIES NeverAstray
