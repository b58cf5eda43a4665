CONSTANTS
  Keys = {1, 2}
  Scalars <- MCScalars
  NaN = NaN
  Half = 4
  Bases <- MCBases
  Ops <- MCOps
  MaxOps = 2
  Missing = Missing
SPECIFICATION Spec
PROPERTIES ReadBack ElsewhereUnchanged MoveConserves CounterUndo
