CONSTANTS
  Keys = {1, 4, 5, 7, 8, 9}
  Numeric = {7}
  NotWords = {7, 8, 9}
  TypeKey = 8
  ValueKey = 9
  Accented = {2}
  Fractions = {2, 3, 4, 5, 55}
  Rounded <- MCRounded
  Scalars = {}
  NaN = NaN
  Half = 8
  NarrowLimit = 8
  Originals <- MCOriginals
  Schemas <- MCSchemas
  MaxTrips = 3
SPECIFICATION Spec
INVARIANTS PortableUnchanged JsonViewKept Settles HashSurvivesBinary SameHashSameMeaning
PROPERTIES StaysValid
CHECK_DEADLOCK FALSE
