CONSTANTS
  Ids = {m1, m2}
  Indices = {0, 1, 2}
  Counts = {0, 1, 2}
  Payloads = {x, y}
  Length <- MCLength
  OtherKinds = {"Message"}
  NoMeta = NoMeta
  Pending = Pending
  Refused = Refused
  MaxFrames = 4
  Slices <- MCSlices
SPECIFICATION Spec
INVARIANTS IInv Faithful RefusalJustified CountsAgree
PROPERTIES KeepsPromise
SYMMETRY Interchangeable
