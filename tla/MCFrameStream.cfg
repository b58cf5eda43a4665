CONSTANTS
  m1 = m1
  x = x
  y = y
  z = z
  Ids = {m1}
  Indices = {0, 1}
  Counts = {2}
  Payloads = {x, y, z}
  Length <- MCLength
  OtherKinds = {"Message"}
  NoMeta = NoMeta
  Writable <- MCWritable
  Phantoms <- MCPhantoms
  UnknownKind = "unknown"
  MaxWritten = 3
  MaxFaults = 2
  MaxAfterFail = 3
SPECIFICATION Spec
INVARIANTS IInv Intact InOrderOnce PrefixUntilFailure NoSilentLoss ResyncAfterBadPayload
