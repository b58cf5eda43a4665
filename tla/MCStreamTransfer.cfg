CONSTANTS
  m1 = m1
  m2 = m2
  x = x
  y = y
  Ids = {m1, m2}
  Indices = {0, 1}
  Counts = {1, 2}
  Payloads = {x, y}
  Length <- MCLength
  OtherKinds = {"Message"}
  NoMeta = NoMeta
  Message <- MCMessage
  Slices = {}
  Pending = Pending
  Refused = Refused
  Writable <- MCWritable
  Phantoms = {}
  UnknownKind = "unknown"
  MaxWritten = 4
  MaxFaults = 1
  MaxAfterFail = 1
SPECIFICATION FairTransfer
INVARIANTS EverythingArrives
PROPERTIES OnlyMessagesSent AnswerComes
