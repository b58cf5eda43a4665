CONSTANTS
  record = record
  str = str
  Addresses = {a1, a2, a3}
  Null = Null
  Values = {record, str}
  Member <- MCMember
  Textual = {str}
  Binary = {}
  NoBytes = {}
  HoldsNul = {}
  Deltas = {}
  Patched <- NoPatch
  Malformed = Malformed
  Objects = {o1, o2}
  Threads = {t1, t2}
  Gone = Gone
SPECIFICATION Spec
INVARIANTS NoMisuse NothingLost
PROPERTIES FollowsTheRules
CHECK_DEADLOCK FALSE
SYMMETRY Interchangeable
