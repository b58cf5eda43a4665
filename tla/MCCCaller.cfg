CONSTANTS
  record = record
  nul = nul
  nobytes = nobytes
  delta = delta
  Addresses = {a1, a2, a3}
  Null = Null
  Values = {record, nul, nobytes, delta}
  Member <- MCMember
  Textual = {nul}
  Binary = {nobytes}
  NoBytes = {nobytes}
  HoldsNul = {nul}
  Deltas = {delta}
  Patched <- MCPatched
  Malformed = Malformed
  Pointers = {x1, x2, x3}
SPECIFICATION Spec
INVARIANTS NoMisuse HeldOnce
PROPERTIES Undisturbed
SYMMETRY Interchangeable
