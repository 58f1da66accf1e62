CONSTANTS
  Publishers = {p1, p2}
  Clients = {c1, c2}
  Versions = {v1, v2}
  Files = {f1, f2}
  None = None
  MaxCommands = 3
  MaxUpsets = 2
SPECIFICATION Spec
SYMMETRY MCSymmetry
INVARIANTS NoVersionLost IndexedIsFetchable ServedIsSnapshot RestoreIsReproducible LockIsRestorable
CHECK_DEADLOCK FALSE
