SPECIFICATION TablesSpec
CONSTANTS
  M = 2
  N = 2
  Space = {0, 1}
  Slot = {0, 1}
  Object = {o1}
  Right = {"READ", "WRITE"}
  Badge = {0, 1, 2}
  NoBadge = 0
  None = None
INVARIANTS NeverAmplified Acyclic FreeListExact
PROPERTIES RevocationComplete ImplementsForest
