SPECIFICATION Spec
CONSTANTS
  Space = {root, other}
  Vaddr = {0, 1, 2, 12}
  Paddr = {p1, p2}
  Pages = 16
  Fanout = 2
  Slots = 3
  PoolLen = 3
  None = None
  root = root
  other = other
  BootLeaf <- KernelLeaf
INVARIANTS ModelMatchesHardware
CHECK_DEADLOCK FALSE
