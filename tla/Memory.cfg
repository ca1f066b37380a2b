SPECIFICATION MemSpec
CONSTANTS
  Space = {root, other}
  Vaddr = {0, 1, 2, 12}
  Paddr = {p1, p2}
  Pages = 16
  Fanout = 2
  Slots = 3
  PoolLen = 8
  None = None
  root = root
  other = other
  BootLeaf <- KernelLeaf
  MaxRegions = 4
  MaxUntyped = 2
  RootCapSlots = 3
  HandoffDescs = 5
  MaxPeripherals = 3
  Platforms <- Machines
  Unknown = Unknown
  AddrTop = 72
  RegionTable = 4
  ObjectTable = 5
  CapSlots = 6
  Regions <- Fragments
  Images <- ElfImages
  RetypeKinds = {"Endpoint", "Untyped"}
  MaxRetype = 2
  Nil = Nil
  Root = t0
  Thread = {t0, t1, t2}
  PcRange = 2
  MaxTraps = 5
  MaxEarly = 2
INVARIANTS ModelMatchesHardware PoolFramesLinkedOnce BootMemoryExact NoDoubleUse RegistersKept
PROPERTIES TranslationStable
CHECK_DEADLOCK FALSE
SYMMETRY Symmetry
