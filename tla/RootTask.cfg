SPECIFICATION Spec
CONSTANTS
  Unused = Unused
  U32 = 8
  U64 = 10
  FsDataLen = 2
  MaxFileBytes = 3
  FrameMax = 4
  Greeting <- GreetingBytes
  Iters = 1
  MaxPolls = 1
  Arch <- AllArch
  Failable <- MCFailable
  MaxHandles = 3
  FsCalls <- MCFsCalls
  MaxEntries = 3
  MaxPath = 3
INVARIANTS CodecsExact ChoicesExact ResolvesLongest BootResultIsAnswer BootNoMishap
PROPERTIES HandlesNeverReused BootScriptEnds
