SPECIFICATION DevicesSpec
CONSTANTS
  Arch = "aarch64"
  Waiters = 2
  MaxWaitRetries = 3
  MaxSubmit = 3
  MaxSpurious = 3
  MaxOther = 3
  WalkLimit = 7
  MaxBars = 4
  Stride = 256
  MsixReach = 256
  QueueSize = 2
  IdxMod = 4
  Tries = 2
  MaxRequests = 6
  MaxFrames = 6
  Hardware <- MCHardware
  Pools = {2, 9}
  WordMod = 256
INVARIANTS NeverSleepsOnSignal SleeperIsQueued RunsAsItself NoStaleWaiter AnswersMatchDevice BoundToItsDevice
PROPERTIES RequestAnswered
CHECK_DEADLOCK FALSE
