SPECIFICATION Spec
CONSTANTS
  fs = fs
  drv = drv
  fsEp = fsEp
  drvEp = drvEp
  Owner <- MCOwner
  Unpoked <- UnpokedSlot0
  RawClient = {fs}
  Server = {fs, drv}
  Endpoint = {fsEp, drvEp}
  Thread = {root, fs, drv, b, c}
  Client = {root, fs}
  Msg = {m}
  Q = 2
  Root = root
  None = None
INVARIANTS CalmRunningIsOnCpu CalmCallReturnsReply
PROPERTIES CallAnswered
CHECK_DEADLOCK FALSE
