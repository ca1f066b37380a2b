SPECIFICATION Spec
CONSTANTS
  fs = fs
  drv = drv
  fsEp = fsEp
  drvEp = drvEp
  Owner <- MCOwner
  Unpoked <- UnpokedSlot0
  RawClient = {}
  Server = {fs, drv}
  Endpoint = {fsEp, drvEp}
  Thread = {root, fs, drv, b}
  Client = {root}
  Msg = {m}
  Q = 1
  Root = root
  None = None
INVARIANTS DeadNeverRuns
CHECK_DEADLOCK FALSE
