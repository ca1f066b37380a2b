SPECIFICATION Spec
CONSTANTS
  fs = fs
  drv = drv
  fsEp = fsEp
  drvEp = drvEp
  Owner <- MCOwner
  Unpoked <- UnpokedX86_64
  RawClient = {}
  Server = {fs, drv}
  Endpoint = {fsEp, drvEp}
  Thread = {root, fs, drv, b, c}
  Client = {root}
  Msg = {m}
  Q = 2
  Root = root
  None = None
INVARIANTS CalmCallReturnsReply
CHECK_DEADLOCK FALSE
