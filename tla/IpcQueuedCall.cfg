SPECIFICATION Spec
CONSTANTS
  Server = {srv}
  Endpoint = {e1}
  Thread = {root, srv, a}
  Client = {root, a}
  Msg = {m}
  Q = 2
  Root = root
  None = None
INVARIANTS CallReturnsReply
CHECK_DEADLOCK FALSE
