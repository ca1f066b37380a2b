SPECIFICATION Spec
CONSTANTS
  Server = {srv}
  Endpoint = {e1}
  Thread = {root, srv, a, b}
  Client = {root, a, b}
  Msg = {m1, m2}
  Q = 2
  Root = root
  None = None
INVARIANTS Rendezvous RecvReturnsMessage ParkedAgree ParkedCallReturnsReply
PROPERTIES ParkedNoOverwrite
CHECK_DEADLOCK FALSE
SYMMETRY Symmetry
