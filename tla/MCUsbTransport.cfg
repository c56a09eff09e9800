\* Two requests and two connections.
CONSTANTS
  Conn = {c1, c2}
  Request = {r1, r2}
  NoConn = NoConn
SPECIFICATION Spec
INVARIANTS
  ConnAccounting
  EarlyHolderSafe
  ReleaseSignalled
PROPERTIES
  LeaseSpec
  CloseTerminates
CHECK_DEADLOCK FALSE
