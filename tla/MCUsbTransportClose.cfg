CONSTANTS
  Conn = {c1}
  Request = {r1, r2}
  NoConn = NoConn
SPECIFICATION Spec
INVARIANTS
  NoUseAfterClose
CHECK_DEADLOCK FALSE
