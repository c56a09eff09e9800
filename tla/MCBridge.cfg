\* Three requests and two connections, so that two requests report the loss of
\* the device while another one waits for its connection.
CONSTANTS
  Request = {r1, r2, r3}
  MaxConn = 2
SPECIFICATION Spec
INVARIANTS
  ExitRight
PROPERTIES
  BridgeStops
CHECK_DEADLOCK FALSE
