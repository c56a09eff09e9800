\* Two interfaces, usb-max-interfaces below, at and above their number, and a
\* request that waits while both connections are taken.
CONSTANTS
  NumIf = 2
  MaxConn = 3
  MaxWait = 2
SPECIFICATION Spec
INVARIANTS
  NothingLeft
  ServingSound
  QueryTimeoutCaught
PROPERTIES
  DeviceEnds
CHECK_DEADLOCK FALSE
