CONSTANTS
  MaxAddr = 2
  UsbAddr <- UsbAddr1
  MaxPresent = 2
  EnumFails = TRUE
  Signals = TRUE
SPECIFICATION Spec
INVARIANTS
  PnPConsistent
  OpenedOnce
PROPERTIES
  Settles
CHECK_DEADLOCK FALSE
