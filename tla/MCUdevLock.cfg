\* Four copies of ipp-usb at a time.
CONSTANTS
  Proc = {p1, p2, p3, p4}
  NoProc = NoProc
SPECIFICATION UdevSpec
INVARIANTS
  OneDaemon
PROPERTIES
  DeviceServed
