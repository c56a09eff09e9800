\* Two devices of one name, which another host has too.  The channel, of 10
\* statuses in the code, is small enough for Avahi to fill it, and then some
\* goroutines wait forever.
CONSTANTS
  Pub = {a, b}
  NoPub = NoPub
  NameOnly = NameOnly
  Foreign = {0}
  ChanCap = 1
  Faults = 2
SPECIFICATION DNSSdSpec
INVARIANTS
  NothingLeaked
  HaltedQuiet
  OverrideEarned
PROPERTIES
  UnpublishEnds
  GetsPublished
CHECK_DEADLOCK FALSE
