\* Three addresses.
CONSTANTS
  Bus = {1}
  Address = {1, 2, 3}
  MaxLen = 3
SPECIFICATION Spec
INVARIANTS
  ListSorted
CHECK_DEADLOCK FALSE
