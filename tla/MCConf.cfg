\* Patterns of up to three characters against names of up to two, values of up
\* to three characters, texts of up to four; pdl has room for one of two
\* formats, or for none.
CONSTANTS
  EOF = EOF
  PatternLen = 3
  ModelLen = 2
  ValueLen = 3
  TextLen = 4
  PdlRoom = 5
SPECIFICATION Spec
INVARIANTS
  QuirkBest
  AuthExact
  IniExact
  DescExact
  AdvertisedExact
  LinesExact
CHECK_DEADLOCK FALSE
