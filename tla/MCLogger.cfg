\* Two goroutines, files that are rotated after one line, two backups.
CONSTANTS
  Writer = {w1, w2}
  Initializer = w1
  NoWriter = NoWriter
  Kind <- MCKind
  MaxMsg = 3
  MaxFileSize = 1
  MaxBackup = 2
  MaxCrash = 1
  OpenFails = TRUE
SPECIFICATION Spec
INVARIANTS
  LinesKept
  MessageWhole
  CommitWritten
  FlushGoesOn
CHECK_DEADLOCK FALSE
