SPECIFICATION Spec
CONSTANTS
  PipeCap = 3
  MsgLimit = 4
  FileLimit = 3
  BufSize = 2
  Endless = FALSE
  MaxWrites = 6
INVARIANT FileWithinLimit
CHECK_DEADLOCK FALSE
