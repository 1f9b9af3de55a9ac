SPECIFICATION Spec
CONSTANTS
  ProtoVersion = 2
  SockCap = 1
  MaxWrites = 2
  Orphans = FALSE
  MsgLimit = 2
  FileLimit = 2
  BufSize = 1
  Requests <- ForegroundTimed
  ClientMethods = {"EXE"}
  ClientMayDie = FALSE
  ExtraMethods = {}
  MaxExtra = 0
  Prompt = TRUE
INVARIANT ReplyWhole
CHECK_DEADLOCK FALSE
