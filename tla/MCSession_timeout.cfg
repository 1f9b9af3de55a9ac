SPECIFICATION FairSpec
CONSTANTS
  ProtoVersion = 2
  SockCap = 2
  MaxWrites = 1
  Orphans = FALSE
  MsgLimit = 1
  FileLimit = 1
  BufSize = 1
  Requests <- ForegroundTimed
  ClientMethods = {"EXE"}
  ClientMayDie = FALSE
  ExtraMethods = {}
  MaxExtra = 0
  Prompt = TRUE
PROPERTY TimeoutReported
CHECK_DEADLOCK FALSE
