SPECIFICATION FairSpec
CONSTANTS
  ProtoVersion = 3
  SockCap = 2
  MaxWrites = 0
  Orphans = FALSE
  MsgLimit = 1
  FileLimit = 1
  BufSize = 1
  Requests <- ForegroundTimed
  ClientMethods = {"EXE"}
  ClientMayDie = FALSE
  ExtraMethods = {}
  MaxExtra = 0
  Prompt = TRUE
PROPERTY ClientAnswered
CHECK_DEADLOCK FALSE
