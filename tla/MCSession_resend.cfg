SPECIFICATION Spec
CONSTANTS
  ProtoVersion = 2
  SockCap = 2
  MaxWrites = 1
  Orphans = FALSE
  MsgLimit = 1
  FileLimit = 1
  BufSize = 1
  Requests <- TwoRequests
  ClientMethods = {"EXE"}
  ClientMayDie = TRUE
  ExtraMethods = {"SYN", "EXE"}
  MaxExtra = 1
  Prompt = FALSE
INVARIANTS KillTargetsOwnChild ResourcesFresh
PROPERTY KeepsCatalogue
CHECK_DEADLOCK FALSE
