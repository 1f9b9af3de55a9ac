SPECIFICATION Spec
CONSTANTS
  ProtoVersion = 3
  SockCap = 1
  MaxWrites = 2
  Orphans = TRUE
  MsgLimit = 1
  FileLimit = 2
  BufSize = 2
  Requests <- MixedRequests
  ClientMethods = {"EXE", "LIST", "STOP"}
  ClientMayDie = TRUE
  ExtraMethods = {}
  MaxExtra = 0
  Prompt = FALSE
INVARIANTS TypeOK KillTargetsOwnChild ResourcesFresh ReplyComplete OneAnswer KeepAliveToken
PROPERTY ImplementsJob
CHECK_DEADLOCK FALSE
