SPECIFICATION FairSpec
CONSTANTS
  ProtoVersion = 2
  SockCap = 2
  MaxWrites = 1
  Orphans = FALSE
  MsgLimit = 1
  FileLimit = 1
  BufSize = 1
  Requests <- PipedTimed
  ClientMethods = {"EXE", "LIST", "STOP"}
  ClientMayDie = TRUE
  ExtraMethods = {}
  MaxExtra = 0
  Prompt = TRUE
PROPERTIES LiveClientKept ClientAnswered ZombieReaped DeadlineKills SessionEnds
CHECK_DEADLOCK FALSE
