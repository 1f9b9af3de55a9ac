SPECIFICATION FairSpec
CONSTANTS
  Runners = {r1}
  Askers = {a1}
  Pids = {1}
  ProtoVersion = 2
  ListenQueue = 2
  Kills = TRUE
PROPERTY ConnectionServed
CHECK_DEADLOCK FALSE
