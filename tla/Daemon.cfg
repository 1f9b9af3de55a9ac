SPECIFICATION Spec
CONSTANTS
  Runners = {r1, r2}
  Askers = {a1}
  Pids = {1}
  ProtoVersion = 2
  ListenQueue = 2
  Kills = TRUE
INVARIANTS TypeOK MountedOnce EntryOwned RegisteredIsLimited CommandListed
PROPERTIES ListReadsCommands ImplementsCatalogue
CHECK_DEADLOCK FALSE
