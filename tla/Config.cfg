SPECIFICATION Spec
CONSTANTS
  NFiles = 3
  Fields = {"user", "timeout"}
  Typed = {"timeout"}
  MaxEnvs = 1
  EnvBound = 2
INVARIANT OneFileDecides
CHECK_DEADLOCK FALSE
