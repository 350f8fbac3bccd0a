SPECIFICATION Spec
CHECK_DEADLOCK FALSE
CONSTANTS
  NodeIDs = {1, 2}
  Users = {1}
  Prefixes = {"p"}
  ExitPrefixes = {}
  Addrs = {"a"}
  Labels = {"web"}
  Endpoints = {"e"}
  Prefix = "p"
  Fresh <- mcRouter
  Setups <- mcRecovering
  MaxTime = 3
PROPERTY RespondersServe
