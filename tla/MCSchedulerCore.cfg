SPECIFICATION Spec
CHECK_DEADLOCK FALSE
CONSTANTS
  NodeIDs = {1, 2}
  Users = {1}
  Prefixes = {"p"}
  ExitPrefixes = {}
  Addrs = {"a"}
  Labels = {"web"}
  Endpoints = {"e"}
  Prefix = "p"
  Fresh <- mcRouter
  Setups <- mcSetups
  MaxTime = 3
INVARIANTS FreshSessionsSpared
PROPERTIES RoutersFollowProbes TasksGetDone
