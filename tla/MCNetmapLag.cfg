SPECIFICATION Spec
CONSTANTS
  c1 = c1
  c2 = c2
  lan = lan
  exit = exit
  Callers = {c1, c2}
  Viewers = {1, 3}
  InitNodes <- McNodes
  MapRequests <- McMapRequests
  Commands <- McCommands
  InitPolicy <- McInitPolicy
  MaxOps = 2
  MaxFaults = 1
  NodeIDs = {1, 2, 3}
  Users = {1}
  Prefixes = {lan, exit}
  ExitPrefixes = {exit}
  Addrs = {"x", "y", "z"}
  Labels = {"w", "x", "y", "z"}
  Endpoints = {}
INVARIANT PolicyManagerCurrent
CHECK_DEADLOCK FALSE
