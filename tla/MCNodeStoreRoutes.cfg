SPECIFICATION Spec
CONSTANTS
  NodeIDs = {1, 2, 3}
  Users = {1, 2}
  Prefixes = {"p", "x"}
  ExitPrefixes = {"x"}
  Addrs = {"a1", "a2"}
  Labels = {"web"}
  Endpoints = {"e1", "e2"}
  Callers = {c1, c2}
  Requests <- RouteRequests
  InitNodes <- RouteNodes
  BatchSize = 2
  MaxPolicy = 0
SYMMETRY CallerSymmetry
INVARIANTS PrimariesCurrent
PROPERTIES PrimaryRoutesPromise
