SPECIFICATION FairSpec
CONSTANTS
  NodeIDs = {1, 2, 3}
  Users = {1, 2}
  Prefixes = {"p", "x"}
  ExitPrefixes = {"x"}
  Addrs = {"a1", "a2"}
  Labels = {"web"}
  Endpoints = {"e1", "e2"}
  Callers = {c1, c2}
  Requests <- NameRequests
  InitNodes <- NameNodes
  BatchSize = 2
  MaxPolicy = 1
INVARIANTS UniqueGivenNames PeersCurrent PolicyReachesPeers
PROPERTIES WritesReturn
