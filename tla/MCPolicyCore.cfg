CONSTANTS
  Pages <- MCPages
  AliasTexts <- MCAliasTexts
  PortTexts <- MCPortTexts
  Documents <- MCDocuments
  Addrs <- MCAddrs
  Lans <- MCLans
  Wan = "wan"
  PointsOf <- MCPointsOf
  Callers = {c1, c2}
  Scopes <- MCScopes
  InitStore <- MCStore
  InitUsers <- Both
  MaxOps = 2
SPECIFICATION Spec
INVARIANTS CachesCurrent PeerMapFollowsPolicy PolicyAgrees PolicyTextsAgree
PROPERTIES SilentUpdatesChangeNothing
