CONSTANTS
  Pages <- MCPages
  AliasTexts <- MCAliasTexts
  PortTexts <- MCPortTexts
  Documents <- MCDocuments
  Addrs <- MCAddrs
  Lans <- MCLans
  Wan = "wan"
  PointsOf <- MCPointsOf
  Callers = {c1}
  Scopes <- MCGroupOnly
  InitStore <- MCStore
  InitUsers <- Both
  MaxOps = 2
SPECIFICATION Spec
INVARIANT CheckRulesAnswered
