SPECIFICATION Spec
CONSTANTS
  s1 = s1
  s2 = s2
  s3 = s3
  Sessions <- TwoSessions
  Scopes <- AuthScope
  MaxExpiry = 1
  MaxRestarts = 0
CHECK_DEADLOCK FALSE
INVARIANT OnlineIsCached
