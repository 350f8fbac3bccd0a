SPECIFICATION Spec
CONSTANTS
  s1 = s1
  s2 = s2
  s3 = s3
  Sessions <- TwoSessions
  Scopes <- QuietScope
  MaxExpiry = 0
  MaxRestarts = 0
CHECK_DEADLOCK FALSE
INVARIANT PeersSeePresence
