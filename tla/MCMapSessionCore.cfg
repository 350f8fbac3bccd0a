SPECIFICATION FairSpec
CONSTANTS
  s1 = s1
  s2 = s2
  s3 = s3
  Sessions <- ThreeSessions
  Scopes <- AllScopes
  MaxExpiry = 1
  MaxRestarts = 1
CHECK_DEADLOCK FALSE
INVARIANTS NoGhostConnection PresenceExact EphemeralIsCollected
PROPERTIES DeletedSessionsEnd
