CONSTANTS
  w1 = w1
  h1 = h1
  h2 = h2
  u1 = u1
  u2 = u2
  b1 = b1
  b2 = b2
  u3 = u3
  n1 = n1
  n2 = n2
  m1 = m1
  m2 = m2
  Machines = {m1, m2}
  Users = {u1, u2, u3}
  Claims <- mcClaims
  UserInfo <- mcUserInfo
  OIDCConfig <- mcOIDCConfig
  Browsers = {b1, b2}
  Accounts <- mcAccounts
  Pairs <- mcPairs
  Owner <- mcOwner
  Slots = {w1}
  Handlers = {h1, h2}
  NoUser = NoUser
  NoNode = NoNode
  None = None
  MaxEntries = 1
  MaxTime = 1
  Period = 1
  Scopes <- mcChecks
SPECIFICATION Spec
CHECK_DEADLOCK FALSE
INVARIANT FailedChecksAreRefused
