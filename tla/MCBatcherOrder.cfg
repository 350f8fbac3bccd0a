SPECIFICATION Spec
CONSTANTS
  p1 = p1
  p2 = p2
  c1 = c1
  c2 = c2
  Peers <- OnePeer
  Conns <- TwoConns
  Kinds <- AllKinds
  MaxOpen = 1
  MaxChanges = 2
CHECK_DEADLOCK FALSE
INVARIANT PresenceConverges
