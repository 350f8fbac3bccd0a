SPECIFICATION Spec
CONSTANTS
  p1 = p1
  p2 = p2
  c1 = c1
  c2 = c2
  Peers <- TwoPeers
  Conns <- TwoConns
  Kinds <- MembershipKinds
  MaxOpen = 1
  MaxChanges = 3
CHECK_DEADLOCK FALSE
SYMMETRY Symmetry
INVARIANTS PeerListsConverge SentPeersExact
