------------------------------ MODULE MCBatcher ------------------------------
(***************************************************************************)
(* Instances of Batcher for TLC: one recipient, up to two peers and two    *)
(* connections, one after the other (MaxOpen = 1) or overlapping (2).      *)
(***************************************************************************)
EXTENDS Batcher, TLC

CONSTANTS p1, p2, c1, c2

OnePeer == {p1}

TwoPeers == {p1, p2}

OneConn == {c1}

TwoConns == {c1, c2}

AllKinds == {"peer", "removed", "patch", "policy", "full", "ping"}

MembershipKinds == {"peer", "removed", "policy"}

LiveKinds == {"patch", "full", "ping"}

Symmetry == Permutations(Peers) \cup Permutations(Conns)
=============================================================================
