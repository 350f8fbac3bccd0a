----------------------------- MODULE MCMapSession -----------------------------
(***************************************************************************)
(* Instances of MapSession for TLC: two or three sessions of one node.     *)
(* Sessions are interchangeable, so they are a symmetry set in the runs    *)
(* that check no liveness.                                                 *)
(***************************************************************************)
EXTENDS MapSession, TLC

CONSTANTS s1, s2, s3

TwoSessions == {s1, s2}

ThreeSessions == {s1, s2, s3}

Scope(S, ops) == [sessions |-> S, operations |-> ops]

(* Reconnects only; key expiry and re-authentication; a restart; all three  *)
(* with one session; deletion and address backfill.                         *)
QuietScope == {Scope(TwoSessions, {})}

AuthScope == {Scope(TwoSessions, {"expiry", "reauth"})}

AllScopes ==
  {Scope(ThreeSessions, {}),
   Scope(TwoSessions, {"expiry", "reauth"}),
   Scope(TwoSessions, {"restart"}),
   Scope({s1}, {"expiry", "reauth", "restart"}),
   Scope(TwoSessions, {"delete", "backfill"})}
=============================================================================
