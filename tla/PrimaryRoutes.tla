----------------------------- MODULE PrimaryRoutes -----------------------------
(***************************************************************************)
(* What the server promises about primary subnet routers, without saying   *)
(* how or when it computes them (the doc comments of electPrimaryRoutes    *)
(* and Snapshot.routes): whatever happens to the nodes, the published      *)
(* assignment is the previous one corrected as little as possible.         *)
(***************************************************************************)
EXTENDS NodeRoutes

VARIABLES nodes,   \* the published nodes
          routes   \* the published primary assignment

\* The assignment new, published after old, is right for the nodes ns.
Promise(ns, old, new) ==
  \A s \in Scopes, p \in Prefixes :
    LET was == old[s][p]
        now == new[s][p]
        cand == Candidates(ns, s, p)
        good == HealthyCandidates(ns, s, p)
    IN  /\ now # NoNode => now \in cand
        /\ good # {} => now \in good
        /\ was \in good => now = was
        /\ good = {} => now \in {was, NoNode}
        /\ good = {} /\ was \in cand => now = was
        /\ now # was /\ now # NoNode => \A i \in good : now <= i

Init ==
  /\ IsNodeMap(nodes)
  /\ routes \in Routes
  /\ Promise(nodes, NoRoutes, routes)

Republish ==
  /\ IsNodeMap(nodes')
  /\ routes' \in Routes
  /\ Promise(nodes', routes, routes')

Spec == Init /\ [][Republish]_<<nodes, routes>>
=============================================================================
