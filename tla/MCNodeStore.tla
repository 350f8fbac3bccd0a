------------------------------ MODULE MCNodeStore ------------------------------
(***************************************************************************)
(* Small instances of NodeStore: one set of requests per question.         *)
(***************************************************************************)
EXTENDS NodeStore, TLC

CallerSymmetry == Permutations(Callers)

mcNode(user, online) ==
  [user |-> user, tagged |-> FALSE, addr |-> "a1",
   announced |-> {"p"}, approved |-> {"p"}, online |-> online,
   unhealthy |-> FALSE, name |-> [base |-> "web", bumps |-> <<>>],
   endpoint |-> "e1"]

Named(n, name) == [n EXCEPT !.name = name]

Web == [base |-> "web", bumps |-> <<>>]

Web1 == [base |-> "web", bumps |-> <<1>>]

One(i, f) == [op |-> "update", updates |-> [j \in {i} |-> f]]

Presence(b) == [fn |-> "presence", online |-> b]

Health(b) == [fn |-> "health", healthy |-> b]

Approve(R) == [fn |-> "approve", routes |-> R]

Hostname(name, R) ==
  [fn |-> "hostinfo", routes |-> R, rename |-> TRUE, name |-> name]

Endpoint(e) == [fn |-> "endpoint", endpoint |-> e]

(* Three routers of one user, the third online from the start: sessions    *)
(* come and go, the prober marks two nodes in one update, an approval is    *)
(* withdrawn and given back, and some updates move nothing the election     *)
(* reads.                                                                   *)
RouteNodes ==
  [i \in {1, 2, 3} |-> Named(mcNode(1, i = 3), [base |-> "web", bumps |-> <<i>>])]

RouteRequests ==
       {One(i, Presence(b)) : i \in {1, 2}, b \in BOOLEAN}
  \cup {One(3, Approve(R)) : R \in {{}, {"p"}}}
  \cup {[op |-> "update", updates |-> [i \in {1, 3} |-> Health(i = b)]] : b \in {1, 3}}
  \cup {One(2, [fn |-> "expiry", online |-> FALSE]),
        One(1, Endpoint("e1"))}

(* Two nodes that want one name, or the name the other was bumped to, while *)
(* an admin renames, one leaves, a route that visibility depends on is no   *)
(* longer announced, and the policy is replaced.                            *)
NameNodes == [i \in {1} |-> Named(mcNode(1, TRUE), Web)]

NameRequests ==
  {[op |-> "put", id |-> 2, node |-> Named(mcNode(1, FALSE), Web)],
   [op |-> "del", id |-> 1],
   [op |-> "setName", id |-> 1, name |-> Web1],
   [op |-> "update", updates |-> [i \in {1, 2} |-> Hostname(Web, IF i = 1 THEN {} ELSE {"p"})]]}
=============================================================================
