------------------------------ MODULE NodeRoutes ------------------------------
(***************************************************************************)
(* The fields of a node that routing, peer visibility and naming read, the *)
(* closures the server hands to NodeStore.UpdateNodes, and the pure        *)
(* algorithms of hscontrol/state/node_store.go: the primary-route election *)
(* (electPrimaryRoutes, electOneScope), the given-name resolution          *)
(* (resolveGivenName) and the change classification (updateChanges).       *)
(*                                                                         *)
(* A definition with an underscore in its name (electOneScope_NoKeep) is a *)
(* deliberate fault of the one it is named after: a plausible mistake in   *)
(* the code, kept to show that a property notices it, and used nowhere.    *)
(***************************************************************************)
EXTENDS Integers, Sequences, FiniteSets

CONSTANTS
  NodeIDs,       \* node identifiers, positive numbers (0 is "no node")
  Users,         \* user identifiers, positive numbers (0 is the shared scope)
  Prefixes,      \* the announced prefixes
  ExitPrefixes,  \* 0.0.0.0/0 and ::/0
  Addrs,         \* the address sets a node may hold
  Labels,        \* DNS labels without a collision suffix
  Endpoints      \* everything about a node that only its own entry carries

ASSUME NodeRoutesAssumption ==
  /\ NodeIDs \subseteq Nat \ {0}
  /\ IsFiniteSet(NodeIDs)
  /\ Users \subseteq Nat \ {0}
  /\ ExitPrefixes \subseteq Prefixes

-----------------------------------------------------------------------------
(* Names. "web-1-2" is [base |-> "web", bumps |-> <<1, 2>>]: a label and    *)
(* the collision suffixes appended to it, so that a name a client asks for  *)
(* can itself look like somebody else's bumped name.                        *)

Names == [base : Labels \cup {"", "node"}, bumps : Seq(Nat)]

NoName == [base |-> "", bumps |-> <<>>]

fallbackGivenName == [base |-> "node", bumps |-> <<>>]

ValidLabel(name) == name # NoName

Bump(name, i) ==
  IF i = 0 THEN name ELSE [name EXCEPT !.bumps = Append(@, i)]

Lowest(S) == CHOOSE x \in S : \A y \in S : x <= y

-----------------------------------------------------------------------------
(* Nodes.                                                                   *)

NoNode == 0

Global == 0

Scopes == Users \cup {Global}

Node ==
  [user      : Scopes,
   tagged    : BOOLEAN,
   addr      : Addrs,
   announced : SUBSET Prefixes,
   approved  : SUBSET Prefixes,
   online    : BOOLEAN,
   unhealthy : BOOLEAN,
   name      : Names,
   endpoint  : Endpoints]

\* A NodeStore map: some of the identifiers, each with its node.
IsNodeMap(m) == DOMAIN m \in SUBSET NodeIDs /\ m \in [DOMAIN m -> Node]

SubnetRoutes(n) == (n.announced \cap n.approved) \ ExitPrefixes

ExitRoutes(n) == n.announced \cap n.approved \cap ExitPrefixes

AllApprovedRoutes(n) == SubnetRoutes(n) \cup ExitRoutes(n)

\* Tagged nodes share one scope, user-owned nodes vote within their user.
ScopeOf(n) == IF n.tagged THEN Global ELSE n.user

-----------------------------------------------------------------------------
(* The closures of hscontrol/state/state.go that reach NodeStore.UpdateNodes *)
(* and the fields above.  "presence" is the one Connect and the last        *)
(* Disconnect share, "expiry" is SetNodeExpiry's, which re-derives IsOnline *)
(* and nothing else; "hostinfo" is a map request's, which renames only a     *)
(* node whose given name still follows its hostname.                        *)

Closures ==
       [fn : {"presence", "expiry"}, online : BOOLEAN]
  \cup [fn : {"health"}, healthy : BOOLEAN]
  \cup [fn : {"approve"}, routes : SUBSET Prefixes]
  \cup [fn : {"hostinfo"}, routes : SUBSET Prefixes, rename : BOOLEAN, name : Names]
  \cup [fn : {"endpoint"}, endpoint : Endpoints]
  \cup [fn : {"tags"}]

healthSetter(n, healthy) ==
  IF ~healthy /\ (~n.online \/ AllApprovedRoutes(n) = {})
  THEN n
  ELSE [n EXCEPT !.unhealthy = ~healthy]

DropStaleHealth(n) ==
  IF AllApprovedRoutes(n) = {} THEN [n EXCEPT !.unhealthy = FALSE] ELSE n

Effect(f, n) ==
  CASE f.fn = "presence" -> [n EXCEPT !.online = f.online, !.unhealthy = FALSE]
    [] f.fn = "expiry"   -> [n EXCEPT !.online = f.online]
    [] f.fn = "health"   -> healthSetter(n, f.healthy)
    [] f.fn = "approve"  -> DropStaleHealth([n EXCEPT !.approved = f.routes])
    [] f.fn = "hostinfo" -> DropStaleHealth(
                              [n EXCEPT !.announced = f.routes,
                                        !.name = IF f.rename THEN f.name ELSE @])
    [] f.fn = "endpoint" -> [n EXCEPT !.endpoint = f.endpoint]
    [] f.fn = "tags"     -> [n EXCEPT !.tagged = TRUE, !.user = Global]

-----------------------------------------------------------------------------
(* resolveGivenName: base, base-1, base-2, ... and the first one that no    *)
(* other node holds.  The loop ends within as many bumps as there are names.*)

TakenNames(nodes, self) == {nodes[i].name : i \in DOMAIN nodes \ {self}}

resolveGivenName_KeepsBase(nodes, self, wanted) ==
  IF wanted = NoName THEN fallbackGivenName ELSE wanted

resolveGivenName(nodes, self, wanted) ==
  LET base  == IF wanted = NoName THEN fallbackGivenName ELSE wanted
      taken == TakenNames(nodes, self)
      free  == {i \in 0..Cardinality(taken) : Bump(base, i) \notin taken}
  IN  Bump(base, Lowest(free))

-----------------------------------------------------------------------------
(* What an update moved: (relation, election) of updateChanges.             *)

HasPolicyChange(pre, post) ==
  \/ pre.user # post.user
  \/ pre.tagged # post.tagged
  \/ pre.addr # post.addr
  \/ SubnetRoutes(pre) # SubnetRoutes(post)
  \/ ExitRoutes(pre) # ExitRoutes(post)

HasNetworkChanges(pre, post) ==
  \/ pre.addr # post.addr
  \/ pre.announced # post.announced
  \/ SubnetRoutes(pre) # SubnetRoutes(post)
  \/ ExitRoutes(pre) # ExitRoutes(post)

RelationMoved_NoRoutes(pre, post) ==
  \/ pre.user # post.user
  \/ pre.tagged # post.tagged
  \/ pre.addr # post.addr

RelationMoved(pre, post) ==
  HasPolicyChange(pre, post) \/ HasNetworkChanges(pre, post)

ElectionMoved_OnlineOnly(pre, post) ==
  RelationMoved(pre, post) \/ pre.online # post.online

ElectionMoved(pre, post) ==
  \/ RelationMoved(pre, post)
  \/ pre.online # post.online
  \/ pre.unhealthy # post.unhealthy

-----------------------------------------------------------------------------
(* The election: routes[scope][prefix] is the primary advertiser, or NoNode. *)

Routes == [Scopes -> [Prefixes -> NodeIDs \cup {NoNode}]]

NoRoutes == [s \in Scopes |-> [p \in Prefixes |-> NoNode]]

Candidates(nodes, s, p) ==
  {i \in DOMAIN nodes : /\ ScopeOf(nodes[i]) = s
                        /\ nodes[i].online
                        /\ p \in AllApprovedRoutes(nodes[i])
                        /\ p \notin ExitPrefixes}

HealthyCandidates(nodes, s, p) ==
  {i \in Candidates(nodes, s, p) : ~nodes[i].unhealthy}

electOneScope_NoKeep(nodes, s, p, prev) ==
  LET healthy == HealthyCandidates(nodes, s, p)
  IN  IF healthy # {} THEN Lowest(healthy)
      ELSE IF prev \in Candidates(nodes, s, p) THEN prev
      ELSE NoNode

electOneScope(nodes, s, p, prev) ==
  LET healthy == HealthyCandidates(nodes, s, p)
  IN  IF prev \in healthy THEN prev
      ELSE IF healthy # {} THEN Lowest(healthy)
      ELSE IF prev \in Candidates(nodes, s, p) THEN prev
      ELSE NoNode

electPrimaryRoutes(nodes, prev) ==
  [s \in Scopes |-> [p \in Prefixes |-> electOneScope(nodes, s, p, prev[s][p])]]

-----------------------------------------------------------------------------
(* What policy.PolicyManager.BuildPeerMap reads of a node.  The adjacency it *)
(* computes is a function of these and of the policy, and is represented by  *)
(* them: two adjacencies are equal here exactly when no policy can tell      *)
(* them apart.                                                              *)

PeerInput(n) ==
  [user |-> n.user, tagged |-> n.tagged, addr |-> n.addr,
   subnet |-> SubnetRoutes(n), exit |-> ExitRoutes(n)]

PeerInputs(nodes) == [i \in DOMAIN nodes |-> PeerInput(nodes[i])]
=============================================================================
