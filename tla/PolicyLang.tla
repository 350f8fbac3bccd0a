------------------------------ MODULE PolicyLang ------------------------------
(***************************************************************************)
(* The policy language of hscontrol/policy/v2 as pure operators: alias     *)
(* resolution, grant compilation, the packet filter of a node, who sees    *)
(* whom, which routes a viewer gets from a peer, route approval, tag       *)
(* ownership and node attributes.                                          *)
(*                                                                         *)
(* An address is a point. A prefix is the set of points it covers, so that *)
(* Overlaps is a common point and a wider prefix is a superset. Ports and  *)
(* protocols are left out: every rule is about all of them. Order and      *)
(* repetition inside a rule are left out, they do not change what it lets  *)
(* through; grants are a sequence, as their position is a cache key.       *)
(*                                                                         *)
(* A world w is what a policy is compiled from: [pol, users, nodes].       *)
(***************************************************************************)
EXTENDS Integers, Sequences, FiniteSets

LOCAL INSTANCE SequencesExt

CONSTANTS
  Addrs,     \* tailnet addresses: CGNAT and the Tailscale ULA range
  Lans,      \* points of the subnets behind routers
  Wan,       \* a public address
  PointsOf   \* the points each announced or configured prefix covers

Points == Addrs \cup Lans \cup {Wan}

RoutePrefixes == DOMAIN PointsOf

ASSUME PolicyLangAssumption ==
  /\ Wan \notin Addrs \cup Lans
  /\ Addrs \cap Lans = {}
  /\ \A p \in RoutePrefixes : PointsOf[p] \subseteq Points

(* 0.0.0.0/0 and ::/0.                                                      *)
IsExitRoute(p) == PointsOf[p] = Points

(* util.TheInternet: everything but the private, CGNAT and ULA ranges.      *)
TheInternet == {Wan}

Overlaps(A, B) == A \cap B # {}

-----------------------------------------------------------------------------
(* Nodes: [user, tags, addrs, announced, approved]; user is 0 for a tagged  *)
(* node, and users is a function from identifiers to [name, email, prov].   *)

IsTagged(n) == n.tags # {}

SubnetRoutes(n) == {r \in n.announced \cap n.approved : ~IsExitRoute(r)}

ExitRoutes(n) == {r \in n.announced \cap n.approved : IsExitRoute(r)}

IsExitNode(n) == ExitRoutes(n) # {}

RoutePoints(R) == {PointsOf[r] : r \in R}

HasPolicyChange(n, o) ==
  \/ n.user # o.user \/ n.tags # o.tags \/ n.addrs # o.addrs
  \/ SubnetRoutes(n) # SubnetRoutes(o) \/ ExitRoutes(n) # ExitRoutes(o)

HasNetworkChanges(n, o) ==
  \/ n.addrs # o.addrs \/ n.announced # o.announced
  \/ SubnetRoutes(n) # SubnetRoutes(o) \/ ExitRoutes(n) # ExitRoutes(o)

AddrsOf(w, Test(_)) == UNION {w.nodes[i].addrs : i \in {j \in DOMAIN w.nodes : Test(w.nodes[j])}}

-----------------------------------------------------------------------------
(* Aliases: [k |-> kind, v |-> value].                                      *)

Star == [k |-> "star", v |-> ""]
User(u) == [k |-> "user", v |-> u]
Group(g) == [k |-> "group", v |-> g]
Tag(t) == [k |-> "tag", v |-> t]
Host(h) == [k |-> "host", v |-> h]
Prefix(p) == [k |-> "prefix", v |-> p]
AutoGroup(g) == [k |-> "auto", v |-> g]
Self == AutoGroup("self")
Internet == AutoGroup("internet")
DangerAll == AutoGroup("danger-all")

(* The users a name may mean: the one with that provider identity, else     *)
(* all with that e-mail or name; exactly one of them resolves.              *)
resolveUser(users, name) ==
  LET byProvider == {i \in DOMAIN users : users[i].prov = name}
      potential == {i \in DOMAIN users : name \in {users[i].email, users[i].name}}
  IN IF byProvider # {} THEN {CHOOSE i \in byProvider : \A j \in byProvider : i <= j}
     ELSE potential

UserFound(users, name) == Cardinality(resolveUser(users, name)) = 1

(* An ambiguous or unknown name contributes no node.                        *)
UsernameResolve(w, name) ==
  AddrsOf(w, LAMBDA n : ~IsTagged(n) /\ resolveUser(w.users, name) = {n.user})

GroupMembers(pol, g) == IF g \in DOMAIN pol.groups THEN pol.groups[g] ELSE {}

GroupResolve(w, g) == UNION {UsernameResolve(w, u) : u \in GroupMembers(w.pol, g)}

TagResolve(w, t) == AddrsOf(w, LAMBDA n : t \in n.tags)

Singles(A) == {{x} : x \in A}

AutoGroupResolve(w, g) ==
  CASE g = "internet"   -> {TheInternet}
    [] g = "member"     -> Singles(AddrsOf(w, LAMBDA n : ~IsTagged(n)))
    [] g = "tagged"     -> Singles(AddrsOf(w, LAMBDA n : IsTagged(n)))
    [] g = "danger-all" -> {Points}
    [] OTHER            -> {}

(* Alias.Resolve: the prefixes an alias stands for (IPSet.Prefixes).        *)
Resolve(w, a) ==
  CASE a.k = "star"   -> {Addrs}
    [] a.k = "user"   -> Singles(UsernameResolve(w, a.v))
    [] a.k = "group"  -> Singles(GroupResolve(w, a.v))
    [] a.k = "tag"    -> Singles(TagResolve(w, a.v))
    [] a.k = "host"   -> IF a.v \in DOMAIN w.pol.hosts THEN {PointsOf[w.pol.hosts[a.v]]} ELSE {}
    [] a.k = "prefix" -> {PointsOf[a.v]}
    [] a.k = "auto"   -> AutoGroupResolve(w, a.v)

(* The error it returns along with them.                                    *)
ResolveFails(w, a) ==
  \/ a.k = "user" /\ ~UserFound(w.users, a.v)
  \/ a.k = "group" /\ \E u \in GroupMembers(w.pol, a.v) : ~UserFound(w.users, u)
  \/ a.k = "host" /\ a.v \notin DOMAIN w.pol.hosts
  \/ a = Self

(* Aliases.Resolve: the union, and an error if any alias had one.           *)
ResolveAll(w, A) == UNION UNION {Resolve(w, a) : a \in A}

AnyResolveFails(w, A) == \E a \in A : ResolveFails(w, a)

approvedSubnetRoutes(w) ==
  UNION UNION {RoutePoints(SubnetRoutes(w.nodes[i])) : i \in DOMAIN w.nodes}

-----------------------------------------------------------------------------
(* Grants: [srcs, dsts, via, app, ip]; ACLs: [srcs, dsts] with dsts a       *)
(* sequence. A filter rule [srcs, dsts, caps] lets every point of srcs      *)
(* reach every prefix of dsts (caps = {}) or gives it the capabilities.     *)

Grant(srcs, dsts, via, app, ip) ==
  [srcs |-> srcs, dsts |-> dsts, via |-> via, app |-> app, ip |-> ip]

(* One grant per destination. Destinations other than autogroup:self come   *)
(* first unless all of them are autogroups.                                 *)
aclToGrants(acl) ==
  LET hasNonAutogroup == \E i \in DOMAIN acl.dsts : acl.dsts[i].k # "auto"
      ordered == IF hasNonAutogroup
                 THEN SelectSeq(acl.dsts, LAMBDA d : d # Self)
                        \o SelectSeq(acl.dsts, LAMBDA d : d = Self)
                 ELSE acl.dsts
  IN [i \in DOMAIN ordered |-> Grant(acl.srcs, {ordered[i]}, {}, {}, TRUE)]

Grants(pol) ==
  pol.grants \o FlattenSeq([i \in DOMAIN pol.acls |-> aclToGrants(pol.acls[i])])

FilterRule(srcs, dsts, caps) == [srcs |-> srcs, dsts |-> dsts, caps |-> caps]

FilterAllowAll == {FilterRule(Points, {Points}, {})}

(* Aliases that resolve to nothing at all rather than to an empty set.      *)
ResolvesToNil(w, a) == a = Self \/ (a.k = "host" /\ a.v \notin DOMAIN w.pol.hosts)

resolveSources(w, srcs) == {UNION Resolve(w, a) : a \in {b \in srcs : ~ResolvesToNil(w, b)}}

(* buildSrcIPStrings and srcIPsWithRoutes.                                  *)
buildSrcIPs(w, srcs) ==
  LET merged == UNION resolveSources(w, srcs)
  IN IF merged = {} THEN {}
     ELSE IF DangerAll \in srcs THEN Points
     ELSE IF Star \in srcs THEN merged \cup approvedSubnetRoutes(w)
     ELSE merged

destinationsToNetPortRange(w, dsts) ==
  UNION {IF d = Star THEN {Points} ELSE Resolve(w, d) : d \in dsts}

companionCaps == [drive |-> "drive-sharer", relay |-> "relay-target"]

(* Reversed rules: what the destinations are told about the sources.        *)
companionCapGrantRules(dstPoints, srcBlocks, app) ==
  {FilterRule(dstPoints, srcBlocks, {companionCaps[c]}) : c \in app \cap DOMAIN companionCaps}

compileOtherDests(w, grant, others, srcs) ==
  LET ports == destinationsToNetPortRange(w, others)
      capDsts == {d \in others : ~ResolveFails(w, d)}
      capBlocks == UNION {Resolve(w, d) : d \in capDsts}
      capPoints == UNION capBlocks \cup
                     (IF Star \in others THEN approvedSubnetRoutes(w) ELSE {})
      srcBlocks == UNION {Resolve(w, a) : a \in {b \in grant.srcs : ~ResolvesToNil(w, b)}}
  IN (IF grant.ip /\ ports # {} /\ srcs # {} THEN {FilterRule(srcs, ports, {})} ELSE {})
     \cup
     (IF grant.app # {} /\ capDsts # {}
      THEN {FilterRule(srcs, capBlocks, grant.app)}
             \cup companionCapGrantRules(capPoints, srcBlocks, grant.app)
      ELSE {})

resolveViaDestinations(w, dsts) ==
  UNION {Resolve(w, d) : d \in {e \in dsts : e # Internet /\ ~ResolveFails(w, e)}}

(* A via grant compiles to nothing global: its rules are made per node.     *)
compileOneViaGrant(w, grant) ==
  LET srcs == UNION resolveSources(w, grant.srcs)
  IN IF ~grant.ip \/ srcs = {} \/ Self \in grant.srcs THEN <<>>
     ELSE <<[cat |-> "via", rules |-> {}, tags |-> grant.via,
             dsts |-> resolveViaDestinations(w, grant.dsts),
             internet |-> Internet \in grant.dsts,
             srcs |-> buildSrcIPs(w, grant.srcs)]>>

compileOneGrant(w, grant) ==
  LET resolved == resolveSources(w, grant.srcs)
      others == grant.dsts \ {Self}
      rules == compileOtherDests(w, grant, others, buildSrcIPs(w, grant.srcs))
  IN IF grant.via # {} THEN compileOneViaGrant(w, grant)
     ELSE IF \/ Self \in grant.srcs \/ grant.srcs = {} \/ grant.dsts = {}
             \/ resolved = {} /\ grant.app = {}
     THEN <<>>
     ELSE IF Self \in grant.dsts
     THEN <<[cat |-> "self", rules |-> rules, srcs |-> resolved,
             app |-> grant.app, ip |-> grant.ip]>>
     ELSE <<[cat |-> "regular", rules |-> rules]>>

compileGrants(w) ==
  IF w.pol.open THEN <<>>
  ELSE LET grants == Grants(w.pol)
       IN FlattenSeq([i \in DOMAIN grants |-> compileOneGrant(w, grants[i])])

hasPerNodeGrants(cgs) == \E i \in DOMAIN cgs : cgs[i].cat # "regular"

(* Rules about ports with the same sources become one.                      *)
mergeFilterRules(rules) ==
  LET ports == {r \in rules : r.caps = {}}
      With(s) == {r \in ports : r.srcs = s}
  IN (rules \ ports)
     \cup {FilterRule(s, UNION {r.dsts : r \in With(s)}, {}) : s \in {r.srcs : r \in ports}}

globalFilterRules(cgs) ==
  mergeFilterRules(UNION {cgs[i].rules : i \in {j \in DOMAIN cgs : cgs[j].cat # "via"}})

compileFilterRules(w) ==
  IF w.pol.open THEN FilterAllowAll ELSE globalFilterRules(compileGrants(w))

-----------------------------------------------------------------------------
(* What a node gets on top of the global rules.                             *)

SameUserNodes(w, n) ==
  {w.nodes[i] : i \in {j \in DOMAIN w.nodes : ~IsTagged(w.nodes[j]) /\ w.nodes[j].user = n.user}}

(* autogroup:self, for an untagged node: its user's untagged devices that   *)
(* are among the sources reach all of the user's devices and subnets.       *)
compileAutogroupSelf(w, cg, n) ==
  LET same == SameUserNodes(w, n)
      addrs == UNION {m.addrs : m \in same}
      routes == UNION {RoutePoints(SubnetRoutes(m)) : m \in same}
      srcs == UNION {m.addrs : m \in {x \in same : \E S \in cg.srcs : Overlaps(x.addrs, S)}}
      withRoutes == srcs \cup UNION routes
  IN IF IsTagged(n) \/ srcs = {} THEN {}
     ELSE (IF cg.ip THEN {FilterRule(withRoutes, Singles(addrs) \cup routes, {})} ELSE {})
          \cup
          (IF cg.app # {}
           THEN {FilterRule(withRoutes, Singles(addrs), cg.app)}
                  \cup companionCapGrantRules(addrs, Singles(srcs) \cup routes, cg.app)
           ELSE {})

(* A via grant, for a node with one of its tags that serves a route         *)
(* overlapping a destination, or an exit route for autogroup:internet.      *)
compileViaForNode(cg, n) ==
  LET dsts == {d \in cg.dsts : \E r \in SubnetRoutes(n) : Overlaps(d, PointsOf[r])}
                \cup (IF cg.internet /\ IsExitNode(n) THEN {TheInternet} ELSE {})
  IN IF Overlaps(cg.tags, n.tags) /\ dsts # {} THEN {FilterRule(cg.srcs, dsts, {})} ELSE {}

filterRulesForNode(w, cgs, n) ==
  mergeFilterRules(UNION {
    cgs[i].rules \cup
    CASE cgs[i].cat = "regular" -> {}
      [] cgs[i].cat = "self"    -> compileAutogroupSelf(w, cgs[i], n)
      [] cgs[i].cat = "via"     -> compileViaForNode(cgs[i], n) : i \in DOMAIN cgs})

reduceCapGrantRule(n, rule) ==
  UNION {Singles(d \cap n.addrs) : d \in rule.dsts}
  \cup {d \in rule.dsts : \E r \in SubnetRoutes(n) : Overlaps(d, PointsOf[r])}

reduceDstPorts(n, rule) ==
  {d \in rule.dsts : \/ Overlaps(d, n.addrs)
                     \/ \E r \in SubnetRoutes(n) : Overlaps(d, PointsOf[r])
                     \/ IsExitNode(n) /\ d \subseteq TheInternet}

(* Only what concerns the node itself is sent to it.                        *)
ReduceFilterRules(n, rules) ==
  LET reduced(r) == IF r.caps # {} THEN reduceCapGrantRule(n, r) ELSE reduceDstPorts(n, r)
  IN {[r EXCEPT !.dsts = reduced(r)] : r \in {q \in rules : reduced(q) # {}}}

-----------------------------------------------------------------------------
(* Who sees whom.                                                           *)

MatchesFromFilterRules(rules) == {[srcs |-> r.srcs, dests |-> UNION r.dsts] : r \in rules}

DestsIsTheInternet(m) == TheInternet \subseteq m.dests

(* canAccess with the routes the caller lets each side speak for.           *)
canAccess(ms, n1, n2, srcRoutes, dstRoutes, dstIsExit) ==
  \E m \in ms :
    /\ Overlaps(m.srcs, n1.addrs \cup UNION RoutePoints(srcRoutes))
    /\ \/ Overlaps(m.dests, n2.addrs \cup UNION RoutePoints(dstRoutes))
       \/ dstIsExit /\ DestsIsTheInternet(m)

CanAccess(ms, n1, n2) ==
  canAccess(ms, n1, n2, SubnetRoutes(n1), SubnetRoutes(n2), IsExitNode(n2))

sameRouteScope(a, b) == ~IsTagged(a) /\ ~IsTagged(b) /\ a.user = b.user

routesInScope(owner, peer) == IF sameRouteScope(owner, peer) THEN SubnetRoutes(peer) ELSE {}

(* One direction of the slow path: the rules of a node, msA, admit it to a  *)
(* peer, or admit the peer to it.                                           *)
OwnRulesConnect(msA, a, b) ==
  \/ canAccess(msA, a, b, SubnetRoutes(a), routesInScope(a, b), IsExitNode(b))
  \/ canAccess(msA, b, a, routesInScope(a, b), SubnetRoutes(a), IsExitNode(a))

(* BuildPeerMap over the given nodes, as the set of unordered pairs it      *)
(* records. perNode[i] are the matchers of node i, used on the slow path.   *)
BuildPeerMap_OneWay(nodes, needsPerNode, global, perNode) ==
  {{i, j} : <<i, j>> \in {p \in (DOMAIN nodes) \X (DOMAIN nodes) :
     /\ p[1] < p[2]
     /\ LET a == nodes[p[1]] b == nodes[p[2]]
        IN IF ~needsPerNode
           THEN CanAccess(global, a, b)
           ELSE OwnRulesConnect(perNode[p[1]], a, b)}}

BuildPeerMap(nodes, needsPerNode, global, perNode) ==
  {{i, j} : <<i, j>> \in {p \in (DOMAIN nodes) \X (DOMAIN nodes) :
     /\ p[1] # p[2]
     /\ LET a == nodes[p[1]] b == nodes[p[2]]
        IN IF ~needsPerNode
           THEN CanAccess(global, a, b)
           ELSE OwnRulesConnect(perNode[p[1]], a, b)}}

-----------------------------------------------------------------------------
(* Which routes a viewer gets through a peer.                               *)

CanAccessRoute(n, ms, r) ==
  LET subnets == UNION RoutePoints(SubnetRoutes(n))
  IN \E m \in ms :
       \/ Overlaps(m.srcs, n.addrs \cup subnets) /\ Overlaps(m.dests, PointsOf[r])
       \/ Overlaps(m.srcs, PointsOf[r]) /\ Overlaps(m.dests, n.addrs \cup subnets)

ReduceRoutes(n, routes, ms) == {r \in routes : CanAccessRoute(n, ms, r)}

ViewerMatchesGrant(w, viewer, grant) ==
  \E a \in grant.srcs : ~ResolveFails(w, a) /\ Overlaps(viewer.addrs, UNION Resolve(w, a))

GrantCovers(w, grant, r) == \E d \in resolveViaDestinations(w, grant.dsts) : Overlaps(d, PointsOf[r])

(* The lowest-numbered node that carries a via tag and serves the route.    *)
ViaPrimary(w, grant, r) ==
  LET group == {i \in DOMAIN w.nodes : /\ Overlaps(grant.via, w.nodes[i].tags)
                                       /\ r \in SubnetRoutes(w.nodes[i])}
  IN IF group = {} THEN 0 ELSE CHOOSE i \in group : \A j \in group : i <= j

(* Via grants steer a viewer to (include) or away from (exclude) the peer's *)
(* routes; within a via group only its primary is included; a regular grant *)
(* over the same route hands it back to the election.                       *)
ViaRoutesForPeer(w, viewer, peerID, peer) ==
  LET grants == {Grants(w.pol)[i] : i \in DOMAIN Grants(w.pol)}
      matching == {g \in grants : ViewerMatchesGrant(w, viewer, g)}
      vias == {g \in matching : g.via # {}}
      regular == matching \ vias
      matched(g) == {r \in SubnetRoutes(peer) : GrantCovers(w, g, r)}
                      \cup (IF Internet \in g.dsts THEN ExitRoutes(peer) ELSE {})
      included == UNION {matched(g) : g \in {h \in vias : Overlaps(h.via, peer.tags)}}
      excluded == UNION {matched(g) : g \in {h \in vias : ~Overlaps(h.via, peer.tags)}}
      demoted == {r \in included : \E g \in vias : /\ GrantCovers(w, g, r)
                                                    /\ ViaPrimary(w, g, r) \notin {0, peerID}}
      byRegular(r) == \E g \in regular : GrantCovers(w, g, r)
  IN [include |-> included \ demoted,
      exclude |-> {r \in excluded \cup demoted : ~byRegular(r)},
      usePrimary |-> {r \in included \ demoted : byRegular(r)}]

(* ScopedRoutes: the primaries of the viewer's user shadow the shared ones. *)
VisiblePrimary(prim, viewer, r) ==
  IF ~IsTagged(viewer) /\ prim[viewer.user][r] # 0 THEN prim[viewer.user][r] ELSE prim[0][r]

RoutesForPeer_AllScopes(w, prim, ms, viewer, peerID, peer) ==
  LET primaries == {r \in RoutePrefixes : \E s \in DOMAIN prim : prim[s][r] = peerID}
  IN UNION {ReduceRoutes(viewer, (primaries \cup ExitRoutes(peer)) \ via.exclude, ms)
              \cup {r \in via.include : r \in primaries \/ r \notin via.usePrimary}
            : via \in {ViaRoutesForPeer(w, viewer, peerID, peer)}}
     \cup (primaries \cap SubnetRoutes(viewer))

(* State.RoutesForPeer, given the primaries per scope and prefix.           *)
RoutesForPeer(w, prim, ms, viewer, peerID, peer) ==
  LET allPrimaries == {r \in RoutePrefixes : \E s \in DOMAIN prim : prim[s][r] = peerID}
      primaries == {r \in allPrimaries : VisiblePrimary(prim, viewer, r) = peerID}
      steered(via) == {r \in via.include : r \in allPrimaries \/ r \notin via.usePrimary}
      routes(via) == (primaries \cup ExitRoutes(peer)) \ via.exclude
      coRouted == primaries \cap SubnetRoutes(viewer)
  IN UNION {ReduceRoutes(viewer, routes(via), ms) \cup steered(via)
            : via \in {ViaRoutesForPeer(w, viewer, peerID, peer)}} \cup coRouted

-----------------------------------------------------------------------------
(* Tag owners and route approval.                                           *)

TagNames(pol) == DOMAIN pol.tagOwners

UndefinedTagReference(pol) ==
  \E t \in TagNames(pol) : \E o \in pol.tagOwners[t] : o.k = "tag" /\ o.v \notin TagNames(pol)

(* Owners of a tag with nested tags replaced by theirs; a cycle adds none.  *)
flattenTags_Direct(pol, tag) == {o \in pol.tagOwners[tag] : o.k # "tag"}

flattenTags(pol, tag) ==
  LET flat[t \in TagNames(pol), visiting \in SUBSET TagNames(pol)] ==
        IF t \in visiting THEN {}
        ELSE UNION {IF o.k = "tag" THEN flat[o.v, visiting \cup {t}] ELSE {o}
                    : o \in pol.tagOwners[t]}
  IN flat[tag, {}]

resolveTagOwners(w) ==
  [t \in TagNames(w.pol) |-> UNION UNION {Resolve(w, o) : o \in flattenTags(w.pol, t)}]

resolveAutoApprovers(w) ==
  [routes |-> [p \in DOMAIN w.pol.autoRoutes |-> ResolveAll(w, w.pol.autoRoutes[p])],
   exit |-> ResolveAll(w, w.pol.autoExit)]

userMatchesOwner(pol, users, user, o) ==
  CASE o.k = "user"  -> resolveUser(users, o.v) = {user}
    [] o.k = "group" -> \E u \in GroupMembers(pol, o.v) : resolveUser(users, u) = {user}
    [] OTHER         -> FALSE

UserCanHaveTag(pol, users, user, t) ==
  t \in TagNames(pol) /\ \E o \in pol.tagOwners[t] : userMatchesOwner(pol, users, user, o)

(* By address among the resolved owners, else by the node's own user.       *)
NodeCanHaveTag(pol, users, ownerMap, n, t) ==
  t \in TagNames(pol) /\ (\/ Overlaps(n.addrs, ownerMap[t])
                          \/ ~IsTagged(n) /\ UserCanHaveTag(pol, users, n.user, t))

NodeCanApproveRoute(auto, n, r) ==
  IF IsExitRoute(r) THEN Overlaps(n.addrs, auto.exit)
  ELSE \E p \in DOMAIN auto.routes : PointsOf[r] \subseteq PointsOf[p]
                                       /\ Overlaps(n.addrs, auto.routes[p])

ApproveRoutesWithPolicy(auto, n) ==
  n.approved \cup {r \in n.announced : NodeCanApproveRoute(auto, n, r)}

-----------------------------------------------------------------------------
(* Node attributes: pol.nodeAttrs is a set of [targets, attrs].             *)

(* One target that does not resolve fails the whole compilation.            *)
NodeAttrsFail(w) == \E na \in w.pol.nodeAttrs : na.attrs # {} /\ AnyResolveFails(w, na.targets)

compileNodeAttrs(w) ==
  LET attrsOf(n) == UNION {na.attrs : na \in {x \in w.pol.nodeAttrs :
                                                Overlaps(n.addrs, ResolveAll(w, x.targets))}}
                      \cup (IF w.pol.randomizeClientPort THEN {"randomize-client-port"} ELSE {})
  IN [i \in {j \in DOMAIN w.nodes : attrsOf(w.nodes[j]) # {}} |-> attrsOf(w.nodes[i])]

=============================================================================
