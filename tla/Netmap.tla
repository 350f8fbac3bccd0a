-------------------------------- MODULE Netmap --------------------------------
(***************************************************************************)
(* From a change of a node to the netmaps of its peers. The operations of  *)
(* hscontrol/state/state.go write the NodeStore, refresh the policy        *)
(* manager and return a change.Change (hscontrol/types/change); the        *)
(* batcher queues it for every map session; the mapper (hscontrol/mapper)  *)
(* turns it into a MapResponse from the state as it is then; the client    *)
(* applies the response to the netmap it has.                              *)
(*                                                                         *)
(* The server sends as little as it can: a patch, a whole peer, or a       *)
(* recomputation. The properties ask whether the netmap a client puts      *)
(* together from these is the one a full map response would give it.       *)
(*                                                                         *)
(* An optional value is a set of at most one element. The policy is        *)
(* reduced to who sees whom, which routes it approves, and attributes; the *)
(* language is PolicyLang's. The tick and the workers of the batcher are   *)
(* Batcher's; here a session has its queue and the bundle being delivered. *)
(*                                                                         *)
(* A definition with an underscore in its name is a deliberate fault of    *)
(* the one it is named after, used nowhere.                                *)
(***************************************************************************)
EXTENDS NodeRoutes

CONSTANTS
  Callers,      \* goroutines serving map requests and administrators
  Viewers,      \* nodes with a map session
  InitNodes,
  MapRequests,  \* [id, key, disco, eps, stun, hi]
  Commands,     \* [op, id, arg]: what administrators and sessions may ask
  InitPolicy,
  MaxOps,       \* bound on the requests of a behaviour
  MaxFaults     \* bound on the row writes the database refuses

ASSUME NetmapAssumption == DOMAIN InitNodes \subseteq NodeIDs

VARIABLES
  store,   \* the nodes of the NodeStore
  prim,    \* its primary routes
  adj,     \* its adjacency: unordered pairs
  pm,      \* the policy manager: policy, nodes, attribute changes not drained
  common,  \* what every netmap shares: versions of the DERP map and the extra records
  call,    \* what each caller is doing
  conns,   \* the nodes the batcher has a connection for
  queue,   \* per session, pending changes
  bundle,  \* per session, the changes a worker is delivering
  client,  \* per session, the netmap of the client
  sent,    \* per session, lastSentPeers
  raced,   \* nodes two operations on which overlapped
  lagged,  \* nodes the policy manager was set back for
  lost,    \* what operations that failed half-way did not publish
  ops      \* requests so far

srv == <<store, prim, adj, pm, common>>

out == <<conns, queue, bundle, client, sent>>

vars == <<store, prim, adj, pm, common, call, conns, queue, bundle, client, sent, raced, lagged, lost, ops>>

Opt(b, x) == IF b THEN {x} ELSE {}

OrElse(o, x) == IF o = {} THEN x ELSE CHOOSE y \in o : TRUE

-----------------------------------------------------------------------------
(* The policy: pol.see is who sees whom, pol.tags its tags, pol.auto the    *)
(* routes approved for tagged nodes, pol.attrs the attributes of all and of *)
(* the tagged nodes, pol.relay the addresses its relay grants lead to.      *)
(* pol.routes are the routes its grants without via cover, pol.via those    *)
(* that grants send the untagged nodes to through a tagged one.             *)

Access(pol, nodes, i, j) ==
  CASE pol.see = "all" -> TRUE
    [] pol.see = "own" -> {i, j} \subseteq DOMAIN nodes /\ ~nodes[i].tagged /\ nodes[i].user = nodes[j].user
    [] pol.see = "tag" -> {i, j} \subseteq DOMAIN nodes /\ (nodes[i].tagged \/ nodes[j].tagged)

peersFunc(m, nodes) ==
  {e \in SUBSET DOMAIN nodes : Cardinality(e) = 2 /\ \A i, j \in e : i # j => Access(m.pol, m.nodes, i, j)}

FilterForNode(i) == {j \in DOMAIN pm.nodes \ {i} : Access(pm.pol, pm.nodes, j, i)}

NodeCapMap(m, i) ==
  IF i \notin DOMAIN m.nodes THEN {}
  ELSE m.pol.attrs.all \cup (IF m.nodes[i].tagged THEN m.pol.attrs.tag ELSE {})

capsMoved(m, new) == {i \in DOMAIN m.nodes \cup DOMAIN new.nodes : NodeCapMap(m, i) # NodeCapMap(new, i)}

(* SetPolicy and SetNodes keep the nodes whose attributes moved.            *)
installed(new) == [new EXCEPT !.changed = @ \cup capsMoved(pm, new)]

ApproveRoutesWithPolicy(n, announced) ==
  n.approved \cup (IF n.tagged THEN announced \cap pm.pol.auto ELSE {})

NodeNeedsPeerRecompute(n) ==
  SubnetRoutes(n) # {} \/ n.addr \in pm.pol.relay \/ (n.tagged /\ pm.pol.via # {})

ReduceRoutes(routes) == routes \cap pm.pol.routes

-----------------------------------------------------------------------------
(* change.Change.                                                           *)

NoChange ==
  [target |-> 0, origin |-> 0, self |-> FALSE, derpMap |-> FALSE, dns |-> FALSE, policy |-> FALSE,
   changed |-> {}, removed |-> {}, patches |-> {}, all |-> FALSE, deleted |-> {}, runtime |-> FALSE]

(* No operation merges two targeted changes, or two changes with patches.   *)
Merge(a, b) ==
  [target |-> IF a.target = 0 THEN b.target ELSE a.target,
   origin |-> IF a.origin = 0 THEN b.origin ELSE a.origin,
   self |-> a.self \/ b.self, derpMap |-> a.derpMap \/ b.derpMap, dns |-> a.dns \/ b.dns,
   policy |-> a.policy \/ b.policy, all |-> a.all \/ b.all, runtime |-> a.runtime \/ b.runtime,
   changed |-> a.changed \cup b.changed, removed |-> a.removed \cup b.removed,
   deleted |-> a.deleted \cup b.deleted, patches |-> a.patches \cup b.patches]

IsEmpty(c) == [c EXCEPT !.target = 0, !.origin = 0] = NoChange

IsSelfOnly(c) ==
  /\ c.target # 0 /\ c.self /\ ~c.all
  /\ c.changed = {} /\ c.removed = {} /\ c.deleted = {} /\ c.patches = {}

IsFull(c) == c.all /\ c.self /\ c.derpMap /\ c.dns /\ c.policy

ShouldSendToNode(c, i) == c.target # 0 => c.target = i

IsBroadcastPolicyChange(c) == c.runtime /\ c.target = 0 /\ c.origin = 0

(* The changes at some positions, in their order.                           *)
Keep(cs, kept) ==
  [k \in 1..Cardinality(kept) |->
     cs[CHOOSE p \in kept : Cardinality({q \in kept : q <= p}) = k]]

DedupePolicyChanges(cs) ==
  Keep(cs, {k \in DOMAIN cs : IsBroadcastPolicyChange(cs[k])
                              => \A l \in 1..k-1 : ~IsBroadcastPolicyChange(cs[l])})

FullUpdate == [NoChange EXCEPT !.self = TRUE, !.derpMap = TRUE, !.dns = TRUE, !.policy = TRUE, !.all = TRUE]

SelfUpdate(i) == [NoChange EXCEPT !.target = i, !.self = TRUE]

PolicyChange == [NoChange EXCEPT !.policy = TRUE, !.runtime = TRUE]

NodeAdded(i) == [NoChange EXCEPT !.changed = {i}, !.origin = i]

NodeRemoved(i) == [NoChange EXCEPT !.removed = {i}, !.deleted = {i}]

UserRemoved == FullUpdate

DERPMap == [NoChange EXCEPT !.derpMap = TRUE]

ExtraRecords == [NoChange EXCEPT !.dns = TRUE]

(* A PeerChange: derp 0 means unchanged, as on the wire.                    *)
Patch(i) ==
  [id |-> i, key |-> {}, disco |-> {}, expiry |-> {}, eps |-> {}, derp |-> 0, online |-> {}]

PeerPatched(p) == [NoChange EXCEPT !.patches = {p}]

NodeOnlineFor(i, b) == PeerPatched([Patch(i) EXCEPT !.online = {b}])

EndpointOrDERPUpdate(i, p) == [PeerPatched(p) EXCEPT !.origin = i]

NodeKeyRotated_NoExpiry(i, n) ==
  EndpointOrDERPUpdate(i, [Patch(i) EXCEPT !.key = {n.key}, !.disco = {n.disco}, !.eps = n.eps])

NodeKeyRotated(i, n) ==
  EndpointOrDERPUpdate(i, [Patch(i) EXCEPT !.key = {n.key}, !.disco = {n.disco},
                                           !.expiry = {n.expiry}, !.eps = n.eps])

-----------------------------------------------------------------------------
(* Map requests. A Hostinfo is [host, os, misc, net]: the name, a field the *)
(* clients of other nodes read, one they do not, and the NetInfo with the   *)
(* home DERP region. The announced routes are a field of the node. A        *)
(* request without endpoints leaves the stored ones.                        *)

NoNet == [derp |-> 0, link |-> "none"]

netInfoFromMapRequest(old, h) == IF h.net # NoNet THEN h.net ELSE old.net

PeerChangeFromMapRequest(n, req) ==
  LET sentNet == {h \in req.hi : h.net # NoNet}
  IN [key |-> Opt(req.key # n.key, req.key), disco |-> Opt(req.disco # n.disco, req.disco),
      derp |-> OrElse({h.net.derp : h \in {g \in sentNet : n.hi.net = NoNet \/ g.net.derp # n.hi.net.derp}}, 0),
      eps |-> IF req.eps # n.eps THEN req.eps ELSE {}]

endpointBroadcastWorthy_NoFirst(n, req) == req.eps \ (n.eps \cup req.stun) # {}

endpointBroadcastWorthy(n, req) ==
  IF n.eps = {} THEN req.eps # {} ELSE req.eps \ (n.eps \cup req.stun) # {}

Hostinfo(h) == [host |-> h.host, os |-> h.os, misc |-> h.misc, net |-> h.net]

netInfoEqualIgnoringDERP(a, b) == (a = NoNet) = (b = NoNet) /\ a.link = b.link

hostinfoDERP(h) == h.net.derp

routesChanged(n, h) == h.routes # n.announced

(* The home region is compared on its own.                                  *)
hostinfoEqual(n, h) ==
  /\ netInfoEqualIgnoringDERP(h.net, n.hi.net)
  /\ <<h.host, h.os, h.misc, h.routes>> = <<n.hi.host, n.hi.os, n.hi.misc, n.announced>>

(* A request that only stamps LastSeen is not worth a row.                  *)
peerChangePersistWorthy(pc) == pc.key # {} \/ pc.disco # {} \/ pc.eps # {} \/ pc.derp # 0

(* The classification of a request, made inside the UpdateNode closure.     *)
mapRequestDelta(n, req) ==
  LET pc == PeerChangeFromMapRequest(n, req)
      new == {[h EXCEPT !.net = netInfoFromMapRequest(n.hi, h)] : h \in req.hi}
      routes == \E h \in new : routesChanged(n, h)
      hostinfo == \E h \in new : ~hostinfoEqual(n, h)
      derp == \E h \in new : hostinfoDERP(h) # hostinfoDERP(n.hi)
  IN [pc |-> pc, new |-> new, routes |-> routes, hostinfo |-> hostinfo, derp |-> derp,
      peerHostinfo |-> routes \/ \E h \in new : h.host # n.hi.host \/ h.os # n.hi.os,
      endpoint |-> pc.eps # {} /\ endpointBroadcastWorthy(n, req),
      keys |-> pc.key # {} \/ pc.disco # {},
      persist |-> peerChangePersistWorthy(pc) \/ hostinfo \/ derp]

ApplyPeerChange(n, pc) ==
  [n EXCEPT !.key = OrElse(pc.key, @), !.disco = OrElse(pc.disco, @),
            !.eps = IF pc.eps # {} THEN pc.eps ELSE @,
            !.hi.net = IF pc.derp # 0 THEN [@ EXCEPT !.derp = pc.derp] ELSE @]

(* A given name follows the hostname unless an administrator changed it.    *)
isAutoDerivedGivenName(n) == n.name.base = n.host

rehosted(n, h) ==
  IF h.host = n.host THEN n
  ELSE [n EXCEPT !.host = h.host,
                 !.name = IF isAutoDerivedGivenName(n) THEN [base |-> h.host, bumps |-> <<>>] ELSE @]

fromMapRequest(n, d) ==
  LET patched == ApplyPeerChange(n, d.pc)
      stored == IF d.hostinfo \/ d.derp
                THEN [patched EXCEPT !.hi = Hostinfo(OrElse(d.new, @)),
                                     !.announced = OrElse({h.routes : h \in d.new}, @)]
                ELSE patched
  IN DropStaleHealth(IF d.new = {} THEN stored ELSE rehosted(stored, OrElse(d.new, n)))

(* The routes to approve by the policy, or none to change.                  *)
autoApproved(n, d) ==
  LET announced == UNION {h.routes : h \in d.new}
      approved == ApproveRoutesWithPolicy(n, announced)
      needed == d.hostinfo /\ (d.routes \/ n.approved = {}) /\ announced # {}
  IN Opt(needed /\ approved # n.approved, approved)

(* The narrowest change for a delta; the values are those of the fresh node.*)
buildMapRequestChangeResponse(i, n, d) ==
  LET derp == IF d.derp THEN n.hi.net.derp ELSE 0
      rotated == NodeKeyRotated(i, n)
      patch == [Patch(i) EXCEPT !.eps = IF d.endpoint THEN n.eps ELSE {}, !.derp = derp]
  IN IF d.peerHostinfo \/ (d.derp /\ derp = 0) THEN NodeAdded(i)
     ELSE IF d.keys THEN [rotated EXCEPT !.patches = {[p EXCEPT !.derp = derp] : p \in @}]
     ELSE IF d.endpoint \/ d.derp THEN EndpointOrDERPUpdate(i, patch)
     ELSE NoChange

-----------------------------------------------------------------------------
(* The mapper. A response is built from the state at the moment of delivery. *)

Peers(i) == {j \in DOMAIN store : {i, j} \in adj}

ListPeers(i, some) == Peers(i) \cap some

(* GetFQDN fails for a name that does not fit the base domain.              *)
Mappable(n) == n.name.base # "long"

TailNode(i, n, routes, caps) ==
  [name |-> n.name, user |-> IF n.tagged THEN 0 ELSE n.user, tagged |-> n.tagged,
   key |-> n.key, disco |-> n.disco, expiry |-> n.expiry, eps |-> n.eps, derp |-> n.hi.net.derp,
   os |-> n.hi.os, online |-> n.online, allowed |-> {n.addr} \cup routes, caps |-> caps]

GetNodePrimaryRoutes(i) == {p \in Prefixes : \E s \in Scopes : prim[s][p] = i}

(* ScopedRoutes: the primaries of the viewer's user shadow the shared ones. *)
VisiblePrimary(i, p) ==
  LET own == prim[ScopeOf(store[i])][p]
  IN IF own # NoNode THEN own ELSE prim[Global][p]

(* Which routes of a peer the via grants send the viewer to, or keep it     *)
(* from: of several tagged nodes that serve a route the first is taken, and *)
(* a grant without via hands a route back to the election.                  *)
ViaRoutesForPeer(i, j) ==
  LET viewer == i \in DOMAIN pm.nodes /\ ~pm.nodes[i].tagged
      matched == IF viewer THEN (SubnetRoutes(store[j]) \cup ExitRoutes(store[j])) \cap pm.pol.via ELSE {}
      included == IF store[j].tagged THEN matched ELSE {}
      group(p) == {k \in DOMAIN pm.nodes : pm.nodes[k].tagged /\ p \in pm.nodes[k].subnet}
      demoted == {p \in included : group(p) # {} /\ Lowest(group(p)) # j}
  IN [include |-> included \ demoted,
      exclude |-> ((matched \ included) \cup demoted) \ pm.pol.routes,
      usePrimary |-> (included \ demoted) \cap pm.pol.routes]

(* A secondary router sees the primary of its own routes whatever the       *)
(* grants say.                                                              *)
RoutesForPeer(i, j) ==
  LET via == ViaRoutesForPeer(i, j)
      allPrimaries == GetNodePrimaryRoutes(j)
      primaries == {p \in allPrimaries : VisiblePrimary(i, p) = j}
  IN ReduceRoutes((primaries \cup ExitRoutes(store[j])) \ via.exclude)
     \cup {p \in via.include : p \in allPrimaries \/ p \notin via.usePrimary}
     \cup (primaries \cap SubnetRoutes(store[i]))

(* suggest-exit-node is the one attribute shown to peers.                   *)
PeerCapMap(j) == IF ExitRoutes(store[j]) # {} THEN {"suggest"} ELSE {}

selfNode(i) ==
  TailNode(i, store[i], ReduceRoutes(GetNodePrimaryRoutes(i)) \cup ExitRoutes(store[i]), NodeCapMap(pm, i))

buildTailPeers(i, J) ==
  [j \in {k \in J : Mappable(store[k])} |-> TailNode(j, store[j], RoutesForPeer(i, j), PeerCapMap(j))]

(* Attributes <<"nextdns", k>>: k > 0 names a resolver profile, the first   *)
(* of which is taken, and 0 is no-device-info.                              *)
nextDNSProfileFromCapMap(caps) ==
  LET profiles == {k \in {c[2] : c \in caps} : k > 0 /\ <<"nextdns", k>> \in caps}
  IN IF profiles = {} THEN 0 ELSE Lowest(profiles)

(* The DNS configuration carries the extra records and, in the addresses of *)
(* its resolvers, the profile and who the device is.                        *)
generateDNSConfig(i) ==
  LET caps == NodeCapMap(pm, i)
      n == store[i]
  IN [records |-> common.records, profile |-> nextDNSProfileFromCapMap(caps),
      device |-> Opt(<<"nextdns", 0>> \notin caps, [host |-> n.host, os |-> n.hi.os, addr |-> n.addr])]

NoPeers == [j \in {} |-> 0]

NoResponse ==
  [node |-> {}, derpMap |-> {}, dns |-> {}, filter |-> {}, peers |-> {},
   changed |-> NoPeers, removed |-> {}, patches |-> {}]

selfMapResponse(i) == [NoResponse EXCEPT !.node = {selfNode(i)}]

computePeerDiff(i, current) == sent[i] \ current

policyChangeResponse(i, includeSelf) ==
  [NoResponse EXCEPT !.dns = {generateDNSConfig(i)}, !.filter = {FilterForNode(i)},
                     !.node = Opt(includeSelf, selfNode(i)),
                     !.removed = computePeerDiff(i, Peers(i)),
                     !.changed = buildTailPeers(i, Peers(i))]

filterVisiblePeerPatches(i, patches) == {p \in patches : p.id \in Peers(i)}

buildFromChange(i, c) ==
  [node |-> Opt(c.self, selfNode(i)), derpMap |-> Opt(c.derpMap, common.derpMap),
   dns |-> Opt(c.dns, generateDNSConfig(i)), filter |-> Opt(c.policy, FilterForNode(i)),
   peers |-> Opt(c.all, buildTailPeers(i, Peers(i))),
   changed |-> IF c.all THEN NoPeers ELSE buildTailPeers(i, ListPeers(i, c.changed)),
   removed |-> IF c.all THEN {} ELSE c.removed,
   patches |-> filterVisiblePeerPatches(i, c.patches)]

(* An empty list of peers means no change to a client: name them.           *)
clearsPeers(i, r) ==
  IF r.peers # {NoPeers} THEN r ELSE [r EXCEPT !.removed = computePeerDiff(i, {})]

(* No response: nothing to say, or the node or its own entry is not there.  *)
generateMapResponse(i, c) ==
  LET own == c.origin = i
      needsSelf == c.self \/ own
  IN IF \/ IsEmpty(c) \/ (IsSelfOnly(c) /\ c.target # i)
        \/ i \notin DOMAIN store \/ (needsSelf /\ ~Mappable(store[i])) THEN {}
     ELSE IF c.runtime THEN {policyChangeResponse(i, own)}
     ELSE IF own THEN {selfMapResponse(i)}
     ELSE {clearsPeers(i, buildFromChange(i, c))}

updateSentPeers_KeepsRemoved(S, r) ==
  (IF r.peers = {} THEN S ELSE UNION {DOMAIN f : f \in r.peers}) \cup DOMAIN r.changed

updateSentPeers(S, r) ==
  ((IF r.peers = {} THEN S ELSE UNION {DOMAIN f : f \in r.peers}) \cup DOMAIN r.changed) \ r.removed

-----------------------------------------------------------------------------
(* The client: it replaces its peers by a non-empty list, then removes,     *)
(* adds or replaces, and patches those it knows.                            *)

patchPeer(t, p) ==
  [t EXCEPT !.key = OrElse(p.key, @), !.disco = OrElse(p.disco, @), !.expiry = OrElse(p.expiry, @),
            !.eps = IF p.eps # {} THEN p.eps ELSE @, !.derp = IF p.derp # 0 THEN p.derp ELSE @,
            !.online = OrElse(p.online, @)]

updatePeers(f, r) ==
  LET base == IF r.peers \in {{}, {NoPeers}} THEN f ELSE OrElse(r.peers, f)
      merged == [j \in (DOMAIN base \ r.removed) \cup DOMAIN r.changed |->
                   IF j \in DOMAIN r.changed THEN r.changed[j] ELSE base[j]]
  IN [j \in DOMAIN merged |->
        IF \E p \in r.patches : p.id = j
        THEN patchPeer(merged[j], CHOOSE p \in r.patches : p.id = j) ELSE merged[j]]

applyResponse(m, r) ==
  [self |-> OrElse(r.node, m.self), derpMap |-> OrElse(r.derpMap, m.derpMap), dns |-> OrElse(r.dns, m.dns),
   filter |-> OrElse(r.filter, m.filter), peers |-> updatePeers(m.peers, r)]

-----------------------------------------------------------------------------
(* Operations. A caller holds the frame of its operation between the steps  *)
(* of a store write, persistNode, updatePolicyManagerNodes and the hand-over*)
(* of the changes to the batcher.                                           *)

Frame(op, i) ==
  [pc |-> "persist", op |-> op, id |-> i, node |-> {}, delta |-> {}, auto |-> {}, prev |-> {},
   list |-> {}, moved |-> FALSE, selfs |-> {}, rows |-> NoPeers]

Idle == [pc |-> "idle"]

At(c, pc) == call[c].pc = pc

Go(c, f) == call' = [call EXCEPT ![c] = f]

Step(c, pc) == Go(c, [call[c] EXCEPT !.pc = pc])

Touches(i) == {c \in Callers : call[c] # Idle /\ call[c].id = i}

Request(c, i) ==
  /\ At(c, "idle") /\ ops < MaxOps
  /\ ops' = ops + 1
  /\ raced' = raced \cup Opt(Touches(i) # {}, i)

Init ==
  /\ store = InitNodes
  /\ prim = electPrimaryRoutes(InitNodes, NoRoutes)
  /\ pm = [pol |-> InitPolicy, nodes |-> PeerInputs(InitNodes), changed |-> {}]
  /\ adj = peersFunc(pm, InitNodes)
  /\ common = [derpMap |-> 1, records |-> 1]
  /\ call = [c \in Callers |-> Idle]
  /\ conns = Viewers
  /\ queue = [v \in Viewers |-> <<>>] /\ bundle = queue
  /\ client = [v \in Viewers |->
                 [self |-> selfNode(v), derpMap |-> 1, dns |-> generateDNSConfig(v),
                  filter |-> FilterForNode(v), peers |-> buildTailPeers(v, Peers(v))]]
  /\ sent = [v \in Viewers |-> DOMAIN client[v].peers]
  /\ raced = {} /\ lagged = {} /\ ops = 0
  /\ lost = [faults |-> 0, peers |-> FALSE, selfs |-> {}]

(* A write rebuilds the adjacency and elects when it moved what they read.  *)
storeWrite(new) ==
  LET same == DOMAIN new = DOMAIN store
      relation == ~same \/ \E i \in DOMAIN new : RelationMoved(store[i], new[i])
      election == ~same \/ \E i \in DOMAIN new : ElectionMoved(store[i], new[i])
  IN /\ store' = new
     /\ adj' = IF relation THEN peersFunc(pm, new) ELSE adj
     /\ prim' = IF election THEN electPrimaryRoutes(new, prim) ELSE prim

UpdateNode(i, n) ==
  storeWrite([store EXCEPT ![i] = IF n.name = @.name THEN n
                                  ELSE [n EXCEPT !.name = resolveGivenName(store, i, n.name)]])

(* UpdateNodeFromMapRequest up to the write of the node.                    *)
MapRequest(c) ==
  \E req \in MapRequests :
    LET i == req.id
        n == store[i]
        d == mapRequestDelta(n, req)
        auto == autoApproved(n, d)
    IN /\ i \in DOMAIN store
       /\ Request(c, i)
       /\ UpdateNode(i, fromMapRequest(n, d))
       /\ Go(c, [Frame("map", i) EXCEPT !.node = {store'[i]}, !.delta = {d}, !.auto = auto, !.prev = {prim},
                                        !.pc = IF auto # {} THEN "approve" ELSE "diff"])
       /\ UNCHANGED <<pm, common, out, lagged, lost>>

(* Its call of SetApprovedRoutes, whose change it returns.                  *)
ApproveFromMapRequest(c) ==
  LET f == call[c]
  IN /\ At(c, "approve")
     /\ IF f.id \in DOMAIN store
        THEN /\ UpdateNode(f.id, DropStaleHealth([store[f.id] EXCEPT !.approved = OrElse(f.auto, {})]))
             /\ Go(c, Frame("approve", f.id))
        ELSE Go(c, Idle) /\ UNCHANGED <<store, adj, prim>>
     /\ UNCHANGED <<pm, common, out, raced, lagged, lost, ops>>

(* Whether a primary moved, and what to do next: a request that changed     *)
(* nothing worth a row is answered at once.                                 *)
DiffRoutes(c) ==
  LET f == call[c]
      moved == f.prev # {prim}
  IN /\ At(c, "diff")
     /\ Go(c, [f EXCEPT !.moved = moved, !.prev = {},
                        !.pc = IF \A d \in f.delta : d.persist THEN "persist" ELSE "publish"])
     /\ UNCHANGED <<srv, out, raced, lagged, lost, ops>>

ShouldBeOnline(n) == [n EXCEPT !.online = n.sessions > 0 /\ n.expiry # "past"]

(* applyAuthNodeUpdate for a relogin by the owner: the Hostinfo of the      *)
(* register request replaces the stored one (none in req.hi stands for what *)
(* the client has reported before), the presence is kept.                   *)
relogin(n, req) ==
  LET hi == OrElse(req.hi, [host |-> n.host, os |-> n.hi.os, misc |-> n.hi.misc, net |-> NoNet,
                            routes |-> n.announced])
  IN [n EXCEPT !.key = req.key, !.disco = req.disco, !.host = hi.host, !.announced = hi.routes,
               !.hi = Hostinfo([hi EXCEPT !.net = netInfoFromMapRequest(n.hi, hi)]),
               !.expiry = IF ~n.tagged THEN "later" ELSE IF @ = "past" THEN "never" ELSE @]

(* The handlers of the administration API, each as the set of nodes it may  *)
(* write: none where it answers with an error.                              *)

(* An exit route stands for both.                                           *)
SetApprovedRoutes(n, routes) ==
  {DropStaleHealth([n EXCEPT !.approved = routes \cup (IF routes \cap ExitPrefixes # {} THEN ExitPrefixes ELSE {})])}

(* Disabling the expiry and setting one exclude each other; a request with  *)
(* neither expires the node now.                                            *)
ExpireNode(n, arg) ==
  LET expiry == IF arg.disable THEN "never" ELSE IF arg.expiry = "none" THEN "past" ELSE arg.expiry
  IN IF arg.disable /\ arg.expiry # "none" THEN {} ELSE {ShouldBeOnline([n EXCEPT !.expiry = expiry])}

validateTag(tag) == Head(tag) = "tag:" /\ \A k \in DOMAIN tag : tag[k] \notin {"A", " "}

TagExists(tag) == tag \in pm.pol.tags

(* Tags are never all removed, and must be in the policy.                   *)
SetTags(n, tags) ==
  IF tags = {} \/ \E t \in tags : ~validateTag(t) \/ ~TagExists(t) THEN {}
  ELSE {[n EXCEPT !.tagged = TRUE, !.user = Global]}

RenameNode(i, n, name) ==
  {w \in {[n EXCEPT !.name = name]} : Mappable(w) /\ name \notin TakenNames(store, i)}

written(i, n, m) ==
  CASE m.op = "approve" -> SetApprovedRoutes(n, m.arg)
    [] m.op = "expiry"  -> ExpireNode(n, m.arg)
    [] m.op = "tags"    -> SetTags(n, m.arg)
    [] m.op = "rename"  -> RenameNode(i, n, m.arg)
    [] m.op = "relogin" -> {relogin(n, m.arg)}

(* A call up to its store write; one that is refused changes nothing.       *)
Command(c) ==
  \E m \in {k \in Commands : k.op \in {"approve", "expiry", "tags", "rename", "relogin"}} :
    LET i == m.id
        n == store[i]
    IN /\ i \in DOMAIN store
       /\ Request(c, i)
       /\ \E w \in written(i, n, m) : UpdateNode(i, w)
       /\ Go(c, [Frame(m.op, i) EXCEPT !.moved = n.online # store'[i].online, !.node = {store'[i]}])
       /\ UNCHANGED <<pm, common, out, lagged, lost>>

removeNode(i) == storeWrite([j \in DOMAIN store \ {i} |-> store[j]])

DeleteNode(c) ==
  \E m \in {k \in Commands : k.op = "delete"} :
    /\ m.id \in DOMAIN store
    /\ Request(c, m.id)
    /\ removeNode(m.id)
    /\ Go(c, [Frame("delete", m.id) EXCEPT !.pc = "list"])
    /\ UNCHANGED <<pm, common, out, lagged, lost>>

(* Connect and Disconnect. The last session to go takes the node offline,   *)
(* an earlier one is not worth a change.                                    *)
Connect(c) ==
  \E m \in {k \in Commands : k.op = "connect"} :
    LET i == m.id
        n == store[i]
    IN /\ i \in DOMAIN store
       /\ Request(c, i)
       /\ UpdateNode(i, ShouldBeOnline([n EXCEPT !.sessions = @ + 1, !.unhealthy = FALSE]))
       /\ Go(c, [Frame("connect", i) EXCEPT !.node = {store'[i]}, !.prev = {prim}, !.pc = "routes"])
       /\ UNCHANGED <<pm, common, out, lagged, lost>>

Disconnect(c) ==
  \E m \in {k \in Commands : k.op = "disconnect"} :
    LET i == m.id
        n == store[i]
        last == n.sessions = 1
        left == [n EXCEPT !.sessions = @ - 1]
    IN /\ i \in DOMAIN store /\ n.sessions > 0
       /\ Request(c, i)
       /\ UpdateNode(i, IF last THEN ShouldBeOnline([left EXCEPT !.unhealthy = FALSE]) ELSE left)
       /\ Go(c, IF last THEN [Frame("disconnect", i) EXCEPT !.node = {store'[i]}, !.pc = "publish"] ELSE Idle)
       /\ UNCHANGED <<pm, common, out, lagged, lost>>

RoutesOfSession(c) ==
  LET f == call[c]
  IN /\ At(c, "routes")
     /\ Go(c, [f EXCEPT !.moved = f.prev # {prim}, !.prev = {}, !.pc = "publish"])
     /\ UNCHANGED <<srv, out, raced, lagged, lost, ops>>

(* persistNode reads the node again; a deleted node ends the operation. The *)
(* row of an expiry or of a relogin is written without reading it.          *)
persistNode(c) ==
  LET f == call[c]
      rereads == f.op \notin {"expiry", "relogin"}
      gone == f.id \notin DOMAIN store
      refresh == f.op # "map" \/ \E d \in f.delta : d.peerHostinfo \/ d.routes
  IN /\ At(c, "persist")
     /\ Go(c, IF rereads /\ gone THEN Idle
              ELSE [f EXCEPT !.node = IF rereads THEN {store[f.id]} ELSE @,
                             !.pc = IF refresh THEN "list" ELSE "publish"])
     /\ UNCHANGED <<srv, out, raced, lagged, lost, ops>>

(* updatePolicyManagerNodes.                                                *)
ListNodes(c) ==
  /\ At(c, "list")
  /\ Go(c, [call[c] EXCEPT !.list = {PeerInputs(store)}, !.pc = "set"])
  /\ UNCHANGED <<srv, out, raced, lagged, lost, ops>>

SetBack(old, new) ==
  LET entry(m, i) == IF i \in DOMAIN m THEN {m[i]} ELSE {}
      now == PeerInputs(store)
  IN {i \in NodeIDs : entry(old, i) = entry(now, i) /\ entry(new, i) # entry(now, i)}

SetNodes(c) ==
  LET f == call[c]
      nodes == OrElse(f.list, pm.nodes)
      moved == nodes # pm.nodes
  IN /\ At(c, "set")
     /\ pm' = installed([pm EXCEPT !.nodes = nodes])
     /\ Go(c, [f EXCEPT !.list = Opt(moved, "moved"), !.pc = IF moved THEN "rebuild" ELSE "publish"])
     /\ lagged' = lagged \cup SetBack(pm.nodes, nodes)
     /\ UNCHANGED <<store, prim, adj, common, out, raced, lost, ops>>

RebuildPeerMaps(c) ==
  /\ At(c, "rebuild")
  /\ adj' = peersFunc(pm, store)
  /\ Step(c, IF call[c].op = "reload" /\ ~call[c].moved THEN "drain" ELSE "publish")
  /\ UNCHANGED <<store, prim, pm, common, out, raced, lagged, lost, ops>>

(* ReloadPolicy: install, rebuild, drain the attribute changes, approve.    *)
ReloadPolicy(c) ==
  \E m \in {k \in Commands : k.op = "reload"} :
    /\ Request(c, 0)
    /\ pm' = installed([pm EXCEPT !.pol = m.arg])
    /\ Go(c, [Frame("reload", 0) EXCEPT !.pc = "rebuild"])
    /\ UNCHANGED <<store, prim, adj, common, out, lagged, lost>>

NodesWithChangedCapMap(c) ==
  /\ At(c, "drain")
  /\ pm' = [pm EXCEPT !.changed = {}]
  /\ Go(c, [call[c] EXCEPT !.selfs = pm.changed, !.pc = "auto"])
  /\ UNCHANGED <<store, prim, adj, common, out, raced, lagged, lost, ops>>

(* autoApproveNodes lists the nodes, writes what the policy approves for    *)
(* them in one batch, and then their rows.                                  *)
autoApproveNodes(c) ==
  LET approved(i) == ApproveRoutesWithPolicy(store[i], store[i].announced)
      rows == [i \in {j \in DOMAIN store : approved(j) # store[j].approved} |-> approved(i)]
  IN /\ At(c, "auto")
     /\ Go(c, [call[c] EXCEPT !.rows = rows, !.pc = IF rows = NoPeers THEN "publish" ELSE "batch"])
     /\ UNCHANGED <<srv, out, raced, lagged, lost, ops>>

UpdateNodes(c) ==
  LET rows == call[c].rows
  IN /\ At(c, "batch")
     /\ storeWrite([i \in DOMAIN store |->
                      IF i \in DOMAIN rows THEN DropStaleHealth([store[i] EXCEPT !.approved = rows[i]])
                      ELSE store[i]])
     /\ Go(c, [call[c] EXCEPT !.moved = TRUE, !.pc = "rows"])
     /\ UNCHANGED <<pm, common, out, raced, lagged, lost, ops>>

(* A node that is gone has no row to write.                                 *)
NextRow(c) ==
  LET f == call[c]
  IN /\ At(c, "rows")
     /\ IF DOMAIN f.rows = {} THEN Step(c, "list")
        ELSE \E i \in DOMAIN f.rows :
               Go(c, [f EXCEPT !.rows = [j \in DOMAIN f.rows \ {i} |-> f.rows[j]], !.node = {i},
                               !.pc = IF i \in DOMAIN store THEN "row" ELSE "rows"])
     /\ UNCHANGED <<srv, out, raced, lagged, lost, ops>>

(* What an operation that returns an error leaves untold.                   *)
unpublished(f) == [lost EXCEPT !.selfs = @ \cup f.selfs \cup Opt(f.id # 0, f.id)]

(* A node deleted since then fails the reload.                              *)
PersistRow(c) ==
  LET f == call[c]
      there == f.node \subseteq DOMAIN store
  IN /\ At(c, "row")
     /\ Go(c, IF there THEN [f EXCEPT !.pc = "rows"] ELSE Idle)
     /\ lost' = IF there THEN lost ELSE unpublished(f)
     /\ UNCHANGED <<srv, out, raced, lagged, ops>>

(* The database refuses the row: the store keeps what was written, and the  *)
(* operation returns an error without a change.                             *)
SaveFails(c) ==
  /\ At(c, "persist") \/ At(c, "row")
  /\ lost.faults < MaxFaults
  /\ Go(c, Idle)
  /\ lost' = [unpublished(call[c]) EXCEPT !.faults = @ + 1, !.peers = TRUE]
  /\ UNCHANGED <<srv, out, raced, lagged, ops>>

(* DeleteUser of a person without nodes, a new DERP map, new extra records. *)
Announce(c) ==
  \E m \in {k \in Commands : k.op \in {"user", "derp", "records"}} :
    /\ Request(c, 0)
    /\ common' = CASE m.op = "derp" -> [common EXCEPT !.derpMap = m.arg]
                   [] m.op = "records" -> [common EXCEPT !.records = m.arg]
                   [] m.op = "user" -> common
    /\ Go(c, [Frame(m.op, 0) EXCEPT !.pc = "publish"])
    /\ UNCHANGED <<store, prim, adj, pm, out, lagged, lost>>

-----------------------------------------------------------------------------
(* The change an operation returns.                                         *)

orNodeAdded(f) == IF f.list # {} THEN PolicyChange ELSE NodeAdded(f.id)

reauthChange(f) == IF f.list # {} THEN PolicyChange ELSE NodeKeyRotated(f.id, OrElse(f.node, {}))

(* A change of tags must reach the node itself, whichever change it is.     *)
tagsChange_NoOrigin(f) == orNodeAdded(f)

tagsChange(f) == [orNodeAdded(f) EXCEPT !.origin = f.id]

expiryChange(f) ==
  LET base == Merge(IF f.list # {} THEN PolicyChange ELSE NoChange, NodeAdded(f.id))
  IN IF f.moved /\ \E n \in f.node : NodeNeedsPeerRecompute(n) THEN Merge(base, PolicyChange) ELSE base

recompute(f) == IF \E n \in f.node : NodeNeedsPeerRecompute(n) THEN <<PolicyChange>> ELSE <<>>

connectChanges(f) ==
  LET up == \E n \in f.node : n.online
  IN <<IF up THEN NodeOnlineFor(f.id, TRUE) ELSE NodeAdded(f.id)>>
     \o (IF f.moved THEN <<NodeAdded(f.id)>> ELSE <<>>) \o recompute(f)

selfUpdates(S) ==
  [k \in 1..Cardinality(S) |-> SelfUpdate(CHOOSE i \in S : Cardinality({j \in S : j <= i}) = k)]

changesOf(f) ==
  CASE f.op = "map" ->
         <<IF f.list # {} \/ f.moved THEN PolicyChange
           ELSE buildMapRequestChangeResponse(f.id, OrElse(f.node, {}), OrElse(f.delta, {}))>>
    [] f.op = "approve" -> <<PolicyChange>>
    [] f.op = "rename"  -> <<orNodeAdded(f)>>
    [] f.op = "tags"    -> <<tagsChange(f)>>
    [] f.op = "expiry"  -> <<expiryChange(f)>>
    [] f.op = "relogin" -> <<reauthChange(f)>>
    [] f.op = "delete"  -> <<IF f.list # {} THEN Merge(NodeRemoved(f.id), PolicyChange) ELSE NodeRemoved(f.id)>>
    [] f.op = "connect" -> connectChanges(f)
    [] f.op = "disconnect" -> <<NodeOnlineFor(f.id, FALSE)>> \o recompute(f)
    [] f.op = "reload"  -> <<PolicyChange>> \o selfUpdates(f.selfs) \o
                           (IF f.moved THEN <<PolicyChange>> ELSE <<>>)
    [] f.op = "user"    -> <<UserRemoved>>
    [] f.op = "derp"    -> <<DERPMap>>
    [] f.op = "records" -> <<ExtraRecords>>

(* addToBatch: a deleted node loses its connection, a full update replaces  *)
(* what is pending, a targeted change goes to its target.                   *)
addToBatch(cs) ==
  LET deleted == UNION {cs[k].deleted : k \in DOMAIN cs}
      full == \E k \in DOMAIN cs : IsFull(cs[k])
      for(v) == Keep(cs, {k \in DOMAIN cs : ShouldSendToNode(cs[k], v) /\ ~IsEmpty(cs[k])})
  IN /\ conns' = conns \ deleted
     /\ queue' = [v \in Viewers |-> IF v \notin conns' THEN <<>>
                                    ELSE IF full THEN <<FullUpdate>> ELSE queue[v] \o for(v)]

(* A recomputation makes up for what was not published before, and a change *)
(* of a node's own for what it was not told.                                *)
Recomputes(c) == c.target = 0 /\ (c.runtime \/ IsFull(c))

Tells(c, i) == c.origin = i \/ (c.target = i /\ c.self) \/ IsFull(c)

Publish(c) ==
  LET cs == changesOf(call[c])
  IN /\ At(c, "publish")
     /\ addToBatch(cs)
     /\ Go(c, Idle)
     /\ lost' = [lost EXCEPT !.peers = @ /\ \A k \in DOMAIN cs : ~Recomputes(cs[k]),
                             !.selfs = {i \in @ : \A k \in DOMAIN cs : ~Tells(cs[k], i)}]
     /\ UNCHANGED <<srv, bundle, client, sent, raced, lagged, ops>>

(* A tick hands the pending changes of a session to a worker, one bundle at *)
(* a time; the worker delivers them one by one.                             *)
Drain(v) ==
  /\ v \in conns /\ bundle[v] = <<>> /\ queue[v] # <<>>
  /\ bundle' = [bundle EXCEPT ![v] = DedupePolicyChanges(queue[v])]
  /\ queue' = [queue EXCEPT ![v] = <<>>]
  /\ UNCHANGED <<srv, call, conns, client, sent, raced, lagged, lost, ops>>

Deliver(v) ==
  LET r == generateMapResponse(v, Head(bundle[v]))
  IN /\ bundle[v] # <<>>
     /\ bundle' = [bundle EXCEPT ![v] = Tail(@)]
     /\ IF r = {} \/ v \notin conns THEN UNCHANGED <<client, sent>>
        ELSE \E x \in r : /\ client' = [client EXCEPT ![v] = applyResponse(@, x)]
                          /\ sent' = [sent EXCEPT ![v] = updateSentPeers(@, x)]
     /\ UNCHANGED <<srv, call, conns, queue, raced, lagged, lost, ops>>

CallerStep(c) ==
  \/ MapRequest(c) \/ ApproveFromMapRequest(c) \/ DiffRoutes(c) \/ Command(c) \/ DeleteNode(c)
  \/ Connect(c) \/ Disconnect(c) \/ RoutesOfSession(c) \/ persistNode(c) \/ ListNodes(c) \/ SetNodes(c)
  \/ RebuildPeerMaps(c) \/ ReloadPolicy(c) \/ NodesWithChangedCapMap(c) \/ autoApproveNodes(c)
  \/ UpdateNodes(c) \/ NextRow(c) \/ PersistRow(c) \/ SaveFails(c) \/ Announce(c) \/ Publish(c)

Next == (\E c \in Callers : CallerStep(c)) \/ (\E v \in Viewers : Drain(v) \/ Deliver(v))

Spec == Init /\ [][Next]_vars

-----------------------------------------------------------------------------
(* Properties.                                                              *)

(* Nothing is under way and nothing is left to deliver.                     *)
Settled ==
  /\ \A c \in Callers : call[c] = Idle
  /\ \A v \in conns : queue[v] = <<>> /\ bundle[v] = <<>>

(* Endpoints may be withheld on purpose: they have a property of their own. *)
But(t) == [t EXCEPT !.eps = {}]

(* The device in the addresses of the resolvers is left out: a node's own   *)
(* change of name or system does not send it a DNS configuration.           *)
SameDNS(a, b) == <<a.records, a.profile, a.device = {}>> = <<b.records, b.profile, b.device = {}>>

(* A client ends up with the peers, the packet filter, the DNS              *)
(* configuration and the DERP map that a full map response would give it,   *)
(* whatever patches, whole peers and recomputations it was sent, and in     *)
(* whatever order the operations interleaved with the deliveries. Excepted  *)
(* are the entries of nodes on which two operations overlapped, and of      *)
(* nodes whose name no map response can carry; and, after the database      *)
(* refused a row, everything but the DERP map until the next operation that *)
(* has all peers recomputed. A reload that fails because a node was deleted *)
(* under it is not excepted: the deletion has the peers recomputed.         *)
NetmapsConverge ==
  Settled => \A v \in conns :
    LET m == client[v]
        full == buildTailPeers(v, Peers(v))
        exempt == raced \cup {j \in DOMAIN store : ~Mappable(store[j])}
    IN /\ m.derpMap = common.derpMap
       /\ ~lost.peers =>
            /\ DOMAIN m.peers \ exempt = DOMAIN full \ exempt
            /\ \A j \in DOMAIN full \ exempt : But(m.peers[j]) = But(full[j])
            /\ m.filter = FilterForNode(v) /\ SameDNS(m.dns, generateDNSConfig(v))

(* A node knows its own tags, expiry and attributes once things settle: the *)
(* changes that recompute peers leave the node's own entry out unless they  *)
(* name it as their origin. Attributes are excepted for a node the policy   *)
(* manager was set back for (PolicyManagerCurrent below), and everything    *)
(* for a node whose change was lost with an operation that failed half-way, *)
(* until it is told of itself again.                                        *)
SelfKnown ==
  Settled => \A v \in conns \ lost.selfs : Mappable(store[v]) =>
    LET a == client[v].self
        b == selfNode(v)
    IN a.tagged = b.tagged /\ a.expiry = b.expiry /\ (v \in lagged \/ a.caps = b.caps)

(* A peer with endpoints is never left without any in a client's netmap:    *)
(* withholding STUN endpoints is safe only while peers have others to use.  *)
EndpointsAnnounced ==
  Settled /\ ~lost.peers => \A v \in conns : \A j \in DOMAIN client[v].peers \ raced :
    (j \in DOMAIN store /\ Mappable(store[j]) /\ store[j].eps # {}) => client[v].peers[j].eps # {}

(* What a client knows once things settle: its peers, itself, and a way to  *)
(* reach every peer that has one.                                           *)
NetmapsSettle == NetmapsConverge /\ SelfKnown /\ EndpointsAnnounced

(* What the server believes it sent is what the client has, at every        *)
(* moment: the peers a policy change must remove are computed from it.      *)
SentTracksClient == \A v \in conns : sent[v] = DOMAIN client[v].peers

(* updatePolicyManagerNodes "refreshes the policy manager with current node *)
(* data" (state.go:2965): once every operation has returned, the manager    *)
(* evaluates policy for the nodes of the store.                             *)
PolicyManagerCurrent ==
  (\A c \in Callers : call[c] = Idle) => pm.nodes = PeerInputs(store)
=============================================================================
