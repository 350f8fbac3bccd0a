---------------------------- MODULE PolicyManager ----------------------------
(***************************************************************************)
(* The PolicyManager of hscontrol/policy/v2/policy.go, and the operations  *)
(* of hscontrol/state/state.go that feed it: node writes followed by       *)
(* updatePolicyManagerNodes, user writes followed by                       *)
(* updatePolicyManagerUsers, and ReloadPolicy with its route approval.     *)
(*                                                                         *)
(* Everything the manager does under its lock is one step; a caller does   *)
(* what it does between two lock acquisitions in steps of its own, so that *)
(* a list it read may be old when it is installed.                         *)
(*                                                                         *)
(* A definition with an underscore in its name is a deliberate fault of    *)
(* the one it is named after, used nowhere.                                *)
(***************************************************************************)
EXTENDS PolicyValidation, PolicyText

CONSTANTS
  Callers,    \* goroutines that serve administrative requests
  Scopes,     \* what a behaviour is about: the policy it starts with, the
              \* policies ReloadPolicy may find, the tables a user write may
              \* leave behind, the [id, field, val] a node write may make, and
              \* the nodes with a map session
  InitStore, InitUsers,
  MaxOps      \* bound on the requests of a behaviour

VARIABLES
  pm,      \* the PolicyManager
  store,   \* the nodes of the NodeStore
  peers,   \* its adjacency: the unordered pairs BuildPeerMap returned
  table,   \* the users table
  call,    \* what each caller is doing: [pc, arg]
  view,    \* the node a map session is rendering, read from the store
  sent,    \* the attributes each node was last sent
  scope,   \* one of Scopes
  ops      \* requests so far (and page and outcome, of PolicyText)

vars == <<pm, store, peers, table, call, view, sent, scope, ops, page, outcome>>

World(m) == [pol |-> m.pol, users |-> m.users, nodes |-> m.nodes]

Empty == <<>>

Without(f, S) == [x \in DOMAIN f \ S |-> f[x]]

Get(f, x) == IF x \in DOMAIN f THEN f[x] ELSE {}

-----------------------------------------------------------------------------
(* What updateLocked derives from its inputs. idx is the userNodeIdx; the   *)
(* users it is made from are kept for the properties only.                  *)

Compiled(w) ==
  [cgs |-> compileGrants(w), idx |-> w.nodes, filter |-> compileFilterRules(w),
   owners |-> resolveTagOwners(w), auto |-> resolveAutoApprovers(w), users |-> w.users]

needsPerNodeFilter(m) == hasPerNodeGrants(m.comp.cgs)

ClearCaches(m) ==
  [m EXCEPT !.filterMap = Empty, !.matchersMap = Empty, !.sshMap = Empty, !.selfCache = Empty]

(* The nodes whose attributes differ are added to those not yet drained.    *)
attrsMoved(m, new) == {i \in DOMAIN new \cup DOMAIN m.attrs : Get(new, i) # Get(m.attrs, i)}

refreshNodeAttrs_Overwrite(m) ==
  LET new == compileNodeAttrs(World(m))
  IN [m EXCEPT !.attrs = new, !.attrsChanged = attrsMoved(m, new)]

refreshNodeAttrs(m) ==
  LET new == compileNodeAttrs(World(m))
  IN [m EXCEPT !.attrs = new, !.attrsChanged = @ \cup attrsMoved(m, new)]

(* For the properties, a failed update marks the entries it leaves behind,  *)
(* and the peer map as no longer that of the compiled policy.               *)
torn(f) == [i \in DOMAIN f |-> [f[i] EXCEPT !.torn = TRUE]]

halfUpdated(m) ==
  [m EXCEPT !.filterMap = torn(@), !.matchersMap = torn(@), !.sshMap = torn(@), !.owed = TRUE]

(* Recompiles; the caches are dropped only when a hash moved. An attribute  *)
(* that does not compile ends the update before that.                       *)
installCompiled(m, new) ==
  LET needsUpdate == \/ new.filter # m.comp.filter \/ m.pol # m.hashed
                     \/ new.owners # m.comp.owners \/ new.auto # m.comp.auto
      recompiled == [m EXCEPT !.comp = new, !.hashed = m.pol, !.selfCache = Empty]
      refreshed == refreshNodeAttrs(recompiled)
  IN IF NodeAttrsFail(World(m)) THEN [ok |-> FALSE, changed |-> FALSE, pm |-> halfUpdated(recompiled)]
     ELSE [ok |-> TRUE, changed |-> needsUpdate,
           pm |-> IF needsUpdate THEN ClearCaches(refreshed) ELSE refreshed]

updateLocked(m) == installCompiled(m, Compiled(World(m)))

NewPolicyManager(p, users, nodes) ==
  LET w == [pol |-> p, users |-> users, nodes |-> nodes]
      m == [pol |-> p, users |-> users, nodes |-> nodes, hashed |-> p, comp |-> Compiled(w),
            filterMap |-> Empty, matchersMap |-> Empty, sshMap |-> Empty, selfCache |-> Empty,
            attrs |-> Empty, attrsChanged |-> {}, owed |-> FALSE]
  IN refreshNodeAttrs(m)

(* A policy that fails to parse, names an ambiguous user or fails its own   *)
(* tests leaves the manager as it was.                                      *)
SetPolicy(m, p) ==
  LET w == [World(m) EXCEPT !.pol = p]
  IN IF validate(p) /\ validateUserReferences(p, m.users) /\ evaluateTests(w) /\ evaluateSSHTests(w)
     THEN updateLocked([m EXCEPT !.pol = p])
     ELSE [ok |-> FALSE, changed |-> FALSE, pm |-> m]

PolicyIdentity(u) == <<u.name, u.email, u.prov>>

equalUsers(a, b) == DOMAIN a = DOMAIN b /\ \A i \in DOMAIN a : PolicyIdentity(a[i]) = PolicyIdentity(b[i])

(* rebuild tells the caller to rebuild the peer map; users that do not      *)
(* compile are put back.                                                    *)
afterUsers(m, r) ==
  IF ~r.ok THEN [ok |-> FALSE, changed |-> FALSE, rebuild |-> FALSE, pm |-> [r.pm EXCEPT !.users = m.users]]
  ELSE [ok |-> TRUE, changed |-> r.changed \/ m.pol.ssh # <<>>, rebuild |-> TRUE, pm |-> r.pm]

SetUsers(m, users) ==
  IF equalUsers(m.users, users) THEN [ok |-> TRUE, changed |-> FALSE, rebuild |-> FALSE, pm |-> m]
  ELSE afterUsers(m, updateLocked([m EXCEPT !.users = users, !.sshMap = Empty]))

-----------------------------------------------------------------------------
(* SetNodes and the selective invalidation of cached filters.               *)

nodesHavePolicyAffectingChanges(m, nodes) ==
  \/ DOMAIN m.nodes # DOMAIN nodes
  \/ \E i \in DOMAIN nodes :
       \/ HasPolicyChange(nodes[i], m.nodes[i])
       \/ needsPerNodeFilter(m) /\ HasNetworkChanges(nodes[i], m.nodes[i])

(* The users whose set of untagged devices changed, or one of its addresses.*)
affectedUsers(old, new) ==
  LET devices(f) == {i \in DOMAIN f : ~IsTagged(f[i])}
      moved == {i \in devices(old) \cap devices(new) :
                  old[i].user # new[i].user \/ old[i].addrs # new[i].addrs}
  IN {old[i].user : i \in (devices(old) \ devices(new)) \cup {j \in moved : old[j].user # new[j].user}}
     \cup {new[i].user : i \in (devices(new) \ devices(old)) \cup moved}

invalidateAutogroupSelfCache(m, nodes) ==
  LET affected == affectedUsers(m.nodes, nodes)
      ownerOf(i) == IF i \in DOMAIN nodes THEN nodes[i] ELSE m.nodes[i]
      drop == {i \in DOMAIN m.filterMap :
                 IF i \in DOMAIN nodes \cup DOMAIN m.nodes
                 THEN ~IsTagged(ownerOf(i)) /\ ownerOf(i).user \in affected ELSE TRUE}
  IN [m EXCEPT !.filterMap = Without(@, drop), !.matchersMap = Without(@, drop),
               !.selfCache = Without(@, {k \in DOMAIN @ : k[2] \in affected})]

invalidateGlobalPolicyCache(m, nodes) ==
  LET drop == {i \in DOMAIN m.nodes \cap DOMAIN nodes : HasNetworkChanges(nodes[i], m.nodes[i])}
      gone == (DOMAIN m.filterMap \cup DOMAIN m.matchersMap) \ DOMAIN nodes
  IN [m EXCEPT !.filterMap = Without(@, drop \cup gone), !.matchersMap = Without(@, drop \cup gone)]

invalidateNodeCache(m, nodes) ==
  IF needsPerNodeFilter(m) THEN invalidateAutogroupSelfCache(m, nodes)
  ELSE invalidateGlobalPolicyCache(m, nodes)

afterNodes_KeepCaches(r) == IF ~r.ok THEN r ELSE [ok |-> TRUE, changed |-> TRUE, pm |-> r.pm]

afterNodes_HashOnly(r) == IF ~r.ok THEN r ELSE [ok |-> TRUE, changed |-> r.changed, pm |-> ClearCaches(r.pm)]

(* Nodes that moved clear every cache, whatever updateLocked found.         *)
afterNodes(r) == IF ~r.ok THEN r ELSE [ok |-> TRUE, changed |-> TRUE, pm |-> ClearCaches(r.pm)]

SetNodes(m, nodes) ==
  LET moved == nodesHavePolicyAffectingChanges(m, nodes)
      installed == [invalidateNodeCache(m, nodes) EXCEPT !.nodes = nodes]
  IN IF ~moved THEN [ok |-> TRUE, changed |-> FALSE, pm |-> installed]
     ELSE afterNodes(updateLocked(installed))

-----------------------------------------------------------------------------
(* Reads. A cached entry keeps, for the properties, the view and the users  *)
(* it was made from, and whether an update failed since; the code keeps the *)
(* value only.                                                              *)

Entry(n, users, v) == [view |-> n, users |-> users, torn |-> FALSE, val |-> v]

With(f, x, v) == [y \in DOMAIN f \cup {x} |-> IF y = x THEN v ELSE f[y]]

SelfKeys(m, n) ==
  IF IsTagged(n) THEN {} ELSE {<<i, n.user>> : i \in {j \in DOMAIN m.comp.cgs : m.comp.cgs[j].cat = "self"}}

selfRules(m, key, n) ==
  IF key \in DOMAIN m.selfCache THEN m.selfCache[key]
  ELSE compileAutogroupSelf([nodes |-> m.comp.idx], m.comp.cgs[key[1]], n)

fillSelfCache(m, N) ==
  LET keys == UNION {SelfKeys(m, n) : n \in N}
      of(k) == CHOOSE n \in N : k \in SelfKeys(m, n)
  IN [m EXCEPT !.selfCache = [k \in DOMAIN @ \cup keys |-> IF k \in DOMAIN @ THEN @[k] ELSE selfRules(m, k, of(k))]]

filterRulesForNodeLocked(m, n) ==
  LET cgs == m.comp.cgs
  IN mergeFilterRules(
       UNION {cgs[i].rules \cup (IF cgs[i].cat = "via" THEN compileViaForNode(cgs[i], n) ELSE {}) : i \in DOMAIN cgs}
       \cup UNION {selfRules(m, k, n) : k \in SelfKeys(m, n)})

unreducedFilter(m, n) ==
  IF needsPerNodeFilter(m) THEN filterRulesForNodeLocked(m, n) ELSE m.comp.filter

usesSelfCache(m, N) == IF needsPerNodeFilter(m) THEN fillSelfCache(m, N) ELSE m

FilterForNode(m, i, n) ==
  IF i \in DOMAIN m.filterMap THEN m
  ELSE [usesSelfCache(m, {n}) EXCEPT
          !.filterMap = With(@, i, Entry(n, m.comp.users, ReduceFilterRules(n, unreducedFilter(m, n))))]

matchersOf(m, n) == MatchesFromFilterRules(unreducedFilter(m, n))

MatchersForNode(m, i, n) ==
  IF ~needsPerNodeFilter(m) \/ i \in DOMAIN m.matchersMap THEN m
  ELSE [usesSelfCache(m, {n}) EXCEPT !.matchersMap = With(@, i, Entry(n, m.comp.users, matchersOf(m, n)))]

SSHPolicy(m, i, n) ==
  IF i \in DOMAIN m.sshMap THEN m
  ELSE [m EXCEPT !.sshMap = With(@, i, Entry(n, m.users, compileSSHPolicy(World(m), n)))]

(* peersFunc: BuildPeerMap on the nodes of the store.                       *)
peersFunc(m, nodes) ==
  BuildPeerMap(nodes, needsPerNodeFilter(m), MatchesFromFilterRules(m.comp.filter),
               [i \in DOMAIN nodes |-> matchersOf(m, nodes[i])])

afterPeersFunc(m, nodes) ==
  [usesSelfCache(m, {nodes[i] : i \in DOMAIN nodes}) EXCEPT !.owed = FALSE]

-----------------------------------------------------------------------------
(* The callers. Each waits at one of the places below between two locks.    *)

At(c, pc) == call[c].pc = pc

Go(c, pc, arg) == call' = [call EXCEPT ![c] = [pc |-> pc, arg |-> arg]]

Idle == [pc |-> "idle", arg |-> Empty]

Quiet == \A c \in Callers : call[c] = Idle

Aside == UNCHANGED <<scope, page>> /\ outcome' = Unread

Request == ops < MaxOps /\ ops' = ops + 1 /\ page = None /\ Aside

Init ==
  /\ scope \in Scopes
  /\ pm = afterPeersFunc(NewPolicyManager(scope.policy, InitUsers, InitStore), InitStore)
  /\ store = InitStore
  /\ peers = peersFunc(pm, InitStore)
  /\ table = InitUsers
  /\ call = [c \in Callers |-> Idle]
  /\ view = Empty
  /\ sent = pm.attrs
  /\ ops = 0 /\ page \in Pages /\ outcome = Unread
  /\ page # None => scope = CHOOSE s \in Scopes : TRUE

(* RebuildPeerMaps, the last step of an operation or one before the drain.  *)
RebuildPeerMaps(c, next) ==
  /\ peers' = peersFunc(pm, store)
  /\ pm' = afterPeersFunc(pm, store)
  /\ call' = [call EXCEPT ![c] = next]

edited(e) ==
  CASE e.field = "new"  -> With(store, e.id, e.val)
    [] e.field = "gone" -> Without(store, {e.id})
    [] OTHER            -> [store EXCEPT ![e.id] = [@ EXCEPT ![e.field] = e.val]]

(* The store rebuilds the adjacency with a write that may move it.          *)
relationMoved(new) ==
  \/ DOMAIN new # DOMAIN store
  \/ \E i \in DOMAIN new : HasPolicyChange(new[i], store[i]) \/ HasNetworkChanges(new[i], store[i])

storeWrite(new) ==
  /\ store' = new
  /\ IF relationMoved(new) THEN peers' = peersFunc(pm, new) /\ pm' = afterPeersFunc(pm, new)
     ELSE UNCHANGED <<peers, pm>>

(* SetApprovedRoutes, SetNodeTags, DeleteNode, a registration or a map      *)
(* request: one write to the store, then updatePolicyManagerNodes.          *)
WriteNode(c) ==
  \E e \in scope.nodeEdits :
    /\ At(c, "idle") /\ Request
    /\ (e.field = "new") = (e.id \notin DOMAIN store)
    /\ e.field = "new" => e.val.user \in DOMAIN table
    /\ storeWrite(edited(e))
    /\ Go(c, "listNodes", Empty)
    /\ UNCHANGED <<table, view, sent>>

(* updatePolicyManagerNodes: list, install, rebuild if something changed.   *)
ListNodes(c) ==
  /\ At(c, "listNodes")
  /\ Go(c, "setNodes", store)
  /\ UNCHANGED <<pm, store, peers, table, view, sent, ops>> /\ Aside

setNodesStep_NoRebuild(c) ==
  /\ At(c, "setNodes")
  /\ pm' = SetNodes(pm, call[c].arg).pm
  /\ Go(c, "idle", Empty)
  /\ UNCHANGED <<store, peers, table, view, sent, ops>> /\ Aside

setNodesStep(c) ==
  /\ At(c, "setNodes")
  /\ \E r \in {SetNodes(pm, call[c].arg)} :
       /\ pm' = r.pm
       /\ IF r.changed THEN Go(c, "rebuild", Empty) ELSE Go(c, "idle", Empty)
  /\ UNCHANGED <<store, peers, table, view, sent, ops>> /\ Aside

Rebuild(c) ==
  /\ At(c, "rebuild")
  /\ RebuildPeerMaps(c, Idle)
  /\ UNCHANGED <<store, table, view, sent, ops>> /\ Aside

(* CreateUser, UpdateUser and DeleteUser, then updatePolicyManagerUsers.    *)
WriteUser(c) ==
  \E u \in scope.userEdits :
    /\ At(c, "idle") /\ Request
    /\ table # u
    /\ \A i \in DOMAIN store : ~IsTagged(store[i]) => store[i].user \in DOMAIN u
    /\ table' = u
    /\ Go(c, "listUsers", Empty)
    /\ UNCHANGED <<pm, store, peers, view, sent>>

ListUsers(c) ==
  /\ At(c, "listUsers")
  /\ Go(c, "setUsers", table)
  /\ UNCHANGED <<pm, store, peers, table, view, sent, ops>> /\ Aside

setUsersStep(c) ==
  /\ At(c, "setUsers")
  /\ \E r \in {SetUsers(pm, call[c].arg)} :
       /\ pm' = r.pm
       /\ IF r.rebuild THEN Go(c, "rebuild", Empty) ELSE Go(c, "idle", Empty)
  /\ UNCHANGED <<store, peers, table, view, sent, ops>> /\ Aside

(* ReloadPolicy: install, rebuild, drain the attribute changes, approve.    *)
ReloadPolicy(c) ==
  /\ At(c, "idle") /\ Request
  /\ \E p \in scope.policies : \E r \in {SetPolicy(pm, p)} :
       /\ pm' = r.pm
       /\ IF r.ok THEN Go(c, "reload", Empty) ELSE Go(c, "idle", Empty)
  /\ UNCHANGED <<store, peers, table, view, sent>>

ReloadRebuild(c) ==
  /\ At(c, "reload")
  /\ RebuildPeerMaps(c, [pc |-> "drain", arg |-> Empty])
  /\ UNCHANGED <<store, table, view, sent, ops>> /\ Aside

(* Every drained node is sent its own entry again.                          *)
NodesWithChangedCapMap(c) ==
  /\ At(c, "drain")
  /\ pm' = [pm EXCEPT !.attrsChanged = {}]
  /\ sent' = [i \in (DOMAIN sent \ pm.attrsChanged) \cup (DOMAIN pm.attrs \cap pm.attrsChanged) |->
                IF i \in pm.attrsChanged THEN pm.attrs[i] ELSE sent[i]]
  /\ Go(c, "approve", Empty)
  /\ UNCHANGED <<store, peers, table, view, ops>> /\ Aside

(* autoApproveNodes: the nodes are listed, approvals computed from the      *)
(* list, then written over the approved routes of each changed node.        *)
autoApproveList(c) ==
  /\ At(c, "approve")
  /\ Go(c, "compute", store)
  /\ UNCHANGED <<pm, store, peers, table, view, sent, ops>> /\ Aside

autoApproveCompute(c) ==
  LET listed == call[c].arg
      approvedByID == [i \in {j \in DOMAIN listed :
                                ApproveRoutesWithPolicy(pm.comp.auto, listed[j]) # listed[j].approved} |->
                         ApproveRoutesWithPolicy(pm.comp.auto, listed[i])]
  IN /\ At(c, "compute")
     /\ IF approvedByID = Empty THEN Go(c, "idle", Empty) ELSE Go(c, "apply", approvedByID)
     /\ UNCHANGED <<pm, store, peers, table, view, sent, ops>> /\ Aside

autoApproveApply(c) ==
  LET approved == call[c].arg
  IN /\ At(c, "apply")
     /\ storeWrite([i \in DOMAIN store |-> IF i \in DOMAIN approved
                                            THEN [store[i] EXCEPT !.approved = approved[i]] ELSE store[i]])
     /\ Go(c, "listNodes", Empty)
     /\ UNCHANGED <<table, view, sent, ops>> /\ Aside

(* A map session reads its node from the store and later asks for its       *)
(* filter, its matchers and its SSH policy. Each call takes the lock for    *)
(* itself and fills a cache of its own; no entry depends on another, so     *)
(* that one step for the three reaches every entry.                         *)
ReadView ==
  /\ view = Empty /\ page = None
  /\ \E i \in DOMAIN store \cap scope.sessions : view' = [id |-> i, node |-> store[i]]
  /\ UNCHANGED <<pm, store, peers, table, call, sent, ops>> /\ Aside

Render ==
  LET filtered == FilterForNode(pm, view.id, view.node)
      matched == MatchersForNode(filtered, view.id, view.node)
  IN /\ view # Empty
     /\ pm' = SSHPolicy(matched, view.id, view.node)
     /\ view' = Empty
     /\ UNCHANGED <<store, peers, table, call, sent, ops>> /\ Aside

(* Primaries an election may have chosen: per scope and prefix, one of the  *)
(* routers of the scope that serve it.                                      *)
ScopeOf(n) == IF IsTagged(n) THEN 0 ELSE n.user

Servers(s, r) == {i \in DOMAIN store : ScopeOf(store[i]) = s /\ r \in SubnetRoutes(store[i])}

Elections ==
  LET scopes == {0} \cup {ScopeOf(store[i]) : i \in DOMAIN store}
      served == {p \in scopes \X RoutePrefixes : Servers(p[1], p[2]) # {}}
      picks == {f \in [served -> DOMAIN store] : \A p \in served : f[p] \in Servers(p[1], p[2])}
  IN {[s \in scopes |-> [r \in RoutePrefixes |-> IF <<s, r>> \in served THEN f[<<s, r>>] ELSE 0]] : f \in picks}

(* The mapper asks for the routes of every peer of a node, under the        *)
(* matchers of the node, SSH servers for the check period of a pair of      *)
(* nodes, and a registration for the tags the node may take. The answers,   *)
(* the routes for every election, are kept until the next step.             *)
Ask ==
  \E v \in DOMAIN store :
    LET asked == MatchersForNode(pm, v, store[v])
        matchers == IF needsPerNodeFilter(pm) THEN asked.matchersMap[v].val
                    ELSE MatchesFromFilterRules(pm.comp.filter)
        w == World(pm)
    IN /\ page = None /\ Quiet /\ view = Empty /\ outcome = Unread
       /\ pm' = asked
       /\ outcome' = [viewer |-> v,
                      routes |-> [prim \in Elections |-> [i \in DOMAIN store \ {v} |->
                                    RoutesForPeer(w, prim, matchers, store[v], i, store[i])]],
                      checks |-> [q \in (DOMAIN pm.nodes) \X (DOMAIN pm.nodes) |-> SSHCheckParams(w, q[1], q[2])],
                      tags |-> {t \in TagNames(pm.pol) :
                                  NodeCanHaveTag(pm.pol, pm.users, pm.comp.owners, store[v], t)}]
       /\ UNCHANGED <<store, peers, table, call, view, sent, scope, ops, page>>

(* Documents are read before the manager takes its lock.                    *)
ReadText == ReadPage /\ UNCHANGED <<pm, store, peers, table, call, view, sent, scope, ops>>

CallerStep(c) ==
  \/ WriteNode(c) \/ ListNodes(c) \/ setNodesStep(c) \/ Rebuild(c)
  \/ WriteUser(c) \/ ListUsers(c) \/ setUsersStep(c)
  \/ ReloadPolicy(c) \/ ReloadRebuild(c) \/ NodesWithChangedCapMap(c)
  \/ autoApproveList(c) \/ autoApproveCompute(c) \/ autoApproveApply(c)

Next == (\E c \in Callers : CallerStep(c)) \/ ReadView \/ Render \/ Ask \/ ReadText

Spec == Init /\ [][Next]_vars

-----------------------------------------------------------------------------
(* Properties.                                                              *)

(* What a compilation from nothing gives: no cache, no earlier state. cgs   *)
(* are the compiled grants of w.                                            *)
FreshRules(w, cgs, n) ==
  IF hasPerNodeGrants(cgs) THEN filterRulesForNode(w, cgs, n)
  ELSE IF w.pol.open THEN FilterAllowAll ELSE globalFilterRules(cgs)

FreshFilter(w, cgs, n) == ReduceFilterRules(n, FreshRules(w, cgs, n))

FreshPeers(w, cgs, nodes) ==
  BuildPeerMap(nodes, hasPerNodeGrants(cgs), MatchesFromFilterRules(compileFilterRules(w)),
               [i \in DOMAIN nodes |-> MatchesFromFilterRules(FreshRules(w, cgs, nodes[i]))])

Answered == page = None /\ outcome # Unread

(* No update failed since the peer map was last built, and none was undone  *)
(* after it recompiled.                                                     *)
InStep == ~pm.owed /\ pm.comp.users = pm.users

(* The caches of the policy manager: whatever users, nodes and policies were*)
(* installed since an entry was made, it is what compiling the present      *)
(* policy, users and nodes for the same view of the node gives, although    *)
(* SetNodes and SetUsers drop entries selectively and updateLocked drops    *)
(* them only when one of its hashes moved. Two things make an entry old,    *)
(* and only these. A compilation that fails on a node attribute returns     *)
(* before the caches are cleared. And SetUsers leaves the filters and the   *)
(* matchers alone: with autogroup:self or via grants the hashes do not see  *)
(* a renamed user, and after a failed SetUsers the compiled grants are those*)
(* of the users it refused. Such an entry still is right for the users it   *)
(* was made from.                                                           *)
CachesCurrent ==
  LET w == World(pm)
      cgs == compileGrants(w)
      asOf(e) == [w EXCEPT !.users = e.users]
      usersUnseen(e) == hasPerNodeGrants(cgs) \/ hasPerNodeGrants(compileGrants(asOf(e)))
                       \/ pm.comp.users # w.users
      rules(e, u, g) == FreshRules(u, g, e.view)
      right(e, Of(_)) ==
        \/ e.torn
        \/ e.val = Of(rules(e, w, cgs))
        \/ /\ e.users # w.users /\ usersUnseen(e)
           /\ e.val = Of(rules(e, asOf(e), compileGrants(asOf(e))))
  IN /\ \A i \in DOMAIN pm.filterMap :
          right(pm.filterMap[i], LAMBDA f : ReduceFilterRules(pm.filterMap[i].view, f))
     /\ \A i \in DOMAIN pm.matchersMap : right(pm.matchersMap[i], MatchesFromFilterRules)
     /\ \A i \in DOMAIN pm.sshMap :
          pm.sshMap[i].torn \/ pm.sshMap[i].val = compileSSHPolicy(w, pm.sshMap[i].view)

(* When no operation is under way, the adjacency of the store is the one    *)
(* the installed policy gives for the stored nodes, however the operations  *)
(* were interleaved: every path that moves an input of BuildPeerMap         *)
(* rebuilds the adjacency after the move, except an update that failed,     *)
(* whose caller returns the error before it rebuilds.                       *)
PeerMapFollowsPolicy ==
  Quiet /\ InStep => peers = FreshPeers(World(pm), compileGrants(World(pm)), store)

(* A packet filter never admits a node that is not a peer: a client could   *)
(* not reach what its rules allow. The filter comes from ReduceFilterRules, *)
(* the adjacency from canAccess on unreduced rules. A failed update leaves  *)
(* the adjacency behind, as above.                                          *)
AdmittedArePeers ==
  LET cgs == compileGrants(World(pm))
  IN Quiet /\ InStep => \A j \in DOMAIN store : \A r \in FreshFilter(World(pm), cgs, store[j]) :
       Overlaps(UNION r.dsts, store[j].addrs)
       => \A i \in DOMAIN store \ {j} : Overlaps(r.srcs, store[i].addrs) => {i, j} \in peers

(* A change of a node's attributes is not forgotten before ReloadPolicy     *)
(* drains it, whatever SetUsers and SetNodes do between SetPolicy and the   *)
(* drain.                                                                   *)
AttributeChangesKept ==
  \A i \in DOMAIN store : Get(sent, i) # Get(pm.attrs, i) => i \in pm.attrsChanged

(* Every name the installed policy uses is defined in it.                   *)
NoDanglingReference ==
  LET p == pm.pol
      grants == {Grants(p)[i] : i \in DOMAIN Grants(p)}
      ssh == {p.ssh[i] : i \in DOMAIN p.ssh}
      aliases == UNION {g.srcs \cup g.dsts \cup {Tag(t) : t \in g.via} : g \in grants}
                 \cup UNION {r.srcs \cup r.dsts : r \in ssh}
                 \cup UNION {na.targets : na \in p.nodeAttrs}
                 \cup Owners(p) \cup Approvers(p)
  IN \A a \in aliases : Defined(p, a)

(* Owners by reachability: o owns t if a chain of nested tags leads from t  *)
(* to a tag that lists o.                                                   *)
ownersByReachability(p, t) ==
  LET nested(T) == T \cup {o.v : o \in {q \in UNION {p.tagOwners[x] : x \in T} : q.k = "tag"}}
      reach[k \in 0..Cardinality(TagNames(p))] == IF k = 0 THEN {t} ELSE nested(reach[k - 1])
  IN {o \in UNION {p.tagOwners[x] : x \in reach[Cardinality(TagNames(p))]} : o.k # "tag"}

(* A node may take a tag exactly when it is a device of an owner of the tag *)
(* or of a tag nested in its owners, cycles included: flattenTags, the      *)
(* addresses resolveTagOwners keeps and the lookup by user agree with the   *)
(* present users and nodes after every update but a SetUsers that failed,   *)
(* which puts the users back and not what was compiled from them.           *)
TagAuthority ==
  pm.comp.users = pm.users => \A i \in DOMAIN pm.nodes : \A t \in TagNames(pm.pol) :
    NodeCanHaveTag(pm.pol, pm.users, pm.comp.owners, pm.nodes[i], t)
    <=> \E o \in ownersByReachability(pm.pol, t) :
          Overlaps(pm.nodes[i].addrs, UNION Resolve(World(pm), o))

(* A caller that is told nothing changed skips the refresh of the clients:  *)
(* then no node's filter and no peer relation may have changed. SetUsers    *)
(* tells nothing of a renamed user whom only autogroup:self or via grants   *)
(* name, since their rules are no part of the hashed filter: that case, and *)
(* an update after one that failed, are excepted.                           *)
SilentUpdatesChangeNothing ==
  [][InStep => \A c \in Callers :
       LET old == compileGrants(World(pm)) new == compileGrants(World(pm'))
           silent(r) == r.ok /\ ~r.changed
       IN (\/ At(c, "setNodes") /\ ~At(c, "setNodes")' /\ silent(SetNodes(pm, call[c].arg))
           \/ /\ At(c, "setUsers") /\ ~At(c, "setUsers")' /\ silent(SetUsers(pm, call[c].arg))
              /\ ~hasPerNodeGrants(old) /\ ~hasPerNodeGrants(new))
          => /\ \A i \in DOMAIN store :
                  FreshFilter(World(pm'), new, store[i]) = FreshFilter(World(pm), old, store[i])
             /\ FreshPeers(World(pm'), new, store) = FreshPeers(World(pm), old, store)]_vars

(* A via grant steers the viewer's route while the election also hands it   *)
(* out: a regular grant covers it too, or the viewer routes it itself.      *)
Shared(v, r) ==
  LET matching == {g \in {Grants(pm.pol)[i] : i \in DOMAIN Grants(pm.pol)} :
                     ViewerMatchesGrant(World(pm), v, g) /\ GrantCovers(World(pm), g, r)}
  IN /\ \E g \in matching : g.via # {}
     /\ (\E g \in matching : g.via = {}) \/ r \in SubnetRoutes(v)

(* Two peers carry the same subnet route for a viewer only where a via grant*)
(* and the election share it, and then one of them is the primary that the  *)
(* viewer sees: no two routers are steered to, no two elected, whichever    *)
(* router the election chose in each scope. RoutesForPeer applies scopes,   *)
(* via steering and co-routing to each peer by itself.                      *)
OneCarrier ==
  Answered => \A prim \in DOMAIN outcome.routes :
    LET carried == outcome.routes[prim]
        viewer == store[outcome.viewer]
    IN \A i, j \in DOMAIN carried : i # j => \A r \in carried[i] \cap carried[j] :
         \/ IsExitRoute(r)
         \/ Shared(viewer, r) /\ VisiblePrimary(prim, viewer, r) \in {i, j}

(* The parts of the policy that are computed separately fit together: the   *)
(* filters and the peers, the routes of the peers, the names the policy     *)
(* uses, the tags nodes may take, and the attributes that changed.          *)
PolicyAgrees ==
  AdmittedArePeers /\ OneCarrier /\ NoDanglingReference /\ TagAuthority /\ AttributeChangesKept

(* The texts of a policy document: ports, aliases, grants, identities,      *)
(* localparts, protocols and editors' metadata are read and written back    *)
(* the same (the UnmarshalJSON and MarshalJSON methods of types.go).        *)
PolicyTextsAgree ==
  /\ PortsAsWritten /\ AliasesRoundTrip /\ GrantsRoundTrip /\ IdentitiesAgree
  /\ LocalpartsCanonical /\ ProtocolFormsAgree /\ MetadataStripped

(* When the policy manager has a check rule for a login on node d from an   *)
(* address of node s, it also finds a check period for the pair, so that    *)
(* the client's call back is answered.                                      *)
CheckRulesAnswered ==
  Answered => \A q \in DOMAIN outcome.checks :
    LET rules == compileSSHPolicy(World(pm), pm.nodes[q[2]])
    IN (\E i \in DOMAIN rules : /\ rules[i].action = "check" /\ rules[i].logins # {}
                                /\ Overlaps(rules[i].principals, pm.nodes[q[1]].addrs))
       => outcome.checks[q] # {}

=============================================================================
