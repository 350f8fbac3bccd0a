------------------------------- MODULE NodeStore -------------------------------
(***************************************************************************)
(* hscontrol/state/node_store.go: the copy-on-write node store.            *)
(*                                                                         *)
(* Callers block on an unbuffered channel (queue is Go's list of blocked   *)
(* senders).  One writer goroutine collects a batch, applies its           *)
(* operations one after another to a private copy of the nodes, rebuilds   *)
(* the derived maps that an operation may have moved, publishes the new    *)
(* snapshot with one pointer store and only then answers the callers.      *)
(* The policy is replaced concurrently by State.SetPolicy, which must ask  *)
(* for a rebuild afterwards.                                               *)
(***************************************************************************)
EXTENDS NodeRoutes

CONSTANTS
  Callers,     \* goroutines that write to the store
  Requests,    \* the write operations they may ask for
  InitNodes,   \* the nodes loaded from the database at start-up
  BatchSize,   \* tuning.node_store_batch_size
  MaxPolicy    \* bound: how often the policy is replaced

(* The work items of the write queue; UpdateNodes refuses an empty map.     *)
IsWork(w) ==
  /\ w.op \in {"put", "update", "del", "setName", "rebuild"}
  /\ w.op \in {"put", "del", "setName"} => w.id \in NodeIDs
  /\ w.op = "put" => w.node \in Node
  /\ w.op = "setName" => w.name \in Names
  /\ w.op = "update" => /\ DOMAIN w.updates \in SUBSET NodeIDs \ {{}}
                        /\ w.updates \in [DOMAIN w.updates -> Closures]

UniqueNames(nodes) ==
  \A i, j \in DOMAIN nodes : nodes[i].name = nodes[j].name => i = j

ASSUME NodeStoreAssumption ==
  /\ \A w \in Requests : IsWork(w)
  /\ IsNodeMap(InitNodes)
  /\ UniqueNames(InitNodes)
  /\ BatchSize \in Nat \ {0}
  /\ MaxPolicy \in Nat

VARIABLES
  snap,             \* the published Snapshot: nodes, routes, peers
  policy,           \* how often the policy manager's policy was replaced
  queue,            \* callers blocked sending on writeQueue, oldest first
  stopped,          \* the channel Stop closes
  pc,               \* "idle", "offered", "accepted" or "done", per caller
  work,             \* the work item of each caller
  reply,            \* what the caller's nodeResult and errResult deliver
  phase,            \* the writer: "collect", "apply", "store" or "exited"
  leaving,          \* the writer is applying its last batch
  batch,            \* the accepted callers, in order
  pos,              \* the batch entry being applied
  applied,          \* of an update entry, the nodes already updated
  wnodes,           \* the writer's private copy of the nodes
  built,            \* the adjacency peersFunc returned for the new snapshot
  relationChanged,  \* a peer-visibility input moved in this batch
  electionChanged   \* a route-election input moved in this batch

callerVars == <<pc, work, reply>>
batchVars == <<batch, pos, applied, wnodes, built, relationChanged, electionChanged>>
vars == <<snap, policy, queue, stopped, callerVars, phase, leaving, batchVars>>

NoReply == [view |-> {}, err |-> "nil"]

Rebuild == [op |-> "rebuild"]

NoNodes == [i \in {} |-> NoNode]

\* peersFunc, run on nodes while the policy manager holds policy.
PeersFunc(nodes) == [policy |-> policy, inputs |-> PeerInputs(nodes)]

NoPeers == [policy |-> 0, inputs |-> NoNodes]

TypeOK ==
  /\ snap = [nodes |-> snap.nodes, routes |-> snap.routes, peers |-> snap.peers]
  /\ IsNodeMap(snap.nodes)
  /\ snap.routes \in Routes
  /\ policy \in 0..MaxPolicy
  /\ snap.peers.policy \in 0..policy
  /\ built.policy \in 0..policy
  /\ queue \in Seq(Callers)
  /\ stopped \in BOOLEAN
  /\ pc \in [Callers -> {"idle", "offered", "accepted", "done"}]
  /\ work = [c \in Callers |-> work[c]]
  /\ \A c \in Callers : IsWork(work[c])
  /\ reply \in [Callers -> [view : SUBSET Node,
                            err : {"nil", "notFound", "invalid", "taken"}]]
  /\ phase \in {"collect", "apply", "store", "exited"}
  /\ leaving \in BOOLEAN
  /\ batch \in Seq(Callers)
  /\ pos \in Nat \ {0}
  /\ applied \in SUBSET NodeIDs
  /\ IsNodeMap(wnodes)
  /\ relationChanged \in BOOLEAN
  /\ electionChanged \in BOOLEAN

Init ==
  /\ policy = 0
  /\ snap = [nodes  |-> InitNodes,
             routes |-> electPrimaryRoutes(InitNodes, NoRoutes),
             peers  |-> PeersFunc(InitNodes)]
  /\ queue = <<>>
  /\ stopped = FALSE
  /\ pc = [c \in Callers |-> "idle"]
  /\ work = [c \in Callers |-> Rebuild]
  /\ reply = [c \in Callers |-> NoReply]
  /\ phase = "collect"
  /\ leaving = FALSE
  /\ batch = <<>>
  /\ pos = 1
  /\ applied = {}
  /\ wnodes = NoNodes
  /\ built = NoPeers
  /\ relationChanged = FALSE
  /\ electionChanged = FALSE

-----------------------------------------------------------------------------
(* Callers.                                                                 *)

Offer(c, w) ==
  /\ pc[c] = "idle"
  /\ pc' = [pc EXCEPT ![c] = "offered"]
  /\ work' = [work EXCEPT ![c] = w]
  /\ queue' = Append(queue, c)
  /\ UNCHANGED <<snap, stopped, reply, phase, leaving, batchVars>>

\* PutNode, UpdateNodes, DeleteNode, SetGivenName or RebuildPeerMaps is called.
Submit(c, w) ==
  /\ Offer(c, w)
  /\ UNCHANGED policy

SetPolicy_NoRebuild(c) ==
  /\ policy < MaxPolicy
  /\ policy' = policy + 1
  /\ pc[c] = "idle"
  /\ UNCHANGED <<snap, queue, stopped, callerVars, phase, leaving, batchVars>>

\* State.SetPolicy: the policy manager takes the policy, then a rebuild is asked for.
SetPolicy(c) ==
  /\ policy < MaxPolicy
  /\ policy' = policy + 1
  /\ Offer(c, Rebuild)

\* The caller's select takes <-stopped: the write is dropped.
Abandon(c) ==
  /\ pc[c] = "offered"
  /\ stopped
  /\ pc' = [pc EXCEPT ![c] = "done"]
  /\ reply' = [reply EXCEPT ![c] = NoReply]
  /\ \E k \in 1..Len(queue) :
       /\ queue[k] = c
       /\ queue' = SubSeq(queue, 1, k - 1) \o SubSeq(queue, k + 1, Len(queue))
  /\ UNCHANGED <<snap, policy, stopped, work, phase, leaving, batchVars>>

Return(c) ==
  /\ pc[c] = "done"
  /\ pc' = [pc EXCEPT ![c] = "idle"]
  /\ work' = [work EXCEPT ![c] = Rebuild]
  /\ reply' = [reply EXCEPT ![c] = NoReply]
  /\ UNCHANGED <<snap, policy, queue, stopped, phase, leaving, batchVars>>

Stop ==
  /\ ~stopped
  /\ stopped' = TRUE
  /\ UNCHANGED <<snap, policy, queue, callerVars, phase, leaving, batchVars>>

-----------------------------------------------------------------------------
(* The writer goroutine: processWrite collects, applyBatch applies.          *)

BeginApply(b) ==
  /\ phase' = "apply"
  /\ batch' = b
  /\ wnodes' = snap.nodes
  /\ UNCHANGED <<snap, policy, stopped, work, reply, built,
                 pos, applied, relationChanged, electionChanged>>

Receive ==
  LET c == Head(queue)
      b == Append(batch, c)
  IN  /\ phase = "collect"
      /\ queue # <<>>
      /\ queue' = Tail(queue)
      /\ pc' = [pc EXCEPT ![c] = "accepted"]
      /\ UNCHANGED leaving
      /\ IF Len(b) >= BatchSize
         THEN BeginApply(b)
         ELSE /\ batch' = b
              /\ UNCHANGED <<snap, policy, stopped, work, reply, phase, built, pos,
                             applied, wnodes, relationChanged, electionChanged>>

Tick ==
  /\ phase = "collect"
  /\ batch # <<>>
  /\ BeginApply(batch)
  /\ UNCHANGED <<queue, pc, leaving>>

StopWriter_DropBatch ==
  /\ phase = "collect"
  /\ stopped
  /\ leaving' = TRUE
  /\ phase' = "exited"
  /\ UNCHANGED <<snap, policy, queue, stopped, callerVars, batchVars>>

StopWriter ==
  /\ phase = "collect"
  /\ stopped
  /\ leaving' = TRUE
  /\ UNCHANGED <<queue, pc>>
  /\ IF batch # <<>>
     THEN BeginApply(batch)
     ELSE /\ phase' = "exited"
          /\ UNCHANGED <<snap, policy, stopped, work, reply, batchVars>>

\* The writer is at a batch entry with operation op.
At(op) ==
  /\ phase = "apply"
  /\ pos <= Len(batch)
  /\ work[batch[pos]].op = op
  /\ UNCHANGED <<snap, policy, queue, stopped, pc, work, phase, leaving, batch, built>>

Advance_Back ==
  /\ pos' = pos - 1
  /\ applied' = {}

Advance ==
  /\ pos' = pos + 1
  /\ applied' = {}

BothChanged ==
  /\ relationChanged' = TRUE
  /\ electionChanged' = TRUE

With(m, i, n) == [j \in DOMAIN m \cup {i} |-> IF j = i THEN n ELSE m[j]]

Without(m, i) == [j \in DOMAIN m \ {i} |-> m[j]]

ApplyPut ==
  LET w == work[batch[pos]]
      name == resolveGivenName(wnodes, w.id, w.node.name)
  IN  /\ At("put")
      /\ wnodes' = With(wnodes, w.id, [w.node EXCEPT !.name = name])
      /\ BothChanged
      /\ Advance
      /\ UNCHANGED reply

\* One node of an update entry; Go ranges over the map in any order.
UpdatedNode(i, f) ==
  LET n == Effect(f, wnodes[i])
  IN  IF n.name = wnodes[i].name
      THEN n
      ELSE [n EXCEPT !.name = resolveGivenName(wnodes, i, n.name)]

ApplyUpdate(i) ==
  LET w == work[batch[pos]]
      post == UpdatedNode(i, w.updates[i])
      all == applied \cup {i}
  IN  /\ At("update")
      /\ i \in DOMAIN w.updates \ applied
      /\ IF i \in DOMAIN wnodes
         THEN /\ wnodes' = With(wnodes, i, post)
              /\ relationChanged' = (relationChanged \/ RelationMoved(wnodes[i], post))
              /\ electionChanged' = (electionChanged \/ ElectionMoved(wnodes[i], post))
         ELSE UNCHANGED <<wnodes, relationChanged, electionChanged>>
      /\ IF all = DOMAIN w.updates THEN Advance ELSE applied' = all /\ UNCHANGED pos
      /\ UNCHANGED reply

ApplyDelete ==
  /\ At("del")
  /\ wnodes' = Without(wnodes, work[batch[pos]].id)
  /\ BothChanged
  /\ Advance
  /\ UNCHANGED reply

SetNameError(w) ==
  IF w.id \notin DOMAIN wnodes THEN "notFound"
  ELSE IF ~ValidLabel(w.name) THEN "invalid"
  ELSE IF w.name \in TakenNames(wnodes, w.id) THEN "taken"
  ELSE "nil"

ApplySetName ==
  LET c == batch[pos]
      w == work[c]
      err == SetNameError(w)
  IN  /\ At("setName")
      /\ reply' = [reply EXCEPT ![c].err = err]
      /\ IF err = "nil"
         THEN /\ wnodes' = With(wnodes, w.id, [wnodes[w.id] EXCEPT !.name = w.name])
              /\ BothChanged
         ELSE UNCHANGED <<wnodes, relationChanged, electionChanged>>
      /\ Advance

ApplyRebuild ==
  /\ At("rebuild")
  /\ BothChanged
  /\ Advance
  /\ UNCHANGED <<wnodes, reply>>

\* snapshotFromNodes: peersFunc runs, or the previous adjacency is reused.
BuildPeers ==
  /\ phase = "apply"
  /\ pos > Len(batch)
  /\ built' = IF relationChanged THEN PeersFunc(wnodes) ELSE snap.peers
  /\ phase' = "store"
  /\ UNCHANGED <<snap, policy, queue, stopped, callerVars, leaving, batch, pos,
                 applied, wnodes, relationChanged, electionChanged>>

\* What nodeResult delivers: the node as the whole batch left it.
ViewOf(c) ==
  IF /\ work[c].op \in {"put", "setName"}
     /\ reply[c].err = "nil"
     /\ work[c].id \in DOMAIN wnodes
  THEN {wnodes[work[c].id]}
  ELSE {}

InBatch(c) == \E k \in 1..Len(batch) : batch[k] = c

\* The snapshot is stored, then every work item of the batch is answered.
Store ==
  /\ phase = "store"
  /\ snap' = [nodes  |-> wnodes,
              routes |-> IF electionChanged
                         THEN electPrimaryRoutes(wnodes, snap.routes)
                         ELSE snap.routes,
              peers  |-> built]
  /\ pc' = [c \in Callers |-> IF InBatch(c) THEN "done" ELSE pc[c]]
  /\ reply' = [c \in Callers |-> IF InBatch(c)
                                 THEN [view |-> ViewOf(c), err |-> reply[c].err]
                                 ELSE reply[c]]
  /\ phase' = IF leaving THEN "exited" ELSE "collect"
  /\ batch' = <<>>
  /\ pos' = 1
  /\ applied' = {}
  /\ wnodes' = NoNodes
  /\ built' = NoPeers
  /\ relationChanged' = FALSE
  /\ electionChanged' = FALSE
  /\ UNCHANGED <<policy, queue, stopped, work, leaving>>

Apply ==
  \/ ApplyPut
  \/ \E i \in NodeIDs : ApplyUpdate(i)
  \/ ApplyDelete
  \/ ApplySetName
  \/ ApplyRebuild

Writer == Receive \/ Tick \/ StopWriter \/ Apply \/ BuildPeers \/ Store

Next ==
  \/ \E c \in Callers : \/ \E w \in Requests : Submit(c, w)
                         \/ SetPolicy(c)
                         \/ Abandon(c)
                         \/ Return(c)
  \/ Stop
  \/ Writer

Spec == Init /\ [][Next]_vars

\* The writer goroutine runs while it can, its ticker fires, and a blocked
\* caller whose select has a ready case takes one.
FairSpec ==
  /\ Spec
  /\ WF_vars(Writer)
  /\ \A c \in Callers : WF_vars(Abandon(c)) /\ WF_vars(Return(c))

-----------------------------------------------------------------------------
(* Properties.                                                              *)

\* No two stored nodes share a GivenName, whatever mix of puts, hostname
\* changes and admin renames a batch held: resolveGivenName and the setName
\* collision check both see the earlier operations of their batch.
UniqueGivenNames == UniqueNames(snap.nodes)

\* Skipping the election (electionChanged = FALSE in applyBatch) is never
\* observable: electing again from the published nodes changes nothing.
PrimariesCurrent ==
  snap.routes = electPrimaryRoutes(snap.nodes, snap.routes)

\* Reusing the adjacency (relationChanged = FALSE in applyBatch) is never
\* observable: every input BuildPeerMap reads is the one it last ran on.
PeersCurrent == snap.peers.inputs = PeerInputs(snap.nodes)

\* A replaced policy is in the published adjacency, or a rebuild that will
\* put it there is still under way, or the store was stopped.
PolicyReachesPeers ==
  \/ snap.peers.policy = policy
  \/ stopped
  \/ \E c \in Callers : pc[c] \in {"offered", "accepted"} /\ work[c] = Rebuild

\* What applyBatch's loop maintains on its private copy: names stay unique,
\* and as long as a flag is unset its inputs are those of the old snapshot.
SameElection(m, n) ==
  /\ DOMAIN m = DOMAIN n
  /\ \A i \in DOMAIN m : /\ ScopeOf(m[i]) = ScopeOf(n[i])
                         /\ AllApprovedRoutes(m[i]) = AllApprovedRoutes(n[i])
                         /\ m[i].online = n[i].online
                         /\ m[i].unhealthy = n[i].unhealthy

BatchInv ==
  phase \in {"apply", "store"} =>
    /\ UniqueNames(wnodes)
    /\ ~electionChanged => SameElection(wnodes, snap.nodes)
    /\ ~relationChanged => PeerInputs(wnodes) = PeerInputs(snap.nodes)
    /\ phase = "store" => built.inputs = PeerInputs(wnodes)

\* The store publishes what PrimaryRoutes promises: the previous primary is
\* kept while it is online, approved and healthy, a healthy advertiser is
\* chosen when there is one, and the lowest one wins.
PR == INSTANCE PrimaryRoutes WITH nodes <- snap.nodes, routes <- snap.routes

PrimaryRoutesPromise == PR!Spec

\* Every write that was asked for returns, also one that races Stop: the
\* writer answers its last batch before it exits, the rest are dropped.
WritesReturn == \A c \in Callers : pc[c] = "offered" ~> pc[c] = "done"
=============================================================================
