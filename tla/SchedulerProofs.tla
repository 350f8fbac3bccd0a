---------------------------- MODULE SchedulerProofs ----------------------------
(***************************************************************************)
(* Proofs about Scheduler for every set of routers, every bound and every  *)
(* mix of tasks: the types, the sparing of fresh sessions and the failover *)
(* that never lands on a router the cycle found silent or had to defer.    *)
(***************************************************************************)
EXTENDS Scheduler, FiniteSetTheorems, TLAPS

(* A leaf that names no prover is tried with SMT, with Zenon, and with SMT  *)
(* once more.                                                               *)
USE SMT, Zenon, SMTT(60)

Verdicts == {"none", "wait", "timeout", "yes", "no", "defer", "skip"}

Probe == [on : Nat, stable : BOOLEAN, st : Verdicts]

\* The NodeStore and the clock.
StoreInv ==
  /\ setup \in Setups /\ clock \in Nat
  /\ nodes \in [setup.routers -> Node]
  /\ routes \in Routes /\ told \in Routes
  /\ epoch \in [setup.routers -> Nat]

\* The probes: none outlives its cycle, none is of a session to come, and
\* silence counts on a stable session only.
ProbeInv ==
  /\ probe \in [setup.routers -> Probe]
  /\ lastStable \in [setup.routers -> Nat]
  /\ pings \subseteq {n \in setup.routers : Waiting(n)}
  /\ \A n \in setup.routers : /\ probe[n].on <= epoch[n]
                              /\ probe[n].st = "no" => probe[n].stable
  /\ pc \notin {"probe", "batch"} => probe = [n \in setup.routers |-> NoProbe]

\* A batch is applied when every probe of the cycle was judged.
BatchInv ==
  pc = "batch" =>
    /\ work.turns \subseteq {n \in setup.routers : probe[n].st \in {"yes", "no"}}
    /\ \A n \in setup.routers : probe[n].st \notin {"wait", "timeout", "defer"}

\* Every unhealthy mark has its reason.
MarkInv ==
  /\ marked \in [setup.routers -> Probe]
  /\ \A n \in setup.routers :
       nodes[n].unhealthy => marked[n].st = "no" /\ marked[n].stable /\ marked[n].on <= epoch[n]

\* The sweep.
SweepInv ==
  /\ pc \in {"select", "list", "expire", "probe", "batch", "fetch", "done"}
  /\ lastCheck \in Nat /\ lastCheck <= clock
  /\ pc \in {"list", "expire"} => work.started \in Nat /\ work.started <= clock

\* The records file and its manager.
FileInv ==
  /\ man \in {"run", "wait", "watch dir", "add", "send", "gave up", "closed"}
  /\ file \in Contents \cup {None} /\ records \in Readable /\ cfgRecords \in Readable

SchedInv == StoreInv /\ ProbeInv /\ BatchInv /\ MarkInv /\ SweepInv /\ FileInv

-----------------------------------------------------------------------------
(* The closures and the election.                                           *)

\* A probe that was not sent.
LEMMA NoProbeFacts ==
  /\ NoProbe \in Probe /\ NoProbe.on = 0 /\ NoProbe.st = "none" /\ NoProbe.stable = FALSE
BY DEF NoProbe, Probe, Verdicts

\* The closures of sessions, approvals and expiries give a node and mark none
\* unhealthy.
LEMMA EffectSpares ==
  ASSUME NEW m \in Node, NEW f,
         \/ f.fn \in {"presence", "expiry"} /\ f.online \in BOOLEAN
         \/ f.fn = "approve" /\ f.routes \in SUBSET Prefixes
  PROVE  Effect(f, m) \in Node /\ (Effect(f, m).unhealthy => m.unhealthy)
<1>1. CASE f.fn = "presence"
  <2>1. Effect(f, m) = [m EXCEPT !.online = f.online, !.unhealthy = FALSE]
    BY <1>1 DEF Effect
  <2>2. QED
    BY <1>1, <2>1, ZenonT(30) DEF Node
<1>2. CASE f.fn = "expiry"
  <2>1. Effect(f, m) = [m EXCEPT !.online = f.online]
    BY <1>2 DEF Effect
  <2>2. QED
    BY <1>2, <2>1 DEF Node
<1>3. CASE f.fn = "approve"
  <2> DEFINE a == [m EXCEPT !.approved = f.routes]
  <2>1. Effect(f, m) = DropStaleHealth(a)
    BY <1>3 DEF Effect
  <2>2. a \in Node /\ a.unhealthy = m.unhealthy
    BY <1>3 DEF Node
  <2> HIDE DEF a
  <2>3. [a EXCEPT !.unhealthy = FALSE] \in Node /\ ~[a EXCEPT !.unhealthy = FALSE].unhealthy
    BY <2>2, Zenon DEF Node
  <2>4. QED
    BY <2>1, <2>2, <2>3 DEF DropStaleHealth
<1>4. QED
  BY <1>1, <1>2, <1>3

\* healthSetter gives a node, and a good probe never an unhealthy one.
LEMMA HealthSet ==
  ASSUME NEW m \in Node, NEW healthy \in BOOLEAN
  PROVE  healthSetter(m, healthy) \in Node /\ (healthy => ~healthSetter(m, healthy).unhealthy)
<1>1. [m EXCEPT !.unhealthy = ~healthy] \in Node /\ [m EXCEPT !.unhealthy = ~healthy].unhealthy = ~healthy
  BY Zenon DEF Node
<1>2. QED
  BY <1>1, Zenon DEF healthSetter

\* Lowest is the minimum of a non-empty set of numbers.
LEMMA LowestIn ==
  ASSUME NEW S \in SUBSET Nat, S # {}
  PROVE  Lowest(S) \in S
<1> DEFINE R == OpToRel(<, Nat)
<1>1. PICK x \in S : \A y \in S : ~(<<y, x>> \in R)
  <2>1. IsWellFoundedOn(R, Nat)
    BY NatLessThanWellFounded, Zenon
  <2> HIDE DEF R
  <2>2. QED
    BY <2>1, WFMin, Zenon
<1>2. \A y \in S : x <= y
  <2> SUFFICES ASSUME NEW y \in S PROVE x <= y
    OBVIOUS
  <2>1. ~(y < x)
    BY <1>1, Zenon DEF OpToRel
  <2>2. QED
    BY <2>1
<1>3. QED
  BY <1>2, Zenon DEF Lowest

\* An election gives an assignment.
LEMMA ElectionTyped ==
  ASSUME NEW R \in SUBSET NodeIDs, NEW ns \in [R -> Node], NEW prev
  PROVE  electPrimaryRoutes(ns, prev) \in Routes
<1>1. ASSUME NEW s \in Scopes, NEW p \in Prefixes, NEW was
      PROVE  electOneScope(ns, s, p, was) \in NodeIDs \cup {NoNode}
  <2>1. /\ Candidates(ns, s, p) \subseteq NodeIDs
        /\ HealthyCandidates(ns, s, p) \subseteq NodeIDs
        /\ HealthyCandidates(ns, s, p) \in SUBSET Nat
    BY NodeRoutesAssumption, Zenon DEF Candidates, HealthyCandidates
  <2>2. HealthyCandidates(ns, s, p) # {} => Lowest(HealthyCandidates(ns, s, p)) \in NodeIDs
    BY <2>1, LowestIn
  <2>3. QED
    BY <2>1, <2>2 DEF electOneScope
<1>2. QED
  BY <1>1 DEF electPrimaryRoutes, Routes

-----------------------------------------------------------------------------
(* Steps.                                                                   *)

\* What the prober keeps survives a write of the store that marks nobody and
\* a session that begins.
LEMMA WriteSpares ==
  ASSUME SchedInv, NEW ns \in [setup.routers -> Node], UpdateNodes(ns),
         \A n \in setup.routers : ns[n].unhealthy => nodes[n].unhealthy,
         epoch' \in [setup.routers -> Nat], \A n \in setup.routers : epoch[n] <= epoch'[n],
         UNCHANGED <<envVars, told, lastStable, probe, pings, marked>>
  PROVE  /\ StoreInv' /\ MarkInv'
         /\ UNCHANGED <<pc, work>> => ProbeInv' /\ BatchInv'
         /\ pc' = "select" /\ probe = [n \in setup.routers |-> NoProbe] => ProbeInv' /\ BatchInv'
<1>1. /\ setup \in Setups /\ setup' = setup /\ clock' = clock /\ clock \in Nat
      /\ nodes' = ns /\ routes' = electPrimaryRoutes(ns, routes)
      /\ told' = told /\ lastStable' = lastStable /\ probe' = probe /\ pings' = pings /\ marked' = marked
  BY DEF SchedInv, StoreInv, UpdateNodes, envVars
<1>2. routes' \in Routes
  BY <1>1, SchedulerAssumption, ElectionTyped
<1>3. StoreInv'
  BY <1>1, <1>2, Zenon DEF SchedInv, StoreInv
<1>4. ASSUME NEW n \in setup.routers
      PROVE  /\ probe[n].on <= epoch[n] => probe[n].on <= epoch'[n]
             /\ marked[n].on <= epoch[n] => marked[n].on <= epoch'[n]
  <2>1. probe[n].on \in Nat /\ marked[n].on \in Nat /\ epoch[n] \in Nat /\ epoch'[n] \in Nat
    BY DEF SchedInv, ProbeInv, MarkInv, StoreInv, Probe
  <2>2. epoch[n] <= epoch'[n]
    BY Zenon
  <2>3. QED
    BY <2>1, <2>2
<1>5. MarkInv'
  BY <1>1, <1>4, Zenon DEF SchedInv, MarkInv
<1>6. ASSUME UNCHANGED <<pc, work>> PROVE ProbeInv' /\ BatchInv'
  BY <1>1, <1>4, <1>6, Zenon DEF SchedInv, ProbeInv, BatchInv, Waiting
<1>7. ASSUME pc' = "select", probe = [n \in setup.routers |-> NoProbe] PROVE ProbeInv' /\ BatchInv'
  BY <1>1, <1>4, <1>7 DEF SchedInv, ProbeInv, BatchInv, Waiting
<1>8. QED
  BY <1>3, <1>5, <1>6, <1>7

\* The sweep is left alone.
LEMMA SweepKept ==
  ASSUME SweepInv, UNCHANGED <<pc, work, lastCheck, clock>>
  PROVE  SweepInv'
BY DEF SweepInv

\* The records file is left alone.
LEMMA FileKept ==
  ASSUME FileInv, UNCHANGED <<man, file, records, cfgRecords>>
  PROVE  FileInv'
BY Zenon DEF FileInv

\* The store and the prober are left alone.
LEMMA StoreKept ==
  ASSUME SchedInv, UNCHANGED <<setup, nodes, routes, told, epoch, probe, lastStable, pings, marked>>,
         clock' \in Nat
  PROVE  /\ StoreInv' /\ MarkInv'
         /\ pc' = pc /\ work' = work => ProbeInv' /\ BatchInv'
         /\ pc \notin {"probe", "batch"} /\ pc' \notin {"batch"} => ProbeInv' /\ BatchInv'
<1>1. StoreInv' /\ MarkInv'
  BY Zenon DEF SchedInv, StoreInv, MarkInv
<1>2. ASSUME pc' = pc, work' = work PROVE ProbeInv' /\ BatchInv'
  BY <1>2 DEF SchedInv, ProbeInv, BatchInv, Waiting
<1>3. ASSUME pc \notin {"probe", "batch"}, pc' # "batch" PROVE ProbeInv' /\ BatchInv'
  BY <1>3 DEF SchedInv, ProbeInv, BatchInv, Waiting
<1>4. QED
  BY <1>1, <1>2, <1>3, Zenon

\* Sessions and the calls of an administrator that write one node.
LEMMA NodeSteps ==
  ASSUME SchedInv, NEW n \in setup.routers,
         \/ Connect(n) \/ Disconnect(n)
         \/ SetApprovedRoutes(n, TRUE) \/ SetApprovedRoutes(n, FALSE)
         \/ \E e \in 0..Never : SetNodeExpiry(n, e)
  PROVE  SchedInv'
<1>1. PICK f : /\ UpdateNode(n, f)
               /\ \/ f.fn \in {"presence", "expiry"} /\ f.online \in BOOLEAN
                  \/ f.fn = "approve" /\ f.routes \in SUBSET Prefixes
  <2>1. CASE Connect(n)
    <3> DEFINE f == [fn |-> "presence", online |-> ~IsExpired(n)]
    <3>1. UpdateNode(n, f) /\ f.fn = "presence" /\ f.online \in BOOLEAN
      BY <2>1 DEF Connect, IsExpired
    <3>2. QED
      BY <3>1, Zenon
  <2>2. CASE Disconnect(n)
    <3> DEFINE f == [fn |-> "presence", online |-> FALSE]
    <3>1. UpdateNode(n, f) /\ f.fn = "presence" /\ f.online \in BOOLEAN
      BY <2>2 DEF Disconnect
    <3>2. QED
      BY <3>1, Zenon
  <2>3. CASE \E b \in BOOLEAN : SetApprovedRoutes(n, b)
    <3>1. PICK b \in BOOLEAN : SetApprovedRoutes(n, b)
      BY <2>3
    <3> DEFINE f == [fn |-> "approve", routes |-> IF b THEN {Prefix} ELSE {}]
    <3>2. UpdateNode(n, f) /\ f.fn = "approve" /\ f.routes \in SUBSET Prefixes
      BY <3>1, SchedulerAssumption DEF SetApprovedRoutes
    <3>3. QED
      BY <3>2
  <2>4. CASE \E e \in 0..Never : SetNodeExpiry(n, e)
    <3>1. PICK e \in 0..Never : SetNodeExpiry(n, e)
      BY <2>4
    <3> DEFINE f == [fn |-> "expiry", online |-> sess[n] # "off" /\ clock <= e]
    <3>2. UpdateNode(n, f) /\ f.fn = "expiry" /\ f.online \in BOOLEAN
      BY <3>1 DEF SetNodeExpiry
    <3>3. QED
      BY <3>2, Zenon
  <2>5. QED
    BY <2>1, <2>2, <2>3, <2>4, Zenon
<1>2. /\ epoch' \in {epoch, [epoch EXCEPT ![n] = @ + 1]}
      /\ UNCHANGED <<envVars, told, lastStable, probe, pings, marked, pc, work, lastCheck, fileVars, manVars, cfgRecords>>
  BY Zenon DEF Connect, Disconnect, SetApprovedRoutes, SetNodeExpiry, loopVars
<1> DEFINE ns == [nodes EXCEPT ![n] = Effect(f, @)]
<1>3. /\ nodes \in [setup.routers -> Node] /\ epoch \in [setup.routers -> Nat]
  BY DEF SchedInv, StoreInv
<1>4. Effect(f, nodes[n]) \in Node /\ (Effect(f, nodes[n]).unhealthy => nodes[n].unhealthy)
  BY <1>1, <1>3, EffectSpares
<1>5. ns \in [setup.routers -> Node] /\ \A m \in setup.routers : ns[m].unhealthy => nodes[m].unhealthy
  BY <1>3, <1>4
<1>6. UpdateNodes(ns)
  BY <1>1 DEF UpdateNode
<1> HIDE DEF ns
<1>7. epoch' \in [setup.routers -> Nat] /\ \A m \in setup.routers : epoch[m] <= epoch'[m]
  BY <1>2, <1>3
<1>8. StoreInv' /\ MarkInv' /\ ProbeInv' /\ BatchInv'
  BY <1>2, <1>5, <1>6, <1>7, WriteSpares, Zenon
<1>9. UNCHANGED <<clock, man, file, records, cfgRecords>>
  BY <1>2, Zenon DEF envVars, fileVars, manVars
<1>10. SweepInv' /\ FileInv'
  BY <1>2, <1>9, SweepKept, FileKept, Zenon DEF SchedInv
<1>11. QED
  BY <1>8, <1>10 DEF SchedInv

\* Steps that leave the store, the prober and the loop alone.
LEMMA OutsideSteps ==
  ASSUME SchedInv,
         \/ \E n \in setup.routers : AddNode(n) \/ RemoveNode(n) \/ Silence(n)
         \/ Tick \/ Stop
         \/ \E m \in setup.published : Publish(m)
         \/ \E c \in Contents \cup {None} : Edit(c)
         \/ recordsUpdate \/ Managing
  PROVE  SchedInv'
<1>1. /\ UNCHANGED <<setup, nodes, routes, told, epoch, probe, lastStable, pings, marked, pc, work, lastCheck>>
      /\ clock' = clock \/ Tick
  BY Zenon DEF AddNode, RemoveNode, Silence, Tick, Stop, Publish, Edit, recordsUpdate, Managing, manEvent, manWait,
         manAdd, manClose, envVars, storeVars, loopVars, proberVars
<1>2. clock \in Nat /\ clock' \in Nat /\ clock <= clock'
  <2>1. clock \in Nat
    BY DEF SchedInv, StoreInv
  <2>2. clock' = clock \/ clock' = clock + 1
    BY <1>1, Zenon DEF Tick
  <2>3. QED
    BY <2>1, <2>2
<1>3. StoreInv' /\ MarkInv' /\ ProbeInv' /\ BatchInv'
  BY <1>1, <1>2, StoreKept, Zenon
<1>4. SweepInv'
  BY <1>1, <1>2 DEF SchedInv, SweepInv
<1>5. FileInv'
  <2>1. FileInv
    BY DEF SchedInv
  <2>2. CASE (\E n \in setup.routers : AddNode(n) \/ RemoveNode(n) \/ Silence(n)) \/ Tick \/ Stop
             \/ \E m \in setup.published : Publish(m)
    <3>1. UNCHANGED <<man, file, records, cfgRecords>>
      BY <2>2, Zenon DEF AddNode, RemoveNode, Silence, Tick, Stop, Publish, fileVars, manVars
    <3>2. QED
      BY <2>1, <3>1, FileKept, Zenon
  <2>3. CASE \E c \in Contents \cup {None} : Edit(c)
    BY <2>1, <2>3, Zenon DEF FileInv, Edit, manVars
  <2>4. CASE recordsUpdate
    BY <2>1, <2>4 DEF FileInv, recordsUpdate, fileVars
  <2>5. CASE manEvent
    BY <2>1, <2>5, Zenon DEF FileInv, manEvent, updateRecords
  <2>6. CASE manWait
    BY <2>1, <2>6, Zenon DEF FileInv, manWait
  <2>7. CASE manAdd
    BY <2>1, <2>7, Zenon DEF FileInv, manAdd, afterAdd, updateRecords
  <2>8. CASE manClose
    BY <2>1, <2>8, Zenon DEF FileInv, manClose, fileVars
  <2>9. QED
    BY <2>2, <2>3, <2>4, <2>5, <2>6, <2>7, <2>8, Zenon DEF Managing
<1>6. QED
  BY <1>3, <1>4, <1>5, Zenon DEF SchedInv

\* Steps of the loop that do not write the store.
LEMMA LoopSteps ==
  ASSUME SchedInv, SendPolicyChange \/ expireTick \/ expireList \/ derpTick \/ derpFetch \/ loopEnds
  PROVE  SchedInv'
<1>1. /\ UNCHANGED <<setup, clock, nodes, routes, epoch, probe, lastStable, pings, marked, lastCheck,
                     man, file, records, cfgRecords>>
      /\ told' \in {told, routes}
  BY Zenon DEF SendPolicyChange, expireTick, expireList, derpTick, derpFetch, loopEnds, envVars, storeVars, proberVars,
         Others, loopVars, fileVars, manVars
<1>2. FileInv' /\ clock \in Nat
  BY <1>1, FileKept DEF SchedInv, StoreInv
<1>3. CASE SendPolicyChange
  <2>1. UNCHANGED <<pc, work>>
    BY <1>3, Zenon DEF SendPolicyChange, loopVars
  <2>2. StoreInv' /\ MarkInv' /\ ProbeInv' /\ BatchInv' /\ SweepInv'
    BY <1>1, <2>1, Zenon DEF SchedInv, StoreInv, MarkInv, ProbeInv, BatchInv, SweepInv, Waiting
  <2>3. QED
    BY <1>2, <2>2 DEF SchedInv
<1>4. CASE expireTick \/ expireList \/ derpTick \/ derpFetch \/ loopEnds
  <2>1. told' = told /\ pc \notin {"probe", "batch"} /\ pc' # "batch"
    BY <1>4, Zenon DEF expireTick, expireList, derpTick, derpFetch, loopEnds, storeVars, Idle, afterFailure
  <2>2. StoreInv' /\ MarkInv' /\ ProbeInv' /\ BatchInv'
    BY <1>1, <1>2, <2>1, StoreKept
  <2>3. SweepInv'
    <3>1. CASE expireTick
      BY <1>1, <1>2, <3>1 DEF SchedInv, SweepInv, expireTick
    <3>2. CASE expireList
      BY <1>1, <1>2, <3>2, Zenon DEF SchedInv, SweepInv, expireList
    <3>3. CASE derpTick \/ derpFetch \/ loopEnds
      BY <1>1, <1>2, <3>3 DEF SchedInv, SweepInv, derpTick, derpFetch, loopEnds, afterFailure
    <3>4. QED
      BY <1>4, <3>1, <3>2, <3>3, Zenon
  <2>4. QED
    BY <1>2, <2>2, <2>3, Zenon DEF SchedInv
<1>5. QED
  BY <1>3, <1>4, Zenon

\* The sweep's write.
LEMMA SweepStep ==
  ASSUME SchedInv, ExpireExpiredNodes
  PROVE  SchedInv'
<1> DEFINE gone == {n \in work.nodes : Lapsed(n)}
           after(n) == IF n \in gone THEN Effect([fn |-> "expiry", online |-> ShouldBeOnline(n)], nodes[n])
                       ELSE nodes[n]
           ns == [n \in DOMAIN nodes |-> after(n)]
<1>1. /\ UpdateNodes(ns) /\ pc = "expire" /\ pc' = "select" /\ lastCheck' = work.started
      /\ UNCHANGED <<envVars, told, epoch, lastStable, probe, pings, marked, man, file, records, cfgRecords>>
  BY Zenon DEF ExpireExpiredNodes, proberVars, Others, fileVars, manVars, nextCheck
<1>2. nodes \in [setup.routers -> Node] /\ epoch \in [setup.routers -> Nat] /\ DOMAIN nodes = setup.routers
  BY Zenon DEF SchedInv, StoreInv
<1>3. ASSUME NEW n \in setup.routers PROVE after(n) \in Node /\ (after(n).unhealthy => nodes[n].unhealthy)
  <2> DEFINE f == [fn |-> "expiry", online |-> ShouldBeOnline(n)]
  <2>1. f.fn = "expiry" /\ f.online \in BOOLEAN
    BY DEF ShouldBeOnline
  <2> HIDE DEF f
  <2>2. Effect(f, nodes[n]) \in Node /\ (Effect(f, nodes[n]).unhealthy => nodes[n].unhealthy)
    BY <1>2, <2>1, EffectSpares
  <2>3. QED
    BY <1>2, <2>2, Zenon DEF f
<1> HIDE DEF after
<1>4. ns \in [setup.routers -> Node] /\ \A n \in setup.routers : ns[n].unhealthy => nodes[n].unhealthy
  BY <1>2, <1>3, Zenon
<1> HIDE DEF ns
<1>5. probe = [n \in setup.routers |-> NoProbe]
  BY <1>1 DEF SchedInv, ProbeInv
<1>6. epoch' \in [setup.routers -> Nat] /\ \A n \in setup.routers : epoch[n] <= epoch'[n]
  BY <1>1, <1>2
<1>7. StoreInv' /\ MarkInv' /\ ProbeInv' /\ BatchInv'
  BY <1>1, <1>4, <1>5, <1>6, WriteSpares, Zenon
<1>8. SweepInv'
  BY <1>1 DEF SchedInv, SweepInv, envVars
<1>9. FileInv'
  BY <1>1, FileKept DEF SchedInv
<1>10. QED
  BY <1>7, <1>8, <1>9, Zenon DEF SchedInv

\* A new verdict on one probe while the cycle runs.
LEMMA JudgeKeeps ==
  ASSUME SchedInv, NEW n \in setup.routers, NEW st \in Verdicts, Judge(n, st),
         pc = "probe", UNCHANGED <<pc, setup, epoch, lastStable>>,
         pings' \subseteq pings, st = "wait" \/ n \notin pings',
         st = "no" => probe[n].stable
  PROVE  ProbeInv' /\ BatchInv'
<1>1. probe \in [setup.routers -> Probe] /\ probe' = [probe EXCEPT ![n].st = st]
  BY DEF SchedInv, ProbeInv, Judge
<1>2. probe[n] \in Probe
  BY <1>1
<1>3. /\ [probe[n] EXCEPT !.st = st] \in Probe /\ [probe[n] EXCEPT !.st = st].on = probe[n].on
      /\ [probe[n] EXCEPT !.st = st].stable = probe[n].stable /\ [probe[n] EXCEPT !.st = st].st = st
  BY <1>2 DEF Probe
<1>4. /\ probe' \in [setup.routers -> Probe]
      /\ \A m \in setup.routers : probe'[m] = IF m = n THEN [probe[n] EXCEPT !.st = st] ELSE probe[m]
  BY <1>1, <1>3
<1>5. \A m \in setup.routers : /\ probe'[m].on <= epoch'[m]
                               /\ probe'[m].st = "no" => probe'[m].stable
  BY <1>3, <1>4, Zenon DEF SchedInv, ProbeInv
<1>6. pings' \subseteq {m \in setup.routers : Waiting(m)'}
  BY <1>3, <1>4, Zenon DEF SchedInv, ProbeInv, Waiting
<1>7. lastStable' \in [setup.routers -> Nat]
  BY DEF SchedInv, ProbeInv
<1>8. QED
  BY <1>4, <1>5, <1>6, <1>7 DEF ProbeInv, BatchInv

\* The goroutine of one probe, and the answer of its client.
LEMMA ProbingSteps ==
  ASSUME SchedInv, NEW n \in setup.routers, PingResponseHandler(n) \/ Probing(n)
  PROVE  SchedInv'
<1>1. /\ UNCHANGED <<setup, clock, nodes, routes, told, epoch, marked, pc, lastCheck, man, file, records, cfgRecords>>
  BY Zenon DEF PingResponseHandler, Probing, probeNode, probeAnswered, probeTimeout, probeJudge, probeCancelled,
         envVars, storeVars, loopVars, Others, fileVars, manVars
<1>2. StoreInv' /\ MarkInv'
  BY <1>1, Zenon DEF SchedInv, StoreInv, MarkInv
<1>3. FileInv'
  BY <1>1, FileKept, Zenon DEF SchedInv
<1>4. work' = work \/ pc = "probe"
  BY Zenon DEF PingResponseHandler, Probing, probeNode, probeAnswered, probeTimeout, probeJudge, probeCancelled, loopVars
<1>5. SweepInv'
  BY <1>1, <1>4, Zenon DEF SchedInv, SweepInv
<1>6. ASSUME probe[n].st \in {"wait", "timeout"} PROVE pc = "probe"
  <2>1. pc \in {"probe", "batch"}
    <3>1. probe = [m \in setup.routers |-> NoProbe] => probe[n].st = "none"
      BY NoProbeFacts, Zenon
    <3>2. QED
      BY <1>6, <3>1, Zenon DEF SchedInv, ProbeInv
  <2>2. QED
    BY <1>6, <2>1, Zenon DEF SchedInv, BatchInv
<1>7. ProbeInv' /\ BatchInv'
  <2>1. CASE PingResponseHandler(n)
    <3>1. pings' \subseteq pings /\ UNCHANGED <<probe, lastStable, work>>
      BY <2>1, Zenon DEF PingResponseHandler, loopVars
    <3>2. QED
      BY <1>1, <3>1, Zenon DEF SchedInv, ProbeInv, BatchInv, Waiting
  <2>2. CASE probeNode(n)
    <3>1. pc = "probe"
      BY <2>2, Zenon DEF probeNode
    <3>2. BatchInv'
      BY <1>1, <3>1 DEF BatchInv
    <3>3. epoch \in [setup.routers -> Nat] /\ epoch[n] \in Nat
      BY Zenon DEF SchedInv, StoreInv
    <3>4. CASE lastStable' = [lastStable EXCEPT ![n] = 0] /\ UNCHANGED <<probe, pings>>
      BY <1>1, <3>1, <3>2, <3>4, Zenon DEF SchedInv, ProbeInv, Waiting
    <3>5. CASE /\ lastStable' = [lastStable EXCEPT ![n] = epoch[n]]
               /\ probe' = [probe EXCEPT ![n] = [on |-> epoch[n], stable |-> lastStable[n] = epoch[n], st |-> "wait"]]
               /\ pings' = pings \cup {n}
      <4> DEFINE g == [on |-> epoch[n], stable |-> lastStable[n] = epoch[n], st |-> "wait"]
      <4>1. g \in Probe /\ g.on = epoch[n] /\ g.st = "wait"
        BY <3>3, Zenon DEF Probe, Verdicts
      <4>2. probe' = [probe EXCEPT ![n] = g]
        BY <3>5, Zenon
      <4> HIDE DEF g
      <4>3. /\ probe' \in [setup.routers -> Probe]
            /\ \A m \in setup.routers : probe'[m] = IF m = n THEN g ELSE probe[m]
        BY <4>1, <4>2, Zenon DEF SchedInv, ProbeInv
      <4>4. \A m \in setup.routers : /\ probe'[m].on <= epoch'[m]
                                     /\ probe'[m].st = "no" => probe'[m].stable
        BY <1>1, <3>3, <4>1, <4>3 DEF SchedInv, ProbeInv
      <4>5. pings' \subseteq {m \in setup.routers : Waiting(m)'}
        BY <3>5, <4>1, <4>3, Zenon DEF SchedInv, ProbeInv, Waiting
      <4>6. lastStable' \in [setup.routers -> Nat]
        BY <3>3, <3>5, Zenon DEF SchedInv, ProbeInv
      <4>7. QED
        BY <1>1, <3>1, <3>2, <4>3, <4>4, <4>5, <4>6, Zenon DEF ProbeInv
    <3>6. QED
      BY <2>2, <3>4, <3>5, Zenon DEF probeNode
  <2>3. CASE probeAnswered(n)
    <3>1. Judge(n, "yes") /\ UNCHANGED <<pings, lastStable>> /\ n \notin pings /\ probe[n].st = "wait"
      BY <2>3, Zenon DEF probeAnswered, Waiting
    <3>2. QED
      BY <1>1, <1>6, <3>1, JudgeKeeps, Zenon DEF Verdicts
  <2>4. CASE probeTimeout(n)
    <3>1. Judge(n, "timeout") /\ UNCHANGED lastStable /\ pings' = pings \ {n} /\ probe[n].st = "wait"
      BY <2>4, Zenon DEF probeTimeout, Waiting, CancelPing
    <3>2. QED
      BY <1>1, <1>6, <3>1, JudgeKeeps, Zenon DEF Verdicts
  <2>5. CASE probeJudge(n)
    <3>1. Judge(n, verdict(n)) /\ UNCHANGED <<lastStable, pings>> /\ probe[n].st = "timeout"
      BY <2>5, Zenon DEF probeJudge
    <3>2. n \notin pings
      BY <3>1, Zenon DEF SchedInv, ProbeInv, Waiting
    <3>3. verdict(n) \in Verdicts /\ (verdict(n) = "no" => probe[n].stable)
      BY Zenon DEF verdict, Verdicts
    <3>4. QED
      BY <1>1, <1>6, <3>1, <3>2, <3>3, JudgeKeeps, Zenon
  <2>6. CASE probeCancelled(n)
    <3>1. Judge(n, "skip") /\ UNCHANGED lastStable /\ pings' = pings \ {n} /\ probe[n].st = "wait"
      BY <2>6, Zenon DEF probeCancelled, Waiting, CancelPing
    <3>2. QED
      BY <1>1, <1>6, <3>1, JudgeKeeps, Zenon DEF Verdicts
  <2>7. QED
    BY <2>1, <2>2, <2>3, <2>4, <2>5, <2>6, Zenon DEF Probing
<1>8. QED
  BY <1>2, <1>3, <1>5, <1>7, Zenon DEF SchedInv

\* After a cycle no probe is left.
LEMMA CycleOver ==
  ASSUME SchedInv, probe' = [n \in setup.routers |-> NoProbe], UNCHANGED <<setup, epoch, pings>>,
         lastStable' \in [setup.routers -> Nat], pc' # "batch",
         \A n \in setup.routers : probe[n].st # "wait"
  PROVE  ProbeInv' /\ BatchInv'
<1>1. pings' = {}
  BY Zenon DEF SchedInv, ProbeInv, Waiting
<1>2. ASSUME NEW n \in setup.routers PROVE probe'[n] = NoProbe /\ 0 <= epoch'[n]
  BY DEF SchedInv, StoreInv
<1>3. QED
  BY <1>1, <1>2, NoProbeFacts, Zenon DEF ProbeInv, BatchInv

\* The cycle: its beginning, its end without a batch or with one, the batch.
LEMMA CycleSteps ==
  ASSUME SchedInv, haTick \/ probesDone \/ BatchSetNodeHealth
  PROVE  SchedInv'
<1>1. /\ UNCHANGED <<setup, clock, told, epoch, pings, lastCheck, man, file, records, cfgRecords>>
      /\ DOMAIN nodes = setup.routers
  BY DEF haTick, probesDone, BatchSetNodeHealth, envVars, storeVars, Others, fileVars, manVars, SchedInv, StoreInv
<1>2. FileInv'
  BY <1>1, FileKept, Zenon DEF SchedInv
<1>3. SweepInv'
  BY <1>1, Zenon DEF haTick, probesDone, BatchSetNodeHealth, SchedInv, SweepInv, Idle
<1>4. CASE haTick
  <2>1. UNCHANGED <<nodes, routes, probe, marked>> /\ pc = "select" /\ pc' # "batch" /\ lastStable' = stableSessions
    BY <1>4, Zenon DEF haTick, storeVars, Idle
  <2>2. lastStable' \in [setup.routers -> Nat]
    BY <1>1, <2>1, Zenon DEF stableSessions, SchedInv, ProbeInv
  <2>3. StoreInv' /\ MarkInv'
    BY <1>1, <2>1, Zenon DEF SchedInv, StoreInv, MarkInv
  <2>4. ProbeInv' /\ BatchInv'
    BY <1>1, <2>1, <2>2, Zenon DEF SchedInv, ProbeInv, BatchInv, Waiting
  <2>5. QED
    BY <1>2, <1>3, <2>3, <2>4, Zenon DEF SchedInv
<1>5. CASE probesDone
  <2>1. /\ UNCHANGED <<nodes, routes, lastStable, marked>> /\ pc = "probe"
        /\ \A n \in setup.routers : probe[n].st \notin {"wait", "timeout"}
    BY <1>1, <1>5, Zenon DEF probesDone, storeVars
  <2>2. StoreInv' /\ MarkInv'
    BY <1>1, <2>1, Zenon DEF SchedInv, StoreInv, MarkInv
  <2>3. lastStable' \in [setup.routers -> Nat]
    BY <2>1, Zenon DEF SchedInv, ProbeInv
  <2>4. CASE pc' = "select" /\ probe' = [n \in DOMAIN nodes |-> NoProbe]
    <3>1. ProbeInv' /\ BatchInv'
      BY <1>1, <2>1, <2>3, <2>4, CycleOver, Zenon
    <3>2. QED
      BY <1>2, <1>3, <2>2, <3>1 DEF SchedInv
  <2>5. CASE /\ ~deferred /\ pc' = "batch" /\ UNCHANGED probe
             /\ \E turns \in SUBSET {n \in DOMAIN nodes : probe[n].st \in {"yes", "no"}} :
                  work' = [turns |-> turns, prev |-> routes]
    <3>1. BatchInv'
      BY <1>1, <2>1, <2>5 DEF BatchInv, deferred
    <3>2. ProbeInv'
      BY <1>1, <2>1, <2>3, <2>5, Zenon DEF SchedInv, ProbeInv, Waiting
    <3>3. QED
      BY <1>2, <1>3, <2>2, <3>1, <3>2, Zenon DEF SchedInv
  <2>6. QED
    <3> DEFINE said == {n \in DOMAIN nodes : probe[n].st \in {"yes", "no"}}
               turns == {n \in said : nodes[n].unhealthy # (probe[n].st = "no")}
    <3>1. \/ pc' = "select" /\ probe' = [n \in DOMAIN nodes |-> NoProbe]
          \/ ~deferred /\ pc' = "batch" /\ UNCHANGED probe /\ work' = [turns |-> turns, prev |-> routes]
      BY <1>5, Zenon DEF probesDone
    <3>2. turns \in SUBSET said
      BY Zenon
    <3>3. QED
      BY <2>4, <2>5, <3>1, <3>2, Zenon
<1>6. CASE BatchSetNodeHealth
  <2> DEFINE after(n) == IF n \in work.turns THEN healthSetter(nodes[n], probe[n].st = "yes") ELSE nodes[n]
             ns == [n \in DOMAIN nodes |-> after(n)]
  <2>1. /\ UpdateNodes(ns) /\ pc = "batch" /\ pc' = "select"
        /\ marked' = [n \in DOMAIN nodes |-> IF after(n).unhealthy /\ n \in work.turns THEN probe[n] ELSE marked[n]]
        /\ probe' = [n \in DOMAIN nodes |-> NoProbe] /\ UNCHANGED lastStable
    BY <1>6, Zenon DEF BatchSetNodeHealth
  <2>2. nodes \in [setup.routers -> Node] /\ probe \in [setup.routers -> Probe] /\ marked \in [setup.routers -> Probe]
    BY Zenon DEF SchedInv, StoreInv, ProbeInv, MarkInv
  <2>3. ASSUME NEW n \in setup.routers
        PROVE  /\ after(n) \in Node
               /\ after(n).unhealthy /\ n \in work.turns => probe[n].st = "no"
               /\ after(n).unhealthy /\ n \notin work.turns => nodes[n].unhealthy
    <3>1. CASE n \in work.turns
      <4>1. probe[n].st \in {"yes", "no"}
        BY <2>1, <3>1, Zenon DEF SchedInv, BatchInv
      <4>2. after(n) = healthSetter(nodes[n], probe[n].st = "yes") /\ (probe[n].st = "yes") \in BOOLEAN
        BY <3>1, Zenon
      <4>3. after(n) \in Node /\ (probe[n].st = "yes" => ~after(n).unhealthy)
        BY <2>2, <4>2, HealthSet, ZenonT(30)
      <4>4. QED
        BY <3>1, <4>1, <4>3, Zenon
    <3>2. CASE n \notin work.turns
      BY <2>2, <3>2, Zenon
    <3>3. QED
      BY <3>1, <3>2, Zenon
  <2> HIDE DEF after
  <2>4. ns \in [setup.routers -> Node] /\ \A n \in setup.routers : ns[n] = after(n)
    BY <1>1, <2>3
  <2> HIDE DEF ns
  <2>5. nodes' = ns /\ routes' = electPrimaryRoutes(ns, routes)
    BY <2>1, Zenon DEF UpdateNodes
  <2>6. routes' \in Routes
    BY <2>4, <2>5, SchedulerAssumption, ElectionTyped, Zenon DEF SchedInv, StoreInv
  <2>7. StoreInv'
    BY <1>1, <2>4, <2>5, <2>6, Zenon DEF SchedInv, StoreInv
  <2>8. marked' \in [setup.routers -> Probe]
    BY <1>1, <2>1, <2>2, Zenon
  <2>9. ASSUME NEW n \in setup.routers, nodes'[n].unhealthy
        PROVE  marked'[n].st = "no" /\ marked'[n].stable /\ marked'[n].on <= epoch'[n]
    <3>1. after(n).unhealthy
      BY <2>4, <2>5, <2>9, Zenon
    <3>2. CASE n \in work.turns
      <4>1. marked'[n] = probe[n] /\ probe[n].st = "no"
        BY <1>1, <2>1, <2>3, <3>1, <3>2, Zenon
      <4>2. probe[n].stable /\ probe[n].on <= epoch[n]
        BY <4>1, Zenon DEF SchedInv, ProbeInv
      <4>3. QED
        BY <1>1, <4>1, <4>2, Zenon
    <3>3. CASE n \notin work.turns
      <4>1. marked'[n] = marked[n] /\ nodes[n].unhealthy
        BY <1>1, <2>1, <2>3, <3>1, <3>3, Zenon
      <4>2. QED
        BY <1>1, <4>1, Zenon DEF SchedInv, MarkInv
    <3>4. QED
      BY <3>2, <3>3, Zenon
  <2>10. MarkInv'
    BY <1>1, <2>8, <2>9, Zenon DEF MarkInv
  <2>11. ProbeInv' /\ BatchInv'
    <3>1. \A n \in setup.routers : probe[n].st # "wait"
      BY <2>1, Zenon DEF SchedInv, BatchInv
    <3>2. lastStable' \in [setup.routers -> Nat]
      BY <2>1 DEF SchedInv, ProbeInv
    <3>3. QED
      BY <1>1, <2>1, <3>1, <3>2, CycleOver, Zenon
  <2>12. QED
    BY <1>2, <1>3, <2>7, <2>10, <2>11, Zenon DEF SchedInv
<1>7. QED
  BY <1>4, <1>5, <1>6, Zenon

\* The invariant holds at the start.
LEMMA InitSched ==
  ASSUME Init
  PROVE  SchedInv
<1> DEFINE R == setup.routers
           m == [Fresh EXCEPT !.online = setup.up]
<1>1. setup \in Setups /\ R \subseteq NodeIDs /\ setup.up \in BOOLEAN
  BY SchedulerAssumption DEF Init
<1>2. m \in Node /\ ~m.unhealthy
  BY <1>1, SchedulerAssumption DEF Node
<1>3. nodes = [n \in R |-> m]
  BY Zenon DEF Init
<1> HIDE DEF m
<1>4. nodes \in [R -> Node] /\ \A n \in R : ~nodes[n].unhealthy
  BY <1>2, <1>3
<1>5. routes \in Routes /\ told \in Routes
  BY <1>1, <1>4, ElectionTyped, Zenon DEF Init
<1>6. epoch \in [R -> Nat] /\ lastStable \in [R -> Nat] /\ clock = 0 /\ lastCheck = 0 /\ pc = "select"
  BY DEF Init
<1>7. StoreInv
  BY <1>1, <1>4, <1>5, <1>6 DEF StoreInv
<1>8. probe = [n \in R |-> NoProbe] /\ marked = [n \in R |-> NoProbe] /\ pings = {}
  BY DEF Init
<1>9. ProbeInv /\ BatchInv
  <2>1. \A n \in R : probe[n] = NoProbe /\ 0 <= epoch[n]
    BY <1>6, <1>8
  <2>2. QED
    BY <1>6, <1>8, <2>1, NoProbeFacts, Zenon DEF ProbeInv, BatchInv
<1>10. MarkInv
  BY <1>4, <1>8, NoProbeFacts, Zenon DEF MarkInv
<1>11. SweepInv
  BY <1>6 DEF SweepInv
<1>12. FileInv
  BY Zenon DEF Init, FileInv, Contents, Readable
<1>13. QED
  BY <1>7, <1>9, <1>10, <1>11, <1>12, Zenon DEF SchedInv

\* Every step keeps it.
LEMMA NextSched ==
  ASSUME SchedInv, [Next]_vars
  PROVE  SchedInv'
<1>1. CASE UNCHANGED vars
  <2>1. UNCHANGED <<setup, clock, nodes, routes, told, epoch, probe, lastStable, pings, marked, pc, work, lastCheck,
                    man, file, records, cfgRecords>>
    BY <1>1 DEF vars, envVars, storeVars, loopVars, proberVars, fileVars, manVars
  <2>2. clock' \in Nat
    BY <2>1, Zenon DEF SchedInv, StoreInv
  <2>3. StoreInv' /\ MarkInv' /\ ProbeInv' /\ BatchInv'
    BY <2>1, <2>2, StoreKept, Zenon
  <2>4. SweepInv' /\ FileInv'
    BY <2>1, SweepKept, FileKept, Zenon DEF SchedInv
  <2>5. QED
    BY <2>3, <2>4 DEF SchedInv
<1>2. CASE Sessions
  BY <1>2, NodeSteps, OutsideSteps, Zenon DEF Sessions
<1>3. CASE \E n \in setup.routers : Silence(n) \/ PingResponseHandler(n) \/ Probing(n)
  BY <1>3, OutsideSteps, ProbingSteps, Zenon
<1>4. CASE \E n \in setup.routers : SetApprovedRoutes(n, TRUE) \/ SetApprovedRoutes(n, FALSE)
  BY <1>4, NodeSteps, Zenon
<1>5. CASE \E n \in setup.routers, e \in 0..Never : SetNodeExpiry(n, e)
  BY <1>5, NodeSteps, Zenon
<1>6. CASE LoopRuns
  BY <1>6, LoopSteps, SweepStep, CycleSteps DEF LoopRuns
<1>7. CASE SendPolicyChange \/ expireTick \/ derpTick
  BY <1>7, LoopSteps
<1>8. CASE haTick
  BY <1>8, CycleSteps, Zenon
<1>9. CASE \/ Tick \/ Stop \/ recordsUpdate \/ Managing
           \/ \E m \in setup.published : Publish(m)
           \/ \E c \in Contents \cup {None} : Edit(c)
  BY <1>9, OutsideSteps
<1>10. QED
  BY <1>1, <1>2, <1>3, <1>4, <1>5, <1>6, <1>7, <1>8, <1>9, Zenon DEF Next

\* The invariant holds throughout.
LEMMA SchedHolds == Spec => []SchedInv
<1>1. Init => SchedInv
  BY InitSched
<1>2. SchedInv /\ [Next]_vars => SchedInv'
  BY NextSched
<1>3. QED
  BY <1>1, <1>2, PTL DEF Spec

-----------------------------------------------------------------------------
\* The loop, the prober's goroutines, the sweep and the records manager stay
\* within their types in every behaviour: no probe outlives its cycle, and no
\* ping is pending that no probe waits for.
THEOREM TypeCorrect == Spec => []TypeOK
<1>1. SchedInv => TypeOK
  <2> SUFFICES ASSUME SchedInv PROVE TypeOK
    BY Zenon
  <2>1. DOMAIN nodes = setup.routers /\ setup.routers \subseteq NodeIDs
    BY SchedulerAssumption, Zenon DEF SchedInv, StoreInv
  <2>2. IsNodeMap(nodes) /\ routes \in Routes /\ told \in Routes
    BY <2>1, Zenon DEF SchedInv, StoreInv, IsNodeMap
  <2>3. \A n \in DOMAIN nodes : probe[n].st \in Verdicts
    BY <2>1, Zenon DEF SchedInv, ProbeInv, Probe
  <2>4. QED
    BY <2>1, <2>2, <2>3, Zenon DEF SchedInv, ProbeInv, SweepInv, FileInv, TypeOK, Verdicts
<1>2. QED
  BY <1>1, SchedHolds, PTL

\* Whatever sessions, timeouts, answers and cycles interleave, a router is
\* only marked unhealthy for a ping it left unanswered on a session an earlier
\* cycle had seen (ProbeOnce).
THEOREM SparesFreshSessions == Spec => []FreshSessionsSpared
<1>1. SchedInv => FreshSessionsSpared
  BY DEF SchedInv, StoreInv, MarkInv, FreshSessionsSpared
<1>2. QED
  BY <1>1, SchedHolds, PTL

\* A router that was silent again is not turned by the batch: it has its mark
\* already, and keeps it until another writer moves the store.
UnracedInv ==
  pc = "batch" /\ ~raced =>
    \A n \in setup.routers : probe[n].st = "no" /\ n \notin work.turns => nodes[n].unhealthy

\* A step into the batch, or one beside it.
LEMMA BesideBatch ==
  ASSUME SchedInv, [Next]_vars, pc' = "batch"
  PROVE  probesDone \/ raced' \/ UNCHANGED <<pc, setup, nodes, probe, work, raced>>
<1>1. CASE UNCHANGED vars
  BY <1>1, Zenon DEF vars, envVars, storeVars, loopVars, proberVars
<1>2. CASE \E n \in setup.routers : Connect(n) \/ Disconnect(n) \/ SetApprovedRoutes(n, TRUE)
             \/ SetApprovedRoutes(n, FALSE) \/ \E e \in 0..Never : SetNodeExpiry(n, e)
  <2>1. raced' = (raced \/ pc = "batch") /\ pc' = pc
    BY <1>2, Zenon DEF Connect, Disconnect, SetApprovedRoutes, SetNodeExpiry, loopVars
  <2>2. QED
    BY <2>1, Zenon
<1>3. CASE \/ \E n \in setup.routers : AddNode(n) \/ RemoveNode(n) \/ Silence(n) \/ PingResponseHandler(n)
           \/ SendPolicyChange \/ Tick \/ Stop \/ recordsUpdate \/ Managing
           \/ \E m \in setup.published : Publish(m)
           \/ \E c \in Contents \cup {None} : Edit(c)
  BY <1>3, Zenon DEF AddNode, RemoveNode, Silence, PingResponseHandler, SendPolicyChange, Tick, Stop, recordsUpdate,
     Managing, manEvent, manWait, manAdd, manClose, Publish, Edit, envVars, storeVars, loopVars, proberVars
<1>4. ASSUME NEW n \in setup.routers, Probing(n) PROVE FALSE
  <2>1. pc' = pc
    BY <1>4, Zenon DEF Probing, probeNode, probeAnswered, probeTimeout, probeJudge, probeCancelled, loopVars
  <2>2. probe[n].st \notin {"wait", "timeout"} /\ pc # "probe"
    BY <2>1, Zenon DEF SchedInv, BatchInv
  <2>3. QED
    BY <1>4, <2>2, Zenon DEF Probing, probeNode, probeAnswered, probeTimeout, probeJudge, probeCancelled, Waiting
<1>5. ~(expireTick \/ haTick \/ derpTick \/ expireList \/ ExpireExpiredNodes \/ BatchSetNodeHealth \/ derpFetch
        \/ loopEnds)
  BY Zenon DEF expireTick, haTick, derpTick, expireList, ExpireExpiredNodes, BatchSetNodeHealth, derpFetch, loopEnds,
     Idle, afterFailure
<1>6. QED
  BY <1>1, <1>2, <1>3, <1>4, <1>5, Zenon DEF Next, Sessions, LoopRuns

\* The results that are read are complete.
LEMMA UnracedKept ==
  ASSUME SchedInv, UnracedInv, [Next]_vars
  PROVE  UnracedInv'
<1> SUFFICES ASSUME pc' = "batch", ~raced' PROVE UnracedInv'
  BY Zenon DEF UnracedInv
<1>1. CASE UNCHANGED <<pc, setup, nodes, probe, work, raced>>
  BY <1>1, Zenon DEF UnracedInv
<1>2. CASE probesDone
  <2> DEFINE said == {n \in DOMAIN nodes : probe[n].st \in {"yes", "no"}}
             turns == {n \in said : nodes[n].unhealthy # (probe[n].st = "no")}
  <2>1. work' = [turns |-> turns, prev |-> routes] /\ UNCHANGED <<setup, nodes, probe>>
    BY <1>2, Zenon DEF probesDone, envVars, storeVars
  <2>2. nodes \in [setup.routers -> Node] /\ work'.turns = turns
    BY <2>1 DEF SchedInv, StoreInv
  <2>3. ASSUME NEW n \in setup.routers, probe[n].st = "no", n \notin turns PROVE nodes[n].unhealthy
    <3>1. n \in said /\ nodes[n].unhealthy = (probe[n].st = "no")
      BY <2>2, <2>3, Zenon
    <3>2. QED
      BY <2>3, <3>1, Zenon
  <2>4. QED
    BY <2>1, <2>2, <2>3, Zenon DEF UnracedInv
<1>3. QED
  BY <1>1, <1>2, BesideBatch, Zenon

\* A router that an election gives a prefix it did not have is online, has the
\* prefix and is not marked.
LEMMA ElectedFresh ==
  ASSUME NEW ns, DOMAIN ns \subseteq NodeIDs, NEW prev, NEW s \in Scopes, NEW p \in Prefixes, NEW n \in NodeIDs,
         electPrimaryRoutes(ns, prev)[s][p] = n, prev[s][p] # n
  PROVE  n \in HealthyCandidates(ns, s, p)
<1>1. electOneScope(ns, s, p, prev[s][p]) = n
  BY Zenon DEF electPrimaryRoutes
<1>2. n # NoNode
  BY NodeRoutesAssumption DEF NoNode
<1>3. HealthyCandidates(ns, s, p) \in SUBSET Nat
  BY NodeRoutesAssumption, Zenon DEF Candidates, HealthyCandidates
<1>4. HealthyCandidates(ns, s, p) # {} => Lowest(HealthyCandidates(ns, s, p)) \in HealthyCandidates(ns, s, p)
  BY <1>3, LowestIn, Zenon
<1>5. QED
  BY <1>1, <1>2, <1>4, Zenon DEF electOneScope

\* A router the batch turns unhealthy is marked or no candidate for anything.
LEMMA TurnedAway ==
  ASSUME NEW m \in Node
  PROVE  LET a == healthSetter(m, FALSE) IN a.unhealthy \/ ~a.online \/ AllApprovedRoutes(a) = {}
<1>1. [m EXCEPT !.unhealthy = TRUE].unhealthy
  BY DEF Node
<1>2. QED
  BY <1>1, Zenon DEF healthSetter

\* A batch is only applied with every probe of its cycle judged or gone, and
\* the election that applies it gives a prefix to no router that was silent in
\* the same cycle, for every number of routers and prefixes; the exception is a
\* mark of an earlier cycle that another writer lifted meanwhile (ProbeOnce,
\* BatchSetNodeHealth, electOneScope).
THEOREM FailoverStaysInformed == Spec => FailoverIsInformed
<1>1. Init => UnracedInv
  BY Zenon DEF Init, UnracedInv
<1>2. SchedInv /\ UnracedInv /\ [Next]_vars => UnracedInv'
  BY UnracedKept
<1>3. ASSUME SchedInv, UnracedInv, Next PROVE InformedFailover
  <2> SUFFICES ASSUME pc = "batch", pc' = "select", NEW s \in Scopes, NEW p \in Prefixes, NEW n \in DOMAIN nodes,
                      routes'[s][p] = n, routes[s][p] # n
               PROVE  \/ probe[n].st \in {"yes", "none", "skip"}
                      \/ probe[n].st = "no" /\ n \notin work.turns /\ raced
    BY Zenon DEF InformedFailover
  <2>1. BatchSetNodeHealth
    BY <1>3, Zenon DEF Next, Sessions, LoopRuns, Managing, Probing, Connect, AddNode, RemoveNode, Disconnect, Silence,
       PingResponseHandler, probeNode, probeAnswered, probeTimeout, probeJudge, probeCancelled, SetApprovedRoutes,
       SetNodeExpiry, SendPolicyChange, Tick, expireTick, haTick, derpTick, expireList, ExpireExpiredNodes, probesDone,
       derpFetch, loopEnds, Publish, Edit, recordsUpdate, manEvent, manWait, manAdd, manClose, Stop, loopVars, Idle
  <2>2. /\ nodes \in [setup.routers -> Node] /\ DOMAIN nodes = setup.routers /\ setup.routers \subseteq NodeIDs
        /\ probe[n].st \in Verdicts /\ probe[n].st \notin {"wait", "timeout", "defer"}
    BY <1>3, SchedulerAssumption, Zenon DEF SchedInv, StoreInv, ProbeInv, BatchInv, Probe
  <2> DEFINE after(m) == IF m \in work.turns THEN healthSetter(nodes[m], probe[m].st = "yes") ELSE nodes[m]
             ns == [m \in DOMAIN nodes |-> after(m)]
  <2>3. routes' = electPrimaryRoutes(ns, routes)
    BY <2>1, Zenon DEF BatchSetNodeHealth, UpdateNodes
  <2>4. DOMAIN ns \subseteq NodeIDs /\ ns[n] = after(n) /\ n \in NodeIDs
    BY <2>2, Zenon
  <2> HIDE DEF ns
  <2>5. n \in HealthyCandidates(ns, s, p)
    BY <2>3, <2>4, ElectedFresh, Zenon
  <2>6. ~after(n).unhealthy /\ after(n).online /\ AllApprovedRoutes(after(n)) # {}
    BY <2>4, <2>5, Zenon DEF HealthyCandidates, Candidates
  <2>7. ASSUME probe[n].st = "no" PROVE n \notin work.turns /\ raced
    <3>1. n \notin work.turns
      <4> SUFFICES ASSUME n \in work.turns PROVE FALSE
        BY Zenon
      <4>1. after(n) = healthSetter(nodes[n], FALSE)
        BY <2>7, Zenon
      <4>2. nodes[n] \in Node
        BY <2>2, Zenon
      <4>3. QED
        BY <2>6, <4>1, <4>2, TurnedAway, Zenon
    <3>2. after(n) = nodes[n]
      BY <3>1, Zenon
    <3>3. QED
      BY <1>3, <2>2, <2>6, <2>7, <3>1, <3>2, Zenon DEF UnracedInv
  <2>8. QED
    BY <2>2, <2>7, Zenon DEF Verdicts
<1>4. SchedInv /\ UnracedInv /\ [Next]_vars => [InformedFailover]_vars
  BY <1>3, Zenon
<1>5. QED
  BY <1>1, <1>2, <1>4, SchedHolds, PTL DEF Spec, FailoverIsInformed
================================================================================
