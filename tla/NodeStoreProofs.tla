---------------------------- MODULE NodeStoreProofs ----------------------------
(***************************************************************************)
(* Proofs about NodeStore for every set of nodes, users, prefixes and      *)
(* callers, every batch size and every set of requests.                    *)
(***************************************************************************)
EXTENDS NodeStore, FiniteSetTheorems, SequenceTheorems, TLAPS

(* A leaf that names no prover is tried with SMT, with Zenon, and with SMT  *)
(* once more.                                                               *)
USE SMT, Zenon, SMTT(60)

-----------------------------------------------------------------------------
(* The algorithms.                                                          *)

\* Lowest, the CHOOSE that stands for the first entry of a sorted slice, is
\* the minimum of every non-empty set of numbers.
LEMMA LowestIsMinimum ==
  ASSUME NEW S \in SUBSET Nat, S # {}
  PROVE  Lowest(S) \in S /\ \A y \in S : Lowest(S) <= y
<1> DEFINE R == OpToRel(<, Nat)
<1>1. PICK x \in S : \A y \in S : ~(<<y, x>> \in R)
  <2>1. IsWellFoundedOn(R, Nat)
    BY NatLessThanWellFounded, Zenon
  <2> HIDE DEF R
  <2>2. QED
    BY <2>1, WFMin, Zenon
<1>2. \A y \in S : x <= y
  <2> SUFFICES ASSUME NEW y \in S PROVE x <= y
    OBVIOUS
  <2>1. ~(<<y, x>> \in R)
    BY <1>1, Zenon
  <2>2. ~(y < x)
    BY <2>1 DEF OpToRel
  <2>3. QED
    BY <2>2
<1>3. QED
  BY <1>2, Zenon DEF Lowest

\* The candidates of a prefix are stored nodes.
LEMMA CandidatesAreNodes ==
  ASSUME NEW ns, IsNodeMap(ns), NEW s, NEW p
  PROVE  /\ Candidates(ns, s, p) \subseteq NodeIDs
         /\ HealthyCandidates(ns, s, p) \subseteq Candidates(ns, s, p)
         /\ HealthyCandidates(ns, s, p) \in SUBSET Nat
         /\ NoNode \notin Candidates(ns, s, p)
BY NodeRoutesAssumption, Zenon DEF IsNodeMap, Candidates, HealthyCandidates, NoNode

\* An election of one prefix, case by case (electOneScope's loop body).
LEMMA ElectOneCases ==
  ASSUME NEW ns, IsNodeMap(ns), NEW s, NEW p, NEW prev
  PROVE  LET now == electOneScope(ns, s, p, prev)
             cand == Candidates(ns, s, p)
             good == HealthyCandidates(ns, s, p)
         IN  /\ now \in cand \cup {NoNode}
             /\ good # {} => now \in good
             /\ prev \in good => now = prev
             /\ good = {} /\ prev \in cand => now = prev
             /\ good = {} /\ prev \notin cand => now = NoNode
             /\ good # {} /\ prev \notin good => \A i \in good : now <= i
<1> DEFINE good == HealthyCandidates(ns, s, p)
<1>1. good # {} => Lowest(good) \in good /\ \A i \in good : Lowest(good) <= i
  BY CandidatesAreNodes, LowestIsMinimum
<1>2. good \subseteq Candidates(ns, s, p)
  BY CandidatesAreNodes
<1>3. QED
  BY <1>1, <1>2 DEF electOneScope

\* Electing twice is electing once: the result of an election is a fixpoint.
LEMMA ElectionIsStable ==
  ASSUME NEW ns, IsNodeMap(ns), NEW prev \in Routes
  PROVE  LET r == electPrimaryRoutes(ns, prev)
         IN  r \in Routes /\ electPrimaryRoutes(ns, r) = r
<1> DEFINE r == electPrimaryRoutes(ns, prev)
<1>1. ASSUME NEW s \in Scopes, NEW p \in Prefixes
      PROVE  /\ r[s][p] = electOneScope(ns, s, p, prev[s][p])
             /\ r[s][p] \in NodeIDs \cup {NoNode}
             /\ electOneScope(ns, s, p, r[s][p]) = r[s][p]
  <2>1. r[s][p] = electOneScope(ns, s, p, prev[s][p])
    BY Zenon DEF electPrimaryRoutes
  <2>2. r[s][p] \in NodeIDs \cup {NoNode}
    BY <2>1, ElectOneCases, CandidatesAreNodes
  <2>3. electOneScope(ns, s, p, r[s][p]) = r[s][p]
    <3> DEFINE a == electOneScope(ns, s, p, prev[s][p])
               b == electOneScope(ns, s, p, a)
    <3>1. CASE HealthyCandidates(ns, s, p) # {}
      <4>1. a \in HealthyCandidates(ns, s, p)
        BY <3>1, ElectOneCases
      <4>2. QED
        BY <4>1, <2>1, ElectOneCases
    <3>2. CASE HealthyCandidates(ns, s, p) = {} /\ a \in Candidates(ns, s, p)
      BY <3>2, <2>1, ElectOneCases, Zenon
    <3>3. CASE HealthyCandidates(ns, s, p) = {} /\ a \notin Candidates(ns, s, p)
      <4>1. a = NoNode
        BY <3>3, ElectOneCases
      <4>2. b = NoNode
        BY <3>3, ElectOneCases
      <4>3. QED
        BY <4>1, <4>2, <2>1, Zenon
    <3>4. QED
      BY <3>1, <3>2, <3>3, Zenon
  <2>4. QED
    BY <2>1, <2>2, <2>3, Zenon
<1>2. r \in Routes
  <2>1. r = [s \in Scopes |-> [p \in Prefixes |-> r[s][p]]]
    BY DEF electPrimaryRoutes
  <2>2. QED
    BY <2>1, <1>1 DEF Routes
<1>3. electPrimaryRoutes(ns, r) = r
  <2>1. electPrimaryRoutes(ns, r) =
          [s \in Scopes |-> [p \in Prefixes |-> electOneScope(ns, s, p, r[s][p])]]
    BY DEF electPrimaryRoutes
  <2>2. @ = [s \in Scopes |-> [p \in Prefixes |-> r[s][p]]]
    BY <1>1
  <2>3. @ = r
    BY DEF electPrimaryRoutes
  <2>4. QED
    BY <2>1, <2>2, <2>3
<1>4. QED
  BY <1>2, <1>3, Zenon

\* Bumping a name gives a name, and different bumps different names.
LEMMA BumpedNames ==
  ASSUME NEW base \in Names, NEW i \in Nat, NEW j \in Nat
  PROVE  Bump(base, i) \in Names /\ (i # j => Bump(base, i) # Bump(base, j))
<1>1. base.bumps \in Seq(Nat)
  BY Zenon DEF Names
<1>2. ASSUME NEW k \in Nat
      PROVE  Bump(base, k).bumps = IF k = 0 THEN base.bumps ELSE Append(base.bumps, k)
  BY Zenon DEF Names, Bump
<1>3. ASSUME NEW k \in Nat
      PROVE  /\ Append(base.bumps, k) \in Seq(Nat)
             /\ Len(Append(base.bumps, k)) = Len(base.bumps) + 1
             /\ Append(base.bumps, k)[Len(base.bumps) + 1] = k
  BY <1>1, AppendProperties
<1>4. Len(base.bumps) \in Nat
  BY <1>1
<1>5. ASSUME i # j PROVE Bump(base, i).bumps # Bump(base, j).bumps
  <2>1. CASE i # 0 /\ j # 0
    <3>1. Append(base.bumps, i) # Append(base.bumps, j)
      BY <1>3, <1>5
    <3>2. QED
      BY <2>1, <3>1, <1>2, Zenon
  <2>2. CASE i = 0
    <3>1. Len(Append(base.bumps, j)) # Len(base.bumps)
      BY <1>3, <1>4
    <3>2. QED
      BY <2>2, <3>1, <1>2, <1>5, Zenon
  <2>3. CASE j = 0
    <3>1. Len(Append(base.bumps, i)) # Len(base.bumps)
      BY <1>3, <1>4
    <3>2. QED
      BY <2>3, <3>1, <1>2, <1>5, Zenon
  <2>4. QED
    BY <2>1, <2>2, <2>3
<1>6. Bump(base, i) \in Names
  BY <1>1, <1>3, Zenon DEF Names, Bump
<1>7. QED
  BY <1>5, <1>6

\* resolveGivenName always finds a free name, however the taken ones look:
\* base, base-1, ... offers one more name than the other nodes can hold.
LEMMA ResolvedNameIsFree ==
  ASSUME NEW ns, IsNodeMap(ns), NEW self, NEW wanted \in Names
  PROVE  /\ resolveGivenName(ns, self, wanted) \in Names
         /\ resolveGivenName(ns, self, wanted) \notin TakenNames(ns, self)
<1> DEFINE base == IF wanted = NoName THEN fallbackGivenName ELSE wanted
           taken == TakenNames(ns, self)
           others == DOMAIN ns \ {self}
           free == {i \in 0..Cardinality(taken) : Bump(base, i) \notin taken}
<1>1. base \in Names
  <2>1. <<>> \in Seq(Nat)
    BY EmptySeq
  <2>2. fallbackGivenName \in Names
    BY <2>1, Zenon DEF Names, fallbackGivenName
  <2>3. QED
    BY <2>2
<1> HIDE DEF base
<1>2. ASSUME NEW i \in Nat PROVE Bump(base, i) \in Names
  BY <1>1, BumpedNames
<1>3. ASSUME NEW i \in Nat, NEW j \in Nat, i # j
      PROVE  Bump(base, i) # Bump(base, j)
  BY <1>1, <1>3, BumpedNames, Zenon
<1>4. IsFiniteSet(taken) /\ Cardinality(taken) \in Nat
  <2> DEFINE f == [i \in others |-> ns[i].name]
  <2>1. IsFiniteSet(others)
    BY NodeRoutesAssumption, FS_Subset DEF IsNodeMap
  <2>2. f \in Surjection(others, taken)
    BY DEF Surjection, TakenNames
  <2>3. IsFiniteSet(taken)
    BY <2>1, <2>2, FS_Surjection, Zenon
  <2>4. QED
    BY <2>3, FS_CardinalityType
<1>5. free # {}
  <2> SUFFICES ASSUME free = {} PROVE FALSE
    OBVIOUS
  <2> DEFINE S == 0..Cardinality(taken)
             f == [i \in S |-> Bump(base, i)]
  <2>1. IsFiniteSet(S) /\ Cardinality(S) = Cardinality(taken) + 1
    <3>1. 0 \in Int /\ Cardinality(taken) \in Int
      BY <1>4
    <3>2. IsFiniteSet(S)
      BY <3>1, FS_Interval, Zenon
    <3>3. Cardinality(S) = IF 0 > Cardinality(taken) THEN 0 ELSE Cardinality(taken) - 0 + 1
      BY <3>1, FS_Interval, Zenon
    <3>4. QED
      BY <1>4, <3>2, <3>3
  <2>2. f \in [S -> taken]
    OBVIOUS
  <2>3. Cardinality(taken) < Cardinality(S)
    BY <2>1, <1>4
  <2>4. \E x, y \in S : x # y /\ f[x] = f[y]
    <3> HIDE DEF f, S, taken
    <3>1. QED
      BY <1>4, <2>1, <2>2, <2>3, FS_PigeonHole
  <2>5. QED
    BY <2>4, <1>3, <1>4
<1>6. Lowest(free) \in free
  BY <1>4, <1>5, LowestIsMinimum
<1>7. resolveGivenName(ns, self, wanted) = Bump(base, Lowest(free))
  BY DEF resolveGivenName, base
<1>8. QED
  BY <1>2, <1>4, <1>6, <1>7

\* A closure of state.go turns a node into a node.
LEMMA EffectType ==
  ASSUME NEW n \in Node, NEW f \in Closures
  PROVE  Effect(f, n) \in Node
<1>1. CASE f.fn = "presence"
  BY <1>1, Zenon DEF Effect, Closures, Node
<1>2. CASE f.fn = "expiry"
  BY <1>2 DEF Effect, Closures, Node
<1>3. CASE f.fn = "health"
  BY <1>3, Zenon DEF Effect, Closures, Node, healthSetter
<1>4. CASE f.fn = "approve"
  BY <1>4, Zenon DEF Effect, Closures, Node, DropStaleHealth
<1>5. CASE f.fn = "hostinfo"
  BY <1>5, Zenon DEF Effect, Closures, Node, DropStaleHealth
<1>6. CASE f.fn = "endpoint"
  BY <1>6 DEF Effect, Closures, Node
<1>7. CASE f.fn = "tags"
  BY <1>7, Zenon DEF Effect, Closures, Node, Scopes, Global
<1>8. QED
  BY <1>1, <1>2, <1>3, <1>4, <1>5, <1>6, <1>7, ZenonT(30) DEF Closures

\* Storing or removing one node leaves a node map.
LEMMA NodeMapChange ==
  ASSUME NEW m, IsNodeMap(m), NEW i \in NodeIDs, NEW n \in Node
  PROVE  IsNodeMap(With(m, i, n)) /\ IsNodeMap(Without(m, i))
BY DEF IsNodeMap, With, Without

\* A node stored under a name no other node holds keeps the names unique.
LEMMA NamesStayUnique ==
  ASSUME NEW m, IsNodeMap(m), UniqueNames(m), NEW i \in NodeIDs, NEW n \in Node,
         n.name \notin TakenNames(m, i)
  PROVE  UniqueNames(With(m, i, n))
BY DEF UniqueNames, With, TakenNames, IsNodeMap

\* updateChanges is complete: a node whose update it calls still has the
\* visibility inputs it had, so the adjacency may be reused.
LEMMA StillPeers ==
  ASSUME NEW m, IsNodeMap(m), NEW i \in DOMAIN m, NEW n \in Node,
         ~RelationMoved(m[i], n)
  PROVE  PeerInputs(With(m, i, n)) = PeerInputs(m)
<1>1. PeerInput(n) = PeerInput(m[i])
  BY DEF RelationMoved, HasPolicyChange, PeerInput
<1>2. QED
  BY <1>1, Zenon DEF PeerInputs, With

\* ... and the election inputs it had, so the election may be skipped.
LEMMA StillElection ==
  ASSUME NEW m, IsNodeMap(m), NEW i \in DOMAIN m, NEW n \in Node,
         ~ElectionMoved(m[i], n)
  PROVE  SameElection(With(m, i, n), m)
BY DEF ElectionMoved, RelationMoved, HasPolicyChange, SameElection, With, ScopeOf,
       AllApprovedRoutes

\* Equal election inputs elect the same primaries.
LEMMA SameElectionSameRoutes ==
  ASSUME NEW m, NEW n, SameElection(m, n), NEW r
  PROVE  electPrimaryRoutes(m, r) = electPrimaryRoutes(n, r)
<1>1. ASSUME NEW s, NEW p
      PROVE  /\ Candidates(m, s, p) = Candidates(n, s, p)
             /\ HealthyCandidates(m, s, p) = HealthyCandidates(n, s, p)
  BY DEF SameElection, Candidates, HealthyCandidates
<1>2. ASSUME NEW s, NEW p, NEW prev
      PROVE  electOneScope(m, s, p, prev) = electOneScope(n, s, p, prev)
  BY <1>1, Zenon DEF electOneScope
<1>3. QED
  BY <1>2, Zenon DEF electPrimaryRoutes

-----------------------------------------------------------------------------
(* Type correctness.                                                        *)

\* NewNodeStore starts from a well-typed state.
LEMMA InitType == Init => TypeOK
<1> SUFFICES ASSUME Init PROVE TypeOK
  OBVIOUS
<1> USE NodeRoutesAssumption, NodeStoreAssumption DEF Init
<1>1. NoRoutes \in Routes
  BY DEF NoRoutes, Routes, NoNode
<1>2. snap.routes \in Routes
  BY <1>1, ElectionIsStable, Zenon
<1>3. IsNodeMap(NoNodes)
  BY DEF IsNodeMap, NoNodes
<1>4. IsWork(Rebuild)
  BY DEF IsWork, Rebuild
<1>5. NoReply \in [view : SUBSET Node, err : {"nil", "notFound", "invalid", "taken"}]
  BY DEF NoReply
<1>6. /\ work = [c \in Callers |-> work[c]]
      /\ \A c \in Callers : IsWork(work[c])
  BY <1>4, Zenon
<1>7. /\ queue \in Seq(Callers)
      /\ batch \in Seq(Callers)
  BY EmptySeq
<1>8. /\ snap = [nodes |-> snap.nodes, routes |-> snap.routes, peers |-> snap.peers]
      /\ snap.peers.policy = 0
      /\ built.policy = 0
      /\ snap.nodes = InitNodes
  BY DEF PeersFunc, NoPeers
<1>9. reply \in [Callers -> [view : SUBSET Node,
                              err : {"nil", "notFound", "invalid", "taken"}]]
  BY <1>5
<1>10. /\ policy \in 0..MaxPolicy
       /\ snap.peers.policy \in 0..policy
       /\ built.policy \in 0..policy
  BY <1>8
<1>11. pc \in [Callers -> {"idle", "offered", "accepted", "done"}]
  OBVIOUS
<1>12. IsNodeMap(snap.nodes) /\ IsNodeMap(wnodes)
  BY <1>3, <1>8
<1>13. pos \in Nat \ {0} /\ applied \in SUBSET NodeIDs
  OBVIOUS
<1>14. QED
  BY <1>2, <1>6, <1>7, <1>8, <1>9, <1>10, <1>11, <1>12, <1>13, Zenon DEF TypeOK

\* A step of a caller, or of Stop, keeps the types.
LEMMA CallerType ==
  ASSUME TypeOK, NEW c \in Callers,
         \/ \E w \in Requests : Submit(c, w)
         \/ SetPolicy(c)
         \/ Abandon(c)
         \/ Return(c)
         \/ Stop
  PROVE  TypeOK'
<1> USE NodeRoutesAssumption, NodeStoreAssumption DEF callerVars, batchVars
<1>1. IsWork(Rebuild)
  BY Zenon DEF IsWork, Rebuild
<1>2. NoReply \in [view : SUBSET Node, err : {"nil", "notFound", "invalid", "taken"}]
  BY Zenon DEF NoReply
<1>3. ASSUME NEW w, IsWork(w), Offer(c, w), policy' \in {policy, policy + 1},
             policy' \in 0..MaxPolicy
      PROVE  TypeOK'
  BY <1>3 DEF TypeOK, Offer
<1>4. CASE \E w \in Requests : Submit(c, w)
  BY <1>3, <1>4, ZenonT(30) DEF Submit, TypeOK
<1>5. CASE SetPolicy(c)
  BY <1>1, <1>3, <1>5 DEF SetPolicy, TypeOK
<1>6. CASE Abandon(c)
  <2>1. queue' \in Seq(Callers)
    <3>1. PICK k \in 1..Len(queue) :
            queue' = SubSeq(queue, 1, k - 1) \o SubSeq(queue, k + 1, Len(queue))
      BY <1>6, Zenon DEF Abandon
    <3>2. queue \in Seq(Callers)
      BY DEF TypeOK
    <3>3. SubSeq(queue, 1, k - 1) \in Seq(Callers)
      BY <3>2, SubSeqProperties
    <3>4. SubSeq(queue, k + 1, Len(queue)) \in Seq(Callers)
      BY <3>2, SubSeqProperties
    <3>5. QED
      BY <3>1, <3>3, <3>4, ConcatProperties
  <2>2. QED
    BY <1>2, <1>6, <2>1, Zenon DEF Abandon, TypeOK
<1>7. CASE Return(c)
  BY <1>1, <1>2, <1>7, ZenonT(30) DEF Return, TypeOK
<1>8. CASE Stop
  BY <1>8, Zenon DEF Stop, TypeOK
<1>9. QED
  BY <1>4, <1>5, <1>6, <1>7, <1>8, ZenonT(30)

\* The work item the writer is at.
LEMMA WorkAt ==
  ASSUME TypeOK, NEW op, At(op)
  PROVE  /\ batch[pos] \in Callers
         /\ IsWork(work[batch[pos]])
         /\ work[batch[pos]].op = op
BY DEF At, TypeOK

\* Changing only the name of a node gives a node.
LEMMA RenamedNode ==
  ASSUME NEW n \in Node, NEW name \in Names
  PROVE  /\ [n EXCEPT !.name = name] \in Node
         /\ [n EXCEPT !.name = name].name = name
BY DEF Node

\* The node a put stores, and the node an update leaves: a node, under a name
\* that no other node of the batch's private copy holds.
LEMMA PutNodeFact ==
  ASSUME IsNodeMap(wnodes), NEW n \in Node, NEW i
  PROVE  LET post == [n EXCEPT !.name = resolveGivenName(wnodes, i, n.name)]
         IN  post \in Node /\ post.name \notin TakenNames(wnodes, i)
<1> DEFINE name == resolveGivenName(wnodes, i, n.name)
<1>1. n.name \in Names
  BY DEF Node
<1>2. name \in Names /\ name \notin TakenNames(wnodes, i)
  BY <1>1, ResolvedNameIsFree, Zenon
<1>3. QED
  BY <1>2, RenamedNode, Zenon

\* An updateMulti closure and the name resolution after it give a node, under a
\* name no other node holds, kept or resolved.
LEMMA UpdatedNodeFact ==
  ASSUME IsNodeMap(wnodes), NEW i \in DOMAIN wnodes, NEW f \in Closures
  PROVE  /\ UpdatedNode(i, f) \in Node
         /\ UniqueNames(wnodes) => UpdatedNode(i, f).name \notin TakenNames(wnodes, i)
<1> DEFINE n == Effect(f, wnodes[i])
<1>1. n \in Node
  BY EffectType, Zenon DEF IsNodeMap
<1> HIDE DEF n
<1>2. CASE n.name = wnodes[i].name
  <2>1. UpdatedNode(i, f) = n
    BY <1>2, Zenon DEF UpdatedNode, n
  <2>2. QED
    BY <1>1, <1>2, <2>1, Zenon DEF UniqueNames, TakenNames
<1>3. CASE n.name # wnodes[i].name
  <2>1. UpdatedNode(i, f) = [n EXCEPT !.name = resolveGivenName(wnodes, i, n.name)]
    BY <1>3 DEF UpdatedNode, n
  <2>2. QED
    BY <1>1, <2>1, PutNodeFact, Zenon
<1>4. QED
  BY <1>2, <1>3

\* A step of the writer keeps the types.
LEMMA WriterType ==
  ASSUME TypeOK, Writer
  PROVE  TypeOK'
<1> USE NodeRoutesAssumption, NodeStoreAssumption DEF callerVars, batchVars
<1>1. ASSUME NEW b \in Seq(Callers), BeginApply(b), queue' \in Seq(Callers),
             pc' \in [Callers -> {"idle", "offered", "accepted", "done"}],
             leaving' \in BOOLEAN
      PROVE  TypeOK'
  BY <1>1, Zenon DEF BeginApply, TypeOK
<1>2. CASE Receive
  <2> DEFINE c == Head(queue)
             b == Append(batch, c)
  <2>1. queue \in Seq(Callers) /\ queue # <<>>
    BY <1>2, Zenon DEF Receive, TypeOK
  <2>2. c \in Callers /\ queue' \in Seq(Callers)
    BY <1>2, <2>1, HeadTailProperties DEF Receive
  <2>3. b \in Seq(Callers)
    BY <2>2, AppendProperties, Zenon DEF TypeOK
  <2>4. /\ pc' \in [Callers -> {"idle", "offered", "accepted", "done"}]
        /\ leaving' \in BOOLEAN
    BY <1>2, <2>2 DEF Receive, TypeOK
  <2>5. CASE BeginApply(b)
    BY <1>1, <2>2, <2>3, <2>4, <2>5, Zenon
  <2>6. CASE /\ batch' = b
             /\ UNCHANGED <<snap, policy, stopped, work, reply, phase, built, pos,
                            applied, wnodes, relationChanged, electionChanged>>
    BY <2>2, <2>3, <2>4, <2>6, ZenonT(30) DEF TypeOK
  <2>7. QED
    BY <1>2, <2>5, <2>6, Zenon DEF Receive
<1>3. CASE Tick
  BY <1>1, <1>3, Zenon DEF Tick, TypeOK
<1>4. CASE StopWriter
  <2>1. CASE BeginApply(batch)
    BY <1>1, <1>4, <2>1, ZenonT(30) DEF StopWriter, TypeOK
  <2>2. CASE phase' = "exited" /\ UNCHANGED <<snap, policy, stopped, work, reply, batchVars>>
    BY <1>4, <2>2, ZenonT(30) DEF StopWriter, TypeOK
  <2>3. QED
    BY <1>4, <2>1, <2>2, Zenon DEF StopWriter
<1>5. ASSUME NEW op, At(op), IsNodeMap(wnodes'), pos' \in Nat \ {0},
             applied' \in SUBSET NodeIDs, relationChanged' \in BOOLEAN,
             electionChanged' \in BOOLEAN,
             reply' \in [Callers -> [view : SUBSET Node,
                                     err : {"nil", "notFound", "invalid", "taken"}]]
      PROVE  TypeOK'
  BY <1>5, Zenon DEF At, TypeOK
<1>6. CASE ApplyPut
  <2> DEFINE w == work[batch[pos]]
             post == [w.node EXCEPT !.name = resolveGivenName(wnodes, w.id, w.node.name)]
  <2>1. At("put") /\ wnodes' = With(wnodes, w.id, post)
    BY <1>6 DEF ApplyPut
  <2>2. w.id \in NodeIDs /\ w.node \in Node
    BY <2>1, WorkAt DEF IsWork
  <2>3. post \in Node
    BY <2>2, PutNodeFact, Zenon DEF TypeOK
  <2> HIDE DEF post
  <2>4. IsNodeMap(wnodes')
    BY <2>1, <2>2, <2>3, NodeMapChange, ZenonT(30) DEF TypeOK
  <2>5. pos' \in Nat \ {0} /\ applied' \in SUBSET NodeIDs
    BY <1>6 DEF ApplyPut, Advance, TypeOK
  <2>6. relationChanged' \in BOOLEAN /\ electionChanged' \in BOOLEAN /\ reply' = reply
    BY <1>6, Zenon DEF ApplyPut, BothChanged
  <2>7. QED
    BY <1>5, <2>1, <2>4, <2>5, <2>6, Zenon DEF TypeOK
<1>7. CASE \E i \in NodeIDs : ApplyUpdate(i)
  <2>1. PICK i \in NodeIDs : ApplyUpdate(i)
    BY <1>7
  <2> DEFINE w == work[batch[pos]]
             post == UpdatedNode(i, w.updates[i])
  <2>2. At("update") /\ i \in DOMAIN w.updates
    BY <2>1, Zenon DEF ApplyUpdate
  <2>3. w.updates[i] \in Closures
    BY <2>2, WorkAt, Zenon DEF IsWork
  <2>4. IsNodeMap(wnodes') /\ relationChanged' \in BOOLEAN /\ electionChanged' \in BOOLEAN
    <3>1. CASE i \in DOMAIN wnodes
      <4>1. post \in Node
        BY <2>3, <3>1, UpdatedNodeFact, ZenonT(30) DEF TypeOK
      <4>2. /\ wnodes' = With(wnodes, i, post)
            /\ relationChanged' \in BOOLEAN
            /\ electionChanged' \in BOOLEAN
        BY <2>1, <3>1, Zenon DEF ApplyUpdate, TypeOK
      <4> HIDE DEF post
      <4>3. QED
        BY <4>1, <4>2, NodeMapChange, Zenon DEF TypeOK
    <3>2. CASE i \notin DOMAIN wnodes
      BY <2>1, <3>2, Zenon DEF ApplyUpdate, TypeOK
    <3>3. QED
      BY <3>1, <3>2, Zenon
  <2>5. pos' \in Nat \ {0} /\ applied' \in SUBSET NodeIDs /\ reply' = reply
    <3>1. /\ \/ Advance
             \/ applied' = applied \cup {i} /\ UNCHANGED pos
          /\ reply' = reply
      BY <2>1, Zenon DEF ApplyUpdate
    <3>2. QED
      BY <3>1 DEF Advance, TypeOK
  <2>6. QED
    BY <1>5, <2>2, <2>4, <2>5, ZenonT(30) DEF TypeOK
<1>8. CASE ApplyDelete
  <2>1. At("del") /\ work[batch[pos]].id \in NodeIDs
    BY <1>8, WorkAt DEF ApplyDelete, IsWork
  <2>2. IsNodeMap(wnodes')
    BY <1>8, Zenon DEF ApplyDelete, Without, IsNodeMap, TypeOK
  <2>3. QED
    BY <1>5, <1>8, <2>1, <2>2, SMTT(60), SMTT(90) DEF ApplyDelete, BothChanged, Advance, TypeOK
<1>9. CASE ApplySetName
  <2> DEFINE c == batch[pos]
             w == work[c]
             post == [wnodes[w.id] EXCEPT !.name = w.name]
  <2>1. At("setName")
    BY <1>9, Zenon DEF ApplySetName
  <2>2. c \in Callers /\ w.id \in NodeIDs /\ w.name \in Names
    BY <2>1, WorkAt, Zenon DEF IsWork
  <2>3. reply' \in [Callers -> [view : SUBSET Node,
                                err : {"nil", "notFound", "invalid", "taken"}]]
    <3>1. SetNameError(w) \in {"nil", "notFound", "invalid", "taken"}
      BY DEF SetNameError
    <3>2. reply' = [reply EXCEPT ![c].err = SetNameError(w)]
      BY <1>9, Zenon DEF ApplySetName
    <3> HIDE DEF c, w
    <3>3. QED
      BY <2>2, <3>1, <3>2, ZenonT(30) DEF TypeOK
  <2>4. IsNodeMap(wnodes') /\ relationChanged' \in BOOLEAN /\ electionChanged' \in BOOLEAN
    <3>1. CASE SetNameError(w) = "nil"
      <4>1. w.id \in DOMAIN wnodes
        BY <3>1, Zenon DEF SetNameError
      <4>2. post \in Node
        BY <2>2, <4>1, RenamedNode, ZenonT(30) DEF TypeOK, IsNodeMap
      <4>3. wnodes' = With(wnodes, w.id, post) /\ BothChanged
        BY <1>9, <3>1, Zenon DEF ApplySetName
      <4> HIDE DEF post
      <4>4. QED
        BY <2>2, <4>2, <4>3, NodeMapChange, Zenon DEF TypeOK, BothChanged
    <3>2. CASE SetNameError(w) # "nil"
      BY <1>9, <3>2, Zenon DEF ApplySetName, TypeOK
    <3>3. QED
      BY <3>1, <3>2, Zenon
  <2>5. pos' \in Nat \ {0} /\ applied' \in SUBSET NodeIDs
    BY <1>9 DEF ApplySetName, Advance, TypeOK
  <2>6. QED
    BY <1>5, <2>1, <2>3, <2>4, <2>5, ZenonT(30)
<1>10. CASE ApplyRebuild
  BY <1>5, <1>10 DEF ApplyRebuild, BothChanged, Advance, TypeOK
<1>11. CASE BuildPeers
  BY <1>11 DEF BuildPeers, PeersFunc, TypeOK
<1>12. CASE Store
  <2>1. /\ IsNodeMap(snap'.nodes)
        /\ snap'.peers = built
        /\ snap' = [nodes |-> snap'.nodes, routes |-> snap'.routes, peers |-> snap'.peers]
    BY <1>12, Zenon DEF Store, TypeOK
  <2>2. snap'.routes \in Routes
    BY <1>12, ElectionIsStable, Zenon DEF Store, TypeOK
  <2>3. reply' \in [Callers -> [view : SUBSET Node,
                                err : {"nil", "notFound", "invalid", "taken"}]]
    <3>1. \A c \in Callers : ViewOf(c) \in SUBSET Node
      BY DEF ViewOf, TypeOK, IsNodeMap
    <3>2. QED
      BY <1>12, <3>1, Zenon DEF Store, TypeOK
  <2>4. pc' \in [Callers -> {"idle", "offered", "accepted", "done"}]
    BY <1>12, Zenon DEF Store, TypeOK
  <2>5. IsNodeMap(wnodes') /\ batch' \in Seq(Callers) /\ built'.policy \in 0..policy'
    BY <1>12, EmptySeq DEF Store, IsNodeMap, NoNodes, NoPeers, TypeOK
  <2>6. /\ phase' \in {"collect", "exited"}
        /\ leaving' = leaving /\ policy' = policy /\ queue' = queue
        /\ stopped' = stopped /\ work' = work /\ pos' = 1 /\ applied' = {}
        /\ relationChanged' \in BOOLEAN /\ electionChanged' \in BOOLEAN
    BY <1>12, Zenon DEF Store
  <2>7. snap'.peers.policy \in 0..policy'
    BY <2>1, <2>6, ZenonT(30) DEF TypeOK
  <2>8. /\ policy' \in 0..MaxPolicy /\ queue' \in Seq(Callers)
        /\ stopped' \in BOOLEAN /\ leaving' \in BOOLEAN
        /\ work' = [c \in Callers |-> work'[c]]
        /\ \A c \in Callers : IsWork(work'[c])
    BY <2>6, Zenon DEF TypeOK
  <2>9. /\ phase' \in {"collect", "apply", "store", "exited"}
        /\ pos' \in Nat \ {0} /\ applied' \in SUBSET NodeIDs
        /\ relationChanged' \in BOOLEAN /\ electionChanged' \in BOOLEAN
    BY <2>6
  <2>10. QED
    BY <2>1, <2>2, <2>3, <2>4, <2>5, <2>7, <2>8, <2>9, ZenonT(30) DEF TypeOK
<1>13. QED
  BY <1>2, <1>3, <1>4, <1>6, <1>7, <1>8, <1>9, <1>10, <1>11, <1>12, ZenonT(30) DEF Writer, Apply

\* Every reachable state of the store is well-typed (TypeOK of the runs).
THEOREM TypeCorrect == Spec => []TypeOK
<1>1. Init => TypeOK
  BY InitType
<1>2. TypeOK /\ [Next]_vars => TypeOK'
  <2>1. ASSUME TypeOK, Next PROVE TypeOK'
    <3>1. CASE Stop
      <4>1. CASE Callers = {}
        BY <2>1, <3>1, <4>1, Zenon DEF Stop, TypeOK, callerVars, batchVars
      <4>2. CASE Callers # {}
        BY <2>1, <3>1, <4>2, CallerType, Zenon
      <4>3. QED
        BY <4>1, <4>2, Zenon
    <3>2. QED
      BY <2>1, <3>1, CallerType, WriterType DEF Next
  <2>2. ASSUME TypeOK, UNCHANGED vars PROVE TypeOK'
    BY <2>2, Zenon DEF vars, callerVars, batchVars, TypeOK
  <2>3. QED
    BY <2>1, <2>2
<1>3. QED
  BY <1>1, <1>2, PTL DEF Spec

-----------------------------------------------------------------------------
(* Safety.  PeersCurrent and PrimariesCurrent speak of the published         *)
(* snapshot and are not inductive: what makes them hold at Store is what the *)
(* loop of applyBatch maintained on its private copy, BatchInv.              *)

Inv == UniqueGivenNames /\ PrimariesCurrent /\ PeersCurrent /\ BatchInv

\* The first snapshot satisfies the invariant: it is elected and built in full.
LEMMA InitInv == Init => Inv
<1> SUFFICES ASSUME Init PROVE Inv
  BY Zenon
<1> USE NodeStoreAssumption DEF Init
<1>1. NoRoutes \in Routes
  BY DEF NoRoutes, Routes, NoNode
<1>2. PrimariesCurrent
  BY <1>1, ElectionIsStable, Zenon DEF PrimariesCurrent
<1>3. QED
  BY <1>2 DEF Inv, UniqueGivenNames, PeersCurrent, PeersFunc, BatchInv

\* Only the loop, peersFunc and the pointer store touch what Inv is about.
LEMMA InvUnchanged ==
  ASSUME Inv, UNCHANGED <<snap, wnodes, built, relationChanged, electionChanged>>,
         phase' = phase \/ phase' = "exited"
  PROVE  Inv'
BY Zenon DEF Inv, UniqueGivenNames, PrimariesCurrent, PeersCurrent, BatchInv

\* A batch starts from a copy of the published nodes.
LEMMA BeginApplyInv ==
  ASSUME Inv, NEW b, BeginApply(b)
  PROVE  Inv'
BY Zenon DEF Inv, UniqueGivenNames, PrimariesCurrent, PeersCurrent, BatchInv, BeginApply,
       SameElection

\* An operation that sets both flags only has to keep the names unique.
LEMMA BothChangedInv ==
  ASSUME Inv, NEW op, At(op), BothChanged, UniqueNames(wnodes')
  PROVE  Inv'
BY DEF Inv, UniqueGivenNames, PrimariesCurrent, PeersCurrent, BatchInv, At, BothChanged

\* The operations of a batch.
LEMMA ApplyInv ==
  ASSUME TypeOK, Inv, Apply
  PROVE  Inv'
<1> DEFINE w == work[batch[pos]]
<1>1. ASSUME NEW op, At(op)
      PROVE  UniqueNames(wnodes) /\ IsNodeMap(wnodes)
  BY <1>1, Zenon DEF At, Inv, BatchInv, TypeOK
<1>2. CASE ApplyPut
  <2> DEFINE post == [w.node EXCEPT !.name = resolveGivenName(wnodes, w.id, w.node.name)]
  <2>1. At("put") /\ BothChanged /\ wnodes' = With(wnodes, w.id, post)
    BY <1>2, Zenon DEF ApplyPut
  <2>2. w.id \in NodeIDs /\ w.node \in Node
    BY <2>1, WorkAt, Zenon DEF IsWork
  <2>3. post \in Node /\ post.name \notin TakenNames(wnodes, w.id)
    BY <1>1, <2>1, <2>2, PutNodeFact, Zenon
  <2> HIDE DEF post
  <2>4. UniqueNames(wnodes')
    BY <1>1, <2>1, <2>2, <2>3, NamesStayUnique, Zenon
  <2>5. QED
    BY <2>1, <2>4, BothChangedInv, Zenon
<1>3. CASE \E i \in NodeIDs : ApplyUpdate(i)
  <2>1. PICK i \in NodeIDs : ApplyUpdate(i)
    BY <1>3, Zenon
  <2> DEFINE post == UpdatedNode(i, w.updates[i])
  <2>2. At("update") /\ i \in DOMAIN w.updates
    BY <2>1, Zenon DEF ApplyUpdate
  <2>3. w.updates[i] \in Closures
    BY <2>2, WorkAt, Zenon DEF IsWork
  <2>4. CASE i \in DOMAIN wnodes
    <3>1. post \in Node /\ post.name \notin TakenNames(wnodes, i)
      BY <1>1, <2>2, <2>3, <2>4, UpdatedNodeFact, Zenon
    <3>2. /\ wnodes' = With(wnodes, i, post)
          /\ relationChanged' = (relationChanged \/ RelationMoved(wnodes[i], post))
          /\ electionChanged' = (electionChanged \/ ElectionMoved(wnodes[i], post))
      BY <2>1, <2>4, Zenon DEF ApplyUpdate
    <3> HIDE DEF post
    <3>3. UniqueNames(wnodes')
      BY <1>1, <2>2, <3>1, <3>2, NamesStayUnique, Zenon
    <3>4. ASSUME ~relationChanged' PROVE PeerInputs(wnodes') = PeerInputs(snap.nodes)
      <4>1. ~relationChanged /\ ~RelationMoved(wnodes[i], post)
        BY <3>2, <3>4, Zenon
      <4>2. PeerInputs(wnodes') = PeerInputs(wnodes)
        BY <1>1, <2>2, <2>4, <3>1, <3>2, <4>1, StillPeers, ZenonT(30)
      <4>3. QED
        BY <2>2, <4>1, <4>2, Zenon DEF Inv, BatchInv, At
    <3>5. ASSUME ~electionChanged' PROVE SameElection(wnodes', snap.nodes)
      <4>1. ~electionChanged /\ ~ElectionMoved(wnodes[i], post)
        BY <3>2, <3>5, ZenonT(60)
      <4>2. SameElection(wnodes', wnodes)
        BY <1>1, <2>2, <2>4, <3>1, <3>2, <4>1, StillElection, ZenonT(30)
      <4>3. SameElection(wnodes, snap.nodes)
        BY <2>2, <4>1, Zenon DEF Inv, BatchInv, At
      <4>4. QED
        BY <4>2, <4>3 DEF SameElection
    <3>6. QED
      BY <2>2, <3>3, <3>4, <3>5, ZenonT(60)
      DEF Inv, UniqueGivenNames, PrimariesCurrent, PeersCurrent, BatchInv, At
  <2>5. CASE i \notin DOMAIN wnodes
    <3>1. UNCHANGED <<snap, wnodes, built, relationChanged, electionChanged, phase>>
      BY <2>1, <2>5, Zenon DEF ApplyUpdate, At
    <3>2. QED
      BY <3>1, InvUnchanged, Zenon
  <2>6. QED
    BY <2>4, <2>5
<1>4. CASE ApplyDelete
  <2>1. At("del") /\ BothChanged /\ wnodes' = Without(wnodes, w.id)
    BY <1>4, Zenon DEF ApplyDelete
  <2>2. UniqueNames(wnodes')
    BY <1>1, <2>1, Zenon DEF UniqueNames, Without
  <2>3. QED
    BY <2>1, <2>2, BothChangedInv, Zenon
<1>5. CASE ApplySetName
  <2>1. At("setName")
    BY <1>5, Zenon DEF ApplySetName
  <2>2. w.id \in NodeIDs /\ w.name \in Names
    BY <2>1, WorkAt, Zenon DEF IsWork
  <2>3. CASE SetNameError(w) = "nil"
    <3> DEFINE post == [wnodes[w.id] EXCEPT !.name = w.name]
    <3>1. w.id \in DOMAIN wnodes /\ w.name \notin TakenNames(wnodes, w.id)
      BY <2>3, Zenon DEF SetNameError
    <3>2. post \in Node /\ post.name = w.name
      BY <1>1, <2>1, <2>2, <3>1, RenamedNode, ZenonT(30) DEF IsNodeMap
    <3>3. wnodes' = With(wnodes, w.id, post) /\ BothChanged
      BY <1>5, <2>3, Zenon DEF ApplySetName
    <3> HIDE DEF post
    <3>4. UniqueNames(wnodes')
      BY <1>1, <2>1, <2>2, <3>1, <3>2, <3>3, NamesStayUnique, Zenon
    <3>5. QED
      BY <2>1, <3>3, <3>4, BothChangedInv, Zenon
  <2>4. CASE SetNameError(w) # "nil"
    <3>1. UNCHANGED <<snap, wnodes, built, relationChanged, electionChanged, phase>>
      BY <1>5, <2>4 DEF ApplySetName, At
    <3>2. QED
      BY <3>1, InvUnchanged, Zenon
  <2>5. QED
    BY <2>3, <2>4, Zenon
<1>6. CASE ApplyRebuild
  <2>1. At("rebuild") /\ BothChanged /\ wnodes' = wnodes
    BY <1>6 DEF ApplyRebuild
  <2>2. QED
    BY <1>1, <2>1, BothChangedInv, Zenon
<1>7. QED
  BY <1>2, <1>3, <1>4, <1>5, <1>6, ZenonT(30) DEF Apply

\* Publishing: the election, or the reason it was skipped.
LEMMA StoredRoutes ==
  ASSUME TypeOK, Inv, Store
  PROVE  /\ snap'.nodes = wnodes
         /\ snap'.routes = electPrimaryRoutes(wnodes, snap.routes)
<1>1. CASE electionChanged
  BY <1>1, Zenon DEF Store
<1>2. CASE ~electionChanged
  <2>1. SameElection(wnodes, snap.nodes)
    BY <1>2 DEF Inv, BatchInv, Store
  <2>2. electPrimaryRoutes(wnodes, snap.routes) = electPrimaryRoutes(snap.nodes, snap.routes)
    BY <2>1, SameElectionSameRoutes
  <2>3. QED
    BY <1>2, <2>2, Zenon DEF Store, Inv, PrimariesCurrent
<1>3. QED
  BY <1>1, <1>2, Zenon

\* Building the adjacency and storing the snapshot keep the invariant.
LEMMA PublishInv ==
  ASSUME TypeOK, Inv, BuildPeers \/ Store
  PROVE  Inv'
<1>1. CASE BuildPeers
  <2>1. built'.inputs = PeerInputs(wnodes)
    BY <1>1, Zenon DEF BuildPeers, PeersFunc, Inv, BatchInv, PeersCurrent
  <2>2. QED
    BY <1>1, <2>1, ZenonT(60)
    DEF BuildPeers, Inv, UniqueGivenNames, PrimariesCurrent, PeersCurrent, BatchInv
<1>2. CASE Store
  <2>1. PrimariesCurrent'
    BY <1>2, StoredRoutes, ElectionIsStable DEF PrimariesCurrent, TypeOK
  <2>2. UniqueGivenNames' /\ PeersCurrent'
    BY <1>2, Zenon DEF Store, Inv, BatchInv, UniqueGivenNames, PeersCurrent
  <2>3. BatchInv'
    BY <1>2, Zenon DEF Store, BatchInv
  <2>4. QED
    BY <2>1, <2>2, <2>3, Zenon DEF Inv
<1>3. QED
  BY <1>1, <1>2, Zenon

\* Every step of the store keeps the invariant: one case per action.
LEMMA NextInv == TypeOK /\ Inv /\ [Next]_vars => Inv'
<1> USE DEF callerVars, batchVars
<1>1. ASSUME TypeOK, Inv, UNCHANGED vars PROVE Inv'
  BY <1>1, InvUnchanged, Zenon DEF vars
<1>2. ASSUME TypeOK, Inv, NEW c \in Callers,
             (\E w \in Requests : Submit(c, w)) \/ SetPolicy(c) \/ Abandon(c) \/ Return(c)
      PROVE  Inv'
  BY <1>2, InvUnchanged, Zenon DEF Submit, SetPolicy, Offer, Abandon, Return
<1>3. ASSUME TypeOK, Inv, Stop PROVE Inv'
  BY <1>3, InvUnchanged, Zenon DEF Stop
<1>4. ASSUME TypeOK, Inv, Receive PROVE Inv'
  <2>1. CASE BeginApply(Append(batch, Head(queue)))
    BY <1>4, <2>1, BeginApplyInv, Zenon
  <2>2. CASE UNCHANGED <<snap, phase, built, wnodes, relationChanged, electionChanged>>
    BY <1>4, <2>2, InvUnchanged
  <2>3. QED
    BY <1>4, <2>1, <2>2, Zenon DEF Receive
<1>5. ASSUME TypeOK, Inv, Tick PROVE Inv'
  BY <1>5, BeginApplyInv, Zenon DEF Tick
<1>6. ASSUME TypeOK, Inv, StopWriter PROVE Inv'
  <2>1. CASE BeginApply(batch)
    BY <1>6, <2>1, BeginApplyInv, Zenon
  <2>2. CASE phase' = "exited" /\ UNCHANGED <<snap, batchVars>>
    BY <1>6, <2>2, InvUnchanged
  <2>3. QED
    BY <1>6, <2>1, <2>2, Zenon DEF StopWriter
<1>7. QED
  BY <1>1, <1>2, <1>3, <1>4, <1>5, <1>6, ApplyInv, PublishInv, ZenonT(30) DEF Next, Writer

\* The conjunction that the following theorems read their property from.
LEMMA Invariance == Spec => [](TypeOK /\ Inv)
<1>1. Init => Inv
  BY InitInv
<1>2. TypeOK /\ Inv /\ [Next]_vars => Inv'
  BY NextInv
<1>3. QED
  BY <1>1, <1>2, TypeCorrect, PTL DEF Spec

\* No two stored nodes ever share a GivenName: MagicDNS names are unique for
\* every mix of registrations, hostname changes and renames in a batch.
THEOREM NamesUnique == Spec => []UniqueGivenNames
<1>1. Inv => UniqueGivenNames
  BY Zenon DEF Inv
<1>2. QED
  BY <1>1, Invariance, PTL

\* The elections applyBatch skips (electionChanged unset) would have changed
\* nothing: the published primaries are a fixpoint of the election.
THEOREM PrimariesStayCurrent == Spec => []PrimariesCurrent
<1>1. Inv => PrimariesCurrent
  BY DEF Inv
<1>2. QED
  BY <1>1, Invariance, PTL

\* The peer maps applyBatch reuses (relationChanged unset) are the ones
\* BuildPeerMap would compute from the published nodes.
THEOREM PeersStayCurrent == Spec => []PeersCurrent
<1>1. Inv => PeersCurrent
  BY Zenon DEF Inv
<1>2. QED
  BY <1>1, Invariance, PTL

\* The private copy of a batch is what its flags say it is, at every step.
THEOREM BatchStaysConsistent == Spec => []BatchInv
<1>1. Inv => BatchInv
  BY DEF Inv
<1>2. QED
  BY <1>1, Invariance, PTL

-----------------------------------------------------------------------------
(* The policy.  PolicyReachesPeers is not inductive: at Store the pending    *)
(* rebuild may be the one that is being answered.  RebuildInv follows it     *)
(* through the batch: an entry already applied has set relationChanged, and  *)
(* what peersFunc missed was asked for by a caller still in the queue.       *)

RebuildWaits == \E c \in Callers : pc[c] = "offered" /\ work[c] = Rebuild

RebuildInv ==
  /\ PolicyReachesPeers
  /\ \A c \in Callers : pc[c] = "accepted" <=> InBatch(c)
  /\ phase \in {"collect", "exited"} => pos = 1
  /\ \A k \in 1..Len(batch) : k < pos /\ work[batch[k]] = Rebuild => relationChanged
  /\ phase = "store" => /\ pos > Len(batch)
                        /\ built.policy = policy \/ stopped \/ RebuildWaits

\* A step that leaves the batch and the snapshot alone and takes no caller out
\* of "offered" or into "accepted" cannot lose a pending rebuild.
LEMMA RebuildKept ==
  ASSUME TypeOK, TypeOK', RebuildInv, policy' = policy, snap' = snap, built' = built,
         batch' = batch, pos' = pos, relationChanged' = relationChanged,
         phase' = phase, stopped => stopped',
         NEW d \in Callers,
         \A c \in Callers \ {d} : pc'[c] = pc[c] /\ work'[c] = work[c],
         pc[d] # "accepted", pc'[d] # "accepted",
         stopped \/ pc[d] # "offered" \/ (pc'[d] = pc[d] /\ work'[d] = work[d])
  PROVE  RebuildInv'
<1>1. ~InBatch(d)
  BY Zenon DEF RebuildInv
<1>2. \A k \in 1..Len(batch) : batch[k] \in Callers \ {d}
  BY <1>1 DEF InBatch, TypeOK
<1>3. \A c \in Callers : pc'[c] = "accepted" <=> InBatch(c)'
  BY <1>1, Zenon DEF RebuildInv, InBatch
<1>4. \A k \in 1..Len(batch') :
        k < pos' /\ work'[batch'[k]] = Rebuild => relationChanged'
  BY <1>2, Zenon DEF RebuildInv
<1>5. \A c \in Callers :
        pc[c] \in {"offered", "accepted"} /\ ~stopped
          => pc'[c] = pc[c] /\ work'[c] = work[c]
  BY Zenon
<1>6. PolicyReachesPeers'
  BY <1>5, Zenon DEF RebuildInv, PolicyReachesPeers, Rebuild
<1>7. phase' = "store" => built'.policy = policy' \/ stopped' \/ RebuildWaits'
  BY <1>5 DEF RebuildInv, RebuildWaits, Rebuild
<1>8. QED
  BY <1>3, <1>4, <1>6, <1>7, Zenon DEF RebuildInv

\* The callers, Stop included: SetPolicy asks for the rebuild its policy needs.
LEMMA CallerRebuild ==
  ASSUME TypeOK, TypeOK', RebuildInv, NEW c \in Callers,
         (\E w \in Requests : Submit(c, w)) \/ SetPolicy(c) \/ Abandon(c) \/ Return(c)
  PROVE  RebuildInv'
<1> USE DEF callerVars, batchVars
<1>1. CASE \E w \in Requests : Submit(c, w)
  <2>1. PICK w \in Requests : Submit(c, w)
    BY <1>1
  <2>2. /\ pc[c] = "idle" /\ pc' = [pc EXCEPT ![c] = "offered"]
        /\ work' = [work EXCEPT ![c] = w]
        /\ UNCHANGED <<policy, snap, built, batch, pos, relationChanged, phase, stopped>>
    BY <2>1, Zenon DEF Submit, Offer
  <2>3. \A d \in Callers \ {c} : pc'[d] = pc[d] /\ work'[d] = work[d]
    BY <2>2, Zenon DEF TypeOK
  <2>4. pc'[c] = "offered"
    BY <2>2 DEF TypeOK
  <2>5. QED
    BY <2>2, <2>3, <2>4, RebuildKept, Zenon
<1>2. CASE SetPolicy(c)
  <2>1. /\ pc[c] = "idle" /\ pc' = [pc EXCEPT ![c] = "offered"]
        /\ work' = [work EXCEPT ![c] = Rebuild]
        /\ UNCHANGED <<snap, built, batch, pos, relationChanged, phase, stopped>>
    BY <1>2, Zenon DEF SetPolicy, Offer
  <2>2. \A d \in Callers \ {c} : pc'[d] = pc[d] /\ work'[d] = work[d]
    BY <2>1, Zenon DEF TypeOK
  <2>3. pc'[c] = "offered" /\ work'[c] = Rebuild
    BY <2>1, Zenon DEF TypeOK
  <2>4. PolicyReachesPeers' /\ RebuildWaits'
    BY <2>3, Zenon DEF PolicyReachesPeers, RebuildWaits, Rebuild
  <2>5. ~InBatch(c)
    BY <2>1, Zenon DEF RebuildInv
  <2>6. \A k \in 1..Len(batch) : batch[k] \in Callers \ {c}
    BY <2>5 DEF InBatch, TypeOK
  <2>7. \A d \in Callers : pc'[d] = "accepted" <=> InBatch(d)'
    BY <2>1, <2>2, <2>3, <2>5, ZenonT(30) DEF RebuildInv, InBatch
  <2>8. \A k \in 1..Len(batch') :
          k < pos' /\ work'[batch'[k]] = Rebuild => relationChanged'
    BY <2>1, <2>2, <2>6, ZenonT(30) DEF RebuildInv
  <2>9. QED
    BY <2>1, <2>4, <2>7, <2>8, Zenon DEF RebuildInv
<1>3. CASE Abandon(c)
  <2>1. /\ pc[c] = "offered" /\ stopped /\ pc' = [pc EXCEPT ![c] = "done"]
        /\ UNCHANGED <<work, policy, snap, built, batch, pos, relationChanged, phase, stopped>>
    BY <1>3, Zenon DEF Abandon
  <2>2. (\A d \in Callers \ {c} : pc'[d] = pc[d] /\ work'[d] = work[d]) /\ pc'[c] = "done"
    BY <2>1, Zenon DEF TypeOK
  <2>3. QED
    BY <2>1, <2>2, RebuildKept, Zenon
<1>4. CASE Return(c)
  <2>1. /\ pc[c] = "done" /\ pc' = [pc EXCEPT ![c] = "idle"]
        /\ work' = [work EXCEPT ![c] = Rebuild]
        /\ UNCHANGED <<policy, snap, built, batch, pos, relationChanged, phase, stopped>>
    BY <1>4, Zenon DEF Return
  <2>2. (\A d \in Callers \ {c} : pc'[d] = pc[d] /\ work'[d] = work[d]) /\ pc'[c] = "idle"
    BY <2>1, Zenon DEF TypeOK
  <2>3. QED
    BY <2>1, <2>2, RebuildKept, Zenon
<1>5. QED
  BY <1>1, <1>2, <1>3, <1>4, Zenon

\* Collecting: a caller is accepted exactly when it joins the batch.
LEMMA CollectRebuild ==
  ASSUME TypeOK, TypeOK', RebuildInv, Receive \/ Tick \/ StopWriter
  PROVE  RebuildInv'
<1> USE DEF callerVars, batchVars
<1>1. CASE Receive
  <2> DEFINE c == Head(queue)
  <2>1. /\ c \in Callers /\ pc' = [pc EXCEPT ![c] = "accepted"]
        /\ batch' = Append(batch, c) /\ phase = "collect" /\ phase' \in {"collect", "apply"}
        /\ UNCHANGED <<policy, snap, built, pos, relationChanged, stopped, work>>
    BY <1>1 DEF Receive, BeginApply, TypeOK
  <2> HIDE DEF c
  <2>2. /\ Len(batch') = Len(batch) + 1 /\ batch'[Len(batch')] = c
        /\ \A k \in 1..Len(batch) : batch'[k] = batch[k]
    BY <2>1 DEF TypeOK
  <2>3. \A d \in Callers : InBatch(d)' <=> InBatch(d) \/ d = c
    BY <2>1, <2>2, SMTT(60), SMTT(90) DEF InBatch, TypeOK
  <2>4. \A d \in Callers : pc'[d] = IF d = c THEN "accepted" ELSE pc[d]
    BY <2>1 DEF TypeOK
  <2>5. \A d \in Callers : pc'[d] = "accepted" <=> InBatch(d)'
    BY <2>3, <2>4 DEF RebuildInv
  <2>6. PolicyReachesPeers'
    BY <2>1, <2>4, Zenon DEF RebuildInv, PolicyReachesPeers, Rebuild
  <2>7. pos' = 1
    BY <2>1, Zenon DEF RebuildInv
  <2>8. \A k \in 1..Len(batch') :
          k < pos' /\ work'[batch'[k]] = Rebuild => relationChanged'
    BY <2>7 DEF TypeOK
  <2>9. QED
    BY <2>1, <2>5, <2>6, <2>7, <2>8, ZenonT(30) DEF RebuildInv
<1>2. CASE Tick \/ StopWriter
  <2>1. /\ phase = "collect" /\ phase' \in {"apply", "exited"}
        /\ UNCHANGED <<policy, snap, built, pos, relationChanged, stopped, work, pc, batch>>
    BY <1>2, Zenon DEF Tick, StopWriter, BeginApply
  <2>2. QED
    BY <2>1, Zenon DEF RebuildInv, PolicyReachesPeers, InBatch, RebuildWaits
<1>3. QED
  BY <1>1, <1>2, Zenon

\* Applying: an entry passed over is no rebuild, or it set relationChanged.
LEMMA ApplyRebuildInv ==
  ASSUME TypeOK, TypeOK', RebuildInv, Apply
  PROVE  RebuildInv'
<1>1. /\ phase = "apply" /\ pos <= Len(batch)
      /\ UNCHANGED <<snap, policy, queue, stopped, pc, work, phase, batch, built>>
  BY Zenon DEF Apply, ApplyPut, ApplyUpdate, ApplyDelete, ApplySetName, ApplyRebuild, At
<1>2. pos' \in {pos, pos + 1}
  BY Zenon DEF Apply, ApplyPut, ApplyUpdate, ApplyDelete, ApplySetName, ApplyRebuild, Advance
<1>3. relationChanged => relationChanged'
  BY Zenon DEF Apply, ApplyPut, ApplyUpdate, ApplyDelete, ApplySetName, ApplyRebuild, BothChanged
<1>4. work[batch[pos]] = Rebuild => relationChanged'
  BY DEF Apply, ApplyPut, ApplyUpdate, ApplyDelete, ApplySetName, ApplyRebuild,
         BothChanged, At, Rebuild
<1>5. \A k \in 1..Len(batch') :
        k < pos' /\ work'[batch'[k]] = Rebuild => relationChanged'
  <2> SUFFICES ASSUME NEW k \in 1..Len(batch), k < pos', work[batch[k]] = Rebuild
               PROVE  relationChanged'
    BY <1>1, Zenon
  <2>1. k < pos \/ k = pos
    BY <1>2 DEF TypeOK
  <2>2. QED
    BY <1>3, <1>4, <2>1 DEF RebuildInv
<1>6. QED
  BY <1>1, <1>5, Zenon DEF RebuildInv, PolicyReachesPeers, InBatch, RebuildWaits

\* Publishing: a rebuild of the batch has made peersFunc run on this policy.
LEMMA PublishRebuild ==
  ASSUME TypeOK, TypeOK', RebuildInv, BuildPeers \/ Store
  PROVE  RebuildInv'
<1> USE DEF callerVars, batchVars
<1>1. CASE BuildPeers
  <2>1. /\ phase = "apply" /\ phase' = "store" /\ pos > Len(batch)
        /\ built' = IF relationChanged THEN PeersFunc(wnodes) ELSE snap.peers
        /\ UNCHANGED <<snap, policy, stopped, pc, work, batch, pos, relationChanged>>
    BY <1>1, Zenon DEF BuildPeers
  <2>2. built'.policy = policy \/ stopped \/ RebuildWaits
    <3>1. CASE relationChanged
      BY <2>1, <3>1, Zenon DEF PeersFunc
    <3>2. CASE ~relationChanged
      <4>1. ASSUME NEW c \in Callers, pc[c] = "accepted", work[c] = Rebuild
            PROVE  FALSE
        <5>1. PICK k \in 1..Len(batch) : batch[k] = c
          BY <4>1, Zenon DEF RebuildInv, InBatch
        <5>2. k < pos
          BY <2>1 DEF TypeOK
        <5>3. QED
          BY <3>2, <4>1, <5>1, <5>2, Zenon DEF RebuildInv
      <4>2. snap.peers.policy = policy \/ stopped \/ RebuildWaits
        BY <4>1, Zenon DEF RebuildInv, PolicyReachesPeers, RebuildWaits
      <4>3. QED
        BY <2>1, <3>2, <4>2, Zenon
    <3>3. QED
      BY <3>1, <3>2, Zenon
  <2>3. QED
    BY <2>1, <2>2, Zenon DEF RebuildInv, PolicyReachesPeers, InBatch, RebuildWaits
<1>2. CASE Store
  <2>1. /\ phase = "store" /\ phase' \in {"collect", "exited"} /\ pos' = 1
        /\ batch' = <<>> /\ snap'.peers = built /\ UNCHANGED <<policy, stopped, work>>
        /\ pc' = [c \in Callers |-> IF InBatch(c) THEN "done" ELSE pc[c]]
    BY <1>2, Zenon DEF Store
  <2>2. \A c \in Callers : pc[c] = "offered" => pc'[c] = "offered"
    BY <2>1, Zenon DEF RebuildInv
  <2>3. PolicyReachesPeers'
    BY <2>1, <2>2, Zenon DEF RebuildInv, PolicyReachesPeers, RebuildWaits, Rebuild
  <2>4. \A c \in Callers : pc'[c] # "accepted"
    BY <2>1, Zenon DEF RebuildInv
  <2>5. \A c \in Callers : ~InBatch(c)'
    BY <2>1 DEF InBatch
  <2>6. QED
    BY <2>1, <2>3, <2>4, <2>5 DEF RebuildInv
<1>3. QED
  BY <1>1, <1>2, Zenon

\* Every policy SetPolicy installs reaches the published adjacency, or a
\* rebuild that will carry it there is still queued or in the batch, or the
\* store was stopped: no interleaving of the writer loses the rebuild.
THEOREM PolicyIsNotLost == Spec => []PolicyReachesPeers
<1>1. Init => RebuildInv
  BY DEF Init, RebuildInv, PolicyReachesPeers, PeersFunc, InBatch, RebuildWaits
<1>2. TypeOK /\ TypeOK' /\ RebuildInv /\ [Next]_vars => RebuildInv'
  <2> SUFFICES ASSUME TypeOK, TypeOK', RebuildInv, [Next]_vars PROVE RebuildInv'
    BY Zenon
  <2>1. CASE UNCHANGED vars
    BY <2>1, Zenon DEF vars, callerVars, batchVars, RebuildInv, PolicyReachesPeers, InBatch,
                RebuildWaits
  <2>2. CASE Stop
    BY <2>2, Zenon DEF Stop, callerVars, batchVars, RebuildInv, PolicyReachesPeers, InBatch,
                RebuildWaits
  <2>3. QED
    BY <2>1, <2>2, CallerRebuild, CollectRebuild, ApplyRebuildInv, PublishRebuild, ZenonT(30)
    DEF Next, Writer
<1>3. RebuildInv => PolicyReachesPeers
  BY Zenon DEF RebuildInv
<1>4. QED
  BY <1>1, <1>2, <1>3, TypeCorrect, PTL DEF Spec

-----------------------------------------------------------------------------
(* Refinement: NodeStore implements PrimaryRoutes.                          *)

\* PrimaryRoutes speaks of nodes and routes as NodeStore does.
LEMMA SameVocabulary ==
  /\ PR!Scopes = Scopes /\ PR!NoNode = NoNode /\ PR!Routes = Routes
  /\ PR!NoRoutes = NoRoutes
  /\ \A m : PR!IsNodeMap(m) <=> IsNodeMap(m)
  /\ \A m, s, p : PR!Candidates(m, s, p) = Candidates(m, s, p)
  /\ \A m, s, p : PR!HealthyCandidates(m, s, p) = HealthyCandidates(m, s, p)
<1>1. PR!Scopes = Scopes /\ PR!NoNode = NoNode
  BY Zenon DEF PR!Scopes, Scopes, PR!Global, Global, PR!NoNode, NoNode
<1>2. PR!Routes = Routes /\ PR!NoRoutes = NoRoutes
  BY <1>1, Zenon DEF PR!Routes, Routes, PR!NoRoutes, NoRoutes
<1>3. ASSUME NEW m PROVE PR!IsNodeMap(m) <=> IsNodeMap(m)
  BY <1>1, Zenon DEF PR!IsNodeMap, IsNodeMap, PR!Node, Node, PR!Names, Names
<1>4. ASSUME NEW m, NEW s, NEW p PROVE PR!Candidates(m, s, p) = Candidates(m, s, p)
  BY Zenon DEF PR!Candidates, Candidates, PR!ScopeOf, ScopeOf, PR!Global, Global,
         PR!AllApprovedRoutes, AllApprovedRoutes, PR!SubnetRoutes, SubnetRoutes,
         PR!ExitRoutes, ExitRoutes
<1>5. ASSUME NEW m, NEW s, NEW p
      PROVE  PR!HealthyCandidates(m, s, p) = HealthyCandidates(m, s, p)
  BY <1>4, Zenon DEF PR!HealthyCandidates, HealthyCandidates
<1>6. QED
  BY <1>1, <1>2, <1>3, <1>4, <1>5, ZenonT(30)

\* An election from old keeps every clause of the promise.
LEMMA ElectionKeepsPromise ==
  ASSUME NEW ns, IsNodeMap(ns), NEW old \in Routes
  PROVE  PR!Promise(ns, old, electPrimaryRoutes(ns, old))
<1> DEFINE new == electPrimaryRoutes(ns, old)
<1>1. ASSUME NEW s \in Scopes, NEW p \in Prefixes
      PROVE  LET was == old[s][p]
                 now == new[s][p]
                 cand == Candidates(ns, s, p)
                 good == HealthyCandidates(ns, s, p)
             IN  /\ now # NoNode => now \in cand
                 /\ good # {} => now \in good
                 /\ was \in good => now = was
                 /\ good = {} => now \in {was, NoNode}
                 /\ good = {} /\ was \in cand => now = was
                 /\ now # was /\ now # NoNode => \A i \in good : now <= i
  <2>1. new[s][p] = electOneScope(ns, s, p, old[s][p])
    BY DEF electPrimaryRoutes
  <2> DEFINE was == old[s][p]
             now == new[s][p]
             cand == Candidates(ns, s, p)
             good == HealthyCandidates(ns, s, p)
  <2> DEFINE elected == electOneScope(ns, s, p, was)
  <2>2. /\ elected \in cand \cup {NoNode}
        /\ good # {} => elected \in good
        /\ was \in good => elected = was
        /\ good = {} /\ was \in cand => elected = was
        /\ good = {} /\ was \notin cand => elected = NoNode
        /\ good # {} /\ was \notin good => \A i \in good : elected <= i
    <3> HIDE DEF was
    <3>1. QED
      BY ElectOneCases, Zenon
  <2>3. now = elected
    BY <2>1, Zenon
  <2> HIDE DEF new, was, now, cand, good, elected
  <2>4. good = {} => now \in {was, NoNode}
    BY <2>2, <2>3, Zenon
  <2>5. now # was /\ now # NoNode => \A i \in good : now <= i
    BY <2>2, <2>3, Zenon
  <2>6. /\ now # NoNode => now \in cand
        /\ good # {} => now \in good
        /\ was \in good => now = was
        /\ good = {} => now \in {was, NoNode}
        /\ good = {} /\ was \in cand => now = was
        /\ now # was /\ now # NoNode => \A i \in good : now <= i
    BY <2>2, <2>3, <2>4, <2>5, Zenon
  <2>7. QED
    BY <2>6, Zenon DEF was, now, cand, good
<1>2. QED
  BY <1>1, SameVocabulary, ZenonT(60) DEF PR!Promise

\* NodeStore implements PrimaryRoutes: each published assignment follows from
\* the one before it by the smallest correction, in every interleaving of
\* callers, batches, policy changes and Stop.
THEOREM PrimariesImplementPromise == Spec => PrimaryRoutesPromise
<1>1. Init => PR!Init
  <2> SUFFICES ASSUME Init PROVE PR!Init
    OBVIOUS
  <2>1. NoRoutes \in Routes
    BY Zenon DEF NoRoutes, Routes, NoNode
  <2>2. IsNodeMap(InitNodes) /\ snap.nodes = InitNodes
    BY NodeStoreAssumption, Zenon DEF Init
  <2>3. snap.routes = electPrimaryRoutes(InitNodes, NoRoutes)
    BY Zenon DEF Init
  <2>4. snap.routes \in Routes /\ PR!Promise(snap.nodes, NoRoutes, snap.routes)
    BY <2>1, <2>2, <2>3, ElectionIsStable, ElectionKeepsPromise, ZenonT(30)
  <2>5. QED
    BY <2>2, <2>4, SameVocabulary, Zenon DEF PR!Init
<1>2. TypeOK /\ TypeOK' /\ Inv /\ [Next]_vars => [PR!Republish]_<<snap.nodes, snap.routes>>
  <2> SUFFICES ASSUME TypeOK, TypeOK', Inv, [Next]_vars
               PROVE  [PR!Republish]_<<snap.nodes, snap.routes>>
    BY Zenon
  <2>1. CASE Store
    <3>1. PR!Promise(wnodes, snap.routes, electPrimaryRoutes(wnodes, snap.routes))
      BY ElectionKeepsPromise, Zenon DEF TypeOK
    <3>2. PR!Promise(snap'.nodes, snap.routes, snap'.routes)
      BY <2>1, <3>1, StoredRoutes, Zenon
    <3>3. IsNodeMap(snap'.nodes) /\ snap'.routes \in Routes
      BY Zenon DEF TypeOK
    <3>4. QED
      BY <3>2, <3>3, SameVocabulary, Zenon DEF PR!Republish
  <2>2. CASE ~Store
    <3>1. snap' = snap
      BY <2>2, Zenon DEF Next, vars, Writer, Apply, Submit, SetPolicy, Offer, Abandon, Return,
                  Stop, Receive, Tick, StopWriter, BeginApply, ApplyPut, ApplyUpdate,
                  ApplyDelete, ApplySetName, ApplyRebuild, At, BuildPeers
    <3>2. QED
      BY <3>1, Zenon
  <2>3. QED
    BY <2>1, <2>2, Zenon
<1>3. QED
  BY <1>1, <1>2, TypeCorrect, Invariance, PTL DEF Spec, PrimaryRoutesPromise, PR!Spec
=============================================================================
