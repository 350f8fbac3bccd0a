----------------------------- MODULE NetmapProofs -----------------------------
(***************************************************************************)
(* That the server's record of the peers it sent to a client is the        *)
(* client's list of peers, for any nodes, requests, commands and policies. *)
(* The record decides what a policy change tells the client to forget, so  *)
(* a peer missing from it would stay in the netmap for good.               *)
(*                                                                         *)
(* Server and client apply a response in a different order: the server     *)
(* adds and then removes, the client removes and then adds.  They agree    *)
(* because no response removes a peer it also carries, and that holds      *)
(* because no change both adds and removes peers: a fact about every       *)
(* change any operation publishes and about merging them.                  *)
(***************************************************************************)
EXTENDS Netmap, FiniteSetTheorems, FunctionTheorems, TLAPS

(* A leaf that names no prover is tried with SMT, with Zenon, and with SMT  *)
(* once more.                                                               *)
USE SMT, Zenon, SMTT(60)

Items(q) == {q[k] : k \in DOMAIN q}

\* A change adds peers or removes them.
OneWay(c) == c.changed = {} \/ c.removed = {}

\* Changes that wait.
Waiting(q) == q \in Seq(Items(q)) /\ \A c \in Items(q) : OneWay(c)

QueueInv == \A v \in Viewers : Waiting(queue[v]) /\ Waiting(bundle[v])

Fields == DOMAIN Frame("map", 0)

Operations ==
  {"map", "approve", "rename", "tags", "expiry", "relogin", "delete", "connect", "disconnect",
   "reload", "user", "derp", "records"}

\* A caller is at one of the operations; the nodes it is about exist or did.
IsFrame(f) ==
  /\ DOMAIN f = Fields /\ f.op \in Operations /\ f.selfs \subseteq NodeIDs
  /\ f.pc = "set" => \A l \in f.list : DOMAIN l \subseteq NodeIDs

CallInv ==
  /\ DOMAIN call = Callers
  /\ \A c \in Callers : call[c] = Idle \/ IsFrame(call[c])

StoreInv ==
  /\ DOMAIN store \subseteq NodeIDs
  /\ DOMAIN pm = {"pol", "nodes", "changed"}
  /\ DOMAIN pm.nodes \subseteq NodeIDs /\ pm.changed \subseteq NodeIDs

\* What was sent is what the client has.
ListInv ==
  /\ conns \subseteq Viewers /\ DOMAIN client = Viewers /\ DOMAIN sent = Viewers
  /\ DOMAIN queue = Viewers /\ DOMAIN bundle = Viewers
  /\ \A v \in Viewers : sent[v] = DOMAIN client[v].peers

NetInv == QueueInv /\ CallInv /\ StoreInv /\ ListInv

-----------------------------------------------------------------------------
(* Sequences of changes.                                                    *)

\* A sequence is one over its items.
LEMMA OwnItems ==
  ASSUME NEW S, NEW q \in Seq(S)
  PROVE  q \in Seq(Items(q)) /\ Items(q) \subseteq S
<1>1. DOMAIN q = 1..Len(q) /\ Len(q) \in Nat /\ \A k \in 1..Len(q) : q[k] \in S
  OBVIOUS
<1>2. \A k \in 1..Len(q) : q[k] \in Items(q)
  BY <1>1 DEF Items
<1>3. q = [k \in 1..Len(q) |-> q[k]]
  OBVIOUS
<1>4. q \in [1..Len(q) -> Items(q)]
  BY <1>2, <1>3
<1>5. q \in Seq(Items(q))
  BY <1>1, <1>4
<1>6. Items(q) \subseteq S
  BY <1>1 DEF Items
<1>7. QED
  BY <1>5, <1>6

\* The positions of a sequence of n changes are n in number.
LEMMA PositionsCount ==
  ASSUME NEW n \in Nat
  PROVE  IsFiniteSet(1..n) /\ Cardinality(1..n) = n
<1>1. 1 \in Int /\ n \in Int
  OBVIOUS
<1>2. IsFiniteSet(1..n)
  BY <1>1, FS_Interval, Zenon
<1>3. Cardinality(1..n) = IF 1 > n THEN 0 ELSE n - 1 + 1
  BY <1>1, FS_Interval, Zenon
<1>4. (IF 1 > n THEN 0 ELSE n - 1 + 1) = n
  OBVIOUS
<1>5. QED
  BY <1>2, <1>3, <1>4

\* Keep gives a sequence of what it was given.  The kept positions are numbered
\* by rank: an injection into an interval of the same size, hence onto it.
LEMMA KeepFacts ==
  ASSUME NEW S, NEW cs \in Seq(S), NEW kept \in SUBSET DOMAIN cs
  PROVE  Keep(cs, kept) \in Seq(S)
<1> DEFINE upto(i) == {j \in kept : j <= i}
           n == Cardinality(kept)
           rank == [i \in kept |-> Cardinality(upto(i))]
           at(k) == CHOOSE i \in kept : Cardinality(upto(i)) = k
<1>1. DOMAIN cs = 1..Len(cs) /\ Len(cs) \in Nat
  OBVIOUS
<1>2. IsFiniteSet(1..Len(cs)) /\ kept \in SUBSET (1..Len(cs))
  <2>1. IsFiniteSet(1..Len(cs))
    BY <1>1, PositionsCount, Zenon
  <2>2. QED
    BY <1>1, <2>1
<1>3. IsFiniteSet(kept) /\ n \in Nat
  BY <1>2, FS_Subset, FS_CardinalityType
<1>4. Keep(cs, kept) = [k \in 1..n |-> cs[at(k)]]
  BY DEF Keep
<1>5. \A i \in kept : /\ upto(i) \in SUBSET kept /\ IsFiniteSet(upto(i))
                      /\ Cardinality(upto(i)) \in 1..n
  <2> SUFFICES ASSUME NEW i \in kept
               PROVE  /\ upto(i) \in SUBSET kept /\ IsFiniteSet(upto(i))
                      /\ Cardinality(upto(i)) \in 1..n
    BY Zenon
  <2>1. upto(i) \in SUBSET kept /\ i \in upto(i)
    BY <1>2
  <2>2. IsFiniteSet(upto(i)) /\ Cardinality(upto(i)) <= n
    BY <1>3, <2>1, FS_Subset
  <2>3. Cardinality(upto(i)) \in Nat /\ Cardinality(upto(i)) # 0
    BY <2>1, <2>2, FS_CardinalityType, FS_EmptySet, Zenon
  <2>4. QED
    BY <1>3, <2>1, <2>2, <2>3
<1>6. \A i, k \in kept : i < k => Cardinality(upto(i)) # Cardinality(upto(k))
  <2> SUFFICES ASSUME NEW i \in kept, NEW k \in kept, i < k,
                      Cardinality(upto(i)) = Cardinality(upto(k))
               PROVE  FALSE
    OBVIOUS
  <2>1. upto(i) \in SUBSET upto(k)
    <3>1. i \in Nat /\ k \in Nat /\ \A j \in kept : j \in Nat
      BY <1>2
    <3>2. \A j \in kept : j <= i => j <= k
      BY <3>1
    <3>3. QED
      BY <3>2
  <2>2. upto(k) = upto(i)
    BY <1>5, <2>1, FS_Subset, Zenon
  <2>3. k \in upto(k) /\ k \notin upto(i)
    BY <1>2
  <2>4. QED
    BY <2>2, <2>3
<1> HIDE DEF upto
<1>7. rank \in [kept -> 1..n]
  BY <1>5
<1>8. \A i, k \in kept : rank[i] = rank[k] => i = k
  <2> SUFFICES ASSUME NEW i \in kept, NEW k \in kept, rank[i] = rank[k]
               PROVE  i = k
    OBVIOUS
  <2>1. i \in Nat /\ k \in Nat
    BY <1>2
  <2>2. i < k \/ k < i \/ i = k
    BY <2>1
  <2>3. Cardinality(upto(i)) = Cardinality(upto(k))
    OBVIOUS
  <2>4. QED
    BY <1>6, <2>2, <2>3
<1>9. rank \in Injection(kept, 1..n)
  BY <1>7, <1>8 DEF Injection, IsInjective
<1>10. IsFiniteSet(1..n) /\ Cardinality(1..n) = n
  BY <1>3, PositionsCount, Zenon
<1>11. rank \in Surjection(kept, 1..n)
  BY <1>9, <1>10, FS_Injection
<1>12. \A k \in 1..n : \E i \in kept : Cardinality(upto(i)) = k
  BY <1>11, Zenon DEF Surjection
<1>13. \A k \in 1..n : at(k) \in kept
  BY <1>12
<1> HIDE DEF at, n
<1>14. \A k \in 1..n : cs[at(k)] \in S
  <2>1. \A i \in kept : cs[i] \in S
    BY <1>1, <1>2
  <2>2. QED
    BY <1>13, <2>1
<1>15. Keep(cs, kept) \in [1..n -> S]
  BY <1>4, <1>14
<1>16. QED
  BY <1>3, <1>15

\* Some of the changes that wait.
LEMMA KeepWaits ==
  ASSUME NEW cs, Waiting(cs), NEW kept \in SUBSET DOMAIN cs
  PROVE  Waiting(Keep(cs, kept))
<1> DEFINE rest == Keep(cs, kept)
<1>1. rest \in Seq(Items(cs))
  BY KeepFacts DEF Waiting
<1> HIDE DEF rest
<1>2. rest \in Seq(Items(rest)) /\ Items(rest) \subseteq Items(cs)
  BY <1>1, OwnItems
<1>3. Waiting(rest)
  BY <1>2 DEF Waiting
<1>4. QED
  BY <1>3 DEF rest

\* More changes wait.
LEMMA JoinWaits ==
  ASSUME NEW s, NEW t, Waiting(s), Waiting(t)
  PROVE  Waiting(s \o t)
<1> DEFINE S == Items(s) \cup Items(t)
<1>1. s \in Seq(Items(s)) /\ t \in Seq(Items(t))
  BY DEF Waiting
<1> HIDE DEF S
<1>2. s \in Seq(S) /\ t \in Seq(S)
  BY <1>1 DEF S
<1>3. s \o t \in Seq(S)
  BY <1>2
<1>4. s \o t \in Seq(Items(s \o t)) /\ Items(s \o t) \subseteq S
  BY <1>3, OwnItems, Zenon
<1>5. \A c \in S : OneWay(c)
  BY DEF Waiting, S
<1>6. QED
  BY <1>4, <1>5 DEF Waiting

\* The first change is taken.
LEMMA NextWaits ==
  ASSUME NEW q, Waiting(q), q # <<>>
  PROVE  OneWay(Head(q)) /\ Waiting(Tail(q))
<1> DEFINE S == Items(q)
<1>1. q \in Seq(S) /\ \A c \in S : OneWay(c)
  BY DEF Waiting
<1> HIDE DEF S
<1>2. Head(q) \in S /\ Tail(q) \in Seq(S)
  BY <1>1
<1>3. Tail(q) \in Seq(Items(Tail(q))) /\ Items(Tail(q)) \subseteq S
  BY <1>2, OwnItems, Zenon
<1>4. QED
  BY <1>1, <1>2, <1>3 DEF Waiting

\* No change, and one.
LEMMA FewWait ==
  /\ Waiting(<<>>)
  /\ \A c : OneWay(c) => Waiting(<<c>>)
<1>1. Waiting(<<>>)
  BY DEF Waiting, Items
<1>2. ASSUME NEW c, OneWay(c) PROVE Waiting(<<c>>)
  <2>1. <<c>> \in Seq({c})
    OBVIOUS
  <2>2. <<c>> \in Seq(Items(<<c>>)) /\ Items(<<c>>) \subseteq {c}
    BY <2>1, OwnItems, Zenon
  <2>3. QED
    BY <1>2, <2>2 DEF Waiting
<1>3. QED
  BY <1>1, <1>2

-----------------------------------------------------------------------------
(* Changes, and the responses made of them.                                 *)

\* No operation publishes a change that both adds and removes peers.
LEMMA ChangesOneWay ==
  ASSUME NEW f, f.op \in Operations, IsFiniteSet(f.selfs)
  PROVE  Waiting(changesOf(f))
<1>1. /\ OneWay(NoChange) /\ OneWay(PolicyChange) /\ OneWay(FullUpdate) /\ OneWay(DERPMap)
      /\ OneWay(ExtraRecords)
  BY DEF OneWay, NoChange, PolicyChange, FullUpdate, DERPMap, ExtraRecords
<1>2. \A i : OneWay(NodeAdded(i)) /\ OneWay(NodeRemoved(i)) /\ OneWay(SelfUpdate(i))
  BY DEF OneWay, NoChange, NodeAdded, NodeRemoved, SelfUpdate
<1>3. \A i, p : OneWay(PeerPatched(p)) /\ OneWay(EndpointOrDERPUpdate(i, p))
  BY DEF OneWay, NoChange, PeerPatched, EndpointOrDERPUpdate
<1>4. \A i, n : OneWay(NodeOnlineFor(i, n)) /\ OneWay(NodeKeyRotated(i, n))
  BY <1>3 DEF NodeOnlineFor, NodeKeyRotated
<1>5. /\ Waiting(<<>>) /\ Waiting(<<PolicyChange>>) /\ Waiting(<<NodeAdded(f.id)>>)
      /\ Waiting(recompute(f))
  BY <1>1, <1>2, FewWait, Zenon DEF recompute
<1>6. CASE f.op = "map"
  <2> DEFINE n == OrElse(f.node, {})
             d == OrElse(f.delta, {})
             made == buildMapRequestChangeResponse(f.id, n, d)
  <2>1. OneWay(made)
    <3>1. \A g : OneWay([NodeKeyRotated(f.id, n) EXCEPT !.patches = g])
      BY DEF OneWay, NodeKeyRotated, EndpointOrDERPUpdate, PeerPatched, NoChange
    <3> HIDE DEF n, d
    <3>2. QED
      BY <1>1, <1>2, <1>3, <3>1, Zenon DEF buildMapRequestChangeResponse
  <2> HIDE DEF made
  <2>2. changesOf(f) = <<IF f.list # {} \/ f.moved THEN PolicyChange ELSE made>>
    BY <1>6 DEF changesOf, made
  <2>3. QED
    BY <1>1, <2>1, <2>2, FewWait, Zenon
<1>7. CASE f.op = "approve"
  BY <1>5, <1>7 DEF changesOf
<1>8. CASE f.op = "rename"
  <2>1. changesOf(f) = <<orNodeAdded(f)>>
    BY <1>8 DEF changesOf
  <2>2. QED
    BY <1>5, <2>1 DEF orNodeAdded
<1>9. CASE f.op = "tags"
  <2>1. changesOf(f) = <<tagsChange(f)>>
    BY <1>9 DEF changesOf
  <2>2. OneWay(tagsChange(f))
    BY DEF OneWay, tagsChange, orNodeAdded, PolicyChange, NodeAdded, NoChange
  <2>3. QED
    BY <2>1, <2>2, FewWait
<1>10. CASE f.op = "expiry"
  <2>1. changesOf(f) = <<expiryChange(f)>>
    BY <1>10 DEF changesOf
  <2>2. /\ NoChange.removed = {} /\ PolicyChange.removed = {}
        /\ NodeAdded(f.id).removed = {}
    BY Zenon DEF NoChange, PolicyChange, NodeAdded
  <2>3. \A a, b : Merge(a, b).removed = a.removed \cup b.removed
    BY DEF Merge
  <2>4. expiryChange(f).removed = {}
    BY <2>2, <2>3 DEF expiryChange
  <2>5. QED
    BY <2>1, <2>4, FewWait DEF OneWay
<1>11. CASE f.op = "relogin"
  <2>1. changesOf(f) = <<reauthChange(f)>>
    BY <1>11 DEF changesOf
  <2>2. QED
    BY <1>1, <1>4, <2>1, FewWait, Zenon DEF reauthChange
<1>12. CASE f.op = "delete"
  <2>1. changesOf(f) = <<IF f.list # {} THEN Merge(NodeRemoved(f.id), PolicyChange) ELSE NodeRemoved(f.id)>>
    BY <1>12 DEF changesOf
  <2>2. NodeRemoved(f.id).changed = {} /\ PolicyChange.changed = {}
    BY Zenon DEF NoChange, PolicyChange, NodeRemoved
  <2>3. Merge(NodeRemoved(f.id), PolicyChange).changed = {}
    BY <2>2 DEF Merge
  <2>4. QED
    BY <1>2, <2>1, <2>3, FewWait, Zenon DEF OneWay
<1>13. CASE f.op = "connect"
  <2> DEFINE up == \E n \in f.node : n.online
             first == <<IF up THEN NodeOnlineFor(f.id, TRUE) ELSE NodeAdded(f.id)>>
             second == IF f.moved THEN <<NodeAdded(f.id)>> ELSE <<>>
  <2>1. changesOf(f) = first \o second \o recompute(f)
    BY <1>13, Zenon DEF changesOf, connectChanges
  <2>2. Waiting(first) /\ Waiting(second)
    BY <1>2, <1>4, <1>5, FewWait, Zenon
  <2> HIDE DEF first, second
  <2>3. QED
    BY <1>5, <2>1, <2>2, JoinWaits, Zenon
<1>14. CASE f.op = "disconnect"
  <2>1. changesOf(f) = <<NodeOnlineFor(f.id, FALSE)>> \o recompute(f)
    BY <1>14 DEF changesOf
  <2>2. Waiting(<<NodeOnlineFor(f.id, FALSE)>>)
    BY <1>4, FewWait, Zenon
  <2>3. QED
    BY <1>5, <2>1, <2>2, JoinWaits, Zenon
<1>15. CASE f.op = "reload"
  <2> DEFINE selfs == selfUpdates(f.selfs)
             last == IF f.moved THEN <<PolicyChange>> ELSE <<>>
  <2>1. changesOf(f) = <<PolicyChange>> \o selfs \o last
    BY <1>15 DEF changesOf
  <2>2. Waiting(selfs)
    <3> DEFINE at(k) == CHOOSE i \in f.selfs : Cardinality({j \in f.selfs : j <= i}) = k
               T == {SelfUpdate(at(k)) : k \in 1..Cardinality(f.selfs)}
    <3>1. Cardinality(f.selfs) \in Nat
      BY FS_CardinalityType
    <3>2. selfs = [k \in 1..Cardinality(f.selfs) |-> SelfUpdate(at(k))]
      BY DEF selfUpdates
    <3> HIDE DEF at, selfs
    <3>3. selfs \in [1..Cardinality(f.selfs) -> T]
      BY <3>2
    <3>4. selfs \in Seq(T)
      BY <3>1, <3>3
    <3>5. selfs \in Seq(Items(selfs)) /\ Items(selfs) \subseteq T
      BY <3>4, OwnItems, Zenon
    <3>6. \A c \in T : OneWay(c)
      BY <1>2
    <3>7. QED
      BY <3>5, <3>6 DEF Waiting
  <2>3. Waiting(last)
    BY <1>5
  <2> HIDE DEF selfs, last
  <2>4. QED
    BY <1>5, <2>1, <2>2, <2>3, JoinWaits
<1>16. CASE f.op \in {"user", "derp", "records"}
  <2>1. changesOf(f) \in {<<FullUpdate>>, <<DERPMap>>, <<ExtraRecords>>}
    BY <1>16, Zenon DEF changesOf, UserRemoved
  <2>2. QED
    BY <1>1, <2>1, FewWait, Zenon
<1>17. QED
  BY <1>6, <1>7, <1>8, <1>9, <1>10, <1>11, <1>12, <1>13, <1>14, <1>15, <1>16 DEF Operations

\* A response removes none of the peers it carries; one that lists all peers
\* removes nothing, or, when there is none, everything that was sent.
LEMMA ResponseFacts ==
  ASSUME NEW v, NEW c, OneWay(c), NEW x \in generateMapResponse(v, c)
  PROVE  \/ x.peers = {} /\ DOMAIN x.changed \cap x.removed = {}
         \/ x.peers = {NoPeers} /\ DOMAIN x.changed = {} /\ x.removed = sent[v]
         \/ /\ \E f : x.peers = {f} /\ f # NoPeers
            /\ DOMAIN x.changed = {} /\ x.removed = {}
<1>1. DOMAIN NoPeers = {}
  BY DEF NoPeers
<1>2. \A J : DOMAIN buildTailPeers(v, J) \subseteq J
  BY DEF buildTailPeers
<1>3. CASE x = selfMapResponse(v)
  <2>1. x.peers = {} /\ x.changed = NoPeers
    BY <1>3 DEF selfMapResponse, NoResponse
  <2>2. QED
    BY <1>1, <2>1
<1>4. ASSUME NEW own, x = policyChangeResponse(v, own)
      PROVE  x.peers = {} /\ DOMAIN x.changed \cap x.removed = {}
  <2>1. x.peers = {} /\ x.changed = buildTailPeers(v, Peers(v)) /\ x.removed = sent[v] \ Peers(v)
    BY <1>4, Zenon DEF policyChangeResponse, NoResponse, computePeerDiff
  <2>2. QED
    BY <1>2, <2>1
<1>5. CASE x = clearsPeers(v, buildFromChange(v, c))
  <2> DEFINE r == buildFromChange(v, c)
  <2>1. CASE ~c.all
    <3>1. r.peers = {} /\ r.changed = buildTailPeers(v, ListPeers(v, c.changed)) /\ r.removed = c.removed
      BY <2>1, Zenon DEF buildFromChange, Opt
    <3>2. DOMAIN r.changed \subseteq c.changed
      BY <1>2, <3>1, Zenon DEF ListPeers
    <3>3. DOMAIN r.changed \cap r.removed = {}
      BY <3>1, <3>2, Zenon DEF OneWay
    <3>4. x = r
      BY <1>5, <3>1, Zenon DEF clearsPeers
    <3>5. QED
      BY <3>1, <3>3, <3>4, Zenon
  <2>2. CASE c.all
    <3>1. r.peers = {buildTailPeers(v, Peers(v))} /\ r.changed = NoPeers /\ r.removed = {}
      BY <2>2, Zenon DEF buildFromChange, Opt
    <3>2. DOMAIN r = {"node", "derpMap", "dns", "filter", "peers", "changed", "removed", "patches"}
      BY DEF buildFromChange
    <3>3. x = IF r.peers # {NoPeers} THEN r ELSE [r EXCEPT !.removed = sent[v] \ {}]
      BY <1>5, Zenon DEF clearsPeers, computePeerDiff
    <3> HIDE DEF r
    <3>4. CASE buildTailPeers(v, Peers(v)) = NoPeers
      <4>1. x.removed = sent[v] /\ x.peers = r.peers /\ x.changed = r.changed
        BY <3>1, <3>2, <3>3, <3>4, Zenon
      <4>2. QED
        BY <1>1, <3>1, <3>4, <4>1, Zenon
    <3>5. CASE buildTailPeers(v, Peers(v)) # NoPeers
      <4>1. x = r
        BY <3>1, <3>3, <3>5, Zenon
      <4>2. QED
        BY <1>1, <3>1, <3>5, <4>1, Zenon
    <3>6. QED
      BY <3>4, <3>5, Zenon
  <2>3. QED
    BY <2>1, <2>2, Zenon
<1>6. QED
  BY <1>3, <1>4, <1>5, Zenon DEF generateMapResponse

\* The server, which adds and then removes, and the client, which removes and
\* then adds, end up with the same peers.
LEMMA SidesAgree ==
  ASSUME NEW v, NEW c, OneWay(c), NEW x \in generateMapResponse(v, c), NEW f, sent[v] = DOMAIN f
  PROVE  updateSentPeers(sent[v], x) = DOMAIN updatePeers(f, x)
<1> DEFINE base == IF x.peers \in {{}, {NoPeers}} THEN f ELSE OrElse(x.peers, f)
<1>1. DOMAIN updatePeers(f, x) = (DOMAIN base \ x.removed) \cup DOMAIN x.changed
  BY DEF updatePeers
<1> HIDE DEF base
<1>2. CASE x.peers = {} /\ DOMAIN x.changed \cap x.removed = {}
  <2>1. base = f
    BY <1>2, Zenon DEF base
  <2>2. QED
    BY <1>1, <1>2, <2>1, Zenon DEF updateSentPeers
<1>3. CASE x.peers = {NoPeers} /\ DOMAIN x.changed = {} /\ x.removed = sent[v]
  <2>1. base = f /\ DOMAIN NoPeers = {}
    BY <1>3, Zenon DEF base, NoPeers
  <2>2. updateSentPeers(sent[v], x) = {}
    BY <1>3, <2>1, Zenon DEF updateSentPeers
  <2>3. QED
    BY <1>1, <1>3, <2>1, <2>2, Zenon
<1>4. ASSUME NEW g, x.peers = {g}, g # NoPeers, DOMAIN x.changed = {}, x.removed = {}
      PROVE  updateSentPeers(sent[v], x) = DOMAIN updatePeers(f, x)
  <2>1. base = g
    BY <1>4 DEF base, OrElse
  <2>2. updateSentPeers(sent[v], x) = DOMAIN g
    BY <1>4, Zenon DEF updateSentPeers
  <2>3. QED
    BY <1>1, <1>4, <2>1, <2>2, Zenon
<1>5. QED
  BY <1>2, <1>3, <1>4, ResponseFacts, Zenon

-----------------------------------------------------------------------------
(* Steps.                                                                   *)

\* What waits and what was sent are left alone.
LEMMA OutKept ==
  ASSUME QueueInv, ListInv, UNCHANGED out
  PROVE  QueueInv' /\ ListInv'
<1>1. UNCHANGED <<conns, queue, bundle, client, sent>>
  BY DEF out
<1>2. QED
  BY <1>1, ZenonT(30) DEF QueueInv, ListInv, Waiting, Items

\* A caller moves on.
LEMMA CallMoves ==
  ASSUME CallInv, NEW c \in Callers, NEW f, f = Idle \/ IsFrame(f), Go(c, f)
  PROVE  CallInv'
<1>1. DOMAIN call' = Callers /\ \A d \in Callers : call'[d] = IF d = c THEN f ELSE call[d]
  BY DEF CallInv, Go
<1>2. QED
  BY <1>1 DEF CallInv

\* A new frame, and what may be filled in.
LEMMA NewFrame ==
  ASSUME NEW op \in Operations, NEW i
  PROVE  /\ IsFrame(Frame(op, i)) /\ DOMAIN Frame(op, i) = Fields
         /\ Frame(op, i).op = op /\ Frame(op, i).selfs = {}
BY Zenon DEF IsFrame, Frame, Fields

\* The names of the fields.
LEMMA FieldNames ==
  Fields = {"pc", "op", "id", "node", "delta", "auto", "prev", "list", "moved", "selfs", "rows"}
BY DEF Fields, Frame

\* A frame that changes neither its operation nor its nodes and does not go to
\* the policy manager.
LEMMA FrameLike ==
  ASSUME NEW f, NEW g, IsFrame(f), DOMAIN g = DOMAIN f, g.op = f.op, g.selfs = f.selfs, g.pc # "set"
  PROVE  IsFrame(g)
BY DEF IsFrame

\* A caller that is somewhere has a frame.
LEMMA AtFrame ==
  ASSUME CallInv, NEW c \in Callers, NEW pc, pc # "idle", At(c, pc)
  PROVE  IsFrame(call[c]) /\ call[c].pc = pc
<1>1. Idle.pc = "idle" /\ call[c].pc = pc
  BY DEF Idle, At
<1>2. call[c] # Idle
  BY <1>1
<1>3. QED
  BY <1>1, <1>2 DEF CallInv

\* A write of the store that adds no node.
LEMMA WriteKeeps ==
  ASSUME StoreInv, NEW new, DOMAIN new \subseteq DOMAIN store, storeWrite(new), UNCHANGED pm
  PROVE  StoreInv'
<1>1. store' = new
  BY DEF storeWrite
<1>2. QED
  BY <1>1 DEF StoreInv

\* UpdateNode is one.
LEMMA UpdateKeeps ==
  ASSUME StoreInv, NEW i, NEW n, UpdateNode(i, n), UNCHANGED pm
  PROVE  StoreInv'
<1> DEFINE new == [store EXCEPT ![i] = IF n.name = @.name THEN n
                                       ELSE [n EXCEPT !.name = resolveGivenName(store, i, n.name)]]
<1>1. DOMAIN new = DOMAIN store
  OBVIOUS
<1>2. storeWrite(new)
  BY DEF UpdateNode
<1> HIDE DEF new
<1>3. QED
  BY <1>1, <1>2, WriteKeeps, Zenon

\* The nodes of the policy manager, before and after.
LEMMA InstalledKeeps ==
  ASSUME StoreInv, NEW new, DOMAIN new = DOMAIN pm, DOMAIN new.nodes \subseteq NodeIDs,
         new.changed = pm.changed, pm' = installed(new), UNCHANGED store
  PROVE  StoreInv'
<1>1. capsMoved(pm, new) \subseteq NodeIDs
  BY DEF capsMoved, StoreInv
<1>2. /\ DOMAIN pm' = DOMAIN pm /\ pm'.nodes = new.nodes
      /\ pm'.changed = new.changed \cup capsMoved(pm, new)
  BY DEF installed, StoreInv
<1>3. QED
  BY <1>1, <1>2, Zenon DEF StoreInv

\* A request that writes a node.
LEMMA WritingSteps ==
  ASSUME NetInv, NEW c \in Callers,
         MapRequest(c) \/ Command(c) \/ DeleteNode(c) \/ Connect(c) \/ Disconnect(c)
  PROVE  NetInv'
<1>1. CallInv /\ StoreInv /\ QueueInv /\ ListInv
  BY Zenon DEF NetInv
<1>2. UNCHANGED out /\ UNCHANGED pm
  BY Zenon DEF MapRequest, Command, DeleteNode, Connect, Disconnect
<1>3. QueueInv' /\ ListInv'
  BY <1>1, <1>2, OutKept, Zenon
<1>4. CASE MapRequest(c)
  <2>1. PICK req \in MapRequests : \E n, d, auto :
          /\ UpdateNode(req.id, fromMapRequest(n, d))
          /\ Go(c, [Frame("map", req.id) EXCEPT !.node = {store'[req.id]}, !.delta = {d}, !.auto = auto,
                       !.prev = {prim}, !.pc = IF auto # {} THEN "approve" ELSE "diff"])
    BY <1>4, ZenonT(30) DEF MapRequest
  <2>2. PICK n, d, auto :
          /\ UpdateNode(req.id, fromMapRequest(n, d))
          /\ Go(c, [Frame("map", req.id) EXCEPT !.node = {store'[req.id]}, !.delta = {d}, !.auto = auto,
                       !.prev = {prim}, !.pc = IF auto # {} THEN "approve" ELSE "diff"])
    BY <2>1, Zenon
  <2> DEFINE g == [Frame("map", req.id) EXCEPT !.node = {store'[req.id]}, !.delta = {d}, !.auto = auto,
                     !.prev = {prim}, !.pc = IF auto # {} THEN "approve" ELSE "diff"]
  <2>3. /\ DOMAIN g = Fields /\ g.op = "map" /\ g.selfs = {} /\ g.pc # "set"
    BY DEF Frame, Fields
  <2> HIDE DEF g
  <2>4. IsFrame(g)
    BY <2>3 DEF IsFrame, Operations
  <2>5. CallInv'
    BY <1>1, <2>2, <2>4, CallMoves, Zenon DEF g
  <2>6. StoreInv'
    BY <1>1, <1>2, <2>2, UpdateKeeps, Zenon
  <2>7. QED
    BY <1>3, <2>5, <2>6, Zenon DEF NetInv
<1>5. CASE Command(c)
  <2>1. PICK m \in Commands :
          /\ m.op \in {"approve", "expiry", "tags", "rename", "relogin"}
          /\ \E w : UpdateNode(m.id, w)
          /\ Go(c, [Frame(m.op, m.id) EXCEPT !.moved = store[m.id].online # store'[m.id].online,
                      !.node = {store'[m.id]}])
    BY <1>5, Zenon DEF Command
  <2> DEFINE g == [Frame(m.op, m.id) EXCEPT !.moved = store[m.id].online # store'[m.id].online,
                      !.node = {store'[m.id]}]
  <2>2. /\ DOMAIN g = Fields /\ g.op = m.op /\ g.selfs = {} /\ g.pc # "set"
    BY DEF Frame, Fields
  <2> HIDE DEF g
  <2>3. IsFrame(g)
    BY <2>1, <2>2 DEF IsFrame, Operations
  <2>4. CallInv'
    BY <1>1, <2>1, <2>3, CallMoves, Zenon DEF g
  <2>5. StoreInv'
    BY <1>1, <1>2, <2>1, UpdateKeeps, Zenon
  <2>6. QED
    BY <1>3, <2>4, <2>5 DEF NetInv
<1>6. CASE DeleteNode(c)
  <2>1. PICK m \in Commands : /\ removeNode(m.id)
                              /\ Go(c, [Frame("delete", m.id) EXCEPT !.pc = "list"])
    BY <1>6, Zenon DEF DeleteNode
  <2> DEFINE g == [Frame("delete", m.id) EXCEPT !.pc = "list"]
  <2>2. DOMAIN g = Fields /\ g.op = "delete" /\ g.selfs = {} /\ g.pc # "set"
    BY DEF Frame, Fields
  <2> HIDE DEF g
  <2>3. IsFrame(g)
    BY <2>2 DEF IsFrame, Operations
  <2>4. CallInv'
    BY <1>1, <2>1, <2>3, CallMoves DEF g
  <2>5. StoreInv'
    <3> DEFINE new == [j \in DOMAIN store \ {m.id} |-> store[j]]
    <3>1. DOMAIN new \subseteq DOMAIN store /\ storeWrite(new)
      BY <2>1, Zenon DEF removeNode
    <3> HIDE DEF new
    <3>2. QED
      BY <1>1, <1>2, <3>1, WriteKeeps
  <2>6. QED
    BY <1>3, <2>4, <2>5 DEF NetInv
<1>7. CASE Connect(c)
  <2>1. PICK m \in Commands :
          /\ \E w : UpdateNode(m.id, w)
          /\ Go(c, [Frame("connect", m.id) EXCEPT !.node = {store'[m.id]}, !.prev = {prim}, !.pc = "routes"])
    BY <1>7, Zenon DEF Connect
  <2> DEFINE g == [Frame("connect", m.id) EXCEPT !.node = {store'[m.id]}, !.prev = {prim}, !.pc = "routes"]
  <2>2. DOMAIN g = Fields /\ g.op = "connect" /\ g.selfs = {} /\ g.pc # "set"
    BY DEF Frame, Fields
  <2> HIDE DEF g
  <2>3. IsFrame(g)
    BY <2>2 DEF IsFrame, Operations
  <2>4. CallInv'
    BY <1>1, <2>1, <2>3, CallMoves, Zenon DEF g
  <2>5. StoreInv'
    BY <1>1, <1>2, <2>1, UpdateKeeps, Zenon
  <2>6. QED
    BY <1>3, <2>4, <2>5 DEF NetInv
<1>8. CASE Disconnect(c)
  <2>1. PICK m \in Commands : \E last :
          /\ \E w : UpdateNode(m.id, w)
          /\ Go(c, IF last THEN [Frame("disconnect", m.id) EXCEPT !.node = {store'[m.id]}, !.pc = "publish"]
                   ELSE Idle)
    BY <1>8, Zenon DEF Disconnect
  <2> DEFINE g == [Frame("disconnect", m.id) EXCEPT !.node = {store'[m.id]}, !.pc = "publish"]
  <2>2. DOMAIN g = Fields /\ g.op = "disconnect" /\ g.selfs = {} /\ g.pc # "set"
    BY DEF Frame, Fields
  <2> HIDE DEF g
  <2>3. IsFrame(g)
    BY <2>2 DEF IsFrame, Operations
  <2>4. Go(c, g) \/ Go(c, Idle)
    BY <2>1 DEF g
  <2>5. CallInv'
    BY <1>1, <2>3, <2>4, CallMoves, Zenon
  <2>6. StoreInv'
    BY <1>1, <1>2, <2>1, UpdateKeeps, Zenon
  <2>7. QED
    BY <1>3, <2>5, <2>6 DEF NetInv
<1>9. QED
  BY <1>4, <1>5, <1>6, <1>7, <1>8, Zenon

\* The steps between the write and the hand-over that leave store and policy
\* manager alone.
LEMMA ReadingSteps ==
  ASSUME NetInv, NEW c \in Callers,
         DiffRoutes(c) \/ RoutesOfSession(c) \/ persistNode(c) \/ ListNodes(c) \/ RebuildPeerMaps(c)
  PROVE  NetInv'
<1>1. CallInv /\ StoreInv /\ QueueInv /\ ListInv
  BY DEF NetInv
<1>2. UNCHANGED <<store, pm, out>>
  BY Zenon DEF DiffRoutes, RoutesOfSession, persistNode, ListNodes, RebuildPeerMaps, srv
<1>3. QueueInv' /\ ListInv' /\ StoreInv'
  BY <1>1, <1>2, OutKept, Zenon DEF StoreInv
<1> DEFINE f == call[c]
<1>4. IsFrame(f) /\ DOMAIN f = Fields
  <2>1. At(c, "diff") \/ At(c, "routes") \/ At(c, "persist") \/ At(c, "list") \/ At(c, "rebuild")
    BY Zenon DEF DiffRoutes, RoutesOfSession, persistNode, ListNodes, RebuildPeerMaps
  <2>2. QED
    BY <1>1, <2>1, AtFrame, Zenon DEF IsFrame
<1>5. CASE DiffRoutes(c)
  <2> DEFINE g == [f EXCEPT !.moved = f.prev # {prim}, !.prev = {},
                            !.pc = IF \A d \in f.delta : d.persist THEN "persist" ELSE "publish"]
  <2>1. Go(c, g)
    BY <1>5 DEF DiffRoutes
  <2>2. DOMAIN g = DOMAIN f /\ g.op = f.op /\ g.selfs = f.selfs /\ g.pc # "set"
    BY <1>4, FieldNames, Zenon
  <2> HIDE DEF g
  <2>3. QED
    BY <1>1, <1>3, <1>4, <2>1, <2>2, FrameLike, CallMoves, Zenon DEF NetInv
<1>6. CASE RoutesOfSession(c)
  <2> DEFINE g == [f EXCEPT !.moved = f.prev # {prim}, !.prev = {}, !.pc = "publish"]
  <2>1. Go(c, g)
    BY <1>6 DEF RoutesOfSession
  <2>2. DOMAIN g = DOMAIN f /\ g.op = f.op /\ g.selfs = f.selfs /\ g.pc # "set"
    BY <1>4, FieldNames, Zenon
  <2> HIDE DEF g
  <2>3. QED
    BY <1>1, <1>3, <1>4, <2>1, <2>2, FrameLike, CallMoves DEF NetInv
<1>7. CASE persistNode(c)
  <2>1. PICK rereads, gone, refresh : Go(c, IF rereads /\ gone THEN Idle
              ELSE [f EXCEPT !.node = IF rereads THEN {store[f.id]} ELSE @,
                             !.pc = IF refresh THEN "list" ELSE "publish"])
    BY <1>7, Zenon DEF persistNode
  <2> DEFINE g == [f EXCEPT !.node = IF rereads THEN {store[f.id]} ELSE @,
                            !.pc = IF refresh THEN "list" ELSE "publish"]
  <2>2. DOMAIN g = DOMAIN f /\ g.op = f.op /\ g.selfs = f.selfs /\ g.pc # "set"
    BY <1>4, FieldNames
  <2> HIDE DEF g
  <2>3. Go(c, g) \/ Go(c, Idle)
    BY <2>1 DEF g
  <2>4. QED
    BY <1>1, <1>3, <1>4, <2>2, <2>3, FrameLike, CallMoves, Zenon DEF NetInv
<1>8. CASE ListNodes(c)
  <2> DEFINE g == [f EXCEPT !.list = {PeerInputs(store)}, !.pc = "set"]
  <2>1. Go(c, g)
    BY <1>8 DEF ListNodes
  <2>2. DOMAIN g = DOMAIN f /\ g.op = f.op /\ g.selfs = f.selfs /\ g.list = {PeerInputs(store)}
    BY <1>4, FieldNames, Zenon
  <2>3. DOMAIN PeerInputs(store) \subseteq NodeIDs
    BY <1>1, Zenon DEF PeerInputs, StoreInv
  <2> HIDE DEF g
  <2>4. IsFrame(g)
    BY <1>4, <2>2, <2>3, Zenon DEF IsFrame
  <2>5. QED
    BY <1>1, <1>3, <2>1, <2>4, CallMoves, Zenon DEF NetInv
<1>9. CASE RebuildPeerMaps(c)
  <2>1. PICK pc \in {"drain", "publish"} : Go(c, [f EXCEPT !.pc = pc])
    BY <1>9 DEF RebuildPeerMaps, Step
  <2> DEFINE g == [f EXCEPT !.pc = pc]
  <2>2. DOMAIN g = DOMAIN f /\ g.op = f.op /\ g.selfs = f.selfs /\ g.pc # "set"
    BY <1>4, <2>1, FieldNames, Zenon
  <2>3. Go(c, g)
    BY <2>1
  <2> HIDE DEF g
  <2>4. QED
    BY <1>1, <1>3, <1>4, <2>2, <2>3, FrameLike, CallMoves, Zenon DEF NetInv
<1>10. QED
  BY <1>5, <1>6, <1>7, <1>8, <1>9

\* The steps of an approval by the policy that leave store and policy manager
\* alone, and the failures of a row.
LEMMA RowSteps ==
  ASSUME NetInv, NEW c \in Callers,
         autoApproveNodes(c) \/ NextRow(c) \/ PersistRow(c) \/ SaveFails(c)
  PROVE  NetInv'
<1>1. CallInv /\ StoreInv /\ QueueInv /\ ListInv
  BY Zenon DEF NetInv
<1>2. UNCHANGED <<store, pm, out>>
  BY Zenon DEF autoApproveNodes, NextRow, PersistRow, SaveFails, srv
<1>3. QueueInv' /\ ListInv' /\ StoreInv'
  BY <1>1, <1>2, OutKept, Zenon DEF StoreInv
<1> DEFINE f == call[c]
<1>4. IsFrame(f) /\ DOMAIN f = Fields
  <2>1. At(c, "auto") \/ At(c, "rows") \/ At(c, "row") \/ At(c, "persist")
    BY Zenon DEF autoApproveNodes, NextRow, PersistRow, SaveFails
  <2>2. QED
    BY <1>1, <2>1, AtFrame, Zenon DEF IsFrame
<1>5. ASSUME NEW g, Go(c, g), g = Idle \/ IsFrame(g) PROVE NetInv'
  BY <1>1, <1>3, <1>5, CallMoves, Zenon DEF NetInv
<1>6. CASE autoApproveNodes(c)
  <2>1. PICK rows : Go(c, [f EXCEPT !.rows = rows, !.pc = IF rows = NoPeers THEN "publish" ELSE "batch"])
    BY <1>6, Zenon DEF autoApproveNodes
  <2> DEFINE g == [f EXCEPT !.rows = rows, !.pc = IF rows = NoPeers THEN "publish" ELSE "batch"]
  <2>2. DOMAIN g = DOMAIN f /\ g.op = f.op /\ g.selfs = f.selfs /\ g.pc # "set"
    BY <1>4, FieldNames, Zenon
  <2>3. Go(c, g)
    BY <2>1
  <2> HIDE DEF g
  <2>4. QED
    BY <1>4, <1>5, <2>2, <2>3, FrameLike, Zenon
<1>7. CASE NextRow(c)
  <2>1. CASE Go(c, [f EXCEPT !.pc = "list"])
    <3> DEFINE g == [f EXCEPT !.pc = "list"]
    <3>1. DOMAIN g = DOMAIN f /\ g.op = f.op /\ g.selfs = f.selfs /\ g.pc # "set"
      BY <1>4, FieldNames, Zenon
    <3>2. Go(c, g)
      BY <2>1
    <3> HIDE DEF g
    <3>3. QED
      BY <1>4, <1>5, <3>1, <3>2, FrameLike, Zenon
  <2>2. ASSUME NEW rows, NEW node, NEW pc \in {"row", "rows"},
               Go(c, [f EXCEPT !.rows = rows, !.node = node, !.pc = pc])
        PROVE  NetInv'
    <3> DEFINE g == [f EXCEPT !.rows = rows, !.node = node, !.pc = pc]
    <3>1. DOMAIN g = DOMAIN f /\ g.op = f.op /\ g.selfs = f.selfs /\ g.pc # "set"
      BY <1>4, <2>2, FieldNames, Zenon
    <3>2. Go(c, g)
      BY <2>2
    <3> HIDE DEF g
    <3>3. QED
      BY <1>4, <1>5, <3>1, <3>2, FrameLike, Zenon
  <2>3. Go(c, [f EXCEPT !.pc = "list"]) \/
        \E i \in DOMAIN f.rows :
          Go(c, [f EXCEPT !.rows = [j \in DOMAIN f.rows \ {i} |-> f.rows[j]], !.node = {i},
                          !.pc = IF i \in DOMAIN store THEN "row" ELSE "rows"])
    BY <1>7, Zenon DEF NextRow, Step
  <2>4. QED
    BY <2>1, <2>2, <2>3, Zenon
<1>8. CASE PersistRow(c)
  <2> DEFINE g == [f EXCEPT !.pc = "rows"]
  <2>1. DOMAIN g = DOMAIN f /\ g.op = f.op /\ g.selfs = f.selfs /\ g.pc # "set"
    BY <1>4, FieldNames, Zenon
  <2>2. Go(c, g) \/ Go(c, Idle)
    BY <1>8 DEF PersistRow
  <2> HIDE DEF g
  <2>3. QED
    BY <1>4, <1>5, <2>1, <2>2, FrameLike, Zenon
<1>9. CASE SaveFails(c)
  BY <1>5, <1>9, Zenon DEF SaveFails
<1>10. QED
  BY <1>6, <1>7, <1>8, <1>9, Zenon

\* The steps that approve routes or move the policy manager.
LEMMA PolicySteps ==
  ASSUME NetInv, NEW c \in Callers,
         \/ ApproveFromMapRequest(c) \/ SetNodes(c) \/ ReloadPolicy(c) \/ NodesWithChangedCapMap(c)
         \/ UpdateNodes(c) \/ Announce(c)
  PROVE  NetInv'
<1>1. CallInv /\ StoreInv /\ QueueInv /\ ListInv
  BY Zenon DEF NetInv
<1>2. UNCHANGED out
  BY Zenon DEF ApproveFromMapRequest, SetNodes, ReloadPolicy, NodesWithChangedCapMap, UpdateNodes, Announce
<1>3. QueueInv' /\ ListInv'
  BY <1>1, <1>2, OutKept
<1> DEFINE f == call[c]
<1>4. CASE ApproveFromMapRequest(c)
  <2>1. CASE UpdateNode(f.id, DropStaleHealth([store[f.id] EXCEPT !.approved = OrElse(f.auto, {})]))
             /\ Go(c, Frame("approve", f.id))
    <3>1. IsFrame(Frame("approve", f.id))
      BY NewFrame DEF Operations
    <3>2. StoreInv' /\ CallInv'
      BY <1>1, <1>4, <2>1, <3>1, UpdateKeeps, CallMoves, Zenon DEF ApproveFromMapRequest
    <3>3. QED
      BY <1>3, <3>2 DEF NetInv
  <2>2. CASE Go(c, Idle) /\ UNCHANGED store
    <3>1. StoreInv' /\ CallInv'
      BY <1>1, <1>4, <2>2, CallMoves, Zenon DEF ApproveFromMapRequest, StoreInv
    <3>2. QED
      BY <1>3, <3>1 DEF NetInv
  <2>3. QED
    BY <1>4, <2>1, <2>2 DEF ApproveFromMapRequest
<1>5. CASE SetNodes(c)
  <2> DEFINE nodes == OrElse(f.list, pm.nodes)
             g == [f EXCEPT !.list = Opt(nodes # pm.nodes, "moved"),
                            !.pc = IF nodes # pm.nodes THEN "rebuild" ELSE "publish"]
             new == [pm EXCEPT !.nodes = nodes]
  <2>1. IsFrame(f) /\ f.pc = "set" /\ DOMAIN f = Fields
    BY <1>1, <1>5, AtFrame DEF SetNodes, IsFrame
  <2>2. pm' = installed(new) /\ Go(c, g) /\ UNCHANGED store
    BY <1>5, Zenon DEF SetNodes
  <2>3. DOMAIN nodes \subseteq NodeIDs
    BY <1>1, <2>1 DEF OrElse, IsFrame, StoreInv
  <2> HIDE DEF nodes
  <2>4. DOMAIN new = DOMAIN pm /\ new.nodes = nodes /\ new.changed = pm.changed
    BY <1>1 DEF StoreInv
  <2>5. DOMAIN g = DOMAIN f /\ g.op = f.op /\ g.selfs = f.selfs /\ g.pc # "set"
    BY <2>1, FieldNames, Zenon
  <2> HIDE DEF g, new
  <2>6. StoreInv'
    BY <1>1, <2>2, <2>3, <2>4, InstalledKeeps, Zenon
  <2>7. CallInv'
    BY <1>1, <2>1, <2>2, <2>5, FrameLike, CallMoves, Zenon
  <2>8. QED
    BY <1>3, <2>6, <2>7, Zenon DEF NetInv
<1>6. CASE ReloadPolicy(c)
  <2>1. PICK m \in Commands : /\ pm' = installed([pm EXCEPT !.pol = m.arg])
                              /\ Go(c, [Frame("reload", 0) EXCEPT !.pc = "rebuild"])
                              /\ UNCHANGED store
    BY <1>6, Zenon DEF ReloadPolicy
  <2> DEFINE g == [Frame("reload", 0) EXCEPT !.pc = "rebuild"]
             new == [pm EXCEPT !.pol = m.arg]
  <2>2. DOMAIN g = Fields /\ g.op = "reload" /\ g.selfs = {} /\ g.pc # "set"
    BY DEF Frame, Fields
  <2>3. DOMAIN new = DOMAIN pm /\ new.nodes = pm.nodes /\ new.changed = pm.changed
    BY <1>1 DEF StoreInv
  <2>4. DOMAIN new.nodes \subseteq NodeIDs
    BY <1>1, <2>3 DEF StoreInv
  <2>5. pm' = installed(new) /\ Go(c, g)
    BY <2>1
  <2> HIDE DEF g, new
  <2>6. IsFrame(g)
    BY <2>2 DEF IsFrame, Operations
  <2>7. StoreInv' /\ CallInv'
    BY <1>1, <2>1, <2>3, <2>4, <2>5, <2>6, InstalledKeeps, CallMoves, Zenon
  <2>8. QED
    BY <1>3, <2>7 DEF NetInv
<1>7. CASE NodesWithChangedCapMap(c)
  <2> DEFINE g == [f EXCEPT !.selfs = pm.changed, !.pc = "auto"]
  <2>1. IsFrame(f) /\ DOMAIN f = Fields
    BY <1>1, <1>7, AtFrame DEF NodesWithChangedCapMap, IsFrame
  <2>2. pm' = [pm EXCEPT !.changed = {}] /\ Go(c, g) /\ UNCHANGED store
    BY <1>7 DEF NodesWithChangedCapMap
  <2>3. DOMAIN g = DOMAIN f /\ g.op = f.op /\ g.selfs = pm.changed /\ g.pc # "set"
    BY <2>1, FieldNames
  <2> HIDE DEF g
  <2>4. IsFrame(g)
    BY <1>1, <2>1, <2>3 DEF IsFrame, StoreInv
  <2>5. StoreInv'
    BY <1>1, <2>2, Zenon DEF StoreInv
  <2>6. QED
    BY <1>1, <1>3, <2>2, <2>4, <2>5, CallMoves DEF NetInv
<1>8. CASE UpdateNodes(c)
  <2> DEFINE new == [i \in DOMAIN store |->
                IF i \in DOMAIN f.rows THEN DropStaleHealth([store[i] EXCEPT !.approved = f.rows[i]])
                ELSE store[i]]
             g == [f EXCEPT !.moved = TRUE, !.pc = "rows"]
  <2>1. IsFrame(f) /\ DOMAIN f = Fields
    BY <1>1, <1>8, AtFrame DEF UpdateNodes, IsFrame
  <2>2. storeWrite(new) /\ Go(c, g) /\ UNCHANGED pm
    BY <1>8 DEF UpdateNodes
  <2>3. DOMAIN new = DOMAIN store
    OBVIOUS
  <2> HIDE DEF new
  <2>4. DOMAIN g = DOMAIN f /\ g.op = f.op /\ g.selfs = f.selfs /\ g.pc # "set"
    BY <2>1, FieldNames, Zenon
  <2> HIDE DEF g
  <2>5. StoreInv'
    BY <1>1, <2>2, <2>3, WriteKeeps, Zenon
  <2>6. CallInv'
    BY <1>1, <2>1, <2>2, <2>4, FrameLike, CallMoves, Zenon
  <2>7. QED
    BY <1>3, <2>5, <2>6 DEF NetInv
<1>9. CASE Announce(c)
  <2>1. PICK m \in Commands : /\ m.op \in {"user", "derp", "records"}
                              /\ Go(c, [Frame(m.op, 0) EXCEPT !.pc = "publish"])
                              /\ UNCHANGED <<store, pm>>
    BY <1>9, Zenon DEF Announce
  <2> DEFINE g == [Frame(m.op, 0) EXCEPT !.pc = "publish"]
  <2>2. DOMAIN g = Fields /\ g.op = m.op /\ g.selfs = {} /\ g.pc # "set"
    BY DEF Frame, Fields
  <2>3. Go(c, g)
    BY <2>1
  <2> HIDE DEF g
  <2>4. IsFrame(g)
    BY <2>1, <2>2 DEF IsFrame, Operations
  <2>5. CallInv' /\ StoreInv'
    BY <1>1, <2>1, <2>3, <2>4, CallMoves DEF StoreInv
  <2>6. QED
    BY <1>3, <2>5 DEF NetInv
<1>10. QED
  BY <1>4, <1>5, <1>6, <1>7, <1>8, <1>9, Zenon

\* The changes are handed to the batcher.
LEMMA PublishStep ==
  ASSUME NetInv, NEW c \in Callers, Publish(c)
  PROVE  NetInv'
<1> DEFINE f == call[c]
           cs == changesOf(f)
           deleted == UNION {cs[k].deleted : k \in DOMAIN cs}
           full == \E k \in DOMAIN cs : IsFull(cs[k])
           for(v) == Keep(cs, {k \in DOMAIN cs : ShouldSendToNode(cs[k], v) /\ ~IsEmpty(cs[k])})
<1>1. CallInv /\ StoreInv /\ QueueInv /\ ListInv
  BY DEF NetInv
<1>2. IsFrame(f) /\ f.op \in Operations /\ f.selfs \subseteq NodeIDs
  BY <1>1, AtFrame DEF Publish, IsFrame
<1>3. UNCHANGED <<store, pm, bundle, client, sent>> /\ Go(c, Idle)
  BY Zenon DEF Publish, srv
<1>4. /\ conns' = conns \ deleted
      /\ queue' = [v \in Viewers |-> IF v \notin conns' THEN <<>>
                                     ELSE IF full THEN <<FullUpdate>> ELSE queue[v] \o for(v)]
  BY Zenon DEF Publish, addToBatch
<1>5. IsFiniteSet(f.selfs)
  BY <1>2, NodeRoutesAssumption, FS_Subset, Zenon
<1>6. Waiting(cs)
  BY <1>2, <1>5, ChangesOneWay, Zenon
<1> HIDE DEF cs, deleted, full
<1>7. \A v : Waiting(for(v))
  BY <1>6, KeepWaits
<1> HIDE DEF for
<1>8. Waiting(<<>>) /\ Waiting(<<FullUpdate>>)
  <2>1. OneWay(FullUpdate)
    BY DEF OneWay, FullUpdate, NoChange
  <2>2. QED
    BY <2>1, FewWait
<1>9. ASSUME NEW v \in Viewers PROVE Waiting(queue'[v])
  <2>1. Waiting(queue[v] \o for(v))
    BY <1>1, <1>7, JoinWaits DEF QueueInv
  <2>2. queue'[v] \in {<<>>, <<FullUpdate>>, queue[v] \o for(v)}
    BY <1>4
  <2>3. QED
    BY <1>8, <2>1, <2>2, Zenon
<1>10. QueueInv'
  BY <1>1, <1>3, <1>9 DEF QueueInv
<1>11. ListInv'
  BY <1>1, <1>3, <1>4 DEF ListInv
<1>12. CallInv' /\ StoreInv'
  BY <1>1, <1>3, CallMoves, Zenon DEF StoreInv
<1>13. QED
  BY <1>10, <1>11, <1>12 DEF NetInv

\* A tick hands them to a worker.
LEMMA DrainStep ==
  ASSUME NetInv, NEW v \in Viewers, Drain(v)
  PROVE  NetInv'
<1>1. CallInv /\ StoreInv /\ QueueInv /\ ListInv
  BY DEF NetInv
<1>2. /\ bundle' = [bundle EXCEPT ![v] = DedupePolicyChanges(queue[v])]
      /\ queue' = [queue EXCEPT ![v] = <<>>]
      /\ UNCHANGED <<store, pm, call, conns, client, sent>>
  BY Zenon DEF Drain, srv
<1>3. Waiting(DedupePolicyChanges(queue[v]))
  <2> DEFINE kept == {k \in DOMAIN queue[v] : IsBroadcastPolicyChange(queue[v][k])
                              => \A l \in 1..k-1 : ~IsBroadcastPolicyChange(queue[v][l])}
  <2>1. kept \in SUBSET DOMAIN queue[v] /\ Waiting(queue[v])
    BY <1>1, Zenon DEF QueueInv
  <2>2. DedupePolicyChanges(queue[v]) = Keep(queue[v], kept)
    BY Zenon DEF DedupePolicyChanges
  <2> HIDE DEF kept
  <2>3. QED
    BY <2>1, <2>2, KeepWaits, Zenon
<1>4. \A u \in Viewers : /\ queue'[u] = IF u = v THEN <<>> ELSE queue[u]
                         /\ bundle'[u] = IF u = v THEN DedupePolicyChanges(queue[v]) ELSE bundle[u]
  BY <1>1, <1>2, Zenon DEF ListInv
<1>5. QueueInv'
  BY <1>1, <1>3, <1>4, FewWait, Zenon DEF QueueInv
<1>6. ListInv' /\ CallInv' /\ StoreInv'
  BY <1>1, <1>2, Zenon DEF ListInv, CallInv, StoreInv
<1>7. QED
  BY <1>5, <1>6, Zenon DEF NetInv

\* A worker delivers one.
LEMMA DeliverStep ==
  ASSUME NetInv, NEW v \in Viewers, Deliver(v)
  PROVE  NetInv'
<1> DEFINE c == Head(bundle[v])
<1>1. CallInv /\ StoreInv /\ QueueInv /\ ListInv
  BY DEF NetInv
<1>2. /\ bundle[v] # <<>> /\ bundle' = [bundle EXCEPT ![v] = Tail(bundle[v])]
      /\ UNCHANGED <<store, pm, call, conns, queue>>
  BY Zenon DEF Deliver, srv
<1>3. OneWay(c) /\ Waiting(Tail(bundle[v]))
  BY <1>1, <1>2, NextWaits, Zenon DEF QueueInv
<1>4. \A u \in Viewers : bundle'[u] = IF u = v THEN Tail(bundle[v]) ELSE bundle[u]
  BY <1>1, <1>2, Zenon DEF ListInv
<1>5. QueueInv'
  BY <1>1, <1>2, <1>3, <1>4, Zenon DEF QueueInv
<1>6. CallInv' /\ StoreInv'
  BY <1>1, <1>2, Zenon DEF CallInv, StoreInv
<1>7. CASE UNCHANGED <<client, sent>>
  <2>1. ListInv'
    BY <1>1, <1>2, <1>7, Zenon DEF ListInv
  <2>2. QED
    BY <1>5, <1>6, <2>1, Zenon DEF NetInv
<1>8. ASSUME NEW x \in generateMapResponse(v, c),
             client' = [client EXCEPT ![v] = applyResponse(client[v], x)],
             sent' = [sent EXCEPT ![v] = updateSentPeers(sent[v], x)]
      PROVE  NetInv'
  <2> DEFINE f == client[v].peers
  <2>1. sent[v] = DOMAIN f
    BY <1>1, Zenon DEF ListInv
  <2> HIDE DEF f, c
  <2>2. updateSentPeers(sent[v], x) = DOMAIN updatePeers(f, x)
    BY <1>3, <1>8, <2>1, SidesAgree, Zenon
  <2>3. applyResponse(client[v], x).peers = updatePeers(f, x)
    BY Zenon DEF applyResponse, f
  <2>4. \A u \in Viewers : /\ client'[u] = IF u = v THEN applyResponse(client[v], x) ELSE client[u]
                           /\ sent'[u] = IF u = v THEN updateSentPeers(sent[v], x) ELSE sent[u]
    BY <1>1, <1>8, Zenon DEF ListInv
  <2>5. \A u \in Viewers : sent'[u] = DOMAIN client'[u].peers
    BY <1>1, <2>2, <2>3, <2>4, Zenon DEF ListInv
  <2>6. ListInv'
    BY <1>1, <1>2, <1>8, <2>5, Zenon DEF ListInv
  <2>7. QED
    BY <1>5, <1>6, <2>6, Zenon DEF NetInv
<1>9. QED
  BY <1>7, <1>8, Zenon DEF Deliver

\* The invariant holds at the start: every client has its first full map.
LEMMA InitNet ==
  ASSUME Init
  PROVE  NetInv
<1>1. QueueInv
  BY FewWait, Zenon DEF Init, QueueInv
<1>2. CallInv
  BY Zenon DEF Init, CallInv
<1>3. StoreInv
  BY NetmapAssumption, Zenon DEF Init, StoreInv, PeerInputs
<1>4. ListInv
  BY Zenon DEF Init, ListInv
<1>5. QED
  BY <1>1, <1>2, <1>3, <1>4, Zenon DEF NetInv

\* Every step keeps it.
LEMMA NextNet ==
  ASSUME NetInv, [Next]_vars
  PROVE  NetInv'
<1>1. CASE UNCHANGED vars
  <2>1. UNCHANGED <<store, pm, call, out>>
    BY <1>1, Zenon DEF vars, out
  <2>2. CallInv /\ StoreInv /\ QueueInv /\ ListInv
    BY Zenon DEF NetInv
  <2>3. QueueInv' /\ ListInv'
    BY <2>1, <2>2, OutKept, Zenon
  <2>4. CallInv' /\ StoreInv'
    BY <2>1, <2>2, Zenon DEF CallInv, StoreInv
  <2>5. QED
    BY <2>3, <2>4, Zenon DEF NetInv
<1>2. ASSUME NEW c \in Callers, CallerStep(c) PROVE NetInv'
  BY <1>2, WritingSteps, ReadingSteps, RowSteps, PolicySteps, PublishStep, Zenon DEF CallerStep
<1>3. ASSUME NEW v \in Viewers, Drain(v) \/ Deliver(v) PROVE NetInv'
  BY <1>3, DrainStep, DeliverStep, Zenon
<1>4. QED
  BY <1>1, <1>2, <1>3, Zenon DEF Next

\* What the server believes it sent to a client is what the client has, at
\* every moment and whatever is published and delivered in whatever order:
\* updateSentPeers of the batcher follows the client's handling of
\* PeersChanged, PeersRemoved and an empty list of peers.
THEOREM SentFollowsClient == Spec => []SentTracksClient
<1>1. Init => NetInv
  BY InitNet, Zenon
<1>2. NetInv /\ [Next]_vars => NetInv'
  BY NextNet, Zenon
<1>3. NetInv => SentTracksClient
  BY DEF NetInv, ListInv, SentTracksClient
<1>4. QED
  BY <1>1, <1>2, <1>3, PTL DEF Spec
=============================================================================
