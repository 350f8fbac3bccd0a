---------------------------- MODULE BatcherProofs ----------------------------
(***************************************************************************)
(* What Batcher guarantees for any number of peers, connections and        *)
(* changes of any kind.  While a node has one connection at a time         *)
(* (MaxOpen = 1) its stream misses nothing: the theorems about peer lists  *)
(* say so; with overlapping connections they are false, see README.        *)
(***************************************************************************)
EXTENDS Batcher, FiniteSetTheorems, TLAPS

(* A leaf that names no prover is tried with SMT, with Zenon, and with SMT  *)
(* once more.                                                               *)
USE SMT, Zenon, SMTT(60)

Underway == Range(transit) \cup Range(pending) \cup Range(bundle) \cup Range(retry)

\* What is under way besides the change whose response is being sent.
Waiting == Range(transit) \cup Range(pending) \cup Range(Tail(bundle)) \cup Range(retry)

\* Processing ch now would bring the client's knowledge of p up to date.
Covers(ch, p) ==
  \/ ch.kind \in {"policy", "full"}
  \/ ch.kind = "peer" /\ ch.peer = p /\ p \in Visible
  \/ ch.kind = "removed" /\ ch.peer = p /\ p \notin Visible

IsUpdate(f) == DOMAIN f \in SUBSET Peers /\ \A p \in DOMAIN f : f[p] \in {"off", "on"}

IsResponse(r) ==
  /\ r.all \in BOOLEAN
  /\ IsUpdate(r.changed)
  /\ r.removed \in SUBSET Peers
  /\ IsUpdate(r.patch)

\* The order of work: what the bundle and its retries may hold, when.
WorkInv ==
  /\ Len(transit) + Len(pending) + Len(bundle) + Len(retry) <= made
  /\ stage = "idle" => bundle = <<>> /\ retry = <<>>
  /\ stage = "queued" => retry = <<>>
  /\ stage = "send" => bundle # <<>>
  /\ \A ch \in Underway : ch.kind = "removed" => truth[ch.peer] = "deleted"

\* A stream starts with its initial map.
FirstInv ==
  \A c \in Conns :
    /\ first[c] # "delta"
    /\ conn[c] \in {"delivered", "recorded", "ready"} => first[c] = "initial"

Mapped == {c \in Conns : conn[c] \in {"generated", "delivered", "recorded", "ready"}}

Recorded == {c \in Conns : conn[c] \in {"recorded", "ready"}}

\* What the client knows, or will know from the initial map on its way.
Believed(c) == IF conn[c] = "generated" THEN DOMAIN initial[c].changed ELSE Knows(c)

\* One connection at a time; its client knows nobody before its initial map.
OneClient ==
  /\ \A c, d \in Registered : c = d
  /\ \A c \in Conns : conn[c] \in {"new", "waiting", "generated"} => view[c] = Nobody

\* The initial map replaces everything.
InitialInv ==
  \A c \in Conns : conn[c] \in {"generated", "delivered"}
    => /\ IsResponse(initial[c]) /\ initial[c].all
       /\ initial[c].removed \cap DOMAIN initial[c].changed = {}

\* lastSentPeers is what the only client has, as soon as it is recorded.
SentInv ==
  /\ \A c \in Conns : conn[c] = "delivered" => Knows(c) = DOMAIN initial[c].changed
  /\ \A c \in Recorded : lastSent = Knows(c)

\* A response that replaces the list by an empty one removes what was sent.
SendInv ==
  stage = "send" => /\ IsResponse(resp)
                    /\ resp.all /\ DOMAIN resp.changed = {} => lastSent \subseteq resp.removed

ClientInv == OneClient /\ InitialInv /\ SentInv /\ SendInv

\* Where the client is wrong about a peer, a change that will correct it is
\* under way; and it is not the change whose response is already generated,
\* unless that response corrects it.
DeliveryInv ==
  \A c \in Mapped, p \in Peers :
    /\ \/ p \in Believed(c) <=> p \in Visible
       \/ \E ch \in Underway : Covers(ch, p)
    /\ stage = "send" /\ c \in Recorded
       => \/ p \in updateSentPeers(resp, Knows(c)) <=> p \in Visible
          \/ \E ch \in Waiting : Covers(ch, p)

-----------------------------------------------------------------------------
(* Sequences and responses.                                                 *)

\* What the sequence operators of the batcher do to the elements.
LEMMA RangeFacts ==
  ASSUME NEW S, NEW s \in Seq(S), NEW t \in Seq(S), NEW x \in S
  PROVE  /\ Range(<<>>) = {}
         /\ Range(<<x>>) = {x}
         /\ Range(s \o t) = Range(s) \cup Range(t)
         /\ Range(Append(s, x)) = Range(s) \cup {x}
         /\ s # <<>> => Range(s) = {Head(s)} \cup Range(Tail(s))
<1>1. Range(<<>>) = {} /\ Range(<<x>>) = {x}
  BY DEF Range
<1>2. Range(s \o t) = Range(s) \cup Range(t)
  <2>1. ASSUME NEW e \in Range(s \o t) PROVE e \in Range(s) \cup Range(t)
    <3>1. PICK i \in 1..(Len(s) + Len(t)) : e = (s \o t)[i]
      BY <2>1 DEF Range
    <3>2. CASE i <= Len(s)
      BY <3>1, <3>2 DEF Range
    <3>3. CASE i > Len(s)
      <4>1. i - Len(s) \in 1..Len(t) /\ e = t[i - Len(s)]
        BY <3>1, <3>3
      <4>2. QED
        BY <4>1 DEF Range
    <3>4. QED
      BY <3>1, <3>2, <3>3
  <2>2. ASSUME NEW e \in Range(s) PROVE e \in Range(s \o t)
    <3>1. PICK i \in 1..Len(s) : e = s[i]
      BY <2>2 DEF Range
    <3>2. i \in 1..Len(s \o t) /\ e = (s \o t)[i]
      BY <3>1
    <3>3. QED
      BY <3>2 DEF Range
  <2>3. ASSUME NEW e \in Range(t) PROVE e \in Range(s \o t)
    <3>1. PICK i \in 1..Len(t) : e = t[i]
      BY <2>3 DEF Range
    <3>2. Len(s) + i \in 1..Len(s \o t) /\ e = (s \o t)[Len(s) + i]
      BY <3>1
    <3>3. QED
      BY <3>2 DEF Range
  <2>4. QED
    BY <2>1, <2>2, <2>3
<1>3. Range(Append(s, x)) = Range(s) \cup {x}
  <2>1. \A i \in 1..Len(s) : Append(s, x)[i] = s[i]
    OBVIOUS
  <2>2. Append(s, x)[Len(s) + 1] = x /\ DOMAIN Append(s, x) = 1..(Len(s) + 1)
    OBVIOUS
  <2>3. QED
    BY <2>1, <2>2 DEF Range
<1>4. ASSUME s # <<>> PROVE Range(s) = {Head(s)} \cup Range(Tail(s))
  <2>1. Len(s) \in Nat \ {0} /\ Head(s) = s[1] /\ Len(Tail(s)) = Len(s) - 1
    BY <1>4
  <2>2. \A i \in 1..(Len(s) - 1) : Tail(s)[i] = s[i + 1]
    BY <1>4
  <2>3. ASSUME NEW e \in Range(s) PROVE e \in {Head(s)} \cup Range(Tail(s))
    <3>1. PICK i \in 1..Len(s) : e = s[i]
      BY <2>3 DEF Range
    <3>2. CASE i = 1
      BY <2>1, <3>1, <3>2
    <3>3. CASE i # 1
      <4>1. i - 1 \in 1..Len(Tail(s)) /\ e = Tail(s)[i - 1]
        BY <2>1, <2>2, <3>1, <3>3
      <4>2. DOMAIN Tail(s) = 1..Len(Tail(s))
        BY <1>4
      <4>3. Tail(s)[i - 1] \in Range(Tail(s))
        BY <4>1, <4>2, Zenon DEF Range
      <4>4. QED
        BY <4>1, <4>3
    <3>4. QED
      BY <3>2, <3>3
  <2>4. Head(s) \in Range(s)
    BY <2>1 DEF Range
  <2>5. ASSUME NEW e \in Range(Tail(s)) PROVE e \in Range(s)
    <3>1. PICK i \in 1..(Len(s) - 1) : e = Tail(s)[i]
      BY <2>1, <2>5 DEF Range
    <3>2. i + 1 \in 1..Len(s) /\ e = s[i + 1]
      BY <2>1, <2>2, <3>1
    <3>3. QED
      BY <3>2 DEF Range
  <2>6. QED
    BY <2>3, <2>4, <2>5
<1>5. QED
  BY <1>1, <1>2, <1>3, <1>4

\* The same for changes, one operator at a time.
LEMMA ConcatChanges ==
  ASSUME NEW s \in Seq(Changes), NEW t \in Seq(Changes)
  PROVE  Range(s \o t) = Range(s) \cup Range(t)
<1>1. ASSUME NEW e \in Range(s \o t) PROVE e \in Range(s) \cup Range(t)
  <2>1. PICK i \in 1..(Len(s) + Len(t)) : e = (s \o t)[i]
    BY <1>1 DEF Range
  <2>2. CASE i <= Len(s)
    BY <2>1, <2>2 DEF Range
  <2>3. CASE i > Len(s)
    <3>1. i - Len(s) \in 1..Len(t) /\ e = t[i - Len(s)]
      BY <2>1, <2>3
    <3>2. QED
      BY <3>1 DEF Range
  <2>4. QED
    BY <2>1, <2>2, <2>3
<1>2. ASSUME NEW e \in Range(s) PROVE e \in Range(s \o t)
  <2>1. PICK i \in 1..Len(s) : e = s[i]
    BY <1>2 DEF Range
  <2>2. i \in 1..Len(s \o t) /\ e = (s \o t)[i]
    BY <2>1
  <2>3. QED
    BY <2>2 DEF Range
<1>3. ASSUME NEW e \in Range(t) PROVE e \in Range(s \o t)
  <2>1. PICK i \in 1..Len(t) : e = t[i]
    BY <1>3 DEF Range
  <2>2. Len(s) + i \in 1..Len(s \o t) /\ e = (s \o t)[Len(s) + i]
    BY <2>1
  <2>3. QED
    BY <2>2 DEF Range
<1>4. QED
  BY <1>1, <1>2, <1>3

\* Appending one.
LEMMA AppendChange ==
  ASSUME NEW s \in Seq(Changes), NEW x \in Changes
  PROVE  Range(Append(s, x)) = Range(s) \cup {x}
<1>1. \A i \in 1..Len(s) : Append(s, x)[i] = s[i]
  OBVIOUS
<1>2. Append(s, x)[Len(s) + 1] = x /\ DOMAIN Append(s, x) = 1..(Len(s) + 1)
  OBVIOUS
<1>3. QED
  BY <1>1, <1>2 DEF Range

\* Every non-empty set of positions has a least one.
LEMMA LeastPosition ==
  ASSUME NEW T \in SUBSET Nat, T # {}
  PROVE  \E m \in T : \A i \in T : m <= i
<1>1. PICK m \in T : \A i \in T : ~(<<i, m>> \in OpToRel(<, Nat))
  BY NatLessThanWellFounded, WFMin, Zenon
<1>2. \A i \in T : ~(i < m)
  BY <1>1, Zenon DEF OpToRel
<1>3. QED
  BY <1>2

\* The positions of a sequence of n pending changes are n in number.
LEMMA PositionsCount ==
  ASSUME NEW n \in Nat
  PROVE  IsFiniteSet(1..n) /\ Cardinality(1..n) = n
<1>1. 1 \in Int /\ n \in Int
  OBVIOUS
<1>2. IsFiniteSet(1..n)
  BY <1>1, FS_Interval, Zenon
<1>3. Cardinality(1..n) = IF 1 > n THEN 0 ELSE n - 1 + 1
  BY <1>1, FS_Interval, Zenon
<1>4. (IF 1 > n THEN 0 ELSE n - 1 + 1) = n
  OBVIOUS
<1>5. QED
  BY <1>2, <1>3, <1>4

\* DedupePolicyChanges drops only repeated policy changes, so the same changes
\* are in the bundle as were pending.  The kept positions are numbered by rank:
\* an injection into an interval of the same size, hence onto it.
LEMMA DedupeFacts ==
  ASSUME NEW chs \in Seq(Changes)
  PROVE  /\ DedupePolicyChanges(chs) \in Seq(Changes)
         /\ Len(DedupePolicyChanges(chs)) <= Len(chs)
         /\ Range(DedupePolicyChanges(chs)) = Range(chs)
<1> DEFINE kept == {i \in DOMAIN chs :
                      IsPolicy(chs[i]) => \A j \in 1..(i - 1) : ~IsPolicy(chs[j])}
           upto(i) == {j \in kept : j <= i}
           n == Cardinality(kept)
           rank == [i \in kept |-> Cardinality(upto(i))]
           at(k) == CHOOSE i \in kept : Cardinality(upto(i)) = k
           out == DedupePolicyChanges(chs)
<1>1. DOMAIN chs = 1..Len(chs) /\ Len(chs) \in Nat
  OBVIOUS
<1>2. IsFiniteSet(1..Len(chs)) /\ Cardinality(1..Len(chs)) = Len(chs)
  BY <1>1, PositionsCount, Zenon
<1>3. kept \in SUBSET (1..Len(chs))
  BY <1>1
<1>4. IsFiniteSet(kept) /\ n \in Nat /\ n <= Len(chs)
  BY <1>2, <1>3, FS_Subset, FS_CardinalityType
<1>5. out = [k \in 1..n |-> chs[at(k)]]
  BY DEF DedupePolicyChanges
<1> HIDE DEF kept, out
<1>6. \A i \in kept : /\ upto(i) \in SUBSET kept /\ IsFiniteSet(upto(i))
                      /\ Cardinality(upto(i)) \in 1..n
  <2> SUFFICES ASSUME NEW i \in kept
               PROVE  /\ upto(i) \in SUBSET kept /\ IsFiniteSet(upto(i))
                      /\ Cardinality(upto(i)) \in 1..n
    OBVIOUS
  <2>1. upto(i) \in SUBSET kept /\ i \in upto(i)
    BY <1>3
  <2>2. IsFiniteSet(upto(i)) /\ Cardinality(upto(i)) <= n
    BY <1>4, <2>1, FS_Subset
  <2>3. Cardinality(upto(i)) \in Nat /\ Cardinality(upto(i)) # 0
    BY <2>1, <2>2, FS_CardinalityType, FS_EmptySet
  <2>4. QED
    BY <1>4, <2>1, <2>2, <2>3
<1>7. \A i, k \in kept : i < k => Cardinality(upto(i)) # Cardinality(upto(k))
  <2> SUFFICES ASSUME NEW i \in kept, NEW k \in kept, i < k,
                      Cardinality(upto(i)) = Cardinality(upto(k))
               PROVE  FALSE
    OBVIOUS
  <2>1. upto(i) \in SUBSET upto(k)
    <3>1. i \in Nat /\ k \in Nat /\ \A j \in kept : j \in Nat
      BY <1>3
    <3>2. \A j \in kept : j <= i => j <= k
      BY <3>1
    <3>3. QED
      BY <3>2
  <2>2. upto(k) = upto(i)
    BY <1>6, <2>1, FS_Subset, Zenon
  <2>3. k \in upto(k) /\ k \notin upto(i)
    BY <1>3
  <2>4. QED
    BY <2>2, <2>3
<1> HIDE DEF upto
<1>8. rank \in [kept -> 1..n]
  BY <1>6
<1>9. \A i, k \in kept : rank[i] = rank[k] => i = k
  <2> SUFFICES ASSUME NEW i \in kept, NEW k \in kept, rank[i] = rank[k]
               PROVE  i = k
    OBVIOUS
  <2>1. i \in Nat /\ k \in Nat
    BY <1>3
  <2>2. i < k \/ k < i \/ i = k
    BY <2>1
  <2>3. Cardinality(upto(i)) = Cardinality(upto(k))
    OBVIOUS
  <2>4. QED
    BY <1>7, <2>2, <2>3
<1>10. rank \in Injection(kept, 1..n)
  BY <1>8, <1>9 DEF Injection, IsInjective
<1>11. IsFiniteSet(1..n) /\ Cardinality(1..n) = n
  BY <1>4, PositionsCount, Zenon
<1>12. rank \in Surjection(kept, 1..n)
  BY <1>10, <1>11, FS_Injection
<1>13. \A k \in 1..n : \E i \in kept : Cardinality(upto(i)) = k
  BY <1>12, Zenon DEF Surjection
<1>14. \A k \in 1..n : at(k) \in kept
  BY <1>13
<1>15. \A i \in kept : at(Cardinality(upto(i))) = i
  <2> SUFFICES ASSUME NEW i \in kept PROVE at(Cardinality(upto(i))) = i
    OBVIOUS
  <2> DEFINE k == at(Cardinality(upto(i)))
  <2>1. k \in kept /\ Cardinality(upto(k)) = Cardinality(upto(i))
    OBVIOUS
  <2>2. rank[k] = rank[i]
    BY <2>1
  <2> HIDE DEF k
  <2>3. k = i
    BY <1>9, <2>1, <2>2
  <2>4. QED
    BY <2>3 DEF k
<1> HIDE DEF at
<1> HIDE DEF n
<1>16. \A k \in 1..n : at(k) \in 1..Len(chs) /\ chs[at(k)] \in Changes
  <2>1. \A i \in kept : i \in 1..Len(chs) /\ chs[i] \in Changes
    BY <1>1, <1>3
  <2>2. QED
    BY <1>14, <2>1
<1>17. out \in Seq(Changes) /\ Len(out) = n
  <2>1. out \in [1..n -> Changes]
    BY <1>5, <1>16
  <2>2. QED
    BY <1>4, <2>1
<1>18. Range(out) \subseteq Range(chs)
  BY <1>1, <1>5, <1>16 DEF Range
<1>19. \A i \in kept : chs[i] \in Range(out)
  <2> SUFFICES ASSUME NEW i \in kept PROVE chs[i] \in Range(out)
    OBVIOUS
  <2>1. Cardinality(upto(i)) \in 1..n
    BY <1>6
  <2>2. out[Cardinality(upto(i))] = chs[i]
    BY <1>5, <1>15, <2>1
  <2>3. Cardinality(upto(i)) \in DOMAIN out
    BY <1>5, <2>1
  <2>4. QED
    BY <2>2, <2>3 DEF Range
<1>20. \A i \in 1..Len(chs) : chs[i] \in Range(out)
  <2> SUFFICES ASSUME NEW i \in 1..Len(chs) PROVE chs[i] \in Range(out)
    OBVIOUS
  <2>1. CASE ~IsPolicy(chs[i])
    BY <1>1, <1>19, <2>1 DEF kept
  <2>2. CASE IsPolicy(chs[i])
    <3> DEFINE T == {j \in 1..Len(chs) : IsPolicy(chs[j])}
    <3>1. T \in SUBSET Nat /\ T # {}
      BY <2>2
    <3>2. PICK m \in T : \A j \in T : m <= j
      BY <3>1, LeastPosition, Zenon
    <3>3. m \in kept
      BY <1>1, <3>2 DEF kept
    <3>4. chs[m] \in Changes /\ chs[i] \in Changes /\ IsPolicy(chs[m])
      BY <1>1, <3>2
    <3>5. chs[m] = [kind |-> "policy"] /\ chs[i] = [kind |-> "policy"]
      BY <2>2, <3>4 DEF Changes, IsPolicy
    <3>6. QED
      BY <1>19, <3>3, <3>5
  <2>3. QED
    BY <2>1, <2>2
<1>21. Range(out) = Range(chs)
  BY <1>1, <1>18, <1>20 DEF Range
<1>22. QED
  BY <1>4, <1>17, <1>21 DEF out, n

\* Every response is made of peers in sight, and one that replaces the list by
\* an empty one removes what was sent before.
LEMMA ResponseFacts ==
  ASSUME TypeOK, NEW ch \in Changes
  PROVE  LET r == generateMapResponse(ch)
         IN  /\ IsResponse(r)
             /\ r.all /\ DOMAIN r.changed = {} => lastSent \subseteq r.removed
<1> DEFINE r == generateMapResponse(ch)
<1> USE DEF Nothing, Current, computePeerDiff, buildFromChange, generateMapResponse
<1>1. Visible \in SUBSET Peers /\ \A p \in Visible : truth[p] \in {"off", "on"}
  BY DEF Visible
<1>2. lastSent \in SUBSET Peers
  BY DEF TypeOK
<1>3. DOMAIN <<>> = {} /\ IsUpdate(<<>>)
  BY DEF IsUpdate
<1>4. \A ps \in SUBSET Visible : DOMAIN Current(ps) = ps /\ IsUpdate(Current(ps))
  BY <1>1 DEF IsUpdate
<1>5. CASE ch.kind = "policy"
  <2>1. /\ r.all = FALSE /\ r.changed = Current(Visible)
        /\ r.removed = lastSent \ Visible /\ r.patch = <<>>
    BY <1>5 DEF policyChangeResponse
  <2>2. QED
    <3>1. IsUpdate(r.changed) /\ IsUpdate(r.patch)
      <4>1. IsUpdate(Current(Visible))
        BY <1>4
      <4>2. QED
        BY <1>3, <2>1, <4>1, Zenon
    <3>2. r.removed \in SUBSET Peers /\ r.all \in BOOLEAN /\ ~r.all
      BY <1>1, <1>2, <2>1, Zenon
    <3>3. QED
      BY <3>1, <3>2, Zenon DEF IsResponse
<1>6. CASE ch.kind = "full"
  <2>1. /\ r.all = TRUE /\ r.changed = Current(Visible) /\ r.patch = <<>>
        /\ r.removed = IF Visible = {} THEN lastSent ELSE {}
    BY <1>6, Zenon
  <2>2. IsUpdate(r.changed) /\ IsUpdate(r.patch) /\ DOMAIN r.changed = Visible
    <3>1. IsUpdate(Current(Visible)) /\ DOMAIN Current(Visible) = Visible
      BY <1>4
    <3>2. QED
      BY <1>3, <2>1, <3>1, Zenon
  <2>3. r.removed \in SUBSET Peers /\ r.all \in BOOLEAN /\ (Visible = {} => lastSent \subseteq r.removed)
    <3>1. CASE Visible = {}
      <4>1. r.removed = lastSent
        BY <2>1, <3>1, Zenon
      <4>2. QED
        BY <1>2, <2>1, <4>1, Zenon
    <3>2. CASE Visible # {}
      <4>1. r.removed = {}
        BY <2>1, <3>2, Zenon
      <4>2. QED
        BY <2>1, <3>2, <4>1, Zenon
    <3>3. QED
      BY <3>1, <3>2, Zenon
  <2>4. QED
    BY <2>2, <2>3, Zenon DEF IsResponse
<1>7. CASE ch.kind = "peer"
  <2>1. /\ r.all = FALSE /\ r.changed = Current({ch.peer} \cap Visible)
        /\ r.removed = {} /\ r.patch = <<>>
    BY <1>7
  <2>2. QED
    BY <1>3, <1>4, <2>1, Zenon DEF IsResponse
<1>8. CASE ch.kind = "removed"
  <2>1. /\ r.all = FALSE /\ r.changed = <<>> /\ r.removed = {ch.peer} /\ r.patch = <<>>
    BY <1>8
  <2>2. ch.peer \in Peers
    BY <1>8 DEF Changes
  <2>3. QED
    <3> HIDE DEF r
    <3>1. IsResponse(r) /\ ~r.all
      BY <1>3, <2>1, <2>2, Zenon DEF IsResponse
    <3>2. QED
      BY <3>1, Zenon DEF r
<1>9. CASE ch.kind = "patch"
  <2>1. /\ r.all = FALSE /\ r.changed = <<>> /\ r.removed = {}
        /\ r.patch = filterVisiblePeerPatches(ch)
    BY <1>9
  <2>2. ch.online \in {"off", "on"}
    BY <1>9 DEF Changes
  <2>3. IsUpdate(filterVisiblePeerPatches(ch))
    BY <1>1, <2>2 DEF filterVisiblePeerPatches, IsUpdate
  <2>4. IsUpdate(r.changed) /\ IsUpdate(r.patch)
    BY <1>3, <2>1, <2>3, Zenon
  <2>5. r.removed \in SUBSET Peers /\ r.all \in BOOLEAN /\ ~r.all
    BY <2>1, Zenon
  <2>6. QED
    BY <2>4, <2>5, Zenon DEF IsResponse
<1>10. CASE ch.kind = "ping"
  <2>1. r.all = FALSE /\ r.changed = <<>> /\ r.removed = {} /\ r.patch = <<>>
    BY <1>10, Zenon
  <2>2. QED
    <3> HIDE DEF r
    <3>1. IsResponse(r) /\ ~r.all
      BY <1>3, <2>1, Zenon DEF IsResponse
    <3>2. QED
      BY <3>1, Zenon DEF r
<1>11. QED
  BY <1>5, <1>6, <1>7, <1>8, <1>9, <1>10, Zenon DEF Changes

\* A response generated now corrects the peers its change covers and spoils
\* none that was right.
LEMMA GenerateFacts ==
  ASSUME TypeOK, NEW ch \in Changes, ch.kind = "removed" => truth[ch.peer] = "deleted",
         NEW p \in Peers
  PROVE  LET after == updateSentPeers(generateMapResponse(ch), lastSent)
         IN  \/ p \in after <=> p \in Visible
             \/ ~Covers(ch, p) /\ ~(p \in lastSent <=> p \in Visible)
<1> USE DEF Nothing, Current, computePeerDiff, buildFromChange, generateMapResponse,
            updateSentPeers
<1>1. Visible \in SUBSET Peers /\ lastSent \in SUBSET Peers
  BY DEF Visible, TypeOK
<1>2. CASE ch.kind = "policy"
  BY <1>1, <1>2 DEF policyChangeResponse
<1>3. CASE ch.kind = "full"
  BY <1>1, <1>3, Zenon
<1>4. CASE ch.kind = "peer"
  BY <1>1, <1>4 DEF Covers
<1>5. CASE ch.kind = "removed"
  <2>1. ch.peer \notin Visible
    BY <1>5 DEF Visible
  <2>2. updateSentPeers(generateMapResponse(ch), lastSent) = lastSent \ {ch.peer}
    BY <1>5
  <2>3. p # ch.peer => ~Covers(ch, p)
    BY <1>5, Zenon DEF Covers
  <2> HIDE DEF generateMapResponse, updateSentPeers
  <2>4. QED
    BY <2>1, <2>2, <2>3, Zenon
<1>6. CASE ch.kind = "patch"
  BY <1>6 DEF Covers
<1>7. CASE ch.kind = "ping"
  BY <1>7 DEF Covers
<1>8. QED
  BY <1>2, <1>3, <1>4, <1>5, <1>6, <1>7, ZenonT(30) DEF Changes

\* The client's list moves as updateSentPeers says, provided that an empty
\* full list carries the removals.
LEMMA ApplyFacts ==
  ASSUME NEW r, IsResponse(r), NEW known \in [Peers -> Known]
  PROVE  /\ Apply(r, known) \in [Peers -> Known]
         /\ LET had == {p \in Peers : known[p] # "unknown"}
            IN  (r.all /\ DOMAIN r.changed = {} => had \subseteq r.removed)
                => {p \in Peers : Apply(r, known)[p] # "unknown"} = updateSentPeers(r, had)
<1> DEFINE had == {p \in Peers : known[p] # "unknown"}
<1>1. Apply(r, known) \in [Peers -> Known]
  BY DEF IsResponse, IsUpdate, Apply, Known
<1>2. ASSUME r.all /\ DOMAIN r.changed = {} => had \subseteq r.removed, NEW p \in Peers
      PROVE  Apply(r, known)[p] # "unknown" <=> p \in updateSentPeers(r, had)
  <2>1. CASE p \in r.removed
    BY <2>1 DEF Apply, updateSentPeers
  <2>2. CASE p \notin r.removed /\ p \in DOMAIN r.changed
    BY <2>2 DEF Apply, updateSentPeers, IsResponse, IsUpdate
  <2>3. CASE p \notin r.removed /\ p \notin DOMAIN r.changed /\ r.all
    BY <1>2, <2>3 DEF Apply, updateSentPeers, IsResponse, IsUpdate
  <2>4. CASE p \notin r.removed /\ p \notin DOMAIN r.changed /\ ~r.all
    BY <2>4 DEF Apply, updateSentPeers, IsResponse, IsUpdate, Known
  <2>5. QED
    BY <2>1, <2>2, <2>3, <2>4
<1>3. updateSentPeers(r, had) \in SUBSET Peers
  BY DEF updateSentPeers, IsResponse, IsUpdate
<1>4. QED
  BY <1>1, <1>2, <1>3

-----------------------------------------------------------------------------
(* What holds for any number of overlapping connections.                    *)

\* Responses on their way are well formed.
ResponseInv ==
  /\ stage = "send" => IsResponse(resp)
  /\ initial = [c \in Conns |-> initial[c]]
  /\ \A c \in Conns : conn[c] \in {"generated", "delivered"} => IsResponse(initial[c])

BaseInv == TypeOK /\ WorkInv /\ ResponseInv /\ FirstInv

\* TypeOK in two halves: the changes and the connections.
QueueType ==
  /\ truth \in [Peers -> States]
  /\ made \in 0..MaxChanges
  /\ transit \in Seq(Changes) /\ Len(transit) <= 1
  /\ pending \in Seq(Changes) /\ bundle \in Seq(Changes) /\ retry \in Seq(Changes)
  /\ Len(pending) + Len(bundle) + Len(retry) <= MaxChanges
  /\ inFlight \in BOOLEAN
  /\ stage \in {"idle", "queued", "work", "send"}
  /\ inFlight <=> stage # "idle"

ConnType ==
  /\ conn \in [Conns -> {"new", "waiting", "generated", "delivered", "recorded",
                         "ready", "gone"}]
  /\ view \in [Conns -> [Peers -> Known]]
  /\ first \in [Conns -> {"none", "initial", "delta"}]
  /\ lastSent \in SUBSET Peers
  /\ stop \in SUBSET Conns
  /\ closing \in {"no", "done", "closed"}

\* The two halves make TypeOK, now and after a step.
LEMMA Halves == (TypeOK <=> QueueType /\ ConnType) /\ (TypeOK' <=> QueueType' /\ ConnType')
BY Zenon DEF TypeOK, QueueType, ConnType

\* A change that was made: it is in transit, and the sight of a peer moved only
\* if the change covers it.
Published(ch) ==
  /\ transit = <<>> /\ transit' = <<ch>>
  /\ made < MaxChanges /\ made' = made + 1
  /\ UNCHANGED <<pending, workVars, connVars, lastSent, closing>>
  /\ truth' \in [Peers -> States]
  /\ ch.kind = "removed" => truth'[ch.peer] = "deleted"
  /\ \A p \in Peers : truth[p] = "deleted" => truth'[p] = "deleted"
  /\ \A p \in Peers : (p \in Visible' <=> p \in Visible) \/ Covers(ch, p)'

\* Whatever is published changes the sight of at most the peer it covers, and
\* a deleted peer stays deleted.
LEMMA MakeFacts ==
  ASSUME TypeOK, Publisher
  PROVE  \E ch \in Changes : Published(ch)
<1> USE DEF Make, Published
<1>1. truth \in [Peers -> States]
  BY DEF TypeOK
<1>2. ASSUME NEW p \in Peers, NEW t \in States, AddPeer(p, t)
      PROVE  \E ch \in Changes : Published(ch)
  <2> DEFINE ch == [kind |-> "peer", peer |-> p]
  <2>1. ch \in Changes /\ ch.kind = "peer" /\ ch.peer = p
    BY DEF Changes
  <2>2. \A q \in Peers : truth'[q] = IF q = p THEN t ELSE truth[q]
    BY <1>1, <1>2 DEF AddPeer
  <2>3. \A q \in Peers : (q \in Visible' <=> q \in Visible) \/ Covers(ch, q)'
    BY <1>2, <2>1, <2>2 DEF AddPeer, Visible, Covers
  <2>4. truth' \in [Peers -> States] /\ \A q \in Peers : truth[q] = "deleted" => truth'[q] = "deleted"
    BY <1>1, <1>2, <2>2 DEF AddPeer
  <2>5. QED
    BY <1>2, <2>1, <2>3, <2>4 DEF AddPeer
<1>3. ASSUME NEW p \in Peers, DeletePeer(p)
      PROVE  \E ch \in Changes : Published(ch)
  <2> DEFINE ch == [kind |-> "removed", peer |-> p]
  <2>1. ch \in Changes /\ ch.kind = "removed" /\ ch.peer = p
    BY DEF Changes
  <2>2. \A q \in Peers : truth'[q] = IF q = p THEN "deleted" ELSE truth[q]
    BY <1>1, <1>3 DEF DeletePeer
  <2>3. \A q \in Peers : (q \in Visible' <=> q \in Visible) \/ Covers(ch, q)'
    BY <1>3, <2>1, <2>2 DEF DeletePeer, Visible, Covers
  <2>4. truth' \in [Peers -> States] /\ \A q \in Peers : truth[q] = "deleted" => truth'[q] = "deleted"
    BY <1>1, <1>3, <2>2 DEF DeletePeer, States
  <2>5. QED
    BY <1>3, <2>1, <2>2, <2>3, <2>4 DEF DeletePeer
<1>4. ASSUME NEW p \in Peers, NEW t \in States, FlipPeer(p, t)
      PROVE  \E ch \in Changes : Published(ch)
  <2> DEFINE ch == [kind |-> "patch", peer |-> p, online |-> t]
  <2>1. truth[p] \in {"off", "on"} /\ t \in {"off", "on"}
    BY <1>4 DEF FlipPeer
  <2>2. ch \in Changes /\ ch.kind = "patch"
    BY <2>1 DEF Changes
  <2>3. \A q \in Peers : truth'[q] = IF q = p THEN t ELSE truth[q]
    BY <1>1, <1>4 DEF FlipPeer
  <2>4. \A q \in Peers : q \in Visible' <=> q \in Visible
    BY <2>1, <2>3 DEF Visible
  <2>5. truth' \in [Peers -> States] /\ \A q \in Peers : truth[q] = "deleted" => truth'[q] = "deleted"
    BY <1>1, <1>4, <2>1, <2>3 DEF FlipPeer
  <2>6. QED
    BY <1>4, <2>2, <2>4, <2>5 DEF FlipPeer
<1>5. ASSUME NEW p \in Peers, NEW t \in States, ChangePolicy(p, t)
      PROVE  \E ch \in Changes : Published(ch)
  <2> DEFINE ch == [kind |-> "policy"]
  <2>1. ch \in Changes /\ ch.kind = "policy"
    BY DEF Changes
  <2>2. truth[p] # "deleted"
    BY <1>5 DEF ChangePolicy
  <2>3. truth' \in [Peers -> States] /\ \A q \in Peers : truth[q] = "deleted" => truth'[q] = "deleted"
    BY <1>1, <1>5, <2>2 DEF ChangePolicy
  <2>4. \A q \in Peers : Covers(ch, q)'
    BY <2>1 DEF Covers
  <2>5. QED
    BY <1>5, <2>1, <2>3, <2>4 DEF ChangePolicy
<1>6. ASSUME UpdateFull \/ PingNode
      PROVE  \E ch \in Changes : Published(ch)
  <2>1. PICK ch \in {[kind |-> "full"], [kind |-> "ping"]} : Make(ch) /\ truth' = truth
    BY <1>6 DEF UpdateFull, PingNode
  <2>2. ch \in Changes /\ ch.kind # "removed" /\ Visible' = Visible
    BY <2>1 DEF Changes, Visible
  <2>3. QED
    BY <1>1, <2>1, <2>2, Zenon
<1>7. QED
  BY <1>2, <1>3, <1>4, <1>5, <1>6 DEF Publisher


\* Publishing a change, and handing it to the node's queue.
LEMMA PublishBase ==
  ASSUME BaseInv, Publisher \/ AddWork
  PROVE  BaseInv'
<1> USE BatcherAssumption DEF changeVars, workVars, connVars
<1>1. QueueType /\ ConnType
  BY Halves DEF BaseInv
<1>2. CASE Publisher
  <2>1. PICK ch \in Changes : Published(ch)
    BY <1>2, MakeFacts DEF BaseInv
  <2>2. QueueType'
    BY <1>1, <2>1 DEF Published, QueueType
  <2>3. ConnType' /\ ResponseInv' /\ FirstInv'
    BY <1>1, <2>1, Zenon DEF Published, ConnType, BaseInv, ResponseInv, FirstInv
  <2>4. Underway' = Underway \cup {ch}
    <3>1. Range(transit) = {} /\ Range(transit') = {ch}
      BY <2>1 DEF Published, Range
    <3>2. QED
      BY <2>1, <3>1 DEF Published, Underway
  <2>5. \A d \in Underway : d \in Changes
    BY <1>1 DEF QueueType, Underway, Range
  <2>6. \A d \in Underway' : d.kind = "removed" => truth'[d.peer] = "deleted"
    <3>1. \A d \in Underway : d.kind = "removed" => d.peer \in Peers
      BY <2>5 DEF Changes
    <3>2. QED
      BY <2>1, <2>4, <3>1 DEF Published, BaseInv, WorkInv
  <2>7. WorkInv'
    BY <1>1, <2>1, <2>6 DEF Published, BaseInv, WorkInv, QueueType
  <2>8. QED
    BY <2>2, <2>3, <2>7, Halves DEF BaseInv
<1>3. CASE AddWork
  <2>1. /\ transit # <<>> /\ transit' = <<>>
        /\ pending' = IF transit[1].kind = "full" THEN transit ELSE pending \o transit
        /\ UNCHANGED <<truth, made, workVars, connVars, lastSent, closing>>
    BY <1>3 DEF AddWork
  <2>2. pending' \in Seq(Changes) /\ Len(pending') <= Len(pending) + Len(transit)
    <3>1. pending \in Seq(Changes) /\ transit \in Seq(Changes)
      BY <1>1 DEF QueueType
    <3>2. Len(pending) \in Nat /\ Len(transit) \in Nat
      BY <3>1
    <3>3. CASE transit[1].kind = "full"
      BY <2>1, <3>1, <3>2, <3>3
    <3>4. CASE transit[1].kind # "full"
      <4>1. pending' = pending \o transit
        BY <2>1, <3>4
      <4>2. pending' \in Seq(Changes) /\ Len(pending') = Len(pending) + Len(transit)
        BY <3>1, <4>1
      <4>3. QED
        BY <3>2, <4>2
    <3>5. QED
      BY <3>3, <3>4
  <2>3. Len(transit) = 1 /\ Len(transit') = 0 /\ transit' \in Seq(Changes)
    <3>1. transit \in Seq(Changes) /\ Len(transit) <= 1 /\ transit # <<>>
      BY <1>1, <2>1 DEF QueueType
    <3>2. Len(transit) = 1
      BY <3>1
    <3>3. QED
      BY <2>1, <3>2
  <2>4. Len(transit') + Len(pending') + Len(bundle') + Len(retry') <= made'
    BY <1>1, <2>1, <2>2, <2>3 DEF QueueType, BaseInv, WorkInv
  <2>5. Len(pending') + Len(bundle') + Len(retry') <= MaxChanges
    BY <1>1, <2>1, <2>2, <2>3, <2>4 DEF QueueType
  <2>6. QueueType'
    BY <1>1, <2>1, <2>2, <2>3, <2>5 DEF QueueType
  <2>7. ConnType' /\ ResponseInv' /\ FirstInv'
    BY <1>1, <2>1 DEF ConnType, BaseInv, ResponseInv, FirstInv
  <2>8. Range(pending') \subseteq Range(pending) \cup Range(transit) /\ Range(transit') = {}
    <3>1. pending \in Seq(Changes) /\ transit \in Seq(Changes)
      BY <1>1 DEF QueueType
    <3>2. Range(pending \o transit) = Range(pending) \cup Range(transit)
      BY <3>1, ConcatChanges
    <3>3. Range(transit') = {}
      BY <2>1 DEF Range
    <3>4. QED
      BY <2>1, <3>2, <3>3
  <2>9. Underway' \subseteq Underway
    BY <2>1, <2>8 DEF Underway
  <2>10. WorkInv'
    BY <2>1, <2>4, <2>9 DEF BaseInv, WorkInv
  <2>11. QED
    BY <2>6, <2>7, <2>10, Halves, Zenon DEF BaseInv
<1>4. QED
  BY <1>2, <1>3

\* The ticker and the worker up to the response.
LEMMA WorkerBase ==
  ASSUME BaseInv, Tick \/ Work \/ Generate \/ Finish
  PROVE  BaseInv'
<1> USE DEF changeVars, workVars, connVars
<1>1. QueueType /\ ConnType
  BY Halves, Zenon DEF BaseInv
<1>2. ConnType' /\ FirstInv'
  BY <1>1 DEF Tick, Work, Generate, Finish, ConnType, BaseInv, FirstInv
<1>3. CASE Tick
  <2>1. /\ ~inFlight /\ inFlight' = TRUE /\ stage' = "queued"
        /\ bundle' = DedupePolicyChanges(pending) /\ pending' = <<>>
        /\ UNCHANGED <<changeVars, resp, retry, connVars>>
    BY <1>3 DEF Tick
  <2>2. bundle = <<>> /\ retry = <<>> /\ stage = "idle"
    BY <1>1, <2>1 DEF QueueType, BaseInv, WorkInv
  <2>3. /\ bundle' \in Seq(Changes) /\ Len(bundle') <= Len(pending)
        /\ Range(bundle') = Range(pending)
    BY <1>1, <2>1, DedupeFacts DEF QueueType
  <2>4. QueueType'
    <3>1. /\ pending' \in Seq(Changes) /\ Len(pending') = 0 /\ Len(bundle) = 0
          /\ Len(retry) = 0 /\ Len(pending) \in Nat /\ Len(bundle') \in Nat
      BY <1>1, <2>1, <2>2, <2>3 DEF QueueType
    <3>2. Len(pending') + Len(bundle') + Len(retry') <= MaxChanges
      BY <1>1, <2>1, <2>3, <3>1, BatcherAssumption DEF QueueType
    <3>3. inFlight' \in BOOLEAN /\ (inFlight' <=> stage' # "idle")
      BY <2>1
    <3>4. QED
      BY <1>1, <2>1, <2>3, <3>1, <3>2, <3>3, Zenon DEF QueueType
  <2>5. Underway' = Underway
    BY <2>1, <2>2, <2>3, Zenon DEF Underway, Range
  <2>6. Len(transit') + Len(pending') + Len(bundle') + Len(retry') <= made'
    BY <1>1, <2>1, <2>2, <2>3 DEF QueueType, BaseInv, WorkInv
  <2>7. WorkInv' /\ ResponseInv'
    BY <2>1, <2>2, <2>5, <2>6 DEF BaseInv, WorkInv, ResponseInv
  <2>8. QED
    BY <1>2, <2>4, <2>7, Halves DEF BaseInv
<1>4. CASE Work
  <2>1. /\ stage = "queued" /\ stage' = "work"
        /\ UNCHANGED <<changeVars, pending, inFlight, bundle, resp, retry, connVars>>
    BY <1>4 DEF Work
  <2>2. QueueType' /\ WorkInv' /\ ResponseInv'
    BY <1>1, <2>1 DEF QueueType, BaseInv, WorkInv, ResponseInv, Underway
  <2>3. QED
    BY <1>2, <2>2, Halves DEF BaseInv
<1>5. CASE Generate
  <2>1. /\ stage = "work" /\ stage' = "send" /\ bundle # <<>>
        /\ resp' = generateMapResponse(Head(bundle))
        /\ UNCHANGED <<changeVars, pending, inFlight, bundle, retry, connVars>>
    BY <1>5 DEF Generate
  <2>2. Head(bundle) \in Changes
    BY <1>1, <2>1 DEF QueueType
  <2>3. IsResponse(resp')
    BY <2>1, <2>2, ResponseFacts, Zenon DEF BaseInv
  <2>4. ResponseInv'
    BY <2>1, <2>3 DEF BaseInv, ResponseInv, IsResponse, IsUpdate
  <2>5. QueueType' /\ WorkInv'
    BY <1>1, <2>1, Zenon DEF QueueType, BaseInv, WorkInv, Underway
  <2>6. QED
    BY <1>2, <2>4, <2>5, Halves DEF BaseInv
<1>6. CASE Finish
  <2>1. /\ stage = "work" /\ bundle = <<>> /\ stage' = "idle" /\ inFlight' = FALSE
        /\ pending' = retry \o pending /\ retry' = <<>>
        /\ UNCHANGED <<changeVars, bundle, resp, connVars>>
    BY <1>6 DEF Finish
  <2>2. /\ pending' \in Seq(Changes) /\ Len(pending') = Len(retry) + Len(pending)
        /\ retry' \in Seq(Changes) /\ Len(retry') = 0 /\ Len(bundle) = 0
    BY <1>1, <2>1 DEF QueueType
  <2>3. Range(pending') = Range(retry) \cup Range(pending) /\ Range(retry') = {}
    <3>1. retry \in Seq(Changes) /\ pending \in Seq(Changes)
      BY <1>1 DEF QueueType
    <3>2. Range(retry \o pending) = Range(retry) \cup Range(pending)
      BY <3>1, ConcatChanges
    <3>3. Range(retry') = {}
      BY <2>1 DEF Range
    <3>4. QED
      BY <2>1, <3>2, <3>3
  <2>4. Underway' = Underway
    BY <2>1, <2>3 DEF Underway
  <2>5. QueueType'
    <3>1. inFlight' \in BOOLEAN /\ (inFlight' <=> stage' # "idle")
      BY <2>1, Zenon
    <3>2. Len(pending') + Len(bundle') + Len(retry') <= MaxChanges
      BY <1>1, <2>1, <2>2 DEF QueueType
    <3>3. QED
      BY <1>1, <2>1, <2>2, <3>1, <3>2 DEF QueueType
  <2>6. WorkInv' /\ ResponseInv'
    BY <1>1, <2>1, <2>2, <2>4 DEF QueueType, BaseInv, WorkInv, ResponseInv
  <2>7. QED
    BY <1>2, <2>5, <2>6, Halves DEF BaseInv
<1>7. QED
  BY <1>3, <1>4, <1>5, <1>6

\* Sending: only open streams get the response, and the change whose response
\* nobody was ready for is kept.
LEMMA SendBase ==
  ASSUME BaseInv, Send
  PROVE  BaseInv'
<1> USE DEF changeVars, workVars, connVars
<1>1. QueueType /\ ConnType
  BY Halves DEF BaseInv
<1>2. PICK bad \in SUBSET Ready : Deliver(Ready \ bad, bad)
  BY Zenon DEF Send
<1>3. /\ stage = "send" /\ stage' = "work" /\ bundle' = Tail(bundle)
      /\ retry' = IF Registered # {} /\ Ready = {} THEN Append(retry, Head(bundle)) ELSE retry
      /\ UNCHANGED <<changeVars, pending, inFlight, closing, initial, stop>>
  BY <1>2 DEF Send, NextChange, Deliver
<1>4. bundle # <<>> /\ IsResponse(resp)
  BY <1>3 DEF BaseInv, WorkInv, ResponseInv
<1>5. /\ Head(bundle) \in Changes /\ bundle' \in Seq(Changes) /\ Len(bundle') = Len(bundle) - 1
      /\ retry' \in Seq(Changes) /\ Len(retry') <= Len(retry) + 1
  BY <1>1, <1>3, <1>4 DEF QueueType
<1>6. Len(bundle) \in Nat /\ Len(retry) \in Nat /\ Len(pending) \in Nat /\ Len(transit) \in Nat
      /\ Len(bundle') \in Nat /\ Len(retry') \in Nat
  BY <1>1, <1>5 DEF QueueType
<1>7. QueueType'
  <2>1. Len(pending') + Len(bundle') + Len(retry') <= MaxChanges
    <3>1. Len(pending) + Len(bundle) + Len(retry) <= MaxChanges /\ pending' = pending
      BY <1>1, <1>3 DEF QueueType
    <3>2. QED
      BY <1>5, <1>6, <3>1, BatcherAssumption
  <2>2. QED
    BY <1>1, <1>3, <1>5, <2>1, Zenon DEF QueueType
<1>8. \A c \in Ready : c \in Conns /\ conn[c] = "ready"
  BY DEF Ready
<1>9. ConnType'
  <2>1. \A c \in Conns : Apply(resp, view[c]) \in [Peers -> Known]
    BY <1>1, <1>4, ApplyFacts, Zenon DEF ConnType
  <2>2. view' \in [Conns -> [Peers -> Known]]
    BY <1>1, <1>2, <2>1, Zenon DEF Deliver, ConnType, Nobody, Known
  <2>3. lastSent' \in SUBSET Peers
    BY <1>1, <1>2, <1>4, Zenon DEF Deliver, ConnType, updateSentPeers, IsResponse, IsUpdate
  <2>4. /\ conn' \in [Conns -> {"new", "waiting", "generated", "delivered", "recorded",
                                "ready", "gone"}]
        /\ first' \in [Conns -> {"none", "initial", "delta"}]
    BY <1>1, <1>2, Zenon DEF Deliver, ConnType
  <2>5. QED
    BY <1>1, <1>3, <2>2, <2>3, <2>4, Zenon DEF ConnType
<1>10. FirstInv'
  BY <1>1, <1>2, <1>8 DEF Deliver, ConnType, BaseInv, FirstInv
<1>11. Underway' \subseteq Underway
  <2>1. Range(bundle) = {Head(bundle)} \cup Range(bundle')
    BY <1>1, <1>3, <1>4, <1>5, RangeFacts, Zenon DEF QueueType
  <2>2. Range(retry') \subseteq Range(retry) \cup {Head(bundle)}
    <3>1. retry \in Seq(Changes)
      BY <1>1 DEF QueueType
    <3>2. Range(Append(retry, Head(bundle))) = Range(retry) \cup {Head(bundle)}
      BY <1>5, <3>1, AppendChange
    <3>3. QED
      BY <1>3, <3>2
  <2>3. QED
    BY <1>3, <2>1, <2>2 DEF Underway
<1>12. WorkInv'
  <2>1. Len(transit') + Len(pending') + Len(bundle') + Len(retry') <= made'
    <3>1. /\ Len(transit) + Len(pending) + Len(bundle) + Len(retry) <= made /\ made \in Nat
          /\ transit' = transit /\ pending' = pending /\ made' = made
      BY <1>1, <1>3, BatcherAssumption DEF QueueType, BaseInv, WorkInv
    <3>2. QED
      BY <1>5, <1>6, <3>1
  <2>2. QED
    BY <1>3, <1>11, <2>1, Zenon DEF BaseInv, WorkInv
<1>13. ResponseInv'
  BY <1>1, <1>2, <1>3 DEF Deliver, ConnType, BaseInv, ResponseInv, IsResponse, IsUpdate
<1>14. QED
  BY <1>7, <1>9, <1>10, <1>12, <1>13, Halves DEF BaseInv

\* Opening and closing connections: no delta before the initial map.
LEMMA ConnBase ==
  ASSUME BaseInv, NEW c \in Conns,
         Register(c) \/ Adding(c) \/ AddFails(c) \/ RemoveNode(c)
  PROVE  BaseInv'
<1> USE DEF others, changeVars, workVars
<1>1. QueueType /\ ConnType
  BY Halves, Zenon DEF BaseInv
<1>2. UNCHANGED <<changeVars, workVars, pending, closing>>
  BY DEF Register, Adding, GenerateInitial, DeliverInitial, RecordInitial, OpenForUpdates,
         AddFails, RemoveNode, Drop
<1>3. QueueType' /\ WorkInv'
  BY <1>1, <1>2, Zenon DEF QueueType, BaseInv, WorkInv, Underway
<1>4. CASE Register(c)
  BY <1>1, <1>2, <1>3, <1>4, Halves
  DEF Register, ConnType, BaseInv, ResponseInv, FirstInv, IsResponse, IsUpdate
<1>5. CASE GenerateInitial(c)
  <2>1. IsResponse(generateMapResponse([kind |-> "full"]))
    BY ResponseFacts DEF BaseInv, Changes
  <2>2. /\ conn' = [conn EXCEPT ![c] = "generated"]
        /\ initial' = [initial EXCEPT ![c] = generateMapResponse([kind |-> "full"])]
        /\ UNCHANGED <<view, first, stop, lastSent>>
    BY <1>5, Zenon DEF GenerateInitial
  <2>3. ConnType' /\ FirstInv'
    BY <1>1, <1>2, <2>2, Zenon DEF ConnType, BaseInv, FirstInv
  <2>4. \A d \in Conns : conn'[d] \in {"generated", "delivered"} => IsResponse(initial'[d])
    <3> SUFFICES ASSUME NEW d \in Conns, conn'[d] \in {"generated", "delivered"}
                 PROVE  IsResponse(initial'[d])
      OBVIOUS
    <3>1. CASE d = c
      BY <2>1, <2>2, <3>1, Zenon DEF BaseInv, ResponseInv
    <3>2. CASE d # c
      BY <1>1, <2>2, <3>2, Zenon DEF ConnType, BaseInv, ResponseInv
    <3>3. QED
      BY <3>1, <3>2, Zenon
  <2>5. initial' = [d \in Conns |-> initial'[d]]
    BY <2>2 DEF BaseInv, ResponseInv
  <2>6. stage' = stage /\ resp' = resp
    BY <1>2
  <2>7. ResponseInv'
    BY <2>4, <2>5, <2>6 DEF BaseInv, ResponseInv
  <2>8. QED
    BY <1>3, <2>3, <2>7, Halves, Zenon DEF BaseInv
<1>6. CASE DeliverInitial(c)
  <2>1. IsResponse(initial[c])
    BY <1>6, Zenon DEF DeliverInitial, BaseInv, ResponseInv
  <2>2. Apply(initial[c], view[c]) \in [Peers -> Known]
    BY <1>1, <2>1, ApplyFacts, Zenon DEF ConnType
  <2>3. ConnType'
    BY <1>1, <1>2, <1>6, <2>2, Zenon DEF DeliverInitial, ConnType
  <2>4. FirstInv'
    BY <1>1, <1>6, Zenon DEF DeliverInitial, ConnType, BaseInv, FirstInv
  <2>5. ResponseInv'
    BY <1>1, <1>2, <1>6, <2>1 DEF DeliverInitial, ConnType, BaseInv, ResponseInv, IsResponse, IsUpdate
  <2>6. QED
    BY <1>3, <2>3, <2>4, <2>5, Halves, Zenon DEF BaseInv
<1>7. CASE RecordInitial(c)
  <2>1. /\ conn[c] = "delivered" /\ conn' = [conn EXCEPT ![c] = "recorded"]
        /\ lastSent' = updateSentPeers(initial[c], lastSent)
        /\ initial' = [initial EXCEPT ![c] = Nothing]
        /\ UNCHANGED <<view, first, stop>>
    BY <1>7 DEF RecordInitial
  <2>2. IsResponse(initial[c])
    BY <2>1 DEF BaseInv, ResponseInv
  <2>3. lastSent' \in SUBSET Peers
    BY <1>1, <2>1, <2>2, Zenon DEF ConnType, updateSentPeers, IsResponse, IsUpdate
  <2>4. ConnType' /\ FirstInv'
    BY <1>1, <1>2, <2>1, <2>3 DEF ConnType, BaseInv, FirstInv
  <2>5. ResponseInv'
    BY <1>1, <1>2, <2>1, ZenonT(30) DEF ConnType, BaseInv, ResponseInv, IsResponse, IsUpdate
  <2>6. QED
    BY <1>3, <2>4, <2>5, Halves DEF BaseInv
<1>8. CASE OpenForUpdates(c)
  BY <1>1, <1>2, <1>3, <1>8, Halves
  DEF OpenForUpdates, ConnType, BaseInv, ResponseInv, FirstInv, IsResponse, IsUpdate
<1>9. CASE AddFails(c) \/ RemoveNode(c)
  <2>1. Drop(c)
    BY <1>9 DEF AddFails, RemoveNode
  <2>2. ConnType' /\ FirstInv'
    BY <1>1, <1>2, <2>1 DEF Drop, ConnType, Nobody, Known, BaseInv, FirstInv
  <2>3. ResponseInv'
    BY <1>1, <1>2, <2>1, ZenonT(30) DEF Drop, ConnType, BaseInv, ResponseInv, IsResponse, IsUpdate
  <2>4. QED
    BY <1>3, <2>2, <2>3, Halves DEF BaseInv
<1>10. QED
  BY <1>4, <1>5, <1>6, <1>7, <1>8, <1>9 DEF Adding

\* Cleaning up and closing.
LEMMA CloseBase ==
  ASSUME BaseInv, CleanupOffline \/ CloseDone \/ CloseConns \/ UNCHANGED vars
  PROVE  BaseInv'
<1> USE DEF changeVars, workVars, connVars
<1>1. QueueType /\ ConnType
  BY Halves DEF BaseInv
<1>2. /\ UNCHANGED <<changeVars, workVars, conn, initial, view, first>>
      /\ pending' = pending \/ pending' = <<>>
  BY DEF CleanupOffline, CloseDone, CloseConns, vars
<1>3. pending' \in Seq(Changes) /\ Len(pending') <= Len(pending)
      /\ Range(pending') \subseteq Range(pending)
  <2>1. pending \in Seq(Changes) /\ Len(pending) \in Nat
    BY <1>1 DEF QueueType
  <2>2. <<>> \in Seq(Changes) /\ Len(<<>>) = 0 /\ Range(<<>>) = {}
    BY DEF Range
  <2>3. CASE pending' = pending
    BY <2>1, <2>3
  <2>4. CASE pending' = <<>>
    BY <2>1, <2>2, <2>4
  <2>5. QED
    BY <1>2, <2>3, <2>4
<1>4. Len(pending') \in Nat /\ Len(pending) \in Nat
  BY <1>1, <1>3 DEF QueueType
<1>5. QueueType'
  <2>1. Len(pending') + Len(bundle') + Len(retry') <= MaxChanges
    BY <1>1, <1>2, <1>3, <1>4, BatcherAssumption DEF QueueType
  <2>2. QED
    BY <1>1, <1>2, <1>3, <2>1 DEF QueueType
<1>6. WorkInv'
  <2>1. Underway' \subseteq Underway
    BY <1>2, <1>3 DEF Underway
  <2>2. Len(transit') + Len(pending') + Len(bundle') + Len(retry') <= made'
    BY <1>1, <1>2, <1>3, <1>4 DEF QueueType, BaseInv, WorkInv
  <2>3. QED
    BY <1>2, <2>1, <2>2, Zenon DEF BaseInv, WorkInv
<1>7. ResponseInv' /\ FirstInv'
  BY <1>2 DEF BaseInv, ResponseInv, FirstInv, IsResponse, IsUpdate
<1>8. ConnType'
  BY <1>1 DEF ConnType, CleanupOffline, CloseDone, CloseConns, vars, Registered
<1>9. QED
  BY <1>5, <1>6, <1>7, <1>8, Halves DEF BaseInv

\* The base invariant holds at the start.
LEMMA InitBase == Init => BaseInv
<1> SUFFICES ASSUME Init PROVE BaseInv
  OBVIOUS
<1>1. Range(<<>>) = {}
  BY DEF Range
<1>2. QueueType
  <2>1. /\ <<>> \in Seq(Changes) /\ Len(<<>>) = 0 /\ 0 \in 0..MaxChanges
        /\ 0 <= 1 /\ 0 + 0 + 0 <= MaxChanges
    BY BatcherAssumption
  <2>2. inFlight \in BOOLEAN /\ (inFlight <=> stage # "idle")
    BY Zenon DEF Init
  <2>3. truth \in [Peers -> States]
    BY DEF Init, States
  <2>4. QED
    BY <2>1, <2>2, <2>3, Zenon DEF Init, QueueType
<1>3. ConnType
  BY DEF Init, ConnType, Nobody, Known
<1>4. WorkInv
  BY <1>1 DEF Init, WorkInv, Underway
<1>5. ResponseInv /\ FirstInv
  BY DEF Init, ResponseInv, FirstInv
<1>6. QED
  BY <1>2, <1>3, <1>4, <1>5, Halves DEF BaseInv

\* Every step keeps the base invariant.
LEMMA NextBase == BaseInv /\ [Next]_vars => BaseInv'
BY PublishBase, WorkerBase, SendBase, ConnBase, CloseBase DEF Next, Workers

\* The base invariant holds throughout.
LEMMA BaseHolds == Spec => []BaseInv
BY InitBase, NextBase, PTL DEF Spec

\* The queues, the worker and the connections have their types: in particular
\* pending, the bundle and the retries never hold more than was published, and
\* inFlight is set exactly while the worker has the node's bundle.
THEOREM TypeCorrect == Spec => []TypeOK
<1>1. BaseInv => TypeOK
  BY DEF BaseInv
<1>2. QED
  BY <1>1, BaseHolds, PTL

\* No stream starts with a delta, however AddNode, the workers, timeouts,
\* RemoveNode and Close interleave: pendingInitial keeps connections out of
\* broadcasts until their initial map was delivered.
THEOREM InitialComesFirst == Spec => []FirstFrameIsInitial
<1>1. BaseInv => FirstFrameIsInitial
  BY DEF BaseInv, FirstInv, FirstFrameIsInitial
<1>2. QED
  BY <1>1, BaseHolds, PTL
-----------------------------------------------------------------------------
(* One connection at a time: what the server remembers of the client.       *)

\* With a bound of one, a connection is registered only when none is.
LEMMA OneConnection ==
  ASSUME TypeOK, MaxOpen = 1, NEW c \in Conns, Register(c)
  PROVE  Registered = {}
<1>1. Registered \in SUBSET Conns
  BY DEF Registered
<1>2. IsFiniteSet(Registered)
  BY <1>1, BatcherAssumption, FS_Subset
<1>3. Cardinality(Registered) \in Nat /\ Cardinality(Registered) < 1
  BY <1>2, FS_CardinalityType DEF Register
<1>4. Cardinality(Registered) = 0
  BY <1>3
<1>5. QED
  BY <1>2, <1>4, FS_EmptySet

\* Only connections are recorded.
LEMMA RecordedConns == Recorded \subseteq Conns
BY DEF Recorded

\* Nothing about the clients changes, and no response is generated.
QuietStep ==
  /\ UNCHANGED <<conn, initial, view, lastSent>>
  /\ stage' # "send" \/ (stage' = stage /\ resp' = resp)

\* Such a step keeps what is known of the client.
LEMMA QuietClient ==
  ASSUME ClientInv, QuietStep
  PROVE  ClientInv'
<1>1. Registered' = Registered /\ Recorded' = Recorded
  BY DEF QuietStep, Registered, Recorded
<1>2. \A c \in Conns : Knows(c)' = Knows(c)
  BY DEF QuietStep, Knows
<1>3. QED
  <2>1. OneClient'
    BY <1>1, <1>2, Zenon DEF QuietStep, ClientInv, OneClient
  <2>2. InitialInv'
    BY <1>1, <1>2, Zenon DEF QuietStep, ClientInv, InitialInv
  <2>3. SentInv'
    BY <1>1, <1>2, RecordedConns, Zenon DEF QuietStep, ClientInv, SentInv
  <2>4. SendInv'
    BY <1>1, <1>2 DEF QuietStep, ClientInv, SendInv
  <2>5. QED
    BY <2>1, <2>2, <2>3, <2>4, Zenon DEF ClientInv

\* The server and its publishers do not touch the client's knowledge except by
\* sending.
LEMMA ServerClient ==
  ASSUME BaseInv, ClientInv,
         Publisher \/ AddWork \/ Tick \/ Work \/ Generate \/ Finish \/ CleanupOffline
         \/ CloseDone \/ CloseConns \/ UNCHANGED vars
  PROVE  ClientInv'
<1> USE DEF changeVars, workVars, connVars
<1>1. CASE Publisher
  <2>1. PICK ch \in Changes : Published(ch)
    BY <1>1, MakeFacts DEF BaseInv
  <2>2. QED
    BY <2>1, QuietClient DEF Published, QuietStep
<1>2. CASE AddWork \/ Tick \/ Work \/ Finish \/ CloseDone \/ CloseConns \/ UNCHANGED vars
  BY <1>2, QuietClient, Zenon DEF AddWork, Tick, Work, Finish, CloseDone, CloseConns, vars, QuietStep
<1>3. CASE Generate
  <2>1. /\ bundle # <<>> /\ resp' = generateMapResponse(Head(bundle))
        /\ UNCHANGED <<conn, initial, view, lastSent>>
    BY <1>3 DEF Generate
  <2>2. Head(bundle) \in Changes
    BY <2>1 DEF BaseInv, TypeOK
  <2>3. IsResponse(resp') /\ (resp'.all /\ DOMAIN resp'.changed = {} => lastSent \subseteq resp'.removed)
    BY <2>1, <2>2, ResponseFacts, Zenon DEF BaseInv
  <2>4. Registered' = Registered /\ Recorded' = Recorded /\ \A c \in Conns : Knows(c)' = Knows(c)
    BY <2>1, Zenon DEF Registered, Recorded, Knows
  <2>5. QED
    <3>1. OneClient'
      BY <2>1, <2>3, <2>4 DEF ClientInv, OneClient
    <3>2. InitialInv'
      BY <2>1, <2>3, <2>4, Zenon DEF ClientInv, InitialInv
    <3>3. SentInv'
      BY <2>1, <2>3, <2>4, RecordedConns, Zenon DEF ClientInv, SentInv
    <3>4. SendInv'
      BY <2>1, <2>3, <2>4, Zenon DEF ClientInv, SendInv
    <3>5. QED
      BY <3>1, <3>2, <3>3, <3>4, Zenon DEF ClientInv
<1>4. CASE CleanupOffline
  <2>1. /\ Registered = {} /\ stage = "idle"
        /\ UNCHANGED <<conn, initial, view, stage>>
    BY <1>4 DEF CleanupOffline, BaseInv, TypeOK
  <2>2. Registered' = {} /\ Recorded' = {} /\ \A c \in Conns : Knows(c)' = Knows(c)
    BY <2>1, Zenon DEF Registered, Recorded, Knows
  <2>3. QED
    <3>1. OneClient'
      BY <2>1, <2>2, Zenon DEF ClientInv, OneClient
    <3>2. InitialInv'
      BY <2>1, <2>2, Zenon DEF ClientInv, InitialInv
    <3>3. SentInv'
      BY <2>1, <2>2, RecordedConns, Zenon DEF ClientInv, SentInv
    <3>4. SendInv'
      BY <2>1, <2>2, Zenon DEF ClientInv, SendInv
    <3>5. QED
      BY <3>1, <3>2, <3>3, <3>4 DEF ClientInv
<1>5. QED
  BY <1>1, <1>2, <1>3, <1>4, Zenon

\* What Send does while one connection is open: nothing to the client, or it
\* loses the client, or client and lastSentPeers move together.
LEMMA SendCases ==
  ASSUME BaseInv, ClientInv, Send
  PROVE  /\ stage = "send" /\ stage' = "work"
         /\ \/ Ready = {} /\ UNCHANGED <<conn, initial, view, lastSent>>
            \/ \E c \in Ready :
                 /\ Ready = {c} /\ Registered = {c}
                 /\ conn' = [conn EXCEPT ![c] = "gone"]
                 /\ view' = [view EXCEPT ![c] = Nobody]
                 /\ UNCHANGED <<initial, lastSent>>
            \/ \E c \in Ready :
                 /\ Ready = {c} /\ Registered = {c}
                 /\ view' = [view EXCEPT ![c] = Apply(resp, view[c])]
                 /\ lastSent' = updateSentPeers(resp, lastSent)
                 /\ Knows(c)' = updateSentPeers(resp, Knows(c))
                 /\ UNCHANGED <<conn, initial>>
<1>1. PICK bad \in SUBSET Ready : Deliver(Ready \ bad, bad)
  BY Zenon DEF Send
<1>2. stage = "send" /\ stage' = "work" /\ initial' = initial
  BY <1>1, Zenon DEF Send, NextChange, Deliver
<1>3. /\ conn' = [d \in Conns |-> IF d \in bad THEN "gone" ELSE conn[d]]
      /\ view' = [d \in Conns |-> IF d \in bad THEN Nobody
                                  ELSE IF d \in Ready \ bad THEN Apply(resp, view[d]) ELSE view[d]]
      /\ lastSent' = IF Ready \ bad # {} THEN updateSentPeers(resp, lastSent) ELSE lastSent
  BY <1>1, Zenon DEF Deliver
<1>4. ConnType
  BY Halves, Zenon DEF BaseInv
<1>5. CASE Ready = {}
  BY <1>2, <1>3, <1>4, <1>5, Zenon DEF ConnType
<1>6. CASE Ready # {}
  <2>1. PICK c \in Ready : TRUE
    BY <1>6
  <2>2. c \in Conns /\ c \in Registered /\ c \in Recorded /\ Ready \subseteq Registered
    BY <2>1 DEF Ready, Registered, Recorded
  <2>3. Ready = {c} /\ Registered = {c}
    BY <2>1, <2>2 DEF ClientInv, OneClient
  <2>4. CASE bad = {c}
    <3>1. Ready \ bad = {}
      BY <2>3, <2>4
    <3>2. conn' = [conn EXCEPT ![c] = "gone"] /\ view' = [view EXCEPT ![c] = Nobody]
      BY <1>3, <1>4, <2>2, <2>4, <3>1, Zenon DEF ConnType
    <3>3. QED
      BY <1>2, <1>3, <2>1, <2>3, <3>1, <3>2, Zenon
  <2>5. CASE bad = {}
    <3>1. Ready \ bad = {c}
      BY <2>3, <2>5
    <3>2. /\ conn' = conn /\ view' = [view EXCEPT ![c] = Apply(resp, view[c])]
          /\ lastSent' = updateSentPeers(resp, lastSent)
      BY <1>3, <1>4, <2>2, <2>5, <3>1, Zenon DEF ConnType
    <3>3. view'[c] = Apply(resp, view[c])
      BY <1>4, <2>2, <3>2, Zenon DEF ConnType
    <3>4. IsResponse(resp) /\ (resp.all /\ DOMAIN resp.changed = {} => Knows(c) \subseteq resp.removed)
      BY <1>2, <2>2, Zenon DEF ClientInv, SentInv, SendInv
    <3>5. view[c] \in [Peers -> Known]
      BY <1>4, <2>2, Zenon DEF ConnType
    <3>6. Knows(c)' = updateSentPeers(resp, Knows(c))
      BY <3>3, <3>4, <3>5, ApplyFacts DEF Knows
    <3>7. QED
      BY <1>2, <2>1, <2>3, <3>2, <3>6, Zenon
  <2>6. QED
    BY <2>3, <2>4, <2>5
<1>7. QED
  BY <1>5, <1>6

\* Sending keeps lastSentPeers equal to what the client has.
LEMMA SendClient ==
  ASSUME BaseInv, ClientInv, Send
  PROVE  ClientInv'
<1>1. ConnType
  BY Halves, Zenon DEF BaseInv
<1>2. stage' = "work"
  BY SendCases
<1>3. CASE UNCHANGED <<conn, initial, view, lastSent>>
  BY <1>2, <1>3, QuietClient DEF QuietStep
<1>4. ASSUME NEW c \in Ready, Registered = {c}, conn' = [conn EXCEPT ![c] = "gone"],
             view' = [view EXCEPT ![c] = Nobody], UNCHANGED <<initial, lastSent>>
      PROVE  ClientInv'
  <2>1. c \in Conns /\ conn'[c] = "gone" /\ \A d \in Conns : d # c => conn'[d] = conn[d] /\ view'[d] = view[d]
    BY <1>1, <1>4, Zenon DEF Ready, ConnType
  <2>2. \A d \in Conns : d # c => conn[d] \in {"new", "gone"}
    BY <1>1, <1>4, Zenon DEF Registered, ConnType
  <2>3. Registered' = {} /\ Recorded' = {}
    BY <2>1, <2>2 DEF Registered, Recorded
  <2>4. QED
    <3>1. OneClient'
      BY <1>2, <1>4, <2>1, <2>2, <2>3, Zenon DEF ClientInv, OneClient
    <3>2. InitialInv'
      BY <1>2, <1>4, <2>1, <2>2, <2>3, Zenon DEF ClientInv, InitialInv
    <3>3. SentInv'
      BY <1>2, <1>4, <2>1, <2>2, <2>3, RecordedConns, Zenon DEF ClientInv, SentInv
    <3>4. SendInv'
      BY <1>2, <1>4, <2>1, <2>2, <2>3, Zenon DEF ClientInv, SendInv
    <3>5. QED
      BY <3>1, <3>2, <3>3, <3>4, Zenon DEF ClientInv
<1>5. ASSUME NEW c \in Ready, Registered = {c}, view' = [view EXCEPT ![c] = Apply(resp, view[c])],
             lastSent' = updateSentPeers(resp, lastSent),
             Knows(c)' = updateSentPeers(resp, Knows(c)), UNCHANGED <<conn, initial>>
      PROVE  ClientInv'
  <2>1. c \in Conns /\ conn[c] = "ready" /\ c \in Recorded
    BY Zenon DEF Ready, Recorded
  <2>2. \A d \in Conns : d # c => view'[d] = view[d] /\ conn[d] \in {"new", "gone"}
    BY <1>1, <1>5, Zenon DEF Registered, ConnType
  <2>3. Registered' = Registered /\ Recorded' = {c}
    BY <1>5, <2>1, <2>2, Zenon DEF Registered, Recorded
  <2>4. lastSent' = Knows(c)'
    BY <1>5, <2>1, Zenon DEF ClientInv, SentInv
  <2>5. \A d \in Conns : conn'[d] \in {"new", "waiting", "generated"} => view'[d] = Nobody
    BY <1>5, <2>1, <2>2, Zenon DEF ClientInv, OneClient
  <2>6. \A d \in Conns : conn'[d] \notin {"generated", "delivered"}
    BY <1>5, <2>1, <2>2, Zenon
  <2>7. QED
    <3>1. OneClient'
      BY <2>3, <2>5, Zenon DEF ClientInv, OneClient
    <3>2. InitialInv' /\ SendInv'
      BY <1>2, <2>6, Zenon DEF InitialInv, SendInv
    <3>3. SentInv'
      BY <2>3, <2>4, <2>6 DEF SentInv
    <3>4. QED
      BY <3>1, <3>2, <3>3, Zenon DEF ClientInv
<1>6. QED
  BY <1>3, <1>4, <1>5, SendCases

\* The steps of a connection: the initial map is recorded as the client's list.
LEMMA ConnClient ==
  ASSUME BaseInv, ClientInv, MaxOpen = 1, NEW c \in Conns,
         Register(c) \/ Adding(c) \/ AddFails(c) \/ RemoveNode(c)
  PROVE  ClientInv'
<1> USE DEF others, changeVars, workVars
<1>1. ConnType /\ initial = [d \in Conns |-> initial[d]]
  BY Halves, Zenon DEF BaseInv, ResponseInv
<1>2. UNCHANGED <<stage, resp>>
  BY DEF Register, Adding, GenerateInitial, DeliverInitial, RecordInitial, OpenForUpdates,
         AddFails, RemoveNode, Drop
<1>3. CASE Register(c)
  <2>1. Registered = {}
    BY <1>3, OneConnection, Zenon DEF BaseInv
  <2>2. /\ conn[c] = "new" /\ conn' = [conn EXCEPT ![c] = "waiting"]
        /\ UNCHANGED <<initial, view, lastSent>>
    BY <1>3 DEF Register
  <2>3. \A d \in Conns : conn[d] \in {"new", "gone"}
    BY <1>1, <2>1 DEF Registered, ConnType
  <2>4. Registered' = {c} /\ Recorded' = {}
    BY <1>1, <2>2, <2>3, Zenon DEF Registered, Recorded, ConnType
  <2>5. QED
    <3>1. OneClient'
      BY <1>1, <1>2, <2>2, <2>3, <2>4, Zenon DEF ConnType, ClientInv, OneClient
    <3>2. InitialInv'
      BY <1>1, <1>2, <2>2, <2>3, <2>4, Zenon DEF ConnType, ClientInv, InitialInv
    <3>3. SentInv'
      BY <1>1, <1>2, <2>2, <2>3, <2>4, RecordedConns, Zenon DEF ConnType, ClientInv, SentInv
    <3>4. SendInv'
      BY <1>1, <1>2, <2>2, <2>3, <2>4, Zenon DEF ConnType, ClientInv, SendInv
    <3>5. QED
      BY <3>1, <3>2, <3>3, <3>4, Zenon DEF ClientInv
<1>4. CASE GenerateInitial(c)
  <2> DEFINE full == generateMapResponse([kind |-> "full"])
  <2>1. /\ conn[c] = "waiting" /\ conn' = [conn EXCEPT ![c] = "generated"]
        /\ initial' = [initial EXCEPT ![c] = full]
        /\ stage \notin {"work", "send"}
        /\ UNCHANGED <<view, lastSent>>
    BY <1>4, Zenon DEF GenerateInitial, Locked
  <2>2. IsResponse(full)
    BY ResponseFacts DEF BaseInv, Changes
  <2>3. full.all /\ full.removed \cap DOMAIN full.changed = {}
    BY Zenon DEF generateMapResponse, buildFromChange, Nothing, Current, computePeerDiff
  <2> HIDE DEF full
  <2>4. initial'[c] = full /\ \A d \in Conns : d # c => initial'[d] = initial[d] /\ conn'[d] = conn[d]
    BY <1>1, <2>1, Zenon DEF ConnType
  <2>5. c \in Registered /\ Registered' = Registered /\ Recorded' = Recorded
    BY <1>1, <2>1, Zenon DEF Registered, Recorded, ConnType
  <2>6. \A d \in Conns : Knows(d)' = Knows(d)
    BY <2>1 DEF Knows
  <2>7. conn'[c] = "generated" /\ view'[c] = Nobody
    BY <1>1, <2>1, Zenon DEF ConnType, ClientInv, OneClient
  <2>8. \A d \in Conns : conn'[d] \in {"generated", "delivered"}
          => /\ IsResponse(initial'[d]) /\ initial'[d].all
             /\ initial'[d].removed \cap DOMAIN initial'[d].changed = {}
    BY <2>2, <2>3, <2>4, Zenon DEF ClientInv, InitialInv
  <2>9. QED
    <3>1. OneClient'
      BY <1>2, <2>1, <2>4, <2>5, <2>6, <2>7, <2>8, Zenon DEF ClientInv, OneClient
    <3>2. InitialInv'
      BY <1>2, <2>1, <2>4, <2>5, <2>6, <2>7, <2>8, Zenon DEF ClientInv, InitialInv
    <3>3. SentInv'
      BY <1>2, <2>1, <2>4, <2>5, <2>6, <2>7, <2>8, RecordedConns DEF ClientInv, SentInv
    <3>4. SendInv'
      BY <1>2, <2>1, <2>4, <2>5, <2>6, <2>7, <2>8, Zenon DEF ClientInv, SendInv
    <3>5. QED
      BY <3>1, <3>2, <3>3, <3>4 DEF ClientInv
<1>5. CASE DeliverInitial(c)
  <2>1. /\ conn[c] = "generated" /\ conn' = [conn EXCEPT ![c] = "delivered"]
        /\ view' = [view EXCEPT ![c] = Apply(initial[c], view[c])]
        /\ UNCHANGED <<initial, lastSent>>
    BY <1>5, Zenon DEF DeliverInitial
  <2>2. /\ IsResponse(initial[c]) /\ initial[c].all
        /\ initial[c].removed \cap DOMAIN initial[c].changed = {} /\ view[c] = Nobody
    BY <2>1, Zenon DEF ClientInv, OneClient, InitialInv
  <2>3. view[c] \in [Peers -> Known] /\ {p \in Peers : view[c][p] # "unknown"} = {}
    BY <1>1, <2>2, Zenon DEF ConnType, Nobody
  <2>4. {p \in Peers : Apply(initial[c], view[c])[p] # "unknown"} = updateSentPeers(initial[c], {})
    BY <2>2, <2>3, ApplyFacts, ZenonT(30)
  <2>5. updateSentPeers(initial[c], {}) = DOMAIN initial[c].changed
    BY <2>2, Zenon DEF updateSentPeers
  <2>6. view'[c] = Apply(initial[c], view[c])
    BY <1>1, <2>1, Zenon DEF ConnType
  <2>7. Knows(c)' = DOMAIN initial'[c].changed
    BY <2>1, <2>4, <2>5, <2>6, Zenon DEF Knows
  <2>8. \A d \in Conns : d # c => view'[d] = view[d] /\ conn'[d] = conn[d] /\ Knows(d)' = Knows(d)
    BY <1>1, <2>1, Zenon DEF ConnType, Knows
  <2>9. conn'[c] = "delivered" /\ Registered' = Registered /\ Recorded' = Recorded /\ c \notin Recorded
    BY <1>1, <2>1, Zenon DEF Registered, Recorded, ConnType
  <2>10. QED
    <3>1. OneClient'
      BY <1>2, <2>1, <2>2, <2>7, <2>8, <2>9, Zenon DEF ClientInv, OneClient, Recorded
    <3>2. InitialInv'
      BY <1>2, <2>1, <2>2, <2>7, <2>8, <2>9, Zenon DEF ClientInv, InitialInv, Recorded
    <3>3. SentInv'
      BY <1>2, <2>1, <2>2, <2>7, <2>8, <2>9, RecordedConns, ZenonT(30) DEF ClientInv, SentInv, Recorded
    <3>4. SendInv'
      BY <1>2, <2>1, <2>2, <2>7, <2>8, <2>9, Zenon DEF ClientInv, SendInv, Recorded
    <3>5. QED
      BY <3>1, <3>2, <3>3, <3>4 DEF ClientInv
<1>6. CASE RecordInitial(c)
  <2>1. /\ conn[c] = "delivered" /\ conn' = [conn EXCEPT ![c] = "recorded"]
        /\ lastSent' = updateSentPeers(initial[c], lastSent)
        /\ initial' = [initial EXCEPT ![c] = Nothing]
        /\ stage \notin {"work", "send"}
        /\ UNCHANGED view
    BY <1>6 DEF RecordInitial, Locked
  <2>2. /\ IsResponse(initial[c]) /\ initial[c].all
        /\ initial[c].removed \cap DOMAIN initial[c].changed = {}
        /\ Knows(c) = DOMAIN initial[c].changed
    BY <2>1, Zenon DEF ClientInv, InitialInv, SentInv
  <2>3. lastSent' = Knows(c)
    BY <2>1, <2>2, Zenon DEF updateSentPeers
  <2>4. c \in Registered /\ Registered' = Registered /\ conn'[c] = "recorded"
    BY <1>1, <2>1, Zenon DEF Registered, ConnType
  <2>5. \A d \in Conns : d # c => initial'[d] = initial[d] /\ conn'[d] = conn[d]
    BY <1>1, <2>1, Zenon DEF ConnType
  <2>6. \A d \in Conns : Knows(d)' = Knows(d)
    BY <2>1 DEF Knows
  <2>7. Recorded' \subseteq Registered'
    BY Zenon DEF Recorded, Registered
  <2>8. Recorded' \subseteq {c}
    BY <2>4, <2>7, Zenon DEF ClientInv, OneClient
  <2>9. QED
    <3>1. OneClient'
      BY <1>2, <2>1, <2>3, <2>4, <2>5, <2>6, <2>8, Zenon DEF ClientInv, OneClient
    <3>2. InitialInv'
      BY <1>2, <2>1, <2>3, <2>4, <2>5, <2>6, <2>8, Zenon DEF ClientInv, InitialInv
    <3>3. SentInv'
      BY <1>2, <2>1, <2>3, <2>4, <2>5, <2>6, <2>8, RecordedConns, Zenon DEF ClientInv, SentInv
    <3>4. SendInv'
      BY <1>2, <2>1, <2>3, <2>4, <2>5, <2>6, <2>8, Zenon DEF ClientInv, SendInv
    <3>5. QED
      BY <3>1, <3>2, <3>3, <3>4 DEF ClientInv
<1>7. CASE OpenForUpdates(c)
  <2>1. /\ conn[c] = "recorded" /\ conn' = [conn EXCEPT ![c] = "ready"]
        /\ UNCHANGED <<initial, view, lastSent>>
    BY <1>7, Zenon DEF OpenForUpdates
  <2>2. Registered' = Registered /\ Recorded' = Recorded /\ conn'[c] = "ready"
        /\ \A d \in Conns : d # c => conn'[d] = conn[d]
    BY <1>1, <2>1, Zenon DEF Registered, Recorded, ConnType
  <2>3. \A d \in Conns : Knows(d)' = Knows(d)
    BY <2>1, Zenon DEF Knows
  <2>4. QED
    <3>1. OneClient'
      BY <1>2, <2>1, <2>2, <2>3 DEF ClientInv, OneClient
    <3>2. InitialInv'
      BY <1>2, <2>1, <2>2, <2>3, Zenon DEF ClientInv, InitialInv
    <3>3. SentInv'
      BY <1>2, <2>1, <2>2, <2>3, RecordedConns, Zenon DEF ClientInv, SentInv
    <3>4. SendInv'
      BY <1>2, <2>1, <2>2, <2>3, Zenon DEF ClientInv, SendInv
    <3>5. QED
      BY <3>1, <3>2, <3>3, <3>4 DEF ClientInv
<1>8. CASE AddFails(c) \/ RemoveNode(c)
  <2>1. /\ conn' = [conn EXCEPT ![c] = "gone"]
        /\ initial' = [initial EXCEPT ![c] = Nothing]
        /\ view' = [view EXCEPT ![c] = Nobody]
        /\ UNCHANGED lastSent
    BY <1>8, Zenon DEF AddFails, RemoveNode, Drop
  <2>2. Registered' \subseteq Registered /\ Recorded' \subseteq Recorded /\ conn'[c] = "gone"
    BY <1>1, <2>1, Zenon DEF Registered, Recorded, ConnType
  <2>3. \A d \in Conns : d # c => initial'[d] = initial[d] /\ conn'[d] = conn[d] /\ view'[d] = view[d]
                                  /\ Knows(d)' = Knows(d)
    BY <1>1, <2>1, Zenon DEF ConnType, Knows
  <2>4. c \notin Recorded'
    BY <2>2 DEF Recorded
  <2>5. QED
    <3>1. OneClient'
      BY <1>2, <2>1, <2>2, <2>3, <2>4, Zenon DEF ClientInv, OneClient
    <3>2. InitialInv'
      BY <1>2, <2>1, <2>2, <2>3, <2>4, Zenon DEF ClientInv, InitialInv
    <3>3. SentInv'
      BY <1>2, <2>1, <2>2, <2>3, <2>4, RecordedConns, Zenon DEF ClientInv, SentInv
    <3>4. SendInv'
      BY <1>2, <2>1, <2>2, <2>3, <2>4, Zenon DEF ClientInv, SendInv
    <3>5. QED
      BY <3>1, <3>2, <3>3, <3>4 DEF ClientInv
<1>9. QED
  BY <1>3, <1>4, <1>5, <1>6, <1>7, <1>8, Zenon DEF Adding
-----------------------------------------------------------------------------
(* One connection at a time: nothing the client lacks is lost.              *)

\* The two halves of DeliveryInv.
Corrected(c, p) ==
  \/ p \in Believed(c) <=> p \in Visible
  \/ \E ch \in Underway : Covers(ch, p)

SendCorrects(c, p) ==
  \/ p \in updateSentPeers(resp, Knows(c)) <=> p \in Visible
  \/ \E ch \in Waiting : Covers(ch, p)

\* Covering depends on the peer's visibility only.
LEMMA CoversKept ==
  ASSUME NEW ch, NEW p, p \in Visible' <=> p \in Visible
  PROVE  Covers(ch, p)' <=> Covers(ch, p)
BY DEF Covers

\* A step that leaves the clients alone, loses no change and generates no
\* response keeps the invariant.
LEMMA QuietDelivery ==
  ASSUME DeliveryInv, UNCHANGED <<truth, conn, initial, view>>, Underway \subseteq Underway',
         stage' # "send" \/ (stage' = stage /\ resp' = resp /\ Waiting \subseteq Waiting')
  PROVE  DeliveryInv'
<1>1. Mapped' = Mapped /\ Recorded' = Recorded /\ Visible' = Visible
  BY Zenon DEF Mapped, Recorded, Visible
<1>2. \A c \in Conns : Believed(c)' = Believed(c) /\ Knows(c)' = Knows(c)
  BY DEF Believed, Knows
<1>3. \A ch \in Underway \cup Waiting, p \in Peers : Covers(ch, p)' <=> Covers(ch, p)
  BY <1>1 DEF Covers
<1>4. Mapped \subseteq Conns
  BY Zenon DEF Mapped
<1> SUFFICES ASSUME NEW c \in Mapped, NEW p \in Peers
             PROVE  Corrected(c, p)' /\ (stage' = "send" /\ c \in Recorded' => SendCorrects(c, p)')
  BY <1>1, Zenon DEF DeliveryInv, Corrected, SendCorrects
<1>5. Corrected(c, p)'
  BY <1>1, <1>2, <1>3, <1>4, ZenonT(30) DEF DeliveryInv, Corrected
<1>6. ASSUME stage' = "send", c \in Recorded' PROVE SendCorrects(c, p)'
  BY <1>1, <1>2, <1>3, <1>4, <1>6, ZenonT(30) DEF DeliveryInv, SendCorrects, updateSentPeers
<1>7. QED
  BY <1>5, <1>6

\* A published change covers the peer whose visibility it moved.
LEMMA PublishDelivery ==
  ASSUME BaseInv, DeliveryInv, Publisher
  PROVE  DeliveryInv'
<1> USE DEF changeVars, workVars, connVars
<1>1. PICK ch \in Changes : Published(ch)
  BY MakeFacts, Zenon DEF BaseInv
<1>2. Range(transit) = {} /\ Range(transit') = {ch}
  BY <1>1 DEF Published, Range
<1>3. Underway' = Underway \cup {ch} /\ Waiting' = Waiting \cup {ch}
  BY <1>1, <1>2, Zenon DEF Published, Underway, Waiting
<1>4. Mapped' = Mapped /\ Recorded' = Recorded /\ stage' = stage /\ resp' = resp
  BY <1>1, Zenon DEF Published, Mapped, Recorded
<1>5. \A c \in Conns : Believed(c)' = Believed(c) /\ Knows(c)' = Knows(c)
  BY <1>1 DEF Published, Believed, Knows
<1>6. Mapped \subseteq Conns
  BY Zenon DEF Mapped
<1> SUFFICES ASSUME NEW c \in Mapped, NEW p \in Peers
             PROVE  Corrected(c, p)' /\ (stage' = "send" /\ c \in Recorded' => SendCorrects(c, p)')
  BY <1>4 DEF DeliveryInv, Corrected, SendCorrects
<1>7. CASE Covers(ch, p)'
  BY <1>3, <1>7 DEF Corrected, SendCorrects
<1>8. CASE p \in Visible' <=> p \in Visible
  <2>1. \A d : Covers(d, p)' <=> Covers(d, p)
    BY <1>8, CoversKept, Zenon
  <2>2. Corrected(c, p)'
    BY <1>3, <1>5, <1>6, <1>8, <2>1, Zenon DEF DeliveryInv, Corrected
  <2>3. ASSUME stage' = "send", c \in Recorded' PROVE SendCorrects(c, p)'
    BY <1>3, <1>4, <1>5, <1>6, <1>8, <2>1, <2>3, Zenon DEF DeliveryInv, SendCorrects, updateSentPeers
  <2>4. QED
    BY <2>2, <2>3
<1>9. QED
  BY <1>1, <1>7, <1>8 DEF Published

\* A full update that replaces the pending changes covers every peer.
LEMMA QueueDelivery ==
  ASSUME BaseInv, DeliveryInv, AddWork
  PROVE  DeliveryInv'
<1> USE DEF changeVars, workVars, connVars
<1>1. QueueType
  BY Halves DEF BaseInv
<1>2. /\ transit # <<>> /\ transit' = <<>>
      /\ pending' = IF transit[1].kind = "full" THEN transit ELSE pending \o transit
      /\ UNCHANGED <<truth, conn, initial, view, stage, resp, bundle, retry>>
  BY Zenon DEF AddWork
<1>3. transit[1] \in Range(transit) /\ transit[1] \in Changes
  BY <1>1, <1>2 DEF QueueType, Range
<1>4. CASE transit[1].kind = "full"
  <2>1. PICK ch \in Changes : ch = transit[1]
    BY <1>3, Zenon
  <2>2. ch \in Underway' /\ ch \in Waiting'
    BY <1>2, <1>3, <1>4, <2>1, Zenon DEF Underway, Waiting
  <2>3. \A p \in Peers : Covers(ch, p)'
    BY <1>4, <2>1, Zenon DEF Covers
  <2>4. \A c \in Mapped', p \in Peers : Corrected(c, p)' /\ SendCorrects(c, p)'
    BY <2>2, <2>3, Zenon DEF Corrected, SendCorrects
  <2>5. QED
    BY <2>4 DEF DeliveryInv, Corrected, SendCorrects
<1>5. CASE transit[1].kind # "full"
  <2>1. Range(pending') = Range(pending) \cup Range(transit) /\ Range(transit') = {}
    <3>1. pending \in Seq(Changes) /\ transit \in Seq(Changes)
      BY <1>1 DEF QueueType
    <3>2. Range(pending \o transit) = Range(pending) \cup Range(transit)
      BY <3>1, ConcatChanges, Zenon
    <3>3. Range(transit') = {}
      BY <1>2 DEF Range
    <3>4. QED
      BY <1>2, <1>5, <3>2, <3>3, Zenon
  <2>2. Underway' = Underway /\ Waiting' = Waiting
    BY <1>2, <2>1 DEF Underway, Waiting
  <2>3. QED
    BY <1>2, <2>2, QuietDelivery, Zenon
<1>6. QED
  BY <1>4, <1>5, Zenon

\* The ticker, the worker outside of sending, and Close.
LEMMA WorkerDelivery ==
  ASSUME BaseInv, ClientInv, DeliveryInv,
         Tick \/ Work \/ Finish \/ CleanupOffline \/ CloseDone \/ CloseConns \/ UNCHANGED vars
  PROVE  DeliveryInv'
<1> USE DEF changeVars, workVars, connVars
<1>1. QueueType
  BY Halves DEF BaseInv
<1>2. CASE Tick
  <2>1. /\ ~inFlight /\ stage' = "queued"
        /\ bundle' = DedupePolicyChanges(pending) /\ pending' = <<>>
        /\ UNCHANGED <<truth, transit, retry, conn, initial, view>>
    BY <1>2, Zenon DEF Tick
  <2>2. bundle = <<>>
    BY <1>1, <2>1, Zenon DEF QueueType, BaseInv, WorkInv
  <2>3. Range(bundle') = Range(pending)
    BY <1>1, <2>1, DedupeFacts, Zenon DEF QueueType
  <2>4. Underway \subseteq Underway'
    BY <2>1, <2>2, <2>3, Zenon DEF Underway, Range
  <2>5. QED
    BY <2>1, <2>4, QuietDelivery, Zenon
<1>3. CASE Work
  <2>1. UNCHANGED <<truth, conn, initial, view, transit, pending, bundle, retry>> /\ stage' = "work"
    BY <1>3, Zenon DEF Work
  <2>2. Underway' = Underway
    BY <2>1, Zenon DEF Underway
  <2>3. QED
    BY <2>1, <2>2, QuietDelivery, Zenon
<1>4. CASE Finish
  <2>1. /\ pending' = retry \o pending /\ retry' = <<>> /\ stage' = "idle"
        /\ UNCHANGED <<truth, transit, bundle, conn, initial, view>>
    BY <1>4 DEF Finish
  <2>2. retry \in Seq(Changes) /\ pending \in Seq(Changes)
    BY <1>1, Zenon DEF QueueType
  <2>3. Range(pending') = Range(retry) \cup Range(pending)
    BY <2>1, <2>2, ConcatChanges, Zenon
  <2>4. Range(transit') = Range(transit) /\ Range(bundle') = Range(bundle)
    BY <2>1, Zenon
  <2>5. Underway \subseteq Underway'
    BY <2>3, <2>4, Zenon DEF Underway
  <2>6. QED
    BY <2>1, <2>5, QuietDelivery, Zenon
<1>5. CASE CleanupOffline
  <2>1. Registered = {} /\ conn' = conn
    BY <1>5, Zenon DEF CleanupOffline
  <2>2. Mapped' = {}
    BY <2>1, Zenon DEF Mapped, Registered
  <2>3. QED
    BY <2>2, Zenon DEF DeliveryInv
<1>6. CASE CloseDone \/ CloseConns \/ UNCHANGED vars
  <2>1. UNCHANGED <<truth, conn, initial, view, stage, resp, transit, pending, bundle, retry>>
    BY <1>6, Zenon DEF CloseDone, CloseConns, vars
  <2>2. Underway' = Underway /\ Waiting' = Waiting
    BY <2>1 DEF Underway, Waiting
  <2>3. QED
    BY <2>1, <2>2, QuietDelivery, Zenon
<1>7. QED
  BY <1>2, <1>3, <1>4, <1>5, <1>6, Zenon

\* The generated response corrects what its change covers, the rest is waiting.
LEMMA GenerateDelivery ==
  ASSUME BaseInv, ClientInv, DeliveryInv, Generate
  PROVE  DeliveryInv'
<1> USE DEF changeVars, workVars, connVars
<1>1. QueueType
  BY Halves, Zenon DEF BaseInv
<1>2. /\ bundle # <<>> /\ resp' = generateMapResponse(Head(bundle))
      /\ UNCHANGED <<truth, conn, initial, view, transit, pending, bundle, retry, lastSent>>
  BY DEF Generate
<1>3. Head(bundle) \in Changes /\ Range(bundle) = {Head(bundle)} \cup Range(Tail(bundle))
  <2>1. bundle \in Seq(Changes) /\ Head(bundle) \in Changes
    BY <1>1, <1>2 DEF QueueType
  <2>2. QED
    BY <1>2, <2>1, RangeFacts, Zenon
<1>4. Underway = Waiting \cup {Head(bundle)}
  BY <1>3, Zenon DEF Underway, Waiting
<1>5. Underway' = Underway /\ Waiting' = Waiting
  BY <1>2, Zenon DEF Underway, Waiting
<1>6. Mapped' = Mapped /\ Recorded' = Recorded /\ Visible' = Visible
  BY <1>2, Zenon DEF Mapped, Recorded, Visible
<1>7. \A c \in Conns : Believed(c)' = Believed(c) /\ Knows(c)' = Knows(c)
  BY <1>2 DEF Believed, Knows
<1>8. Mapped \subseteq Conns /\ Recorded \subseteq Mapped
  BY Zenon DEF Mapped, Recorded
<1>9. \A ch, p : Covers(ch, p)' <=> Covers(ch, p)
  BY <1>6, Zenon DEF Covers
<1>10. Head(bundle).kind = "removed" => truth[Head(bundle).peer] = "deleted"
  BY <1>4, Zenon DEF BaseInv, WorkInv
<1> SUFFICES ASSUME NEW c \in Mapped, NEW p \in Peers
             PROVE  Corrected(c, p)' /\ (c \in Recorded => SendCorrects(c, p)')
  BY <1>6, Zenon DEF DeliveryInv, Corrected, SendCorrects
<1>11. Corrected(c, p)
  BY Zenon DEF DeliveryInv, Corrected
<1>12. Corrected(c, p)'
  BY <1>5, <1>6, <1>7, <1>8, <1>9, <1>11, ZenonT(30) DEF Corrected
<1>13. ASSUME c \in Recorded PROVE SendCorrects(c, p)'
  <2>1. lastSent = Knows(c) /\ Believed(c) = Knows(c)
    BY <1>13, Zenon DEF ClientInv, SentInv, Recorded, Believed
  <2>2. CASE p \in updateSentPeers(generateMapResponse(Head(bundle)), lastSent) <=> p \in Visible
    BY <1>2, <1>6, <1>7, <1>8, <2>1, <2>2, Zenon DEF SendCorrects, updateSentPeers
  <2>3. CASE ~Covers(Head(bundle), p) /\ ~(p \in lastSent <=> p \in Visible)
    <3>1. PICK ch \in Underway : Covers(ch, p)
      BY <1>11, <2>1, <2>3, Zenon DEF Corrected
    <3>2. ch \in Waiting
      BY <1>4, <2>3, <3>1, Zenon
    <3>3. QED
      BY <1>5, <1>9, <3>1, <3>2, Zenon DEF SendCorrects
  <2>4. QED
    BY <1>3, <1>10, <2>2, <2>3, GenerateFacts, ZenonT(30) DEF BaseInv
<1>14. QED
  BY <1>12, <1>13

\* A response that is sent corrects the client; one that nobody was ready for
\* is retried.
LEMMA SendDelivery ==
  ASSUME BaseInv, ClientInv, DeliveryInv, Send
  PROVE  DeliveryInv'
<1> USE DEF changeVars, workVars, connVars
<1>1. QueueType /\ ConnType
  BY Halves DEF BaseInv
<1>2. /\ stage = "send" /\ stage' = "work" /\ bundle # <<>> /\ bundle' = Tail(bundle)
      /\ retry' = IF Registered # {} /\ Ready = {} THEN Append(retry, Head(bundle)) ELSE retry
      /\ UNCHANGED <<truth, transit, pending>>
  BY Zenon DEF Send, NextChange, BaseInv, WorkInv
<1>3. Head(bundle) \in Changes /\ Range(bundle) = {Head(bundle)} \cup Range(bundle')
  <2>1. bundle \in Seq(Changes) /\ Head(bundle) \in Changes
    BY <1>1, <1>2 DEF QueueType
  <2>2. QED
    BY <1>2, <2>1, RangeFacts, Zenon
<1>4. Visible' = Visible /\ \A ch, p : Covers(ch, p)' <=> Covers(ch, p)
  BY <1>2 DEF Visible, Covers
<1>5. CASE Ready = {} /\ UNCHANGED <<conn, initial, view>>
  <2>1. CASE Registered = {}
    <3>1. Mapped' = {}
      BY <1>5, <2>1, Zenon DEF Mapped, Registered
    <3>2. QED
      BY <3>1 DEF DeliveryInv
  <2>2. CASE Registered # {}
    <3>1. Range(retry') = Range(retry) \cup {Head(bundle)}
      <4>1. retry \in Seq(Changes)
        BY <1>1 DEF QueueType
      <4>2. Range(Append(retry, Head(bundle))) = Range(retry) \cup {Head(bundle)}
        BY <1>3, <4>1, AppendChange, Zenon
      <4>3. QED
        BY <1>2, <1>5, <2>2, <4>2
    <3>2. Underway \subseteq Underway'
      <4>1. Range(transit') = Range(transit) /\ Range(pending') = Range(pending)
        BY <1>2, Zenon
      <4>2. QED
        BY <1>3, <3>1, <4>1, Zenon DEF Underway
    <3>3. QED
      BY <1>2, <1>5, <3>2, QuietDelivery, ZenonT(30)
  <2>3. QED
    BY <2>1, <2>2, Zenon
<1>6. ASSUME NEW c \in Ready, Registered = {c}, conn' = [conn EXCEPT ![c] = "gone"]
      PROVE  DeliveryInv'
  <2>1. c \in Conns /\ \A d \in Conns : d # c => d \notin Registered
    BY <1>6, Zenon DEF Ready
  <2>2. \A d \in Conns : conn'[d] = IF d = c THEN "gone" ELSE conn[d]
    BY <1>1, <1>6, Zenon DEF ConnType
  <2>3. Mapped' = {}
    BY <2>1, <2>2, Zenon DEF Mapped, Registered
  <2>4. QED
    BY <2>3 DEF DeliveryInv
<1>7. ASSUME NEW c \in Ready, Ready = {c}, Registered = {c}, conn' = conn,
             Knows(c)' = updateSentPeers(resp, Knows(c))
      PROVE  DeliveryInv'
  <2>1. c \in Conns /\ conn[c] = "ready" /\ c \in Recorded /\ c \in Mapped
    BY Zenon DEF Ready, Recorded, Mapped
  <2>2. Mapped' \subseteq {c}
    BY <1>7, Zenon DEF Mapped, Registered
  <2>3. retry' = retry
    BY <1>2, <1>7, Zenon
  <2>4. Underway' = Waiting
    BY <1>2, <2>3, Zenon DEF Underway, Waiting
  <2>5. Believed(c)' = updateSentPeers(resp, Knows(c))
    BY <1>7, <2>1, Zenon DEF Believed
  <2>6. ASSUME NEW p \in Peers PROVE Corrected(c, p)'
    <3>1. SendCorrects(c, p)
      BY <1>2, <2>1, Zenon DEF DeliveryInv, SendCorrects
    <3>2. QED
      BY <1>4, <2>4, <2>5, <3>1, Zenon DEF SendCorrects, Corrected
  <2>7. QED
    BY <1>2, <2>2, <2>6, Zenon DEF DeliveryInv, Corrected
<1>8. QED
  BY <1>5, <1>6, <1>7, SendCases, Zenon

\* The initial map is right when it is generated, and what changes until it is
\* recorded is under way.
LEMMA ConnDelivery ==
  ASSUME BaseInv, ClientInv, ClientInv', DeliveryInv, NEW c \in Conns,
         Register(c) \/ Adding(c) \/ AddFails(c) \/ RemoveNode(c)
  PROVE  DeliveryInv'
<1> USE DEF others, changeVars, workVars
<1>1. ConnType /\ initial = [d \in Conns |-> initial[d]]
  BY Halves, Zenon DEF BaseInv, ResponseInv
<1>2. UNCHANGED <<truth, stage, resp, transit, pending, bundle, retry>>
  BY Zenon DEF Register, Adding, GenerateInitial, DeliverInitial, RecordInitial, OpenForUpdates,
         AddFails, RemoveNode, Drop
<1>3. Visible' = Visible /\ \A ch, p : Covers(ch, p)' <=> Covers(ch, p)
  BY <1>2, Zenon DEF Visible, Covers
<1>4. Underway' = Underway /\ Waiting' = Waiting
  BY <1>2, Zenon DEF Underway, Waiting
<1>5. Mapped \subseteq Conns /\ Mapped' \subseteq Conns
  BY DEF Mapped
<1>6. \A d \in Conns : d # c => conn'[d] = conn[d] /\ view'[d] = view[d] /\ initial'[d] = initial[d]
  BY <1>1, Zenon DEF Register, Adding, GenerateInitial, DeliverInitial, RecordInitial, OpenForUpdates,
              AddFails, RemoveNode, Drop, ConnType
<1>7. ASSUME NEW d \in Mapped', NEW p \in Peers, d # c
      PROVE  Corrected(d, p)' /\ (stage' = "send" /\ d \in Recorded' => SendCorrects(d, p)')
  <2>1. d \in Conns /\ d \in Mapped /\ (d \in Recorded' <=> d \in Recorded)
    BY <1>5, <1>6, <1>7, Zenon DEF Mapped, Recorded
  <2>2. Believed(d)' = Believed(d) /\ Knows(d)' = Knows(d)
    BY <1>6, <1>7, <2>1, Zenon DEF Believed, Knows
  <2>3. Corrected(d, p) /\ (stage = "send" /\ d \in Recorded => SendCorrects(d, p))
    BY <2>1, Zenon DEF DeliveryInv, Corrected, SendCorrects
  <2>4. Corrected(d, p)'
    BY <1>3, <1>4, <2>2, <2>3 DEF Corrected
  <2>5. stage' = "send" /\ d \in Recorded' => SendCorrects(d, p)'
    BY <1>2, <1>3, <1>4, <2>1, <2>2, <2>3, Zenon DEF SendCorrects, updateSentPeers
  <2>6. QED
    BY <2>4, <2>5
<1>8. ASSUME c \in Mapped', NEW p \in Peers
      PROVE  Corrected(c, p)' /\ (stage' = "send" /\ c \in Recorded' => SendCorrects(c, p)')
  <2>1. CASE Register(c) \/ AddFails(c) \/ RemoveNode(c)
    <3>1. conn'[c] \in {"waiting", "gone"}
      BY <1>1, <2>1, Zenon DEF Register, AddFails, RemoveNode, Drop, ConnType
    <3>2. QED
      BY <1>8, <3>1, Zenon DEF Mapped
  <2>2. CASE GenerateInitial(c)
    <3>1. /\ conn'[c] = "generated" /\ stage # "send"
          /\ initial' = [initial EXCEPT ![c] = generateMapResponse([kind |-> "full"])]
      BY <1>1, <2>2, Zenon DEF GenerateInitial, ConnType, Locked
    <3>2. initial'[c] = generateMapResponse([kind |-> "full"])
      BY <1>1, <3>1, Zenon
    <3>3. DOMAIN initial'[c].changed = Visible
      <4>1. generateMapResponse([kind |-> "full"]).changed = Current(Visible)
        BY Zenon DEF generateMapResponse, buildFromChange, Nothing
      <4>2. QED
        BY <3>2, <4>1, Zenon DEF Current
    <3>4. Believed(c)' = Visible'
      BY <1>3, <3>1, <3>3, Zenon DEF Believed
    <3>5. QED
      BY <1>2, <3>1, <3>4, Zenon DEF Corrected
  <2>3. CASE DeliverInitial(c)
    <3>1. conn[c] = "generated" /\ conn'[c] = "delivered" /\ initial' = initial
      BY <1>1, <2>3 DEF DeliverInitial, ConnType
    <3>2. Believed(c)' = Believed(c)
      BY <3>1, Zenon DEF Believed, ClientInv, SentInv
    <3>3. Corrected(c, p) /\ c \notin Recorded'
      BY <3>1, Zenon DEF DeliveryInv, Corrected, Mapped, Recorded
    <3>4. QED
      BY <1>3, <1>4, <3>2, <3>3, ZenonT(30) DEF Corrected
  <2>4. CASE RecordInitial(c)
    <3>1. conn[c] = "delivered" /\ conn'[c] = "recorded" /\ view' = view /\ stage # "send"
      BY <1>1, <2>4, Zenon DEF RecordInitial, ConnType, Locked
    <3>2. Believed(c)' = Believed(c)
      BY <3>1, Zenon DEF Believed, Knows
    <3>3. Corrected(c, p)
      BY <3>1, Zenon DEF DeliveryInv, Corrected, Mapped
    <3>4. QED
      BY <1>2, <1>3, <1>4, <3>1, <3>2, <3>3, Zenon DEF Corrected
  <2>5. CASE OpenForUpdates(c)
    <3>1. conn[c] = "recorded" /\ conn'[c] = "ready" /\ view' = view
      BY <1>1, <2>5, Zenon DEF OpenForUpdates, ConnType
    <3>2. Believed(c)' = Believed(c) /\ Knows(c)' = Knows(c)
      BY <3>1, Zenon DEF Believed, Knows
    <3>3. Corrected(c, p) /\ (stage = "send" => SendCorrects(c, p))
      BY <3>1, Zenon DEF DeliveryInv, Corrected, SendCorrects, Mapped, Recorded
    <3>4. Corrected(c, p)'
      BY <1>3, <1>4, <3>2, <3>3, Zenon DEF Corrected
    <3>5. stage' = "send" => SendCorrects(c, p)'
      BY <1>2, <1>3, <1>4, <3>2, <3>3, Zenon DEF SendCorrects, updateSentPeers
    <3>6. QED
      BY <3>4, <3>5, Zenon
  <2>6. QED
    BY <2>1, <2>2, <2>3, <2>4, <2>5, Zenon DEF Adding
<1>9. QED
  BY <1>7, <1>8, Zenon DEF DeliveryInv, Corrected, SendCorrects

\* The inductive invariant of a node with one connection at a time.
StreamInv == BaseInv /\ ClientInv /\ DeliveryInv

\* It holds at the start.
LEMMA InitStream == Init => StreamInv
<1> SUFFICES ASSUME Init PROVE ClientInv /\ DeliveryInv
  BY InitBase, Zenon DEF StreamInv
<1>1. Registered = {} /\ Recorded = {} /\ Mapped = {}
  BY DEF Init, Registered, Recorded, Mapped
<1>2. QED
  BY <1>1, Zenon DEF Init, ClientInv, OneClient, InitialInv, SentInv, SendInv, DeliveryInv

\* Every step keeps it.
LEMMA NextStream ==
  ASSUME MaxOpen = 1, StreamInv, [Next]_vars
  PROVE  StreamInv'
<1>1. BaseInv'
  BY NextBase, Zenon DEF StreamInv
<1>2. ClientInv'
  BY ServerClient, SendClient, ConnClient, Zenon DEF StreamInv, Next, Workers
<1>3. DeliveryInv'
  BY <1>2, PublishDelivery, QueueDelivery, WorkerDelivery, GenerateDelivery, SendDelivery,
     ConnDelivery, Zenon DEF StreamInv, Next, Workers
<1>4. QED
  BY <1>1, <1>2, <1>3 DEF StreamInv

\* It holds throughout.
LEMMA StreamHolds ==
  ASSUME MaxOpen = 1
  PROVE  Spec => []StreamInv
<1>1. StreamInv /\ [Next]_vars => StreamInv'
  BY NextStream
<1>2. QED
  BY <1>1, InitStream, PTL DEF Spec

\* While a node has one connection at a time, lastSentPeers is what its client
\* has whenever everything is delivered: the removals that generateMapResponse
\* and policyChangeResponse compute from it are right.
THEOREM SentPeersStayExact ==
  ASSUME MaxOpen = 1
  PROVE  Spec => []SentPeersExact
<1>1. StreamInv => SentPeersExact
  <2> SUFFICES ASSUME StreamInv, NEW c \in Ready PROVE lastSent = Knows(c)
    BY DEF SentPeersExact
  <2>1. c \in Recorded
    BY Zenon DEF Ready, Recorded
  <2>2. QED
    BY <2>1, Zenon DEF StreamInv, ClientInv, SentInv
<1>2. QED
  BY <1>1, StreamHolds, PTL

\* While a node has one connection at a time, its client ends up with exactly
\* the peers in sight, whatever changes met the initial map, replaced one
\* another in pending, were deduplicated or retried.
THEOREM PeerListsAreRight ==
  ASSUME MaxOpen = 1
  PROVE  Spec => []PeerListsConverge
<1>1. StreamInv => PeerListsConverge
  <2> SUFFICES ASSUME StreamInv, Drained, NEW c \in Ready PROVE Knows(c) = Visible
    BY Zenon DEF PeerListsConverge
  <2>1. stage = "idle" /\ transit = <<>> /\ pending = <<>> /\ bundle = <<>> /\ retry = <<>>
    BY Zenon DEF Drained, StreamInv, BaseInv, TypeOK, WorkInv
  <2>2. Underway = {}
    BY <2>1 DEF Underway, Range
  <2>3. c \in Mapped /\ Believed(c) = Knows(c)
    BY Zenon DEF Ready, Mapped, Believed
  <2>4. \A p \in Peers : p \in Knows(c) <=> p \in Visible
    BY <2>2, <2>3 DEF StreamInv, DeliveryInv
  <2>5. QED
    BY <2>4, Zenon DEF Knows, Visible
<1>2. QED
  BY <1>1, StreamHolds, PTL
=============================================================================
