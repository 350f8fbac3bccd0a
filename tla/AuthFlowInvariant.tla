--------------------------- MODULE AuthFlowInvariant ---------------------------
(***************************************************************************)
(* The invariant of AuthFlow, for any number of devices, browsers, users   *)
(* and SSH connections, any size of the auth cache and any bound on what   *)
(* they do.  It is stated in parts, each about a few variables; a step     *)
(* that leaves them alone keeps the part.  Proved here: what the           *)
(* operations on the cache do to it, and that it is kept by the steps of   *)
(* devices, of SSH checks and of the cache itself.  AuthFlowProofs has the *)
(* steps of browsers and administrators, and the theorems.                 *)
(***************************************************************************)
EXTENDS AuthFlow, TLAPS

(* A leaf that names no prover is tried with SMT, with Zenon, and with SMT  *)
(* once more.                                                               *)
USE SMT, Zenon, SMTT(60)

Entries(l) == {l[k] : k \in DOMAIN l}

Unique(l) == \A i, j \in DOMAIN l : l[i] = l[j] => i = j

Fits(r) == r.subject \in IF r.kind = "reg" THEN Machines ELSE Pairs

\* The auth cache and the requests.
CacheInv ==
  /\ scope \in Scopes
  /\ reqs \in Seq(Request) /\ Len(reqs) <= scope.sessions
  /\ \A id \in Ids : Fits(reqs[id])
  /\ lru \in Seq(Nat) /\ Len(lru) <= MaxEntries /\ Unique(lru)
  /\ Cached \subseteq Ids /\ stale \subseteq Cached

\* Parked follow-ups.
WaitInv ==
  /\ waits \in [Slots -> {None} \cup Wait]
  /\ \A w \in Slots : waits[w] # None => waits[w].id \in Ids

\* A verdict that names a node, and a client told that it is one: the node
\* exists, and it is the client's.
NodeInv ==
  /\ nodes \subseteq Node /\ users \subseteq Users
  /\ \A id \in Ids : reqs[id].verdict.node # NoNode => reqs[id].verdict.node \in nodes

ClientInv ==
  /\ client \in [Machines -> [url : Nat, node : {NoNode} \cup Node]]
  /\ FollowupsAreOwn

\* OIDC logins.
LoginInv ==
  /\ logins \in Seq([id : Nat, registration : BOOLEAN, browser : Browsers])
  /\ \A s \in DOMAIN logins : logins[s].id \in Ids
  /\ pendingStates \subseteq DOMAIN logins /\ cookies \subseteq DOMAIN logins

ProofType ==
  proof \in [signed : SUBSET ((Browsers \cup {None}) \X Users \X Nat),
             passed : [Pairs -> [at : Never..MaxTime, gen : Int]], gen : Nat]

\* A confirmation cookie whose token is the pending one belongs to the browser
\* in which the pending identity signed in.
ConfirmInv ==
  /\ tokens \in Nat
  /\ confirm \subseteq Cookie
  /\ \A c \in confirm :
       /\ c[2] \in Ids /\ c[3] <= tokens
       /\ reqs[c[2]].pending # None /\ reqs[c[2]].pending.token = c[3]
          => <<c[1], reqs[c[2]].pending.user, c[2]>> \in proof.signed
  /\ ProofType

\* The user was proved for the request: signed in on it, or named by hand.
Signed(u, id, signed) == \E b \in Browsers \cup {None} : <<b, u, id>> \in signed

\* The node was made by a request of its machine, for a user proved for it.
SignedNode(n, ids, signed, rs) ==
  \E id \in ids : rs[id].subject = n[1] /\ Signed(n[2], id, signed)

\* A handler that confirms does so for who signed in, one that registers for who
\* was proved; the node of one that finishes exists.
GoodTask(t, states, ids, signed, rs, ns) ==
  /\ t.pc \in {"state", "remove", "use"} => t.login \in states /\ t.by = None
  /\ t.pc \notin {"state", "remove"} => t.id \in ids
  /\ t.by # None => <<t.by[1], t.user, t.id>> \in signed
  /\ t.pc \in {"get", "apply"} => Signed(t.user, t.id, signed)
  /\ t.pc \in {"apply", "finish"} => rs[t.id].subject \in Machines
  /\ t.pc = "finish" => <<rs[t.id].subject, t.user>> \in ns

TaskInv ==
  /\ tasks \in [Handlers -> {None} \cup Task]
  /\ \A h \in Handlers :
       tasks[h] # None => GoodTask(tasks[h], DOMAIN logins, Ids, proof.signed, reqs, nodes)
  /\ \A n \in nodes : SignedNode(n, Ids, proof.signed, reqs)

\* A request that produced a node is in the cache only for its handler.
SpentInv ==
  \A id \in Cached : reqs[id].registered =>
    \E h \in Handlers : tasks[h] # None /\ tasks[h].id = id /\ tasks[h].pc \in {"finish", "forget"}

\* An approval on record was given since the records were last cleared.
CheckInv ==
  /\ access \in [Pairs -> [id : Nat, ans : {"none", "hold", "accept", "reject"}]]
  /\ policy \in Policies /\ clearing \in BOOLEAN
  /\ lastAuth \in [Pairs -> Never..MaxTime]
  /\ clock \in 0..MaxTime /\ faults \in Nat
  /\ \A p \in Pairs : lastAuth[p] # Never =>
       proof.passed[p].gen = proof.gen /\ proof.passed[p].at = lastAuth[p]

AuthInv ==
  /\ CacheInv /\ WaitInv /\ NodeInv /\ ClientInv /\ LoginInv /\ ConfirmInv /\ TaskInv /\ SpentInv
  /\ CheckInv

\* A step that binds no identity and registers no device ...
Calm ==
  /\ Len(reqs) <= Len(reqs')
  /\ \A id \in Ids : /\ reqs'[id].subject = reqs[id].subject
                     /\ reqs'[id].pending = reqs[id].pending
                     /\ reqs'[id].registered = reqs[id].registered
  /\ \A id \in Ids' \ Ids : reqs'[id].pending = None /\ ~reqs'[id].registered
  /\ Cached' \subseteq Cached \cup (Ids' \ Ids)

\* ... nor gives a verdict that names one.
Quiet ==
  /\ Calm
  /\ \A id \in Ids : reqs'[id].verdict.node \in {NoNode, reqs[id].verdict.node}
  /\ \A id \in Ids' \ Ids : reqs'[id].verdict.node = NoNode
-----------------------------------------------------------------------------
(* The cache's operators.                                                   *)

\* Dropping an auth ID leaves the others, each once.
LEMMA DropFacts ==
  ASSUME NEW l \in Seq(Nat), Unique(l), NEW id \in Nat
  PROVE  /\ Drop(l, id) \in Seq(Nat) /\ Unique(Drop(l, id))
         /\ Entries(Drop(l, id)) = Entries(l) \ {id}
         /\ Len(Drop(l, id)) = IF id \in Entries(l) THEN Len(l) - 1 ELSE Len(l)
<1> DEFINE at == CHOOSE k \in DOMAIN l : l[k] = id
           from(k) == IF k < at THEN k ELSE k + 1
           out == [k \in 1..(Len(l) - 1) |-> l[from(k)]]
<1>1. DOMAIN l = 1..Len(l) /\ Len(l) \in Nat
  OBVIOUS
<1>2. CASE id \notin Entries(l)
  <2>1. Drop(l, id) = l
    BY <1>2 DEF Drop, Entries
  <2>2. QED
    BY <1>2, <2>1
<1>3. CASE id \in Entries(l)
  <2>1. Drop(l, id) = out
    BY <1>3 DEF Drop, Entries
  <2>2. at \in 1..Len(l) /\ l[at] = id
    BY <1>1, <1>3 DEF Entries
  <2> HIDE DEF at
  <2>3. \A k \in 1..(Len(l) - 1) : from(k) \in 1..Len(l) /\ from(k) # at
    BY <1>1, <2>2
  <2>4. \A i, j \in 1..(Len(l) - 1) : from(i) = from(j) => i = j
    BY <1>1, <2>2
  <2>5. Len(l) - 1 \in Nat
    BY <1>1, <2>2
  <2>6. \A m \in 1..Len(l) : m # at => \E k \in 1..(Len(l) - 1) : from(k) = m
    <3> SUFFICES ASSUME NEW m \in 1..Len(l), m # at
                 PROVE  \E k \in 1..(Len(l) - 1) : from(k) = m
      OBVIOUS
    <3>1. CASE m < at
      BY <1>1, <2>2, <3>1
    <3>2. CASE m > at
      <4>1. m - 1 \in 1..(Len(l) - 1) /\ from(m - 1) = m
        BY <1>1, <2>2, <3>2
      <4>2. QED
        BY <4>1
    <3>3. QED
      BY <1>1, <2>2, <3>1, <3>2
  <2> HIDE DEF from
  <2>7. \A k \in 1..(Len(l) - 1) : l[from(k)] \in Nat
    BY <1>1, <2>3
  <2>8. out \in Seq(Nat) /\ Len(out) = Len(l) - 1 /\ DOMAIN out = 1..(Len(l) - 1)
    BY <2>5, <2>7
  <2>9. Unique(out)
    BY <1>1, <2>3, <2>4, <2>8, ZenonT(30) DEF Unique
  <2>10. Entries(out) = Entries(l) \ {id}
    <3>1. ASSUME NEW k \in 1..(Len(l) - 1) PROVE out[k] \in Entries(l) \ {id}
      BY <1>1, <2>2, <2>3, Zenon DEF Unique, Entries
    <3>2. ASSUME NEW m \in 1..Len(l), l[m] # id PROVE l[m] \in Entries(out)
      <4>1. PICK k \in 1..(Len(l) - 1) : from(k) = m
        BY <2>2, <2>6, <3>2
      <4>2. out[k] = l[m]
        BY <4>1
      <4>3. QED
        BY <2>8, <4>2, Zenon DEF Entries
    <3>3. QED
      BY <1>1, <2>8, <3>1, <3>2, ZenonT(30) DEF Entries
  <2>11. QED
    BY <1>3, <2>1, <2>8, <2>9, <2>10
<1>4. QED
  BY <1>2, <1>3

\* An entry is added at the end.
LEMMA AppendFacts ==
  ASSUME NEW l \in Seq(Nat), Unique(l), NEW id \in Nat, id \notin Entries(l)
  PROVE  /\ Append(l, id) \in Seq(Nat) /\ Unique(Append(l, id))
         /\ Entries(Append(l, id)) = Entries(l) \cup {id}
         /\ Len(Append(l, id)) = Len(l) + 1
<1> DEFINE m == Append(l, id)
<1>1. /\ m \in Seq(Nat) /\ Len(m) = Len(l) + 1 /\ Len(l) \in Nat
      /\ DOMAIN m = 1..(Len(l) + 1) /\ DOMAIN l = 1..Len(l)
      /\ m[Len(l) + 1] = id /\ \A k \in 1..Len(l) : m[k] = l[k]
  OBVIOUS
<1> HIDE DEF m
<1>2. \A k \in 1..(Len(l) + 1) : k \in 1..Len(l) \/ k = Len(l) + 1
  BY <1>1
<1>3. Entries(m) = Entries(l) \cup {id}
  BY <1>1, <1>2 DEF Entries
<1>4. Unique(m)
  BY <1>1, <1>2, ZenonT(30) DEF Unique, Entries
<1>5. QED
  BY <1>1, <1>3, <1>4 DEF m

\* Using an entry moves it to the end of the cache.
LEMMA TouchFacts ==
  ASSUME CacheInv, NEW id \in Ids, InCache(id)
  PROVE  /\ Touch(id) \in Seq(Nat) /\ Unique(Touch(id))
         /\ Entries(Touch(id)) = Cached /\ Len(Touch(id)) = Len(lru)
<1>1. lru \in Seq(Nat) /\ Unique(lru) /\ id \in Nat /\ id \in Entries(lru) /\ Len(lru) \in Nat
  BY DEF CacheInv, InCache, Entries, Ids
<1>2. /\ Drop(lru, id) \in Seq(Nat) /\ Unique(Drop(lru, id))
      /\ Entries(Drop(lru, id)) = Entries(lru) \ {id} /\ Len(Drop(lru, id)) = Len(lru) - 1
  BY <1>1, DropFacts
<1>3. id \notin Entries(Drop(lru, id)) /\ Len(Drop(lru, id)) + 1 = Len(lru)
  BY <1>1, <1>2
<1>4. /\ Touch(id) \in Seq(Nat) /\ Unique(Touch(id))
      /\ Entries(Touch(id)) = Entries(Drop(lru, id)) \cup {id}
      /\ Len(Touch(id)) = Len(Drop(lru, id)) + 1
  BY <1>1, <1>2, <1>3, AppendFacts DEF Touch
<1>5. Cached = Entries(lru)
  BY DEF Cached, Entries
<1>6. QED
  BY <1>1, <1>2, <1>3, <1>4, <1>5

Verdict == [err : BOOLEAN, node : {NoNode} \cup Node]

\* The requests of two states are alike but for channels, and verdicts that
\* were v.
Alike(rs, all, v) ==
  /\ all \in Seq(Request) /\ Len(all) = Len(rs)
  /\ \A j \in 1..Len(rs) :
       /\ all[j].kind = rs[j].kind /\ all[j].subject = rs[j].subject
       /\ all[j].pending = rs[j].pending /\ all[j].registered = rs[j].registered
       /\ all[j].verdict \in {rs[j].verdict, v}

\* FinishAuth gives its verdict to that request, or to none.
LEMMA FinishFacts ==
  ASSUME NEW rs \in Seq(Request), NEW id \in 1..Len(rs), NEW v \in Verdict
  PROVE  Alike(rs, FinishAuth(rs, id, v), v)
<1>1. CASE rs[id].chan # "open"
  BY <1>1 DEF FinishAuth, Alike
<1>2. CASE rs[id].chan = "open"
  <2> DEFINE all == [rs EXCEPT ![id].chan = "full", ![id].verdict = v]
             new == [rs[id] EXCEPT !.chan = "full", !.verdict = v]
  <2>1. DOMAIN rs = 1..Len(rs) /\ Len(rs) \in Nat /\ rs[id] \in Request
    OBVIOUS
  <2>2. /\ new \in Request /\ new.kind = rs[id].kind /\ new.subject = rs[id].subject
        /\ new.pending = rs[id].pending /\ new.registered = rs[id].registered /\ new.verdict = v
    BY <2>1, Zenon DEF Request, Verdict
  <2>3. all = [j \in 1..Len(rs) |-> IF j = id THEN new ELSE rs[j]]
    BY <2>1, Zenon
  <2> HIDE DEF new, all
  <2>4. all \in Seq(Request) /\ Len(all) = Len(rs)
    BY <2>1, <2>2, <2>3
  <2>5. Alike(rs, all, v)
    BY <2>2, <2>3, <2>4 DEF Alike
  <2>6. QED
    BY <1>2, <2>5 DEF FinishAuth, all
<1>3. QED
  BY <1>1, <1>2

\* A follow-up reads the verdict, or the zero value after another reader.
LEMMA ReadFacts ==
  ASSUME NEW rs \in Seq(Request), NEW id \in 1..Len(rs)
  PROVE  /\ Alike(rs, WaitForAuth(rs, id).reqs, NoVerdict)
         /\ WaitForAuth(rs, id).verdict \in {NoVerdict, rs[id].verdict}
         /\ \A j \in 1..Len(rs) : WaitForAuth(rs, id).reqs[j].verdict = rs[j].verdict
<1> DEFINE all == [rs EXCEPT ![id].chan = "empty"]
           new == [rs[id] EXCEPT !.chan = "empty"]
<1>1. DOMAIN rs = 1..Len(rs) /\ Len(rs) \in Nat /\ rs[id] \in Request
  OBVIOUS
<1>2. /\ new \in Request /\ new.kind = rs[id].kind /\ new.subject = rs[id].subject
      /\ new.pending = rs[id].pending /\ new.registered = rs[id].registered
      /\ new.verdict = rs[id].verdict
  BY <1>1, Zenon DEF Request
<1>3. all = [j \in 1..Len(rs) |-> IF j = id THEN new ELSE rs[j]]
  BY <1>1, Zenon
<1>4. WaitForAuth(rs, id).reqs = all
  BY DEF WaitForAuth
<1>5. WaitForAuth(rs, id).verdict \in {NoVerdict, rs[id].verdict}
  BY DEF WaitForAuth
<1> HIDE DEF new, all
<1>6. all \in Seq(Request) /\ Len(all) = Len(rs)
  BY <1>1, <1>2, <1>3
<1>7. Alike(rs, all, NoVerdict) /\ \A j \in 1..Len(rs) : all[j].verdict = rs[j].verdict
  BY <1>2, <1>3, <1>6 DEF Alike
<1>8. QED
  BY <1>4, <1>5, <1>7

\* The least recently used entry goes first.
LEMMA TailFacts ==
  ASSUME NEW l \in Seq(Nat), Unique(l), l # <<>>
  PROVE  /\ Head(l) \in Entries(l) /\ Tail(l) \in Seq(Nat) /\ Unique(Tail(l))
         /\ Entries(Tail(l)) = Entries(l) \ {Head(l)} /\ Len(Tail(l)) = Len(l) - 1
<1> DEFINE t == Tail(l)
<1>1. /\ t \in Seq(Nat) /\ Len(t) = Len(l) - 1 /\ Len(l) \in Nat \ {0} /\ Head(l) = l[1]
      /\ DOMAIN l = 1..Len(l) /\ DOMAIN t = 1..(Len(l) - 1)
      /\ \A k \in 1..(Len(l) - 1) : t[k] = l[k + 1]
  OBVIOUS
<1> HIDE DEF t
<1>2. /\ 1 \in 1..Len(l)
      /\ \A k \in 1..(Len(l) - 1) : k + 1 \in 1..Len(l) /\ k + 1 # 1
      /\ \A k \in 1..Len(l) : k # 1 => k - 1 \in 1..(Len(l) - 1) /\ (k - 1) + 1 = k
  BY <1>1
<1>3. \A i, j \in 1..(Len(l) - 1) : i + 1 = j + 1 => i = j
  BY <1>1
<1>4. Unique(t)
  <2> SUFFICES ASSUME NEW i \in 1..(Len(l) - 1), NEW j \in 1..(Len(l) - 1), t[i] = t[j]
               PROVE  i = j
    BY <1>1, Zenon DEF Unique
  <2>1. l[i + 1] = l[j + 1]
    BY <1>1, Zenon
  <2>2. i + 1 = j + 1
    BY <1>1, <1>2, <2>1, Zenon DEF Unique
  <2>3. QED
    BY <1>3, <2>2
<1>5. Entries(t) = Entries(l) \ {Head(l)}
  <2>1. ASSUME NEW k \in 1..(Len(l) - 1) PROVE t[k] \in Entries(l) \ {Head(l)}
    <3>1. t[k] = l[k + 1] /\ k + 1 \in DOMAIN l /\ 1 \in DOMAIN l /\ k + 1 # 1
      BY <1>1, <1>2
    <3>2. l[k + 1] # l[1]
      BY <3>1 DEF Unique
    <3>3. QED
      BY <1>1, <3>1, <3>2, Zenon DEF Entries
  <2>2. ASSUME NEW k \in 1..Len(l), l[k] # Head(l) PROVE l[k] \in Entries(t)
    <3>1. k - 1 \in 1..(Len(l) - 1) /\ t[k - 1] = l[k]
      BY <1>1, <1>2, <2>2
    <3>2. QED
      BY <1>1, <3>1, Zenon DEF Entries
  <2>3. \A e \in Entries(t) : e \in Entries(l) \ {Head(l)}
    BY <1>1, <2>1, ZenonT(30) DEF Entries
  <2>4. \A e \in Entries(l) : e # Head(l) => e \in Entries(t)
    BY <1>1, <2>2, Zenon DEF Entries
  <2>5. QED
    BY <2>3, <2>4
<1>6. QED
  BY <1>1, <1>2, <1>4, <1>5, ZenonT(30) DEF Entries, t

\* A new request enters the cache, and may push the oldest one out.
LEMMA EntryFacts ==
  ASSUME CacheInv, NEW rs \in Seq(Request), Len(rs) = Len(reqs), Len(rs) < scope.sessions,
         \A j \in Ids : Fits(rs[j]),
         NEW kind \in {"reg", "ssh"}, NEW subject \in IF kind = "reg" THEN Machines ELSE Pairs,
         SetAuthCacheEntry(rs, AuthRequest(kind, subject)), scope' = scope
  PROVE  /\ CacheInv' /\ Len(reqs') = Len(rs) + 1
         /\ Cached' \subseteq Cached \cup {Len(rs) + 1}
         /\ \A j \in 1..(Len(rs) + 1) :
              LET old == IF j \in Ids THEN rs[j] ELSE AuthRequest(kind, subject)
              IN  /\ reqs'[j].subject = old.subject /\ reqs'[j].pending = old.pending
                  /\ reqs'[j].registered = old.registered
                  /\ reqs'[j].verdict \in {old.verdict, Rejected}
<1> DEFINE r == AuthRequest(kind, subject)
           id == Len(rs) + 1
           all == Append(rs, r)
           l == Append(lru, id)
<1>1. /\ r \in Request /\ Fits(r)
  BY Zenon DEF AuthRequest, Request, NoVerdict, Fits
<1>2. Len(rs) \in Nat /\ id \in Nat /\ Ids = 1..Len(rs) /\ scope.sessions \in Nat
  BY AuthAssumption DEF Ids, CacheInv
<1>3. /\ all \in Seq(Request) /\ Len(all) = id /\ all[id] = r
      /\ \A j \in 1..Len(rs) : all[j] = rs[j]
  BY <1>1
<1>4. /\ lru \in Seq(Nat) /\ Unique(lru) /\ Entries(lru) = Cached /\ Len(lru) <= MaxEntries
      /\ Len(lru) \in Nat /\ MaxEntries \in Nat
  BY AuthAssumption DEF CacheInv, Entries, Cached
<1>5. id \notin Entries(lru)
  BY <1>2, <1>4 DEF CacheInv
<1>6. l \in Seq(Nat) /\ Unique(l) /\ Entries(l) = Cached \cup {id} /\ Len(l) = Len(lru) + 1
  BY <1>2, <1>4, <1>5, AppendFacts
<1>7. Rejected \in Verdict
  BY DEF Rejected, Verdict
<1>8. /\ reqs' = IF cacheFull(l) THEN Evict(all, Head(l)) ELSE all
      /\ lru' = IF cacheFull(l) THEN Tail(l) ELSE l
      /\ stale' = IF cacheFull(l) THEN stale \ {Head(l)} ELSE stale
  BY DEF SetAuthCacheEntry
<1> HIDE DEF r, all, l
<1>9. /\ Alike(all, reqs', Rejected)
      /\ lru' \in Seq(Nat) /\ Unique(lru') /\ Len(lru') <= MaxEntries
      /\ Entries(lru') \subseteq Cached \cup {id} /\ stale' \subseteq Entries(lru')
  <2>1. CASE cacheFull(l)
    <3>1. l # <<>>
      BY <1>4, <1>6
    <3>2. /\ Head(l) \in Entries(l) /\ Tail(l) \in Seq(Nat) /\ Unique(Tail(l))
          /\ Entries(Tail(l)) = Entries(l) \ {Head(l)} /\ Len(Tail(l)) = Len(l) - 1
      BY <1>6, <3>1, TailFacts, Zenon
    <3>3. Head(l) \in 1..id
      BY <1>2, <1>6, <3>2 DEF CacheInv
    <3>4. Alike(all, reqs', Rejected)
      BY <1>3, <1>7, <1>8, <2>1, <3>3, FinishFacts DEF Evict
    <3>5. lru' = Tail(l) /\ stale' = stale \ {Head(l)}
      BY <1>8, <2>1, Zenon
    <3>6. stale' \subseteq Entries(lru')
      BY <1>6, <3>2, <3>5, Zenon DEF CacheInv
    <3>7. Len(lru') <= MaxEntries
      BY <1>4, <1>6, <3>2, <3>5
    <3>8. QED
      BY <1>6, <3>2, <3>4, <3>5, <3>6, <3>7, Zenon
  <2>2. CASE ~cacheFull(l)
    <3>1. reqs' = all /\ lru' = l /\ stale' = stale
      BY <1>8, <2>2, Zenon
    <3>2. Alike(all, reqs', Rejected)
      BY <1>3, <3>1 DEF Alike
    <3>3. Len(l) <= MaxEntries
      BY <1>4, <1>6, <2>2 DEF cacheFull
    <3>4. QED
      BY <1>6, <3>1, <3>2, <3>3, Zenon DEF CacheInv
  <2>3. QED
    BY <2>1, <2>2
<1>10. Len(reqs') = id /\ reqs' \in Seq(Request) /\ Ids' = 1..id
  BY <1>3, <1>9 DEF Alike, Ids
<1>11. \A j \in 1..id : j \in Ids \/ j = id
  BY <1>2
<1>12. \A j \in 1..id : Fits(reqs'[j])
  <2> SUFFICES ASSUME NEW j \in 1..id PROVE Fits(reqs'[j])
    BY Zenon
  <2>1. reqs'[j].kind = all[j].kind /\ reqs'[j].subject = all[j].subject
    BY <1>3, <1>9 DEF Alike
  <2>2. Fits(all[j])
    BY <1>1, <1>2, <1>3, <1>11, Zenon
  <2>3. QED
    BY <2>1, <2>2 DEF Fits
<1>13. Cached' = Entries(lru')
  BY DEF Cached, Entries
<1>14. Cached \cup {id} \subseteq 1..id
  <2>1. Cached \subseteq 1..Len(rs)
    BY <1>2 DEF CacheInv
  <2>2. 1..Len(rs) \subseteq 1..id /\ id \in 1..id
    BY <1>2
  <2>3. QED
    BY <2>1, <2>2, Zenon
<1>15. id <= scope.sessions
  BY <1>2
<1>16. CacheInv'
  BY <1>9, <1>10, <1>12, <1>13, <1>14, <1>15, Zenon DEF CacheInv
<1>17. \A j \in 1..id :
         LET old == IF j \in Ids THEN rs[j] ELSE r
         IN  /\ reqs'[j].subject = old.subject /\ reqs'[j].pending = old.pending
             /\ reqs'[j].registered = old.registered
             /\ reqs'[j].verdict \in {old.verdict, Rejected}
  <2> SUFFICES ASSUME NEW j \in 1..id
               PROVE LET old == IF j \in Ids THEN rs[j] ELSE r
                     IN  /\ reqs'[j].subject = old.subject /\ reqs'[j].pending = old.pending
                         /\ reqs'[j].registered = old.registered
                         /\ reqs'[j].verdict \in {old.verdict, Rejected}
    OBVIOUS
  <2>1. all[j] = IF j \in Ids THEN rs[j] ELSE r
    BY <1>2, <1>3, <1>11
  <2>2. QED
    BY <1>3, <1>9, <2>1, Zenon DEF Alike
<1>18. QED
  BY <1>9, <1>10, <1>13, <1>16, <1>17 DEF r

\* Verdicts that name no node, and entries used, dropped or aged, are quiet.
LEMMA AlikeQuiet ==
  ASSUME CacheInv, NEW v \in {NoVerdict, Rejected}, Alike(reqs, reqs', v), scope' = scope,
         lru' \in Seq(Nat), Unique(lru'), Len(lru') <= Len(lru), Entries(lru') \subseteq Cached,
         stale' \subseteq Entries(lru')
  PROVE  CacheInv' /\ Quiet
<1>1. v.node = NoNode
  BY DEF NoVerdict, Rejected
<1>2. Ids' = Ids /\ Cached' = Entries(lru')
  BY Zenon DEF Alike, Ids, Cached, Entries
<1>3. Len(lru) \in Nat /\ Len(lru') \in Nat /\ MaxEntries \in Nat
  BY AuthAssumption DEF CacheInv
<1>4. CacheInv'
  <2>1. \A id \in Ids : Fits(reqs'[id])
    BY Zenon DEF CacheInv, Alike, Ids, Fits
  <2>2. Len(lru') <= MaxEntries
    BY <1>3 DEF CacheInv
  <2>3. reqs' \in Seq(Request) /\ Len(reqs') <= scope'.sessions
    BY Zenon DEF CacheInv, Alike
  <2>4. QED
    BY <1>2, <2>1, <2>2, <2>3 DEF CacheInv
<1>5. Len(reqs) <= Len(reqs')
  BY DEF Alike, CacheInv
<1>6. Quiet
  BY <1>1, <1>2, <1>5, Zenon DEF Quiet, Calm, Alike, Ids
<1>7. QED
  BY <1>4, <1>6, Zenon

\* A request that enters the cache is quiet, whatever it pushes out.
LEMMA EntryQuiet ==
  ASSUME CacheInv, NEW rs, Alike(reqs, rs, NoVerdict), Len(rs) < scope.sessions,
         NEW kind \in {"reg", "ssh"}, NEW subject \in IF kind = "reg" THEN Machines ELSE Pairs,
         SetAuthCacheEntry(rs, AuthRequest(kind, subject)), scope' = scope
  PROVE  CacheInv' /\ Quiet /\ Len(rs) + 1 \in Nat /\ Len(rs) = Len(reqs)
<1>1. rs \in Seq(Request) /\ Len(rs) = Len(reqs) /\ Len(reqs) \in Nat
  BY DEF Alike, CacheInv
<1>2. \A j \in Ids : Fits(rs[j])
  BY Zenon DEF Alike, CacheInv, Fits, Ids
<1>3. /\ CacheInv' /\ Len(reqs') = Len(rs) + 1
      /\ Cached' \subseteq Cached \cup {Len(rs) + 1}
      /\ \A j \in 1..(Len(rs) + 1) :
           LET old == IF j \in Ids THEN rs[j] ELSE AuthRequest(kind, subject)
           IN  /\ reqs'[j].subject = old.subject /\ reqs'[j].pending = old.pending
               /\ reqs'[j].registered = old.registered
               /\ reqs'[j].verdict \in {old.verdict, Rejected}
  BY <1>1, <1>2, EntryFacts, ZenonT(30)
<1>4. Ids = 1..Len(rs) /\ Ids' = 1..(Len(rs) + 1) /\ Ids' \ Ids = {Len(rs) + 1}
  BY <1>1, <1>3 DEF Ids
<1>5. \A j \in Ids : /\ reqs'[j].subject = reqs[j].subject /\ reqs'[j].pending = reqs[j].pending
                     /\ reqs'[j].registered = reqs[j].registered
                     /\ reqs'[j].verdict \in {reqs[j].verdict, NoVerdict, Rejected}
  <2> SUFFICES ASSUME NEW j \in Ids
               PROVE  /\ reqs'[j].subject = reqs[j].subject /\ reqs'[j].pending = reqs[j].pending
                      /\ reqs'[j].registered = reqs[j].registered
                      /\ reqs'[j].verdict \in {reqs[j].verdict, NoVerdict, Rejected}
    OBVIOUS
  <2>1. j \in 1..(Len(rs) + 1) /\ j \in 1..Len(reqs)
    BY <1>1, <1>4
  <2>2. /\ reqs'[j].subject = rs[j].subject /\ reqs'[j].pending = rs[j].pending
        /\ reqs'[j].registered = rs[j].registered
        /\ reqs'[j].verdict \in {rs[j].verdict, Rejected}
    BY <1>3, <2>1
  <2>3. QED
    BY <2>1, <2>2, Zenon DEF Alike
<1>6. LET new == reqs'[Len(rs) + 1]
      IN  new.pending = None /\ ~new.registered /\ new.verdict \in {NoVerdict, Rejected}
  <2>1. Len(rs) + 1 \in 1..(Len(rs) + 1) /\ Len(rs) + 1 \notin Ids
    BY <1>1, <1>4, Zenon
  <2>2. QED
    BY <1>3, <2>1, Zenon DEF AuthRequest
<1>7. Len(reqs) <= Len(reqs')
  BY <1>1, <1>3
<1>8. NoVerdict.node = NoNode /\ Rejected.node = NoNode
  BY Zenon DEF NoVerdict, Rejected
<1>9. Quiet
  BY <1>3, <1>4, <1>5, <1>6, <1>7, <1>8, Zenon DEF Quiet, Calm
<1>10. QED
  BY <1>1, <1>3, <1>9
-----------------------------------------------------------------------------
(* Steps that neither bind an identity nor register a device.               *)

\* The cache is left alone.
LEMMA SameCache ==
  ASSUME CacheInv, UNCHANGED <<scope, reqs, lru, stale>>
  PROVE  CacheInv' /\ Quiet
<1>1. Ids' = Ids /\ Cached' = Cached
  BY DEF Ids, Cached
<1>2. CacheInv'
  BY <1>1 DEF CacheInv
<1>3. Len(reqs) <= Len(reqs')
  BY DEF CacheInv
<1>4. QED
  BY <1>1, <1>2, <1>3, Zenon DEF Quiet, Calm

\* Requests are never forgotten by their number.
LEMMA IdsGrow ==
  ASSUME CacheInv, Calm
  PROVE  Ids \subseteq Ids'
BY DEF Calm, Ids, CacheInv

\* Parked requests that are left alone stay right.
LEMMA WaitKept ==
  ASSUME WaitInv, Calm, CacheInv, waits' = waits
  PROVE  WaitInv'
<1>1. \A id \in Ids : id \in Ids'
  BY IdsGrow, Zenon
<1>2. QED
  BY <1>1 DEF WaitInv

\* A verdict that names no node, and a user who comes or goes.
LEMMA NodeKept ==
  ASSUME NodeInv, CacheInv, Quiet, nodes' = nodes, users' \subseteq Users
  PROVE  NodeInv'
<1>1. \A id \in Ids' : reqs'[id].verdict.node # NoNode => reqs'[id].verdict.node \in nodes
  BY DEF Quiet, NodeInv
<1>2. QED
  BY <1>1 DEF NodeInv

\* A client that is told nothing.
LEMMA ClientKept ==
  ASSUME ClientInv, client' = client, nodes \subseteq nodes'
  PROVE  ClientInv'
BY DEF ClientInv, FollowupsAreOwn, nodesOf

\* A login that is read or spent.
LEMMA LoginKept ==
  ASSUME LoginInv, CacheInv, Calm, logins' = logins, pendingStates' \subseteq pendingStates,
         cookies' \subseteq cookies
  PROVE  LoginInv'
<1>1. \A id \in Ids : id \in Ids'
  BY IdsGrow, Zenon
<1>2. QED
  BY <1>1 DEF LoginInv

\* Confirmation cookies that are kept or dropped.
LEMMA ConfirmKept ==
  ASSUME ConfirmInv, CacheInv, Calm, tokens' = tokens, confirm' \subseteq confirm,
         ProofType', proof.signed \subseteq proof'.signed
  PROVE  ConfirmInv'
<1>1. \A c \in confirm : /\ c[2] \in Ids /\ c[2] \in Ids' /\ c[3] <= tokens
                         /\ reqs'[c[2]].pending = reqs[c[2]].pending
  BY IdsGrow, Zenon DEF ConfirmInv, Calm
<1>2. QED
  BY <1>1 DEF ConfirmInv

\* A handler stays right while logins, sign-ins and nodes are only added.
LEMMA GoodKept ==
  ASSUME NEW t, NEW states, NEW ids, NEW signed, NEW rs, NEW ns, NEW states2, NEW ids2,
         NEW signed2, NEW rs2, NEW ns2, GoodTask(t, states, ids, signed, rs, ns),
         states \subseteq states2, ids \subseteq ids2, signed \subseteq signed2, ns \subseteq ns2,
         \A id \in ids : rs2[id].subject = rs[id].subject
  PROVE  GoodTask(t, states2, ids2, signed2, rs2, ns2)
<1>1. \A id : Signed(t.user, id, signed) => Signed(t.user, id, signed2)
  BY Zenon DEF Signed
<1>2. QED
  BY <1>1, Zenon DEF GoodTask

\* Nothing a handler relies on is taken away.
Grows ==
  /\ DOMAIN logins \subseteq DOMAIN logins' /\ Ids \subseteq Ids'
  /\ proof.signed \subseteq proof'.signed /\ nodes \subseteq nodes'
  /\ \A id \in Ids : reqs'[id].subject = reqs[id].subject

\* The nodes that were signed for stay so.
LEMMA NodesKept ==
  ASSUME TaskInv, Grows, NEW n \in nodes
  PROVE  SignedNode(n, Ids', proof'.signed, reqs')
<1>1. PICK id \in Ids : reqs[id].subject = n[1] /\ Signed(n[2], id, proof.signed)
  BY Zenon DEF TaskInv, SignedNode
<1>2. Signed(n[2], id, proof'.signed)
  BY <1>1, Zenon DEF Signed, Grows
<1>3. id \in Ids' /\ reqs'[id].subject = n[1]
  BY <1>1, Zenon DEF Grows
<1>4. QED
  BY <1>2, <1>3, Zenon DEF SignedNode

\* A handler moves on, or returns; a node it makes is signed for.
LEMMA TaskRun ==
  ASSUME TaskInv, Grows, \A n \in nodes' : n \in nodes \/ SignedNode(n, Ids', proof'.signed, reqs'),
         NEW h \in Handlers, NEW t \in {None} \cup Task,
         t # None => GoodTask(t, DOMAIN logins', Ids', proof'.signed, reqs', nodes'),
         tasks' = [tasks EXCEPT ![h] = t]
  PROVE  TaskInv'
<1>1. tasks' \in [Handlers -> {None} \cup Task]
  BY Zenon DEF TaskInv
<1>2. \A k \in Handlers : tasks'[k] = IF k = h THEN t ELSE tasks[k]
  BY Zenon DEF TaskInv
<1>3. ASSUME NEW k \in Handlers, tasks[k] # None
      PROVE  GoodTask(tasks[k], DOMAIN logins', Ids', proof'.signed, reqs', nodes')
  <2>1. GoodTask(tasks[k], DOMAIN logins, Ids, proof.signed, reqs, nodes)
    BY <1>3, Zenon DEF TaskInv
  <2>2. QED
    BY <2>1, GoodKept, ZenonT(30) DEF Grows
<1>4. \A n \in nodes' : SignedNode(n, Ids', proof'.signed, reqs')
  BY NodesKept, Zenon
<1>5. QED
  BY <1>1, <1>2, <1>3, <1>4, Zenon DEF TaskInv

\* No handler moves.
LEMMA TaskKept ==
  ASSUME TaskInv, Grows, tasks' = tasks, nodes' = nodes
  PROVE  TaskInv'
<1>1. ASSUME NEW k \in Handlers, tasks[k] # None
      PROVE  GoodTask(tasks[k], DOMAIN logins', Ids', proof'.signed, reqs', nodes')
  <2>1. GoodTask(tasks[k], DOMAIN logins, Ids, proof.signed, reqs, nodes)
    BY <1>1 DEF TaskInv
  <2>2. QED
    BY <2>1, GoodKept DEF Grows
<1>2. \A n \in nodes' : SignedNode(n, Ids', proof'.signed, reqs')
  BY NodesKept, Zenon
<1>3. QED
  BY <1>1, <1>2, Zenon DEF TaskInv

Finishing(t) == t # None /\ t.pc \in {"finish", "forget"}

\* The handlers that finish stay at it.
LEMMA SpentKept ==
  ASSUME SpentInv, CacheInv, Calm,
         \A h \in Handlers : Finishing(tasks[h]) => Finishing(tasks'[h]) /\ tasks'[h].id = tasks[h].id
  PROVE  SpentInv'
<1> SUFFICES ASSUME NEW id \in Cached', reqs'[id].registered
             PROVE  \E h \in Handlers : Finishing(tasks'[h]) /\ tasks'[h].id = id
  BY DEF SpentInv, Finishing
<1>1. id \in Cached
  BY DEF Calm
<1>2. id \in Ids /\ reqs[id].registered
  BY <1>1, Zenon DEF CacheInv, Calm
<1>3. PICK h \in Handlers : Finishing(tasks[h]) /\ tasks[h].id = id
  BY <1>1, <1>2 DEF SpentInv, Finishing
<1>4. QED
  BY <1>3, Zenon

\* A handler that is not finishing moves on.
LEMMA SpentRun ==
  ASSUME SpentInv, CacheInv, TaskInv, Calm, NEW h \in Handlers, NEW t,
         Finishing(tasks[h]) => Finishing(t) /\ t.id = tasks[h].id,
         tasks' = [tasks EXCEPT ![h] = t]
  PROVE  SpentInv'
<1>1. \A k \in Handlers : tasks'[k] = IF k = h THEN t ELSE tasks[k]
  BY DEF TaskInv
<1>2. \A k \in Handlers : Finishing(tasks[k]) => Finishing(tasks'[k]) /\ tasks'[k].id = tasks[k].id
  BY <1>1, Zenon
<1>3. QED
  BY <1>2, SpentKept

\* SSH checks and the clock that are left alone.
LEMMA CheckKept ==
  ASSUME CheckInv, faults' \in Nat, UNCHANGED <<access, policy, clearing, lastAuth, clock>>,
         proof'.passed = proof.passed, proof'.gen = proof.gen
  PROVE  CheckInv'
BY DEF CheckInv

\* A step that leaves logins, confirmations, handlers, nodes and users alone.
LEMMA QuietKeeps ==
  ASSUME AuthInv, CacheInv', Quiet, WaitInv', ClientInv', CheckInv', ProofType',
         proof'.signed = proof.signed,
         UNCHANGED <<tasks, logins, pendingStates, cookies, confirm, tokens, nodes, users>>
  PROVE  AuthInv'
<1>1. Calm
  BY Zenon DEF Quiet
<1>2. NodeInv' /\ LoginInv' /\ ConfirmInv'
  <2>1. proof.signed \subseteq proof'.signed
    OBVIOUS
  <2>2. QED
    BY <1>1, <2>1, NodeKept, LoginKept, ConfirmKept, Zenon DEF AuthInv, NodeInv
<1>3. Grows
  BY <1>1, IdsGrow, Zenon DEF Grows, Calm, AuthInv
<1>4. TaskInv' /\ SpentInv'
  BY <1>1, <1>3, TaskKept, SpentKept, Zenon DEF AuthInv
<1>5. QED
  BY <1>2, <1>4, Zenon DEF AuthInv

\* A handler parks or leaves.
LEMMA ParkFacts ==
  ASSUME WaitInv, CacheInv, Calm, NEW w \in Slots, NEW r \in {None} \cup Wait,
         r # None => r.id \in Ids, waits' = [waits EXCEPT ![w] = r]
  PROVE  WaitInv'
<1>1. \A id \in Ids : id \in Ids'
  BY IdsGrow
<1>2. waits' \in [Slots -> {None} \cup Wait]
  BY DEF WaitInv
<1>3. \A v \in Slots : waits'[v] = IF v = w THEN r ELSE waits[v]
  BY DEF WaitInv
<1>4. QED
  BY <1>1, <1>2, <1>3 DEF WaitInv

\* The answer that reaches a client, if it does, is about a node of its own.
LEMMA AnswerFacts ==
  ASSUME ClientInv, faults \in Nat, nodes' = nodes, NEW m \in Machines,
         NEW c \in [url : Nat, node : {NoNode} \cup Node],
         c.node # NoNode => c.node \in nodesOf(m), Answer(m, c)
  PROVE  ClientInv' /\ faults' \in Nat
<1>1. CASE client' = [client EXCEPT ![m] = c] /\ UNCHANGED faults
  <2>1. client' \in [Machines -> [url : Nat, node : {NoNode} \cup Node]]
    BY <1>1 DEF ClientInv
  <2>2. \A k \in Machines : client'[k] = IF k = m THEN c ELSE client[k]
    BY <1>1, Zenon DEF ClientInv
  <2>3. FollowupsAreOwn'
    BY <2>2 DEF ClientInv, FollowupsAreOwn, nodesOf
  <2>4. QED
    BY <1>1, <2>1, <2>3 DEF ClientInv
<1>2. CASE faults' = faults + 1 /\ UNCHANGED client
  BY <1>2 DEF ClientInv, FollowupsAreOwn, nodesOf
<1>3. QED
  BY <1>1, <1>2, Zenon DEF Answer

\* A client that is sent to a new URL, or told to wait.
LEMMA NewURL ==
  ASSUME CacheInv, ClientInv, faults \in Nat, nodes' = nodes, scope' = scope, NEW m \in Machines,
         NEW rs, Alike(reqs, rs, NoVerdict), reqToNewRegisterResponse(rs, m)
  PROVE  CacheInv' /\ Quiet /\ ClientInv' /\ faults' \in Nat
<1>1. CASE /\ Len(rs) < scope.sessions /\ SetAuthCacheEntry(rs, AuthRequest("reg", m))
           /\ Answer(m, [url |-> Len(rs) + 1, node |-> NoNode])
  <2>1. CacheInv' /\ Quiet /\ Len(rs) + 1 \in Nat
    BY <1>1, EntryQuiet, Zenon
  <2>2. ClientInv' /\ faults' \in Nat
    BY <1>1, <2>1, AnswerFacts, Zenon
  <2>3. QED
    BY <2>1, <2>2
<1>2. CASE reqs' = rs /\ UNCHANGED <<lru, stale, client, faults>>
  <2>1. /\ lru' \in Seq(Nat) /\ Unique(lru') /\ Len(lru') <= Len(lru)
        /\ Entries(lru') \subseteq Cached /\ stale' \subseteq Entries(lru')
    BY <1>2 DEF CacheInv, Entries, Cached
  <2>2. CacheInv' /\ Quiet
    BY <1>2, <2>1, AlikeQuiet, Zenon
  <2>3. QED
    BY <1>2, <2>2, Zenon DEF ClientInv, FollowupsAreOwn, nodesOf
<1>3. QED
  BY <1>1, <1>2 DEF reqToNewRegisterResponse

\* What a client makes of the verdict it reads.
LEMMA ReadVerdict ==
  ASSUME CacheInv, ClientInv, NodeInv, faults \in Nat, nodes' = nodes, scope' = scope,
         NEW m \in Machines, NEW id \in Ids, followupVerdict(m, id)
  PROVE  CacheInv' /\ Quiet /\ ClientInv' /\ faults' \in Nat
<1> DEFINE read == WaitForAuth(reqs, id)
           v == read.verdict
<1>1. reqs \in Seq(Request) /\ id \in 1..Len(reqs)
  BY Zenon DEF CacheInv, Ids
<1>2. Alike(reqs, read.reqs, NoVerdict) /\ v \in {NoVerdict, reqs[id].verdict}
  BY <1>1, ReadFacts, Zenon
<1>3. v.node # NoNode => v.node \in nodes /\ v.node \in Node
  BY <1>2 DEF NodeInv, NoVerdict
<1> HIDE DEF read
<1>4. CASE reqToNewRegisterResponse(read.reqs, m)
  BY <1>2, <1>4, NewURL, Zenon
<1>5. ASSUME reqs' = read.reqs, UNCHANGED <<lru, stale>>
      PROVE  CacheInv' /\ Quiet
  <2>1. /\ lru' \in Seq(Nat) /\ Unique(lru') /\ Len(lru') <= Len(lru)
        /\ Entries(lru') \subseteq Cached /\ stale' \subseteq Entries(lru')
    BY <1>5 DEF CacheInv, Entries, Cached
  <2>2. QED
    BY <1>2, <1>5, <2>1, AlikeQuiet, Zenon
<1>6. CASE reqs' = read.reqs /\ UNCHANGED <<lru, stale, client, faults>>
  BY <1>5, <1>6 DEF ClientInv, FollowupsAreOwn, nodesOf
<1>7. CASE /\ v.node # NoNode /\ ~machineKeyMismatch(v.node, m) /\ reqs' = read.reqs
           /\ Answer(m, [client[m] EXCEPT !.node = v.node]) /\ UNCHANGED <<lru, stale>>
  <2> DEFINE c == [client[m] EXCEPT !.node = v.node]
  <2>1. client[m] \in [url : Nat, node : {NoNode} \cup Node]
    BY DEF ClientInv
  <2>2. c \in [url : Nat, node : {NoNode} \cup Node] /\ c.node = v.node
    BY <1>3, <1>7, <2>1
  <2>3. c.node \in nodesOf(m)
    BY <1>3, <1>7, <2>2, Zenon DEF machineKeyMismatch, nodesOf
  <2>4. ClientInv' /\ faults' \in Nat
    BY <1>7, <2>2, <2>3, AnswerFacts, Zenon
  <2>5. QED
    BY <1>5, <1>7, <2>4
<1>8. QED
  BY <1>4, <1>6, <1>7 DEF followupVerdict, read
-----------------------------------------------------------------------------
(* The devices' and the cache's steps.                                      *)

\* Requests that stay as they are.
LEMMA AlikeSelf ==
  ASSUME CacheInv, NEW v
  PROVE  Alike(reqs, reqs, v)
BY DEF CacheInv, Alike

\* Looking an entry up uses it.
LEMMA LookupFacts ==
  ASSUME CacheInv, NEW id \in Ids, lru' = IF InCache(id) THEN Touch(id) ELSE lru
  PROVE  /\ lru' \in Seq(Nat) /\ Unique(lru') /\ Len(lru') <= Len(lru)
         /\ Entries(lru') = Cached
<1>1. Len(lru) \in Nat
  BY DEF CacheInv
<1>2. CASE InCache(id)
  BY <1>1, <1>2, TouchFacts
<1>3. CASE ~InCache(id)
  BY <1>1, <1>3 DEF CacheInv, Entries, Cached
<1>4. QED
  BY <1>2, <1>3

\* An entry is looked up, and perhaps finished without a node.
LEMMA LookupQuiet ==
  ASSUME CacheInv, NEW id \in Ids, lru' = IF InCache(id) THEN Touch(id) ELSE lru, stale' = stale,
         NEW v \in {NoVerdict, Rejected}, Alike(reqs, reqs', v), scope' = scope
  PROVE  CacheInv' /\ Quiet
<1>1. /\ lru' \in Seq(Nat) /\ Unique(lru') /\ Len(lru') <= Len(lru)
      /\ Entries(lru') = Cached
  BY LookupFacts
<1>2. stale' \subseteq Entries(lru')
  BY <1>1 DEF CacheInv
<1>3. QED
  BY <1>1, <1>2, AlikeQuiet

\* An entry leaves the cache.
LEMMA DropQuiet ==
  ASSUME CacheInv, NEW id \in Ids, lru' = Drop(lru, id), stale' = stale \ {id},
         NEW v \in {NoVerdict, Rejected}, Alike(reqs, reqs', v), scope' = scope
  PROVE  CacheInv' /\ Quiet /\ Cached' = Cached \ {id}
<1>1. lru \in Seq(Nat) /\ Unique(lru) /\ id \in Nat /\ Len(lru) \in Nat /\ Entries(lru) = Cached
  <2>1. lru \in Seq(Nat) /\ Unique(lru)
    BY Zenon DEF CacheInv
  <2>2. id \in Nat
    BY DEF CacheInv, Ids
  <2>3. Entries(lru) = Cached
    BY Zenon DEF Entries, Cached
  <2>4. QED
    BY <2>1, <2>2, <2>3
<1>2. /\ lru' \in Seq(Nat) /\ Unique(lru') /\ Entries(lru') = Cached \ {id}
      /\ Len(lru') = IF id \in Entries(lru) THEN Len(lru) - 1 ELSE Len(lru)
  BY <1>1, DropFacts
<1>3. Len(lru') <= Len(lru)
  BY <1>1, <1>2
<1>4. stale' \subseteq Entries(lru')
  BY <1>2 DEF CacheInv
<1>5. CacheInv' /\ Quiet
  BY <1>2, <1>3, <1>4, AlikeQuiet, Zenon
<1>6. Cached' = Entries(lru')
  BY DEF Cached, Entries
<1>7. QED
  BY <1>2, <1>5, <1>6

\* Requests are numbered.
LEMMA IdsAreNumbers == Ids \subseteq Nat
BY DEF Ids

\* The clock, and the time of an approval that was never given.
LEMMA NeverIsReading ==
  /\ MaxTime \in Nat /\ Period \in Nat /\ Never \in Int
  /\ Never \in Never..MaxTime
  /\ 0..MaxTime \subseteq Never..MaxTime
<1>1. MaxTime \in Nat /\ Period \in Nat
  BY AuthAssumption, Zenon
<1>2. QED
  BY <1>1 DEF Never

\* The proof record has its type.
LEMMA ProofTyped ==
  ASSUME AuthInv
  PROVE  /\ ProofType
         /\ proof.signed \in SUBSET ((Browsers \cup {None}) \X Users \X Nat)
         /\ proof.passed \in [Pairs -> [at : Never..MaxTime, gen : Int]]
         /\ proof.gen \in Nat
         /\ proof = [signed |-> proof.signed, passed |-> proof.passed, gen |-> proof.gen]
<1>1. ProofType
  BY DEF AuthInv, ConfirmInv
<1>2. QED
  BY <1>1, Zenon DEF ProofType

\* A registration request: answered at once, sent to a URL, parked, or
\* answered with the verdict.
LEMMA HandleRegister ==
  ASSUME AuthInv, NEW m \in scope.machines, NEW f \in {0} \cup Ids,
         NEW w \in scope.slots \cup {None}, handleRegister(m, f, w)
  PROVE  AuthInv'
<1>1. UNCHANGED <<nodes, users, tasks, clock, scope, proof, access, hosts, policy, clearing,
                  lastAuth, logins, pendingStates, cookies, confirm, tokens>>
  BY Zenon DEF handleRegister, timeVars, sshVars, oidcVars
<1>2. m \in Machines /\ faults \in Nat /\ scope.slots \subseteq Slots
  BY AuthAssumption, Zenon DEF AuthInv, CacheInv, CheckInv
<1>3. CacheInv /\ WaitInv /\ NodeInv /\ ClientInv
  BY Zenon DEF AuthInv
<1> SUFFICES CacheInv' /\ Quiet /\ WaitInv' /\ ClientInv' /\ faults' \in Nat
  <2>1. ProofType' /\ CheckInv'
    BY <1>1, ProofTyped, CheckKept, Zenon DEF AuthInv, ProofType
  <2>2. QED
    BY <1>1, <2>1, QuietKeeps, Zenon
<1>4. CASE /\ \E n \in GetNodeByNodeKey(m) : Answer(m, [client[m] EXCEPT !.node = n])
           /\ UNCHANGED <<authVars, waits>>
  <2>1. CacheInv' /\ Quiet /\ Calm
    BY <1>1, <1>3, <1>4, SameCache DEF authVars, Quiet
  <2>2. PICK n \in GetNodeByNodeKey(m) : Answer(m, [client[m] EXCEPT !.node = n])
    BY <1>4, Zenon
  <2>3. client[m] \in [url : Nat, node : {NoNode} \cup Node]
    BY <1>2, <1>3 DEF ClientInv
  <2>4. n \in nodesOf(m) /\ n \in Node
    BY <1>3, <2>2 DEF GetNodeByNodeKey, nodesOf, NodeInv
  <2> DEFINE c == [client[m] EXCEPT !.node = n]
  <2>5. c \in [url : Nat, node : {NoNode} \cup Node] /\ c.node = n
    BY <2>3, <2>4
  <2>6. ClientInv' /\ faults' \in Nat
    BY <1>1, <1>2, <1>3, <2>2, <2>4, <2>5, AnswerFacts, Zenon
  <2>7. WaitInv'
    BY <1>3, <1>4, <2>1, WaitKept, Zenon
  <2>8. QED
    BY <2>1, <2>6, <2>7
<1>5. CASE reqToNewRegisterResponse(reqs, m) /\ UNCHANGED waits
  <2>1. CacheInv' /\ Quiet /\ ClientInv' /\ faults' \in Nat
    BY <1>1, <1>2, <1>3, <1>5, AlikeSelf, NewURL, Zenon
  <2>2. WaitInv'
    BY <1>3, <1>5, <2>1, WaitKept, Zenon DEF Quiet
  <2>3. QED
    BY <2>1, <2>2
<1>6. CASE /\ f # 0 /\ InCache(f) /\ Park(w, [who |-> m, id |-> f, found |-> FALSE])
           /\ GetAuthCacheEntry(f) /\ UNCHANGED <<reqs, client, faults>>
  <2>1. f \in Ids /\ f \in Nat /\ w \in Slots
    BY <1>2, <1>6, IdsAreNumbers, Zenon DEF Park
  <2>2. CacheInv' /\ Quiet /\ Calm
    BY <1>1, <1>3, <1>6, <2>1, AlikeSelf, LookupQuiet, Zenon DEF GetAuthCacheEntry, Quiet
  <2> DEFINE r == [who |-> m, id |-> f, found |-> FALSE]
  <2>3. r \in Wait /\ r.id \in Ids
    BY <1>2, <2>1 DEF Wait
  <2>4. WaitInv'
    BY <1>3, <1>6, <2>1, <2>2, <2>3, ParkFacts, Zenon DEF Park
  <2>5. ClientInv'
    BY <1>1, <1>3, <1>6, ClientKept, Zenon
  <2>6. QED
    BY <1>2, <1>6, <2>2, <2>4, <2>5, Zenon
<1>7. CASE f # 0 /\ followupVerdict(m, f) /\ UNCHANGED waits
  <2>1. f \in Ids
    BY <1>7
  <2>2. CacheInv' /\ Quiet /\ ClientInv' /\ faults' \in Nat
    BY <1>1, <1>2, <1>3, <1>7, <2>1, ReadVerdict, Zenon
  <2>3. WaitInv'
    BY <1>3, <1>7, <2>2, WaitKept, Zenon DEF Quiet
  <2>4. QED
    BY <2>2, <2>3
<1>8. QED
  BY <1>4, <1>5, <1>6, <1>7 DEF handleRegister, handleRegisterInteractive

\* A parked follow-up reads its verdict, or its client goes away.
LEMMA WaitForFollowup ==
  ASSUME AuthInv, NEW w \in scope.slots, waitForFollowup(w) \/ Cancel(w)
  PROVE  AuthInv'
<1>1. UNCHANGED <<nodes, users, tasks, clock, scope, proof, access, hosts, policy, clearing,
                  lastAuth, logins, pendingStates, cookies, confirm, tokens>>
  BY DEF waitForFollowup, Cancel, timeVars, sshVars, oidcVars
<1>2. w \in Slots /\ faults \in Nat
  BY AuthAssumption, Zenon DEF AuthInv, CacheInv, CheckInv
<1>3. CacheInv /\ WaitInv /\ NodeInv /\ ClientInv
  BY Zenon DEF AuthInv
<1>4. waits' = [waits EXCEPT ![w] = None]
  BY Zenon DEF waitForFollowup, Cancel, Unpark
<1>5. CacheInv' /\ Quiet /\ ClientInv' /\ faults' \in Nat
  <2>1. CASE waitForFollowup(w)
    <3>1. waits[w].who \in Machines /\ waits[w].id \in Ids
      BY <1>2, <1>3, <2>1, Zenon DEF waitForFollowup, WaitInv, Free
    <3>2. followupVerdict(waits[w].who, waits[w].id)
      BY <2>1, Zenon DEF waitForFollowup
    <3>3. QED
      BY <1>1, <1>2, <1>3, <3>1, <3>2, ReadVerdict, Zenon
  <2>2. CASE Cancel(w)
    <3>1. UNCHANGED <<scope, reqs, lru, stale, client>> /\ faults' = faults + 1
      BY <2>2, Zenon DEF Cancel, authVars, timeVars
    <3>2. ClientInv'
      BY <1>1, <1>3, <3>1, ClientKept, Zenon
    <3>3. QED
      BY <1>2, <1>3, <3>1, <3>2, SameCache
  <2>3. QED
    BY <2>1, <2>2, Zenon
<1>6. WaitInv'
  BY <1>2, <1>3, <1>4, <1>5, ParkFacts, Zenon DEF Quiet
<1>7. ProofType' /\ CheckInv'
  BY <1>1, <1>5, ProofTyped, CheckKept, Zenon DEF AuthInv, ProofType
<1>8. QED
  BY <1>1, <1>5, <1>6, <1>7, QuietKeeps, Zenon

\* Entries run out, and administrators answer requests without a node.
LEMMA CacheSteps ==
  ASSUME AuthInv, NEW id \in Ids, Age(id) \/ Sweep(id) \/ AuthApprove(id) \/ AuthReject(id)
  PROVE  AuthInv'
<1>1. UNCHANGED <<nodes, users, tasks, clock, scope, proof, access, hosts, policy, clearing,
                  lastAuth, logins, pendingStates, cookies, confirm, tokens, waits, client, faults>>
  BY DEF Age, Sweep, AuthApprove, AuthReject, timeVars, sshVars, oidcVars
<1>2. CacheInv /\ WaitInv /\ NodeInv /\ ClientInv /\ CheckInv
  BY Zenon DEF AuthInv
<1>3. reqs \in Seq(Request) /\ id \in 1..Len(reqs) /\ NoVerdict \in Verdict /\ Rejected \in Verdict
  BY <1>2, Zenon DEF CacheInv, Ids, Verdict, NoVerdict, Rejected
<1>4. CacheInv' /\ Quiet
  <2>1. CASE Age(id)
    <3>1. reqs' = reqs /\ lru' = lru /\ stale' = stale \cup {id} /\ id \in Cached
      BY <2>1, Zenon DEF Age, InCache, Cached
    <3>2. Len(lru) \in Nat
      BY <1>2 DEF CacheInv
    <3>3. /\ lru' \in Seq(Nat) /\ Unique(lru') /\ Len(lru') <= Len(lru)
          /\ Entries(lru') \subseteq Cached /\ stale' \subseteq Entries(lru')
      <4>1. lru' \in Seq(Nat) /\ Unique(lru') /\ Len(lru') <= Len(lru)
        BY <1>2, <3>1, <3>2 DEF CacheInv
      <4>2. Entries(lru') = Cached
        BY <3>1, Zenon DEF Entries, Cached
      <4>3. stale' \subseteq Cached
        BY <1>2, <3>1, Zenon DEF CacheInv
      <4>4. QED
        BY <4>1, <4>2, <4>3, Zenon
    <3>4. Alike(reqs, reqs', NoVerdict)
      BY <1>2, <3>1, AlikeSelf, Zenon
    <3>5. QED
      BY <1>1, <1>2, <3>3, <3>4, AlikeQuiet, Zenon
  <2>2. CASE Sweep(id)
    BY <1>1, <1>2, <1>3, <2>2, FinishFacts, DropQuiet, Zenon DEF Sweep, Evict
  <2>3. CASE AuthApprove(id)
    BY <1>1, <1>2, <1>3, <2>3, FinishFacts, LookupQuiet, Zenon DEF AuthApprove, GetAuthCacheEntry
  <2>4. CASE AuthReject(id)
    BY <1>1, <1>2, <1>3, <2>4, FinishFacts, LookupQuiet, Zenon DEF AuthReject, GetAuthCacheEntry
  <2>5. QED
    BY <2>1, <2>2, <2>3, <2>4, Zenon
<1>5. WaitInv' /\ ClientInv'
  BY <1>1, <1>2, <1>4, WaitKept, ClientKept, Zenon DEF Quiet
<1>6. ProofType' /\ CheckInv'
  BY <1>1, <1>2, ProofTyped, CheckKept, Zenon DEF CheckInv, ProofType
<1>7. QED
  BY <1>1, <1>4, <1>5, <1>6, QuietKeeps, Zenon
-----------------------------------------------------------------------------
(* SSH checks.                                                              *)

\* An answer to an SSH server is not a recorded approval.
LEMMA ReplyKeeps ==
  ASSUME CheckInv, NEW p \in Pairs,
         NEW a \in [id : Nat, ans : {"none", "hold", "accept", "reject"}], Reply(p, a),
         UNCHANGED <<policy, clearing, lastAuth, clock, faults, proof>>
  PROVE  CheckInv'
BY Zenon DEF CheckInv, Reply

\* A connection that is accepted, or held for a check.
LEMMA SSHAction ==
  ASSUME AuthInv, NEW p \in scope.pairs, sshAction(p)
  PROVE  AuthInv'
<1>1. UNCHANGED <<waits, client, nodes, users, tasks, clock, scope, faults, proof, hosts, policy,
                  clearing, lastAuth, logins, pendingStates, cookies, confirm, tokens>>
  BY Zenon DEF sshAction, timeVars, oidcVars
<1>2. p \in Pairs
  BY AuthAssumption, Zenon DEF AuthInv, CacheInv
<1>3. CacheInv /\ WaitInv /\ NodeInv /\ ClientInv /\ CheckInv
  BY Zenon DEF AuthInv
<1>4. CacheInv' /\ Quiet /\ CheckInv'
  <2>1. CASE Reply(p, [id |-> 0, ans |-> "accept"]) /\ UNCHANGED authVars
    <3>1. CacheInv' /\ Quiet
      BY <1>1, <1>3, <2>1, SameCache, Zenon DEF authVars
    <3>2. CheckInv'
      BY <1>1, <1>2, <1>3, <2>1, ReplyKeeps, Zenon
    <3>3. QED
      BY <3>1, <3>2
  <2>2. CASE sshActionHoldAndDelegate(reqs, p)
    <3>1. CacheInv' /\ Quiet /\ Len(reqs) + 1 \in Nat
      BY <1>1, <1>2, <1>3, <2>2, AlikeSelf, EntryQuiet, Zenon DEF sshActionHoldAndDelegate
    <3>2. [id |-> Len(reqs) + 1, ans |-> "hold"] \in [id : Nat, ans : {"none", "hold", "accept", "reject"}]
      BY <3>1
    <3>3. CheckInv'
      BY <1>1, <1>2, <1>3, <2>2, <3>2, ReplyKeeps, Zenon DEF sshActionHoldAndDelegate
    <3>4. QED
      BY <3>1, <3>3
  <2>3. QED
    BY <2>1, <2>2, Zenon DEF sshAction
<1>5. WaitInv' /\ ClientInv'
  BY <1>1, <1>3, <1>4, WaitKept, ClientKept, Zenon DEF Quiet
<1>6. ProofType'
  BY <1>1, ProofTyped DEF ProofType
<1>7. QED
  BY <1>1, <1>4, <1>5, <1>6, QuietKeeps, Zenon

\* The follow-up of a check: delegated again, or parked.
LEMMA SSHFollowUp ==
  ASSUME AuthInv, NEW p \in scope.pairs, NEW id \in Ids, NEW w \in scope.slots,
         sshActionFollowUp(p, id, w)
  PROVE  AuthInv'
<1>1. UNCHANGED <<client, nodes, users, tasks, clock, scope, faults, proof, hosts, policy,
                  clearing, lastAuth, logins, pendingStates, cookies, confirm, tokens>>
  BY Zenon DEF sshActionFollowUp, timeVars, oidcVars
<1>2. p \in Pairs /\ w \in Slots
  BY AuthAssumption, Zenon DEF AuthInv, CacheInv
<1>3. CacheInv /\ WaitInv /\ NodeInv /\ ClientInv /\ CheckInv
  BY DEF AuthInv
<1>4. CacheInv' /\ Quiet /\ CheckInv' /\ WaitInv'
  <2>1. CASE sshActionHoldAndDelegate(reqs, p) /\ UNCHANGED waits
    <3>1. CacheInv' /\ Quiet /\ Len(reqs) + 1 \in Nat
      BY <1>1, <1>2, <1>3, <2>1, AlikeSelf, EntryQuiet, Zenon DEF sshActionHoldAndDelegate
    <3>2. [id |-> Len(reqs) + 1, ans |-> "hold"] \in [id : Nat, ans : {"none", "hold", "accept", "reject"}]
      BY <3>1
    <3>3. CheckInv'
      BY <1>1, <1>2, <1>3, <2>1, <3>2, ReplyKeeps, Zenon DEF sshActionHoldAndDelegate
    <3>4. WaitInv'
      BY <1>3, <2>1, <3>1, WaitKept, Zenon DEF Quiet
    <3>5. QED
      BY <3>1, <3>3, <3>4
  <2>2. CASE /\ InCache(id) /\ Park(w, [who |-> p, id |-> id, found |-> policy.found])
             /\ GetAuthCacheEntry(id) /\ UNCHANGED <<reqs, access>>
    <3>1. CacheInv' /\ Quiet /\ Calm
      BY <1>1, <1>3, <2>2, AlikeSelf, LookupQuiet, Zenon DEF GetAuthCacheEntry, Quiet
    <3> DEFINE r == [who |-> p, id |-> id, found |-> policy.found]
    <3>2. policy.found \in BOOLEAN /\ id \in Nat
      <4>1. policy \in Policies
        BY <1>3, Zenon DEF CheckInv
      <4>2. /\ [found |-> FALSE, period |-> 0].found \in BOOLEAN
            /\ [found |-> TRUE, period |-> 0].found \in BOOLEAN
            /\ [found |-> TRUE, period |-> Period].found \in BOOLEAN
        BY Zenon
      <4>3. policy.found \in BOOLEAN
        BY <4>1, <4>2, Zenon DEF Policies
      <4>4. id \in Nat
        BY IdsAreNumbers, Zenon
      <4>5. QED
        BY <4>3, <4>4, Zenon
    <3>3. r \in Wait /\ r.id \in Ids
      BY <1>2, <3>2 DEF Wait
    <3>4. WaitInv'
      BY <1>2, <1>3, <2>2, <3>1, <3>3, ParkFacts, Zenon DEF Park
    <3>5. CheckInv'
      BY <1>1, <1>3, <2>2, CheckKept, Zenon DEF CheckInv
    <3>6. QED
      BY <3>1, <3>4, <3>5, Zenon
  <2>3. QED
    BY <2>1, <2>2, Zenon DEF sshActionFollowUp
<1>5. ClientInv'
  BY <1>1, <1>3, ClientKept, Zenon
<1>6. ProofType'
  BY <1>1, ProofTyped DEF ProofType
<1>7. QED
  BY <1>1, <1>4, <1>5, <1>6, QuietKeeps, Zenon

\* The verdict of a check: an approval is recorded with the generation of the
\* records it enters.
LEMMA FollowUpVerdict ==
  ASSUME AuthInv, NEW w \in scope.slots, followUpVerdict(w)
  PROVE  AuthInv'
<1> DEFINE p == waits[w].who
           id == waits[w].id
           read == WaitForAuth(reqs, id)
           a == [id |-> id, ans |-> IF read.verdict.err THEN "reject" ELSE "accept"]
<1>1. UNCHANGED <<lru, stale, client, nodes, users, tasks, clock, scope, faults, hosts, policy,
                  clearing, logins, pendingStates, cookies, confirm, tokens>>
  BY DEF followUpVerdict, timeVars, oidcVars
<1>2. w \in Slots /\ CacheInv /\ WaitInv /\ ClientInv /\ CheckInv
  BY AuthAssumption, Zenon DEF AuthInv, CacheInv
<1>3. p \in Pairs /\ id \in Ids /\ id \in Nat
  BY <1>2 DEF followUpVerdict, Free, WaitInv, Ids
<1>4. /\ reqs' = read.reqs /\ waits' = [waits EXCEPT ![w] = None] /\ Reply(p, a)
      /\ \/ /\ lastAuth' = [lastAuth EXCEPT ![p] = clock]
            /\ proof' = [proof EXCEPT !.passed[p] = [at |-> clock, gen |-> proof.gen]]
         \/ UNCHANGED <<lastAuth, proof>>
  BY Zenon DEF followUpVerdict, Unpark, SetLastSSHAuth
<1>5. CacheInv' /\ Quiet
  <2>1. reqs \in Seq(Request) /\ id \in 1..Len(reqs)
    BY <1>2, <1>3 DEF CacheInv, Ids
  <2>2. Alike(reqs, reqs', NoVerdict)
    BY <1>4, <2>1, ReadFacts, Zenon
  <2>3. Len(lru) \in Nat
    BY <1>2 DEF CacheInv
  <2>4. /\ lru' \in Seq(Nat) /\ Unique(lru') /\ Len(lru') <= Len(lru)
        /\ Entries(lru') \subseteq Cached /\ stale' \subseteq Entries(lru')
    <3>1. lru' \in Seq(Nat) /\ Unique(lru') /\ Len(lru') <= Len(lru)
      <4>1. lru' = lru /\ lru \in Seq(Nat) /\ Unique(lru)
        BY <1>1, <1>2, Zenon DEF CacheInv
      <4>2. lru' \in Seq(Nat) /\ Unique(lru') /\ Len(lru') = Len(lru)
        BY <4>1, Zenon
      <4>3. QED
        BY <2>3, <4>2
    <3>2. Entries(lru') = Cached
      BY <1>1, Zenon DEF Entries, Cached
    <3>3. stale' \subseteq Cached
      BY <1>1, <1>2, Zenon DEF CacheInv
    <3>4. QED
      BY <3>1, <3>2, <3>3, Zenon
  <2>5. QED
    BY <1>1, <1>2, <2>2, <2>4, AlikeQuiet, Zenon
<1>6. WaitInv' /\ ClientInv'
  <2>1. WaitInv'
    BY <1>2, <1>4, <1>5, ParkFacts, Zenon DEF Quiet
  <2>2. QED
    BY <1>1, <1>2, <2>1, ClientKept, Zenon
<1>7. access' \in [Pairs -> [id : Nat, ans : {"none", "hold", "accept", "reject"}]]
  <2>1. a \in [id : Nat, ans : {"none", "hold", "accept", "reject"}]
    BY <1>3, Zenon
  <2>2. QED
    BY <1>2, <1>3, <1>4, <2>1, Zenon DEF Reply, CheckInv
<1> HIDE DEF p, id, read, a
<1>8. CASE UNCHANGED <<lastAuth, proof>>
  <2>1. CheckInv' /\ ProofType'
    BY <1>1, <1>2, <1>7, <1>8, ProofTyped, Zenon DEF CheckInv, ProofType
  <2>2. QED
    BY <1>1, <1>5, <1>6, <1>8, <2>1, QuietKeeps, Zenon
<1>9. CASE /\ lastAuth' = [lastAuth EXCEPT ![p] = clock]
           /\ proof' = [proof EXCEPT !.passed[p] = [at |-> clock, gen |-> proof.gen]]
  <2> DEFINE new == [at |-> clock, gen |-> proof.gen]
             passed == [proof.passed EXCEPT ![p] = new]
  <2>1. clock \in Never..MaxTime /\ proof.gen \in Int
    <3>1. proof.gen \in Nat
      BY ProofTyped, Zenon
    <3>2. clock \in 0..MaxTime
      BY <1>2, Zenon DEF CheckInv
    <3>3. QED
      BY <3>1, <3>2, NeverIsReading
  <2>2. new \in [at : Never..MaxTime, gen : Int] /\ new.at = clock /\ new.gen = proof.gen
    BY <2>1, Zenon
  <2>3. proof' = [signed |-> proof.signed, passed |-> passed, gen |-> proof.gen]
    BY <1>9, ProofTyped, Zenon
  <2> HIDE DEF new
  <2>4. passed \in [Pairs -> [at : Never..MaxTime, gen : Int]]
    BY <2>2, ProofTyped, Zenon
  <2>5. \A q \in Pairs : /\ passed[q] = IF q = p THEN new ELSE proof.passed[q]
                         /\ lastAuth'[q] = IF q = p THEN clock ELSE lastAuth[q]
    BY <1>2, <1>9, ProofTyped DEF CheckInv
  <2>6. lastAuth' \in [Pairs -> Never..MaxTime]
    BY <1>2, <1>9, <2>1, Zenon DEF CheckInv
  <2> HIDE DEF passed
  <2>7. proof'.signed = proof.signed /\ proof'.passed = passed /\ proof'.gen = proof.gen
    BY <2>3, Zenon
  <2>8. ProofType'
    BY <2>3, <2>4, ProofTyped DEF ProofType
  <2>9. CheckInv'
    BY <1>1, <1>2, <1>7, <2>2, <2>5, <2>6, <2>7, ZenonT(30) DEF CheckInv
  <2>10. QED
    BY <1>1, <1>5, <1>6, <2>7, <2>8, <2>9, QuietKeeps, Zenon
<1>10. QED
  BY <1>4, <1>8, <1>9

\* Policies, their installation, deleted hosts and the clock.
LEMMA CheckSteps ==
  ASSUME AuthInv, (\E q \in Policies : SetPolicy(q)) \/ policyInstalled \/ Tick
                  \/ \E n \in hosts : DeleteNode(n)
  PROVE  AuthInv'
<1>1. UNCHANGED <<waits, client, nodes, users, tasks, scope, faults, access, reqs, lru, stale,
                  logins, pendingStates, cookies, confirm, tokens>>
  BY DEF SetPolicy, policyInstalled, Tick, DeleteNode, timeVars, sshVars, oidcVars, authVars
<1>2. CacheInv /\ WaitInv /\ ClientInv /\ CheckInv
  BY DEF AuthInv
<1>3. CacheInv' /\ Quiet
  BY <1>1, <1>2, SameCache, Zenon
<1>4. WaitInv' /\ ClientInv'
  BY <1>1, <1>2, <1>3, WaitKept, ClientKept DEF Quiet
<1>5. CASE policyInstalled
  <2>1. /\ lastAuth' = [q \in Pairs |-> Never] /\ clearing' = FALSE
        /\ proof' = [proof EXCEPT !.gen = @ + 1] /\ UNCHANGED <<policy, clock>>
    BY <1>5 DEF policyInstalled, ClearSSHCheckAuth, timeVars
  <2>2. Never \in Never..MaxTime
    BY NeverIsReading, Zenon
  <2>3. proof' = [signed |-> proof.signed, passed |-> proof.passed, gen |-> proof.gen + 1]
    BY <2>1, ProofTyped, Zenon
  <2>4. ProofType' /\ proof'.signed = proof.signed
    BY <2>3, ProofTyped DEF ProofType
  <2>5. CheckInv'
    BY <1>1, <1>2, <2>1, <2>2, Zenon DEF CheckInv
  <2>6. QED
    BY <1>1, <1>3, <1>4, <2>4, <2>5, QuietKeeps, Zenon
<1>6. CASE (\E q \in Policies : SetPolicy(q)) \/ Tick \/ \E n \in hosts : DeleteNode(n)
  <2>1. UNCHANGED <<lastAuth, proof>>
    BY <1>6 DEF SetPolicy, Tick, DeleteNode, sshVars
  <2>2. policy' \in Policies /\ clearing' \in BOOLEAN
    BY <1>2, <1>6, Zenon DEF SetPolicy, Tick, DeleteNode, sshVars, CheckInv
  <2>3. clock' \in 0..MaxTime
    <3>1. clock \in 0..MaxTime /\ MaxTime \in Nat
      BY <1>2, AuthAssumption, Zenon DEF CheckInv
    <3>2. CASE Tick
      BY <3>1, <3>2 DEF Tick
    <3>3. CASE ~Tick
      BY <1>6, <3>1, <3>3, Zenon DEF SetPolicy, DeleteNode, timeVars
    <3>4. QED
      BY <3>2, <3>3, Zenon
  <2>4. CheckInv'
    BY <1>1, <1>2, <2>1, <2>2, <2>3, Zenon DEF CheckInv
  <2>5. ProofType'
    BY <2>1, ProofTyped DEF ProofType
  <2>6. QED
    BY <1>1, <1>3, <1>4, <2>1, <2>4, <2>5, QuietKeeps, Zenon
<1>7. QED
  BY <1>5, <1>6

=============================================================================
