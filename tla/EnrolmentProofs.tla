---------------------------- MODULE EnrolmentProofs ----------------------------
(***************************************************************************)
(* Proofs about Enrolment for every network, every set of requests, any    *)
(* number of concurrent callers, failing writes and restarts: ownership,   *)
(* the single use of a key, and what a spent key may still do.             *)
(***************************************************************************)
EXTENDS Enrolment, FiniteSetTheorems, TLAPS

(* A leaf that names no prover is tried with SMT, with Zenon, and with SMT  *)
(* once more.                                                               *)
USE SMT, Zenon, SMTT(60)

Columns == {"mk", "nk", "user", "tags", "expiry", "ak", "announced", "approved", "ip4", "ip6"}

\* A node as the store and the table hold it.
IsRow(n) == DOMAIN n = Columns /\ validateNodeOwnership(n)

PakSteps == {"pakFind", "pakUpdate", "pakSave", "rollback"}
AuthSteps == {"authFind", "authUpdate", "authSave"}
CreateSteps == {"allocate", "insert", "put"}

\* What a handler holds: its request, and nodes that are owned or tagged.
IsFrame(f) ==
  \/ f = Idle
  \/ /\ f.at # "idle" /\ f.req \in Requests
     /\ f.at \in PakSteps => f.req.op = "pak"
     /\ f.at \in AuthSteps => f.req.op = "auth"
     /\ f.at \in CreateSteps => f.req.op \in {"pak", "auth"}
     /\ f.at \in {"backfill", "backfillList", "backfillPut"} => f.req.op = "backfill"
     /\ f.at \in {"allocate", "insert"} => DOMAIN f = {"at", "req", "pak", "node"}
     /\ f.at \in {"deleteRow", "deleteStore", "deleteFree"} => DOMAIN f = {"at", "req", "id", "ips"}
     /\ f.at = "backfill" => DOMAIN f = {"at", "req", "todo", "rows"} /\ f.todo \subseteq DOMAIN f.rows
     /\ f.at = "backfillPut" => DOMAIN f = {"at", "req", "rows"}
     /\ f.at = "persistWrite" => IsRow(f.fresh)
     /\ f.at \in {"pakUpdate", "pakSave", "rollback"} => IsRow(f.prior)
     /\ f.at \in {"pakSave", "authSave", "allocate", "insert", "put"} => IsRow(f.node)
     /\ f.at \in {"backfill", "backfillPut"} =>
          DOMAIN f.rows \subseteq Nat /\ \A i \in DOMAIN f.rows : IsRow(f.rows[i])

CallInv == DOMAIN call = Callers /\ \A c \in Callers : IsFrame(call[c])

NodeInv ==
  /\ nextID \in Nat /\ DOMAIN rows \subseteq Nat
  /\ \A i \in DOMAIN nodes : IsRow(nodes[i])
  /\ \A i \in DOMAIN rows : IsRow(rows[i])

\* A key that some registration used is marked as used.
KeyInv ==
  /\ keys \in [KeyIDs -> KeyRow]
  /\ uses \in [KeyIDs -> Nat]
  /\ \A k \in KeyIDs : ~KeyOf[k].reusable => uses[k] <= 1 /\ (uses[k] = 1 => keys[k].used)

EnrolInv == CallInv /\ NodeInv /\ KeyInv

-------------------------------------------------------------------------------
(* Nodes.                                                                   *)

\* Columns other than the owner.
LEMMA RowLike ==
  ASSUME NEW n, NEW g, IsRow(n), DOMAIN g = DOMAIN n, g.tags = n.tags, g.user = n.user
  PROVE  IsRow(g)
BY DEF IsRow, validateNodeOwnership, IsTagged

\* A node that is given to tags has a row.
LEMMA RowTagged ==
  ASSUME NEW g, DOMAIN g = Columns, g.tags # {}, g.user = 0
  PROVE  IsRow(g)
BY DEF IsRow, validateNodeOwnership, IsTagged

\* A node that is given to a user has a row.
LEMMA RowOwned ==
  ASSUME NEW g, DOMAIN g = Columns, g.tags = {}, g.user # 0
  PROVE  IsRow(g)
BY DEF IsRow, validateNodeOwnership, IsTagged

\* The closure of HandleNodeFromPreAuthKey gives a node that is owned or
\* tagged, and a key without tags, or the node's own, leaves its owner alone.
LEMMA ReregisteredFacts ==
  ASSUME NEW n, IsRow(n), NEW r, NEW t
  PROVE  LET g == reregistered(n, r, t)
         IN  /\ IsRow(g) /\ g.mk = n.mk /\ g.nk = r.nk /\ g.ak = r.key
             /\ KeyOf[r.key].tags = {} \/ (IsTagged(n) /\ n.ak = r.key)
                  => g.tags = n.tags /\ g.user = n.user
<1> DEFINE key == KeyOf[r.key]
           retags == key.tags # {} /\ (~IsTagged(n) \/ n.ak # r.key)
           late == IF ~IsTagged(n) \/ IsExpired(n, t) THEN 0 ELSE n.expiry
           moved == [n EXCEPT !.tags = key.tags, !.user = 0, !.expiry = late]
           owned == IF retags THEN moved ELSE n
           e == CASE ~IsTagged(owned) -> ExpiryOf(r, t)
                  [] IsTagged(owned) /\ IsExpired(owned, t) -> 0
                  [] OTHER -> owned.expiry
           g == [owned EXCEPT !.nk = r.nk, !.ak = r.key, !.announced = r.announced, !.expiry = e]
<1>1. reregistered(n, r, t) = g
  BY DEF reregistered
<1>2. DOMAIN n = Columns
  BY DEF IsRow
<1> HIDE DEF late
<1>3. DOMAIN moved = Columns /\ moved.tags = key.tags /\ moved.user = 0 /\ moved.mk = n.mk
  BY <1>2 DEF Columns
<1> HIDE DEF moved
<1>4. /\ IsRow(owned) /\ DOMAIN owned = Columns /\ owned.mk = n.mk
      /\ ~retags => owned = n
  <2>1. CASE retags
    BY <1>3, <2>1, RowTagged
  <2>2. CASE ~retags
    BY <1>2, <2>2
  <2>3. QED
    BY <2>1, <2>2
<1> HIDE DEF e, owned
<1>5. /\ DOMAIN g = DOMAIN owned /\ g.tags = owned.tags /\ g.user = owned.user /\ g.mk = owned.mk
      /\ g.nk = r.nk /\ g.ak = r.key
  BY <1>4 DEF Columns
<1> HIDE DEF g
<1>6. IsRow(g)
  BY <1>4, <1>5, RowLike
<1>7. key.tags = {} \/ (IsTagged(n) /\ n.ak = r.key) => ~retags
  OBVIOUS
<1> HIDE DEF retags
<1>8. QED
  BY <1>1, <1>4, <1>5, <1>6, <1>7

\* A node that registers again stays on its machine.
LEMMA ReregisteredMachine ==
  ASSUME NEW n, IsRow(n), NEW r, NEW t
  PROVE  reregistered(n, r, t).mk = n.mk
BY ReregisteredFacts

\* Its node key is the one presented.
LEMMA ReregisteredKey ==
  ASSUME NEW n, IsRow(n), NEW r, NEW t
  PROVE  reregistered(n, r, t).nk = r.nk
BY ReregisteredFacts

\* Its tags stay unless the pre-auth key brings other tags.
LEMMA ReregisteredTags ==
  ASSUME NEW n, IsRow(n), NEW r, NEW t,
         KeyOf[r.key].tags = {} \/ (IsTagged(n) /\ n.ak = r.key)
  PROVE  reregistered(n, r, t).tags = n.tags
BY ReregisteredFacts

\* So does its owner.
LEMMA ReregisteredOwner ==
  ASSUME NEW n, IsRow(n), NEW r, NEW t,
         KeyOf[r.key].tags = {} \/ (IsTagged(n) /\ n.ak = r.key)
  PROVE  reregistered(n, r, t).user = n.user
BY ReregisteredFacts

\* A registration finds nodes of its machine.
LEMMA FoundIn ==
  ASSUME NEW m, NEW k, NEW u
  PROVE  /\ \A i \in findExistingNodeForPAK(nodes, m, k) : i \in DOMAIN nodes /\ nodes[i].mk = m
         /\ \A i \in findExistingNodeForAuth(nodes, m, u) : i \in DOMAIN nodes /\ nodes[i].mk = m
<1>1. \A S \in {OwnNodes(nodes, m, KeyOf[k].user), OwnNodes(nodes, m, u), TaggedNodes(nodes, m),
                UserNodes(nodes, m)} : \A i \in S : i \in DOMAIN nodes /\ nodes[i].mk = m
  BY DEF OwnNodes, TaggedNodes, UserNodes
<1>2. findExistingNodeForPAK(nodes, m, k) \in
        {OwnNodes(nodes, m, KeyOf[k].user), TaggedNodes(nodes, m), UserNodes(nodes, m)}
  BY Zenon DEF findExistingNodeForPAK
<1>3. findExistingNodeForAuth(nodes, m, u) \in {OwnNodes(nodes, m, u), TaggedNodes(nodes, m)}
  BY DEF findExistingNodeForAuth
<1>4. QED
  BY <1>1, <1>2, <1>3

\* The closure of applyAuthNodeUpdate does too.
LEMMA ReauthorisedFacts ==
  ASSUME NEW n, IsRow(n), NEW r, r.user # 0, NEW t
  PROVE  LET g == reauthorised(n, r, t) IN IsRow(g) /\ g.mk = n.mk
<1> DEFINE owned == processReauthTags(n, r)
           e == CASE ~IsTagged(owned) -> ExpiryOf(r, t)
                  [] IsTagged(owned) /\ ~IsTagged(n) -> 0
                  [] IsTagged(owned) /\ IsExpired(n, t) -> 0
                  [] OTHER -> owned.expiry
           g == [owned EXCEPT !.nk = r.nk, !.announced = r.announced, !.expiry = e]
<1>1. reauthorised(n, r, t) = g
  BY DEF reauthorised
<1>2. DOMAIN n = Columns
  BY DEF IsRow
<1>3. IsRow(owned) /\ DOMAIN owned = Columns /\ owned.mk = n.mk
  <2>1. CASE r.tags = {} /\ IsTagged(n)
    <3>1. owned = [n EXCEPT !.tags = {}, !.user = r.user, !.ak = 0]
      BY <2>1 DEF processReauthTags
    <3> HIDE DEF owned
    <3>2. DOMAIN owned = Columns /\ owned.tags = {} /\ owned.user = r.user /\ owned.mk = n.mk
      BY <1>2, <3>1 DEF Columns
    <3>3. QED
      BY <3>2, RowOwned
  <2>2. CASE r.tags # {} /\ validateRequestTagsForReauth(n, r.user, r.tags)
    <3>1. owned = [n EXCEPT !.tags = r.tags, !.user = 0]
      BY <2>2 DEF processReauthTags
    <3> HIDE DEF owned
    <3>2. DOMAIN owned = Columns /\ owned.tags = r.tags /\ owned.user = 0 /\ owned.mk = n.mk
      BY <1>2, <3>1 DEF Columns
    <3>3. QED
      BY <2>2, <3>2, RowTagged
  <2>3. CASE ~(r.tags = {} /\ IsTagged(n)) /\ ~(r.tags # {} /\ validateRequestTagsForReauth(n, r.user, r.tags))
    <3>1. owned = n
      BY <2>3 DEF processReauthTags
    <3> HIDE DEF owned
    <3>2. QED
      BY <1>2, <3>1
  <2>4. QED
    BY <2>1, <2>2, <2>3
<1> HIDE DEF e, owned
<1>4. DOMAIN g = DOMAIN owned /\ g.tags = owned.tags /\ g.user = owned.user /\ g.mk = owned.mk
  BY <1>3 DEF Columns
<1> HIDE DEF g
<1>5. QED
  BY <1>1, <1>3, <1>4, RowLike

\* A new node has the tags of its key or request, or else their user.
LEMMA NewNodeFacts ==
  ASSUME NEW r \in Requests, r.op \in {"pak", "auth"}, NEW t
  PROVE  IsRow(newNode(r, t)) /\ newNode(r, t).mk = r.m
<1> DEFINE tags == IF r.op = "pak" THEN KeyOf[r.key].tags ELSE r.tags
           user == IF r.op = "pak" THEN KeyOf[r.key].user ELSE r.user
           e == IF tags = {} THEN ExpiryOf(r, t) ELSE 0
           g == [mk |-> r.m, nk |-> r.nk, tags |-> tags, user |-> IF tags = {} THEN user ELSE 0,
                 ak |-> IF r.op = "pak" THEN r.key ELSE 0, announced |-> r.announced,
                 approved |-> {}, ip4 |-> 0, ip6 |-> 0, expiry |-> e]
<1>1. newNode(r, t) = g
  BY DEF newNode
<1>2. tags = {} => user # 0
  <2>1. CASE r.op = "pak"
    BY <2>1, EnrolmentAssumption, RegistryAssumption, Zenon
  <2>2. CASE r.op = "auth"
    BY <2>2, EnrolmentAssumption, RegistryAssumption
  <2>3. QED
    BY <2>1, <2>2
<1> HIDE DEF tags, user, e
<1>3. DOMAIN g = Columns /\ g.mk = r.m /\ g.tags = tags /\ g.user = IF tags = {} THEN user ELSE 0
  BY DEF Columns
<1> HIDE DEF g
<1>4. IsRow(g)
  <2>1. CASE tags = {}
    BY <1>2, <1>3, <2>1, RowOwned, Zenon
  <2>2. CASE tags # {}
    BY <1>3, <2>2, RowTagged
  <2>3. QED
    BY <2>1, <2>2
<1>5. QED
  BY <1>1, <1>3, <1>4

-------------------------------------------------------------------------------
(* Calls.                                                                   *)

\* A caller that takes up a request was idle.
LEMMA Asking ==
  ASSUME NEW c, NEW op, NEW r \in Ask(c, op)
  PROVE  r \in Requests /\ r.op = op /\ call[c].at = "idle"
BY DEF Ask

\* A caller moves on.
LEMMA FrameMoves ==
  ASSUME CallInv, NEW c \in Callers, NEW f, IsFrame(f), Goto(c, f)
  PROVE  CallInv'
<1>1. DOMAIN call' = Callers /\ \A d \in Callers : call'[d] = IF d = c THEN f ELSE call[d]
  BY DEF CallInv, Goto
<1>2. QED
  BY <1>1 DEF CallInv

\* A caller returns.
LEMMA Returns ==
  ASSUME CallInv, NEW c \in Callers, Return(c)
  PROVE  CallInv'
BY FrameMoves, Zenon DEF Return, IsFrame

\* A caller that is somewhere has a frame with a request.
LEMMA Somewhere ==
  ASSUME CallInv, NEW c \in Callers, call[c].at # "idle"
  PROVE  IsFrame(call[c]) /\ call[c] # Idle /\ call[c].req \in Requests
BY DEF CallInv, IsFrame, Idle

\* One node of the store or the table is replaced or added.
LEMMA RowsPut ==
  ASSUME NEW f, \A j \in DOMAIN f : IsRow(f[j]), NEW i, NEW n, IsRow(n)
  PROVE  /\ \A j \in DOMAIN [f EXCEPT ![i] = n] : IsRow([f EXCEPT ![i] = n][j])
         /\ \A j \in DOMAIN Put(f, i, n) : IsRow(Put(f, i, n)[j])
         /\ \A j \in DOMAIN Drop(f, i) : IsRow(Drop(f, i)[j])
BY DEF Put, Drop

\* A row more.
LEMMA PutDomain ==
  ASSUME NEW f, NEW i, NEW n
  PROVE  DOMAIN Put(f, i, n) = DOMAIN f \cup {i}
BY DEF Put

\* The next number, and the rows with one more.
LEMMA NextNumber ==
  ASSUME NodeInv, NEW n, rows' = Put(rows, nextID, n), nextID' = nextID + 1
  PROVE  nextID' \in Nat /\ DOMAIN rows' = DOMAIN rows \cup {nextID} /\ DOMAIN rows' \subseteq Nat
<1>1. DOMAIN rows' = DOMAIN rows \cup {nextID}
  BY PutDomain, Zenon
<1>2. nextID \in Nat /\ DOMAIN rows \subseteq Nat
  BY DEF NodeInv
<1>3. QED
  BY <1>1, <1>2

\* The frames of persistNode, of an approval, of an expiry and of a new node.
LEMMA SmallFrames ==
  ASSUME NEW r \in Requests, NEW i, NEW n, NEW t
  PROVE  /\ IsFrame(Persist(r, i, n))
         /\ IsFrame([at |-> "approve", req |-> r, id |-> i, approved |-> t])
         /\ IsFrame([at |-> "expireSave", req |-> r, id |-> i, expiry |-> t])
         /\ IsFrame([at |-> "expireStore", req |-> r, id |-> i, expiry |-> t])
         /\ IsFrame([at |-> "deleteRow", req |-> r, id |-> i, ips |-> t])
         /\ IsFrame(Registered(r, i, n))
<1>1. IsFrame(Persist(r, i, n))
  BY DEF IsFrame, Persist, PakSteps, AuthSteps, CreateSteps
<1>2. IsFrame([at |-> "approve", req |-> r, id |-> i, approved |-> t])
  BY DEF IsFrame, PakSteps, AuthSteps, CreateSteps
<1>3. IsFrame([at |-> "expireSave", req |-> r, id |-> i, expiry |-> t])
  BY DEF IsFrame, PakSteps, AuthSteps, CreateSteps
<1>4. IsFrame([at |-> "expireStore", req |-> r, id |-> i, expiry |-> t])
  BY DEF IsFrame, PakSteps, AuthSteps, CreateSteps
<1>5. IsFrame([at |-> "deleteRow", req |-> r, id |-> i, ips |-> t])
  BY DEF IsFrame, PakSteps, AuthSteps, CreateSteps
<1>6. IsFrame([at |-> "approve", req |-> r, id |-> i, approved |-> ApproveRoutesWithPolicy(n)])
  BY Zenon DEF IsFrame, PakSteps, AuthSteps, CreateSteps
<1>7. IsFrame(Registered(r, i, n))
  BY <1>6 DEF Registered, IsFrame
<1>8. QED
  BY <1>1, <1>2, <1>3, <1>4, <1>5, <1>7, Zenon

\* Nothing about the keys changes.
LEMMA KeysKept ==
  ASSUME KeyInv, UNCHANGED <<keys, uses>>
  PROVE  KeyInv'
BY DEF KeyInv

-------------------------------------------------------------------------------
(* Steps.                                                                   *)

\* A column of a node in the store is replaced, the owner kept.
LEMMA StoreKeeps ==
  ASSUME NodeInv, NEW i \in DOMAIN nodes, NEW n, IsRow(n),
         nodes' = [nodes EXCEPT ![i] = n], UNCHANGED <<rows, nextID>>
  PROVE  NodeInv'
<1>1. \A j \in DOMAIN nodes' : IsRow(nodes'[j])
  BY RowsPut DEF NodeInv
<1>2. QED
  BY <1>1 DEF NodeInv

\* The operations that write one node and have persistNode save it.
LEMMA StoringSteps ==
  ASSUME EnrolInv, NEW c \in Callers,
         SetNodeTags(c) \/ SetApprovedRoutes(c) \/ Approve(c) \/ UpdateNodeFromMapRequest(c)
  PROVE  EnrolInv'
<1>1. CallInv /\ NodeInv /\ KeyInv
  BY DEF EnrolInv
<1>2. UNCHANGED <<rows, nextID, keys, uses>>
  BY Zenon DEF SetNodeTags, SetApprovedRoutes, Approve, UpdateNodeFromMapRequest, Store, db
<1>3. KeyInv'
  BY <1>1, <1>2, KeysKept
<1>4. ASSUME NEW r \in Requests, NEW i \in DOMAIN nodes, NEW n, IsRow(n), NEW f, IsFrame(f),
             Store(c, i, n), Goto(c, f)
      PROVE  EnrolInv'
  <2>1. CallInv'
    BY <1>1, <1>4, FrameMoves
  <2>2. NodeInv'
    BY <1>1, <1>2, <1>4, StoreKeeps, Zenon DEF Store
  <2>3. QED
    BY <1>3, <2>1, <2>2 DEF EnrolInv
<1>5. CASE SetNodeTags(c)
  <2>1. PICK r \in Ask(c, "tags") :
          /\ r.id \in DOMAIN nodes
          /\ LET n == [nodes[r.id] EXCEPT !.tags = r.tags, !.user = 0]
             IN  Store(c, r.id, n) /\ Goto(c, Persist(r, r.id, n))
    BY <1>5, Zenon DEF SetNodeTags
  <2> DEFINE n == [nodes[r.id] EXCEPT !.tags = r.tags, !.user = 0]
  <2>2. r \in Requests /\ r.tags # {}
    BY Asking, EnrolmentAssumption
  <2>3. DOMAIN nodes[r.id] = Columns
    BY <1>1, <2>1 DEF NodeInv, IsRow
  <2>4. DOMAIN n = Columns /\ n.tags = r.tags /\ n.user = 0
    BY <2>3 DEF Columns
  <2>5. Store(c, r.id, n) /\ Goto(c, Persist(r, r.id, n))
    BY <2>1
  <2> HIDE DEF n
  <2>6. IsRow(n)
    BY <2>2, <2>4, RowTagged
  <2>7. QED
    BY <1>4, <2>1, <2>2, <2>5, <2>6, SmallFrames, Zenon
<1>6. CASE SetApprovedRoutes(c)
  <2>1. PICK r \in Ask(c, "routes") :
          /\ r.id \in DOMAIN nodes
          /\ LET n == [nodes[r.id] EXCEPT !.approved = r.approved]
             IN  Store(c, r.id, n) /\ Goto(c, Persist(r, r.id, n))
    BY <1>6, Zenon DEF SetApprovedRoutes
  <2> DEFINE n == [nodes[r.id] EXCEPT !.approved = r.approved]
  <2>2. r \in Requests
    BY Asking
  <2>3. DOMAIN nodes[r.id] = Columns /\ IsRow(nodes[r.id])
    BY <1>1, <2>1 DEF NodeInv, IsRow
  <2>4. DOMAIN n = DOMAIN nodes[r.id] /\ n.tags = nodes[r.id].tags /\ n.user = nodes[r.id].user
    BY <2>3 DEF Columns
  <2>5. Store(c, r.id, n) /\ Goto(c, Persist(r, r.id, n))
    BY <2>1
  <2> HIDE DEF n
  <2>6. IsRow(n)
    BY <2>3, <2>4, RowLike
  <2>7. QED
    BY <1>4, <2>1, <2>2, <2>5, <2>6, SmallFrames, Zenon
<1>7. CASE Approve(c)
  <2> DEFINE i == call[c].id
             n == [nodes[i] EXCEPT !.approved = call[c].approved]
  <2>1. call[c].req \in Requests
    BY <1>1, <1>7, Somewhere DEF Approve
  <2>2. CASE i \in DOMAIN nodes
    <3>1. DOMAIN nodes[i] = Columns /\ IsRow(nodes[i])
      BY <1>1, <2>2 DEF NodeInv, IsRow
    <3>2. DOMAIN n = DOMAIN nodes[i] /\ n.tags = nodes[i].tags /\ n.user = nodes[i].user
      BY <3>1 DEF Columns
    <3>3. Store(c, i, n) /\ Goto(c, Persist(call[c].req, i, n))
      BY <1>7, <2>2, Zenon DEF Approve
    <3> HIDE DEF n
    <3>4. IsRow(n)
      BY <3>1, <3>2, RowLike
    <3>5. QED
      BY <1>4, <2>1, <2>2, <3>3, <3>4, SmallFrames, Zenon
  <2>3. CASE i \notin DOMAIN nodes
    <3>1. Return(c) /\ UNCHANGED nodes
      BY <1>7, <2>3 DEF Approve
    <3>2. CallInv' /\ NodeInv'
      BY <1>1, <1>2, <3>1, Returns DEF NodeInv
    <3>3. QED
      BY <1>3, <3>2 DEF EnrolInv
  <2>4. QED
    BY <2>2, <2>3
<1>8. CASE UpdateNodeFromMapRequest(c)
  <2>1. PICK r \in Ask(c, "map") :
          /\ r.id \in DOMAIN nodes
          /\ LET old == nodes[r.id]
                 n == [old EXCEPT !.announced = r.announced]
                 approved == autoApproved(old, r.announced)
             IN  /\ Store(c, r.id, n)
                 /\ Goto(c, IF needsRouteApproval(old, r.announced) /\ approved # old.approved
                              THEN [at |-> "approve", req |-> r, id |-> r.id, approved |-> approved]
                              ELSE Persist(r, r.id, n))
    BY <1>8, Zenon DEF UpdateNodeFromMapRequest
  <2> DEFINE n == [nodes[r.id] EXCEPT !.announced = r.announced]
             approved == autoApproved(nodes[r.id], r.announced)
             f == IF needsRouteApproval(nodes[r.id], r.announced) /\ approved # nodes[r.id].approved
                    THEN [at |-> "approve", req |-> r, id |-> r.id, approved |-> approved]
                    ELSE Persist(r, r.id, n)
  <2>2. r \in Requests
    BY Asking
  <2>3. DOMAIN nodes[r.id] = Columns /\ IsRow(nodes[r.id])
    BY <1>1, <2>1 DEF NodeInv, IsRow
  <2>4. DOMAIN n = DOMAIN nodes[r.id] /\ n.tags = nodes[r.id].tags /\ n.user = nodes[r.id].user
    BY <2>3 DEF Columns
  <2>5. Store(c, r.id, n) /\ Goto(c, f)
    BY <2>1
  <2> HIDE DEF n, approved
  <2>6. IsRow(n)
    BY <2>3, <2>4, RowLike
  <2>7. IsFrame(f)
    BY <2>2, SmallFrames, Zenon
  <2> HIDE DEF f
  <2>8. QED
    BY <1>4, <2>1, <2>2, <2>5, <2>6, <2>7
<1>9. QED
  BY <1>5, <1>6, <1>7, <1>8

\* persistNode.
LEMMA PersistSteps ==
  ASSUME EnrolInv, NEW c \in Callers, PersistRead(c) \/ PersistWrite(c)
  PROVE  EnrolInv'
<1>1. CallInv /\ NodeInv /\ KeyInv
  BY DEF EnrolInv
<1>2. UNCHANGED <<nodes, nextID, keys, uses>>
  BY DEF PersistRead, PersistWrite, db
<1>3. KeyInv'
  BY <1>1, <1>2, KeysKept
<1>4. call[c].req \in Requests /\ IsFrame(call[c]) /\ call[c] # Idle
  BY <1>1, Somewhere DEF PersistRead, PersistWrite
<1> DEFINE i == call[c].id
<1>5. CASE PersistRead(c)
  <2> DEFINE f == [at |-> "persistWrite", req |-> call[c].req, id |-> i, fresh |-> nodes[i]]
  <2>1. Goto(c, IF i \in DOMAIN nodes THEN f ELSE Idle) /\ UNCHANGED rows
    BY <1>5 DEF PersistRead, db
  <2>2. i \in DOMAIN nodes => IsFrame(f)
    BY <1>1, <1>4, Zenon DEF IsFrame, NodeInv, PakSteps, AuthSteps, CreateSteps
  <2> HIDE DEF f
  <2>3. IsFrame(IF i \in DOMAIN nodes THEN f ELSE Idle)
    BY <2>2, Zenon DEF IsFrame
  <2>4. CallInv'
    BY <1>1, <2>1, <2>3, FrameMoves, Zenon
  <2>5. NodeInv'
    BY <1>1, <1>2, <2>1 DEF NodeInv
  <2>6. QED
    BY <1>3, <2>4, <2>5, Zenon DEF EnrolInv
<1>6. CASE PersistWrite(c)
  <2> DEFINE n == call[c].fresh
             g == [n EXCEPT !.expiry = rows[i].expiry, !.ak = rows[i].ak]
  <2>1. Return(c) /\ rows' \in {rows, IF i \in DOMAIN rows THEN [rows EXCEPT ![i] = g] ELSE rows}
    BY <1>6, Zenon DEF PersistWrite
  <2>2. IsRow(n) /\ DOMAIN n = Columns
    BY <1>4, <1>6 DEF IsFrame, PersistWrite, IsRow
  <2>3. DOMAIN g = DOMAIN n /\ g.tags = n.tags /\ g.user = n.user
    BY <2>2 DEF Columns
  <2> HIDE DEF g
  <2>4. IsRow(g)
    BY <2>2, <2>3, RowLike, Zenon
  <2>5. DOMAIN rows' = DOMAIN rows /\ \A j \in DOMAIN rows' : IsRow(rows'[j])
    BY <1>1, <2>1, <2>4, RowsPut, Zenon DEF NodeInv
  <2>6. NodeInv' /\ CallInv'
    BY <1>1, <1>2, <2>1, <2>5, Returns, Zenon DEF NodeInv
  <2>7. QED
    BY <1>3, <2>6 DEF EnrolInv
<1>7. QED
  BY <1>5, <1>6

\* Expiry and logout.
LEMMA ExpirySteps ==
  ASSUME EnrolInv, NEW c \in Callers,
         SetNodeExpiry(c) \/ LogoutExpire(c) \/ ExpireSave(c) \/ handleLogout(c)
  PROVE  EnrolInv'
<1>1. CallInv /\ NodeInv /\ KeyInv
  BY DEF EnrolInv
<1>2. UNCHANGED <<nextID, keys, uses>>
  BY Zenon DEF SetNodeExpiry, LogoutExpire, ExpireSave, handleLogout, ExpireStore, db
<1>3. KeyInv'
  BY <1>1, <1>2, KeysKept
<1>4. ASSUME NEW r \in Requests, NEW i \in DOMAIN nodes, NEW t, ExpireStore(c, r, i, t)
      PROVE  EnrolInv'
  <2> DEFINE g == [nodes[i] EXCEPT !.expiry = t]
  <2>1. /\ nodes' = [nodes EXCEPT ![i] = g] /\ UNCHANGED rows
        /\ Goto(c, [at |-> "expireSave", req |-> r, id |-> i, expiry |-> t])
    BY <1>4 DEF ExpireStore, db
  <2>2. DOMAIN nodes[i] = Columns /\ IsRow(nodes[i])
    BY <1>1 DEF NodeInv, IsRow
  <2>3. DOMAIN g = DOMAIN nodes[i] /\ g.tags = nodes[i].tags /\ g.user = nodes[i].user
    BY <2>2 DEF Columns
  <2> HIDE DEF g
  <2>4. IsRow(g)
    BY <2>2, <2>3, RowLike
  <2>5. NodeInv'
    BY <1>1, <1>2, <2>1, <2>4, StoreKeeps, Zenon
  <2>6. CallInv'
    BY <1>1, <2>1, SmallFrames, FrameMoves, Zenon
  <2>7. QED
    BY <1>3, <2>5, <2>6 DEF EnrolInv
<1>5. CASE SetNodeExpiry(c)
  BY <1>4, <1>5, Asking DEF SetNodeExpiry
<1>6. CASE LogoutExpire(c)
  <2>1. call[c].req \in Requests
    BY <1>1, <1>6, Somewhere, Zenon DEF LogoutExpire
  <2>2. CASE call[c].id \in DOMAIN nodes
    BY <1>4, <1>6, <2>1, <2>2, Zenon DEF LogoutExpire
  <2>3. CASE call[c].id \notin DOMAIN nodes
    <3>1. Return(c) /\ UNCHANGED <<nodes, rows>>
      BY <1>6, <2>3, Zenon DEF LogoutExpire, db
    <3>2. QED
      BY <1>1, <1>2, <1>3, <3>1, Returns, Zenon DEF EnrolInv, NodeInv
  <2>4. QED
    BY <2>2, <2>3, Zenon
<1>7. CASE ExpireSave(c)
  <2> DEFINE i == call[c].id
             g == [rows[i] EXCEPT !.expiry = call[c].expiry]
  <2>1. /\ Return(c) /\ UNCHANGED nodes
        /\ rows' \in {rows, IF i \in DOMAIN rows THEN [rows EXCEPT ![i] = g] ELSE rows}
    BY <1>7, Zenon DEF ExpireSave
  <2>2. CASE i \in DOMAIN rows
    <3>1. IsRow(rows[i]) /\ DOMAIN rows[i] = Columns
      BY <1>1, <2>2 DEF NodeInv, IsRow
    <3>2. DOMAIN g = DOMAIN rows[i] /\ g.tags = rows[i].tags /\ g.user = rows[i].user
      BY <3>1, Zenon DEF Columns
    <3> HIDE DEF g
    <3>3. IsRow(g)
      BY <3>1, <3>2, RowLike, Zenon
    <3>4. DOMAIN rows' = DOMAIN rows /\ \A j \in DOMAIN rows' : IsRow(rows'[j])
      BY <1>1, <2>1, <3>3, RowsPut DEF NodeInv
    <3>5. QED
      BY <1>1, <1>2, <1>3, <2>1, <3>4, Returns, Zenon DEF EnrolInv, NodeInv
  <2>3. CASE i \notin DOMAIN rows
    BY <1>1, <1>2, <1>3, <2>1, <2>3, Returns, ZenonT(30) DEF EnrolInv, NodeInv
  <2>4. QED
    BY <2>2, <2>3
<1>8. CASE handleLogout(c)
  <2>1. PICK r \in Ask(c, "logout"), i \in DOMAIN nodes :
          Goto(c, IF IsEphemeral(nodes[i])
                    THEN [at |-> "deleteRow", req |-> r, id |-> i, ips |-> IPs(nodes[i])]
                    ELSE [at |-> "expireStore", req |-> r, id |-> i, expiry |-> now])
    BY <1>8, Zenon DEF handleLogout
  <2>2. r \in Requests
    BY Asking
  <2> DEFINE a == [at |-> "deleteRow", req |-> r, id |-> i, ips |-> IPs(nodes[i])]
             b == [at |-> "expireStore", req |-> r, id |-> i, expiry |-> now]
  <2>3. IsFrame(a) /\ IsFrame(b) /\ (Goto(c, a) \/ Goto(c, b))
    BY <2>1, <2>2, SmallFrames, Zenon
  <2> HIDE DEF a, b
  <2>4. CallInv' /\ UNCHANGED <<nodes, rows>>
    BY <1>1, <1>8, <2>3, FrameMoves, Zenon DEF handleLogout, db
  <2>5. QED
    BY <1>1, <1>2, <1>3, <2>4, Zenon DEF EnrolInv, NodeInv
<1>9. QED
  BY <1>5, <1>6, <1>7, <1>8

\* Deletion.
LEMMA DeleteSteps ==
  ASSUME EnrolInv, NEW c \in Callers, DeleteNode(c) \/ DeleteRow(c) \/ DeleteStore(c) \/ DeleteFree(c)
  PROVE  EnrolInv'
<1>1. CallInv /\ NodeInv /\ KeyInv
  BY DEF EnrolInv
<1>2. UNCHANGED <<nextID, keys, uses>>
  BY Zenon DEF DeleteNode, DeleteRow, DeleteStore, DeleteFree, db
<1>3. KeyInv'
  BY <1>1, <1>2, KeysKept
<1>4. NodeInv'
  <2>1. nodes' \in {nodes, Drop(nodes, call[c].id)} /\ rows' \in {rows, Drop(rows, call[c].id)}
    BY Zenon DEF DeleteNode, DeleteRow, DeleteStore, DeleteFree, db
  <2>2. QED
    BY <1>1, <1>2, <2>1 DEF NodeInv, Drop
<1>5. CASE DeleteNode(c)
  <2>1. PICK r \in Ask(c, "delete") :
          Goto(c, [at |-> "deleteRow", req |-> r, id |-> r.id, ips |-> IPs(nodes[r.id])])
    BY <1>5 DEF DeleteNode
  <2>2. CallInv'
    BY <1>1, <2>1, Asking, SmallFrames, FrameMoves, ZenonT(30)
  <2>3. QED
    BY <1>3, <1>4, <2>2, Zenon DEF EnrolInv
<1>6. ASSUME call[c].at \in {"deleteRow", "deleteStore"}, NEW pc \in {"deleteStore", "deleteFree"}
      PROVE  IsFrame([call[c] EXCEPT !.at = pc])
  <2>1. IsFrame(call[c]) /\ call[c] # Idle
    BY <1>1, <1>6, Somewhere, Zenon
  <2>2. DOMAIN call[c] = {"at", "req", "id", "ips"} /\ call[c].req \in Requests
    BY <1>6, <2>1 DEF IsFrame
  <2> DEFINE g == [call[c] EXCEPT !.at = pc]
  <2>3. DOMAIN g = {"at", "req", "id", "ips"} /\ g.at = pc /\ g.req \in Requests
    BY <2>2, Zenon
  <2> HIDE DEF g
  <2>4. IsFrame(g)
    BY <2>3 DEF IsFrame, PakSteps, AuthSteps, CreateSteps
  <2>5. QED
    BY <2>4 DEF g
<1>7. CASE DeleteRow(c) \/ DeleteStore(c) \/ DeleteFree(c)
  <2>1. \/ Return(c)
        \/ call[c].at = "deleteRow" /\ Goto(c, [call[c] EXCEPT !.at = "deleteStore"])
        \/ call[c].at = "deleteStore" /\ Goto(c, [call[c] EXCEPT !.at = "deleteFree"])
    BY <1>7 DEF DeleteRow, DeleteStore, DeleteFree
  <2>2. CallInv'
    BY <1>1, <1>6, <2>1, Returns, FrameMoves, Zenon
  <2>3. QED
    BY <1>3, <1>4, <2>2 DEF EnrolInv
<1>8. QED
  BY <1>5, <1>7

\* HandleNodeFromPreAuthKey up to the database.
LEMMA PakSteps1 ==
  ASSUME EnrolInv, NEW c \in Callers, PakRead(c) \/ PakFind(c) \/ PakUpdate(c) \/ PakRollback(c)
  PROVE  EnrolInv'
<1>1. CallInv /\ NodeInv /\ KeyInv
  BY DEF EnrolInv
<1>2. UNCHANGED <<rows, nextID, keys, uses>>
  BY Zenon DEF PakRead, PakFind, PakUpdate, PakRollback, db
<1>3. KeyInv'
  BY <1>1, <1>2, KeysKept
<1>4. ASSUME NEW f, IsFrame(f), Goto(c, f), UNCHANGED nodes
      PROVE  EnrolInv'
  BY <1>1, <1>2, <1>3, <1>4, FrameMoves, Zenon DEF EnrolInv, NodeInv
<1>5. IsFrame(Idle)
  BY Zenon DEF IsFrame
<1>6. CASE PakRead(c)
  <2>1. PICK r \in Ask(c, "pak") : Goto(c, [at |-> "pakFind", req |-> r, pak |-> keys[r.key]])
    BY <1>6, Zenon DEF PakRead
  <2>2. IsFrame([at |-> "pakFind", req |-> r, pak |-> keys[r.key]])
    BY Asking, ZenonT(30) DEF IsFrame, PakSteps, AuthSteps, CreateSteps
  <2>3. QED
    BY <1>4, <1>6, <2>1, <2>2, Zenon DEF PakRead
<1>7. CASE PakFind(c)
  <2> DEFINE r == call[c].req
             pak == call[c].pak
             found == findExistingNodeForPAK(nodes, r.m, r.key)
  <2>1. r \in Requests /\ r.op = "pak"
    BY <1>1, <1>7, Somewhere, Zenon DEF PakFind, IsFrame, PakSteps
  <2>2. IsFrame(Create(r, pak))
    <3>1. IsRow(newNode(r, now))
      BY <2>1, NewNodeFacts
    <3>2. IsFrame([at |-> "allocate", req |-> r, pak |-> pak, node |-> newNode(r, now)])
      BY <2>1, <3>1, Zenon DEF IsFrame, PakSteps, AuthSteps, CreateSteps
    <3>3. QED
      BY <1>5, <3>2, Zenon DEF Create
  <2>3. ASSUME NEW i \in found
        PROVE  IsFrame([at |-> "pakUpdate", req |-> r, pak |-> pak, id |-> i, prior |-> nodes[i]])
    <3>1. i \in DOMAIN nodes
      BY <2>3, FoundIn, Zenon
    <3>2. IsRow(nodes[i])
      BY <1>1, <3>1, Zenon DEF NodeInv
    <3>3. QED
      BY <2>1, <3>2, Zenon DEF IsFrame, PakSteps, AuthSteps, CreateSteps
  <2>4. UNCHANGED nodes
    BY <1>7, Zenon DEF PakFind
  <2>5. \/ Goto(c, Idle) \/ Goto(c, Create(r, pak))
        \/ \E i \in found : Goto(c, [at |-> "pakUpdate", req |-> r, pak |-> pak, id |-> i, prior |-> nodes[i]])
    <3>1. CASE ambiguousForPAK(nodes, r.m, r.key)
      BY <1>7, <3>1 DEF PakFind, Return
    <3>2. CASE ~ambiguousForPAK(nodes, r.m, r.key) /\ found = {}
      BY <1>7, <3>2, Zenon DEF PakFind
    <3>3. CASE ~ambiguousForPAK(nodes, r.m, r.key) /\ found # {}
      BY <1>7, <3>3 DEF PakFind
    <3>4. QED
      BY <3>1, <3>2, <3>3, Zenon
  <2> HIDE DEF r, pak, found
  <2>6. QED
    BY <1>4, <1>5, <2>2, <2>3, <2>4, <2>5, Zenon
<1>8. CASE PakUpdate(c)
  <2> DEFINE i == call[c].id
             r == call[c].req
             n == reregistered(nodes[i], r, now)
             f == [at |-> "pakSave", req |-> r, pak |-> call[c].pak, id |-> i, prior |-> call[c].prior, node |-> n]
  <2>1. r \in Requests /\ r.op = "pak" /\ IsRow(call[c].prior)
    BY <1>1, <1>8, Somewhere, Zenon DEF PakUpdate, IsFrame, PakSteps
  <2>2. CASE i \in DOMAIN nodes
    <3>1. nodes' = [nodes EXCEPT ![i] = n] /\ Goto(c, f)
      BY <1>8, <2>2, Zenon DEF PakUpdate
    <3>2. IsRow(n)
      BY <1>1, <2>2, ReregisteredFacts DEF NodeInv
    <3> HIDE DEF n
    <3>3. IsFrame(f)
      BY <2>1, <3>2, Zenon DEF IsFrame, PakSteps, AuthSteps, CreateSteps
    <3>4. CallInv'
      BY <1>1, <3>1, <3>3, FrameMoves
    <3>5. NodeInv'
      BY <1>1, <1>2, <2>2, <3>1, <3>2, StoreKeeps, Zenon
    <3>6. QED
      BY <1>3, <3>4, <3>5, Zenon DEF EnrolInv
  <2>3. CASE i \notin DOMAIN nodes
    BY <1>4, <1>5, <1>8, <2>3, Zenon DEF PakUpdate, Return
  <2>4. QED
    BY <2>2, <2>3
<1>9. CASE PakRollback(c)
  <2>1. IsRow(call[c].prior)
    BY <1>1, <1>9, Somewhere, Zenon DEF PakRollback, IsFrame
  <2>2. nodes' = Put(nodes, call[c].id, call[c].prior) /\ Return(c)
    BY <1>9, Zenon DEF PakRollback
  <2>3. \A j \in DOMAIN nodes' : IsRow(nodes'[j])
    BY <1>1, <2>1, <2>2, RowsPut DEF NodeInv
  <2>4. QED
    BY <1>1, <1>2, <1>3, <2>2, <2>3, Returns, Zenon DEF EnrolInv, NodeInv
<1>10. QED
  BY <1>6, <1>7, <1>8, <1>9

\* UsePreAuthKey: a key that is spent was unused, so nobody spent it before.
LEMMA KeySpent ==
  ASSUME KeyInv, NEW r, r.key \in KeyIDs, NEW spends,
         spends => UsePreAuthKey(keys[r.key]), Spend(r, spends)
  PROVE  KeyInv'
<1> DEFINE k == r.key
<1>1. CASE ~spends
  BY <1>1, KeysKept, Zenon DEF Spend
<1>2. CASE spends
  <2>1. keys' = [keys EXCEPT ![k].used = TRUE] /\ uses' = [uses EXCEPT ![k] = uses[k] + 1]
    BY <1>2, Zenon DEF Spend
  <2>2. keys[k] \in KeyRow /\ keys[k].used = FALSE
    BY <1>2 DEF KeyInv, UsePreAuthKey, KeyRow
  <2>3. keys' \in [KeyIDs -> KeyRow] /\ keys'[k].used /\ \A j \in KeyIDs : j # k => keys'[j] = keys[j]
    BY <2>1, <2>2, Zenon DEF KeyInv, KeyRow
  <2>4. uses' \in [KeyIDs -> Nat] /\ uses'[k] = uses[k] + 1 /\ \A j \in KeyIDs : j # k => uses'[j] = uses[j]
    BY <2>1 DEF KeyInv
  <2>5. ~KeyOf[k].reusable => uses[k] = 0
    <3>1. uses[k] \in Nat /\ (~KeyOf[k].reusable => uses[k] <= 1 /\ uses[k] # 1)
      BY <2>2, Zenon DEF KeyInv
    <3>2. QED
      BY <3>1
  <2>6. ASSUME NEW j \in KeyIDs, ~KeyOf[j].reusable
        PROVE  uses'[j] <= 1 /\ (uses'[j] = 1 => keys'[j].used)
    <3>1. CASE j = k
      BY <2>3, <2>4, <2>5, <2>6, <3>1
    <3>2. CASE j # k
      <4>1. uses'[j] = uses[j] /\ keys'[j] = keys[j]
        BY <2>3, <2>4, <3>2, Zenon
      <4>2. QED
        BY <2>6, <4>1, Zenon DEF KeyInv
    <3>3. QED
      BY <3>1, <3>2, Zenon
  <2>7. QED
    BY <2>3, <2>4, <2>6 DEF KeyInv
<1>3. QED
  BY <1>1, <1>2

\* The transaction of a re-registration.
LEMMA PakSaveStep ==
  ASSUME EnrolInv, NEW c \in Callers, PakSave(c)
  PROVE  EnrolInv'
<1>1. CallInv /\ NodeInv /\ KeyInv
  BY Zenon DEF EnrolInv
<1> DEFINE i == call[c].id
           r == call[c].req
           n == call[c].node
           spends == Consumes(r, call[c].pak)
           accepted == Updatable(i, n, n.ak) /\ (spends => UsePreAuthKey(keys[r.key]))
           f == [at |-> "rollback", req |-> r, id |-> i, prior |-> call[c].prior]
<1>2. call[c].at = "pakSave" /\ UNCHANGED <<nodes, nextID>>
  BY Zenon DEF PakSave
<1>3. /\ r \in Requests /\ r.op = "pak" /\ IsRow(call[c].prior) /\ IsRow(n)
  BY <1>1, <1>2, Somewhere, Zenon DEF IsFrame, PakSteps
<1>4. r.key \in KeyIDs
  BY <1>3, EnrolmentAssumption, Zenon
<1>5. \/ accepted /\ rows' = Update(i, n) /\ Spend(r, spends) /\ Goto(c, Registered(r, i, n))
      \/ Goto(c, f) /\ UNCHANGED <<rows, keys, uses>>
  BY Zenon DEF PakSave
<1> HIDE DEF i, r, n, spends
<1>6. IsFrame(f)
  <2>1. f.at = "rollback" /\ f.req = r /\ f.prior = call[c].prior
    BY Zenon
  <2> HIDE DEF f
  <2>2. QED
    BY <1>3, <2>1, Zenon DEF IsFrame, PakSteps, AuthSteps, CreateSteps
<1>7. CASE accepted /\ rows' = Update(i, n) /\ Spend(r, spends) /\ Goto(c, Registered(r, i, n))
  <2>1. KeyInv'
    BY <1>1, <1>4, <1>7, KeySpent
  <2>2. CallInv'
    BY <1>1, <1>3, <1>7, SmallFrames, FrameMoves, Zenon
  <2>3. DOMAIN rows' = DOMAIN rows /\ \A j \in DOMAIN rows' : IsRow(rows'[j])
    BY <1>1, <1>3, <1>7, RowsPut, Zenon DEF NodeInv, Update
  <2>4. QED
    BY <1>1, <1>2, <2>1, <2>2, <2>3, Zenon DEF EnrolInv, NodeInv
<1>8. CASE Goto(c, f) /\ UNCHANGED <<rows, keys, uses>>
  <2> HIDE DEF f
  <2>1. CallInv' /\ KeyInv'
    BY <1>1, <1>6, <1>8, FrameMoves, KeysKept, Zenon
  <2>2. QED
    BY <1>1, <1>2, <1>8, <2>1, Zenon DEF EnrolInv, NodeInv
<1>9. QED
  BY <1>5, <1>7, <1>8, Zenon

\* createAndSaveNewNode.
LEMMA CreateStep ==
  ASSUME EnrolInv, NEW c \in Callers, Allocate(c) \/ Insert(c) \/ PutNew(c)
  PROVE  EnrolInv'
<1>1. CallInv /\ NodeInv /\ KeyInv
  BY DEF EnrolInv
<1> DEFINE r == call[c].req
           n == call[c].node
<1>2. call[c].at \in CreateSteps
  BY Zenon DEF Allocate, Insert, PutNew, CreateSteps
<1>3. r \in Requests /\ r.op \in {"pak", "auth"} /\ IsRow(n) /\ IsFrame(call[c]) /\ call[c] # Idle
  BY <1>1, <1>2, Somewhere, Zenon DEF IsFrame, CreateSteps
<1>4. CASE Allocate(c)
  <2>1. UNCHANGED <<nodes, rows, nextID, keys, uses>> /\ call[c].at = "allocate"
    BY <1>4, Zenon DEF Allocate, db
  <2>2. ASSUME NEW a, NEW b
        PROVE  IsFrame([call[c] EXCEPT !.at = "insert", !.node.ip4 = a, !.node.ip6 = b])
    <3> DEFINE m == [[n EXCEPT !.ip4 = a] EXCEPT !.ip6 = b]
               f == [call[c] EXCEPT !.at = "insert", !.node.ip4 = a, !.node.ip6 = b]
    <3>1. DOMAIN call[c] = {"at", "req", "pak", "node"}
      BY <1>3, <2>1 DEF IsFrame
    <3>2. DOMAIN f = {"at", "req", "pak", "node"} /\ f.at = "insert" /\ f.req = r /\ f.node = m
      BY <3>1, Zenon
    <3>3. DOMAIN n = Columns
      BY <1>3 DEF IsRow
    <3>4. DOMAIN m = DOMAIN n /\ m.tags = n.tags /\ m.user = n.user
      BY <3>3, Zenon DEF Columns
    <3> HIDE DEF m, f
    <3>5. IsRow(m)
      BY <1>3, <3>4, RowLike
    <3>6. IsFrame(f)
      BY <1>3, <3>2, <3>5, Zenon DEF IsFrame, PakSteps, AuthSteps, CreateSteps
    <3>7. QED
      BY <3>6, Zenon DEF f
  <2>3. \/ Return(c)
        \/ \E a \in Alloc4(alloc), b \in Alloc6(alloc) :
             Goto(c, [call[c] EXCEPT !.at = "insert", !.node.ip4 = a, !.node.ip6 = b])
    BY <1>4, Zenon DEF Allocate
  <2>4. CallInv'
    BY <1>1, <2>2, <2>3, Returns, FrameMoves, Zenon
  <2>5. QED
    BY <1>1, <2>1, <2>4, KeysKept, Zenon DEF EnrolInv, NodeInv
<1>5. CASE Insert(c)
  <2> DEFINE spends == r.op = "pak" /\ ~KeyOf[r.key].reusable
             f == [at |-> "put", req |-> r, id |-> nextID, node |-> n]
  <2>1. \/ /\ spends => UsePreAuthKey(keys[r.key])
           /\ rows' = Put(rows, nextID, n) /\ nextID' = nextID + 1 /\ Goto(c, f)
           /\ IF spends THEN Spend(r, TRUE) ELSE UNCHANGED <<keys, uses>>
        \/ Return(c) /\ UNCHANGED <<rows, nextID, keys, uses>>
    BY <1>5, Zenon DEF Insert
  <2>2. UNCHANGED nodes
    BY <1>5, Zenon DEF Insert
  <2>3. CASE /\ spends => UsePreAuthKey(keys[r.key])
             /\ rows' = Put(rows, nextID, n) /\ nextID' = nextID + 1 /\ Goto(c, f)
             /\ IF spends THEN Spend(r, TRUE) ELSE UNCHANGED <<keys, uses>>
    <3>1. KeyInv'
      <4>1. CASE spends
        <5>1. r.key \in KeyIDs
          BY <1>3, <4>1, EnrolmentAssumption, Zenon
        <5>2. QED
          BY <1>1, <2>3, <4>1, <5>1, KeySpent, Zenon
      <4>2. CASE ~spends
        BY <1>1, <2>3, <4>2, KeysKept, Zenon
      <4>3. QED
        BY <4>1, <4>2
    <3>2. IsFrame(f)
      BY <1>3, Zenon DEF IsFrame, PakSteps, AuthSteps, CreateSteps
    <3> HIDE DEF f
    <3>3. CallInv'
      BY <1>1, <2>3, <3>2, FrameMoves, Zenon
    <3>4. \A j \in DOMAIN rows' : IsRow(rows'[j])
      BY <1>1, <1>3, <2>3, RowsPut, Zenon DEF NodeInv
    <3>5. nextID' \in Nat /\ DOMAIN rows' \subseteq Nat
      BY <1>1, <2>3, NextNumber, Zenon
    <3>6. NodeInv'
      BY <1>1, <2>2, <3>4, <3>5, Zenon DEF NodeInv
    <3>7. QED
      BY <3>1, <3>3, <3>6, Zenon DEF EnrolInv
  <2>4. CASE Return(c) /\ UNCHANGED <<rows, nextID, keys, uses>>
    BY <1>1, <2>2, <2>4, Returns, KeysKept, Zenon DEF EnrolInv, NodeInv
  <2>5. QED
    BY <2>1, <2>3, <2>4, Zenon
<1>6. CASE PutNew(c)
  <2>1. /\ nodes' = Put(nodes, call[c].id, n) /\ Goto(c, Registered(r, call[c].id, n))
        /\ UNCHANGED <<rows, nextID, keys, uses>>
    BY <1>6, Zenon DEF PutNew, db
  <2>2. \A j \in DOMAIN nodes' : IsRow(nodes'[j])
    BY <1>1, <1>3, <2>1, RowsPut DEF NodeInv
  <2>3. CallInv'
    BY <1>1, <1>3, <2>1, SmallFrames, FrameMoves, Zenon
  <2>4. QED
    BY <1>1, <2>1, <2>2, <2>3, KeysKept, Zenon DEF EnrolInv, NodeInv
<1>7. QED
  BY <1>4, <1>5, <1>6

\* HandleNodeFromAuthPath.
LEMMA AuthStep ==
  ASSUME EnrolInv, NEW c \in Callers, AuthStart(c) \/ AuthFind(c) \/ AuthUpdate(c) \/ AuthSave(c)
  PROVE  EnrolInv'
<1>1. CallInv /\ NodeInv /\ KeyInv
  BY DEF EnrolInv
<1>2. UNCHANGED <<nextID, keys, uses>>
  BY Zenon DEF AuthStart, AuthFind, AuthUpdate, AuthSave, db
<1>3. KeyInv'
  BY <1>1, <1>2, KeysKept
<1>4. ASSUME NEW f, IsFrame(f), Goto(c, f), UNCHANGED <<nodes, rows>>
      PROVE  EnrolInv'
  BY <1>1, <1>2, <1>3, <1>4, FrameMoves, Zenon DEF EnrolInv, NodeInv
<1>5. IsFrame(Idle)
  BY DEF IsFrame
<1> DEFINE r == call[c].req
<1>6. ASSUME call[c].at \in AuthSteps
      PROVE  r \in Requests /\ r.op = "auth" /\ (call[c].at = "authSave" => IsRow(call[c].node))
  BY <1>1, <1>6, Somewhere, Zenon DEF IsFrame, AuthSteps
<1>7. CASE AuthStart(c)
  <2>1. PICK q \in Ask(c, "auth") : Goto(c, [at |-> "authFind", req |-> q])
    BY <1>7, Zenon DEF AuthStart
  <2>2. IsFrame([at |-> "authFind", req |-> q])
    BY Asking DEF IsFrame, PakSteps, AuthSteps, CreateSteps
  <2>3. QED
    BY <1>4, <1>7, <2>1, <2>2, Zenon DEF AuthStart, db
<1>8. CASE AuthFind(c)
  <2> DEFINE found == findExistingNodeForAuth(nodes, r.m, r.user)
  <2>1. r \in Requests /\ r.op = "auth"
    BY <1>6, <1>8, Zenon DEF AuthFind, AuthSteps
  <2>2. IsFrame(createNewNodeFromAuth(r))
    <3>1. IsRow(newNode(r, now))
      BY <2>1, NewNodeFacts
    <3>2. IsFrame([at |-> "allocate", req |-> r, pak |-> [exists |-> FALSE], node |-> newNode(r, now)])
      BY <2>1, <3>1, Zenon DEF IsFrame, PakSteps, AuthSteps, CreateSteps
    <3>3. QED
      BY <1>5, <3>2, Zenon DEF Create, createNewNodeFromAuth
  <2>3. ASSUME NEW i
        PROVE  IsFrame([at |-> "authUpdate", req |-> r, id |-> i])
    BY <2>1, Zenon DEF IsFrame, PakSteps, AuthSteps, CreateSteps
  <2>4. UNCHANGED <<nodes, rows>>
    BY <1>8 DEF AuthFind, db
  <2>5. \/ Goto(c, Idle) \/ Goto(c, createNewNodeFromAuth(r))
        \/ \E i \in found : Goto(c, [at |-> "authUpdate", req |-> r, id |-> i])
    <3>1. CASE ambiguousForAuth(nodes, r.m)
      BY <1>8, <3>1 DEF AuthFind, Return
    <3>2. CASE ~ambiguousForAuth(nodes, r.m) /\ found = {}
      BY <1>8, <3>2, Zenon DEF AuthFind
    <3>3. CASE ~ambiguousForAuth(nodes, r.m) /\ found # {}
      BY <1>8, <3>3 DEF AuthFind
    <3>4. QED
      BY <3>1, <3>2, <3>3, Zenon
  <2> HIDE DEF r, found
  <2>6. QED
    BY <1>4, <1>5, <2>2, <2>3, <2>4, <2>5, Zenon
<1>9. CASE AuthUpdate(c)
  <2> DEFINE i == call[c].id
             n == reauthorised(nodes[i], r, now)
             f == [at |-> "authSave", req |-> r, id |-> i, node |-> n]
  <2>1. r \in Requests /\ r.op = "auth"
    BY <1>6, <1>9, Zenon DEF AuthUpdate, AuthSteps
  <2>2. CASE i \in DOMAIN nodes
    <3>1. nodes' = [nodes EXCEPT ![i] = n] /\ Goto(c, f) /\ UNCHANGED rows
      BY <1>9, <2>2, Zenon DEF AuthUpdate, db
    <3>2. r.user # 0
      BY <2>1, EnrolmentAssumption, RegistryAssumption, Zenon
    <3>3. IsRow(nodes[i])
      BY <1>1, <2>2, Zenon DEF NodeInv
    <3>4. IsRow(n)
      BY <3>2, <3>3, ReauthorisedFacts
    <3> HIDE DEF n
    <3>5. IsFrame(f)
      BY <2>1, <3>4, Zenon DEF IsFrame, PakSteps, AuthSteps, CreateSteps
    <3> HIDE DEF f
    <3>6. CallInv' /\ NodeInv'
      BY <1>1, <1>2, <2>2, <3>1, <3>4, <3>5, FrameMoves, StoreKeeps, Zenon
    <3>7. QED
      BY <1>3, <3>6 DEF EnrolInv
  <2>3. CASE i \notin DOMAIN nodes
    BY <1>4, <1>5, <1>9, <2>3, Zenon DEF AuthUpdate, Return, db
  <2>4. QED
    BY <2>2, <2>3
<1>10. CASE AuthSave(c)
  <2> DEFINE i == call[c].id
             n == call[c].node
  <2>1. r \in Requests /\ IsRow(n) /\ DOMAIN n = Columns
    BY <1>6, <1>10, Zenon DEF AuthSave, AuthSteps, IsRow
  <2>2. /\ rows' \in {rows, IF i \in DOMAIN rows THEN [rows EXCEPT ![i] = authColumns(i, n)] ELSE rows}
        /\ Goto(c, Registered(r, i, n)) \/ Return(c)
        /\ UNCHANGED nodes
    BY <1>10, Zenon DEF AuthSave
  <2>3. IsRow(authColumns(i, n))
    <3> DEFINE g == authColumns(i, n)
    <3>1. DOMAIN g = DOMAIN n /\ g.tags = n.tags /\ g.user = n.user
      BY <2>1, Zenon DEF authColumns, Columns
    <3> HIDE DEF g
    <3>2. IsRow(g)
      BY <2>1, <3>1, RowLike
    <3>3. QED
      BY <3>2 DEF g
  <2>4. DOMAIN rows' = DOMAIN rows /\ \A j \in DOMAIN rows' : IsRow(rows'[j])
    BY <1>1, <2>2, <2>3, RowsPut, Zenon DEF NodeInv
  <2>5. CallInv'
    BY <1>1, <2>1, <2>2, SmallFrames, FrameMoves, Returns, Zenon
  <2>6. QED
    BY <1>1, <1>2, <1>3, <2>2, <2>4, <2>5, Zenon DEF EnrolInv, NodeInv
<1>11. QED
  BY <1>7, <1>8, <1>9, <1>10

\* Rows are taken in the order of their numbers.
LEMMA FirstRow ==
  ASSUME NEW S \in SUBSET Nat, S # {}
  PROVE  (CHOOSE j \in S : \A k \in S : j <= k) \in S
<1> DEFINE R == OpToRel(<, Nat)
<1>1. IsWellFoundedOn(R, Nat)
  BY NatLessThanWellFounded, Zenon
<1> HIDE DEF R
<1>2. PICK x \in S : \A y \in S : ~(<<y, x>> \in R)
  BY <1>1, WFMin, Zenon
<1>3. \A y \in S : x <= y
  <2> SUFFICES ASSUME NEW y \in S PROVE x <= y
    OBVIOUS
  <2>1. x \in Nat /\ y \in Nat /\ ~(<<y, x>> \in R)
    BY <1>2
  <2>2. ~(y < x)
    BY <2>1 DEF R, OpToRel
  <2>3. QED
    BY <2>1, <2>2
<1>4. QED
  BY <1>3, Zenon

\* BackfillNodeIPs.
LEMMA BackfillStep ==
  ASSUME EnrolInv, NEW c \in Callers,
         BackfillStart(c) \/ BackfillRow(c) \/ BackfillCommit(c) \/ BackfillList(c) \/ BackfillPut(c)
  PROVE  EnrolInv'
<1>1. CallInv /\ NodeInv /\ KeyInv
  BY DEF EnrolInv
<1>2. UNCHANGED <<nextID, keys, uses>>
  BY Zenon DEF BackfillStart, BackfillRow, BackfillCommit, BackfillList, BackfillPut, db
<1>3. KeyInv'
  BY <1>1, <1>2, KeysKept
<1>4. ASSUME NEW f, IsFrame(f), Goto(c, f), UNCHANGED <<nodes, rows>>
      PROVE  EnrolInv'
  BY <1>1, <1>2, <1>3, <1>4, FrameMoves, Zenon DEF EnrolInv, NodeInv
<1>5. IsFrame(Idle)
  BY Zenon DEF IsFrame
<1> DEFINE r == call[c].req
<1>6. ASSUME call[c].at \in {"backfill", "backfillList", "backfillPut"}
      PROVE  r \in Requests /\ r.op = "backfill"
  BY <1>1, <1>6, Somewhere, Zenon DEF IsFrame
<1>7. CASE BackfillStart(c)
  <2>1. PICK q \in Ask(c, "backfill") :
          Goto(c, [at |-> "backfill", req |-> q, todo |-> Missing, rows |-> rows])
    BY <1>7, Zenon DEF BackfillStart
  <2>2. q \in Requests /\ q.op = "backfill" /\ Missing \subseteq DOMAIN rows
    BY Asking DEF Missing
  <2>3. IsFrame([at |-> "backfill", req |-> q, todo |-> Missing, rows |-> rows])
    BY <1>1, <2>2, Zenon DEF IsFrame, PakSteps, AuthSteps, CreateSteps, NodeInv
  <2>4. QED
    BY <1>4, <1>7, <2>1, <2>3, Zenon DEF BackfillStart, db
<1>8. CASE BackfillRow(c)
  <2> DEFINE i == CHOOSE j \in call[c].todo : \A k \in call[c].todo : j <= k
             list == call[c].rows
  <2>1. /\ call[c].at = "backfill" /\ call[c].todo # {} /\ UNCHANGED <<nodes, rows>>
    BY <1>8, Zenon DEF BackfillRow, db
  <2>2. \/ Return(c)
        \/ \E a, b : Goto(c, [call[c] EXCEPT !.todo = @ \ {i}, !.rows[i].ip4 = a, !.rows[i].ip6 = b])
    BY <1>8, Zenon DEF BackfillRow
  <2>3. /\ DOMAIN call[c] = {"at", "req", "todo", "rows"} /\ call[c].todo \subseteq DOMAIN list
        /\ DOMAIN list \subseteq Nat /\ \A j \in DOMAIN list : IsRow(list[j])
    BY <1>1, <2>1, Somewhere, Zenon DEF IsFrame
  <2>4. i \in DOMAIN list
    BY <2>1, <2>3, FirstRow, Zenon
  <2> HIDE DEF i
  <2>5. ASSUME NEW a, NEW b
        PROVE  IsFrame([call[c] EXCEPT !.todo = @ \ {i}, !.rows[i].ip4 = a, !.rows[i].ip6 = b])
    <3> DEFINE m == [[list[i] EXCEPT !.ip4 = a] EXCEPT !.ip6 = b]
               g == [list EXCEPT ![i] = m]
               f == [call[c] EXCEPT !.todo = @ \ {i}, !.rows[i].ip4 = a, !.rows[i].ip6 = b]
    <3>1. /\ DOMAIN f = {"at", "req", "todo", "rows"} /\ f.at = "backfill" /\ f.req = r
          /\ f.todo \subseteq call[c].todo
      BY <2>1, <2>3
    <3>2. DOMAIN f.rows = DOMAIN list /\ \A j \in DOMAIN list : f.rows[j] = IF j = i THEN m ELSE list[j]
      BY <2>3, <2>4, Zenon
    <3>3. IsRow(list[i]) /\ DOMAIN list[i] = Columns
      BY <2>3, <2>4, Zenon DEF IsRow
    <3>4. DOMAIN m = DOMAIN list[i] /\ m.tags = list[i].tags /\ m.user = list[i].user
      BY <3>3, Zenon DEF Columns
    <3> HIDE DEF m, f
    <3>5. IsRow(m)
      BY <3>3, <3>4, RowLike, Zenon
    <3>6. \A j \in DOMAIN f.rows : IsRow(f.rows[j])
      BY <2>3, <3>2, <3>5
    <3>7. IsFrame(f)
      BY <1>6, <2>1, <2>3, <3>1, <3>2, <3>6, Zenon DEF IsFrame, PakSteps, AuthSteps, CreateSteps
    <3>8. QED
      BY <3>7 DEF f
  <2>6. QED
    BY <1>4, <1>5, <2>1, <2>2, <2>5, Zenon DEF Return
<1>9. CASE BackfillCommit(c)
  <2> DEFINE list == call[c].rows
             m(i) == [rows[i] EXCEPT !.ip4 = list[i].ip4, !.ip6 = list[i].ip6]
             g == [i \in DOMAIN rows |-> IF i \in DOMAIN list THEN m(i) ELSE rows[i]]
  <2>1. /\ (rows' = g /\ Goto(c, [at |-> "backfillList", req |-> r])) \/ (Return(c) /\ UNCHANGED rows)
        /\ call[c].at = "backfill" /\ UNCHANGED nodes
    BY <1>9, Zenon DEF BackfillCommit
  <2>2. IsFrame([at |-> "backfillList", req |-> r])
    BY <1>6, <2>1, Zenon DEF IsFrame, PakSteps, AuthSteps, CreateSteps
  <2>3. CallInv'
    BY <1>1, <2>1, <2>2, FrameMoves, Returns, Zenon
  <2>4. ASSUME NEW i \in DOMAIN rows
        PROVE  IsRow(m(i))
    <3>1. IsRow(rows[i]) /\ DOMAIN rows[i] = Columns
      BY <1>1 DEF NodeInv, IsRow
    <3>2. DOMAIN m(i) = DOMAIN rows[i] /\ m(i).tags = rows[i].tags /\ m(i).user = rows[i].user
      BY <3>1 DEF Columns
    <3> HIDE DEF m
    <3>3. QED
      BY <3>1, <3>2, RowLike, Zenon
  <2> HIDE DEF m
  <2>5. DOMAIN g = DOMAIN rows /\ \A i \in DOMAIN g : IsRow(g[i])
    BY <1>1, <2>4, Zenon DEF NodeInv
  <2> HIDE DEF g
  <2>6. NodeInv'
    BY <1>1, <1>2, <2>1, <2>5 DEF NodeInv
  <2>7. QED
    BY <1>3, <2>3, <2>6 DEF EnrolInv
<1>10. CASE BackfillList(c)
  <2>1. /\ Goto(c, [at |-> "backfillPut", req |-> r, rows |-> rows]) /\ UNCHANGED <<nodes, rows>>
        /\ call[c].at = "backfillList"
    BY <1>10 DEF BackfillList, db
  <2>2. IsFrame([at |-> "backfillPut", req |-> r, rows |-> rows])
    BY <1>1, <1>6, <2>1, Zenon DEF IsFrame, PakSteps, AuthSteps, CreateSteps, NodeInv
  <2>3. QED
    BY <1>4, <2>1, <2>2, Zenon
<1>11. CASE BackfillPut(c)
  <2> DEFINE list == call[c].rows
             i == CHOOSE j \in DOMAIN list : \A k \in DOMAIN list : j <= k
             m == [list[i] EXCEPT !.announced = nodes[i].announced]
             n == IF i \in DOMAIN nodes THEN m ELSE list[i]
             f == [call[c] EXCEPT !.rows = Drop(list, i)]
  <2>1. call[c].at = "backfillPut" /\ UNCHANGED rows
    BY <1>11, Zenon DEF BackfillPut, db
  <2>2. DOMAIN call[c] = {"at", "req", "rows"} /\ DOMAIN list \subseteq Nat /\ \A j \in DOMAIN list : IsRow(list[j])
    BY <1>1, <2>1, Somewhere, Zenon DEF IsFrame
  <2>3. CASE DOMAIN list = {}
    BY <1>4, <1>5, <1>11, <2>1, <2>3 DEF BackfillPut, Return
  <2>4. CASE DOMAIN list # {}
    <3>1. nodes' = Put(nodes, i, n) /\ Goto(c, f)
      BY <1>11, <2>4 DEF BackfillPut
    <3>2. i \in DOMAIN list
      BY <2>2, <2>4, FirstRow, Zenon
    <3> HIDE DEF i
    <3>3. IsRow(list[i]) /\ DOMAIN list[i] = Columns
      BY <2>2, <3>2, Zenon DEF IsRow
    <3>4. DOMAIN m = DOMAIN list[i] /\ m.tags = list[i].tags /\ m.user = list[i].user
      BY <3>3 DEF Columns
    <3> HIDE DEF m
    <3>5. IsRow(n)
      BY <3>3, <3>4, RowLike, Zenon
    <3> HIDE DEF n
    <3>6. \A j \in DOMAIN nodes' : IsRow(nodes'[j])
      BY <1>1, <3>1, <3>5, RowsPut DEF NodeInv
    <3>7. DOMAIN f = {"at", "req", "rows"} /\ f.at = "backfillPut" /\ f.req = r /\ f.rows = Drop(list, i)
      BY <2>1, <2>2, Zenon
    <3>8. DOMAIN Drop(list, i) \subseteq Nat /\ \A j \in DOMAIN Drop(list, i) : IsRow(Drop(list, i)[j])
      BY <2>2 DEF Drop
    <3> HIDE DEF f
    <3>9. IsFrame(f)
      BY <1>6, <2>1, <3>7, <3>8, Zenon DEF IsFrame, PakSteps, AuthSteps, CreateSteps
    <3>10. CallInv'
      BY <1>1, <3>1, <3>9, FrameMoves, Zenon
    <3>11. QED
      BY <1>1, <1>2, <1>3, <2>1, <3>6, <3>10, Zenon DEF EnrolInv, NodeInv
  <2>5. QED
    BY <2>3, <2>4, Zenon
<1>12. QED
  BY <1>7, <1>8, <1>9, <1>10, <1>11, Zenon

\* Destroyed keys leave the rows their owner.
LEMMA DestroyFacts ==
  ASSUME EnrolInv, NEW ks, Destroy(ks), UNCHANGED <<nodes, nextID, call, uses>>
  PROVE  EnrolInv'
<1> DEFINE m(i) == [rows[i] EXCEPT !.ak = 0]
           g == [i \in DOMAIN rows |-> IF rows[i].ak \in ks THEN m(i) ELSE rows[i]]
           x(k) == [keys[k] EXCEPT !.exists = FALSE]
           h == [k \in KeyIDs |-> IF k \in ks THEN x(k) ELSE keys[k]]
<1>1. rows' = g /\ keys' = h
  BY DEF Destroy
<1>2. ASSUME NEW i \in DOMAIN rows
      PROVE  IsRow(m(i))
  <2>1. IsRow(rows[i]) /\ DOMAIN rows[i] = Columns
    BY DEF EnrolInv, NodeInv, IsRow
  <2>2. DOMAIN m(i) = DOMAIN rows[i] /\ m(i).tags = rows[i].tags /\ m(i).user = rows[i].user
    BY <2>1 DEF Columns
  <2> HIDE DEF m
  <2>3. QED
    BY <2>1, <2>2, RowLike, Zenon
<1>3. ASSUME NEW k \in KeyIDs
      PROVE  x(k) \in KeyRow /\ x(k).used = keys[k].used
  <2>1. keys[k] \in KeyRow
    BY Zenon DEF EnrolInv, KeyInv
  <2>2. QED
    BY <2>1, Zenon DEF KeyRow
<1> HIDE DEF m, x
<1>4. DOMAIN g = DOMAIN rows /\ \A i \in DOMAIN g : IsRow(g[i])
  BY <1>2 DEF EnrolInv, NodeInv
<1>5. h \in [KeyIDs -> KeyRow] /\ \A k \in KeyIDs : h[k].used = keys[k].used
  BY <1>3, Zenon DEF EnrolInv, KeyInv
<1> HIDE DEF g, h
<1>6. NodeInv'
  BY <1>1, <1>4 DEF EnrolInv, NodeInv
<1>7. KeyInv'
  BY <1>1, <1>5 DEF EnrolInv, KeyInv
<1>8. QED
  BY <1>6, <1>7 DEF EnrolInv, CallInv

\* Keys, users, the clock and a restart.
LEMMA AdminSteps ==
  ASSUME EnrolInv,
         ExpirePreAuthKey \/ DestroyPreAuthKey \/ DestroyUser \/ Tick \/ Restart \/ UNCHANGED vars
  PROVE  EnrolInv'
<1>1. CASE ExpirePreAuthKey
  <2>1. PICK r \in Admin("expireKey") :
          keys' = [keys EXCEPT ![r.key].expired = TRUE] /\ UNCHANGED <<nodes, rows, nextID, call, uses>>
    BY <1>1, Zenon DEF ExpirePreAuthKey, Administered
  <2>2. r.key \in KeyIDs
    BY EnrolmentAssumption DEF Admin
  <2>3. keys' \in [KeyIDs -> KeyRow] /\ \A k \in KeyIDs : keys'[k].used = keys[k].used
    BY <2>1, <2>2, ZenonT(30) DEF EnrolInv, KeyInv, KeyRow
  <2>4. KeyInv'
    BY <2>1, <2>3 DEF EnrolInv, KeyInv
  <2>5. QED
    BY <2>1, <2>4 DEF EnrolInv, CallInv, NodeInv
<1>2. CASE DestroyPreAuthKey
  BY <1>2, DestroyFacts DEF DestroyPreAuthKey, Administered
<1>3. CASE DestroyUser
  BY <1>3, DestroyFacts DEF DestroyUser, Administered
<1>4. CASE Tick \/ UNCHANGED vars
  <2>1. UNCHANGED <<nodes, rows, nextID, call, keys, uses>>
    BY <1>4 DEF Tick, vars, db, history
  <2>2. QED
    BY <2>1, KeysKept, Zenon DEF EnrolInv, CallInv, NodeInv
<1>5. CASE Restart
  <2>1. nodes' = rows /\ call' = [c \in Callers |-> Idle] /\ UNCHANGED <<rows, nextID, keys, uses>>
    BY <1>5 DEF Restart, db, history
  <2>2. CallInv'
    BY <2>1, Zenon DEF CallInv, IsFrame
  <2>3. NodeInv'
    BY <2>1, Zenon DEF EnrolInv, NodeInv
  <2>4. QED
    BY <2>1, <2>2, <2>3, KeysKept, Zenon DEF EnrolInv
<1>6. QED
  BY <1>1, <1>2, <1>3, <1>4, <1>5

\* The first state.
LEMMA InitEnrol == Init => EnrolInv
<1> SUFFICES ASSUME Init PROVE EnrolInv
  OBVIOUS
<1>1. CallInv
  BY Zenon DEF Init, CallInv, IsFrame
<1>2. \A i \in DOMAIN InitRows : IsRow(InitRows[i])
  BY EnrolmentAssumption, Zenon DEF IsRow, Node, Columns
<1>3. nextID \in Nat /\ DOMAIN InitRows \subseteq Nat
  <2> DEFINE k == Cardinality(DOMAIN InitRows)
  <2>1. k \in Nat /\ DOMAIN InitRows \subseteq 1..k
    BY EnrolmentAssumption, FS_CardinalityType, Zenon
  <2>2. nextID = k + 1
    BY Zenon DEF Init
  <2> HIDE DEF k
  <2>3. QED
    BY <2>1, <2>2
<1>4. NodeInv
  BY <1>2, <1>3, Zenon DEF Init, NodeInv
<1>5. KeyInv
  BY EnrolmentAssumption DEF Init, KeyInv
<1>6. QED
  BY <1>1, <1>4, <1>5 DEF EnrolInv

\* Every step keeps the invariant.
LEMMA NextEnrol ==
  ASSUME EnrolInv, [Next]_vars
  PROVE  EnrolInv'
<1>1. ASSUME NEW c \in Callers, Start(c) \/ Step(c)
      PROVE  EnrolInv'
  BY <1>1, StoringSteps, PersistSteps, ExpirySteps, DeleteSteps, PakSteps1, PakSaveStep, CreateStep,
     AuthStep, BackfillStep, Zenon DEF Start, Step
<1>2. QED
  BY <1>1, AdminSteps, Zenon DEF Next

\* EnrolInv is an invariant.
LEMMA EnrolInvariant == Spec => []EnrolInv
BY InitEnrol, NextEnrol, PTL DEF Spec

(* Every node, in the store and in the table, is owned by a user or by tags *)
(* and never by both or neither (validateNodeOwnership), for any requests,  *)
(* callers, failed writes and restarts.                                     *)
THEOREM OwnershipStaysExclusive == Spec => []OwnedXorTagged
<1>1. EnrolInv => OwnedXorTagged
  BY Zenon DEF EnrolInv, NodeInv, IsRow, OwnedXorTagged
<1>2. QED
  BY <1>1, EnrolInvariant, PTL

(* A key that is not reusable is spent by one committed registration at     *)
(* most, however many machines present it at once (UsePreAuthKey in the     *)
(* transaction of the registration).                                        *)
THEOREM KeysAreSpentOnce == Spec => []SingleUse
<1>1. EnrolInv => SingleUse
  BY DEF EnrolInv, KeyInv, SingleUse
<1>2. QED
  BY <1>1, EnrolInvariant, PTL

-------------------------------------------------------------------------------
(* A key that is not valid.  Registrations of a machine are serialised, and *)
(* a node belongs to one machine for ever, so nobody else re-registers the  *)
(* node a registration has found.  The store is left alone by backfills.    *)

\* lockRegistration: one registration per machine.
LockInv ==
  \A c, d \in Callers :
    call[c].at \in Registering /\ call[d].at \in Registering /\ call[c].req.m = call[d].req.m
    => c = d

\* What a registration holds is a node of its machine; k is the next number.
Claims(f, own, k) ==
  /\ f.at \in {"pakUpdate", "pakSave", "rollback", "authUpdate", "authSave", "put"} =>
       f.id \in Nat /\ f.id < k /\ own[f.id] = f.req.m
  /\ f.at \in {"pakUpdate", "pakSave", "rollback"} => f.prior.mk = f.req.m
  /\ f.at \in {"allocate", "insert", "put"} => f.node.mk = f.req.m

\* Numbers are not reused, and each is of one machine.
Agrees(own) ==
  /\ DOMAIN own = Nat
  /\ \A i \in DOMAIN rows : i < nextID
  /\ \A i \in DOMAIN nodes : i \in Nat /\ i < nextID /\ nodes[i].mk = own[i]
  /\ \A c \in Callers : Claims(call[c], own, nextID)

\* A registration whose key is not valid was let through because it changes
\* nothing, and still would not; ns are the nodes in the store.
Inert(f, ns) ==
  f.at = "pakUpdate" /\ ~Valid(f.req.key, f.pak) =>
    /\ f.prior.nk = f.req.nk
    /\ \/ KeyOf[f.req.key].tags = {}
       \/ f.id \in DOMAIN ns => IsTagged(ns[f.id]) /\ ns[f.id].ak = f.req.key

SkipInv == \A c \in Callers : Inert(call[c], nodes)

ClaimInv == LockInv /\ SkipInv /\ \E own : Agrees(own)

\* A step that leaves node i as tagged as it was, and with its key.
Calm(i) ==
  /\ i \in DOMAIN nodes /\ nodes'[i].mk = nodes[i].mk
  /\ IsTagged(nodes[i]) => IsTagged(nodes'[i]) /\ nodes'[i].ak = nodes[i].ak

\* A step of one caller, which may rewrite the nodes of the machine whose
\* registration it holds the lock for.
LEMMA Serialised ==
  ASSUME CallInv, NodeInv, LockInv, SkipInv, NEW own, Agrees(own),
         NEW c \in Callers, NEW f, Goto(c, f),
         f.at \in Registering =>
           (call[c].at \in Registering /\ f.req.m = call[c].req.m) \/ lockRegistration(f.req.m),
         nextID' = nextID, DOMAIN rows' \subseteq DOMAIN rows,
         Claims(f, own, nextID), Inert(f, nodes'),
         \A i \in DOMAIN nodes' :
           \/ Calm(i)
           \/ /\ call[c].at \in Registering /\ own[i] = call[c].req.m
              /\ i \in Nat /\ i < nextID /\ nodes'[i].mk = own[i]
  PROVE  LockInv' /\ SkipInv' /\ Agrees(own)'
<1>1. \A d \in Callers : call'[d] = IF d = c THEN f ELSE call[d]
  BY Zenon DEF Goto, CallInv
<1>2. LockInv'
  <2> SUFFICES ASSUME NEW d \in Callers, NEW e \in Callers, d # e, call'[d].at \in Registering,
                      call'[e].at \in Registering, call'[d].req.m = call'[e].req.m
               PROVE  FALSE
    BY Zenon DEF LockInv
  <2>1. ASSUME NEW b \in Callers, b # c, call[b].at \in Registering, f.at \in Registering,
               f.req.m = call[b].req.m
        PROVE  FALSE
    BY <2>1, ZenonT(30) DEF LockInv, lockRegistration
  <2>2. CASE d = c
    BY <1>1, <2>1, <2>2, Zenon
  <2>3. CASE e = c
    BY <1>1, <2>1, <2>3, Zenon
  <2>4. CASE d # c /\ e # c
    BY <1>1, <2>4, Zenon DEF LockInv
  <2>5. QED
    BY <2>2, <2>3, <2>4
<1>3. SkipInv'
  <2> SUFFICES ASSUME NEW d \in Callers PROVE Inert(call'[d], nodes')
    BY Zenon DEF SkipInv
  <2>1. CASE d = c
    BY <1>1, <2>1, Zenon
  <2>2. CASE d # c
    <3> DEFINE g == call[d]
    <3>1. call'[d] = g /\ Inert(g, nodes) /\ Claims(g, own, nextID)
      BY <1>1, <2>2, Zenon DEF SkipInv, Agrees
    <3>2. SUFFICES ASSUME g.at = "pakUpdate", ~Valid(g.req.key, g.pak), KeyOf[g.req.key].tags # {},
                          g.id \in DOMAIN nodes'
                   PROVE  IsTagged(nodes'[g.id]) /\ nodes'[g.id].ak = g.req.key
      BY <3>1, Zenon DEF Inert
    <3>3. own[g.id] = g.req.m /\ g.at \in Registering
      BY <3>1, <3>2, Zenon DEF Claims, Registering
    <3>4. Calm(g.id)
      BY <2>2, <3>2, <3>3, Zenon DEF LockInv
    <3>5. QED
      BY <3>1, <3>2, <3>4, Zenon DEF Inert, Calm
  <2>3. QED
    BY <2>1, <2>2, Zenon
<1>4. Agrees(own)'
  <2>1. \A i \in DOMAIN nodes' : i \in Nat /\ i < nextID /\ nodes'[i].mk = own[i]
    BY Zenon DEF Agrees, Calm
  <2>2. \A d \in Callers : Claims(call'[d], own, nextID)
    BY <1>1, Zenon DEF Agrees
  <2>3. QED
    BY <2>1, <2>2, Zenon DEF Agrees
<1>5. QED
  BY <1>2, <1>3, <1>4, Zenon

\* A step outside registrations.
LEMMA Bystander ==
  ASSUME CallInv, NodeInv, ClaimInv, NEW c \in Callers, NEW f, Goto(c, f), f.at \notin Registering,
         nextID' = nextID, DOMAIN rows' \subseteq DOMAIN rows,
         \A i \in DOMAIN nodes' : Calm(i)
  PROVE  ClaimInv'
<1>1. PICK own : Agrees(own)
  BY DEF ClaimInv
<1>2. Claims(f, own, nextID) /\ Inert(f, nodes')
  BY Zenon DEF Claims, Inert, Registering
<1>3. LockInv' /\ SkipInv' /\ Agrees(own)'
  BY <1>1, <1>2, Serialised, Zenon DEF ClaimInv
<1>4. QED
  BY <1>3, Zenon DEF ClaimInv

\* The store is left alone.
LEMMA CalmKept ==
  ASSUME UNCHANGED nodes
  PROVE  \A i \in DOMAIN nodes' : Calm(i)
BY DEF Calm

\* One node gets columns that are neither its machine, its tags nor its key.
LEMMA CalmStore ==
  ASSUME NodeInv, NEW i \in DOMAIN nodes, NEW g, g.mk = nodes[i].mk, g.ak = nodes[i].ak,
         IsTagged(nodes[i]) => IsTagged(g), nodes' = [nodes EXCEPT ![i] = g]
  PROVE  \A j \in DOMAIN nodes' : Calm(j)
BY DEF Calm

\* The operations on one node, and persistNode.
LEMMA StoringClaims ==
  ASSUME EnrolInv, ClaimInv, NEW c \in Callers,
         \/ SetNodeTags(c) \/ SetApprovedRoutes(c) \/ Approve(c) \/ UpdateNodeFromMapRequest(c)
         \/ PersistRead(c) \/ PersistWrite(c)
  PROVE  ClaimInv'
<1>1. CallInv /\ NodeInv
  BY DEF EnrolInv
<1>2. nextID' = nextID
  BY Zenon DEF SetNodeTags, SetApprovedRoutes, Approve, UpdateNodeFromMapRequest, Store, PersistRead,
         PersistWrite, db
<1>3. \A i \in DOMAIN nodes : DOMAIN nodes[i] = Columns
  BY <1>1, Zenon DEF NodeInv, IsRow
<1>4. ASSUME NEW i \in DOMAIN nodes, NEW g, g.mk = nodes[i].mk, g.ak = nodes[i].ak,
             IsTagged(nodes[i]) => IsTagged(g), Store(c, i, g),
             NEW f, Goto(c, f), f.at \notin Registering
      PROVE  ClaimInv'
  <2>1. \A j \in DOMAIN nodes' : Calm(j)
    BY <1>1, <1>4, CalmStore, Zenon DEF Store
  <2>2. QED
    BY <1>1, <1>2, <1>4, <2>1, Bystander, Zenon DEF Store, db
<1>5. \A r, i, n : Persist(r, i, n).at \notin Registering
  BY DEF Persist, Registering
<1>6. CASE SetNodeTags(c)
  <2>1. PICK r \in Ask(c, "tags") :
          /\ r.id \in DOMAIN nodes
          /\ LET n == [nodes[r.id] EXCEPT !.tags = r.tags, !.user = 0]
             IN  Store(c, r.id, n) /\ Goto(c, Persist(r, r.id, n))
    BY <1>6, Zenon DEF SetNodeTags
  <2> DEFINE n == [nodes[r.id] EXCEPT !.tags = r.tags, !.user = 0]
  <2>2. r.tags # {}
    BY Asking, EnrolmentAssumption, Zenon
  <2>3. n.mk = nodes[r.id].mk /\ n.ak = nodes[r.id].ak /\ n.tags = r.tags
    BY <1>3, <2>1 DEF Columns
  <2>4. Store(c, r.id, n) /\ Goto(c, Persist(r, r.id, n))
    BY <2>1
  <2> HIDE DEF n
  <2>5. QED
    BY <1>4, <1>5, <2>1, <2>2, <2>3, <2>4, Zenon DEF IsTagged
<1>7. CASE SetApprovedRoutes(c)
  <2>1. PICK r \in Ask(c, "routes") :
          /\ r.id \in DOMAIN nodes
          /\ LET n == [nodes[r.id] EXCEPT !.approved = r.approved]
             IN  Store(c, r.id, n) /\ Goto(c, Persist(r, r.id, n))
    BY <1>7, Zenon DEF SetApprovedRoutes
  <2> DEFINE n == [nodes[r.id] EXCEPT !.approved = r.approved]
  <2>2. n.mk = nodes[r.id].mk /\ n.ak = nodes[r.id].ak /\ n.tags = nodes[r.id].tags
    BY <1>3, <2>1 DEF Columns
  <2>3. Store(c, r.id, n) /\ Goto(c, Persist(r, r.id, n))
    BY <2>1, Zenon
  <2> HIDE DEF n
  <2>4. QED
    BY <1>4, <1>5, <2>1, <2>2, <2>3, Zenon DEF IsTagged
<1>8. CASE Approve(c)
  <2> DEFINE i == call[c].id
             n == [nodes[i] EXCEPT !.approved = call[c].approved]
  <2>1. CASE i \in DOMAIN nodes
    <3>1. Store(c, i, n) /\ Goto(c, Persist(call[c].req, i, n))
      BY <1>8, <2>1 DEF Approve
    <3>2. n.mk = nodes[i].mk /\ n.ak = nodes[i].ak /\ n.tags = nodes[i].tags
      BY <1>3, <2>1, Zenon DEF Columns
    <3> HIDE DEF n
    <3>3. QED
      BY <1>4, <1>5, <2>1, <3>1, <3>2, Zenon DEF IsTagged
  <2>2. CASE i \notin DOMAIN nodes
    <3>1. Goto(c, Idle) /\ UNCHANGED <<nodes, rows>>
      BY <1>8, <2>2, Zenon DEF Approve, Return, db
    <3>2. Idle.at \notin Registering
      BY DEF Idle, Registering
    <3>3. QED
      BY <1>1, <1>2, <3>1, <3>2, CalmKept, Bystander, ZenonT(30)
  <2>3. QED
    BY <2>1, <2>2
<1>9. CASE UpdateNodeFromMapRequest(c)
  <2>1. PICK r \in Ask(c, "map") :
          /\ r.id \in DOMAIN nodes
          /\ LET old == nodes[r.id]
                 n == [old EXCEPT !.announced = r.announced]
                 approved == autoApproved(old, r.announced)
             IN  /\ Store(c, r.id, n)
                 /\ Goto(c, IF needsRouteApproval(old, r.announced) /\ approved # old.approved
                              THEN [at |-> "approve", req |-> r, id |-> r.id, approved |-> approved]
                              ELSE Persist(r, r.id, n))
    BY <1>9, Zenon DEF UpdateNodeFromMapRequest
  <2> DEFINE n == [nodes[r.id] EXCEPT !.announced = r.announced]
             approved == autoApproved(nodes[r.id], r.announced)
             a == [at |-> "approve", req |-> r, id |-> r.id, approved |-> approved]
             f == IF needsRouteApproval(nodes[r.id], r.announced) /\ approved # nodes[r.id].approved
                    THEN a ELSE Persist(r, r.id, n)
  <2>2. n.mk = nodes[r.id].mk /\ n.ak = nodes[r.id].ak /\ n.tags = nodes[r.id].tags
    BY <1>3, <2>1, Zenon DEF Columns
  <2>3. Store(c, r.id, n) /\ Goto(c, f)
    BY <2>1, Zenon
  <2>4. a.at \notin Registering
    BY DEF Registering
  <2> HIDE DEF n, a
  <2>5. f.at \notin Registering
    BY <1>5, <2>4, Zenon
  <2> HIDE DEF f
  <2>6. QED
    BY <1>4, <2>1, <2>2, <2>3, <2>5, Zenon DEF IsTagged
<1>10. CASE PersistRead(c)
  <2> DEFINE a == [at |-> "persistWrite", req |-> call[c].req, id |-> call[c].id, fresh |-> nodes[call[c].id]]
  <2>1. (Goto(c, a) \/ Goto(c, Idle)) /\ UNCHANGED <<nodes, rows>>
    BY <1>10, Zenon DEF PersistRead, db
  <2>2. a.at \notin Registering /\ Idle.at \notin Registering
    BY Zenon DEF Idle, Registering
  <2> HIDE DEF a
  <2>3. QED
    BY <1>1, <1>2, <2>1, <2>2, CalmKept, Bystander, Zenon
<1>11. CASE PersistWrite(c)
  <2>1. Goto(c, Idle) /\ UNCHANGED nodes /\ DOMAIN rows' = DOMAIN rows
    BY <1>11, Zenon DEF PersistWrite, Return
  <2>2. Idle.at \notin Registering
    BY DEF Idle, Registering
  <2>3. QED
    BY <1>1, <1>2, <2>1, <2>2, CalmKept, Bystander, Zenon
<1>12. QED
  BY <1>6, <1>7, <1>8, <1>9, <1>10, <1>11, Zenon

\* Expiry, logout and deletion.
LEMMA RemovingClaims ==
  ASSUME EnrolInv, ClaimInv, NEW c \in Callers,
         \/ SetNodeExpiry(c) \/ LogoutExpire(c) \/ ExpireSave(c) \/ handleLogout(c)
         \/ DeleteNode(c) \/ DeleteRow(c) \/ DeleteStore(c) \/ DeleteFree(c)
  PROVE  ClaimInv'
<1>1. CallInv /\ NodeInv
  BY DEF EnrolInv
<1>2. nextID' = nextID
  BY Zenon DEF SetNodeExpiry, LogoutExpire, ExpireSave, handleLogout, ExpireStore, DeleteNode, DeleteRow,
         DeleteStore, DeleteFree, db
<1>3. DOMAIN rows' \subseteq DOMAIN rows
  BY Zenon DEF SetNodeExpiry, LogoutExpire, ExpireSave, handleLogout, ExpireStore, DeleteNode, DeleteRow,
         DeleteStore, DeleteFree, db, Drop
<1>4. \A i \in DOMAIN nodes' : Calm(i)
  <2>1. ASSUME NEW r, NEW i \in DOMAIN nodes, NEW t, ExpireStore(c, r, i, t)
        PROVE  \A j \in DOMAIN nodes' : Calm(j)
    <3> DEFINE g == [nodes[i] EXCEPT !.expiry = t]
    <3>1. nodes' = [nodes EXCEPT ![i] = g]
      BY <2>1, Zenon DEF ExpireStore
    <3>2. DOMAIN nodes[i] = Columns
      BY <1>1 DEF NodeInv, IsRow
    <3>3. g.mk = nodes[i].mk /\ g.ak = nodes[i].ak /\ g.tags = nodes[i].tags
      BY <3>2 DEF Columns
    <3> HIDE DEF g
    <3>4. QED
      BY <1>1, <3>1, <3>3, CalmStore, Zenon DEF IsTagged
  <2>2. CASE SetNodeExpiry(c)
    BY <2>1, <2>2, Zenon DEF SetNodeExpiry
  <2>3. CASE LogoutExpire(c)
    BY <2>1, <2>3, CalmKept, Zenon DEF LogoutExpire
  <2>4. CASE DeleteStore(c)
    BY <2>4 DEF DeleteStore, Drop, Calm
  <2>5. CASE ExpireSave(c) \/ handleLogout(c) \/ DeleteNode(c) \/ DeleteRow(c) \/ DeleteFree(c)
    BY <2>5, CalmKept, Zenon DEF ExpireSave, handleLogout, DeleteNode, DeleteRow, DeleteFree
  <2>6. QED
    BY <2>2, <2>3, <2>4, <2>5, Zenon
<1>5. \E f : Goto(c, f) /\ f.at \notin Registering
  <2>1. \A r, i, t : [at |-> "expireSave", req |-> r, id |-> i, expiry |-> t].at \notin Registering
    BY Zenon DEF Registering
  <2>2. \A r, i, t : [at |-> "deleteRow", req |-> r, id |-> i, ips |-> t].at \notin Registering
    BY Zenon DEF Registering
  <2>3. \A r, i, t : [at |-> "expireStore", req |-> r, id |-> i, expiry |-> t].at \notin Registering
    BY Zenon DEF Registering
  <2>4. Idle.at \notin Registering
    BY DEF Idle, Registering
  <2>5. CASE SetNodeExpiry(c) \/ LogoutExpire(c) \/ ExpireSave(c)
    BY <2>1, <2>4, <2>5, Zenon DEF SetNodeExpiry, LogoutExpire, ExpireSave, ExpireStore, Return
  <2>6. CASE DeleteNode(c)
    BY <2>2, <2>6, Zenon DEF DeleteNode
  <2>7. CASE handleLogout(c)
    <3>1. PICK r \in Ask(c, "logout"), i \in DOMAIN nodes :
            Goto(c, IF IsEphemeral(nodes[i])
                      THEN [at |-> "deleteRow", req |-> r, id |-> i, ips |-> IPs(nodes[i])]
                      ELSE [at |-> "expireStore", req |-> r, id |-> i, expiry |-> now])
      BY <2>7, Zenon DEF handleLogout
    <3>2. QED
      BY <2>2, <2>3, <3>1, Zenon
  <2>8. CASE DeleteRow(c) \/ DeleteStore(c) \/ DeleteFree(c)
    <3>1. ASSUME call[c].at \in {"deleteRow", "deleteStore"}, NEW pc \in {"deleteStore", "deleteFree"}
          PROVE  [call[c] EXCEPT !.at = pc].at \notin Registering
      <4>1. DOMAIN call[c] = {"at", "req", "id", "ips"}
        BY <1>1, <3>1, Somewhere, Zenon DEF IsFrame
      <4>2. QED
        BY <4>1 DEF Registering
    <3>2. QED
      BY <2>4, <2>8, <3>1, Zenon DEF DeleteRow, DeleteStore, DeleteFree, Return
  <2>9. QED
    BY <2>5, <2>6, <2>7, <2>8, Zenon
<1>6. QED
  BY <1>1, <1>2, <1>3, <1>4, <1>5, Bystander, Zenon

\* A registration that is over has given up its lock.
LEMMA RegisteredOver ==
  ASSUME NEW r, NEW i, NEW n
  PROVE  Registered(r, i, n).at \notin Registering
<1>1. [at |-> "approve", req |-> r, id |-> i, approved |-> ApproveRoutesWithPolicy(n)].at \notin Registering
  BY Zenon DEF Registering
<1>2. QED
  BY <1>1, Zenon DEF Registered, Idle, Registering

\* A registration takes the lock, finds a node or none, and updates the store.
LEMMA PakClaims ==
  ASSUME EnrolInv, ClaimInv, NEW c \in Callers,
         PakRead(c) \/ PakFind(c) \/ PakUpdate(c) \/ PakSave(c) \/ PakRollback(c)
  PROVE  ClaimInv'
<1>1. CallInv /\ NodeInv
  BY DEF EnrolInv
<1>2. nextID' = nextID /\ nextID \in Nat
  BY <1>1, Zenon DEF PakRead, PakFind, PakUpdate, PakSave, PakRollback, db, NodeInv
<1>3. DOMAIN rows' \subseteq DOMAIN rows
  BY Zenon DEF PakRead, PakFind, PakUpdate, PakSave, PakRollback, db, Update
<1>4. PICK own : Agrees(own)
  BY Zenon DEF ClaimInv
<1> DEFINE r == call[c].req
           Other(i) == /\ call[c].at \in Registering /\ own[i] = r.m
                       /\ i \in Nat /\ i < nextID /\ nodes'[i].mk = own[i]
<1>5. ASSUME NEW f, Goto(c, f), Claims(f, own, nextID), Inert(f, nodes'),
             f.at \in Registering =>
               (call[c].at \in Registering /\ f.req.m = r.m) \/ lockRegistration(f.req.m),
             \A i \in DOMAIN nodes' : Calm(i) \/ Other(i)
      PROVE  ClaimInv'
  <2>1. LockInv' /\ SkipInv' /\ Agrees(own)'
    BY <1>1, <1>2, <1>3, <1>4, <1>5, Serialised, Zenon DEF ClaimInv
  <2>2. QED
    BY <2>1 DEF ClaimInv
<1>6. Claims(call[c], own, nextID) /\ Inert(call[c], nodes)
  BY <1>4, Zenon DEF Agrees, ClaimInv, SkipInv
<1>7. ASSUME NEW f, Goto(c, f), f.at \notin Registering, \A i \in DOMAIN nodes' : Calm(i) \/ Other(i)
      PROVE  ClaimInv'
  <2>1. Claims(f, own, nextID) /\ Inert(f, nodes')
    BY <1>7, Zenon DEF Claims, Inert, Registering
  <2>2. QED
    BY <1>5, <1>7, <2>1, Zenon
<1>8. Idle.at \notin Registering
  BY DEF Idle, Registering
<1>9. CASE PakRead(c)
  <2>1. PICK q \in Ask(c, "pak") :
          lockRegistration(q.m) /\ Goto(c, [at |-> "pakFind", req |-> q, pak |-> keys[q.key]])
    BY <1>9, Zenon DEF PakRead
  <2> DEFINE f == [at |-> "pakFind", req |-> q, pak |-> keys[q.key]]
  <2>2. f.at = "pakFind" /\ f.req = q /\ Goto(c, f)
    BY <2>1, Zenon
  <2> HIDE DEF f
  <2>3. Claims(f, own, nextID) /\ Inert(f, nodes')
    BY <2>2, Zenon DEF Claims, Inert
  <2>4. \A i \in DOMAIN nodes' : Calm(i)
    BY <1>9, CalmKept, Zenon DEF PakRead
  <2>5. QED
    BY <1>5, <2>1, <2>2, <2>3, <2>4, Zenon
<1>10. CASE PakFind(c)
  <2> DEFINE pak == call[c].pak
             found == findExistingNodeForPAK(nodes, r.m, r.key)
             new == Create(r, pak)
             old(i) == [at |-> "pakUpdate", req |-> r, pak |-> pak, id |-> i, prior |-> nodes[i]]
  <2>1. UNCHANGED nodes /\ call[c].at = "pakFind" /\ call[c].at \in Registering
    BY <1>10 DEF PakFind, Registering
  <2>2. \A i \in DOMAIN nodes' : Calm(i)
    BY <2>1, CalmKept, Zenon
  <2>3. r \in Requests /\ r.op = "pak"
    BY <1>1, <2>1, Somewhere, Zenon DEF IsFrame, PakSteps
  <2>4. \/ Goto(c, Idle) \/ Goto(c, new)
        \/ \E i \in found :
             /\ Goto(c, old(i))
             /\ skipsValidation(nodes[i], r, now) \/ Valid(r.key, pak)
    <3>1. CASE ambiguousForPAK(nodes, r.m, r.key)
      BY <1>10, <3>1, Zenon DEF PakFind, Return
    <3>2. CASE ~ambiguousForPAK(nodes, r.m, r.key) /\ found = {}
      BY <1>10, <3>2, Zenon DEF PakFind
    <3>3. CASE ~ambiguousForPAK(nodes, r.m, r.key) /\ found # {}
      BY <1>10, <3>3, Zenon DEF PakFind
    <3>4. QED
      BY <3>1, <3>2, <3>3, Zenon
  <2>5. CASE Goto(c, Idle)
    BY <1>7, <1>8, <2>2, <2>5, Zenon
  <2>6. CASE Goto(c, new)
    <3>1. newNode(r, now).mk = r.m
      BY <2>3, NewNodeFacts, Zenon
    <3> DEFINE g == [at |-> "allocate", req |-> r, pak |-> pak, node |-> newNode(r, now)]
    <3>2. g.at = "allocate" /\ g.req = r /\ g.node.mk = r.m /\ (new = g \/ new = Idle)
      BY <3>1, Zenon DEF Create
    <3> HIDE DEF g, new
    <3>3. CASE new = Idle
      BY <1>7, <1>8, <2>2, <2>6, <3>3, Zenon
    <3>4. CASE new = g
      <4>1. Claims(g, own, nextID) /\ Inert(g, nodes')
        BY <3>2, Zenon DEF Claims, Inert
      <4>2. QED
        BY <1>5, <2>1, <2>2, <2>6, <3>2, <3>4, <4>1, Zenon
    <3>5. QED
      BY <3>2, <3>3, <3>4
  <2>7. ASSUME NEW i \in found, Goto(c, old(i)), skipsValidation(nodes[i], r, now) \/ Valid(r.key, pak)
        PROVE  ClaimInv'
    <3> DEFINE f == old(i)
    <3>1. i \in DOMAIN nodes /\ nodes[i].mk = r.m
      BY <2>7, FoundIn, ZenonT(30)
    <3>2. f.at = "pakUpdate" /\ f.req = r /\ f.pak = pak /\ f.id = i /\ f.prior = nodes[i]
      OBVIOUS
    <3>3. Goto(c, f)
      BY <2>7, Zenon
    <3> HIDE DEF f
    <3>4. Claims(f, own, nextID)
      BY <1>4, <3>1, <3>2, Zenon DEF Claims, Agrees
    <3>5. Inert(f, nodes')
      BY <2>1, <2>7, <3>1, <3>2, Zenon DEF Inert, skipsValidation, isRetag, isOwnershipConversion
    <3>6. QED
      BY <1>5, <2>1, <2>2, <3>2, <3>3, <3>4, <3>5, Zenon
  <2> HIDE DEF new, found, old
  <2>8. QED
    BY <2>4, <2>5, <2>6, <2>7, Zenon
<1>11. CASE PakUpdate(c)
  <2> DEFINE i == call[c].id
             n == reregistered(nodes[i], r, now)
             f == [at |-> "pakSave", req |-> r, pak |-> call[c].pak, id |-> i, prior |-> call[c].prior, node |-> n]
  <2>1. call[c].at = "pakUpdate" /\ call[c].at \in Registering
    BY <1>11, Zenon DEF PakUpdate, Registering
  <2>2. i \in Nat /\ i < nextID /\ own[i] = r.m /\ call[c].prior.mk = r.m
    BY <1>6, <2>1, Zenon DEF Claims
  <2>3. CASE i \in DOMAIN nodes
    <3>1. nodes' = [nodes EXCEPT ![i] = n] /\ Goto(c, f)
      BY <1>11, <2>3, Zenon DEF PakUpdate
    <3>2. IsRow(nodes[i]) /\ nodes[i].mk = own[i]
      BY <1>1, <1>4, <2>3, Zenon DEF NodeInv, Agrees
    <3>3. n.mk = nodes[i].mk
      BY <3>2, ReregisteredMachine, Zenon
    <3> HIDE DEF n
    <3>4. f.at = "pakSave" /\ f.req = r /\ f.id = i /\ f.prior = call[c].prior
      OBVIOUS
    <3> HIDE DEF f
    <3>5. Claims(f, own, nextID) /\ Inert(f, nodes')
      BY <2>2, <3>4, Zenon DEF Claims, Inert
    <3>6. ASSUME NEW j \in DOMAIN nodes'
          PROVE  Calm(j) \/ Other(j)
      <4>1. CASE j = i
        BY <2>1, <2>2, <2>3, <3>1, <3>2, <3>3, <4>1, ZenonT(30)
      <4>2. CASE j # i
        BY <3>1, <4>2, Zenon DEF Calm
      <4>3. QED
        BY <4>1, <4>2, Zenon
    <3>7. QED
      BY <1>5, <2>1, <3>1, <3>4, <3>5, <3>6, Zenon
  <2>4. CASE i \notin DOMAIN nodes
    BY <1>7, <1>8, <1>11, <2>4, CalmKept, Zenon DEF PakUpdate, Return
  <2>5. QED
    BY <2>3, <2>4, Zenon
<1>12. CASE PakSave(c)
  <2> DEFINE f == [at |-> "rollback", req |-> r, id |-> call[c].id, prior |-> call[c].prior]
             g == Registered(r, call[c].id, call[c].node)
  <2>1. call[c].at = "pakSave" /\ call[c].at \in Registering /\ UNCHANGED nodes
    BY <1>12, Zenon DEF PakSave, Registering
  <2>2. Goto(c, f) \/ Goto(c, g)
    BY <1>12, Zenon DEF PakSave
  <2>3. \A i \in DOMAIN nodes' : Calm(i)
    BY <2>1, CalmKept, Zenon
  <2>4. g.at \notin Registering
    BY RegisteredOver, Zenon
  <2>5. f.at = "rollback" /\ f.req = r /\ f.id = call[c].id /\ f.prior = call[c].prior
    OBVIOUS
  <2> HIDE DEF f, g
  <2>6. Claims(f, own, nextID) /\ Inert(f, nodes')
    BY <1>6, <2>1, <2>5, Zenon DEF Claims, Inert
  <2>7. CASE Goto(c, f)
    BY <1>5, <2>1, <2>3, <2>5, <2>6, <2>7, Zenon
  <2>8. CASE Goto(c, g)
    BY <1>7, <2>3, <2>4, <2>8, Zenon
  <2>9. QED
    BY <2>2, <2>7, <2>8, Zenon
<1>13. CASE PakRollback(c)
  <2> DEFINE i == call[c].id
  <2>1. /\ call[c].at = "rollback" /\ call[c].at \in Registering
        /\ nodes' = Put(nodes, i, call[c].prior) /\ Goto(c, Idle)
    BY <1>13, Zenon DEF PakRollback, Registering, Return
  <2>2. i \in Nat /\ i < nextID /\ own[i] = r.m /\ call[c].prior.mk = r.m
    BY <1>6, <2>1, Zenon DEF Claims
  <2>3. ASSUME NEW j \in DOMAIN nodes'
        PROVE  Calm(j) \/ Other(j)
    <3>1. CASE j = i
      BY <2>1, <2>2, <3>1, Zenon DEF Put
    <3>2. CASE j # i
      BY <2>1, <3>2, Zenon DEF Calm, Put
    <3>3. QED
      BY <3>1, <3>2, Zenon
  <2>4. QED
    BY <1>7, <1>8, <2>1, <2>3, Zenon
<1>14. QED
  BY <1>9, <1>10, <1>11, <1>12, <1>13, Zenon

\* A number that nobody holds yet may be given to any machine.
LEMMA ClaimsGrow ==
  ASSUME NEW f, NEW own, NEW new, NEW k \in Nat, Claims(f, own, k),
         \A i \in Nat : i # k => new[i] = own[i]
  PROVE  Claims(f, new, k + 1)
<1>1. ASSUME f.id \in Nat, f.id < k
      PROVE  f.id < k + 1 /\ new[f.id] = own[f.id]
  BY <1>1
<1>2. QED
  BY <1>1, Zenon DEF Claims

\* The frame of a row that was just inserted.
LEMMA ClaimsNew ==
  ASSUME NEW f, NEW new, NEW k \in Nat, f.at = "put", f.id = k, new[k] = f.req.m, f.node.mk = f.req.m
  PROVE  Claims(f, new, k + 1)
BY DEF Claims

\* A new node gets a new number, which is of its machine from then on.
LEMMA CreateClaims ==
  ASSUME EnrolInv, ClaimInv, NEW c \in Callers, Allocate(c) \/ Insert(c) \/ PutNew(c)
  PROVE  ClaimInv'
<1>1. CallInv /\ NodeInv
  BY DEF EnrolInv
<1>2. PICK own : Agrees(own)
  BY DEF ClaimInv
<1> DEFINE r == call[c].req
           n == call[c].node
<1>3. call[c].at \in CreateSteps /\ call[c].at \in Registering
  BY Zenon DEF Allocate, Insert, PutNew, CreateSteps, Registering
<1>4. n.mk = r.m /\ IsRow(n) /\ nextID \in Nat
  BY <1>1, <1>2, <1>3, Somewhere, Zenon DEF Agrees, Claims, IsFrame, CreateSteps, NodeInv
<1>5. Idle.at \notin Registering
  BY DEF Idle, Registering
<1>6. CASE Allocate(c)
  <2>1. UNCHANGED <<nodes, rows, nextID>> /\ call[c].at = "allocate"
    BY <1>6, Zenon DEF Allocate, db
  <2>2. \/ Goto(c, Idle)
        \/ \E a \in Alloc4(alloc), b \in Alloc6(alloc) :
             Goto(c, [call[c] EXCEPT !.at = "insert", !.node.ip4 = a, !.node.ip6 = b])
    BY <1>6, Zenon DEF Allocate, Return
  <2>3. CASE Goto(c, Idle)
    BY <1>1, <1>5, <2>1, <2>3, CalmKept, Bystander, Zenon
  <2>4. ASSUME NEW a, NEW b, Goto(c, [call[c] EXCEPT !.at = "insert", !.node.ip4 = a, !.node.ip6 = b])
        PROVE  ClaimInv'
    <3> DEFINE m == [[n EXCEPT !.ip4 = a] EXCEPT !.ip6 = b]
               f == [call[c] EXCEPT !.at = "insert", !.node.ip4 = a, !.node.ip6 = b]
    <3>1. DOMAIN call[c] = {"at", "req", "pak", "node"}
      BY <1>1, <2>1, Somewhere, Zenon DEF IsFrame
    <3>2. f.at = "insert" /\ f.req = r /\ f.node = m
      BY <3>1, Zenon
    <3>3. m.mk = n.mk
      BY <1>4 DEF IsRow, Columns
    <3>4. Goto(c, f)
      BY <2>4
    <3> HIDE DEF m, f
    <3>5. Claims(f, own, nextID) /\ Inert(f, nodes')
      BY <1>4, <3>2, <3>3, Zenon DEF Claims, Inert
    <3>6. LockInv' /\ SkipInv' /\ Agrees(own)'
      BY <1>1, <1>2, <1>3, <2>1, <3>2, <3>4, <3>5, CalmKept, Serialised, Zenon DEF ClaimInv
    <3>7. QED
      BY <3>6 DEF ClaimInv
  <2>5. QED
    BY <2>2, <2>3, <2>4, Zenon
<1>7. CASE Insert(c)
  <2> DEFINE f == [at |-> "put", req |-> r, id |-> nextID, node |-> n]
  <2>1. \/ rows' = Put(rows, nextID, n) /\ nextID' = nextID + 1 /\ Goto(c, f)
        \/ Goto(c, Idle) /\ UNCHANGED <<rows, nextID>>
    BY <1>7, Zenon DEF Insert, Return
  <2>2. UNCHANGED nodes
    BY <1>7, Zenon DEF Insert
  <2>3. CASE Goto(c, Idle) /\ UNCHANGED <<rows, nextID>>
    BY <1>1, <1>5, <2>2, <2>3, CalmKept, Bystander, ZenonT(30)
  <2>4. CASE rows' = Put(rows, nextID, n) /\ nextID' = nextID + 1 /\ Goto(c, f)
    <3>1. f.at = "put" /\ f.req = r /\ f.id = nextID /\ f.node = n
      BY Zenon
    <3> HIDE DEF f
    <3>2. \A d \in Callers : call'[d] = IF d = c THEN f ELSE call[d]
      BY <1>1, <2>4, Zenon DEF Goto, CallInv
    <3>3. PICK new : DOMAIN new = Nat /\ new[nextID] = r.m /\ \A i \in Nat : i # nextID => new[i] = own[i]
      <4> DEFINE g == [own EXCEPT ![nextID] = r.m]
      <4>1. DOMAIN g = Nat /\ g[nextID] = r.m /\ \A i \in Nat : i # nextID => g[i] = own[i]
        BY <1>2, <1>4, Zenon DEF Agrees
      <4> HIDE DEF g
      <4>2. QED
        BY <4>1, Zenon
    <3>4. LockInv'
      <4>1. \A d \in Callers : call'[d].at \in Registering =>
              call[d].at \in Registering /\ call'[d].req = call[d].req
        BY <1>3, <3>1, <3>2, Zenon
      <4>2. QED
        BY <4>1, Zenon DEF ClaimInv, LockInv
    <3>5. SkipInv'
      BY <2>2, <3>1, <3>2, Zenon DEF ClaimInv, SkipInv, Inert
    <3>6. \A i \in DOMAIN rows' : i < nextID'
      <4>1. DOMAIN rows' = DOMAIN rows \cup {nextID}
        BY <2>4, PutDomain, Zenon
      <4>2. \A i \in DOMAIN rows : i \in Nat /\ i < nextID
        BY <1>1, <1>2, Zenon DEF Agrees, NodeInv
      <4>3. nextID' = nextID + 1 /\ nextID \in Nat
        BY <1>4, <2>4, Zenon
      <4>4. QED
        BY <4>1, <4>2, <4>3
    <3>7. \A i \in DOMAIN nodes' : i \in Nat /\ i < nextID' /\ nodes'[i].mk = new[i]
      <4>1. nextID' = nextID + 1 /\ nextID \in Nat /\ nodes' = nodes
        BY <1>4, <2>2, <2>4, Zenon
      <4>2. ASSUME NEW i \in DOMAIN nodes
            PROVE  i \in Nat /\ i < nextID /\ nodes[i].mk = own[i]
        BY <1>2, Zenon DEF Agrees
      <4>3. ASSUME NEW i \in DOMAIN nodes
            PROVE  i < nextID' /\ new[i] = own[i]
        <5>1. i \in Nat /\ i < nextID
          BY <4>2, Zenon
        <5>2. i < nextID' /\ i # nextID
          BY <4>1, <5>1
        <5>3. QED
          BY <3>3, <5>1, <5>2, Zenon
      <4>4. QED
        BY <4>1, <4>2, <4>3, Zenon
    <3>8. ASSUME NEW d \in Callers
          PROVE  Claims(call'[d], new, nextID')
      <4>1. CASE d = c
        <5>1. call'[d] = f
          BY <3>2, <4>1, Zenon
        <5>2. nextID' = nextID + 1 /\ nextID \in Nat
          BY <1>4, <2>4, Zenon
        <5>3. new[nextID] = f.req.m /\ f.node.mk = f.req.m
          BY <1>4, <3>1, <3>3, Zenon
        <5>4. QED
          BY <3>1, <5>1, <5>2, <5>3, ClaimsNew, Zenon
      <4>2. CASE d # c
        <5>1. call'[d] = call[d] /\ Claims(call[d], own, nextID)
          BY <1>2, <3>2, <4>2, Zenon DEF Agrees
        <5>2. nextID' = nextID + 1 /\ nextID \in Nat
          BY <1>4, <2>4, Zenon
        <5>3. QED
          BY <3>3, <5>1, <5>2, ClaimsGrow, Zenon
      <4>3. QED
        BY <4>1, <4>2
    <3>9. Agrees(new)'
      BY <3>3, <3>6, <3>7, <3>8, Zenon DEF Agrees
    <3>10. QED
      BY <3>4, <3>5, <3>9, Zenon DEF ClaimInv
  <2>5. QED
    BY <2>1, <2>3, <2>4, Zenon
<1>8. CASE PutNew(c)
  <2> DEFINE i == call[c].id
             f == Registered(r, i, n)
  <2>1. /\ nodes' = Put(nodes, i, n) /\ Goto(c, f) /\ UNCHANGED <<rows, nextID>> /\ call[c].at = "put"
    BY <1>8, Zenon DEF PutNew, db
  <2>2. i \in Nat /\ i < nextID /\ own[i] = r.m
    BY <1>2, <2>1, Zenon DEF Agrees, Claims
  <2>3. f.at \notin Registering
    BY RegisteredOver
  <2> HIDE DEF f
  <2>4. Claims(f, own, nextID) /\ Inert(f, nodes')
    BY <2>3, Zenon DEF Claims, Inert, Registering
  <2>5. ASSUME NEW j \in DOMAIN nodes'
        PROVE  \/ Calm(j)
               \/ /\ call[c].at \in Registering /\ own[j] = call[c].req.m
                  /\ j \in Nat /\ j < nextID /\ nodes'[j].mk = own[j]
    <3>1. CASE j = i
      BY <1>3, <1>4, <2>1, <2>2, <3>1, Zenon DEF Put
    <3>2. CASE j # i
      BY <2>1, <3>2, Zenon DEF Calm, Put
    <3>3. QED
      BY <3>1, <3>2, Zenon
  <2>6. LockInv' /\ SkipInv' /\ Agrees(own)'
    BY <1>1, <1>2, <2>1, <2>3, <2>4, <2>5, Serialised, Zenon DEF ClaimInv
  <2>7. QED
    BY <2>6 DEF ClaimInv
<1>9. QED
  BY <1>6, <1>7, <1>8, Zenon

\* A login re-registers a node of its machine.
LEMMA AuthClaims ==
  ASSUME EnrolInv, ClaimInv, NEW c \in Callers, AuthStart(c) \/ AuthFind(c) \/ AuthUpdate(c) \/ AuthSave(c)
  PROVE  ClaimInv'
<1>1. CallInv /\ NodeInv
  BY DEF EnrolInv
<1>2. nextID' = nextID /\ nextID \in Nat
  BY <1>1, Zenon DEF AuthStart, AuthFind, AuthUpdate, AuthSave, db, NodeInv
<1>3. DOMAIN rows' \subseteq DOMAIN rows
  BY Zenon DEF AuthStart, AuthFind, AuthUpdate, AuthSave, db
<1>4. PICK own : Agrees(own)
  BY DEF ClaimInv
<1> DEFINE r == call[c].req
           Other(i) == /\ call[c].at \in Registering /\ own[i] = r.m
                       /\ i \in Nat /\ i < nextID /\ nodes'[i].mk = own[i]
<1>5. ASSUME NEW f, Goto(c, f), Claims(f, own, nextID), Inert(f, nodes'),
             f.at \in Registering =>
               (call[c].at \in Registering /\ f.req.m = r.m) \/ lockRegistration(f.req.m),
             \A i \in DOMAIN nodes' : Calm(i) \/ Other(i)
      PROVE  ClaimInv'
  <2>1. LockInv' /\ SkipInv' /\ Agrees(own)'
    BY <1>1, <1>2, <1>3, <1>4, <1>5, Serialised, Zenon DEF ClaimInv
  <2>2. QED
    BY <2>1 DEF ClaimInv
<1>6. Claims(call[c], own, nextID)
  BY <1>4, Zenon DEF Agrees
<1>7. ASSUME NEW f, Goto(c, f), f.at \notin Registering, \A i \in DOMAIN nodes' : Calm(i)
      PROVE  ClaimInv'
  BY <1>1, <1>2, <1>3, <1>7, Bystander, Zenon
<1>8. Idle.at \notin Registering
  BY DEF Idle, Registering
<1>9. CASE AuthStart(c)
  <2>1. PICK q \in Ask(c, "auth") : lockRegistration(q.m) /\ Goto(c, [at |-> "authFind", req |-> q])
    BY <1>9, Zenon DEF AuthStart
  <2> DEFINE f == [at |-> "authFind", req |-> q]
  <2>2. f.at = "authFind" /\ f.req = q /\ Goto(c, f)
    BY <2>1
  <2> HIDE DEF f
  <2>3. Claims(f, own, nextID) /\ Inert(f, nodes')
    BY <2>2, Zenon DEF Claims, Inert
  <2>4. \A i \in DOMAIN nodes' : Calm(i)
    BY <1>9, CalmKept, Zenon DEF AuthStart
  <2>5. QED
    BY <1>5, <2>1, <2>2, <2>3, <2>4, Zenon
<1>10. CASE AuthFind(c)
  <2> DEFINE found == findExistingNodeForAuth(nodes, r.m, r.user)
             new == createNewNodeFromAuth(r)
             old(i) == [at |-> "authUpdate", req |-> r, id |-> i]
  <2>1. UNCHANGED nodes /\ call[c].at = "authFind" /\ call[c].at \in Registering
    BY <1>10 DEF AuthFind, Registering
  <2>2. \A i \in DOMAIN nodes' : Calm(i)
    BY <2>1, CalmKept, Zenon
  <2>3. r \in Requests /\ r.op = "auth"
    BY <1>1, <2>1, Somewhere, Zenon DEF IsFrame, AuthSteps
  <2>4. Goto(c, Idle) \/ Goto(c, new) \/ \E i \in found : Goto(c, old(i))
    <3>1. CASE ambiguousForAuth(nodes, r.m)
      BY <1>10, <3>1, Zenon DEF AuthFind, Return
    <3>2. CASE ~ambiguousForAuth(nodes, r.m) /\ found = {}
      BY <1>10, <3>2, Zenon DEF AuthFind
    <3>3. CASE ~ambiguousForAuth(nodes, r.m) /\ found # {}
      BY <1>10, <3>3, Zenon DEF AuthFind
    <3>4. QED
      BY <3>1, <3>2, <3>3, Zenon
  <2>5. CASE Goto(c, Idle)
    BY <1>7, <1>8, <2>2, <2>5, Zenon
  <2>6. CASE Goto(c, new)
    <3>1. newNode(r, now).mk = r.m
      BY <2>3, NewNodeFacts
    <3> DEFINE g == [at |-> "allocate", req |-> r, pak |-> [exists |-> FALSE], node |-> newNode(r, now)]
    <3>2. g.at = "allocate" /\ g.req = r /\ g.node.mk = r.m /\ (new = g \/ new = Idle)
      BY <3>1, Zenon DEF createNewNodeFromAuth, Create
    <3> HIDE DEF g, new
    <3>3. CASE new = Idle
      BY <1>7, <1>8, <2>2, <2>6, <3>3, Zenon
    <3>4. CASE new = g
      <4>1. Claims(g, own, nextID) /\ Inert(g, nodes')
        BY <3>2, Zenon DEF Claims, Inert
      <4>2. QED
        BY <1>5, <2>1, <2>2, <2>6, <3>2, <3>4, <4>1, Zenon
    <3>5. QED
      BY <3>2, <3>3, <3>4, Zenon
  <2>7. ASSUME NEW i \in found, Goto(c, old(i))
        PROVE  ClaimInv'
    <3> DEFINE f == old(i)
    <3>1. i \in DOMAIN nodes /\ nodes[i].mk = r.m
      BY <2>7, FoundIn, ZenonT(30)
    <3>2. f.at = "authUpdate" /\ f.req = r /\ f.id = i /\ Goto(c, f)
      BY <2>7
    <3> HIDE DEF f
    <3>3. Claims(f, own, nextID) /\ Inert(f, nodes')
      BY <1>4, <3>1, <3>2, Zenon DEF Claims, Agrees, Inert
    <3>4. QED
      BY <1>5, <2>1, <2>2, <3>2, <3>3, Zenon
  <2> HIDE DEF new, found, old
  <2>8. QED
    BY <2>4, <2>5, <2>6, <2>7, Zenon
<1>11. CASE AuthUpdate(c)
  <2> DEFINE i == call[c].id
             n == reauthorised(nodes[i], r, now)
             f == [at |-> "authSave", req |-> r, id |-> i, node |-> n]
  <2>1. call[c].at = "authUpdate" /\ call[c].at \in Registering
    BY <1>11, Zenon DEF AuthUpdate, Registering
  <2>2. i \in Nat /\ i < nextID /\ own[i] = r.m
    BY <1>6, <2>1, Zenon DEF Claims
  <2>3. r \in Requests /\ r.op = "auth"
    BY <1>1, <2>1, Somewhere, Zenon DEF IsFrame, AuthSteps
  <2>4. CASE i \in DOMAIN nodes
    <3>1. nodes' = [nodes EXCEPT ![i] = n] /\ Goto(c, f)
      BY <1>11, <2>4, Zenon DEF AuthUpdate
    <3>2. IsRow(nodes[i]) /\ nodes[i].mk = own[i] /\ r.user # 0
      BY <1>1, <1>4, <2>3, <2>4, EnrolmentAssumption, RegistryAssumption, Zenon DEF NodeInv, Agrees
    <3>3. n.mk = nodes[i].mk
      BY <3>2, ReauthorisedFacts, ZenonT(30)
    <3> HIDE DEF n
    <3>4. f.at = "authSave" /\ f.req = r /\ f.id = i
      OBVIOUS
    <3> HIDE DEF f
    <3>5. Claims(f, own, nextID) /\ Inert(f, nodes')
      BY <2>2, <3>4, Zenon DEF Claims, Inert
    <3>6. ASSUME NEW j \in DOMAIN nodes'
          PROVE  Calm(j) \/ Other(j)
      <4>1. CASE j = i
        BY <2>1, <2>2, <2>4, <3>1, <3>2, <3>3, <4>1, Zenon
      <4>2. CASE j # i
        BY <3>1, <4>2, Zenon DEF Calm
      <4>3. QED
        BY <4>1, <4>2, Zenon
    <3>7. QED
      BY <1>5, <2>1, <3>1, <3>4, <3>5, <3>6, Zenon
  <2>5. CASE i \notin DOMAIN nodes
    BY <1>7, <1>8, <1>11, <2>5, CalmKept, Zenon DEF AuthUpdate, Return
  <2>6. QED
    BY <2>4, <2>5, Zenon
<1>12. CASE AuthSave(c)
  <2> DEFINE g == Registered(r, call[c].id, call[c].node)
  <2>1. Goto(c, Idle) \/ Goto(c, g)
    BY <1>12, Zenon DEF AuthSave, Return
  <2>2. \A i \in DOMAIN nodes' : Calm(i)
    BY <1>12, CalmKept, Zenon DEF AuthSave
  <2>3. g.at \notin Registering
    BY RegisteredOver
  <2> HIDE DEF g
  <2>4. QED
    BY <1>7, <1>8, <2>1, <2>2, <2>3, Zenon
<1>13. QED
  BY <1>9, <1>10, <1>11, <1>12, Zenon

\* Keys, users, the clock and a restart, after which the numbers are told
\* apart by the table.
LEMMA AdminClaims ==
  ASSUME EnrolInv, ClaimInv,
         ExpirePreAuthKey \/ DestroyPreAuthKey \/ DestroyUser \/ Tick \/ Restart \/ UNCHANGED vars
  PROVE  ClaimInv'
<1>1. CASE Restart
  <2> DEFINE own == [i \in Nat |-> rows[i].mk]
  <2>1. nodes' = rows /\ call' = [c \in Callers |-> Idle] /\ UNCHANGED <<rows, nextID>>
    BY <1>1, Zenon DEF Restart, db
  <2>2. \A c \in Callers : call'[c].at = "idle"
    BY <2>1, Zenon DEF Idle
  <2>3. LockInv' /\ SkipInv'
    BY <2>2, Zenon DEF LockInv, SkipInv, Inert, Registering
  <2>4. \A i \in DOMAIN rows : i \in Nat /\ i < nextID
    BY Zenon DEF EnrolInv, NodeInv, ClaimInv, Agrees
  <2>5. Agrees(own)'
    BY <2>1, <2>2, <2>4, Zenon DEF Agrees, Claims
  <2>6. QED
    BY <2>3, <2>5, Zenon DEF ClaimInv
<1>2. CASE ~Restart
  <2>1. UNCHANGED <<nodes, nextID, call>> /\ DOMAIN rows' = DOMAIN rows
    BY <1>2, Zenon DEF ExpirePreAuthKey, DestroyPreAuthKey, DestroyUser, Destroy, Administered, Tick, vars, db
  <2>2. PICK own : Agrees(own)
    BY Zenon DEF ClaimInv
  <2>3. Agrees(own)'
    BY <2>1, <2>2, Zenon DEF Agrees
  <2>4. LockInv' /\ SkipInv'
    BY <2>1 DEF ClaimInv, LockInv, SkipInv
  <2>5. QED
    BY <2>3, <2>4 DEF ClaimInv
<1>3. QED
  BY <1>1, <1>2

\* The first state.
LEMMA InitClaims == Init => ClaimInv
<1> SUFFICES ASSUME Init PROVE ClaimInv
  OBVIOUS
<1> DEFINE own == [i \in Nat |-> InitRows[i].mk]
           k == Cardinality(DOMAIN InitRows)
<1>1. \A c \in Callers : call[c].at = "idle"
  BY Zenon DEF Init, Idle
<1>2. LockInv /\ SkipInv
  BY <1>1, Zenon DEF LockInv, SkipInv, Inert, Registering
<1>3. k \in Nat
  BY EnrolmentAssumption, FS_CardinalityType, Zenon
<1> HIDE DEF k
<1>4. nodes = InitRows /\ rows = InitRows /\ nextID = k + 1
  BY Zenon DEF Init, k
<1>5. \A i \in DOMAIN InitRows : i \in 1..k
  BY EnrolmentAssumption, Zenon DEF k
<1>6. \A i \in DOMAIN InitRows : i \in Nat /\ i < nextID
  BY <1>3, <1>4, <1>5
<1>7. Agrees(own)
  BY <1>1, <1>4, <1>6, Zenon DEF Agrees, Claims
<1>8. QED
  BY <1>2, <1>7, Zenon DEF ClaimInv

\* Without backfills every step keeps the invariant.
LEMMA NextClaims ==
  ASSUME \A r \in Requests : r.op # "backfill", EnrolInv, ClaimInv, [Next]_vars
  PROVE  ClaimInv'
<1>1. ASSUME NEW c \in Callers
      PROVE  ~(BackfillStart(c) \/ BackfillRow(c) \/ BackfillCommit(c) \/ BackfillList(c) \/ BackfillPut(c))
  <2>1. ~BackfillStart(c)
    BY Asking, Zenon DEF BackfillStart
  <2>2. call[c].at \notin {"backfill", "backfillList", "backfillPut"}
    BY Somewhere, Zenon DEF EnrolInv, IsFrame
  <2>3. QED
    BY <2>1, <2>2, Zenon DEF BackfillRow, BackfillCommit, BackfillList, BackfillPut
<1>2. ASSUME NEW c \in Callers, Start(c) \/ Step(c)
      PROVE  ClaimInv'
  BY <1>1, <1>2, StoringClaims, RemovingClaims, PakClaims, CreateClaims, AuthClaims, Zenon DEF Start, Step
<1>3. QED
  BY <1>2, AdminClaims DEF Next

\* A handler that is at the update of a re-registration takes no other step.
LEMMA OnlyUpdate ==
  ASSUME EnrolInv, [Next]_vars, NEW c \in Callers, call[c].at = "pakUpdate", call'[c].at = "pakSave"
  PROVE  PakUpdate(c)
<1>1. ASSUME NEW d \in Callers, Start(d) \/ Step(d)
      PROVE  \A b \in Callers : b # d => call'[b] = call[b]
  <2>1. \A f : Goto(d, f) => \A b \in Callers : b # d => call'[b] = call[b]
    BY DEF Goto, EnrolInv, CallInv
  <2>2. \E f : Goto(d, f)
    <3>1. CASE Start(d)
      BY <3>1, Zenon DEF Start, SetNodeTags, SetApprovedRoutes, UpdateNodeFromMapRequest, SetNodeExpiry,
                  ExpireStore, DeleteNode, handleLogout, PakRead, AuthStart, BackfillStart
    <3>2. CASE \/ PersistRead(d) \/ PersistWrite(d) \/ Approve(d) \/ LogoutExpire(d) \/ ExpireSave(d)
               \/ DeleteRow(d) \/ DeleteStore(d) \/ DeleteFree(d)
      BY <3>2 DEF PersistRead, PersistWrite, Approve, LogoutExpire, ExpireSave, ExpireStore, DeleteRow,
                  DeleteStore, DeleteFree, Return
    <3>3. CASE PakFind(d) \/ AuthFind(d)
      BY <3>3, Zenon DEF PakFind, AuthFind, Return
    <3>4. CASE PakUpdate(d) \/ PakSave(d) \/ PakRollback(d) \/ AuthUpdate(d) \/ AuthSave(d)
      BY <3>4, Zenon DEF PakUpdate, PakSave, PakRollback, AuthUpdate, AuthSave, Return
    <3>5. CASE Allocate(d) \/ Insert(d) \/ PutNew(d)
      BY <3>5, Zenon DEF Allocate, Insert, PutNew, Return
    <3>6. CASE BackfillRow(d) \/ BackfillCommit(d) \/ BackfillList(d) \/ BackfillPut(d)
      BY <3>6, Zenon DEF BackfillRow, BackfillCommit, BackfillList, BackfillPut, Return
    <3>7. QED
      BY <1>1, <3>1, <3>2, <3>3, <3>4, <3>5, <3>6, Zenon DEF Step
  <2>3. QED
    BY <2>1, <2>2, Zenon
<1>2. ASSUME Start(c) PROVE FALSE
  BY <1>2, Asking, Zenon DEF Start, SetNodeTags, SetApprovedRoutes, UpdateNodeFromMapRequest, SetNodeExpiry,
                      DeleteNode, handleLogout, PakRead, AuthStart, BackfillStart
<1>3. ASSUME Step(c) PROVE PakUpdate(c)
  BY <1>3, Zenon DEF Step, PersistRead, PersistWrite, Approve, LogoutExpire, ExpireSave, DeleteRow, DeleteStore,
              DeleteFree, PakFind, PakSave, PakRollback, Allocate, Insert, PutNew, AuthFind, AuthUpdate,
              AuthSave, BackfillRow, BackfillCommit, BackfillList, BackfillPut
<1>4. ASSUME ExpirePreAuthKey \/ DestroyPreAuthKey \/ DestroyUser \/ Tick \/ Restart \/ UNCHANGED vars
      PROVE  FALSE
  <2>1. UNCHANGED call \/ call' = [d \in Callers |-> Idle]
    BY <1>4, Zenon DEF ExpirePreAuthKey, DestroyPreAuthKey, DestroyUser, Administered, Tick, Restart, vars
  <2>2. QED
    BY <2>1 DEF Idle
<1>5. QED
  BY <1>1, <1>2, <1>3, <1>4, Zenon DEF Next

\* The invariants hold throughout.
LEMMA ClaimsHold ==
  ASSUME \A r \in Requests : r.op # "backfill"
  PROVE  Spec => [](EnrolInv /\ ClaimInv)
<1>1. (EnrolInv /\ ClaimInv) /\ [Next]_vars => (EnrolInv /\ ClaimInv)'
  BY NextEnrol, NextClaims
<1>2. Init => EnrolInv /\ ClaimInv
  BY InitEnrol, InitClaims
<1>3. QED
  BY <1>1, <1>2, PTL DEF Spec

(* A key that is spent or expired lets a machine come back as it was and    *)
(* changes nothing (the skip-validation path of HandleNodeFromPreAuthKey),  *)
(* whatever happened to the node since the registration found it, as long   *)
(* as no backfill puts old rows into the store.                             *)
THEOREM InvalidKeysStayInert ==
  ASSUME \A r \in Requests : r.op # "backfill"
  PROVE  Spec => InvalidKeysChangeNothing
<1>1. EnrolInv /\ ClaimInv /\ [Next]_vars => InvalidKeyStep
  <2>0. SUFFICES ASSUME EnrolInv, ClaimInv, [Next]_vars, NEW c \in Callers, call[c].at = "pakUpdate",
                        call'[c].at = "pakSave", ~Valid(call[c].req.key, call[c].pak)
                 PROVE  LET i == call[c].id
                        IN  /\ nodes'[i].nk = call[c].prior.nk
                            /\ nodes'[i].tags = nodes[i].tags
                            /\ nodes'[i].user = nodes[i].user
    BY Zenon DEF InvalidKeyStep
  <2> DEFINE i == call[c].id
             r == call[c].req
             n == reregistered(nodes[i], r, now)
  <2>1. PakUpdate(c)
    BY <2>0, OnlyUpdate, Zenon
  <2>2. i \in DOMAIN nodes
    <3>1. i \notin DOMAIN nodes => Goto(c, Idle)
      BY <2>1, Zenon DEF PakUpdate, Return
    <3>2. Goto(c, Idle) => call'[c].at = "idle"
      BY <2>0 DEF Goto, Idle, EnrolInv, CallInv
    <3>3. QED
      BY <2>0, <3>1, <3>2
  <2>3. nodes' = [nodes EXCEPT ![i] = n]
    BY <2>1, <2>2, Zenon DEF PakUpdate
  <2>4. call[c].prior.nk = r.nk
    BY <2>0, <2>2, Zenon DEF ClaimInv, SkipInv, Inert
  <2>5. KeyOf[r.key].tags = {} \/ (IsTagged(nodes[i]) /\ nodes[i].ak = r.key)
    BY <2>0, <2>2, Zenon DEF ClaimInv, SkipInv, Inert
  <2>6. IsRow(nodes[i])
    BY <2>0, <2>2, Zenon DEF EnrolInv, NodeInv
  <2>7. n.nk = r.nk /\ n.tags = nodes[i].tags /\ n.user = nodes[i].user
    <3> HIDE DEF i, r
    <3>1. n.nk = r.nk
      BY <2>6, ReregisteredKey, ZenonT(30)
    <3>2. n.tags = nodes[i].tags
      BY <2>5, <2>6, ReregisteredTags, Zenon
    <3>3. n.user = nodes[i].user
      BY <2>5, <2>6, ReregisteredOwner, Zenon
    <3> HIDE DEF n
    <3>4. QED
      BY <3>1, <3>2, <3>3, Zenon
  <2> HIDE DEF n
  <2>8. QED
    BY <2>2, <2>3, <2>4, <2>7, Zenon
<1>2. QED
  BY <1>1, ClaimsHold, PTL DEF Spec, InvalidKeysChangeNothing
================================================================================
