------------------------------- MODULE Registry -------------------------------
(***************************************************************************)
(* What registration decides and computes: the node row, pre-auth keys,    *)
(* the address allocator of hscontrol/db/ip.go and the closures with which *)
(* hscontrol/state/state.go turns a registration into a node.              *)
(*                                                                         *)
(* 0 stands for Go's nil: no user, no auth key, no address, no expiry.     *)
(***************************************************************************)
EXTENDS Integers, FiniteSets

CONSTANTS
  Machines,       \* machine keys
  NodeKeys,       \* node keys; a client draws a fresh one to rotate
  Users,          \* user IDs, positive
  Tags,
  Routes,         \* prefixes a node may announce
  KeyIDs,         \* pre-auth key IDs, positive
  KeyOf,          \* per key: user, tags, reusable, ephemeral
  TagOwners,      \* per tag, the users the policy lets hand it out
  AutoRoutes,     \* routes the policy approves by itself
  DefaultExpiry,  \* node.expiry of the configuration, 0 when unset
  Last4, Last6,   \* the broadcast address of each prefix; the network is 1
  ReservedIPs,    \* addresses isTailscaleReservedIP keeps back
  Strategy        \* "sequential" or "random"

ASSUME RegistryAssumption ==
  /\ Users \subseteq Nat \ {0}
  /\ KeyIDs \subseteq Nat \ {0}
  /\ \A k \in KeyIDs :
       /\ KeyOf[k].user \in Users \cup {0}
       /\ KeyOf[k].tags \subseteq Tags
       /\ KeyOf[k].user # 0 \/ KeyOf[k].tags # {}
  /\ \A t \in Tags : TagOwners[t] \subseteq Users
  /\ DefaultExpiry \in Nat
  /\ Last4 \in Nat \ {0, 1} /\ Last6 \in Nat \ {0, 1}

(* types.Node, the persisted columns: machine and node key, owner, tags,    *)
(* expiry, the pre-auth key, announced and approved routes, the addresses.  *)
Node == [mk : Machines, nk : NodeKeys, user : Users \cup {0}, tags : SUBSET Tags,
         expiry : Nat, ak : KeyIDs \cup {0}, announced : SUBSET Routes,
         approved : SUBSET Routes, ip4 : 0..Last4, ip6 : 0..Last6]

IsTagged(n) == n.tags # {}

IsExpired(n, now) == n.expiry # 0 /\ n.expiry <= now

IsEphemeral(n) == n.ak # 0 /\ KeyOf[n.ak].ephemeral

(* validateNodeOwnership: tags or a user, never both and never neither.     *)
validateNodeOwnership(n) == IsTagged(n) <=> n.user = 0

-------------------------------------------------------------------------------
(* IPAllocator: per family the addresses in use and the last one given out. *)

IPs(n) == [v4 |-> n.ip4, v6 |-> n.ip6]

(* NewIPAllocator: the ends of each prefix and every address in the rows.   *)
NewIPAllocator_Nil(rows) ==
  [used4 |-> {1, Last4} \cup {rows[i].ip4 : i \in DOMAIN rows}, prev4 |-> 1,
   used6 |-> {1, Last6} \cup {rows[i].ip6 : i \in DOMAIN rows}, prev6 |-> 1]

NewIPAllocator(rows) ==
  [used4 |-> {1, Last4} \cup ({rows[i].ip4 : i \in DOMAIN rows} \ {0}), prev4 |-> 1,
   used6 |-> {1, Last6} \cup ({rows[i].ip6 : i \in DOMAIN rows} \ {0}), prev6 |-> 1]

(* The addresses next may return, none when the walk finds the prefix       *)
(* exhausted.  The sequential walk starts behind prev and stops at the end; *)
(* the random one starts anywhere but at the last address and wraps.        *)
next_Reuses(prev, last, used) ==
  IF prev < last THEN {prev + 1} ELSE {}

next(prev, last, used) ==
  LET free == 1..last \ (used \cup ReservedIPs)
      ahead == {a \in free : a > prev}
      Distance(from, a) == (a - from) % last
  IN  IF Strategy = "sequential"
        THEN {a \in ahead : \A b \in ahead : a <= b}
        ELSE {a \in free : \E s \in 1..(last - 1) : \A b \in free : Distance(s, a) <= Distance(s, b)}

Take4(alloc, a) == [alloc EXCEPT !.used4 = @ \cup {a}, !.prev4 = a]

Take6(alloc, a) == [alloc EXCEPT !.used6 = @ \cup {a}, !.prev6 = a]

Alloc4(alloc) == next(alloc.prev4, Last4, alloc.used4)

Alloc6(alloc) == next(alloc.prev6, Last6, alloc.used6)

FreeIPs(alloc, ips) ==
  [alloc EXCEPT !.used4 = @ \ {ips.v4}, !.used6 = @ \ {ips.v6}]

-------------------------------------------------------------------------------
(* Pre-auth keys.  A key read from the database is its row and its ID.      *)

KeyRow == [exists : BOOLEAN, used : BOOLEAN, expired : BOOLEAN]

Valid(k, row) == ~row.expired /\ (KeyOf[k].reusable \/ ~row.used)

(* UsePreAuthKey: compare-and-set on the used column.                       *)
UsePreAuthKey_NoCheck(row) == TRUE

UsePreAuthKey(row) == row.exists /\ ~row.used

-------------------------------------------------------------------------------
(* Who may hold which tag, and which routes the policy approves.            *)

NodeCanHaveTag(n, t) == n.user \in TagOwners[t]

UserCanHaveTag(u, t) == u \in TagOwners[t]

validateRequestTags(n, tags) == \A t \in tags : NodeCanHaveTag(n, t)

validateRequestTagsForReauth(n, u, tags) ==
  \A t \in tags : NodeCanHaveTag(n, t) \/ UserCanHaveTag(u, t)

ApproveRoutesWithPolicy(n) == n.approved \cup (n.announced \cap AutoRoutes)

-------------------------------------------------------------------------------
(* Finding the node of a machine.  NodeStore indexes one machine's nodes by *)
(* owner, tagged nodes under 0; of two under one index an arbitrary one is  *)
(* found, so these are the nodes a lookup may return.                       *)

OwnNodes(nodes, m, u) == {i \in DOMAIN nodes : nodes[i].mk = m /\ nodes[i].user = u}

TaggedNodes(nodes, m) == {i \in OwnNodes(nodes, m, 0) : IsTagged(nodes[i])}

UserNodes(nodes, m) == {i \in DOMAIN nodes : nodes[i].mk = m /\ nodes[i].user # 0}

findExistingNodeForPAK(nodes, m, k) ==
  LET own == OwnNodes(nodes, m, KeyOf[k].user)
      tagged == TaggedNodes(nodes, m)
  IN  CASE KeyOf[k].user # 0 /\ own # {} -> own
        [] KeyOf[k].user # 0 /\ own = {} -> tagged
        [] KeyOf[k].user = 0 /\ tagged # {} -> tagged
        [] OTHER -> UserNodes(nodes, m)

ambiguousForPAK(nodes, m, k) ==
  /\ KeyOf[k].user = 0
  /\ TaggedNodes(nodes, m) = {}
  /\ Cardinality(UserNodes(nodes, m)) > 1

ambiguousForAuth(nodes, m) == TaggedNodes(nodes, m) # {} /\ UserNodes(nodes, m) # {}

findExistingNodeForAuth(nodes, m, u) ==
  IF OwnNodes(nodes, m, u) # {} THEN OwnNodes(nodes, m, u) ELSE TaggedNodes(nodes, m)

(* HandleNodeFromPreAuthKey: the key of a machine that comes back under the *)
(* node key it had is not validated, unless the node expired or the key     *)
(* would change who owns it.                                                *)
isRetag(n, k) == KeyOf[k].tags # {} /\ IsTagged(n) /\ n.ak # k

isOwnershipConversion(n, k) == KeyOf[k].tags # {} /\ ~IsTagged(n)

skipsValidation_NoRetag(n, req, now) ==
  /\ n.nk = req.nk
  /\ ~(~IsTagged(n) /\ IsExpired(n, now))
  /\ ~isOwnershipConversion(n, req.key)

skipsValidation(n, req, now) ==
  /\ n.nk = req.nk
  /\ ~(~IsTagged(n) /\ IsExpired(n, now))
  /\ ~isOwnershipConversion(n, req.key)
  /\ ~isRetag(n, req.key)

-------------------------------------------------------------------------------
(* What a registration writes.                                              *)

ExpiryOf(req, now) ==
  CASE req.expiry # 0 -> req.expiry
    [] req.expiry = 0 /\ DefaultExpiry > 0 -> now + DefaultExpiry
    [] OTHER -> 0

(* The UpdateNode closure of HandleNodeFromPreAuthKey.                      *)
reregistered(n, req, now) ==
  LET key == KeyOf[req.key]
      retags == key.tags # {} /\ (~IsTagged(n) \/ n.ak # req.key)
      owned == IF retags
                 THEN [n EXCEPT !.tags = key.tags, !.user = 0,
                                !.expiry = IF ~IsTagged(n) \/ IsExpired(n, now) THEN 0 ELSE @]
                 ELSE n
  IN  [owned EXCEPT !.nk = req.nk, !.ak = req.key, !.announced = req.announced,
                    !.expiry = CASE ~IsTagged(owned) -> ExpiryOf(req, now)
                                 [] IsTagged(owned) /\ IsExpired(owned, now) -> 0
                                 [] OTHER -> @]

processReauthTags_KeepUser(n, req) ==
  CASE req.tags = {} /\ IsTagged(n) -> [n EXCEPT !.tags = {}, !.user = req.user, !.ak = 0]
    [] req.tags # {} /\ validateRequestTagsForReauth(n, req.user, req.tags) ->
         [n EXCEPT !.tags = req.tags]
    [] OTHER -> n

processReauthTags(n, req) ==
  CASE req.tags = {} /\ IsTagged(n) -> [n EXCEPT !.tags = {}, !.user = req.user, !.ak = 0]
    [] req.tags # {} /\ validateRequestTagsForReauth(n, req.user, req.tags) ->
         [n EXCEPT !.tags = req.tags, !.user = 0]
    [] OTHER -> n

(* The UpdateNode closure of applyAuthNodeUpdate.                           *)
reauthorised(n, req, now) ==
  LET owned == processReauthTags(n, req)
  IN  [owned EXCEPT !.nk = req.nk, !.announced = req.announced,
                    !.expiry = CASE ~IsTagged(owned) -> ExpiryOf(req, now)
                                 [] IsTagged(owned) /\ ~IsTagged(n) -> 0
                                 [] IsTagged(owned) /\ IsExpired(n, now) -> 0
                                 [] OTHER -> @]

(* createAndSaveNewNode, before it has addresses.                           *)
newNode(req, now) ==
  LET tags == IF req.op = "pak" THEN KeyOf[req.key].tags ELSE req.tags
      user == IF req.op = "pak" THEN KeyOf[req.key].user ELSE req.user
  IN  [mk |-> req.m, nk |-> req.nk, tags |-> tags, user |-> IF tags = {} THEN user ELSE 0,
       ak |-> IF req.op = "pak" THEN req.key ELSE 0, announced |-> req.announced,
       approved |-> {}, ip4 |-> 0, ip6 |-> 0,
       expiry |-> IF tags = {} THEN ExpiryOf(req, now) ELSE 0]

(* The tags a new node asks for: a pre-auth key brings its own, and of the  *)
(* others the owner must be allowed to hand out every one.                  *)
newNodeTagsRefused(req) ==
  \/ req.op = "pak" /\ req.tags # {}
  \/ req.op = "auth" /\ ~validateRequestTags([user |-> req.user], req.tags)

-------------------------------------------------------------------------------
(* UpdateNodeFromMapRequest, the part that is stored: a changed Hostinfo,   *)
(* and the approval that is written separately afterwards.                  *)

needsRouteApproval(n, announced) ==
  n.announced # announced /\ announced # {}

autoApproved(n, announced) ==
  ApproveRoutesWithPolicy([n EXCEPT !.announced = announced])
===============================================================================
