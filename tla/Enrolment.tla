------------------------------- MODULE Enrolment -------------------------------
(***************************************************************************)
(* Registration and the node table: hscontrol/state/state.go with the      *)
(* NodeStore, the database and the address allocator it keeps in step.     *)
(*                                                                         *)
(* Callers are the goroutines of HTTP and gRPC handlers.  A NodeStore      *)
(* operation is one step (the NodeStore module shows that it may be), and  *)
(* so is a database transaction.  Registrations hold a lock per machine    *)
(* key; persistNode and DeleteNode hold persistMu; expiry, re-registration *)
(* and the address backfill write their rows without it.  Any database     *)
(* write may fail, and the server may restart at any time.                 *)
(***************************************************************************)
EXTENDS Registry

CONSTANTS
  Callers,
  Requests,     \* what a caller may be asked to do
  InitRows,     \* the node table at start-up
  InitKeys,     \* the pre-auth key table at start-up
  MaxOps,       \* bound: requests in one behaviour
  MaxTime,      \* bound: clock ticks
  MaxFaults     \* bound: failing database writes and server restarts

ASSUME EnrolmentAssumption ==
  /\ \A r \in Requests :
       /\ r.op \in {"pak", "expireKey", "delKey"} => r.key \in KeyIDs
       /\ r.op = "auth" => r.user \in Users
       /\ r.op = "tags" => r.tags # {}      \* SetNodeTags refuses an empty list
  /\ InitKeys \in [KeyIDs -> KeyRow]
  /\ IsFiniteSet(DOMAIN InitRows)
  /\ DOMAIN InitRows \subseteq 1..Cardinality(DOMAIN InitRows)
  /\ \A i \in DOMAIN InitRows : InitRows[i] \in Node /\ validateNodeOwnership(InitRows[i])

VARIABLES
  nodes,     \* NodeStore
  rows,      \* the nodes table
  keys,      \* the pre_auth_keys table
  users,     \* the users table
  alloc,     \* IPAllocator
  call,      \* per caller, the handler it is in
  now,
  nextID,    \* the AUTOINCREMENT of the nodes table
  ops, faults,
  uses,      \* history: committed registrations that validated a key
  overlapped, \* history: nodes an unserialised write shared with another call
  unsaved    \* history: nodes whose change was kept although its row failed

db == <<rows, keys, users, nextID>>
history == <<uses, overlapped, unsaved>>
bounds == <<now, ops, faults>>
vars == <<nodes, db, alloc, call, bounds, history>>

IDs == 1..(Cardinality(DOMAIN InitRows) + MaxOps)

Idle == [at |-> "idle"]

Put(f, i, v) == [j \in DOMAIN f \cup {i} |-> IF j = i THEN v ELSE f[j]]

Drop(f, i) == [j \in DOMAIN f \ {i} |-> f[j]]

-------------------------------------------------------------------------------
(* Locks: a caller holds them while it is at these steps.                   *)

Registering_UntilCreate == {"pakFind", "pakUpdate", "pakSave", "rollback", "authFind",
                            "authUpdate", "authSave"}

Registering == {"pakFind", "pakUpdate", "pakSave", "rollback", "authFind", "authUpdate",
                "authSave", "allocate", "insert", "put"}

lockRegistration(m) ==
  \A c \in Callers : call[c].at \in Registering => call[c].req.m # m

persistMu == \A c \in Callers : call[c].at \notin {"persistWrite", "deleteStore"}

-------------------------------------------------------------------------------
(* The nodes a caller is working on, and the calls whose row writes do not  *)
(* take persistMu.                                                          *)

Target(cs, c) ==
  CASE cs[c].at = "idle" -> {}
    [] cs[c].at # "idle" /\ "id" \in DOMAIN cs[c] -> {cs[c].id}
    [] cs[c].at # "idle" /\ cs[c].req.op = "backfill" -> IDs
    [] OTHER -> {}

Unserialised(cs, c) ==
  cs[c].at # "idle" /\ cs[c].req.op \in {"pak", "auth", "expire", "logout", "backfill"}

Overlap(cs) ==
  UNION {Target(cs, c) \cap UNION {Target(cs, d) : d \in Callers \ {c}} :
           c \in {d \in Callers : Unserialised(cs, d)}}

-------------------------------------------------------------------------------
Init ==
  /\ rows = InitRows
  /\ nodes = InitRows
  /\ keys = InitKeys
  /\ users = Users
  /\ alloc = NewIPAllocator(InitRows)
  /\ call = [c \in Callers |-> Idle]
  /\ now = 1
  /\ nextID = Cardinality(DOMAIN InitRows) + 1
  /\ ops = 0 /\ faults = 0
  /\ uses = [k \in KeyIDs |-> 0]
  /\ overlapped = {} /\ unsaved = {}

-------------------------------------------------------------------------------
Goto(c, next_) ==
  /\ call' = [call EXCEPT ![c] = next_]
  /\ overlapped' = overlapped \cup Overlap(call')

Return(c) == Goto(c, Idle)

(* A caller takes up a request.  A request that is refused at once changes  *)
(* nothing, so only the accepted ones are steps.                            *)
Ask(c, op) == IF call[c].at = "idle" /\ ops < MaxOps THEN {r \in Requests : r.op = op} ELSE {}

Asked == ops' = ops + 1

Fault == faults < MaxFaults /\ faults' = faults + 1

DBWorks == UNCHANGED faults

(* Foreign keys of the nodes table; an UPDATE of a missing row checks none. *)
References(n, ak) == (n.user # 0 => n.user \in users) /\ (ak # 0 => keys[ak].exists)

Updatable(i, n, ak) == i \in DOMAIN rows => References(n, ak)

Update(i, n) == IF i \in DOMAIN rows THEN [rows EXCEPT ![i] = n] ELSE rows

nodeKeyInUse(nk, m) == \E i \in DOMAIN nodes : nodes[i].nk = nk /\ nodes[i].mk # m

-------------------------------------------------------------------------------
(* persistNode: under persistMu, re-read the node and write its row, all    *)
(* columns but the expiry and the pre-auth key.                             *)

PersistRead_Captured(c) ==
  /\ call[c].at = "persistRead" /\ persistMu
  /\ Goto(c, IF call[c].id \in DOMAIN nodes
                THEN [at |-> "persistWrite", req |-> call[c].req, id |-> call[c].id, fresh |-> call[c].view]
                ELSE Idle)
  /\ UNCHANGED <<nodes, db, alloc, bounds, uses, unsaved>>

PersistRead(c) ==
  /\ call[c].at = "persistRead" /\ persistMu
  /\ Goto(c, IF call[c].id \in DOMAIN nodes
                THEN [at |-> "persistWrite", req |-> call[c].req, id |-> call[c].id,
                      fresh |-> nodes[call[c].id]]
                ELSE Idle)
  /\ UNCHANGED <<nodes, db, alloc, bounds, uses, unsaved>>

PersistWrite(c) ==
  /\ call[c].at = "persistWrite"
  /\ Return(c)
  /\ LET i == call[c].id
         n == call[c].fresh
     IN  \/ /\ Updatable(i, n, 0)
            /\ DBWorks
            /\ rows' = IF i \in DOMAIN rows
                         THEN [rows EXCEPT ![i] = [n EXCEPT !.expiry = rows[i].expiry, !.ak = rows[i].ak]]
                         ELSE rows
            /\ UNCHANGED unsaved
         \/ /\ Fault \/ (~Updatable(i, n, 0) /\ DBWorks)
            /\ unsaved' = unsaved \cup {i}
            /\ UNCHANGED rows
  /\ UNCHANGED <<nodes, keys, users, nextID, alloc, now, ops, uses>>

(* A NodeStore update whose row persistNode writes next.                    *)
Store(c, i, n) ==
  /\ nodes' = [nodes EXCEPT ![i] = n]
  /\ UNCHANGED <<db, alloc, now, faults, uses, unsaved>>

Persist(r, i, n) == [at |-> "persistRead", req |-> r, id |-> i, view |-> n]

SetNodeTags(c) ==
  \E r \in Ask(c, "tags") :
    /\ r.id \in DOMAIN nodes
    /\ LET n == [nodes[r.id] EXCEPT !.tags = r.tags, !.user = 0]
       IN  Store(c, r.id, n) /\ Goto(c, Persist(r, r.id, n))
    /\ Asked

SetApprovedRoutes(c) ==
  \E r \in Ask(c, "routes") :
    /\ r.id \in DOMAIN nodes
    /\ LET n == [nodes[r.id] EXCEPT !.approved = r.approved]
       IN  Store(c, r.id, n) /\ Goto(c, Persist(r, r.id, n))
    /\ Asked

(* SetApprovedRoutes as the last part of a map request or a registration,   *)
(* with the approval computed from the node as it was then.                 *)
Approve(c) ==
  /\ call[c].at = "approve"
  /\ IF call[c].id \in DOMAIN nodes
       THEN LET n == [nodes[call[c].id] EXCEPT !.approved = call[c].approved]
            IN  Store(c, call[c].id, n) /\ Goto(c, Persist(call[c].req, call[c].id, n))
       ELSE Return(c) /\ UNCHANGED <<nodes, db, alloc, now, faults, uses, unsaved>>
  /\ UNCHANGED ops

UpdateNodeFromMapRequest(c) ==
  \E r \in Ask(c, "map") :
    /\ r.id \in DOMAIN nodes
    /\ LET old == nodes[r.id]
           n == [old EXCEPT !.announced = r.announced]
           approved == autoApproved(old, r.announced)
       IN  /\ n # old
           /\ Store(c, r.id, n)
           /\ Goto(c, IF needsRouteApproval(old, r.announced) /\ approved # old.approved
                        THEN [at |-> "approve", req |-> r, id |-> r.id, approved |-> approved]
                        ELSE Persist(r, r.id, n))
    /\ Asked

-------------------------------------------------------------------------------
(* SetNodeExpiry: NodeStore first, then the expiry column, without          *)
(* persistMu and without taking the NodeStore change back on failure.       *)

ExpireStore(c, r, i, t) ==
  /\ nodes' = [nodes EXCEPT ![i].expiry = t]
  /\ Goto(c, [at |-> "expireSave", req |-> r, id |-> i, expiry |-> t])
  /\ UNCHANGED <<db, alloc, now, faults, uses, unsaved>>

SetNodeExpiry(c) ==
  \E r \in Ask(c, "expire") :
    r.id \in DOMAIN nodes /\ ExpireStore(c, r, r.id, r.expiry) /\ Asked

LogoutExpire(c) ==
  /\ call[c].at = "expireStore"
  /\ IF call[c].id \in DOMAIN nodes
       THEN ExpireStore(c, call[c].req, call[c].id, call[c].expiry)
       ELSE Return(c) /\ UNCHANGED <<nodes, db, alloc, now, faults, uses, unsaved>>
  /\ UNCHANGED ops

ExpireSave(c) ==
  /\ call[c].at = "expireSave"
  /\ Return(c)
  /\ \/ /\ DBWorks
        /\ rows' = IF call[c].id \in DOMAIN rows
                     THEN [rows EXCEPT ![call[c].id].expiry = call[c].expiry] ELSE rows
        /\ UNCHANGED unsaved
     \/ /\ Fault
        /\ unsaved' = unsaved \cup {call[c].id}
        /\ UNCHANGED rows
  /\ UNCHANGED <<nodes, keys, users, nextID, alloc, now, ops, uses>>

-------------------------------------------------------------------------------
(* State.DeleteNode: the row and the node under persistMu, then the         *)
(* addresses of the view the caller came with.                              *)

DeleteNode(c) ==
  \E r \in Ask(c, "delete") :
    /\ r.id \in DOMAIN nodes
    /\ Goto(c, [at |-> "deleteRow", req |-> r, id |-> r.id, ips |-> IPs(nodes[r.id])])
    /\ Asked
    /\ UNCHANGED <<nodes, db, alloc, now, faults, uses, unsaved>>

DeleteRow(c) ==
  /\ call[c].at = "deleteRow" /\ persistMu
  /\ \/ DBWorks /\ rows' = Drop(rows, call[c].id) /\ Goto(c, [call[c] EXCEPT !.at = "deleteStore"])
     \/ Fault /\ UNCHANGED rows /\ Return(c)
  /\ UNCHANGED <<nodes, keys, users, nextID, alloc, now, ops, uses, unsaved>>

DeleteStore(c) ==
  /\ call[c].at = "deleteStore"
  /\ nodes' = Drop(nodes, call[c].id)
  /\ Goto(c, [call[c] EXCEPT !.at = "deleteFree"])
  /\ UNCHANGED <<db, alloc, bounds, uses, unsaved>>

DeleteFree(c) ==
  /\ call[c].at = "deleteFree"
  /\ alloc' = FreeIPs(alloc, call[c].ips)
  /\ Return(c)
  /\ UNCHANGED <<nodes, db, bounds, uses, unsaved>>

(* handleLogout: an ephemeral node is deleted, a user's node is expired, a  *)
(* tagged or already expired one is left alone.                             *)
handleLogout(c) ==
  \E r \in Ask(c, "logout"), i \in DOMAIN nodes :
    LET n == nodes[i]
    IN  /\ n.nk = r.nk /\ n.mk = r.m /\ ~IsExpired(n, now)
        /\ IsEphemeral(n) \/ ~IsTagged(n)
        /\ Goto(c, IF IsEphemeral(n)
                     THEN [at |-> "deleteRow", req |-> r, id |-> i, ips |-> IPs(n)]
                     ELSE [at |-> "expireStore", req |-> r, id |-> i, expiry |-> now])
        /\ Asked
        /\ UNCHANGED <<nodes, db, alloc, now, faults, uses, unsaved>>

-------------------------------------------------------------------------------
(* HandleNodeFromPreAuthKey.                                                *)

Registered(r, i, n) ==
  IF ApproveRoutesWithPolicy(n) # n.approved
    THEN [at |-> "approve", req |-> r, id |-> i, approved |-> ApproveRoutesWithPolicy(n)]
    ELSE Idle

(* createAndSaveNewNode up to the address allocation.                       *)
Create(r, pak) ==
  IF nodeKeyInUse(r.nk, r.m) \/ newNodeTagsRefused(r)
    THEN Idle
    ELSE [at |-> "allocate", req |-> r, pak |-> pak, node |-> newNode(r, now)]

createNewNodeFromAuth(r) == Create(r, [exists |-> FALSE])

PakRead(c) ==
  \E r \in Ask(c, "pak") :
    /\ lockRegistration(r.m)
    /\ keys[r.key].exists
    /\ r.expiry = 0 \/ r.expiry > now
    /\ Goto(c, [at |-> "pakFind", req |-> r, pak |-> keys[r.key]])
    /\ Asked
    /\ UNCHANGED <<nodes, db, alloc, now, faults, uses, unsaved>>

PakFind(c) ==
  /\ call[c].at = "pakFind"
  /\ LET r == call[c].req
         pak == call[c].pak
         found == findExistingNodeForPAK(nodes, r.m, r.key)
     IN  CASE ambiguousForPAK(nodes, r.m, r.key) -> Return(c)
           [] found = {} -> Goto(c, IF Valid(r.key, pak) THEN Create(r, pak) ELSE Idle)
           [] OTHER -> \E i \in found :
                Goto(c, IF (skipsValidation(nodes[i], r, now) \/ Valid(r.key, pak)) /\ ~nodeKeyInUse(r.nk, r.m)
                          THEN [at |-> "pakUpdate", req |-> r, pak |-> pak, id |-> i, prior |-> nodes[i]]
                          ELSE Idle)
  /\ UNCHANGED <<nodes, db, alloc, bounds, uses, unsaved>>

PakUpdate(c) ==
  /\ call[c].at = "pakUpdate"
  /\ LET i == call[c].id
         r == call[c].req
         n == reregistered(nodes[i], r, now)
     IN  IF i \in DOMAIN nodes
           THEN /\ nodes' = [nodes EXCEPT ![i] = n]
                /\ Goto(c, [at |-> "pakSave", req |-> r, pak |-> call[c].pak, id |-> i,
                            prior |-> call[c].prior, node |-> n])
           ELSE Return(c) /\ UNCHANGED nodes
  /\ UNCHANGED <<db, alloc, bounds, uses, unsaved>>

(* One transaction: the row, and the key when it was unused as it was read. *)
Consumes(r, pak) == ~KeyOf[r.key].reusable /\ ~pak.used

Spend(r, spends) ==
  /\ keys' = IF spends THEN [keys EXCEPT ![r.key].used = TRUE] ELSE keys
  /\ uses' = IF spends THEN [uses EXCEPT ![r.key] = @ + 1] ELSE uses

PakSave(c) ==
  /\ call[c].at = "pakSave"
  /\ LET i == call[c].id
         r == call[c].req
         n == call[c].node
         spends == Consumes(r, call[c].pak)
         accepted == Updatable(i, n, n.ak) /\ (spends => UsePreAuthKey(keys[r.key]))
     IN  \/ /\ accepted /\ DBWorks
            /\ rows' = Update(i, n)
            /\ Spend(r, spends)
            /\ Goto(c, Registered(r, i, n))
         \/ /\ Fault \/ (~accepted /\ DBWorks)
            /\ Goto(c, [at |-> "rollback", req |-> r, id |-> i, prior |-> call[c].prior])
            /\ UNCHANGED <<rows, keys, uses>>
  /\ UNCHANGED <<nodes, users, nextID, alloc, now, ops, unsaved>>

PakRollback(c) ==
  /\ call[c].at = "rollback"
  /\ nodes' = Put(nodes, call[c].id, call[c].prior)
  /\ Return(c)
  /\ UNCHANGED <<db, alloc, bounds, uses, unsaved>>

(* IPAllocator.Next: both families under its mutex.  An IPv4 address stays  *)
(* taken when there is no IPv6 address left.                                *)
Allocate(c) ==
  /\ call[c].at = "allocate"
  /\ \/ /\ Alloc4(alloc) = {}
        /\ Return(c) /\ UNCHANGED alloc
     \/ \E a \in Alloc4(alloc) :
          /\ Alloc6(alloc) = {}
          /\ Return(c) /\ alloc' = Take4(alloc, a)
     \/ \E a \in Alloc4(alloc), b \in Alloc6(alloc) :
          /\ alloc' = Take6(Take4(alloc, a), b)
          /\ Goto(c, [call[c] EXCEPT !.at = "insert", !.node.ip4 = a, !.node.ip6 = b])
  /\ UNCHANGED <<nodes, db, bounds, uses, unsaved>>

Insert(c) ==
  /\ call[c].at = "insert"
  /\ LET r == call[c].req
         n == call[c].node
         spends == r.op = "pak" /\ ~KeyOf[r.key].reusable
         accepted == References(n, n.ak) /\ (spends => UsePreAuthKey(keys[r.key]))
     IN  \/ /\ accepted /\ DBWorks
            /\ rows' = Put(rows, nextID, n)
            /\ nextID' = nextID + 1
            /\ IF spends THEN Spend(r, TRUE) ELSE UNCHANGED <<keys, uses>>
            /\ Goto(c, [at |-> "put", req |-> r, id |-> nextID, node |-> n])
         \/ /\ Fault \/ (~accepted /\ DBWorks)
            /\ Return(c)
            /\ UNCHANGED <<rows, nextID, keys, uses>>
  /\ UNCHANGED <<nodes, users, alloc, now, ops, unsaved>>

PutNew(c) ==
  /\ call[c].at = "put"
  /\ nodes' = Put(nodes, call[c].id, call[c].node)
  /\ Goto(c, Registered(call[c].req, call[c].id, call[c].node))
  /\ UNCHANGED <<db, alloc, bounds, uses, unsaved>>

-------------------------------------------------------------------------------
(* HandleNodeFromAuthPath: web, OIDC and command line registration.         *)

AuthStart(c) ==
  \E r \in Ask(c, "auth") :
    /\ r.user \in users
    /\ lockRegistration(r.m)
    /\ Goto(c, [at |-> "authFind", req |-> r])
    /\ Asked
    /\ UNCHANGED <<nodes, db, alloc, now, faults, uses, unsaved>>

AuthFind(c) ==
  /\ call[c].at = "authFind"
  /\ LET r == call[c].req
         found == findExistingNodeForAuth(nodes, r.m, r.user)
     IN  CASE ambiguousForAuth(nodes, r.m) -> Return(c)
           [] found = {} -> Goto(c, createNewNodeFromAuth(r))
           [] OTHER -> \E i \in found :
                Goto(c, IF validateRequestTagsForReauth(nodes[i], r.user, r.tags) /\ ~nodeKeyInUse(r.nk, r.m)
                          THEN [at |-> "authUpdate", req |-> r, id |-> i]
                          ELSE Idle)
  /\ UNCHANGED <<nodes, db, alloc, bounds, uses, unsaved>>

AuthUpdate(c) ==
  /\ call[c].at = "authUpdate"
  /\ LET i == call[c].id
         n == reauthorised(nodes[i], call[c].req, now)
     IN  IF i \in DOMAIN nodes
           THEN /\ nodes' = [nodes EXCEPT ![i] = n]
                /\ Goto(c, [at |-> "authSave", req |-> call[c].req, id |-> i, node |-> n])
           ELSE Return(c) /\ UNCHANGED nodes
  /\ UNCHANGED <<db, alloc, bounds, uses, unsaved>>

(* The key column is written only to clear it.                              *)
authColumns_NoKey(i, n) ==
  [n EXCEPT !.ak = rows[i].ak]

authColumns(i, n) ==
  [n EXCEPT !.ak = IF n.ak = 0 THEN 0 ELSE rows[i].ak]

AuthSave(c) ==
  /\ call[c].at = "authSave"
  /\ LET i == call[c].id
         n == call[c].node
     IN  \/ /\ Updatable(i, n, 0) /\ DBWorks
            /\ rows' = IF i \in DOMAIN rows THEN [rows EXCEPT ![i] = authColumns(i, n)] ELSE rows
            /\ Goto(c, Registered(call[c].req, i, n))
            /\ UNCHANGED unsaved
         \/ /\ Fault \/ (~Updatable(i, n, 0) /\ DBWorks)
            /\ Return(c)
            /\ unsaved' = unsaved \cup {i}
            /\ UNCHANGED rows
  /\ UNCHANGED <<nodes, keys, users, nextID, alloc, now, ops, uses>>

-------------------------------------------------------------------------------
(* BackfillNodeIPs, with both prefixes configured: a transaction that gives *)
(* addresses to the rows without, then every row put into NodeStore.        *)

Missing == {i \in DOMAIN rows : rows[i].ip4 = 0 \/ rows[i].ip6 = 0}

BackfillStart(c) ==
  \E r \in Ask(c, "backfill") :
    /\ Missing # {}
    /\ Goto(c, [at |-> "backfill", req |-> r, todo |-> Missing, rows |-> rows])
    /\ Asked
    /\ UNCHANGED <<nodes, db, alloc, now, faults, uses, unsaved>>

(* allocateNext4 and allocateNext6 for the next row; an exhausted prefix    *)
(* rolls the transaction back and keeps what was allocated.                 *)
BackfillRow(c) ==
  /\ call[c].at = "backfill" /\ call[c].todo # {}
  /\ LET i == CHOOSE j \in call[c].todo : \A k \in call[c].todo : j <= k
         n == call[c].rows[i]
         four == IF n.ip4 = 0 THEN Alloc4(alloc) ELSE {n.ip4}
         six == IF n.ip6 = 0 THEN Alloc6(alloc) ELSE {n.ip6}
         Took4(a) == IF n.ip4 = 0 THEN Take4(alloc, a) ELSE alloc
     IN  CASE four = {} -> Return(c) /\ UNCHANGED alloc
           [] four # {} /\ six = {} -> \E a \in four : Return(c) /\ alloc' = Took4(a)
           [] OTHER -> \E a \in four, b \in six :
                /\ alloc' = IF n.ip6 = 0 THEN Take6(Took4(a), b) ELSE Took4(a)
                /\ Goto(c, [call[c] EXCEPT !.todo = @ \ {i}, !.rows[i].ip4 = a, !.rows[i].ip6 = b])
  /\ UNCHANGED <<nodes, db, bounds, uses, unsaved>>

BackfillCommit(c) ==
  /\ call[c].at = "backfill" /\ call[c].todo = {}
  /\ \/ /\ DBWorks
        /\ rows' = [i \in DOMAIN rows |->
                     IF i \in DOMAIN call[c].rows
                       THEN [rows[i] EXCEPT !.ip4 = call[c].rows[i].ip4, !.ip6 = call[c].rows[i].ip6]
                       ELSE rows[i]]
        /\ Goto(c, [at |-> "backfillList", req |-> call[c].req])
     \/ Fault /\ Return(c) /\ UNCHANGED rows
  /\ UNCHANGED <<nodes, keys, users, nextID, alloc, now, ops, uses, unsaved>>

BackfillList(c) ==
  /\ call[c].at = "backfillList"
  /\ Goto(c, [at |-> "backfillPut", req |-> call[c].req, rows |-> rows])
  /\ UNCHANGED <<nodes, db, alloc, bounds, uses, unsaved>>

BackfillPut(c) ==
  /\ call[c].at = "backfillPut"
  /\ IF DOMAIN call[c].rows = {}
       THEN Return(c) /\ UNCHANGED nodes
       ELSE LET list == call[c].rows
                i == CHOOSE j \in DOMAIN list : \A k \in DOMAIN list : j <= k
            IN  /\ nodes' = Put(nodes, i, IF i \in DOMAIN nodes
                                            THEN [list[i] EXCEPT !.announced = nodes[i].announced]
                                            ELSE list[i])
                /\ Goto(c, [call[c] EXCEPT !.rows = Drop(list, i)])
  /\ UNCHANGED <<db, alloc, bounds, uses, unsaved>>

-------------------------------------------------------------------------------
(* Keys and users, one transaction each; the clock; a restart.              *)

Administered == UNCHANGED <<nodes, nextID, alloc, call, now, faults, uses, overlapped, unsaved>>

Admin(op) == IF ops < MaxOps THEN {r \in Requests : r.op = op} ELSE {}

Destroy(ks) ==
  /\ keys' = [k \in KeyIDs |-> IF k \in ks THEN [keys[k] EXCEPT !.exists = FALSE] ELSE keys[k]]
  /\ rows' = [i \in DOMAIN rows |-> IF rows[i].ak \in ks THEN [rows[i] EXCEPT !.ak = 0] ELSE rows[i]]

ExpirePreAuthKey ==
  \E r \in Admin("expireKey") :
    /\ keys[r.key].exists
    /\ keys' = [keys EXCEPT ![r.key].expired = TRUE]
    /\ Asked /\ Administered /\ UNCHANGED <<rows, users>>

DestroyPreAuthKey ==
  \E r \in Admin("delKey") :
    /\ keys[r.key].exists
    /\ Destroy({r.key})
    /\ Asked /\ Administered /\ UNCHANGED users

DestroyUser ==
  \E r \in Admin("delUser") :
    /\ r.user \in users
    /\ \A i \in DOMAIN rows : rows[i].user # r.user
    /\ Destroy({k \in KeyIDs : KeyOf[k].user = r.user /\ keys[k].exists})
    /\ users' = users \ {r.user}
    /\ Asked /\ Administered

Tick ==
  /\ now < MaxTime
  /\ now' = now + 1
  /\ UNCHANGED <<nodes, db, alloc, call, ops, faults, history>>

Restart ==
  /\ Fault
  /\ nodes' = rows
  /\ alloc' = NewIPAllocator(rows)
  /\ call' = [c \in Callers |-> Idle]
  /\ UNCHANGED <<db, now, ops, history>>

-------------------------------------------------------------------------------
Step(c) ==
  \/ PersistRead(c) \/ PersistWrite(c) \/ Approve(c)
  \/ LogoutExpire(c) \/ ExpireSave(c)
  \/ DeleteRow(c) \/ DeleteStore(c) \/ DeleteFree(c)
  \/ PakFind(c) \/ PakUpdate(c) \/ PakSave(c) \/ PakRollback(c)
  \/ Allocate(c) \/ Insert(c) \/ PutNew(c)
  \/ AuthFind(c) \/ AuthUpdate(c) \/ AuthSave(c)
  \/ BackfillRow(c) \/ BackfillCommit(c) \/ BackfillList(c) \/ BackfillPut(c)

Start(c) ==
  \/ SetNodeTags(c) \/ SetApprovedRoutes(c) \/ UpdateNodeFromMapRequest(c)
  \/ SetNodeExpiry(c) \/ DeleteNode(c) \/ handleLogout(c)
  \/ PakRead(c) \/ AuthStart(c) \/ BackfillStart(c)

Next ==
  \/ \E c \in Callers : Start(c) \/ Step(c)
  \/ ExpirePreAuthKey \/ DestroyPreAuthKey \/ DestroyUser
  \/ Tick \/ Restart

Spec == Init /\ [][Next]_vars

-------------------------------------------------------------------------------
(* Type invariant of the tables, the allocator and the calls.               *)
TypeOK ==
  /\ DOMAIN nodes \subseteq IDs /\ \A i \in DOMAIN nodes : nodes[i] \in Node
  /\ DOMAIN rows \subseteq IDs /\ \A i \in DOMAIN rows : rows[i] \in Node
  /\ keys \in [KeyIDs -> KeyRow]
  /\ users \subseteq Users
  /\ alloc.used4 \subseteq 1..Last4 /\ alloc.used6 \subseteq 1..Last6
  /\ DOMAIN call = Callers
  /\ nextID \in IDs \cup {Cardinality(IDs) + 1}

(* Every node, in memory and in its row, is owned by a user or by tags and  *)
(* never by both or neither (validateNodeOwnership), through conversions,   *)
(* rollbacks, failed writes and restarts.                                   *)
OwnedXorTagged ==
  /\ \A i \in DOMAIN nodes : validateNodeOwnership(nodes[i])
  /\ \A i \in DOMAIN rows : validateNodeOwnership(rows[i])

(* Concurrent registrations of one machine for one user end in one node:    *)
(* what lockRegistration serialises the find-then-create section for.       *)
OneNodePerOwner ==
  \A i, j \in DOMAIN nodes :
    nodes[i].mk = nodes[j].mk /\ nodes[i].user = nodes[j].user /\ nodes[i].user # 0 => i = j

(* A one-shot pre-auth key is spent by at most one committed registration,  *)
(* however many machines present it at once (UsePreAuthKey).                *)
SingleUse == \A k \in KeyIDs : ~KeyOf[k].reusable => uses[k] <= 1

(* No address is held by two nodes, in memory or in the table, across       *)
(* deletions, half-failed allocations, backfills and restarts (nodes where  *)
(* an unserialised write met another call left out).                        *)
AddressesUnique ==
  \A f, g \in {nodes, rows} :
    \A i \in DOMAIN f \ overlapped, j \in DOMAIN g \ overlapped : i # j =>
      /\ f[i].ip4 # 0 => f[i].ip4 # g[j].ip4
      /\ f[i].ip6 # 0 => f[i].ip6 # g[j].ip6

(* A re-registration with a key that is not valid leaves the node's key, its *)
(* tags and its owner as they were.                                         *)
InvalidKeyStep ==
  \A c \in Callers :
    call[c].at = "pakUpdate" /\ call'[c].at = "pakSave" /\ ~Valid(call[c].req.key, call[c].pak)
    => LET i == call[c].id
       IN  /\ nodes'[i].nk = call[c].prior.nk
           /\ nodes'[i].tags = nodes[i].tags
           /\ nodes'[i].user = nodes[i].user

(* A key that is spent or expired may at most let a machine come back as it *)
(* was: the registration it is presented in never changes the node's key,   *)
(* its tags or its owner (the skip-validation path).                        *)
InvalidKeysChangeNothing == [][InvalidKeyStep]_vars

(* Once every handler has returned, NodeStore and the table hold the same   *)
(* nodes with the same columns, apart from the pre-auth key.  Left out are  *)
(* the nodes whose write the database refused and those where a write that  *)
(* does not take persistMu met another call.                                *)
RowsConverge ==
  (\A c \in Callers : call[c].at = "idle") =>
    \A i \in IDs \ (overlapped \cup unsaved) :
      /\ i \in DOMAIN nodes <=> i \in DOMAIN rows
      /\ i \in DOMAIN nodes => [nodes[i] EXCEPT !.ak = 0] = [rows[i] EXCEPT !.ak = 0]

(* The same without those exceptions for concurrent calls: what persistNode *)
(* says the serialised read and write of a row achieve.                     *)
RowsFollowStore ==
  (\A c \in Callers : call[c].at = "idle") =>
    \A i \in IDs \ unsaved :
      /\ i \in DOMAIN nodes <=> i \in DOMAIN rows
      /\ i \in DOMAIN nodes => [nodes[i] EXCEPT !.ak = 0] = [rows[i] EXCEPT !.ak = 0]

(* A device a user claimed from a tagged key does not turn ephemeral again, *)
(* not even by a restart: its row forgot the key (applyAuthNodeUpdate).     *)
ClaimedDevicesStay ==
  \A i \in DOMAIN rows \ (overlapped \cup unsaved) :
    rows[i].user # 0 /\ rows[i].ak # 0 => KeyOf[rows[i].ak].tags = {}

(* Nodes are told apart by owner and by address, whatever ran concurrently: *)
(* lockRegistration and the allocator's set of used addresses.              *)
NodesDistinct == OneNodePerOwner /\ AddressesUnique

(* The table is what a restart would make of the NodeStore: the same nodes, *)
(* and no claimed device with the key it was claimed from.                  *)
RowsSound == RowsConverge /\ ClaimedDevicesStay
================================================================================
