------------------------------ MODULE MapSession ------------------------------
(***************************************************************************)
(* The map sessions of one ephemeral node (hscontrol/poll.go), the session *)
(* count and presence they keep in the NodeStore (State.Connect,           *)
(* State.Disconnect, key expiry), their connections in the batcher, and    *)
(* the garbage collector that deletes the node once it is gone             *)
(* (hscontrol/db/node.go, EphemeralGarbageCollector).                      *)
(*                                                                         *)
(* Every write to the node is one NodeStore closure and so one step; what  *)
(* happens between two of them is interleaved.  As in NodeRoutes, a        *)
(* definition with an underscore in its name is a deliberate fault.        *)
(***************************************************************************)
EXTENDS Naturals, FiniteSets

CONSTANTS
  Sessions,     \* long polls, each served once
  Scopes,       \* what may happen to the node: which sessions and operations
  MaxExpiry,    \* bound: how often the key's expiry moves
  MaxRestarts   \* bound: server restarts

AllOperations == {"expiry", "delete", "reauth", "backfill", "restart"}

ASSUME MapSessionAssumption ==
  /\ IsFiniteSet(Sessions)
  /\ Scopes \subseteq [sessions : SUBSET Sessions, operations : SUBSET AllOperations]
  /\ MaxExpiry \in Nat
  /\ MaxRestarts \in Nat

VARIABLES
  row,        \* the node is in the database
  exists,     \* the node is in the NodeStore
  active,     \* Node.ActiveSessions
  online,     \* Node.IsOnline
  expired,    \* Node.IsExpired()
  lapsed,     \* the expiry passed and ExpireExpiredNodes has not run since
  pc,         \* where each session is
  tell,       \* what Connect returned for the peers; connectGen # 0 with it
  stop,       \* the session's cancelCh is closed
  entry,      \* the node in Batcher.nodes: "absent", "up" or "down"
  conns,      \* the sessions registered in that entry
  timer,      \* generation of the armed deletion, 0 for none (toBeDeleted)
  gen,        \* EphemeralGarbageCollector.gen
  watchers,   \* generations whose watcher goroutine still waits
  queued,     \* generations sent to deleteCh
  deleting,   \* generations whose deleteFunc goroutine runs
  failed,     \* a deletion failed in the database
  removal,    \* the NodeRemoved change of a deletion is still to be published
  refresh,    \* a NodeAdded change (resolved when sent) is still to be published
  peerSees,   \* the presence the peers were told last
  backfill,   \* how far BackfillNodeIPs is: see Backfills
  moves,      \* how often the expiry moved
  restarts,   \* how often the server restarted
  scope       \* the member of Scopes this behaviour explores

nodeVars == <<row, exists, active, online, expired, lapsed>>
batcherVars == <<entry, conns, stop>>
gcVars == <<timer, gen, watchers, queued, deleting, failed>>
newsVars == <<removal, refresh, peerSees>>
sessionVars == <<pc, tell>>
otherVars == <<backfill, moves, restarts, scope>>
vars == <<nodeVars, sessionVars, batcherVars, gcVars, newsVars, otherVars>>

Gens == 1..(Cardinality(Sessions) + 1)

\* Where a session that called Connect still owes a Disconnect.
Holding == {"connected", "cancelled", "adding", "mapped", "publish",
            "serving", "ending", "grace", "release"}

\* Not started; the row listed; the IsOnline it read; finished.
Backfills == {"idle", "listed", "online", "offline", "done"}

PCs == Holding \cup {"new", "updated", "offline", "schedule", "done"}

\* The session went through Connect.
Acquired(s) == tell[s] # "nothing"

Holders == {s \in Sessions : Acquired(s) /\ pc[s] \in Holding}

\* Nobody is in the middle of anything.
Quiet(rest) == \A s \in Sessions : pc[s] \in rest

TypeOK ==
  /\ row \in BOOLEAN /\ exists \in BOOLEAN
  /\ active \in 0..Cardinality(Sessions)
  /\ online \in BOOLEAN /\ expired \in BOOLEAN /\ lapsed \in BOOLEAN
  /\ pc \in [Sessions -> PCs]
  /\ tell \in [Sessions -> {"nothing", "online", "current"}]
  /\ stop \in [Sessions -> BOOLEAN]
  /\ entry \in {"absent", "up", "down"}
  /\ conns \in SUBSET Sessions
  /\ entry = "absent" => conns = {}
  /\ gen \in {0} \cup Gens
  /\ timer \in 0..gen
  /\ watchers \in SUBSET Gens /\ queued \in SUBSET Gens /\ deleting \in SUBSET Gens
  /\ failed \in BOOLEAN /\ removal \in BOOLEAN
  /\ refresh \in BOOLEAN /\ peerSees \in BOOLEAN
  /\ backfill \in Backfills
  /\ moves \in 0..MaxExpiry
  /\ restarts \in 0..MaxRestarts
  /\ scope \in Scopes

\* A node that just registered has no deletion timer yet; one that the server
\* loaded at start-up has (where restarts are in scope).
Init ==
  /\ scope \in Scopes
  /\ row = TRUE /\ exists = TRUE /\ active = 0 /\ online = FALSE
  /\ expired = FALSE /\ lapsed = FALSE
  /\ pc = [s \in Sessions |-> "new"]
  /\ tell = [s \in Sessions |-> "nothing"]
  /\ stop = [s \in Sessions |-> FALSE]
  /\ entry = "absent" /\ conns = {}
  /\ \E g \in IF "restart" \in scope.operations THEN {0, 1} ELSE {0} :
       timer = g /\ gen = g /\ watchers = {g} \ {0}
  /\ queued = {} /\ deleting = {} /\ failed = FALSE
  /\ removal = FALSE /\ refresh = FALSE /\ peerSees = FALSE
  /\ backfill = "idle" /\ moves = 0 /\ restarts = 0

ShouldBeOnline(sessions, exp) == sessions > 0 /\ ~exp

Goto(s, l) == pc' = [pc EXCEPT ![s] = l]
-----------------------------------------------------------------------------
(* serveLongPoll up to its loop.                                            *)

Begin_CancelFirst(s) ==
  /\ pc[s] = "new" /\ s \in scope.sessions
  /\ exists
  /\ Goto(s, "updated")
  /\ timer' = 0
  /\ UNCHANGED <<nodeVars, tell, batcherVars, gen, watchers, queued, deleting,
                 failed,
                 newsVars, otherVars>>

\* The request is validated against the store, then UpdateNodeFromMapRequest.
Begin(s) ==
  /\ pc[s] = "new" /\ s \in scope.sessions
  /\ exists
  /\ Goto(s, "updated")
  /\ UNCHANGED <<nodeVars, tell, batcherVars, gcVars, newsVars, otherVars>>

\* UpdateNodeFromMapRequest fails: the node is gone or the database refuses.
UpdateFails(s) ==
  /\ pc[s] = "updated"
  /\ Goto(s, "ending")
  /\ UNCHANGED <<nodeVars, tell, batcherVars, gcVars, newsVars, otherVars>>

Connect(s) ==
  /\ pc[s] = "updated"
  /\ Goto(s, "connected")
  /\ tell' = [tell EXCEPT ![s] = IF ~exists THEN "nothing"
                                 ELSE IF expired THEN "current" ELSE "online"]
  /\ active' = IF exists THEN active + 1 ELSE active
  /\ online' = IF exists THEN ShouldBeOnline(active + 1, expired) ELSE online
  /\ UNCHANGED <<row, exists, expired, lapsed, batcherVars, gcVars, newsVars, otherVars>>

\* ephemeralGC.Cancel
CancelGC(s) ==
  /\ pc[s] = "connected"
  /\ Goto(s, "cancelled")
  /\ timer' = 0
  /\ UNCHANGED <<nodeVars, tell, batcherVars, gen, watchers, queued, deleting,
                 failed,
                 newsVars, otherVars>>

\* Batcher.AddNode: the connection becomes visible in one Compute ...
Register(s) ==
  /\ pc[s] = "cancelled"
  /\ Goto(s, "adding")
  /\ conns' = conns \cup {s}
  /\ entry' = IF entry = "absent" THEN "up" ELSE entry
  /\ UNCHANGED <<nodeVars, tell, stop, gcVars, newsVars, otherVars>>

\* ... and its initial map is generated by a worker, which needs the entry and
\* the node ...
Generate(s) ==
  /\ pc[s] = "adding"
  /\ entry # "absent" /\ exists
  /\ Goto(s, "mapped")
  /\ UNCHANGED <<nodeVars, tell, batcherVars, gcVars, newsVars, otherVars>>

\* ... and sent.
Deliver(s) ==
  /\ pc[s] = "mapped"
  /\ Goto(s, "publish")
  /\ entry' = IF s \in conns THEN "up" ELSE entry
  /\ UNCHANGED <<nodeVars, tell, conns, stop, gcVars, newsVars, otherVars>>

\* h.Change(connectChanges...): NodeOnlineFor carries TRUE, NodeAdded resolves.
Publish(s) ==
  /\ pc[s] = "publish"
  /\ Goto(s, "serving")
  /\ peerSees' = CASE tell[s] = "online"  -> TRUE
                   [] tell[s] = "current" -> exists /\ online
                   [] OTHER               -> peerSees
  /\ UNCHANGED <<nodeVars, tell, batcherVars, gcVars, removal, refresh,
                 otherVars>>

\* Dropping a connection marks the entry disconnected when it was the last.
Drop(s) ==
  /\ conns' = conns \ {s}
  /\ entry' = IF entry # "absent" /\ conns \ {s} = {} THEN "down" ELSE entry

\* Generation failed, or sending the initial map timed out.
AddFails(s) ==
  /\ pc[s] \in {"adding", "mapped"}
  /\ Goto(s, "ending")
  /\ IF s \in conns THEN Drop(s) ELSE UNCHANGED <<conns, entry>>
  /\ UNCHANGED <<nodeVars, tell, stop, gcVars, newsVars, otherVars>>

\* The loop ends: the client went away, a write failed or cancelCh was closed.
Hangup(s) ==
  /\ pc[s] = "serving"
  /\ Goto(s, "ending")
  /\ UNCHANGED <<nodeVars, tell, batcherVars, gcVars, newsVars, otherVars>>

\* A broadcast to the connection timed out: send drops it and stops its session.
Stale(s) ==
  /\ s \in conns /\ pc[s] = "serving"
  /\ conns' = conns \ {s}
  /\ stop' = [stop EXCEPT ![s] = TRUE]
  /\ UNCHANGED <<nodeVars, sessionVars, entry, gcVars, newsVars, otherVars>>
-----------------------------------------------------------------------------
(* serveLongPoll's deferred cleanup.                                        *)

Cleanup_SkipRelease(s) ==
  /\ pc[s] = "ending"
  /\ stop' = [stop EXCEPT ![s] = TRUE]
  /\ Drop(s)
  /\ Goto(s, IF ~Acquired(s) \/ conns \ {s} # {} THEN "done"
             ELSE IF exists /\ ~expired THEN "grace"
             ELSE "release")
  /\ UNCHANGED <<nodeVars, tell, gcVars, newsVars, otherVars>>

Cleanup_KeepConn(s) ==
  /\ pc[s] = "ending"
  /\ stop' = [stop EXCEPT ![s] = TRUE]
  /\ Goto(s, IF ~Acquired(s) THEN "done" ELSE "release")
  /\ UNCHANGED <<nodeVars, tell, entry, conns, gcVars, newsVars, otherVars>>

\* stopFromBatcher and RemoveNode, then the way on.
Cleanup(s) ==
  /\ pc[s] = "ending"
  /\ stop' = [stop EXCEPT ![s] = TRUE]
  /\ Drop(s)
  /\ Goto(s, IF ~Acquired(s) THEN "done"
             ELSE IF conns \ {s} = {} /\ exists /\ ~expired THEN "grace"
             ELSE "release")
  /\ UNCHANGED <<nodeVars, tell, gcVars, newsVars, otherVars>>

\* The node is connected again, or ten seconds have passed.
GraceEnds(s) ==
  /\ pc[s] = "grace"
  /\ Goto(s, "release")
  /\ UNCHANGED <<nodeVars, tell, batcherVars, gcVars, newsVars, otherVars>>

Released_NoFloor == active - 1

Released == IF active > 0 THEN active - 1 ELSE 0

\* State.Disconnect: the last release takes the node offline.
Disconnect(s) ==
  /\ pc[s] = "release"
  /\ active' = IF exists THEN Released ELSE active
  /\ online' = IF exists /\ Released = 0 THEN ShouldBeOnline(0, expired) ELSE online
  /\ Goto(s, IF exists /\ Released = 0 THEN "offline" ELSE "done")
  /\ UNCHANGED <<row, exists, expired, lapsed, tell, batcherVars, gcVars, newsVars, otherVars>>

\* LastSeen is persisted, then h.Change sends NodeOffline to the peers.
PublishOffline(s) ==
  /\ pc[s] = "offline"
  /\ Goto(s, "schedule")
  /\ peerSees' = FALSE
  /\ UNCHANGED <<nodeVars, tell, batcherVars, gcVars, removal, refresh, otherVars>>

\* afterServeLongPoll: ephemeralGC.Schedule
Schedule(s) ==
  /\ pc[s] = "schedule"
  /\ Goto(s, "done")
  /\ gen' = gen + 1
  /\ timer' = gen + 1
  /\ watchers' = watchers \cup {gen + 1}
  /\ UNCHANGED <<nodeVars, tell, batcherVars, queued, deleting, failed,
                 newsVars, otherVars>>
-----------------------------------------------------------------------------
(* The garbage collector.                                                   *)

\* A watcher whose timer fired sends its generation to deleteCh; when it was
\* cancelled or rescheduled meanwhile, select may still choose the send.
TimerFires(g) ==
  /\ g \in watchers
  /\ watchers' = watchers \ {g}
  /\ queued' = queued \cup {g}
  /\ UNCHANGED <<nodeVars, sessionVars, batcherVars, timer, gen, deleting, failed,
                 newsVars, otherVars>>

\* The done channel of a cancelled or rescheduled timer reaps its watcher.
Reap(g) ==
  /\ g \in watchers
  /\ g # timer
  /\ watchers' = watchers \ {g}
  /\ UNCHANGED <<nodeVars, sessionVars, batcherVars, timer, gen, queued, deleting,
                 failed, newsVars, otherVars>>

\* Start: a superseded generation is dropped, the current one is carried out.
Collect(g) ==
  /\ g \in queued
  /\ queued' = queued \ {g}
  /\ IF timer = g
     THEN timer' = 0 /\ deleting' = deleting \cup {g}
     ELSE UNCHANGED <<timer, deleting>>
  /\ UNCHANGED <<nodeVars, sessionVars, batcherVars, gen, watchers, failed, newsVars, otherVars>>

\* State.DeleteNode: the row, then the node, under persistMu; the database may
\* refuse, and a node that is already gone is left alone.
DeleteFunc(g) ==
  /\ g \in deleting
  /\ deleting' = deleting \ {g}
  /\ \/ /\ exists
        /\ row' = FALSE /\ exists' = FALSE
        /\ removal' = TRUE
        /\ UNCHANGED failed
     \/ /\ exists
        /\ failed' = TRUE
        /\ UNCHANGED <<row, exists, removal>>
     \/ /\ ~exists
        /\ UNCHANGED <<row, exists, removal, failed>>
  /\ UNCHANGED <<active, online, expired, lapsed, sessionVars, batcherVars, timer,
                 gen, watchers, queued, refresh, peerSees, otherVars>>

\* An administrator, or the client's own logout, deletes the node.
DeleteNode ==
  /\ "delete" \in scope.operations
  /\ exists
  /\ row' = FALSE /\ exists' = FALSE
  /\ removal' = TRUE
  /\ UNCHANGED <<active, online, expired, lapsed, sessionVars, batcherVars, gcVars,
                 refresh, peerSees, otherVars>>

PublishRemoval_KeepSessions ==
  /\ removal
  /\ removal' = FALSE
  /\ entry' = "absent"
  /\ conns' = {}
  /\ UNCHANGED <<nodeVars, sessionVars, stop, gcVars, refresh, peerSees, otherVars>>

\* addToBatch drops the entry of a deleted node and stops its sessions.
PublishRemoval ==
  /\ removal
  /\ removal' = FALSE
  /\ entry' = "absent"
  /\ conns' = {}
  /\ stop' = [s \in Sessions |-> stop[s] \/ s \in conns]
  /\ UNCHANGED <<nodeVars, sessionVars, gcVars, refresh, peerSees, otherVars>>

\* cleanupOfflineNodes drops the entry of a node long disconnected.
CleanupOffline ==
  /\ entry = "down" /\ conns = {}
  /\ entry' = "absent"
  /\ UNCHANGED <<nodeVars, sessionVars, conns, stop, gcVars, newsVars, otherVars>>
-----------------------------------------------------------------------------
(* Key expiry, re-authentication, address backfill and restart.             *)

SetNodeExpiry_KeepOnline(exp) ==
  /\ "expiry" \in scope.operations
  /\ exists
  /\ moves < MaxExpiry
  /\ moves' = moves + 1
  /\ expired' = exp
  /\ lapsed' = FALSE
  /\ refresh' = TRUE
  /\ UNCHANGED <<row, exists, active, online, sessionVars, batcherVars, gcVars, removal,
                 peerSees, backfill, restarts, scope>>

\* State.SetNodeExpiry; when the database refuses, nothing is published.
SetNodeExpiry(exp) ==
  /\ "expiry" \in scope.operations
  /\ exists
  /\ moves < MaxExpiry
  /\ moves' = moves + 1
  /\ expired' = exp
  /\ lapsed' = FALSE
  /\ online' = ShouldBeOnline(active, exp)
  /\ \E saved \in BOOLEAN : refresh' = (refresh \/ saved)
  /\ UNCHANGED <<row, exists, active, sessionVars, batcherVars, gcVars, removal, peerSees,
                 backfill, restarts, scope>>

\* Time passes the key's expiry.
Lapse ==
  /\ "expiry" \in scope.operations
  /\ exists /\ ~expired
  /\ moves < MaxExpiry
  /\ moves' = moves + 1
  /\ expired' = TRUE
  /\ lapsed' = TRUE
  /\ UNCHANGED <<row, exists, active, online, sessionVars, batcherVars, gcVars, newsVars,
                 backfill, restarts, scope>>

\* The periodic task of app.go.
ExpireExpiredNodes ==
  /\ exists /\ lapsed
  /\ lapsed' = FALSE
  /\ online' = ShouldBeOnline(active, expired)
  /\ refresh' = TRUE
  /\ UNCHANGED <<row, exists, active, expired, sessionVars, batcherVars, gcVars, removal,
                 peerSees, otherVars>>

\* The NodeAdded change of one of the two: resolved from the current node.
PublishRefresh ==
  /\ refresh
  /\ refresh' = FALSE
  /\ peerSees' = (exists /\ online)
  /\ UNCHANGED <<nodeVars, sessionVars, batcherVars, gcVars, removal, otherVars>>

\* applyAuthNodeUpdate: a new key with a new expiry; IsOnline is preserved.
Reauth ==
  /\ "reauth" \in scope.operations
  /\ exists /\ expired
  /\ expired' = FALSE
  /\ lapsed' = FALSE
  /\ UNCHANGED <<row, exists, active, online, sessionVars, batcherVars, gcVars, newsVars,
                 otherVars>>

\* BackfillNodeIPs, when it gave some node an address: it lists the rows, ...
BackfillLists ==
  /\ "backfill" \in scope.operations
  /\ backfill = "idle"
  /\ row
  /\ backfill' = "listed"
  /\ UNCHANGED <<nodeVars, sessionVars, batcherVars, gcVars, newsVars, moves, restarts, scope>>

\* ... reads IsOnline from the store ...
BackfillReads ==
  /\ backfill = "listed"
  /\ backfill' = IF exists /\ online THEN "online" ELSE "offline"
  /\ UNCHANGED <<nodeVars, sessionVars, batcherVars, gcVars, newsVars, moves, restarts, scope>>

\* ... and puts the row, whose ActiveSessions is 0, over the stored node.  (The
\* expiry in the row is taken to be the current one.)
BackfillPuts ==
  /\ backfill \in {"online", "offline"}
  /\ backfill' = "done"
  /\ exists' = TRUE
  /\ active' = 0
  /\ online' = (backfill = "online")
  /\ UNCHANGED <<row, expired, lapsed, sessionVars, batcherVars, gcVars, newsVars, moves,
                 restarts, scope>>

\* The process stops and starts again: what is not in the database is lost,
\* and every ephemeral node that is still there is scheduled for deletion.
Restart ==
  /\ "restart" \in scope.operations
  /\ restarts < MaxRestarts
  /\ restarts' = restarts + 1
  /\ active' = 0 /\ online' = FALSE
  /\ pc' = [s \in Sessions |-> IF pc[s] = "new" THEN "new" ELSE "done"]
  /\ stop' = [s \in Sessions |-> stop[s] \/ pc[s] # "new"]
  /\ entry' = "absent" /\ conns' = {}
  /\ exists' = row
  /\ gen' = (IF row THEN 1 ELSE 0)
  /\ timer' = gen' /\ watchers' = {gen'} \ {0}
  /\ queued' = {} /\ deleting' = {} /\ failed' = FALSE
  /\ removal' = FALSE /\ refresh' = FALSE /\ peerSees' = FALSE
  /\ lapsed' = (row /\ expired)
  /\ backfill' = IF backfill = "idle" THEN "idle" ELSE "done"
  /\ UNCHANGED <<row, expired, tell, moves, scope>>
-----------------------------------------------------------------------------
Step(s) ==
  \/ UpdateFails(s) \/ Connect(s) \/ CancelGC(s) \/ Register(s) \/ Generate(s)
  \/ Deliver(s) \/ Publish(s) \/ AddFails(s) \/ Cleanup(s) \/ GraceEnds(s) \/ Disconnect(s)
  \/ PublishOffline(s) \/ Schedule(s)

\* A session whose cancelCh is closed leaves its loop by itself.
Stopped(s) == stop[s] /\ Hangup(s)

Server == PublishRemoval \/ PublishRefresh

Collector == \E g \in Gens : Collect(g) \/ DeleteFunc(g)

Next ==
  \/ \E s \in Sessions : Begin(s) \/ Step(s) \/ Hangup(s) \/ Stale(s)
  \/ \E g \in Gens : TimerFires(g) \/ Reap(g)
  \/ Collector \/ CleanupOffline
  \/ DeleteNode \/ Server
  \/ \E exp \in BOOLEAN : SetNodeExpiry(exp)
  \/ Lapse \/ ExpireExpiredNodes \/ Reauth \/ Restart
  \/ BackfillLists \/ BackfillReads \/ BackfillPuts

Spec == Init /\ [][Next]_vars

\* Goroutines that can run do; clients, timers and administrators need not.
FairSpec ==
  /\ Spec
  /\ \A s \in Sessions : WF_vars(Step(s)) /\ WF_vars(Stopped(s))
  /\ WF_vars(Server) /\ WF_vars(Collector)
-----------------------------------------------------------------------------
(* Properties.                                                              *)

\* ActiveSessions is the number of sessions that went through Connect and have
\* not been released, in every interleaving of reconnects and late cleanups,
\* until a BackfillNodeIPs puts back a row, which has no count.
SessionCount == exists /\ backfill # "done" => active = Cardinality(Holders)

\* An online node has a live session, and its key has not expired unless the
\* periodic expiry task has yet to notice; BackfillNodeIPs excepted as above.
OnlineIsLive == exists /\ online /\ backfill # "done" => active > 0 /\ (expired => lapsed)

\* The presence of the node is exact: the count and what is derived from it.
PresenceExact == SessionCount /\ OnlineIsLive

\* An ephemeral node that connected and left is due for deletion: no failed
\* reconnect, late Cancel or restart leaves it without a timer (issue #3382),
\* and none is left with one whose watcher was reaped, unless the database
\* refused to delete it, or BackfillNodeIPs put back a node that was deleted.
EphemeralIsCollected ==
  /\ Quiet({"new", "done"}) /\ exists /\ row
  /\ \E s \in Sessions : pc[s] = "done" /\ Acquired(s)
  => timer \in watchers \cup queued \/ deleting # {} \/ failed

\* The batcher holds no connection of a session that is over, whichever of the
\* failed initial map, the stale send, the deletion and the cleanup came first.
NoGhostConnection ==
  \A s \in conns : pc[s] \in {"adding", "mapped", "publish", "serving", "ending"}

\* The sessions of a deleted node all end (issue #3410), including one that is
\* still between Connect and the delivery of its initial map, unless the node
\* is put back first (BackfillNodeIPs).
DeletedSessionsEnd == ~exists ~> exists \/ Quiet({"new", "done"})

\* comment at the start-up scheduling in app.go: ephemeral nodes "will reconnect
\* and the GC will be cancelled", and of Start: "a reconnected node is not
\* removed".  With nothing else under way, a node that is being served has no
\* deletion armed.
ServedNodeIsNotDue ==
  Quiet({"new", "serving", "done"}) /\ exists /\ Holders # {} => timer = 0

\* comment of serveLongPoll: releases are "harmless regardless of the order
\* they run in".  With nothing under way, peers see the presence of the node.
PeersSeePresence ==
  Quiet({"new", "serving", "done"}) /\ exists /\ ~refresh /\ ~lapsed
  => peerSees = online

\* comment of Node.IsOnline: it "caches [Node.ShouldBeOnline]".
OnlineIsCached == exists /\ ~lapsed => online = ShouldBeOnline(active, expired)
=============================================================================
