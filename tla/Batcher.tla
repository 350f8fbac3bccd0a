------------------------------- MODULE Batcher -------------------------------
(***************************************************************************)
(* How the batcher (hscontrol/mapper/batcher.go, node_conn.go) brings the  *)
(* map streams of one node up to date with the peers it may see: changes   *)
(* queued per node, one bundle at a time in the worker pool, responses     *)
(* generated from the current snapshot and broadcast to the connections,   *)
(* initial maps generated beside them, and shutdown.                       *)
(*                                                                         *)
(* A response is what it does to a client's peer list.  A definition with  *)
(* an underscore in its name is a deliberate fault.                        *)
(***************************************************************************)
EXTENDS Naturals, Sequences, FiniteSets

CONSTANTS
  Peers,       \* the other nodes
  Conns,       \* connections of the recipient, each used once
  Kinds,       \* the kinds of change made in this instance (see Changes)
  MaxOpen,     \* bound: connections registered at the same time
  MaxChanges   \* bound: changes made to the tailnet

ASSUME BatcherAssumption ==
  /\ IsFiniteSet(Peers) /\ IsFiniteSet(Conns)
  /\ Kinds \subseteq {"peer", "removed", "patch", "policy", "full", "ping"}
  /\ MaxOpen \in Nat /\ MaxChanges \in Nat

VARIABLES
  truth,     \* what the NodeStore says of each peer
  made,      \* changes made so far
  transit,   \* the change on its way to AddWork
  pending,   \* multiChannelNodeConn.pending
  inFlight,  \* multiChannelNodeConn.inFlight
  bundle,    \* what is left of the work item
  stage,     \* of the worker that has it: "idle", "queued", "work" or "send"
  resp,      \* the response it generated
  retry,     \* the changes it will put back
  conn,      \* where each connection is
  initial,   \* the initial map generated for a connection
  view,      \* the peers a connection's client knows
  first,     \* the first frame of a connection's stream
  lastSent,  \* multiChannelNodeConn.lastSentPeers
  stop,      \* connections whose session was told to stop
  closing    \* "no", "done" (channel closed) or "closed" (connections stopped)

changeVars == <<truth, made, transit>>
workVars == <<inFlight, bundle, stage, resp, retry>>
connVars == <<conn, initial, view, first, stop>>
vars == <<changeVars, pending, workVars, connVars, lastSent, closing>>

\* A peer before registration, out of sight, offline, online or deleted.
States == {"absent", "hidden", "off", "on", "deleted"}

\* What a client may know of a peer.
Known == {"unknown", "off", "on"}

Nobody == [p \in Peers |-> "unknown"]

\* State.ListPeers
Visible == {p \in Peers : truth[p] \in {"off", "on"}}

\* A response: the peers it replaces the list by (all), those it adds or
\* changes, those it removes, and those it patches.
Nothing == [all |-> FALSE, changed |-> <<>>, removed |-> {}, patch |-> <<>>]

Current(ps) == [p \in ps |-> truth[p]]

\* multiChannelNodeConn.computePeerDiff
computePeerDiff(current) == lastSent \ current

\* Only peers in sight are patched.
filterVisiblePeerPatches(ch) == [p \in {ch.peer} \cap Visible |-> ch.online]

\* Peers that went out of sight are removed, all others are sent again.
policyChangeResponse ==
  [Nothing EXCEPT !.changed = Current(Visible), !.removed = computePeerDiff(Visible)]

buildFromChange(ch) ==
  CASE ch.kind = "peer"    -> [Nothing EXCEPT !.changed = Current({ch.peer} \cap Visible)]
    [] ch.kind = "removed" -> [Nothing EXCEPT !.removed = {ch.peer}]
    [] ch.kind = "patch"   -> [Nothing EXCEPT !.patch = filterVisiblePeerPatches(ch)]
    [] ch.kind = "full"    -> [Nothing EXCEPT !.all = TRUE, !.changed = Current(Visible)]
    [] ch.kind = "ping"    -> Nothing

\* Clients ignore an empty full list, so it carries explicit removals.
generateMapResponse(ch) ==
  IF ch.kind = "policy" THEN policyChangeResponse
  ELSE IF ch.kind = "full" /\ Visible = {}
  THEN [buildFromChange(ch) EXCEPT !.removed = computePeerDiff({})]
  ELSE buildFromChange(ch)

\* The client: a list replaces what it knows only when it is not empty, and a
\* patch applies only to a peer it knows.
Apply(r, known) ==
  [p \in Peers |->
     IF p \in r.removed THEN "unknown"
     ELSE IF p \in DOMAIN r.changed THEN r.changed[p]
     ELSE IF r.all /\ DOMAIN r.changed # {} THEN "unknown"
     ELSE IF p \in DOMAIN r.patch /\ known[p] # "unknown" THEN r.patch[p]
     ELSE known[p]]

\* multiChannelNodeConn.updateSentPeers
updateSentPeers(r, sent) ==
  ((IF r.all THEN {} ELSE sent) \cup DOMAIN r.changed) \ r.removed

IsPolicy(ch) == ch.kind = "policy"

\* change.DedupePolicyChanges: the first policy change of a tick stands for all;
\* what is kept keeps its order.
DedupePolicyChanges(chs) ==
  LET kept == {i \in DOMAIN chs :
                 IsPolicy(chs[i]) => \A j \in 1..(i - 1) : ~IsPolicy(chs[j])}
      rank(i) == Cardinality({j \in kept : j <= i})
  IN  [k \in 1..Cardinality(kept) |-> chs[CHOOSE i \in kept : rank(i) = k]]

Registered == {c \in Conns : conn[c] \in {"waiting", "generated", "delivered",
                                          "recorded", "ready"}}
Ready == {c \in Conns : conn[c] = "ready"}

Changes ==
  [kind : {"peer", "removed"}, peer : Peers]
  \cup [kind : {"patch"}, peer : Peers, online : {"off", "on"}]
  \cup [kind : {"policy", "full", "ping"}]

\* The worker that processes the bundle holds workMu.
Locked == stage \in {"work", "send"}

TypeOK ==
  /\ truth \in [Peers -> States]
  /\ made \in 0..MaxChanges
  /\ transit \in Seq(Changes) /\ Len(transit) <= 1
  /\ pending \in Seq(Changes) /\ bundle \in Seq(Changes) /\ retry \in Seq(Changes)
  /\ Len(pending) + Len(bundle) + Len(retry) <= MaxChanges
  /\ inFlight \in BOOLEAN
  /\ stage \in {"idle", "queued", "work", "send"}
  /\ inFlight <=> stage # "idle"
  /\ conn \in [Conns -> {"new", "waiting", "generated", "delivered", "recorded",
                         "ready", "gone"}]
  /\ view \in [Conns -> [Peers -> Known]]
  /\ first \in [Conns -> {"none", "initial", "delta"}]
  /\ lastSent \in SUBSET Peers
  /\ stop \in SUBSET Conns
  /\ closing \in {"no", "done", "closed"}

Init ==
  /\ truth \in [Peers -> {"absent", "hidden", "off"}]
  /\ made = 0 /\ transit = <<>> /\ pending = <<>>
  /\ inFlight = FALSE /\ bundle = <<>> /\ stage = "idle" /\ resp = Nothing
  /\ retry = <<>>
  /\ conn = [c \in Conns |-> "new"]
  /\ initial = [c \in Conns |-> Nothing]
  /\ view = [c \in Conns |-> Nobody]
  /\ first = [c \in Conns |-> "none"]
  /\ lastSent = {} /\ stop = {} /\ closing = "no"
-----------------------------------------------------------------------------
(* The rest of the server changes the tailnet and publishes the change.     *)

\* Publishers are serialised here: what their races do is MapSession's matter.
Make(ch) ==
  /\ ch.kind \in Kinds
  /\ made < MaxChanges /\ transit = <<>>
  /\ made' = made + 1
  /\ transit' = <<ch>>
  /\ UNCHANGED <<pending, workVars, connVars, lastSent, closing>>

\* NodeAdded: a peer registers, in sight or not.
AddPeer(p, t) ==
  /\ truth[p] = "absent" /\ t \in {"hidden", "off", "on"}
  /\ truth' = [truth EXCEPT ![p] = t]
  /\ Make([kind |-> "peer", peer |-> p])

\* NodeRemoved
DeletePeer(p) ==
  /\ truth[p] \in {"hidden", "off", "on"}
  /\ truth' = [truth EXCEPT ![p] = "deleted"]
  /\ Make([kind |-> "removed", peer |-> p])

\* NodeOnlineFor and NodeOffline
FlipPeer(p, t) ==
  /\ <<truth[p], t>> \in {<<"off", "on">>, <<"on", "off">>}
  /\ truth' = [truth EXCEPT ![p] = t]
  /\ Make([kind |-> "patch", peer |-> p, online |-> t])

\* PolicyChange
ChangePolicy(p, t) ==
  /\ <<truth[p], t>> \in {"hidden"} \X {"off", "on"} \cup {"off", "on"} \X {"hidden"}
  /\ truth' = [truth EXCEPT ![p] = t]
  /\ Make([kind |-> "policy"])

\* FullUpdate, for instance after a new DERP map
UpdateFull ==
  /\ Make([kind |-> "full"])
  /\ UNCHANGED truth

\* PingNode, a change targeted at the recipient
PingNode ==
  /\ Make([kind |-> "ping"])
  /\ UNCHANGED truth

\* Batcher.AddWork and addToBatch: a full update replaces what is pending.
AddWork ==
  /\ transit # <<>>
  /\ transit' = <<>>
  /\ pending' = IF transit[1].kind = "full" THEN transit ELSE pending \o transit
  /\ UNCHANGED <<truth, made, workVars, connVars, lastSent, closing>>
-----------------------------------------------------------------------------
(* Ticker and workers.                                                      *)

\* processBatchedChanges
Tick ==
  /\ closing # "closed"
  /\ ~inFlight /\ pending # <<>>
  /\ inFlight' = TRUE
  /\ bundle' = DedupePolicyChanges(pending)
  /\ pending' = <<>>
  /\ stage' = "queued"
  /\ UNCHANGED <<changeVars, resp, retry, connVars, lastSent, closing>>

\* worker, asynchronous path: take workMu ...
Work ==
  /\ closing # "closed"
  /\ stage = "queued"
  /\ stage' = "work"
  /\ UNCHANGED <<changeVars, pending, inFlight, bundle, resp, retry, connVars, lastSent,
                 closing>>

\* ... generate the response of the next change from the current snapshot ...
Generate ==
  /\ stage = "work" /\ bundle # <<>>
  /\ resp' = generateMapResponse(Head(bundle))
  /\ stage' = "send"
  /\ UNCHANGED <<changeVars, pending, inFlight, bundle, retry, connVars, lastSent,
                 closing>>

\* Delivery of the response: to the connections ok, while those in bad time out.
Deliver(ok, bad) ==
  /\ view' = [c \in Conns |-> IF c \in bad THEN Nobody
                              ELSE IF c \in ok THEN Apply(resp, view[c]) ELSE view[c]]
  /\ first' = [c \in Conns |-> IF c \in ok /\ first[c] = "none" THEN "delta" ELSE first[c]]
  /\ conn' = [c \in Conns |-> IF c \in bad THEN "gone" ELSE conn[c]]
  /\ lastSent' = IF ok # {} THEN updateSentPeers(resp, lastSent) ELSE lastSent
  /\ UNCHANGED <<initial, stop>>

NextChange ==
  /\ bundle' = Tail(bundle)
  /\ stage' = "work"
  /\ resp' = Nothing
  /\ UNCHANGED <<changeVars, pending, inFlight, closing>>

Send_ToAll ==
  /\ stage = "send"
  /\ \E bad \in SUBSET Ready : Deliver(Registered \ bad, bad)
  /\ NextChange
  /\ UNCHANGED retry

Send_NoRetry ==
  /\ stage = "send"
  /\ \E bad \in SUBSET Ready : Deliver(Ready \ bad, bad)
  /\ NextChange
  /\ UNCHANGED retry

\* ... and multiChannelNodeConn.send it to the ready connections.  Without a
\* connection it is dropped; with none that is ready it is kept for later.
Send ==
  /\ stage = "send"
  /\ \E bad \in SUBSET Ready : Deliver(Ready \ bad, bad)
  /\ NextChange
  /\ retry' = IF Registered # {} /\ Ready = {} THEN Append(retry, Head(bundle)) ELSE retry

Finish_KeepInFlight ==
  /\ stage = "work" /\ bundle = <<>>
  /\ pending' = retry \o pending
  /\ retry' = <<>>
  /\ stage' = "idle"
  /\ UNCHANGED <<changeVars, bundle, inFlight, resp, connVars, lastSent, closing>>

\* The bundle is done: unlock, prependPending, clear inFlight.
Finish ==
  /\ stage = "work" /\ bundle = <<>>
  /\ pending' = retry \o pending
  /\ retry' = <<>>
  /\ stage' = "idle"
  /\ inFlight' = FALSE
  /\ UNCHANGED <<changeVars, bundle, resp, connVars, lastSent, closing>>
-----------------------------------------------------------------------------
(* Batcher.AddNode and RemoveNode.                                          *)

others == <<changeVars, workVars, pending, closing>>

\* The connection becomes visible in one Compute, with pendingInitial set.
Register(c) ==
  /\ conn[c] = "new"
  /\ Cardinality(Registered) < MaxOpen
  /\ conn' = [conn EXCEPT ![c] = "waiting"]
  /\ UNCHANGED <<others, initial, view, first, stop, lastSent>>

\* worker, synchronous path: the full map, generated under workMu.
GenerateInitial(c) ==
  /\ closing # "closed"
  /\ conn[c] = "waiting" /\ ~Locked
  /\ conn' = [conn EXCEPT ![c] = "generated"]
  /\ initial' = [initial EXCEPT ![c] = generateMapResponse([kind |-> "full"])]
  /\ UNCHANGED <<others, view, first, stop, lastSent>>

\* The map is the first frame of a client that knows nobody yet ...
DeliverInitial(c) ==
  /\ conn[c] = "generated"
  /\ conn' = [conn EXCEPT ![c] = "delivered"]
  /\ view' = [view EXCEPT ![c] = Apply(initial[c], view[c])]
  /\ first' = [first EXCEPT ![c] = IF first[c] = "none" THEN "initial" ELSE first[c]]
  /\ UNCHANGED <<others, initial, stop, lastSent>>

RecordInitial_Skipped(c) ==
  /\ conn[c] = "delivered" /\ ~Locked
  /\ conn' = [conn EXCEPT ![c] = "recorded"]
  /\ UNCHANGED <<others, initial, view, first, stop, lastSent>>

\* ... then its peers are recorded under workMu ...
RecordInitial(c) ==
  /\ conn[c] = "delivered" /\ ~Locked
  /\ conn' = [conn EXCEPT ![c] = "recorded"]
  /\ lastSent' = updateSentPeers(initial[c], lastSent)
  /\ initial' = [initial EXCEPT ![c] = Nothing]
  /\ UNCHANGED <<others, view, first, stop>>

\* ... and pendingInitial is cleared.
OpenForUpdates(c) ==
  /\ conn[c] = "recorded"
  /\ conn' = [conn EXCEPT ![c] = "ready"]
  /\ UNCHANGED <<others, initial, view, first, stop, lastSent>>

\* The connection leaves the entry and its client is gone.
Drop(c) ==
  /\ conn' = [conn EXCEPT ![c] = "gone"]
  /\ initial' = [initial EXCEPT ![c] = Nothing]
  /\ view' = [view EXCEPT ![c] = Nobody]
  /\ UNCHANGED <<others, first, stop, lastSent>>

\* Generation failed or was refused at shutdown, or the delivery timed out.
AddFails(c) ==
  /\ conn[c] \in {"waiting", "generated"}
  /\ Drop(c)

\* The session ends and calls RemoveNode.
RemoveNode(c) ==
  /\ conn[c] = "ready"
  /\ Drop(c)

\* cleanupOfflineNodes: the entry is dropped, and with it what it remembered.
\* Its bundle is long done: an entry stays for 15 minutes.
CleanupOffline ==
  /\ Registered = {} /\ ~inFlight
  /\ pending # <<>> \/ lastSent # {}
  /\ pending' = <<>>
  /\ lastSent' = {}
  /\ UNCHANGED <<changeVars, workVars, connVars, closing>>
-----------------------------------------------------------------------------
(* Batcher.Close.                                                           *)

CloseDone ==
  /\ closing = "no"
  /\ closing' = "done"
  /\ UNCHANGED <<changeVars, workVars, pending, connVars, lastSent>>

CloseConns_KeepSessions ==
  /\ closing = "done" /\ ~Locked
  /\ closing' = "closed"
  /\ UNCHANGED <<changeVars, workVars, pending, connVars, lastSent>>

\* When every worker has returned, the registered connections are stopped.
CloseConns ==
  /\ closing = "done" /\ ~Locked
  /\ closing' = "closed"
  /\ stop' = stop \cup Registered
  /\ UNCHANGED <<changeVars, workVars, pending, conn, initial, view, first, lastSent>>
-----------------------------------------------------------------------------
Publisher ==
  \/ \E p \in Peers, t \in States : AddPeer(p, t) \/ FlipPeer(p, t) \/ ChangePolicy(p, t)
  \/ \E p \in Peers : DeletePeer(p)
  \/ UpdateFull \/ PingNode

Workers == Tick \/ Work \/ Generate \/ Send \/ Finish

Adding(c) ==
  GenerateInitial(c) \/ DeliverInitial(c) \/ RecordInitial(c) \/ OpenForUpdates(c)

\* A session that was told to stop, or refused at shutdown, ends by itself.
Ending(c) == (c \in stop /\ RemoveNode(c)) \/ (closing = "closed" /\ AddFails(c))

Next ==
  \/ Publisher \/ AddWork \/ Workers
  \/ \E c \in Conns : Register(c) \/ Adding(c) \/ AddFails(c) \/ RemoveNode(c)
  \/ CleanupOffline \/ CloseDone \/ CloseConns

Spec == Init /\ [][Next]_vars

\* The ticker and the workers are always running.  AddNode needs workMu between
\* two bundles, and Close that the workers choose done over more work: a Go
\* mutex is handed to a waiter and select is fair, so both get their turn.
FairSpec ==
  /\ Spec
  /\ WF_vars(AddWork) /\ WF_vars(Workers) /\ SF_vars(CloseConns)
  /\ \A c \in Conns : SF_vars(Adding(c)) /\ WF_vars(Ending(c))
-----------------------------------------------------------------------------
(* Properties.                                                              *)

\* Nothing is under way and the batcher runs.
Drained ==
  /\ closing = "no" /\ transit = <<>> /\ pending = <<>> /\ ~inFlight
  /\ \A c \in Conns : conn[c] \in {"new", "ready", "gone"}

Knows(c) == {p \in Peers : view[c][p] # "unknown"}

\* comment of AddNode: clients reject a stream whose first frame is a delta.
FirstFrameIsInitial == \A c \in Conns : first[c] # "delta"

\* Once everything is delivered, the open stream has told its client exactly the
\* peers the NodeStore lets it see: no addition, removal or policy change that
\* met the initial map half way, a full update or a retry is lost.
PeerListsConverge == Drained => \A c \in Ready : Knows(c) = Visible

\* lastSentPeers, from which removals are computed, is then what the client has.
SentPeersExact == Drained => \A c \in Ready : lastSent = Knows(c)

\* Every change is eventually worked off, with a stream that is being opened or
\* replaced as well: no retry loop and no inFlight left set (comment of inFlight)
\* keeps a node from being updated.
ChangesWorkOff ==
  <>[](closing = "no" => transit = <<>> /\ pending = <<>> /\ ~inFlight)

\* Close ends every session, also one that was still being added.
CloseEndsSessions ==
  closing # "no" ~> \A c \in Conns : conn[c] \in {"new", "gone"}

\* comment of worker: retried changes keep "their order ahead of newer pending
\* changes -- order matters for stateful patches like online/offline".  Once
\* everything is delivered the client knows the presence of its peers.
PresenceConverges ==
  Drained => \A c \in Ready : \A p \in Knows(c) \cap Visible : view[c][p] = truth[p]

\* comment of send: a connection added meanwhile gets "a full initial map", so
\* "missing this update causes no data loss".
NewStreamsMissNothing == PeerListsConverge
=============================================================================
