------------------------------ MODULE Scheduler ------------------------------
(***************************************************************************)
(* The background work of a running server (hscontrol/app.go,              *)
(* scheduledTasks): one loop that sweeps expired keys                      *)
(* (State.ExpireExpiredNodes), refreshes the DERP map (hscontrol/derp),    *)
(* takes over the extra DNS records (hscontrol/dns/extrarecords.go, whose  *)
(* own goroutine watches the file) and probes the routers that share a     *)
(* prefix (state/ha_health.go, state/ping.go, one goroutine per probe).    *)
(* The nodes are NodeRoutes' and every write to them re-runs the election. *)
(*                                                                         *)
(* Time is counted in ticks.  An expiry e lies between tick e and e + 1:   *)
(* the clock is never read at the very instant a key expires.              *)
(*                                                                         *)
(* As in NodeRoutes, a definition with an underscore in its name is a      *)
(* deliberate fault.                                                       *)
(***************************************************************************)
EXTENDS NodeRoutes

CONSTANTS
  Setups,      \* what a behaviour has: see setup
  Fresh,       \* a router that just registered and was approved
  Prefix,      \* the prefix the routers share
  MaxTime      \* bound on the clock

ASSUME SchedulerAssumption ==
  /\ Fresh \in Node /\ ~Fresh.unhealthy
  /\ \A s \in Setups : s.routers \subseteq NodeIDs /\ s.up \in BOOLEAN
  /\ Prefix \in Prefixes
  /\ MaxTime \in Nat

None == "none"
Never == MaxTime + 1      \* a key without expiry
Contents == {"one", "two", "empty", "broken"}   \* of the records file
Readable == {"one", "two"}

VARIABLES
  setup,     \* [routers, up, sessions, silences, slow, approvals, expiries, edits, derp, stops]:
             \* the routers and the bounds of this behaviour
  clock,
  used,      \* how much of each bound is used up
  \* the NodeStore and the sessions
  nodes, routes,
  epoch,     \* Node.SessionEpoch
  sess,      \* the node's poll session, as far as the prober sees it
  expiry,    \* Node.Expiry
  silent,    \* the node does not answer pings
  owed,      \* a PolicyChange is computed and not yet sent
  told,      \* the primaries the peers were sent last
  \* the loop
  pc,        \* where the loop is
  work,      \* the locals of the case it runs
  lastCheck, \* lastExpiryCheck
  lastStable,\* HAHealthProber.lastStableSession, 0 for no entry
  probe,     \* one probe goroutine per node
  pings,     \* nodes whose ping is pending in the pingTracker
  marked,    \* the session each unhealthy mark was decided on (history)
  raced,     \* the store moved under a health batch (history)
  \* the DERP map and where it comes from
  derpSource, derpMap,
  \* the records file and its manager
  file, watch, events,
  man,       \* where ExtraRecordsMan.Run is
  records,   \* ExtraRecordsMan.records, with the hash
  cfgRecords,\* Config.TailcfgDNSConfig.ExtraRecords
  stopping

storeVars == <<nodes, routes, epoch, sess, expiry, owed, told>>
envVars == <<setup, clock, silent>>
proberVars == <<lastStable, probe, pings, marked, raced>>
derpVars == <<derpSource, derpMap>>
fileVars == <<file, watch, events>>
manVars == <<man, records>>
loopVars == <<pc, work, lastCheck>>
vars == <<envVars, used, storeVars, loopVars, proberVars, derpVars, fileVars, manVars,
          cfgRecords, stopping>>

Spend(what) == used[what] < setup[what] /\ used' = [used EXCEPT ![what] = @ + 1]

IsExpired(n) == clock > expiry[n]

ShouldBeOnline(n) == sess[n] # "off" /\ ~IsExpired(n)

\* NodeStore.UpdateNodes: the closures run and the snapshot is published.
UpdateNodes(ns) == nodes' = ns /\ routes' = electPrimaryRoutes(ns, routes)

\* A closure on one node.
UpdateNode(n, f) == UpdateNodes([nodes EXCEPT ![n] = Effect(f, @)])
-----------------------------------------------------------------------------
(* Nodes come and go.  MapSession has the steps of a session in full.       *)

\* Reconnecting clears Unhealthy; a subnet router always needs a recompute.
Connect(n) ==
  /\ sess[n] \in {"off", "grace"}
  /\ Spend("sessions")
  /\ epoch' = [epoch EXCEPT ![n] = @ + 1]
  /\ sess' = [sess EXCEPT ![n] = "joined"]
  /\ UpdateNode(n, [fn |-> "presence", online |-> ~IsExpired(n)])
  /\ owed' = TRUE
  /\ raced' = (raced \/ pc = "batch")
  /\ UNCHANGED <<envVars, expiry, told, loopVars, lastStable, probe, pings, marked,
                 derpVars, fileVars, manVars, cfgRecords, stopping>>

\* The session's connection appears in the batcher, or leaves it.
AddNode(n) ==
  /\ sess[n] = "joined"
  /\ sess' = [sess EXCEPT ![n] = "serving"]
  /\ UNCHANGED <<envVars, used, nodes, routes, epoch, expiry, owed, told, loopVars, proberVars,
                 derpVars, fileVars, manVars, cfgRecords, stopping>>

RemoveNode(n) ==
  /\ sess[n] = "serving"
  /\ used.sessions < setup.sessions
  /\ sess' = [sess EXCEPT ![n] = "grace"]
  /\ UNCHANGED <<envVars, used, nodes, routes, epoch, expiry, owed, told, loopVars, proberVars,
                 derpVars, fileVars, manVars, cfgRecords, stopping>>

Disconnect(n) ==
  /\ sess[n] = "grace"
  /\ sess' = [sess EXCEPT ![n] = "off"]
  /\ UpdateNode(n, [fn |-> "presence", online |-> FALSE])
  /\ owed' = TRUE
  /\ raced' = (raced \/ pc = "batch")
  /\ UNCHANGED <<envVars, used, epoch, expiry, told, loopVars, lastStable, probe, pings, marked,
                 derpVars, fileVars, manVars, cfgRecords, stopping>>

SetApprovedRoutes(n, approve) ==
  /\ Spend("approvals")
  /\ UpdateNode(n, [fn |-> "approve", routes |-> IF approve THEN {Prefix} ELSE {}])
  /\ owed' = TRUE
  /\ raced' = (raced \/ pc = "batch")
  /\ UNCHANGED <<envVars, epoch, sess, expiry, told, loopVars, lastStable, probe, pings, marked,
                 derpVars, fileVars, manVars, cfgRecords, stopping>>

SetNodeExpiry(n, e) ==
  /\ Spend("expiries")
  /\ expiry' = [expiry EXCEPT ![n] = e]
  /\ UpdateNode(n, [fn |-> "expiry", online |-> sess[n] # "off" /\ clock <= e])
  /\ owed' = TRUE
  /\ raced' = (raced \/ pc = "batch")
  /\ UNCHANGED <<envVars, epoch, sess, told, loopVars, lastStable, probe, pings, marked,
                 derpVars, fileVars, manVars, cfgRecords, stopping>>

\* The batcher resolves the change against the store when it sends it.
SendPolicyChange ==
  /\ owed
  /\ owed' = FALSE
  /\ told' = routes
  /\ UNCHANGED <<envVars, used, nodes, routes, epoch, sess, expiry, loopVars, proberVars,
                 derpVars, fileVars, manVars, cfgRecords, stopping>>

Tick ==
  /\ clock < MaxTime
  /\ \E n \in setup.routers : expiry[n] # Never
  /\ clock' = clock + 1
  /\ UNCHANGED <<setup, silent, used, storeVars, loopVars, proberVars, derpVars, fileVars,
                 manVars, cfgRecords, stopping>>

Silence(n) ==
  /\ Spend("silences")
  /\ silent' = [silent EXCEPT ![n] = ~@]
  /\ UNCHANGED <<setup, clock, storeVars, loopVars, proberVars, derpVars, fileVars, manVars,
                 cfgRecords, stopping>>
-----------------------------------------------------------------------------
(* The expiry sweep.                                                        *)

Others == <<used, derpVars, fileVars, manVars, cfgRecords, stopping>>

Nothing == [todo |-> {}]

Idle == pc = "select" /\ ~stopping

\* The sweep's clock reading, the list it takes, the closures it publishes.
expireTick ==
  /\ Idle
  /\ setup.expiries > 0
  /\ pc' = "list"
  /\ work' = [started |-> clock]
  /\ UNCHANGED <<envVars, storeVars, lastCheck, proberVars, Others>>

Lapsed(n) == IsExpired(n) /\ expiry[n] >= lastCheck

expireList ==
  /\ pc = "list"
  /\ pc' = "expire"
  /\ work' = [started |-> work.started, nodes |-> {n \in DOMAIN nodes : Lapsed(n)}]
  /\ UNCHANGED <<envVars, storeVars, lastCheck, proberVars, Others>>

\* The next sweep looks from where this one started.
nextCheck_Now == clock

nextCheck == work.started

\* A key may have been restored since the list was read.
ExpireExpiredNodes ==
  /\ pc = "expire"
  /\ LET gone == {n \in work.nodes : Lapsed(n)}
     IN  /\ UpdateNodes([n \in DOMAIN nodes |->
               IF n \in gone THEN Effect([fn |-> "expiry", online |-> ShouldBeOnline(n)], nodes[n])
               ELSE nodes[n]])
         /\ owed' = (owed \/ \E n \in gone : nodes[n].online)
  /\ lastCheck' = nextCheck
  /\ pc' = "select"
  /\ work' = Nothing
  /\ UNCHANGED <<envVars, epoch, sess, expiry, told, proberVars, Others>>
-----------------------------------------------------------------------------
(* The HA prober.  A probe is [on |-> its session, stable, st]; st is       *)
(* "wait", "timeout" (cancelled, not judged), "yes", "no", "defer", "skip". *)

HANodes ==
  LET online == {n \in DOMAIN nodes : nodes[n].online}
      sharing(p) == {n \in online : p \in AllApprovedRoutes(nodes[n])}
  IN  UNION {sharing(p) : p \in {q \in Prefixes \ ExitPrefixes : Cardinality(sharing(q)) > 1}}

stableSessions_Unseen == [n \in DOMAIN nodes |-> IF n \in HANodes THEN 0 ELSE lastStable[n]]

\* A node that is no candidate any more starts afresh when it is one again.
stableSessions == [n \in DOMAIN nodes |-> IF n \in HANodes THEN lastStable[n] ELSE 0]

haTick ==
  /\ Idle
  /\ setup.probes
  /\ lastStable' = stableSessions
  /\ IF HANodes = {} THEN UNCHANGED <<pc, work>>
     ELSE pc' = "probe" /\ work' = [todo |-> HANodes]
  /\ UNCHANGED <<envVars, storeVars, lastCheck, probe, pings, marked, raced, Others>>

isConnected(n) == sess[n] = "serving"

Judge(n, st) == probe' = [probe EXCEPT ![n].st = st]

probeNode(n) ==
  /\ pc = "probe" /\ n \in work.todo
  /\ work' = [todo |-> work.todo \ {n}]
  /\ \/ /\ ~isConnected(n)
        /\ lastStable' = [lastStable EXCEPT ![n] = 0]
        /\ UNCHANGED <<probe, pings>>
     \/ /\ isConnected(n)
        /\ lastStable' = [lastStable EXCEPT ![n] = epoch[n]]
        /\ probe' = [probe EXCEPT ![n] = [on |-> epoch[n], stable |-> lastStable[n] = epoch[n],
                                          st |-> "wait"]]
        /\ pings' = pings \cup {n}
  /\ UNCHANGED <<envVars, storeVars, pc, lastCheck, marked, raced, Others>>

\* The client calls back; an answer to a cancelled ping is refused.
PingResponseHandler(n) ==
  /\ n \in pings
  /\ isConnected(n) /\ ~silent[n]
  /\ pings' = pings \ {n}
  /\ UNCHANGED <<envVars, storeVars, loopVars, lastStable, probe, marked, raced, Others>>

Waiting(n) == probe[n].st = "wait"

probeAnswered(n) ==
  /\ Waiting(n) /\ n \notin pings
  /\ Judge(n, "yes")
  /\ UNCHANGED <<envVars, storeVars, loopVars, lastStable, pings, marked, raced, Others>>

CancelPing_Not(n) == UNCHANGED pings

CancelPing(n) == pings' = pings \ {n}

\* The timer fires, for a node that would answer a bounded number of times.
probeTimeout(n) ==
  /\ Waiting(n)
  /\ LET reached == isConnected(n) /\ ~silent[n] /\ epoch[n] = probe[n].on
     IN  IF reached THEN Spend("slow") ELSE UNCHANGED used
  /\ CancelPing(n)
  /\ Judge(n, "timeout")
  /\ UNCHANGED <<envVars, storeVars, loopVars, lastStable, marked, raced, derpVars, fileVars,
                 manVars, cfgRecords, stopping>>

\* Silence counts against a session the previous cycle has seen already.
verdict_Fresh(n) ==
  IF ~isConnected(n) THEN "skip" ELSE IF epoch[n] # probe[n].on THEN "defer" ELSE "no"

verdict(n) ==
  IF ~isConnected(n) THEN "skip"
  ELSE IF epoch[n] # probe[n].on \/ ~probe[n].stable THEN "defer" ELSE "no"

probeJudge(n) ==
  /\ probe[n].st = "timeout"
  /\ Judge(n, verdict(n))
  /\ UNCHANGED <<envVars, storeVars, loopVars, lastStable, pings, marked, raced, Others>>

\* The server stops: the goroutine gives up without a result.
probeCancelled(n) ==
  /\ stopping /\ Waiting(n)
  /\ CancelPing(n)
  /\ Judge(n, "skip")
  /\ UNCHANGED <<envVars, storeVars, loopVars, lastStable, marked, raced, Others>>

NoProbe == [on |-> 0, stable |-> FALSE, st |-> "none"]

deferred_Ignored == FALSE

deferred == \E n \in DOMAIN nodes : probe[n].st = "defer"

\* One deferred probe drops the whole cycle.  BatchSetNodeHealth leaves out
\* what would not change ...
probesDone ==
  /\ pc = "probe" /\ work.todo = {}
  /\ \A n \in DOMAIN nodes : probe[n].st \notin {"wait", "timeout"}
  /\ LET said == {n \in DOMAIN nodes : probe[n].st \in {"yes", "no"}}
         turns == {n \in said : nodes[n].unhealthy # (probe[n].st = "no")}
     IN  IF deferred \/ turns = {}
         THEN pc' = "select" /\ work' = Nothing /\ probe' = [n \in DOMAIN nodes |-> NoProbe]
         ELSE /\ pc' = "batch" /\ UNCHANGED probe
              /\ work' = [turns |-> turns, prev |-> routes]
  /\ UNCHANGED <<envVars, storeVars, lastCheck, lastStable, pings, marked, raced, Others>>

PrimaryRoutesEqual_Always(prev) == TRUE

PrimaryRoutesEqual(prev) == routes' = prev

\* ... publishes the rest in one snapshot and compares the primaries.
BatchSetNodeHealth ==
  /\ pc = "batch"
  /\ LET after(n) == IF n \in work.turns THEN healthSetter(nodes[n], probe[n].st = "yes") ELSE nodes[n]
     IN  /\ UpdateNodes([n \in DOMAIN nodes |-> after(n)])
         /\ marked' = [n \in DOMAIN nodes |-> IF after(n).unhealthy /\ n \in work.turns
                                              THEN probe[n] ELSE marked[n]]
  /\ owed' = (owed \/ ~PrimaryRoutesEqual(work.prev))
  /\ probe' = [n \in DOMAIN nodes |-> NoProbe]
  /\ pc' = "select" /\ work' = Nothing
  /\ UNCHANGED <<envVars, epoch, sess, expiry, told, lastCheck, lastStable, pings, raced, Others>>
-----------------------------------------------------------------------------
(* The DERP map: a map takes some region numbers to a region or to null.    *)

\* Of two maps with the same region the later one wins; null removes it.
mergeDERPMaps(maps) ==
  LET ids == UNION {DOMAIN maps[k] : k \in DOMAIN maps}
      last(r) == CHOOSE k \in DOMAIN maps :
                   /\ r \in DOMAIN maps[k]
                   /\ \A j \in DOMAIN maps : r \in DOMAIN maps[j] => j <= k
      kept == {r \in ids : maps[last(r)][r] # "null"}
  IN  [r \in kept |-> maps[last(r)][r]]

\* A source is read only if it answers and what it says parses; the status
\* of an HTTP answer is not looked at.
loadDERPMap(s) == s.answers /\ s.parses

\* The sources in order; one that cannot be had fails the whole.
GetDERPMap(src) ==
  [ok  |-> \A k \in DOMAIN src : loadDERPMap(src[k]),
   map |-> mergeDERPMaps([k \in DOMAIN src |-> src[k].map])]

EmbeddedRegion == 0

\* Added to what was fetched, at start-up and on every refresh.
withEmbedded(m) ==
  [r \in DOMAIN m \cup {EmbeddedRegion} |-> IF r = EmbeddedRegion THEN "own" ELSE m[r]]

derpTick ==
  /\ Idle
  /\ setup.derp > 0
  /\ pc' = "fetch"
  /\ UNCHANGED <<envVars, used, storeVars, work, lastCheck, proberVars, derpVars, fileVars,
                 manVars, cfgRecords, stopping>>

afterFailure_Returns == "done"

afterFailure == "select"

\* A fetch that fails is retried, with the loop waiting, until it succeeds,
\* the server stops or the back-off gives up.
derpFetch ==
  /\ pc = "fetch"
  /\ \/ /\ GetDERPMap(derpSource).ok
        /\ derpMap' = withEmbedded(GetDERPMap(derpSource).map)
        /\ pc' = "select"
     \/ /\ ~GetDERPMap(derpSource).ok \/ stopping
        /\ pc' = afterFailure
        /\ UNCHANGED derpMap
  /\ UNCHANGED <<envVars, used, storeVars, work, lastCheck, proberVars, derpSource, fileVars,
                 manVars, cfgRecords, stopping>>

\* What is published at the first source changes, or cannot be had.
Publish(m) ==
  /\ Spend("derp")
  /\ derpSource' = [derpSource EXCEPT ![1] = m]
  /\ UNCHANGED <<envVars, storeVars, loopVars, proberVars, derpMap, fileVars, manVars, cfgRecords,
                 stopping>>
-----------------------------------------------------------------------------
(* The extra records.  watch is what fsnotify watches: the file, its        *)
(* directory, or (the file was deleted) nothing.                            *)

\* External: an event is queued for what is watched; deleting ends the watch.
Edit(c) ==
  /\ Spend("edits")
  /\ c # file
  /\ file' = c
  /\ LET op == IF c = None THEN "remove" ELSE "write"
     IN  events' = IF watch = "nothing" THEN events ELSE Append(events, op)
  /\ watch' = IF c = None /\ watch = "file" THEN "nothing" ELSE watch
  /\ UNCHANGED <<envVars, storeVars, loopVars, proberVars, derpVars, manVars, cfgRecords, stopping>>

\* A file that is being written, or says the same, changes nothing; else
\* the new records are handed to the loop.
updateRecords ==
  IF file \in Readable /\ file # records
  THEN records' = file /\ man' = "send"
  ELSE man' = "run" /\ UNCHANGED records

manEvent ==
  /\ man = "run" /\ events # <<>>
  /\ events' = Tail(events)
  /\ IF Head(events) = "write" THEN updateRecords ELSE man' = "wait" /\ UNCHANGED records
  /\ UNCHANGED <<envVars, used, storeVars, loopVars, proberVars, derpVars, file, watch, cfgRecords,
                 stopping>>

\* waitUntilPathExists, which may find the file or run out of patience; the
\* directory is watched then.
manWait ==
  /\ \/ man = "wait" /\ file # None /\ man' = "add" /\ UNCHANGED watch
     \/ man = "wait" /\ file = None /\ man' = "watch dir" /\ UNCHANGED watch
     \/ man = "watch dir" /\ man' = "run" /\ watch' = "dir"
  /\ UNCHANGED <<envVars, used, storeVars, loopVars, proberVars, derpVars, file, events, records,
                 cfgRecords, stopping>>

afterAdd_NotRead == man' = "run" /\ UNCHANGED records

\* The file is read once it is watched again.
afterAdd == updateRecords

\* The watch is put on the file again; a file that is gone by now ends Run.
manAdd ==
  /\ man = "add"
  /\ \/ /\ file # None
        /\ watch' = IF watch = "dir" THEN "dir" ELSE "file"
        /\ afterAdd
     \/ file = None /\ man' = "gave up" /\ UNCHANGED <<watch, records>>
  /\ UNCHANGED <<envVars, used, storeVars, loopVars, proberVars, derpVars, file, events, cfgRecords,
                 stopping>>

\* The unbuffered channel: the manager's send meets the loop's receive.
recordsUpdate ==
  /\ Idle
  /\ man = "send"
  /\ cfgRecords' = records
  /\ man' = "run"
  /\ UNCHANGED <<envVars, used, storeVars, loopVars, proberVars, derpVars, fileVars, records,
                 stopping>>

seesClose_NotSending == {"run", "wait"}

seesClose == {"run", "wait", "send"}

\* Close: wherever Run waits, it sees closeCh.
manClose ==
  /\ stopping
  /\ man \in seesClose
  /\ man' = "closed"
  /\ UNCHANGED <<envVars, used, storeVars, loopVars, proberVars, derpVars, fileVars, records,
                 cfgRecords, stopping>>
-----------------------------------------------------------------------------
Stop ==
  /\ ~stopping
  /\ Spend("stops")
  /\ stopping' = TRUE
  /\ UNCHANGED <<envVars, storeVars, loopVars, proberVars, derpVars, fileVars, manVars, cfgRecords>>

loopEnds ==
  /\ pc = "select" /\ stopping
  /\ pc' = "done"
  /\ UNCHANGED <<envVars, used, storeVars, work, lastCheck, proberVars, derpVars, fileVars,
                 manVars, cfgRecords, stopping>>

Bounds == {"sessions", "silences", "slow", "approvals", "expiries", "edits", "derp", "stops"}

Init ==
  /\ setup \in Setups
  /\ clock = 0
  /\ used = [b \in Bounds |-> 0]
  /\ nodes = [n \in setup.routers |-> [Fresh EXCEPT !.online = setup.up]]
  /\ routes = electPrimaryRoutes(nodes, NoRoutes) /\ told = routes /\ owed = FALSE
  /\ epoch = [n \in setup.routers |-> IF setup.up THEN 1 ELSE 0]
  /\ sess = [n \in setup.routers |-> IF setup.up THEN "serving" ELSE "off"]
  /\ expiry = [n \in setup.routers |-> Never]
  /\ silent = [n \in setup.routers |-> FALSE]
  /\ pc = "select" /\ work = Nothing /\ lastCheck = 0
  /\ lastStable = [n \in setup.routers |-> 0]
  /\ probe = [n \in setup.routers |-> NoProbe]
  /\ pings = {} /\ marked = [n \in setup.routers |-> NoProbe] /\ raced = FALSE
  /\ derpSource = setup.sources
  /\ derpMap = withEmbedded(GetDERPMap(setup.sources).map)
  /\ file = "one" /\ watch = "file" /\ events = <<>> /\ man = "run"
  /\ records = "one" /\ cfgRecords = "one"
  /\ stopping = FALSE

Sessions ==
  \E n \in setup.routers : Connect(n) \/ AddNode(n) \/ RemoveNode(n) \/ Disconnect(n)

Probing(n) == probeNode(n) \/ probeAnswered(n) \/ probeTimeout(n) \/ probeJudge(n) \/ probeCancelled(n)

LoopRuns ==
  expireList \/ ExpireExpiredNodes \/ probesDone \/ BatchSetNodeHealth \/ derpFetch \/ loopEnds
Managing == manEvent \/ manWait \/ manAdd \/ manClose

Next ==
  \/ Sessions
  \/ \E n \in setup.routers : Silence(n) \/ PingResponseHandler(n) \/ Probing(n)
  \/ \E n \in setup.routers : SetApprovedRoutes(n, TRUE) \/ SetApprovedRoutes(n, FALSE)
  \/ \E n \in setup.routers, e \in 0..Never : SetNodeExpiry(n, e)
  \/ SendPolicyChange
  \/ Tick
  \/ expireTick \/ haTick \/ derpTick \/ LoopRuns
  \/ \E m \in setup.published : Publish(m)
  \/ \E c \in Contents \cup {None} : Edit(c)
  \/ recordsUpdate \/ Managing
  \/ Stop

\* Go's select picks among the cases that are ready at random, so a sender
\* that waits is served even if a ticker is always ready too: strong
\* fairness.  The rest is goroutines that run and clients that answer.
Fairness ==
  /\ WF_vars(SendPolicyChange)
  /\ WF_vars(expireTick \/ haTick \/ derpTick) /\ WF_vars(LoopRuns)
  /\ WF_vars(Managing)
  /\ SF_vars(recordsUpdate)
  /\ \A n \in NodeIDs : WF_vars(n \in setup.routers /\ (Probing(n) \/ PingResponseHandler(n)))

Spec == Init /\ [][Next]_vars /\ Fairness
-----------------------------------------------------------------------------
\* The state of the loop, its goroutines and what they work on.
TypeOK ==
  /\ IsNodeMap(nodes) /\ routes \in Routes /\ told \in Routes
  /\ pc \in {"select", "list", "expire", "probe", "batch", "fetch", "done"}
  /\ man \in {"run", "wait", "watch dir", "add", "send", "gave up", "closed"}
  /\ \A n \in DOMAIN nodes : probe[n].st \in {"none", "wait", "timeout", "yes", "no", "defer", "skip"}
  /\ pings \subseteq {n \in DOMAIN nodes : Waiting(n)}
  /\ pc \notin {"probe", "batch"} => probe = [n \in DOMAIN nodes |-> NoProbe]
  /\ file \in Contents \cup {None} /\ records \in Readable /\ cfgRecords \in Readable
  /\ lastCheck <= clock

\* A router is only ever marked unhealthy for leaving a ping unanswered on a
\* session the cycle before had seen: a session that just began is spared
\* (ProbeOnce, the fresh-session deferral).
FreshSessionsSpared ==
  \A n \in DOMAIN nodes :
    nodes[n].unhealthy => marked[n].st = "no" /\ marked[n].stable /\ marked[n].on <= epoch[n]

\* The step that applies a cycle's results gives a prefix to another router
\* only if that router answered, or its connection was gone when it was to be
\* pinged or judged (it keeps its standing then).  One that was silent gets it
\* only if it had been marked in an earlier cycle and another writer lifted
\* that mark (a new session, a withdrawn approval) since the results were read.
InformedFailover ==
  pc = "batch" /\ pc' = "select" =>
    \A s \in Scopes, p \in Prefixes, n \in DOMAIN nodes :
      routes'[s][p] = n /\ routes[s][p] # n =>
        \/ probe[n].st \in {"yes", "none", "skip"}
        \/ probe[n].st = "no" /\ n \notin work.turns /\ raced

\* A failover lands on no router the same cycle had to defer, and on a silent
\* one only in the case above, whatever the election of one batch does with
\* the marks of the others (ProbeOnce's comment: one batch, so that no primary
\* flips onto an unreachable peer, and no partial one).
FailoverIsInformed == [][InformedFailover]_vars

Serving(n) == n \in setup.routers /\ isConnected(n) /\ nodes[n].online /\ AllApprovedRoutes(nodes[n]) # {}

\* A router that stays connected but stops answering does not stay primary
\* while another one answers, however the sessions, sweeps and probe cycles
\* interleave (ProbeOnce, BatchSetNodeHealth).
SilentRoutersDemoted ==
  \A n, m \in NodeIDs : n # m =>
    (<>[](/\ Serving(n) /\ silent[n] /\ Serving(m) /\ ~silent[m] /\ ~stopping)
       => <>[](routes[Global][Prefix] # n))

\* Whatever moves a primary, the peers are sent the assignment that holds
\* afterwards, unless another writer moved the store inside a health batch:
\* BatchSetNodeHealth compares with the assignment it read before.
PrimariesTold == (told # routes) ~> (told = routes \/ raced)

\* A node whose key expires is taken offline by some sweep, with the clock
\* moving between the sweep's start, its list and its write
\* (ExpireExpiredNodes, lastExpiryCheck).
ExpiryTakesOffline ==
  \A n \in NodeIDs :
    (n \in setup.routers /\ IsExpired(n) /\ nodes[n].online)
      ~> (n \notin setup.routers \/ ~IsExpired(n) \/ ~nodes[n].online \/ stopping)

\* The loop goes on after any failed refresh: once the sources can be had the
\* map of the sources is served, with the embedded region.
DerpFollowsSources ==
  <>[](setup.derp > 0 /\ GetDERPMap(derpSource).ok /\ ~stopping)
    => <>[](derpMap = withEmbedded(GetDERPMap(derpSource).map))

\* Once the records file is left alone and readable its records are served,
\* through deletions and re-creations; except that Run may have ended with
\* the file gone when it was to be watched again, and that a file created
\* just before the directory is watched goes unseen.
RecordsFollowFile ==
  <>[](file \in Readable /\ ~stopping)
    => <>[](cfgRecords = file \/ man = "gave up" \/ watch = "dir")

\* Stopping ends the loop and the records goroutine, also when one waits
\* for a ping, a source, a file or the other.
SchedulerStops ==
  stopping ~> (pc = "done" /\ man \in {"closed", "gave up"})

\* The routers that carry a prefix follow the probes: no uninformed failover,
\* no silent router kept, no peer left with the old assignment.
RoutersFollowProbes == FailoverIsInformed /\ SilentRoutersDemoted /\ PrimariesTold

\* The other tasks of the loop get done, and the loop ends when it is told to.
TasksGetDone ==
  ExpiryTakesOffline /\ DerpFollowsSources /\ RecordsFollowFile /\ SchedulerStops

\* What electOneScope says of a prefix it leaves unmapped: "until a probe
\* cycle picks one that responds".
RespondersServe ==
  \A n \in NodeIDs :
    <>[](Serving(n) /\ ~silent[n] /\ ~stopping) => <>[](routes[Global][Prefix] # NoNode)
=============================================================================
