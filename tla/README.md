# Headscale in TLA+

A verification development for the control server under `src/hscontrol`: TLA+ modules translated
from the Go code, the TLC instances that check them, and proofs that TLAPS checks. `PROJECT.json`
records, for every definition, the lines it models, for every run what it shows, the hazards of
the code with the properties that would notice them, and the proved results.

## The system and its parts

| Part | Source | Here |
| --- | --- | --- |
| NodeStore: copy-on-write snapshot of all nodes, one batching writer goroutine | `state/node_store.go` | `NodeRoutes`, `NodeStore` |
| Primary-route election | `state/node_store.go`, `types/node.go` | `NodeRoutes`; its promise in `PrimaryRoutes` |
| Map sessions (long polls), presence, key expiry, ephemeral collector | `poll.go`, `noise.go`, `state/state.go`, `db/node.go`, `app.go` | `MapSession` |
| Batcher and node connections | `mapper/batcher.go`, `mapper/node_conn.go` | `Batcher` |
| Mapper, changes, map requests, admin calls on nodes | `mapper/`, `types/change`, `state/state.go`, `grpcv1.go` | `Netmap` |
| Policy language, SSH rules, validation, policy tests | `policy/v2/` | `PolicyLang`, `PolicySSH`, `PolicyValidation`, `PolicyText` |
| Policy manager and its callers | `policy/v2/policy.go`, `state/state.go` | `PolicyManager` |
| Registration, pre-auth keys, IP allocator, rows | `auth.go`, `state/state.go`, `db/` | `Registry`, `Enrolment` |
| Auth requests, OIDC, SSH checks | `auth.go`, `oidc.go`, `noise.go`, `types/common.go` | `AuthFlow` |
| Scheduled tasks: HA prober, expiry sweep, DERP refresh, extra records | `app.go`, `state/ha_health.go`, `derp/`, `dns/` | `Scheduler` |
| Start, migrations, configuration, users, API keys, stop | `app.go`, `db/`, `types/config.go` | `Migrations`, `Config`, `Formats`, `Server` |
| Templates, page and debug handlers, embedded DERP relay, command line, generated code | | not modelled |

They interact as follows. A client registers (`auth.go`), with a pre-auth key or through a login in
a browser, and gets a row in the database and a node in the NodeStore. Its long poll (`poll.go`)
updates the node, `Connect`s (one more active session, online), cancels its ephemeral deletion and
registers a connection with the batcher, which generates and delivers an initial map. Every
operation that changes a node returns a `Change`; the caller hands it to the batcher, which appends
it to the pending list of each recipient. A tick turns the pending list into one work item per node,
and a worker generates a response per change from the current snapshot and the current policy, and
sends it to the node's ready connections. When the poll ends, its cleanup removes the connection,
waits for a reconnect, `Disconnect`s, publishes the offline change and schedules the deletion of an
ephemeral node. The scheduled tasks, the administrators' calls and a policy reload produce changes
of the same kind. The policy manager holds its own copy of users and nodes, which the state layer
hands to it after each change that may matter.

## Modules

**NodeRoutes** holds the fields of a node that routing, naming and visibility read, the closures
handed to `UpdateNodes` (`Effect`), and the pure algorithms: `resolveGivenName`, `updateChanges`
(`RelationMoved`, `ElectionMoved`), `electOneScope`, `electPrimaryRoutes`. A given name is a label
and the sequence of collision suffixes on it, so that a client may ask for what another node was
bumped to.

**NodeStore** has one process per caller and the writer. `snap` is the published pointer; `queue`,
the batch and the private copy `wnodes` belong to the writer. `Offer` to `Return` are a caller's
write, `Receive`, `Tick` and `StopWriter` are `processWrite`, the `Apply...` actions are the cases of
`applyBatch`'s loop, `BuildPeers` is the call of the peers function (which reads the policy at that
moment) and `Store` the election, the pointer store and the answers. `SetPolicy` changes the policy
and asks for a rebuild. **PrimaryRoutes** is the abstract specification of the published
primaries: what the comment of `electPrimaryRoutes` promises for every republication.

**MapSession** models one ephemeral node and its sessions. A session's `pc` walks through
`serveLongPoll` and its deferred cleanup; each NodeStore write is atomic (it is one closure), and
publishing the resulting change is a later step. The collector has its timer table, watcher
goroutines and delete channel, told apart by generation as in the code. The admin operations are
expiry, deletion, re-authentication and `BackfillNodeIPs` (list, read, put). A restart forgets
everything that is not in the database.

**Batcher** models one recipient, its entry in `Batcher.nodes`, its connections, the change stream
and what each client knows. Changes are made and handed over in two steps; generation and send are
separate steps under `workMu`; `AddNode` is registration, generation, delivery, recording and
opening. The client's reading of a response (`Apply`) is external.

**Netmap** has several nodes and watches two of them as viewers. Its state is the store, the rows'
users, the policy and its lagging copy in the policy manager, the calls in progress, the pending
changes and what each viewer's client has. Each request of a client or an administrator is a call
of several steps (store, row, policy manager, automatic approval, publication), and `Change`'s `Merge`,
`IsEmpty`, filtering by recipient and the mapper's builders are operators. A row may fail to be written,
because the database refuses it (`SaveFails`) or the node was deleted meanwhile (`PersistRow`): the call
ends and publishes nothing, and `lost` remembers what the clients were not told. A policy is reduced to
what the mapper and `NodeNeedsPeerRecompute` ask of it: who sees whom, which routes a viewer may use,
which routers via grants steer to, relays, tags, approvals and attributes.

**PolicyLang**, **PolicySSH**, **PolicyValidation** and **PolicyText** are the pure part of the
policy: alias resolution, compilation of rules, reduction for a node, via steering, node
attributes; SSH rules and check parameters; validation and embedded tests; and the texts of ports,
protocols, aliases, grants and metadata. **PolicyManager** is the manager with its caches, and
callers of `SetPolicy`, `SetUsers` and `SetNodes` that interleave, fail half-way and are undone.
`ReadView` and `Render` are a map session that reads its node and later asks for its filter, matchers
and SSH policy; `Ask` is the questions for routes, check periods and tags, whose answers are kept in
`outcome`.

**Registry** has the pure part of registration: key and node records, the allocator's next
address, validation. **Enrolment** is the calls themselves, each a sequence of steps with the locks
the code holds, the rows beside the store, writes the database may refuse, rollback, and restarts.

**AuthFlow** is the cache of pending requests with its size and lifetime, devices that wait on a
follow-up, browsers that sign in and confirm, administrators, SSH checks and the recorded approvals.

**Scheduler** is the `select` loop of `scheduledTasks` with what it starts: the probe cycle (one
step per ping, answer and time-out, the verdict and the health batch), the expiry sweep, the DERP
refresh with its retries and the extra-records watcher.

**Migrations** lists the migrations as statements on sets of rows, **Config** the defaults,
validation and derived settings, **Formats** the textual forms. **Server** is a process that starts,
migrates, serves and stops over a database, key files, a socket and a policy file, and may crash
between any two statements.

Texts and pure algorithms are checked the same way in `PolicyManager` and `Server`: an action of its
own reads one page (one input from a small set), records what the functions answer, and the
properties compare the answers with each other.

A definition with an underscore in its name is a deliberate fault of the definition it is named
after. It is used nowhere; putting it in the place of the original must violate the property
`PROJECT.json` pairs it with, which shows that the property can fail.

## Runs

| Run | Checks |
| --- | --- |
| `store_routes` | `PrimariesCurrent`, refinement `PrimaryRoutesPromise` |
| `store_writes` | `UniqueGivenNames`, `PeersCurrent`, `PolicyReachesPeers`, `WritesReturn` |
| `session_core` | `NoGhostConnection`, `PresenceExact`, `EphemeralIsCollected`, `DeletedSessionsEnd` |
| `session_collector` | `ServedNodeIsNotDue`, which the code does not keep |
| `batcher_stream` | `PeerListsConverge`, `SentPeersExact` |
| `batcher_live` | `FirstFrameIsInitial`, `ChangesWorkOff`, `CloseEndsSessions` |
| `policy_core` | `CachesCurrent`, `PeerMapFollowsPolicy`, `PolicyAgrees`, `PolicyTextsAgree`, `SilentUpdatesChangeNothing` |
| `enrol_core` | `OwnedXorTagged`, `NodesDistinct`, `SingleUse`, `RowsSound`, `InvalidKeysChangeNothing` |
| `auth_core` | `FollowupsAreOwn`, `LinksBindIdentities`, `AutoApprovalIsCurrent`, `AnswersArrive` |
| `scheduler_core` | `FreshSessionsSpared`, `RoutersFollowProbes`, `TasksGetDone` |
| `server_core` | `DataKept`, `IdentityKept`, `MemoryFollowsStore`, `ServerTextsAgree`, `VersionsInOrder`, `StartsAndStops` |
| `netmap_core` | `NetmapsSettle`, `SentTracksClient` |

`tlc -config X.cfg M` repeats a run; `PROJECT.json` names the module and the configuration and says in
a sentence what each shows. Several properties are conjunctions of statements
that belong together and are stated one by one in the module:

- `PresenceExact`: `SessionCount`, `OnlineIsLive`.
- `PolicyAgrees`: `AdmittedArePeers`, `OneCarrier`, `NoDanglingReference`, `TagAuthority`,
  `AttributeChangesKept`. `PolicyTextsAgree`: one statement per kind of text.
- `NodesDistinct`: `OneNodePerOwner`, `AddressesUnique`. `RowsSound`: `RowsConverge`, `ClaimedDevicesStay`.
- `LinksBindIdentities`: `ConfirmedByOwner`, `NodesAreSignedFor`, `SpentLinksAreGone`. `AnswersArrive`:
  `WaitersAnswered`, `RegisteredClientsLearn`.
- `RoutersFollowProbes`: `FailoverIsInformed`, `SilentRoutersDemoted`, `PrimariesTold`. `TasksGetDone`:
  `ExpiryTakesOffline`, `DerpFollowsSources`, `RecordsFollowFile`, `SchedulerStops`.
- `DataKept`: `RowsKept`, `NodesMigrated`, `PolicyFileWhole`. `MemoryFollowsStore`: `PolicyFollowsStore`,
  `UsersFollowStore`, `RevokedKeysStayOut`. `ServerTextsAgree`: one statement per textual form.
  `StartsAndStops`: `StartsAgain`, `StopsCompletely`.
- `NetmapsSettle`: `NetmapsConverge`, `SelfKnown`, `EndpointsAnnounced`.

Some properties name cases in which the code does not keep them; outside these the run finds none:

- `CachesCurrent`: entries left by an update that failed on a node attribute, and entries made before a
  user was renamed or put back, where the policy has autogroup:self or via grants or the compiled grants
  are those of refused users. The latter still are right for the users they were made from.
- `OneCarrier`: two routers carry one route where a regular grant overlaps a via grant, or the viewer
  routes the prefix itself; one of the two is then the primary the viewer sees.
- `SilentUpdatesChangeNothing`: a `SetUsers` where autogroup:self or via grants are in force, and an update
  after one that failed.
- `MemoryFollowsStore`: calls that overlapped; a policy that failed after it was installed; an empty text;
  users that were put back. The next call that succeeds ends each but the first.
- `NetmapsSettle`: peers on which two operations overlapped; after a refused row, all but the DERP map
  until the next recomputation; a node's own entry when its change was lost; the attributes of a node
  whose list was set back in the policy manager; the device in the addresses of DNS resolvers.

### Where the code and its comments disagree

`session_collector` ends with a counterexample: the cleanup of the last session calls `Schedule` after
the next session's `Cancel`, so a node that is being served stays due for deletion, where the comments
say that a reconnected node is not removed.

Ten more configurations each state a sentence of a comment, or what it suggests, that the code
does not keep. They are kept beside the runs; TLC ends each with a counterexample:

| Configuration | Statement | What happens |
| --- | --- | --- |
| `MCMapSessionPresence` | releases are harmless in any order | an old offline change is published after a newer online one |
| `MCMapSessionReauth` | `IsOnline` caches `ShouldBeOnline` | re-authentication writes `Expiry` only |
| `MCBatcherMissed` | a connection added meanwhile loses nothing | its initial map was generated before a change that an older connection took |
| `MCBatcherOrder` | retried changes keep their order | a connection opens for updates in the middle of a bundle |
| `MCPolicyCheck` | the call back of a check rule is answered | `SSHCheckParams` finds no period for rules on local parts |
| `MCEnrolmentRows` | at rest the row is what the store has | re-registrations write rows outside `persistMu` and may restore an older version |
| `MCAuthVerdict` | a failed check is not authenticated | a verdict is delivered once; a second follow-up reads the closed channel |
| `MCSchedulerLone` | an unmapped prefix waits until a probe cycle picks a router that responds | a lone unhealthy router is never probed again |
| `MCServerRows` | migration 202507021200 preserves all data | a stop between its statements loses the rows of a table |
| `MCNetmapLag` | the policy manager has the store's nodes | two calls list in one order and set in the other |

Further behaviour a reader of the comments may not expect, found while modelling:

- `SetGivenName` reports no error and no node when the store stops, or when a later operation of the
  batch deletes the node (`state/node_store.go:382`).
- `BackfillNodeIPs` replaces a stored node by its database row and so resets the session count; the
  code has a TODO (`state/state.go:1167`). `PresenceExact` is claimed until a backfill put.
- A full update takes the place of all pending changes, a ping request included (`mapper/batcher.go:666`).
- A rename of a user leaves filter and matcher caches as they were, and with autogroup:self or via grants
  is not reported as a change. A `SetPolicy` that fails on a node attribute keeps the policy it installed,
  and the caches of the old one; no rebuild of the adjacency follows. A `SetUsers` that fails puts the
  users back and not what was compiled from them.
- Two routers carry one prefix for a viewer when a regular grant covers what a via grant steers.
- The comment at `policy/v2/policy.go:229` says that a stale policy naming a deleted user should not block
  boot; a user missing from the targets of `nodeAttrs` does. Renaming or deleting such a user commits the
  row, answers with an error and leaves the old list in the manager.
- An empty policy text is stored and leaves the policy in force until a restart (`policy/v2/policy.go:552`).
- A reload that fails after it wrote approvals (`state/state.go:3047`) publishes nothing. If a node was
  deleted under it, the deletion has the peers recomputed, but the attribute changes the reload drained
  are gone. If the database refused the row, everybody waits for the next recomputation; the comment at
  `state/state.go:966` says so for the expiry of a node.
- A client that changes its host name or system is not sent the DNS resolvers with the new device in
  their addresses: the change names itself as origin and yields the node's own entry only.
- Two browsers that look up one registration link before either has used it both register the device,
  each for its own identity: `HandleNodeFromAuthPath` looks up before it takes the lock of the machine
  (`state/state.go:2276`) and not again.
- A relogin announces only the new key; a rename's announcement is replaced by a policy change;
  patches carry values read before publishing.
- A failed registration that is rolled back may bring back a node that was deleted meanwhile; an
  address pair reserves its IPv4 part before it fails on the IPv6 part.
- The OIDC state is read and removed in two steps; an SSH approval is recorded after a policy
  replacement cleared the others, if the check started before.
- The schema version is stored before the schema is validated; a policy the store accepted may
  keep the server from starting once two users match one name.

### Bounds

- NodeStore: three identifiers, two callers with one write at a time each, batches of up to two. Every
  property relates operations of one batch or two consecutive snapshots, and two concurrent writes give
  all pairs of operations in one batch and in two. `MaxPolicy` bounds policy replacements.
- MapSession: three sessions give an old, a current and a new one overlapping. `Scopes` pairs a number
  of sessions with the operations that happen in a behaviour: three sessions alone; two with expiry
  and re-authentication, with a restart, and with deletion and backfill; one with expiry,
  re-authentication and a restart.
- Batcher: `MaxChanges` (three: one in a bundle, one pending, one in transit), `MaxOpen` overlapping
  connections, `Kinds` of change: membership and visibility with two peers in `batcher_stream`; patches,
  full updates and pings with one peer in `batcher_live`.
- PolicyManager: four nodes, two callers and two edits in all, one that fills or invalidates a cache and
  one that races it. `Scopes` are three casts: reloads of policies, one of which fails late; renames of a
  user whom rules, autogroup:self and node attributes name; and updates no client needs to hear of.
- Enrolment: two machines, three node keys, two users, three pre-auth keys, two calls at a time and
  three in all, one refused write or restart. The address pools are small enough to run dry.
- AuthFlow: `Scopes` are five casts: two devices, a cache of one entry, two browsers, identities with
  different owners, SSH checks. `Period` and `MaxTime` let an approval grow stale once.
- Scheduler: two routers and eight setups, each with one or two tasks; the clock stops at `MaxTime`.
- Server: scenarios are databases of several ages, settings, admin calls and texts, two of them with
  policies that stop compiling or never did; two callers and a SIGHUP, two stops or crashes. Lengths of keys and addresses are shortened (`PrefixLength`, `Width`...).
- Netmap: three nodes, two of them viewers, of which all announce one subnet and one is a tagged exit node;
  four policies, with and without relay and via; two callers, two operations in all, one refused row
  (`MaxFaults`). Each exception above and each case of `RoutesForPeer` is reached.
- Callers, sessions, peers and connections are interchangeable; symmetry is used only in runs
  that check no liveness.
- Deadlock is checked for NodeStore and PolicyManager. Elsewhere sessions, changes and calls are
  finite, and the system may rest.

### Fairness

- NodeStore: the writer goroutine runs and its ticker fires; a caller blocked in a `select` with a
  ready case proceeds. Nobody has to call anything, and `Stop` may never come.
- MapSession: goroutines that can run do, and a session whose `cancelCh` is closed leaves its loop.
  Clients, timers and administrators are not fair.
- Batcher: ticker and workers run. `AddNode` waits for `workMu`, and `Close` for the workers to pick the
  closed channel over more work; a Go mutex is handed to a starving waiter and `select` picks among
  ready cases at random, so both are strongly fair. No client has to connect or disconnect.
- AuthFlow: entries expire, an answer in a channel is received, a device that may poll polls.
- Scheduler: the loop runs, its tickers fire, probes time out or are answered. The records channel is
  one of several ready cases of a `select`, hence strongly fair. Routers need not answer, and sources
  and files need not change.
- Server: starting, stopping and each call proceed; a stream ends once its channel is closed. Nobody
  has to call, crash or stop.
- PolicyManager, Enrolment and Netmap have safety properties only and no fairness.

## Proofs

TLC checks a small instance; the theorems hold for every value of the constants that satisfies the
named assumption of the module. `TypeCorrect` states the types of NodeStore, MapSession, Batcher,
AuthFlow and Scheduler. Each proof follows one pattern: an invariant that is inductive, one lemma per action (or per group of
actions that disturb the same conjuncts), the theorem from both. Each invariant
was first checked with TLC on the instance of the run, except the last conjunct of `ClaimInv`, which
ranges over functions on the naturals. Leaves name the back end (`Zenon`, `SMTT(n)`) where the default order
of the provers would lose time; a module checks with `tlapm M.tla` in 5 to 20 minutes.

**NodeStoreProofs** (`NodeRoutesAssumption`, `NodeStoreAssumption`: natural identifiers, a batch size,
initial nodes with unique names). `NamesUnique`, `PrimariesStayCurrent`, `PeersStayCurrent`,
`BatchStaysConsistent`, `PolicyIsNotLost`, and `PrimariesImplementPromise`: NodeStore implements
`PrimaryRoutes`. None of the snapshot invariants is inductive. `Store` publishes the private copy and
skips the election or the adjacency when a flag is unset, so it has to be known that an unset flag means
the inputs did not move since the last snapshot (`BatchInv`). With
`Inv == UniqueGivenNames /\ PrimariesCurrent /\ PeersCurrent /\ BatchInv`, every `Apply...` action keeps
`BatchInv`, and `Store` turns it into the other three. Two lemmas about the algorithms carry the
argument: an election is a fixpoint of itself (`ElectionIsStable`), so skipping it with equal inputs
skips nothing; and among as many bumps as there are names plus one there is a free one
(`ResolvedNameIsFree`). `PolicyIsNotLost` follows the rebuild a caller asked for through the queue, the
batch and the answer (`RebuildInv`). The refinement is a step simulation with the identity mapping.

**MapSessionProofs** (`MapSessionAssumption`: finitely many sessions). `PresenceStaysExact`,
`EphemeralStaysDue`, `ConnectionsEnd`, jointly inductive as
`IInv == TypeOK /\ ShapeInv /\ CountInv /\ CollectInv /\ NoGhostConnection`: whether a release is the last
one is decided by the count, so the collector's argument needs the count to be the number of holders,
and the count needs the shape of a session's program counter.

**BatcherProofs** (`BatcherAssumption`: finitely many peers and connections). `InitialComesFirst` for
any number of overlapping connections, from `WorkInv` (who may hold `workMu` and what is in flight) and
`FirstInv` (a connection without a frame is not ready). `SentPeersStayExact` and `PeerListsAreRight`
assume `MaxOpen = 1`: with overlapping connections they are false (`MCBatcherMissed`). Convergence is
proved as a state invariant, `StreamInv == BaseInv /\ ClientInv /\ DeliveryInv`: wherever the client is wrong
about a peer, a change whose processing will correct it is in transit, pending, in the bundle or
waiting to be retried, and when nothing is under way nothing is wrong.

**NetmapProofs** (`NetmapAssumption`). `SentFollowsClient`: the server's record of the peers a client
has is the client's list, at every moment. Server and client apply a response in different orders
(the server adds and then removes, the client removes and then adds), so they agree only because no
response removes a peer it carries; that is `OneWay` of every change any operation publishes, kept by
merging and deduplication (`NetInv == QueueInv /\ CallInv /\ StoreInv /\ ListInv`). Calls that fail
half-way are part of the claim, with any number of refused rows.

**AuthFlowInvariant** and **AuthFlowProofs** (`AuthAssumption`). `FollowupsStayOwn`, `LinksStayBound`,
`ApprovalsStayCurrent`. The invariant `AuthInv` has one conjunct per kind of state: the cache and its
order, parked requests, nodes, clients, logins, confirmations, tasks of administrators, spent links,
SSH checks. `LinksStayBound` says whose the nodes are, not that a link makes one only: every node was made
by a request of its own machine, for an identity that signed in or was named on it; a confirmation acts
for who signed in in the same browser; and a request that made a node is in the cache only while its
handler finishes. It needs all of the conjuncts, since a confirmation, an administrator and an eviction
may hold the same entry at once. `AuthFlowInvariant` has the definitions and the steps of
devices, clocks and checks; `AuthFlowProofs` those of browsers and administrators, and the theorems.

**SchedulerProofs** (`SchedulerAssumption`). `SparesFreshSessions`: only a router that left a ping
unanswered on a session the cycle before had seen is unhealthy. `FailoverStaysInformed`: applying a
health batch moves no prefix onto a router whose probe is deferred or that the same cycle found silent,
the first part of `RoutersFollowProbes`. Routers that were not probed, or skipped because they left, may
get one; and so may a silent one whose mark of an earlier cycle another writer lifted meanwhile, since the
batch then carries no turn for it. `SchedInv == StoreInv /\ ProbeInv /\ BatchInv /\ MarkInv /\ SweepInv /\ FileInv`.

**EnrolmentProofs** (`EnrolmentAssumption`). `OwnershipStaysExclusive` and `KeysAreSpentOnce` from
`EnrolInv == CallInv /\ NodeInv /\ KeyInv`: what a handler holds across its steps is owned or tagged,
and a handler about to commit with a one-shot key finds it unspent in the same transaction.
`InvalidKeysStayInert` needs more: that no other call changes the node between the look-up and the
update. `ClaimInv` says that callers between these steps hold the lock of a machine, and that every node
belongs to one machine for ever (`\E own : Agrees(own)`, the map from nodes to machines). It assumes that
no request is a backfill: `BackfillNodeIPs` takes no registration lock, and putting back an old row
between the two steps, with the key deleted meanwhile, does change the tags.

### Only model-checked

- Liveness, because fairness is out of the prover's reach: `WritesReturn`, `DeletedSessionsEnd`,
  `ChangesWorkOff`, `CloseEndsSessions`, `AnswersArrive`, `TasksGetDone`, `StartsAndStops`, and
  `SilentRoutersDemoted` and `PrimariesTold` of `RoutersFollowProbes`.
- The policy properties: the module reaches `RECURSIVE` operators (the texts are parsed recursively),
  and what compilation computes is induction over the policy.
- `NodesDistinct` and `RowsSound`: they hold for one refused write or restart and not for any number; a
  second fault, or a backfill that puts an old row back, breaks them. The bound is part of the claim.
- `NetmapsSettle`: it has the exceptions listed above, and relates what the mapper builds from several
  lagging copies; its invariant would be that of `Batcher` for every
  kind of change.
- `DataKept`, `IdentityKept`, `MemoryFollowsStore`, `ServerTextsAgree`, `VersionsInOrder`: what a list of
  migrations or a text function computes is induction over data.

## Not modelled

- Rendering of pages, health checks and debug pages (`handlers.go`, `debug.go`), which change nothing; the
  command line, generated code, metrics, logs.
- The error of `SSHPolicy` when a new policy is verified (`grpcv1.go:759`): unknown actions are refused when
  the text is parsed and addresses are valid, so no accepted policy reaches it.
- A `SetPolicy` or `SetUsers` that fails late, in `NodeStore` and `Netmap`: there the policy is abstract and
  always compiles. `PolicyManager` and `Server` have the failure.
- SQL beyond sets of rows; JSON, YAML and HTTP parsing; TLS, Noise and OIDC tokens, which are reduced to
  who signed in on which link.
- The embedded DERP relay and the STUN server (`derp/server/`), which wire libraries to HTTP.
- Several recipients in one `Batcher` (`Netmap` has two): they share the worker pool and the order of
  the stream; a saturated pool is a worker that does not move.
- Backfill and allocation with only one address family configured.
- Lookup indexes of the snapshot, which are derived from the node map.
