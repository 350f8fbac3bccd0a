-------------------------------- MODULE Server --------------------------------
(***************************************************************************)
(* The life of the headscale process on one machine: the start (keys,      *)
(* database, version check, migrations, schema validation, state,          *)
(* application, listeners), the administration calls of a running server   *)
(* that change what the next start reads (users, policy, API keys),        *)
(* SIGHUP, the graceful stop of Serve, and a stop at any moment (Crash).   *)
(*                                                                         *)
(* Sources: hscontrol/app.go (NewHeadscale, Serve), db/db.go,              *)
(* db/versioncheck.go, db/policy.go, db/users.go, db/api_key.go,           *)
(* state/state.go and grpcv1.go.  A scenario is what the first start       *)
(* finds (database, files, configuration), the releases that are started,  *)
(* the calls that are made and the services that may be unavailable.  One  *)
(* scenario also has the texts (keys, claims, versions, connection options, *)
(* filter entries, zones) that the operators of Formats read and write.    *)
(***************************************************************************)
EXTENDS Migrations, Config, Formats

CONSTANTS
    Scenarios,  \* a function from names to scenarios
    Callers,    \* concurrent administration calls
    Reloader,   \* the signal handler, which calls ReloadPolicy
    MaxStops,   \* stops, crashes and unavailable services in a behaviour
    MaxCalls    \* administration calls in a behaviour

VARIABLES
    scenario,   \* the name of the scenario
    db,         \* the database
    files,      \* the files next to it
    proc,       \* the process: phase, release, position in a migration
    live,       \* what the running server holds in memory
    call,       \* the calls in progress
    past        \* what happened so far

vars == <<scenario, db, files, proc, live, call, past>>

(* Files: no key, a key file without its content, or the number of a key. *)
Absent == 0
Partial == 1

Dev == <<>>         \* an unversioned build, or no version stored
Down == [phase |-> "down", release |-> Dev, at |-> 1, init |-> FALSE]
Empty == [users |-> {}, policy |-> None, key |-> Absent, streams |-> 0, accepting |-> FALSE, closed |-> FALSE]
Silence == [kind |-> None]
Nobody == [id |-> None, name |-> None, provider |-> None]
Idle == [op |-> None, pc |-> None, user |-> Nobody, text |-> None, key |-> None, users |-> {}]
Actors == Callers \cup {Reloader}
Quiet == [c \in Actors |-> Idle]

phases == {"down", "config", "noise", "noise_write", "open", "migrate", "foreign_keys", "version", "validate",
           "state", "provider", "derp", "derp_write", "derp_map", "listen", "serving",
           "http", "batcher", "streams", "grpc", "close"}
stopping == {"http", "batcher", "streams", "grpc", "close"}
running == {"serving", "http", "batcher", "streams", "grpc"}

file == Scenarios[scenario].file
configs == [s \in DOMAIN Scenarios |-> LoadServerConfig(Scenarios[s].file)]
config == configs[scenario]
sqlite == config.database = "sqlite"

-----------------------------------------------------------------------------
(* What the database says about a start. *)

(* checkVersionUpgradePath: the same minor release as last time, or the
   next one. *)
checkVersionUpgradePath_Any(release, stored) == TRUE
checkVersionUpgradePath(release, stored) ==
    release # Dev /\ stored # Dev =>
        release[1] = stored[1] /\ release[2] \in {stored[2], stored[2] + 1}

(* setDatabaseVersion, which development builds skip. *)
setDatabaseVersion(d, release) == IF release = Dev THEN d ELSE [d EXCEPT !.version = release]

(* What gormigrate still has to run. *)
unrecorded(d) == {k \in 1..Len(migrations) : migrations[k] \notin d.done}
current(d) == CHOOSE k \in unrecorded(d) : \A j \in unrecorded(d) : k <= j
program(p, d) ==
    IF p.init THEN SelectSeq(initSchema, LAMBDA s : sqlite \/ s.op \notin {"panelTable", "ensureUsersCustomColumns"})
    ELSE IF ~sqlite /\ migrations[current(d)] \in sqliteOnly THEN <<>> ELSE statements[current(d)]
foreignKeys(p, d) == sqlite => ~p.init /\ migrations[current(d)] \notin migrationsRequiringFKDisabled

(* PRAGMA foreign_key_check *)
foreignKeyCheck(d) ==
    LET users == Ids(Rows(d, "users")) \cup {None}
        keys == Ids(Rows(d, "pre_auth_keys")) \cup {None}
    IN /\ \A n \in Rows(d, "nodes") : n.user \in users /\ n.key \in keys
       /\ \A k \in Rows(d, "pre_auth_keys") : k.user \in users

(* squibble.Validate against schema.sql, with its IgnoreTables. *)
ignoreTables == {"acl", "log", "users_old", "pre_auth_keys_old", "api_keys_old", "nodes_old", "policies_old"}
validSchema(d) ==
    /\ DOMAIN d.tables \ ignoreTables = DOMAIN expectedColumns
    /\ \A t \in DOMAIN expectedColumns : d.tables[t].cols = expectedColumns[t]
    /\ {i \in d.idx : i[2] \notin ignoreTables} = expectedIndexes

(* The texts of a policy: "open" names nobody, "alice" names alice@ in a
   rule, "attrs" names alice@ as a target of nodeAttrs, "bad" does not parse,
   "partial" is cut short and "" has no bytes. *)
names(p) == IF p = "alice" THEN {"alice"} ELSE {}
targets(p) == IF p = "attrs" THEN {"alice"} ELSE {}
parses(p) == p \notin {"bad", "partial"}

(* validateUserReferences refuses a name that two users share; it does not
   look at nodeAttrs. *)
called(n, users) == {u \in users : u.name = n}
ambiguous(p, users) == \E n \in names(p) : Cardinality(called(n, users)) > 1
accepted(p, users) == parses(p) /\ ~ambiguous(p, users)

(* updateLocked fails on a nodeAttrs target that is not one user. *)
compiles(p, users) == \A n \in targets(p) : Cardinality(called(n, users)) = 1

(* NewPolicyManager *)
usable(p, users) == accepted(p, users) /\ compiles(p, users)

(* PolicyBytes: the file, the newest row, or nothing.  Reading a file that
   is not there is an error. *)
latest(rows) == IF rows = {} THEN None ELSE (CHOOSE r \in rows : \A q \in rows : q.n <= r.n).data
stored(d, f) ==
    IF config.policyMode = "database" THEN latest(Rows(d, "policies"))
    ELSE IF config.policyMode = "file" /\ config.policyPath # "" THEN f.policy ELSE None
PolicyBytes(d, f) == IF stored(d, f) = "" THEN None ELSE stored(d, f)
readable(f) == config.policyMode = "file" /\ config.policyPath # "" => f.policy # None

(* Who may hold which tag, for the migration of the requested tags. *)
owners(d, f) ==
    IF PolicyBytes(d, f) = None \/ ~usable(PolicyBytes(d, f), Rows(d, "users")) THEN {}
    ELSE Scenarios[scenario].owners

(* ValidateAPIKey: keys without an expiry, or with one to come. *)
ValidateAPIKey_Known(d, k) == k \in Ids(Rows(d, "api_keys"))
ValidateAPIKey(d, k) == \E r \in Rows(d, "api_keys") : r.id = k /\ r.expiry \in {"nil", "future"}


-----------------------------------------------------------------------------
(* The start. *)

(* 202507021200, which recreates every table, is under way. *)
recreating ==
    /\ proc.phase = "migrate" /\ ~proc.init /\ unrecorded(db) # {}
    /\ migrations[current(db)] = "202507021200" /\ sqlite

(* The process goes and leaves what it wrote; stops counts those it did not
   choose. *)
Exit(stops) ==
    /\ proc' = Down
    /\ live' = Empty
    /\ call' = Quiet
    /\ past' = [past EXCEPT !.stops = @ + stops, !.torn = @ \/ recreating]
    /\ UNCHANGED <<scenario, db>>

(* An error on the way. *)
Fail == Exit(0) /\ UNCHANGED files

Goto(p) == /\ proc' = [proc EXCEPT !.phase = p, !.at = 1]
           /\ UNCHANGED <<scenario, call>>

(* A service that is not there when the start needs it; MaxStops bounds
   how often. *)
Unavailable(service) ==
    /\ service \in Scenarios[scenario].flaky
    /\ past.stops < MaxStops
    /\ Exit(1)
    /\ UNCHANGED files

Start(release) ==
    /\ proc.phase = "down"
    /\ proc' = [Down EXCEPT !.phase = "config", !.release = release]
    /\ past' = [past EXCEPT !.heard = Silence]
    /\ UNCHANGED <<scenario, db, files, live, call>>

ReadConfig ==
    /\ proc.phase = "config"
    /\ \/ accepts(file) /\ Goto("noise") /\ UNCHANGED <<db, files, live, past>>
       \/ ~accepts(file) /\ Fail

(* readOrCreatePrivateKey: only a file that does not exist is created, and
   os.WriteFile makes it before it has its content. *)
creates_AnyError(error) == error # "nil"
creates(error) == error = "notExist"

readErrors(f) == IF f = Absent THEN {"notExist"} ELSE IF past.stops < MaxStops THEN {"nil", "other"} ELSE {"nil"}

ReadKey(k, next) ==
    /\ proc.phase = k
    /\ \E error \in readErrors(files[k]) :
         \/ /\ creates(error)
            /\ Goto(IF k = "noise" THEN "noise_write" ELSE "derp_write")
            /\ files' = [files EXCEPT ![k] = Partial]
            /\ UNCHANGED <<db, live, past>>
         \/ /\ ~creates(error) /\ error = "other"
            /\ Exit(1)
            /\ UNCHANGED files
         \/ /\ error = "nil" /\ files[k] = Partial /\ Fail
         \/ /\ error = "nil" /\ files[k] # Partial
            /\ Goto(next)
            /\ live' = IF k = "noise" THEN [live EXCEPT !.key = files[k]] ELSE live
            /\ UNCHANGED <<db, files, past>>

WriteKey(k, next) ==
    /\ proc.phase = (IF k = "noise" THEN "noise_write" ELSE "derp_write")
    /\ files' = [files EXCEPT ![k] = past.keys]
    /\ past' = [past EXCEPT !.keys = @ + 1]
    /\ live' = IF k = "noise" THEN [live EXCEPT !.key = past.keys] ELSE live
    /\ Goto(next)
    /\ UNCHANGED db

(* openDB and the version check. *)
OpenDB ==
    /\ proc.phase = "open"
    /\ \/ Unavailable("database")
       \/ ~checkVersionUpgradePath(proc.release, db.version) /\ Fail
       \/ /\ checkVersionUpgradePath(proc.release, db.version)
          /\ proc' = [proc EXCEPT !.phase = "migrate", !.init = (db.done = {})]
          /\ UNCHANGED <<scenario, db, files, live, call, past>>

(* One statement of the migration that is running. *)
Statement ==
    /\ proc.phase = "migrate"
    /\ proc.init \/ unrecorded(db) # {}
    /\ proc.at <= Len(program(proc, db))
    /\ LET s == program(proc, db)[proc.at]
           next == [proc EXCEPT !.at = @ + 1]
           result == Exec(s, db, foreignKeys(proc, db))
       IN IF s.op \in loops
          THEN \/ /\ finished(s, owners(db, files), db)
                  /\ proc' = next
                  /\ UNCHANGED <<scenario, db, files, live, call, past>>
               \/ \E r \in turns(s, owners(db, files), db) :
                    \/ r.ok /\ db' = r.db /\ UNCHANGED <<scenario, files, proc, live, call, past>>
                    \/ ~r.ok /\ Fail
          ELSE \/ /\ result.ok
                  /\ db' = result.db
                  /\ proc' = next
                  /\ UNCHANGED <<scenario, files, live, call, past>>
               \/ ~result.ok /\ Fail

(* gormigrate records a migration after its last statement, and all of
   them one by one after InitSchema. *)
Record ==
    /\ proc.phase = "migrate"
    /\ proc.init \/ unrecorded(db) # {}
    /\ proc.at > Len(program(proc, db))
    /\ LET id == IF proc.init /\ "SCHEMA_INIT" \notin db.done THEN "SCHEMA_INIT" ELSE migrations[current(db)]
           done == db.done \cup {id}
       IN /\ db' = [db EXCEPT !.done = done]
          /\ proc' = IF proc.init THEN [proc EXCEPT !.init = unrecorded(db') # {}] ELSE [proc EXCEPT !.at = 1]
    /\ UNCHANGED <<scenario, files, live, call, past>>

Migrated ==
    /\ proc.phase = "migrate" /\ ~proc.init /\ unrecorded(db) = {}
    /\ Goto("foreign_keys")
    /\ UNCHANGED <<db, files, live, past>>

CheckForeignKeys ==
    /\ proc.phase = "foreign_keys"
    /\ \/ sqlite /\ ~foreignKeyCheck(db) /\ Fail
       \/ (sqlite => foreignKeyCheck(db)) /\ Goto("version") /\ UNCHANGED <<db, files, live, past>>

StoreVersion ==
    /\ proc.phase = "version"
    /\ db' = setDatabaseVersion(db, proc.release)
    /\ Goto("validate")
    /\ UNCHANGED <<files, live, past>>

ValidateSchema ==
    /\ proc.phase = "validate"
    /\ \/ sqlite /\ ~validSchema(db) /\ Fail
       \/ (sqlite => validSchema(db)) /\ Goto("state") /\ UNCHANGED <<db, files, live, past>>

(* NewState: users and policy are loaded, and NewPolicyManager must accept
   the policy. *)
LoadState ==
    /\ proc.phase = "state"
    /\ LET p == PolicyBytes(db, files)
           users == Rows(db, "users")
       IN \/ ~(readable(files) /\ usable(p, users)) /\ Fail
          \/ /\ readable(files) /\ usable(p, users)
             /\ live' = [live EXCEPT !.users = users, !.policy = p]
             /\ Goto("provider")
             /\ UNCHANGED <<db, files, past>>

(* The OIDC provider is asked for its endpoints; without it the server
   falls back to the command line, unless it is required. *)
SetUpProvider ==
    /\ proc.phase = "provider"
    /\ \/ config.oidc /\ config.onlyStartIfOIDCIsAvailable /\ Unavailable("oidc")
       \/ Goto(IF config.derpServer THEN "derp" ELSE "derp_map") /\ UNCHANGED <<db, files, live, past>>

(* The DERP key must not be the Noise key. *)
sameKeys == config.derpServer /\ files.derp = live.key

(* Serve: the DERP map needs a region, from a source or the embedded server.
   The STUN address it asks for is there: derpConfig insists on it. *)
hasRegion == config.derpSources # <<>> \/ (config.derpServer /\ config.embeddedRegion)
LoadDERPMap ==
    /\ proc.phase = "derp_map"
    /\ \/ Unavailable("derp")
       \/ (sameKeys \/ ~hasRegion) /\ Fail
       \/ /\ ~sameKeys /\ hasRegion
          /\ Goto("listen")
          /\ UNCHANGED <<db, files, live, past>>

(* ensureUnixSocketIsAbsent: the socket of a server that crashed goes. *)
ensureUnixSocketIsAbsent_Kept(f) == f
ensureUnixSocketIsAbsent(f) == [f EXCEPT !.socket = FALSE]

Listen ==
    /\ proc.phase = "listen"
    /\ \/ Unavailable("listeners")
       \/ IF ensureUnixSocketIsAbsent(files).socket THEN Fail
          ELSE /\ files' = [files EXCEPT !.socket = TRUE]
               /\ live' = [live EXCEPT !.accepting = TRUE]
               /\ past' = [past EXCEPT !.identity = IF @ = Absent THEN live.key ELSE @,
                                       !.overlapped = FALSE, !.failed = FALSE, !.undone = FALSE]
               /\ Goto("serving")
               /\ UNCHANGED db

-----------------------------------------------------------------------------
(* The administration calls.  A call comes over the socket or with an API
   key; it keeps the other calls it overlaps with in past.overlapped. *)

others(c) == \E o \in Actors \ {c} : call[o].pc # None

Begin(c, o, key) ==
    /\ proc.phase \in running /\ live.accepting
    /\ call[c].pc = None
    /\ call' = [call EXCEPT ![c] = [Idle EXCEPT !.op = o.op, !.pc = o.pc, !.user = o.user, !.text = o.text, !.key = key]]

(* The key comes in the metadata of a gRPC call or the header of a request;
   the socket needs none. *)
grpcAuthenticationInterceptor(d, k) == ValidateAPIKey(d, k)
httpAuthenticationMiddleware(d, k) == ValidateAPIKey(d, k)

Call(c) ==
    /\ past.calls < MaxCalls
    /\ \E o \in Scenarios[scenario].ops, k \in Scenarios[scenario].keys :
         /\ k = None \/ grpcAuthenticationInterceptor(db, k) \/ httpAuthenticationMiddleware(db, k)
         /\ Begin(c, o, k)
         /\ past' = [past EXCEPT !.calls = @ + 1, !.overlapped = @ \/ others(c),
                                 !.answered = @ \/ k \in past.revoked]
    /\ UNCHANGED <<scenario, db, files, proc, live>>

End(c) == call' = [call EXCEPT ![c] = Idle]
At(c, pc) == call[c].pc = pc
Then(c, pc) == call' = [call EXCEPT ![c].pc = pc]

(* Names are unique among the users without a provider and, per provider
   identifier, among the others; a transaction that breaks this is rolled
   back. *)
distinct(rows) ==
    \A u, v \in rows : u # v => u.id # v.id /\ (u.provider # v.provider \/ (u.provider = None /\ u.name # v.name))

withUsers(d, rows) == {[d EXCEPT !.tables.users.rows = r] : r \in {x \in {rows} : distinct(x)}}

GetUserByID(d, id) == {r \in Rows(d, "users") : r.id = id}

(* The transactions of the state, as the set of their outcomes: none when
   they fail.  The columns of the panel are written with the new row, by an
   UPDATE that needs them to be there. *)
setUserAdminFields(d) == usersCustomColumns \subseteq d.tables.users.cols
createUser(d, u, panel) ==
    {e \in withUsers(d, Rows(d, "users") \cup {u}) : GetUserByID(d, u.id) = {} /\ (panel => setUserAdminFields(d))}
updateUser(d, u) ==
    {e \in withUsers(d, {IF r.id = u.id THEN [r EXCEPT !.name = u.name] ELSE r : r \in Rows(d, "users")}) : GetUserByID(d, u.id) # {}}

(* DestroyUser: not while the user has nodes; its pre-auth keys go first. *)
DestroyUser(d, id) ==
    LET keys == {k.id : k \in {x \in Rows(d, "pre_auth_keys") : x.user = id}}
    IN {[d EXCEPT !.tables.users.rows = {r \in @ : r.id # id},
                  !.tables.nodes.rows = {[n EXCEPT !.key = IF @ \in keys THEN None ELSE @] : n \in @},
                  !.tables.pre_auth_keys.rows = {k \in @ : k.id \notin keys}] :
          u \in {r \in GetUserByID(d, id) : \A n \in Rows(d, "nodes") : n.user # id}}

(* A handler runs its transaction and goes on to the policy manager, or
   answers with the error. *)
Transact(c, outcomes) ==
    /\ \/ \E d \in outcomes : db' = d /\ Then(c, "list")
       \/ outcomes = {} /\ End(c) /\ UNCHANGED db
    /\ UNCHANGED <<scenario, files, proc, live, past>>

CreateUser(c) == At(c, "create") /\ Transact(c, createUser(db, call[c].user, call[c].text = "panel"))

(* The lookup and the transaction, which looks again: a user that is gone
   in between gives the same answer. *)
RenameUser(c) == At(c, "rename_user") /\ Transact(c, updateUser(db, call[c].user))
DeleteUser(c) == At(c, "delete") /\ Transact(c, DestroyUser(db, call[c].user.id))

(* updatePolicyManagerUsers: the list is read, then set. *)
ListUsers(c) ==
    /\ At(c, "list")
    /\ call' = [call EXCEPT ![c].pc = "set", ![c].users = Rows(db, "users")]
    /\ UNCHANGED <<scenario, db, files, proc, live, past>>

pushedUsers_Created(c) == IF call[c].op = "create" THEN call[c].users ELSE live.users
pushedUsers(c) == call[c].users

(* PolicyManager.SetUsers goes back to the old list when a new one does not
   compile.  The row stays, the call answers with the error. *)
SetUsers(c) ==
    /\ At(c, "set")
    /\ \/ /\ pushedUsers(c) = live.users \/ compiles(live.policy, pushedUsers(c))
          /\ live' = [live EXCEPT !.users = pushedUsers(c)]
          /\ past' = [past EXCEPT !.undone = FALSE]
       \/ /\ pushedUsers(c) # live.users /\ ~compiles(live.policy, pushedUsers(c))
          /\ past' = [past EXCEPT !.undone = TRUE]
          /\ UNCHANGED live
    /\ End(c)
    /\ UNCHANGED <<scenario, db, files, proc>>

(* PolicyManager.SetPolicy: no bytes change nothing; an accepted policy is
   installed before it is compiled, and stays when that fails. *)
empty(p) == p \in {None, ""}
installed(p) == IF ~empty(p) /\ accepted(p, live.users) THEN p ELSE live.policy
succeeds(p) == empty(p) \/ usable(p, live.users)

(* The gRPC SetPolicy: the running policy first, then the store, then
   ReloadPolicy, which reads the store back.  SSHPolicy, asked for the first
   node in between, fails on an unknown action only, which does not parse. *)
SetPolicy_Unchecked(c) ==
    /\ At(c, "policy")
    /\ Then(c, "store")
    /\ UNCHANGED <<scenario, db, files, proc, live, past>>
SetPolicy(c) ==
    /\ At(c, "policy")
    /\ live' = [live EXCEPT !.policy = installed(call[c].text)]
    /\ \/ succeeds(call[c].text) /\ Then(c, "store") /\ UNCHANGED past
       \/ /\ ~succeeds(call[c].text)
          /\ past' = [past EXCEPT !.failed = @ \/ accepted(call[c].text, live.users)]
          /\ End(c)
    /\ UNCHANGED <<scenario, db, files, proc>>

(* SetPolicyBytes: a row, or a temporary file that is renamed over the
   policy.  Either may fail. *)
writePolicyFile_InPlace(f) == [f EXCEPT !.policy = "partial"]
writePolicyFile(f) == f

newPolicy(rows, text) == [id |-> <<"p1", "p2", "p3", "p4">>[Cardinality(rows) + 1], n |-> Cardinality(rows) + 1, data |-> text]

StorePolicy(c) ==
    /\ At(c, "store")
    /\ \/ /\ config.policyMode = "file" /\ config.policyPath # ""
          /\ files' = writePolicyFile(files)
          /\ Then(c, "rename")
          /\ UNCHANGED <<db, past>>
       \/ /\ config.policyMode = "database"
          /\ db' = [db EXCEPT !.tables.policies.rows = @ \cup {newPolicy(@, call[c].text)}]
          /\ Then(c, "read")
          /\ UNCHANGED <<files, past>>
       \/ /\ (config.policyMode = "file" /\ config.policyPath = "") \/ "store" \in Scenarios[scenario].flaky
          /\ past' = [past EXCEPT !.failed = TRUE]
          /\ End(c)
          /\ UNCHANGED <<db, files>>
    /\ UNCHANGED <<scenario, proc, live>>

RenamePolicyFile(c) ==
    /\ At(c, "rename")
    /\ files' = [files EXCEPT !.policy = call[c].text]
    /\ Then(c, "read")
    /\ UNCHANGED <<scenario, db, proc, live, past>>

(* ReloadPolicy, for a call and for SIGHUP. *)
ReadPolicy(c) ==
    /\ At(c, "read")
    /\ call' = [call EXCEPT ![c].pc = "apply", ![c].text = PolicyBytes(db, files)]
    /\ UNCHANGED <<scenario, db, files, proc, live, past>>

ApplyPolicy(c) ==
    /\ At(c, "apply")
    /\ live' = [live EXCEPT !.policy = installed(call[c].text)]
    /\ past' = [past EXCEPT !.failed = @ /\ installed(call[c].text) # call[c].text]
    /\ End(c)
    /\ UNCHANGED <<scenario, db, files, proc>>

(* SIGHUP; without a configured policy it does nothing. *)
Hangup ==
    /\ proc.phase = "serving"
    /\ ~(config.policyMode = "file" /\ config.policyPath = "")
    /\ past.calls < MaxCalls
    /\ Begin(Reloader, [op |-> "reload", pc |-> "read", user |-> Nobody, text |-> None], None)
    /\ past' = [past EXCEPT !.calls = @ + 1, !.overlapped = @ \/ others(Reloader)]
    /\ UNCHANGED <<scenario, db, files, proc, live>>

(* The row of a new key; prefixes are random, so no two keys share one. *)
CreateAPIKey(d, id, expiry) ==
    [d EXCEPT !.tables.api_keys.rows =
        @ \cup {k \in {[id |-> id, expiry |-> expiry]} : k.id \notin Ids(@) \cup past.revoked}]

(* CreateApiKey stores the zero time when no expiration is asked for. *)
CreateApiKey(c) ==
    /\ At(c, "new_key")
    /\ db' = CreateAPIKey(db, call[c].text, IF call[c].op = "forever" THEN "zero" ELSE "future")
    /\ End(c)
    /\ UNCHANGED <<scenario, files, proc, live, past>>

(* A request names its key by ID or by prefix; both, or neither, is an
   invalid argument. *)
getAPIKey(d, given) == IF Len(given) = 1 THEN {k \in Rows(d, "api_keys") : k.id = given[1]} ELSE {}

(* The first half of ExpireApiKey and DeleteApiKey. *)
FindApiKey(c) ==
    /\ At(c, "get_key")
    /\ IF getAPIKey(db, call[c].text) # {} THEN Then(c, call[c].op) ELSE End(c)
    /\ UNCHANGED <<scenario, db, files, proc, live, past>>

ExpireAPIKey(d, id) ==
    [d EXCEPT !.tables.api_keys.rows = {IF k.id = id THEN [k EXCEPT !.expiry = "past"] ELSE k : k \in @}]
DestroyAPIKey(d, id) == [d EXCEPT !.tables.api_keys.rows = {k \in @ : k.id # id}]

Revoke(c, d) ==
    /\ db' = d
    /\ past' = [past EXCEPT !.revoked = @ \cup {call[c].text[1]}]
    /\ End(c)
    /\ UNCHANGED <<scenario, files, proc, live>>

ExpireApiKey(c) == At(c, "expire_key") /\ Revoke(c, ExpireAPIKey(db, call[c].text[1]))
DeleteApiKey(c) == At(c, "delete_key") /\ Revoke(c, DestroyAPIKey(db, call[c].text[1]))

CallStep(c) ==
    \/ CreateUser(c) \/ RenameUser(c) \/ DeleteUser(c) \/ ListUsers(c) \/ SetUsers(c)
    \/ SetPolicy(c) \/ StorePolicy(c) \/ RenamePolicyFile(c) \/ ReadPolicy(c) \/ ApplyPolicy(c)
    \/ CreateApiKey(c) \/ FindApiKey(c) \/ ExpireApiKey(c) \/ DeleteApiKey(c)

-----------------------------------------------------------------------------
(* Map sessions, counted by clientStreamsOpen, and the stop. *)

(* Shutdown leaves the hijacked connections alone, so sessions open until
   the process is gone.  sigFunc is past its Wait once the count is zero. *)
OpenStream ==
    /\ proc.phase \in running \ {"streams"} /\ live.streams = 0
    /\ Scenarios[scenario].clients
    /\ live' = [live EXCEPT !.streams = 1]
    /\ UNCHANGED <<scenario, db, files, proc, call, past>>

(* A session ends when its client goes away, or when the batcher has closed
   its channel. *)
EndStream ==
    /\ live.streams = 1
    /\ live' = [live EXCEPT !.streams = 0]
    /\ UNCHANGED <<scenario, db, files, proc, call, past>>

(* The order of sigFunc: the scheduler and the collector are stopped with
   the signal, then the HTTP server, the batcher, the sessions, the gRPC
   servers, and at last the listeners and the state. *)
stopOrder_WaitFirst == <<"serving", "http", "streams", "batcher", "grpc", "close">>
stopOrder == <<"serving", "http", "batcher", "streams", "grpc", "close">>
after(p) == stopOrder[1 + CHOOSE i \in 1..5 : stopOrder[i] = p]

Terminate ==
    /\ proc.phase = "serving" /\ call[Reloader].pc = None
    /\ past.stops < MaxStops
    /\ past' = [past EXCEPT !.stops = @ + 1]
    /\ Goto(after("serving"))
    /\ UNCHANGED <<db, files, live>>

(* Shutdown waits no longer than HTTPShutdownTimeout. *)
ShutdownHTTP ==
    /\ proc.phase = "http"
    /\ Goto(after("http"))
    /\ UNCHANGED <<db, files, live, past>>

CloseBatcher ==
    /\ proc.phase = "batcher"
    /\ live' = [live EXCEPT !.closed = TRUE]
    /\ Goto(after("batcher"))
    /\ UNCHANGED <<db, files, past>>

WaitStreams ==
    /\ proc.phase = "streams" /\ live.streams = 0
    /\ Goto(after("streams"))
    /\ UNCHANGED <<db, files, live, past>>

(* GracefulStop takes no more calls and waits for those it has. *)
drained_Not == TRUE
drained == \A c \in Actors : call[c].pc = None

StopGRPC ==
    /\ proc.phase = "grpc"
    /\ \/ /\ live.accepting
          /\ live' = [live EXCEPT !.accepting = FALSE]
          /\ UNCHANGED <<scenario, db, files, proc, call, past>>
       \/ /\ ~live.accepting /\ drained
          /\ Goto(after("grpc"))
          /\ UNCHANGED <<db, files, live, past>>

CloseState ==
    /\ proc.phase = "close"
    /\ files' = [files EXCEPT !.socket = FALSE]
    /\ Exit(0)

Crash ==
    /\ proc.phase # "down"
    /\ past.stops < MaxStops
    /\ Exit(1)
    /\ UNCHANGED files

-----------------------------------------------------------------------------
(* The texts of a scenario, one at a time and before its first start: the
   readers and writers keep no state, and what they made of a text is kept
   in past.heard for the properties. *)
texts(name) == Scenarios[scenario].texts[name]
reads(name) ==
    /\ name \in DOMAIN Scenarios[scenario].texts
    /\ proc = Down /\ past.stops = 0 /\ past.heard = Silence
Hears(r) ==
    /\ past' = [past EXCEPT !.heard = r]
    /\ UNCHANGED <<scenario, db, files, proc, live, call>>

(* The keys that were handed out, and two of earlier releases. *)
created == UNION {NewPreAuthKey({}, {"alice"}, k.user, k.tags, k.prefix, k.secret) : k \in texts("keys").pairs}
createdAPI == {[prefix |-> r.prefix, hash |-> r.hash] : r \in created}
legacyKey == [key |-> <<"a", "a">>, prefix |-> <<>>, hash |-> <<>>, user |-> "alice", tags |-> {}]
legacyAPIKey == [prefix |-> <<"a">>, hash |-> <<"a", "-">>]

PresentKey ==
    /\ reads("keys")
    /\ \E t \in texts("keys").presented :
         Hears([kind |-> "key", text |-> t, auth |-> findAuthKey(created \cup {legacyKey}, t),
                api |-> validateAPIKey(createdAPI \cup {legacyAPIKey}, t)])

NameKey ==
    /\ reads("keys")
    /\ \E prefix \in {k.prefix : k \in texts("keys").pairs} \cup {<<"a">>} :
       \E form \in {prefix} \cup {p \in {<<APIMarker>> \o prefix, <<APIMarker>> \o prefix \o <<"-", "*">>} :
                                    Len(prefix) = PrefixLength} :
         Hears([kind |-> "prefix", prefix |-> prefix, read |-> ParseAPIKeyPrefix(form)])

(* A first login and one more with the same claims; the migration cleans the
   identifier; another login looks its user up. *)
Login ==
    /\ reads("claims")
    /\ \E c, d \in texts("claims") :
         LET new == [name |-> <<>>, email |-> <<>>, provider |-> <<>>, display |-> <<>>]
             u == FromClaim(new, c, TRUE)
         IN Hears([kind |-> "login", first |-> c, other |-> d, user |-> u, again |-> FromClaim(u, c, TRUE),
                   cleaned |-> CleanText(u.provider), sought |-> Identifier(d)])

Forward ==
    /\ reads("proxies")
    /\ \E client \in texts("proxies").clients, forged \in texts("proxies").forged,
          chain \in texts("proxies").chains, form \in {"ip:port", "ip"} :
         LET hops == <<client>> \o chain
             request == [remote |-> [form |-> form, ip |-> Last(hops)],
                         headers |-> [NoHeaders EXCEPT !.x_forwarded_for = forged \o Front(hops)]]
         IN Hears([kind |-> "request", client |-> client,
                   seen |-> trustedProxyRealIP(request, texts("proxies").trusted).remote.ip])

ReadVersion ==
    /\ reads("versions")
    /\ \/ \E v \in [1..3 -> DOMAIN Decimal], lead \in {<<>>, <<"v">>}, suffix \in texts("versions").suffixes :
            Hears([kind |-> "version", meant |-> {[i \in 1..3 |-> Decimal[v[i]]]},
                   read |-> parseVersion(lead \o <<v[1], ".", v[2], ".", v[3]>> \o suffix)])
       \/ \E t \in texts("versions").others :
            Hears([kind |-> "version", meant |-> {}, read |-> parseVersion(t)])

OpenConnection ==
    /\ reads("options")
    /\ \E c \in texts("options") : Hears([kind |-> "options", options |-> c, url |-> ToURL(c)])

CompileRule ==
    /\ reads("rules")
    /\ \E ips \in SUBSET Addresses, junk \in {{}} \cup {{t} : t \in texts("rules")} :
         Hears([kind |-> "rule", ips |-> ips, matched |-> MatchFromStrings(ipSetToStrings(ips) \cup junk)])

(* The network of a prefix: the addresses with the bits of n. *)
block(n, bits, width) == LET size == 2^(width - bits) IN (n - (n % size))..(n - (n % size) + size - 1)

RouteZones ==
    /\ reads("zones")
    /\ \/ \E n \in texts("zones").v4, bits \in 0..(2 * ByteSize) :
            LET network == block(n, bits, 2 * ByteSize)
                zones == GenerateIPv4DNSRootDomain(Parts(Min(network), ByteSize, 2), bits)
            IN Hears([kind |-> "zones", size |-> ByteSize, network |-> network, zones |-> zones,
                      routes |-> magicDNSRoutes([d \in {<<9>>} |-> {"split"}], zones)])
       \/ \E n \in texts("zones").v6, bits \in {0, nibbleLen, 2 * nibbleLen} :
            LET zones == GenerateIPv6DNSRootDomain(Parts(n, nibbleLen, 2), bits)
            IN Hears([kind |-> "zones", size |-> nibbleLen, network |-> block(n, bits, 2 * nibbleLen),
                      zones |-> zones, routes |-> magicDNSRoutes([d \in {<<9>>} |-> {"split"}], zones)])

Reading ==
    \/ PresentKey \/ NameKey \/ Login \/ Forward \/ ReadVersion
    \/ OpenConnection \/ CompileRule \/ RouteZones

-----------------------------------------------------------------------------
Init ==
    /\ scenario \in DOMAIN Scenarios
    /\ db = Scenarios[scenario].db
    /\ files = Scenarios[scenario].files
    /\ proc = Down
    /\ live = Empty
    /\ call = Quiet
    /\ past = [stops |-> 0, calls |-> 0, keys |-> 3, identity |-> Absent, revoked |-> {}, torn |-> FALSE,
               answered |-> FALSE, overlapped |-> FALSE, failed |-> FALSE, undone |-> FALSE, heard |-> Silence]

Starting ==
    \/ \E r \in Scenarios[scenario].releases : Start(r)
    \/ ReadConfig
    \/ ReadKey("noise", "open") \/ WriteKey("noise", "open")
    \/ OpenDB \/ Statement \/ Record \/ Migrated \/ CheckForeignKeys \/ StoreVersion \/ ValidateSchema
    \/ LoadState \/ SetUpProvider
    \/ ReadKey("derp", "derp_map") \/ WriteKey("derp", "derp_map")
    \/ LoadDERPMap \/ Listen

Stopping == ShutdownHTTP \/ CloseBatcher \/ WaitStreams \/ StopGRPC \/ CloseState

Next ==
    \/ Starting
    \/ \E c \in Callers : Call(c)
    \/ \E c \in Actors : CallStep(c)
    \/ Hangup
    \/ OpenStream
    \/ EndStream
    \/ Terminate
    \/ Stopping
    \/ Crash
    \/ Reading

Spec == Init /\ [][Next]_vars

(* The machine runs the process: a start or a stop under way goes on, a
   server that is down is started again, a call returns, and a session
   whose channel is closed ends. *)
FairSpec ==
    /\ Spec
    /\ WF_vars(Starting)
    /\ WF_vars(Stopping)
    /\ \A c \in Actors : WF_vars(CallStep(c))
    /\ WF_vars(live.closed /\ EndStream)

-----------------------------------------------------------------------------
(* Properties. *)

(* Type invariant: the phases of NewHeadscale and Serve, the state they
   build, and no call without a server that takes calls. *)
TypeOK ==
    /\ scenario \in DOMAIN Scenarios
    /\ proc.phase \in phases /\ proc.at \in Nat \ {0} /\ proc.init \in BOOLEAN
    /\ files.noise \in 0..past.keys /\ files.derp \in 0..past.keys /\ files.socket \in BOOLEAN
    /\ db.done \subseteq Range(migrations) \cup {"SCHEMA_INIT"}
    /\ live.streams \in 0..1 /\ live.accepting \in BOOLEAN /\ live.closed \in BOOLEAN
    /\ \A c \in Actors : call[c].pc # None => proc.phase \in running
    /\ past.stops \in 0..MaxStops /\ past.calls \in 0..MaxCalls

original(t) == Rows(Scenarios[scenario].db, t)

kept == \A t \in DOMAIN expectedColumns : Ids(original(t)) \subseteq Ids(Rows(db, t))

(* A server that comes up has every user, node, pre-auth key, API key and
   policy the database had before the first start, whatever migrations ran
   and wherever earlier starts stopped, outside 202507021200. *)
RowsKept == proc.phase = "serving" /\ past.calls = 0 /\ ~past.torn => kept

(* The same wherever they stopped: 202507021200 recreates the tables
   "preserving all data during the process". *)
RowsAlwaysKept == proc.phase = "serving" /\ past.calls = 0 => kept

owner(n) ==
    IF n.user # None THEN n.user
    ELSE IF n.key = None THEN None
    ELSE (CHOOSE k \in original("pre_auth_keys") : k.id = n.key).user

(* What the data migrations leave for a server that comes up: tagged nodes
   belong to no user and do not expire, a node without tags has the owner it
   had or the one its pre-auth key names, no expiry is the zero time, and
   no tag was lost (202601121700 to 202607241200). *)
NodesMigrated ==
    proc.phase = "serving" /\ past.calls = 0 /\ ~past.torn =>
        \A n \in Rows(db, "nodes"), m \in original("nodes") : n.id = m.id =>
            /\ isTagged(n) => n.user = None /\ n.expiry = None
            /\ ~isTagged(n) => n.user = owner(m)
            /\ n.expiry # "zero"
            /\ m.tags \subseteq n.tags

(* The version stored with the database moves to the release that runs, and
   never down nor past a minor release: no start works on a database that
   checkVersionUpgradePath should have refused. *)
VersionsInOrder ==
    [][db'.version # db.version =>
         /\ db'.version = proc.release
         /\ db.version # Dev => /\ db'.version[1] = db.version[1]
                                /\ db'.version[2] = db.version[2] + 1]_vars

(* A server keeps the Noise key its clients know: once one has served with
   a key, every later one has the same (readOrCreatePrivateKey), also when
   starts fail or stop half-way. *)
IdentityKept ==
    past.identity # Absent /\ proc.phase \in running => live.key = past.identity

(* No stop leaves a policy file that is cut short for the next start to
   fail on (writePolicyFile). *)
PolicyFileWhole == files.policy # "partial"

(* With no call in progress and no calls that overlapped since the start,
   the policy in force is the stored one: SetPolicy, the store and
   ReloadPolicy agree.  Two exceptions, both of which the next reload of a
   policy that is accepted ends: a SetPolicy that failed after it had
   installed (the store refused, or nodeAttrs did not compile), and an empty
   text, which is stored and leaves the policy in force. *)
PolicyFollowsStore ==
    /\ proc.phase = "serving" /\ ~past.overlapped /\ ~past.failed
    /\ stored(db, files) # ""
    /\ \A c \in Actors : call[c].pc = None
    => live.policy = PolicyBytes(db, files)

(* The same for the users: the policy manager knows the users of the
   database (updatePolicyManagerUsers), unless the last list it was given
   did not compile and it went back to the one before. *)
UsersFollowStore ==
    /\ proc.phase = "serving" /\ ~past.overlapped /\ ~past.undone
    /\ \A c \in Actors : call[c].pc = None
    => live.users = Rows(db, "users")

(* An API key that was expired or deleted opens no later call, also not
   after restarts (ValidateAPIKey in both authentication middlewares). *)
RevokedKeysStayOut == ~past.answered

(* The base domain takes over the names below it. *)
takesOver(base, name) ==
    base # <<>> /\ \E k \in 1..Len(name) : SubSeq(name, k, Len(name)) = base

(* A configuration the server starts with keeps the server reachable: its
   own name is not under the base domain (for a URL without a port), a
   probe of a subnet router ends before the next one begins, an ephemeral
   node outlives a missed keep-alive of 60 s, and MagicDNS has a domain
   (LoadServerConfig). *)
ConfigsAreSound ==
    proc.phase \notin {"down", "config"} =>
        LET url == Get(file, "server_url") IN
        /\ url.host = url.hostname => ~takesOver(Get(file, "dns_base_domain"), url.hostname)
        /\ config.probeInterval > 0 => config.probeTimeout < config.probeInterval
        /\ config.inactivityTimeout > 60000
        /\ config.dns.proxied => config.dns.domains # <<>>

(* The states of the disk and the configuration that no start gets past:
   the ones a start is meant to refuse, a policy whose nodeAttrs target was
   renamed or deleted after it was stored, and those an ill-timed stop
   leaves behind: a key file without content, and a migration whose effect
   is there but not its record. *)
Wedged ==
    \/ "202501221827" \in db.done /\ "202502131714" \notin db.done /\ ~Has(db, "routes")
    \/ "202507021200" \in db.done /\ "202511131445" \notin db.done /\ ~HasColumn(db, "nodes", "forced_tags")

(* Databases no release left behind: a table of someone else, a dangling
   reference, two users whose identifiers 202505141324 makes equal. *)
Unfit(d) ==
    \/ ~(DOMAIN d.tables \subseteq DOMAIN expectedColumns \cup ignoreTables \cup {"routes"})
    \/ ~foreignKeyCheck(d)
    \/ \E u, v \in Rows(d, "users") : u # v /\ v.provider # None /\ CleanIdentifier(u.provider) = v.provider

Refused ==
    \/ ~accepts(file) \/ ~hasRegion
    \/ files.noise = Partial \/ files.derp = Partial
    \/ config.derpServer /\ files.derp # Absent /\ files.derp = files.noise
    \/ Unfit(Scenarios[scenario].db)
    \/ \E r \in Scenarios[scenario].releases : ~checkVersionUpgradePath(r, db.version)
    \/ ~readable(files) \/ ~usable(PolicyBytes(db, files), Rows(db, "users"))
    \/ Wedged

(* However often it stops, the server comes up again, unless the disk is in
   one of the states above: every other half-done migration, stale socket or
   missing file is dealt with by the next start. *)
StartsAgain == []<>(proc.phase = "serving" \/ Refused)

(* A stop that was asked for completes: no session, call or goroutine that
   sigFunc waits for holds it up. *)
StopsCompletely == proc.phase \in stopping ~> proc.phase = "down"

-----------------------------------------------------------------------------
heard == past.heard

(* A key is found by the text CreatePreAuthKey or CreateAPIKey handed out, and
   by no other, although prefix and secret may contain the separator ("Use
   fixed-length parsing instead of separator-based to handle dashes"): legacy
   keys are found too, and only what precedes the marker is not looked at. *)
KeyTextsExact ==
    heard.kind = "key" =>
      LET t == heard.text
          holds(r, marker) ==
            LET key == KeyText(marker, r.prefix, r.hash)
            IN IsSuffix(key, t) /\ Find(t, marker) = Len(t) - Len(key) + 1
      IN /\ heard.auth = {r \in created : holds(r, AuthMarker)} \cup {r \in {legacyKey} : t = r.key}
         /\ heard.api = {r \in createdAPI : holds(r, APIMarker)}
                         \cup {r \in {legacyAPIKey} : t = r.prefix \o <<".">> \o r.hash}

(* Every form ParseAPIKeyPrefix documents ("hskey-api-{12chars}-***",
   "hskey-api-{12chars}", or just "{12chars}") names the key with that prefix,
   dashes in it included, and a legacy prefix names itself. *)
PrefixFormsAgree == heard.kind = "prefix" => heard.read = {heard.prefix}

(* A user whom one login created is the one the next login of the same
   subject finds (createOrUpdateUserFromClaim looks up Identifier, FromClaim
   stores it), however the provider writes its URL; the clean-up migration
   leaves the identifier alone, another subject of the issuer has another one
   ("Sub=\"..\"" included), and a second login with the same claims changes
   nothing.  Claims without an issuer are stored under another name than they
   are looked up by, and are left out. *)
LoginFindsItsUser ==
    heard.kind = "login" /\ heard.first.iss # <<>> =>
      /\ heard.cleaned = heard.user.provider
      /\ heard.again = heard.user
      /\ CleanText(heard.other.iss) = CleanText(heard.first.iss) =>
           (heard.sought = heard.user.provider <=> Trimmed(heard.other.sub) = Trimmed(heard.first.sub))

(* Handlers see the client: through any chain of trusted proxies the address
   the first of them was called from, whatever the client put into
   X-Forwarded-For ("prepending a value cannot win in a proxy chain"), and
   without proxies the peer itself. *)
ClientSeenThroughProxies == heard.kind = "request" => heard.seen = heard.client

(* A release number is the same with and without the "v" and whatever
   pre-release or build suffix follows it, and nothing else is one: the
   upgrade check compares the release, not its spelling. *)
VersionTextsAgree == heard.kind = "version" => heard.read = heard.meant

(* Every option of the connection that is set reaches the driver and no
   other does; zero is a setting for wal_autocheckpoint ("-1 = default/not
   set, 0 = disabled") and none for busy_timeout. *)
DatabaseOptionsReach ==
    heard.kind = "options" =>
      LET c == heard.options
          value(o) ==
            IF o = "busy_timeout" THEN IF c[o] = 0 THEN {} ELSE {ToString(c[o])}
            ELSE IF o = "wal_autocheckpoint" THEN IF c[o] = -1 THEN {} ELSE {ToString(c[o])}
            ELSE IF o = "foreign_keys" THEN IF c[o] THEN {"ON"} ELSE {}
            ELSE {c[o]} \ {""}
      IN \A url \in heard.url, o \in DOMAIN c \ {"path"} :
           {p[2] : p \in {q \in url.parameters : q[1] = o}} = value(o)

(* The addresses a rule's alias resolves to are the ones its compiled text
   matches: ipSetToStrings writes what MatchFromStrings reads, and an entry
   that cannot be read makes the match "narrower than the input described,
   but never wider". *)
RulesMatchAsResolved == heard.kind = "rule" => heard.matched = heard.ips

(* The reverse zones the MagicDNS resolver is routed cover exactly the
   addresses of the prefix, each once: every IPv4 prefix length, and the IPv6
   lengths that end at a nibble.  Split DNS routes elsewhere stay. *)
ZonesCoverPrefixes ==
    heard.kind = "zones" =>
      /\ \A i \in 0..(2^(2 * heard.size) - 1) :
           Cardinality({z \in heard.zones : Under(Parts(i, heard.size, 2), z)})
             = IF i \in heard.network THEN 1 ELSE 0
      /\ DOMAIN heard.routes = heard.zones \cup {<<9>>} /\ heard.routes[<<9>>] = {"split"}


(* What is on disk survives upgrades and stops: rows, what the migrations
   make of the nodes, the policy file. *)
DataKept == RowsKept /\ NodesMigrated /\ PolicyFileWhole

(* What a running server decides by is what is stored: policy, users and API
   keys. *)
MemoryFollowsStore == PolicyFollowsStore /\ UsersFollowStore /\ RevokedKeysStayOut

(* The configurations that are accepted are sound, and the textual forms of
   keys, identifiers, addresses, versions, options and zones agree. *)
ServerTextsAgree ==
    /\ ConfigsAreSound /\ KeyTextsExact /\ PrefixFormsAgree /\ LoginFindsItsUser
    /\ ClientSeenThroughProxies /\ VersionTextsAgree /\ DatabaseOptionsReach
    /\ RulesMatchAsResolved /\ ZonesCoverPrefixes

(* A server that stopped comes up again, and one that is told to stop does. *)
StartsAndStops == StartsAgain /\ StopsCompletely
=============================================================================
