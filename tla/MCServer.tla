------------------------------- MODULE MCServer -------------------------------
(* Instances of Server for TLC: databases of several releases and
   administration scenarios, each small. *)
EXTENDS Server, TLC

User(id, name, provider) == [id |-> id, name |-> name, provider |-> provider]
Node(id, user, key, json, tags, asked, expiry) ==
    [id |-> id, user |-> user, key |-> key, tags |-> tags, json |-> json, asked |-> asked,
     expiry |-> expiry, approved |-> {}]

alice == User("1", "alice", None)

(* A database: its tables, and the migrations before number k recorded. *)
upTo(k) == {migrations[i] : i \in 1..k}
columns(k) ==
    [users |-> IF k >= 8 THEN usersCustomColumns ELSE {},
     pre_auth_keys |-> IF k >= 11 THEN {"prefix", "hash"} ELSE {},
     api_keys |-> {},
     nodes |-> (IF k >= 13 THEN {"tags"} ELSE {"forced_tags"}) \cup (IF k >= 4 THEN {"approved_routes"} ELSE {})
               \cup (IF k >= 6 THEN {"last_seen"} ELSE {}),
     policies |-> {}]
indexes(k) == {i \in expectedIndexes : k >= 11 \/ i[1] # "idx_pre_auth_keys_prefix"}
Database(k, version, users, keys, nodes, apiKeys, policies) ==
    [tables |->
        [t \in {"users", "pre_auth_keys", "api_keys", "nodes", "policies"} |->
           Table(columns(k)[t],
                 CASE t = "users" -> users [] t = "pre_auth_keys" -> keys [] t = "nodes" -> nodes
                   [] t = "api_keys" -> apiKeys [] t = "policies" -> policies,
                 usersOf(t))],
     idx |-> indexes(k), done |-> upTo(k), version |-> version]
NoDatabase == [tables |-> <<>>, idx |-> {}, done |-> {}, version |-> Dev]

Latest == Len(migrations)
Url(labels) == [scheme |-> "https", hostname |-> labels, host |-> labels]
base == [server_url |-> Url(<<"hs", "example", "com">>), noise_private_key_path |-> "noise",
         dns_base_domain |-> <<"tail", "net">>, dns_nameservers_global |-> <<"1.1.1.1">>,
         prefixes_v4 |-> "100.64.0.0/10", database_type |-> "sqlite", derp_urls |-> <<"derp">>,
         policy_path |-> "policy"]
NoFiles == [noise |-> Absent, derp |-> Absent, policy |-> "open", socket |-> FALSE]
Keyed == [NoFiles EXCEPT !.noise = 2]

Scenario(d, f, c) ==
    [db |-> d, files |-> f, file |-> c @@ base, releases |-> {<<0, 29>>}, owners |-> {}, ops |-> {},
     keys |-> {None}, flaky |-> {}, clients |-> FALSE, texts |-> <<>>]

key1 == [id |-> "k1", user |-> "1"]
now == Database(Latest, <<0, 29>>, {alice}, {key1}, {Node("1", "1", "k1", "[]", {}, {}, None)},
                {[id |-> "a1", expiry |-> "future"], [id |-> "a2", expiry |-> "nil"]},
                {[id |-> "p1", n |-> 1, data |-> "open"]})
Op(op, pc, user, text) == [op |-> op, pc |-> pc, user |-> user, text |-> text]

(* Databases that the start has to migrate. *)
nodes27 == {Node("1", "1", "k1", "null", {}, {}, "zero"), Node("2", "1", None, "list", {"t1"}, {}, "later"),
            Node("3", "1", None, "[]", {}, {"t2"}, None), Node("4", "1", None, "null", {}, {}, None)}
(* A database before 202507021200, of the official release and of one with
   the panel's columns and tables. *)
db26(cols) ==
    [Database(3, Dev, {alice, User("2", "bob", "double")}, {key1}, {Node("1", "1", "k1", "[]", {}, {}, "zero")},
              {[id |-> "a1", expiry |-> "nil"]}, {}) EXCEPT
       !.tables.users.cols = cols,
       !.tables = ("routes" :> Table({}, {[id |-> "r1", node |-> "1", prefix |-> "net", enabled |-> TRUE]}, None)) @@ @]
upstream26 == db26({})
panel26 == [db26(usersCustomColumns) EXCEPT
              !.tables = ("acl" :> Table({}, {[id |-> "c1", user |-> "1"]}, "users"))
                         @@ ("log" :> Table({}, {}, "users")) @@ @]
db27 == Database(10, Dev, {alice}, {key1}, nodes27, {[id |-> "a1", expiry |-> "nil"]}, {})
db28 == [Database(15, <<0, 28>>, {alice}, {key1}, {Node("1", None, "k1", "null", {}, {}, None)}, {}, {})
           EXCEPT !.tables.users.cols = {}]

upgrades ==
    [fresh |-> Scenario(NoDatabase, NoFiles, <<>>),
     postgres |-> Scenario(NoDatabase, NoFiles, [database_type |-> "postgres"]),
     v26 |-> Scenario(panel26, Keyed, <<>>),
     v27 |-> [Scenario(db27, Keyed, <<>>) EXCEPT !.owners = {<<"1", "t2">>}],
     v28 |-> Scenario(db28, Keyed, <<>>),
     twins |-> Scenario([panel26 EXCEPT !.tables.users.rows = @ \cup {User("3", "carol", "single")}], Keyed, <<>>),
     dangling |-> Scenario([db28 EXCEPT !.tables.pre_auth_keys.rows = {}], Keyed, <<>>),
     notes |-> Scenario([now EXCEPT !.tables = ("notes" :> Table({}, {}, None)) @@ @], Keyed, <<>>),
     downgrade |-> [Scenario(now, Keyed, <<>>) EXCEPT !.releases = {<<0, 28>>, <<0, 29>>, <<0, 30>>, <<0, 31>>, Dev}]]

settings ==
    [oidc |-> [Scenario(now, Keyed, [oidc_issuer |-> Url(<<"idp">>), oidc_client_id |-> "id", oidc_client_secret |-> "s"])
                 EXCEPT !.flaky = {"oidc", "listeners", "database"}],
     derp |-> [Scenario(now, Keyed, [derp_server_enabled |-> TRUE, derp_server_stun_listen_addr |-> "stun"])
                 EXCEPT !.flaky = {"derp"}],
     copied |-> Scenario(now, [Keyed EXCEPT !.derp = 2],
                         [derp_server_enabled |-> TRUE, derp_server_stun_listen_addr |-> "stun"]),
     regions |-> Scenario(now, Keyed, [derp_urls |-> <<>>]),
     nested |-> Scenario(now, Keyed, [dns_base_domain |-> <<"example", "com">>]),
     probing |-> Scenario(now, Keyed, [node_routes_ha_probe_timeout |-> 10000])]

(* Texts: keys with dashes in every place, claims of two issuers, a chain of
   proxies, spellings of releases, connection options, filter entries. *)
chars == {"a", "-"}
Claim(iss, sub) ==
    [iss |-> iss, sub |-> sub, username |-> <<"a", "1">>, email |-> <<"a", "@", "1">>, verified |-> "'true'", name |-> sub]
idp == <<"https:", "//idp">>
Options(path, busy, wal, fk, journal, lock) ==
    [path |-> path, busy_timeout |-> busy, wal_autocheckpoint |-> wal, foreign_keys |-> fk, journal_mode |-> journal,
     auto_vacuum |-> "INCREMENTAL", synchronous |-> "", txlock |-> lock]
MCTexts ==
    [keys |-> [pairs |-> {[prefix |-> <<"a", "a">>, secret |-> <<"-", "-">>, user |-> "alice", tags |-> {}],
                          [prefix |-> <<"a", "-">>, secret |-> <<"a", "-">>, user |-> "nobody", tags |-> {<<"tag:", "a">>}],
                          [prefix |-> <<"-", "a">>, secret |-> <<"-", "a">>, user |-> "alice", tags |-> {<<"tag:", "a">>}],
                          [prefix |-> <<"-", "-">>, secret |-> <<"a", "a">>, user |-> "nobody", tags |-> {}]},
               presented |-> {<<m>> \o t : m \in {AuthMarker, APIMarker, "a"},
                                           t \in SeqOf(chars \cup {"!"}, 6)}
                             \cup {<<"a", AuthMarker>> \o t : t \in SeqOf(chars, 6)}
                             \cup {<<>>, <<"a", ".", "a", "-">>, <<"a", ".", "a">>}],
     claims |-> {Claim(i, s) : i \in {<<>>, idp, idp \o <<"/">>, <<"HTTPS:", "//idp", "/">>, idp \o <<"/", "/", "a">>, <<"a">>},
                               s \in {<<>>, <<"a">>, <<" ", "a">>, <<"b">>, <<"..">>}},
     proxies |-> [trusted |-> {1, 2}, clients |-> {3, 4}, forged |-> SeqOf(1..4, 2), chains |-> SeqOf({1, 2}, 2)],
     versions |-> [suffixes |-> {<<>>, <<"-", "rc">>, <<"+", "b">>, <<"-", "rc", ".", "1">>, <<"-", "rc", "+", "b">>, <<"+", "b", "-", "a">>},
                   others |-> {<<>>, <<"dev">>, <<"v">>, <<"1">>, <<"1", ".", "2">>, <<"1", ".", "2", ".", "0", ".", "1">>,
                               <<"v", "1", ".", "rc", ".", "0">>}],
     options |-> {Options(p, b, w, f, j, l) : p \in {"", ":memory:", "db"}, b \in {-1, 0, 1}, w \in {-2, -1, 0, 1},
                                             f \in BOOLEAN, j \in {"", "WAL", "wal"}, l \in {"", "immediate", "shared"}},
     rules |-> {<<"prefix", 3, 1>>, <<"range", 5, 4>>, <<"host", 1>>},
     zones |-> [v4 |-> 0..15, v6 |-> {0, 17, 255}]]

calls ==
    [users |-> [Scenario(now, [Keyed EXCEPT !.policy = "alice"], <<>>) EXCEPT
                  !.ops = {Op("create", "create", User("2", "bob", None), "panel"),
                           Op("create", "create", User("3", "alice", "idp"), None),
                           Op("rename", "rename_user", User("1", "bob", None), None),
                           Op("delete", "delete", User("2", "bob", None), None)}],
     file |-> [Scenario(now, Keyed, <<>>) EXCEPT
                 !.ops = {Op("policy", "policy", Nobody, p) : p \in {"alice", "bad"}}, !.clients = TRUE],
     database |-> [Scenario(now, Keyed, [policy_mode |-> "database"]) EXCEPT
                     !.ops = {Op("policy", "policy", Nobody, p) : p \in {"alice", "open"}}, !.flaky = {"store"}],
     nowhere |-> [Scenario(now, Keyed, [policy_path |-> ""]) EXCEPT !.ops = {Op("policy", "policy", Nobody, "open")}],
     attrs |-> [Scenario(now, [Keyed EXCEPT !.policy = "attrs"], <<>>) EXCEPT
                  !.ops = {Op("rename", "rename_user", User("1", "bob", None), None),
                           Op("create", "create", User("3", "alice", "idp"), None),
                           Op("policy", "policy", Nobody, "open")}],
     absent |-> [Scenario([now EXCEPT !.tables.users.rows = {User("1", "bob", None)}], Keyed, <<>>) EXCEPT
                   !.ops = {Op("policy", "policy", Nobody, p) : p \in {"attrs", ""}}
                           \cup {Op("create", "create", User("2", "alice", None), None)}],
     keys |-> [Scenario(now, Keyed, <<>>) EXCEPT !.texts = MCTexts,
                 !.ops = {Op("expire_key", "get_key", Nobody, <<"a1">>), Op("delete_key", "get_key", Nobody, <<"a2">>), Op("delete_key", "get_key", Nobody, <<"a1", "a1">>),
                          Op("create_key", "new_key", Nobody, "a3"), Op("forever", "new_key", Nobody, "a4")},
                 !.keys = {"a1", "a2", "a3", "a4"}]]

MCScenarios == upgrades @@ settings @@ calls
OldScenarios == [v26 |-> Scenario(upstream26, Keyed, <<>>)]

=============================================================================
