------------------------------ MODULE Migrations ------------------------------
(***************************************************************************)
(* The database migrations of hscontrol/db/db.go: every migration as the   *)
(* sequence of SQL statements it issues, and what a statement does to a    *)
(* database.  gormigrate.DefaultOptions runs migrations outside a          *)
(* transaction, so each statement commits on its own and a server that     *)
(* stops leaves the statements before it done.                             *)
(*                                                                         *)
(* A database d is a record: tables maps the name of each table to its     *)
(* columns, its rows and the table its user_id refers to; idx is the set   *)
(* of <<index, table>> pairs; done is what the migrations table lists.     *)
(* Columns are kept only where a migration looks at them.  A node row's    *)
(* json is the text of the column forced_tags or tags: "NULL", "null",     *)
(* "", "[]" or "list", and for a list the set of its tags.                 *)
(***************************************************************************)
EXTENDS Naturals, FiniteSets, Sequences, Functions, SequencesExt

None == "none"

-----------------------------------------------------------------------------
(* Tables. *)

Table(cols, rows, users) == [cols |-> cols, rows |-> rows, users |-> users]

Has(d, t) == t \in DOMAIN d.tables
HasColumn(d, t, c) == Has(d, t) /\ c \in d.tables[t].cols
Rows(d, t) == IF Has(d, t) THEN d.tables[t].rows ELSE {}
Ids(rows) == {r.id : r \in rows}

Old(t) ==
    CASE t = "users" -> "users_old"
      [] t = "pre_auth_keys" -> "pre_auth_keys_old"
      [] t = "api_keys" -> "api_keys_old"
      [] t = "nodes" -> "nodes_old"
      [] t = "policies" -> "policies_old"
      [] t = "acl" -> "acl_old"
      [] t = "log" -> "log_old"

(* usersCustomColumns: the columns of the hs-admin panel. *)
usersCustomColumns == {"password", "expire", "cellphone", "role", "enable", "route", "node"}

(* The columns of schema.sql that some migration adds, renames or copies. *)
expectedColumns ==
    [users |-> usersCustomColumns, pre_auth_keys |-> {"prefix", "hash"}, api_keys |-> {},
     nodes |-> {"tags", "approved_routes", "last_seen"}, policies |-> {}]

expectedIndexes ==
    {<<"idx_users_deleted_at", "users">>, <<"idx_provider_identifier", "users">>,
     <<"idx_name_provider_identifier", "users">>, <<"idx_name_no_provider_identifier", "users">>,
     <<"idx_api_keys_prefix", "api_keys">>, <<"idx_policies_deleted_at", "policies">>,
     <<"idx_pre_auth_keys_prefix", "pre_auth_keys">>}

tablesToRename == <<"users", "pre_auth_keys", "api_keys", "nodes", "policies", "acl", "log">>

(* The columns a table of 202507021200's tableCreationSQL has. *)
recreatedColumns ==
    [users |-> usersCustomColumns, pre_auth_keys |-> {}, api_keys |-> {},
     nodes |-> {"forced_tags", "approved_routes", "last_seen"},
     policies |-> {}, acl |-> {}, log |-> {}]

(* The table user_id refers to; SQLite rewrites it when that table is renamed. *)
usersOf(t) == IF t \in {"pre_auth_keys", "nodes", "acl", "log"} THEN "users" ELSE None

-----------------------------------------------------------------------------
(* What SQLite does with a statement: the new database, or an error. *)

Done(d) == [ok |-> TRUE, db |-> d]
Fails(d) == [ok |-> FALSE, db |-> d]

(* DROP TABLE deletes the rows first, and with foreign keys on the rows
   that refer to them follow: ON DELETE CASCADE takes nodes, acl and log,
   ON DELETE SET NULL leaves pre-auth keys without a user.  A pre-auth key
   some node refers to cannot be deleted. *)
cascade(t, old, rows) ==
    IF t \in {"pre_auth_keys", "pre_auth_keys_old"}
    THEN {IF r.user \in old THEN [r EXCEPT !.user = None] ELSE r : r \in rows}
    ELSE {r \in rows : r.user \notin old}

keyHolders(d, t) ==
    CASE t = "pre_auth_keys" -> "nodes" [] t = "pre_auth_keys_old" -> "nodes_old" [] OTHER -> None

DropTable(d, fk, t) ==
    LET gone == Ids(Rows(d, t))
        left == [u \in DOMAIN d.tables \ {t} |->
                   IF fk /\ t \in {"users", "users_old"} /\ d.tables[u].users = t
                   THEN [d.tables[u] EXCEPT !.rows = cascade(u, gone, @)]
                   ELSE d.tables[u]]
    IN IF ~Has(d, t) THEN Done(d)
       ELSE IF fk /\ \E r \in Rows(d, keyHolders(d, t)) : r.key \in gone THEN Fails(d)
       ELSE Done([d EXCEPT !.tables = left, !.idx = {i \in @ : i[2] # t}])

(* ALTER TABLE RENAME: indexes and references follow the table. *)
RenameTable(d, t, u) ==
    LET moved(v) == [d.tables[v] EXCEPT !.users = IF @ = t THEN u ELSE @]
    IN IF ~Has(d, t) \/ Has(d, u) THEN Fails(d)
       ELSE Done([d EXCEPT
                    !.tables = [v \in (DOMAIN @ \ {t}) \cup {u} |-> moved(IF v = u THEN t ELSE v)],
                    !.idx = {<<i[1], IF i[2] = t THEN u ELSE i[2]>> : i \in @}])

CreateTable(d, t, cols) ==
    IF Has(d, t) THEN Fails(d)
    ELSE Done([d EXCEPT !.tables = [v \in DOMAIN @ \cup {t} |->
                                      IF v = t THEN Table(cols, {}, usersOf(t)) ELSE @[v]]])

AddColumns(d, t, cols) == [d EXCEPT !.tables[t].cols = @ \cup cols]

(* gorm AutoMigrate: a missing table is created, a missing column added. *)
AutoMigrate(d, t) ==
    LET cols == IF t \in {"routes", "users"} THEN {} ELSE expectedColumns[t]
    IN Done(IF Has(d, t) THEN AddColumns(d, t, cols) ELSE CreateTable(d, t, cols).db)

DropIndex(d, i) == [d EXCEPT !.idx = {x \in @ : x[1] # i}]

CreateIndex(d, i) ==
    IF (\E x \in d.idx : x[1] = i[1]) \/ ~Has(d, i[2]) THEN Fails(d)
    ELSE Done([d EXCEPT !.idx = @ \cup {i}])

(* INSERT INTO t (columns) SELECT columns FROM t_old. *)
CopyRows(d, t) ==
    IF \/ ~Has(d, t) \/ ~Has(d, Old(t))
       \/ ~(recreatedColumns[t] \subseteq d.tables[Old(t)].cols)
       \/ Ids(Rows(d, t)) \cap Ids(Rows(d, Old(t))) # {}
    THEN Fails(d)
    ELSE Done([d EXCEPT !.tables[t].rows = @ \cup d.tables[Old(t)].rows])

(* UPDATE: one row, or every row. *)
SetRow(d, t, r, f(_)) == [d EXCEPT !.tables[t].rows = (@ \ {r}) \cup {f(r)}]
SetRows(d, t, f(_)) ==
    IF Has(d, t) THEN Done([d EXCEPT !.tables[t].rows = {f(r) : r \in @}]) ELSE Fails(d)

-----------------------------------------------------------------------------
(* What the data migrations compute, row by row. *)

(* A nil slice is stored as the JSON literal null. *)
isTagged_Null(r) == r.json \in {"list", "null"}
isTagged(r) == r.json = "list"

(* 202502070949 *)
withKnownKey(d, r) == [r EXCEPT !.key = IF @ \in Ids(Rows(d, "pre_auth_keys")) THEN @ ELSE None]

(* 202502131714 *)
enabledRoutes(d, n) == {x.prefix : x \in {y \in Rows(d, "routes") : y.node = n /\ y.enabled}}
withApprovedRoutes(d, r) ==
    [r EXCEPT !.approved = IF enabledRoutes(d, r.id) = {} THEN @ ELSE enabledRoutes(d, r.id)]

(* 202505141324 *)
CleanIdentifier(p) == IF p = "double" THEN "single" ELSE p
withCleanIdentifier(r) == [r EXCEPT !.provider = CleanIdentifier(@)]

(* 202601121700-migrate-hostinfo-request-tags: owners is who may hold which
   tag under the policy. *)
withRequestTags(owners, r) ==
    LET valid == {t \in r.asked : <<r.user, t>> \in owners} \ r.tags
    IN IF valid = {} THEN r ELSE [r EXCEPT !.json = "list", !.tags = @ \cup valid]

(* 202602201200-clear-tagged-node-user-id *)
withoutTaggedUser_Null(r) == [r EXCEPT !.user = IF isTagged_Null(r) THEN None ELSE @]
withoutTaggedUser(r) == [r EXCEPT !.user = IF isTagged(r) THEN None ELSE @]

(* 202605221435-clear-zero-time-node-expiry *)
withoutZeroExpiry(r) == [r EXCEPT !.expiry = IF @ = "zero" THEN None ELSE @]

(* 202606181200-recover-null-tags-node-user-id *)
withRecoveredUser(d, r) ==
    LET owner == {k.user : k \in {x \in Rows(d, "pre_auth_keys") : x.id = r.key}}
    IN [r EXCEPT !.user = IF @ = None /\ ~isTagged(r) /\ r.key # None /\ owner # {}
                          THEN CHOOSE u \in owner : TRUE ELSE @]

(* 202607241200-clear-tagged-node-expiry *)
withoutTaggedExpiry(r) == [r EXCEPT !.expiry = IF isTagged(r) THEN None ELSE @]

-----------------------------------------------------------------------------
(* The statements of each migration. *)

S(op, t) == [op |-> op, table |-> t]

dropRenamed == FlattenSeq([k \in 1..7 |-> <<S("dropOldIfTable", tablesToRename[k]),
                                            S("renameIfTable", tablesToRename[k])>>])

m202501221827 == <<S("deleteOrphanRoutes", "routes"), S("automigrate", "routes")>>
m202501311657 == <<S("automigrate", "pre_auth_keys"), S("automigrate", "nodes")>>
m202502070949 == <<S("withKnownKey", "nodes")>>
m202502131714 == <<S("addColumn", "approved_routes"), S("fetch", "routes"),
                   S("withApprovedRoutes", "nodes"), S("drop", "routes")>>
m202505091439 == <<S("addColumn", "last_seen")>>
m202505141324 == <<S("withCleanIdentifier", "users")>>

recreatedIndexes == <<"idx_users_deleted_at", "idx_provider_identifier", "idx_name_provider_identifier",
                      "idx_name_no_provider_identifier", "idx_api_keys_prefix", "idx_policies_deleted_at",
                      "idx_acl_user_id", "idx_log_user_id">>

dataCopy_NoKeys == <<S("copy", "users"), S("copy", "pre_auth_keys"), S("copy", "nodes"), S("copy", "policies")>>
dataCopy == [k \in 1..7 |-> S("copy", tablesToRename[k])]

m202507021200 ==
    <<S("drop", "routes")>>
    \o [k \in 1..8 |-> S("dropIndex", recreatedIndexes[k])]
    \o dropRenamed
    \o [k \in 1..7 |-> S("create", tablesToRename[k])]
    \o dataCopy
    \o [k \in 1..8 |-> S("index", recreatedIndexes[k])]
    \o [k \in 1..7 |-> S("dropOld", tablesToRename[k])]

m202510311551 == <<S("drop", "routes")>>
m202511011637 == <<S("addKeyColumn", "prefix"), S("addKeyColumn", "hash"),
                   S("indexIfMissing", "idx_pre_auth_keys_prefix")>>

userIndexes == <<"idx_provider_identifier", "idx_name_provider_identifier", "idx_name_no_provider_identifier">>
m202511122344 == [k \in 1..3 |-> S("dropIndex", userIndexes[k])] \o [k \in 1..3 |-> S("index", userIndexes[k])]

m202511131445 == <<S("renameTagsColumn", "nodes")>>
m202601121700 == <<S("withRequestTags", "nodes")>>
m202602201200 == <<S("withoutTaggedUser", "nodes")>>
m202605221435 == <<S("withoutZeroExpiry", "nodes")>>
m202606181200 == <<S("withRecoveredUser", "nodes")>>
m202607241200 == <<S("withoutTaggedExpiry", "nodes")>>
m202609261200 == <<S("ensureUsersCustomColumns", "users")>>

(* The migrations in the order gormigrate runs them.  The ones that only
   drop tables and indexes of releases before 0.25, or do nothing, have no
   statement left. *)
migrations ==
    <<"202501221827", "202501311657", "202502070949", "202502131714", "202502171819", "202505091439",
      "202505141324", "202507021200", "202510311551", "202511101554", "202511011637", "202511122344",
      "202511131445", "202601121700", "202602201200", "202605221435", "202606181200", "202607241200",
      "202609261200">>

statements ==
    <<m202501221827, m202501311657, m202502070949, m202502131714, <<>>, m202505091439,
      m202505141324, m202507021200, m202510311551, <<>>, m202511011637, m202511122344,
      m202511131445, m202601121700, m202602201200, m202605221435, m202606181200, m202607241200,
      m202609261200>>

(* The migrations that leave PostgreSQL alone. *)
sqliteOnly == {"202507021200", "202609261200"}

(* Only the first two run with foreign keys off. *)
migrationsRequiringFKDisabled == {"202501221827", "202501311657"}

(* InitSchema, for a database without any migration: the tables of the
   current release, and the panel's.  A panel table and its index, which
   the validation ignores, are one step. *)
initialIndexes ==
    <<"idx_users_deleted_at", "idx_api_keys_prefix", "idx_policies_deleted_at", "idx_provider_identifier",
      "idx_name_provider_identifier", "idx_name_no_provider_identifier", "idx_pre_auth_keys_prefix">>
initSchema ==
    <<S("automigrate", "users"), S("automigrate", "pre_auth_keys"), S("automigrate", "api_keys"),
      S("automigrate", "nodes"), S("automigrate", "policies"),
      S("ensureUsersCustomColumns", "users"), S("panelTable", "acl"), S("panelTable", "log")>>
    \o [k \in 1..7 |-> S("dropIndex", initialIndexes[k])]
    \o [k \in 1..7 |-> S("index", initialIndexes[k])]

tableOfIndex(i) ==
    IF i = "idx_acl_user_id" THEN "acl" ELSE IF i = "idx_log_user_id" THEN "log"
    ELSE (CHOOSE x \in expectedIndexes : x[1] = i)[2]

(* What one statement does.  fk tells whether foreign keys are enforced. *)
Exec(s, d, fk) ==
    LET t == s.table IN
    CASE s.op = "deleteOrphanRoutes" ->
           Done(IF Has(d, t) THEN [d EXCEPT !.tables[t].rows = {r \in @ : r.node \in Ids(Rows(d, "nodes"))}] ELSE d)
      [] s.op = "automigrate" -> AutoMigrate(d, t)
      [] s.op = "fetch" -> IF Has(d, t) THEN Done(d) ELSE Fails(d)
      [] s.op = "addColumn" -> Done(AddColumns(d, "nodes", {t}))
      [] s.op = "addKeyColumn" -> Done(AddColumns(d, "pre_auth_keys", {t}))
      [] s.op \in {"drop", "dropOld", "dropOldIfTable"} ->
           LET old == IF s.op = "drop" THEN t ELSE Old(t)
           IN Done(IF s.op = "dropOldIfTable" /\ ~Has(d, t) THEN d ELSE DropTable(d, fk, old).db)
      [] s.op = "renameIfTable" -> IF Has(d, t) THEN RenameTable(d, t, Old(t)) ELSE Done(d)
      [] s.op = "create" -> CreateTable(d, t, recreatedColumns[t])
      [] s.op = "copy" -> CopyRows(d, t)
      [] s.op = "panelTable" -> Done(IF Has(d, t) THEN d ELSE CreateTable(d, t, {}).db)
      [] s.op = "dropIndex" -> Done(DropIndex(d, t))
      [] s.op = "index" -> CreateIndex(d, <<t, tableOfIndex(t)>>)
      [] s.op = "indexIfMissing" ->
           Done([d EXCEPT !.idx = @ \cup {<<t, tableOfIndex(t)>>}])
      [] s.op = "renameTagsColumn" ->
           IF HasColumn(d, t, "forced_tags") /\ ~HasColumn(d, t, "tags")
           THEN Done([d EXCEPT !.tables[t].cols = (@ \ {"forced_tags"}) \cup {"tags"}]) ELSE Fails(d)
      [] s.op = "withKnownKey" -> SetRows(d, t, LAMBDA r : withKnownKey(d, r))
      [] s.op = "withoutTaggedUser" -> SetRows(d, t, withoutTaggedUser)
      [] s.op = "withoutZeroExpiry" -> SetRows(d, t, withoutZeroExpiry)
      [] s.op = "withRecoveredUser" -> SetRows(d, t, LAMBDA r : withRecoveredUser(d, r))
      [] s.op = "withoutTaggedExpiry" -> SetRows(d, t, withoutTaggedExpiry)

(* The statements of a Go loop: each turn commits one row, or one column. *)
loops == {"withApprovedRoutes", "withCleanIdentifier", "withRequestTags", "ensureUsersCustomColumns"}

turn(s, owners, d, r) ==
    CASE s.op = "withApprovedRoutes" -> withApprovedRoutes(d, r)
      [] s.op = "withCleanIdentifier" -> withCleanIdentifier(r)
      [] s.op = "withRequestTags" -> withRequestTags(owners, r)

(* What a loop may do next: nothing once every row is as it should be. *)
turns(s, owners, d) ==
    IF s.op = "ensureUsersCustomColumns"
    THEN LET missing == usersCustomColumns \ d.tables.users.cols
         IN {Done(AddColumns(d, "users", {c})) : c \in {x \in missing : x = CHOOSE y \in missing : TRUE}}
    ELSE {IF s.op = "withCleanIdentifier" /\ \E u \in Rows(d, "users") : u.provider = CleanIdentifier(r.provider)
          THEN Fails(d)
          ELSE Done(SetRow(d, s.table, r, LAMBDA x : turn(s, owners, d, x))) :
            r \in {x \in Rows(d, s.table) : turn(s, owners, d, x) # x}}

finished(s, owners, d) ==
    IF s.op = "ensureUsersCustomColumns" THEN usersCustomColumns \subseteq d.tables.users.cols
    ELSE \A r \in Rows(d, s.table) : turn(s, owners, d, r) = r

=============================================================================
