------------------------------- MODULE Migration -------------------------------
(***************************************************************************)
(* The schema migrations that OpenSQLite and OpenPostgres run before the   *)
(* node serves anything (internal/database/database.go).  No transaction   *)
(* spans the statements of a migration: the process can stop between any   *)
(* two, and the next start runs the whole migration again, because only    *)
(* its end is recorded in schema_version.                                  *)
(*                                                                         *)
(* A table is the set of those of its columns that some migration adds,    *)
(* drops or reads, and the set of earlier tables whose rows it holds: an   *)
(* INSERT ... SELECT takes all rows of its source or none.  Indexes follow *)
(* their tables and are left out.                                          *)
(***************************************************************************)
EXTENDS Naturals, SequencesExt

CONSTANTS MaxStarts   \* bound: how often the process is started

VARIABLES dialect,         \* "sqlite" or "postgres"
          schemaVersion,   \* the rows of schema_version: none, or one number
          columns,         \* the columns of each table there is
          holds,           \* the earlier tables whose rows each table holds
          stale,           \* tables whose id sequence is behind their rows (postgres)
          proc,            \* the process: what it does, and the statements it has ahead
          starts,
          before           \* what the first start finds: the tables with rows

vars == <<dialect, schemaVersion, columns, holds, stale, proc, starts, before>>
-----------------------------------------------------------------------------
\* The statements of each migration, in order.
Each(op, tables)    == [i \in DOMAIN tables |-> [op |-> op, table |-> tables[i], arg |-> ""]]
One(op, table, arg) == <<[op |-> op, table |-> table, arg |-> arg]>>

MigrateV1 ==
  Each("create", <<"blobs", "peer_blobs", "actors", "follow_requests", "activities",
                   "upload_sessions", "delivery_queue",
                   "repositories", "manifests", "tags", "repository_owners", "manifest_layers">>)

MigrateV2 == One("add if table", "follows", "alias") \o One("add if table", "follow_requests", "alias")

MigrateV3 == Each("create", <<"deleted_manifests">>)

MigrateV4 == One("add if table", "repositories", "private")

MigrateV5 ==
  Each("create", <<"actors">>)
  \o Each("merge", <<"peers", "follows", "outgoing_follows">>)
  \o Each("drop", <<"peers", "follows", "outgoing_follows">>)

CopyV5DataToV6 ==
  One("copy", "repositories", "packages") \o One("copy", "manifests", "package_versions")
  \o One("copy", "manifest_layers", "package_files") \o One("copy", "tags", "package_tags")
  \o One("copy", "deleted_manifests", "deleted_versions")

DropV5OCITables ==
  Each("drop", <<"manifest_layers", "tags", "manifests", "repository_owners", "repositories",
                 "deleted_manifests">>)

PackageTables == <<"packages", "package_versions", "package_files", "package_tags",
                   "deleted_versions">>

MigrateV6 ==
  Each("create", PackageTables) \o CopyV5DataToV6 \o DropV5OCITables
  \o (IF dialect = "postgres" THEN Each("setval", PackageTables) ELSE <<>>)

MigrateV7 == One("add", "actors", "federation_tag_globs")
MigrateV8 == One("add", "packages", "federation_withdrawn_at")
MigrateV9 == One("drop column", "package_tags", "immutable")

Migrations == <<MigrateV1, MigrateV2, MigrateV3, MigrateV4, MigrateV5, MigrateV6, MigrateV7,
                MigrateV8, MigrateV9>>

\* The columns of interest that a table gets when it is created today.
Model(t) ==
  CASE t = "actors"          -> {"federation_tag_globs"}
    [] t = "follow_requests" -> {"alias"}
    [] t = "packages"        -> {"federation_withdrawn_at"}
    [] OTHER                 -> {}
-----------------------------------------------------------------------------
\* The databases that a start can find: none yet, and those that earlier
\* releases left at versions 1, 5 and 8.
OCITables == {"repositories", "manifests", "tags", "repository_owners", "manifest_layers"}
ActorTables == {"peers", "follows", "outgoing_follows"}

Database(v, tables, with, filled) ==
  [version |-> v, filled |-> filled,
   columns |-> [t \in tables |-> {x[2] : x \in {y \in with : y[1] = t}}]]

Databases ==
  {Database({}, {}, {}, {}),
   Database({1}, OCITables \union ActorTables \union {"blobs", "follow_requests"}, {},
            OCITables \union ActorTables),
   Database({5}, OCITables \union {"blobs", "follow_requests", "actors", "deleted_manifests"},
            {<<"follow_requests", "alias">>, <<"repositories", "private">>},
            OCITables \union {"deleted_manifests", "actors"}),
   Database({8}, Range(PackageTables) \union {"blobs", "follow_requests", "actors"},
            {<<"follow_requests", "alias">>, <<"actors", "federation_tag_globs">>,
             <<"packages", "federation_withdrawn_at">>, <<"package_tags", "immutable">>},
            Range(PackageTables) \union {"actors"})}

Down == [phase |-> "down", at |-> 0, todo |-> <<>>]

Init ==
  /\ dialect \in {"sqlite", "postgres"}
  /\ \E d \in Databases :
       /\ schemaVersion = d.version
       /\ columns = d.columns
       /\ holds = [t \in DOMAIN d.columns |-> {t} \intersect d.filled]
       /\ before = d.filled
  /\ stale = {} /\ proc = Down /\ starts = 0
-----------------------------------------------------------------------------
TableExists(t)     == t \in DOMAIN columns
ColumnExists(t, c) == TableExists(t) /\ c \in columns[t]

Current == Head(proc.todo)
Has(op) == proc.phase = "migrating" /\ proc.todo # <<>> /\ Current.op = op

\* The statement has succeeded or was skipped, or migrate returns its error.
Continue == proc' = [proc EXCEPT !.todo = Tail(@)]
ContinueIf(ok) == IF ok THEN Continue ELSE proc' = [proc EXCEPT !.phase = "failed"]

\* The loop of migrate after version v.
Reached(v) ==
  IF v < Len(Migrations) THEN [phase |-> "migrating", at |-> v + 1, todo |-> Migrations[v + 1]]
                         ELSE [phase |-> "open", at |-> v, todo |-> <<>>]

\* schema_version is created and read; when it is empty, 0 is inserted.
Migrate ==
  /\ proc.phase \in {"down", "failed"} /\ starts < MaxStarts
  /\ starts' = starts + 1
  /\ schemaVersion' = IF schemaVersion = {} THEN {0} ELSE schemaVersion
  /\ \E v \in schemaVersion' : proc' = Reached(v)
  /\ UNCHANGED <<dialect, columns, holds, stale, before>>

SetVersion ==
  /\ proc.phase = "migrating" /\ proc.todo = <<>>
  /\ schemaVersion' = {proc.at}
  /\ proc' = Reached(proc.at)
  /\ UNCHANGED <<dialect, columns, holds, stale, starts, before>>

CreateTable ==
  /\ Has("create")
  /\ LET t == Current.table
     IN /\ columns' = columns @@ (t :> Model(t))
        /\ holds' = holds @@ (t :> {})
  /\ Continue
  /\ UNCHANGED <<dialect, schemaVersion, stale, starts, before>>

\* columnExists finds no column of a table that is not there, and ALTER TABLE
\* then fails; versions 2 and 4 look for the table first.
AddColumnIfMissing ==
  /\ Has("add") \/ Has("add if table")
  /\ LET t == Current.table
         c == Current.arg
     IN /\ columns' = IF TableExists(t) /\ ~ColumnExists(t, c)
                      THEN [columns EXCEPT ![t] = @ \union {c}] ELSE columns
        /\ ContinueIf(TableExists(t) \/ Current.op = "add if table")
  /\ UNCHANGED <<dialect, schemaVersion, holds, stale, starts, before>>

DropColumnIfExists ==
  /\ Has("drop column")
  /\ LET t == Current.table
         c == Current.arg
     IN columns' = IF ColumnExists(t, c) THEN [columns EXCEPT ![t] = @ \ {c}] ELSE columns
  /\ Continue
  /\ UNCHANGED <<dialect, schemaVersion, holds, stale, starts, before>>

DropTable ==
  /\ Has("drop")
  /\ columns' = [t \in DOMAIN columns \ {Current.table} |-> columns[t]]
  /\ holds' = [t \in DOMAIN columns \ {Current.table} |-> holds[t]]
  /\ Continue
  /\ UNCHANGED <<dialect, schemaVersion, stale, starts, before>>

\* INSERT INTO actors SELECT ... FROM an older table ON CONFLICT DO UPDATE.
\* SQLite reads ON as the join condition of a SELECT without WHERE and rejects
\* the statement; Postgres needs every column that it names.
MergeIntoActors ==
  /\ Has("merge")
  /\ LET t == Current.table
         accepted == dialect = "postgres" /\ (t = "follows" => ColumnExists(t, "alias"))
     IN /\ ContinueIf(TableExists(t) => accepted)
        /\ holds' = IF TableExists(t) /\ accepted
                    THEN [holds EXCEPT !["actors"] = @ \union holds[t]] ELSE holds
  /\ UNCHANGED <<dialect, schemaVersion, columns, stale, starts, before>>

\* Mutant: the copy takes every row.
MissingOrNot(t, target) == holds[t]

\* The NOT EXISTS guard of the copies: the rows of t that target lacks.
Missing(t, target) == holds[t] \ holds[target]

\* It goes by the text "does not exist", with which Postgres reports an unknown
\* column as well; SQLite says "no such column".
IsMissingTableErr(err) == err = "no table" \/ (err = "no column" /\ dialect = "postgres")

\* A row that is there already violates a unique index.  Three of the copies keep
\* the ids of the rows.
Copy ==
  /\ Has("copy")
  /\ LET t == Current.table
         target == Current.arg
         taken == Missing(t, target)
         err == IF ~TableExists(t) THEN "no table"
                ELSE IF t = "repositories" /\ ~ColumnExists(t, "private") THEN "no column"
                ELSE IF taken \intersect holds[target] # {} THEN "unique" ELSE "none"
         keepsIds == target \in {"packages", "package_versions", "package_tags"}
     IN /\ ContinueIf(err = "none" \/ IsMissingTableErr(err))
        /\ holds' = IF err = "none" THEN [holds EXCEPT ![target] = @ \union taken] ELSE holds
        /\ stale' = IF err = "none" /\ keepsIds /\ taken # {} /\ dialect = "postgres"
                    THEN stale \union {target} ELSE stale
  /\ UNCHANGED <<dialect, schemaVersion, columns, starts, before>>

ResetV6PostgresSequences ==
  /\ Has("setval")
  /\ stale' = stale \ {Current.table}
  /\ Continue
  /\ UNCHANGED <<dialect, schemaVersion, columns, holds, starts, before>>

\* The process stops between two statements.
Crash ==
  /\ proc.phase = "migrating"
  /\ proc' = Down
  /\ UNCHANGED <<dialect, schemaVersion, columns, holds, stale, starts, before>>

Next ==
  \/ Migrate \/ SetVersion \/ CreateTable \/ AddColumnIfMissing \/ DropColumnIfExists
  \/ DropTable \/ MergeIntoActors \/ Copy \/ ResetV6PostgresSequences \/ Crash

Spec == Init /\ [][Next]_vars
-----------------------------------------------------------------------------
\* Where the rows of an earlier table are to be found at the end.  Those of
\* repository_owners are dropped: packages knows one owner.
Moved ==
  [t \in ActorTables |-> "actors"]
  @@ ("repositories" :> "packages") @@ ("manifests" :> "package_versions")
  @@ ("manifest_layers" :> "package_files") @@ ("tags" :> "package_tags")
  @@ ("deleted_manifests" :> "deleted_versions")

Kept    == before \ {"repository_owners"}
Home(t) == IF t \in DOMAIN Moved THEN Moved[t] ELSE t

In(t, u) == TableExists(u) /\ t \in holds[u]

\* Wherever migrate is interrupted and however often it starts again, the rows
\* of every earlier table are in it or in the table that takes its place.  A
\* database that is opened has version 9, its schema and all rows, and hands out
\* no id twice.  A start fails only where SQLite rejects the statements of
\* migrateV5: no migration fails for having run in part before.
UpgradeLosesNothing ==
  /\ \A t \in Kept : In(t, t) \/ In(t, Home(t))
  /\ proc.phase = "open" =>
       /\ schemaVersion = {9} /\ stale = {}
       /\ DOMAIN columns \intersect DOMAIN Moved = {}
       /\ \A t \in DOMAIN columns : columns[t] = Model(t)
       /\ \A t \in Kept : In(t, Home(t))
  /\ proc.phase = "failed" => dialect = "sqlite" /\ before \intersect ActorTables # {}
=============================================================================
