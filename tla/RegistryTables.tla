---------------------------- MODULE RegistryTables ---------------------------
(* The schema of the run database and its write-once tables: SQLite's         *)
(* migration, statement by statement in autocommit, the PostgreSQL migration, *)
(* which is one transaction, and the deployment revisions and evaluation data *)
(* that processes store once they have opened the database.                   *)
EXTENDS Naturals, Sequences, FiniteSets

CONSTANTS
    Proc,          \* processes that open the database
    Revision,      \* ids of revisions
    Content,       \* code digests and manifests; create() derives the id, a caller may not
    LegacyRows,    \* those stored before content_digest existed
    DataId,        \* ids of datasets
    DataName,      \* names and versions of datasets
    NoRow,
    MaxDataSaves   \* bound on the saves of datasets

VARIABLES
    engine,        \* "sqlite" or "postgres"
    tables,        \* whether the tables exist
    columns,       \* the later columns that exist
    applied,       \* PostgreSQL's schema_migrations by version
    proc,          \* where each process is, and whether it migrated or verified the schema
    digest,        \* content_digest of each revision's row, or "absent"
    content,       \* code digest and manifest of each revision's row
    dataset,       \* the row of each name
    experiment,    \* the dataset ids of the stored experiments
    dataSaves,
    stored,        \* the (id, name) of datasets whose save returned
    promised,      \* the (id, content) of revisions whose put returned
    cut            \* a process died between adding content_digest and filling it

tableVars ==
    <<engine, tables, columns, applied, proc, digest, content, dataset, experiment, dataSaves,
      stored, promised, cut>>

\* The columns _migrate adds, in order; invocation_sequence stands for the
\* three of its table, which are added alike.
Added == <<"context_json", "priority", "content_digest", "invocation_sequence", "expires_at">>
TableOf(i) == <<"runs", "runs", "revisions", "tool_invocations", "interrupts">>[i]
All == {Added[i] : i \in DOMAIN Added}
\* The two migration files of PostgreSQL, and the columns each of them makes sure of.
Versions == {1, 2}
ColumnsOf(v) ==
    IF v = 1 THEN {"context_json", "priority", "expires_at"} ELSE {"content_digest", "invocation_sequence"}

Outside == [pc |-> "none", at |-> 0, seen |-> {}, rev |-> NoRow, as |-> NoRow, sure |-> FALSE]
OpenNow == [Outside EXCEPT !.pc = "open", !.sure = TRUE]
Refused  == [Outside EXCEPT !.pc = "failed"]

ASSUME TablesAssumption ==
    /\ LegacyRows \subseteq Revision /\ MaxDataSaves \in Nat
    /\ NoRow \notin Revision \cup Content \cup DataId \cup [id : DataId, text : Nat]

\* A new database, or one that an earlier release has left: with tables that lack columns,
\* after the first migration, whose row has no checksum yet, or after a second one that was
\* another file.  "The immutable 0001 identity" (postgres.py:183): who recorded it ran it.
TablesInit ==
    /\ engine \in {"sqlite", "postgres"}
    /\ \/ tables = FALSE /\ columns = {} /\ applied = [v \in Versions |-> "absent"]
       \/ tables = TRUE /\ columns \in {{}, {"context_json", "priority"}} /\ applied = [v \in Versions |-> "absent"]
       \/ /\ engine = "postgres" /\ tables = TRUE /\ columns = ColumnsOf(1)
          /\ applied = [v \in Versions |-> IF v = 1 THEN "bare" ELSE "absent"]
       \/ /\ engine = "postgres" /\ tables = TRUE /\ columns = All
          /\ applied = [v \in Versions |-> IF v = 1 THEN "sealed" ELSE "other"]
    /\ proc = [p \in Proc |-> Outside]
    /\ digest = [r \in Revision |-> IF ~tables \/ r \notin LegacyRows THEN "absent"
                                    ELSE IF "content_digest" \in columns THEN "code:id" ELSE "null"]
    /\ content \in [Revision -> Content \cup {NoRow}]
    /\ \A r \in Revision : content[r] = NoRow <=> digest[r] = "absent"
    /\ dataset = [n \in DataName |-> NoRow]
    /\ experiment = {} /\ dataSaves = 0 /\ stored = {} /\ promised = {} /\ cut = FALSE

rowVars == <<content, dataset, experiment, dataSaves, stored, promised>>

\* The digest over code and manifest, and what stands in for it in old rows.
ContentDigest == "content"
Filled == [r \in Revision |-> IF digest[r] = "null" THEN "code:id" ELSE digest[r]]

\* get(): a row, or KeyError.
Fetched(r) == digest[r] # "absent"

-----------------------------------------------------------------------------
(* SQLiteRunStore._migrate: _migration_lock is the store's own *)

\* CREATE TABLE IF NOT EXISTS: new tables have every column.
CreateTables(p) ==
    /\ engine = "sqlite" /\ proc[p].pc = "none"
    /\ tables' = TRUE
    /\ columns' = IF tables THEN columns ELSE All
    /\ proc' = [proc EXCEPT ![p] = [@ EXCEPT !.pc = "inspect", !.at = 1]]
    /\ UNCHANGED <<engine, applied, digest, rowVars, cut>>

\* PRAGMA table_info, once for each table.
Inspect(p) ==
    /\ proc[p].pc = "inspect"
    /\ proc' = [proc EXCEPT ![p] = [@ EXCEPT !.pc = "alter", !.seen = columns]]
    /\ UNCHANGED <<engine, tables, columns, applied, digest, rowVars, cut>>

Following(i) ==
    IF i = Len(Added) THEN "index" ELSE IF TableOf(i + 1) = TableOf(i) THEN "alter" ELSE "inspect"

\* The place after the current column.
Advanced(place) ==
    LET next == Following(place.at)
    IN  [place EXCEPT !.pc = next, !.at = @ + 1, !.seen = IF next = "alter" THEN @ ELSE {}]

Onwards(p) == [proc EXCEPT ![p] = Advanced(@)]

\* What comes after ADD COLUMN content_digest.
AfterAlter_NoFill(p) == Onwards(p)
AfterAlter(p) ==
    IF Added[proc[p].at] = "content_digest" THEN [proc EXCEPT ![p].pc = "fill"] ELSE Onwards(p)

\* A column another process has added meanwhile is a "duplicate column name".
Alter(p) ==
    /\ proc[p].pc = "alter"
    /\ LET c == Added[proc[p].at] IN
       \/ c \in proc[p].seen /\ proc' = Onwards(p) /\ UNCHANGED columns
       \/ c \in columns \ proc[p].seen /\ proc' = [proc EXCEPT ![p] = Refused] /\ UNCHANGED columns
       \/ c \notin columns \cup proc[p].seen /\ columns' = columns \cup {c} /\ proc' = AfterAlter(p)
    /\ UNCHANGED <<engine, tables, applied, digest, rowVars, cut>>

\* UPDATE revisions ... WHERE content_digest IS NULL
Fill(p) ==
    /\ proc[p].pc = "fill"
    /\ digest' = Filled
    /\ proc' = Onwards(p)
    /\ UNCHANGED <<engine, tables, columns, applied, rowVars, cut>>

\* The indexes, and INSERT OR IGNORE INTO schema_migrations.
Index(p) ==
    /\ proc[p].pc = "index"
    /\ proc' = [proc EXCEPT ![p] = OpenNow]
    /\ UNCHANGED <<engine, tables, columns, applied, digest, rowVars, cut>>

-----------------------------------------------------------------------------
(* PostgresRunStore.migrate and verify_schema *)

\* The transaction reads which migrations are there.
ReadApplied(p) ==
    /\ engine = "postgres" /\ proc[p].pc = "none"
    /\ proc' = [proc EXCEPT ![p] = [@ EXCEPT !.pc = "migrate", !.seen = {v \in Versions : applied[v] # "absent"}]]
    /\ UNCHANGED <<engine, tables, columns, applied, digest, rowVars, cut>>

\* A migration that another process has committed since violates the primary
\* key, a file that changed since it was applied fails the checksum test: all is
\* rolled back.
Migrate(p) ==
    /\ proc[p].pc = "migrate"
    /\ LET run == Versions \ proc[p].seen IN
       IF \E v \in Versions : applied[v] = "other" \/ (v \in run /\ applied[v] # "absent")
         THEN proc' = [proc EXCEPT ![p] = Refused] /\ UNCHANGED <<tables, columns, applied, digest>>
         ELSE /\ proc' = [proc EXCEPT ![p] = OpenNow]
              /\ tables' = TRUE /\ columns' = columns \cup UNION {ColumnsOf(v) : v \in run}
              /\ digest' = IF 2 \in run THEN Filled ELSE digest
              /\ applied' = [v \in Versions |-> "sealed"]
    /\ UNCHANGED <<engine, rowVars, cut>>

\* openrath-migrate --check: the checksums, the tables and the columns of tool_invocations.
VerifySchema(p) ==
    /\ engine = "postgres" /\ proc[p].pc = "none"
    /\ LET current == (\A v \in Versions : applied[v] = "sealed") /\ tables /\ "invocation_sequence" \in columns
       IN proc' = [proc EXCEPT ![p] = IF current THEN OpenNow ELSE Refused]
    /\ UNCHANGED <<engine, tables, columns, applied, digest, rowVars, cut>>

\* PostgresRunStore without auto_migrate looks at nothing; its statements raise where a
\* table or a column is missing.
OpenUnchecked(p) ==
    /\ engine = "postgres" /\ proc[p].pc = "none"
    /\ proc' = [proc EXCEPT ![p] = [OpenNow EXCEPT !.sure = FALSE]]
    /\ UNCHANGED <<engine, tables, columns, applied, digest, rowVars, cut>>

\* openrath-migrate
MigrateMain(p) == ReadApplied(p) \/ VerifySchema(p)

\* The process is killed, at any point, and may start again.
Dies(p) ==
    /\ proc[p].pc \notin {"none", "open"}
    /\ proc' = [proc EXCEPT ![p] = Outside]
    /\ cut' = (cut \/ proc[p].pc = "fill")
    /\ UNCHANGED <<engine, tables, columns, applied, digest, rowVars>>

-----------------------------------------------------------------------------
(* SQLiteRevisionStore, PostgresRevisionStore *)

\* Another row has the digest of this content: content_digest is unique.
DigestTaken(r, c) == \E x \in Revision \ {r} : digest[x] = ContentDigest /\ content[x] = c
Insert(r, c) ==
    digest' = [digest EXCEPT ![r] = ContentDigest] /\ content' = [content EXCEPT ![r] = c]

\* A put that does not compare the row that is there.
Returned_Any(r, c) == TRUE

\* A row that is there is returned if it is the same revision; else RevisionConflict.
Returned(r, c) == content[r] = c

Promise(r, c) == promised' = IF Returned(r, c) THEN promised \cup {<<r, c>>} ELSE promised

\* SELECT, outside any transaction.
LookForRevision(p, r, c) ==
    /\ engine = "sqlite" /\ proc[p].pc = "open"
    /\ IF Fetched(r)
         THEN Promise(r, c) /\ UNCHANGED proc
         ELSE proc' = [proc EXCEPT ![p] = [@ EXCEPT !.pc = "put", !.rev = r, !.as = c]] /\ UNCHANGED promised
    /\ UNCHANGED <<engine, tables, columns, applied, digest, content, dataset, experiment, dataSaves, stored, cut>>

\* INSERT; a row stored since the SELECT, or another with the digest, is an IntegrityError.
InsertRevision(p) ==
    /\ proc[p].pc = "put"
    /\ LET r == proc[p].rev
           c == proc[p].as
       IN IF ~Fetched(r) /\ ~DigestTaken(r, c)
            THEN Insert(r, c) /\ promised' = promised \cup {<<r, c>>}
            ELSE UNCHANGED <<digest, content, promised>>
    /\ proc' = [proc EXCEPT ![p] = [OpenNow EXCEPT !.sure = proc[p].sure]]
    /\ UNCHANGED <<engine, tables, columns, applied, dataset, experiment, dataSaves, stored, cut>>

\* INSERT ... ON CONFLICT (id) DO NOTHING, and the look at the row that is there; another
\* row with the digest is a UniqueViolation.
PutRevision(p, r, c) ==
    /\ engine = "postgres" /\ proc[p].pc = "open" /\ tables /\ "content_digest" \in columns
    /\ \/ ~Fetched(r) /\ ~DigestTaken(r, c) /\ Insert(r, c) /\ promised' = promised \cup {<<r, c>>}
       \/ Fetched(r) /\ Promise(r, c) /\ UNCHANGED <<digest, content>>
    /\ UNCHANGED <<engine, tables, columns, applied, proc, dataset, experiment, dataSaves, stored, cut>>

(* SQLiteEvaluationStore, PostgresEvaluationStore *)

IdsInUse == {dataset[n].id : n \in {m \in DataName : dataset[m] # NoRow}}

\* ON CONFLICT (name, version) DO UPDATE: a row that is there keeps its id.
Upserted(id, n) == [id |-> IF dataset[n] = NoRow THEN id ELSE dataset[n].id, text |-> dataSaves]

\* The foreign key refuses the experiment of an unknown dataset.
Accepted(id) == id \in IdsInUse

\* The caller gets back the dataset it passed, whatever id the row has.
SaveDataset(p, id, n) ==
    /\ proc[p].pc = "open" /\ tables /\ dataSaves < MaxDataSaves
    /\ dataset[n] = NoRow => id \notin IdsInUse
    /\ dataset' = [dataset EXCEPT ![n] = Upserted(id, n)]
    /\ dataSaves' = dataSaves + 1
    /\ stored' = stored \cup {<<id, n>>}
    /\ UNCHANGED <<engine, tables, columns, applied, proc, digest, content, experiment, promised, cut>>

SaveExperiment(p, id) ==
    /\ proc[p].pc = "open" /\ tables /\ Accepted(id)
    /\ experiment' = experiment \cup {id}
    /\ UNCHANGED <<engine, tables, columns, applied, proc, digest, content, dataset, dataSaves, stored, promised, cut>>

TablesNext ==
    \E p \in Proc :
        \/ CreateTables(p) \/ Inspect(p) \/ Alter(p) \/ Fill(p) \/ Index(p)
        \/ MigrateMain(p) \/ Migrate(p) \/ OpenUnchecked(p) \/ Dies(p)
        \/ InsertRevision(p)
        \/ \E r \in Revision, c \in Content : LookForRevision(p, r, c) \/ PutRevision(p, r, c)
        \/ \E id \in DataId : SaveExperiment(p, id) \/ \E n \in DataName : SaveDataset(p, id, n)

TablesSpec == TablesInit /\ [][TablesNext]_tableVars

-----------------------------------------------------------------------------
\* Once a process has migrated the database or found its schema current, every column is
\* there, whoever else was migrating or died, so later stores that look at nothing find it
\* too; and every legacy revision has a digest, unless a process is about to write it or
\* died just before: nothing writes it then.
OpenedIsCurrent ==
    \A p \in Proc : proc[p].sure =>
        /\ All \subseteq columns
        /\ (\E r \in Revision : digest[r] = "null") => cut \/ \E q \in Proc : proc[q].pc = "fill"

\* What a put has returned is the content of that id for good (revisions.py:134, "revision
\* identity is immutable"), whoever puts at the same time; a dataset whose save has returned
\* can be fetched by its id, except one saved under a name that already had another id: the
\* store keeps the old id and still returns the new one.
SavedIsFound ==
    /\ \A x \in promised : Fetched(x[1]) /\ content[x[1]] = x[2]
    /\ \A id \in DataId, n \in DataName : <<id, n>> \in stored =>
        id \in IdsInUse \/ \E other \in DataId \ {id} : <<other, n>> \in stored
    /\ experiment \subseteq IdsInUse

\* The database is usable once its schema was made sure of, and keeps what it has
\* acknowledged.
TablesAreSound == OpenedIsCurrent /\ SavedIsFound

\* sqlite.py:226, "every mutation is transactional", and the migration that fills
\* content_digest (273-284): once it is through, every revision has a digest.
DigestsAreFilled ==
    (\E p \in Proc : proc[p].sure) /\ (\A q \in Proc : proc[q].pc # "fill") => \A r \in Revision : digest[r] # "null"
=============================================================================
