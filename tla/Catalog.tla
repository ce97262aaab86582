------------------------------ MODULE Catalog ------------------------------
(***************************************************************************)
(* The catalog of one database: state.rs keeps a map per kind of thing     *)
(* (schemas, rows, rowid counters, indexes, full-text indexes, triggers,   *)
(* views), all keyed by table name, and the DDL statements of sql/ddl.rs   *)
(* move names through these maps one map after the other.  Beside the      *)
(* statements, which run one at a time on the main thread, the WAL task    *)
(* walks the same maps to write the snapshot of wal.rs, and a crash        *)
(* restarts the process from whatever files are on disk.                   *)
(*                                                                         *)
(* CREATE and DROP TABLE and the snapshot keep guards on the outer maps    *)
(* `schemas` and `dbs` from one step to the next, and wait for each        *)
(* other's; every other statement keeps none, and is one step.             *)
(*                                                                         *)
(* One index name is enough: an index store is found by table and index    *)
(* name.  A row maps some columns to values; constraints, and what trigger *)
(* bodies do, are in TxnEngine and Statements.                             *)
(***************************************************************************)
EXTENDS Integers

CONSTANTS
    Table,          \* names of tables and views
    Column,         \* names of columns
    Val, Null,      \* values, Null among them
    None,           \* nothing under this name
    MaxRowid,       \* bound on rowids
    MaxStatements,  \* bound on the statements of a behaviour
    MaxRare,        \* bound on its ALTER TABLEs and failed writes together
    MaxSnapshots,   \* bound on its snapshots
    MaxCrashes      \* bound on its crashes

RowId == 1 .. MaxRowid

Cells     == UNION {[cs -> Val] : cs \in SUBSET Column}
Rows      == UNION {[rs -> Cells] : rs \in SUBSET RowId}
Entries   == [Val -> SUBSET RowId]
FullText  == [col : Column, docs : Entries]
Schema    == [id : Nat, name : Table, idx : Column \union {None},
              fts : Column \union {None}, cols : Cells]
DumpEntry == [schema : Schema \union {None}, rows : Rows]
Dump      == [Table -> DumpEntry \union {None}]
File(Data) == [from : Nat, data : Data]
TablesFile   == File(Dump)
ViewsFile    == File(SUBSET Table)
TriggersFile == File([Table -> SUBSET Nat])

ASSUME CatalogAssumption ==
    /\ Null \in Val
    /\ None \notin Column /\ None \notin Cells /\ None \notin Rows
    /\ None \notin FullText /\ None \notin Schema /\ None \notin DumpEntry
    /\ None \notin TablesFile /\ None \notin ViewsFile /\ None \notin TriggersFile
    /\ Column # {}
    /\ {MaxRowid, MaxStatements, MaxRare, MaxSnapshots, MaxCrashes} \subseteq Nat

VARIABLES
    schemas,    \* table -> schema; `cols` gives each column its default
    dbs,        \* table -> its rows, rowid -> row
    gens,       \* rowid_generators: the next rowid; 1 where there is no entry
    index,      \* "table\0index" -> value -> rowids
    fts,        \* fts_tables: content column, and text -> rowids
    triggers,   \* table -> triggers, each known by the table it was made for
    views,      \* names that are views
    call,       \* the CREATE or DROP TABLE under way
    guards      \* guards kept on the outer maps: whose, of which map, its mode

VARIABLES
    task,       \* what the snapshot is doing
    seen,       \* shards of `dbs` it has been through
    dump,       \* what will be tables.bin
    disk        \* the files, each with the number of the snapshot it is from

\* History variables and the counters of the bounds.
VARIABLES
    nextId,     \* every table ever created has a number
    altered,    \* names whose index or full-text index was left behind
    mixed,      \* names that may have met the triggers of another table
    steady,     \* rows nobody wrote since the snapshot began
    kept,       \* rows nobody wrote since the snapshot now on disk began
    keptViews,  \* views nobody dropped since views.bin was written
    statements, alters, snapshots, failures, crashes

viewVars  == <<views, keptViews>>
mapVars   == <<schemas, dbs, gens, index, fts, triggers, views>>
taskVars  == <<task, seen, dump, disk, snapshots, failures>>
tableGhosts == <<nextId, altered, mixed, steady, kept>>
vars      == <<mapVars, call, guards, taskVars, tableGhosts, keptViews,
               statements, alters, crashes>>

Idle == [at |-> "idle"]

NoRows == [r \in {} |-> Null]

NoEntries == [v \in Val |-> {}]

With(f, k, v) == [d \in DOMAIN f \union {k} |-> IF d = k THEN v ELSE f[d]]

Without(f, k) == [d \in DOMAIN f \ {k} |-> f[d]]

LiveRows == {x \in Table \X RowId :
                dbs[x[1]] # None /\ x[2] \in DOMAIN dbs[x[1]]}

\* The rows of t are not what they were.
Wrote(t, rs) ==
    /\ steady' = steady \ ({t} \X rs)
    /\ kept'   = kept \ ({t} \X rs)

ForgetView(v) ==
    /\ views' = views \ {v}
    /\ keptViews' = keptViews \ {v}

\* A DashMap guard: any number of readers, or one writer.
MayTake(who, map, mode) ==
    \A g \in guards : g.who # who /\ g.map = map => {mode, g.mode} = {"read"}

Guard(who, map, mode) == [who |-> who, map |-> map, mode |-> mode]

Released(who) == {g \in guards : g.who # who}

\* The main thread begins one statement at a time.  A statement that is
\* refused, or finds nothing to do, is no step.
MayBegin == call = Idle /\ statements < MaxStatements

Statement ==
    /\ MayBegin
    /\ statements' = statements + 1
    /\ UNCHANGED <<taskVars, crashes>>

\* A statement that keeps no guard from one step to another.
OneStep == Statement /\ UNCHANGED <<call, guards, alters>>

-----------------------------------------------------------------------------
(* index.rs and fts.rs: what a row's change does to the two indexes *)

EntriesOf(rows, c) ==
    [v \in Val |-> {r \in DOMAIN rows : c \in DOMAIN rows[r] /\ rows[r][c] = v}]

\* Text is indexed, NULL is not.
DocumentsOf(rows, c) == [EntriesOf(rows, c) EXCEPT ![Null] = {}]

Entered(entries, row, c, r) ==
    IF c \in DOMAIN row THEN [entries EXCEPT ![row[c]] = @ \union {r}] ELSE entries

Removed(entries, row, c, r) ==
    IF c \in DOMAIN row THEN [entries EXCEPT ![row[c]] = @ \ {r}] ELSE entries

\* old or new is None for an INSERT or a DELETE.
Moved(entries, old, new, c, r) ==
    LET less == IF old = None THEN entries ELSE Removed(entries, old, c, r)
    IN  IF new = None THEN less ELSE Entered(less, new, c, r)

\* update_indexes does nothing for a table without a schema or an index,
\* sync_fts_index nothing without an entry in fts_tables.
SyncIndexes(t, old, new, r) ==
    /\ index' = IF schemas[t] = None \/ schemas[t].idx = None THEN index
                ELSE [index EXCEPT ![t] = Moved(@, old, new, schemas[t].idx, r)]
    /\ fts'   = IF fts[t] = None THEN fts
                ELSE [fts EXCEPT ![t].docs =
                         [Moved(@, old, new, fts[t].col, r) EXCEPT ![Null] = {}]]

-----------------------------------------------------------------------------
(* CREATE TABLE and CREATE VIRTUAL TABLE *)

\* A table starts with one column, with no DEFAULT.
NewSchema(t, ftsCol) ==
    [id |-> nextId, name |-> t, idx |-> None, fts |-> ftsCol,
     cols |-> [c \in {CHOOSE c \in Column : TRUE} |-> Null]]

\* The write guard on `schemas` is kept while `dbs` is asked for.
StartCreate(t, schema) ==
    /\ Statement /\ MayTake("main", "schemas", "write")
    /\ schemas[t] = None
    /\ schemas' = [schemas EXCEPT ![t] = schema]
    /\ call' = [at |-> "create", table |-> t]
    /\ guards' = guards \union {Guard("main", "schemas", "write")}
    /\ nextId' = nextId + 1
    /\ UNCHANGED <<dbs, gens, index, fts, triggers, viewVars,
                   altered, mixed, steady, kept, alters>>

FinishCreate ==
    /\ call.at = "create" /\ MayTake("main", "dbs", "write")
    /\ LET t == call.table
           c == schemas[t].fts
       IN /\ dbs' = [dbs EXCEPT ![t] = NoRows]
          /\ gens' = [gens EXCEPT ![t] = 1]
          /\ fts' = IF c = None THEN fts
                    ELSE [fts EXCEPT ![t] = [col |-> c, docs |-> NoEntries]]
          /\ altered' = altered \ {t}
          /\ Wrote(t, RowId)
    /\ call' = Idle /\ guards' = Released("main")
    /\ UNCHANGED <<schemas, index, triggers, viewVars, taskVars, nextId, mixed,
                   statements, alters, crashes>>

-----------------------------------------------------------------------------
(* DROP TABLE *)

\* IF EXISTS goes on for a name that is no table.
StartDrop(t, ifExists) ==
    /\ Statement /\ MayTake("main", "schemas", "write")
    /\ schemas[t] # None \/ ifExists
    /\ schemas' = [schemas EXCEPT ![t] = None]
    /\ call' = [at |-> "drop", table |-> t]
    /\ guards' = guards \union {Guard("main", "schemas", "write")}
    /\ UNCHANGED <<dbs, gens, index, fts, triggers, viewVars, tableGhosts,
                   alters>>

\* Mutant: the triggers stay registered under the name.
KeepTriggers(t) == triggers' = triggers

ForgetTriggers(t) == triggers' = [triggers EXCEPT ![t] = {}]

\* Mutant: `dbs` is asked for with a write guard, as CREATE TABLE does.
DropWantsToWrite == MayTake("main", "dbs", "write")

\* state.dbs.get.
DropMayEnter == MayTake("main", "dbs", "read")

FinishDrop ==
    /\ call.at = "drop" /\ DropMayEnter
    /\ LET t == call.table
       IN /\ dbs' = [dbs EXCEPT ![t] = None]
          /\ gens' = [gens EXCEPT ![t] = 1]
          /\ ForgetTriggers(t)
          /\ fts' = [fts EXCEPT ![t] = None]
          /\ ForgetView(t)
          /\ altered' = altered \ {t}
          /\ Wrote(t, RowId)
    /\ call' = Idle /\ guards' = Released("main")
    /\ UNCHANGED <<schemas, index, taskVars, nextId, mixed, statements, alters, crashes>>

-----------------------------------------------------------------------------
(* ALTER TABLE: one operation; a list of them is one after the other *)

Alter(t) ==
    /\ Statement /\ alters + failures < MaxRare /\ alters' = alters + 1
    /\ schemas[t] # None
    /\ UNCHANGED <<call, guards>>

\* The schema and every row of t become what they are mapped to.
Reshape(t, schema, row(_)) ==
    /\ schemas' = [schemas EXCEPT ![t] = schema]
    /\ dbs' = IF dbs[t] = None THEN dbs
              ELSE [dbs EXCEPT ![t] = [r \in DOMAIN @ |-> row(@[r])]]
    /\ Wrote(t, RowId)
    /\ UNCHANGED <<gens, index, fts, triggers, viewVars, nextId, mixed>>

\* The indexes on column c are not rebuilt when the column changes.
LeaveBehind(t, cs) ==
    altered' = IF {schemas[t].idx, schemas[t].fts} \intersect cs # {}
               THEN altered \union {t} ELSE altered

AddColumn(t, c, default) ==
    /\ Alter(t) /\ c \notin DOMAIN schemas[t].cols
    /\ Reshape(t, [schemas[t] EXCEPT !.cols = With(@, c, default)],
               LAMBDA row : With(row, c, default))
    /\ LeaveBehind(t, {c})

\* IF EXISTS goes on for a name that is no column; rows may have it all the same.
DropColumn(t, c) ==
    /\ Alter(t)
    /\ Reshape(t, [schemas[t] EXCEPT !.cols = Without(@, c)],
               LAMBDA row : Without(row, c))
    /\ LeaveBehind(t, {c})

\* Nothing is asked of the new name: a column that has it is overwritten.
RenameColumn(t, old, new) ==
    /\ Alter(t) /\ old \in DOMAIN schemas[t].cols
    /\ LET Renamed(f) == IF old \in DOMAIN f
                         THEN With(Without(f, old), new, f[old]) ELSE f
       IN Reshape(t, [schemas[t] EXCEPT !.cols = Renamed(@)], Renamed)
    /\ LeaveBehind(t, {old, new})

MoveGen(old, new) == gens' = [gens EXCEPT ![old] = 1, ![new] = gens[old]]

\* Only schema, rows and counter move, over whatever `new` had; the schema
\* goes on calling itself by its first name.
RenameTable(old, new) ==
    /\ Alter(old) /\ old # new
    /\ schemas' = [schemas EXCEPT ![old] = None, ![new] = schemas[old]]
    /\ dbs' = [dbs EXCEPT ![old] = None, ![new] = dbs[old]]
    /\ MoveGen(old, new)
    /\ altered' = altered \union {new}
    /\ mixed' = mixed \union {old, new}
    /\ steady' = steady \ ({old, new} \X RowId)
    /\ kept' = kept \ ({old, new} \X RowId)
    /\ UNCHANGED <<index, fts, triggers, viewVars, nextId>>

-----------------------------------------------------------------------------
(* CREATE and DROP INDEX, views and triggers *)

\* Mutant: CREATE INDEX covers no row that is already there.
StartEmpty(t, c) == NoEntries

\* rebuild_index.
RebuildIndex(t, c) == EntriesOf(dbs[t], c)

\* Nobody asks whether the table has such a column.
CreateIndex(t, c) ==
    /\ OneStep /\ schemas[t] # None /\ schemas[t].idx = None
    /\ schemas' = [schemas EXCEPT ![t].idx = c]
    /\ index' = [index EXCEPT ![t] = RebuildIndex(t, c)]
    /\ altered' = IF schemas[t].fts = None THEN altered \ {t} ELSE altered
    /\ UNCHANGED <<dbs, gens, fts, triggers, viewVars, nextId, mixed, steady, kept>>

\* Of the tables with an index of this name, the first one met loses it.
DropIndex(t) ==
    /\ OneStep /\ schemas[t] # None /\ schemas[t].idx # None
    /\ schemas' = [schemas EXCEPT ![t].idx = None]
    /\ index' = [index EXCEPT ![t] = NoEntries]
    /\ UNCHANGED <<dbs, gens, fts, triggers, viewVars, tableGhosts>>

\* A view may have the name of a table.
CreateView(v) ==
    /\ OneStep /\ v \notin views /\ views' = views \union {v}
    /\ UNCHANGED <<schemas, dbs, gens, index, fts, triggers, tableGhosts, keptViews>>

DropView(v) ==
    /\ OneStep /\ v \in views /\ ForgetView(v)
    /\ UNCHANGED <<schemas, dbs, gens, index, fts, triggers, tableGhosts>>

\* The table need not exist.
CreateTrigger(t) ==
    /\ OneStep
    /\ LET for == IF schemas[t] = None THEN 0 ELSE schemas[t].id
       IN /\ for \notin triggers[t]
          /\ triggers' = [triggers EXCEPT ![t] = @ \union {for}]
    /\ UNCHANGED <<schemas, dbs, gens, index, fts, viewVars, tableGhosts>>

-----------------------------------------------------------------------------
(* INSERT, UPDATE and DELETE of one row *)

PutRow(t, r, row) == dbs' = [dbs EXCEPT ![t] = With(@, r, row)]

\* Nobody asks whether a column of the statement is one of the table's.
Insert(t, given) ==
    /\ OneStep /\ schemas[t] # None /\ dbs[t] # None /\ gens[t] <= MaxRowid
    /\ gens' = [gens EXCEPT ![t] = @ + 1]
    /\ LET r   == gens[t]
           row == [c \in DOMAIN given \union DOMAIN schemas[t].cols |->
                      IF c \in DOMAIN given THEN given[c] ELSE schemas[t].cols[c]]
       IN PutRow(t, r, row) /\ SyncIndexes(t, None, row, r) /\ Wrote(t, {r})
    /\ UNCHANGED <<schemas, triggers, viewVars, nextId, altered, mixed>>

Update(t, r, c, v) ==
    /\ OneStep /\ schemas[t] # None /\ <<t, r>> \in LiveRows
    /\ LET old == dbs[t][r]
           new == With(old, c, v)
       IN /\ new # old
          /\ PutRow(t, r, new) /\ SyncIndexes(t, old, new, r)
    /\ Wrote(t, {r})
    /\ UNCHANGED <<schemas, gens, triggers, viewVars, nextId, altered, mixed>>

\* DELETE asks for no schema.
Delete(t, r) ==
    /\ OneStep /\ <<t, r>> \in LiveRows
    /\ dbs' = [dbs EXCEPT ![t] = Without(@, r)]
    /\ SyncIndexes(t, dbs[t][r], None, r)
    /\ Wrote(t, {r})
    /\ UNCHANGED <<schemas, gens, triggers, viewVars, nextId, altered, mixed>>

-----------------------------------------------------------------------------
(* wal.rs: save_sql_snapshot.  Each table name is a shard of `dbs`: the     *)
(* shards are visited in no particular order, each in one step: its rows,   *)
(* then its schema.                                                        *)

Snapshotting == UNCHANGED <<mapVars, call, nextId, altered, mixed,
                            statements, alters, crashes>>

\* `for entry in state.dbs.iter()`: a read guard for the whole snapshot.
StartSnapshot ==
    /\ task = "idle" /\ snapshots < MaxSnapshots /\ MayTake("task", "dbs", "read")
    /\ task' = "dbs" /\ snapshots' = snapshots + 1
    /\ guards' = guards \union {Guard("task", "dbs", "read")}
    /\ UNCHANGED <<seen, dump, disk, failures, steady, kept, keptViews>>
    /\ Snapshotting

\* `state.schemas.get(&db_id)`: another one.
GetSchemas ==
    /\ task = "dbs" /\ MayTake("task", "schemas", "read")
    /\ task' = "visit" /\ steady' = {x \in LiveRows : schemas[x[1]] # None}
    /\ guards' = guards \union {Guard("task", "schemas", "read")}
    /\ UNCHANGED <<seen, dump, disk, snapshots, failures, kept, keptViews>>
    /\ Snapshotting

\* Mutant: an entry is named by its schema.
DumpedByItsSchema(d, t, schema, rows) ==
    [d EXCEPT ![IF schema = None THEN t ELSE schema.name] =
         [schema |-> schema, rows |-> rows]]

Dumped(d, t, schema, rows) ==
    [d EXCEPT ![t] = [schema |-> schema, rows |-> rows]]

VisitShard(t) ==
    /\ task = "visit" /\ t \notin seen
    /\ seen' = seen \union {t}
    /\ dump' = IF dbs[t] = None THEN dump
               ELSE Dumped(dump, t, schemas[t], dbs[t])
    /\ UNCHANGED <<task, disk, snapshots, failures, guards, steady, kept, keptViews>>
    /\ Snapshotting

\* write_snapshot_file: the rename happens, or an error leaves the old file.
Saved(name, data) ==
    /\ disk' = [disk EXCEPT ![name] = [from |-> snapshots, data |-> data]]
    /\ UNCHANGED failures

WriteFails ==
    /\ alters + failures < MaxRare /\ failures' = failures + 1
    /\ UNCHANGED disk

WriteTables ==
    /\ task = "visit" /\ seen = Table
    /\ task' = "views"
    /\ \/ Saved("tables", dump) /\ kept' = steady
       \/ WriteFails /\ UNCHANGED kept
    /\ UNCHANGED <<seen, dump, snapshots, guards, steady, keptViews>>
    /\ Snapshotting

WriteViews ==
    /\ task = "views" /\ task' = "triggers"
    /\ \/ Saved("views", views) /\ keptViews' = views
       \/ WriteFails /\ UNCHANGED keptViews
    /\ UNCHANGED <<seen, dump, snapshots, guards, steady, kept>>
    /\ Snapshotting

NoDump == [t \in Table |-> None]

WriteTriggers ==
    /\ task = "triggers" /\ task' = "idle"
    /\ \/ Saved("triggers", triggers)
       \/ WriteFails
    /\ guards' = Released("task")
    /\ seen' = {} /\ dump' = NoDump /\ steady' = {}
    /\ UNCHANGED <<snapshots, kept, keptViews>>
    /\ Snapshotting

-----------------------------------------------------------------------------
(* wal.rs: load_sql_snapshot *)

\* Mutant: counters start at 1 again.
NoMinimum(rows) == 1

\* set_min_next_rowid of the largest rowid restored, plus one.
MinNextRowid(rows) == 1 + CHOOSE m \in {0} \union DOMAIN rows :
                              \A r \in DOMAIN rows : r <= m

\* What the process finds on disk when it starts: without tables.bin the
\* other files are not looked at.
Load ==
    LET tables == IF disk.tables = None THEN NoDump ELSE disk.tables.data
        There(t) == tables[t] # None
        SchemaOf(t) == IF There(t) THEN tables[t].schema ELSE None
        Read(file, empty) == IF disk.tables = None \/ file = None THEN empty
                             ELSE file.data
    IN /\ schemas' = [t \in Table |-> SchemaOf(t)]
       /\ dbs' = [t \in Table |-> IF There(t) THEN tables[t].rows ELSE None]
       /\ gens' = [t \in Table |-> IF There(t) THEN MinNextRowid(tables[t].rows)
                                   ELSE 1]
       /\ index' = [t \in Table |->
                      IF SchemaOf(t) = None \/ SchemaOf(t).idx = None THEN NoEntries
                      ELSE EntriesOf(tables[t].rows, SchemaOf(t).idx)]
       /\ fts' = [t \in Table |->
                    IF SchemaOf(t) = None \/ SchemaOf(t).fts = None THEN None
                    ELSE [col |-> SchemaOf(t).fts,
                          docs |-> DocumentsOf(tables[t].rows, SchemaOf(t).fts)]]
       /\ views' = Read(disk.views, {})
       /\ triggers' = Read(disk.triggers, [t \in Table |-> {}])

\* tables.bin and triggers.bin were not written by the same snapshot.
Torn == /\ disk.tables # None /\ disk.triggers # None
        /\ disk.tables.from # disk.triggers.from

\* Nothing but the files is left, whatever was going on.
CrashAndRestart ==
    /\ crashes < MaxCrashes /\ crashes' = crashes + 1
    /\ Load
    /\ call' = Idle /\ guards' = {}
    /\ task' = "idle" /\ seen' = {} /\ dump' = NoDump
    /\ altered' = {} /\ mixed' = IF Torn THEN Table ELSE mixed
    /\ steady' = {}
    /\ keptViews' = IF disk.tables = None THEN {} ELSE keptViews
    /\ UNCHANGED <<disk, snapshots, failures, nextId, kept, statements, alters>>

-----------------------------------------------------------------------------
Init ==
    /\ schemas = NoDump /\ dbs = NoDump /\ gens = [t \in Table |-> 1]
    /\ index = [t \in Table |-> NoEntries] /\ fts = NoDump
    /\ triggers = [t \in Table |-> {}] /\ views = {}
    /\ call = Idle /\ guards = {}
    /\ task = "idle" /\ seen = {} /\ dump = NoDump
    /\ disk = [tables |-> None, views |-> None, triggers |-> None]
    /\ nextId = 1 /\ altered = {} /\ mixed = {} /\ steady = {} /\ kept = {} /\ keptViews = {}
    /\ statements = 0 /\ alters = 0 /\ snapshots = 0 /\ failures = 0 /\ crashes = 0

CreateTable(t) == StartCreate(t, NewSchema(t, None))

CreateVirtualTable(t) ==
    StartCreate(t, NewSchema(t, CHOOSE c \in Column : TRUE))

MainStep ==
    \/ MayBegin /\ \E t \in Table :
          \/ CreateTable(t) \/ CreateVirtualTable(t)
          \/ \E ifExists \in BOOLEAN : StartDrop(t, ifExists)
          \/ CreateView(t) \/ DropView(t) \/ CreateTrigger(t) \/ DropIndex(t)
          \/ \E new \in Table : RenameTable(t, new)
          \/ \E c \in Column :
                \/ \E default \in Val : AddColumn(t, c, default)
                \/ DropColumn(t, c) \/ CreateIndex(t, c)
                \/ \E new \in Column \ {c} : RenameColumn(t, c, new)
          \/ \E cs \in SUBSET Column : \E v \in Val :
                 Insert(t, [c \in cs |-> v])
          \/ \E r \in RowId :
                \/ Delete(t, r)
                \/ \E c \in Column : \E v \in Val : Update(t, r, c, v)
    \/ FinishCreate
    \/ FinishDrop

TaskStep ==
    \/ StartSnapshot \/ GetSchemas
    \/ \E t \in Table : VisitShard(t)
    \/ WriteTables \/ WriteViews \/ WriteTriggers

Next == MainStep \/ TaskStep \/ CrashAndRestart

Spec == Init /\ [][Next]_vars

\* The threads run whenever they can.
FairSpec == Spec /\ WF_vars(FinishCreate) /\ WF_vars(FinishDrop) /\ WF_vars(TaskStep)

-----------------------------------------------------------------------------
(* Properties *)

\* No row has a rowid the counter of its table has yet to give out, or an
\* INSERT would overwrite it ("a fresh INSERT could overwrite a restored
\* row"): whatever was created, renamed, dropped, saved and restored.
NextRowidFresh == \A x \in LiveRows : x[2] < gens[x[1]]

\* Index and full-text index list each row under its value and nowhere else,
\* through CREATE INDEX on a table with rows, every write, DROP and CREATE of
\* the same name, and a restart; only ALTER TABLE leaves them behind.
IndexesAgreeUnlessAltered ==
    \A t \in Table \ altered :
        call = Idle /\ schemas[t] # None =>
            /\ schemas[t].idx # None => index[t] = EntriesOf(dbs[t], schemas[t].idx)
            /\ schemas[t].fts # None =>
                  /\ fts[t] # None
                  /\ fts[t].docs = DocumentsOf(dbs[t], schemas[t].fts)

\* "A dropped table shouldn't leave stale triggers ... registered against its
\* name if it (or a same-named replacement) is used again later": unless a
\* table took or left the name by RENAME, or a restart read files of two
\* different snapshots.
TriggersBelong ==
    \A t \in Table \ mixed :
        schemas[t] # None => triggers[t] \subseteq {0, schemas[t].id}

\* A row nobody wrote since the snapshot now on disk began is in it, as it
\* is, with a schema, whatever statements ran while the snapshot went from
\* table to table, and no crash at any later moment loses it; nor a view in
\* views.bin, unless a restart finds no tables.bin beside it.
KeptSurvives ==
    /\ \A x \in kept :
          LET t == x[1]
              r == x[2]
          IN /\ x \in LiveRows
             /\ disk.tables.data[t] # None /\ disk.tables.data[t].schema # None
             /\ r \in DOMAIN disk.tables.data[t].rows
             /\ disk.tables.data[t].rows[r] = dbs[t][r]
    /\ \A v \in keptViews : v \in views /\ v \in disk.views.data

\* DROP TABLE keeps `schemas` while it asks for `dbs`, as CREATE TABLE does, and
\* never waits for the snapshot, which asks for them the other way round; CREATE
\* TABLE waits only for one that has `dbs` and not yet `schemas`.
OnlyCreateWaits ==
    /\ call.at = "drop" => DropMayEnter
    /\ call.at = "create" /\ ~MayTake("main", "dbs", "write") => task = "dbs"

\* "so it actually survives a restart instead of silently staying
\* in-memory-only" (the tick that snapshots the tables): a snapshot that
\* began is finished.
SnapshotsFinish == task # "idle" ~> task = "idle"

=============================================================================
