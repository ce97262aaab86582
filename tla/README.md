# Formal model of SKVS

SKVS is a small database server: a Rust engine (`src/src/`) loaded by Node.js as a
native addon, behind a thin HTTP layer (`src/server.js`). It keeps SQL tables and raw
key/value tables in memory, writes a snapshot of everything to disk every few
seconds, and sends raw key/value operations to one peer over UDP. This directory
holds TLA+ models of its parts, the TLC runs that check them and the TLAPS proofs
about them. File names below are relative to `src/src/`.

## Inventory

| Part | State | Operations | Hard part | Modelled in |
|---|---|---|---|---|
| Transactions (`transaction.rs`) | `next_id`; `active`: id -> undo journal | begin, record, commit, rollback, undo_all | no isolation: journals of several open transactions are replayed over each other's rows | TxnEngine, Statements |
| Execution (`sql/mod.rs`) | none of its own | execute: autocommit wrapper around one statement | a statement fails half way, inside or outside a transaction | TxnEngine, Statements |
| DML (`sql/dml.rs`) | `dbs`: rowid -> row; `rowid_generators` | INSERT, UPDATE, DELETE, row by row | rows are copied before the first write and used after others | TxnEngine, Statements, Select |
| Triggers (`trigger.rs`) | `triggers` | fire_triggers: nested statements under the same id | recursion; stale rows in the outer statement | Statements; names in Catalog |
| Indexes (`index.rs`) | value -> rowids, per index | add, remove, rebuild, point and range lookup | must agree with the table through every failure and undo | TxnEngine, Select, Catalog |
| Constraints (`constraint.rs`) | none | validate_constraints | UNIQUE trusts the index; checked row by row while the statement runs | TxnEngine, Statements |
| Full text (`fts.rs`) | postings, total_docs | insert, delete, search | follows copies of rows that may be out of date | Statements, Catalog |
| Catalog (`sql/ddl.rs`) | `schemas`, `dbs`, counters, `indexes`, `triggers`, `views`, `fts_tables` | CREATE, ALTER, DROP | seven maps changed one after the other, under guards that nest | Catalog |
| SELECT (`sql/select.rs`) | none | fetch, filter, group, order, limit, project | fast paths that must not change the result; order of the stages | Select |
| Joins (`sql/select.rs` 440-670) | none | execute_joins, hash join | columns found by name in rows that are padded and merged | Joins |
| Expressions (`expr.rs`, `schema.rs`) | none | eval, evaluate_where_ctx, Value::compare | numbering of parameters; `==` and `compare` disagree | Expressions, Evaluators, SqlValues |
| Raw store (`state.rs` 145-215) | `raw_stores` in memory, one overflow file per spilled key | put, get, remove, eviction | two threads, memory and files not changed together | RawStore, KvMap |
| WAL task (`wal.rs` 13-171) | channel, batch, flush permit; `wal.bin` | receive, tick, flush, write_batch | select! picks any ready branch | Replication |
| Snapshot (`wal.rs` 173-408) | four files per database | save on every tick, load at start | runs while statements run; a crash between files | Catalog, RawRestart |
| Replication (`replication.rs`) | none; datagrams in flight | send_batch, receive loop | loss, duplication, reordering | Replication |
| JSON functions, virtual table registry, config, errors, HTTP (`server.js`) | | pass-through | none worth a model | |

How they interact. All native calls (`lib.rs`) are synchronous functions that Node
runs on its one main thread: calls never overlap, they follow one another in any
order, and a transaction is an id that clients pass along. Two Tokio tasks run
beside it: the WAL task, which owns batch and snapshot, and the replication
receiver, which calls `put_raw` and `remove_raw`. They meet the main thread in the
DashMaps of `KvsState` (whose guards are shard locks) and in the file system.

The hazards this gives rise to are listed in `PROJECT.json` with the line where
each one bites and the properties that would catch it.

## Modules

```
SqlValues <- Expressions <- Evaluators                 values; evaluation, recursive
             Expressions <- Select                     queries on one table or view
             Select, Evaluators <- SelectBinding <- MCSelect
             Expressions <- Joins                      chains of joins
             Joins, Evaluators <- MCJoins
             Expressions <- ListLemmas                 lemmas on lists and values
             Select, ListLemmas <- SelectProofs
             Joins, ListLemmas <- JoinsProofs
Statements <- MCStatements, StatementsProofs           one caller: triggers, cascades, undo
TxnEngine  <- MCTxnEngine, TxnEngineProofs             many transactions on one table
Catalog    <- MCCatalog, CatalogProofs                 DDL, snapshot of tables, restart
KvMap <= RawStore <- MCRawStore                        raw tables (<= refinement)
         RawStore <- RawRestart <- MCRawRestart        their snapshot and restart
                     RawRestart <- RawStoreProofs      of both
Replication <- MCReplication, ReplicationProofs        WAL task and peer
```

An arrow is EXTENDS. Modules split the program where parts do not meet: what several
transactions do to each other needs no triggers (TxnEngine), what triggers do to
the statement that fires them needs one caller (Statements), what a query answers
needs no journal (Select), and a catalog needs no constraints (Catalog).

### TxnEngine: the SQL write path of one table

`TxnManager` (`transaction.rs`), `SqlEngine::execute` with its autocommit wrapper
(`sql/mod.rs`), INSERT, UPDATE and DELETE (`sql/dml.rs`), one single-column secondary
index (`index.rs`) and the search for duplicates (`constraint.rs`).

| Variable | Code |
|---|---|
| `store` | `dbs[db][table]`: rowid -> row, `NoRow` for a rowid that is not there |
| `index` | the value -> rowids map of the index |
| `nextRowid`, `nextTx` | `rowid_generators`, `TxnManager.next_id` |
| `active`, `journal` | `TxnManager.active`: its keys and their undo journals |
| `pc`, `tx`, `shadow` | what the main thread is doing, under which id, and whether `execute` opened that id itself |
| `inserts`, `todo`, `setf` | `candidate_rows`; the copies in `rows_to_update` / `rows_to_delete`; the SET clause |
| `base`, `foreign`, `clashed`, `interfered` | history, read by no guard |

`Begin`, `Commit`, `Rollback` are the calls of that name. `ExecuteInsert`,
`ExecuteUpdate` and `ExecuteDelete` start a statement: without a `tx_id` it opens a
transaction of its own; with one it uses it, whether it is active or not (`Stale`
stands for every id that was finished or never handed out: `record` drops its
entries, so nobody can undo such a statement). `InsertRow`, `UpdateRow` and
`DeleteRow` are one iteration of the loop, which validates, writes, journals and
indexes; a row that fails validation ends the statement, and only an autocommit
statement goes on to undo. `UndoStep` is one iteration of `undo_all`, last entry
first. The steps of a call do not interleave with those of another call, because
calls are synchronous; calls of different transactions follow one another in any
order. A row is the value of one column; `Accepted` is the set of rows that pass NOT
NULL, CHECK and FOREIGN KEY; WHERE is any non-empty set of live rows and SET any
function of the old row out of `SetExprs`.

### Statements: triggers, references and full-text indexes

One caller's statements over several tables. A statement is a frame of `stack`: its
`op`, the VALUES still to insert (`rows`) or the copies of the rows to change (`todo`),
the row in hand (`rowid`, `old`, `new`), the triggers still to go through and the body
statements still to run. The steps of `execute_insert`, `execute_update` and
`execute_delete` become: `InsertRow` or `ChangeRow` (take the row up and validate it),
`FireTrigger` (the next trigger of the BEFORE list: event, timing and WHEN decide),
`RunBody` (push a frame for a statement of its body, with OLD and NEW put in),
`WriteRow` (table, indexes, journal), the same for AFTER, `RowDone`, `Return`. `Fail` is
the `?` that leaves every frame at once; an autocommit statement then replays its
journal in `UndoStep`s.

The point is that `WriteRow` hands the journal and the indexes the copy `old`, and
`UndoStep` puts that copy back, whatever a trigger has made of the row meanwhile. A
row is a value, a value is NULL or a text, and a text is its set of tokens; the
catalog (`schema`) is constant in a behaviour and one of `Schemas`.

### Select: queries on one table or view

The row store, one index with its fast paths, and SELECT with every clause
(`rows_for_simple_where`, `apply_group_by`, `apply_order_by`, `apply_limit`,
`apply_projection`, DISTINCT, the removal of `_rowid_`), and INSERT, UPDATE, DELETE and
INSERT ... SELECT as far as they choose rows, bind placeholders and keep the index.
`FromTable` is `execute_select` on the rows the fetch found: `Picked` filters them, and
`Shape` groups, sorts, cuts, projects and removes duplicates, in the code's order of
stages; `AnswerFrom` puts a view's query in front. One statement is one action. The hash
map's order is unknown, so every `Ask` and `Copy` meets every order; `order` remembers
it, so that properties can ask for the answer the same listing would have given
without an index. Rows a range has found come in the order of their keys (`Listings`), those
of one key, or of a point lookup, in any order, which is more than the code's; a row that is not
found may be anywhere in `order`. So "as a scan" means as a scan that lists the store
in the order in which the index listed the rows.

What an INSERT does not give is the rowid in an INTEGER PRIMARY KEY (`KeyColumns`), the
column's DEFAULT, or NULL (`Omitted`, with NULL for "no default" in `Defaults`).

`index` is the BTreeMap: a set of entries, each with its key and its rowids, found by
`Compare`. A BTreeMap needs an order, and `compare` is none with a NaN or with
integers beyond 2^53 beside reals, so `ordered` remembers whether every indexed value so
far was one that `compare` orders (`Orderable`), and what is said of the index is said
while it is.

`Expressions` holds what `expr.rs` does with values and lists; `Evaluators` is its
recursion over the syntax, `Eval` and `EvalWhere` (`evaluate_where_ctx`): an
evaluation maps an expression, a row, the parameters and the number of placeholders
passed so far to a value and the next number, because what the evaluators skip they do
not count. The provers cannot follow RECURSIVE operators, so `Select` and `Joins` take the evaluators as
CONSTANT operators (`Evaluate`, `Holds`, `Placeholders`, `Closed`), which the .cfg
files give the values `Eval`, `EvalWhere`, `CountPlaceholders` and `ReadsNoColumn`. What a
theorem needs of them is a property, `EvaluatesAsWritten` or `OnAsWritten`, that TLC checks
of the true ones. `SelectBinding` adds the properties that are about the evaluators
themselves. `SqlValues` is `Value`: `Compare` is `Value::compare` (integers and floats by
number), `Same` the derived `==`, and floats stand for halves, with `NaN`, `MinusZero`
and the loss of precision of large integers at `Exact`.

### Joins: chains of joins

`execute_joins`: the first table, then one `JoinStep` per join, as nested loop or, for
the first join when its ON is `t1.c1 = t2.c2`, as hash join, and the padding of
unmatched rows. A combined row holds every column as `name.column` and, unless an
earlier table has it, as `column` (`Over`); the padding replaces names the row has
already. The hash join takes two values for equal when `value_to_key_string` writes them
alike (`SameKey`), the nested loop when ON does: `HashTrusted` says when these agree. Every ON
of a chain reads the statement's parameters from the first one on. USING compares
nothing: it accepts a pair as soon as the combined row has the columns (`Matches`), and
NATURAL accepts every pair, which is USING the columns both sides have.

### Catalog: DDL, the table snapshot and the restart

| Variable | Code |
|---|---|
| `schemas`, `dbs`, `gens` | `schemas`, `dbs`, `rowid_generators`, per table name |
| `index`, `fts`, `triggers`, `views` | `indexes`, `fts_tables`, `triggers`, `views` |
| `call`, `guards` | the CREATE or DROP TABLE under way, and the guards on the outer maps |
| `task`, `seen`, `dump` | `save_sql_snapshot`: how far it is |
| `disk` | `tables.bin`, `views.bin`, `triggers.bin` |
| `altered`, `mixed`, `steady`, `kept`, `keptViews`, `nextId` | history, read by no guard |

CREATE TABLE and DROP TABLE keep the write guard on `schemas` while they ask for `dbs`
(`StartCreate`, `FinishCreate`, `StartDrop`, `FinishDrop`); the snapshot keeps a read
guard on `dbs` while it asks for `schemas` (`StartSnapshot`, `GetSchemas`). Every other
statement keeps no guard and is one action: ALTER in its four forms, CREATE and
DROP INDEX, VIEW, CREATE TRIGGER, and row changes, which like the code ask for no column in
the schema: a row keeps what it is given. The snapshot then goes through the
tables (`VisitShard`), with statements in between, and writes its files one by one,
any of which can fail. `CrashAndRestart` is possible in every state and is
`load_sql_snapshot`.

### RawStore, KvMap, RawRestart: raw tables and their overflow files

`RawStore` models `put_raw`, `evict_to_disk`, `get_raw` and `remove_raw` (`state.rs`) on
one raw table, for any number of threads; the program has two, Node's and the
replication receiver. `mem` is the DashMap of the table, `file` the overflow files
(`Torn` is a file created and not yet written, or cut short), `guard` the thread that
holds the write guard throughout `put_raw`, `carried` the entry `evict_to_disk` has
taken out and not yet written. An action is what happens between two points where
another thread can come in: a put is `PutStart`, `Unspill`, `Insert`, then `Take`,
`CreateFile`, `WriteFile` or `SpillFails` per evicted key, and `PutReturn`; a remove is
`RemoveStart`, `RemoveMem` (waits for the guard), `RemoveFile` (does not); a get is
`GetMem` and `GetFile`. Which keys are evicted is the map's iteration order: any.

`KvMap` is what the API promises its writers: one map; a put takes effect once, between
call and return; a remove leaves the key absent when it returns unless a put of the
key overlapped it. `RawStore!IsOneMap` says that RawStore implements it under the
mapping `Content` (the entry in hand counts, and a put counts from the moment it has
deleted the spilled copy) and `CallOf`. Gets are not part of `KvMap`, since they do not keep
that promise; `GetAlone` states what they do keep.

`RawRestart` extends RawStore with the part of `save_sql_snapshot` that writes
`raw.bin` (entry by entry under a read guard, which keeps puts out and lets gets and
removes through, then a rename), a crash at any point, and the part of
`load_sql_snapshot` that reads `raw.bin` back. Overflow files stay as the crash left them.

### Replication: the WAL task and the datagrams between two servers

The task of `wal.rs` (`start`, `write_batch`), `put`, `remove` and `flush` of `lib.rs` as far
as they feed it, and `send_batch` and the receive loop of `replication.rs`.

| Variable | Code |
|---|---|
| `store` | the raw store: a plain map, because RawStore implements one for its writers |
| `unsent` | the operation between the change of the store and `wal_tx.send` |
| `queue`, `batch`, `permit` | the channel, the task's `batch`, the permit of `flush_trigger` |
| `log` | `wal.bin` |
| `net`, `incoming` | datagrams on their way, and what is left of the one being applied |

`Receive`, `Tick` and `Flushed` are the branches of `select!`. A failed write of
`wal.bin` may leave any proper prefix of the batch, with or without a torn record
after it; the batch is sent and cleared all the same. `Lose`, `Repeat` and `Overtake`
are the network's faults; a batch too long for a datagram is a lost one. `Apply` is
one operation of a received batch: nothing is queued for it, so operations do not
travel back.

## Runs

| Run | What it shows |
|---|---|
| `txn_unique_index` | Two interleaved transactions and autocommit statements of up to two rows on a UNIQUE column with an index. Index lookups agree with scans in every state; a stale entry only comes from an undo over somebody else's write; a rollback restores what nobody else wrote; a failed autocommit statement leaves no trace; no duplicates, unless a transaction was rolled back after others had written. |
| `statements` | On four catalogs, statements whose triggers write the tables being written, failing at any row at any depth. A rollback restores every table (`CascadeUndone`); lookups never miss a row (`LookupsFindEveryRow`) and find a row by what it is not only if the row was written from an out-of-date copy; cascading triggers keep references; UNIQUE holds unless the table's own BEFORE triggers lead back to it. |
| `select` | One table filled by every kind of statement, and SELECTs with every clause, under every order of the hash map: the index lists every row once and the fast path gives the rows of a scan (`Trusted` says for which WHERE); ORDER BY is lexicographic and stable, the pages of a LIMIT run together are the answer without it, groups and DISTINCT lose and repeat nothing; INSERT ... SELECT adds its own answer by position, or one row of defaults when there is none; placeholders are bound in the order of the text, in WHERE and in UPDATE; the two evaluators agree, and comparisons read what they say (`EvaluatesAsWritten`). |
| `joins` | Chains of one and two joins of every kind: the hash join equals the nested loop, the answer of joins with ON is the relational join and that of INNER joins with USING contains it, a bare name is the first table's column or padding, and an ON of two columns compares those columns (`OnAsWritten`). |
| `catalog` | DDL and row changes on two names while two snapshots are written, with a failed write or an ALTER, and a crash: rowids are never handed out twice to living rows, indexes follow the tables unless ALTER left them behind, triggers belong to the table of their name, what a finished snapshot has seen unchanged survives, DROP TABLE never waits, and CREATE TABLE only at the moment of finding 3. |
| `raw_two_threads` | Two threads, three keys, limit 1: spilling, with every write failing or torn, is invisible to writers; no stale copy on disk; the limit is kept, also after earlier spills failed; an uncrossed get is right. |
| `raw_restart` | Up to two crashes at any point of put, remove, eviction and snapshot, whose write may fail: no value from before the last complete snapshot comes back. |
| `replication_one_writer` | One server takes calls, one failed log write, one network fault: each operation is in exactly one place, in order; the peer lags by exactly what is on its way, on keys no fault has hurt; when the clients stop it becomes equal, and `wal.bin` complete. |
| `raw_key_lost` | violation, finding 1 |
| `select_index_changes` | violation, finding 2 |
| `catalog_create_blocks` | violation, finding 3 |
| `statements_fts` | violation, finding 4 |

Each property is checked against a mutant: a definition of the model changed as a
plausible bug would change the code (`PROJECT.json`, "mutants"; the changed definitions
stand beside the true ones, marked "Mutant"), which the run must refute.

### Bounds, and why they are enough

- TxnEngine: two rowids, two transactions (ids are never reused, so this is one
  transaction and another, or an autocommit statement, that crosses it), two rows per
  INSERT, three values. `MaxJournal` 1 allows an explicit transaction one entry;
  autocommit journals are bounded by the statement. The order in which several entries of
  one row are undone is covered by `statements`, and for any length by the proofs.
- Statements: two tables, two rowids each, four statements or transaction calls, three
  values; depth 4 is never reached by the four catalogs, so the bound cuts nothing off.
  The catalogs are: cascades over a FOREIGN KEY with a CHECK that fails some of them; an
  fts5 table whose triggers write the table itself; a log table whose trigger fails on a
  duplicate; a BEFORE trigger that inserts into the table being inserted into.
- Select: three rowids, which is two rows to compare and one more for groups, pages and
  stability; values 1, 1.0, 2 and NULL, the ones `compare` and `==` disagree about. The
  statements are chosen so that every clause and every way of skipping a placeholder occurs.
  Of the three columns one is indexed, one has a DEFAULT and one is an INTEGER PRIMARY KEY.
- Joins: up to two rows in each of three tables, so one can match and the other not. One chain
  has a placeholder in each ON and two parameters, of which both must read the first.
- Catalog: two names, one rowid, four statements (a table is made, changed, dropped and
  made again), two snapshots, since files of different ones are the hard case, one crash,
  and one ALTER TABLE or failed write (`MaxRare`).
- RawStore: `MaxEntries` 1 with three keys leaves a table that is over its limit by two
  when spills fail. Two values tell an old one from a new one. RawRestart: the second
  crash meets files and a snapshot left by the first.
- Replication: `BatchSize` 2 and `MaxCalls` 3 give a full batch and a rest that needs a
  tick or a flush; one fault of each kind; two keys, so that a fault hurts one and must
  leave the other alone.

### Fairness

Safety runs assume none. A state without successor is no error where statements, ids or
calls are bounded (`CHECK_DEADLOCK FALSE` in the TxnEngine, Statements, Catalog and
Replication runs); the others check for deadlock.

Replication assumes weak fairness of `SendOperation` (a call that has changed the store
goes on to queue the operation), `Tick` (the interval ticks for ever), `Receive`
(`select!` picks a random branch of those that are ready, so a non-empty channel is
received from), `RecvFrom` and `Apply` (the receiver loops). Nothing is assumed of
clients, of `Flushed` or of the network, which may be faulty or faultless.

`catalog_create_blocks` assumes weak fairness of `FinishCreate`, `FinishDrop` and `TaskStep`:
a thread that can go on goes on. The counterexample ends with both threads blocked, which
no fairness can help.

## Proofs

Seven modules `...Proofs`, and `ListLemmas` beneath two of them, prove the following for
every value of the constants that satisfies the assumptions named in the modules:
`RowAssumption` and `BoundAssumption` (the types of TxnEngine's constants; bounds are natural
numbers), `RawAssumption` (the markers are no keys and no values, the limit is a natural
number, keys are finitely many), `StatementsAssumption` (the types of a catalog; markers are
no values and differ from each other; NULL has no tokens), `CatalogAssumption` (`None` is no
column, row, schema or file; there is a column; bounds are natural numbers),
`ReplicationAssumption` (two servers, batches of at least one operation, natural bounds),
`TornIsNoOp` (a torn record is no operation), `ExactAssumption` (a natural number),
`SelectAssumption` (columns have different names, none of them `_rowid_`; the indexed one and the
INTEGER PRIMARY KEYs are among them), `StatementAssumption` (clauses are lists, LIMIT and OFFSET numbers or unreadable),
`TableAssumption` (rows of one table have the same columns) and `QueryAssumption` (ON is one
condition at most, and excludes USING, and the dot in `name.column` keeps combined names apart from each
other and from bare ones).

TxnEngine: `TypeCorrect`, `IndexNeverLosesRows`, `StaleEntriesComeFromClashes`,
`RollbackCorrect`, `AutocommitIsAtomic` and `UniqueCorrect` prove all properties of
`txn_unique_index`. None of them is inductive; `Inv` is, and says

- `CallOK`, `IdsOK`, `FreshOK`: which variables a call uses, and that ids and rowids not
  handed out yet occur nowhere;
- `PendingCurrent`: the rows an UPDATE or DELETE copied are still what the table holds
  when their turn comes (true because there are no triggers here);
- `JournalsOK`: outside the rows others wrote, the first entry about a row holds what
  the row was when the transaction began, and a row without an entry is unchanged.
  This is what makes replaying from the end restore the table; that a deleted row is not
  touched again is needed so that undoing a delete finds no row there;
- `IndexOK`: the index covers the table, and its excess is within `clashed`;
- `UniqueOK`: every table that undoing an unfinished transaction alone passes through has
  no duplicates. Absence of duplicates in the current table is not preserved by an undo
  step, which checks nothing; `Rewound` describes the tables undo will pass through, and
  each write adds one to them that was checked when it was current.

RawStore: `TypeCorrect`, `NeverStale`, `LimitIsKept`, `OneMap`, `GetIsRightAlone`. The invariant says who
holds the guard (`GuardOK`), where the entry in hand is (`CarriedOK`), that what is to be
evicted is in memory and stays there (`EvictOK`), that between the halves of a put its key
has no file (`UnspillOK`), what a remove that has had no effect yet will not find
(`SettledOK`), and that what is to stay fits (`LimitOK`). `OneMap` then maps every step:
a put takes effect in `Unspill`, together with the removes of its key that are under way; a
remove in `RemoveMem` or `RemoveFile`; the spilling steps stutter, since `Content`
does not change. `GetIsRightAlone` adds two invariants on top: `TornOK`, a file without
contents belongs to a key that is in memory, on its way to disk or being removed, so that
reading it as absent is right; and `AloneOK`, a get past memory that nobody has crossed knows
that its key is still not there and that no other call is under way.

RawRestart: `RestartsAreHonest`, an action property, from `RestartInvariance`. A crash breaks
part of RawStore's invariant: raw.bin may bring a key back into memory that has a file too, so
that there are two copies. `CallsOK` is what survives (types, guard, the entry in hand, what is to be
evicted). On top of it

- `HistoryOK`: what a key is now is among what it has been since the snapshot in raw.bin began
  (`recent`), and since the one being written began (`fresh`);
- `DumpOK`: of a key the snapshot has read, the dump holds something from `fresh`; of one it
  did not find in memory, the key is still not there, because the snapshot reads under the
  guard evictions need, and a file of it holds something from `fresh`. This is
  the clause that makes finishing the snapshot sound: `fresh` becomes `recent`;
- `SavedOK`: what raw.bin holds of a key, or behind it the file, is from `recent`.

Statements: `TypeCorrect`, `CascadesAreUndone`, `LookupsFind`. With triggers,
`PendingCurrent` is false: copies do go out of date. What carries the proof is that
they only do so for rows the transaction has written, and that for those the journal has
an earlier entry. `Inv` says

- `TxOK`: a row no entry names is what it was when the transaction began, and the first
  entry that names a row holds what it was then. Later entries may hold anything: the
  replay passes through them and ends with the first;
- `StackOK`: in every frame, at any depth, the copy of a row that nobody has written
  since the transaction began is what the row was then, so that the entry made from it
  may be a first one;
- `FreshOK`: rowids not handed out occur in no table, journal or frame, so that an
  INSERT's entry is the first of its row.

`LookupsFind` rests on the lemma `FollowFinds`: telling the indexes that a row was `old` and is
`new` leaves the row findable by `new`, whatever it was before, because the removal comes
first. Its converse is false, which is finding 4.

The same module proves what is true of the converse, `NothingStale`, and `UniqueHolds`,
each from an invariant of its own on top of `Inv`:

- `HeldInv` (`FramesHeld`): the row in hand and the triggers still to fire are what the phase of
  the frame says;
- `CopiesInv` (`CopiesStayApart`): the row an INSERT has in hand is in no other frame and in no
  journal, and a row whose last entry is a DELETE is not there, or `overwritten`. Without
  the first a nested statement could make the row of an INSERT stale, without the second the
  undo of a DELETE would index a row twice;
- `ExactInv`: index entries, full-text postings and `total_docs` agree with the rows outside
  `overwritten`. `total_docs` counts the rows with text, so this part counts finite sets
  (`FiniteSetTheorems`); a wrapped counter is excluded with it;
- `AboveInv` (`CascadesStayWithin`): if what the triggers of a frame write lies in a set of tables
  closed under triggers, everything that runs above the frame is in the set. The exemption in `UniqueUnlessBeforeTrigger`, that the
  table's BEFORE triggers reach it, is stated with such sets instead of with a path,
  so that the cascade may have any length and the proof needs no induction over it;
- `UniqueInv`: no duplicates, now and in what a rollback would restore, and the value a frame
  has validated and not yet written is still free. It stays free while the frame's BEFORE
  triggers run, because those do not reach the table; AFTER triggers run when it is written,
  and the statements below have validated nothing that is still to be written. That
  validation asks a stale index does no harm: `LookupsFindEveryRow` says it misses no row.

Last comes `CascadesKeep`. The code checks a FOREIGN KEY when a row of the
child is written and never again, so what keeps a reference is the pair of triggers that
`Cascades` describes: an AFTER UPDATE trigger of the parent that updates the children that have
the old value, a BEFORE DELETE trigger that deletes them, and no other way for triggers of
the two tables to reach either. In the middle of a cascade children without a parent are
normal; `ReferencesInv` (`ReferencesKept`) says where each of them is:

- `Refers`: a child has its parent, or a statement on the child has it in hand, or its value is
  one that an UPDATE of the parent has replaced and whose trigger is still to run
  (`TakesAlong`, `StillCascades`);
- `FrameRefers`: a statement on the parent knows what its rows are, although copies go out of date
  in general, because nothing above it writes the parent (`FramesStayOrdered`, from `AboveInv`);
  a statement on the child has validated the value in hand, which is therefore a parent's
  when it is written, because nothing above it writes the parent either;
- `DeletesFirst`: what runs above a DELETE on the parent only deletes children, and once the
  trigger has run none with the old value is left, so that the parent may go;
- the same for `base`, which a rollback puts back. A transaction that keeps what a failed
  statement wrote is excluded until it is rolled back (`failed` is "open"), and for good when
  it is committed ("kept").

The frames of a cascade are followed by lemmas over constants (`RefersReplace`, `RefersPush`,
`RefersPop`, and `RefersWriteParent`, `RefersWriteChild`, `RefersWriteOther` for a write), which the
action lemmas instantiate with the stack and the tables before and after.

Catalog: `RowidsAreFresh`, `IndexesAgree`, `TriggersOfTheTable` and `KeptRowsSurvive` prove four of
the five properties of `catalog`. Their invariant has to carry each of them through the
half-done statements, the half-read snapshot and the files of two snapshots. `Inv` says

- `GuardsOK`: while the snapshot reads tables no table is being made or dropped, because
  both want `schemas`. This is what the other parts about the snapshot rest on;
- `RowsOK`, `IndexOK`: a table with a schema has rows, a counter above them, and the index and
  full-text index its schema names, except between the two halves of its CREATE;
- `TriggersOK`: a name without a table has no triggers of one, except between the halves of
  its DROP; without this clause a CREATE could meet the triggers of a table long gone;
- `SteadyOK`, `KeptOK`, `KeptViewsOK`: a row nobody wrote since the snapshot began is in the
  dump once its shard has been seen; when the dump becomes `tables.bin`, `steady` becomes `kept`;
- `DumpOK`, `FilesOK`: the number in a file tells whether this snapshot wrote it, the one
  before, or an older one; two files of one snapshot fit together, which is what a
  restart needs to give tables their own triggers.

The steps are proved in two frames, `StatementFrame` (a statement leaves the snapshot and the
files alone) and `TaskFrame` (the snapshot leaves the maps alone); `WroteUntouched` says that
what a statement takes out of `steady` and `kept` is all it may change.

`OnlyCreateCanWait` says when the calls of finding 3 wait, from `Inv` and `GuardsHeld` (nobody keeps
a write guard on `dbs`, and the snapshot keeps guards only while it runs): DROP TABLE never,
CREATE TABLE only for a snapshot between its two guards. That the guards are then not
given back is the liveness run's part.

Replication: `TypeCorrect` and `LoggedExactlyOnce`. `LoggedOnce` is inductive together with the
types and the fact that faults are counted; the work is that moving operations from one
sequence to the next leaves their concatenation as it is (`MoveOne`, `MoveAll`).

`PeerCatchesUp` follows from `CaughtUp` (`ReplicationInvariance`): besides `CatchesUp` itself, which
says what a key will be at the peer when everything on its way has arrived, whatever is on
its way from a server is on keys that server writes, so that what the peer sends back, and
what it applies, touches no key with one writer. `ValueAfter` looks at the last
operation on a key, so that it splits at any place of a sequence without induction; a
fault on a datagram hurts the keys in it, and leaves every other key with what it had.

Select: `Invariance` proves `TypeOK` (rowids are below the counter, a row has its table's
columns) together with `IndexInv`: while `ordered`, no two entries of the index have equal
keys, no entry is empty, and the entry a rowid is in is the one of its row's value. The
steps follow `UpdateIndexes` row by row. From it

- `RowsAreListed`: `IndexListsRows`;
- `IndexIsTrusted`: `IndexKeepsAnswer`, for every order the index may list its rows in. `AskedInv` says that the answer is still that of the
  table and the index as they are; a point or range lookup then finds every row the condition
  lets through, because `Orderable` values are really ordered and the range is in
  keys what the condition is in values, and WHERE drops whatever else it
  finds. That the condition compares the column with the value looked up is
  `EvaluatesAsWritten`, which the theorem assumes to hold always;
- `CopiesAdd`: `CopyAddsItsAnswer`, by induction over the rows inserted. An answer without
  rows is the case of one row that is given nothing.

The stages behind WHERE are proved on lists of any length:

- `OrderByIsRight`: `OrderIsLexicographic`. The code sorts by the last key first; after each sort
  the list is a permutation of the rows, sorted by the keys used so far, and rows those keys do not
  tell apart are in the order of the store. `Compare` is shown to be a total order of
  `Orderable` values, without which a sort promises nothing;
- `PagesAreRight`: `PagesAreTheAnswer`. A page is a slice of the sorted list, and slices that
  follow one another make up the list (`SlicesMakeUp`); an image of each row, which is what a
  projection is, changes nothing about that;
- `DistinctIsRight`: `DistinctGivesEachOnce`;
- `GroupsAreRight`: `GroupsAreEqualValues`, with `EvaluatesAsWritten` for the column grouped by. Groups are
  found by what is written for a value, so the theorem shows where writing and `==` meet.

Joins: `Invariance` (the type of the tables, and that the answer is that of the tables as
they are), `HashJoinIsRight` and `BareNamesAreRight`. For the first, the partners of a row by hash
key and by ON are shown to be the same rows in the same order; `HashTrusted` excludes the values whose
keys and `==` disagree, and that ON compares the two columns it names is `OnAsWritten`,
assumed to hold always. For the second, `Fits` says of a combined row, after so many
joins of the chain, which names it has and that each bare one is NULL or what the first table
with that column gave it; every way of making a row (two partners, padding on the right, padding
on the left from the names of the first row) keeps it.

`EvaluatesAsWritten` and `OnAsWritten` are hypotheses of three theorems, not assumptions on
constants: they are invariants of the runs `select` and `joins`, and a mutant of `EvalWhere`
breaks each.

Only model-checked, of the properties of the passing runs:

- `EvaluatesAsWritten`, `OnAsWritten`, `WhereBindsInOrder`, `EvaluatorsAgree` and
  `UpdateBindsInOrder`: what the evaluators compute, which are recursive over the syntax of
  expressions, and the provers do not do induction over data;
- `JoinsAreRelational`: the relational join is a set of choices over all tables of the chain,
  and the code a fold over the joins; relating the two needs an induction over chains with
  lookups by name in every row, which has not been attempted;
- liveness under fairness (`EventuallyConsistent`, `EventuallyLogged`), out of the prover's reach.

`TypeOK`, where a module states it, is proved; only the run of Replication lists it as well.

## Findings

1. `raw_key_lost`: a put deletes the spilled copy of its key at once (`state.rs` 157), so a
   crash before the next snapshot loses the key, old value and all.
2. `select_index_changes`: the fast path evaluates the other side of a comparison without a
   row and with the placeholders from the first on (`sql/select.rs` 212, 266). `a = b + 0` on
   an indexed `a` finds nothing; `a BETWEEN ? AND ?` uses the first parameter twice. And bounds
   that cross, as in `a BETWEEN 2 AND 1`, panic in `BTreeMap::range` (`index.rs` 183).
3. `catalog_create_blocks`: CREATE TABLE and the snapshot ask for `schemas` and `dbs` in
   opposite orders (`sql/ddl.rs` 27, 113; `wal.rs` 188, 191) and can block each other for ever.
4. `statements_fts`: when a trigger changes a row the outer statement has copied, the
   full-text index is told to remove the tokens of the copy and keeps those of the row
   (`sql/dml.rs` 164, 192); `total_docs` can count wrongly as well.

Other divergences met while modelling, which the properties describe rather than deny:

- Undoing a DELETE reinserts the row without asking whether its UNIQUE value has been
  taken meanwhile (`transaction.rs` 113): hence "unless interfered" in
  `UniqueUnlessInterfered`. Undoing it over a row that is there again leaves an index
  entry under a value no row has: hence `clashed` in `StaleEntryNeedsClash`.
- With a `tx_id`, a statement that fails on a later row keeps the earlier ones
  (`sql/mod.rs` 96), and a COMMIT keeps them for good: hence `failed` in
  `CascadesKeepReferences`. A parent that a failed statement has changed without its
  children may stay that way over any number of later transactions.
- A get can miss a key that the other thread's put moves from disk to memory between
  the get's two looks (`state.rs` 205): hence `GetAlone`.
- Two servers that write a key before they have heard of each other exchange their
  values and keep them (`replication.rs` 50): hence one writer in `replication_one_writer`.
- A row is validated before its BEFORE triggers run (`sql/dml.rs` 96), so a trigger can make it
  a duplicate: hence `BeforeTriggersReach` in `UniqueUnlessBeforeTrigger`.
- `Value::compare` orders an integer and a real by the f64 of the integer (`schema.rs` 95), so
  2^53 and 2^53 + 1 both compare as equal to the real between them, and a NaN is equal to
  every number: "equal" is not transitive, although `index.rs` 19 calls the key of the
  BTreeMap a total order. Hence `ordered` in `IndexListsRows` and `IndexKeepsAnswer`, and
  `KeysCompare` in the properties of ORDER BY.
- `value_to_key_string` writes 0.0 and -0.0 differently (`index.rs` 44), which `=` takes for one
  value, and NaN like itself, which `=` takes for nothing: a hash join of reals loses or gains pairs
  beside the nested loop of the same condition. Hence `HashTrusted` in `HashJoinIsNestedLoop`, and
  the zeros and NaN set apart in `GroupsAreEqualValues`.
- A restart can find `tables.bin` and `triggers.bin` of different snapshots, and triggers of a
  table that has since been replaced: hence `mixed` in `TriggersBelong`.
- USING accepts every pair of rows (`sql/select.rs` 401), although the comment in it says "both
  sides' ... values for that column are equal", and so does NATURAL: hence `JoinsAreRelational`
  asks of them only that no pair of INNER joins is missing.
- Every ON of a chain and every select item numbers its placeholders from the first parameter
  (`sql/select.rs` 398, 311), as does WHERE, so that two of them read the same parameter.
- ALTER TABLE leaves the index and full-text entries of a column it renames, drops or adds as they
  are (`sql/ddl.rs` 288): hence `altered` in `IndexesAgreeUnlessAltered`.
- `FROM a, b` without JOIN ignores every table behind the first (`sql/select.rs` 496).
- OLD.c in an INSERT's trigger, and NEW.c in a DELETE's, are read as the row's own
  column (`Missing` in Statements).

## Not modelled

- Statements that name another database than the one their transaction began in.
- The single steps of ALTER TABLE ... RENAME TO, which moves schema, rows and counter one after
  the other (`sql/ddl.rs` 309), and what UNIQUE makes of a renamed table, whose schema keeps
  its first name (`constraint.rs` 129): Catalog moves all three at once and has no constraints.
- Transactions that are open while the snapshot is written: what a rollback would undo is saved.
- A restart that finds raw.bin and no tables.bin, which skips raw.bin (`wal.rs` 272): RawRestart
  always reads it. Catalog has the case for the views and triggers.
- Composite keys; of multi-column and partial indexes, all that differs from one column.
- The tokenizer and the ranking of full-text search; LIKE, string, numeric and JSON
  functions: they compute a value from values and keep nothing.
- SQL parsing, which is a library's, and column options in CREATE TABLE.
- HTTP routes, configuration, the error type and the registry of virtual tables, which
  have no behaviour of interest.
- `wal.bin` is written and never read by the program, so a crash leaves nothing to recover
  from it.
