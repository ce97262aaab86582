--------------------------- MODULE CatalogProofs ---------------------------
(***************************************************************************)
(* Proofs about Catalog: what the maps of a database and the files of its  *)
(* snapshot have to do with each other, for any number of tables, rows,    *)
(* statements, snapshots, failures and crashes.                            *)
(***************************************************************************)
EXTENDS Catalog, TLAPS, WellFoundedInduction

TypeOK ==
    /\ schemas \in [Table -> Schema \union {None}]
    /\ dbs \in [Table -> Rows \union {None}]
    /\ gens \in [Table -> Nat \ {0}]
    /\ index \in [Table -> Entries]
    /\ fts \in [Table -> FullText \union {None}]
    /\ triggers \in [Table -> SUBSET Nat]
    /\ views \subseteq Table /\ keptViews \subseteq Table
    /\ call \in {Idle} \union [at : {"create", "drop"}, table : Table]
    /\ task \in {"idle", "dbs", "visit", "views", "triggers"}
    /\ seen \subseteq Table /\ dump \in Dump
    /\ disk \in [tables : TablesFile \union {None}, views : ViewsFile \union {None},
                 triggers : TriggersFile \union {None}]
    /\ nextId \in Nat /\ snapshots \in Nat
    /\ altered \subseteq Table /\ mixed \subseteq Table
    /\ steady \subseteq Table \X RowId /\ kept \subseteq Table \X RowId

\* While the snapshot reads the tables, no table is being made or dropped: both
\* want `schemas`.
Reading == task \in {"visit", "views", "triggers"}

GuardsOK ==
    /\ call # Idle => Guard("main", "schemas", "write") \in guards
    /\ Reading => Guard("task", "schemas", "read") \in guards
    /\ Reading => call = Idle

Creating(t) == call.at = "create" /\ call.table = t
Dropping(t) == call.at = "drop" /\ call.table = t

\* A table with a schema has rows and a counter above them.
RowsOK ==
    \A t \in Table :
        /\ schemas[t] # None => dbs[t] # None \/ Creating(t)
        /\ Creating(t) => schemas[t] # None /\ schemas[t].idx = None
        /\ Dropping(t) => schemas[t] = None
        /\ dbs[t] # None => \A r \in DOMAIN dbs[t] : r < gens[t]

\* Index and full-text index agree with the rows of t.
IndexAgrees(t) ==
    /\ schemas[t].idx # None => index[t] = EntriesOf(dbs[t], schemas[t].idx)
    /\ schemas[t].fts # None =>
          /\ fts[t] # None /\ fts[t].col = schemas[t].fts
          /\ fts[t].docs = DocumentsOf(dbs[t], schemas[t].fts)

IndexOK ==
    \A t \in Table \ altered : schemas[t] # None /\ ~Creating(t) => IndexAgrees(t)

\* A name without a table has no triggers of one.
TriggersOK ==
    \A t \in Table \ mixed :
        /\ schemas[t] # None => triggers[t] \subseteq {0, schemas[t].id}
        /\ schemas[t] = None /\ ~Dropping(t) => triggers[t] \subseteq {0}

\* Row x is in d as it is in its table.
InDump(d, x) ==
    /\ d[x[1]] # None /\ d[x[1]].schema # None
    /\ x[2] \in DOMAIN d[x[1]].rows
    /\ d[x[1]].rows[x[2]] = dbs[x[1]][x[2]]

Live(x) == dbs[x[1]] # None /\ x[2] \in DOMAIN dbs[x[1]]

\* What the snapshot has seen of a row nobody writes is still so.
SteadyOK ==
    task = "visit" =>
        \A x \in steady : /\ Live(x) /\ schemas[x[1]] # None
                          /\ x[1] \in seen => InDump(dump, x)

KeptOK ==
    \A x \in kept : Live(x) /\ disk.tables # None /\ InDump(disk.tables.data, x)

KeptViewsOK ==
    \A v \in keptViews : v \in views /\ disk.views # None /\ v \in disk.views.data

\* The table t in d is the one in memory, or neither is there.
SameTable(d, t) ==
    IF d[t] = None THEN schemas[t] = None
    ELSE IF d[t].schema = None THEN schemas[t] = None
    ELSE schemas[t] # None /\ schemas[t].id = d[t].schema.id

DumpOK ==
    /\ Reading => \A t \in seen \ mixed : SameTable(dump, t)
    /\ task \in {"views", "triggers"} => seen = Table
    /\ task \in {"idle", "dbs"} => seen = {}
    /\ \A t \in Table \ seen : dump[t] = None

\* The triggers in trigs belong to the table in d.
Owned(d, trigs, t) ==
    trigs[t] \subseteq IF d[t] = None THEN {0}
                       ELSE IF d[t].schema = None THEN {0} ELSE {0, d[t].schema.id}

\* A file's number tells whether this snapshot wrote it; two files of one snapshot
\* fit together.
FilesOK ==
    /\ disk.tables # None =>
          /\ disk.tables.from <= snapshots
          /\ task \in {"dbs", "visit"} => disk.tables.from < snapshots
          /\ task \in {"views", "triggers"} /\ disk.tables.from = snapshots =>
                 disk.tables.data = dump
    /\ disk.triggers # None =>
          /\ disk.triggers.from <= snapshots
          /\ task # "idle" => disk.triggers.from < snapshots
    /\ disk.tables # None /\ disk.triggers # None
       /\ disk.tables.from = disk.triggers.from =>
          \A t \in Table \ mixed : Owned(disk.tables.data, disk.triggers.data, t)

Inv == /\ TypeOK /\ GuardsOK /\ RowsOK /\ IndexOK /\ TriggersOK
       /\ SteadyOK /\ KeptOK /\ KeptViewsOK /\ DumpOK /\ FilesOK

-----------------------------------------------------------------------------
(* Rows, and the sets of rows of a table *)

\* A cell is added to a row.
LEMMA CellsWith ==
    ASSUME NEW f \in Cells, NEW c \in Column, NEW v \in Val
    PROVE  With(f, c, v) \in Cells
<1>1. PICK cs \in SUBSET Column : f \in [cs -> Val]
  BY DEF Cells
<1>2. With(f, c, v) \in [cs \union {c} -> Val] /\ cs \union {c} \in SUBSET Column
  BY <1>1 DEF With
<1> QED
  BY <1>2 DEF Cells

\* A cell is taken out of a row.
LEMMA CellsWithout ==
    ASSUME NEW f \in Cells, NEW c
    PROVE  Without(f, c) \in Cells
<1>1. PICK cs \in SUBSET Column : f \in [cs -> Val]
  BY DEF Cells
<1>2. Without(f, c) \in [cs \ {c} -> Val] /\ cs \ {c} \in SUBSET Column
  BY <1>1 DEF Without
<1> QED
  BY <1>2 DEF Cells

\* What a row is, written out.
LEMMA CellsAre ==
    ASSUME NEW f \in Cells
    PROVE  DOMAIN f \subseteq Column /\ \A c \in DOMAIN f : f[c] \in Val
BY DEF Cells

\* What the rows of a table are, written out.
LEMMA RowsAre ==
    ASSUME NEW rows \in Rows
    PROVE  DOMAIN rows \subseteq RowId /\ \A r \in DOMAIN rows : rows[r] \in Cells
BY DEF Rows

\* A row is written.
LEMMA RowsWith ==
    ASSUME NEW rows \in Rows, NEW r \in RowId, NEW row \in Cells
    PROVE  With(rows, r, row) \in Rows
<1>1. PICK rs \in SUBSET RowId : rows \in [rs -> Cells]
  BY DEF Rows
<1>2. With(rows, r, row) \in [rs \union {r} -> Cells] /\ rs \union {r} \in SUBSET RowId
  BY <1>1 DEF With
<1> QED
  BY <1>2 DEF Rows

\* A row is deleted.
LEMMA RowsWithout ==
    ASSUME NEW rows \in Rows, NEW r
    PROVE  Without(rows, r) \in Rows
<1>1. PICK rs \in SUBSET RowId : rows \in [rs -> Cells]
  BY DEF Rows
<1>2. Without(rows, r) \in [rs \ {r} -> Cells] /\ rs \ {r} \in SUBSET RowId
  BY <1>1 DEF Without
<1> QED
  BY <1>2 DEF Rows

\* A new table has no rows.
LEMMA NoRowsAreRows == NoRows \in Rows /\ DOMAIN NoRows = {}
<1>1. NoRows \in [{} -> Cells] /\ {} \in SUBSET RowId
  BY DEF NoRows
<1> QED
  BY <1>1 DEF Rows, NoRows

\* The entries of an index, and those of a full-text index.
LEMMA EntriesAre ==
    ASSUME NEW rows \in Rows, NEW c
    PROVE  EntriesOf(rows, c) \in Entries /\ DocumentsOf(rows, c) \in Entries
BY RowsAre DEF EntriesOf, DocumentsOf, Entries

\* An index stays an index when a row comes, goes or changes.
LEMMA MovedIsEntries ==
    ASSUME NEW e \in Entries, NEW old, NEW new, NEW c, NEW r \in RowId
    PROVE  /\ Moved(e, old, new, c, r) \in Entries
           /\ [Moved(e, old, new, c, r) EXCEPT ![Null] = {}] \in Entries
<1>1. \A m \in Entries : /\ Removed(m, old, c, r) \in Entries
                         /\ Entered(m, new, c, r) \in Entries
  BY DEF Removed, Entered, Entries
<1>2. Moved(e, old, new, c, r) \in Entries
  BY <1>1 DEF Moved
<1>3. \A m \in Entries : [m EXCEPT ![Null] = {}] \in Entries
  BY DEF Entries
<1> QED
  BY <1>2, <1>3

-----------------------------------------------------------------------------
(* What statements and the snapshot leave alone *)

\* Rows that still count as not written are what they were.
Untouched ==
    /\ steady' \subseteq steady /\ kept' \subseteq kept
    /\ \A x \in steady' \union kept' :
          Live(x) => Live(x)' /\ dbs'[x[1]][x[2]] = dbs[x[1]][x[2]]

\* While the snapshot reads, no table gets another schema's number.
SchemasStay ==
    Reading =>
        /\ \A t \in Table \ mixed' :
              IF schemas[t] = None THEN schemas'[t] = None
              ELSE schemas'[t] # None /\ schemas'[t].id = schemas[t].id
        /\ \A x \in steady' : schemas[x[1]] # None => schemas'[x[1]] # None

ViewsStay ==
    /\ keptViews' \subseteq keptViews
    /\ \A v \in keptViews' : v \in views => v \in views'

\* A statement that leaves these alone keeps what the snapshot relies on.
LEMMA StatementFrame ==
    ASSUME Inv, UNCHANGED <<task, seen, dump, disk, snapshots>>, mixed \subseteq mixed',
           Untouched, SchemasStay, ViewsStay
    PROVE  SteadyOK' /\ KeptOK' /\ KeptViewsOK' /\ DumpOK' /\ FilesOK'
<1>1. SteadyOK'
  BY DEF Inv, SteadyOK, Untouched, SchemasStay, InDump, Live, Reading
<1>2. KeptOK'
  BY DEF Inv, KeptOK, Untouched, InDump, Live
<1>3. KeptViewsOK'
  BY DEF Inv, KeptViewsOK, ViewsStay
<1>4. DumpOK'
  BY DEF Inv, TypeOK, DumpOK, SchemasStay, SameTable, Reading
<1>5. FilesOK'
  BY DEF Inv, FilesOK, Owned
<1> QED
  BY <1>1, <1>2, <1>3, <1>4, <1>5

\* A step of the snapshot keeps what statements rely on.
LEMMA TaskFrame ==
    ASSUME Inv, UNCHANGED <<mapVars, call, nextId, altered, mixed>>
    PROVE  RowsOK' /\ IndexOK' /\ TriggersOK'
<1>1. RowsOK'
  BY DEF Inv, RowsOK, Creating, Dropping, mapVars
<1>2. IndexOK'
  BY DEF Inv, IndexOK, IndexAgrees, Creating, mapVars
<1>3. TriggersOK'
  BY DEF Inv, TriggersOK, Dropping, mapVars
<1> QED
  BY <1>1, <1>2, <1>3

\* A statement that keeps no guard leaves the guards as they are.
LEMMA GuardFrame ==
    ASSUME Inv, UNCHANGED <<task, call, guards>>
    PROVE  GuardsOK'
BY DEF Inv, GuardsOK, Reading

\* Whoever writes rows takes them off both lists.
LEMMA WroteUntouched ==
    ASSUME Inv, NEW t \in Table, NEW rs, Wrote(t, rs),
           \A u \in Table \ {t} : dbs'[u] = dbs[u],
           \A r \in RowId \ rs : dbs[t] # None /\ r \in DOMAIN dbs[t] =>
               dbs'[t] # None /\ r \in DOMAIN dbs'[t] /\ dbs'[t][r] = dbs[t][r]
    PROVE  Untouched
BY DEF Inv, TypeOK, Wrote, Untouched, Live

-----------------------------------------------------------------------------
(* The indexes follow a row *)

\* Row r turns from old to new, None where there is no row, and no other changes.
Turns(rows, rows2, r, old, new) ==
    /\ IF old = None THEN r \notin DOMAIN rows ELSE r \in DOMAIN rows /\ rows[r] = old
    /\ IF new = None THEN r \notin DOMAIN rows2 ELSE r \in DOMAIN rows2 /\ rows2[r] = new
    /\ \A s \in RowId \ {r} : /\ s \in DOMAIN rows <=> s \in DOMAIN rows2
                              /\ s \in DOMAIN rows => rows2[s] = rows[s]

\* An index told what row r was and is lists the rows as they are.
LEMMA MovedAgrees ==
    ASSUME NEW rows \in Rows, NEW rows2 \in Rows, NEW c, NEW r \in RowId,
           NEW old, NEW new, Turns(rows, rows2, r, old, new)
    PROVE  /\ Moved(EntriesOf(rows, c), old, new, c, r) = EntriesOf(rows2, c)
           /\ [Moved(DocumentsOf(rows, c), old, new, c, r) EXCEPT ![Null] = {}]
              = DocumentsOf(rows2, c)
<1>. DEFINE Gone(e) == IF old = None THEN e ELSE Removed(e, old, c, r)
            Came(e) == IF new = None THEN e ELSE Entered(e, new, c, r)
<1>0. DOMAIN rows \subseteq RowId /\ DOMAIN rows2 \subseteq RowId
  BY RowsAre
<1>1. ASSUME NEW e \in Entries, NEW v \in Val
      PROVE  Gone(e)[v] = IF old # None /\ c \in DOMAIN old /\ old[c] = v
                          THEN e[v] \ {r} ELSE e[v]
  BY DEF Removed, Entries
<1>2. ASSUME NEW e \in Entries, NEW v \in Val
      PROVE  Came(e)[v] = IF new # None /\ c \in DOMAIN new /\ new[c] = v
                          THEN e[v] \union {r} ELSE e[v]
  BY DEF Entered, Entries
<1>3. ASSUME NEW e \in Entries
      PROVE  Gone(e) \in Entries /\ Came(e) \in Entries
  BY DEF Removed, Entered, Entries
<1>4. ASSUME NEW e \in Entries
      PROVE  Moved(e, old, new, c, r) = Came(Gone(e))
  BY DEF Moved
<1>5. ASSUME NEW e \in Entries, NEW v \in Val,
             e[v] = {s \in DOMAIN rows : c \in DOMAIN rows[s] /\ rows[s][c] = v}
      PROVE  Moved(e, old, new, c, r)[v]
             = {s \in DOMAIN rows2 : c \in DOMAIN rows2[s] /\ rows2[s][c] = v}
  <2>. DEFINE Was(s) == s \in DOMAIN rows /\ c \in DOMAIN rows[s] /\ rows[s][c] = v
              Is(s)  == s \in DOMAIN rows2 /\ c \in DOMAIN rows2[s] /\ rows2[s][c] = v
  <2>0. /\ r \in e[v] <=> old # None /\ c \in DOMAIN old /\ old[c] = v
        /\ Is(r) <=> new # None /\ c \in DOMAIN new /\ new[c] = v
    BY <1>5 DEF Turns
  <2>1. Gone(e)[v] = e[v] \ {r}
    <3>1. Gone(e)[v] = IF r \in e[v] THEN e[v] \ {r} ELSE e[v]
      BY <1>1, <1>5, <2>0
    <3> HIDE DEF Gone
    <3> QED
      BY <3>1
  <2>2. Came(Gone(e))[v] = IF Is(r) THEN (e[v] \ {r}) \union {r} ELSE e[v] \ {r}
    <3>1. Gone(e) \in Entries
      BY <1>3, <1>5
    <3> HIDE DEF Gone
    <3>2. Came(Gone(e))[v] = IF new # None /\ c \in DOMAIN new /\ new[c] = v
                             THEN Gone(e)[v] \union {r} ELSE Gone(e)[v]
      BY <1>2, <1>5, <3>1
    <3> HIDE DEF Came, Is
    <3> QED
      BY <2>0, <2>1, <3>2
  <2>3. \A s \in RowId \ {r} : Was(s) <=> Is(s)
    BY DEF Turns
  <2>4. Came(Gone(e))[v] = {s \in DOMAIN rows2 : Is(s)}
    BY <1>0, <1>5, <2>2, <2>3
  <2> QED
    BY <1>4, <2>4
<1>6. EntriesOf(rows, c) \in Entries /\ EntriesOf(rows2, c) \in Entries
      /\ DocumentsOf(rows, c) \in Entries
  BY EntriesAre
<1>7. Moved(EntriesOf(rows, c), old, new, c, r) = EntriesOf(rows2, c)
  <2>1. \A v \in Val : Moved(EntriesOf(rows, c), old, new, c, r)[v] = EntriesOf(rows2, c)[v]
    BY <1>5, <1>6 DEF EntriesOf
  <2>2. Moved(EntriesOf(rows, c), old, new, c, r) \in Entries
    BY <1>3, <1>4, <1>6
  <2> QED
    BY <1>6, <2>1, <2>2 DEF Entries
<1>8. [Moved(DocumentsOf(rows, c), old, new, c, r) EXCEPT ![Null] = {}] = DocumentsOf(rows2, c)
  <2>1. Moved(DocumentsOf(rows, c), old, new, c, r) \in Entries
    BY <1>3, <1>4, <1>6
  <2>2. \A v \in Val \ {Null} :
           Moved(DocumentsOf(rows, c), old, new, c, r)[v] = EntriesOf(rows2, c)[v]
    BY <1>5, <1>6 DEF EntriesOf, DocumentsOf
  <2> QED
    BY <1>6, <2>1, <2>2 DEF DocumentsOf, EntriesOf, Entries
<1> QED
  BY <1>7, <1>8

\* SyncIndexes leaves indexes, and full-text indexes with their column.
LEMMA SyncIsTyped ==
    ASSUME TypeOK, NEW t \in Table, NEW old, NEW new, NEW r \in RowId,
           SyncIndexes(t, old, new, r)
    PROVE  /\ index' \in [Table -> Entries]
           /\ fts' \in [Table -> FullText \union {None}]
<1>1. index' \in [Table -> Entries]
  BY MovedIsEntries DEF TypeOK, SyncIndexes
<1>2. CASE fts[t] = None
  BY <1>1, <1>2 DEF TypeOK, SyncIndexes
<1>3. CASE fts[t] # None
  <2>1. fts[t] \in FullText /\ fts[t].docs \in Entries /\ fts[t].col \in Column
    BY <1>3 DEF TypeOK, FullText
  <2>. DEFINE docs == [Moved(fts[t].docs, old, new, fts[t].col, r) EXCEPT ![Null] = {}]
  <2>2. docs \in Entries
    BY <2>1, MovedIsEntries
  <2>3. [fts[t] EXCEPT !.docs = docs] \in FullText
    BY <2>1, <2>2 DEF FullText
  <2>4. fts' = [fts EXCEPT ![t] = [fts[t] EXCEPT !.docs = docs]]
    BY <1>3, <2>1 DEF SyncIndexes, TypeOK
  <2> QED
    BY <1>1, <2>3, <2>4 DEF TypeOK
<1> QED
  BY <1>2, <1>3

\* The same, of the rows of a table before and after a step.
LEMMA TableMovedAgrees ==
    ASSUME NEW t, NEW r \in RowId, NEW old, NEW new, NEW c,
           dbs[t] \in Rows, dbs'[t] \in Rows, Turns(dbs[t], dbs'[t], r, old, new)
    PROVE  /\ Moved(EntriesOf(dbs[t], c), old, new, c, r) = EntriesOf(dbs'[t], c)
           /\ [Moved(DocumentsOf(dbs[t], c), old, new, c, r) EXCEPT ![Null] = {}]
              = DocumentsOf(dbs'[t], c)
<1>1. PICK was, is : was = dbs[t] /\ is = dbs'[t]
  OBVIOUS
<1>2. was \in Rows /\ is \in Rows /\ Turns(was, is, r, old, new)
  BY <1>1
<1>3. /\ Moved(EntriesOf(was, c), old, new, c, r) = EntriesOf(is, c)
      /\ [Moved(DocumentsOf(was, c), old, new, c, r) EXCEPT ![Null] = {}] = DocumentsOf(is, c)
  BY <1>2, MovedAgrees
<1> QED
  BY <1>1, <1>3

\* Row r of t turns from old to new, and nothing else changes.
RowTurns(t, r, old, new) ==
    /\ dbs[t] # None /\ dbs' = [dbs EXCEPT ![t] = dbs'[t]] /\ dbs'[t] \in Rows
    /\ Turns(dbs[t], dbs'[t], r, old, new)

\* The statement tells the indexes what it did to the row.
LEMMA SyncAgrees ==
    ASSUME Inv, NEW t \in Table, NEW r \in RowId, NEW old, NEW new,
           RowTurns(t, r, old, new), SyncIndexes(t, old, new, r),
           UNCHANGED <<schemas, call, altered>>
    PROVE  IndexOK'
<1>. SUFFICES ASSUME NEW u \in Table \ altered, schemas[u] # None, ~Creating(u)
              PROVE  IndexAgrees(u)'
  BY DEF IndexOK, Creating
<1>1. IndexAgrees(u)
  BY DEF Inv, IndexOK
<1>2. CASE u # t
  <2>1. index'[u] = index[u] /\ fts'[u] = fts[u] /\ dbs'[u] = dbs[u]
    BY <1>2 DEF SyncIndexes, RowTurns, Inv, TypeOK
  <2> QED
    BY <1>1, <2>1 DEF IndexAgrees
<1>3. CASE u = t
  <2>1. dbs[t] \in Rows /\ dbs'[t] \in Rows
    BY DEF RowTurns, Inv, TypeOK
  <2>2. ASSUME NEW c
        PROVE  /\ Moved(EntriesOf(dbs[t], c), old, new, c, r) = EntriesOf(dbs'[t], c)
               /\ [Moved(DocumentsOf(dbs[t], c), old, new, c, r) EXCEPT ![Null] = {}]
                  = DocumentsOf(dbs'[t], c)
    BY <2>1, TableMovedAgrees DEF RowTurns
  <2>3. ASSUME schemas[t].idx # None
        PROVE  index'[t] = EntriesOf(dbs'[t], schemas[t].idx)
    <3>1. index'[t] = Moved(index[t], old, new, schemas[t].idx, r)
      BY <1>3, <2>3 DEF SyncIndexes, Inv, TypeOK
    <3>2. index[t] = EntriesOf(dbs[t], schemas[t].idx)
      BY <1>1, <1>3, <2>3 DEF IndexAgrees
    <3> QED
      BY <2>2, <3>1, <3>2
  <2>4. ASSUME schemas[t].fts # None
        PROVE  /\ fts'[t] # None /\ fts'[t].col = schemas[t].fts
               /\ fts'[t].docs = DocumentsOf(dbs'[t], schemas[t].fts)
    <3>1. /\ fts[t] # None /\ fts[t].col = schemas[t].fts
          /\ fts[t].docs = DocumentsOf(dbs[t], schemas[t].fts)
      BY <1>1, <1>3, <2>4 DEF IndexAgrees
    <3>2. fts[t] \in FullText
      BY <3>1 DEF Inv, TypeOK
    <3>3. fts'[t] = [fts[t] EXCEPT !.docs =
                       [Moved(fts[t].docs, old, new, fts[t].col, r) EXCEPT ![Null] = {}]]
      BY <3>1 DEF SyncIndexes, Inv, TypeOK
    <3>4. /\ fts'[t].col = fts[t].col
          /\ fts'[t].docs = [Moved(fts[t].docs, old, new, fts[t].col, r) EXCEPT ![Null] = {}]
      BY <3>2, <3>3 DEF FullText
    <3>5. fts'[t] \in FullText \union {None}
      BY SyncIsTyped DEF Inv
    <3>6. fts'[t] # None
      <4>1. [Moved(fts[t].docs, old, new, fts[t].col, r) EXCEPT ![Null] = {}] \in Entries
        BY <3>2, MovedIsEntries DEF FullText
      <4>2. fts'[t] \in FullText
        BY <3>2, <3>3, <4>1 DEF FullText
      <4> QED
        BY <4>2, CatalogAssumption
    <3> QED
      BY <2>2, <3>1, <3>4, <3>6
  <2> QED
    BY <1>3, <2>3, <2>4 DEF IndexAgrees
<1> QED
  BY <1>2, <1>3

-----------------------------------------------------------------------------
(* INSERT, UPDATE and DELETE *)

\* Nothing is None by accident.
LEMMA NoneIsNothing ==
    /\ \A x \in Rows : x # None
    /\ \A x \in Cells : x # None
    /\ \A x \in FullText : x # None
    /\ \A x \in Schema : x # None
    /\ \A x \in DumpEntry : x # None
    /\ \A x \in TablesFile : x # None
    /\ \A x \in ViewsFile : x # None
    /\ \A x \in TriggersFile : x # None
    /\ \A x \in Column : x # None
BY CatalogAssumption

\* A statement that turns one row of a table keeps the invariant.
LEMMA RowStatement ==
    ASSUME Inv, NEW t \in Table, NEW r \in RowId, NEW old, NEW new,
           OneStep, RowTurns(t, r, old, new), SyncIndexes(t, old, new, r), Wrote(t, {r}),
           gens' \in [Table -> Nat \ {0}], \A u \in Table : gens'[u] >= gens[u],
           new # None => r < gens'[t],
           UNCHANGED <<schemas, triggers, viewVars, nextId, altered, mixed>>
    PROVE  Inv'
<1>. USE DEF OneStep, Statement, taskVars, viewVars
<1>1. TypeOK'
  <2>1. dbs' \in [Table -> Rows \union {None}]
    BY DEF RowTurns, Inv, TypeOK
  <2>2. /\ index' \in [Table -> Entries]
        /\ fts' \in [Table -> FullText \union {None}]
    BY SyncIsTyped DEF Inv
  <2>3. steady' \subseteq Table \X RowId /\ kept' \subseteq Table \X RowId
    BY DEF Wrote, Inv, TypeOK
  <2> QED
    BY <2>1, <2>2, <2>3 DEF Inv, TypeOK
<1>2. GuardsOK'
  BY GuardFrame
<1>3. RowsOK'
  <2>1. dbs' \in [Table -> Rows \union {None}] /\ dbs'[t] \in Rows /\ dbs'[t] # None
    BY NoneIsNothing DEF RowTurns, Inv, TypeOK
  <2>2. \A u \in Table \ {t} : dbs'[u] = dbs[u]
    BY DEF RowTurns, Inv, TypeOK
  <2>3. \A s \in DOMAIN dbs'[t] : s < gens'[t]
    <3>1. DOMAIN dbs'[t] \subseteq RowId /\ dbs[t] # None
      BY <2>1, RowsAre DEF RowTurns
    <3>2. \A s \in DOMAIN dbs'[t] : s = r \/ s \in DOMAIN dbs[t]
      BY <3>1 DEF RowTurns, Turns
    <3>3. \A s \in DOMAIN dbs[t] : s < gens[t]
      BY <3>1 DEF Inv, RowsOK
    <3>4. r \in DOMAIN dbs'[t] => r < gens'[t]
      BY DEF RowTurns, Turns
    <3>5. gens[t] \in Nat /\ gens'[t] \in Nat /\ gens'[t] >= gens[t]
      BY DEF Inv, TypeOK
    <3>6. RowId \subseteq Nat
      BY DEF RowId
    <3>7. ASSUME NEW s \in DOMAIN dbs'[t]
          PROVE  s < gens'[t]
      <4>1. s \in Nat
        BY <3>1, <3>6
      <4>2. CASE s = r
        BY <3>4, <4>2
      <4>3. CASE s \in DOMAIN dbs[t]
        BY <3>3, <3>5, <4>1, <4>3
      <4> QED
        BY <3>2, <4>2, <4>3
    <3> QED
      BY <3>7
  <2>4. \A u \in Table \ {t} : dbs[u] # None => \A s \in DOMAIN dbs[u] : s < gens'[u]
    <3>. TAKE u \in Table \ {t}
    <3>. HAVE dbs[u] # None
    <3>. TAKE s \in DOMAIN dbs[u]
    <3>1. s \in Nat
      BY RowsAre DEF Inv, TypeOK, RowId
    <3>2. s < gens[u]
      BY DEF Inv, RowsOK
    <3>3. gens[u] \in Nat /\ gens'[u] \in Nat /\ gens'[u] >= gens[u]
      BY DEF Inv, TypeOK
    <3> QED
      BY <3>1, <3>2, <3>3
  <2> QED
    BY <2>1, <2>2, <2>3, <2>4 DEF Inv, RowsOK, Creating, Dropping
<1>4. IndexOK'
  BY SyncAgrees
<1>5. TriggersOK'
  BY DEF Inv, TriggersOK, Dropping
<1>6. Untouched
  <2>1. \A u \in Table \ {t} : dbs'[u] = dbs[u]
    BY DEF RowTurns, Inv, TypeOK
  <2>2. dbs'[t] # None
    BY NoneIsNothing DEF RowTurns
  <2>3. \A s \in RowId \ {r} : s \in DOMAIN dbs[t] => s \in DOMAIN dbs'[t] /\ dbs'[t][s] = dbs[t][s]
    BY DEF RowTurns, Turns
  <2> QED
    BY <2>1, <2>2, <2>3, WroteUntouched
<1>7. SchemasStay /\ ViewsStay
  BY DEF SchemasStay, ViewsStay, Wrote
<1>8. SteadyOK' /\ KeptOK' /\ KeptViewsOK' /\ DumpOK' /\ FilesOK'
  BY <1>6, <1>7, StatementFrame
<1> QED
  BY <1>1, <1>2, <1>3, <1>4, <1>5, <1>8 DEF Inv

\* INSERT.
LEMMA InsertKeeps ==
    ASSUME Inv, NEW t \in Table, NEW given \in Cells, Insert(t, given)
    PROVE  Inv'
<1>. DEFINE r   == gens[t]
            row == [c \in DOMAIN given \union DOMAIN schemas[t].cols |->
                       IF c \in DOMAIN given THEN given[c] ELSE schemas[t].cols[c]]
<1>1. r \in RowId
  BY CatalogAssumption DEF Insert, Inv, TypeOK, RowId
<1>2. dbs[t] \in Rows /\ r \notin DOMAIN dbs[t]
  BY DEF Insert, Inv, TypeOK, RowsOK
<1>3. row \in Cells
  <2>1. schemas[t] \in Schema
    BY DEF Insert, Inv, TypeOK
  <2>2. schemas[t].cols \in Cells
    BY <2>1 DEF Schema
  <2>3. PICK cs \in SUBSET Column : schemas[t].cols \in [cs -> Val]
    BY <2>2 DEF Cells
  <2>4. PICK ds \in SUBSET Column : given \in [ds -> Val]
    BY DEF Cells
  <2>5. row \in [cs \union ds -> Val]
    BY <2>3, <2>4
  <2> QED
    BY <2>5 DEF Cells
<1>4. dbs' = [dbs EXCEPT ![t] = With(dbs[t], r, row)]
  BY DEF Insert, PutRow
<1>5. RowTurns(t, r, None, row)
  <2>1. dbs'[t] = With(dbs[t], r, row) /\ dbs' = [dbs EXCEPT ![t] = dbs'[t]]
    BY <1>4 DEF Inv, TypeOK
  <2>2. With(dbs[t], r, row) \in Rows
    BY <1>1, <1>2, <1>3, RowsWith
  <2>3. Turns(dbs[t], With(dbs[t], r, row), r, None, row)
    <3>. HIDE DEF row, r
    <3> QED
      BY <1>2, <1>3, NoneIsNothing DEF Turns, With
  <2> QED
    BY <2>1, <2>2, <2>3 DEF RowTurns, Insert
<1>6. /\ SyncIndexes(t, None, row, r) /\ Wrote(t, {r}) /\ OneStep
      /\ UNCHANGED <<schemas, triggers, viewVars, nextId, altered, mixed>>
  BY DEF Insert
<1>7. /\ gens' \in [Table -> Nat \ {0}] /\ \A u \in Table : gens'[u] >= gens[u]
      /\ r < gens'[t]
  BY DEF Insert, Inv, TypeOK
<1>. HIDE DEF row, r
<1> QED
  BY <1>1, <1>5, <1>6, <1>7, RowStatement

\* A counter is at least what it was when it does not change.
LEMMA GensStay ==
    ASSUME TypeOK, UNCHANGED gens
    PROVE  gens' \in [Table -> Nat \ {0}] /\ \A u \in Table : gens'[u] >= gens[u]
BY DEF TypeOK

\* UPDATE.
LEMMA UpdateKeeps ==
    ASSUME Inv, NEW t \in Table, NEW r \in RowId, NEW c \in Column, NEW v \in Val,
           Update(t, r, c, v)
    PROVE  Inv'
<1>. DEFINE old == dbs[t][r]
            new == With(old, c, v)
<1>1. dbs[t] # None /\ dbs[t] \in Rows /\ r \in DOMAIN dbs[t]
  BY DEF Update, LiveRows, Inv, TypeOK
<1>2. old \in Cells
  BY <1>1, RowsAre
<1>3. new \in Cells
  BY <1>2, CellsWith
<1>4. dbs' = [dbs EXCEPT ![t] = With(dbs[t], r, new)]
  BY DEF Update, PutRow
<1>5. RowTurns(t, r, old, new)
  <2>1. dbs'[t] = With(dbs[t], r, new) /\ dbs' = [dbs EXCEPT ![t] = dbs'[t]]
    BY <1>4 DEF Inv, TypeOK
  <2>2. With(dbs[t], r, new) \in Rows
    BY <1>1, <1>3, RowsWith
  <2>3. Turns(dbs[t], With(dbs[t], r, new), r, old, new)
    <3>. HIDE DEF new
    <3> QED
      BY <1>1, <1>2, <1>3, NoneIsNothing DEF Turns, With
  <2> QED
    BY <1>1, <2>1, <2>2, <2>3 DEF RowTurns
<1>6. /\ SyncIndexes(t, old, new, r) /\ Wrote(t, {r}) /\ OneStep /\ UNCHANGED gens
      /\ UNCHANGED <<schemas, triggers, viewVars, nextId, altered, mixed>>
  BY DEF Update
<1>7. /\ gens' \in [Table -> Nat \ {0}] /\ \A u \in Table : gens'[u] >= gens[u]
      /\ r < gens'[t]
  BY <1>1, <1>6, GensStay DEF Inv, RowsOK
<1>. HIDE DEF old, new
<1> QED
  BY <1>5, <1>6, <1>7, RowStatement

\* DELETE.
LEMMA DeleteKeeps ==
    ASSUME Inv, NEW t \in Table, NEW r \in RowId, Delete(t, r)
    PROVE  Inv'
<1>. DEFINE old == dbs[t][r]
<1>1. dbs[t] # None /\ dbs[t] \in Rows /\ r \in DOMAIN dbs[t]
  BY DEF Delete, LiveRows, Inv, TypeOK
<1>2. old \in Cells
  BY <1>1, RowsAre
<1>3. dbs' = [dbs EXCEPT ![t] = Without(dbs[t], r)]
  BY DEF Delete
<1>4. RowTurns(t, r, old, None)
  <2>1. dbs'[t] = Without(dbs[t], r) /\ dbs' = [dbs EXCEPT ![t] = dbs'[t]]
    BY <1>3 DEF Inv, TypeOK
  <2>2. Without(dbs[t], r) \in Rows
    BY <1>1, RowsWithout
  <2>3. Turns(dbs[t], Without(dbs[t], r), r, old, None)
    BY <1>1, <1>2, NoneIsNothing DEF Turns, Without
  <2> QED
    BY <1>1, <2>1, <2>2, <2>3 DEF RowTurns
<1>5. /\ SyncIndexes(t, old, None, r) /\ Wrote(t, {r}) /\ OneStep /\ UNCHANGED gens
      /\ UNCHANGED <<schemas, triggers, viewVars, nextId, altered, mixed>>
  BY DEF Delete
<1>6. gens' \in [Table -> Nat \ {0}] /\ \A u \in Table : gens'[u] >= gens[u]
  BY <1>5, GensStay DEF Inv
<1>. HIDE DEF old
<1> QED
  BY <1>4, <1>5, <1>6, RowStatement

-----------------------------------------------------------------------------
(* CREATE TABLE and DROP TABLE *)

\* Whoever holds `schemas` for writing keeps the snapshot from reading.
LEMMA WriterAlone ==
    ASSUME Inv, MayTake("main", "schemas", "write")
    PROVE  ~Reading
BY DEF Inv, GuardsOK, MayTake, Guard

\* Between two statements no table is being made or dropped.
LEMMA IdleIsNoCall ==
    ASSUME call = Idle, NEW t
    PROVE  ~Creating(t) /\ ~Dropping(t)
BY DEF Idle, Creating, Dropping

\* A new table has the schema of one.
LEMMA NewSchemaTyped ==
    ASSUME Inv, NEW t \in Table, NEW c \in Column \union {None}
    PROVE  /\ NewSchema(t, c) \in Schema /\ NewSchema(t, c).idx = None
           /\ NewSchema(t, c).id = nextId
<1>1. (CHOOSE d \in Column : TRUE) \in Column
  BY CatalogAssumption
<1>2. [d \in {CHOOSE d \in Column : TRUE} |-> Null] \in Cells
  BY <1>1, CatalogAssumption DEF Cells
<1> QED
  BY <1>2 DEF NewSchema, Schema, Inv, TypeOK

\* CREATE TABLE, up to the schema.
LEMMA StartCreateKeeps ==
    ASSUME Inv, NEW t \in Table, NEW schema \in Schema, schema.idx = None,
           schema.id = nextId, StartCreate(t, schema)
    PROVE  Inv'
<1>. USE DEF StartCreate, Statement, MayBegin, taskVars, viewVars
<1>1. ~Reading /\ ~Reading'
  BY WriterAlone DEF Reading
<1>2. TypeOK'
  BY DEF Inv, TypeOK
<1>3. GuardsOK'
  BY <1>1 DEF GuardsOK
<1>4. call' = [at |-> "create", table |-> t] /\ schemas'[t] = schema /\ schema # None
  BY NoneIsNothing DEF Inv, TypeOK
<1>5. \A u \in Table \ {t} : /\ schemas'[u] = schemas[u]
                             /\ ~Creating(u)'
  BY <1>4 DEF Inv, TypeOK, Creating
<1>6. \A u \in Table : ~Creating(u) /\ ~Dropping(u) /\ ~Dropping(u)'
  BY <1>4, IdleIsNoCall DEF Dropping
<1>7. Creating(t)'
  BY <1>4 DEF Creating
<1>8. RowsOK'
  BY <1>4, <1>5, <1>6, <1>7 DEF Inv, RowsOK
<1>9. IndexOK'
  BY <1>5, <1>6, <1>7 DEF Inv, IndexOK, IndexAgrees
<1>10. TriggersOK'
  BY <1>4, <1>5, <1>6 DEF Inv, TriggersOK
<1>11. Untouched /\ SchemasStay /\ ViewsStay
  BY <1>1 DEF Untouched, SchemasStay, ViewsStay, Live
<1>12. SteadyOK' /\ KeptOK' /\ KeptViewsOK' /\ DumpOK' /\ FilesOK'
  BY <1>11, StatementFrame
<1> QED
  BY <1>2, <1>3, <1>8, <1>9, <1>10, <1>12 DEF Inv

\* The table a statement is making or dropping.
LEMMA CallIsOne ==
    ASSUME Inv, call.at \in {"create", "drop"}
    PROVE  /\ call.table \in Table /\ call # Idle /\ ~Reading
           /\ \A u \in Table \ {call.table} : ~Creating(u) /\ ~Dropping(u)
BY DEF Inv, TypeOK, GuardsOK, Idle, Creating, Dropping

\* The main thread gives back its guards.
LEMMA ReleaseMain ==
    ASSUME Inv, call' = Idle, guards' = Released("main"), task' = task
    PROVE  GuardsOK'
BY DEF Inv, GuardsOK, Reading, Released, Guard

\* A table without rows has nothing in its full-text index.
LEMMA NoRowsNoDocuments ==
    ASSUME NEW c
    PROVE  NoEntries = DocumentsOf(NoRows, c) /\ NoEntries \in Entries
BY NoRowsAreRows DEF DocumentsOf, EntriesOf, NoEntries, Entries

\* CREATE TABLE, the rest of it.
LEMMA FinishCreateKeeps ==
    ASSUME Inv, FinishCreate
    PROVE  Inv'
<1>. USE DEF FinishCreate, taskVars, viewVars
<1>. DEFINE t == call.table
            c == schemas[t].fts
<1>1. /\ t \in Table /\ ~Reading
      /\ \A u \in Table \ {t} : ~Creating(u) /\ ~Dropping(u)
      /\ Creating(t) /\ ~Dropping(t)
  BY CallIsOne DEF Creating, Dropping
<1>2. schemas[t] \in Schema /\ c \in Column \union {None} /\ schemas[t].idx = None
  BY <1>1 DEF Inv, TypeOK, RowsOK, Schema
<1>3. /\ dbs' = [dbs EXCEPT ![t] = NoRows] /\ gens' = [gens EXCEPT ![t] = 1]
      /\ fts' = IF c = None THEN fts
                ELSE [fts EXCEPT ![t] = [col |-> c, docs |-> NoEntries]]
      /\ altered' = altered \ {t} /\ Wrote(t, RowId)
      /\ call' = Idle
  OBVIOUS
<1>4. c # None => [col |-> c, docs |-> NoEntries] \in FullText
  BY <1>2, NoRowsNoDocuments DEF FullText
<1>5. \A u \in Table : ~Creating(u)' /\ ~Dropping(u)'
  BY <1>3 DEF Idle, Creating, Dropping
<1>6. TypeOK'
  <2>1. /\ dbs' \in [Table -> Rows \union {None}] /\ gens' \in [Table -> Nat \ {0}]
        /\ fts' \in [Table -> FullText \union {None}]
    BY <1>1, <1>3, <1>4, NoRowsAreRows DEF Inv, TypeOK
  <2>2. /\ steady' \subseteq Table \X RowId /\ kept' \subseteq Table \X RowId
        /\ altered' \subseteq Table
    BY <1>3 DEF Wrote, Inv, TypeOK
  <2> QED
    BY <2>1, <2>2 DEF Inv, TypeOK
<1>7. GuardsOK'
  BY ReleaseMain
<1>8. RowsOK'
  <2>1. dbs'[t] = NoRows /\ \A u \in Table \ {t} : dbs'[u] = dbs[u] /\ gens'[u] = gens[u]
    BY <1>1, <1>3 DEF Inv, TypeOK
  <2> QED
    BY <1>1, <1>5, <2>1, NoneIsNothing, NoRowsAreRows DEF Inv, RowsOK
<1>9. IndexOK'
  <2>. SUFFICES ASSUME NEW u \in Table \ altered', schemas[u] # None
                PROVE  IndexAgrees(u)'
    BY DEF IndexOK
  <2>1. CASE u # t
    <3>1. dbs'[u] = dbs[u] /\ fts'[u] = fts[u]
      BY <1>1, <1>3, <2>1 DEF Inv, TypeOK
    <3>2. IndexAgrees(u)
      BY <1>1, <1>3, <2>1 DEF Inv, IndexOK
    <3> QED
      BY <3>1, <3>2 DEF IndexAgrees
  <2>2. CASE u = t
    <3>1. dbs'[t] = NoRows
      BY <1>1, <1>3 DEF Inv, TypeOK
    <3>2. ASSUME c # None
          PROVE  /\ fts'[t] # None /\ fts'[t].col = c
                 /\ fts'[t].docs = DocumentsOf(dbs'[t], c)
      <4>1. fts'[t] = [col |-> c, docs |-> NoEntries]
        BY <1>1, <1>3, <3>2 DEF Inv, TypeOK
      <4>2. fts'[t] # None
        BY <1>4, <3>2, <4>1, NoneIsNothing
      <4> QED
        BY <3>1, <4>1, <4>2, NoRowsNoDocuments
    <3> QED
      BY <1>2, <2>2, <3>2 DEF IndexAgrees
  <2> QED
    BY <2>1, <2>2
<1>10. TriggersOK'
  BY <1>1 DEF Inv, TriggersOK
<1>11. Untouched
  <2>1. \A u \in Table \ {t} : dbs'[u] = dbs[u]
    BY <1>3 DEF Inv, TypeOK
  <2> HIDE DEF t
  <2> QED
    BY <1>1, <1>3, <2>1, WroteUntouched
<1>12. SchemasStay /\ ViewsStay
  BY <1>1 DEF SchemasStay, ViewsStay
<1>13. SteadyOK' /\ KeptOK' /\ KeptViewsOK' /\ DumpOK' /\ FilesOK'
  BY <1>11, <1>12, StatementFrame
<1> QED
  BY <1>6, <1>7, <1>8, <1>9, <1>10, <1>13 DEF Inv

\* DROP TABLE, up to the schema.
LEMMA StartDropKeeps ==
    ASSUME Inv, NEW t \in Table, NEW ifExists, StartDrop(t, ifExists)
    PROVE  Inv'
<1>. USE DEF StartDrop, Statement, MayBegin, taskVars, viewVars, tableGhosts
<1>1. ~Reading /\ ~Reading'
  BY WriterAlone DEF Reading
<1>2. TypeOK'
  BY DEF Inv, TypeOK
<1>3. GuardsOK'
  BY <1>1 DEF GuardsOK
<1>4. call' = [at |-> "drop", table |-> t] /\ schemas'[t] = None
  BY DEF Inv, TypeOK
<1>5. \A u \in Table \ {t} : schemas'[u] = schemas[u] /\ ~Dropping(u)'
  BY <1>4 DEF Inv, TypeOK, Dropping
<1>6. \A u \in Table : ~Creating(u) /\ ~Dropping(u) /\ ~Creating(u)'
  BY <1>4, IdleIsNoCall DEF Creating
<1>7. Dropping(t)'
  BY <1>4 DEF Dropping
<1>8. RowsOK'
  BY <1>4, <1>5, <1>6, <1>7 DEF Inv, RowsOK
<1>9. IndexOK'
  BY <1>4, <1>5, <1>6 DEF Inv, IndexOK, IndexAgrees
<1>10. TriggersOK'
  BY <1>4, <1>5, <1>6, <1>7 DEF Inv, TriggersOK
<1>11. Untouched /\ SchemasStay /\ ViewsStay
  BY <1>1 DEF Untouched, SchemasStay, ViewsStay, Live
<1>12. SteadyOK' /\ KeptOK' /\ KeptViewsOK' /\ DumpOK' /\ FilesOK'
  BY <1>11, StatementFrame
<1> QED
  BY <1>2, <1>3, <1>8, <1>9, <1>10, <1>12 DEF Inv

\* DROP TABLE, the rest of it.
LEMMA FinishDropKeeps ==
    ASSUME Inv, FinishDrop
    PROVE  Inv'
<1>. USE DEF FinishDrop, ForgetTriggers, ForgetView, taskVars
<1>. DEFINE t == call.table
<1>1. /\ t \in Table /\ ~Reading
      /\ \A u \in Table \ {t} : ~Creating(u) /\ ~Dropping(u)
      /\ ~Creating(t) /\ Dropping(t)
  BY CallIsOne DEF Creating, Dropping
<1>2. schemas[t] = None
  BY <1>1 DEF Inv, RowsOK
<1>3. /\ dbs' = [dbs EXCEPT ![t] = None] /\ gens' = [gens EXCEPT ![t] = 1]
      /\ fts' = [fts EXCEPT ![t] = None] /\ triggers' = [triggers EXCEPT ![t] = {}]
      /\ views' = views \ {t} /\ keptViews' = keptViews \ {t}
      /\ altered' = altered \ {t} /\ Wrote(t, RowId) /\ call' = Idle
  OBVIOUS
<1>4. \A u \in Table : ~Creating(u)' /\ ~Dropping(u)'
  BY <1>3 DEF Idle, Creating, Dropping
<1>5. \A u \in Table \ {t} : /\ dbs'[u] = dbs[u] /\ gens'[u] = gens[u]
                             /\ fts'[u] = fts[u] /\ triggers'[u] = triggers[u]
  BY <1>3 DEF Inv, TypeOK
<1>6. TypeOK'
  <2>1. /\ dbs' \in [Table -> Rows \union {None}] /\ gens' \in [Table -> Nat \ {0}]
        /\ fts' \in [Table -> FullText \union {None}] /\ triggers' \in [Table -> SUBSET Nat]
    BY <1>1, <1>3 DEF Inv, TypeOK
  <2>2. /\ steady' \subseteq Table \X RowId /\ kept' \subseteq Table \X RowId
        /\ altered' \subseteq Table /\ views' \subseteq Table /\ keptViews' \subseteq Table
    BY <1>3 DEF Wrote, Inv, TypeOK
  <2> QED
    BY <2>1, <2>2 DEF Inv, TypeOK
<1>7. GuardsOK'
  BY ReleaseMain
<1>8. RowsOK'
  <2>1. dbs'[t] = None
    BY <1>1, <1>3 DEF Inv, TypeOK
  <2> QED
    BY <1>1, <1>2, <1>4, <1>5, <2>1 DEF Inv, RowsOK
<1>9. IndexOK'
  BY <1>1, <1>2, <1>3, <1>5 DEF Inv, IndexOK, IndexAgrees
<1>10. TriggersOK'
  <2>1. triggers'[t] = {}
    BY <1>1, <1>3 DEF Inv, TypeOK
  <2> QED
    BY <1>1, <1>2, <1>4, <1>5, <2>1 DEF Inv, TriggersOK
<1>11. Untouched
  <2> HIDE DEF t
  <2> QED
    BY <1>1, <1>3, <1>5, WroteUntouched
<1>12. SchemasStay /\ ViewsStay
  BY <1>1 DEF SchemasStay, ViewsStay
<1>13. SteadyOK' /\ KeptOK' /\ KeptViewsOK' /\ DumpOK' /\ FilesOK'
  BY <1>11, <1>12, StatementFrame
<1> QED
  BY <1>6, <1>7, <1>8, <1>9, <1>10, <1>13 DEF Inv

-----------------------------------------------------------------------------
(* ALTER TABLE *)

\* The schema of t becomes another of the same table, and each row is mapped to a
\* row that has the same under every column but those of cs.
Reshaped(t, schema, cs) ==
    /\ schemas' = [schemas EXCEPT ![t] = schema]
    /\ \A u \in Table \ {t} : dbs'[u] = dbs[u]
    /\ dbs[t] = None => dbs'[t] = None
    /\ dbs[t] # None => dbs'[t] \in Rows /\ DOMAIN dbs'[t] = DOMAIN dbs[t]
    /\ dbs[t] # None =>
         \A r \in DOMAIN dbs[t] : \A c \in Column \ cs :
            /\ c \in DOMAIN dbs'[t][r] <=> c \in DOMAIN dbs[t][r]
            /\ c \in DOMAIN dbs[t][r] => dbs'[t][r][c] = dbs[t][r][c]

\* A column that no row changed under has the same entries.
LEMMA EntriesStay ==
    ASSUME NEW t \in Table, NEW schema, NEW cs, Reshaped(t, schema, cs),
           dbs[t] # None, NEW c \in Column \ cs
    PROVE  /\ EntriesOf(dbs'[t], c) = EntriesOf(dbs[t], c)
           /\ DocumentsOf(dbs'[t], c) = DocumentsOf(dbs[t], c)
<1>1. \A v \in Val : {r \in DOMAIN dbs'[t] : c \in DOMAIN dbs'[t][r] /\ dbs'[t][r][c] = v}
                   = {r \in DOMAIN dbs[t] : c \in DOMAIN dbs[t][r] /\ dbs[t][r][c] = v}
  BY DEF Reshaped
<1>2. EntriesOf(dbs'[t], c) = EntriesOf(dbs[t], c)
  BY <1>1 DEF EntriesOf
<1> QED
  BY <1>2 DEF DocumentsOf

\* Adding, dropping or renaming a column keeps the invariant.
LEMMA ReshapeKeeps ==
    ASSUME Inv, NEW t \in Table, NEW schema \in Schema, NEW cs,
           schema.id = schemas[t].id, schema.idx = schemas[t].idx,
           schema.fts = schemas[t].fts, dbs' \in [Table -> Rows \union {None}],
           Alter(t), Reshaped(t, schema, cs), LeaveBehind(t, cs), Wrote(t, RowId),
           UNCHANGED <<gens, index, fts, triggers, viewVars, nextId, mixed>>
    PROVE  Inv'
<1>. USE DEF Alter, Statement, MayBegin, taskVars, viewVars
<1>1. /\ schemas'[t] = schema /\ schema # None
      /\ \A u \in Table \ {t} : schemas'[u] = schemas[u] /\ dbs'[u] = dbs[u]
  BY NoneIsNothing DEF Reshaped, Inv, TypeOK
<1>2. \A u \in Table : ~Creating(u) /\ ~Dropping(u) /\ ~Creating(u)' /\ ~Dropping(u)'
  BY IdleIsNoCall DEF Creating, Dropping
<1>3. dbs[t] # None /\ dbs'[t] # None /\ DOMAIN dbs'[t] = DOMAIN dbs[t]
  BY <1>2, NoneIsNothing DEF Reshaped, Inv, RowsOK
<1>4. TypeOK'
  <2>1. schemas' \in [Table -> Schema \union {None}]
    BY DEF Reshaped, Inv, TypeOK
  <2>2. /\ steady' \subseteq Table \X RowId /\ kept' \subseteq Table \X RowId
        /\ altered' \subseteq Table
    BY DEF Wrote, LeaveBehind, Inv, TypeOK
  <2> QED
    BY <2>1, <2>2 DEF Inv, TypeOK
<1>5. GuardsOK'
  BY GuardFrame
<1>6. RowsOK'
  BY <1>1, <1>2, <1>3 DEF Inv, RowsOK
<1>7. IndexOK'
  <2>. SUFFICES ASSUME NEW u \in Table \ altered', schemas'[u] # None
                PROVE  IndexAgrees(u)'
    BY DEF IndexOK
  <2>1. u \notin altered
    BY DEF LeaveBehind
  <2>2. CASE u # t
    BY <1>1, <1>2, <2>1, <2>2 DEF Inv, IndexOK, IndexAgrees
  <2>3. CASE u = t
    <3>1. schemas[t].idx \notin cs /\ schemas[t].fts \notin cs
      BY <2>3 DEF LeaveBehind
    <3>2. schemas[t] \in Schema
      BY DEF Inv, TypeOK
    <3>3. schemas[t].idx \in Column \union {None} /\ schemas[t].fts \in Column \union {None}
      BY <3>2 DEF Schema
    <3>4. IndexAgrees(t)
      BY <1>2, <2>1, <2>3 DEF Inv, IndexOK
    <3> QED
      BY <1>1, <1>3, <2>3, <3>1, <3>3, <3>4, EntriesStay DEF IndexAgrees
  <2> QED
    BY <2>2, <2>3
<1>8. TriggersOK'
  BY <1>1, <1>2 DEF Inv, TriggersOK
<1>9. Untouched
  BY <1>1, WroteUntouched
<1>10. SchemasStay /\ ViewsStay
  <2>1. \A x \in steady' : x[1] \in Table
    BY <1>4 DEF TypeOK
  <2>2. \A u \in Table : /\ schemas[u] = None => u # t /\ schemas'[u] = None
                         /\ schemas[u] # None => schemas'[u] # None /\ schemas'[u].id = schemas[u].id
    BY <1>1
  <2> QED
    BY <2>1, <2>2 DEF SchemasStay, ViewsStay
<1>11. SteadyOK' /\ KeptOK' /\ KeptViewsOK' /\ DumpOK' /\ FilesOK'
  BY <1>9, <1>10, StatementFrame
<1> QED
  BY <1>4, <1>5, <1>6, <1>7, <1>8, <1>11 DEF Inv

\* The schema of a table that has one.
LEMMA SchemaIs ==
    ASSUME Inv, NEW t \in Table, schemas[t] # None, NEW cols \in Cells
    PROVE  /\ schemas[t] \in Schema /\ schemas[t].cols \in Cells
           /\ LET new == [schemas[t] EXCEPT !.cols = cols]
              IN /\ new \in Schema /\ new.id = schemas[t].id
                 /\ new.idx = schemas[t].idx /\ new.fts = schemas[t].fts
BY DEF Inv, TypeOK, Schema

\* ALTER TABLE ADD COLUMN.
LEMMA AddColumnKeeps ==
    ASSUME Inv, NEW t \in Table, NEW c \in Column, NEW default \in Val,
           AddColumn(t, c, default)
    PROVE  Inv'
<1>. DEFINE schema == [schemas[t] EXCEPT !.cols = With(schemas[t].cols, c, default)]
            rows   == [r \in DOMAIN dbs[t] |-> With(dbs[t][r], c, default)]
<1>1. /\ schemas' = [schemas EXCEPT ![t] = schema] /\ Alter(t) /\ LeaveBehind(t, {c})
      /\ dbs' = IF dbs[t] = None THEN dbs ELSE [dbs EXCEPT ![t] = rows]
      /\ Wrote(t, RowId) /\ schemas[t] # None
      /\ UNCHANGED <<gens, index, fts, triggers, viewVars, nextId, mixed>>
  BY DEF AddColumn, Reshape, Alter, Inv, TypeOK
<1>2. schemas[t].cols \in Cells
  BY <1>1 DEF Inv, TypeOK, Schema
<1>3. With(schemas[t].cols, c, default) \in Cells
  BY <1>2, CellsWith
<1>4. /\ schema \in Schema /\ schema.id = schemas[t].id
      /\ schema.idx = schemas[t].idx /\ schema.fts = schemas[t].fts
  BY <1>1, <1>3, SchemaIs
<1>5. ASSUME dbs[t] # None
      PROVE  rows \in Rows
  <2>1. PICK rs \in SUBSET RowId : dbs[t] \in [rs -> Cells]
    BY <1>5 DEF Inv, TypeOK, Rows
  <2>2. rows \in [rs -> Cells]
    BY <2>1, CellsWith
  <2> QED
    BY <2>2 DEF Rows
<1>6. dbs' \in [Table -> Rows \union {None}]
  BY <1>1, <1>5 DEF Inv, TypeOK
<1>7. dbs[t] # None => dbs'[t] = rows
  BY <1>1 DEF Inv, TypeOK
<1>8. Reshaped(t, schema, {c})
  <2>1. \A u \in Table \ {t} : dbs'[u] = dbs[u]
    BY <1>1 DEF Inv, TypeOK
  <2> QED
    BY <1>1, <1>5, <1>7, <2>1 DEF Reshaped, With
<1>. HIDE DEF schema, rows
<1> QED
  BY <1>1, <1>4, <1>6, <1>8, ReshapeKeeps

\* ALTER TABLE DROP COLUMN.
LEMMA DropColumnKeeps ==
    ASSUME Inv, NEW t \in Table, NEW c \in Column, DropColumn(t, c)
    PROVE  Inv'
<1>. DEFINE schema == [schemas[t] EXCEPT !.cols = Without(schemas[t].cols, c)]
            rows   == [r \in DOMAIN dbs[t] |-> Without(dbs[t][r], c)]
<1>1. /\ schemas' = [schemas EXCEPT ![t] = schema] /\ Alter(t) /\ LeaveBehind(t, {c})
      /\ dbs' = IF dbs[t] = None THEN dbs ELSE [dbs EXCEPT ![t] = rows]
      /\ Wrote(t, RowId) /\ schemas[t] # None
      /\ UNCHANGED <<gens, index, fts, triggers, viewVars, nextId, mixed>>
  BY DEF DropColumn, Reshape, Alter, Inv, TypeOK
<1>2. schemas[t].cols \in Cells
  BY <1>1 DEF Inv, TypeOK, Schema
<1>3. Without(schemas[t].cols, c) \in Cells
  BY <1>2, CellsWithout
<1>4. /\ schema \in Schema /\ schema.id = schemas[t].id
      /\ schema.idx = schemas[t].idx /\ schema.fts = schemas[t].fts
  BY <1>1, <1>3, SchemaIs
<1>5. ASSUME dbs[t] # None
      PROVE  rows \in Rows
  <2>1. PICK rs \in SUBSET RowId : dbs[t] \in [rs -> Cells]
    BY <1>5 DEF Inv, TypeOK, Rows
  <2>2. rows \in [rs -> Cells]
    BY <2>1, CellsWithout
  <2> QED
    BY <2>2 DEF Rows
<1>6. dbs' \in [Table -> Rows \union {None}]
  BY <1>1, <1>5 DEF Inv, TypeOK
<1>7. dbs[t] # None => dbs'[t] = rows
  BY <1>1 DEF Inv, TypeOK
<1>8. Reshaped(t, schema, {c})
  <2>1. \A u \in Table \ {t} : dbs'[u] = dbs[u]
    BY <1>1 DEF Inv, TypeOK
  <2> QED
    BY <1>1, <1>5, <1>7, <2>1 DEF Reshaped, Without
<1>. HIDE DEF schema, rows
<1> QED
  BY <1>1, <1>4, <1>6, <1>8, ReshapeKeeps

\* ALTER TABLE RENAME COLUMN.
LEMMA RenameColumnKeeps ==
    ASSUME Inv, NEW t \in Table, NEW old \in Column, NEW new \in Column \ {old},
           RenameColumn(t, old, new)
    PROVE  Inv'
<1>. DEFINE Renamed(f) == IF old \in DOMAIN f
                          THEN With(Without(f, old), new, f[old]) ELSE f
            schema == [schemas[t] EXCEPT !.cols = Renamed(schemas[t].cols)]
            rows   == [r \in DOMAIN dbs[t] |-> Renamed(dbs[t][r])]
<1>1. /\ schemas' = [schemas EXCEPT ![t] = schema] /\ Alter(t) /\ LeaveBehind(t, {old, new})
      /\ dbs' = IF dbs[t] = None THEN dbs ELSE [dbs EXCEPT ![t] = rows]
      /\ Wrote(t, RowId) /\ schemas[t] # None
      /\ UNCHANGED <<gens, index, fts, triggers, viewVars, nextId, mixed>>
  BY DEF RenameColumn, Reshape, Alter, Inv, TypeOK
<1>2. \A f \in Cells : Renamed(f) \in Cells
  <2>. TAKE f \in Cells
  <2>1. CASE old \in DOMAIN f
    <3>1. f[old] \in Val
      BY <2>1, CellsAre
    <3>2. With(Without(f, old), new, f[old]) \in Cells
      BY <3>1, CellsWithout, CellsWith
    <3> QED
      BY <2>1, <3>2
  <2> QED
    BY <2>1
<1>3. schemas[t].cols \in Cells
  BY <1>1 DEF Inv, TypeOK, Schema
<1>4. /\ schema \in Schema /\ schema.id = schemas[t].id
      /\ schema.idx = schemas[t].idx /\ schema.fts = schemas[t].fts
  <2>1. Renamed(schemas[t].cols) \in Cells
    BY <1>2, <1>3
  <2> HIDE DEF Renamed
  <2> QED
    BY <1>1, <2>1, SchemaIs
<1>5. ASSUME dbs[t] # None
      PROVE  rows \in Rows
  <2>1. PICK rs \in SUBSET RowId : dbs[t] \in [rs -> Cells]
    BY <1>5 DEF Inv, TypeOK, Rows
  <2> HIDE DEF Renamed
  <2>2. rows \in [rs -> Cells]
    BY <1>2, <2>1
  <2> QED
    BY <2>2 DEF Rows
<1>6. dbs' \in [Table -> Rows \union {None}]
  BY <1>1, <1>5 DEF Inv, TypeOK
<1>7. dbs[t] # None => dbs'[t] = rows
  BY <1>1 DEF Inv, TypeOK
<1>8. Reshaped(t, schema, {old, new})
  <2>1. \A u \in Table \ {t} : dbs'[u] = dbs[u]
    BY <1>1 DEF Inv, TypeOK
  <2>2. \A f \in Cells : \A c \in Column \ {old, new} :
           /\ c \in DOMAIN Renamed(f) <=> c \in DOMAIN f
           /\ c \in DOMAIN f => Renamed(f)[c] = f[c]
    BY DEF With, Without
  <2>3. dbs[t] # None => \A r \in DOMAIN dbs[t] : dbs[t][r] \in Cells
    BY RowsAre DEF Inv, TypeOK
  <2> HIDE DEF Renamed
  <2> QED
    BY <1>1, <1>5, <1>7, <2>1, <2>2, <2>3 DEF Reshaped
<1>. HIDE DEF schema, rows
<1> QED
  BY <1>1, <1>4, <1>6, <1>8, ReshapeKeeps

\* ALTER TABLE RENAME.
LEMMA RenameTableKeeps ==
    ASSUME Inv, NEW old \in Table, NEW new \in Table, RenameTable(old, new)
    PROVE  Inv'
<1>. USE DEF RenameTable, Alter, Statement, MayBegin, MoveGen, taskVars, viewVars
<1>1. \A u \in Table : ~Creating(u) /\ ~Dropping(u) /\ ~Creating(u)' /\ ~Dropping(u)'
  BY IdleIsNoCall DEF Creating, Dropping
<1>2. /\ schemas'[old] = None /\ schemas'[new] = schemas[old]
      /\ dbs'[old] = None /\ dbs'[new] = dbs[old]
      /\ gens'[new] = gens[old]
      /\ \A u \in Table \ {old, new} : /\ schemas'[u] = schemas[u]
                                       /\ dbs'[u] = dbs[u] /\ gens'[u] = gens[u]
  BY DEF Inv, TypeOK
<1>3. TypeOK'
  BY DEF Inv, TypeOK
<1>4. GuardsOK'
  BY GuardFrame
<1>5. RowsOK'
  BY <1>1, <1>2 DEF Inv, RowsOK
<1>6. IndexOK'
  <2>. SUFFICES ASSUME NEW u \in Table \ altered', schemas'[u] # None
                PROVE  IndexAgrees(u)'
    BY DEF IndexOK
  <2>1. u \notin {old, new} /\ u \notin altered
    BY <1>2
  <2>2. IndexAgrees(u)
    BY <1>1, <1>2, <2>1 DEF Inv, IndexOK
  <2> QED
    BY <1>2, <2>1, <2>2 DEF IndexAgrees
<1>7. TriggersOK'
  BY <1>1, <1>2 DEF Inv, TriggersOK
<1>8. \A x \in steady' \union kept' : x[1] \in Table \ {old, new}
  BY DEF Inv, TypeOK
<1>9. Untouched
  BY <1>2, <1>8 DEF Untouched, Live
<1>10. SchemasStay /\ ViewsStay
  BY <1>2, <1>8 DEF SchemasStay, ViewsStay
<1>11. SteadyOK' /\ KeptOK' /\ KeptViewsOK' /\ DumpOK' /\ FilesOK'
  BY <1>9, <1>10, StatementFrame
<1> QED
  BY <1>3, <1>4, <1>5, <1>6, <1>7, <1>11 DEF Inv

-----------------------------------------------------------------------------
(* Indexes, views and triggers *)

\* A statement that changes no more than one table's index and index name keeps
\* the invariant when the index it leaves agrees with the rows.
LEMMA IndexStatement ==
    ASSUME Inv, NEW t \in Table, NEW idx \in Column \union {None}, NEW entries \in Entries,
           OneStep, schemas[t] # None,
           schemas' = [schemas EXCEPT ![t].idx = idx],
           index' = [index EXCEPT ![t] = entries],
           idx # None => entries = EntriesOf(dbs[t], idx),
           altered' \subseteq altered,
           t \in altered /\ t \notin altered' => schemas[t].fts = None,
           altered \ {t} \subseteq altered',
           UNCHANGED <<dbs, gens, fts, triggers, viewVars, nextId, mixed, steady, kept>>
    PROVE  Inv'
<1>. USE DEF OneStep, Statement, MayBegin, taskVars, viewVars
<1>1. \A u \in Table : ~Creating(u) /\ ~Dropping(u) /\ ~Creating(u)' /\ ~Dropping(u)'
  BY IdleIsNoCall DEF Creating, Dropping
<1>2. schemas[t] \in Schema
  BY DEF Inv, TypeOK
<1>3. /\ schemas'[t] \in Schema /\ schemas'[t].id = schemas[t].id
      /\ schemas'[t].fts = schemas[t].fts /\ schemas'[t].idx = idx
  BY <1>2 DEF Schema, Inv, TypeOK
<1>4. schemas'[t] # None /\ \A u \in Table \ {t} : schemas'[u] = schemas[u]
  BY <1>3, NoneIsNothing DEF Inv, TypeOK
<1>5. TypeOK'
  <2>1. schemas' \in [Table -> Schema \union {None}]
    BY <1>3 DEF Inv, TypeOK
  <2> QED
    BY <2>1 DEF Inv, TypeOK
<1>6. GuardsOK'
  BY GuardFrame
<1>7. RowsOK'
  BY <1>1, <1>4 DEF Inv, RowsOK
<1>8. IndexOK'
  <2>. SUFFICES ASSUME NEW u \in Table \ altered', schemas'[u] # None
                PROVE  IndexAgrees(u)'
    BY DEF IndexOK
  <2>1. CASE u # t
    <3>1. IndexAgrees(u)
      BY <1>1, <1>4, <2>1 DEF Inv, IndexOK
    <3>2. index'[u] = index[u]
      BY <2>1 DEF Inv, TypeOK
    <3> QED
      BY <1>4, <2>1, <3>1, <3>2 DEF IndexAgrees
  <2>2. CASE u = t
    <3>1. index'[t] = entries
      BY DEF Inv, TypeOK
    <3>2. schemas[t].fts # None => IndexAgrees(t)
      BY <1>1, <2>2 DEF Inv, IndexOK
    <3> QED
      BY <1>3, <2>2, <3>1, <3>2 DEF IndexAgrees
  <2> QED
    BY <2>1, <2>2
<1>9. TriggersOK'
  BY <1>1, <1>3, <1>4 DEF Inv, TriggersOK
<1>10. Untouched
  BY DEF Untouched, Live
<1>11. SchemasStay /\ ViewsStay
  <2>1. \A x \in steady' : x[1] \in Table
    BY <1>5 DEF TypeOK
  <2>2. \A u \in Table : /\ schemas[u] = None => schemas'[u] = None
                         /\ schemas[u] # None => schemas'[u] # None /\ schemas'[u].id = schemas[u].id
    BY <1>3, <1>4
  <2> QED
    BY <2>1, <2>2 DEF SchemasStay, ViewsStay
<1>12. SteadyOK' /\ KeptOK' /\ KeptViewsOK' /\ DumpOK' /\ FilesOK'
  BY <1>10, <1>11, StatementFrame
<1> QED
  BY <1>5, <1>6, <1>7, <1>8, <1>9, <1>12 DEF Inv

\* CREATE INDEX.
LEMMA CreateIndexKeeps ==
    ASSUME Inv, NEW t \in Table, NEW c \in Column, CreateIndex(t, c)
    PROVE  Inv'
<1>1. \A u \in Table : ~Creating(u)
  BY IdleIsNoCall DEF CreateIndex, OneStep, Statement, MayBegin
<1>2. dbs[t] \in Rows
  BY <1>1 DEF CreateIndex, Inv, RowsOK, TypeOK
<1>3. EntriesOf(dbs[t], c) \in Entries
  BY <1>2, EntriesAre
<1>4. /\ OneStep /\ schemas[t] # None
      /\ schemas' = [schemas EXCEPT ![t].idx = c]
      /\ index' = [index EXCEPT ![t] = EntriesOf(dbs[t], c)]
      /\ altered' \subseteq altered /\ altered \ {t} \subseteq altered'
      /\ t \in altered /\ t \notin altered' => schemas[t].fts = None
      /\ UNCHANGED <<dbs, gens, fts, triggers, viewVars, nextId, mixed, steady, kept>>
  BY DEF CreateIndex, RebuildIndex
<1> QED
  BY <1>3, <1>4, IndexStatement

\* DROP INDEX.
LEMMA DropIndexKeeps ==
    ASSUME Inv, NEW t \in Table, DropIndex(t)
    PROVE  Inv'
<1>1. NoEntries \in Entries
  BY DEF NoEntries, Entries
<1>2. /\ OneStep /\ schemas[t] # None
      /\ schemas' = [schemas EXCEPT ![t].idx = None]
      /\ index' = [index EXCEPT ![t] = NoEntries]
      /\ altered' = altered
      /\ UNCHANGED <<dbs, gens, fts, triggers, viewVars, nextId, mixed, steady, kept>>
  BY DEF DropIndex, tableGhosts
<1> QED
  BY <1>1, <1>2, IndexStatement

\* A statement that leaves tables and triggers alone keeps what is said of them.
LEMMA TablesFrame ==
    ASSUME Inv, UNCHANGED <<schemas, dbs, gens, index, fts, call, altered, mixed>>
    PROVE  RowsOK' /\ IndexOK' /\ (triggers' = triggers => TriggersOK')
<1>1. RowsOK'
  BY DEF Inv, RowsOK, Creating, Dropping
<1>2. IndexOK'
  BY DEF Inv, IndexOK, IndexAgrees, Creating
<1>3. triggers' = triggers => TriggersOK'
  BY DEF Inv, TriggersOK, Dropping
<1> QED
  BY <1>1, <1>2, <1>3

\* CREATE VIEW and DROP VIEW.
LEMMA ViewKeeps ==
    ASSUME Inv, NEW v \in Table, CreateView(v) \/ DropView(v)
    PROVE  Inv'
<1>. USE DEF CreateView, DropView, ForgetView, OneStep, Statement, taskVars, tableGhosts
<1>1. TypeOK'
  BY DEF Inv, TypeOK
<1>2. GuardsOK'
  BY GuardFrame
<1>3. RowsOK' /\ IndexOK' /\ TriggersOK'
  BY TablesFrame
<1>4. Untouched /\ SchemasStay /\ ViewsStay
  <2>1. ViewsStay
    BY DEF ViewsStay
  <2> QED
    BY <2>1 DEF Untouched, Live, SchemasStay
<1>5. SteadyOK' /\ KeptOK' /\ KeptViewsOK' /\ DumpOK' /\ FilesOK'
  BY <1>4, StatementFrame
<1> QED
  BY <1>1, <1>2, <1>3, <1>5 DEF Inv

\* CREATE TRIGGER.
LEMMA CreateTriggerKeeps ==
    ASSUME Inv, NEW t \in Table, CreateTrigger(t)
    PROVE  Inv'
<1>. USE DEF CreateTrigger, OneStep, Statement, taskVars, tableGhosts, viewVars
<1>. DEFINE for == IF schemas[t] = None THEN 0 ELSE schemas[t].id
<1>1. for \in Nat
  BY DEF Inv, TypeOK, Schema
<1>2. triggers' = [triggers EXCEPT ![t] = triggers[t] \union {for}]
  OBVIOUS
<1>3. TypeOK'
  <2> HIDE DEF for
  <2>1. triggers' \in [Table -> SUBSET Nat]
    BY <1>1, <1>2 DEF Inv, TypeOK
  <2> QED
    BY <2>1 DEF Inv, TypeOK
<1>4. GuardsOK'
  BY GuardFrame
<1>5. RowsOK' /\ IndexOK'
  BY TablesFrame
<1>6. TriggersOK'
  <2>1. /\ triggers'[t] = triggers[t] \union {for}
        /\ \A u \in Table \ {t} : triggers'[u] = triggers[u]
    BY <1>2 DEF Inv, TypeOK
  <2> QED
    BY <2>1 DEF Inv, TriggersOK, Dropping
<1>7. Untouched /\ SchemasStay /\ ViewsStay
  BY DEF Untouched, Live, SchemasStay, ViewsStay
<1>8. SteadyOK' /\ KeptOK' /\ KeptViewsOK' /\ DumpOK' /\ FilesOK'
  BY <1>7, StatementFrame
<1> QED
  BY <1>3, <1>4, <1>5, <1>6, <1>8 DEF Inv

-----------------------------------------------------------------------------
(* The snapshot *)

\* The snapshot leaves statements alone.
LEMMA SnapshottingKeeps ==
    ASSUME Inv, Snapshotting
    PROVE  RowsOK' /\ IndexOK' /\ TriggersOK'
BY TaskFrame DEF Snapshotting

\* The snapshot begins.
LEMMA StartSnapshotKeeps ==
    ASSUME Inv, StartSnapshot
    PROVE  Inv'
<1>. USE DEF StartSnapshot
<1>1. UNCHANGED <<mapVars, call, nextId, altered, mixed>>
  BY DEF Snapshotting
<1>2. TypeOK'
  BY <1>1 DEF Inv, TypeOK, mapVars
<1>3. GuardsOK'
  BY <1>1 DEF Inv, GuardsOK, Reading
<1>4. RowsOK' /\ IndexOK' /\ TriggersOK'
  BY SnapshottingKeeps
<1>5. SteadyOK'
  BY DEF SteadyOK
<1>6. KeptOK' /\ KeptViewsOK'
  BY <1>1 DEF Inv, KeptOK, KeptViewsOK, InDump, Live, mapVars
<1>7. DumpOK'
  BY DEF Inv, DumpOK, Reading
<1>8. FilesOK'
  <2>1. /\ disk.tables # None => disk.tables.from \in Nat
        /\ disk.triggers # None => disk.triggers.from \in Nat
        /\ snapshots \in Nat
    BY DEF Inv, TypeOK, TablesFile, TriggersFile, File
  <2> QED
    BY <1>1, <2>1 DEF Inv, FilesOK, Owned
<1> QED
  BY <1>2, <1>3, <1>4, <1>5, <1>6, <1>7, <1>8 DEF Inv

\* The snapshot gets `schemas`.
LEMMA GetSchemasKeeps ==
    ASSUME Inv, GetSchemas
    PROVE  Inv'
<1>. USE DEF GetSchemas
<1>1. UNCHANGED <<mapVars, call, nextId, altered, mixed>>
  BY DEF Snapshotting
<1>2. call = Idle
  BY DEF Inv, GuardsOK, MayTake, Guard
<1>3. \A x \in steady' : Live(x) /\ schemas[x[1]] # None /\ x \in Table \X RowId
  BY DEF LiveRows, Live
<1>4. TypeOK'
  BY <1>1, <1>3 DEF Inv, TypeOK, mapVars
<1>5. GuardsOK'
  BY <1>1, <1>2 DEF GuardsOK, Inv, Reading
<1>6. RowsOK' /\ IndexOK' /\ TriggersOK'
  BY SnapshottingKeeps
<1>7. seen' = {}
  BY DEF Inv, DumpOK
<1>8. SteadyOK'
  BY <1>1, <1>3, <1>7 DEF SteadyOK, Live, mapVars
<1>9. KeptOK' /\ KeptViewsOK'
  BY <1>1 DEF Inv, KeptOK, KeptViewsOK, InDump, Live, mapVars
<1>10. DumpOK'
  BY <1>7 DEF Inv, DumpOK
<1>11. FilesOK'
  BY <1>1 DEF Inv, FilesOK, Owned
<1> QED
  BY <1>4, <1>5, <1>6, <1>8, <1>9, <1>10, <1>11 DEF Inv

\* The snapshot has read a shard.
LEMMA VisitShardKeeps ==
    ASSUME Inv, NEW t \in Table, VisitShard(t)
    PROVE  Inv'
<1>. USE DEF VisitShard
<1>. DEFINE entry == [schema |-> schemas[t], rows |-> dbs[t]]
<1>1. UNCHANGED <<mapVars, call, nextId, altered, mixed>>
  BY DEF Snapshotting
<1>2. dbs[t] # None => entry \in DumpEntry /\ entry # None
  BY NoneIsNothing DEF Inv, TypeOK, DumpEntry
<1>3. /\ dbs[t] = None => dump' = dump
      /\ dbs[t] # None => dump' = [dump EXCEPT ![t] = entry]
  BY DEF Dumped
<1>4. dump' \in Dump
  BY <1>2, <1>3 DEF Inv, TypeOK, Dump
<1>5. /\ dbs[t] = None => dump'[t] = None
      /\ dbs[t] # None => dump'[t] = entry
      /\ \A u \in Table \ {t} : dump'[u] = dump[u]
  BY <1>3 DEF Inv, TypeOK, DumpOK, Dump
<1>6. call = Idle
  BY DEF Inv, GuardsOK, Reading
<1>7. TypeOK'
  BY <1>1, <1>4 DEF Inv, TypeOK, mapVars
<1>8. GuardsOK'
  BY <1>1 DEF GuardsOK, Inv, Reading
<1>9. RowsOK' /\ IndexOK' /\ TriggersOK'
  BY SnapshottingKeeps
<1>10. SteadyOK'
  <2>. SUFFICES ASSUME NEW x \in steady
                PROVE  /\ Live(x)' /\ schemas[x[1]] # None
                       /\ x[1] \in seen' => InDump(dump, x)'
    BY <1>1 DEF SteadyOK, mapVars
  <2>1. /\ Live(x) /\ schemas[x[1]] # None /\ x[1] \in Table
        /\ x[1] \in seen => InDump(dump, x)
    BY DEF Inv, SteadyOK, TypeOK
  <2>2. Live(x)'
    BY <1>1, <2>1 DEF Live, mapVars
  <2>3. CASE x[1] = t
    BY <1>1, <1>2, <1>5, <2>1, <2>2, <2>3 DEF InDump, Live, mapVars
  <2>4. CASE x[1] # t
    BY <1>1, <1>5, <2>1, <2>2, <2>4 DEF InDump, mapVars
  <2> QED
    BY <2>1, <2>2, <2>3, <2>4
<1>11. KeptOK' /\ KeptViewsOK'
  BY <1>1 DEF Inv, KeptOK, KeptViewsOK, InDump, Live, mapVars
<1>12. DumpOK'
  <2>1. SameTable(dump, t)'
    <3>1. dbs[t] = None => schemas[t] = None
      BY <1>6, IdleIsNoCall DEF Inv, RowsOK
    <3> QED
      BY <1>1, <1>2, <1>5, <3>1 DEF SameTable, mapVars
  <2>2. \A u \in seen \ mixed : u # t => SameTable(dump, u)'
    BY <1>1, <1>5 DEF Inv, TypeOK, DumpOK, Reading, SameTable, mapVars
  <2>3. \A u \in Table \ seen' : dump'[u] = None
    BY <1>5 DEF Inv, DumpOK
  <2> QED
    BY <1>1, <2>1, <2>2, <2>3 DEF DumpOK
<1>13. FilesOK'
  BY <1>1 DEF Inv, FilesOK, Owned
<1> QED
  BY <1>7, <1>8, <1>9, <1>10, <1>11, <1>12, <1>13 DEF Inv

\* A file of the snapshot is written.
LEMMA FileWritten ==
    ASSUME Inv, NEW data
    PROVE  /\ data \in Dump => [from |-> snapshots, data |-> data] \in TablesFile
           /\ data \in SUBSET Table => [from |-> snapshots, data |-> data] \in ViewsFile
           /\ data \in [Table -> SUBSET Nat] =>
                  [from |-> snapshots, data |-> data] \in TriggersFile
BY DEF Inv, TypeOK, TablesFile, ViewsFile, TriggersFile, File

\* tables.bin is written, or not.
LEMMA WriteTablesKeeps ==
    ASSUME Inv, WriteTables
    PROVE  Inv'
<1>. USE DEF WriteTables
<1>1. UNCHANGED <<mapVars, call, nextId, altered, mixed>>
  BY DEF Snapshotting
<1>2. GuardsOK'
  BY <1>1 DEF GuardsOK, Inv, Reading
<1>3. RowsOK' /\ IndexOK' /\ TriggersOK'
  BY SnapshottingKeeps
<1>4. SteadyOK'
  BY DEF SteadyOK
<1>5. DumpOK'
  BY <1>1 DEF Inv, DumpOK, Reading, SameTable, mapVars
<1>6. KeptViewsOK' /\ disk'.views = disk.views /\ disk'.triggers = disk.triggers
  BY <1>1 DEF Inv, TypeOK, KeptViewsOK, Saved, WriteFails, mapVars
<1>7. CASE Saved("tables", dump) /\ kept' = steady
  <2>. DEFINE file == [from |-> snapshots, data |-> dump]
  <2>1. file \in TablesFile /\ file # None
    BY FileWritten, NoneIsNothing DEF Inv, TypeOK
  <2>2. disk' = [disk EXCEPT !.tables = file] /\ disk'.tables = file
    BY <1>7 DEF Saved, Inv, TypeOK
  <2>3. TypeOK'
    BY <1>1, <1>7, <2>1, <2>2 DEF Inv, TypeOK, mapVars
  <2>4. KeptOK'
    BY <1>1, <1>7, <2>1, <2>2 DEF Inv, TypeOK, KeptOK, SteadyOK, InDump, Live, mapVars
  <2>5. FilesOK'
    <3>1. disk.triggers # None => disk.triggers.from < snapshots
      BY DEF Inv, FilesOK
    <3>2. snapshots \in Nat /\ disk'.tables.from = snapshots /\ disk'.tables.data = dump
      BY <2>2 DEF Inv, TypeOK
    <3>3. disk.triggers # None => disk.triggers.from \in Nat
      BY DEF Inv, TypeOK, TriggersFile, File
    <3> QED
      BY <1>6, <3>1, <3>2, <3>3 DEF FilesOK
  <2> QED
    BY <1>2, <1>3, <1>4, <1>5, <1>6, <2>3, <2>4, <2>5 DEF Inv
<1>8. CASE WriteFails /\ UNCHANGED kept
  <2>1. disk' = disk /\ kept' = kept
    BY <1>8 DEF WriteFails
  <2>2. TypeOK'
    BY <1>1, <2>1 DEF Inv, TypeOK, mapVars
  <2>3. KeptOK'
    BY <1>1, <2>1 DEF Inv, KeptOK, InDump, Live, mapVars
  <2>4. FilesOK'
    <3>1. disk.tables # None => disk.tables.from < snapshots /\ disk.tables.from \in Nat
      BY DEF Inv, TypeOK, FilesOK, TablesFile, File
    <3>2. snapshots \in Nat
      BY DEF Inv, TypeOK
    <3> QED
      BY <1>1, <2>1, <3>1, <3>2 DEF Inv, FilesOK, Owned
  <2> QED
    BY <1>2, <1>3, <1>4, <1>5, <1>6, <2>2, <2>3, <2>4 DEF Inv
<1> QED
  BY <1>7, <1>8

\* views.bin is written, or not.
LEMMA WriteViewsKeeps ==
    ASSUME Inv, WriteViews
    PROVE  Inv'
<1>. USE DEF WriteViews
<1>1. UNCHANGED <<mapVars, call, nextId, altered, mixed>>
  BY DEF Snapshotting
<1>2. GuardsOK'
  BY <1>1 DEF GuardsOK, Inv, Reading
<1>3. RowsOK' /\ IndexOK' /\ TriggersOK'
  BY SnapshottingKeeps
<1>4. SteadyOK'
  BY DEF SteadyOK
<1>5. DumpOK'
  BY <1>1 DEF Inv, DumpOK, Reading, SameTable, mapVars
<1>6. disk'.tables = disk.tables /\ disk'.triggers = disk.triggers
  BY DEF Inv, TypeOK, Saved, WriteFails
<1>7. KeptOK' /\ FilesOK'
  BY <1>1, <1>6 DEF Inv, KeptOK, InDump, Live, FilesOK, Owned, mapVars
<1>8. CASE Saved("views", views) /\ keptViews' = views
  <2>. DEFINE file == [from |-> snapshots, data |-> views]
  <2>1. file \in ViewsFile /\ file # None
    BY FileWritten, NoneIsNothing DEF Inv, TypeOK
  <2>2. disk' = [disk EXCEPT !.views = file] /\ disk'.views = file
    BY <1>8 DEF Saved, Inv, TypeOK
  <2>3. TypeOK'
    BY <1>1, <1>8, <2>1, <2>2 DEF Inv, TypeOK, mapVars
  <2>4. KeptViewsOK'
    BY <1>1, <1>8, <2>1, <2>2 DEF KeptViewsOK, mapVars
  <2> QED
    BY <1>2, <1>3, <1>4, <1>5, <1>7, <2>3, <2>4 DEF Inv
<1>9. CASE WriteFails /\ UNCHANGED keptViews
  <2>1. disk' = disk /\ keptViews' = keptViews
    BY <1>9 DEF WriteFails
  <2>2. TypeOK'
    BY <1>1, <2>1 DEF Inv, TypeOK, mapVars
  <2>3. KeptViewsOK'
    BY <1>1, <2>1 DEF Inv, KeptViewsOK, mapVars
  <2> QED
    BY <1>2, <1>3, <1>4, <1>5, <1>7, <2>2, <2>3 DEF Inv
<1> QED
  BY <1>8, <1>9

\* triggers.bin is written, or not, and the snapshot is over.
LEMMA WriteTriggersKeeps ==
    ASSUME Inv, WriteTriggers
    PROVE  Inv'
<1>. USE DEF WriteTriggers
<1>1. UNCHANGED <<mapVars, call, nextId, altered, mixed>>
  BY DEF Snapshotting
<1>2. call = Idle /\ seen = Table
  BY DEF Inv, GuardsOK, Reading, DumpOK
<1>3. GuardsOK'
  BY <1>1, <1>2 DEF GuardsOK, Reading
<1>4. RowsOK' /\ IndexOK' /\ TriggersOK'
  BY SnapshottingKeeps
<1>5. SteadyOK' /\ DumpOK'
  BY DEF SteadyOK, DumpOK, Reading, NoDump
<1>6. disk'.tables = disk.tables /\ disk'.views = disk.views
  BY DEF Inv, TypeOK, Saved, WriteFails
<1>7. KeptOK' /\ KeptViewsOK'
  BY <1>1, <1>6 DEF Inv, KeptOK, KeptViewsOK, InDump, Live, mapVars
<1>8. NoDump \in Dump
  BY DEF NoDump, Dump
<1>9. CASE Saved("triggers", triggers)
  <2>. DEFINE file == [from |-> snapshots, data |-> triggers]
  <2>1. file \in TriggersFile /\ file # None
    BY FileWritten, NoneIsNothing DEF Inv, TypeOK
  <2>2. disk' = [disk EXCEPT !.triggers = file] /\ disk'.triggers = file
    BY <1>9 DEF Saved, Inv, TypeOK
  <2>3. TypeOK'
    BY <1>1, <1>8, <2>1, <2>2 DEF Inv, TypeOK, mapVars
  <2>4. ASSUME NEW t \in Table \ mixed
        PROVE  Owned(dump, triggers, t)
    <3>1. SameTable(dump, t)
      BY <1>2, <2>4 DEF Inv, DumpOK, Reading
    <3>2. /\ schemas[t] # None => triggers[t] \subseteq {0, schemas[t].id}
          /\ schemas[t] = None => triggers[t] \subseteq {0}
      BY <1>2, <2>4, IdleIsNoCall DEF Inv, TriggersOK
    <3> QED
      BY <3>1, <3>2 DEF SameTable, Owned
  <2>5. FilesOK'
    <3>1. disk.tables # None => disk.tables.from <= snapshots
      BY DEF Inv, FilesOK
    <3>2. disk.tables # None /\ disk.tables.from = snapshots => disk.tables.data = dump
      BY DEF Inv, FilesOK
    <3>3. snapshots \in Nat /\ disk'.triggers.from = snapshots /\ disk'.triggers.data = triggers
      BY <2>2 DEF Inv, TypeOK
    <3> QED
      BY <1>1, <1>6, <2>4, <3>1, <3>2, <3>3 DEF FilesOK, Owned
  <2> QED
    BY <1>3, <1>4, <1>5, <1>7, <2>3, <2>5 DEF Inv
<1>10. CASE WriteFails
  <2>1. disk' = disk
    BY <1>10 DEF WriteFails
  <2>2. TypeOK'
    BY <1>1, <1>8, <2>1 DEF Inv, TypeOK, mapVars
  <2>3. FilesOK'
    BY <1>1, <2>1 DEF Inv, FilesOK, Owned
  <2> QED
    BY <1>3, <1>4, <1>5, <1>7, <2>2, <2>3 DEF Inv
<1> QED
  BY <1>9, <1>10

-----------------------------------------------------------------------------
(* A crash, and what the process finds when it starts *)

\* A table's rowids have a largest one.
LEMMA RowidsHaveMax ==
    ASSUME NEW rows \in Rows
    PROVE  \E m \in {0} \union DOMAIN rows : \A r \in DOMAIN rows : r <= m
<1>. DEFINE D == {0} \union DOMAIN rows
            T == {MaxRowid - m : m \in D}
<1>1. D \subseteq 0 .. MaxRowid /\ MaxRowid \in Nat
  BY RowsAre, CatalogAssumption DEF RowId
<1>2. T \subseteq Nat /\ T # {}
  <2>1. MaxRowid - 0 \in T
    OBVIOUS
  <2> QED
    BY <1>1, <2>1
<1>. HIDE DEF T
<1>3. PICK x \in T : \A y \in T : ~ (<<y, x>> \in OpToRel(<, Nat))
  BY <1>2, WFMin, NatLessThanWellFounded
<1>4. ASSUME NEW y \in T
      PROVE  x <= y
  <2>1. x \in Nat /\ y \in Nat
    BY <1>2
  <2>2. y < x => <<y, x>> \in {ss \in Nat \X Nat : ss[1] < ss[2]}
    BY <2>1
  <2>3. ~ (y < x)
    BY <1>3, <2>2 DEF OpToRel
  <2> QED
    BY <2>1, <2>3
<1>5. PICK m \in D : x = MaxRowid - m
  BY DEF T
<1>6. \A r \in D : MaxRowid - r \in T
  BY DEF T
<1>7. ASSUME NEW r \in DOMAIN rows
      PROVE  r <= m
  <2>1. MaxRowid - m <= MaxRowid - r
    BY <1>4, <1>5, <1>6
  <2>2. r \in Nat /\ m \in Nat
    BY <1>1
  <2> QED
    BY <1>1, <2>1, <2>2
<1> QED
  BY <1>7

\* The counter restarts above every row that is restored.
LEMMA MinNextRowidAbove ==
    ASSUME NEW rows \in Rows
    PROVE  /\ MinNextRowid(rows) \in Nat \ {0}
           /\ \A r \in DOMAIN rows : r < MinNextRowid(rows)
<1>. DEFINE m == CHOOSE n \in {0} \union DOMAIN rows : \A r \in DOMAIN rows : r <= n
<1>1. m \in {0} \union DOMAIN rows /\ \A r \in DOMAIN rows : r <= m
  BY RowidsHaveMax
<1>2. DOMAIN rows \subseteq Nat
  BY RowsAre DEF RowId
<1>3. MinNextRowid(rows) = 1 + m
  BY DEF MinNextRowid
<1>. HIDE DEF m
<1> QED
  BY <1>1, <1>2, <1>3

\* A crash at any moment, and the restart.
LEMMA CrashKeeps ==
    ASSUME Inv, CrashAndRestart
    PROVE  Inv'
<1>. DEFINE tables == IF disk.tables = None THEN NoDump ELSE disk.tables.data
            There(t) == tables[t] # None
            SchemaOf(t) == IF There(t) THEN tables[t].schema ELSE None
            Read(file, empty) == IF disk.tables = None \/ file = None THEN empty
                                 ELSE file.data
<1>1. /\ schemas' = [t \in Table |-> SchemaOf(t)]
      /\ dbs' = [t \in Table |-> IF There(t) THEN tables[t].rows ELSE None]
      /\ gens' = [t \in Table |-> IF There(t) THEN MinNextRowid(tables[t].rows) ELSE 1]
      /\ index' = [t \in Table |->
                      IF SchemaOf(t) = None \/ SchemaOf(t).idx = None THEN NoEntries
                      ELSE EntriesOf(tables[t].rows, SchemaOf(t).idx)]
      /\ fts' = [t \in Table |->
                    IF SchemaOf(t) = None \/ SchemaOf(t).fts = None THEN None
                    ELSE [col |-> SchemaOf(t).fts,
                          docs |-> DocumentsOf(tables[t].rows, SchemaOf(t).fts)]]
      /\ views' = Read(disk.views, {})
      /\ triggers' = Read(disk.triggers, [t \in Table |-> {}])
  BY DEF CrashAndRestart, Load
<1>2. /\ call' = Idle /\ guards' = {} /\ task' = "idle" /\ seen' = {} /\ dump' = NoDump
      /\ altered' = {} /\ mixed' = IF Torn THEN Table ELSE mixed
      /\ steady' = {} /\ keptViews' = IF disk.tables = None THEN {} ELSE keptViews
      /\ UNCHANGED <<disk, snapshots, nextId, kept>>
  BY DEF CrashAndRestart
<1>3. tables \in Dump
  BY DEF Inv, TypeOK, TablesFile, File, NoDump, Dump
<1>. HIDE DEF tables
<1>4. \A t \in Table : There(t) => /\ tables[t] \in DumpEntry
                                   /\ tables[t].rows \in Rows
                                   /\ tables[t].schema \in Schema \union {None}
  BY <1>3 DEF Dump, DumpEntry
<1>5. \A t \in Table : SchemaOf(t) # None =>
         /\ There(t) /\ SchemaOf(t) \in Schema /\ SchemaOf(t) = tables[t].schema
         /\ SchemaOf(t).idx \in Column \union {None}
         /\ SchemaOf(t).fts \in Column \union {None}
  BY <1>4 DEF Schema
<1>6. \A t \in Table : ~Creating(t)' /\ ~Dropping(t)'
  BY <1>2 DEF Idle, Creating, Dropping
<1>7. \A t \in Table :
         /\ schemas'[t] = SchemaOf(t)
         /\ There(t) => dbs'[t] = tables[t].rows /\ dbs'[t] # None
         /\ ~There(t) => dbs'[t] = None
         /\ There(t) => gens'[t] = MinNextRowid(tables[t].rows)
  BY <1>1, <1>4, NoneIsNothing
<1>8. TypeOK'
  <2>1. schemas' \in [Table -> Schema \union {None}]
    BY <1>1, <1>4
  <2>2. dbs' \in [Table -> Rows \union {None}]
    BY <1>1, <1>4
  <2>3. gens' \in [Table -> Nat \ {0}]
    BY <1>1, <1>4, MinNextRowidAbove
  <2>4. NoEntries \in Entries
    BY DEF NoEntries, Entries
  <2>5. index' \in [Table -> Entries]
    <3>1. \A t \in Table : SchemaOf(t) # None => EntriesOf(tables[t].rows, SchemaOf(t).idx) \in Entries
      BY <1>4, <1>5, EntriesAre
    <3> QED
      BY <1>1, <2>4, <3>1
  <2>6. fts' \in [Table -> FullText \union {None}]
    <3>1. \A t \in Table : SchemaOf(t) # None /\ SchemaOf(t).fts # None =>
             [col |-> SchemaOf(t).fts, docs |-> DocumentsOf(tables[t].rows, SchemaOf(t).fts)]
             \in FullText
      BY <1>4, <1>5, EntriesAre DEF FullText
    <3> QED
      BY <1>1, <3>1
  <2>7. views' \subseteq Table /\ keptViews' \subseteq Table
    BY <1>1, <1>2 DEF Inv, TypeOK, ViewsFile, File
  <2>8. triggers' \in [Table -> SUBSET Nat]
    BY <1>1 DEF Inv, TypeOK, TriggersFile, File
  <2>9. mixed' \subseteq Table /\ dump' \in Dump
    BY <1>2 DEF Inv, TypeOK, NoDump, Dump
  <2> QED
    BY <1>2, <2>1, <2>2, <2>3, <2>5, <2>6, <2>7, <2>8, <2>9 DEF Inv, TypeOK
<1>9. GuardsOK'
  BY <1>2 DEF GuardsOK, Reading
<1>10. RowsOK'
  BY <1>4, <1>5, <1>6, <1>7, MinNextRowidAbove DEF RowsOK
<1>11. IndexOK'
  <2>. SUFFICES ASSUME NEW t \in Table, schemas'[t] # None
                PROVE  IndexAgrees(t)'
    BY DEF IndexOK
  <2>1. SchemaOf(t) # None /\ There(t) /\ dbs'[t] = tables[t].rows
    BY <1>5, <1>7
  <2>2. SchemaOf(t).idx # None => index'[t] = EntriesOf(tables[t].rows, SchemaOf(t).idx)
    BY <1>1, <2>1
  <2>3. ASSUME SchemaOf(t).fts # None
        PROVE  /\ fts'[t] # None /\ fts'[t].col = SchemaOf(t).fts
               /\ fts'[t].docs = DocumentsOf(tables[t].rows, SchemaOf(t).fts)
    <3>. DEFINE entry == [col |-> SchemaOf(t).fts,
                          docs |-> DocumentsOf(tables[t].rows, SchemaOf(t).fts)]
    <3>1. fts'[t] = entry
      BY <1>1, <2>1, <2>3
    <3>2. entry \in FullText
      BY <1>4, <1>5, <2>1, <2>3, EntriesAre DEF FullText
    <3>3. entry # None
      BY <3>2, NoneIsNothing
    <3> QED
      BY <3>1, <3>3
  <2> HIDE DEF SchemaOf, There
  <2> QED
    BY <1>7, <2>1, <2>2, <2>3 DEF IndexAgrees
<1>12. TriggersOK'
  <2>. SUFFICES ASSUME NEW t \in Table \ mixed'
                PROVE  triggers'[t] \subseteq IF schemas'[t] = None THEN {0}
                                              ELSE {0, schemas'[t].id}
    BY DEF TriggersOK
  <2>1. CASE disk.tables = None \/ disk.triggers = None
    BY <1>1, <2>1
  <2>2. CASE disk.tables # None /\ disk.triggers # None
    <3>1. disk.tables.from = disk.triggers.from /\ t \notin mixed
      BY <1>2, <2>2 DEF Torn, Inv, TypeOK
    <3>2. Owned(disk.tables.data, disk.triggers.data, t)
      BY <2>2, <3>1 DEF Inv, FilesOK
    <3>3. triggers' = disk.triggers.data /\ tables = disk.tables.data
      BY <1>1, <2>2 DEF tables
    <3> QED
      BY <1>7, <3>2, <3>3 DEF Owned
  <2> QED
    BY <2>1, <2>2
<1>13. SteadyOK' /\ DumpOK'
  BY <1>2 DEF SteadyOK, DumpOK, Reading, NoDump
<1>14. KeptOK'
  <2>. SUFFICES ASSUME NEW x \in kept
                PROVE  Live(x)' /\ disk.tables # None /\ InDump(disk.tables.data, x)'
    BY <1>2 DEF KeptOK
  <2>1. /\ disk.tables # None /\ InDump(disk.tables.data, x) /\ x[1] \in Table
    BY DEF Inv, TypeOK, KeptOK
  <2>2. tables = disk.tables.data
    BY <2>1 DEF tables
  <2>3. There(x[1])
    BY <2>1, <2>2 DEF InDump
  <2>4. dbs'[x[1]] = tables[x[1]].rows /\ dbs'[x[1]] # None
    BY <1>7, <2>1, <2>3
  <2> QED
    BY <1>2, <2>1, <2>2, <2>4 DEF InDump, Live
<1>15. KeptViewsOK'
  BY <1>1, <1>2 DEF Inv, KeptViewsOK
<1>16. FilesOK'
  BY <1>2 DEF Inv, TypeOK, FilesOK, Owned
<1> QED
  BY <1>8, <1>9, <1>10, <1>11, <1>12, <1>13, <1>14, <1>15, <1>16 DEF Inv

-----------------------------------------------------------------------------
(* The specification *)

\* Nothing is there in the beginning.
LEMMA InitInv == Init => Inv
<1>. SUFFICES ASSUME Init
              PROVE  Inv
  OBVIOUS
<1>. USE DEF Init
<1>1. TypeOK
  <2>1. NoDump \in Dump /\ NoEntries \in Entries
    BY DEF NoDump, Dump, NoEntries, Entries
  <2> QED
    BY <2>1 DEF TypeOK, NoDump
<1>2. \A t \in Table : ~Creating(t) /\ ~Dropping(t) /\ schemas[t] = None /\ dbs[t] = None
  BY IdleIsNoCall DEF NoDump
<1>3. GuardsOK /\ SteadyOK /\ KeptOK /\ KeptViewsOK
  BY DEF GuardsOK, Reading, SteadyOK, KeptOK, KeptViewsOK
<1>4. RowsOK /\ IndexOK /\ TriggersOK
  BY <1>2 DEF RowsOK, IndexOK, TriggersOK
<1>5. DumpOK /\ FilesOK
  BY DEF DumpOK, FilesOK, Reading, NoDump
<1> QED
  BY <1>1, <1>3, <1>4, <1>5 DEF Inv

\* Every step of the main thread keeps the invariant.
LEMMA MainStepKeeps ==
    ASSUME Inv, MainStep
    PROVE  Inv'
<1>1. ASSUME NEW t \in Table, CreateTable(t) \/ CreateVirtualTable(t)
      PROVE  Inv'
  <2>1. (CHOOSE c \in Column : TRUE) \in Column
    BY CatalogAssumption
  <2>2. PICK c \in Column \union {None} : StartCreate(t, NewSchema(t, c))
    BY <1>1, <2>1 DEF CreateTable, CreateVirtualTable
  <2> QED
    BY <2>2, NewSchemaTyped, StartCreateKeeps
<1>2. ASSUME NEW t \in Table, NEW ifExists \in BOOLEAN, StartDrop(t, ifExists)
      PROVE  Inv'
  BY <1>2, StartDropKeeps
<1>3. ASSUME NEW t \in Table, \/ CreateView(t) \/ DropView(t)
                              \/ CreateTrigger(t) \/ DropIndex(t)
      PROVE  Inv'
  BY <1>3, ViewKeeps, CreateTriggerKeeps, DropIndexKeeps
<1>4. ASSUME NEW t \in Table, NEW new \in Table, RenameTable(t, new)
      PROVE  Inv'
  BY <1>4, RenameTableKeeps
<1>5. ASSUME NEW t \in Table, NEW c \in Column,
             \/ \E default \in Val : AddColumn(t, c, default)
             \/ DropColumn(t, c) \/ CreateIndex(t, c)
             \/ \E new \in Column \ {c} : RenameColumn(t, c, new)
      PROVE  Inv'
  BY <1>5, AddColumnKeeps, DropColumnKeeps, CreateIndexKeeps, RenameColumnKeeps
<1>6. ASSUME NEW t \in Table, NEW cs \in SUBSET Column, NEW v \in Val,
             Insert(t, [c \in cs |-> v])
      PROVE  Inv'
  <2>1. [c \in cs |-> v] \in Cells
    BY DEF Cells
  <2> QED
    BY <1>6, <2>1, InsertKeeps
<1>7. ASSUME NEW t \in Table, NEW r \in RowId,
             Delete(t, r) \/ \E c \in Column : \E v \in Val : Update(t, r, c, v)
      PROVE  Inv'
  BY <1>7, DeleteKeeps, UpdateKeeps
<1> QED
  BY <1>1, <1>2, <1>3, <1>4, <1>5, <1>6, <1>7, FinishCreateKeeps, FinishDropKeeps
  DEF MainStep

\* Every step keeps the invariant.
LEMMA NextKeeps == Inv /\ [Next]_vars => Inv'
<1>. SUFFICES ASSUME Inv, [Next]_vars
              PROVE  Inv'
  OBVIOUS
<1>1. CASE MainStep
  BY <1>1, MainStepKeeps
<1>2. CASE TaskStep
  BY <1>2, StartSnapshotKeeps, GetSchemasKeeps, VisitShardKeeps, WriteTablesKeeps,
     WriteViewsKeeps, WriteTriggersKeeps DEF TaskStep
<1>3. CASE CrashAndRestart
  BY <1>3, CrashKeeps
<1>4. CASE UNCHANGED vars
  <2>1. UNCHANGED <<mapVars, call, guards, taskVars, tableGhosts, keptViews>>
    BY <1>4 DEF vars
  <2>2. TypeOK'
    BY <2>1 DEF Inv, TypeOK, mapVars, taskVars, tableGhosts
  <2>3. GuardsOK'
    BY <2>1 DEF Inv, GuardsOK, Reading, taskVars
  <2>4. RowsOK' /\ IndexOK' /\ TriggersOK'
    BY <2>1, TaskFrame DEF tableGhosts
  <2>5. Untouched /\ SchemasStay /\ ViewsStay
    BY <2>1 DEF Untouched, SchemasStay, ViewsStay, Live, mapVars, tableGhosts
  <2>6. SteadyOK' /\ KeptOK' /\ KeptViewsOK' /\ DumpOK' /\ FilesOK'
    BY <2>1, <2>5, StatementFrame DEF taskVars, tableGhosts
  <2> QED
    BY <2>2, <2>3, <2>4, <2>6 DEF Inv
<1> QED
  BY <1>1, <1>2, <1>3, <1>4 DEF Next

\* Maps, guards, snapshot and files fit together at every moment: in the middle of a
\* CREATE or DROP TABLE, between two shards of a snapshot, after every crash.
THEOREM CatalogInvariant == Spec => []Inv
<1>1. Init => Inv
  BY InitInv
<1>2. Inv /\ [Next]_vars => Inv'
  BY NextKeeps
<1> QED
  BY <1>1, <1>2, PTL DEF Spec

\* No INSERT overwrites a row: set_min_next_rowid after a restart, the counter moved
\* by RENAME and reset by CREATE and DROP always leave it above every rowid in use.
THEOREM RowidsAreFresh == Spec => []NextRowidFresh
<1>1. Inv => NextRowidFresh
  BY DEF Inv, RowsOK, NextRowidFresh, LiveRows
<1> QED
  BY <1>1, CatalogInvariant, PTL

\* update_indexes, sync_fts_index, rebuild_index and the restart keep both indexes
\* equal to what the rows say; only ALTER TABLE leaves them behind.
THEOREM IndexesAgree == Spec => []IndexesAgreeUnlessAltered
<1>1. Inv => IndexesAgreeUnlessAltered
  <2>. SUFFICES ASSUME Inv, NEW t \in Table \ altered, call = Idle, schemas[t] # None
                PROVE  IndexAgrees(t)
    BY DEF IndexesAgreeUnlessAltered, IndexAgrees
  <2> QED
    BY IdleIsNoCall DEF Inv, IndexOK
<1> QED
  BY <1>1, CatalogInvariant, PTL

\* DROP TABLE forgets the triggers of the table, so that a name made again does not
\* meet them, through restarts from files of one snapshot too.
THEOREM TriggersOfTheTable == Spec => []TriggersBelong
<1>1. Inv => TriggersBelong
  BY DEF Inv, TriggersOK, TriggersBelong
<1> QED
  BY <1>1, CatalogInvariant, PTL

\* save_sql_snapshot loses no row it might have kept: what nobody wrote since it began
\* is in tables.bin as it is, and load_sql_snapshot brings it back.
THEOREM KeptRowsSurvive == Spec => []KeptSurvives
<1>1. Inv => KeptSurvives
  <2>. SUFFICES ASSUME Inv
                PROVE  KeptSurvives
    OBVIOUS
  <2>1. \A x \in kept : Live(x) /\ InDump(disk.tables.data, x) /\ x \in Table \X RowId
    BY DEF Inv, TypeOK, KeptOK
  <2>2. \A x \in kept : x \in LiveRows
    BY <2>1 DEF LiveRows, Live
  <2> QED
    BY <2>1, <2>2 DEF Inv, KeptViewsOK, KeptSurvives, InDump
<1> QED
  BY <1>1, CatalogInvariant, PTL

\* Who keeps a guard, and that the one the snapshot has on `dbs` is a reader's.
GuardsHeld ==
    \A g \in guards : /\ g.who \in {"main", "task"}
                      /\ g.map = "dbs" => g.mode = "read"
                      /\ g.who = "task" => task # "idle"

\* No guard on `dbs` is kept by a writer, and the snapshot's are gone when it is.
LEMMA GuardsHeldNext ==
    ASSUME Inv, GuardsHeld, [Next]_vars
    PROVE  GuardsHeld'
<1>1. CASE UNCHANGED <<task, guards>>
  BY <1>1 DEF GuardsHeld
<1>2. CASE guards' = Released("main") /\ task' = task
  BY <1>2 DEF GuardsHeld, Released
<1>3. CASE guards' = guards \union {Guard("main", "schemas", "write")} /\ task' = task
  BY <1>3 DEF GuardsHeld, Guard
<1>4. CASE StartSnapshot
  BY <1>4 DEF StartSnapshot, GuardsHeld, Guard
<1>5. CASE GetSchemas
  BY <1>5 DEF GetSchemas, GuardsHeld, Guard
<1>6. CASE WriteTables \/ WriteViews
  BY <1>6 DEF WriteTables, WriteViews, GuardsHeld
<1>7. CASE WriteTriggers
  BY <1>7 DEF WriteTriggers, GuardsHeld, Released
<1>8. CASE CrashAndRestart
  BY <1>8 DEF CrashAndRestart, GuardsHeld
<1>9. CASE \E t \in Table : VisitShard(t)
  BY <1>1, <1>9 DEF VisitShard
<1>10. CASE MainStep
  <2>1. Statement => task' = task
    BY DEF Statement, taskVars
  <2>2. OneStep => UNCHANGED <<task, guards>>
    BY <2>1 DEF OneStep
  <2>3. \A t : Alter(t) => UNCHANGED <<task, guards>>
    BY <2>1 DEF Alter
  <2>4. \A t, s : StartCreate(t, s) =>
            guards' = guards \union {Guard("main", "schemas", "write")} /\ task' = task
    BY <2>1 DEF StartCreate
  <2>5. \A t, e : StartDrop(t, e) =>
            guards' = guards \union {Guard("main", "schemas", "write")} /\ task' = task
    BY <2>1 DEF StartDrop
  <2>6. FinishCreate \/ FinishDrop => guards' = Released("main") /\ task' = task
    BY DEF FinishCreate, FinishDrop, taskVars
  <2>7. \A t : \/ CreateView(t) \/ DropView(t) \/ CreateTrigger(t) \/ DropIndex(t)
               \/ (\E c : CreateIndex(t, c)) \/ (\E f : Insert(t, f))
               \/ (\E r : Delete(t, r) \/ \E c, v : Update(t, r, c, v))
               => UNCHANGED <<task, guards>>
    <3>1. \A t : CreateView(t) \/ DropView(t) \/ CreateTrigger(t) \/ DropIndex(t) => OneStep
      BY DEF CreateView, DropView, CreateTrigger, DropIndex
    <3>2. \A t, c : CreateIndex(t, c) => OneStep
      BY DEF CreateIndex
    <3>3. \A t, f : Insert(t, f) => OneStep
      BY DEF Insert
    <3>4. \A t, r, c, v : Update(t, r, c, v) \/ Delete(t, r) => OneStep
      BY DEF Update, Delete
    <3> QED
      BY <2>2, <3>1, <3>2, <3>3, <3>4
  <2>8. \A t : \/ (\E new : RenameTable(t, new))
               \/ \E c : \/ (\E default : AddColumn(t, c, default)) \/ DropColumn(t, c)
                         \/ \E new : RenameColumn(t, c, new)
               => UNCHANGED <<task, guards>>
    BY <2>3 DEF RenameTable, AddColumn, DropColumn, RenameColumn
  <2> QED
    BY <1>1, <1>2, <1>3, <1>10, <2>4, <2>5, <2>6, <2>7, <2>8
    DEF MainStep, CreateTable, CreateVirtualTable
<1>11. CASE UNCHANGED vars
  BY <1>1, <1>11 DEF vars, taskVars
<1> QED
  BY <1>4, <1>5, <1>6, <1>7, <1>8, <1>9, <1>10, <1>11 DEF Next, TaskStep

\* Of the two statements that keep `schemas` and ask for `dbs`, DROP TABLE asks as a
\* reader and is let in; CREATE TABLE asks as a writer and meets only a snapshot that
\* is itself about to ask for `schemas`.
THEOREM OnlyCreateCanWait == Spec => []OnlyCreateWaits
<1>1. Init => GuardsHeld
  BY DEF Init, GuardsHeld
<1>2. Inv /\ GuardsHeld => OnlyCreateWaits
  <2> SUFFICES ASSUME Inv, GuardsHeld  PROVE OnlyCreateWaits
    OBVIOUS
  <2>1. \A g \in guards : g.map = "dbs" => {"read", g.mode} = {"read"}
    BY DEF GuardsHeld
  <2>2. call.at = "drop" => DropMayEnter
    BY <2>1 DEF DropMayEnter, MayTake
  <2>3. ASSUME call.at = "create", task # "dbs"  PROVE MayTake("main", "dbs", "write")
    <3>1. ~Reading
      BY <2>3 DEF Inv, GuardsOK, Idle
    <3>2. task = "idle"
      BY <2>3, <3>1 DEF Inv, TypeOK, Reading
    <3> QED
      BY <3>2 DEF GuardsHeld, MayTake
  <2> QED
    BY <2>2, <2>3 DEF OnlyCreateWaits
<1> QED
  BY <1>1, <1>2, GuardsHeldNext, CatalogInvariant, PTL DEF Spec
=============================================================================
