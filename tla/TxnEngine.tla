----------------------------- MODULE TxnEngine -----------------------------
(***************************************************************************)
(* The SQL write path of one table: transaction.rs (the undo journal),     *)
(* sql/mod.rs (execute and its autocommit wrapper), sql/dml.rs (INSERT,    *)
(* UPDATE, DELETE), index.rs (the secondary index) and the part of         *)
(* constraint.rs that looks for duplicates.                                *)
(*                                                                         *)
(* Every call of the API runs to its end on Node's main thread, so calls   *)
(* never overlap; calls of different transactions do follow one another in *)
(* any order.  A call is a sequence of steps, one per row, because a       *)
(* statement can fail between two rows and because the snapshot task of    *)
(* wal.rs reads the rows while a statement runs.                           *)
(*                                                                         *)
(* A row is reduced to the value of one column, which may be UNIQUE and    *)
(* may have a secondary index.                                             *)
(***************************************************************************)
EXTENDS Integers, Sequences, FiniteSets, SequencesExt

CONSTANTS
    Row,          \* the values of the column
    Null,         \* SQL NULL, one of them
    NoRow,        \* "this rowid is not in the table"
    Accepted,     \* the rows that pass NOT NULL, CHECK and FOREIGN KEY
    Unique,       \* the column is UNIQUE or PRIMARY KEY
    Indexed,      \* a single-column secondary index covers the column
    SetExprs,     \* the SET clauses of UPDATE, as functions of the old row
    MaxRowid,     \* bound on the rowids handed out
    MaxTx,        \* bound on the transaction ids handed out
    MaxInsert,    \* bound on the rows of one INSERT
    MaxJournal    \* bound on the journal of an explicit transaction

ASSUME RowAssumption ==
    /\ Null \in Row /\ NoRow \notin Row
    /\ Accepted \subseteq Row
    /\ SetExprs \subseteq [Row -> Row]
    /\ Unique \in BOOLEAN /\ Indexed \in BOOLEAN

ASSUME BoundAssumption ==
    /\ MaxRowid \in Nat /\ MaxTx \in Nat
    /\ MaxInsert \in Nat /\ MaxJournal \in Nat

RowId == 1 .. MaxRowid
TxId  == 1 .. MaxTx

\* An id with no entry in `active`: ids start at 1, so 0 stands for every id
\* that was finished or never handed out; `record` treats them all alike.
Stale == 0

NoRows == [r \in RowId |-> NoRow]
NoSet  == [row \in Row |-> row]

\* A Delete or an Update keeps the row as it was; before an Insert there was
\* none.
UndoOp == [op : {"Insert"}, rowid : RowId, old : {NoRow}]
          \union [op : {"Delete", "Update"}, rowid : RowId, old : Row]

VARIABLES
    store,      \* dbs: the live table, rowid -> row
    index,      \* indexes: value -> rowids
    nextRowid,  \* rowid_generators
    nextTx,     \* TxnManager.next_id
    active,     \* keys of TxnManager.active
    journal,    \* their journals; of a transaction being undone, its `ops`
    pc,         \* what the main thread is doing
    tx,         \* the tx_id threaded through the running call
    shadow,     \* tx is the short-lived transaction of an autocommit statement
    inserts,    \* candidate_rows not inserted yet
    todo,       \* rows_to_update / rows_to_delete not visited yet
    setf        \* the SET clause of the running UPDATE

\* History variables, read by no guard: they say what rolling back should
\* restore and whether somebody else was in the way.
VARIABLES
    base,       \* the table when each unfinished transaction began
    foreign,    \* rows others wrote since it began
    clashed,    \* rows an undo wrote although they were foreign to it
    interfered  \* some transaction was undone although others had written

tableVars == <<store, index, nextRowid>>
txnVars   == <<nextTx, active, journal>>
callVars  == <<pc, tx, shadow, inserts, todo, setf>>
ghostVars == <<base, foreign, clashed, interfered>>
vars      == <<tableVars, txnVars, callVars, ghostVars>>

Live == {r \in RowId : store[r] # NoRow}

-----------------------------------------------------------------------------
(* index.rs *)

AddToIndex(ix, row, r) ==
    IF Indexed THEN [ix EXCEPT ![row] = @ \union {r}] ELSE ix

RemoveFromIndex(ix, row, r) ==
    IF Indexed THEN [ix EXCEPT ![row] = @ \ {r}] ELSE ix

\* Mutant: the entry under the old value is left behind.
AddOnly(ix, old, row, r) == AddToIndex(ix, row, r)

\* IndexOp::Update, with an empty old row when there was none.
MoveInIndex(ix, old, row, r) ==
    AddToIndex(IF old = NoRow THEN ix ELSE RemoveFromIndex(ix, old, r), row, r)

-----------------------------------------------------------------------------
(* constraint.rs *)

\* Mutant: only rows inserted before this one are looked at.
ValueExistsBefore(row, r) ==
    IF Indexed THEN \E s \in index[row] : s < r
               ELSE \E s \in RowId : s < r /\ store[s] = row

\* With an index the ids it lists are believed without a look at the rows.
ValueExistsElsewhere(row, r) ==
    IF Indexed THEN index[row] \ {r} # {}
               ELSE \E s \in RowId \ {r} : store[s] = row

Validates(row, r) ==
    /\ row \in Accepted
    /\ Unique /\ row # Null => ~ValueExistsElsewhere(row, r)

-----------------------------------------------------------------------------
(* transaction.rs *)

\* Mutant: the journal gets the row as the write left it.
RecordAfter(op, r, old) ==
    journal' = IF tx \in active
               THEN [journal EXCEPT ![tx] =
                         Append(@, [op |-> op, rowid |-> r, old |-> store'[r]])]
               ELSE journal

\* Mutant: INSERT is not journaled.
RecordNoInsert(op, r, old) ==
    journal' = IF tx \in active /\ op # "Insert"
               THEN [journal EXCEPT ![tx] =
                         Append(@, [op |-> op, rowid |-> r, old |-> old])]
               ELSE journal

\* TxnManager::record drops the entry when the id is not active.
Record(op, r, old) ==
    journal' = IF tx \in active
               THEN [journal EXCEPT ![tx] =
                         Append(@, [op |-> op, rowid |-> r, old |-> old])]
               ELSE journal

\* The running call wrote row r: every other open transaction sees that.
Touch(r) ==
    foreign' = [t \in TxId |-> IF t \in active \ {tx}
                               THEN foreign[t] \union {r} ELSE foreign[t]]

Open(t) ==
    /\ nextTx' = t + 1
    /\ active' = active \union {t}
    /\ base' = [base EXCEPT ![t] = store]

\* Nothing is left of a finished transaction.
Forget(t) ==
    /\ active' = active \ {t}
    /\ journal' = [journal EXCEPT ![t] = <<>>]
    /\ base' = [base EXCEPT ![t] = NoRows]
    /\ foreign' = [foreign EXCEPT ![t] = {}]

BackToIdle ==
    /\ pc' = "idle" /\ tx' = Stale /\ shadow' = FALSE
    /\ inserts' = <<>> /\ todo' = NoRows /\ setf' = NoSet

Begin ==
    /\ pc = "idle" /\ nextTx <= MaxTx
    /\ Open(nextTx)
    /\ UNCHANGED <<tableVars, journal, callVars, foreign, clashed, interfered>>

Commit(t) ==
    /\ pc = "idle" /\ t \in active
    /\ Forget(t)
    /\ UNCHANGED <<tableVars, nextTx, callVars, clashed, interfered>>

\* The entry leaves `active` first, then its journal is replayed.
StartUndo(t) ==
    /\ pc' = "undo" /\ tx' = t
    /\ active' = active \ {t}
    /\ interfered' = (interfered \/ foreign[t] # {})
    /\ UNCHANGED <<journal, base, foreign, clashed>>

Rollback(t) ==
    /\ pc = "idle" /\ t \in active
    /\ StartUndo(t)
    /\ UNCHANGED <<tableVars, nextTx, shadow, inserts, todo, setf>>

UndoInsert(r) ==
    /\ store' = [store EXCEPT ![r] = NoRow]
    /\ index' = IF store[r] = NoRow THEN index
                ELSE RemoveFromIndex(index, store[r], r)

\* Mutant: the row comes back, its index entry does not.
UndoDeleteRowOnly(r, row) ==
    /\ store' = [store EXCEPT ![r] = row]
    /\ index' = index

UndoDelete(r, row) ==
    /\ store' = [store EXCEPT ![r] = row]
    /\ index' = AddToIndex(index, row, r)

UndoUpdate(r, row) ==
    /\ store' = [store EXCEPT ![r] = row]
    /\ index' = MoveInIndex(index, store[r], row, r)

\* One iteration of undo_all, from the last entry to the first.
UndoStep ==
    /\ pc = "undo" /\ journal[tx] # <<>>
    /\ LET e == Last(journal[tx]) IN
         /\ \/ e.op = "Insert" /\ UndoInsert(e.rowid)
            \/ e.op = "Delete" /\ UndoDelete(e.rowid, e.old)
            \/ e.op = "Update" /\ UndoUpdate(e.rowid, e.old)
         /\ Touch(e.rowid)
         /\ clashed' = IF e.rowid \in foreign[tx]
                       THEN clashed \union {e.rowid} ELSE clashed
    /\ journal' = [journal EXCEPT ![tx] = Front(@)]
    /\ UNCHANGED <<nextRowid, nextTx, active, callVars, base, interfered>>

UndoDone ==
    /\ pc = "undo" /\ journal[tx] = <<>>
    /\ Forget(tx)
    /\ BackToIdle
    /\ UNCHANGED <<tableVars, nextTx, clashed, interfered>>

-----------------------------------------------------------------------------
(* sql/mod.rs: execute, and the first half of each statement in sql/dml.rs *)

\* Without a tx_id the statement gets a transaction of its own.
Autocommit ==
    /\ nextTx <= MaxTx
    /\ tx' = nextTx /\ shadow' = TRUE
    /\ Open(nextTx)

\* With one, it is used as it is, active or not.
Under(t, n) ==
    /\ t \in active \union {Stale}
    /\ t \in active => Len(journal[t]) + n <= MaxJournal
    /\ tx' = t /\ shadow' = FALSE
    /\ UNCHANGED <<nextTx, active, base>>

\* A statement about to write up to n rows.
StartStatement(n) ==
    /\ pc = "idle"
    /\ Autocommit \/ \E t \in TxId \union {Stale} : Under(t, n)
    /\ UNCHANGED <<tableVars, journal, foreign, clashed, interfered>>

\* INSERT with `rows` as its VALUES.
ExecuteInsert(rows) ==
    /\ StartStatement(Len(rows))
    /\ nextRowid + Len(rows) - 1 <= MaxRowid
    /\ pc' = "insert" /\ inserts' = rows
    /\ UNCHANGED <<todo, setf>>

\* UPDATE and DELETE first copy every row that matches WHERE.
Collect(match) ==
    /\ StartStatement(Cardinality(match))
    /\ todo' = [r \in RowId |-> IF r \in match THEN store[r] ELSE NoRow]
    /\ UNCHANGED inserts

ExecuteUpdate(match, f) ==
    /\ Collect(match)
    /\ pc' = "update" /\ setf' = f

ExecuteDelete(match) ==
    /\ Collect(match)
    /\ pc' = "delete" /\ UNCHANGED setf

-----------------------------------------------------------------------------
(* sql/dml.rs: one row of a statement *)

\* A row failed validation: `?` leaves the statement, and only an autocommit
\* statement has something to roll back.
Fail ==
    IF shadow
    THEN /\ StartUndo(tx)
         /\ inserts' = <<>> /\ todo' = NoRows /\ setf' = NoSet
         /\ UNCHANGED <<nextTx, shadow>>
    ELSE /\ BackToIdle
         /\ UNCHANGED <<txnVars, ghostVars>>

\* The rowid is taken before the row is validated, and stays taken.
InsertRow ==
    /\ pc = "insert" /\ inserts # <<>>
    /\ nextRowid' = nextRowid + 1
    /\ LET row == Head(inserts)
           r   == nextRowid
       IN IF Validates(row, r)
          THEN /\ store' = [store EXCEPT ![r] = row]
               /\ Record("Insert", r, NoRow)
               /\ index' = AddToIndex(index, row, r)
               /\ Touch(r)
               /\ inserts' = Tail(inserts)
               /\ UNCHANGED <<nextTx, active, pc, tx, shadow, todo, setf,
                              base, clashed, interfered>>
          ELSE /\ Fail
               /\ UNCHANGED <<store, index>>

\* DashMap yields the rows in no particular order.
UpdateRow(r) ==
    /\ pc = "update" /\ todo[r] # NoRow
    /\ LET old == todo[r]
           row == setf[old]
       IN IF Validates(row, r)
          THEN /\ store' = [store EXCEPT ![r] = row]
               /\ Record("Update", r, old)
               /\ index' = MoveInIndex(index, old, row, r)
               /\ Touch(r)
               /\ todo' = [todo EXCEPT ![r] = NoRow]
               /\ UNCHANGED <<nextTx, active, pc, tx, shadow, inserts, setf,
                              base, clashed, interfered>>
          ELSE /\ Fail
               /\ UNCHANGED <<store, index>>
    /\ UNCHANGED nextRowid

DeleteRow(r) ==
    /\ pc = "delete" /\ todo[r] # NoRow
    /\ store' = [store EXCEPT ![r] = NoRow]
    /\ Record("Delete", r, todo[r])
    /\ index' = RemoveFromIndex(index, todo[r], r)
    /\ Touch(r)
    /\ todo' = [todo EXCEPT ![r] = NoRow]
    /\ UNCHANGED <<nextRowid, nextTx, active, pc, tx, shadow, inserts, setf,
                   base, clashed, interfered>>

\* The statement went through: an autocommit statement commits.
StatementDone ==
    /\ pc \in {"insert", "update", "delete"}
    /\ inserts = <<>> /\ todo = NoRows
    /\ IF shadow THEN Forget(tx)
                 ELSE UNCHANGED <<active, journal, base, foreign>>
    /\ BackToIdle
    /\ UNCHANGED <<tableVars, nextTx, clashed, interfered>>

-----------------------------------------------------------------------------
Init ==
    /\ store = NoRows /\ index = [v \in Row |-> {}] /\ nextRowid = 1
    /\ nextTx = 1 /\ active = {} /\ journal = [t \in TxId |-> <<>>]
    /\ pc = "idle" /\ tx = Stale /\ shadow = FALSE
    /\ inserts = <<>> /\ todo = NoRows /\ setf = NoSet
    /\ base = [t \in TxId |-> NoRows] /\ foreign = [t \in TxId |-> {}]
    /\ clashed = {} /\ interfered = FALSE

Next ==
    \/ Begin
    \/ \E t \in TxId : Commit(t) \/ Rollback(t)
    \/ \E n \in 1 .. MaxInsert : \E rows \in [1 .. n -> Row] : ExecuteInsert(rows)
    \/ \E match \in SUBSET Live \ {{}} :
           \/ \E f \in SetExprs : ExecuteUpdate(match, f)
           \/ ExecuteDelete(match)
    \/ InsertRow
    \/ \E r \in RowId : UpdateRow(r) \/ DeleteRow(r)
    \/ StatementDone
    \/ UndoStep
    \/ UndoDone

Spec == Init /\ [][Next]_vars

-----------------------------------------------------------------------------
(* Properties *)

Rows    == [RowId -> Row \union {NoRow}]
Pcs     == {"idle", "insert", "update", "delete", "undo"}

TypeOK ==
    /\ store \in Rows /\ index \in [Row -> SUBSET RowId]
    /\ nextRowid \in 1 .. MaxRowid + 1 /\ nextTx \in 1 .. MaxTx + 1
    /\ active \in SUBSET TxId /\ journal \in [TxId -> Seq(UndoOp)]
    /\ pc \in Pcs /\ tx \in TxId \union {Stale} /\ shadow \in BOOLEAN
    /\ inserts \in Seq(Row) /\ todo \in Rows /\ setf \in [Row -> Row]
    /\ base \in [TxId -> Rows] /\ foreign \in [TxId -> SUBSET RowId]
    /\ clashed \in SUBSET RowId /\ interfered \in BOOLEAN

\* An indexed lookup followed by the WHERE filter (rows_for_simple_where and
\* the caller's retain) returns exactly the rows a full scan would: whatever
\* was committed, rolled back or half done, no row is ever missing from the
\* index under its current value.
IndexLookupMatchesScan ==
    Indexed => \A v \in Row :
        {r \in index[v] : store[r] = v} = {r \in RowId : store[r] = v}

\* The index lists a rowid under a value the row does not have only after an
\* undo has written a row that somebody else had written since: one
\* transaction at a time, statements and rollbacks keep index and table equal.
StaleEntryNeedsClash ==
    \A v \in Row : \A r \in index[v] : store[r] # v => r \in clashed

\* When ROLLBACK (or the rollback of a failed autocommit statement) is
\* through, each row that nobody else wrote meanwhile is what it was when the
\* transaction began, however often the transaction had changed it.
RollbackRestores ==
    pc = "undo" /\ journal[tx] = <<>> =>
        \A r \in RowId \ foreign[tx] : store[r] = base[tx][r]

\* A statement outside any transaction that fails on one of its rows leaves
\* the table exactly as it found it.
AutocommitAtomic ==
    pc = "undo" /\ shadow /\ journal[tx] = <<>> => store = base[tx]

\* Two rows never share a UNIQUE value, even in the middle of a statement or
\* of a rollback, unless some transaction was rolled back after others had
\* written.
UniqueUnlessInterfered ==
    Unique /\ ~interfered =>
        \A r, s \in Live : r # s /\ store[r] = store[s] => store[r] = Null

=============================================================================
