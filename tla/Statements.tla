----------------------------- MODULE Statements -----------------------------
(***************************************************************************)
(* One caller's statements over tables that have triggers, references and  *)
(* full-text indexes: sql/dml.rs, trigger.rs, constraint.rs, fts.rs,       *)
(* index.rs and the replay of the journal in transaction.rs.               *)
(*                                                                         *)
(* A statement runs as a stack of frames.  A trigger's body runs inside    *)
(* the statement that fired it, between two of its rows or in the middle   *)
(* of one, and may change the very rows the statement has copied.          *)
(*                                                                         *)
(* A row is the value of one column, a value is a text or NULL, and a text *)
(* is known by its tokens.  Transactions of several callers, and what they *)
(* do to each other, are in TxnEngine.                                     *)
(***************************************************************************)
EXTENDS Integers, Sequences, FiniteSets, SequencesExt

CONSTANTS
    Table, Val, Null,
    NoRow,          \* "this rowid is not in the table"
    Tokens,         \* the tokens of each text; of NULL, none
    OldValue, NewValue,  \* OLD.c and NEW.c in a trigger's body
    AnyRow,         \* a statement without WHERE
    Schemas,        \* the catalogs a behaviour may start from
    Sets,           \* the SET clauses a client uses
    MaxRowid,       \* bound on the rowids of a table
    MaxStatements,  \* bound on the statements and transactions of a client
    MaxDepth        \* bound on the depth of a cascade

RowId == 1 .. MaxRowid
Row   == Val \union {NoRow}
Token == UNION {Tokens[v] : v \in Val}
Keep  == [v \in Val |-> v]

\* A statement of a trigger's body, before OLD and NEW are known.
Body == [op : {"Insert", "Update", "Delete"}, table : Table,
         where : Val \union {OldValue, NewValue, AnyRow},
         to : Val \union {OldValue, NewValue}]

\* `when` holds the pairs of an old and a new row for which WHEN is true.
Trigger == [timing : {"Before", "After"}, event : {"Insert", "Update", "Delete"},
            when : SUBSET (Row \X Row), body : Seq(Body)]

\* accepted: the rows that pass NOT NULL and CHECK.
Schema == [triggers : [Table -> Seq(Trigger)], accepted : [Table -> SUBSET Val],
           unique : SUBSET Table, indexed : SUBSET Table, fts : SUBSET Table,
           references : SUBSET [table : Table, refTable : Table]]

ASSUME StatementsAssumption ==
    /\ Null \in Val /\ NoRow \notin Val
    /\ {OldValue, NewValue, AnyRow} \intersect Row = {}
    /\ OldValue # NewValue /\ AnyRow \notin {OldValue, NewValue}
    /\ Tokens[Null] = {}
    /\ Sets \subseteq [Val -> Val]
    /\ Schemas \subseteq Schema
    /\ {MaxRowid, MaxStatements, MaxDepth} \subseteq Nat

VARIABLES
    schema,     \* the catalog: no statement here changes it
    store,      \* dbs: table -> rowid -> row
    index,      \* indexes: table -> value -> rowids
    fts,        \* fts_tables: table -> inverted index and total_docs
    nextRowid,  \* rowid_generators
    stack,      \* the running statement and those its triggers run, last on top
    tx,         \* "none", "shadow" (autocommit) or "explicit"
    journal,    \* of that transaction
    undoing     \* its journal is being replayed

\* History variables, read by no guard, and the counter of the bound.
VARIABLES
    base,         \* the tables when the transaction began
    failed,       \* a statement failed in the explicit transaction that is
                  \* "open", in one that was committed and so "kept", or in "none"
    overwritten,  \* rows written from a copy that was out of date
    statements

tableVars == <<store, index, fts>>
txnVars   == <<tx, journal, undoing, base, failed>>
vars      == <<schema, tableVars, nextRowid, stack, txnVars, overwritten, statements>>

NoRows == [r \in RowId |-> NoRow]

Top == Last(stack)

\* The running statement goes on as frame f.
Continue(f) == stack' = Append(Front(stack), f)

-----------------------------------------------------------------------------
(* index.rs and fts.rs: the two indexes of a table follow one row *)

\* fts.rs: a text's tokens come and go, and total_docs with it.  total_docs is
\* unsigned: a negative number stands for the one it wraps to.
AddDocument(ix, r, v) ==
    [docs  |-> [w \in Token |-> IF w \in Tokens[v] THEN ix.docs[w] \union {r} ELSE ix.docs[w]],
     total |-> ix.total + 1]

RemoveDocument(ix, r, v) ==
    [docs  |-> [w \in Token |-> IF w \in Tokens[v] THEN ix.docs[w] \ {r} ELSE ix.docs[w]],
     total |-> ix.total - 1]

IsText(v) == v \notin {Null, NoRow}

\* Mutant: the new text is added before the old one is removed.
FollowAddFirst(ix, r, old, new) ==
    LET more == IF IsText(new) THEN AddDocument(ix, r, new) ELSE ix
    IN  IF IsText(old) THEN RemoveDocument(more, r, old) ELSE more

\* Mutant: an UPDATE never removes the old text.
FollowAddOnly(ix, r, old, new) ==
    IF IsText(new) THEN AddDocument(ix, r, new)
    ELSE IF IsText(old) THEN RemoveDocument(ix, r, old) ELSE ix

\* sync_fts_index_change, and sync_fts_index where old or new is NoRow.
FollowText(ix, r, old, new) ==
    LET less == IF IsText(old) THEN RemoveDocument(ix, r, old) ELSE ix
    IN  IF IsText(new) THEN AddDocument(less, r, new) ELSE less

FollowValue(ix, r, old, new) ==
    [v \in Val |-> IF v = new THEN ix[v] \union {r}
                   ELSE IF v = old THEN ix[v] \ {r} ELSE ix[v]]

\* Row r of t becomes new; the indexes are told that it was old.
Write(t, r, old, new) ==
    /\ store' = [store EXCEPT ![t][r] = new]
    /\ index' = IF t \in schema.indexed
                THEN [index EXCEPT ![t] = FollowValue(@, r, old, new)] ELSE index
    /\ fts' = IF t \in schema.fts
              THEN [fts EXCEPT ![t] = FollowText(@, r, old, new)] ELSE fts

-----------------------------------------------------------------------------
(* constraint.rs *)

\* Mutant: only rows inserted before this one are looked at.
ValueExistsBefore(t, v, r) ==
    IF t \in schema.indexed THEN \E s \in index[t][v] : s < r
    ELSE \E s \in RowId : s < r /\ store[t][s] = v

\* An index is believed without a look at the rows.
ValueExistsElsewhere(t, v, r) ==
    IF t \in schema.indexed THEN index[t][v] \ {r} # {}
    ELSE \E s \in RowId \ {r} : store[t][s] = v

\* Some row of table p has the value.
Referenced(p, v) == \E s \in RowId : store[p][s] = v

\* Mutant: FOREIGN KEY is not looked at.
ValidatesNoReference(t, v, r) ==
    /\ v \in schema.accepted[t]
    /\ t \in schema.unique /\ v # Null => ~ValueExistsElsewhere(t, v, r)

Validates(t, v, r) ==
    /\ v \in schema.accepted[t]
    /\ t \in schema.unique /\ v # Null => ~ValueExistsElsewhere(t, v, r)
    /\ \A fk \in schema.references :
           fk.table = t /\ v # Null => Referenced(fk.refTable, v)

-----------------------------------------------------------------------------
(* trigger.rs *)

\* OLD.c and NEW.c in the text of a body give way to literals.
Substitute(term, old, new) ==
    CASE term = OldValue -> old [] term = NewValue -> new [] OTHER -> term

\* OLD.c has no literal in an INSERT's trigger, nor NEW.c in a DELETE's: it is
\* read as a column of the row at hand, and as NULL where there is none.
Missing(term, old, new) ==
    (term = OldValue /\ old = NoRow) \/ (term = NewValue /\ new = NoRow)

\* A statement of a body, for the row it fires for.  `=` holds of NULL and NULL.
Instantiate(body, old, new) ==
    LET where == Substitute(body.where, old, new)
        to    == Substitute(body.to, old, new)
    IN [op |-> body.op, table |-> body.table,
        where |-> IF body.where = AnyRow \/ Missing(body.where, old, new) THEN Val
                  ELSE {where},
        set |-> IF Missing(body.to, old, new) THEN Keep ELSE [v \in Val |-> to],
        rows |-> <<IF Missing(body.to, old, new) THEN Null ELSE to>>]

\* The triggers to go through; those of another event or timing, and those
\* whose WHEN is false, are skipped one by one.
Fires(trigger, f) ==
    /\ trigger.event = f.op /\ trigger.timing = f.phase
    /\ <<f.old, f.new>> \in trigger.when

-----------------------------------------------------------------------------
(* sql/dml.rs: frames *)

\* What a statement starts as.  UPDATE and DELETE copy the rows that match.
NewFrame(s) ==
    [op |-> s.op, table |-> s.table, set |-> s.set,
     rows |-> IF s.op = "Insert" THEN s.rows ELSE <<>>,
     todo |-> IF s.op = "Insert" THEN NoRows
              ELSE [r \in RowId |-> IF store[s.table][r] \in s.where
                                    THEN store[s.table][r] ELSE NoRow],
     phase |-> "next", rowid |-> 0, old |-> NoRow, new |-> NoRow,
     triggers |-> <<>>, body |-> <<>>]

Enter(f, phase) ==
    [f EXCEPT !.phase = phase, !.triggers = schema.triggers[f.table]]

\* The statement leaves with `?`, and so do those that fired it.  An autocommit
\* statement is rolled back; an explicit transaction keeps what was written.
Fail ==
    /\ stack' = <<>>
    /\ undoing' = (tx = "shadow")
    /\ failed' = IF tx = "explicit" /\ failed = "none" THEN "open" ELSE failed
    /\ UNCHANGED <<tableVars, tx, journal, base, overwritten>>

\* Row r is taken up: validated unless it is deleted, and its BEFORE triggers
\* are next.
TakeRow(f) ==
    IF f.op # "Delete" /\ ~Validates(f.table, f.new, f.rowid) THEN Fail
    ELSE /\ Continue(Enter(f, "Before"))
         /\ UNCHANGED <<tableVars, txnVars, overwritten>>

InsertRow ==
    /\ stack # <<>> /\ Top.phase = "next" /\ Top.rows # <<>>
    /\ nextRowid[Top.table] <= MaxRowid
    /\ nextRowid' = [nextRowid EXCEPT ![Top.table] = @ + 1]
    /\ TakeRow([Top EXCEPT !.rows = Tail(@), !.rowid = nextRowid[Top.table],
                           !.new = Head(Top.rows)])
    /\ UNCHANGED <<schema, statements>>

\* SET looks at the copy.
ChangeRow(r) ==
    /\ stack # <<>> /\ Top.phase = "next" /\ Top.todo[r] # NoRow
    /\ TakeRow([Top EXCEPT !.todo[r] = NoRow, !.rowid = r, !.old = Top.todo[r],
                           !.new = IF Top.op = "Delete" THEN NoRow
                                   ELSE Top.set[Top.todo[r]]])
    /\ UNCHANGED <<schema, nextRowid, statements>>

\* The next trigger of the row.
FireTrigger ==
    /\ stack # <<>> /\ Top.body = <<>> /\ Top.triggers # <<>>
    /\ LET trigger == Head(Top.triggers)
           body == [i \in DOMAIN trigger.body |->
                        Instantiate(trigger.body[i], Top.old, Top.new)]
       IN Continue([Top EXCEPT !.triggers = Tail(@),
                               !.body = IF Fires(trigger, Top) THEN body ELSE <<>>])
    /\ UNCHANGED <<schema, tableVars, nextRowid, txnVars, overwritten, statements>>

\* The next statement of the trigger that fires: execute_single_statement, with
\* the tx_id of the statement that fired it.
RunBody ==
    /\ stack # <<>> /\ Top.body # <<>> /\ Len(stack) < MaxDepth
    /\ stack' = Append(Append(Front(stack), [Top EXCEPT !.body = Tail(@)]),
                       NewFrame(Head(Top.body)))
    /\ UNCHANGED <<schema, tableVars, nextRowid, txnVars, overwritten, statements>>

\* Mutant: what a trigger writes is not journaled.
RecordOuter(f) ==
    journal' = IF Len(stack) = 1
               THEN Append(journal, [op |-> f.op, table |-> f.table,
                                     rowid |-> f.rowid, old |-> f.old])
               ELSE journal

\* The journal gets the copy, whatever the row is by now.
Record(f) ==
    journal' = Append(journal, [op |-> f.op, table |-> f.table,
                                rowid |-> f.rowid, old |-> f.old])

\* All BEFORE triggers have run: the row is written, and AFTER triggers are next.
WriteRow ==
    /\ stack # <<>> /\ Top.phase = "Before"
    /\ Top.body = <<>> /\ Top.triggers = <<>>
    /\ Write(Top.table, Top.rowid, Top.old, Top.new)
    /\ Record(Top)
    /\ Continue(Enter(Top, "After"))
    /\ overwritten' = IF store[Top.table][Top.rowid] = Top.old THEN overwritten
                      ELSE overwritten \union {<<Top.table, Top.rowid>>}
    /\ UNCHANGED <<schema, nextRowid, tx, undoing, base, failed, statements>>

RowDone ==
    /\ stack # <<>> /\ Top.phase = "After"
    /\ Top.body = <<>> /\ Top.triggers = <<>>
    /\ Continue([Top EXCEPT !.phase = "next", !.rowid = 0, !.old = NoRow, !.new = NoRow])
    /\ UNCHANGED <<schema, tableVars, nextRowid, txnVars, overwritten, statements>>

-----------------------------------------------------------------------------
(* sql/mod.rs and transaction.rs *)

StartTransaction(kind) ==
    /\ tx' = kind /\ journal' = <<>> /\ base' = store /\ UNCHANGED failed

\* outcome: what becomes of a statement's failure.
EndTransaction(outcome) ==
    /\ tx' = "none" /\ journal' = <<>>
    /\ failed' = IF failed = "open" THEN outcome ELSE failed
    /\ base' = [t \in Table |-> NoRows]

\* The statement is through.  When it was the client's own and had no tx_id, its
\* transaction is committed.
Return ==
    /\ stack # <<>> /\ Top.phase = "next" /\ Top.rows = <<>> /\ Top.todo = NoRows
    /\ stack' = Front(stack)
    /\ IF Len(stack) = 1 /\ tx = "shadow" THEN EndTransaction("kept")
       ELSE UNCHANGED <<tx, journal, base, failed>>
    /\ UNCHANGED <<schema, tableVars, nextRowid, undoing, overwritten, statements>>

Idle == stack = <<>> /\ ~undoing

Call ==
    /\ Idle /\ statements < MaxStatements /\ statements' = statements + 1
    /\ UNCHANGED <<schema, tableVars, nextRowid, overwritten>>

Execute(s) ==
    /\ Call
    /\ stack' = <<NewFrame(s)>>
    /\ IF tx = "none" THEN StartTransaction("shadow")
       ELSE UNCHANGED <<tx, journal, base, failed>>
    /\ UNCHANGED undoing

Begin ==
    /\ Call /\ tx = "none"
    /\ StartTransaction("explicit")
    /\ UNCHANGED <<stack, undoing>>

Commit ==
    /\ Call /\ tx = "explicit"
    /\ EndTransaction("kept")
    /\ UNCHANGED <<stack, undoing>>

Rollback ==
    /\ Call /\ tx = "explicit"
    /\ undoing' = TRUE
    /\ UNCHANGED <<stack, tx, journal, base, failed>>

\* One entry of the journal, the last one first.  Undoing an INSERT or an UPDATE
\* goes by what the row is now, undoing a DELETE puts the copy back.
UndoStep ==
    /\ undoing /\ journal # <<>>
    /\ LET e == Last(journal)
           now == store[e.table][e.rowid]
       IN Write(e.table, e.rowid, IF e.op = "Delete" THEN NoRow ELSE now, e.old)
    /\ journal' = Front(journal)
    /\ UNCHANGED <<schema, nextRowid, stack, tx, undoing, base, failed,
                   overwritten, statements>>

UndoDone ==
    /\ undoing /\ journal = <<>>
    /\ undoing' = FALSE
    /\ EndTransaction("none")
    /\ UNCHANGED <<schema, tableVars, nextRowid, stack, overwritten, statements>>

-----------------------------------------------------------------------------
Init ==
    /\ schema \in Schemas
    /\ store = [t \in Table |-> NoRows]
    /\ index = [t \in Table |-> [v \in Val |-> {}]]
    /\ fts = [t \in Table |-> [docs |-> [w \in Token |-> {}], total |-> 0]]
    /\ nextRowid = [t \in Table |-> 1]
    /\ stack = <<>> /\ tx = "none" /\ journal = <<>> /\ undoing = FALSE
    /\ base = [t \in Table |-> NoRows] /\ failed = "none"
    /\ overwritten = {} /\ statements = 0

\* What a client asks for: an INSERT of one or two rows, an UPDATE or a DELETE
\* of the rows with one value or of all.
Inserts == [op : {"Insert"}, table : Table, where : {{}}, set : {Keep},
            rows : UNION {[1 .. n -> Val] : n \in 1 .. 2}]
Updates == [op : {"Update"}, table : Table, where : {Val} \union {{v} : v \in Val},
            set : Sets, rows : {<<>>}]
Deletes == [op : {"Delete"}, table : Table, where : {Val} \union {{v} : v \in Val},
            set : {Keep}, rows : {<<>>}]

Next ==
    \/ \E s \in Inserts \union Updates \union Deletes : Execute(s)
    \/ Begin \/ Commit \/ Rollback
    \/ InsertRow \/ (\E r \in RowId : ChangeRow(r))
    \/ FireTrigger \/ RunBody \/ WriteRow \/ RowDone \/ Return
    \/ UndoStep \/ UndoDone

Spec == Init /\ [][Next]_vars

-----------------------------------------------------------------------------
(* Properties *)

\* Rolling back "undoes every change ..., including anything a trigger cascaded
\* into": when a ROLLBACK, or the rollback of a failed autocommit statement, is
\* through, every table is what it was, although the journal holds copies that
\* triggers had already changed.
CascadeUndone ==
    undoing /\ journal = <<>> => store = base

\* Whatever triggers, failures and rollbacks did, the index finds every row by
\* its value and fts_match finds it by each of its tokens: the filter that
\* follows an index lookup never misses a row.
LookupsFindEveryRow ==
    \A t \in Table : \A r \in RowId : store[t][r] # NoRow =>
        /\ t \in schema.indexed => r \in index[t][store[t][r]]
        /\ t \in schema.fts => \A w \in Tokens[store[t][r]] : r \in fts[t].docs[w]

TextsOf(t) == {r \in RowId : IsText(store[t][r])}

\* Neither index ever finds a row by what it is not, and total_docs counts the
\* texts, except for rows that an UPDATE or a DELETE wrote from a copy a trigger
\* had made out of date.
NothingStaleUnlessOverwritten ==
    \A t \in Table :
        /\ \A v \in Val : \A r \in index[t][v] :
               store[t][r] = v \/ <<t, r>> \in overwritten
        /\ \A w \in Token : \A r \in fts[t].docs[w] :
               \/ <<t, r>> \in overwritten
               \/ store[t][r] # NoRow /\ w \in Tokens[store[t][r]]
        /\ t \in schema.fts /\ (\A r \in RowId : <<t, r>> \notin overwritten) =>
               fts[t].total = Cardinality(TextsOf(t))

TriggersOf(t) == {schema.triggers[t][i] : i \in DOMAIN schema.triggers[t]}

\* The tables the bodies of triggers write, and tables that nothing leads out of.
Writes(triggers) ==
    UNION {{g.body[i].table : i \in DOMAIN g.body} : g \in triggers}

ClosedUnderTriggers(tables) ==
    \A t \in tables : Writes(TriggersOf(t)) \subseteq tables

\* A row is validated before its BEFORE triggers run: when they write its table,
\* or fire triggers that do, it may be valid no longer.
BeforeTriggers(t) == {g \in TriggersOf(t) : g.timing = "Before" /\ g.event # "Delete"}

BeforeTriggersReach(t) ==
    \A tables \in SUBSET Table :
        Writes(BeforeTriggers(t)) \subseteq tables /\ ClosedUnderTriggers(tables)
            => t \in tables

\* No two rows share a UNIQUE value, unless the table's own BEFORE triggers lead
\* to a write of the table: not when triggers change it under a running UPDATE,
\* not when the index lists rows that have gone, not after a failed statement.
\* In the middle of a rollback they may.
UniqueUnlessBeforeTrigger ==
    ~undoing => \A t \in schema.unique : ~BeforeTriggersReach(t) =>
        \A r, s \in RowId : r # s /\ store[t][r] = store[t][s] =>
            store[t][r] \in {Null, NoRow}

\* There is no ON DELETE and no ON UPDATE: triggers do it.  Statement b of trigger
\* g of the parent table is the one that ON UPDATE CASCADE, or ON DELETE CASCADE,
\* would be.
IsCascade(g, b, fk) ==
    /\ b.table = fk.table /\ b.where = OldValue
    /\ \/ g.timing = "After" /\ g.event = "Update" /\ b.op = "Update" /\ b.to = NewValue
       \/ g.timing = "Before" /\ g.event = "Delete" /\ b.op = "Delete"

HasCascade(g, fk) == \E i \in DOMAIN g.body : IsCascade(g, g.body[i], fk)

\* Both are there, for every row they matter to, and nothing else that triggers of
\* parent or child lead to writes either of them.
Cascades(fk) ==
    /\ fk.table # fk.refTable
    /\ \E g \in TriggersOf(fk.refTable) :
           /\ g.event = "Update" /\ HasCascade(g, fk)
           /\ \A old \in Val \ {Null} : \A new \in Val \ {old} : <<old, new>> \in g.when
    /\ \E g \in TriggersOf(fk.refTable) :
           /\ g.event = "Delete" /\ HasCascade(g, fk)
           /\ \A old \in Val \ {Null} : <<old, NoRow>> \in g.when
    /\ \E tables \in SUBSET (Table \ {fk.table, fk.refTable}) :
           /\ ClosedUnderTriggers(tables) /\ Writes(TriggersOf(fk.table)) \subseteq tables
           /\ \A g \in TriggersOf(fk.refTable) : \A i \in DOMAIN g.body :
                  IsCascade(g, g.body[i], fk) \/ g.body[i].table \in tables

\* With such triggers every child row has its parent between calls, however rows,
\* triggers, failed statements and rollbacks follow one another; unless an
\* explicit transaction goes on, or is committed, after one of its statements
\* has failed.
CascadesKeepReferences ==
    Idle /\ failed = "none" =>
        \A fk \in schema.references : Cascades(fk) => \A r \in RowId :
            LET v == store[fk.table][r]
            IN  v \in {Null, NoRow} \/ Referenced(fk.refTable, v)

\* "the index is correctly kept in sync on INSERT/UPDATE/DELETE (including
\* removing stale tokens on UPDATE...)" (DOCUMENTATION.md): between calls
\* fts_match finds no row by a token the row does not have.
FtsInSync ==
    Idle => \A t \in Table : \A w \in Token : \A r \in fts[t].docs[w] :
        store[t][r] # NoRow => w \in Tokens[store[t][r]]

=============================================================================
