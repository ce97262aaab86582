------------------------------- MODULE Select -------------------------------
(***************************************************************************)
(* SELECT on one table or one view, sql/select.rs, with the index fast     *)
(* paths of index.rs, and the statements of sql/dml.rs as far as they      *)
(* choose rows, bind parameters and keep the index.                        *)
(*                                                                         *)
(* A statement runs to its end on Node's main thread: one action each.     *)
(* The order in which the store's hash map lists its rows is unknown, so   *)
(* every statement meets any order; a range of the index comes in the      *)
(* order of its keys.                                                      *)
(*                                                                         *)
(* The evaluators are constants: what a row is worth to a SELECT does not  *)
(* depend on how an expression is written.  Evaluators defines them.       *)
(***************************************************************************)
EXTENDS Expressions, FiniteSets, SequencesExt

CONSTANTS
    MaxRowId,   \* bound on the rowids the table can hand out
    Columns,    \* the columns, in their order
    Defaults,   \* column -> its DEFAULT, Null without one
    KeyColumns, \* the columns that are an INTEGER PRIMARY KEY
    Indexed,    \* the column with a secondary index, kept as long as the table
    Inserts,    \* the INSERTs: [values |-> a sequence of tuples of expressions,
                \*               params |-> ...]
    Updates,    \* the UPDATEs: [set |-> a sequence of [as, expr], where, params]
    Deletes,    \* the DELETEs: [where, params]
    Selects,    \* the SELECTs, records as Query below
    Copies,     \* the SELECTs run as INSERT INTO t SELECT
    Evaluate(_, _, _, _),   \* eval: expression, row, parameters, param_idx
    Holds(_, _, _, _),      \* evaluate_where_ctx
    Placeholders(_),        \* count_placeholders
    Closed(_)               \* no column occurs in the expression

\* No column has the name of the tag that a fetched row carries.
ASSUME SelectAssumption ==
    /\ MaxRowId \in Nat
    /\ Columns \in Seq(STRING \ {"_rowid_"}) /\ IsInjective(Columns)
    /\ Indexed \in ToSet(Columns) /\ KeyColumns \subseteq ToSet(Columns)
    /\ DOMAIN Defaults = ToSet(Columns)

RowId == 1 .. MaxRowId
NoColumns == [c \in {} |-> Null]

Nothing  == [kind |-> "none"]
NoAnswer == [panics |-> FALSE, rows |-> <<>>]

\* A SELECT has every field: from is <<>> for the table or <<the stored query>>
\* for a view; where, group, order and limit are empty when the clause is missing;
\* no items stand for `*`.
Query(where, params) ==
    [kind |-> "select", from |-> <<>>, where |-> where, params |-> params,
     items |-> <<>>, group |-> <<>>, order |-> <<>>, limit |-> <<>>,
     offset |-> 0, distinct |-> FALSE]

\* Lists are sequences; OFFSET and LIMIT are what the parser makes of them.
Unreadable == -1    \* a LIMIT that is not a number

WellFormed(q) ==
    /\ DOMAIN q = DOMAIN Query(<<>>, <<>>)
    /\ q.items \in Seq(ToSet(q.items)) /\ q.order \in Seq(ToSet(q.order))
    /\ q.limit = <<>> \/ q.limit[1] \in Nat \union {Unreadable}
    /\ q.offset \in Nat

ASSUME StatementAssumption ==
    /\ \A s \in Inserts : s.values \in Seq(ToSet(s.values))
    /\ \A s \in Updates : s.set \in Seq(ToSet(s.set))
    /\ \A q \in Selects \union Copies :
          WellFormed(q) /\ (q.from # <<>> => WellFormed(q.from[1]))

VARIABLES
    table,    \* the rows that are there: rowid -> row, a function of column names
    index,    \* the BTreeMap: its entries, [key, ids]
    next,     \* rowid_generators
    ordered,  \* every indexed value so far was one that Compare orders: with a
              \* NaN or an integer beyond Exact "equal" is not transitive, and a
              \* BTreeMap promises nothing
    asked,    \* the last statement,
    order,    \* the order the store listed the rows in for it,
    answer    \* and what it gave

vars == <<table, index, next, ordered, asked, order, answer>>

Live == DOMAIN table

\* The orders the hash map may list its rows in.
Orders == SetToSeqs(Live)

Orderable(v) == /\ v \in Value /\ v.type # "nan"
                /\ v.type = "integer" => -Exact <= v.of /\ v.of <= Exact

-----------------------------------------------------------------------------
(* index.rs *)

EntriesAt(ix, v) == {e \in ix : Compare(e.key, v) = 0}

\* The first value seen stays the key; an equal one of another type joins it.
AddToIndex(ix, row, id) ==
    LET v == row[Indexed] IN
    IF EntriesAt(ix, v) = {} THEN ix \union {[key |-> v, ids |-> {id}]}
    ELSE {IF Compare(e.key, v) = 0 THEN [e EXCEPT !.ids = @ \union {id}] ELSE e : e \in ix}

\* Mutant: the key of the old value is looked up with the derived equality.
RemoveSameFromIndex(ix, row, id) ==
    {e \in {IF Same(e.key, row[Indexed]) THEN [e EXCEPT !.ids = @ \ {id}]
                                         ELSE e : e \in ix} : e.ids # {}}

RemoveFromIndex(ix, row, id) ==
    {e \in {IF Compare(e.key, row[Indexed]) = 0 THEN [e EXCEPT !.ids = @ \ {id}]
                                                ELSE e : e \in ix} : e.ids # {}}

\* update_indexes for the row id, of which old and new may lack.
UpdateIndexes(ix, old, new, id) ==
    LET removed == IF id \in DOMAIN old THEN RemoveFromIndex(ix, old[id], id) ELSE ix
    IN IF id \in DOMAIN new THEN AddToIndex(removed, new[id], id) ELSE removed

\* The index when the rows ids become those of new, one after the other.
Reindexed(ix, old, new, ids, ord) ==
    LET upTo[n \in 0 .. Len(ord)] ==
            IF n = 0 THEN ix
            ELSE IF ord[n] \in ids THEN UpdateIndexes(upTo[n - 1], old, new, ord[n])
            ELSE upTo[n - 1]
    IN upTo[Len(ord)]

LookupIndex(ix, v) == UNION {e.ids : e \in EntriesAt(ix, v)}

Bound(kind, v) == [kind |-> kind, val |-> v]
Unbounded == Bound("unbounded", Null)

AboveLower(v, b) == CASE b.kind = "included" -> Compare(v, b.val) # -1
                      [] b.kind = "excluded" -> Compare(v, b.val) = 1
                      [] OTHER -> TRUE
BelowUpper(v, b) == CASE b.kind = "included" -> Compare(v, b.val) # 1
                      [] b.kind = "excluded" -> Compare(v, b.val) = -1
                      [] OTHER -> TRUE

RangeLookup(ix, lower, upper) ==
    UNION {e.ids : e \in {f \in ix : AboveLower(f.key, lower) /\ BelowUpper(f.key, upper)}}

\* BTreeMap::range panics when the range starts behind its end.
Crossed(lower, upper) ==
    /\ lower.kind # "unbounded" /\ upper.kind # "unbounded"
    /\ Compare(lower.val, upper.val) = 1

-----------------------------------------------------------------------------
(* sql/select.rs: the rows a WHERE fetches *)

\* EvalCtx::no_row, the index of the placeholders at 0: a column reads as NULL.
Constant(e, params) == Evaluate(e, NoColumns, params, 0).val

IsColumn(e) == e.op = "col"
Flipped == [op \in {"<", "<=", ">", ">=", "="} |->
               CASE op = "<" -> ">" [] op = "<=" -> ">=" [] op = ">" -> "<"
                 [] op = ">=" -> "<=" [] OTHER -> "="]

\* A comparison of a column with what is no column, read with the column left.
Compares(e) ==
    /\ e.op \in DOMAIN Flipped
    /\ IsColumn(e.args[1]) # IsColumn(e.args[2])
    /\ \A k \in 1 .. 2 : e.args[k].op # "qcol"
\* Mutant: `3 < a` is taken for `a < 3`.
AsWritten(e) ==
    IF IsColumn(e.args[1]) THEN [col |-> e.args[1].name, op |-> e.op, other |-> e.args[2]]
    ELSE [col |-> e.args[2].name, op |-> e.op, other |-> e.args[1]]

AsColumnOp(e) ==
    IF IsColumn(e.args[1]) THEN [col |-> e.args[1].name, op |-> e.op, other |-> e.args[2]]
    ELSE [col |-> e.args[2].name, op |-> Flipped[e.op], other |-> e.args[1]]

SimpleRange(e, params) ==
    IF Compares(e) THEN
        LET c == AsColumnOp(e)
            v == Constant(c.other, params)
        IN CASE c.op = ">"  -> {[col |-> c.col, lower |-> Bound("excluded", v), upper |-> Unbounded]}
             [] c.op = ">=" -> {[col |-> c.col, lower |-> Bound("included", v), upper |-> Unbounded]}
             [] c.op = "<"  -> {[col |-> c.col, lower |-> Unbounded, upper |-> Bound("excluded", v)]}
             [] c.op = "<=" -> {[col |-> c.col, lower |-> Unbounded, upper |-> Bound("included", v)]}
             [] OTHER -> {}
    ELSE IF e.op = "between" /\ IsColumn(e.args[1])
    THEN {[col |-> e.args[1].name,
           lower |-> Bound("included", Constant(e.args[2], params)),
           upper |-> Bound("included", Constant(e.args[3], params))]}
    ELSE {}

SimpleEquality(e, params) ==
    IF Compares(e) /\ e.op = "="
    THEN {[col |-> AsColumnOp(e).col, val |-> Constant(AsColumnOp(e).other, params)]}
    ELSE {}

FastEquality(q) ==
    UNION {{c \in SimpleEquality(e, q.params) : c.col = Indexed} : e \in ToSet(q.where)}
FastRange(q) ==
    UNION {{c \in SimpleRange(e, q.params) : c.col = Indexed} : e \in ToSet(q.where)}

\* rows_for_simple_where; rows_from_ids drops an id the store does not have.
Fetched(q) ==
    Live \intersect
    IF FastEquality(q) # {} THEN UNION {LookupIndex(index, c.val) : c \in FastEquality(q)}
    ELSE IF FastRange(q) # {}
         THEN UNION {RangeLookup(index, c.lower, c.upper) : c \in FastRange(q)}
    ELSE Live

\* A map that never had an entry has no node to search and does not panic.
Panics(q) == next > 1 /\ \E c \in FastRange(q) : Crossed(c.lower, c.upper)

\* The orders the rows of q may come in: those of a range by their keys, as long
\* as Compare orders these.  The rows of one key come in any order, although the
\* index lists them as they came to it.
Listings(q) ==
    LET found == Fetched(q)
        ranged == ordered /\ FastEquality(q) = {} /\ FastRange(q) # {}
    IN {ord \in Orders : ranged =>
           \A e, f \in index : Compare(e.key, f.key) = -1 =>
               \A i, j \in DOMAIN ord :
                   ord[i] \in e.ids \intersect found /\ ord[j] \in f.ids \intersect found => i < j}

-----------------------------------------------------------------------------
(* sql/select.rs: from the fetched rows to the answer *)

\* `_rowid_` is put in for fts_match and taken out at the end.
Tagged(id) == [c \in {"_rowid_"} \union DOMAIN table[id] |->
                  IF c = "_rowid_" THEN Integer(id) ELSE table[id][c]]
Listed(ids, ord) ==
    LET listed == Picked(ord, {k \in DOMAIN ord : ord[k] \in ids})
    IN [k \in DOMAIN listed |-> Tagged(listed[k])]

Passes(q, row) == \A e \in ToSet(q.where) : Holds(e, row, q.params, 0).holds
Matching(q, ids) == {id \in ids : Passes(q, Tagged(id))}
Filter(q, rows) == Picked(rows, {k \in DOMAIN rows : Passes(q, rows[k])})

Grouped(q) == q.group # <<>>
\* Mutant: values that compare as equal fall into one group.
CoarseKey(q, row) ==
    [k \in DOMAIN q.group |->
        LET v == Evaluate(q.group[k], row, <<>>, 0).val
        IN IF v.type = "integer" THEN Real(AsF64(v.of)) ELSE v]

GroupKey(q, row) == [k \in DOMAIN q.group |-> Evaluate(q.group[k], row, <<>>, 0).val]

SumOf(values) ==
    LET total == FoldLeft(LAMBDA s, v : s + Halves(v), 0, values)
    IN IF total % 2 = 0 THEN Integer(total \div 2) ELSE Real(total)

\* max_by keeps the last of equal values, min_by the first.
Greatest(values) ==
    FoldLeft(LAMBDA b, v : IF Compare(v, b) # -1 THEN v ELSE b, values[1], values)
Least(values) ==
    FoldLeft(LAMBDA b, v : IF Compare(v, b) = -1 THEN v ELSE b, values[1], values)

\* The aggregates take a column; NULL is only skipped by COUNT and SUM.
EvaluateAggregate(e, rows) ==
    LET values  == [k \in DOMAIN rows |-> Lookup(rows[k], e.args[1].name)]
        present == SelectSeq(values, LAMBDA v : v # Null)
    IN CASE e.op = "count *" -> Integer(Len(rows))
         [] e.op = "count"   -> Integer(Len(present))
         [] e.op = "count distinct" -> Integer(Cardinality(ToSet(present)))
         [] e.op = "sum"     -> SumOf(SelectSeq(present, Numeric))
         [] e.op = "max"     -> Greatest(values)
         [] e.op = "min"     -> Least(values)
         [] e.op = "col"     -> Lookup(rows[1], e.name)
         [] OTHER            -> Null

\* A name that is given twice has the last value.
Output(items, val(_)) ==
    LET last(name) == CHOOSE k \in DOMAIN items :
                         /\ items[k].as = name
                         /\ \A j \in k + 1 .. Len(items) : items[j].as # name
    IN [name \in {items[k].as : k \in DOMAIN items} |-> val(items[last(name)].expr)]

\* The positions whose key is not that of an earlier one.
Firsts(keys) == {k \in DOMAIN keys : \A j \in 1 .. k - 1 : keys[j] # keys[k]}

\* One row per group, in the order their keys first occur.
GroupBy(q, rows) ==
    LET keys  == [k \in DOMAIN rows |-> GroupKey(q, rows[k])]
        found == Picked(keys, Firsts(keys))
        group(g) == Picked(rows, {k \in DOMAIN rows : keys[k] = found[g]})
    IN [g \in DOMAIN found |-> Output(q.items, LAMBDA e : EvaluateAggregate(e, group(g)))]

Group(q, rows) == IF Grouped(q) THEN GroupBy(q, rows) ELSE rows

\* A stable sort by one key: the place of a row is the number of rows before it.
SortBy(o, rows) ==
    LET key(k) == Evaluate(o.expr, rows[k], <<>>, 0).val
        before(j, k) == LET c == Compare(key(j), key(k))
                        IN c = (IF o.asc THEN -1 ELSE 1) \/ (c = 0 /\ j < k)
        place(k) == Cardinality({j \in DOMAIN rows : before(j, k)}) + 1
    IN [n \in DOMAIN rows |-> rows[CHOOSE k \in DOMAIN rows : place(k) = n]]

\* Mutant: the first key is sorted by first.
OrderByForward(q, rows) ==
    LET upTo[n \in 0 .. Len(q.order)] ==
            IF n = 0 THEN rows ELSE SortBy(q.order[n], upTo[n - 1])
    IN upTo[Len(q.order)]

\* From the last key to the first.
OrderBy(q, rows) ==
    LET last == Len(q.order)
        upTo[n \in 0 .. last] ==
            IF n = 0 THEN rows ELSE SortBy(q.order[last + 1 - n], upTo[n - 1])
    IN upTo[last]

\* Mutant: the rows are taken before the offset is skipped.
TakeThenSkip(q, rows) ==
    IF q.limit = <<>> THEN rows
    ELSE LET n == IF q.limit[1] = Unreadable THEN Len(rows) ELSE q.limit[1]
         IN SubSeq(rows, q.offset + 1, Min({n, Len(rows)}))

\* OFFSET counts only beside a LIMIT; an unreadable LIMIT is none.
Limit(q, rows) ==
    IF q.limit = <<>> THEN rows
    ELSE LET n == IF q.limit[1] = Unreadable THEN Len(rows) ELSE q.limit[1]
         IN SubSeq(rows, q.offset + 1, Min({q.offset + n, Len(rows)}))

\* Grouped rows are projected already.
Project(q, rows) ==
    IF q.items = <<>> \/ Grouped(q) THEN rows
    ELSE [k \in DOMAIN rows |-> Output(q.items, LAMBDA e : Evaluate(e, rows[k], q.params, 0).val)]

\* Mutant: only neighbours are compared.
DistinctNeighbours(q, rows) ==
    IF ~q.distinct THEN rows
    ELSE Picked(rows, {k \in DOMAIN rows : k = 1 \/ rows[k - 1] # rows[k]})

\* `SELECT DISTINCT *` still sees _rowid_ in every row.
Distinct(q, rows) == IF q.distinct THEN Picked(rows, Firsts(rows)) ELSE rows

Strip(rows) == [k \in DOMAIN rows |-> Restrict(rows[k], DOMAIN rows[k] \ {"_rowid_"})]

\* execute_select behind the WHERE.
Shape(q, rows) == Strip(Distinct(q, Project(q, Limit(q, OrderBy(q, Group(q, rows))))))

\* A view's query runs with the parameters of the query around it.
Stored(q) == [q.from[1] EXCEPT !.params = q.params]
Source(q) == IF q.from = <<>> THEN q ELSE Stored(q)

\* The answer when the table gives q the rowids ids, in the order ord.
FromTable(q, ids, ord) == Shape(q, Listed(Matching(q, ids), ord))
AnswerFrom(q, ids, ord) ==
    LET rows == FromTable(Source(q), ids, ord)
    IN IF q.from = <<>> THEN rows ELSE Shape(q, Filter(q, rows))

-----------------------------------------------------------------------------
(* sql/dml.rs.  Constraints, journal and triggers are the business of      *)
(* TxnEngine and Statements.                                               *)

\* What a row gets in a column that it was not given.
Omitted(column, id) == IF column \in KeyColumns THEN Integer(id) ELSE Defaults[column]

NewRow(given, id) ==
    [c \in ToSet(Columns) |-> IF c \in DOMAIN given THEN given[c] ELSE Omitted(c, id)]

\* Every tuple of VALUES reads the parameters from the first one on.
TupleRow(tuple, params) ==
    LET upTo[n \in 0 .. Len(tuple)] ==
            IF n = 0 THEN At(Null, 0)
            ELSE Evaluate(tuple[n], NoColumns, params, upTo[n - 1].next)
    IN [c \in {Columns[k] : k \in DOMAIN tuple} |->
           upTo[CHOOSE k \in DOMAIN tuple : Columns[k] = c].val]

\* Without a row to insert INSERT inserts one that was given nothing.
Candidates(rows) == IF rows = <<>> THEN << <<>> >> ELSE rows

\* The names of an answered row in their order; `*` gives those of the view or
\* of the table, and a name given twice has its first place.
OutputNames(q) ==
    LET items == IF q.items = <<>> /\ q.from # <<>> THEN q.from[1].items ELSE q.items
        names == [k \in DOMAIN items |-> items[k].as]
    IN IF items = <<>> THEN Columns
       ELSE Picked(names, {k \in Firsts(names) : names[k] # "_rowid_"})

\* Mutant: the values go to the columns of their names.
ByName(q, row) == [c \in ToSet(Columns) \intersect DOMAIN row |-> row[c]]

\* zip: what has no counterpart is dropped.
ByPosition(q, row) ==
    LET names == OutputNames(q)
    IN [c \in {Columns[k] : k \in DOMAIN Columns \intersect DOMAIN names} |->
           row[names[CHOOSE k \in DOMAIN Columns : Columns[k] = c]]]

Called(kind, s) == asked = Nothing /\ asked' = [kind |-> kind, what |-> s]
Returns(rows) == answer' = [panics |-> FALSE, rows |-> rows] /\ order' = <<>>

\* The rows ids become those of new, or go when new does not have them.
WriteRows(ids, new, ord) ==
    /\ table' = [id \in (Live \ ids) \union DOMAIN new |->
                     IF id \in ids THEN new[id] ELSE table[id]]
    /\ index' = Reindexed(index, table, new, ids, ord)
    /\ ordered' = (ordered /\ \A id \in DOMAIN new : Orderable(new[id][Indexed]))

InsertRows(rows) ==
    LET last == next + Len(rows) - 1
        ids  == next .. last
    IN /\ last <= MaxRowId
       /\ WriteRows(ids, [id \in ids |-> NewRow(rows[id - next + 1], id)],
                    [k \in 1 .. Len(rows) |-> next + k - 1])
       /\ next' = next + Len(rows)

Insert(s) ==
    /\ InsertRows([k \in DOMAIN s.values |-> TupleRow(s.values[k], s.params)])
    /\ Called("insert", s)
    /\ Returns(<<>>)

\* Mutant: WHERE reads the parameters from the first one on.
WhereOffsetZero(s) == 0

\* set_param_count
WhereOffset(s) == SumFunction([k \in DOMAIN s.set |-> Placeholders(s.set[k].expr)])

Chosen(where, params, i) ==
    {id \in Live : \A e \in ToSet(where) : Holds(e, table[id], params, i).holds}

\* The assignments see the row as it was, and hand param_idx on.
SetRow(s, row) ==
    LET upTo[n \in 0 .. Len(s.set)] ==
            IF n = 0 THEN [row |-> row, next |-> 0]
            ELSE LET v == Evaluate(s.set[n].expr, row, s.params, upTo[n - 1].next)
                 IN [row  |-> [upTo[n - 1].row EXCEPT ![s.set[n].as] = v.val],
                     next |-> v.next]
    IN upTo[Len(s.set)].row

Write(kind, s, ids, new) ==
    \E ord \in Orders :
        /\ WriteRows(ids, new, ord)
        /\ next' = next
        /\ Called(kind, s)
        /\ Returns(<<>>)

Update(s) ==
    LET ids == Chosen(s.where, s.params, WhereOffset(s))
    IN Write("update", s, ids, [id \in ids |-> SetRow(s, table[id])])

Delete(s) == Write("delete", s, Chosen(s.where, s.params, 0), <<>>)

-----------------------------------------------------------------------------
Ask(q) ==
    \E ord \in Listings(Source(q)) :
        /\ Called("select", q)
        /\ order' = ord
        /\ answer' = IF Panics(Source(q)) THEN [panics |-> TRUE, rows |-> <<>>]
                     ELSE [panics |-> FALSE, rows |-> AnswerFrom(q, Fetched(Source(q)), ord)]
        /\ UNCHANGED <<table, index, next, ordered>>

\* INSERT INTO t SELECT
Copy(q) ==
    \E ord \in Listings(Source(q)) : \E rows \in {AnswerFrom(q, Fetched(Source(q)), ord)} :
        /\ ~Panics(Source(q))
        /\ InsertRows(Candidates([k \in DOMAIN rows |-> ByPosition(q, rows[k])]))
        /\ Called("copy", q)
        /\ Returns(rows)

Return == /\ asked # Nothing
          /\ asked' = Nothing /\ answer' = NoAnswer /\ order' = <<>>
          /\ UNCHANGED <<table, index, next, ordered>>

Init == /\ table = <<>> /\ index = {} /\ next = 1 /\ ordered = TRUE
        /\ asked = Nothing /\ answer = NoAnswer /\ order = <<>>

Next == \/ \E s \in Inserts : Insert(s)
        \/ \E s \in Updates : Update(s)
        \/ \E s \in Deletes : Delete(s)
        \/ \E q \in Selects : Ask(q)
        \/ \E q \in Copies  : Copy(q)
        \/ Return

Spec == Init /\ [][Next]_vars

-----------------------------------------------------------------------------
(* Properties *)

\* Every row is in one entry of the index, under a value that compares as equal
\* to its own, no other entry has such a value, and nothing else is in the index,
\* also when an integer and a real share an entry: what every fast path relies
\* on (index.rs:60, index.rs:71).
IndexListsRows ==
    ordered =>
        /\ \A id \in Live : \E e \in index :
              /\ EntriesAt(index, table[id][Indexed]) = {e}
              /\ {f \in index : id \in f.ids} = {e}
        /\ \A e \in index : e.ids # {} /\ e.ids \subseteq Live

\* Read by the properties below: the statement, and its query on the table.
Asked == asked.what
Base == Source(Asked)

\* A comparison compares the values of its two sides, evaluated from left to
\* right, a BETWEEN those of its three; a column reads as the row's value and
\* takes no parameter, what reads no column gives the same in every row, and
\* what has no placeholder the same at every index (expr.rs:93,
\* sql/select.rs:843).
ReadsAsWritten(e, row, params, i) ==
    /\ IsColumn(e) => Evaluate(e, row, params, i) = At(Lookup(row, e.name), i)
    /\ Closed(e) => Evaluate(e, row, params, 0) = Evaluate(e, NoColumns, params, 0)
    /\ Placeholders(e) = 0 => Evaluate(e, row, params, i) = At(Evaluate(e, row, params, 0).val, i)

HoldsAsWritten(e, row, params) ==
    LET first  == Evaluate(e.args[1], row, params, 0)
        second == Evaluate(e.args[2], row, params, first.next)
        third  == Evaluate(e.args[3], row, params, second.next)
    IN /\ e.op \in DOMAIN Flipped \union {"between"} =>
             /\ ReadsAsWritten(e.args[1], row, params, 0)
             /\ ReadsAsWritten(e.args[2], row, params, first.next)
       /\ e.op \in DOMAIN Flipped =>
             Holds(e, row, params, 0).holds = Truthy(Apply(e.op, <<first.val, second.val>>))
       /\ e.op = "between" =>
             /\ ReadsAsWritten(e.args[3], row, params, second.next)
             /\ Holds(e, row, params, 0).holds
                = Truthy(Apply(e.op, <<first.val, second.val, third.val>>))

EvaluatesAsWritten ==
    asked.kind = "select" =>
        \A id \in Live :
            /\ \A e \in ToSet(Base.where) : HoldsAsWritten(e, Tagged(id), Base.params)
            /\ \A e \in ToSet(Base.group) : ReadsAsWritten(e, Tagged(id), <<>>, 0)

\* Whether the fast path may be trusted with q: the constant side reads no
\* column, and of the bounds of a BETWEEN, which both start at the first
\* parameter, the second has no placeholder when the first has one; the range
\* is not turned round, and its ends are values that Compare orders.
Trusted(q) ==
    /\ \A e \in ToSet(q.where) : Compares(e) => Closed(AsColumnOp(e).other)
    /\ \A e \in ToSet(q.where) : e.op = "between" =>
          /\ Closed(e.args[2]) /\ Closed(e.args[3])
          /\ Placeholders(e.args[2]) = 0 \/ Placeholders(e.args[3]) = 0
    /\ \A c \in FastRange(q) : Orderable(c.lower.val) /\ Orderable(c.upper.val)
    /\ ~Panics(q)

AnswersAsScan(q) ==
    ~answer.panics /\ answer.rows = AnswerFrom(q, Live, order)

\* A SELECT that an index answers gives the rows of a scan that lists the store
\* in the order in which the index lists what it finds (sql/select.rs:203), for
\* every WHERE that Trusted describes.
IndexKeepsAnswer ==
    ordered /\ asked.kind = "select" /\ Trusted(Base) => AnswersAsScan(Asked)

\* "this is purely an optimization and can never change the result set"
\* (sql/select.rs:204), of every SELECT.
IndexNeverChangesAnswer ==
    asked.kind = "select" => AnswersAsScan(asked.what)

\* The rows found that pass the WHERE.
Passing == Listed(Matching(Asked, Fetched(Asked)), order)
OnTable == asked.kind = "select" /\ Asked.from = <<>>

\* A sort by keys that Compare does not order promises nothing.
KeysCompare(rows) ==
    \A o \in ToSet(Asked.order), row \in ToSet(rows) :
        Orderable(Evaluate(o.expr, row, <<>>, 0).val)

\* It has an answer, sorted if it asks for that, with all its columns.
Regular == /\ ~answer.panics /\ KeysCompare(Group(Asked, Passing))
           /\ \A item \in ToSet(Asked.items) : item.as # "_rowid_"

\* Row a comes before row b: the first key that tells them apart decides.
Before(a, b) ==
    LET c(k) == Compare(Evaluate(Asked.order[k].expr, a, <<>>, 0).val,
                        Evaluate(Asked.order[k].expr, b, <<>>, 0).val)
    IN \E k \in DOMAIN Asked.order :
          /\ \A j \in 1 .. k - 1 : c(j) = 0
          /\ c(k) = IF Asked.order[k].asc THEN -1 ELSE 1

\* sorted has the rows of listed in the order Asked names, and leaves rows that
\* its keys do not tell apart as they were.
Lexicographic(listed, sorted) ==
    LET at(row) == CHOOSE k \in DOMAIN listed : listed[k] = row
    IN /\ ToSet(sorted) = ToSet(listed) /\ Len(sorted) = Len(listed)
       /\ \A i, j \in DOMAIN sorted : i < j =>
             \/ Before(sorted[i], sorted[j])
             \/ ~Before(sorted[j], sorted[i]) /\ at(sorted[i]) < at(sorted[j])

\* Sorting by the last key first and by the first key last gives the order
\* that ORDER BY names, and leaves rows it does not tell apart as they were
\* (sql/select.rs:789).
OrderIsLexicographic ==
    OnTable /\ ~Grouped(Asked) /\ Asked.order # <<>> /\ KeysCompare(Passing) =>
        Lexicographic(Passing, OrderBy(Asked, Passing))

\* The pages LIMIT n OFFSET 0, n, 2n, ... are the whole answer, each row once
\* (sql/select.rs:805).
PagesAreTheAnswer ==
    OnTable /\ ~Asked.distinct /\ ~answer.panics /\ KeysCompare(Group(Asked, Passing)) =>
        LET all == AnswerFrom([Asked EXCEPT !.limit = <<>>], Fetched(Asked), order)
            page(n, k) == AnswerFrom([Asked EXCEPT !.limit = <<n>>, !.offset = (k - 1) * n],
                                     Fetched(Asked), order)
        IN \A n \in RowId : FlattenSeq([k \in 1 .. Len(all) |-> page(n, k)]) = all

\* What the answer says in the item c, the grouping column, and in n, COUNT(*).
CountsGroups(c, n) ==
    LET value(id) == Lookup(Tagged(id), c.expr.name)
        ids   == Matching(Asked, Fetched(Asked))
        found == {row[c.as] : row \in ToSet(answer.rows)}
    IN /\ found = {value(id) : id \in ids}
       /\ Cardinality(found) = Len(answer.rows)
       /\ \A row \in ToSet(answer.rows) :
             row[c.as].type # "nan" /\ row[c.as] \notin {MinusZero, Real(0)} =>
             row[n.as] = Integer(Cardinality({id \in ids : Same(value(id), row[c.as])}))

\* A group is all rows with one value, in the sense of `=`: COUNT(*) beside
\* the grouping column counts exactly them, and no two groups have the same
\* (sql/select.rs:684).  A NaN, not even equal to itself, has one group, and
\* 0.0 and -0.0, which are equal, have two.
GroupsAreEqualValues ==
    OnTable /\ Regular /\ Grouped(Asked) /\ Asked.limit = <<>>
    /\ IsInjective([k \in DOMAIN Asked.items |-> Asked.items[k].as]) =>
        \A c, n \in ToSet(Asked.items) :
            Asked.group = <<c.expr>> /\ IsColumn(c.expr) /\ n.expr.op = "count *" =>
                CountsGroups(c, n)

\* DISTINCT with a list of columns gives every row that there is without it,
\* once (sql/select.rs:99).  It is applied behind LIMIT, so with one the rows
\* it drops are not made up for.
DistinctGivesEachOnce ==
    OnTable /\ Regular /\ Asked.distinct /\ Asked.items # <<>> =>
        /\ \A i, j \in DOMAIN answer.rows : answer.rows[i] = answer.rows[j] => i = j
        /\ ToSet(answer.rows)
              = ToSet(AnswerFrom([Asked EXCEPT !.distinct = FALSE], Fetched(Asked), order))

\* The rows from first to last are those of an answer with these names, value by
\* value, and have in a column without a counterpart, in every column when the
\* answer is empty, its DEFAULT, NULL or the rowid.
AddsAnswer(new, first, last, rows, names) ==
    \A id \in first .. last : \A c \in DOMAIN Columns :
        new[id][Columns[c]] = IF rows # <<>> /\ c \in DOMAIN names
                              THEN rows[id - first + 1][names[c]]
                              ELSE Omitted(Columns[c], id)

\* INSERT ... SELECT from the table itself leaves the rows that were there and
\* adds those its query answers, never one it has just added; for an empty
\* answer it adds one row that was given no value (sql/dml.rs:72).
CopyAddsItsAnswer ==
    [][asked'.kind = "copy" =>
        /\ next' = next + (IF answer'.rows = <<>> THEN 1 ELSE Len(answer'.rows))
        /\ DOMAIN table' = Live \union next .. next' - 1
        /\ \A id \in Live : table'[id] = table[id]
        /\ AddsAnswer(table', next, next' - 1, answer'.rows, OutputNames(asked'.what))]_vars
=============================================================================
