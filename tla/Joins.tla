------------------------------- MODULE Joins -------------------------------
(***************************************************************************)
(* execute_joins of sql/select.rs: a first table and a chain of joins,     *)
(* the nested loop and the hash join, and the names under which the        *)
(* columns of the joined tables are found.                                 *)
(*                                                                         *)
(* A table is the sequence of its rows in the order its hash map lists     *)
(* them; rows come in any order, so every listing occurs.                  *)
(***************************************************************************)
EXTENDS Expressions, FiniteSets, SequencesExt

CONSTANTS
    Tables,     \* the tables
    Rows,       \* their possible rows: table -> rows, functions of column names
    MaxRows,    \* bound on the rows of a table
    Queries,    \* [table, as, params, joins |-> a sequence of
                \*      [kind, table, as, on |-> <<>> or <<condition>>,
                \*       using |-> the columns of USING; NATURAL is USING those
                \*       that both sides have]]
    Holds(_, _, _, _)    \* evaluate_where_ctx; Evaluators defines it

\* The schema's columns.
Columns(t) == DOMAIN (CHOOSE r \in Rows[t] : TRUE)

\* The names a query gives to its tables.
NamesOf(q) == {q.as} \union {j.as : j \in ToSet(q.joins)}

ASSUME TableAssumption ==
    /\ MaxRows \in Nat
    /\ \A t \in Tables : \A r, s \in Rows[t] : DOMAIN r = DOMAIN s

AllColumns == UNION {Columns(t) : t \in Tables}

\* No qualified name is that of two columns, or a bare name, as it may be when
\* names have dots.
ASSUME QueryAssumption ==
    \A q \in Queries :
        /\ q.table \in Tables /\ q.joins \in Seq(ToSet(q.joins))
        /\ \A j \in ToSet(q.joins) :
               /\ j.table \in Tables /\ j.on \in Seq(ToSet(j.on)) /\ Len(j.on) <= 1
               /\ j.on = <<>> \/ j.using = {}
        /\ \A n \in NamesOf(q) : \A c \in AllColumns :
               /\ Qualified(n, c) \notin AllColumns
               /\ \A m \in NamesOf(q) : \A d \in AllColumns :
                      Qualified(n, c) = Qualified(m, d) => n = m /\ c = d

VARIABLES
    tables,    \* table -> its rows
    asked,     \* the running query, <<>> between two
    answer     \* its combined rows

vars == <<tables, asked, answer>>

-----------------------------------------------------------------------------
(* Combined rows *)

\* The entries of f, and those of g under other names.
Over(f, g) == [k \in DOMAIN f \union DOMAIN g |-> IF k \in DOMAIN f THEN f[k] ELSE g[k]]

\* A row under qualified names.
Prefixed(name, row) ==
    [k \in {Qualified(name, c) : c \in DOMAIN row} |->
        row[CHOOSE c \in DOMAIN row : Qualified(name, c) = k]]

\* Mutant: the second table's bare names replace the first's, as they once did.
InsertRowClobbers(combined, name, row) ==
    Over(Prefixed(name, row), Over(row, combined))

\* insert_row_qualified: under name.column, and under the bare column unless
\* an earlier table has it.
InsertRowQualified(combined, name, row) ==
    Over(Prefixed(name, row), Over(combined, row))

NullPadded(join) ==
    [k \in Columns(join.table) \union {Qualified(join.as, c) : c \in Columns(join.table)}
        |-> Null]

\* The padding of an unmatched left row replaces bare names it already has.
PadRight(row1, join) == Over(NullPadded(join), row1)

\* Of an unmatched right row the left names are those of the first left row:
\* none when there is no left row.
PadLeft(result, join, row2) ==
    LET names == IF result = <<>> THEN {} ELSE DOMAIN result[1]
    IN InsertRowQualified([k \in names |-> Null], join.as, row2)

\* join_condition_matches: every ON reads the parameters from the first one on;
\* USING does not compare, it asks for the column in the combined row.
Matches(join, combined, params) ==
    /\ \A e \in ToSet(join.on) : Holds(e, combined, params, 0).holds
    /\ join.using \subseteq DOMAIN combined

\* row1 with the rows of rows2 at the positions partners.
Combine(row1, rows2, partners, join) ==
    LET found == Picked(rows2, partners)
    IN [j \in DOMAIN found |-> InsertRowQualified(row1, join.as, found[j])]

\* The nested loop.
Partners(row1, rows2, join, params) ==
    {j \in DOMAIN rows2 : Matches(join, InsertRowQualified(row1, join.as, rows2[j]), params)}

\* The rows a left row is part of: its pairs, or itself with padding.
Outer(row1, pairs, join) == IF pairs = <<>> THEN <<PadRight(row1, join)>> ELSE pairs

-----------------------------------------------------------------------------
(* The hash join of the first hop *)

\* `t1.c1 = t2.c2`, either way round, as {<<c1, c2>>}; a name that fits both
\* tables is the first's.
ExtractEquiJoin(join, name1) ==
    LET side(e) == IF e.op # "qcol" THEN 0
                   ELSE IF e.table = name1 THEN 1
                   ELSE IF e.table = join.as THEN 2 ELSE 0
    IN UNION {IF e.op # "=" THEN {}
              ELSE CASE side(e.args[1]) = 1 /\ side(e.args[2]) = 2 ->
                            {<<e.args[1].name, e.args[2].name>>}
                     [] side(e.args[1]) = 2 /\ side(e.args[2]) = 1 ->
                            {<<e.args[2].name, e.args[1].name>>}
                     [] OTHER -> {} : e \in ToSet(join.on)}

\* Mutant: keys are compared as an index compares them.
SameKeyByOrder(v, w) == Compare(v, w) = 0

\* value_to_key_string writes the type and the value.
SameKey(v, w) == v = w

HashPartners(row1, rows2, name1, cols) ==
    LET q1 == Qualified(name1, cols[1])
    IN {j \in DOMAIN rows2 : /\ q1 \in DOMAIN row1 /\ cols[2] \in DOMAIN rows2[j]
                             /\ SameKey(row1[q1], rows2[j][cols[2]])}

-----------------------------------------------------------------------------
(* One join of the chain; cols is {} for the nested loop. *)

LeftSide(result, rows2, join, q, cols) ==
    FlattenSeq([i \in DOMAIN result |->
        LET partners == IF cols = {} THEN Partners(result[i], rows2, join, q.params)
                        ELSE HashPartners(result[i], rows2, q.as, CHOOSE c \in cols : TRUE)
            pairs == Combine(result[i], rows2, partners, join)
        IN IF join.kind \in {"left", "full"} THEN Outer(result[i], pairs, join) ELSE pairs])

\* Mutant: only rows matched by the first left row count as matched.
UnmatchedByFirst(result, rows2, join, params) ==
    Picked(rows2, {j \in DOMAIN rows2 :
                      result = <<>> \/ j \notin Partners(result[1], rows2, join, params)})

UnmatchedRight(result, rows2, join, params) ==
    Picked(rows2, {j \in DOMAIN rows2 :
                      \A i \in DOMAIN result : j \notin Partners(result[i], rows2, join, params)})

\* A right join lists its rows by right row, which the order of a bag of rows
\* hides.
JoinStep(result, rows2, join, q, cols) ==
    LeftSide(result, rows2, join, q, cols)
    \o IF join.kind \notin {"right", "full"} THEN <<>>
       ELSE LET alone == UnmatchedRight(result, rows2, join, q.params)
            IN [j \in DOMAIN alone |-> PadLeft(result, join, alone[j])]

FirstRows(q) ==
    [i \in DOMAIN tables[q.table] |-> InsertRowQualified(<<>>, q.as, tables[q.table][i])]

\* The hash join is for the first hop, INNER or LEFT.  With hash = FALSE it is
\* never used, to compare with.
EquiColumns(q, k, hash) ==
    IF hash /\ k = 1 /\ q.joins # <<>> /\ q.joins[k].kind \in {"inner", "left"} THEN ExtractEquiJoin(q.joins[k], q.as)
    ELSE {}

ExecuteJoins(q, hash) ==
    LET upTo[k \in 0 .. Len(q.joins)] ==
            IF k = 0 THEN FirstRows(q)
            ELSE JoinStep(upTo[k - 1], tables[q.joins[k].table], q.joins[k], q,
                          EquiColumns(q, k, hash))
    IN upTo[Len(q.joins)]

-----------------------------------------------------------------------------
Insert(t, row) ==
    /\ asked = <<>> /\ Len(tables[t]) < MaxRows
    /\ tables' = [tables EXCEPT ![t] = Append(@, row)]
    /\ UNCHANGED <<asked, answer>>

Ask(q) ==
    /\ asked = <<>>
    /\ asked' = <<q>>
    /\ answer' = ExecuteJoins(q, TRUE)
    /\ UNCHANGED tables

Return == asked # <<>> /\ asked' = <<>> /\ answer' = <<>> /\ UNCHANGED tables

Init == tables = [t \in Tables |-> <<>>] /\ asked = <<>> /\ answer = <<>>

Next == \/ \E t \in Tables : \E row \in Rows[t] : Insert(t, row)
        \/ \E q \in Queries : Ask(q)
        \/ Return

Spec == Init /\ [][Next]_vars

-----------------------------------------------------------------------------
(* Properties *)

Times(x, s) == Cardinality({k \in DOMAIN s : s[k] = x})
SameBag(s, t) == \A x \in ToSet(s) \union ToSet(t) : Times(x, s) = Times(x, t)

\* An ON that compares two qualified columns compares the values that the
\* combined row has for them (expr.rs:96, sql/select.rs:395).
OnAsWritten ==
    \A q \in ToSet(asked) : \A join \in ToSet(q.joins) : \A e \in ToSet(join.on) :
        e.op = "=" /\ e.args[1].op = "qcol" /\ e.args[2].op = "qcol" =>
            \A row1 \in ToSet(FirstRows(q)), row2 \in ToSet(tables[join.table]) :
                LET combined == InsertRowQualified(row1, join.as, row2)
                    side(x) == LookupQualified(combined, x.table, x.name)
                IN Holds(e, combined, q.params, 0).holds = Same(side(e.args[1]), side(e.args[2]))

\* Values that are equal exactly when they are written alike: not NaN, which is
\* written like itself, and not the two zeros, which are written differently.
Canonical(v) == v.type # "nan" /\ v # MinusZero

\* The hash join may be trusted: the first ON names columns that there are, and
\* the tables hold canonical values.
HashTrusted(q) ==
    /\ \A cols \in EquiColumns(q, 1, TRUE) :
          cols[1] \in Columns(q.table) /\ cols[2] \in Columns(q.joins[1].table)
    /\ \A t \in Tables : \A row \in ToSet(tables[t]) : \A c \in DOMAIN row : Canonical(row[c])

\* The hash join gives the rows that the nested loop gives, in the same order
\* (sql/select.rs:423).
HashJoinIsNestedLoop ==
    \A q \in ToSet(asked) : HashTrusted(q) => answer = ExecuteJoins(q, FALSE)

\* What SQL calls the join, without names and lookups: a choice of one row, or
\* of the row that is all NULL, from every table of the chain.  USING wants the
\* values of both sides equal, as the code's comment has it (sql/select.rs:403).
NullRow(t) == [c \in Columns(t) |-> Null]
Environment(choice) ==
    [k \in UNION {{Qualified(n, c) : c \in DOMAIN choice[n]} : n \in DOMAIN choice} |->
        LET at == CHOOSE p \in UNION {{<<n, c>> : c \in DOMAIN choice[n]} : n \in DOMAIN choice} :
                      Qualified(p[1], p[2]) = k
        IN choice[at[1]][at[2]]]

Relational(q) ==
    LET step(choices, k) ==
            LET join == q.joins[k]
                rows == tables[join.table]
                with(choice, row) == Over([n \in {join.as} |-> row], choice)
                equal(choice, row, c) ==
                    \E n \in DOMAIN choice : c \in DOMAIN choice[n] /\ Same(choice[n][c], row[c])
                good(choice, row) ==
                    /\ \A e \in ToSet(join.on) :
                          Holds(e, Environment(with(choice, row)), q.params, 0).holds
                    /\ \A c \in join.using : c \in DOMAIN row /\ equal(choice, row, c)
                right(choice) == SelectSeq(rows, LAMBDA row : good(choice, row))
                empty == [n \in {q.as} \union {q.joins[j].as : j \in 1 .. k - 1} |->
                             NullRow(IF n = q.as THEN q.table
                                     ELSE q.joins[CHOOSE j \in 1 .. k - 1 : q.joins[j].as = n].table)]
                matched == FlattenSeq([i \in DOMAIN choices |->
                    [j \in DOMAIN right(choices[i]) |-> with(choices[i], right(choices[i])[j])]])
                loneLeft == SelectSeq(choices, LAMBDA c : right(c) = <<>>)
                loneRight == SelectSeq(rows, LAMBDA row :
                                 \A i \in DOMAIN choices : ~good(choices[i], row))
            IN matched
               \o (IF join.kind \in {"left", "full"}
                   THEN [i \in DOMAIN loneLeft |-> with(loneLeft[i], NullRow(join.table))]
                   ELSE <<>>)
               \o (IF join.kind \in {"right", "full"}
                   THEN [j \in DOMAIN loneRight |-> with(empty, loneRight[j])]
                   ELSE <<>>)
    IN FoldLeft(step, [i \in DOMAIN tables[q.table] |-> [n \in {q.as} |-> tables[q.table][i]]],
                [k \in DOMAIN q.joins |-> k])

\* A combined row read back through its qualified names.
Names(q) == {<<q.as, c>> : c \in Columns(q.table)}
            \union UNION {{<<j.as, c>> : c \in Columns(j.table)} : j \in ToSet(q.joins)}
ReadBack(q, row) == [n \in Names(q) |-> LookupQualified(row, n[1], n[2])]
ReadChoice(q, choice) == [n \in Names(q) |-> choice[n[1]][n[2]]]

\* The rows a RIGHT or FULL join pads on the left know the left names only
\* from a left row.
LeftIsKnown(q) ==
    \A k \in DOMAIN q.joins : q.joins[k].kind \in {"right", "full"} =>
        ExecuteJoins([q EXCEPT !.joins = SubSeq(@, 1, k - 1)], FALSE) # <<>>

\* Under their qualified names the columns of every kind and chain of joins with
\* ON are those of the relational join: no row lost or doubled, what has no
\* partner padded once, conditions never read another table's column of the
\* same name (sql/select.rs:363).  A join with USING takes every pair for equal:
\* as long as it is INNER it has the rows of the relational join at least.
JoinsAreRelational ==
    \A q \in ToSet(asked) :
        LET got == [i \in DOMAIN answer |-> ReadBack(q, answer[i])]
            all == Relational(q)
            due == [i \in DOMAIN all |-> ReadChoice(q, all[i])]
            named == {j \in ToSet(q.joins) : j.using # {}}
        IN /\ named = {} /\ LeftIsKnown(q) => SameBag(got, due)
           /\ (\A j \in ToSet(q.joins) : j.kind = "inner") =>
                 \A x \in ToSet(due) : Times(x, due) <= Times(x, got)

\* The first table of the chain with a column of that name.
FirstWith(q, c) ==
    IF c \in Columns(q.table) THEN q.as
    ELSE LET k == CHOOSE k \in DOMAIN q.joins :
                     /\ c \in Columns(q.joins[k].table)
                     /\ \A j \in 1 .. k - 1 : c \notin Columns(q.joins[j].table)
         IN q.joins[k].as

Bare(q) == Columns(q.table) \union UNION {Columns(j.table) : j \in ToSet(q.joins)}

\* No table is joined twice under one name.
NamesDiffer(q) ==
    \A k \in DOMAIN q.joins :
        q.joins[k].as # q.as /\ \A j \in 1 .. k - 1 : q.joins[j].as # q.joins[k].as

\* A bare column name is the first table's that has it, in every row that no
\* LEFT or FULL join has padded; there it reads as NULL (sql/select.rs:353).
BareNameIsFirstOrPadded ==
    \A q \in ToSet(asked) : NamesDiffer(q) => \A row \in ToSet(answer) : \A c \in Bare(q) :
        \/ Lookup(row, c) = LookupQualified(row, FirstWith(q, c), c)
        \/ /\ Lookup(row, c) = Null
           /\ \E j \in ToSet(q.joins) :
                 /\ j.kind \in {"left", "full"} /\ c \in Columns(j.table)
                 /\ \A d \in Columns(j.table) : LookupQualified(row, j.as, d) = Null

=============================================================================
