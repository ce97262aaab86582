------------------------------ MODULE MCSelect ------------------------------
(* A table of three columns for TLC: a has the index, b a DEFAULT, and k is an *)
(* INTEGER PRIMARY KEY that is never given.                                   *)
EXTENDS SelectBinding, TLC

a == Col("a")
b == Col("b")
int(i) == Lit(Integer(i))
Item(name, e) == [as |-> name, expr |-> e]
By(e, asc) == [expr |-> e, asc |-> asc]
P(seq) == [k \in DOMAIN seq |-> Integer(seq[k])]

MCColumns  == <<"a", "b", "k">>
MCDefaults == ("a" :> Null) @@ ("b" :> Integer(2)) @@ ("k" :> Null)

\* 1, 1.0 and NULL with the DEFAULT in b, and 2 in a; the parameters of the last
\* are read again for its second tuple.
MCInserts == {
    [values |-> << <<int(1), int(1)>> >>, params |-> <<>>],
    [values |-> << <<Lit(Real(2))>> >>, params |-> <<>>],
    [values |-> << <<Lit(Null)>> >>, params |-> <<>>],
    [values |-> << <<int(2), Param>>, <<int(2), Param>> >>, params |-> P(<<1, 2>>)] }

Or(l, r)  == Node("or", <<l, r>>)
And(l, r) == Node("and", <<l, r>>)
Eq(l, r)  == Node("=", <<l, r>>)

\* WHERE conditions, with their parameters.
Conditions == {
    <<Eq(a, int(1)), <<>> >>,
    <<Eq(Lit(Null), a), <<>> >>,
    <<Node(">", <<int(2), a>>), <<>> >>,
    <<Node("<=", <<a, int(1)>>), <<>> >>,
    <<Node(">=", <<a, Param>>), P(<<1>>)>>,
    <<Node("between", <<a, int(1), int(2)>>), <<>> >>,
    <<Node("between", <<a, Param, int(1)>>), P(<<2>>)>>,
    <<Eq(a, Node("ifnull", <<Param, int(1)>>)), <<Null>> >>,
    <<Node("case of", <<a, int(1), b, Lit(Real(2)), int(0), int(1)>>), <<>> >>,
    <<And(And(Eq(a, Param), Eq(b, Param)), Node("in", <<b, int(2), Param>>)), P(<<1, 2, 1>>)>>,
    <<Or(Or(Eq(b, Param), Eq(a, Param)), Node("<", <<b, Param>>)), P(<<1, 2, 1>>)>>,
    <<And(Node("not", <<Or(Eq(b, int(1)), Eq(a, int(2)))>>), Eq(b, Param)), P(<<2>>)>> }

Misread == {
    <<Node("between", <<a, int(2), int(1)>>), <<>> >>,
    <<Node("between", <<a, Param, Param>>), P(<<1, 2>>)>>,
    <<Eq(a, Node("+", <<b, int(0)>>)), <<>> >>,
    <<And(Or(Eq(a, Param), Eq(b, Param)), Eq(b, Param)), P(<<1, 1, 2>>)>>,
    <<And(Node("case", <<Eq(a, Param), b, int(1)>>), Eq(b, Param)), P(<<1, 2>>)>> }

Where(c) == Query(<<c[1]>>, c[2])
All == Query(<<>>, <<>>)

Shaped == {
    [All EXCEPT !.order = <<By(a, TRUE), By(b, FALSE)>>],
    [All EXCEPT !.order = <<By(b, FALSE), By(Node("isnull", <<a>>), TRUE)>>, !.limit = <<2>>,
                !.offset = 1],
    [All EXCEPT !.group = <<a>>, !.limit = <<>>, !.order = <<By(Col("n"), FALSE)>>,
                !.items = <<Item("a", a), Item("n", Node("count *", <<>>)),
                            Item("s", Node("sum", <<b>>)), Item("m", Node("max", <<b>>))>>],
    [All EXCEPT !.group = <<b>>,
                !.items = <<Item("b", b), Item("n", Node("count *", <<>>)),
                            Item("c", Node("count", <<a>>)), Item("m", Node("min", <<a>>)),
                            Item("d", Node("count distinct", <<a>>))>>],
    [All EXCEPT !.items = <<Item("b", b)>>, !.distinct = TRUE],
    [All EXCEPT !.items = <<Item("a", a)>>, !.distinct = TRUE, !.limit = <<2>>],
    [All EXCEPT !.distinct = TRUE, !.limit = <<Unreadable>>],
    [Query(<<Eq(b, Param)>>, P(<<1>>))
        EXCEPT !.from = <<Query(<<Node("<", <<a, Param>>)>>, <<>>)>>] }

\* The evaluators that Select takes as constants.  The LETs keep TLC's coverage
\* statistics out of the recursion, which they would unfold at every use.
MCEvaluate(e, row, params, i) == LET v == Eval(e, row, params, i) IN v
MCHolds(e, row, params, i)    == LET v == EvalWhere(e, row, params, i) IN v
MCPlaceholders(e)             == LET v == CountPlaceholders(e) IN v
MCClosed(e)                   == LET v == ReadsNoColumn(e) IN v

MCSelects == {Where(c) : c \in Conditions} \union Shaped
MCMisread == {Where(c) : c \in Misread}

MCUpdates == {
    [set |-> <<Item("a", Node("nullif", <<a, Param>>)), Item("b", Param)>>,
     where |-> <<And(Eq(a, Param), Eq(b, Param))>>, params |-> P(<<2, 2, 2, 1>>)],
    [set |-> <<Item("a", b), Item("b", Node("between", <<a, Param, Param>>))>>,
     where |-> <<Eq(b, Param)>>, params |-> P(<<1, 1, 2>>)] }

MCDeletes == { [where |-> <<Eq(a, Param)>>, params |-> P(<<1>>)],
               [where |-> <<Node("isnull", <<a>>)>>, params |-> <<>>] }

\* A name given twice is one column; each answer is empty in some states.
MCCopies == {
    [Where(<<Eq(b, int(2)), <<>> >>) EXCEPT !.items = <<Item("x", b), Item("y", a)>>],
    [Where(<<Eq(a, int(2)), <<>> >>) EXCEPT !.items = <<Item("x", a), Item("x", b)>>] }
=============================================================================
