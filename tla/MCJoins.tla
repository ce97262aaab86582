------------------------------ MODULE MCJoins ------------------------------
(* Three tables for TLC.  All have an id; b refers to a, c to b. *)
EXTENDS Joins, Evaluators, TLC

id(v) == [id |-> v]
ref(v, w) == [id |-> v, ref |-> w]

MCRows ==
    ("a" :> {id(Integer(1)), id(Integer(2)), id(Null)})
    @@ ("b" :> {ref(Integer(1), Integer(1)), ref(Integer(2), Real(2)), ref(Integer(1), Null)})
    @@ ("c" :> {ref(Integer(2), Integer(1)), ref(Integer(3), Integer(2))})

\* The evaluator that Joins takes as a constant.
MCHolds(e, row, params, i) == EvalWhere(e, row, params, i)

On(t, c, u, d) == <<Node("=", <<QCol(t, c), QCol(u, d)>>)>>
Join(kind, t, as, on) == [kind |-> kind, table |-> t, as |-> as, on |-> on, using |-> {}]
Using(kind, t) == [Join(kind, t, t, <<>>) EXCEPT !.using = {"id"}]
From(t, as, joins) == [table |-> t, as |-> as, params |-> <<>>, joins |-> joins]

Kinds == {"inner", "left", "right", "full"}
Either == <<Node("or", <<Node("=", <<QCol("a", "id"), QCol("b", "ref")>>),
                         Node("<", <<QCol("a", "id"), QCol("b", "id")>>)>>)>>

\* `t.c = u.d AND t.c = ?`.
OnParam(t, c, u, d) == <<Node("and", <<On(t, c, u, d)[1], Node("=", <<QCol(t, c), Param>>)>>)>>

MCQueries ==
    {From("a", "a", <<Join(k, "b", "b", On("b", "ref", "a", "id"))>>) : k \in Kinds}
    \union {From("a", "a", <<Join(k, "b", "b", Either)>>) : k \in Kinds}
    \union {From("a", "x", <<Join("inner", "a", "y", On("x", "id", "y", "id"))>>),
            From("a", "a", <<Join("inner", "b", "b", <<>>)>>)}
    \union {From("a", "a", <<Join(k, "b", "b", On("a", "id", "b", "ref")),
                             Join(l, "c", "c", On("b", "id", "c", "ref"))>>)
               : k \in Kinds, l \in Kinds}
    \union {From("a", "a", <<Using(k, "b")>>) : k \in Kinds}
    \union {From("a", "a", <<Using("inner", "b"), Using("inner", "c")>>)}
    \union {[From("a", "a", <<Join("left", "b", "b", OnParam("b", "ref", "a", "id")),
                              Join(k, "c", "c", OnParam("c", "ref", "b", "id"))>>)
               EXCEPT !.params = <<Integer(1), Integer(2)>>] : k \in Kinds}
=============================================================================
