----------------------------- MODULE Evaluators -----------------------------
(***************************************************************************)
(* The scalar evaluator of expr.rs, count_placeholders, and the WHERE      *)
(* evaluator of sql/select.rs: what Select and Joins take as constants.    *)
(***************************************************************************)
EXTENDS Expressions

RECURSIVE Eval(_, _, _, _), EvalAll(_, _, _, _)
RECURSIVE EvalIn(_, _, _, _, _), EvalCase(_, _, _, _, _)

\* The values of all arguments, the index handed from one to the next.
EvalAll(args, row, params, i) ==
    IF args = <<>> THEN [vals |-> <<>>, next |-> i]
    ELSE LET first == Eval(Head(args), row, params, i)
             rest  == EvalAll(Tail(args), row, params, first.next)
         IN [vals |-> <<first.val>> \o rest.vals, next |-> rest.next]

\* `any` stops at the first item equal to v.
EvalIn(v, list, row, params, i) ==
    IF list = <<>> THEN At(BoolVal(FALSE), i)
    ELSE LET item == Eval(Head(list), row, params, i)
         IN IF Same(item.val, v) THEN At(BoolVal(TRUE), item.next)
            ELSE EvalIn(v, Tail(list), row, params, item.next)

\* An arm that is not taken is not evaluated; the operand is evaluated again
\* for every condition.
EvalCase(operand, arms, row, params, i) ==
    IF Len(arms) = 1 THEN Eval(arms[1], row, params, i)
    ELSE LET against == EvalAll(operand, row, params, i)
             cond    == Eval(arms[1], row, params, against.next)
             taken   == IF operand = <<>> THEN Truthy(cond.val)
                                          ELSE Same(against.vals[1], cond.val)
         IN IF taken THEN Eval(arms[2], row, params, cond.next)
            ELSE EvalCase(operand, SubSeq(arms, 3, Len(arms)), row, params, cond.next)

\* AND leaves its right side alone when the left is false; OR evaluates both.
Eval(e, row, params, i) ==
    CASE e.op = "col"  -> At(Lookup(row, e.name), i)
      [] e.op = "qcol" -> At(LookupQualified(row, e.table, e.name), i)
      [] e.op = "lit" -> At(e.val, i)
      [] e.op = "?"   -> At(IF i < Len(params) THEN params[i + 1] ELSE Null, i + 1)
      [] e.op = "and" ->
           LET left == Eval(e.args[1], row, params, i)
           IN IF ~Truthy(left.val) THEN At(BoolVal(FALSE), left.next)
              ELSE LET right == Eval(e.args[2], row, params, left.next)
                   IN At(BoolVal(Truthy(right.val)), right.next)
      [] e.op = "in"   ->
           LET v == Eval(e.args[1], row, params, i)
           IN EvalIn(v.val, Tail(e.args), row, params, v.next)
      [] e.op = "case"    -> EvalCase(<<>>, e.args, row, params, i)
      [] e.op = "case of" -> EvalCase(<<e.args[1]>>, Tail(e.args), row, params, i)
      [] OTHER ->
           LET all == EvalAll(e.args, row, params, i)
           IN At(Apply(e.op, all.vals), all.next)

-----------------------------------------------------------------------------
RECURSIVE CountPlaceholders(_), CountAll(_)
CountAll(args) ==
    IF args = <<>> THEN 0
    ELSE CountPlaceholders(Head(args)) + CountAll(Tail(args))

CountPlaceholders(e) == IF e.op = "?" THEN 1 ELSE CountAll(Args(e))

-----------------------------------------------------------------------------
(* sql/select.rs: evaluate_where_ctx, with AND, OR and NOT of its own, which *)
(* stop as soon as the answer is known.                                    *)

RECURSIVE EvalWhere(_, _, _, _)

\* Mutant: the right side reads the parameters of the left again.
EvalWhereRestart(e, row, params, i) ==
    CASE e.op \in {"and", "or"} ->
           LET left == EvalWhere(e.args[1], row, params, i)
           IN IF left.holds = (e.op = "or") THEN left
              ELSE EvalWhere(e.args[2], row, params, i)
      [] OTHER ->
           LET v == Eval(e, row, params, i) IN Known(Truthy(v.val), v.next)

\* Mutant: OR stops when its left side fails.
EvalWhereNoOr(e, row, params, i) ==
    CASE e.op \in {"and", "or"} ->
           LET left == EvalWhere(e.args[1], row, params, i)
           IN IF ~left.holds THEN left
              ELSE EvalWhere(e.args[2], row, params, left.next)
      [] e.op = "not" ->
           LET inner == EvalWhere(e.args[1], row, params, i)
           IN Known(~inner.holds, inner.next)
      [] OTHER ->
           LET v == Eval(e, row, params, i) IN Known(Truthy(v.val), v.next)

\* Mutant: a condition holds when it is not NULL.
EvalWhereNotNull(e, row, params, i) ==
    LET v == Eval(e, row, params, i) IN Known(v.val # Null, v.next)

EvalWhere(e, row, params, i) ==
    CASE e.op \in {"and", "or"} ->
           LET left == EvalWhere(e.args[1], row, params, i)
           IN IF left.holds = (e.op = "or") THEN left
              ELSE EvalWhere(e.args[2], row, params, left.next)
      [] e.op = "not" ->
           LET inner == EvalWhere(e.args[1], row, params, i)
           IN Known(~inner.holds, inner.next)
      [] OTHER ->
           LET v == Eval(e, row, params, i) IN Known(Truthy(v.val), v.next)

-----------------------------------------------------------------------------
(* What a placeholder should mean: the k-th one in the text is the k-th    *)
(* parameter.  Bind puts the parameters into the text.                     *)

RECURSIVE Bind(_, _, _), BindAll(_, _, _)
BindAll(args, params, i) ==
    IF args = <<>> THEN <<>>
    ELSE <<Bind(Head(args), params, i)>>
         \o BindAll(Tail(args), params, i + CountPlaceholders(Head(args)))

Bind(e, params, i) ==
    CASE e.op = "?" -> Lit(IF i < Len(params) THEN params[i + 1] ELSE Null)
      [] e.op \in {"col", "qcol", "lit"} -> e
      [] OTHER -> [e EXCEPT !.args = BindAll(@, params, i)]

\* No part that an evaluator may skip or repeat holds a placeholder.
RECURSIVE Steady(_)
Steady(e) ==
    LET args == Args(e)
        lazy == CASE e.op = "and"     -> {2}
                  [] e.op = "in"      -> 3 .. Len(args)
                  [] e.op = "case"    -> 2 .. Len(args)
                  [] e.op = "case of" -> DOMAIN args
                  [] OTHER            -> {}
    IN /\ \A k \in DOMAIN args : Steady(args[k])
       /\ \A k \in lazy : CountPlaceholders(args[k]) = 0

\* A chain of one connective over steady conditions: what it skips is its end.
RECURSIVE Chain(_, _)
Chain(e, op) ==
    IF e.op = op THEN Chain(e.args[1], op) /\ Steady(e.args[2])
    ELSE e.op \notin {"and", "or", "not"} /\ Steady(e)

\* No column occurs in e.
RECURSIVE ReadsNoColumn(_)
ReadsNoColumn(e) ==
    e.op \notin {"col", "qcol"} /\ \A k \in DOMAIN Args(e) : ReadsNoColumn(Args(e)[k])
=============================================================================
