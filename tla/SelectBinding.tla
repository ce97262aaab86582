--------------------------- MODULE SelectBinding ---------------------------
(***************************************************************************)
(* Which parameter a placeholder reads: properties of Select with the      *)
(* evaluators of expr.rs, read from the text of a statement.               *)
(***************************************************************************)
EXTENDS Select, Evaluators

\* The k-th placeholder of a WHERE is the k-th parameter, when what the
\* evaluator may skip stands at the end of a chain of ANDs or of ORs
\* (sql/select.rs:843).
Binds(where, params) ==
    \A e \in ToSet(where), id \in Live :
        EvalWhere(e, table[id], params, 0).holds
        = EvalWhere(Bind(e, params, 0), table[id], <<>>, 0).holds

WhereBindsInOrder ==
    /\ asked.kind \in {"select", "delete"}
    /\ \A e \in ToSet(Asked.where) : Chain(e, "and") \/ Chain(e, "or")
    => Binds(Asked.where, Asked.params)

\* UPDATE reads one flat list of parameters: the assignments' placeholders
\* first, then those of WHERE (sql/dml.rs:147).  What it changes is what the
\* statement with the parameters written into its text would change.
BoundUpdate(s) ==
    LET offset(k) == SumFunction([j \in 1 .. k - 1 |-> CountPlaceholders(s.set[j].expr)])
        set == [k \in DOMAIN s.set |->
                   [s.set[k] EXCEPT !.expr = Bind(@, s.params, offset(k))]]
        all == offset(Len(s.set) + 1)
    IN [set |-> set, params |-> <<>>,
        where |-> [k \in DOMAIN s.where |-> Bind(s.where[k], s.params, all)]]

UpdateBindsInOrder ==
    [][asked'.kind = "update" =>
        LET s == asked'.what
            b == BoundUpdate(s)
        IN /\ \A k \in DOMAIN s.set : Steady(s.set[k].expr)
           /\ \A e \in ToSet(s.where) : Chain(e, "and") \/ Chain(e, "or")
           => table' = [id \in Live |->
                           IF id \in Chosen(b.where, <<>>, 0) THEN SetRow(b, table[id])
                                                              ELSE table[id]]]_vars

\* WHERE has an evaluator of its own beside the one for values; on an
\* expression without placeholders they agree (expr.rs:8).
EvaluatorsAgree ==
    asked.kind \in {"select", "delete"} =>
        \A e \in ToSet(Asked.where), id \in Live :
            LET text == Bind(e, Asked.params, 0)
            IN EvalWhere(text, table[id], <<>>, 0).holds
               = Truthy(Eval(text, table[id], <<>>, 0).val)
=============================================================================
