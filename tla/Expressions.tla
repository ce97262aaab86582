---------------------------- MODULE Expressions ----------------------------
(***************************************************************************)
(* The expressions of expr.rs, what a row gives for a name, and the        *)
(* operators that evaluate all their arguments.  Evaluators has the rest.  *)
(*                                                                         *)
(* An expression is a node with an operator and arguments; a leaf carries a *)
(* column's name or a literal.  What the evaluators thread through is the  *)
(* number of placeholders they have passed, param_idx: an evaluation gives *)
(* a value and the next index.                                             *)
(***************************************************************************)
EXTENDS SqlValues, Sequences

Col(name)      == [op |-> "col", name |-> name]
QCol(t, name)  == [op |-> "qcol", table |-> t, name |-> name]
Lit(v)         == [op |-> "lit", val |-> v]
Param          == [op |-> "?"]
Node(op, args) == [op |-> op, args |-> args]

\* case: <<condition, result, ..., condition, result, else>>, and with an
\* operand the same behind it; in: the value, then the list.
Args(e) == IF e.op \in {"col", "qcol", "lit", "?"} THEN <<>> ELSE e.args

\* lookup_column: a name the row does not have reads as NULL.
Lookup(row, name) == IF name \in DOMAIN row THEN row[name] ELSE Null

\* t.name, and name alone when the row does not have that.
Qualified(t, name) == t \o "." \o name
LookupQualified(row, t, name) ==
    Lookup(row, IF Qualified(t, name) \in DOMAIN row THEN Qualified(t, name) ELSE name)

\* What an evaluation gives, and what that of a condition gives.
At(v, i) == [val |-> v, next |-> i]
Known(b, i) == [holds |-> b, next |-> i]

-----------------------------------------------------------------------------
(* What `filter` and `retain` make of a list: its elements at the positions K, *)
(* in their order.                                                             *)

Picked(list, K) ==
    LET upTo[n \in 0 .. Len(list)] ==
            IF n = 0 THEN <<>>
            ELSE IF n \in K THEN Append(upTo[n - 1], list[n]) ELSE upTo[n - 1]
    IN upTo[Len(list)]

-----------------------------------------------------------------------------
(* Operators that evaluate every argument, left to right. *)

InRange(v, lo, hi) == Compare(v, lo) # -1 /\ Compare(v, hi) # 1

Apply(op, v) ==
    CASE op = "="       -> BoolVal(Same(v[1], v[2]))
      [] op = "<>"      -> BoolVal(~Same(v[1], v[2]))
      [] op = "<"       -> BoolVal(Compare(v[1], v[2]) = -1)
      [] op = "<="      -> BoolVal(Compare(v[1], v[2]) # 1)
      [] op = ">"       -> BoolVal(Compare(v[1], v[2]) = 1)
      [] op = ">="      -> BoolVal(Compare(v[1], v[2]) # -1)
      [] op = "+"       -> Plus(v[1], v[2])
      [] op = "not"     -> BoolVal(~Truthy(v[1]))
      [] op = "isnull"  -> BoolVal(v[1] = Null)
      [] op = "between" -> BoolVal(InRange(v[1], v[2], v[3]))
      [] op = "nullif"  -> IF Same(v[1], v[2]) THEN Null ELSE v[1]
      [] op = "ifnull"  -> IF v[1] = Null THEN v[2] ELSE v[1]
      [] op = "or"      -> BoolVal(Truthy(v[1]) \/ Truthy(v[2]))
      [] OTHER          -> Null    \* an aggregate outside GROUP BY, among others
=============================================================================
