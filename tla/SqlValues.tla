----------------------------- MODULE SqlValues -----------------------------
(***************************************************************************)
(* The values of a column and what SQL does with them: Value and compare   *)
(* of schema.rs, truthy and the arithmetic of expr.rs.                     *)
(*                                                                         *)
(* An f64 is the number of its halves, which is enough to have reals that  *)
(* equal an integer and reals between two of them.  What matters of its    *)
(* 53 bits is kept: integers up to Exact have an f64 of their own, beyond  *)
(* it an odd integer takes that of a neighbour.  Texts and blobs are       *)
(* numbered in their order, the empty one is 0.                            *)
(***************************************************************************)
EXTENDS Integers

CONSTANT Exact    \* 2^53: every integer up to it is an f64

ASSUME ExactAssumption == Exact \in Nat

Null == [type |-> "null", of |-> 0]
NaN  == [type |-> "nan", of |-> 0]
MinusZero == [type |-> "minus zero", of |-> 0]
Integer(i) == [type |-> "integer", of |-> i]
Real(h)    == [type |-> "real", of |-> h]
Text(n)    == [type |-> "text", of |-> n]
Blob(n)    == [type |-> "blob", of |-> n]

Types == {"null", "integer", "real", "minus zero", "nan", "text", "blob"}
Value == [type : Types, of : Int]

-----------------------------------------------------------------------------
(* schema.rs *)

Sign(n) == IF n < 0 THEN -1 ELSE IF n > 0 THEN 1 ELSE 0

\* `i as f64`, in halves: a tie goes to the even mantissa.  Right up to twice
\* Exact.
AsF64(i) ==
    2 * (IF -Exact <= i /\ i <= Exact THEN i
         ELSE CASE i % 4 = 1 -> i - 1 [] i % 4 = 3 -> i + 1 [] OTHER -> i)

Halves(v) == IF v.type = "integer" THEN AsF64(v.of) ELSE v.of

Numeric(v) == v.type \in {"integer", "real", "minus zero", "nan"}

TypeRank(v) == CASE v.type = "null" -> 0
                 [] Numeric(v)      -> 1
                 [] v.type = "text" -> 2
                 [] OTHER           -> 3

\* Less is -1, Equal 0, Greater 1.  A NaN is Equal to every number.
Compare(a, b) ==
    IF TypeRank(a) # TypeRank(b) THEN Sign(TypeRank(a) - TypeRank(b))
    ELSE CASE a.type = "nan" \/ b.type = "nan"         -> 0
           [] a.type = "integer" /\ b.type = "integer" -> Sign(a.of - b.of)
           [] OTHER -> Sign(Halves(a) - Halves(b))

\* The derived PartialEq, which `=`, IN and NULLIF use: an integer is never
\* equal to a real, a NaN not even to itself, 0.0 equals -0.0 and NULL NULL.
Same(a, b) == \/ a = b /\ a.type # "nan"
              \/ {a, b} = {Real(0), MinusZero}

-----------------------------------------------------------------------------
(* expr.rs *)

Truthy(v) == v.type = "nan" \/ (v.type # "null" /\ v.of # 0)

BoolVal(b) == Integer(IF b THEN 1 ELSE 0)

\* numeric_result for a sum of two numbers, computed as f64 even when both are
\* integers.
NumericResult(halves, bothInt) ==
    IF bothInt /\ halves % 2 = 0 THEN Integer(AsF64(halves \div 2) \div 2)
                                 ELSE Real(halves)

Plus(a, b) ==
    IF ~Numeric(a) \/ ~Numeric(b) THEN Null
    ELSE CASE a.type = "nan" \/ b.type = "nan" -> NaN
           [] a = MinusZero /\ b = MinusZero   -> MinusZero
           [] OTHER -> NumericResult(Halves(a) + Halves(b),
                                     a.type = "integer" /\ b.type = "integer")
=============================================================================
