---------------------------- MODULE MCTxnEngine ----------------------------
(* Small instances of TxnEngine for TLC. *)
EXTENDS TxnEngine, TLC

CONSTANTS A, B    \* two values of the column, next to NULL

Values == {A, B, Null}

\* SET c = v for a constant v, and the SET that exchanges the two values: it
\* meets its own statement's rows in the UNIQUE check.
ConstantSet(v) == [row \in Values |-> v]
SwapSet == [row \in Values |-> CASE row = A -> B [] row = B -> A [] OTHER -> row]
MCSetExprs == {ConstantSet(A), ConstantSet(B), ConstantSet(Null), SwapSet}

\* CHECK or NOT NULL rejects NULL.
NotNull == {A, B}

Symmetric == Permutations({A, B})
=============================================================================
