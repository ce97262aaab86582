----------------------------- MODULE MCRawStore -----------------------------
(* Small instances of RawStore for TLC. *)
EXTENDS RawStore, TLC

Symmetric == Permutations(Key) \union Permutations(Value)
=============================================================================
