---------------------------- MODULE MCRawRestart ----------------------------
(* Small instances of RawRestart for TLC. *)
EXTENDS RawRestart, TLC

Symmetric == Permutations(Key) \union Permutations(Value)
=============================================================================
