----------------------------- MODULE MCCatalog -----------------------------
(* Two table names and two columns.  Columns are told apart by CHOOSE, so    *)
(* only the table names are symmetric.                                      *)
EXTENDS Catalog, TLC

Names == Permutations(Table)

=============================================================================
