---------------------------- MODULE MCSquareSync ----------------------------
(* Model values for checking SquareSync.                                   *)
EXTENDS SquareSync, TLC

Symmetry == Permutations(Payments) \union Permutations(Merchants)
=============================================================================
