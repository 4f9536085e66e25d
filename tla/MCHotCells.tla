----------------------------- MODULE MCHotCells -----------------------------
(* An instance of HotCells for TLC: two cells, windows of two seconds, and *)
(* keys that live for two.                                                 *)
EXTENDS HotCells, TLC

CONSTANTS c1, c2, r1

Symmetry == Permutations({c1, c2})
=============================================================================
