----------------------------- MODULE MCRestore -----------------------------
(* Small instances of Restore for TLC. *)
EXTENDS Restore, TLC

CONSTANTS k1, k2

Symmetry == Permutations(Key)
=============================================================================
