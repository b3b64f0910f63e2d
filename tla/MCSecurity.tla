----------------------------- MODULE MCSecurity -----------------------------
(* Small instances of Security for TLC. *)
EXTENDS Security, TLC

CONSTANTS r1, r2, r3, r4

Symmetry == Permutations(Request)
=============================================================================
