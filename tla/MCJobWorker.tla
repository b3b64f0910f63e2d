---------------------------- MODULE MCJobWorker ----------------------------
(* Small instances of JobWorker for TLC. *)
EXTENDS JobWorker, TLC

CONSTANTS j1, j2, w1, w2

Symmetry == Permutations(Job) \cup Permutations(WorkerId)
=============================================================================
