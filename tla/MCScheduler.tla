----------------------------- MODULE MCScheduler -----------------------------
(* Small instances of Scheduler for TLC. *)
EXTENDS Scheduler

CONSTANTS p1, p2, p3

Symmetry == Permutations(Proc)
=============================================================================
