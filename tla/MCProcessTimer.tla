---------------------------- MODULE MCProcessTimer ----------------------------
(* A small instance of ProcessTimer for TLC. *)
EXTENDS ProcessTimer

CONSTANTS t1, t2, t3

Symmetry == Permutations(PTimer)
=============================================================================
