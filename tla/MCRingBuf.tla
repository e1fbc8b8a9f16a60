------------------------------ MODULE MCRingBuf ------------------------------
(* A small instance of RingBuf for TLC. *)
EXTENDS RingBuf

CONSTANTS x, y
=============================================================================
