------------------------------- MODULE MCLocker -------------------------------
(* A small instance of Locker for TLC. *)
EXTENDS Locker

CONSTANTS o1, o2
=============================================================================
