-------------------------------- MODULE MCCba --------------------------------
(* Small instances of Cba for TLC. *)
EXTENDS Cba
=============================================================================
