------------------------------ MODULE MCMsgQueue ------------------------------
(* Small instances of MsgQueue for TLC. *)
EXTENDS MsgQueue

CONSTANTS m1, m2, m3, m4, red, blue

Colours == [m \in Msg |-> IF m \in {m1, m2} THEN red ELSE blue]
=============================================================================
