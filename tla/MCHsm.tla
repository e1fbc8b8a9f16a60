-------------------------------- MODULE MCHsm --------------------------------
(* A small hierarchy for TLC: "on" lies in "up", "fast" and "slow" in "on". *)
EXTENDS Hsm, TLC

CONSTANTS off, up, on, fast, slow

Hierarchy == on :> up @@ fast :> on @@ slow :> on
Periods == 0 :> 1 @@ 1 :> 2 @@ 2 :> 4 @@ 3 :> 8 @@ 4 :> 16 @@ 5 :> 32
=============================================================================
