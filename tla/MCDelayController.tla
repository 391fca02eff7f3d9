------------------------- MODULE MCDelayController -------------------------
(* Instances of DelayController for TLC.                                   *)
EXTENDS DelayController
=============================================================================
