------------------------- MODULE MCRelayEventSocket -------------------------
(* One connection at a time, three responses or frames under way.          *)
EXTENDS RelayEventSocket
=============================================================================
