--------------------------- MODULE MCRelayMachine ---------------------------
(* A small instance of RelayMachine: MCRelayMachine.cfg gives the sets.    *)
EXTENDS RelayMachine
=============================================================================
