-------------------------- MODULE MCRelaySettings --------------------------
(* Two keys and collections, one URL, four events.                         *)
EXTENDS RelaySettings
=============================================================================
