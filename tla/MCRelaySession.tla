--------------------------- MODULE MCRelaySession ---------------------------
(* Small instances of RelaySession.                                        *)
EXTENDS RelaySession, TLC

CONSTANTS c1, c2

OneConns == {c1}
TwoConns == {c1, c2}

OneConnCallers == OneConns \cup Pipes
TwoConnCallers == TwoConns \cup Pipes

Symmetry == Permutations(Ops)
=============================================================================
