----------------------------- MODULE RelayLife -----------------------------
(***************************************************************************)
(* What the plugin promises of the relay it supervises (relay-process.hpp):*)
(* a relay that is up was started with a token of its own, a relay that is *)
(* being stopped is followed by the start that was asked for, and nothing  *)
(* but its end takes a relay from Running.  RelayProcess implements it.    *)
(* Starting is left out: RelayProcess enters and leaves it in one call.    *)
(***************************************************************************)
EXTENDS Naturals

VARIABLES
    life,      \* RelayProcessState as the dock is told of it
    session    \* how many session tokens have been made

lvars == <<life, session>>

Down == {"Idle", "Crashed", "FailedToStart"}
Life == Down \cup {"Running", "Stopping"}

Init == life = "Idle" /\ session = 0

(* A start reaches Running with a fresh token or fails, with or without.   *)
Start ==
    /\ life \in Down \cup {"Stopping"}
    /\ \/ life' = "Running" /\ session' = session + 1
       \/ life' = "FailedToStart" /\ session' \in {session, session + 1}

Stop == life = "Running" /\ life' = "Stopping" /\ UNCHANGED session

Die == life = "Running" /\ life' = "Crashed" /\ UNCHANGED session

(* OBS ends, or the plugin is unloaded: supervision begins anew.           *)
Forget == life' = "Idle" /\ UNCHANGED session

Next == Start \/ Stop \/ Die \/ Forget

Spec == Init /\ [][Next]_lvars
=============================================================================
