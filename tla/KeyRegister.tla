---------------------------- MODULE KeyRegister ----------------------------
(***************************************************************************)
(* What saving and reading the stream key promise (credential-store.hpp),  *)
(* whatever is behind it: a key saved while the store is reachable is the  *)
(* only one a later read may return; one saved in an outage may be         *)
(* shadowed by what the store holds; a save that fails adds nothing.       *)
(* CredentialStore implements it.                                          *)
(***************************************************************************)
CONSTANTS Keys, None    \* None is no key

VARIABLES
    held,        \* the keys that a read may return, now or after an outage
    answer,      \* what a read returns now
    reachable    \* whether the store of the system answers

kvars == <<held, answer, reachable>>

Answers(keys, up) == IF up /\ keys # {} THEN keys ELSE keys \cup {None}

Init ==
    /\ held \in {{}} \cup {{k} : k \in Keys} /\ reachable = TRUE
    /\ answer \in Answers(held, TRUE)

Save(k) ==
    /\ IF reachable THEN held' = {k} ELSE held' \in SUBSET (held \cup {k}) /\ k \in held'
    /\ answer' \in Answers(held', reachable)
    /\ UNCHANGED reachable

FailToSave ==
    /\ held' \in SUBSET held
    /\ answer' \in Answers(held', reachable)
    /\ UNCHANGED reachable

Outage ==
    /\ reachable' = ~reachable /\ UNCHANGED held
    /\ answer' \in Answers(held, reachable')

Next == (\E k \in Keys : Save(k)) \/ FailToSave \/ Outage

Spec == Init /\ [][Next]_kvars
=============================================================================
