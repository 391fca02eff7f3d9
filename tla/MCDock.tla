------------------------------- MODULE MCDock -------------------------------
(* Instances: replies that overtake each other with restarts of the relay  *)
(* and an operator who switches scenes; streams, checks and questions.     *)
EXTENDS Dock

Budget(starts, streams, clicks, switches, foreign, overlap, hasty, delayed) ==
    [starts |-> starts, streams |-> streams, clicks |-> clicks, switches |-> switches,
     foreign |-> foreign, overlap |-> overlap, hasty |-> hasty,
     delayed |-> delayed]

MCBudgets ==
    {Budget(2, 1, 0, 0, 0, 1, 0, TRUE),     \* the relay restarts
     Budget(1, 2, 0, 0, 0, 1, 0, TRUE),     \* a second stream
     Budget(1, 1, 1, 0, 0, 1, 0, TRUE),     \* a click: return or dump
     Budget(1, 1, 1, 0, 0, 1, 0, FALSE),    \* a click: enable
     Budget(1, 1, 0, 1, 0, 1, 0, TRUE),     \* the operator switches scenes
     Budget(1, 1, 0, 0, 1, 1, 0, TRUE),     \* a stranger, a fatal error
     Budget(1, 1, 0, 0, 0, 2, 0, TRUE),     \* replies overtake each other
     Budget(1, 1, 0, 0, 0, 1, 1, TRUE)}     \* two changes in a millisecond
=============================================================================
