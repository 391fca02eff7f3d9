---------------------------- MODULE EngineStates ----------------------------
(***************************************************************************)
(* The states of the relay engine and its transition table                 *)
(* (internal/state/state.go, and canTransition and                         *)
(* syncConnectionFlagsLocked of internal/state/machine.go).                *)
(***************************************************************************)

State == {"STOPPED", "STARTING", "READY", "INGESTING", "REALTIME",
          "BUFFERING_TO_DELAY", "DELAYED", "RETURNING_TO_REALTIME",
          "DUMPING", "SAFE_HOLD", "ERROR"}

(* States in which a publishing session exists and both ends are up.       *)
Streaming == {"REALTIME", "BUFFERING_TO_DELAY", "DELAYED",
              "RETURNING_TO_REALTIME", "DUMPING"}

(* States from which DisconnectSession ends a session.                     *)
SessionStates == Streaming \cup {"INGESTING", "SAFE_HOLD", "ERROR"}

(* What the requests, the operations and the ingest server ask for.        *)
WorkTransitions ==
    {<<"STOPPED", "STARTING", "process_start">>,
     <<"STARTING", "READY", "api_ready">>,
     <<"READY", "INGESTING", "input_connected">>,
     <<"INGESTING", "REALTIME", "output_connected">>,
     <<"REALTIME", "BUFFERING_TO_DELAY", "enable_delay">>,
     <<"BUFFERING_TO_DELAY", "REALTIME", "enable_delay_aborted">>,
     <<"BUFFERING_TO_DELAY", "SAFE_HOLD", "buffering_show_safe_slate">>,
     <<"SAFE_HOLD", "DELAYED", "buffer_filled">>,
     <<"DELAYED", "RETURNING_TO_REALTIME", "return_live">>,
     <<"RETURNING_TO_REALTIME", "DELAYED", "return_live_aborted">>,
     <<"RETURNING_TO_REALTIME", "SAFE_HOLD", "returning_show_safe_slate">>,
     <<"SAFE_HOLD", "REALTIME", "return_live_complete">>,
     <<"DELAYED", "DUMPING", "dump_buffer">>,
     <<"DUMPING", "DELAYED", "dump_buffer_aborted">>,
     <<"DUMPING", "SAFE_HOLD", "dump_complete">>,
     <<"SAFE_HOLD", "REALTIME", "dump_resume_live">>,
     <<"REALTIME", "SAFE_HOLD", "safe_hold">>,
     <<"DELAYED", "SAFE_HOLD", "safe_hold">>,
     <<"SAFE_HOLD", "REALTIME", "resume_live">>,
     <<"SAFE_HOLD", "DELAYED", "resume_delayed">>}

(* Mutant: a session cannot be left from SAFE_HOLD.                        *)
Transitions_HoldStays ==
    WorkTransitions
      \cup {<<from, "READY", "session_stopped">> : from \in SessionStates \ {"SAFE_HOLD"}}
      \cup {<<from, "ERROR", "fatal_error">> : from \in State}

Transitions ==
    WorkTransitions
      \cup {<<from, "READY", "session_stopped">> : from \in SessionStates}
      \cup {<<from, "ERROR", "fatal_error">> : from \in State}

CanTransition(from, to, trigger) == <<from, to, trigger>> \in Transitions

(* The connection flags an entered state implies; SAFE_HOLD keeps them.    *)
InputFlag(to, before) ==
    IF to = "SAFE_HOLD" THEN before ELSE to \in Streaming \cup {"INGESTING"}

(* Mutant: SAFE_HOLD is forgotten among the states that keep the flag.     *)
OutputFlag_HoldClears(to, before) == to \in Streaming

OutputFlag(to, before) ==
    IF to = "SAFE_HOLD" THEN before ELSE to \in Streaming
=============================================================================
