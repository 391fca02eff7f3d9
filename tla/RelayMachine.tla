---------------------------- MODULE RelayMachine ----------------------------
(***************************************************************************)
(* The relay engine's state machine (internal/state/machine.go).           *)
(*                                                                         *)
(* One Machine is shared by HTTP handlers that start operations, by the    *)
(* goroutine each accepted operation leaves behind, and by the goroutines  *)
(* of the ingest server that open, fail and end sessions.  Every section   *)
(* of the code that holds m.mu is one action; everything between two       *)
(* sections may interleave.                                                *)
(*                                                                         *)
(* A thread t \in Ops is one control request together with the goroutine   *)
(* it spawns: the handler returns when the goroutine starts and touches    *)
(* nothing more.  A thread c \in Callers is a goroutine of the ingest      *)
(* server.  What the forwarding coordinator answers is left open here      *)
(* (BeginOk or BeginFail, a Run* call that returns at any time);           *)
(* RelaySession closes it with the real coordinator.                       *)
(***************************************************************************)
EXTENDS Naturals, EngineStates

CONSTANTS Ops,       \* control requests and their goroutines
          Callers,   \* goroutines of the ingest server
          Targets,   \* delays a request may ask for, in seconds
          MaxEpoch   \* bound on the sessions that end

ASSUME MachineAssumption ==
    /\ Targets \subseteq Nat \ {0}
    /\ MaxEpoch \in Nat

VARIABLES
    state,               \* m.state
    inputConnected,      \* m.inputConnected
    outputConnected,     \* m.outputConnected
    transitionPending,   \* m.transitionPending
    transitionEpoch,     \* m.transitionEpoch
    targetDelaySeconds,  \* m.targetDelaySeconds
    slateMessage,        \* m.slateMessage # ""
    lastError,           \* m.lastError # ""
    pc,                  \* where an operation is
    kind,                \* which operation it is
    want,                \* the delay it asked for
    opEpoch,             \* the epoch its goroutine was given
    callerPc             \* where a caller is inside DisconnectSession or MarkError

status  == <<state, inputConnected, outputConnected>>
display == <<targetDelaySeconds, slateMessage, lastError>>
claim   == <<transitionPending, transitionEpoch>>
request == <<kind, want, opEpoch>>
mvars   == <<status, display, claim, pc, request, callerPc>>

Kind == {"enable_delay", "return_live", "dump_buffer"}

(* Where an operation is: enter..spawn and the two roll-back sections run  *)
(* in the HTTP handler, start..release in the goroutine.                   *)
HandlerLabel  == {"enter", "begin", "spawn", "drop"}
SequenceLabel == {"start", "drain", "drained", "hold", "held", "show",
                  "shown", "switch", "switched", "final"}
Label == HandlerLabel \cup SequenceLabel
           \cup {"idle", "undisplay", "release", "rollback", "holding"}

(* Labels at which a thread has still to call clearTransitionPending, and  *)
(* at which it has still to call clearOperatorDisplay.                     *)
OwesRelease == HandlerLabel \cup SequenceLabel \cup {"undisplay", "release"}
OwesDisplay == SequenceLabel \cup {"undisplay"}

TypeOK ==
    /\ state \in State
    /\ inputConnected \in BOOLEAN
    /\ outputConnected \in BOOLEAN
    /\ transitionPending \in BOOLEAN
    /\ transitionEpoch \in Nat
    /\ targetDelaySeconds \in Targets \cup {0}
    /\ slateMessage \in BOOLEAN
    /\ lastError \in BOOLEAN
    /\ pc \in [Ops -> Label]
    /\ kind \in [Ops -> Kind]
    /\ want \in [Ops -> Targets \cup {0}]
    /\ opEpoch \in [Ops -> Nat]
    /\ callerPc \in [Callers -> {"idle", "invalidate", "leave", "fail"}]

Init ==
    /\ state = "STOPPED"
    /\ inputConnected = FALSE
    /\ outputConnected = FALSE
    /\ transitionPending = FALSE
    /\ transitionEpoch = 0
    /\ targetDelaySeconds = 0
    /\ slateMessage = FALSE
    /\ lastError = FALSE
    /\ pc = [t \in Ops |-> "idle"]
    /\ kind = [t \in Ops |-> "enable_delay"]
    /\ want = [t \in Ops |-> 0]
    /\ opEpoch = [t \in Ops |-> 0]
    /\ callerPc = [c \in Callers |-> "idle"]
-----------------------------------------------------------------------------
(* apply: one lock section; a transition the table lacks changes nothing.  *)
Apply(to, trigger) ==
    /\ CanTransition(state, to, trigger)
    /\ state' = to
    /\ inputConnected' = InputFlag(to, inputConnected)
    /\ outputConnected' = OutputFlag(to, outputConnected)

Refused(to, trigger) ==
    /\ ~CanTransition(state, to, trigger)
    /\ UNCHANGED status

Goto(t, from, to) ==
    /\ pc[t] = from
    /\ pc' = [pc EXCEPT ![t] = to]

(* A thread that ends forgets its arguments: they were locals.             *)
End(t, from) ==
    /\ Goto(t, from, "idle")
    /\ kind' = [kind EXCEPT ![t] = "enable_delay"]
    /\ want' = [want EXCEPT ![t] = 0]
    /\ opEpoch' = [opEpoch EXCEPT ![t] = 0]

Return(c, from, to) ==
    /\ callerPc[c] = from
    /\ callerPc' = [callerPc EXCEPT ![c] = to]

(* What the three operations have in place of each other.                  *)
Source(k)  == IF k = "enable_delay" THEN "REALTIME" ELSE "DELAYED"
Working(k) == CASE k = "enable_delay" -> "BUFFERING_TO_DELAY"
                [] k = "return_live"  -> "RETURNING_TO_REALTIME"
                [] k = "dump_buffer"  -> "DUMPING"
Aborted(k) == CASE k = "enable_delay" -> "enable_delay_aborted"
                [] k = "return_live"  -> "return_live_aborted"
                [] k = "dump_buffer"  -> "dump_buffer_aborted"
Held(k)    == CASE k = "enable_delay" -> "buffering_show_safe_slate"
                [] k = "return_live"  -> "returning_show_safe_slate"
                [] k = "dump_buffer"  -> "dump_complete"
Goal(k)    == IF k = "enable_delay" THEN "DELAYED" ELSE "REALTIME"
Done(k)    == CASE k = "enable_delay" -> "buffer_filled"
                [] k = "return_live"  -> "return_live_complete"
                [] k = "dump_buffer"  -> "dump_resume_live"
-----------------------------------------------------------------------------
(* The control requests, up to the goroutine they start.                   *)

(* Mutant: the delay is kept in milliseconds.                              *)
Claim_Milliseconds(t, k, d) ==
    /\ pc[t] = "idle"
    /\ ~transitionPending
    /\ state = Source(k)
    /\ transitionPending' = TRUE
    /\ targetDelaySeconds' = IF k = "enable_delay" THEN 1000 * d ELSE targetDelaySeconds
    /\ pc' = [pc EXCEPT ![t] = "enter"]
    /\ kind' = [kind EXCEPT ![t] = k]
    /\ want' = [want EXCEPT ![t] = IF k = "enable_delay" THEN d ELSE 0]
    /\ UNCHANGED <<status, slateMessage, lastError, transitionEpoch, opEpoch, callerPc>>

(* The guarded first section of EnableDelay, ReturnLive and DumpBuffer;    *)
(* the metrics EnableDelay resets there are display data and left out.     *)
Claim(t, k, d) ==
    /\ pc[t] = "idle"
    /\ ~transitionPending
    /\ state = Source(k)
    /\ transitionPending' = TRUE
    /\ targetDelaySeconds' = IF k = "enable_delay" THEN d ELSE targetDelaySeconds
    /\ pc' = [pc EXCEPT ![t] = "enter"]
    /\ kind' = [kind EXCEPT ![t] = k]
    /\ want' = [want EXCEPT ![t] = IF k = "enable_delay" THEN d ELSE 0]
    /\ UNCHANGED <<status, slateMessage, lastError, transitionEpoch, opEpoch, callerPc>>

(* Mutant: the request is refused and its claim is left behind.            *)
Enter_LeavesClaim(t) ==
    /\ \/ /\ Apply(Working(kind[t]), kind[t])
          /\ Goto(t, "enter", "begin")
       \/ /\ Refused(Working(kind[t]), kind[t])
          /\ Goto(t, "enter", "idle")
    /\ UNCHANGED <<display, claim, request, callerPc>>

Enter(t) ==
    /\ \/ /\ Apply(Working(kind[t]), kind[t])
          /\ Goto(t, "enter", "begin")
       \/ /\ Refused(Working(kind[t]), kind[t])
          /\ Goto(t, "enter", "release")
    /\ UNCHANGED <<display, claim, request, callerPc>>

(* The coordinator's Begin* call and its answer; EnableDelay's sets the    *)
(* target again (SetFixedDelayTarget) on its way.                          *)
BeginSetsTarget(t) ==
    /\ pc[t] = "begin"
    /\ kind[t] = "enable_delay"
    /\ targetDelaySeconds' = want[t]
    /\ UNCHANGED <<status, slateMessage, lastError, claim, pc, request, callerPc>>

BeginOk(t) ==
    /\ Goto(t, "begin", "spawn")
    /\ UNCHANGED <<status, display, claim, request, callerPc>>

BeginFail(t) ==
    /\ Goto(t, "begin", "drop")
    /\ UNCHANGED <<status, display, claim, request, callerPc>>

(* An aborted operation gives the claim back, then steps the state back.   *)
Drop(t) ==
    /\ Goto(t, "drop", "rollback")
    /\ transitionPending' = FALSE
    /\ UNCHANGED <<status, display, transitionEpoch, request, callerPc>>

(* Mutant: an aborted operation does not step the state back.              *)
Rollback_Forgotten(t) ==
    /\ End(t, "rollback")
    /\ UNCHANGED <<status, display, claim, callerPc>>

Rollback(t) ==
    /\ End(t, "rollback")
    /\ \/ Apply(Source(kind[t]), Aborted(kind[t]))
       \/ Refused(Source(kind[t]), Aborted(kind[t]))
    /\ UNCHANGED <<display, claim, callerPc>>

(* Mutant: the handler, not the goroutine, defers clearTransitionPending.  *)
Spawn_Releases(t) ==
    /\ Goto(t, "spawn", "start")
    /\ opEpoch' = [opEpoch EXCEPT ![t] = transitionEpoch]
    /\ transitionPending' = FALSE
    /\ UNCHANGED <<status, display, transitionEpoch, kind, want, callerPc>>

Spawn(t) ==
    /\ Goto(t, "spawn", "start")
    /\ opEpoch' = [opEpoch EXCEPT ![t] = transitionEpoch]
    /\ UNCHANGED <<status, display, claim, kind, want, callerPc>>

(* SafeHold checks in one section and applies in another, with no claim.   *)
SafeHoldCheck(t) ==
    /\ ~transitionPending
    /\ state \in {"REALTIME", "DELAYED"}
    /\ Goto(t, "idle", "holding")
    /\ UNCHANGED <<status, display, claim, request, callerPc>>

SafeHoldApply(t) ==
    /\ Goto(t, "holding", "idle")
    /\ \/ Apply("SAFE_HOLD", "safe_hold")
       \/ Refused("SAFE_HOLD", "safe_hold")
    /\ UNCHANGED <<display, claim, request, callerPc>>
-----------------------------------------------------------------------------
(* The goroutine: run{EnableDelay,ReturnLive,DumpBuffer}Sequence.  Two     *)
(* epoch checks with nothing but a sleep between them are one check here:  *)
(* an epoch never returns, so the second decides.                          *)
Checks == {"start", "drained", "held", "shown", "switched"}

AfterCheck(k, l) ==
    CASE l = "start"    -> IF k = "return_live" THEN "drain" ELSE "hold"
      [] l = "drained"  -> "hold"
      [] l = "held"     -> "show"
      [] l = "shown"    -> "switch"
      [] l = "switched" -> "final"

Active(t) == opEpoch[t] = transitionEpoch

(* Mutants: a goroutine that does not look at the epoch, and one that      *)
(* leaves without clearOperatorDisplay when the epoch is not its own.      *)
Check_Blind(t) ==
    /\ pc[t] \in Checks
    /\ Goto(t, pc[t], AfterCheck(kind[t], pc[t]))
    /\ UNCHANGED <<status, display, claim, request, callerPc>>

Check_LeavesDisplay(t) ==
    /\ pc[t] \in Checks
    /\ Goto(t, pc[t], IF Active(t) THEN AfterCheck(kind[t], pc[t]) ELSE "release")
    /\ UNCHANGED <<status, display, claim, request, callerPc>>

Check(t) ==
    /\ pc[t] \in Checks
    /\ Goto(t, pc[t], IF Active(t) THEN AfterCheck(kind[t], pc[t]) ELSE "undisplay")
    /\ UNCHANGED <<status, display, claim, request, callerPc>>

Hold(t) ==
    /\ \/ /\ Apply("SAFE_HOLD", Held(kind[t]))
          /\ Goto(t, "hold", IF kind[t] = "enable_delay" THEN "show" ELSE "held")
       \/ /\ Refused("SAFE_HOLD", Held(kind[t]))
          /\ Goto(t, "hold", "undisplay")
    /\ UNCHANGED <<display, claim, request, callerPc>>

(* The coordinator's Run* calls: fill, drain or timed slate.  They call    *)
(* publishOperatorDisplay with a message or with none, and then return.    *)
Publish(t, message) ==
    /\ pc[t] \in {"drain", "show"}
    /\ slateMessage' = message
    /\ UNCHANGED <<status, targetDelaySeconds, lastError, claim, pc, request, callerPc>>

RunReturns(t) ==
    /\ pc[t] \in {"drain", "show"}
    /\ Goto(t, pc[t], IF pc[t] = "drain" THEN "drained" ELSE "shown")
    /\ UNCHANGED <<status, display, claim, request, callerPc>>

(* Mutant: CompleteEnableDelay resets the target as ResumePassthrough does. *)
Switch_Resets(t, live) ==
    /\ Goto(t, "switch", "switched")
    /\ targetDelaySeconds' = IF live THEN 0 ELSE targetDelaySeconds
    /\ UNCHANGED <<status, slateMessage, lastError, claim, request, callerPc>>

(* CompleteEnableDelay or ResumePassthrough; the latter resets the target, *)
(* unless there is no pipeline to resume.                                  *)
Switch(t, live) ==
    /\ Goto(t, "switch", "switched")
    /\ targetDelaySeconds' =
          IF live /\ kind[t] # "enable_delay" THEN 0 ELSE targetDelaySeconds
    /\ UNCHANGED <<status, slateMessage, lastError, claim, request, callerPc>>

Finish(t) ==
    /\ Goto(t, "final", "undisplay")
    /\ \/ Apply(Goal(kind[t]), Done(kind[t]))
       \/ Refused(Goal(kind[t]), Done(kind[t]))
    /\ UNCHANGED <<display, claim, request, callerPc>>

(* The deferred calls, which run on every way out of the goroutine.        *)
Undisplay(t) ==
    /\ Goto(t, "undisplay", "release")
    /\ slateMessage' = FALSE
    /\ UNCHANGED <<status, targetDelaySeconds, lastError, claim, request, callerPc>>

(* Mutant: a goroutine that ends without clearTransitionPending.           *)
Release_Forgotten(t) ==
    /\ End(t, "release")
    /\ UNCHANGED <<status, display, claim, callerPc>>

Release(t) ==
    /\ End(t, "release")
    /\ transitionPending' = FALSE
    /\ UNCHANGED <<status, display, transitionEpoch, callerPc>>
-----------------------------------------------------------------------------
(* Start and MarkReady, called by main before any server runs.             *)
Boot ==
    /\ \/ Apply("STARTING", "process_start")
       \/ Apply("READY", "api_ready")
    /\ UNCHANGED <<display, claim, pc, request, callerPc>>

SetFixedDelayTarget(c, d) ==
    /\ callerPc[c] = "idle"
    /\ targetDelaySeconds' = d
    /\ UNCHANGED <<status, slateMessage, lastError, claim, pc, request, callerPc>>

PrepareNewSession(c) ==
    /\ callerPc[c] = "idle"
    /\ targetDelaySeconds' = 0
    /\ lastError' = FALSE
    /\ UNCHANGED <<status, slateMessage, claim, pc, request, callerPc>>

ConnectInput(c) ==
    /\ callerPc[c] = "idle"
    /\ Apply("INGESTING", "input_connected")
    /\ UNCHANGED <<display, claim, pc, request, callerPc>>

ConnectOutput(c) ==
    /\ callerPc[c] = "idle"
    /\ Apply("REALTIME", "output_connected")
    /\ UNCHANGED <<display, claim, pc, request, callerPc>>

(* MarkError: the message in one section, the state in the next.           *)
MarkError(c) ==
    /\ Return(c, "idle", "fail")
    /\ lastError' = TRUE
    /\ UNCHANGED <<status, targetDelaySeconds, slateMessage, claim, pc, request>>

Fail(c) ==
    /\ Return(c, "fail", "idle")
    /\ Apply("ERROR", "fatal_error")
    /\ UNCHANGED <<display, claim, pc, request>>

(* DisconnectSession: read the state, invalidate, leave for READY.         *)
Disconnect(c) ==
    /\ state \in SessionStates
    /\ transitionEpoch < MaxEpoch
    /\ Return(c, "idle", "invalidate")
    /\ UNCHANGED <<status, display, claim, pc, request>>

Invalidate(c) ==
    /\ Return(c, "invalidate", "leave")
    /\ transitionEpoch' = transitionEpoch + 1
    /\ transitionPending' = FALSE
    /\ slateMessage' = FALSE
    /\ UNCHANGED <<status, targetDelaySeconds, lastError, pc, request>>

Leave(c) ==
    /\ Return(c, "leave", "idle")
    /\ \/ Apply("READY", "session_stopped")
       \/ Refused("READY", "session_stopped")
    /\ UNCHANGED <<display, claim, pc, request>>
-----------------------------------------------------------------------------
(* The machine by itself: any caller may call any method at any time.      *)
Work(t) ==
    \/ Enter(t) \/ BeginOk(t) \/ BeginFail(t)
    \/ Drop(t) \/ Rollback(t) \/ Spawn(t)
    \/ SafeHoldApply(t)
    \/ Check(t) \/ Hold(t) \/ RunReturns(t) \/ Finish(t)
    \/ \E live \in BOOLEAN : Switch(t, live)
    \/ Undisplay(t) \/ Release(t)

Ask(t) ==
    \/ \E k \in Kind, d \in Targets : Claim(t, k, d)
    \/ SafeHoldCheck(t)

Report(t) == BeginSetsTarget(t) \/ \E message \in BOOLEAN : Publish(t, message)

Call(c) ==
    \/ PrepareNewSession(c) \/ ConnectInput(c) \/ ConnectOutput(c)
    \/ MarkError(c) \/ Disconnect(c)
    \/ \E d \in Targets : SetFixedDelayTarget(c, d)

InCall(c) == Fail(c) \/ Invalidate(c) \/ Leave(c)

Next ==
    \/ Boot
    \/ \E t \in Ops : Ask(t) \/ Work(t) \/ Report(t)
    \/ \E c \in Callers : Call(c) \/ InCall(c)

Spec == Init /\ [][Next]_mvars

(* A goroutine that can run does run, and the Run* calls return: the fill  *)
(* and the drain because media keeps arriving, the slate after 3 seconds.  *)
Fairness ==
    /\ \A t \in Ops : WF_mvars(Work(t))
    /\ \A c \in Callers : WF_mvars(InCall(c))

FairSpec == Spec /\ Fairness
-----------------------------------------------------------------------------
(* In every state but SAFE_HOLD the connection flags follow from the       *)
(* state; SAFE_HOLD "keeps the last known flags" (machine.go:604-605), and *)
(* whatever raced to get there those are both up.                          *)
ConnectionFlags ==
    /\ inputConnected = (state \in Streaming \cup {"INGESTING", "SAFE_HOLD"})
    /\ outputConnected = (state \in Streaming \cup {"SAFE_HOLD"})

(* Whenever the API answers "another transition is already in progress"    *)
(* some operation is still on its way to clearTransitionPending: the claim *)
(* is never left behind, whichever way the operation and the session end.  *)
NoOrphanPending == transitionPending => \E t \in Ops : pc[t] \in OwesRelease

(* A slate message is shown only while some goroutine is still on its way  *)
(* to clearOperatorDisplay: no message outlives the operations.            *)
NoOrphanSlate == slateMessage => \E t \in Ops : pc[t] \in OwesDisplay

(* The API never stays locked: a pending transition ends, also when its    *)
(* session is disconnected, fails or is replaced in the middle of it.      *)
PendingEnds == transitionPending ~> ~transitionPending

(* The engine never stays in the working state of an operation: it reaches *)
(* the slate, or is rolled back, or the session ends.                      *)
WorkEnds ==
    state \in {Working(k) : k \in Kind} ~> state \notin {Working(k) : k \in Kind}
=============================================================================
