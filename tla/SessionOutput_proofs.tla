------------------------- MODULE SessionOutput_proofs -------------------------
(***************************************************************************)
(* What the status reports of a session and what its output does, in every *)
(* run of RelaySession in which OBS is the only publisher and a session's  *)
(* goroutines are gone when the platform accepts the next (~Lingering);    *)
(* for the policy itself also in which nobody but OBS connects, since any  *)
(* connection that closes clears the pipeline of the one that publishes.   *)
(***************************************************************************)
EXTENDS RelaySession_proofs

(* Every step of an operation, as the machine sees it.                     *)
OpSteps(t) == (Ask(t) /\ UNCHANGED <<handler, Engine>>) \/ OpStep(t) \/ RunPublish(t)

(* Every step of a connection's handler.                                   *)
ConnSteps(h) ==
    \/ Connect(h) \/ OnPublish(h) \/ OnUnpublish(h) \/ OnClose(h)
    \/ HandlerStep(h) \/ MediaError(h)

(* What the machine's own sections leave alone: the coordinator, the       *)
(* policies, and where the calls of the operations are.                    *)
Sections == <<coordinator, policy, opCall>>

LEMMA AllSteps ==
    ASSUME [SessionNext]_svars
    PROVE  \/ Boot /\ UNCHANGED <<handler, Engine>>
           \/ \E t \in Ops : OpSteps(t)
           \/ \E h \in Conns : ConnSteps(h)
           \/ \E c \in Callers : (MarkError(c) \/ Fail(c)) /\ UNCHANGED <<handler, Engine>>
           \/ UNCHANGED svars
  BY SessionCases, SessionCallers DEF OpSteps, ConnSteps, DrainError, Failed

(* The steps of an operation that leave the state and its course alone,    *)
(* and those that do not.                                                  *)
LEMMA OpKinds ==
    ASSUME NEW t \in Ops, OpSteps(t)
    PROVE  \/ (\E k \in Kind, d \in Targets : Claim(t, k, d)) /\ UNCHANGED Sections
           \/ SafeHoldCheck(t) /\ UNCHANGED Sections
           \/ BeginLookup(t) \/ BeginAct(t) \/ BeginBind(t)
           \/ RunLookup(t) \/ RunStart(t) \/ RunEnd(t) \/ RunPublish(t)
           \/ SwitchLookup(t) \/ SwitchAct(t)
           \/ /\ \/ Enter(t) \/ Drop(t) \/ Rollback(t) \/ Spawn(t) \/ SafeHoldApply(t)
                 \/ Check(t) \/ Hold(t) \/ Finish(t) \/ Undisplay(t) \/ Release(t)
              /\ UNCHANGED Sections
  BY DEF OpSteps, Ask, OpStep, Engine, Sections
-----------------------------------------------------------------------------
(* The course of an operation, and the state.                              *)

PreHold  == {"begin", "drop", "rollback", "spawn", "start", "drain", "drained", "hold"}
PostHold == {"held", "show", "shown", "switch", "switched", "final"}
Driving(t) == pc[t] \in PreHold \cup PostHold

(* While the platform's answer is worked in, no operation is under way.    *)
QuietInv == \A h \in Conns : hpc[h] \in {"input", "output"} => \A t \in Ops : pc[t] = "idle"

(* An operation is where the state says, or its session is over; and there *)
(* is one at a time.                                                       *)
InPlace(t) ==
    /\ pc[t] \in PreHold => state \in {Working(kind[t]), "READY", "ERROR"}
    /\ pc[t] \in PostHold => state \in {"SAFE_HOLD", "READY", "ERROR"}

DriveInv ==
    /\ \A t \in Ops : InPlace(t)
    /\ \A t, u \in Ops : Driving(t) /\ Driving(u) => t = u

LEMMA QuietStep ==
    ASSUME OnePublisher, ~Lingering, TypeOK, SessionTypeOK, ShapeInv, StartInv, QuietInv,
           [SessionNext]_svars
    PROVE  QuietInv'
<1>1. ASSUME UNCHANGED <<hpc, pc>> PROVE QuietInv'
  BY <1>1 DEF QuietInv
<1>2. ASSUME NEW t \in Ops, OpSteps(t) PROVE QuietInv'
  <2> SUFFICES ASSUME NEW h \in Conns, hpc'[h] \in {"input", "output"} PROVE FALSE
    BY DEF QuietInv
  <2>1. hpc[h] \in {"input", "output"}
    BY <1>2, OpKeeps DEF OpSteps, handler
  <2>2. pc[t] = "idle" /\ state \notin {"REALTIME", "DELAYED"}
    BY <2>1 DEF QuietInv, StartInv
  <2> QED
    BY <1>2, <2>2, OpKinds
       DEF Claim, Source, SafeHoldCheck, BeginLookup, BeginAct, BeginBind, RunLookup, RunStart, RunEnd,
           RunPublish, RunReturns, Publish, SwitchLookup, SwitchAct, Switch, Enter, Drop, Rollback,
           Spawn, SafeHoldApply, Check, Checks, Hold, Finish, Undisplay, Release, End, Goto
<1>3. ASSUME NEW g \in Conns, ConnSteps(g) PROVE QuietInv'
  <2> SUFFICES ASSUME NEW h \in Conns, hpc'[h] \in {"input", "output"}
               PROVE  \A t \in Ops : pc[t] = "idle"
    BY <1>3, HandlerLeavesOps DEF QuietInv, ConnSteps
  <2>1. CASE hpc[h] \in {"input", "output"}
    BY <2>1 DEF QuietInv
  <2>2. CASE Dial(h)
    BY <2>2 DEF Dial
  <2>3. CASE hpc[h] \notin {"input", "output"} /\ ~Dial(h)
    <3>1. g = h
      BY <1>3, <2>3, HandlerLocal DEF ConnSteps
    <3>2. Underway(h) /\ HandlerShape(h)
      BY <1>3, <2>3, <3>1, DialBegins DEF ConnSteps, Underway, ShapeInv
    <3> USE <2>3, <3>2 DEF HandlerShape, Underway, Step, SessionTypeOK
    <3>3. CASE Connect(h) \/ OnPublish(h) \/ OnUnpublish(h) \/ OnClose(h) \/ MediaError(h)
      BY <3>3 DEF Connect, OnPublish, OnUnpublish, OnClose, EndSession, MediaError, handler
    <3>4. CASE TakeSession(h) \/ ClearPipeline(h) \/ StopPipeline(h)
      BY <3>4 DEF TakeSession, ClearPipeline, StopPipeline
    <3>5. CASE \/ Disconnecting(h) \/ DisconnectStep(h) \/ Disconnected(h)
      BY <3>5 DEF Disconnecting, DisconnectStep, Disconnected, handler
    <3>6. CASE Prepare(h) \/ DialFails(h) \/ Rejected(h)
      BY <3>6 DEF Prepare, DialFails, Rejected
    <3>7. CASE Input(h) \/ Output(h) \/ MakePipeline(h) \/ SetPipeline(h)
      BY <3>7 DEF Input, Output, MakePipeline, SetPipeline
    <3> QED
      BY <1>3, <3>1, <3>3, <3>4, <3>5, <3>6, <3>7 DEF ConnSteps, HandlerStep
  <2> QED
    BY <2>1, <2>2, <2>3
<1> QED
  BY <1>1, <1>2, <1>3, AllSteps DEF Boot, MarkError, Fail, svars, mvars, handler

(* What the handlers do to the state.                                      *)
LEMMA ConnState ==
    ASSUME NEW h \in Conns, ConnSteps(h)
    PROVE  \/ state' = state
           \/ state' = "READY" /\ Disconnected(h)
           \/ state' = "ERROR"
           \/ hpc[h] \in {"input", "output"} /\ Input(h) /\ state = "READY" /\ state' = "INGESTING"
           \/ hpc[h] \in {"input", "output"} /\ Output(h) /\ state = "INGESTING" /\ state' = "REALTIME"
<1> USE DEF mvars, status, Apply, Step
<1>1. CASE Connect(h) \/ OnPublish(h) \/ OnUnpublish(h) \/ OnClose(h) \/ MediaError(h)
  BY <1>1 DEF Connect, OnPublish, OnUnpublish, OnClose, EndSession, MediaError, MarkError
<1>2. CASE TakeSession(h) \/ ClearPipeline(h) \/ StopPipeline(h)
  BY <1>2 DEF TakeSession, ClearPipeline, StopPipeline
<1>3. CASE Disconnecting(h) \/ DisconnectStep(h)
  BY <1>3 DEF Disconnecting, DisconnectStep, Disconnect, Invalidate
<1>4. CASE Disconnected(h)
  BY <1>4 DEF Disconnected, Leave, Refused
<1>5. CASE Prepare(h) \/ Dial(h) \/ DialFails(h) \/ Rejected(h)
  BY <1>5 DEF Prepare, Dial, DialFails, Rejected, PrepareNewSession, MarkError, Fail
<1>6. CASE Input(h)
  BY <1>6 DEF Input, ConnectInput, CanTransition, Transitions, WorkTransitions
<1>7. CASE Output(h)
  BY <1>7 DEF Output, ConnectOutput, CanTransition, Transitions, WorkTransitions
<1>8. CASE MakePipeline(h) \/ SetPipeline(h)
  BY <1>8 DEF MakePipeline, SetPipeline, SetFixedDelayTarget
<1> QED
  BY <1>1, <1>2, <1>3, <1>4, <1>5, <1>6, <1>7, <1>8 DEF ConnSteps, HandlerStep

(* Whether the table knew the transition or not.                           *)
LEMMA AppliedOrNot ==
    ASSUME NEW to, NEW trigger, Apply(to, trigger) \/ Refused(to, trigger)
    PROVE  (CanTransition(state, to, trigger) /\ state' = to) \/ state' = state
  BY DEF Apply, Refused, status

(* An operation takes the state from its source to its working state.      *)
LEMMA EnterMoves ==
    ASSUME NEW t \in Ops, kind[t] \in Kind, Enter(t)
    PROVE  state' = state \/ (state = Source(kind[t]) /\ state' = Working(kind[t]))
  BY AppliedOrNot DEF Enter, CanTransition, Transitions, WorkTransitions, Working, Source, Kind

LEMMA DriveStep ==
    ASSUME OnePublisher, TypeOK, SessionTypeOK, ShapeInv, StartInv, QuietInv, DriveInv,
           [SessionNext]_svars
    PROVE  DriveInv'
<1> USE DEF DriveInv, InPlace, Driving
<1>1. ASSUME UNCHANGED <<pc, kind>>,
             state' = state \/ state' \in {"READY", "ERROR"} \/ (\A t \in Ops : ~Driving(t))
      PROVE  DriveInv'
  BY <1>1
<1>2. CASE Boot /\ UNCHANGED <<handler, Engine>>
  <2>1. state = "STOPPED" \/ state' = "READY"
    BY <1>2 DEF Boot, Apply, CanTransition, Transitions, WorkTransitions
  <2>2. state = "STOPPED" => \A t \in Ops : ~Driving(t)
    BY DEF TypeOK, Kind, Working
  <2> QED
    BY <1>1, <1>2, <2>1, <2>2 DEF Boot, request
<1>3. ASSUME NEW h \in Conns, ConnSteps(h) PROVE DriveInv'
  <2>1. UNCHANGED <<pc, kind>>
    BY <1>3, HandlerLeavesOps DEF ConnSteps
  <2>2. hpc[h] \in {"input", "output"} => \A t \in Ops : ~Driving(t)
    BY DEF QuietInv, PreHold, PostHold
  <2> QED
    BY <1>1, <1>3, <2>1, <2>2, ConnState
<1>4. ASSUME NEW c \in Callers, MarkError(c) \/ Fail(c) PROVE DriveInv'
  BY <1>1, <1>4 DEF MarkError, Fail, Apply, status, request
<1>5. CASE UNCHANGED svars
  BY <1>1, <1>5 DEF svars, mvars, status, request
<1>6. ASSUME NEW t \in Ops, OpSteps(t) PROVE DriveInv'
  <2>0. /\ \A u \in Ops \ {t} : pc'[u] = pc[u] /\ kind'[u] = kind[u]
        /\ kind[t] \in Kind
    BY <1>6, OpLocal DEF OpSteps, TypeOK
  <2> USE DEF TypeOK, PreHold, PostHold, Goto, request
  <2>1. ASSUME state' = state,
               pc'[t] \in PreHold => pc[t] \in PreHold /\ kind'[t] = kind[t],
               pc'[t] \in PostHold => pc[t] \in PostHold
        PROVE  DriveInv'
    BY <2>0, <2>1
  <2>2. CASE UNCHANGED <<status, pc, kind>>
    BY <2>1, <2>2 DEF status
  <2>3. CASE (\E k \in Kind, d \in Targets : Claim(t, k, d)) \/ SafeHoldCheck(t)
    BY <2>1, <2>3 DEF Claim, SafeHoldCheck, status
  <2>4. CASE BeginLookup(t) \/ BeginAct(t) \/ BeginBind(t)
    BY <2>1, <2>2, <2>4
       DEF BeginLookup, BeginAct, BeginBind, BeginFail, BeginOk, BeginSetsTarget, status, mvars
  <2>5. CASE RunLookup(t) \/ RunStart(t) \/ RunEnd(t) \/ RunPublish(t)
    BY <2>1, <2>2, <2>5 DEF RunLookup, RunStart, RunEnd, RunPublish, RunReturns, Publish, status, mvars
  <2>6. CASE SwitchLookup(t) \/ SwitchAct(t)
    BY <2>1, <2>2, <2>6 DEF SwitchLookup, SwitchAct, Switch, status, mvars
  <2>7. CASE Enter(t)
    <3>1. CASE Apply(Working(kind[t]), kind[t]) /\ Goto(t, "enter", "begin")
      <4>1. state = Source(kind[t]) /\ state' = Working(kind[t])
        BY <2>0, <3>1 DEF Apply, CanTransition, Transitions, WorkTransitions, Working, Source, Kind
      <4>2. \A u \in Ops : ~Driving(u)
        BY <4>1 DEF Source, Working, Kind
      <4> QED
        BY <2>0, <2>7, <3>1, <4>1, <4>2 DEF Enter
    <3>2. CASE Refused(Working(kind[t]), kind[t]) /\ Goto(t, "enter", "release")
      BY <2>1, <3>2 DEF Refused, status
    <3> QED
      BY <2>7, <3>1, <3>2 DEF Enter
  <2>8. CASE Rollback(t)
    BY <2>0, <2>8 DEF Rollback, End
  <2>9. CASE Drop(t) \/ Spawn(t) \/ Undisplay(t) \/ Release(t)
    BY <2>1, <2>9 DEF Drop, Spawn, Undisplay, Release, End, status
  <2>10. CASE SafeHoldApply(t)
    <3>1. state' = state \/ state \in {"REALTIME", "DELAYED"}
      BY <2>10, AppliedOrNot DEF SafeHoldApply, CanTransition, Transitions, WorkTransitions
    <3>2. state \in {"REALTIME", "DELAYED"} => \A u \in Ops : ~Driving(u)
      BY DEF Kind, Working
    <3> QED
      BY <2>0, <2>1, <2>10, <3>1, <3>2 DEF SafeHoldApply
  <2>11. CASE Check(t)
    BY <2>0, <2>1, <2>11 DEF Check, Checks, AfterCheck, Kind, status
  <2>12. CASE Hold(t)
    <3>1. CASE Apply("SAFE_HOLD", Held(kind[t]))
      BY <2>0, <2>12, <3>1 DEF Hold, Apply
    <3>2. CASE Refused("SAFE_HOLD", Held(kind[t])) /\ Goto(t, "hold", "undisplay")
      BY <2>1, <3>2 DEF Refused, status
    <3> QED
      BY <2>12, <3>1, <3>2 DEF Hold, Apply, Refused
  <2>13. CASE Finish(t)
    BY <2>0, <2>13 DEF Finish
  <2> QED
    BY <1>6, <2>3, <2>4, <2>5, <2>6, <2>7, <2>8, <2>9, <2>10, <2>11, <2>12, <2>13, OpKinds
<1> QED
  BY <1>2, <1>3, <1>4, <1>5, <1>6, AllSteps
-----------------------------------------------------------------------------
(* The target delay.                                                       *)

(* The coordinator has accepted the operation.                             *)
Bound(t) == pc[t] \in {"spawn"} \cup SequenceLabel

(* An enable_delay that the coordinator has accepted, or is about to, has  *)
(* set the target; until then it has it in its arguments.                  *)
HasTarget(t) ==
    kind[t] = "enable_delay" =>
      /\ (\/ Bound(t)
          \/ pc[t] = "begin" /\ At(t, "bind")) /\ state \notin {"READY", "ERROR"}
            => targetDelaySeconds # 0
      /\ pc[t] \in HandlerLabel \cup {"rollback"} => want[t] # 0

TargetInv ==
    /\ state \in {"DELAYED", "RETURNING_TO_REALTIME", "DUMPING"} => targetDelaySeconds # 0
    /\ \A t \in Ops : HasTarget(t)

LEMMA TargetStep ==
    ASSUME OnePublisher, TypeOK, SessionTypeOK, ShapeInv, StartInv, CallInv, QuietInv, DriveInv,
           TargetInv, [SessionNext]_svars
    PROVE  TargetInv'
<1> USE DEF TargetInv, HasTarget, Bound, At
<1>0. \A d \in Targets : d # 0
  BY MachineAssumption
<1>1. ASSUME UNCHANGED <<pc, kind, want, stage>>,
             targetDelaySeconds' = targetDelaySeconds \/ targetDelaySeconds' # 0,
             state' = state \/ state' \in {"READY", "ERROR"}
      PROVE  TargetInv'
  BY <1>1
<1>2. CASE Boot /\ UNCHANGED <<handler, Engine>>
  <2>1. state \in {"STOPPED", "STARTING"} /\ state' \in {"STARTING", "READY"}
    BY <1>2 DEF Boot, Apply, CanTransition, Transitions, WorkTransitions, SessionStates, Streaming
  <2> QED
    BY <1>2, <2>1 DEF Boot, display, request, Engine, opCall
<1>3. ASSUME NEW h \in Conns, ConnSteps(h) PROVE TargetInv'
  <2>0. UNCHANGED <<pc, kind, want, stage>>
    BY <1>3, HandlerLeavesOps DEF ConnSteps
  <2>1. CASE Prepare(h)
    <3>1. state = "READY" /\ state' = "READY"
      BY <2>1 DEF StartInv, Prepare, Step, PrepareNewSession, status
    <3> QED
      BY <2>0, <3>1
  <2>2. CASE MakePipeline(h)
    BY <1>0, <1>1, <2>0, <2>2, SessionCallers DEF MakePipeline, SetFixedDelayTarget, mvars, status, display
  <2>3. CASE ~Prepare(h) /\ ~MakePipeline(h)
    <3>1. targetDelaySeconds' = targetDelaySeconds
      BY <1>3, <2>3
         DEF ConnSteps, Connect, OnPublish, OnUnpublish, OnClose, EndSession, MediaError, MarkError,
             HandlerStep, TakeSession, ClearPipeline, StopPipeline, Disconnecting, DisconnectStep,
             Disconnected, Disconnect, Invalidate, Leave, Dial, DialFails, Rejected, Fail, Input,
             ConnectInput, Output, ConnectOutput, SetPipeline, mvars, display
    <3>2. CASE hpc[h] \in {"input", "output"} /\ state \in {"READY", "INGESTING"} /\ state' \in {"INGESTING", "REALTIME"}
      <4>1. \A t \in Ops : pc'[t] = "idle"
        BY <2>0, <3>2 DEF QuietInv
      <4> QED
        BY <3>2, <4>1 DEF HandlerLabel, SequenceLabel
    <3> QED
      BY <1>1, <1>3, <2>0, <3>1, <3>2, ConnState
  <2> QED
    BY <2>1, <2>2, <2>3
<1>4. ASSUME NEW c \in Callers, (MarkError(c) \/ Fail(c)) /\ UNCHANGED <<handler, Engine>> PROVE TargetInv'
  BY <1>1, <1>4 DEF MarkError, Fail, Apply, status, display, request, Engine, opCall
<1>5. CASE UNCHANGED svars
  BY <1>1, <1>5 DEF svars, mvars, status, display, request, opCall
<1>6. ASSUME NEW t \in Ops, OpSteps(t) PROVE TargetInv'
  <2>0. /\ \A u \in Ops \ {t} : /\ pc'[u] = pc[u] /\ kind'[u] = kind[u] /\ want'[u] = want[u]
                                /\ stage'[u] = stage[u]
        /\ kind[t] \in Kind
        /\ state \in {"READY", "ERROR"} => state' = state
    BY <1>6, OpLocal, OpsStayInside DEF OpSteps, TypeOK, Outside
  <2> USE DEF TypeOK, SessionTypeOK, Goto, request, opCall, Move, Sections
  <2>1. ASSUME HasTarget(t)', targetDelaySeconds' = targetDelaySeconds \/ targetDelaySeconds' # 0,
               state' \in {"DELAYED", "RETURNING_TO_REALTIME", "DUMPING"}
                 => state \in {"DELAYED", "RETURNING_TO_REALTIME", "DUMPING"} \/ targetDelaySeconds' # 0
        PROVE  TargetInv'
    BY <2>0, <2>1
  <2>2. ASSUME state' = state, targetDelaySeconds' = targetDelaySeconds,
               pc'[t] \in {"spawn"} \cup SequenceLabel => pc[t] \in {"spawn"} \cup SequenceLabel,
               pc'[t] = "begin" => pc[t] = "begin" /\ (stage'[t] = "bind" => stage[t] = "bind"),
               pc'[t] \in HandlerLabel \cup {"rollback"} => pc[t] \in HandlerLabel \cup {"rollback"} /\ want'[t] = want[t],
               pc'[t] \in HandlerLabel \cup SequenceLabel \cup {"rollback"} => kind'[t] = kind[t]
        PROVE  TargetInv'
    BY <2>0, <2>1, <2>2 DEF HandlerLabel
  <2>3. ASSUME NEW k \in Kind, NEW d \in Targets, Claim(t, k, d), UNCHANGED Sections PROVE TargetInv'
    BY <1>0, <2>0, <2>3 DEF Claim, status, Source, SequenceLabel, HandlerLabel
  <2>4. CASE (SafeHoldCheck(t) /\ UNCHANGED Sections) \/ BeginLookup(t)
    BY <2>2, <2>4 DEF SafeHoldCheck, BeginLookup, BeginFail, HandlerLabel, SequenceLabel, mvars, status, display
  <2>5. CASE BeginAct(t)
    <3>1. CASE BeginSetsTarget(t)
      <4>1. targetDelaySeconds' # 0
        BY <3>1 DEF BeginSetsTarget, HandlerLabel
      <4> QED
        BY <2>0, <2>5, <3>1, <4>1 DEF BeginAct, BeginSetsTarget, status
    <3>2. CASE kind[t] # "enable_delay" /\ UNCHANGED mvars
      BY <2>0, <3>2 DEF mvars, status, display
    <3> QED
      BY <2>5, <3>1, <3>2 DEF BeginAct
  <2>6. CASE BeginBind(t)
    <3>1. state' = state /\ targetDelaySeconds' = targetDelaySeconds /\ UNCHANGED <<kind, want>>
      BY <2>6 DEF BeginBind, BeginOk, BeginFail, status, display
    <3>2. pc[t] = "begin" /\ stage[t] = "bind" /\ pc'[t] \in {"drop", "spawn"}
      BY <2>6 DEF BeginBind, BeginOk, BeginFail
    <3> QED
      BY <2>0, <3>1, <3>2 DEF HandlerLabel, SequenceLabel
  <2>7. CASE RunLookup(t) \/ RunStart(t) \/ RunEnd(t) \/ RunPublish(t)
    BY <2>2, <2>7 DEF RunLookup, RunStart, RunEnd, RunPublish, RunReturns, Publish, status, display, mvars,
       HandlerLabel, SequenceLabel
  <2>8. CASE SwitchLookup(t) \/ SwitchAct(t)
    <3>1. pc[t] = "switch" /\ state' = state /\ UNCHANGED <<kind, want>> /\ pc'[t] \in {"switch", "switched"}
      BY <2>8 DEF SwitchLookup, SwitchAct, Switch, status, mvars
    <3>2. CASE targetDelaySeconds' = targetDelaySeconds
      BY <2>2, <3>1, <3>2 DEF HandlerLabel, SequenceLabel
    <3>3. CASE targetDelaySeconds' # targetDelaySeconds
      <4>1. kind[t] # "enable_delay"
        BY <2>8, <3>3 DEF SwitchLookup, SwitchAct, Switch, mvars, display
      <4>2. state \in {"SAFE_HOLD", "READY", "ERROR"}
        BY <3>1 DEF DriveInv, InPlace, PostHold
      <4>3. \A u \in Ops \ {t} : ~Driving(u)
        BY <3>1 DEF DriveInv, Driving, PostHold
      <4> QED
        BY <2>0, <3>1, <4>1, <4>2, <4>3 DEF Driving, PreHold, PostHold, HandlerLabel, SequenceLabel
    <3> QED
      BY <3>2, <3>3
  <2>9. CASE (Drop(t) \/ Spawn(t) \/ Undisplay(t) \/ Release(t) \/ Check(t)) /\ UNCHANGED Sections
    <3>1. kind[t] \in Kind /\ pc[t] \in Checks => AfterCheck(kind[t], pc[t]) \in SequenceLabel
      BY OperationTyped
    <3> QED
    BY <2>0, <2>2, <2>9, <3>1
       DEF Drop, Spawn, Undisplay, Release, End, Check, status, display, HandlerLabel, SequenceLabel, Checks
  <2>10. CASE Enter(t) /\ UNCHANGED Sections
    <3>1. state' = state \/ (state = Source(kind[t]) /\ state' = Working(kind[t]))
      BY <2>0, <2>10, EnterMoves
    <3>2. pc[t] = "enter" /\ pc'[t] \in {"begin", "release"} /\ UNCHANGED <<targetDelaySeconds, kind, want, stage>>
      BY <2>10 DEF Enter, display
    <3> QED
      BY <2>0, <2>1, <3>1, <3>2 DEF HandlerLabel, SequenceLabel, Source, Working, Kind, CallInv, InCallOf
  <2>11. CASE Rollback(t) /\ UNCHANGED Sections
    <3>1. state' = state \/ (state = Working(kind[t]) /\ state' = Source(kind[t]))
      BY <2>0, <2>11, AppliedOrNot
         DEF Rollback, CanTransition, Transitions, WorkTransitions, Working, Source, Aborted, Kind
    <3> QED
      BY <2>0, <2>1, <2>11, <3>1 DEF Rollback, End, display, Source, Working, Kind, HandlerLabel, SequenceLabel
  <2>12. CASE (SafeHoldApply(t) \/ Hold(t)) /\ UNCHANGED Sections
    <3>1. state' = state \/ state' = "SAFE_HOLD"
      BY <2>12, AppliedOrNot DEF SafeHoldApply, Hold
    <3> QED
      BY <2>0, <2>1, <2>12, <3>1 DEF SafeHoldApply, Hold, display, HandlerLabel, SequenceLabel
  <2>13. CASE Finish(t) /\ UNCHANGED Sections
    <3>1. state' = state \/ (state = "SAFE_HOLD" /\ state' = Goal(kind[t]))
      BY <2>0, <2>13, AppliedOrNot
         DEF Finish, CanTransition, Transitions, WorkTransitions, Goal, Done, Kind
    <3>2. kind[t] = "enable_delay" /\ state = "SAFE_HOLD" => targetDelaySeconds # 0
      BY <2>13 DEF Finish, SequenceLabel
    <3> QED
      BY <2>0, <2>1, <2>13, <3>1, <3>2 DEF Finish, display, Goal, HandlerLabel, SequenceLabel
  <2> QED
    BY <1>6, <2>3, <2>4, <2>5, <2>6, <2>7, <2>8, <2>9, <2>10, <2>11, <2>12, <2>13, OpKinds
<1> QED
  BY <1>2, <1>3, <1>4, <1>5, <1>6, AllSteps
-----------------------------------------------------------------------------
(* The claim of an operation on the machine.                               *)

(* A session streams, or is about to, and nobody is ending it.             *)
Era ==
    /\ state \in Streaming \cup {"SAFE_HOLD", "INGESTING"}
    /\ \A c \in Callers : callerPc[c] # "leave"

Owing(t) == pc[t] \in OwesRelease \cup {"rollback"}

(* Then there is one owner of the claim, the claim is set for it, its      *)
(* epoch is the session's, and the working states have an operation.       *)
ClaimInv ==
    Era =>
      /\ \A t, u \in Ops : Owing(t) /\ Owing(u) => t = u
      /\ \A t \in Ops : pc[t] \in OwesRelease => transitionPending
      /\ \A t \in Ops : pc[t] \in SequenceLabel => Active(t)
      /\ state \in {Working(k) : k \in Kind} => \E t \in Ops : pc[t] \in PreHold

(* The handlers bring the machine into a session only when no operation is *)
(* under way, and leave everything the claim depends on as it is, or end   *)
(* the session.                                                            *)
LEMMA ConnClaims ==
    ASSUME TypeOK, StartInv, QuietInv, NEW h \in Conns, ConnSteps(h), Era'
    PROVE  \/ Era /\ UNCHANGED <<state, transitionPending, transitionEpoch>>
           \/ state' \in {"INGESTING", "REALTIME"} /\ \A t \in Ops : pc[t] = "idle"
<1>0. h \in Callers
  BY SessionCallers
<1> USE <1>0 DEF mvars, status, claim, Step, Era, TypeOK, Return
<1>1. CASE Connect(h) \/ OnPublish(h) \/ OnUnpublish(h) \/ OnClose(h) \/ MediaError(h)
  BY <1>1 DEF Connect, OnPublish, OnUnpublish, OnClose, EndSession, MediaError, MarkError
<1>2. CASE TakeSession(h) \/ ClearPipeline(h) \/ StopPipeline(h)
  BY <1>2 DEF TakeSession, ClearPipeline, StopPipeline
<1>3. CASE Disconnecting(h)
  BY <1>3 DEF Disconnecting, Disconnect
<1>4. CASE DisconnectStep(h)
  BY <1>4 DEF DisconnectStep, Invalidate
<1>5. CASE Disconnected(h)
  <2>1. CASE UNCHANGED mvars
    BY <2>1
  <2>2. CASE Leave(h)
    <3>1. state \in SessionStates => CanTransition(state, "READY", "session_stopped")
      BY DEF CanTransition, Transitions
    <3>2. state' = "READY" \/ (state \notin SessionStates /\ state' = state)
      BY <2>2, <3>1 DEF Leave, Apply, Refused
    <3> QED
      BY <3>2 DEF SessionStates, Streaming
  <2> QED
    BY <1>5, <2>1, <2>2 DEF Disconnected
<1>6. CASE Prepare(h) \/ Dial(h) \/ DialFails(h)
  BY <1>6 DEF Prepare, Dial, DialFails, PrepareNewSession, MarkError
<1>7. CASE Rejected(h)
  BY <1>7 DEF Rejected, Fail, Apply, Streaming
<1>8. CASE Input(h) \/ Output(h)
  BY <1>8 DEF Input, Output, ConnectInput, ConnectOutput, Apply, QuietInv
<1>9. CASE MakePipeline(h) \/ SetPipeline(h)
  BY <1>9 DEF MakePipeline, SetPipeline, SetFixedDelayTarget
<1> QED
  BY <1>1, <1>2, <1>3, <1>4, <1>5, <1>6, <1>7, <1>8, <1>9 DEF ConnSteps, HandlerStep

LEMMA SessionClaimStep ==
    ASSUME TypeOK, SessionTypeOK, StartInv, QuietInv, DriveInv, ClaimInv, [SessionNext]_svars
    PROVE  ClaimInv'
<1> SUFFICES ASSUME Era' PROVE ClaimInv'
  BY DEF ClaimInv
<1> USE DEF Owing, OwesRelease
<1>1. ASSUME Era, UNCHANGED <<state, transitionPending, transitionEpoch, pc, kind, opEpoch>>
      PROVE  ClaimInv'
  BY <1>1, Zenon DEF ClaimInv, Active
<1>2. CASE Boot /\ UNCHANGED <<handler, Engine>>
  BY <1>2 DEF Boot, Apply, Era, Streaming
<1>3. ASSUME NEW h \in Conns, ConnSteps(h) PROVE ClaimInv'
  <2>1. UNCHANGED <<pc, kind, opEpoch>>
    BY <1>3, HandlerLeavesOps DEF ConnSteps
  <2>2. CASE Era /\ UNCHANGED <<state, transitionPending, transitionEpoch>>
    BY <1>1, <2>1, <2>2
  <2>3. CASE state' \in {"INGESTING", "REALTIME"} /\ \A t \in Ops : pc[t] = "idle"
    BY <2>1, <2>3 DEF ClaimInv, HandlerLabel, SequenceLabel, Working, Kind
  <2> QED
    BY <1>3, <2>2, <2>3, ConnClaims
<1>4. ASSUME NEW c \in Callers, MarkError(c) \/ Fail(c) PROVE ClaimInv'
  <2>1. Era /\ UNCHANGED <<state, transitionPending, transitionEpoch, pc, kind, opEpoch>>
    BY <1>4 DEF MarkError, Fail, Apply, Return, Era, Streaming, status, claim, request, TypeOK
  <2> QED
    BY <1>1, <2>1
<1>5. CASE UNCHANGED svars
  BY <1>1, <1>5 DEF svars, mvars, status, claim, request, Era
<1>6. ASSUME NEW t \in Ops, OpSteps(t) PROVE ClaimInv'
  <2>0. /\ \A u \in Ops \ {t} : pc'[u] = pc[u] /\ kind'[u] = kind[u] /\ opEpoch'[u] = opEpoch[u]
        /\ UNCHANGED <<callerPc, transitionEpoch>>
        /\ state \in Outside => state' = state
    BY <1>6, OpLocal, OpKeeps, OpsStayInside DEF OpSteps
  <2>1. /\ Era
        /\ kind[t] \in Kind
        /\ \A u \in Ops : pc[u] \in Label
    BY <2>0 DEF Era, TypeOK, Outside, State, Streaming
  <2>i. /\ \A u, v \in Ops : Owing(u) /\ Owing(v) => u = v
        /\ \A u \in Ops : pc[u] \in OwesRelease => transitionPending
        /\ \A u \in Ops : pc[u] \in SequenceLabel => Active(u)
        /\ state \in {Working(k) : k \in Kind} => \E u \in Ops : pc[u] \in PreHold
    BY <2>1 DEF ClaimInv
  <2>p. pc[t] \in PreHold => state = Working(kind[t])
    BY <2>1 DEF DriveInv, InPlace, Era, Streaming
  <2>q. pc[t] \in PostHold => state = "SAFE_HOLD"
    BY <2>1 DEF DriveInv, InPlace, Era, Streaming
  <2>w. \A k \in Kind : Working(k) \notin {"SAFE_HOLD", "REALTIME", "DELAYED"}
    BY DEF Working, Kind
  <2>2. ASSUME UNCHANGED transitionPending, Owing(t)' => Owing(t),
               pc'[t] \in OwesRelease => pc[t] \in OwesRelease,
               pc'[t] \in SequenceLabel => pc[t] \in SequenceLabel \/ Active(t)',
               opEpoch'[t] = opEpoch[t] \/ pc'[t] \notin SequenceLabel \/ Active(t)',
               state' \in {Working(k) : k \in Kind}
                  => pc'[t] \in PreHold \/ (state' = state /\ pc[t] \notin PreHold)
        PROVE  ClaimInv'
    <3>1. \A u, v \in Ops : Owing(u)' /\ Owing(v)' => u = v
      BY <2>0, <2>2, <2>i
    <3>2. \A u \in Ops : pc'[u] \in OwesRelease => transitionPending'
      BY <2>0, <2>2, <2>i
    <3>3. \A u \in Ops : pc'[u] \in SequenceLabel => Active(u)'
      BY <2>0, <2>2, <2>i DEF Active
    <3>4. state' \in {Working(k) : k \in Kind} => \E u \in Ops : pc'[u] \in PreHold
      BY <2>0, <2>2, <2>i
    <3> QED
      BY <3>1, <3>2, <3>3, <3>4 DEF ClaimInv
  <2> USE DEF TypeOK, Goto, End, HandlerLabel, SequenceLabel, PreHold, PostHold, status, claim, request
  <2>3. ASSUME NEW k \in Kind, NEW d \in Targets, Claim(t, k, d) PROVE ClaimInv'
    <3>1. \A u \in Ops : ~Owing(u)
      <4> SUFFICES ASSUME NEW u \in Ops, pc[u] = "rollback" PROVE FALSE
        BY <2>3, <2>i DEF Claim
      <4>1. state = Working(kind[u]) /\ kind[u] \in Kind
        BY <2>1 DEF DriveInv, InPlace, Era, Streaming
      <4> QED
        BY <2>3, <2>w, <4>1 DEF Claim, Source
    <3>2. pc'[t] = "enter" /\ transitionPending' /\ state' = Source(k)
      BY <2>3 DEF Claim
    <3> QED
      BY <2>0, <2>w, <3>1, <3>2 DEF ClaimInv, Source
  <2>4. CASE SafeHoldCheck(t) \/ SafeHoldApply(t)
    <3>1. state' = state \/ state' = "SAFE_HOLD"
      BY <2>4, AppliedOrNot DEF SafeHoldCheck, SafeHoldApply
    <3> QED
      BY <2>2, <2>4, <2>w, <3>1 DEF SafeHoldCheck, SafeHoldApply
  <2>5. CASE BeginLookup(t) \/ BeginAct(t) \/ BeginBind(t)
    BY <2>2, <2>5 DEF BeginLookup, BeginAct, BeginBind, BeginFail, BeginOk, BeginSetsTarget, mvars
  <2>6. CASE RunLookup(t) \/ RunStart(t) \/ RunEnd(t) \/ RunPublish(t)
    BY <2>2, <2>6, <2>q, <2>w DEF RunLookup, RunStart, RunEnd, RunPublish, RunReturns, Publish, mvars
  <2>7. CASE SwitchLookup(t) \/ SwitchAct(t)
    BY <2>2, <2>7, <2>q, <2>w DEF SwitchLookup, SwitchAct, Switch, mvars
  <2>8. CASE Enter(t)
    <3>1. CASE Apply(Working(kind[t]), kind[t]) /\ Goto(t, "enter", "begin")
      BY <2>2, <2>8, <3>1 DEF Enter
    <3>2. CASE Refused(Working(kind[t]), kind[t]) /\ Goto(t, "enter", "release")
      BY <2>2, <2>8, <3>2 DEF Enter, Refused
    <3> QED
      BY <2>8, <3>1, <3>2 DEF Enter
  <2>9. CASE Rollback(t)
    <3>1. CanTransition(state, Source(kind[t]), Aborted(kind[t]))
      BY <2>1, <2>9, <2>p
         DEF Rollback, CanTransition, Transitions, WorkTransitions, Working, Source, Aborted, Kind
    <3>2. state' = Source(kind[t])
      BY <2>9, <3>1 DEF Rollback, Apply, Refused
    <3> QED
      BY <2>2, <2>9, <2>w, <3>2 DEF Rollback, Source
  <2>10. CASE Drop(t) \/ Release(t)
    <3>1. Owing(t) /\ pc'[t] \in {"rollback", "idle"} /\ state' = state
      BY <2>10 DEF Drop, Release
    <3>2. pc[t] \in PreHold => pc'[t] \in PreHold
      BY <2>10 DEF Drop, Release
    <3>3. \A u \in Ops : pc'[u] \notin OwesRelease
      BY <2>0, <2>i, <3>1
    <3> QED
      BY <2>0, <2>i, <3>1, <3>2, <3>3 DEF ClaimInv, Active
  <2>11. CASE Spawn(t)
    BY <2>2, <2>11 DEF Spawn, Active
  <2>12. CASE Check(t)
    <3>1. Active(t)
      BY <2>12, <2>i DEF Check, Checks
    <3> QED
      BY <2>2, <2>12, <3>1, <2>1, <2>q, <2>w DEF Check, Checks, AfterCheck, Kind
  <2>13. CASE Hold(t)
    <3>1. CanTransition(state, "SAFE_HOLD", Held(kind[t]))
      BY <2>1, <2>13, <2>p DEF Hold, CanTransition, Transitions, WorkTransitions, Working, Held, Kind
    <3> QED
      BY <2>2, <2>13, <2>w, <3>1 DEF Hold, Apply, Refused
  <2>14. CASE Finish(t)
    <3>1. state' = "SAFE_HOLD" \/ state' = Goal(kind[t])
      BY <2>14, <2>q, AppliedOrNot DEF Finish
    <3> QED
      BY <2>2, <2>14, <2>w, <3>1 DEF Finish, Goal
  <2>15. CASE Undisplay(t)
    BY <2>2, <2>15 DEF Undisplay
  <2> QED
    BY <1>6, <2>3, <2>4, <2>5, <2>6, <2>7, <2>8, <2>9, <2>10, <2>11, <2>12, <2>13, <2>14, <2>15, OpKinds
<1> QED
  BY <1>2, <1>3, <1>4, <1>5, <1>6, AllSteps
(* While a session streams, what is under way began in its epoch.          *)
EraInv == Era => \A t \in Ops : Asked(t) => began[t].epoch = transitionEpoch

LEMMA EraStep ==
    ASSUME TypeOK, SessionTypeOK, CallInv, StartInv, QuietInv, EraInv, [SessionNext]_svars
    PROVE  EraInv'
<1> SUFFICES ASSUME Era' PROVE EraInv'
  BY DEF EraInv
<1>1. ASSUME Era, UNCHANGED <<transitionEpoch, pc, stage, began>> PROVE EraInv'
  BY <1>1 DEF EraInv, Asked, At
<1>2. CASE Boot /\ UNCHANGED <<handler, Engine>>
  BY <1>2 DEF Boot, Apply, Era, Streaming
<1>3. ASSUME NEW h \in Conns, ConnSteps(h) PROVE EraInv'
  <2>1. UNCHANGED <<pc, stage, began>>
    BY <1>3, HandlerLeavesOps DEF ConnSteps
  <2>2. CASE \A t \in Ops : pc[t] = "idle"
    BY <2>1, <2>2 DEF EraInv, Asked, SequenceLabel
  <2> QED
    BY <1>1, <1>3, <2>1, <2>2, ConnClaims
<1>4. ASSUME NEW c \in Callers, (MarkError(c) \/ Fail(c)) /\ UNCHANGED <<handler, Engine>> PROVE EraInv'
  <2>1. Era /\ UNCHANGED <<transitionEpoch, pc, stage, began>>
    BY <1>4 DEF MarkError, Fail, Apply, Return, Era, Streaming, status, claim, TypeOK, Engine, opCall
  <2> QED
    BY <1>1, <2>1
<1>5. CASE UNCHANGED svars
  BY <1>1, <1>5 DEF svars, mvars, status, claim, Era, opCall
<1>6. ASSUME NEW t \in Ops, OpSteps(t) PROVE EraInv'
  <2>1. UNCHANGED <<callerPc, transitionEpoch>> /\ (state \in Outside => state' = state)
    BY <1>6, OpKeeps, OpsStayInside DEF OpSteps
  <2>2. Era
    BY <2>1 DEF Era, TypeOK, Outside, State, Streaming
  <2>3. ASSUME NEW u \in Ops, Asked(u)' PROVE began'[u].epoch = transitionEpoch
    <3>1. CASE u = t
      BY <1>6, <2>2, <2>3, <3>1, OpBegins DEF OpSteps, CallInv, EraInv
    <3>2. CASE u # t
      <4>1. began'[u] = began[u] /\ Asked(u)
        BY <1>6, <2>3, <3>2, OpBegins, OpLocal DEF OpSteps, CallInv, Asked, At
      <4> QED
        BY <2>2, <4>1 DEF EraInv
    <3> QED
      BY <3>1, <3>2
  <2> QED
    BY <2>1, <2>3 DEF EraInv
<1> QED
  BY <1>2, <1>3, <1>4, <1>5, <1>6, AllSteps
-----------------------------------------------------------------------------
(* The theorems: the invariants put together.                              *)

Orderly == OnePublisher /\ ~Lingering

Base == TypeOK /\ SessionTypeOK /\ ShapeInv /\ StartInv /\ CallInv /\ QuietInv /\ DriveInv

LEMMA BaseInit == SessionInit => Base
<1> SUFFICES ASSUME SessionInit PROVE Base
  OBVIOUS
<1>1. TypeOK /\ SessionTypeOK /\ ShapeInv
  BY TypeInit, SessionTypeInit, ShapeInit DEF SessionInit
<1>2. StartInv /\ CallInv /\ QuietInv /\ DriveInv
  BY DEF SessionInit, Init, StartInv, CallInv, InCallOf, QuietInv, DriveInv, InPlace, Driving, PreHold, PostHold
<1> QED
  BY <1>1, <1>2 DEF Base

LEMMA BaseStep == Orderly /\ Base /\ [SessionNext]_svars => Base'
  BY SessionMaps, TypeStep, SessionTypeStep, ShapeStep, StartStep, CallStep, QuietStep, DriveStep
     DEF Orderly, Base

(* While a session is delayed the status names the delay.                  *)
THEOREM DelayIsNamed == Orderly /\ SessionSpec => []DelayedHasTarget
<1> SUFFICES ASSUME Orderly PROVE SessionSpec => []DelayedHasTarget
  OBVIOUS
<1>1. SessionInit => TargetInv
  BY DEF SessionInit, Init, TargetInv, HasTarget, Bound, HandlerLabel, SequenceLabel
<1>2. Base /\ TargetInv /\ [SessionNext]_svars => TargetInv'
  BY TargetStep DEF Orderly, Base
<1>3. TargetInv => DelayedHasTarget
  BY DEF TargetInv, DelayedHasTarget
<1> QED
  BY <1>1, <1>2, <1>3, BaseInit, BaseStep, PTL DEF SessionSpec

LEMMA ClaimInit == SessionInit => ClaimInv
  BY DEF SessionInit, Init, ClaimInv, Era, Streaming

(* While a working state is reported, every other request is answered with *)
(* "another transition is already in progress", but for a roll-back's and  *)
(* DisconnectSession's last section.                                       *)
THEOREM WorkIsClaimed == Orderly /\ SessionSpec => []WorkingIsPending
<1> SUFFICES ASSUME Orderly PROVE SessionSpec => []WorkingIsPending
  OBVIOUS
<1>1. Base /\ ClaimInv /\ [SessionNext]_svars => ClaimInv'
  BY SessionClaimStep DEF Base
<1>2. ClaimInv => WorkingIsPending
  <2> SUFFICES ASSUME ClaimInv, state \in {Working(k) : k \in Kind},
                      \A c \in Callers : callerPc[c] # "leave"
               PROVE  transitionPending \/ \E t \in Ops : pc[t] = "rollback"
    BY DEF WorkingIsPending
  <2>1. Era
    BY DEF Era, Streaming, Working, Kind
  <2>2. PICK t \in Ops : pc[t] \in PreHold
    BY <2>1 DEF ClaimInv
  <2> QED
    BY <2>1, <2>2 DEF ClaimInv, PreHold, OwesRelease, HandlerLabel, SequenceLabel
<1> QED
  BY <1>1, <1>2, ClaimInit, BaseInit, BaseStep, PTL DEF SessionSpec

(* Once DisconnectSession has returned, the operations of the session it   *)
(* ended never move the state, whatever epoch their goroutine was given.   *)
THEOREM EndedStandsStill == Orderly /\ SessionSpec => EndedNeverMoves
<1> SUFFICES ASSUME Orderly PROVE SessionSpec => EndedNeverMoves
  OBVIOUS
<1> DEFINE Still == \A t \in Ops :
                       (/\ pc[t] \in SequenceLabel /\ pc'[t] # pc[t]
                        /\ began[t].epoch # transitionEpoch
                        /\ \A c \in Callers : callerPc[c] # "leave")
                       => UNCHANGED state
<1>1. SessionInit => EraInv
  BY DEF SessionInit, Init, EraInv, Era, Streaming
<1>2. Base /\ EraInv /\ [SessionNext]_svars => EraInv'
  BY EraStep DEF Base
<1>3. Base /\ EraInv /\ [SessionNext]_svars => [Still]_svars
  <2> SUFFICES ASSUME Base, EraInv, [SessionNext]_svars, NEW t \in Ops,
                      pc[t] \in SequenceLabel, began[t].epoch # transitionEpoch, pc'[t] # pc[t],
                      \A c \in Callers : callerPc[c] # "leave"
               PROVE  state' = state
    OBVIOUS
  <2>1. ~Era
    BY DEF EraInv, Asked
  <2>2. state \in Outside
    BY <2>1 DEF Base, TypeOK, Era, State, Streaming, Outside
  <2>3. PICK u \in Ops : OpSteps(u)
    BY AllSteps, HandlerLeavesOps DEF ConnSteps, Boot, MarkError, Fail, svars, mvars
  <2> QED
    BY <2>2, <2>3, OpsStayInside DEF Base, OpSteps
<1> QED
  BY <1>1, <1>2, <1>3, BaseInit, BaseStep, PTL DEF SessionSpec, EndedNeverMoves
-----------------------------------------------------------------------------
(* One connection: what the coordinator knows of the session.              *)

OneConnection == \A g, h \in Conns : g = h

LEMMA OneIsPublisher == OneConnection => OnePublisher
  BY SessionAssumption DEF OneConnection, OnePublisher

(* The pipeline that a handler has given the coordinator.                  *)
Given(h) == IF hpc[h] \in {"open", "take"} THEN hpipe[h]
            ELSE IF hpc[h] = "clear" THEN taken[h][1] ELSE 0

(* Between ConnectOutput and SetPipeline the machine already takes         *)
(* requests, but the coordinator has no pipeline for them.  Once there is  *)
(* one, the operations that have got past the look-up work on it.          *)
CoordOf(h) ==
    /\ pipeline = Given(h)
    /\ hpc[h] \in {"make", "install"} =>
         /\ state \in {"REALTIME", "BUFFERING_TO_DELAY", "SAFE_HOLD", "ERROR"}
         /\ \A t \in Ops : ~Asked(t)
    /\ Live(h) => \A t \in Ops :
         /\ Bound(t) => operation = hpipe[h]
         /\ stage[t] \in {"act", "run"} => ref[t] = hpipe[h]

CoordInv == \A h \in Conns : CoordOf(h)

LEMMA CoordConn ==
    ASSUME Base, NEW h \in Conns, ConnSteps(h), CoordOf(h)
    PROVE  CoordOf(h)'
<1>0. /\ HandlerShape(h) /\ after[h] \in {"closed", "open", "reset"}
      /\ UNCHANGED <<pc, stage, ref>>
      /\ \A t \in Ops : InCallOf(t)
      /\ hpc[h] \in {"input", "output"} => \A t \in Ops : pc[t] = "idle"
  BY HandlerLeavesOps DEF Base, ShapeInv, SessionTypeOK, CallInv, QuietInv, ConnSteps
<1>1. \A t \in Ops : Bound(t)' = Bound(t) /\ Asked(t)' = Asked(t)
  BY <1>0 DEF Asked, Bound, At
<1>s. hpc \in [Conns -> HandlerPc] /\ hpipe \in [Conns -> Pipes \cup {0}]
      /\ taken \in [Conns -> (Pipes \cup {0}) \X BOOLEAN]
      /\ sessionActive \in [Conns -> BOOLEAN]
  BY DEF Base, SessionTypeOK
<1> USE <1>0, <1>1, <1>s DEF CoordOf, Given, Live, HandlerShape, Step, Fields, Locals, Engine, coordinator, opCall
<1>2. CASE Connect(h) \/ OnPublish(h) \/ OnUnpublish(h) \/ OnClose(h) \/ MediaError(h)
  BY <1>2 DEF Connect, OnPublish, OnUnpublish, OnClose, EndSession, MediaError, MarkError, mvars, status, handler
<1>3. CASE TakeSession(h)
  BY <1>3 DEF TakeSession
<1>4. CASE ClearPipeline(h)
  BY <1>4 DEF ClearPipeline
<1>5. CASE StopPipeline(h)
  BY <1>5 DEF StopPipeline
<1>6. CASE Disconnecting(h) \/ DisconnectStep(h)
  BY <1>6 DEF Disconnecting, DisconnectStep, Disconnect, Invalidate, Return, handler
<1>7. CASE Disconnected(h)
  BY <1>7 DEF Disconnected
<1>8. CASE Prepare(h) \/ Dial(h) \/ DialFails(h) \/ Rejected(h) \/ Input(h)
  BY <1>8 DEF Prepare, Dial, DialFails, Rejected, Input
<1>9. CASE Output(h)
  <2>1. \A t \in Ops : ~Asked(t)
    BY <1>9 DEF Output, Asked, Bound, SequenceLabel
  <2> QED
    BY <1>9, <2>1 DEF Output, ConnectOutput, Apply
<1>10. CASE MakePipeline(h)
  BY <1>10 DEF MakePipeline, SetFixedDelayTarget, mvars, status
<1>11. CASE SetPipeline(h)
  <2>1. \A t \in Ops : ~Bound(t) /\ stage[t] \notin {"act", "run"}
    BY <1>11 DEF SetPipeline, Asked, Bound, InCallOf, At, SequenceLabel
  <2> QED
    BY <1>11, <2>1 DEF SetPipeline
<1> QED
  BY <1>2, <1>3, <1>4, <1>5, <1>6, <1>7, <1>8, <1>9, <1>10, <1>11 DEF ConnSteps, HandlerStep

(* No operation gets past the look-up while there is no pipeline, and so   *)
(* none gets the machine any further than the slate.                       *)
LEMMA CoordOp ==
    ASSUME Base, NEW h \in Conns, NEW t \in Ops, OpSteps(t), CoordOf(h)
    PROVE  CoordOf(h)'
<1>0. /\ UNCHANGED <<handler, pipeline>>
      /\ \A u \in Ops \ {t} : pc'[u] = pc[u] /\ stage'[u] = stage[u] /\ ref'[u] = ref[u]
      /\ InCallOf(t) /\ kind[t] \in Kind
      /\ pc \in [Ops -> Label]
      /\ stage \in [Ops -> {"call", "act", "bind", "run"}]
      /\ ref \in [Ops -> Pipes \cup {0}]
  BY OpLocal, OpKeeps DEF Base, CallInv, TypeOK, SessionTypeOK, OpSteps
<1>1. Given(h)' = Given(h) /\ Live(h)' = Live(h)
  BY <1>0 DEF Given, Live, handler
<1>2. \A u \in Ops \ {t} : Bound(u)' = Bound(u) /\ Asked(u)' = Asked(u)
  BY <1>0 DEF Bound, Asked, At
<1>3. /\ pipeline = 0 <=> Given(h) = 0
      /\ Live(h) => pipeline = hpipe[h] /\ pipeline # 0
      /\ hpc[h] \in {"make", "install"} => pipeline = 0
  <2>1. Live(h) => hpc[h] \in {"open", "take"}
    BY DEF Base, ShapeInv, HandlerShape, Live
  <2> QED
    BY <2>1 DEF CoordOf, Given, Live
<1>4. ASSUME state' = state, UNCHANGED operation, Bound(t)' => Bound(t), Asked(t)' => Asked(t),
             stage'[t] \in {"act", "run"} => stage[t] \in {"act", "run"} /\ ref'[t] = ref[t]
      PROVE  CoordOf(h)'
  BY <1>0, <1>1, <1>2, <1>4 DEF CoordOf, handler
<1> USE <1>0 DEF Asked, Bound, At, Goto, Move, coordinator, opCall, Sections, SequenceLabel
<1>5. ASSUME NEW k \in Kind, NEW d \in Targets, Claim(t, k, d), UNCHANGED Sections PROVE CoordOf(h)'
  BY <1>4, <1>5 DEF Claim, status
<1>6. CASE SafeHoldCheck(t) /\ UNCHANGED Sections
  BY <1>4, <1>6 DEF SafeHoldCheck, status
<1>7. CASE BeginLookup(t)
  <2>1. CASE pipeline = 0
    BY <1>4, <1>7, <2>1 DEF BeginLookup, BeginFail, status
  <2>2. CASE pipeline # 0
    <3>1. /\ hpc[h] \notin {"make", "install"} /\ ~Bound(t)' /\ ref'[t] = pipeline
          /\ UNCHANGED <<operation>>
      BY <1>3, <1>7, <2>2 DEF BeginLookup, mvars
    <3> QED
      BY <1>1, <1>2, <1>3, <3>1 DEF CoordOf, handler
  <2> QED
    BY <2>1, <2>2
<1>8. CASE BeginAct(t)
  BY <1>4, <1>8 DEF BeginAct, BeginSetsTarget, mvars, status
<1>9. CASE BeginBind(t)
  <2>1. CASE pipeline = 0
    BY <1>4, <1>9, <2>1 DEF BeginBind, BeginFail, status
  <2>2. CASE pipeline # 0
    <3>1. hpc[h] \notin {"make", "install"} /\ operation' = pipeline /\ stage'[t] = "call"
      BY <1>3, <1>9, <2>2 DEF BeginBind
    <3> QED
      BY <1>1, <1>2, <1>3, <3>1 DEF CoordOf, handler
  <2> QED
    BY <2>1, <2>2
<1>10. CASE RunLookup(t) \/ SwitchLookup(t)
  <2>1. pc[t] \in {"drain", "show", "switch"} /\ state' = state /\ UNCHANGED operation
    BY <1>10 DEF RunLookup, SwitchLookup, RunReturns, Switch, mvars, status
  <2>2. hpc[h] \notin {"make", "install"}
    BY <2>1 DEF CoordOf
  <2>3. stage'[t] \in {"act", "run"} => ref'[t] = pipeline
    BY <1>10 DEF RunLookup, SwitchLookup, OperationPipeline
  <2> QED
    BY <1>1, <1>2, <1>3, <2>1, <2>2, <2>3 DEF CoordOf, handler
<1>11. CASE RunStart(t) \/ RunEnd(t) \/ RunPublish(t) \/ SwitchAct(t)
  BY <1>4, <1>11 DEF RunStart, RunEnd, RunPublish, SwitchAct, RunReturns, Publish, Switch, mvars, status, InCallOf
<1>12. CASE (Drop(t) \/ Undisplay(t) \/ Release(t) \/ Check(t)) /\ UNCHANGED Sections
  <2>1. pc[t] \in Checks => AfterCheck(kind[t], pc[t]) \in SequenceLabel
    BY OperationTyped
  <2> QED
    BY <1>4, <1>12, <2>1 DEF Drop, Undisplay, Release, Check, Checks, End, status
<1>13. CASE Spawn(t) /\ UNCHANGED Sections
  BY <1>4, <1>13 DEF Spawn, status
<1>14. CASE (Enter(t) \/ Rollback(t) \/ SafeHoldApply(t)) /\ UNCHANGED Sections
  <2>1. /\ (Bound(t)' => Bound(t)) /\ (Asked(t)' => Asked(t))
        /\ UNCHANGED <<operation, stage, ref>>
    BY <1>14 DEF Enter, Rollback, SafeHoldApply, End, InCallOf
  <2>2. state \in {"REALTIME", "BUFFERING_TO_DELAY", "SAFE_HOLD", "ERROR"}
          => state' \in {"REALTIME", "BUFFERING_TO_DELAY", "SAFE_HOLD", "ERROR"}
    <3>1. CASE Enter(t)
      BY <3>1, AppliedOrNot DEF Enter, CanTransition, Transitions, WorkTransitions, Working, Kind
    <3>2. CASE Rollback(t)
      BY <3>2, AppliedOrNot
         DEF Rollback, CanTransition, Transitions, WorkTransitions, Source, Aborted, Kind
    <3>3. CASE SafeHoldApply(t)
      BY <3>3, AppliedOrNot DEF SafeHoldApply
    <3> QED
      BY <1>14, <3>1, <3>2, <3>3
  <2> QED
    BY <1>1, <1>2, <2>1, <2>2 DEF CoordOf, handler
<1>15. CASE (Hold(t) \/ Finish(t)) /\ UNCHANGED Sections
  <2>1. pc[t] \in {"hold", "final"} /\ (Bound(t)' => Bound(t)) /\ UNCHANGED <<operation, stage, ref>>
    BY <1>15 DEF Hold, Finish
  <2>2. hpc[h] \notin {"make", "install"}
    BY <2>1 DEF CoordOf
  <2> QED
    BY <1>1, <1>2, <2>1, <2>2 DEF CoordOf, handler
<1> QED
  BY <1>5, <1>6, <1>7, <1>8, <1>9, <1>10, <1>11, <1>12, <1>13, <1>14, <1>15, OpKinds

LEMMA CoordStep ==
    ASSUME OneConnection, Base, CoordInv, [SessionNext]_svars
    PROVE  CoordInv'
<1>1. ASSUME NEW h \in Conns, UNCHANGED <<handler, Engine, pc>>, state' = state \/ state' = "ERROR" \/ Boot
      PROVE  CoordOf(h)'
  <2>1. Boot => state \in {"STOPPED", "STARTING"}
    BY DEF Boot, Apply, CanTransition, Transitions, WorkTransitions, SessionStates, Streaming
  <2> QED
    BY <1>1, <2>1 DEF CoordInv, CoordOf, Given, Live, Bound, Asked, At, handler, Engine, coordinator, opCall
<1>2. CASE (Boot /\ UNCHANGED <<handler, Engine>>) \/ UNCHANGED svars
  BY <1>1, <1>2 DEF CoordInv, Boot, svars, mvars, status, Engine
<1>3. ASSUME NEW c \in Callers, (MarkError(c) \/ Fail(c)) /\ UNCHANGED <<handler, Engine>> PROVE CoordInv'
  BY <1>1, <1>3 DEF CoordInv, MarkError, Fail, Apply, status
<1>4. ASSUME NEW t \in Ops, OpSteps(t) PROVE CoordInv'
  BY <1>4, CoordOp DEF CoordInv
<1>5. ASSUME NEW h \in Conns, ConnSteps(h) PROVE CoordInv'
  BY <1>5, CoordConn DEF CoordInv, OneConnection
<1> QED
  BY <1>2, <1>3, <1>4, <1>5, AllSteps
-----------------------------------------------------------------------------
(* One connection: the output's policy.                                    *)

(* The policy that an operation has come from, and the one it goes to.     *)
Resting(k) == IF k = "enable_delay" THEN "passthrough" ELSE "delayed"
Settled(k) == IF k = "enable_delay" THEN "delayed" ELSE "passthrough"

(* The operation has not begun, and may yet step the state back.           *)
Unbegun(t) == pc[t] \in {"drop", "rollback"} \/ (pc[t] = "begin" /\ At(t, "call"))

PolicyOf(h) ==
    Live(h) =>
      /\ state = "DELAYED" => policy[hpipe[h]] = "delayed"
      /\ state = "REALTIME" /\ InitialDelay = 0 => policy[hpipe[h]] = "passthrough"
      /\ \A t \in Ops : pc[t] \in {"switched", "final"} => policy[hpipe[h]] = Settled(kind[t])
      /\ \A t \in Ops :
           Unbegun(t) /\ state # "ERROR" /\ (kind[t] = "enable_delay" => InitialDelay = 0)
             => policy[hpipe[h]] = Resting(kind[t])

(* A pipeline that is not yet, or no more, a session's is not delayed.     *)
IdleInv == InitialDelay = 0 => \A p \in Pipes : ~Running(p) => policy[p] = "passthrough"

PolicyInv == IdleInv /\ \A h \in Conns : PolicyOf(h)

(* An operation steers only a pipeline that runs.                          *)
LEMMA OpSteers ==
    ASSUME Base, NEW t \in Ops, OpSteps(t), NEW p \in Pipes, policy'[p] # policy[p]
    PROVE  Running(p) /\ ref[t] = p /\ (BeginAct(t) \/ RunStart(t) \/ SwitchAct(t))
<1>0. policy \in [Pipes -> Policy]
  BY DEF Base, SessionTypeOK
<1>1. BeginAct(t) \/ RunStart(t) \/ SwitchAct(t)
  BY OpKinds DEF BeginLookup, BeginBind, RunLookup, RunEnd, RunPublish, SwitchLookup, Sections
<1>2. PICK to : Steer(t, to) \/ UNCHANGED policy
  BY <1>1 DEF BeginAct, RunStart, SwitchAct
<1> QED
  BY <1>0, <1>1, <1>2 DEF Steer, SetPolicy

LEMMA IdleStep ==
    ASSUME Base, IdleInv, [SessionNext]_svars
    PROVE  IdleInv'
<1> SUFFICES ASSUME InitialDelay = 0, NEW p \in Pipes, ~Running(p)' PROVE policy'[p] = "passthrough"
  BY DEF IdleInv
<1>1. CASE UNCHANGED <<handler, policy>>
  BY <1>1 DEF IdleInv, Running, handler
<1>2. ASSUME NEW t \in Ops, OpSteps(t) PROVE policy'[p] = "passthrough"
  <2>1. ~Running(p)
    BY <1>2, OpKeeps DEF Running, OpSteps, handler
  <2> QED
    BY <1>2, <2>1, OpSteers DEF IdleInv
<1>3. ASSUME NEW h \in Conns, ConnSteps(h) PROVE policy'[p] = "passthrough"
  <2>1. CASE StopPipeline(h)
    <3>1. taken[h][1] = p \/ ~Running(p)
      BY <1>3, RunningStays DEF Base, ConnSteps
    <3> QED
      BY <2>1, <3>1 DEF StopPipeline, IdleInv
  <2>2. CASE ~StopPipeline(h)
    <3>1. ~Running(p)
      BY <1>3, <2>2, RunningStays DEF Base, ConnSteps
    <3>2. policy' = policy
      BY <1>3, <2>2
         DEF ConnSteps, Connect, OnPublish, OnUnpublish, OnClose, EndSession, MediaError, Engine,
             HandlerStep, TakeSession, ClearPipeline, Disconnecting, DisconnectStep, Disconnected,
             Prepare, Dial, DialFails, Rejected, Input, Output, MakePipeline, SetPipeline
    <3> QED
      BY <3>1, <3>2 DEF IdleInv
  <2> QED
    BY <2>1, <2>2
<1> QED
  BY <1>1, <1>2, <1>3, AllSteps DEF Engine, svars

LEMMA PolicyConn ==
    ASSUME OneConnection, Base, IdleInv, NEW h \in Conns, ConnSteps(h), CoordOf(h), PolicyOf(h)
    PROVE  PolicyOf(h)'
<1> SUFFICES ASSUME Live(h)' PROVE PolicyOf(h)'
  BY DEF PolicyOf
<1>0. /\ HandlerShape(h) /\ PublisherShape(h)
      /\ UNCHANGED <<pc, kind, stage>>
      /\ hpc \in [Conns -> HandlerPc] /\ hpipe \in [Conns -> Pipes \cup {0}]
      /\ sessionActive \in [Conns -> BOOLEAN]
      /\ attempt \in [Conns -> Pipes \cup {0}]
  BY HandlerLeavesOps DEF Base, ShapeInv, SessionTypeOK, ConnSteps
<1>1. CASE SetPipeline(h)
  <2>1. /\ state \in {"REALTIME", "BUFFERING_TO_DELAY", "SAFE_HOLD", "ERROR"}
        /\ \A t \in Ops : pc[t] \notin {"switched", "final"}
        /\ UNCHANGED <<state, policy>>
    BY <1>1 DEF SetPipeline, Step, CoordOf, Asked, Bound, SequenceLabel, mvars, status
  <2>2. hpipe'[h] = attempt[h] /\ attempt[h] \in Pipes
    BY <1>0, <1>1 DEF SetPipeline, Step, PublisherShape, Publishing
  <2>3. InitialDelay = 0 => policy[attempt[h]] = "passthrough"
    BY <1>0, <1>1, <2>2 DEF IdleInv, Running, OneConnection, SetPipeline, Step, HandlerShape, Pipes
  <2>4. \A t \in Ops : Unbegun(t) => kind[t] = "enable_delay" \/ state = "ERROR"
    <3> SUFFICES ASSUME NEW t \in Ops, Unbegun(t) PROVE kind[t] = "enable_delay" \/ state = "ERROR"
      OBVIOUS
    <3>1. kind[t] \in Kind /\ state \in {Working(kind[t]), "READY", "ERROR"}
      BY DEF Base, TypeOK, DriveInv, InPlace, Unbegun, PreHold
    <3> QED
      BY <2>1, <3>1 DEF Working, Kind
  <2> QED
    BY <1>0, <2>1, <2>2, <2>3, <2>4 DEF PolicyOf, Unbegun, Resting, At
<1>2. CASE ~SetPipeline(h)
  <2>1. Live(h) /\ hpipe'[h] = hpipe[h] /\ UNCHANGED <<state, policy>>
    <3> USE <1>0 DEF Live, HandlerShape, Step, Fields, Locals, Engine, mvars, status
    <3>1. CASE Connect(h) \/ OnPublish(h) \/ OnUnpublish(h) \/ OnClose(h) \/ MediaError(h)
      BY <3>1 DEF Connect, OnPublish, OnUnpublish, OnClose, EndSession, MediaError, MarkError, handler
    <3>2. CASE TakeSession(h) \/ ClearPipeline(h) \/ StopPipeline(h)
      BY <3>2 DEF TakeSession, ClearPipeline, StopPipeline
    <3>3. CASE Disconnecting(h) \/ DisconnectStep(h) \/ Disconnected(h)
      BY <3>3 DEF Disconnecting, DisconnectStep, Disconnected, Invalidate, Return, handler
    <3>4. CASE Prepare(h) \/ Dial(h) \/ DialFails(h) \/ Rejected(h)
      BY <3>4 DEF Prepare, Dial, DialFails, Rejected
    <3>5. CASE Input(h) \/ Output(h) \/ MakePipeline(h)
      BY <3>5 DEF Input, Output, MakePipeline
    <3> QED
      BY <1>2, <3>1, <3>2, <3>3, <3>4, <3>5 DEF ConnSteps, HandlerStep
  <2> QED
    BY <1>0, <2>1 DEF PolicyOf, Unbegun, At
<1> QED
  BY <1>1, <1>2

LEMMA PolicyOp ==
    ASSUME Base, NEW h \in Conns, NEW t \in Ops, OpSteps(t), CoordOf(h), PolicyOf(h)
    PROVE  PolicyOf(h)'
<1>0. /\ UNCHANGED <<handler, pipeline>>
      /\ \A u \in Ops \ {t} : pc'[u] = pc[u] /\ stage'[u] = stage[u] /\ kind'[u] = kind[u]
      /\ state \in Outside => state' = state
      /\ InCallOf(t) /\ kind[t] \in Kind /\ InPlace(t)
      /\ \A u \in Ops : Driving(t) /\ Driving(u) => t = u
      /\ pc \in [Ops -> Label] /\ kind \in [Ops -> Kind]
      /\ stage \in [Ops -> {"call", "act", "bind", "run"}]
      /\ policy \in [Pipes -> Policy] /\ hpipe[h] \in Pipes \cup {0}
      /\ Live(h) => hpc[h] \in {"open", "take"}
  BY OpLocal, OpKeeps, OpsStayInside
     DEF Base, CallInv, DriveInv, TypeOK, SessionTypeOK, ShapeInv, HandlerShape, Live, OpSteps
<1>1. UNCHANGED hpipe /\ Live(h)' = Live(h)
  BY <1>0 DEF Live, handler
<1> SUFFICES ASSUME Live(h) PROVE PolicyOf(h)'
  BY <1>1 DEF PolicyOf
<1>2. hpipe[h] \in Pipes /\ pipeline = hpipe[h] /\ pipeline # 0
  BY <1>0 DEF CoordOf, Given, Live
<1>3. \A u \in Ops \ {t} : Unbegun(u)' = Unbegun(u)
  BY <1>0 DEF Unbegun, At
<1>o. \A u \in Ops : Unbegun(u) \/ pc[u] \in {"switched", "final"} => Driving(u)
  BY DEF Unbegun, Driving, PreHold, PostHold
<1>w. /\ \A k \in Kind : Working(k) \notin {"SAFE_HOLD", "REALTIME", "DELAYED"}
      /\ "ERROR" \in Outside
  BY DEF Working, Kind, Outside
(* Nothing is steered.                                                     *)
<1>4. ASSUME policy'[hpipe[h]] = policy[hpipe[h]],
             Unbegun(t)' => Unbegun(t) /\ kind'[t] = kind[t],
             pc'[t] \in {"switched", "final"} => pc[t] \in {"switched", "final"} /\ kind'[t] = kind[t],
             state' \notin {"DELAYED", "REALTIME"} \/ state' = state
      PROVE  PolicyOf(h)'
  <2>1. state' # "ERROR" => state # "ERROR"
    BY <1>0, <1>w
  <2> QED
    BY <1>0, <1>1, <1>3, <1>4, <2>1 DEF PolicyOf
(* The one operation that drives the machine steers, where the state is    *)
(* its own.                                                                *)
<1>5. ASSUME Driving(t), state' = state, ~Unbegun(t)', kind'[t] = kind[t],
             pc'[t] \in {"switched", "final"} => policy'[hpipe[h]] = Settled(kind[t])
      PROVE  PolicyOf(h)'
  <2>1. state \notin {"DELAYED", "REALTIME"}
    BY <1>0, <1>5, <1>w DEF Driving, InPlace
  <2>2. \A u \in Ops \ {t} : ~Unbegun(u)' /\ pc'[u] \notin {"switched", "final"}
    BY <1>0, <1>3, <1>5, <1>o
  <2> QED
    BY <1>1, <1>5, <2>1, <2>2 DEF PolicyOf
<1> USE <1>0 DEF Goto, Move, At, Unbegun
<1>6. CASE BeginAct(t)
  BY <1>5, <1>6 DEF BeginAct, BeginSetsTarget, Driving, PreHold, mvars, status, request
<1>7. CASE RunStart(t)
  BY <1>5, <1>7 DEF RunStart, Driving, PreHold, PostHold, mvars, status, request
<1>8. CASE SwitchAct(t)
  <2>1. pc[t] = "switch" /\ pc'[t] = "switched" /\ UNCHANGED <<state, kind>>
    BY <1>8 DEF SwitchAct, Switch, status, request
  <2>2. ref[t] = hpipe[h] /\ Running(ref[t])
    BY <1>8 DEF SwitchAct, CoordOf, Running
  <2>3. policy'[hpipe[h]] = Settled(kind[t])
    BY <1>2, <1>8, <2>2 DEF SwitchAct, Steer, SetPolicy, Settled
  <2> QED
    BY <1>5, <2>1, <2>3 DEF Driving, PostHold
<1>9. CASE ~(BeginAct(t) \/ RunStart(t) \/ SwitchAct(t))
  <2>0. policy'[hpipe[h]] = policy[hpipe[h]]
    BY <1>2, <1>9, OpSteers
  <2>1. ASSUME NEW k \in Kind, NEW d \in Targets, Claim(t, k, d) PROVE PolicyOf(h)'
    BY <1>4, <2>0, <2>1 DEF Claim, status
  <2>2. CASE SafeHoldCheck(t)
    BY <1>4, <2>0, <2>2 DEF SafeHoldCheck, status
  <2>3. CASE BeginLookup(t) \/ BeginBind(t)
    BY <1>2, <1>4, <2>0, <2>3 DEF BeginLookup, BeginBind, BeginOk, mvars, status, request
  <2>4. CASE RunLookup(t) \/ RunEnd(t) \/ RunPublish(t)
    BY <1>4, <2>0, <2>4 DEF RunLookup, RunEnd, RunPublish, RunReturns, Publish, mvars, status, request, opCall
  <2>5. CASE SwitchLookup(t)
    <3>1. OperationPipeline # 0
      BY <1>2, <2>5 DEF SwitchLookup, CoordOf, Bound, SequenceLabel, OperationPipeline
    <3> QED
      BY <1>4, <2>0, <2>5, <3>1 DEF SwitchLookup, mvars, status
  <2>6. CASE Enter(t) /\ UNCHANGED Sections
    <3>1. CASE Apply(Working(kind[t]), kind[t]) /\ Goto(t, "enter", "begin")
      <4>1. state = Source(kind[t]) /\ state' = Working(kind[t])
        BY <3>1 DEF Apply, CanTransition, Transitions, WorkTransitions, Working, Source, Kind
      <4>2. (kind[t] = "enable_delay" => InitialDelay = 0) => policy[hpipe[h]] = Resting(kind[t])
        BY <4>1 DEF PolicyOf, Source, Resting
      <4>3. pc'[t] = "begin" /\ kind' = kind
        BY <2>6, <3>1 DEF Enter, request
      <4>4. state # "ERROR"
        BY <4>1 DEF Source
      <4> QED
        BY <1>1, <1>3, <1>w, <2>0, <4>1, <4>2, <4>3, <4>4 DEF PolicyOf
    <3>2. CASE Refused(Working(kind[t]), kind[t]) /\ Goto(t, "enter", "release")
      BY <1>4, <2>0, <3>2 DEF Refused, status
    <3> QED
      BY <2>6, <3>1, <3>2 DEF Enter
  <2>7. CASE Rollback(t) /\ UNCHANGED Sections
    <3>1. pc[t] = "rollback" /\ pc'[t] = "idle"
      BY <2>7 DEF Rollback, End
    <3>2. CASE state' = state
      BY <1>4, <2>0, <3>1, <3>2
    <3>3. CASE state = Working(kind[t]) /\ state' = Source(kind[t])
      <4>1. /\ state # "ERROR"
            /\ state' = "DELAYED" => kind[t] # "enable_delay"
            /\ state' = "REALTIME" => kind[t] = "enable_delay"
        BY <3>3 DEF Working, Source, Kind
      <4> QED
        BY <1>1, <1>3, <2>0, <3>1, <4>1 DEF PolicyOf, Resting
    <3> QED
      BY <2>7, <3>2, <3>3, AppliedOrNot
         DEF Rollback, CanTransition, Transitions, WorkTransitions, Working, Source, Aborted, Kind
  <2>8. CASE (SafeHoldApply(t) \/ Hold(t)) /\ UNCHANGED Sections
    <3>1. state' = state \/ state' = "SAFE_HOLD"
      BY <2>8, AppliedOrNot DEF SafeHoldApply, Hold
    <3> QED
      BY <1>4, <2>0, <2>8, <3>1 DEF SafeHoldApply, Hold
  <2>9. CASE (Drop(t) \/ Spawn(t) \/ Undisplay(t) \/ Release(t)) /\ UNCHANGED Sections
    BY <1>4, <2>0, <2>9 DEF Drop, Spawn, Undisplay, Release, End, status, request
  <2>10. CASE Check(t) /\ UNCHANGED Sections
    BY <1>4, <2>0, <2>10 DEF Check, Checks, AfterCheck, Kind, status, request
  <2>11. CASE Finish(t) /\ UNCHANGED Sections
    <3>1. pc[t] = "final" /\ pc'[t] = "undisplay" /\ policy[hpipe[h]] = Settled(kind[t])
      BY <2>11 DEF Finish, PolicyOf
    <3>2. state' = state \/ state' = Goal(kind[t])
      BY <2>11, AppliedOrNot DEF Finish
    <3>3. state' # "ERROR" => state # "ERROR"
      BY <1>w
    <3> QED
      BY <1>1, <1>3, <2>0, <3>1, <3>2, <3>3 DEF PolicyOf, Settled, Goal
  <2> QED
    BY <1>9, <2>1, <2>2, <2>3, <2>4, <2>5, <2>6, <2>7, <2>8, <2>9, <2>10, <2>11, OpKinds
<1> QED
  BY <1>6, <1>7, <1>8, <1>9

LEMMA PolicyStep ==
    ASSUME OneConnection, Base, CoordInv, PolicyInv, [SessionNext]_svars
    PROVE  PolicyInv'
<1> SUFFICES ASSUME NEW h \in Conns PROVE PolicyOf(h)'
  BY IdleStep DEF PolicyInv
<1>0. PolicyOf(h) /\ CoordOf(h) /\ IdleInv
  BY DEF PolicyInv, CoordInv
<1>1. ASSUME UNCHANGED <<handler, policy, pc, kind, stage>>,
             state' = state \/ state' = "ERROR" \/ (state' \in {"STARTING", "READY"} /\ state # "ERROR")
      PROVE  PolicyOf(h)'
  BY <1>0, <1>1 DEF PolicyOf, Live, Unbegun, At, handler
<1>2. CASE Boot /\ UNCHANGED <<handler, Engine>>
  <2>1. state' \in {"STARTING", "READY"} /\ state # "ERROR"
    BY <1>2 DEF Boot, Apply, CanTransition, Transitions, WorkTransitions, SessionStates, Streaming
  <2> QED
    BY <1>1, <1>2, <2>1 DEF Boot, Engine, opCall, request
<1>3. ASSUME NEW c \in Callers, (MarkError(c) \/ Fail(c)) /\ UNCHANGED <<handler, Engine>>
      PROVE  PolicyOf(h)'
  BY <1>1, <1>3 DEF MarkError, Fail, Apply, status, request, Engine, opCall
<1>4. CASE UNCHANGED svars
  BY <1>1, <1>4 DEF svars, mvars, status, request, opCall
<1>5. ASSUME NEW t \in Ops, OpSteps(t) PROVE PolicyOf(h)'
  BY <1>0, <1>5, PolicyOp
<1>6. ASSUME NEW g \in Conns, ConnSteps(g) PROVE PolicyOf(h)'
  BY <1>0, <1>6, PolicyConn DEF OneConnection
<1> QED
  BY <1>2, <1>3, <1>4, <1>5, <1>6, AllSteps

(* One connection, and what it leaves behind is gone before the next.      *)
Alone == OneConnection /\ ~Lingering

LEMMA PolicyAlways == Alone /\ SessionSpec => []PolicyInv
<1> SUFFICES ASSUME Alone PROVE SessionSpec => []PolicyInv
  OBVIOUS
<1>1. Orderly
  BY OneIsPublisher DEF Alone, Orderly
<1>2. SessionInit => CoordInv /\ PolicyInv
  <2> SUFFICES ASSUME SessionInit PROVE CoordInv /\ PolicyInv
    OBVIOUS
  <2>1. \A h \in Conns : hpc[h] = "closed" /\ ~Live(h)
    BY DEF SessionInit, Live
  <2>2. pipeline = 0 /\ \A p \in Pipes : policy[p] = "passthrough"
    BY DEF SessionInit
  <2> QED
    BY <2>1, <2>2 DEF CoordInv, CoordOf, Given, PolicyInv, PolicyOf, IdleInv
<1>3. Base /\ CoordInv /\ PolicyInv /\ [SessionNext]_svars => CoordInv' /\ PolicyInv'
  BY CoordStep, PolicyStep DEF Alone
<1> QED
  BY <1>1, <1>2, <1>3, BaseInit, BaseStep, PTL DEF SessionSpec

(* What the API reports is what the platform receives: while it reports    *)
(* DELAYED the output comes out of the delay buffer, in every session and  *)
(* however operations, failures and disconnections interleave.             *)
THEOREM DelayedIsDelayed == Alone /\ SessionSpec => []DelayedMeansDelayed
<1>1. PolicyInv => DelayedMeansDelayed
  BY DEF PolicyInv, PolicyOf, DelayedMeansDelayed
<1> QED
  BY <1>1, PolicyAlways, PTL

(* While it reports REALTIME, and no delay is configured from the start,   *)
(* the output is the live input.                                           *)
THEOREM RealtimeIsLive == Alone /\ SessionSpec => []RealtimeMeansLive
<1>1. PolicyInv => RealtimeMeansLive
  BY DEF PolicyInv, PolicyOf, RealtimeMeansLive
<1> QED
  BY <1>1, PolicyAlways, PTL
=============================================================================
