------------------------ MODULE RelayMachine_proofs ------------------------
(***************************************************************************)
(* Proofs about RelayMachine, for any number of requests, callers, delays  *)
(* and sessions: its type invariant and its three safety invariants.       *)
(***************************************************************************)
EXTENDS RelayMachine, TLAPS

(* Every step is one of these actions; the proofs below go through them.   *)
LEMMA StepCases ==
  ASSUME [Next]_mvars
  PROVE  \/ Boot
         \/ \E t \in Ops :
              \/ \E k \in Kind, d \in Targets : Claim(t, k, d)
              \/ Enter(t) \/ BeginSetsTarget(t) \/ BeginOk(t) \/ BeginFail(t)
              \/ Drop(t) \/ Rollback(t) \/ Spawn(t)
              \/ SafeHoldCheck(t) \/ SafeHoldApply(t)
              \/ Check(t) \/ Hold(t) \/ RunReturns(t) \/ Finish(t)
              \/ \E message \in BOOLEAN : Publish(t, message)
              \/ \E live \in BOOLEAN : Switch(t, live)
              \/ Undisplay(t) \/ Release(t)
         \/ \E c \in Callers :
              \/ PrepareNewSession(c) \/ ConnectInput(c) \/ ConnectOutput(c)
              \/ MarkError(c) \/ Disconnect(c)
              \/ \E d \in Targets : SetFixedDelayTarget(c, d)
              \/ Fail(c) \/ Invalidate(c) \/ Leave(c)
         \/ UNCHANGED mvars
  BY DEF Next, Ask, Work, Report, Call, InCall
-----------------------------------------------------------------------------
(* The type invariant.                                                     *)

(* A step that apply takes is to a state, with flags that are Boolean.     *)
LEMMA ApplyTyped ==
  ASSUME NEW to \in State, NEW trigger, TypeOK,
         Apply(to, trigger) \/ Refused(to, trigger)
  PROVE  /\ state' \in State
         /\ inputConnected' \in BOOLEAN
         /\ outputConnected' \in BOOLEAN
<1>1. state' \in State
  BY DEF TypeOK, Apply, Refused, status
<1>2. ASSUME NEW before \in BOOLEAN
      PROVE  InputFlag(to, before) \in BOOLEAN /\ OutputFlag(to, before) \in BOOLEAN
  <2>1. CASE to = "SAFE_HOLD"
    BY <2>1, Zenon DEF InputFlag, OutputFlag
  <2>2. CASE to # "SAFE_HOLD"
    BY <2>2 DEF InputFlag, OutputFlag
  <2> QED
    BY <2>1, <2>2
<1>3. CASE Apply(to, trigger)
  BY <1>1, <1>2, <1>3 DEF TypeOK, Apply
<1>4. CASE Refused(to, trigger)
  BY <1>1, <1>4, Zenon DEF TypeOK, Refused, status
<1> QED
  BY <1>3, <1>4

(* The states an operation asks for are states, and each check leads on.   *)
LEMMA OperationTyped ==
  ASSUME NEW k \in Kind
  PROVE  /\ Source(k) \in State
         /\ Working(k) \in State
         /\ Goal(k) \in State
         /\ \A l \in Checks : AfterCheck(k, l) \in SequenceLabel
  BY DEF Kind, Source, Working, Goal, State, Checks, AfterCheck, SequenceLabel

(* NewMachine starts well typed: no claim, no goroutine running.         *)
LEMMA TypeInit == Init => TypeOK
<1> SUFFICES ASSUME Init
             PROVE  TypeOK
  OBVIOUS
<1>1. /\ inputConnected \in BOOLEAN /\ outputConnected \in BOOLEAN
      /\ transitionPending \in BOOLEAN
      /\ slateMessage \in BOOLEAN /\ lastError \in BOOLEAN
  BY Zenon DEF Init
<1>2. state \in State /\ transitionEpoch \in Nat /\ targetDelaySeconds \in Targets \cup {0}
  BY DEF Init, State
<1>3. pc \in [Ops -> Label] /\ kind \in [Ops -> Kind] /\ want \in [Ops -> Targets \cup {0}]
  BY DEF Init, Label, Kind
<1>4. /\ opEpoch \in [Ops -> Nat]
      /\ callerPc \in [Callers -> {"idle", "invalidate", "leave", "fail"}]
  BY DEF Init
<1> QED
  BY <1>1, <1>2, <1>3, <1>4, Zenon DEF TypeOK

(* Every locked section leaves the machine well typed.                   *)
LEMMA TypeStep == TypeOK /\ [Next]_mvars => TypeOK'
<1> SUFFICES ASSUME TypeOK, [Next]_mvars
             PROVE  TypeOK'
  OBVIOUS
<1> USE DEF TypeOK, mvars, status, display, claim, request
<1>a. ASSUME NEW t \in Ops, NEW k \in Kind, NEW d \in Targets, Claim(t, k, d)
      PROVE  TypeOK'
  BY <1>a DEF Claim, Label, HandlerLabel
<1>b. ASSUME NEW t \in Ops, Enter(t)
      PROVE  TypeOK'
  BY <1>b, ApplyTyped, OperationTyped DEF Enter, Goto, Label, HandlerLabel
<1>c. ASSUME NEW t \in Ops, BeginSetsTarget(t) \/ BeginOk(t) \/ BeginFail(t)
      PROVE  TypeOK'
  BY <1>c DEF BeginSetsTarget, BeginOk, BeginFail, Goto, Label, HandlerLabel
<1>d. ASSUME NEW t \in Ops, Drop(t) \/ Spawn(t)
      PROVE  TypeOK'
  BY <1>d DEF Drop, Spawn, Goto, Label, SequenceLabel
<1>e. ASSUME NEW t \in Ops, Rollback(t)
      PROVE  TypeOK'
  BY <1>e, ApplyTyped, OperationTyped DEF Rollback, End, Goto, Label, Kind
<1>f. ASSUME NEW t \in Ops, SafeHoldCheck(t)
      PROVE  TypeOK'
  BY <1>f DEF SafeHoldCheck, Goto, Label
<1>g. ASSUME NEW t \in Ops, SafeHoldApply(t)
      PROVE  TypeOK'
  BY <1>g, ApplyTyped DEF SafeHoldApply, Goto, Label, State
<1>h. ASSUME NEW t \in Ops, Check(t)
      PROVE  TypeOK'
  BY <1>h, OperationTyped DEF Check, Goto, Label
<1>i. ASSUME NEW t \in Ops, Hold(t)
      PROVE  TypeOK'
  BY <1>i, ApplyTyped DEF Hold, Goto, Label, SequenceLabel, State
<1>j. ASSUME NEW t \in Ops, RunReturns(t)
      PROVE  TypeOK'
  BY <1>j DEF RunReturns, Goto, Label, SequenceLabel
<1>k. ASSUME NEW t \in Ops, Finish(t)
      PROVE  TypeOK'
  BY <1>k, ApplyTyped, OperationTyped DEF Finish, Goto, Label
<1>l. ASSUME NEW t \in Ops, NEW message \in BOOLEAN, Publish(t, message)
      PROVE  TypeOK'
  BY <1>l DEF Publish
<1>m. ASSUME NEW t \in Ops, NEW live \in BOOLEAN, Switch(t, live)
      PROVE  TypeOK'
  BY <1>m DEF Switch, Goto, Label, SequenceLabel
<1>n. ASSUME NEW t \in Ops, Undisplay(t) \/ Release(t)
      PROVE  TypeOK'
  <2>1. slateMessage' \in BOOLEAN /\ transitionPending' \in BOOLEAN
    BY <1>n, Zenon DEF Undisplay, Release
  <2> QED
    BY <1>n, <2>1 DEF Undisplay, Release, End, Goto, Label, Kind
<1>o. ASSUME Boot
      PROVE  TypeOK'
  BY <1>o, ApplyTyped DEF Boot, State
<1>p. ASSUME NEW c \in Callers, ConnectInput(c) \/ ConnectOutput(c)
      PROVE  TypeOK'
  BY <1>p, ApplyTyped DEF ConnectInput, ConnectOutput, State
<1>q. ASSUME NEW c \in Callers, PrepareNewSession(c) \/ MarkError(c) \/ Disconnect(c)
      PROVE  TypeOK'
  BY <1>q DEF PrepareNewSession, MarkError, Disconnect, Return
<1>r. ASSUME NEW c \in Callers, NEW d \in Targets, SetFixedDelayTarget(c, d)
      PROVE  TypeOK'
  BY <1>r DEF SetFixedDelayTarget
<1>s. ASSUME NEW c \in Callers, Fail(c) \/ Leave(c)
      PROVE  TypeOK'
  BY <1>s, ApplyTyped DEF Fail, Leave, Return, State
<1>t. ASSUME NEW c \in Callers, Invalidate(c)
      PROVE  TypeOK'
  <2>1. slateMessage' \in BOOLEAN /\ transitionPending' \in BOOLEAN
    BY <1>t, Zenon DEF Invalidate
  <2> QED
    BY <1>t, <2>1 DEF Invalidate, Return
<1>u. CASE UNCHANGED mvars
  BY <1>u
<1> QED
  BY <1>a, <1>b, <1>c, <1>d, <1>e, <1>f, <1>g, <1>h, <1>i, <1>j, <1>k, <1>l,
     <1>m, <1>n, <1>o, <1>p, <1>q, <1>r, <1>s, <1>t, <1>u, StepCases

(* Every variable of the machine keeps its type.                           *)
THEOREM TypeCorrect == Spec => []TypeOK
  BY TypeInit, TypeStep, PTL DEF Spec
-----------------------------------------------------------------------------
(* The connection flags.                                                   *)

(* apply keeps the flags in step with the state it enters: the transitions *)
(* to SAFE_HOLD, which keep them, all start where both are up.             *)
LEMMA ApplyFlags ==
  ASSUME NEW to \in State, NEW trigger, ConnectionFlags,
         Apply(to, trigger) \/ Refused(to, trigger)
  PROVE  ConnectionFlags'
<1>1. CASE Refused(to, trigger)
  BY <1>1 DEF Refused, status, ConnectionFlags
<1>2. CASE Apply(to, trigger) /\ to # "SAFE_HOLD"
  BY <1>2 DEF Apply, ConnectionFlags, InputFlag, OutputFlag
<1>3. CASE Apply(to, trigger) /\ to = "SAFE_HOLD"
  <2>1. state \in Streaming
    BY <1>3 DEF Apply, CanTransition, Transitions, WorkTransitions, Streaming
  <2> QED
    BY <1>3, <2>1 DEF Apply, ConnectionFlags, InputFlag, OutputFlag, Streaming
<1> QED
  BY <1>1, <1>2, <1>3

(* Every locked section that changes the state syncs the flags with it.  *)
LEMMA FlagsStep == TypeOK /\ ConnectionFlags /\ [Next]_mvars => ConnectionFlags'
<1> SUFFICES ASSUME TypeOK, ConnectionFlags, [Next]_mvars
             PROVE  ConnectionFlags'
  OBVIOUS
<1>1. CASE UNCHANGED status
  BY <1>1 DEF status, ConnectionFlags
<1>2. ASSUME NEW t \in Ops, Enter(t) \/ Rollback(t) \/ Finish(t)
      PROVE  ConnectionFlags'
  <2>1. kind[t] \in Kind
    BY DEF TypeOK
  <2> QED
    BY <1>2, <2>1, ApplyFlags, OperationTyped DEF Enter, Rollback, Finish
<1>3. ASSUME NEW t \in Ops, SafeHoldApply(t) \/ Hold(t)
      PROVE  ConnectionFlags'
  BY <1>3, ApplyFlags DEF SafeHoldApply, Hold, State
<1>4. CASE Boot
  BY <1>4, ApplyFlags DEF Boot, State
<1>5. ASSUME NEW c \in Callers,
             ConnectInput(c) \/ ConnectOutput(c) \/ Fail(c) \/ Leave(c)
      PROVE  ConnectionFlags'
  BY <1>5, ApplyFlags DEF ConnectInput, ConnectOutput, Fail, Leave, State
<1>6. ASSUME NEW t \in Ops,
             \/ \E k \in Kind, d \in Targets : Claim(t, k, d)
             \/ BeginSetsTarget(t) \/ BeginOk(t) \/ BeginFail(t)
             \/ Drop(t) \/ Spawn(t) \/ SafeHoldCheck(t) \/ Check(t) \/ RunReturns(t)
             \/ \E message \in BOOLEAN : Publish(t, message)
             \/ \E live \in BOOLEAN : Switch(t, live)
             \/ Undisplay(t) \/ Release(t)
      PROVE  UNCHANGED status
  BY <1>6 DEF Claim, BeginSetsTarget, BeginOk, BeginFail, Drop, Spawn,
              SafeHoldCheck, Check, RunReturns, Publish, Switch, Undisplay, Release
<1>7. ASSUME NEW c \in Callers,
             \/ PrepareNewSession(c) \/ MarkError(c) \/ Disconnect(c) \/ Invalidate(c)
             \/ \E d \in Targets : SetFixedDelayTarget(c, d)
      PROVE  UNCHANGED status
  BY <1>7 DEF PrepareNewSession, MarkError, Disconnect, Invalidate, SetFixedDelayTarget
<1>8. CASE UNCHANGED mvars
  BY <1>8, <1>1 DEF mvars
<1> QED
  BY <1>1, <1>2, <1>3, <1>4, <1>5, <1>6, <1>7, <1>8, StepCases

(* The flags the status API reports follow from the state in every session *)
(* of every run: syncConnectionFlagsLocked forgets no transition.          *)
THEOREM FlagsFollowState == Spec => []ConnectionFlags
<1>1. Init => ConnectionFlags
  <2> SUFFICES ASSUME Init
               PROVE  ConnectionFlags
    OBVIOUS
  <2>1. ~inputConnected /\ ~outputConnected
    BY Zenon DEF Init
  <2>2. inputConnected \in BOOLEAN /\ outputConnected \in BOOLEAN
    BY TypeInit DEF TypeOK
  <2>3. state \notin Streaming \cup {"INGESTING", "SAFE_HOLD"}
    BY DEF Init, Streaming
  <2> QED
    BY <2>1, <2>2, <2>3 DEF ConnectionFlags
<1> QED
  BY <1>1, TypeCorrect, FlagsStep, PTL DEF Spec
-----------------------------------------------------------------------------
(* The claim: transitionPending.                                           *)

(* A thread that moves within a set of labels leaves the set inhabited.    *)
LEMMA MoveStays ==
  ASSUME NEW L, NEW t \in Ops, NEW from, NEW to, TypeOK,
         Goto(t, from, to), from \in L => to \in L,
         \E u \in Ops : pc[u] \in L
  PROVE  \E u \in Ops : pc'[u] \in L
<1> PICK u \in Ops : pc[u] \in L
  OBVIOUS
<1>1. pc'[u] = IF u = t THEN to ELSE pc[u]
  BY DEF Goto, TypeOK
<1> QED
  BY <1>1 DEF Goto

(* Whatever section runs, a claim left set has a thread to release it.   *)
LEMMA ClaimStep == TypeOK /\ NoOrphanPending /\ [Next]_mvars => NoOrphanPending'
<1> SUFFICES ASSUME TypeOK, NoOrphanPending, [Next]_mvars
             PROVE  NoOrphanPending'
  OBVIOUS
<1>1. CASE UNCHANGED <<transitionPending, pc>>
  BY <1>1 DEF NoOrphanPending
<1>2. CASE transitionPending' = FALSE
  BY <1>2 DEF NoOrphanPending
<1>3. ASSUME UNCHANGED transitionPending, NEW t \in Ops, NEW from, NEW to,
             Goto(t, from, to), from \in OwesRelease => to \in OwesRelease
      PROVE  NoOrphanPending'
  BY <1>3, MoveStays DEF NoOrphanPending
<1>a. ASSUME NEW t \in Ops, NEW k \in Kind, NEW d \in Targets, Claim(t, k, d)
      PROVE  NoOrphanPending'
  <2>1. pc'[t] = "enter"
    BY <1>a DEF Claim, TypeOK
  <2> QED
    BY <2>1 DEF NoOrphanPending, OwesRelease, HandlerLabel
<1>b. ASSUME NEW t \in Ops, Enter(t)
      PROVE  NoOrphanPending'
  BY <1>b, <1>3 DEF Enter, claim, OwesRelease, HandlerLabel
<1>c. ASSUME NEW t \in Ops, BeginOk(t) \/ BeginFail(t) \/ Spawn(t)
      PROVE  NoOrphanPending'
  BY <1>c, <1>3
     DEF BeginOk, BeginFail, Spawn, claim, OwesRelease, HandlerLabel, SequenceLabel
<1>d. ASSUME NEW t \in Ops, Rollback(t) \/ SafeHoldCheck(t) \/ SafeHoldApply(t)
      PROVE  NoOrphanPending'
  BY <1>d, <1>3
     DEF Rollback, End, SafeHoldCheck, SafeHoldApply, claim, OwesRelease,
         HandlerLabel, SequenceLabel
<1>e. ASSUME NEW t \in Ops, Check(t)
      PROVE  NoOrphanPending'
  <2>1. kind[t] \in Kind
    BY DEF TypeOK
  <2>2. pc[t] \in Checks => AfterCheck(kind[t], pc[t]) \in OwesRelease
    BY <2>1, OperationTyped DEF OwesRelease
  <2> QED
    BY <1>e, <2>2, <1>3 DEF Check, claim, OwesRelease
<1>f. ASSUME NEW t \in Ops, Hold(t) \/ RunReturns(t) \/ Finish(t)
      PROVE  NoOrphanPending'
  BY <1>f, <1>3 DEF Hold, RunReturns, Finish, claim, OwesRelease, SequenceLabel
<1>g. ASSUME NEW t \in Ops, NEW live \in BOOLEAN, Switch(t, live)
      PROVE  NoOrphanPending'
  BY <1>g, <1>3 DEF Switch, claim, OwesRelease, SequenceLabel
<1>h. ASSUME NEW t \in Ops, Undisplay(t)
      PROVE  NoOrphanPending'
  BY <1>h, <1>3 DEF Undisplay, claim, OwesRelease
<1>i. ASSUME NEW t \in Ops, Drop(t) \/ Release(t)
      PROVE  NoOrphanPending'
  BY <1>i, <1>2 DEF Drop, Release
<1>j. ASSUME NEW c \in Callers, Invalidate(c)
      PROVE  NoOrphanPending'
  BY <1>j, <1>2 DEF Invalidate
<1>k. ASSUME NEW t \in Ops,
             BeginSetsTarget(t) \/ \E message \in BOOLEAN : Publish(t, message)
      PROVE  NoOrphanPending'
  BY <1>k, <1>1 DEF BeginSetsTarget, Publish, claim
<1>l. ASSUME NEW c \in Callers,
             \/ PrepareNewSession(c) \/ ConnectInput(c) \/ ConnectOutput(c)
             \/ MarkError(c) \/ Disconnect(c) \/ Fail(c) \/ Leave(c)
             \/ \E d \in Targets : SetFixedDelayTarget(c, d)
      PROVE  NoOrphanPending'
  BY <1>l, <1>1 DEF PrepareNewSession, ConnectInput, ConnectOutput, MarkError,
                    Disconnect, Fail, Leave, SetFixedDelayTarget, claim
<1>m. CASE Boot \/ UNCHANGED mvars
  BY <1>m, <1>1 DEF Boot, mvars, claim
<1> QED
  BY <1>a, <1>b, <1>c, <1>d, <1>e, <1>f, <1>g, <1>h, <1>i, <1>j, <1>k, <1>l,
     <1>m, StepCases

(* No claim is ever left behind: while the API answers "another transition *)
(* is already in progress", some operation has still to release it.        *)
THEOREM ClaimHasOwner == Spec => []NoOrphanPending
<1>1. Init => NoOrphanPending
  BY DEF Init, NoOrphanPending
<1> QED
  BY <1>1, TypeCorrect, ClaimStep, PTL DEF Spec
-----------------------------------------------------------------------------
(* The slate message.                                                      *)

(* Whatever section runs, a message left shown has a thread to clear it. *)
LEMMA SlateStep == TypeOK /\ NoOrphanSlate /\ [Next]_mvars => NoOrphanSlate'
<1> SUFFICES ASSUME TypeOK, NoOrphanSlate, [Next]_mvars
             PROVE  NoOrphanSlate'
  OBVIOUS
<1>1. CASE UNCHANGED <<slateMessage, pc>>
  BY <1>1 DEF NoOrphanSlate
<1>2. CASE slateMessage' = FALSE
  BY <1>2 DEF NoOrphanSlate
<1>3. ASSUME UNCHANGED slateMessage, NEW t \in Ops, NEW from, NEW to,
             Goto(t, from, to), from \in OwesDisplay => to \in OwesDisplay
      PROVE  NoOrphanSlate'
  BY <1>3, MoveStays DEF NoOrphanSlate
<1>a. ASSUME NEW t \in Ops, NEW k \in Kind, NEW d \in Targets, Claim(t, k, d)
      PROVE  NoOrphanSlate'
  <2>1. Goto(t, "idle", "enter")
    BY <1>a DEF Claim, Goto
  <2> QED
    BY <1>a, <2>1, <1>3 DEF Claim, OwesDisplay, SequenceLabel
<1>b. ASSUME NEW t \in Ops, Enter(t)
      PROVE  NoOrphanSlate'
  BY <1>b, <1>3 DEF Enter, display, OwesDisplay, SequenceLabel
<1>c. ASSUME NEW t \in Ops, BeginOk(t) \/ BeginFail(t) \/ Drop(t) \/ Spawn(t)
      PROVE  NoOrphanSlate'
  BY <1>c, <1>3 DEF BeginOk, BeginFail, Drop, Spawn, display, OwesDisplay, SequenceLabel
<1>d. ASSUME NEW t \in Ops,
             Rollback(t) \/ SafeHoldCheck(t) \/ SafeHoldApply(t) \/ Release(t)
      PROVE  NoOrphanSlate'
  BY <1>d, <1>3 DEF Rollback, End, SafeHoldCheck, SafeHoldApply, Release, display,
                    OwesDisplay, SequenceLabel
<1>e. ASSUME NEW t \in Ops, Check(t)
      PROVE  NoOrphanSlate'
  <2>1. kind[t] \in Kind
    BY DEF TypeOK
  <2>2. pc[t] \in Checks => AfterCheck(kind[t], pc[t]) \in OwesDisplay
    BY <2>1, OperationTyped DEF OwesDisplay
  <2> QED
    BY <1>e, <2>2, <1>3 DEF Check, display, OwesDisplay
<1>f. ASSUME NEW t \in Ops, Hold(t) \/ RunReturns(t) \/ Finish(t)
      PROVE  NoOrphanSlate'
  BY <1>f, <1>3 DEF Hold, RunReturns, Finish, display, OwesDisplay, SequenceLabel
<1>g. ASSUME NEW t \in Ops, NEW message \in BOOLEAN, Publish(t, message)
      PROVE  NoOrphanSlate'
  BY <1>g DEF Publish, NoOrphanSlate, OwesDisplay, SequenceLabel
<1>h. ASSUME NEW t \in Ops, NEW live \in BOOLEAN, Switch(t, live)
      PROVE  NoOrphanSlate'
  BY <1>h, <1>3 DEF Switch, OwesDisplay, SequenceLabel
<1>i. ASSUME NEW t \in Ops, Undisplay(t)
      PROVE  NoOrphanSlate'
  BY <1>i, <1>2 DEF Undisplay
<1>j. ASSUME NEW c \in Callers, Invalidate(c)
      PROVE  NoOrphanSlate'
  BY <1>j, <1>2 DEF Invalidate
<1>k. ASSUME NEW t \in Ops, BeginSetsTarget(t)
      PROVE  NoOrphanSlate'
  BY <1>k, <1>1 DEF BeginSetsTarget
<1>l. ASSUME NEW c \in Callers,
             \/ PrepareNewSession(c) \/ ConnectInput(c) \/ ConnectOutput(c)
             \/ MarkError(c) \/ Disconnect(c) \/ Fail(c) \/ Leave(c)
             \/ \E d \in Targets : SetFixedDelayTarget(c, d)
      PROVE  NoOrphanSlate'
  BY <1>l, <1>1 DEF PrepareNewSession, ConnectInput, ConnectOutput, MarkError,
                    Disconnect, Fail, Leave, SetFixedDelayTarget, display
<1>m. CASE Boot \/ UNCHANGED mvars
  BY <1>m, <1>1 DEF Boot, mvars, display
<1> QED
  BY <1>a, <1>b, <1>c, <1>d, <1>e, <1>f, <1>g, <1>h, <1>i, <1>j, <1>k, <1>l,
     <1>m, StepCases

(* A slate message never outlives the operations that publish it, whatever *)
(* ends them: each has still to call clearOperatorDisplay.                 *)
THEOREM SlateHasOwner == Spec => []NoOrphanSlate
<1>1. Init => NoOrphanSlate
  BY DEF Init, NoOrphanSlate
<1> QED
  BY <1>1, TypeCorrect, SlateStep, PTL DEF Spec
=============================================================================
