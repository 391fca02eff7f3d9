------------------------ MODULE RelaySession_proofs ------------------------
(***************************************************************************)
(* RelaySession implements RelayMachine, for any number of connections,    *)
(* publishes and requests, whatever the platform and the media do: the     *)
(* coordinator and the ingest server call the machine only in the ways it  *)
(* allows for.  What is proved of the machine holds of the engine.  Then   *)
(* the types of the session and what needs no more than one publisher at a *)
(* time: an error has its message, and an operation whose goroutine was    *)
(* given the epoch it began in steers the output of its own session alone. *)
(***************************************************************************)
EXTENDS RelaySession, RelayMachine_proofs, TLAPS

(* A connection's goroutine and a pipeline's drain are callers of the      *)
(* machine, and an initial delay is one that may be asked for.             *)
LEMMA SessionCallers ==
    /\ Conns \subseteq Callers /\ Pipes \subseteq Callers
    /\ InitialDelay # 0 => InitialDelay \in Targets
  BY SessionAssumption

(* The calls of an operation: the coordinator's sections fill the places   *)
(* the machine leaves open, and change nothing of it in between.           *)
LEMMA OperationMaps ==
    ASSUME NEW t \in Ops, OpStep(t) \/ RunPublish(t)
    PROVE  Next \/ UNCHANGED mvars
<1>1. CASE BeginLookup(t) \/ BeginAct(t) \/ BeginBind(t)
  <2>1. BeginFail(t) \/ BeginOk(t) \/ BeginSetsTarget(t) \/ UNCHANGED mvars
    BY <1>1 DEF BeginLookup, BeginAct, BeginBind
  <2> QED
    BY <2>1 DEF Next, Work, Report
<1>2. CASE RunLookup(t) \/ RunStart(t) \/ RunEnd(t)
  <2>1. RunReturns(t) \/ UNCHANGED mvars
    BY <1>2 DEF RunLookup, RunStart, RunEnd
  <2> QED
    BY <2>1 DEF Next, Work
<1>3. CASE SwitchLookup(t) \/ SwitchAct(t)
  <2>1. Switch(t, FALSE) \/ Switch(t, TRUE) \/ UNCHANGED mvars
    BY <1>3 DEF SwitchLookup, SwitchAct
  <2> QED
    BY <2>1 DEF Next, Work
<1>4. CASE RunPublish(t)
  BY <1>4 DEF RunPublish, Next, Report
<1>5. CASE \/ Enter(t) \/ Drop(t) \/ Rollback(t) \/ Spawn(t) \/ SafeHoldApply(t)
           \/ Check(t) \/ Hold(t) \/ Finish(t) \/ Undisplay(t) \/ Release(t)
  BY <1>5 DEF Next, Work
<1> QED
  BY <1>1, <1>2, <1>3, <1>4, <1>5 DEF OpStep

(* A connection's handler: the callbacks of the ingest server.             *)
LEMMA HandlerMaps ==
    ASSUME NEW h \in Conns, HandlerStep(h)
    PROVE  Next \/ UNCHANGED mvars
<1>0. h \in Callers
  BY SessionCallers
<1>1. CASE TakeSession(h) \/ ClearPipeline(h) \/ StopPipeline(h) \/ Dial(h) \/ SetPipeline(h)
  BY <1>1 DEF TakeSession, ClearPipeline, StopPipeline, Dial, SetPipeline
<1>2. CASE Disconnecting(h) \/ DisconnectStep(h) \/ Disconnected(h)
  <2>1. Disconnect(h) \/ Invalidate(h) \/ Leave(h) \/ UNCHANGED mvars
    BY <1>2 DEF Disconnecting, DisconnectStep, Disconnected
  <2> QED
    BY <1>0, <2>1 DEF Next, Call, InCall
<1>3. CASE Prepare(h) \/ Input(h) \/ Output(h)
  <2>1. PrepareNewSession(h) \/ ConnectInput(h) \/ ConnectOutput(h) \/ UNCHANGED mvars
    BY <1>3 DEF Prepare, Input, Output
  <2> QED
    BY <1>0, <2>1 DEF Next, Call
<1>4. CASE DialFails(h) \/ Rejected(h)
  <2>1. MarkError(h) \/ Fail(h)
    BY <1>4 DEF DialFails, Rejected
  <2> QED
    BY <1>0, <2>1 DEF Next, Call, InCall
<1>5. CASE MakePipeline(h)
  <2>1. UNCHANGED mvars \/ (InitialDelay # 0 /\ SetFixedDelayTarget(h, InitialDelay))
    BY <1>5 DEF MakePipeline
  <2>2. UNCHANGED mvars \/ \E d \in Targets : SetFixedDelayTarget(h, d)
    BY <2>1, SessionCallers
  <2> QED
    BY <1>0, <2>2 DEF Next, Call
<1> QED
  BY <1>1, <1>2, <1>3, <1>4, <1>5 DEF HandlerStep

(* Every step of the engine is a step of the machine or leaves it alone.   *)
LEMMA SessionMaps == [SessionNext]_svars => [Next]_mvars
<1> SUFFICES ASSUME [SessionNext]_svars PROVE Next \/ UNCHANGED mvars
  OBVIOUS
<1>1. CASE Boot /\ UNCHANGED <<handler, Engine>>
  BY <1>1 DEF Next
<1>2. ASSUME NEW t \in Ops, Ask(t) \/ OpStep(t) \/ RunPublish(t) PROVE Next \/ UNCHANGED mvars
  BY <1>2, OperationMaps DEF Next
<1>3. ASSUME NEW h \in Conns, Connect(h) \/ OnPublish(h) \/ OnUnpublish(h) \/ OnClose(h)
      PROVE  UNCHANGED mvars
  BY <1>3 DEF Connect, OnPublish, OnUnpublish, OnClose, EndSession
<1>4. ASSUME NEW c \in Callers, MarkError(c) \/ Fail(c) PROVE Next
  BY <1>4 DEF Next, Call, InCall
<1>5. ASSUME NEW h \in Conns, MediaError(h) PROVE Next
  BY <1>4, <1>5, SessionCallers DEF MediaError
<1>6. ASSUME NEW p \in Pipes, DrainError(p) PROVE Next
  BY <1>4, <1>6, SessionCallers DEF DrainError
<1>7. ASSUME NEW c \in Callers, Failed(c) PROVE Next
  BY <1>4, <1>7 DEF Failed
<1>8. CASE UNCHANGED svars
  BY <1>8 DEF svars
<1> QED
  BY <1>1, <1>2, <1>3, <1>5, <1>6, <1>7, <1>8, HandlerMaps DEF SessionNext

(* The running engine is an implementation of its state machine.           *)
THEOREM SessionImplementsMachine == SessionSpec => MachineSpec
<1>1. SessionInit => Init
  BY DEF SessionInit
<1> QED
  BY <1>1, SessionMaps, PTL DEF SessionSpec, Spec, MachineSpec
-----------------------------------------------------------------------------
(* The type invariants, of the machine and of what RelaySession adds.      *)

(* Every step is one of these: of an operation, of a connection's handler, *)
(* or of a drain goroutine that fails.                                     *)
LEMMA SessionCases ==
    ASSUME [SessionNext]_svars
    PROVE  \/ Boot /\ UNCHANGED <<handler, Engine>>
           \/ \E t \in Ops :
                \/ Ask(t) /\ UNCHANGED <<handler, Engine>>
                \/ OpStep(t) \/ RunPublish(t)
           \/ \E h \in Conns :
                \/ Connect(h) \/ OnPublish(h) \/ OnUnpublish(h) \/ OnClose(h)
                \/ HandlerStep(h) \/ MediaError(h)
           \/ \E p \in Pipes : DrainError(p)
           \/ \E c \in Callers : Failed(c)
           \/ UNCHANGED svars
  BY DEF SessionNext

(* A Boolean written into a field of the handlers keeps it Boolean.        *)
LEMMA FlagWritten ==
    ASSUME NEW f \in [Conns -> BOOLEAN], NEW h \in Conns, NEW b \in BOOLEAN
    PROVE  [f EXCEPT ![h] = b] \in [Conns -> BOOLEAN]
  OBVIOUS

LEMMA PairWritten ==
    ASSUME NEW f \in [Conns -> (Pipes \cup {0}) \X BOOLEAN], NEW h \in Conns,
           NEW p \in Pipes \cup {0}, NEW b \in BOOLEAN
    PROVE  [f EXCEPT ![h] = <<p, b>>] \in [Conns -> (Pipes \cup {0}) \X BOOLEAN]
  OBVIOUS

LEMMA SessionTypeInit == SessionInit => SessionTypeOK
<1> SUFFICES ASSUME SessionInit PROVE SessionTypeOK
  OBVIOUS
<1>1. /\ hpc \in [Conns -> HandlerPc]
      /\ after \in [Conns -> {"closed", "open", "reset"}]
      /\ hpipe \in [Conns -> Pipes \cup {0}]
      /\ attempt \in [Conns -> Pipes \cup {0}]
  BY DEF SessionInit, HandlerPc
<1>2. sessionActive \in [Conns -> BOOLEAN] /\ taken \in [Conns -> (Pipes \cup {0}) \X BOOLEAN]
  BY DEF SessionInit
<1>3. published \in 0..MaxPublish /\ pipeline \in Pipes \cup {0} /\ operation \in Pipes \cup {0}
  BY SessionAssumption DEF SessionInit
<1>4. /\ policy \in [Pipes -> Policy]
      /\ ref \in [Ops -> Pipes \cup {0}]
      /\ stage \in [Ops -> {"call", "act", "bind", "run"}]
      /\ began \in [Ops -> [session : Pipes \cup {0}, epoch : Nat]]
  BY DEF SessionInit, Policy, NoSession
<1> QED
  BY <1>1, <1>2, <1>3, <1>4, Zenon DEF SessionTypeOK

(* The coordinator steers a pipeline only to a policy there is.            *)
LEMMA SteerTyped ==
    ASSUME SessionTypeOK, NEW t \in Ops, NEW to \in Policy, Steer(t, to)
    PROVE  policy' \in [Pipes -> Policy]
  BY DEF SessionTypeOK, Steer, SetPolicy

OpTyped ==
    /\ policy' \in [Pipes -> Policy]
    /\ ref' \in [Ops -> Pipes \cup {0}]
    /\ stage' \in [Ops -> {"call", "act", "bind", "run"}]
    /\ began' \in [Ops -> [session : Pipes \cup {0}, epoch : Nat]]
    /\ pipeline' = pipeline /\ operation' \in Pipes \cup {0}
    /\ UNCHANGED handler

LEMMA OpStepTyped ==
    ASSUME SessionTypeOK, TypeOK, NEW t \in Ops, OpStep(t) \/ RunPublish(t)
    PROVE  OpTyped
<1> USE DEF OpTyped, coordinator, opCall, Move
<1>0. /\ policy \in [Pipes -> Policy]
      /\ ref \in [Ops -> Pipes \cup {0}]
      /\ stage \in [Ops -> {"call", "act", "bind", "run"}]
      /\ began \in [Ops -> [session : Pipes \cup {0}, epoch : Nat]]
      /\ pipeline \in Pipes \cup {0} /\ operation \in Pipes \cup {0}
  BY DEF SessionTypeOK
<1>1. CASE BeginLookup(t)
  <2>1. [session |-> pipeline, epoch |-> transitionEpoch] \in [session : Pipes \cup {0}, epoch : Nat]
    BY <1>0 DEF TypeOK
  <2>2. began' \in [Ops -> [session : Pipes \cup {0}, epoch : Nat]]
    BY <1>0, <1>1, <2>1 DEF BeginLookup
  <2> QED
    BY <1>0, <1>1, <2>2 DEF BeginLookup
<1>2. CASE BeginAct(t)
  <2>1. BeginPolicy(kind[t]) \in Policy
    BY DEF TypeOK, Kind, BeginPolicy, Policy
  <2> QED
    BY <1>0, <1>2, <2>1, SteerTyped DEF BeginAct
<1>3. CASE BeginBind(t)
  BY <1>0, <1>3 DEF BeginBind
<1>4. CASE RunLookup(t)
  BY <1>0, <1>4 DEF RunLookup, OperationPipeline
<1>5. CASE RunStart(t)
  <2>1. "slate" \in Policy
    BY DEF Policy
  <2> QED
    BY <1>0, <1>5, <2>1, SteerTyped DEF RunStart
<1>6. CASE RunEnd(t) \/ RunPublish(t)
  BY <1>0, <1>6 DEF RunEnd, RunPublish
<1>7. CASE SwitchLookup(t)
  BY <1>0, <1>7 DEF SwitchLookup, OperationPipeline
<1>8. CASE SwitchAct(t)
  <2>1. (IF kind[t] = "enable_delay" THEN "delayed" ELSE "passthrough") \in Policy
    BY DEF Policy
  <2> QED
    BY <1>0, <1>8, <2>1, SteerTyped DEF SwitchAct
<1>9. CASE /\ began' = began \/ began' = [began EXCEPT ![t] = NoSession]
           /\ UNCHANGED <<handler, coordinator, policy, opCall>>
  <2>1. NoSession \in [session : Pipes \cup {0}, epoch : Nat]
    BY DEF NoSession
  <2>2. began' \in [Ops -> [session : Pipes \cup {0}, epoch : Nat]]
    BY <1>0, <1>9, <2>1
  <2> QED
    BY <1>0, <1>9, <2>2
<1> QED
  BY <1>1, <1>2, <1>3, <1>4, <1>5, <1>6, <1>7, <1>8, <1>9 DEF OpStep

(* What a step of a connection's handler does to the other connections:    *)
(* nothing.                                                                *)
LEMMA HandlerTyped ==
    ASSUME SessionTypeOK, NEW h \in Conns,
           \/ Connect(h) \/ OnPublish(h) \/ OnUnpublish(h) \/ OnClose(h)
           \/ HandlerStep(h) \/ MediaError(h)
    PROVE  SessionTypeOK'
<1> USE DEF SessionTypeOK, Engine, coordinator, opCall, Fields, Locals
<1>0. /\ hpc \in [Conns -> HandlerPc]
      /\ after \in [Conns -> {"closed", "open", "reset"}]
      /\ {"closed", "open", "reset"} \subseteq HandlerPc
      /\ 0 \in Pipes \cup {0}
  BY DEF HandlerPc
<1>1. CASE Connect(h)
  BY <1>1, <1>0 DEF Connect, Step
<1>2. CASE OnPublish(h)
  <2>1. published + 1 \in Pipes /\ published + 1 \in 0..MaxPublish
    BY <1>2, SessionAssumption DEF OnPublish, Pipes
  <2> QED
    BY <1>0, <1>2, <2>1 DEF OnPublish, EndSession, Step, HandlerPc
<1>3. CASE OnUnpublish(h) \/ OnClose(h)
  BY <1>0, <1>3 DEF OnUnpublish, OnClose, EndSession, Step, HandlerPc
<1>4. CASE TakeSession(h)
  <2>1. sessionActive' \in [Conns -> BOOLEAN]
    BY <1>4, FlagWritten DEF TakeSession
  <2>2. taken' \in [Conns -> (Pipes \cup {0}) \X BOOLEAN]
    BY <1>4, PairWritten DEF TakeSession
  <2> QED
    BY <1>0, <1>4, <2>1, <2>2 DEF TakeSession, Step, HandlerPc
<1>5. CASE ClearPipeline(h)
  BY <1>0, <1>5 DEF ClearPipeline, Step, HandlerPc
<1>6. CASE StopPipeline(h)
  <2>1. taken' \in [Conns -> (Pipes \cup {0}) \X BOOLEAN]
    BY <1>6, PairWritten DEF StopPipeline
  <2>2. policy' \in [Pipes -> Policy]
    BY <1>6 DEF StopPipeline, Policy
  <2>3. hpc' \in [Conns -> HandlerPc]
    BY <1>0, <1>6 DEF StopPipeline, Step, HandlerPc
  <2> QED
    BY <1>6, <2>1, <2>2, <2>3 DEF StopPipeline
<1>7. CASE Disconnecting(h) \/ DisconnectStep(h) \/ MediaError(h)
  BY <1>7 DEF Disconnecting, DisconnectStep, MediaError, handler
<1>8. CASE Disconnected(h)
  <2>1. hpc' \in [Conns -> HandlerPc]
    BY <1>0, <1>8 DEF Disconnected, HandlerPc
  <2> QED
    BY <1>8, <2>1 DEF Disconnected
<1>9. CASE \/ Prepare(h) \/ Dial(h) \/ DialFails(h) \/ Rejected(h) \/ Input(h) \/ Output(h)
  <2>1. hpc' \in [Conns -> HandlerPc]
    BY <1>0, <1>9 DEF Prepare, Dial, DialFails, Rejected, Input, Output, Step, HandlerPc
  <2> QED
    BY <1>9, <2>1 DEF Prepare, Dial, DialFails, Rejected, Input, Output
<1>10. CASE MakePipeline(h)
  <2>1. policy' \in [Pipes -> Policy]
    BY <1>10 DEF MakePipeline, SetPolicy, Policy
  <2> QED
    BY <1>0, <1>10, <2>1 DEF MakePipeline, Step, HandlerPc
<1>11. CASE SetPipeline(h)
  <2>1. sessionActive' \in [Conns -> BOOLEAN]
    BY <1>11, FlagWritten DEF SetPipeline
  <2> QED
    BY <1>0, <1>11, <2>1 DEF SetPipeline, Step, HandlerPc
<1> QED
  BY <1>1, <1>2, <1>3, <1>4, <1>5, <1>6, <1>7, <1>8, <1>9, <1>10, <1>11 DEF HandlerStep

LEMMA SessionTypeStep == TypeOK /\ SessionTypeOK /\ [SessionNext]_svars => SessionTypeOK'
<1> SUFFICES ASSUME TypeOK, SessionTypeOK, [SessionNext]_svars PROVE SessionTypeOK'
  OBVIOUS
<1>1. ASSUME NEW t \in Ops, OpStep(t) \/ RunPublish(t) PROVE SessionTypeOK'
  BY <1>1, OpStepTyped DEF OpTyped, SessionTypeOK, handler
<1>2. ASSUME UNCHANGED <<handler, Engine>> PROVE SessionTypeOK'
  BY <1>2 DEF SessionTypeOK, handler, Engine, coordinator, opCall
<1>3. ASSUME \/ \E p \in Pipes : DrainError(p)
             \/ \E c \in Callers : Failed(c)
             \/ UNCHANGED svars
      PROVE  UNCHANGED <<handler, Engine>>
  BY <1>3 DEF DrainError, Failed, svars, Engine
<1> QED
  BY <1>1, <1>2, <1>3, SessionCases, HandlerTyped

(* The handlers, the coordinator and the policies are always well typed.   *)
THEOREM SessionTypeCorrect == SessionSpec => []SessionTypeOK
<1>1. SessionSpec => []TypeOK
  BY SessionImplementsMachine, TypeCorrect DEF MachineSpec
<1> QED
  BY <1>1, SessionTypeInit, SessionTypeStep, PTL DEF SessionSpec
-----------------------------------------------------------------------------
(* How the fields of a handler go together.                                *)

(* Where an OnPublish that has ended the old session is.                   *)
Publishing == {"reset", "prepare", "dial", "reject", "input", "output", "make", "install"}

(* A session is live only between two callbacks; the one that endSession   *)
(* has taken is forgotten before the machine hears of it; the goroutine of *)
(* a connection is inside the machine only where its callback calls it.    *)
HandlerShape(h) ==
    /\ sessionActive[h] <=> (hpipe[h] # 0)
    /\ hpipe[h] # 0 => hpc[h] \in {"open", "take"}
    /\ taken[h][2] <=> (taken[h][1] # 0)
    /\ taken[h][1] # 0 => hpc[h] \in {"clear", "stop"}
    /\ callerPc[h] = "fail" => hpc[h] \in {"open", "reject"} /\ (hpc[h] = "open" => hpipe[h] # 0)
    /\ hpc[h] = "reject" => callerPc[h] = "fail"
    /\ callerPc[h] \in {"invalidate", "leave"} => hpc[h] \in {"end", "reset"}

(* Only a publisher has a session.                                         *)
PublisherShape(h) ==
    /\ hpipe[h] # 0 \/ taken[h][1] # 0 => h \in Publishers
    /\ hpc[h] \in Publishing \cup {"end"} \/ after[h] = "reset" => h \in Publishers
    /\ hpc[h] \in Publishing \/ after[h] = "reset" => attempt[h] # 0

(* A drain goroutine calls MarkError, and only while its pipeline runs.    *)
DrainShape(p) ==
    /\ callerPc[p] \in {"idle", "fail"}
    /\ callerPc[p] = "fail" => Running(p)

ShapeInv ==
    /\ \A h \in Conns : HandlerShape(h) /\ PublisherShape(h)
    /\ \A p \in Pipes : DrainShape(p)

(* The operations touch neither the handlers nor the callers.              *)
LEMMA OpKeeps ==
    ASSUME NEW t \in Ops, (Ask(t) /\ UNCHANGED <<handler, Engine>>) \/ OpStep(t) \/ RunPublish(t)
    PROVE  UNCHANGED <<handler, callerPc, lastError, transitionEpoch, pipeline>>
<1> USE DEF claim, display, coordinator
<1>1. CASE Ask(t) /\ UNCHANGED <<handler, Engine>>
  BY <1>1 DEF Ask, Claim, SafeHoldCheck, Engine
<1>2. CASE BeginLookup(t) \/ BeginAct(t) \/ BeginBind(t)
  BY <1>2 DEF BeginLookup, BeginAct, BeginBind, BeginFail, BeginOk, BeginSetsTarget, mvars
<1>3. CASE RunLookup(t) \/ RunStart(t) \/ RunEnd(t) \/ RunPublish(t)
  BY <1>3 DEF RunLookup, RunStart, RunEnd, RunPublish, RunReturns, Publish, mvars
<1>4. CASE SwitchLookup(t) \/ SwitchAct(t)
  BY <1>4 DEF SwitchLookup, SwitchAct, Switch, mvars
<1>5. CASE /\ Enter(t) \/ Drop(t) \/ Rollback(t) \/ Spawn(t) \/ SafeHoldApply(t)
           /\ UNCHANGED <<handler, coordinator>>
  BY <1>5 DEF Enter, Drop, Rollback, Spawn, SafeHoldApply, End, Goto
<1>6. CASE /\ Check(t) \/ Hold(t) \/ Finish(t) \/ Undisplay(t) \/ Release(t)
           /\ UNCHANGED <<handler, coordinator>>
  BY <1>6 DEF Check, Hold, Finish, Undisplay, Release, End, Goto
<1> QED
  BY <1>1, <1>2, <1>3, <1>4, <1>5, <1>6 DEF OpStep

LEMMA ShapeInit == SessionInit => ShapeInv
<1> SUFFICES ASSUME SessionInit PROVE ShapeInv
  OBVIOUS
<1>1. ASSUME NEW h \in Conns PROVE HandlerShape(h) /\ PublisherShape(h)
  <2>1. /\ hpc[h] = "closed" /\ after[h] = "closed" /\ hpipe[h] = 0
        /\ sessionActive[h] = FALSE /\ taken[h] = <<0, FALSE>> /\ callerPc[h] = "idle"
    BY SessionCallers DEF SessionInit, Init
  <2> QED
    BY <2>1 DEF HandlerShape, PublisherShape, Publishing
<1>2. ASSUME NEW p \in Pipes PROVE DrainShape(p)
  BY SessionCallers DEF SessionInit, Init, DrainShape
<1> QED
  BY <1>1, <1>2 DEF ShapeInv

(* The names of connections and pipelines are apart.                       *)
LEMMA Apart == ASSUME NEW h \in Conns, NEW p \in Pipes PROVE h # p
  BY SessionAssumption

(* A step of h leaves the other connections alone, and the drain           *)
(* goroutines too, but for the one that StopPipeline has waited for.       *)
LEMMA HandlerLocal ==
    ASSUME TypeOK, SessionTypeOK, NEW h \in Conns,
           \/ Connect(h) \/ OnPublish(h) \/ OnUnpublish(h) \/ OnClose(h)
           \/ HandlerStep(h) \/ MediaError(h)
    PROVE  /\ \A g \in Conns \ {h} :
                /\ hpc'[g] = hpc[g] /\ after'[g] = after[g] /\ hpipe'[g] = hpipe[g]
                /\ sessionActive'[g] = sessionActive[g] /\ taken'[g] = taken[g]
                /\ attempt'[g] = attempt[g]
           /\ \A c \in Callers \ {h} : callerPc'[c] = callerPc[c]
<1> USE DEF TypeOK, SessionTypeOK, Fields, Locals, Step, mvars
<1>1. CASE Connect(h) \/ OnPublish(h) \/ OnUnpublish(h) \/ OnClose(h) \/ MediaError(h)
  BY <1>1 DEF Connect, OnPublish, OnUnpublish, OnClose, EndSession, MediaError, MarkError,
              Return, handler
<1>2. CASE TakeSession(h) \/ ClearPipeline(h) \/ StopPipeline(h)
  BY <1>2 DEF TakeSession, ClearPipeline, StopPipeline
<1>3. CASE Disconnecting(h) \/ DisconnectStep(h) \/ Disconnected(h)
  BY <1>3 DEF Disconnecting, DisconnectStep, Disconnected, Disconnect, Invalidate, Leave, Return, handler
<1>4. CASE Prepare(h) \/ Dial(h) \/ DialFails(h) \/ Rejected(h)
  BY <1>4 DEF Prepare, Dial, DialFails, Rejected, PrepareNewSession, MarkError, Fail, Return
<1>5. CASE Input(h) \/ Output(h) \/ MakePipeline(h) \/ SetPipeline(h)
  BY <1>5 DEF Input, Output, MakePipeline, SetPipeline, ConnectInput, ConnectOutput, SetFixedDelayTarget
<1> QED
  BY <1>1, <1>2, <1>3, <1>4, <1>5 DEF HandlerStep

(* What each step of h does to h itself.                                   *)
LEMMA HandlerReshapes ==
    ASSUME TypeOK, SessionTypeOK, ShapeInv, NEW h \in Conns,
           \/ Connect(h) \/ OnPublish(h) \/ OnUnpublish(h) \/ OnClose(h)
           \/ HandlerStep(h) \/ MediaError(h)
    PROVE  HandlerShape(h)' /\ PublisherShape(h)'
<1>0. /\ h \in Callers /\ HandlerShape(h) /\ PublisherShape(h)
      /\ callerPc \in [Callers -> {"idle", "invalidate", "leave", "fail"}]
      /\ after[h] \in {"closed", "open", "reset"}
      /\ hpipe[h] \in Pipes \cup {0} /\ 0 \notin Pipes
  BY SessionCallers DEF ShapeInv, TypeOK, SessionTypeOK, Pipes
<1> USE <1>0 DEF SessionTypeOK, HandlerShape, PublisherShape, Publishing, Fields, Locals, Step, mvars
<1>1. CASE Connect(h)
  BY <1>1 DEF Connect
<1>2. CASE OnPublish(h)
  BY <1>2 DEF OnPublish, EndSession
<1>3. CASE OnUnpublish(h) \/ OnClose(h)
  BY <1>3 DEF OnUnpublish, OnClose, EndSession
<1>4. CASE TakeSession(h)
  BY <1>4 DEF TakeSession
<1>5. CASE ClearPipeline(h)
  BY <1>5 DEF ClearPipeline
<1>6. CASE StopPipeline(h)
  BY <1>6 DEF StopPipeline
<1>7. CASE Disconnecting(h) \/ DisconnectStep(h)
  BY <1>7 DEF Disconnecting, DisconnectStep, Disconnect, Invalidate, Return, handler
<1>8. CASE Disconnected(h)
  BY <1>8 DEF Disconnected, Leave, Return
<1>9. CASE MediaError(h)
  BY <1>9 DEF MediaError, MarkError, Return, handler
<1>10. CASE Prepare(h) \/ Dial(h)
  BY <1>10 DEF Prepare, Dial, PrepareNewSession
<1>11. CASE DialFails(h) \/ Rejected(h)
  BY <1>11 DEF DialFails, Rejected, MarkError, Fail, Return
<1>12. CASE Input(h) \/ Output(h)
  BY <1>12 DEF Input, Output, ConnectInput, ConnectOutput
<1>13. CASE MakePipeline(h)
  BY <1>13 DEF MakePipeline, SetFixedDelayTarget
<1>14. CASE SetPipeline(h)
  BY <1>14 DEF SetPipeline
<1> QED
  BY <1>1, <1>2, <1>3, <1>4, <1>5, <1>6, <1>7, <1>8, <1>9, <1>10, <1>11, <1>12, <1>13, <1>14
     DEF HandlerStep

(* A pipeline runs until its session is taken and its drain has returned.  *)
LEMMA RunningStays ==
    ASSUME TypeOK, SessionTypeOK, ShapeInv, NEW h \in Conns, NEW p \in Pipes, Running(p),
           \/ Connect(h) \/ OnPublish(h) \/ OnUnpublish(h) \/ OnClose(h)
           \/ HandlerStep(h) \/ MediaError(h)
    PROVE  Running(p)' \/ (callerPc[p] = "idle" /\ StopPipeline(h) /\ taken[h][1] = p)
<1>1. PICK g \in Conns : hpipe[g] = p \/ taken[g][1] = p
  BY DEF Running
<1>2. CASE g # h
  BY <1>1, <1>2, HandlerLocal DEF Running
<1>3. CASE g = h
  <2> USE DEF Fields, Locals, SessionTypeOK
  <2>0. HandlerShape(h) /\ p # 0
    BY DEF ShapeInv, Pipes
  <2>1. CASE TakeSession(h)
    <3>1. hpipe[h] = p
      BY <1>1, <1>3, <2>0, <2>1 DEF TakeSession, Step, HandlerShape
    <3>2. taken'[h][1] = p
      BY <2>1, <3>1 DEF TakeSession
    <3> QED
      BY <3>2 DEF Running
  <2>2. CASE StopPipeline(h)
    <3>1. taken[h][1] = p
      BY <1>1, <1>3, <2>0, <2>2 DEF StopPipeline, Step, HandlerShape
    <3> QED
      BY <2>0, <2>2, <3>1 DEF StopPipeline
  <2>3. CASE SetPipeline(h)
    BY <1>1, <1>3, <2>0, <2>3 DEF SetPipeline, Step, HandlerShape
  <2>4. CASE UNCHANGED <<hpipe, taken>>
    BY <1>1, <2>4 DEF Running
  <2>5. CASE Connect(h) \/ OnPublish(h) \/ OnUnpublish(h) \/ OnClose(h) \/ MediaError(h)
    BY <2>4, <2>5 DEF Connect, OnPublish, OnUnpublish, OnClose, EndSession, MediaError, handler
  <2>6. CASE \/ ClearPipeline(h) \/ Disconnecting(h) \/ DisconnectStep(h) \/ Disconnected(h)
             \/ Prepare(h) \/ Dial(h) \/ DialFails(h) \/ Rejected(h)
             \/ Input(h) \/ Output(h) \/ MakePipeline(h)
    BY <2>4, <2>6 DEF ClearPipeline, Disconnecting, DisconnectStep, Disconnected, Prepare, Dial,
       DialFails, Rejected, Input, Output, MakePipeline, handler
  <2> QED
    BY <2>1, <2>2, <2>3, <2>5, <2>6 DEF HandlerStep
<1> QED
  BY <1>2, <1>3

LEMMA ShapeStep == TypeOK /\ SessionTypeOK /\ ShapeInv /\ [SessionNext]_svars => ShapeInv'
<1> SUFFICES ASSUME TypeOK, SessionTypeOK, ShapeInv, [SessionNext]_svars PROVE ShapeInv'
  OBVIOUS
<1>1. ASSUME UNCHANGED <<handler, callerPc>> PROVE ShapeInv'
  BY <1>1 DEF ShapeInv, HandlerShape, PublisherShape, DrainShape, Running, handler
<1>2. CASE (Boot /\ UNCHANGED <<handler, Engine>>) \/ UNCHANGED svars
  BY <1>1, <1>2 DEF Boot, svars, mvars
<1>3. ASSUME NEW t \in Ops,
             (Ask(t) /\ UNCHANGED <<handler, Engine>>) \/ OpStep(t) \/ RunPublish(t)
      PROVE  ShapeInv'
  BY <1>1, <1>3, OpKeeps
<1>4. ASSUME NEW h \in Conns,
             \/ Connect(h) \/ OnPublish(h) \/ OnUnpublish(h) \/ OnClose(h)
             \/ HandlerStep(h) \/ MediaError(h)
      PROVE  ShapeInv'
  <2>1. ASSUME NEW g \in Conns PROVE HandlerShape(g)' /\ PublisherShape(g)'
    <3>1. CASE g = h
      BY <1>4, <3>1, HandlerReshapes
    <3>2. CASE g # h
      BY <1>4, <3>2, HandlerLocal, SessionCallers DEF ShapeInv, HandlerShape, PublisherShape
    <3> QED
      BY <3>1, <3>2
  <2>2. ASSUME NEW p \in Pipes PROVE DrainShape(p)'
    <3>1. callerPc'[p] = callerPc[p]
      BY <1>4, Apart, HandlerLocal, SessionCallers
    <3>2. DrainShape(p)
      BY DEF ShapeInv
    <3> QED
      BY <1>4, <3>1, <3>2, RunningStays DEF DrainShape
  <2> QED
    BY <2>1, <2>2 DEF ShapeInv
<1>5. ASSUME NEW c \in Callers, Return(c, "idle", "fail") \/ Return(c, "fail", "idle"),
             (c \in Pipes /\ Running(c)) \/ (c \in Conns /\ Return(c, "fail", "idle") /\ hpc[c] = "open"),
             UNCHANGED handler
      PROVE  ShapeInv'
  <2>1. ASSUME NEW g \in Conns PROVE HandlerShape(g)' /\ PublisherShape(g)'
    BY <1>5, Apart, SessionCallers DEF ShapeInv, HandlerShape, PublisherShape, handler, Return, TypeOK
  <2>2. ASSUME NEW p \in Pipes PROVE DrainShape(p)'
    BY <1>5, Apart, SessionCallers DEF ShapeInv, DrainShape, handler, Return, TypeOK, Running
  <2> QED
    BY <2>1, <2>2 DEF ShapeInv
<1>6. ASSUME NEW p \in Pipes, DrainError(p) PROVE ShapeInv'
  BY <1>5, <1>6, SessionCallers DEF DrainError, MarkError
<1>7. ASSUME NEW c \in Callers, Failed(c) PROVE ShapeInv'
  <2>1. c \in Pipes => Running(c)
    BY <1>7, SessionCallers DEF ShapeInv, DrainShape, Failed, Fail, Return
  <2>2. c \in Pipes \/ (c \in Conns /\ hpc[c] = "open")
    BY <1>7, SessionAssumption DEF Failed
  <2> QED
    BY <1>5, <1>7, <2>1, <2>2 DEF Failed, Fail
<1> QED
  BY <1>2, <1>3, <1>4, <1>6, <1>7, SessionCases
-----------------------------------------------------------------------------
(* One publisher: OBS.  Connections that only open and close are not       *)
(* excluded.                                                               *)

OnePublisher == \A a, b \in Publishers : a = b

(* Where the machine is while OnPublish sets up a session.                 *)
StartInv ==
    \A h \in Conns :
      /\ hpc[h] \in {"prepare", "dial", "reject", "input"} => state = "READY"
      /\ hpc[h] = "output" => state = "INGESTING"

(* A failing caller has left its message before the state is ERROR.        *)
MessageInv ==
    /\ \A c \in Callers : callerPc[c] = "fail" => lastError
    /\ ErrorHasMessage

(* A connection that never publishes tells the machine nothing.            *)
LEMMA Bystander ==
    ASSUME ShapeInv, NEW g \in Conns, g \notin Publishers,
           \/ Connect(g) \/ OnPublish(g) \/ OnUnpublish(g) \/ OnClose(g)
           \/ HandlerStep(g) \/ MediaError(g)
    PROVE  UNCHANGED mvars
<1>0. HandlerShape(g) /\ PublisherShape(g)
  BY DEF ShapeInv
<1> USE DEF HandlerShape, PublisherShape, Publishing, Step
<1>1. CASE Connect(g) \/ OnPublish(g) \/ OnUnpublish(g) \/ OnClose(g) \/ MediaError(g)
  BY <1>0, <1>1 DEF Connect, OnPublish, OnUnpublish, OnClose, EndSession, MediaError
<1>2. CASE TakeSession(g) \/ ClearPipeline(g) \/ StopPipeline(g)
  BY <1>2 DEF TakeSession, ClearPipeline, StopPipeline
<1>3. CASE Disconnecting(g) \/ DisconnectStep(g) \/ Disconnected(g)
  BY <1>0, <1>3 DEF Disconnecting, DisconnectStep, Disconnected, Invalidate, Return
<1>4. CASE Prepare(g) \/ Dial(g) \/ DialFails(g) \/ Rejected(g)
  BY <1>0, <1>4 DEF Prepare, Dial, DialFails, Rejected
<1>5. CASE Input(g) \/ Output(g) \/ MakePipeline(g) \/ SetPipeline(g)
  BY <1>0, <1>5 DEF Input, Output, MakePipeline, SetPipeline
<1> QED
  BY <1>1, <1>2, <1>3, <1>4, <1>5 DEF HandlerStep

(* While a session is being set up nobody else is inside the machine.      *)
LEMMA Undisturbed ==
    ASSUME OnePublisher, ShapeInv, TypeOK, NEW h \in Conns, hpc[h] \in Publishing \ {"reset"}
    PROVE  \A c \in Callers : callerPc[c] = "idle" \/ (c = h /\ hpc[h] = "reject")
<1>1. h \in Publishers
  BY DEF ShapeInv, PublisherShape
<1>2. \A g \in Conns : g # h => hpipe[g] = 0 /\ taken[g][1] = 0 /\ hpc[g] \notin Publishing \cup {"end"}
  BY <1>1 DEF ShapeInv, PublisherShape, OnePublisher
<1>3. hpipe[h] = 0 /\ taken[h][1] = 0
  BY DEF ShapeInv, HandlerShape, Publishing
<1>4. ASSUME NEW g \in Conns PROVE callerPc[g] = "idle" \/ (g = h /\ hpc[h] = "reject")
  <2>1. callerPc[g] \in {"idle", "invalidate", "leave", "fail"} /\ HandlerShape(g)
    BY SessionCallers DEF TypeOK, ShapeInv
  <2> QED
    BY <1>2, <1>3, <2>1 DEF HandlerShape, Publishing
<1>5. ASSUME NEW p \in Pipes PROVE callerPc[p] = "idle"
  BY <1>2, <1>3 DEF ShapeInv, DrainShape, Running, Pipes
<1> QED
  BY <1>4, <1>5, SessionAssumption

Outside == {"STOPPED", "STARTING", "READY", "INGESTING", "ERROR"}

(* No request and no operation moves the machine where no session streams, *)
(* none moves it to ERROR, and none out of a session.                      *)
LEMMA OpsStayInside ==
    ASSUME TypeOK, NEW t \in Ops,
           (Ask(t) /\ UNCHANGED <<handler, Engine>>) \/ OpStep(t) \/ RunPublish(t)
    PROVE  /\ state \in Outside => state' = state
           /\ state' = "ERROR" => state = "ERROR"
           /\ state \in SessionStates => state' \in SessionStates
<1>0. kind[t] \in Kind
  BY DEF TypeOK
<1> USE DEF status, SessionStates, Streaming
<1>1. CASE Ask(t) /\ UNCHANGED <<handler, Engine>>
  BY <1>1 DEF Ask, Claim, SafeHoldCheck
<1>2. CASE BeginLookup(t) \/ BeginAct(t) \/ BeginBind(t)
  BY <1>2 DEF BeginLookup, BeginAct, BeginBind, BeginFail, BeginOk, BeginSetsTarget, mvars
<1>3. CASE RunLookup(t) \/ RunStart(t) \/ RunEnd(t) \/ RunPublish(t)
  BY <1>3 DEF RunLookup, RunStart, RunEnd, RunPublish, RunReturns, Publish, mvars
<1>4. CASE SwitchLookup(t) \/ SwitchAct(t)
  BY <1>4 DEF SwitchLookup, SwitchAct, Switch, mvars
<1>5. CASE Enter(t)
  BY <1>0, <1>5 DEF Enter, Apply, Refused, CanTransition, Transitions, WorkTransitions, Working,
     Kind, Outside
<1>6. CASE Rollback(t)
  BY <1>0, <1>6 DEF Rollback, Apply, Refused, CanTransition, Transitions, WorkTransitions, Source,
     Aborted, Kind, Outside
<1>7. CASE SafeHoldApply(t)
  BY <1>7 DEF SafeHoldApply, Apply, Refused, CanTransition, Transitions, WorkTransitions, Outside
<1>8. CASE Hold(t)
  BY <1>0, <1>8 DEF Hold, Apply, Refused, CanTransition, Transitions, WorkTransitions, Held,
     Kind, Outside
<1>9. CASE Finish(t)
  BY <1>0, <1>9 DEF Finish, Apply, Refused, CanTransition, Transitions, WorkTransitions, Goal, Done,
     Kind, Outside
<1>10. CASE Drop(t) \/ Spawn(t) \/ Check(t) \/ Undisplay(t) \/ Release(t)
  BY <1>10 DEF Drop, Spawn, Check, Undisplay, Release
<1> QED
  BY <1>1, <1>2, <1>3, <1>4, <1>5, <1>6, <1>7, <1>8, <1>9, <1>10 DEF OpStep

(* What the steps of the publisher do to the state and to the message.     *)
LEMMA PublisherStarts ==
    ASSUME TypeOK, SessionTypeOK, ShapeInv, StartInv, NEW h \in Conns,
           \/ Connect(h) \/ OnPublish(h) \/ OnUnpublish(h) \/ OnClose(h)
           \/ HandlerStep(h) \/ MediaError(h)
    PROVE  /\ hpc'[h] \in {"prepare", "dial", "reject", "input"} => state' = "READY"
           /\ hpc'[h] = "output" => state' = "INGESTING"
<1>0. /\ HandlerShape(h)
      /\ hpc[h] \in {"prepare", "dial", "reject", "input"} => state = "READY"
      /\ hpc[h] = "output" => state = "INGESTING"
      /\ after[h] \in {"closed", "open", "reset"}
  BY DEF ShapeInv, StartInv, SessionTypeOK
<1> USE <1>0 DEF SessionTypeOK, Step, mvars, status
<1>1. CASE Connect(h) \/ OnPublish(h) \/ OnUnpublish(h) \/ OnClose(h) \/ MediaError(h)
  BY <1>1 DEF Connect, OnPublish, OnUnpublish, OnClose, EndSession, MediaError, MarkError, handler
<1>2. CASE TakeSession(h) \/ ClearPipeline(h) \/ StopPipeline(h)
  BY <1>2 DEF TakeSession, ClearPipeline, StopPipeline
<1>3. CASE Disconnecting(h) \/ DisconnectStep(h)
  BY <1>3 DEF Disconnecting, DisconnectStep, Disconnect, Invalidate, Return, handler, HandlerShape
<1>4. CASE Disconnected(h)
  <2>1. CASE state = "READY" /\ UNCHANGED mvars
    BY <1>4, <2>1 DEF Disconnected
  <2>2. CASE Leave(h) /\ state \in SessionStates
    <3>1. CanTransition(state, "READY", "session_stopped")
      BY <2>2 DEF CanTransition, Transitions
    <3>2. state' = "READY"
      BY <2>2, <3>1 DEF Leave, Apply, Refused
    <3> QED
      BY <1>4, <3>2 DEF Disconnected
  <2>3. CASE Leave(h) /\ state \notin SessionStates /\ ~(state = "READY" /\ UNCHANGED mvars)
    BY <1>4, <2>3 DEF Disconnected
  <2> QED
    BY <1>4, <2>1, <2>2, <2>3 DEF Disconnected
<1>5. CASE Prepare(h) \/ Dial(h) \/ DialFails(h)
  BY <1>5 DEF Prepare, Dial, DialFails, PrepareNewSession, MarkError
<1>6. CASE Rejected(h)
  BY <1>6 DEF Rejected
<1>7. CASE Input(h) \/ Output(h)
  BY <1>7 DEF Input, Output, ConnectInput, Apply
<1>8. CASE MakePipeline(h) \/ SetPipeline(h)
  BY <1>8 DEF MakePipeline, SetPipeline
<1> QED
  BY <1>1, <1>2, <1>3, <1>4, <1>5, <1>6, <1>7, <1>8 DEF HandlerStep

LEMMA StartStep ==
    ASSUME OnePublisher, TypeOK, SessionTypeOK, ShapeInv, StartInv, [SessionNext]_svars
    PROVE  StartInv'
<1>1. ASSUME UNCHANGED handler, state \in Outside => state' = state PROVE StartInv'
  BY <1>1 DEF StartInv, handler, Outside
<1>2. CASE Boot /\ UNCHANGED <<handler, Engine>>
  <2>1. state \in {"STOPPED", "STARTING"}
    BY <1>2 DEF Boot, Apply, CanTransition, Transitions, WorkTransitions, SessionStates, Streaming
  <2> QED
    BY <1>2, <2>1 DEF StartInv, handler
<1>3. CASE UNCHANGED svars
  BY <1>1, <1>3 DEF svars, mvars, status
<1>4. ASSUME NEW t \in Ops,
             (Ask(t) /\ UNCHANGED <<handler, Engine>>) \/ OpStep(t) \/ RunPublish(t)
      PROVE  StartInv'
  BY <1>1, <1>4, OpKeeps, OpsStayInside
<1>5. ASSUME NEW h \in Conns,
             \/ Connect(h) \/ OnPublish(h) \/ OnUnpublish(h) \/ OnClose(h)
             \/ HandlerStep(h) \/ MediaError(h)
      PROVE  StartInv'
  <2> SUFFICES ASSUME NEW g \in Conns
               PROVE  /\ hpc'[g] \in {"prepare", "dial", "reject", "input"} => state' = "READY"
                      /\ hpc'[g] = "output" => state' = "INGESTING"
    BY DEF StartInv
  <2>1. CASE g = h
    BY <1>5, <2>1, PublisherStarts
  <2>2. CASE g # h
    <3>1. hpc'[g] = hpc[g]
      BY <1>5, <2>2, HandlerLocal
    <3>2. hpc[g] \in Publishing => g \in Publishers /\ h \notin Publishers
      BY <2>2 DEF ShapeInv, PublisherShape, OnePublisher
    <3>3. hpc[g] \in Publishing => state' = state
      BY <1>5, <3>2, Bystander DEF mvars, status
    <3> QED
      BY <3>1, <3>3 DEF StartInv, Publishing
  <2> QED
    BY <2>1, <2>2
<1>6. ASSUME NEW p \in Pipes, DrainError(p) PROVE StartInv'
  BY <1>1, <1>6 DEF DrainError, MarkError, status
<1>7. ASSUME NEW c \in Callers, Failed(c) PROVE StartInv'
  <2>1. \A g \in Conns : hpc[g] \notin Publishing \ {"reset"}
    BY <1>7, Undisturbed DEF Failed, Fail, Return
  <2> QED
    BY <1>7, <2>1 DEF Failed, StartInv, handler, Publishing
<1> QED
  BY <1>2, <1>3, <1>4, <1>5, <1>6, <1>7, SessionCases

LEMMA MessageStep ==
    ASSUME OnePublisher, TypeOK, SessionTypeOK, ShapeInv, StartInv, MessageInv, [SessionNext]_svars
    PROVE  MessageInv'
<1> USE DEF MessageInv, ErrorHasMessage
<1>1. ASSUME UNCHANGED <<callerPc, lastError>>, state' = "ERROR" => state = "ERROR"
      PROVE  MessageInv'
  BY <1>1
<1>2. ASSUME NEW c \in Callers, MarkError(c) PROVE MessageInv'
  BY <1>2 DEF MarkError
<1>3. ASSUME NEW c \in Callers, Fail(c) PROVE MessageInv'
  BY <1>3 DEF Fail, Return, display, TypeOK
<1>4. ASSUME NEW c \in Callers, Disconnect(c) \/ Invalidate(c) PROVE MessageInv'
  BY <1>4 DEF Disconnect, Invalidate, Return, status, display, TypeOK
<1>5. ASSUME NEW c \in Callers, Leave(c) PROVE MessageInv'
  BY <1>5 DEF Leave, Return, Apply, Refused, status, display, TypeOK
<1>6. ASSUME NEW c \in Callers, ConnectInput(c) \/ ConnectOutput(c) PROVE MessageInv'
  BY <1>6 DEF ConnectInput, ConnectOutput, Apply, display
<1>7. ASSUME NEW c \in Callers, NEW d, SetFixedDelayTarget(c, d) PROVE MessageInv'
  BY <1>7 DEF SetFixedDelayTarget, status
<1>8. ASSUME UNCHANGED mvars PROVE MessageInv'
  BY <1>8 DEF mvars, status, display
<1>9. CASE Boot
  BY <1>9 DEF Boot, Apply, display
<1>10. ASSUME NEW t \in Ops,
              (Ask(t) /\ UNCHANGED <<handler, Engine>>) \/ OpStep(t) \/ RunPublish(t)
       PROVE  MessageInv'
  BY <1>1, <1>10, OpKeeps, OpsStayInside
<1>11. ASSUME NEW h \in Conns, Prepare(h) PROVE MessageInv'
  <2>1. state = "READY" /\ \A c \in Callers : callerPc[c] = "idle"
    BY <1>11, Undisturbed DEF Prepare, Step, StartInv, Publishing
  <2> QED
    BY <1>11, <2>1 DEF Prepare, PrepareNewSession, status
<1>12. ASSUME NEW h \in Conns, HandlerStep(h) PROVE MessageInv'
  <2>0. h \in Callers
    BY SessionCallers
  <2>1. CASE TakeSession(h) \/ ClearPipeline(h) \/ StopPipeline(h) \/ Dial(h) \/ SetPipeline(h)
    BY <1>8, <2>1 DEF TakeSession, ClearPipeline, StopPipeline, Dial, SetPipeline
  <2>2. CASE Disconnecting(h) \/ DisconnectStep(h) \/ Disconnected(h)
    BY <1>4, <1>5, <1>8, <2>0, <2>2 DEF Disconnecting, DisconnectStep, Disconnected
  <2>3. CASE DialFails(h) \/ Rejected(h)
    BY <1>2, <1>3, <2>0, <2>3 DEF DialFails, Rejected
  <2>4. CASE Input(h) \/ Output(h)
    BY <1>6, <1>8, <2>0, <2>4 DEF Input, Output
  <2>5. CASE MakePipeline(h)
    BY <1>7, <1>8, <2>0, <2>5 DEF MakePipeline
  <2> QED
    BY <1>11, <1>12, <2>1, <2>2, <2>3, <2>4, <2>5 DEF HandlerStep
<1>13. ASSUME NEW h \in Conns,
              Connect(h) \/ OnPublish(h) \/ OnUnpublish(h) \/ OnClose(h) \/ MediaError(h)
       PROVE  MessageInv'
  BY <1>2, <1>8, <1>13, SessionCallers
     DEF Connect, OnPublish, OnUnpublish, OnClose, EndSession, MediaError
<1>14. ASSUME \/ \E p \in Pipes : DrainError(p)
              \/ \E c \in Callers : Failed(c)
       PROVE  MessageInv'
  BY <1>2, <1>3, <1>14, SessionCallers DEF DrainError, Failed
<1>15. CASE UNCHANGED svars
  BY <1>8, <1>15 DEF svars
<1> QED
  BY <1>9, <1>10, <1>12, <1>13, <1>14, <1>15, SessionCases

(* With one publisher the state is never ERROR without the error's         *)
(* message, whichever goroutine failed and whatever else is under way.     *)
THEOREM ErrorIsExplained == OnePublisher /\ SessionSpec => []ErrorHasMessage
<1> SUFFICES ASSUME OnePublisher PROVE SessionSpec => []ErrorHasMessage
  OBVIOUS
<1> DEFINE Inv == TypeOK /\ SessionTypeOK /\ ShapeInv /\ StartInv /\ MessageInv
<1>1. SessionInit => Inv
  <2> SUFFICES ASSUME SessionInit PROVE Inv
    OBVIOUS
  <2>1. TypeOK /\ SessionTypeOK /\ ShapeInv
    BY TypeInit, SessionTypeInit, ShapeInit DEF SessionInit
  <2>2. StartInv /\ MessageInv
    BY DEF SessionInit, Init, StartInv, MessageInv, ErrorHasMessage
  <2> QED
    BY <2>1, <2>2
<1>2. Inv /\ [SessionNext]_svars => Inv'
  BY SessionMaps, TypeStep, SessionTypeStep, ShapeStep, StartStep, MessageStep
<1>3. Inv => ErrorHasMessage
  BY DEF MessageInv
<1> QED
  BY <1>1, <1>2, <1>3, PTL DEF SessionSpec
-----------------------------------------------------------------------------
(* A goroutine of an ended session, in the next one.                       *)

(* From here a goroutine whose epoch is over gets no further than the next *)
(* check, and touches no pipeline before it.                               *)
Dozing(t) ==
    \/ pc[t] \in Checks \cup {"final"}
    \/ pc[t] = "hold" /\ kind[t] # "enable_delay"
    \/ pc[t] \in {"drain", "show"} /\ At(t, "run")

(* From the platform's answer until the session is taken.                  *)
Underway(h) == hpc[h] \in {"input", "output", "make", "install"} \/ hpipe[h] # 0

StaleInv ==
    \A h \in Conns, t \in Ops :
       Underway(h) /\ pc[t] \in SequenceLabel /\ ~Active(t) => Dozing(t)

(* A step of an operation leaves the other operations where they are.      *)
LEMMA OpLocal ==
    ASSUME TypeOK, SessionTypeOK, NEW t \in Ops,
           (Ask(t) /\ UNCHANGED <<handler, Engine>>) \/ OpStep(t) \/ RunPublish(t)
    PROVE  \A u \in Ops \ {t} :
              /\ pc'[u] = pc[u] /\ kind'[u] = kind[u] /\ want'[u] = want[u]
              /\ opEpoch'[u] = opEpoch[u] /\ stage'[u] = stage[u] /\ ref'[u] = ref[u]
<1> USE DEF TypeOK, SessionTypeOK, request, opCall, Move
<1>1. CASE Ask(t) /\ UNCHANGED <<handler, Engine>>
  BY <1>1 DEF Ask, Claim, SafeHoldCheck, Goto, Engine
<1>2. CASE BeginLookup(t) \/ BeginAct(t) \/ BeginBind(t)
  BY <1>2 DEF BeginLookup, BeginAct, BeginBind, BeginFail, BeginOk, BeginSetsTarget, Goto, mvars
<1>3. CASE RunLookup(t) \/ RunStart(t) \/ RunEnd(t) \/ RunPublish(t)
  BY <1>3 DEF RunLookup, RunStart, RunEnd, RunPublish, RunReturns, Publish, Goto, mvars
<1>4. CASE SwitchLookup(t) \/ SwitchAct(t)
  BY <1>4 DEF SwitchLookup, SwitchAct, Switch, Goto, mvars
<1>5. CASE /\ Enter(t) \/ Drop(t) \/ Rollback(t) \/ Spawn(t) \/ SafeHoldApply(t)
           /\ UNCHANGED opCall
  BY <1>5 DEF Enter, Drop, Rollback, Spawn, SafeHoldApply, End, Goto
<1>6. CASE /\ Check(t) \/ Hold(t) \/ Finish(t) \/ Undisplay(t) \/ Release(t)
           /\ UNCHANGED opCall
  BY <1>6 DEF Check, Hold, Finish, Undisplay, Release, End, Goto
<1> QED
  BY <1>1, <1>2, <1>3, <1>4, <1>5, <1>6 DEF OpStep

(* The handlers leave the operations alone; DisconnectSession ends their   *)
(* epoch.                                                                  *)
LEMMA HandlerLeavesOps ==
    ASSUME NEW h \in Conns,
           \/ Connect(h) \/ OnPublish(h) \/ OnUnpublish(h) \/ OnClose(h)
           \/ HandlerStep(h) \/ MediaError(h)
    PROVE  /\ UNCHANGED <<pc, kind, want, opEpoch, stage, ref, began>>
           /\ DisconnectStep(h) \/ UNCHANGED transitionEpoch
<1> USE DEF request, claim, mvars, Engine, opCall
<1>1. CASE Connect(h) \/ OnPublish(h) \/ OnUnpublish(h) \/ OnClose(h) \/ MediaError(h)
  BY <1>1 DEF Connect, OnPublish, OnUnpublish, OnClose, EndSession, MediaError, MarkError
<1>2. CASE TakeSession(h) \/ ClearPipeline(h) \/ StopPipeline(h)
  BY <1>2 DEF TakeSession, ClearPipeline, StopPipeline
<1>3. CASE Disconnecting(h) \/ DisconnectStep(h) \/ Disconnected(h)
  BY <1>3 DEF Disconnecting, DisconnectStep, Disconnected, Disconnect, Invalidate, Leave
<1>4. CASE Prepare(h) \/ Dial(h) \/ DialFails(h) \/ Rejected(h)
  BY <1>4 DEF Prepare, Dial, DialFails, Rejected, PrepareNewSession, MarkError, Fail
<1>5. CASE Input(h) \/ Output(h) \/ MakePipeline(h) \/ SetPipeline(h)
  BY <1>5 DEF Input, Output, MakePipeline, SetPipeline, ConnectInput, ConnectOutput, SetFixedDelayTarget
<1> QED
  BY <1>1, <1>2, <1>3, <1>4, <1>5 DEF HandlerStep

(* A goroutine that dozes and is stale dozes on or is on its way out.      *)
LEMMA StaleDozes ==
    ASSUME TypeOK, SessionTypeOK, NEW t \in Ops,
           (Ask(t) /\ UNCHANGED <<handler, Engine>>) \/ OpStep(t) \/ RunPublish(t),
           pc[t] \in SequenceLabel /\ ~Active(t) => Dozing(t)
    PROVE  (pc[t] \in SequenceLabel /\ ~Active(t) => Dozing(t))'
<1> USE DEF TypeOK, SessionTypeOK, Goto, Active, Dozing, Checks, SequenceLabel, request, claim, At, Move
<1>1. CASE Ask(t) /\ UNCHANGED <<handler, Engine>>
  BY <1>1 DEF Ask, Claim, SafeHoldCheck
<1>2. CASE BeginLookup(t) \/ BeginAct(t) \/ BeginBind(t)
  BY <1>2 DEF BeginLookup, BeginAct, BeginBind, BeginFail, BeginOk, BeginSetsTarget, mvars
<1>3. CASE RunLookup(t) \/ RunStart(t)
  BY <1>3 DEF RunLookup, RunStart, RunReturns, mvars
<1>4. CASE RunEnd(t) \/ RunPublish(t)
  BY <1>4 DEF RunEnd, RunPublish, RunReturns, Publish, opCall
<1>5. CASE SwitchLookup(t) \/ SwitchAct(t)
  BY <1>5 DEF SwitchLookup, SwitchAct, Switch, mvars
<1>6. CASE /\ Enter(t) \/ Drop(t) \/ Rollback(t) \/ Spawn(t) \/ SafeHoldApply(t)
           /\ UNCHANGED opCall
  BY <1>6 DEF Enter, Drop, Rollback, Spawn, SafeHoldApply, End
<1>7. CASE Check(t) /\ UNCHANGED opCall
  BY <1>7 DEF Check
<1>8. CASE /\ Hold(t) \/ Finish(t) \/ Undisplay(t) \/ Release(t)
           /\ UNCHANGED opCall
  BY <1>8 DEF Hold, Finish, Undisplay, Release, End, opCall
<1> QED
  BY <1>1, <1>2, <1>3, <1>4, <1>5, <1>6, <1>7, <1>8 DEF OpStep

(* A session gets under way when the platform answers, and only then.      *)
LEMMA DialBegins ==
    ASSUME TypeOK, SessionTypeOK, ShapeInv, NEW h \in Conns, Underway(h)',
           \/ Connect(h) \/ OnPublish(h) \/ OnUnpublish(h) \/ OnClose(h)
           \/ HandlerStep(h) \/ MediaError(h)
    PROVE  Dial(h) \/ (Underway(h) /\ ~DisconnectStep(h))
<1>0. HandlerShape(h) /\ after[h] \in {"closed", "open", "reset"}
  BY DEF ShapeInv, SessionTypeOK
<1> USE <1>0 DEF SessionTypeOK, HandlerShape, Underway, Fields, Locals, Step, DisconnectStep, Invalidate, Return
<1>1. CASE Connect(h) \/ OnPublish(h) \/ OnUnpublish(h) \/ OnClose(h) \/ MediaError(h)
  BY <1>1 DEF Connect, OnPublish, OnUnpublish, OnClose, EndSession, MediaError, handler
<1>2. CASE TakeSession(h) \/ ClearPipeline(h) \/ StopPipeline(h)
  BY <1>2 DEF TakeSession, ClearPipeline, StopPipeline
<1>3. CASE Disconnecting(h) \/ DisconnectStep(h)
  BY <1>3 DEF Disconnecting, handler
<1>4. CASE Disconnected(h)
  BY <1>4 DEF Disconnected
<1>5. CASE Prepare(h) \/ Dial(h) \/ DialFails(h) \/ Rejected(h)
  BY <1>5 DEF Prepare, DialFails, Rejected
<1>6. CASE Input(h) \/ Output(h) \/ MakePipeline(h) \/ SetPipeline(h)
  BY <1>6 DEF Input, Output, MakePipeline, SetPipeline
<1> QED
  BY <1>1, <1>2, <1>3, <1>4, <1>5, <1>6 DEF HandlerStep

LEMMA StaleStep ==
    ASSUME OnePublisher, TypeOK, SessionTypeOK, ShapeInv, StaleInv, [SessionNext]_svars
    PROVE  StaleInv'
<1>1. ASSUME UNCHANGED <<handler, pc, kind, opEpoch, transitionEpoch, stage>> PROVE StaleInv'
  BY <1>1 DEF StaleInv, Underway, Active, Dozing, At, handler
<1>2. CASE Boot /\ UNCHANGED <<handler, Engine>>
  BY <1>1, <1>2 DEF Boot, request, claim, Engine, opCall
<1>3. ASSUME \/ \E p \in Pipes : DrainError(p)
             \/ \E c \in Callers : Failed(c)
             \/ UNCHANGED svars
      PROVE  StaleInv'
  BY <1>1, <1>3 DEF DrainError, Failed, MarkError, Fail, request, claim, Engine, opCall, svars, mvars
<1>4. ASSUME NEW t \in Ops,
             (Ask(t) /\ UNCHANGED <<handler, Engine>>) \/ OpStep(t) \/ RunPublish(t)
      PROVE  StaleInv'
  <2> SUFFICES ASSUME NEW h \in Conns, NEW u \in Ops, Underway(h)'
               PROVE  (pc[u] \in SequenceLabel /\ ~Active(u) => Dozing(u))'
    BY DEF StaleInv
  <2>1. Underway(h)
    BY <1>4, OpKeeps DEF Underway, handler
  <2>2. CASE u = t
    BY <1>4, <2>1, <2>2, StaleDozes DEF StaleInv
  <2>3. CASE u # t
    BY <1>4, <2>1, <2>3, OpLocal, OpKeeps DEF StaleInv, Active, Dozing, At
  <2> QED
    BY <2>2, <2>3
<1>5. ASSUME NEW g \in Conns,
             \/ Connect(g) \/ OnPublish(g) \/ OnUnpublish(g) \/ OnClose(g)
             \/ HandlerStep(g) \/ MediaError(g)
      PROVE  StaleInv'
  <2> SUFFICES ASSUME NEW h \in Conns, NEW u \in Ops, Underway(h)'
               PROVE  (pc[u] \in SequenceLabel /\ ~Active(u) => Dozing(u))'
    BY DEF StaleInv
  <2>1. CASE Underway(h) /\ UNCHANGED transitionEpoch
    BY <1>5, <2>1, HandlerLeavesOps DEF StaleInv, Active, Dozing, At
  <2>2. CASE Dial(h)
    <3>1. pc[u] = "idle" \/ Asleep(u)
      BY <2>2 DEF Dial
    <3> QED
      BY <1>5, <3>1, HandlerLeavesOps DEF Asleep, Dozing, Checks, At, SequenceLabel
  <2>3. CASE g = h
    BY <1>5, <2>1, <2>2, <2>3, DialBegins, HandlerLeavesOps
  <2>4. CASE g # h
    <3>1. Underway(h)
      BY <1>5, <2>4, HandlerLocal DEF Underway
    <3>2. h \in Publishers
      BY <3>1 DEF Underway, ShapeInv, PublisherShape, Publishing
    <3>3. UNCHANGED transitionEpoch
      BY <1>5, <2>4, <3>2, Bystander DEF OnePublisher, mvars, claim
    <3> QED
      BY <2>1, <3>1, <3>3
  <2> QED
    BY <2>3, <2>4
<1> QED
  BY <1>2, <1>3, <1>4, <1>5, SessionCases

(* Who steers the output of a live session: an operation, at three of its  *)
(* sections.                                                               *)
LEMMA WhoSteers ==
    ASSUME SessionTypeOK, ShapeInv, [SessionNext]_svars, OnePublisher,
           NEW h \in Conns, Live(h), policy'[hpipe[h]] # policy[hpipe[h]]
    PROVE  \E u \in Ops : BeginAct(u) \/ RunStart(u) \/ SwitchAct(u)
<1>0. /\ hpipe[h] # 0 /\ hpc[h] \in {"open", "take"} /\ h \in Publishers
      /\ hpipe[h] \in Pipes
  BY DEF Live, ShapeInv, HandlerShape, PublisherShape, SessionTypeOK
<1>1. ASSUME UNCHANGED policy PROVE FALSE
  BY <1>1
<1>2. CASE (Boot /\ UNCHANGED <<handler, Engine>>) \/ UNCHANGED svars
  BY <1>1, <1>2 DEF Engine, svars
<1>3. ASSUME NEW t \in Ops,
             (Ask(t) /\ UNCHANGED <<handler, Engine>>) \/ OpStep(t) \/ RunPublish(t)
      PROVE  BeginAct(t) \/ RunStart(t) \/ SwitchAct(t)
  BY <1>1, <1>3 DEF Engine, OpStep, BeginLookup, BeginBind, RunLookup, RunEnd, SwitchLookup, RunPublish
<1>4. ASSUME NEW g \in Conns,
             \/ Connect(g) \/ OnPublish(g) \/ OnUnpublish(g) \/ OnClose(g)
             \/ HandlerStep(g) \/ MediaError(g)
      PROVE  FALSE
  <2>1. CASE g # h
    <3>1. /\ g \notin Publishers /\ PublisherShape(g)
      BY <1>0, <2>1 DEF OnePublisher, ShapeInv
    <3>2. CASE StopPipeline(g)
      BY <1>0, <1>1, <3>1, <3>2 DEF StopPipeline, PublisherShape, SessionTypeOK
    <3>3. CASE MakePipeline(g)
      BY <3>1, <3>3 DEF MakePipeline, Step, PublisherShape, Publishing
    <3> QED
      BY <1>1, <1>4, <3>2, <3>3
         DEF Engine, HandlerStep, Connect, OnPublish, OnUnpublish, OnClose, EndSession, MediaError,
             TakeSession, ClearPipeline, Disconnecting, DisconnectStep, Disconnected, Prepare, Dial,
             DialFails, Rejected, Input, Output, SetPipeline
  <2>2. CASE g = h
    <3>1. ~StopPipeline(h) /\ ~MakePipeline(h)
      BY <1>0 DEF StopPipeline, MakePipeline, Step
    <3> QED
      BY <1>1, <1>4, <2>2, <3>1
         DEF Engine, HandlerStep, Connect, OnPublish, OnUnpublish, OnClose, EndSession, MediaError,
             TakeSession, ClearPipeline, Disconnecting, DisconnectStep, Disconnected, Prepare, Dial,
             DialFails, Rejected, Input, Output, SetPipeline
  <2> QED
    BY <2>1, <2>2
<1>5. ASSUME \/ \E p \in Pipes : DrainError(p)
             \/ \E c \in Callers : Failed(c)
      PROVE  FALSE
  BY <1>1, <1>5 DEF DrainError, Failed, Engine
<1> QED
  BY <1>2, <1>3, <1>4, <1>5, SessionCases

-----------------------------------------------------------------------------
(* Where an operation is inside a call of the coordinator.                 *)

InCallOf(t) ==
    /\ stage[t] = "act"  => pc[t] \in {"begin", "drain", "show", "switch"}
    /\ stage[t] = "bind" => pc[t] = "begin"
    /\ stage[t] = "run"  => pc[t] \in {"drain", "show"}
    /\ stage[t] \in {"act", "run"} => ref[t] # 0

CallInv == \A t \in Ops : InCallOf(t)

LEMMA OpInCall ==
    ASSUME TypeOK, SessionTypeOK, NEW t \in Ops, InCallOf(t),
           (Ask(t) /\ UNCHANGED <<handler, Engine>>) \/ OpStep(t) \/ RunPublish(t)
    PROVE  InCallOf(t)'
<1> USE DEF TypeOK, SessionTypeOK, InCallOf, opCall, Engine, Goto, End, Move, At
<1>1. CASE Ask(t) /\ UNCHANGED <<handler, Engine>>
  BY <1>1 DEF Ask, Claim, SafeHoldCheck
<1>2. CASE BeginLookup(t) \/ BeginAct(t) \/ BeginBind(t)
  BY <1>2 DEF BeginLookup, BeginAct, BeginBind, BeginFail, BeginOk, BeginSetsTarget, mvars
<1>3. CASE RunLookup(t) \/ RunStart(t) \/ RunEnd(t) \/ RunPublish(t)
  BY <1>3 DEF RunLookup, RunStart, RunEnd, RunPublish, RunReturns, Publish, mvars
<1>4. CASE SwitchLookup(t) \/ SwitchAct(t)
  BY <1>4 DEF SwitchLookup, SwitchAct, Switch, mvars
<1>5. CASE /\ \/ Enter(t) \/ Drop(t) \/ Rollback(t) \/ Spawn(t) \/ SafeHoldApply(t)
              \/ Check(t) \/ Hold(t) \/ Finish(t) \/ Undisplay(t) \/ Release(t)
           /\ UNCHANGED opCall
  <2>1. pc[t] \notin {"begin", "drain", "show", "switch"}
    BY <1>5 DEF Enter, Drop, Rollback, Spawn, SafeHoldApply, Check, Checks, Hold, Finish, Undisplay, Release
  <2> QED
    BY <1>5, <2>1
<1> QED
  BY <1>1, <1>2, <1>3, <1>4, <1>5 DEF OpStep

LEMMA CallStep ==
    ASSUME TypeOK, SessionTypeOK, CallInv, [SessionNext]_svars
    PROVE  CallInv'
<1>1. ASSUME UNCHANGED <<pc, stage, ref>> PROVE CallInv'
  BY <1>1 DEF CallInv, InCallOf
<1>2. CASE (Boot /\ UNCHANGED <<handler, Engine>>) \/ UNCHANGED svars
  BY <1>1, <1>2 DEF Boot, svars, mvars, opCall, Engine
<1>3. ASSUME NEW t \in Ops,
             (Ask(t) /\ UNCHANGED <<handler, Engine>>) \/ OpStep(t) \/ RunPublish(t)
      PROVE  CallInv'
  <2>1. InCallOf(t)'
    BY <1>3, OpInCall DEF CallInv
  <2> QED
    BY <1>3, <2>1, OpLocal DEF CallInv, InCallOf
<1>4. ASSUME NEW h \in Conns,
             \/ Connect(h) \/ OnPublish(h) \/ OnUnpublish(h) \/ OnClose(h)
             \/ HandlerStep(h) \/ MediaError(h)
      PROVE  CallInv'
  BY <1>1, <1>4, HandlerLeavesOps
<1>5. ASSUME \/ \E p \in Pipes : DrainError(p)
             \/ \E c \in Callers : Failed(c)
      PROVE  CallInv'
  BY <1>1, <1>5 DEF DrainError, Failed, MarkError, Fail, opCall, Engine
<1> QED
  BY <1>2, <1>3, <1>4, <1>5, SessionCases
-----------------------------------------------------------------------------
(* The session an operation began in, and its epoch.                       *)

(* The coordinator has looked up a pipeline for the operation.             *)
Asked(t) == pc[t] \in SequenceLabel \cup {"spawn"} \/ (pc[t] = "begin" /\ ~At(t, "call"))

(* A session streams, or has failed, until DisconnectSession has begun.    *)
StreamInv ==
    \A h \in Conns :
       (\/ hpc[h] \in {"make", "install"} \/ hpipe[h] # 0 \/ taken[h][1] # 0
        \/ hpc[h] = "end" /\ callerPc[h] = "idle")
       => state \in SessionStates

(* Pipeline p is that of h until the epoch is over.                        *)
Owns(h, p) ==
    \/ hpipe[h] = p
    \/ taken[h][1] = p
    \/ hpc[h] = "end" /\ callerPc[h] # "leave"

(* An epoch belongs to one session: what began in the present epoch began  *)
(* in the session that is live, or is being ended.                         *)
BeganRight(t) ==
    /\ began[t].epoch <= transitionEpoch
    /\ Asked(t) =>
         /\ began[t].session # 0
         /\ began[t].epoch = transitionEpoch
              => \E h \in Publishers : Owns(h, began[t].session)

PipelineOwned ==
    pipeline # 0 =>
       \E h \in Publishers :
          hpipe[h] = pipeline \/ (taken[h][1] = pipeline /\ hpc[h] = "clear")

BeganInv == (\A t \in Ops : BeganRight(t)) /\ PipelineOwned

(* What an operation remembers changes when it looks a pipeline up, and    *)
(* when it ends.                                                           *)
LEMMA OpBegins ==
    ASSUME TypeOK, SessionTypeOK, NEW t \in Ops, InCallOf(t),
           (Ask(t) /\ UNCHANGED <<handler, Engine>>) \/ OpStep(t) \/ RunPublish(t)
    PROVE  /\ \A u \in Ops \ {t} : began'[u] = began[u]
           /\ \/ began'[t] = began[t] /\ (Asked(t)' => Asked(t))
              \/ began'[t] = [session |-> pipeline, epoch |-> transitionEpoch]
                   /\ (Asked(t)' => pipeline # 0)
              \/ began'[t] = NoSession /\ ~Asked(t)'
<1> USE DEF TypeOK, SessionTypeOK, Goto, Asked, At, Move, Engine, opCall, SequenceLabel
<1>1. CASE Ask(t) /\ UNCHANGED <<handler, Engine>>
  BY <1>1 DEF Ask, Claim, SafeHoldCheck
<1>2. CASE BeginLookup(t)
  BY <1>2 DEF BeginLookup, BeginFail
<1>3. CASE BeginAct(t) \/ BeginBind(t)
  BY <1>3 DEF BeginAct, BeginBind, BeginFail, BeginOk, BeginSetsTarget, mvars
<1>4. CASE RunLookup(t) \/ RunStart(t) \/ RunEnd(t) \/ RunPublish(t)
  BY <1>4 DEF RunLookup, RunStart, RunEnd, RunPublish, RunReturns, Publish, mvars
<1>5. CASE SwitchLookup(t) \/ SwitchAct(t)
  BY <1>5 DEF SwitchLookup, SwitchAct, Switch, mvars
<1>6. CASE /\ Enter(t) \/ Drop(t) \/ Spawn(t) \/ SafeHoldApply(t)
           /\ UNCHANGED <<opCall, began>>
  BY <1>6 DEF Enter, Drop, Spawn, SafeHoldApply, InCallOf
<1>7. CASE /\ Check(t) \/ Hold(t) \/ Finish(t) \/ Undisplay(t)
           /\ UNCHANGED <<opCall, began>>
  BY <1>7 DEF Check, Checks, Hold, Finish, Undisplay
<1>8. CASE /\ Rollback(t) \/ Release(t)
           /\ began' = [began EXCEPT ![t] = NoSession]
  BY <1>8 DEF Rollback, Release, End
<1> QED
  BY <1>1, <1>2, <1>3, <1>4, <1>5, <1>6, <1>7, <1>8 DEF OpStep

(* What a step of h leaves of its session.                                 *)
LEMMA PublisherStreams ==
    ASSUME TypeOK, SessionTypeOK, ShapeInv, StreamInv, NEW h \in Conns,
           \/ Connect(h) \/ OnPublish(h) \/ OnUnpublish(h) \/ OnClose(h)
           \/ HandlerStep(h) \/ MediaError(h)
    PROVE  (\/ hpc[h] \in {"make", "install"} \/ hpipe[h] # 0 \/ taken[h][1] # 0
            \/ hpc[h] = "end" /\ callerPc[h] = "idle")'
           => state' \in SessionStates
<1>0. /\ HandlerShape(h) /\ h \in Callers
      /\ after[h] \in {"closed", "open", "reset"}
      /\ (\/ hpc[h] \in {"make", "install"} \/ hpipe[h] # 0 \/ taken[h][1] # 0
          \/ hpc[h] = "end" /\ callerPc[h] = "idle") => state \in SessionStates
  BY SessionCallers DEF ShapeInv, SessionTypeOK, StreamInv
<1> USE <1>0 DEF SessionTypeOK, TypeOK, HandlerShape, Step, Fields, Locals, mvars, status
<1>1. CASE Connect(h) \/ OnPublish(h) \/ OnUnpublish(h) \/ OnClose(h) \/ MediaError(h)
  BY <1>1 DEF Connect, OnPublish, OnUnpublish, OnClose, EndSession, MediaError, MarkError, Return, handler
<1>2. CASE TakeSession(h) \/ ClearPipeline(h)
  BY <1>2 DEF TakeSession, ClearPipeline
<1>3. CASE StopPipeline(h)
  BY <1>3 DEF StopPipeline
<1>4. CASE Disconnecting(h) \/ DisconnectStep(h)
  BY <1>4 DEF Disconnecting, DisconnectStep, Disconnect, Invalidate, Return, handler
<1>5. CASE Disconnected(h)
  BY <1>5 DEF Disconnected
<1>6. CASE Prepare(h) \/ Dial(h) \/ DialFails(h) \/ Rejected(h) \/ Input(h)
  BY <1>6 DEF Prepare, Dial, DialFails, Rejected, Input
<1>7. CASE Output(h)
  BY <1>7 DEF Output, ConnectOutput, Apply, SessionStates, Streaming
<1>8. CASE MakePipeline(h) \/ SetPipeline(h)
  BY <1>8 DEF MakePipeline, SetPipeline, SetFixedDelayTarget
<1> QED
  BY <1>1, <1>2, <1>3, <1>4, <1>5, <1>6, <1>7, <1>8 DEF HandlerStep

LEMMA StreamStep ==
    ASSUME OnePublisher, TypeOK, SessionTypeOK, ShapeInv, StreamInv, [SessionNext]_svars
    PROVE  StreamInv'
<1>1. ASSUME UNCHANGED <<handler, callerPc>>, state \in SessionStates => state' \in SessionStates
      PROVE  StreamInv'
  BY <1>1 DEF StreamInv, handler
<1>2. CASE Boot /\ UNCHANGED <<handler, Engine>>
  <2>1. state \notin SessionStates
    BY <1>2 DEF Boot, Apply, CanTransition, Transitions, WorkTransitions, SessionStates, Streaming
  <2> QED
    BY <1>1, <1>2, <2>1 DEF Boot
<1>3. CASE UNCHANGED svars
  BY <1>1, <1>3 DEF svars, mvars, status
<1>4. ASSUME NEW t \in Ops,
             (Ask(t) /\ UNCHANGED <<handler, Engine>>) \/ OpStep(t) \/ RunPublish(t)
      PROVE  StreamInv'
  BY <1>1, <1>4, OpKeeps, OpsStayInside
<1>5. ASSUME NEW g \in Conns,
             \/ Connect(g) \/ OnPublish(g) \/ OnUnpublish(g) \/ OnClose(g)
             \/ HandlerStep(g) \/ MediaError(g)
      PROVE  StreamInv'
  <2> SUFFICES ASSUME NEW h \in Conns,
                      (\/ hpc[h] \in {"make", "install"} \/ hpipe[h] # 0 \/ taken[h][1] # 0
                       \/ hpc[h] = "end" /\ callerPc[h] = "idle")'
               PROVE  state' \in SessionStates
    BY DEF StreamInv
  <2>1. CASE g = h
    BY <1>5, <2>1, PublisherStreams
  <2>2. CASE g # h
    <3>1. /\ hpc'[h] = hpc[h] /\ hpipe'[h] = hpipe[h] /\ taken'[h] = taken[h]
          /\ callerPc'[h] = callerPc[h]
      BY <1>5, <2>2, HandlerLocal, SessionCallers
    <3>2. h \in Publishers /\ g \notin Publishers
      BY <2>2, <3>1 DEF ShapeInv, PublisherShape, Publishing, OnePublisher
    <3>3. state' = state
      BY <1>5, <3>2, Bystander DEF mvars, status
    <3> QED
      BY <3>1, <3>3 DEF StreamInv
  <2> QED
    BY <2>1, <2>2
<1>6. ASSUME NEW p \in Pipes, DrainError(p) PROVE StreamInv'
  BY <1>6, Apart, SessionCallers DEF DrainError, MarkError, Return, status, StreamInv, handler, TypeOK
<1>7. ASSUME NEW c \in Callers, Failed(c) PROVE StreamInv'
  BY <1>7 DEF Failed, Fail, Apply, StreamInv, SessionStates, Streaming
<1> QED
  BY <1>2, <1>3, <1>4, <1>5, <1>6, <1>7, SessionCases

(* What a step of the publisher does to its own claim on a pipeline: the   *)
(* claim lasts until the epoch is over, and a new pipeline is installed    *)
(* only when there was none.                                               *)
LEMMA PublisherOwns ==
    ASSUME TypeOK, SessionTypeOK, ShapeInv, StreamInv, NEW h \in Conns,
           \/ Connect(h) \/ OnPublish(h) \/ OnUnpublish(h) \/ OnClose(h)
           \/ HandlerStep(h) \/ MediaError(h)
    PROVE  /\ \A p \in Pipes : Owns(h, p) => Owns(h, p)' \/ DisconnectStep(h)
           /\ \/ pipeline' = pipeline
                 /\ (hpipe[h] # 0 /\ hpipe[h] = pipeline
                      => hpipe'[h] = pipeline \/ (taken'[h][1] = pipeline /\ hpc'[h] = "clear"))
                 /\ (taken[h][1] # 0 /\ hpc[h] = "clear"
                      => taken'[h][1] = taken[h][1] /\ hpc'[h] = "clear")
              \/ pipeline' = 0
              \/ pipeline' = hpipe'[h] /\ h \in Publishers
<1>0. /\ HandlerShape(h) /\ PublisherShape(h) /\ h \in Callers
      /\ after[h] \in {"closed", "open", "reset"}
      /\ hpc[h] = "end" /\ callerPc[h] = "idle" => state # "READY"
      /\ \A p \in Pipes : p # 0
  <2>1. \A p \in Pipes : p # 0
    BY SessionAssumption DEF Pipes
  <2> QED
    BY <2>1, SessionCallers DEF ShapeInv, SessionTypeOK, StreamInv, SessionStates, Streaming
<1> USE <1>0 DEF Owns, SessionTypeOK, TypeOK, HandlerShape, Step, Fields, Locals, mvars, Engine, coordinator
<1>1. CASE Connect(h) \/ OnPublish(h) \/ OnUnpublish(h) \/ OnClose(h) \/ MediaError(h)
  BY <1>1 DEF Connect, OnPublish, OnUnpublish, OnClose, EndSession, MediaError, MarkError, Return, handler
<1>2. CASE TakeSession(h)
  BY <1>2 DEF TakeSession
<1>3. CASE ClearPipeline(h)
  BY <1>3 DEF ClearPipeline
<1>4. CASE StopPipeline(h)
  BY <1>4 DEF StopPipeline
<1>5. CASE Disconnecting(h) \/ DisconnectStep(h)
  BY <1>5 DEF Disconnecting, DisconnectStep, Disconnect, Return, handler
<1>6. CASE Disconnected(h)
  BY <1>6 DEF Disconnected, Leave, Return
<1>7. CASE Prepare(h) \/ Dial(h) \/ DialFails(h) \/ Rejected(h) \/ Input(h) \/ Output(h)
  BY <1>7 DEF Prepare, Dial, DialFails, Rejected, Input, Output
<1>8. CASE MakePipeline(h)
  BY <1>8 DEF MakePipeline
<1>9. CASE SetPipeline(h)
  BY <1>9 DEF SetPipeline, PublisherShape, Publishing
<1> QED
  BY <1>1, <1>2, <1>3, <1>4, <1>5, <1>6, <1>7, <1>8, <1>9 DEF HandlerStep

LEMMA BeganStep ==
    ASSUME OnePublisher, TypeOK, SessionTypeOK, ShapeInv, CallInv, StreamInv, BeganInv,
           [SessionNext]_svars
    PROVE  BeganInv'
<1>0. /\ \A u \in Ops : began[u] \in [session : Pipes \cup {0}, epoch : Nat]
      /\ pipeline \in Pipes \cup {0} /\ transitionEpoch \in Nat
      /\ Publishers \subseteq Conns /\ Conns \subseteq Callers
  BY SessionAssumption, SessionCallers DEF SessionTypeOK, TypeOK
<1>1. ASSUME UNCHANGED <<hpipe, taken, hpc, transitionEpoch, pipeline, pc, stage, began>>,
             \A h \in Conns : callerPc[h] # "leave" => callerPc'[h] # "leave"
      PROVE  BeganInv'
  BY <1>0, <1>1 DEF BeganInv, BeganRight, PipelineOwned, Owns, Asked, At
<1>2. CASE (Boot /\ UNCHANGED <<handler, Engine>>) \/ UNCHANGED svars
  BY <1>1, <1>2 DEF Boot, svars, mvars, handler, Engine, coordinator, opCall, claim
<1>3. ASSUME NEW t \in Ops,
             (Ask(t) /\ UNCHANGED <<handler, Engine>>) \/ OpStep(t) \/ RunPublish(t)
      PROVE  BeganInv'
  <2>1. UNCHANGED <<hpc, hpipe, taken, callerPc, transitionEpoch, pipeline>>
    BY <1>3, OpKeeps DEF handler
  <2>2. PipelineOwned'
    BY <2>1 DEF BeganInv, PipelineOwned
  <2>3. pipeline # 0 => \E h \in Publishers : Owns(h, pipeline)
    BY DEF BeganInv, PipelineOwned, Owns
  <2>4. ASSUME NEW u \in Ops, began'[u] = began[u], Asked(u)' => Asked(u) PROVE BeganRight(u)'
    BY <2>1, <2>4 DEF BeganInv, BeganRight, Owns
  <2>5. BeganRight(t)'
    <3>1. CASE began'[t] = began[t] /\ (Asked(t)' => Asked(t))
      BY <2>4, <3>1
    <3>2. CASE /\ began'[t] = [session |-> pipeline, epoch |-> transitionEpoch]
               /\ (Asked(t)' => pipeline # 0)
      BY <1>0, <2>1, <2>3, <3>2 DEF BeganRight, Owns
    <3>3. CASE began'[t] = NoSession /\ ~Asked(t)'
      BY <1>0, <2>1, <3>3 DEF NoSession, BeganRight
    <3> QED
      BY <1>3, <3>1, <3>2, <3>3, OpBegins DEF CallInv
  <2>6. ASSUME NEW u \in Ops \ {t} PROVE BeganRight(u)'
    <3>1. began'[u] = began[u] /\ (Asked(u)' <=> Asked(u))
      BY <1>3, OpBegins, OpLocal DEF CallInv, Asked, At
    <3> QED
      BY <2>4, <3>1
  <2> QED
    BY <2>2, <2>5, <2>6 DEF BeganInv
<1>4. ASSUME NEW g \in Conns,
             \/ Connect(g) \/ OnPublish(g) \/ OnUnpublish(g) \/ OnClose(g)
             \/ HandlerStep(g) \/ MediaError(g)
      PROVE  BeganInv'
  <2>1. UNCHANGED <<pc, stage, began>> /\ (DisconnectStep(g) \/ UNCHANGED transitionEpoch)
    BY <1>4, HandlerLeavesOps
  <2>2. ASSUME NEW h \in Conns \ {g} PROVE UNCHANGED <<hpipe[h], taken[h], hpc[h], callerPc[h]>>
    BY <1>0, <1>4, <2>2, HandlerLocal
  <2>3. CASE g \in Publishers
    <3>0. \A h \in Publishers : h = g
      BY <2>3 DEF OnePublisher
    <3>1. PipelineOwned'
      BY <1>4, <2>3, <3>0, PublisherOwns DEF BeganInv, PipelineOwned
    <3>2. ASSUME NEW t \in Ops PROVE BeganRight(t)'
      <4>0. BeganRight(t) /\ began'[t] = began[t] /\ (Asked(t)' <=> Asked(t))
        BY <2>1 DEF BeganInv, Asked, At
      <4>1. CASE DisconnectStep(g)
        BY <1>0, <4>0, <4>1 DEF BeganRight, DisconnectStep, Invalidate
      <4>2. CASE ~DisconnectStep(g)
        <5>1. transitionEpoch' = transitionEpoch
          BY <2>1, <4>2
        <5>2. \A p \in Pipes : Owns(g, p) => Owns(g, p)'
          BY <1>4, <4>2, PublisherOwns
        <5>3. ASSUME Asked(t), began[t].epoch = transitionEpoch
              PROVE  \E h \in Publishers : Owns(h, began[t].session)'
          <6>1. began[t].session \in Pipes /\ Owns(g, began[t].session)
            BY <1>0, <3>0, <4>0, <5>3 DEF BeganRight
          <6>2. Owns(g, began[t].session)'
            BY <4>0, <5>2, <6>1 DEF Owns
          <6> QED
            BY <2>3, <6>2
        <5> QED
          BY <4>0, <5>1, <5>3 DEF BeganRight
      <4> QED
        BY <4>1, <4>2
    <3> QED
      BY <3>1, <3>2 DEF BeganInv
  <2>4. CASE g \notin Publishers
    <3>1. transitionEpoch' = transitionEpoch
      BY <1>4, <2>4, Bystander DEF mvars, claim
    <3>2. pipeline' = pipeline \/ pipeline' = 0
      BY <1>4, <2>4, PublisherOwns
    <3>3. \A h \in Publishers : UNCHANGED <<hpipe[h], taken[h], hpc[h], callerPc[h]>>
      BY <1>0, <2>2, <2>4
    <3>4. PipelineOwned'
      BY <3>2, <3>3 DEF BeganInv, PipelineOwned
    <3>5. ASSUME NEW t \in Ops PROVE BeganRight(t)'
      BY <2>1, <3>1, <3>3 DEF BeganInv, BeganRight, Asked, At, Owns
    <3> QED
      BY <3>4, <3>5 DEF BeganInv
  <2> QED
    BY <2>3, <2>4
<1>5. ASSUME \/ \E p \in Pipes : DrainError(p)
             \/ \E c \in Callers : Failed(c)
      PROVE  BeganInv'
  <2>1. UNCHANGED <<hpipe, taken, hpc, transitionEpoch, pipeline, pc, stage, began>>
    BY <1>5 DEF DrainError, Failed, MarkError, Fail, handler, Engine, coordinator, opCall, claim
  <2>2. \A h \in Conns : callerPc[h] # "leave" => callerPc'[h] # "leave"
    BY <1>5, SessionCallers DEF DrainError, Failed, MarkError, Fail, Return, TypeOK
  <2> QED
    BY <1>1, <2>1, <2>2
<1> QED
  BY <1>2, <1>3, <1>4, <1>5, SessionCases

(* With one publisher, a goroutine that was given the epoch its request    *)
(* began in steers the output of its own session and of no other: not even *)
(* when it sleeps over the next session's start and an operation is bound  *)
(* to that session.  (One that was given a later epoch may.)               *)
THEOREM StaleKeepsOut == OnePublisher /\ SessionSpec => StaleNeverSteers
<1> SUFFICES ASSUME OnePublisher PROVE SessionSpec => StaleNeverSteers
  OBVIOUS
<1> DEFINE Inv == TypeOK /\ SessionTypeOK /\ ShapeInv /\ StaleInv /\ CallInv /\ StreamInv /\ BeganInv
<1> DEFINE Kept == \A t \in Ops, h \in Conns :
                      Steers(t, h) /\ opEpoch[t] = began[t].epoch => began[t].session = hpipe[h]
<1>1. SessionInit => Inv
  <2> SUFFICES ASSUME SessionInit PROVE Inv
    OBVIOUS
  <2>1. TypeOK /\ SessionTypeOK /\ ShapeInv
    BY TypeInit, SessionTypeInit, ShapeInit DEF SessionInit
  <2>2. StaleInv /\ CallInv
    BY DEF SessionInit, Init, StaleInv, SequenceLabel, CallInv, InCallOf
  <2>3. StreamInv
    BY DEF SessionInit, StreamInv
  <2>4. BeganInv
    BY DEF SessionInit, Init, BeganInv, BeganRight, PipelineOwned, NoSession, Asked, SequenceLabel
  <2> QED
    BY <2>1, <2>2, <2>3, <2>4
<1>2. Inv /\ [SessionNext]_svars => Inv'
  BY SessionMaps, TypeStep, SessionTypeStep, ShapeStep, StaleStep, CallStep, StreamStep, BeganStep
<1>3. Inv /\ [SessionNext]_svars => Kept
  <2> SUFFICES ASSUME Inv, [SessionNext]_svars, NEW t \in Ops, NEW h \in Conns,
                      Steers(t, h), opEpoch[t] = began[t].epoch
               PROVE  began[t].session = hpipe[h]
    OBVIOUS
  <2>1. PICK u \in Ops : BeginAct(u) \/ RunStart(u) \/ SwitchAct(u)
    BY WhoSteers DEF Steers
  <2>2. u = t
    BY <2>1, OpLocal DEF OpStep, Steers
  <2>3. RunStart(t) \/ SwitchAct(t)
    BY <2>1, <2>2 DEF Steers, BeginAct, SequenceLabel
  <2>4. ~Dozing(t)
    BY <2>3 DEF RunStart, SwitchAct, Switch, Goto, Dozing, Checks, At
  <2>5. Active(t)
    BY <2>4 DEF StaleInv, Underway, Steers, Live
  <2>6. PICK g \in Publishers : Owns(g, began[t].session)
    BY <2>5 DEF BeganInv, BeganRight, Asked, Active, Steers
  <2>7. HandlerShape(h) /\ PublisherShape(h) /\ hpipe[h] # 0 /\ began[t].session # 0
    BY DEF ShapeInv, Steers, Live, BeganInv, BeganRight, Asked
  <2>8. g = h
    BY <2>6, <2>7 DEF OnePublisher, PublisherShape
  <2> QED
    BY <2>6, <2>7, <2>8 DEF Owns, HandlerShape
<1>4. Inv /\ [SessionNext]_svars => [Kept]_svars
  BY <1>3
<1> QED
  BY <1>1, <1>2, <1>4, PTL DEF SessionSpec, StaleNeverSteers
=============================================================================
