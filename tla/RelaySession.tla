---------------------------- MODULE RelaySession ----------------------------
(***************************************************************************)
(* The relay engine's sessions: the state machine of RelayMachine composed *)
(* with the forwarding coordinator (internal/ingest/coordinator.go), the   *)
(* publish handlers of the ingest server (rtmp_server.go) and what the     *)
(* operations do to a session's pipeline (pipeline.go): its output policy. *)
(*                                                                         *)
(* A pipeline is named by the publish attempt that made it; that name also *)
(* stands for its sessionID, which the coordinator only compares.          *)
(***************************************************************************)
EXTENDS RelayMachine

CONSTANTS Conns,         \* TCP connections to the ingest port
          Publishers,    \* those that publish; the others just open and close
          MaxPublish,    \* bound on the publish commands
          InitialDelay,  \* options.FixedDelaySeconds, 0 for none
          Lingering      \* whether goroutines of an ended session may still
                         \* sleep when the platform has accepted the next

Pipes == 1..MaxPublish

ASSUME SessionAssumption ==
    /\ Publishers \subseteq Conns
    /\ MaxPublish \in Nat
    /\ InitialDelay \in Targets \cup {0}
    /\ Lingering \in BOOLEAN
    /\ Callers = Conns \cup Pipes      \* a connection's goroutine, and a
                                       \* pipeline's drain goroutine
    /\ Conns \cap Pipes = {}           \* are never the same

VARIABLES
    hpc,            \* where a connection's handler is
    after,          \* what its endSession returns to
    hpipe,          \* h.pipeline (and h.publisher), 0 for nil
    sessionActive,  \* h.sessionActive
    taken,          \* the locals of endSession: <<pipeline, active>>
    attempt,        \* the publish command the handler serves
    published,      \* how many publish commands there have been
    pipeline,       \* c.pipeline, 0 for nil
    operation,      \* c.operationSession, 0 for none
    policy,         \* the output policy of each pipeline's controller
    ref,            \* the pipeline an operation's coordinator call works on
    stage,          \* where that call is
    began           \* history: the session an operation began in, and its epoch

handler     == <<hpc, after, hpipe, sessionActive, taken, attempt, published>>
coordinator == <<pipeline, operation>>
opCall      == <<ref, stage>>
svars       == <<mvars, handler, coordinator, policy, opCall, began>>

Policy == {"passthrough", "buffering_fill", "slate", "delayed", "drain_at_live"}

HandlerPc == {"closed", "open", "take", "clear", "stop", "end",
              "reset", "prepare", "dial", "reject", "input", "output",
              "make", "install"}

NoSession == [session |-> 0, epoch |-> 0]

SessionTypeOK ==
    /\ hpc \in [Conns -> HandlerPc]
    /\ after \in [Conns -> {"closed", "open", "reset"}]
    /\ hpipe \in [Conns -> Pipes \cup {0}]
    /\ sessionActive \in [Conns -> BOOLEAN]
    /\ taken \in [Conns -> (Pipes \cup {0}) \X BOOLEAN]
    /\ attempt \in [Conns -> Pipes \cup {0}]
    /\ published \in 0..MaxPublish
    /\ pipeline \in Pipes \cup {0}
    /\ operation \in Pipes \cup {0}
    /\ policy \in [Pipes -> Policy]
    /\ ref \in [Ops -> Pipes \cup {0}]
    /\ stage \in [Ops -> {"call", "act", "bind", "run"}]
    /\ began \in [Ops -> [session : Pipes \cup {0}, epoch : Nat]]

SessionInit ==
    /\ Init
    /\ hpc = [h \in Conns |-> "closed"]
    /\ after = [h \in Conns |-> "closed"]
    /\ hpipe = [h \in Conns |-> 0]
    /\ sessionActive = [h \in Conns |-> FALSE]
    /\ taken = [h \in Conns |-> <<0, FALSE>>]
    /\ attempt = [h \in Conns |-> 0]
    /\ published = 0
    /\ pipeline = 0
    /\ operation = 0
    /\ policy = [p \in Pipes |-> "passthrough"]
    /\ ref = [t \in Ops |-> 0]
    /\ stage = [t \in Ops |-> "call"]
    /\ began = [t \in Ops |-> NoSession]
-----------------------------------------------------------------------------
(* The coordinator, as the operations call it.                             *)

At(t, where) == stage[t] = where

Move(t, where, p) ==
    /\ stage' = [stage EXCEPT ![t] = where]
    /\ ref' = [ref EXCEPT ![t] = p]

SetPolicy(p, to) == policy' = [policy EXCEPT ![p] = to]

(* An operation may still hold a pipeline that has been stopped; its       *)
(* policy decides nothing any more and is forgotten.                       *)
Running(p) == \E h \in Conns : hpipe[h] = p \/ taken[h][1] = p

Steer(t, to) == IF Running(ref[t]) THEN SetPolicy(ref[t], to) ELSE UNCHANGED policy

(* activePipelineForOperation                                              *)
OperationPipeline == IF pipeline = operation THEN pipeline ELSE 0

(* Begin*: look the pipeline up, start the operation on it, bind it.       *)
BeginLookup(t) ==
    /\ pc[t] = "begin" /\ At(t, "call")
    /\ \/ pipeline = 0 /\ BeginFail(t) /\ UNCHANGED opCall
       \/ pipeline # 0 /\ Move(t, "act", pipeline) /\ UNCHANGED mvars
    /\ began' = [began EXCEPT ![t] = [session |-> pipeline, epoch |-> transitionEpoch]]
    /\ UNCHANGED <<handler, coordinator, policy>>

(* Mutant: a policy the controller does not have.                          *)
BeginPolicy_Unknown(k) == IF k = "return_live" THEN "draining" ELSE "slate"

BeginPolicy(k) == CASE k = "enable_delay" -> "buffering_fill"
                    [] k = "return_live"  -> "drain_at_live"
                    [] k = "dump_buffer"  -> "slate"

(* Mutant: any operation that starts resets the target at once.            *)
BeginAct_Resets(t) ==
    /\ pc[t] = "begin" /\ At(t, "act")
    /\ targetDelaySeconds' = 0
    /\ UNCHANGED <<status, slateMessage, lastError, claim, pc, request, callerPc>>
    /\ Steer(t, BeginPolicy(kind[t]))
    /\ Move(t, "bind", 0)
    /\ UNCHANGED <<handler, coordinator, began>>

BeginAct(t) ==
    /\ pc[t] = "begin" /\ At(t, "act")
    /\ \/ BeginSetsTarget(t)
       \/ kind[t] # "enable_delay" /\ UNCHANGED mvars
    /\ Steer(t, BeginPolicy(kind[t]))
    /\ Move(t, "bind", 0)
    /\ UNCHANGED <<handler, coordinator, began>>

(* Mutant: the operation is not bound to its session.                      *)
BeginBind_Unbound(t) ==
    /\ pc[t] = "begin" /\ At(t, "bind")
    /\ \/ pipeline = 0 /\ BeginFail(t)
       \/ pipeline # 0 /\ BeginOk(t)
    /\ Move(t, "call", 0)
    /\ UNCHANGED <<handler, coordinator, policy, began>>

BeginBind(t) ==
    /\ pc[t] = "begin" /\ At(t, "bind")
    /\ \/ pipeline = 0 /\ BeginFail(t) /\ UNCHANGED operation
       \/ pipeline # 0 /\ BeginOk(t) /\ operation' = pipeline
    /\ Move(t, "call", 0)
    /\ UNCHANGED <<handler, pipeline, policy, began>>

(* Run*: nothing to run without the operation's pipeline.                  *)
RunLookup(t) ==
    /\ pc[t] \in {"drain", "show"} /\ At(t, "call")
    /\ \/ /\ OperationPipeline = 0
          /\ RunReturns(t)
          /\ UNCHANGED opCall
       \/ /\ OperationPipeline # 0
          /\ Move(t, "act", OperationPipeline)
          /\ UNCHANGED mvars
    /\ UNCHANGED <<handler, coordinator, policy, began>>

(* The fill and the timed slates hold the slate; the drain only waits.     *)
RunStart(t) ==
    /\ pc[t] \in {"drain", "show"} /\ At(t, "act")
    /\ IF pc[t] = "show" THEN Steer(t, "slate") ELSE UNCHANGED policy
    /\ Move(t, "run", ref[t])
    /\ UNCHANGED <<mvars, handler, coordinator, began>>

RunPublish(t) ==
    /\ At(t, "run")
    /\ \E message \in BOOLEAN : Publish(t, message)
    /\ UNCHANGED <<handler, coordinator, policy, opCall, began>>

RunEnd(t) ==
    /\ At(t, "run")
    /\ RunReturns(t)
    /\ Move(t, "call", 0)
    /\ UNCHANGED <<handler, coordinator, policy, began>>

SwitchLookup(t) ==
    /\ pc[t] = "switch" /\ At(t, "call")
    /\ \/ /\ OperationPipeline = 0
          /\ Switch(t, FALSE)
          /\ UNCHANGED opCall
       \/ /\ OperationPipeline # 0
          /\ Move(t, "act", OperationPipeline)
          /\ UNCHANGED mvars
    /\ UNCHANGED <<handler, coordinator, policy, began>>

(* Mutant: a dump goes back to the delay buffer, not to the live input.    *)
SwitchAct_DumpDelays(t) ==
    /\ At(t, "act")
    /\ Switch(t, TRUE)
    /\ Steer(t, IF kind[t] = "return_live" THEN "passthrough" ELSE "delayed")
    /\ Move(t, "call", 0)
    /\ UNCHANGED <<handler, coordinator, began>>

SwitchAct(t) ==
    /\ At(t, "act")
    /\ Switch(t, TRUE)
    /\ Steer(t, IF kind[t] = "enable_delay" THEN "delayed" ELSE "passthrough")
    /\ Move(t, "call", 0)
    /\ UNCHANGED <<handler, coordinator, began>>

OpStep(t) ==
    \/ BeginLookup(t) \/ BeginAct(t) \/ BeginBind(t)
    \/ RunLookup(t) \/ RunStart(t) \/ RunEnd(t)
    \/ SwitchLookup(t) \/ SwitchAct(t)
    \/ /\ \/ Enter(t) \/ Drop(t) \/ Spawn(t) \/ SafeHoldApply(t)
          \/ Check(t) \/ Hold(t) \/ Finish(t) \/ Undisplay(t)
       /\ UNCHANGED <<handler, coordinator, policy, opCall, began>>
    \/ /\ Rollback(t) \/ Release(t)
       /\ began' = [began EXCEPT ![t] = NoSession]
       /\ UNCHANGED <<handler, coordinator, policy, opCall>>
-----------------------------------------------------------------------------
(* A connection's handler.  go-rtmp (external) runs its callbacks one at a *)
(* time; an OnPublish that fails leaves the connection open, to be closed  *)
(* or to publish again.                                                    *)

Step(h, from, to) ==
    /\ hpc[h] = from
    /\ callerPc[h] = "idle"
    /\ hpc' = [hpc EXCEPT ![h] = to]

Fields == <<hpipe, sessionActive>>
Locals == <<after, taken, attempt, published>>
Engine == <<coordinator, policy, opCall, began>>

EndSession(h, then) ==
    /\ Step(h, "open", "take")
    /\ after' = [after EXCEPT ![h] = then]
    /\ UNCHANGED <<mvars, Fields, taken, Engine>>

(* main starts the ingest server after MarkReady.                          *)
Connect(h) ==
    /\ state \notin {"STOPPED", "STARTING"}
    /\ Step(h, "closed", "open")
    /\ UNCHANGED <<mvars, Fields, Locals, Engine>>

OnPublish(h) ==
    /\ h \in Publishers /\ published < MaxPublish
    /\ EndSession(h, "reset")
    /\ published' = published + 1
    /\ attempt' = [attempt EXCEPT ![h] = published + 1]

(* OnFCUnpublish and OnDeleteStream end the session, OnClose also the      *)
(* connection, whether or not it ever published.                           *)
OnUnpublish(h) ==
    /\ EndSession(h, "open")
    /\ UNCHANGED <<attempt, published>>

OnClose(h) ==
    /\ EndSession(h, "closed")
    /\ UNCHANGED <<attempt, published>>

(* endSession, section by section.                                         *)
TakeSession(h) ==
    /\ Step(h, "take", "clear")
    /\ taken' = [taken EXCEPT ![h] = <<hpipe[h], sessionActive[h]>>]
    /\ hpipe' = [hpipe EXCEPT ![h] = 0]
    /\ sessionActive' = [sessionActive EXCEPT ![h] = FALSE]
    /\ UNCHANGED <<mvars, after, attempt, published, Engine>>

ClearPipeline(h) ==
    /\ Step(h, "clear", "stop")
    /\ pipeline' = 0
    /\ operation' = 0
    /\ UNCHANGED <<mvars, Fields, Locals, policy, opCall, began>>

(* Mutant: Stop does not wait for the drain goroutine.                     *)
StopPipeline_NoWait(h) ==
    LET p == taken[h][1] IN
    /\ Step(h, "stop", IF taken[h][2] THEN "end" ELSE after[h])
    /\ policy' = [q \in Pipes |-> IF q = p THEN "passthrough" ELSE policy[q]]
    /\ taken' = [taken EXCEPT ![h] = <<0, FALSE>>]
    /\ UNCHANGED <<mvars, Fields, after, attempt, published, coordinator, opCall, began>>

(* Pipeline.Stop returns only when the drain goroutine has.                *)
StopPipeline(h) ==
    LET p == taken[h][1] IN
    /\ p # 0 => callerPc[p] = "idle"
    /\ Step(h, "stop", IF taken[h][2] THEN "end" ELSE after[h])
    /\ policy' = [q \in Pipes |-> IF q = p THEN "passthrough" ELSE policy[q]]
    /\ taken' = [taken EXCEPT ![h] = <<0, FALSE>>]
    /\ UNCHANGED <<mvars, Fields, after, attempt, published, coordinator, opCall, began>>

(* DisconnectSession from endSession ("end") and from OnPublish ("reset"). *)
Disconnecting(h) ==
    /\ hpc[h] \in {"end", "reset"}
    /\ Disconnect(h)
    /\ UNCHANGED <<handler, Engine>>

DisconnectStep(h) ==
    /\ Invalidate(h)
    /\ UNCHANGED <<handler, Engine>>

Disconnected(h) ==
    /\ hpc[h] \in {"end", "reset"}
    /\ LET next(ok) == IF hpc[h] = "end" THEN after[h]
                       ELSE IF ok THEN "prepare" ELSE "open"
       IN \/ /\ state = "READY"
             /\ callerPc[h] = "idle"
             /\ hpc' = [hpc EXCEPT ![h] = next(TRUE)]
             /\ UNCHANGED mvars
          \/ /\ Leave(h)
             /\ hpc' = [hpc EXCEPT ![h] = next(state \in SessionStates)]
    /\ UNCHANGED <<Fields, Locals, Engine>>
-----------------------------------------------------------------------------
(* The rest of OnPublish.                                                  *)
Prepare(h) ==
    /\ Step(h, "prepare", "dial")
    /\ PrepareNewSession(h)
    /\ UNCHANGED <<Fields, Locals, Engine>>

(* Where a goroutine sleeps: waitTransitionDelay, or the tick of a Run*.   *)
Asleep(t) ==
    \/ pc[t] = "start" /\ kind[t] = "enable_delay"
    \/ pc[t] = "hold" /\ kind[t] # "enable_delay"
    \/ pc[t] = "final" /\ kind[t] # "return_live"
    \/ pc[t] \in {"drain", "show"} /\ At(t, "run")

(* ConnectPublisher is an RTMP handshake with the platform: nothing of the *)
(* old session outlasts it but, if Lingering, a goroutine that sleeps.     *)
Dial(h) ==
    /\ \A t \in Ops : pc[t] = "idle" \/ (Lingering /\ Asleep(t))
    /\ Step(h, "dial", "input")
    /\ UNCHANGED <<mvars, Fields, Locals, Engine>>

DialFails(h) ==
    /\ Step(h, "dial", "reject")
    /\ MarkError(h)
    /\ UNCHANGED <<Fields, Locals, Engine>>

Rejected(h) ==
    /\ hpc[h] = "reject"
    /\ hpc' = [hpc EXCEPT ![h] = "open"]
    /\ Fail(h)
    /\ UNCHANGED <<Fields, Locals, Engine>>

Input(h) ==
    /\ \/ Step(h, "input", "output") /\ ConnectInput(h)
       \/ /\ Step(h, "input", "open")
          /\ ~CanTransition(state, "INGESTING", "input_connected")
          /\ UNCHANGED mvars
    /\ UNCHANGED <<Fields, Locals, Engine>>

Output(h) ==
    /\ \/ Step(h, "output", "make") /\ ConnectOutput(h)
       \/ /\ Step(h, "output", "open")
          /\ ~CanTransition(state, "REALTIME", "output_connected")
          /\ UNCHANGED mvars
    /\ UNCHANGED <<Fields, Locals, Engine>>

(* NewPipeline, then SetPipeline, both with h.mu held and after the        *)
(* machine has already gone to REALTIME.                                   *)
MakePipeline(h) ==
    /\ Step(h, "make", "install")
    /\ IF InitialDelay = 0
       THEN UNCHANGED <<mvars, policy>>
       ELSE /\ SetFixedDelayTarget(h, InitialDelay)
            /\ SetPolicy(attempt[h], "delayed")
    /\ UNCHANGED <<Fields, Locals, coordinator, opCall, began>>

SetPipeline(h) ==
    /\ Step(h, "install", "open")
    /\ pipeline' = attempt[h]
    /\ operation' = 0
    /\ hpipe' = [hpipe EXCEPT ![h] = attempt[h]]
    /\ sessionActive' = [sessionActive EXCEPT ![h] = TRUE]
    /\ UNCHANGED <<mvars, Locals, policy, opCall, began>>
-----------------------------------------------------------------------------
(* Media.  OnAudio, OnVideo and OnSetDataFrame push a frame through the    *)
(* handler's pipeline; an overflow or a failed write is a MarkError.       *)
MediaError(h) ==
    /\ hpc[h] = "open"
    /\ hpipe[h] # 0
    /\ MarkError(h)
    /\ UNCHANGED <<handler, Engine>>

(* A pipeline's drain goroutine writes too, until Stop has waited for it.  *)
(* It read the policy before it began to write, so any may hold by now.    *)
DrainError(p) ==
    /\ Running(p)
    /\ MarkError(p)
    /\ UNCHANGED <<handler, Engine>>

(* Mutant: MarkError needs the lock that endSession holds around Stop.     *)
Failed_Locked(c) ==
    /\ c \in Conns => hpc[c] = "open"
    /\ \A h \in Conns : hpc[h] # "stop"
    /\ Fail(c)
    /\ UNCHANGED <<handler, Engine>>

Failed(c) ==
    /\ c \in Conns => hpc[c] = "open"
    /\ Fail(c)
    /\ UNCHANGED <<handler, Engine>>

HandlerStep(h) ==
    \/ TakeSession(h) \/ ClearPipeline(h) \/ StopPipeline(h)
    \/ Disconnecting(h) \/ DisconnectStep(h) \/ Disconnected(h)
    \/ Prepare(h) \/ Dial(h) \/ DialFails(h) \/ Rejected(h)
    \/ Input(h) \/ Output(h) \/ MakePipeline(h) \/ SetPipeline(h)

SessionNext ==
    \/ Boot /\ UNCHANGED <<handler, Engine>>
    \/ \E t \in Ops :
         \/ Ask(t) /\ UNCHANGED <<handler, Engine>>
         \/ OpStep(t) \/ RunPublish(t)
    \/ \E h \in Conns :
         \/ Connect(h) \/ OnPublish(h) \/ OnUnpublish(h) \/ OnClose(h)
         \/ HandlerStep(h) \/ MediaError(h)
    \/ \E p \in Pipes : DrainError(p)
    \/ \E c \in Callers : Failed(c)

SessionSpec == SessionInit /\ [][SessionNext]_svars

(* Goroutines that can run do run; media keeps arriving and being sent, so *)
(* the fill and the drain return; a drain goroutine that has been told to  *)
(* stop does not choose its ticker over stopCh for ever (strong fairness   *)
(* of the Stop that waits for it).  Nobody has to publish, close or ask.   *)
SessionFairness ==
    /\ \A t \in Ops : WF_svars(OpStep(t))
    /\ \A h \in Conns : WF_svars(HandlerStep(h) \/ Failed(h)) /\ SF_svars(StopPipeline(h))
    /\ \A p \in Pipes : WF_svars(Failed(p))

FairSessionSpec == SessionSpec /\ SessionFairness
-----------------------------------------------------------------------------
(* The composition is an implementation of the machine: what is proved of  *)
(* RelayMachine holds of the running engine.                               *)
MachineSpec == Spec

Live(h) == sessionActive[h] /\ hpipe[h] # 0

(* What the API reports is what the platform receives: while the engine    *)
(* reports DELAYED the session's output comes out of the delay buffer.     *)
DelayedMeansDelayed ==
    \A h \in Conns : Live(h) /\ state = "DELAYED" => policy[hpipe[h]] = "delayed"

(* While it reports REALTIME the output is the live input (with no delay   *)
(* configured at start).                                                   *)
RealtimeMeansLive ==
    \A h \in Conns : Live(h) /\ state = "REALTIME" /\ InitialDelay = 0
                        => policy[hpipe[h]] = "passthrough"

(* While a session is delayed the status names the delay.                  *)
DelayedHasTarget == state \in {"DELAYED", "DUMPING"} => targetDelaySeconds # 0

(* ERROR is never reported without the error's message.                    *)
ErrorHasMessage == state = "ERROR" => lastError

(* While a working state is reported, every other request is answered with *)
(* "another transition is already in progress".  Two windows of the code   *)
(* are excepted: a roll-back, and DisconnectSession, each give the claim   *)
(* back one section before they leave the state.                           *)
WorkingIsPending ==
    state \in {Working(k) : k \in Kind}
       => \/ transitionPending
          \/ \E t \in Ops : pc[t] = "rollback"
          \/ \E c \in Callers : callerPc[c] = "leave"

(* A step by which the goroutine of t moves the output of the live session *)
(* of h.                                                                   *)
Steers(t, h) ==
    /\ Live(h) /\ policy'[hpipe[h]] # policy[hpipe[h]]
    /\ pc[t] \in SequenceLabel /\ ~UNCHANGED <<pc[t], stage[t]>>

(* An operation whose goroutine was given the epoch its request began in   *)
(* steers the output of no session but its own, although it may sleep when *)
(* the platform accepts the next one and an operation is bound to that.    *)
(* The condition is needed: captureTransitionEpoch runs after Begin*, and  *)
(* a goroutine whose session ends in between is given the epoch of the     *)
(* next session, where it passes every check and does steer.               *)
StaleNeverSteers ==
    [][\A t \in Ops, h \in Conns :
          Steers(t, h) /\ opEpoch[t] = began[t].epoch
             => began[t].session = hpipe[h]]_svars

(* A callback of the ingest server always returns: neither the drain       *)
(* goroutine it waits for nor an operation in progress holds it up.        *)
HandlerReturns ==
    \A h \in Conns : hpc[h] \notin {"open", "closed"} ~> hpc[h] \in {"open", "closed"}

(* Once DisconnectSession has returned, the operations of the session it   *)
(* ended never move the state, whatever epoch their goroutines were given. *)
EndedNeverMoves ==
    [][\A t \in Ops :
          (/\ pc[t] \in SequenceLabel /\ pc'[t] # pc[t]
           /\ began[t].epoch # transitionEpoch
           /\ \A c \in Callers : callerPc[c] # "leave")
          => UNCHANGED state]_svars

(* In particular a goroutine whose own epoch is over never does.           *)
StaleNeverMoves ==
    [][\A t \in Ops :
          (/\ pc[t] \in SequenceLabel /\ ~Active(t) /\ pc'[t] # pc[t]
           /\ \A c \in Callers : callerPc[c] # "leave")
          => UNCHANGED state]_svars
=============================================================================
