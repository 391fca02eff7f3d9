--------------------------- MODULE DelayController ---------------------------
(***************************************************************************)
(* One pipeline, frame by frame: scheduler/controller.go and what          *)
(* ingest/pipeline.go makes of it.  Three goroutines share the ring, the   *)
(* policy and slateBuffersInput:                                           *)
(*   - push: the ingest handler, which pushes each frame OBS sends;        *)
(*   - drain: the goroutine of Controller.run;                             *)
(*   - todo: the control request and then its sequence in the machine,     *)
(*     the locked sections they have still to run on this pipeline.        *)
(* Time is a Tick that ages the frames; a frame of age Delay is due.       *)
(***************************************************************************)
EXTENDS DelayRing

CONSTANTS Delay,     \* the target delay, in ticks
          MaxLag,    \* bound on the ticks one pass of the drain lasts
          MaxGop,    \* bound on the frames between two keyframes
          Initial    \* whether the delay is configured from the start

ASSUME ControllerAssumption ==
    /\ Delay \in Nat \ {0}
    /\ MaxLag \in Nat /\ MaxGop \in Nat
    /\ MaxGop + KeyBytes <= Capacity    \* a keyframe fits before the ring is full
    /\ Initial \in BOOLEAN

VARIABLES
    policy,             \* s.policy
    delay,              \* s.delay
    slateBuffersInput,  \* s.slateBuffersInput, written without s.mu
    racy,               \* whether Push may still read its former value
    push,               \* the ingest goroutine
    drain,              \* the drain goroutine
    todo,               \* the operation's sections still to run
    mode,               \* the engine's state, as far as requests look at it
    cancelled,          \* p.cancelled
    error,              \* MarkError was called: the engine is in ERROR
    hole,               \* what was lost since the last frame put in the ring
    gop,                \* frames since the last keyframe
    fresh               \* the output became delayed, and nothing has been
                        \* taken or cleared since

control == <<policy, delay, slateBuffersInput, racy>>
request == <<todo, mode>>
history == <<hole, gop, fresh>>
cvars   == <<ring, control, push, drain, request, cancelled, error, history>>

Policy == {"passthrough", "buffering_fill", "slate", "delayed", "drain_at_live"}

MaxAge == Delay + MaxLag

(* "switch": not buffered while BeginDelayedOutput changed the policy.     *)
Hole == {"none", "switch", "loss"}

Frame == [key : BOOLEAN, age : 0..MaxAge, gap : Hole]

NoFrame == [key |-> FALSE, age |-> 0, gap |-> "none"]

Idle == [at |-> "idle", policy |-> "passthrough", frame |-> NoFrame]
-----------------------------------------------------------------------------
(* The calls of pipeline.go and controller.go, as the sections they run.   *)

BeginBufferingFill == <<"target", "clear", "buffering_fill">>

(* Mutant: the policy first, whether to buffer the input second.           *)
BeginSlateHold_PolicyFirst(buffer) == <<"slate", IF buffer THEN "buffer" ELSE "unbuffer">>

BeginSlateHold(buffer) == <<IF buffer THEN "buffer" ELSE "unbuffer", "slate">>

(* Mutant: output starts before the frames up to a keyframe are dropped.   *)
BeginDelayedOutput_PolicyFirst == <<"unbuffer", "delayed", "drop">>

BeginDelayedOutput == <<"unbuffer", "drop", "delayed">>

BeginDrainAtLive == <<"drain_at_live">>

(* Mutant: the ring is not cleared.                                        *)
BeginPassthrough_Keeps == <<"unbuffer", "untarget", "passthrough">>

BeginPassthrough == <<"unbuffer", "untarget", "passthrough", "clear">>

RunEnableDelayFill == BeginSlateHold(TRUE) \o <<"filled">>

RunReturnLiveDrain == <<"drained">>

RunTimedSlate == BeginSlateHold(FALSE) \o <<"sleep">>

BeginDumpSlate == <<"clear">> \o BeginSlateHold(FALSE)

(* The requests with their sequences in machine.go: "apply" is a change of *)
(* state, "check" an epoch check, "sleep" a wait.                          *)
EnableDelay ==
    BeginBufferingFill \o <<"sleep", "apply">>
        \o RunEnableDelayFill \o <<"check">>
        \o BeginDelayedOutput \o <<"check", "sleep", "DELAYED">>

ReturnLive ==
    BeginDrainAtLive \o RunReturnLiveDrain \o <<"check", "sleep", "apply">>
        \o RunTimedSlate \o <<"check">>
        \o BeginPassthrough \o <<"check", "REALTIME">>

DumpBuffer ==
    BeginDumpSlate \o <<"sleep", "apply">>
        \o RunTimedSlate \o <<"check">>
        \o BeginPassthrough \o <<"check", "sleep", "REALTIME">>

Section == Policy \cup {"target", "untarget", "clear", "buffer", "unbuffer", "drop",
                        "filled", "drained", "sleep", "apply", "check",
                        "DELAYED", "REALTIME"}
-----------------------------------------------------------------------------
ControllerTypeOK ==
    /\ entries \in Seq(Frame) /\ usedBytes \in 0..Capacity
    /\ policy \in Policy /\ delay \in {0, Delay}
    /\ slateBuffersInput \in BOOLEAN /\ racy \in BOOLEAN
    /\ push \in [at : {"idle", "act", "flag", "buffer", "write", "stopping", "stopped"},
                 policy : Policy, frame : Frame]
    /\ drain \in [at : {"idle", "peek", "pop", "write", "gone"},
                  policy : Policy, delay : {0, Delay}, lag : 0..MaxLag]
    /\ todo \in Seq(Section)
    /\ mode \in {"REALTIME", "DELAYED", "BUSY"}
    /\ cancelled \in BOOLEAN /\ error \in BOOLEAN
    /\ hole \in Hole /\ gop \in 0..MaxGop /\ fresh \in BOOLEAN

ControllerInit ==
    /\ RingInit
    /\ policy = IF Initial THEN "delayed" ELSE "passthrough"
    /\ delay = IF Initial THEN Delay ELSE 0
    /\ slateBuffersInput = FALSE /\ racy = FALSE
    /\ push = Idle
    /\ drain = [at |-> "idle", policy |-> "passthrough", delay |-> 0, lag |-> 0]
    /\ todo = <<>> /\ mode = "REALTIME"
    /\ cancelled = FALSE /\ error = FALSE
    /\ hole = "none" /\ gop = MaxGop /\ fresh = FALSE
-----------------------------------------------------------------------------
(* Push, on the goroutine of the ingest handler.                           *)

Others == <<control, drain, request, cancelled>>

Returns(failed) ==
    /\ push' = Idle
    /\ error' = (error \/ failed)

PushGoes(where) == push' = [push EXCEPT !.at = where]

(* A frame arrives: it is stamped and the policy is read.                  *)
PushBegin(key) ==
    /\ push.at = "idle" /\ ~cancelled
    /\ key \/ gop < MaxGop
    /\ gop' = IF key THEN 0 ELSE gop + 1
    /\ push' = [at |-> "act", policy |-> policy, frame |-> [NoFrame EXCEPT !.key = key]]
    /\ UNCHANGED <<ring, Others, error, hole, fresh>>

(* The frame goes out, or nowhere, without having been put in the ring.    *)
NotBuffered(loss) ==
    /\ hole' = IF hole = "loss" THEN hole ELSE loss
    /\ UNCHANGED <<ring, gop, fresh>>

PushDirect ==
    /\ push.at = "act" /\ push.policy = "passthrough"
    /\ PushGoes("write") /\ NotBuffered("loss")
    /\ UNCHANGED <<Others, error>>

PushSlate ==
    /\ push.at = "act" /\ push.policy = "slate"
    /\ PushGoes("flag")
    /\ UNCHANGED <<ring, Others, error, history>>

(* BeginDelayedOutput has set slateBuffersInput back, but the frame was    *)
(* read under the slate's policy.                                          *)
Switching == racy \/ policy = "delayed"

PushFlag ==
    /\ push.at = "flag"
    /\ \/ /\ slateBuffersInput \/ racy
          /\ PushGoes("buffer")
          /\ UNCHANGED <<ring, history>>
       \/ /\ ~slateBuffersInput \/ racy
          /\ PushGoes("write")
          /\ NotBuffered(IF Switching THEN "switch" ELSE "loss")
    /\ UNCHANGED <<Others, error>>

(* Mutant: while the buffer is drained, what arrives is queued behind it.  *)
PushDrain_Queues ==
    /\ push.at = "act" /\ push.policy = "drain_at_live"
    /\ UNCHANGED <<Others, gop, fresh>>
    /\ IF entries = <<>> \/ ~Fits(push.frame)
       THEN PushGoes("write") /\ UNCHANGED <<ring, error, hole>>
       ELSE /\ RingPush([push.frame EXCEPT !.gap = hole])
            /\ hole' = "none" /\ Returns(FALSE)

(* Mutant: what arrives goes out live, ahead of the buffer.                *)
PushDrain_Overtakes ==
    /\ push.at = "act" /\ push.policy = "drain_at_live"
    /\ PushGoes("write") /\ NotBuffered("loss")
    /\ UNCHANGED <<Others, error>>

PushDrain ==
    /\ push.at = "act" /\ push.policy = "drain_at_live"
    /\ IF entries = <<>> THEN PushGoes("write") /\ UNCHANGED error ELSE Returns(FALSE)
    /\ NotBuffered("loss")
    /\ UNCHANGED Others

Buffering ==
    \/ push.at = "buffer"
    \/ push.at = "act" /\ push.policy \in {"buffering_fill", "delayed"}

PushBuffer ==
    /\ Buffering
    /\ \/ /\ RingPush([push.frame EXCEPT !.gap = hole])
          /\ hole' = "none" /\ UNCHANGED <<gop, fresh>>
          /\ IF push.policy = "delayed" THEN Returns(FALSE)
             ELSE PushGoes("write") /\ UNCHANGED error
       \/ ~Fits(push.frame) /\ NotBuffered("loss") /\ Returns(TRUE)
    /\ UNCHANGED Others

PushWrite ==
    /\ push.at = "write"
    /\ \E failed \in BOOLEAN : Returns(failed)
    /\ UNCHANGED <<ring, Others, history>>

(* Pipeline.Stop, called by the same goroutine: it waits for the drain.    *)
Stop ==
    /\ push.at = "idle" /\ ~cancelled
    /\ cancelled' = TRUE
    /\ PushGoes("stopping")
    /\ UNCHANGED <<ring, control, drain, request, error, history>>

Stopped ==
    /\ push.at = "stopping" /\ drain.at = "gone"
    /\ Clear /\ hole' = "loss"
    /\ PushGoes("stopped")
    /\ UNCHANGED <<Others, error, gop, fresh>>

PushStep == PushDirect \/ PushSlate \/ PushFlag \/ PushDrain \/ PushBuffer \/ PushWrite
-----------------------------------------------------------------------------
(* Controller.run: the ticks of the drain goroutine.                       *)

Rest == <<control, push, request, cancelled>>

DrainGoes(where) == drain' = [drain EXCEPT !.at = where]

DrainIdle == drain' = [at |-> "idle", policy |-> "passthrough", delay |-> 0, lag |-> 0]

DrainReady ==
    /\ drain.at = "idle"
    /\ policy \in {"delayed", "drain_at_live"}
    /\ drain' = [at |-> IF policy = "delayed" THEN "peek" ELSE "pop",
                 policy |-> policy,
                 delay |-> IF policy = "delayed" THEN delay ELSE 0, lag |-> 0]
    /\ UNCHANGED <<ring, Rest, error, history>>

(* Ages are as of now; the pass compares them with the time of its tick.   *)
Due(f) == f.age - drain.lag >= drain.delay

(* Mutant: frames leave as soon as they are in the ring.                   *)
DrainPeek_AnyAge ==
    /\ drain.at = "peek"
    /\ IF entries # <<>> THEN DrainGoes("pop") ELSE DrainIdle
    /\ UNCHANGED <<ring, Rest, error, history>>

DrainPeek ==
    /\ drain.at = "peek"
    /\ IF entries # <<>> /\ Due(Head(entries)) THEN DrainGoes("pop") ELSE DrainIdle
    /\ UNCHANGED <<ring, Rest, error, history>>

DrainPop ==
    /\ drain.at = "pop"
    /\ \/ PopOldest /\ DrainGoes("write") /\ fresh' = FALSE
       \/ entries = <<>> /\ DrainIdle /\ UNCHANGED <<ring, fresh>>
    /\ UNCHANGED <<Rest, error, hole, gop>>

DrainWrite ==
    /\ drain.at = "write"
    /\ \/ /\ IF drain.policy = "delayed" THEN DrainGoes("peek") ELSE DrainIdle
          /\ UNCHANGED error
       \/ DrainIdle /\ error' = TRUE
    /\ UNCHANGED <<ring, Rest, history>>

DrainExit ==
    /\ drain.at = "idle" /\ cancelled
    /\ DrainGoes("gone")
    /\ UNCHANGED <<ring, Rest, error, history>>

DrainStep == DrainReady \/ DrainPeek \/ DrainPop \/ DrainWrite
-----------------------------------------------------------------------------
(* The operation.                                                          *)

World == <<push, drain, cancelled, error>>

(* A request is accepted in the state that allows it; the state machine    *)
(* admits one operation at a time.                                         *)
Start ==
    /\ todo = <<>> /\ ~error /\ ~cancelled
    /\ mode' = "BUSY"
    /\ \/ mode = "REALTIME" /\ todo' = EnableDelay
       \/ mode = "DELAYED" /\ todo' \in {ReturnLive, DumpBuffer}
    /\ UNCHANGED <<ring, control, World, history>>

Run(section) == todo # <<>> /\ Head(todo) = section

Continue == todo' = Tail(todo)

SetTargetDelay ==
    /\ \/ Run("target") /\ delay' = Delay
       \/ Run("untarget") /\ delay' = 0
    /\ Continue /\ racy' = FALSE
    /\ UNCHANGED <<ring, policy, slateBuffersInput, World, mode, history>>

SetPolicy ==
    \E to \in Policy :
      /\ Run(to) /\ Continue
      /\ policy' = to
      /\ racy' = FALSE
      /\ fresh' = (fresh \/ to = "delayed")
      /\ UNCHANGED <<ring, delay, slateBuffersInput, World, mode, hole, gop>>

SetSlateBuffersInput ==
    /\ Run("buffer") \/ Run("unbuffer")
    /\ Continue
    /\ slateBuffersInput' = Run("buffer")
    /\ racy' = (racy \/ slateBuffersInput' # slateBuffersInput)
    /\ UNCHANGED <<ring, policy, delay, World, mode, history>>

ClearRing ==
    /\ Run("clear") /\ Continue
    /\ Clear /\ hole' = "loss" /\ fresh' = FALSE
    /\ UNCHANGED <<control, World, mode, gop>>

Drop ==
    /\ Run("drop") /\ Continue
    /\ DropUntilVideoKeyframe
    /\ UNCHANGED <<control, World, mode, history>>

(* RunEnableDelayFill and RunReturnLiveDrain look once a second.           *)
Wait ==
    /\ \/ Run("filled") /\ (cancelled \/ KeyframeAge >= Delay)
       \/ Run("drained") /\ (cancelled \/ entries = <<>>)
    /\ Continue
    /\ UNCHANGED <<ring, control, World, mode, history>>

(* 50 ms or seconds: no goroutine is still on its way to act on a policy   *)
(* it read before the last change; a write may block for longer.           *)
Sleep ==
    /\ Run("sleep") /\ Continue
    /\ push.at \in {"act", "flag", "buffer"} => push.policy = policy
    /\ drain.at \in {"peek", "pop"} => drain.policy = policy
    /\ UNCHANGED <<ring, control, World, mode, history>>

(* A check fails when the session has ended, a change of state also in     *)
(* ERROR; the sequence returns.                                            *)
Checks ==
    /\ Run("check") \/ Run("apply")
    /\ IF cancelled \/ (Run("apply") /\ error) THEN todo' = <<>> ELSE Continue
    /\ UNCHANGED <<ring, control, World, mode, history>>

Finish ==
    \E to \in {"DELAYED", "REALTIME"} :
      /\ Run(to) /\ Continue
      /\ mode' = IF cancelled \/ error THEN mode ELSE to
      /\ UNCHANGED <<ring, control, World, history>>

OpStep == SetTargetDelay \/ SetPolicy \/ SetSlateBuffersInput \/ ClearRing \/ Drop
            \/ Wait \/ Sleep \/ Checks \/ Finish
-----------------------------------------------------------------------------
Older(f) == [f EXCEPT !.age = Min({@ + 1, MaxAge})]

(* A tick is a good part of the delay, the sections of one call are        *)
(* microseconds: time passes while a goroutine sleeps, waits or writes.    *)
Tick ==
    /\ push.at \notin {"act", "flag", "buffer"}
    /\ drain.at \notin {"peek", "pop"}
    /\ drain.at = "write" => drain.lag < MaxLag
    /\ todo # <<>> => Head(todo) \in {"sleep", "filled", "drained"}
    /\ entries' = [i \in DOMAIN entries |-> Older(entries[i])]
    /\ drain' = IF drain.at = "write" THEN [drain EXCEPT !.lag = @ + 1] ELSE drain
    /\ UNCHANGED <<usedBytes, control, push, request, cancelled, error, history>>

ControllerNext ==
    \/ \E key \in BOOLEAN : PushBegin(key)
    \/ PushStep \/ Stop \/ Stopped
    \/ DrainStep \/ DrainExit
    \/ Start \/ OpStep
    \/ Tick

ControllerSpec == ControllerInit /\ [][ControllerNext]_cvars

(* Goroutines that can run do run, time passes, and OBS keeps sending, a   *)
(* keyframe at least every MaxGop frames.                                  *)
ControllerFairness ==
    /\ WF_cvars(PushStep) /\ WF_cvars(\E key \in BOOLEAN : PushBegin(key))
    /\ WF_cvars(DrainStep)
    /\ WF_cvars(OpStep)
    /\ SF_cvars(Tick)

FairControllerSpec == ControllerSpec /\ ControllerFairness
-----------------------------------------------------------------------------
Takes == DrainPop /\ entries # <<>>

(* The output is delayed and no operation has yet to change the pipeline.  *)
Settled == policy = "delayed" /\ Range(todo) \subseteq {"check", "sleep", "DELAYED"}

(* While the output is delayed no frame leaves the ring before the delay,  *)
(* whatever the requests before did to the ring between a peek and a pop.  *)
NeverEarly == [][Takes /\ Settled => Head(entries).age >= delay]_cvars

(* While the output is delayed no frame is missing, unless an error was    *)
(* reported; but for those of the moment in which BeginDelayedOutput has   *)
(* stopped buffering and not yet changed the policy.                       *)
NoSilentGap ==
    [][Takes /\ Settled /\ ~fresh => Head(entries).gap # "loss" \/ error]_cvars

(* Input that arrives while the slate is on and buffers it is in the       *)
(* delayed output later, also when that output is about to start.          *)
SlateInputBuffered == [][Takes /\ Settled /\ ~fresh => Head(entries).gap # "switch"]_cvars

(* The delayed output starts with a keyframe.                              *)
StartsAtKeyframe == [][Takes /\ fresh /\ policy = "delayed" => Head(entries).key]_cvars

(* A frame that goes out live at the end of a drain leaves nothing behind  *)
(* in the ring; the one the drain goroutine has already popped may follow. *)
LiveAfterBuffer ==
    push.at = "write" /\ push.policy = "drain_at_live" => entries = <<>>

(* Nothing is left in the ring when the engine is back in REALTIME.        *)
RealtimeIsEmpty ==
    mode = "REALTIME" /\ todo = <<>> /\ policy = "passthrough" => entries = <<>>

(* Every operation ends: the fill reaches its delay and the drain the end  *)
(* of the ring, though frames keep arriving.                               *)
OperationEnds == todo # <<>> ~> todo = <<>>
=============================================================================
