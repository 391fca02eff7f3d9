------------------------ MODULE DelayController_proofs ------------------------
(***************************************************************************)
(* What holds of a pipeline whatever the capacity, the delay and the       *)
(* frames: live frames overtake nothing, the ring is empty when the engine *)
(* is back in REALTIME, and the types with the bytes in use.  Only the     *)
(* types need the assumptions on the constants.                            *)
(***************************************************************************)
EXTENDS DelayController, DelayRing_proofs, TLAPS

(* Under the slate Push looks at slateBuffersInput; under no other policy. *)
PushShape ==
    /\ push = [at |-> push.at, policy |-> push.policy, frame |-> push.frame]
    /\ push.at \in {"flag", "buffer"} => push.policy = "slate"

LiveInv == PushShape /\ LiveAfterBuffer

(* A step that neither moves the ingest goroutine nor fills an empty ring. *)
LEMMA OutsidePush ==
    ASSUME LiveInv, UNCHANGED push, entries = <<>> => entries' = <<>>
    PROVE  LiveInv'
  BY DEF LiveInv, PushShape, LiveAfterBuffer

(* Dropping up to a keyframe leaves an empty ring empty.                   *)
LEMMA DropEmpty ==
    ASSUME DropUntilVideoKeyframe, entries = <<>>
    PROVE  entries' = <<>>
<1>1. Keyframes = {}
  BY DEF Keyframes, KeyframesIn
<1>2. FirstKeyframe = 1
  BY <1>1 DEF FirstKeyframe
<1>3. entries' = SubSeq(<<>>, 1, 0)
  BY <1>2 DEF DropUntilVideoKeyframe
<1> QED
  BY <1>3

(* A tick leaves an empty ring empty.                                      *)
LEMMA TickEmpty ==
    ASSUME Tick, entries = <<>>
    PROVE  entries' = <<>>
<1>1. entries' = [i \in {} |-> Older(entries[i])]
  BY DEF Tick
<1>2. entries' \in Seq({}) /\ Len(entries') = 0
  BY <1>1
<1> QED
  BY <1>2

(* The steps of Push keep the invariant: a live frame is written during a  *)
(* drain only after the ring was found empty, and nobody else fills it.    *)
LEMMA PushKeeps == LiveInv /\ (PushStep \/ \E key \in BOOLEAN : PushBegin(key)) => LiveInv'
<1> SUFFICES ASSUME LiveInv PROVE PushStep \/ (\E key \in BOOLEAN : PushBegin(key)) => LiveInv'
  OBVIOUS
<1> USE DEF LiveInv, PushShape, LiveAfterBuffer
<1>1. ASSUME NEW key \in BOOLEAN, PushBegin(key) PROVE LiveInv'
  BY <1>1 DEF PushBegin, NoFrame, Policy
<1>2. CASE PushDirect
  BY <1>2 DEF PushDirect, PushGoes, NotBuffered
<1>3. CASE PushSlate
  BY <1>3 DEF PushSlate, PushGoes
<1>4. CASE PushFlag
  BY <1>4 DEF PushFlag, PushGoes, NotBuffered
<1>5. CASE PushDrain
  BY <1>5 DEF PushDrain, PushGoes, NotBuffered, Returns, Idle, NoFrame, Policy, ring
<1>6. CASE PushBuffer
  BY <1>6 DEF PushBuffer, PushGoes, Returns, Idle, NoFrame, Policy, Buffering
<1>7. CASE PushWrite
  BY <1>7 DEF PushWrite, Returns, Idle, NoFrame, Policy
<1> QED
  BY <1>1, <1>2, <1>3, <1>4, <1>5, <1>6, <1>7 DEF PushStep

(* The drain goroutine only takes from the ring.                           *)
LEMMA DrainTakes ==
    ASSUME DrainStep \/ DrainExit
    PROVE  UNCHANGED <<push, control, request>> /\ (entries = <<>> => entries' = <<>>)
<1> USE DEF Rest, ring
<1>1. CASE DrainReady
  BY <1>1 DEF DrainReady
<1>2. CASE DrainPeek
  BY <1>2 DEF DrainPeek
<1>3. CASE DrainPop
  BY <1>3 DEF DrainPop, PopOldest
<1>4. CASE DrainWrite
  BY <1>4 DEF DrainWrite
<1>5. CASE DrainExit
  BY <1>5 DEF DrainExit
<1> QED
  BY <1>1, <1>2, <1>3, <1>4, <1>5 DEF DrainStep

LEMMA DrainKeeps == LiveInv /\ (DrainStep \/ DrainExit) => LiveInv'
  BY DrainTakes, OutsidePush

(* An operation clears the ring or drops from it.                          *)
LEMMA OpTakes ==
    ASSUME Start \/ OpStep
    PROVE  UNCHANGED push /\ (entries = <<>> => entries' = <<>>)
<1> USE DEF World, ring
<1>1. CASE Start
  BY <1>1 DEF Start
<1>2. CASE SetTargetDelay
  BY <1>2 DEF SetTargetDelay
<1>3. CASE SetPolicy
  BY <1>3 DEF SetPolicy
<1>4. CASE SetSlateBuffersInput
  BY <1>4 DEF SetSlateBuffersInput
<1>5. CASE ClearRing
  BY <1>5 DEF ClearRing, Clear
<1>6. CASE Drop
  <2>1. UNCHANGED push
    BY <1>6 DEF Drop
  <2>2. DropUntilVideoKeyframe
    BY <1>6 DEF Drop
  <2> QED
    BY <2>1, <2>2, DropEmpty
<1>7. CASE Wait
  BY <1>7 DEF Wait
<1>8. CASE Sleep
  BY <1>8 DEF Sleep
<1>9. CASE Checks
  BY <1>9 DEF Checks
<1>10. CASE Finish
  BY <1>10 DEF Finish
<1> QED
  BY <1>1, <1>2, <1>3, <1>4, <1>5, <1>6, <1>7, <1>8, <1>9, <1>10 DEF OpStep

LEMMA OpKeeps == LiveInv /\ (Start \/ OpStep) => LiveInv'
  BY OpTakes, OutsidePush

LEMMA LiveStart == ControllerInit => LiveInv
  BY DEF ControllerInit, LiveInv, PushShape, LiveAfterBuffer, Idle, NoFrame, Policy

LEMMA LiveStep == LiveInv /\ [ControllerNext]_cvars => LiveInv'
<1> SUFFICES ASSUME LiveInv, [ControllerNext]_cvars PROVE LiveInv'
  OBVIOUS
<1>1. CASE PushStep \/ \E key \in BOOLEAN : PushBegin(key)
  BY <1>1, PushKeeps
<1>2. CASE DrainStep \/ DrainExit
  BY <1>2, DrainKeeps
<1>3. CASE Start \/ OpStep
  BY <1>3, OpKeeps
<1>4. CASE Stop
  BY <1>4 DEF Stop, PushGoes, LiveInv, PushShape, LiveAfterBuffer
<1>5. CASE Stopped
  BY <1>5 DEF Stopped, PushGoes, LiveInv, PushShape, LiveAfterBuffer
<1>6. CASE Tick
  <2>1. UNCHANGED push
    BY <1>6 DEF Tick
  <2> QED
    BY <1>6, <2>1, TickEmpty, OutsidePush
<1>7. CASE UNCHANGED cvars
  BY <1>7, OutsidePush DEF cvars, ring
<1> QED
  BY <1>1, <1>2, <1>3, <1>4, <1>5, <1>6, <1>7 DEF ControllerNext

(* In every run of every pipeline a frame that goes out live at the end of *)
(* a drain finds the ring empty: it overtakes nothing that is still in it. *)
THEOREM LiveLeavesRingEmpty == ControllerSpec => []LiveAfterBuffer
<1>1. LiveInv => LiveAfterBuffer
  BY DEF LiveInv
<1> QED
  BY <1>1, LiveStart, LiveStep, PTL DEF ControllerSpec
-----------------------------------------------------------------------------
(* The ring when the engine is back in REALTIME.  What is left of an       *)
(* operation is the rest of one of three sequences; each place in them has *)
(* its own promise about the policy, the flag and the frame in Push.       *)

LEMMA EnableSequence == EnableDelay \in Seq(Section) /\ Len(EnableDelay) = 15
<1> USE DEF EnableDelay, BeginBufferingFill, RunEnableDelayFill,
         BeginSlateHold, BeginDelayedOutput
<1>1. EnableDelay \in Seq(Section)
  BY DEF Section, Policy
<1>2. Len(EnableDelay) = 15
  BY DEF Section
<1> QED
  BY <1>1, <1>2

LEMMA EnableSections ==
    /\ EnableDelay[1] = "target" /\ EnableDelay[2] = "clear" /\ EnableDelay[3] = "buffering_fill"
    /\ EnableDelay[4] = "sleep" /\ EnableDelay[5] = "apply" /\ EnableDelay[6] = "buffer"
    /\ EnableDelay[7] = "slate" /\ EnableDelay[8] = "filled" /\ EnableDelay[9] = "check"
    /\ EnableDelay[10] = "unbuffer" /\ EnableDelay[11] = "drop" /\ EnableDelay[12] = "delayed"
    /\ EnableDelay[13] = "check" /\ EnableDelay[14] = "sleep" /\ EnableDelay[15] = "DELAYED"
  BY DEF EnableDelay, BeginBufferingFill, RunEnableDelayFill,
         BeginSlateHold, BeginDelayedOutput

LEMMA ReturnSequence == ReturnLive \in Seq(Section) /\ Len(ReturnLive) = 15
<1> USE DEF ReturnLive, BeginDrainAtLive, RunReturnLiveDrain,
         RunTimedSlate, BeginSlateHold, BeginPassthrough
<1>1. ReturnLive \in Seq(Section)
  BY DEF Section, Policy
<1>2. Len(ReturnLive) = 15
  BY DEF Section
<1> QED
  BY <1>1, <1>2

LEMMA ReturnSections ==
    /\ ReturnLive[1] = "drain_at_live" /\ ReturnLive[2] = "drained" /\ ReturnLive[3] = "check"
    /\ ReturnLive[4] = "sleep" /\ ReturnLive[5] = "apply" /\ ReturnLive[6] = "unbuffer"
    /\ ReturnLive[7] = "slate" /\ ReturnLive[8] = "sleep" /\ ReturnLive[9] = "check"
    /\ ReturnLive[10] = "unbuffer" /\ ReturnLive[11] = "untarget" /\ ReturnLive[12] = "passthrough"
    /\ ReturnLive[13] = "clear" /\ ReturnLive[14] = "check" /\ ReturnLive[15] = "REALTIME"
  BY DEF ReturnLive, BeginDrainAtLive, RunReturnLiveDrain,
         RunTimedSlate, BeginSlateHold, BeginPassthrough

LEMMA DumpSequence == DumpBuffer \in Seq(Section) /\ Len(DumpBuffer) = 16
<1> USE DEF DumpBuffer, BeginDumpSlate, RunTimedSlate, BeginSlateHold,
         BeginPassthrough
<1>1. DumpBuffer \in Seq(Section)
  BY DEF Section, Policy
<1>2. Len(DumpBuffer) = 16
  BY DEF Section
<1> QED
  BY <1>1, <1>2

LEMMA DumpSections ==
    /\ DumpBuffer[1] = "clear" /\ DumpBuffer[2] = "unbuffer" /\ DumpBuffer[3] = "slate"
    /\ DumpBuffer[4] = "sleep" /\ DumpBuffer[5] = "apply" /\ DumpBuffer[6] = "unbuffer"
    /\ DumpBuffer[7] = "slate" /\ DumpBuffer[8] = "sleep" /\ DumpBuffer[9] = "check"
    /\ DumpBuffer[10] = "unbuffer" /\ DumpBuffer[11] = "untarget" /\ DumpBuffer[12] = "passthrough"
    /\ DumpBuffer[13] = "clear" /\ DumpBuffer[14] = "check" /\ DumpBuffer[15] = "sleep"
    /\ DumpBuffer[16] = "REALTIME"
  BY DEF DumpBuffer, BeginDumpSlate, RunTimedSlate, BeginSlateHold,
         BeginPassthrough

Left(sequence, n) ==
    /\ todo \in Seq(Section) /\ Len(todo) = Len(sequence) - n + 1
    /\ \A i \in 1..Len(todo) : todo[i] = sequence[n - 1 + i]

LEMMA LeftStart ==
    ASSUME NEW sequence \in Seq(Section), todo' = sequence
    PROVE  Left(sequence, 1)'
  BY DEF Left

LEMMA LeftStep ==
    ASSUME NEW sequence \in Seq(Section), NEW n \in 1..Len(sequence), Left(sequence, n)
    PROVE  /\ todo # <<>> /\ Head(todo) = sequence[n]
           /\ todo' = Tail(todo) =>
                 IF n = Len(sequence) THEN todo' = <<>> ELSE Left(sequence, n + 1)'
<1>1. todo # <<>> /\ Head(todo) = sequence[n]
  BY DEF Left
<1>2. ASSUME todo' = Tail(todo)
      PROVE  /\ todo' \in Seq(Section) /\ Len(todo') = Len(sequence) - n
             /\ \A i \in 1..Len(todo') : todo'[i] = sequence[n + i]
  BY <1>2 DEF Left
<1>3. ASSUME todo' = Tail(todo), n = Len(sequence) PROVE todo' = <<>>
  BY <1>2, <1>3
<1>4. ASSUME todo' = Tail(todo), n # Len(sequence) PROVE Left(sequence, n + 1)'
  BY <1>2, <1>4 DEF Left
<1> QED
  BY <1>1, <1>3, <1>4

(* No frame is on its way into the ring because of the slate; none at all, *)
(* now that the output is live.                                            *)
Calm == slateBuffersInput = FALSE /\ racy = FALSE /\ push.at # "buffer"

Direct == push.at = "act" => push.policy \in {"slate", "passthrough"}

Unbuffered == Calm /\ Direct /\ policy \in {"slate", "passthrough"}

(* EnableDelay buffers from its sixth section until the sleep after the    *)
(* output has become delayed.                                              *)
EnableStage(n) ==
    /\ n <= 6 => Calm
    /\ n >= 11 => slateBuffersInput = FALSE
    /\ n >= 13 => racy = FALSE /\ policy = "delayed"
    /\ n = 15 => Calm

(* ReturnLive and DumpBuffer have the sections from 6 to 14 in common:     *)
(* after the sleep nothing is buffered, and then the ring is cleared.      *)
LiveStage(n) ==
    /\ Calm
    /\ n = 8 => policy = "slate"
    /\ n >= 9 => Unbuffered
    /\ n >= 13 => policy = "passthrough"
    /\ n >= 14 => entries = <<>>

Rests ==
    /\ todo = <<>>
    /\ \/ mode = "BUSY"
       \/ mode = "DELAYED" /\ Calm
       \/ mode = "REALTIME" /\ Calm /\ (policy = "passthrough" => Unbuffered /\ entries = <<>>)

EmptyInv ==
    \/ Rests
    \/ mode = "BUSY" /\ \E n \in 1..15 : Left(EnableDelay, n) /\ EnableStage(n)
    \/ mode = "BUSY" /\ \E n \in 1..15 : Left(ReturnLive, n) /\ LiveStage(n)
    \/ mode = "BUSY" /\ \E n \in 1..16 : Left(DumpBuffer, n) /\ LiveStage(n)

(* A step of another goroutine that puts nothing into the ring.            *)
LEMMA OutsideOps ==
    ASSUME EmptyInv, UNCHANGED <<request, control>>,
           Calm => push'.at # "buffer",
           Unbuffered => Direct' /\ (entries = <<>> => entries' = <<>>)
    PROVE  EmptyInv'
<1>1. /\ Calm => Calm'
      /\ Unbuffered => Unbuffered'
      /\ \A n \in 1..15 : EnableStage(n) => EnableStage(n)'
  BY DEF control, Calm, Unbuffered, EnableStage
<1>2. /\ \A n \in 1..16 : LiveStage(n) => LiveStage(n)'
      /\ Rests => Rests'
  BY <1>1 DEF control, request, LiveStage, Rests
<1>3. UNCHANGED <<todo, mode>>
  BY DEF request
<1>4. \A sequence, n : Left(sequence, n) => Left(sequence, n)'
  BY <1>3 DEF Left
<1> QED
  BY <1>1, <1>2, <1>3, <1>4 DEF EmptyInv

LEMMA PushQuiet ==
    ASSUME LiveInv, PushStep \/ \E key \in BOOLEAN : PushBegin(key)
    PROVE  /\ UNCHANGED <<request, control>>
           /\ Calm => push'.at # "buffer"
           /\ Unbuffered => Direct' /\ (entries = <<>> => entries' = <<>>)
<1> USE DEF LiveInv, PushShape, Calm, Direct, Unbuffered, Others
<1>1. ASSUME NEW key \in BOOLEAN, PushBegin(key)
      PROVE  /\ UNCHANGED <<request, control>>
             /\ push'.at = "act" /\ push'.policy = policy /\ entries' = entries
  BY <1>1 DEF PushBegin, ring
<1>2. CASE PushDirect
  BY <1>2 DEF PushDirect, PushGoes, NotBuffered, ring
<1>3. CASE PushSlate
  BY <1>3 DEF PushSlate, PushGoes, ring
<1>4. CASE PushFlag
  BY <1>4 DEF PushFlag, PushGoes, NotBuffered, ring
<1>5. CASE PushDrain
  BY <1>5 DEF PushDrain, PushGoes, NotBuffered, Returns, Idle, ring
<1>6. CASE PushBuffer
  BY <1>6 DEF PushBuffer, PushGoes, Returns, Idle, Buffering
<1>7. CASE PushWrite
  BY <1>7 DEF PushWrite, Returns, Idle, ring
<1> QED
  BY <1>1, <1>2, <1>3, <1>4, <1>5, <1>6, <1>7 DEF PushStep

(* What the next section of an operation does to what the stages promise.  *)
SectionEffect ==
    LET s == Head(todo) IN
    /\ \/ todo' = Tail(todo)
       \/ todo' = <<>> /\ s \in {"check", "apply"}
    /\ IF s \in {"DELAYED", "REALTIME"} THEN mode' \in {mode, s} ELSE mode' = mode
    /\ IF s \in Policy THEN policy' = s /\ racy' = FALSE ELSE policy' = policy
    /\ s \notin {"buffer", "unbuffer"} =>
          slateBuffersInput' = slateBuffersInput /\ (racy = FALSE => racy' = FALSE)
    /\ s = "unbuffer" =>
          slateBuffersInput' = FALSE
            /\ (slateBuffersInput = FALSE /\ racy = FALSE => racy' = FALSE)
    /\ s = "clear" => entries' = <<>>
    /\ s = "sleep" => (push.at \in {"act", "flag", "buffer"} => push.policy = policy)

LEMMA SectionEffects == OpStep => SectionEffect
<1> SUFFICES ASSUME OpStep PROVE SectionEffect
  OBVIOUS
<1> USE DEF SectionEffect, Run, Continue, World, control, Policy
<1>1. CASE SetTargetDelay
  BY <1>1 DEF SetTargetDelay
<1>2. CASE SetPolicy
  BY <1>2 DEF SetPolicy
<1>3. CASE SetSlateBuffersInput
  BY <1>3 DEF SetSlateBuffersInput
<1>4. CASE ClearRing
  BY <1>4 DEF ClearRing, Clear
<1>5. CASE Drop
  BY <1>5 DEF Drop
<1>6. CASE Wait
  BY <1>6 DEF Wait
<1>7. CASE Sleep
  BY <1>7 DEF Sleep
<1>8. CASE Checks
  BY <1>8 DEF Checks
<1>9. CASE Finish
  BY <1>9 DEF Finish
<1> QED
  BY <1>1, <1>2, <1>3, <1>4, <1>5, <1>6, <1>7, <1>8, <1>9 DEF OpStep

(* Each section of EnableDelay leads from its stage to the next.           *)
LEMMA EnableSteps ==
    ASSUME LiveInv, OpStep, mode = "BUSY",
           NEW n \in 1..15, Left(EnableDelay, n), EnableStage(n)
    PROVE  EmptyInv'
<1>1. Head(todo) = EnableDelay[n]
  BY EnableSequence, LeftStep
<1>2. SectionEffect /\ UNCHANGED push
  BY SectionEffects, OpTakes
<1>3. CASE todo' = <<>> /\ Head(todo) \in {"check", "apply"}
  BY <1>2, <1>3 DEF SectionEffect, EmptyInv, Rests
<1>4. CASE todo' = Tail(todo) /\ n = 15
  <2>1. todo' = <<>>
    BY <1>4, EnableSequence, LeftStep
  <2>2. Calm' /\ mode' \in {"BUSY", "DELAYED"}
    BY <1>1, <1>2, <1>4, EnableSections DEF SectionEffect, EnableStage, Calm, Policy
  <2> QED
    BY <2>1, <2>2 DEF EmptyInv, Rests
<1>5. CASE todo' = Tail(todo) /\ n # 15
  <2>1. Left(EnableDelay, n + 1)'
    <3>1. n \in 1..Len(EnableDelay) /\ n # Len(EnableDelay)
      BY <1>5, EnableSequence
    <3> QED
      BY <1>5, <3>1, EnableSequence, LeftStep
  <2>range. n + 1 \in 1..15
    BY <1>5
  <2>2. mode' = "BUSY"
    BY <1>1, <1>2, <1>5, EnableSections DEF SectionEffect
  <2>3. n + 1 <= 6 => Calm'
    BY <1>1, <1>2, EnableSections DEF SectionEffect, EnableStage, Calm, Policy
  <2>4. n + 1 >= 11 => slateBuffersInput' = FALSE
    BY <1>1, <1>2, <1>5, EnableSections DEF SectionEffect, EnableStage, Policy
  <2>5. n + 1 >= 13 => racy' = FALSE /\ policy' = "delayed"
    BY <1>1, <1>2, <1>5, EnableSections DEF SectionEffect, EnableStage, Policy
  <2>6. n + 1 = 15 => Calm'
    <3> SUFFICES ASSUME n = 14 PROVE Calm'
      OBVIOUS
    <3>1. push.at \in {"act", "flag", "buffer"} => push.policy = policy
      BY <1>1, <1>2, EnableSections DEF SectionEffect
    <3>2. push.at # "buffer"
      BY <3>1 DEF EnableStage, LiveInv, PushShape
    <3> QED
      BY <1>2, <2>4, <2>5, <3>2 DEF Calm
  <2>7. EnableStage(n + 1)'
    BY <2>3, <2>4, <2>5, <2>6 DEF EnableStage
  <2> QED
    BY <2>1, <2>range, <2>2, <2>7 DEF EmptyInv
<1> QED
  BY <1>2, <1>3, <1>4, <1>5 DEF SectionEffect

(* What ReturnLive and DumpBuffer have in common leads back to the live    *)
(* output and an empty ring.                                               *)
LiveSection(n, s) ==
    /\ s # "buffer"
    /\ n = 7 => s = "slate"
    /\ n = 8 => s = "sleep"
    /\ n >= 9 /\ s \in Policy => s = "passthrough"
    /\ n = 12 => s = "passthrough"
    /\ n = 13 => s = "clear"
    /\ n >= 13 => s \notin Policy

LEMMA LiveSteps ==
    ASSUME LiveInv, OpStep, NEW n \in Nat, LiveStage(n), LiveSection(n, Head(todo))
    PROVE  LiveStage(n + 1)'
<1>1. SectionEffect /\ UNCHANGED push /\ (entries = <<>> => entries' = <<>>)
  BY SectionEffects, OpTakes
<1>2. Calm'
  BY <1>1, Zenon DEF SectionEffect, LiveStage, LiveSection, Calm
<1>3. n = 7 => policy' = "slate"
  BY <1>1 DEF SectionEffect, LiveSection, Policy
<1>4. n = 8 => Unbuffered'
  <2> SUFFICES ASSUME n = 8 PROVE Unbuffered'
    OBVIOUS
  <2>1. policy = "slate" /\ (push.at \in {"act", "flag", "buffer"} => push.policy = policy)
    BY <1>1 DEF SectionEffect, LiveStage, LiveSection
  <2>2. policy' = "slate"
    BY <1>1, <2>1 DEF SectionEffect, LiveSection, Policy
  <2> QED
    BY <1>1, <1>2, <2>1, <2>2 DEF Unbuffered, Direct
<1>5. n >= 9 => Unbuffered'
  <2> SUFFICES ASSUME n >= 9 PROVE Unbuffered'
    OBVIOUS
  <2>1. Unbuffered
    BY DEF LiveStage
  <2>2. policy' \in {policy, "passthrough"}
    BY <1>1 DEF SectionEffect, LiveSection
  <2> QED
    BY <1>1, <1>2, <2>1, <2>2 DEF Unbuffered, Direct
<1>6. n >= 12 => policy' = "passthrough"
  <2>1. CASE n = 12
    BY <1>1, <2>1 DEF SectionEffect, LiveSection, Policy
  <2>2. CASE n >= 13
    BY <1>1, <2>2 DEF SectionEffect, LiveSection, LiveStage
  <2> QED
    BY <2>1, <2>2
<1>7. n >= 13 => entries' = <<>>
  <2>1. CASE n = 13
    BY <1>1, <2>1 DEF SectionEffect, LiveSection
  <2>2. CASE n >= 14
    BY <1>1, <2>2 DEF LiveStage
  <2> QED
    BY <2>1, <2>2
<1> QED
  BY <1>2, <1>3, <1>4, <1>5, <1>6, <1>7 DEF LiveStage

LEMMA ReturnSteps ==
    ASSUME LiveInv, OpStep, mode = "BUSY",
           NEW n \in 1..15, Left(ReturnLive, n), LiveStage(n)
    PROVE  EmptyInv'
<1>1. Head(todo) = ReturnLive[n]
  BY ReturnSequence, LeftStep
<1>2. SectionEffect
  BY SectionEffects
<1>3. LiveSection(n, Head(todo))
  BY <1>1, ReturnSections DEF LiveSection, Policy
<1>4. LiveStage(n + 1)'
  BY <1>3, LiveSteps
<1>5. CASE todo' = <<>> /\ Head(todo) \in {"check", "apply"}
  BY <1>2, <1>5 DEF SectionEffect, EmptyInv, Rests
<1>6. CASE todo' = Tail(todo) /\ n = 15
  <2>1. todo' = <<>>
    BY <1>6, ReturnSequence, LeftStep
  <2>2. mode' \in {"BUSY", "REALTIME"}
    BY <1>1, <1>2, <1>6, ReturnSections DEF SectionEffect
  <2>3. Calm' /\ Unbuffered' /\ entries' = <<>>
    BY <1>4, <1>6 DEF LiveStage
  <2> QED
    BY <2>1, <2>2, <2>3 DEF EmptyInv, Rests
<1>7. CASE todo' = Tail(todo) /\ n # 15
  <2>1. Left(ReturnLive, n + 1)'
    <3>1. n \in 1..Len(ReturnLive) /\ n # Len(ReturnLive)
      BY <1>7, ReturnSequence
    <3> QED
      BY <1>7, <3>1, ReturnSequence, LeftStep
  <2>range. n + 1 \in 1..15
    BY <1>7
  <2>2. mode' = "BUSY"
    BY <1>1, <1>2, <1>7, ReturnSections DEF SectionEffect
  <2> QED
    BY <1>4, <2>1, <2>range, <2>2 DEF EmptyInv
<1> QED
  BY <1>2, <1>5, <1>6, <1>7 DEF SectionEffect

LEMMA DumpSteps ==
    ASSUME LiveInv, OpStep, mode = "BUSY",
           NEW n \in 1..16, Left(DumpBuffer, n), LiveStage(n)
    PROVE  EmptyInv'
<1>1. Head(todo) = DumpBuffer[n]
  BY DumpSequence, LeftStep
<1>2. SectionEffect
  BY SectionEffects
<1>3. LiveSection(n, Head(todo))
  BY <1>1, DumpSections DEF LiveSection, Policy
<1>4. LiveStage(n + 1)'
  BY <1>3, LiveSteps
<1>5. CASE todo' = <<>> /\ Head(todo) \in {"check", "apply"}
  BY <1>2, <1>5 DEF SectionEffect, EmptyInv, Rests
<1>6. CASE todo' = Tail(todo) /\ n = 16
  <2>1. todo' = <<>>
    BY <1>6, DumpSequence, LeftStep
  <2>2. mode' \in {"BUSY", "REALTIME"}
    BY <1>1, <1>2, <1>6, DumpSections DEF SectionEffect
  <2>3. Calm' /\ Unbuffered' /\ entries' = <<>>
    BY <1>4, <1>6 DEF LiveStage
  <2> QED
    BY <2>1, <2>2, <2>3 DEF EmptyInv, Rests
<1>7. CASE todo' = Tail(todo) /\ n # 16
  <2>1. Left(DumpBuffer, n + 1)'
    <3>1. n \in 1..Len(DumpBuffer) /\ n # Len(DumpBuffer)
      BY <1>7, DumpSequence
    <3> QED
      BY <1>7, <3>1, DumpSequence, LeftStep
  <2>range. n + 1 \in 1..16
    BY <1>7
  <2>2. mode' = "BUSY"
    BY <1>1, <1>2, <1>7, DumpSections DEF SectionEffect
  <2> QED
    BY <1>4, <2>1, <2>range, <2>2 DEF EmptyInv
<1> QED
  BY <1>2, <1>5, <1>6, <1>7 DEF SectionEffect

LEMMA EmptyStep == LiveInv /\ EmptyInv /\ [ControllerNext]_cvars => EmptyInv'
<1> SUFFICES ASSUME LiveInv, EmptyInv, [ControllerNext]_cvars PROVE EmptyInv'
  OBVIOUS
<1>1. CASE PushStep \/ \E key \in BOOLEAN : PushBegin(key)
  BY <1>1, PushQuiet, OutsideOps
<1>2. CASE DrainStep \/ DrainExit
  <2>1. Calm => push'.at # "buffer"
    BY <1>2, DrainTakes DEF Calm
  <2>2. Unbuffered => Direct' /\ (entries = <<>> => entries' = <<>>)
    BY <1>2, DrainTakes DEF Unbuffered, Direct
  <2> QED
    BY <1>2, <2>1, <2>2, DrainTakes, OutsideOps
<1>3. CASE Stop
  <2>1. UNCHANGED <<request, control>> /\ push'.at = "stopping" /\ entries' = entries
    BY <1>3 DEF Stop, PushGoes, LiveInv, PushShape, ring
  <2> QED
    BY <2>1, OutsideOps DEF Direct
<1>4. CASE Stopped
  <2>1. UNCHANGED <<request, control>> /\ push'.at = "stopped" /\ entries' = <<>>
    BY <1>4 DEF Stopped, PushGoes, Clear, Others, LiveInv, PushShape
  <2> QED
    BY <2>1, OutsideOps DEF Direct
<1>5. CASE Tick
  <2>1. UNCHANGED <<request, control, push>> /\ (entries = <<>> => entries' = <<>>)
    BY <1>5, TickEmpty DEF Tick
  <2> QED
    BY <2>1, OutsideOps DEF Calm, Unbuffered, Direct
<1>6. CASE Start
  <2>1. todo = <<>> /\ mode # "BUSY" /\ mode' = "BUSY" /\ Calm /\ UNCHANGED <<control, push>>
    BY <1>6, LeftStep, EnableSequence, ReturnSequence, DumpSequence
    DEF Start, World, EmptyInv, Rests
  <2>2. Calm'
    BY <2>1 DEF Calm, control
  <2>3. EnableStage(1)' /\ LiveStage(1)'
    BY <2>2 DEF EnableStage, LiveStage
  <2>4. CASE todo' = EnableDelay
    BY <2>1, <2>3, <2>4, EnableSequence, LeftStart DEF EmptyInv
  <2>5. CASE todo' = ReturnLive
    BY <2>1, <2>3, <2>5, ReturnSequence, LeftStart DEF EmptyInv
  <2>6. CASE todo' = DumpBuffer
    BY <2>1, <2>3, <2>6, DumpSequence, LeftStart DEF EmptyInv
  <2> QED
    BY <1>6, <2>4, <2>5, <2>6 DEF Start
<1>7. CASE OpStep
  <2>1. todo # <<>>
    BY <1>7 DEF OpStep, SetTargetDelay, SetPolicy, SetSlateBuffersInput, ClearRing, Drop, Wait,
                Sleep, Checks, Finish, Run
  <2> QED
    BY <1>7, <2>1, EnableSteps, ReturnSteps, DumpSteps DEF EmptyInv, Rests
<1>8. CASE UNCHANGED cvars
  <2>1. UNCHANGED <<request, control, push, entries>>
    BY <1>8 DEF cvars, ring
  <2> QED
    BY <2>1, OutsideOps DEF Calm, Unbuffered, Direct
<1> QED
  BY <1>1, <1>2, <1>3, <1>4, <1>5, <1>6, <1>7, <1>8 DEF ControllerNext

LEMMA EmptyStart == ControllerInit => EmptyInv
<1> SUFFICES ASSUME ControllerInit PROVE EmptyInv
  OBVIOUS
<1>1. Calm /\ Direct /\ entries = <<>> /\ todo = <<>> /\ mode = "REALTIME"
  BY DEF ControllerInit, RingInit, Calm, Direct, Idle
<1> QED
  BY <1>1 DEF EmptyInv, Rests, Unbuffered

(* When the engine is back in REALTIME nothing is left in the ring, and    *)
(* nothing that Push began before will still be put there.                 *)
THEOREM RealtimeLeavesNothing == ControllerSpec => []RealtimeIsEmpty
<1>1. EmptyInv => RealtimeIsEmpty
  BY DEF EmptyInv, Rests, RealtimeIsEmpty
<1> QED
  BY <1>1, EmptyStart, LiveStart, LiveStep, EmptyStep, PTL DEF ControllerSpec
-----------------------------------------------------------------------------
(* The types, with the bytes of the ring: they bound each other.           *)
TypeInv == ControllerTypeOK /\ Accounted

PushType == [at : {"idle", "act", "flag", "buffer", "write", "stopping", "stopped"},
             policy : Policy, frame : Frame]

DrainType == [at : {"idle", "peek", "pop", "write", "gone"},
              policy : Policy, delay : {0, Delay}, lag : 0..MaxLag]

LEMMA NoFrameType == NoFrame \in Frame /\ \A key \in BOOLEAN : [NoFrame EXCEPT !.key = key] \in Frame
  BY ControllerAssumption DEF NoFrame, Frame, Hole, MaxAge

LEMMA IdleTypes ==
    /\ Idle \in PushType
    /\ [at |-> "idle", policy |-> "passthrough", delay |-> 0, lag |-> 0] \in DrainType
<1>1. "passthrough" \in Policy /\ 0 \in 0..MaxLag
  BY ControllerAssumption DEF Policy
<1> QED
  BY <1>1, NoFrameType DEF Idle, PushType, DrainType

LEMMA OlderType ==
    ASSUME NEW f \in Frame
    PROVE  /\ Older(f) \in Frame /\ Older(f).key = f.key /\ Older(f).gap = f.gap
           /\ Older(f).age = IF f.age < MaxAge THEN f.age + 1 ELSE MaxAge
<1>1. MaxAge \in Nat
  BY ControllerAssumption DEF MaxAge
<1>2. f.age \in 0..MaxAge
  BY DEF Frame
<1>3. {f.age + 1, MaxAge} \in SUBSET Nat /\ {f.age + 1, MaxAge} # {}
  BY <1>1, <1>2
<1>4. Min({f.age + 1, MaxAge}) \in {f.age + 1, MaxAge}
         /\ Min({f.age + 1, MaxAge}) <= f.age + 1 /\ Min({f.age + 1, MaxAge}) <= MaxAge
  BY <1>3, MinIs
<1>5. Min({f.age + 1, MaxAge}) = IF f.age < MaxAge THEN f.age + 1 ELSE MaxAge
  BY <1>1, <1>2, <1>4
<1>6. Older(f) = [f EXCEPT !.age = Min({f.age + 1, MaxAge})]
  BY DEF Older
<1> QED
  BY <1>1, <1>2, <1>5, <1>6 DEF Frame

(* What Push does to the ring, in one place.                               *)
LEMMA PushTypes ==
    ASSUME TypeInv, PushStep \/ \E key \in BOOLEAN : PushBegin(key)
    PROVE  TypeInv'
<1> USE DEF TypeInv, ControllerTypeOK, Others, control, request
<1>1. push \in PushType
  BY DEF PushType
<1>2. ASSUME entries' \in Seq(Frame) /\ Accounted', push' \in PushType,
             UNCHANGED <<control, drain, request, cancelled, fresh>>,
             error' \in BOOLEAN, hole' \in Hole, gop' \in 0..MaxGop
      PROVE  TypeInv'
  <2>1. usedBytes' \in 0..Capacity
    BY <1>2, BytesType, RingAssumption DEF Accounted
  <2> QED
    BY <1>2, <2>1 DEF PushType
<1>3. ASSUME UNCHANGED ring PROVE entries' \in Seq(Frame) /\ Accounted'
  BY <1>3 DEF ring, Accounted, Bytes, KeyframesIn
<1>4. \A where \in {"act", "flag", "buffer", "write"} : PushGoes(where) => push' \in PushType
  BY <1>1 DEF PushGoes, PushType
<1>5. \A failed \in BOOLEAN : Returns(failed) => push' \in PushType /\ error' \in BOOLEAN
  BY IdleTypes DEF Returns
<1>6. \A loss \in Hole : NotBuffered(loss) => hole' \in Hole /\ UNCHANGED <<ring, gop, fresh>>
  BY DEF NotBuffered
<1>7. {"loss", "switch", "none"} \subseteq Hole
  BY DEF Hole
<1>8. ASSUME NEW key \in BOOLEAN, PushBegin(key) PROVE TypeInv'
  <2>1. push' \in PushType
    BY <1>8, NoFrameType DEF PushBegin, PushType
  <2>2. gop' \in 0..MaxGop
    BY <1>8, ControllerAssumption DEF PushBegin
  <2>3. UNCHANGED <<ring, control, drain, request, cancelled, error, hole, fresh>>
    BY <1>8 DEF PushBegin
  <2> QED
    BY <2>1, <2>2, <2>3, <1>2, <1>3
<1>9. CASE PushDirect
  BY <1>9, <1>2, <1>3, <1>4, <1>6, <1>7 DEF PushDirect
<1>10. CASE PushSlate
  BY <1>10, <1>2, <1>3, <1>4 DEF PushSlate, history
<1>11. CASE PushFlag
  <2>1. UNCHANGED <<ring, control, drain, request, cancelled, error, gop, fresh>> /\ hole' \in Hole
    BY <1>11, <1>6, <1>7 DEF PushFlag, history
  <2>2. push' \in PushType
    BY <1>11, <1>4 DEF PushFlag
  <2> QED
    BY <2>1, <2>2, <1>2, <1>3
<1>12. CASE PushDrain
  <2>1. UNCHANGED <<ring, control, drain, request, cancelled, gop, fresh>> /\ hole' \in Hole
    BY <1>12, <1>6, <1>7 DEF PushDrain
  <2>2. push' \in PushType /\ error' \in BOOLEAN
    BY <1>12, <1>4, <1>5 DEF PushDrain
  <2> QED
    BY <2>1, <2>2, <1>2, <1>3
<1>13. CASE PushBuffer
  <2>1. UNCHANGED <<control, drain, request, cancelled, gop, fresh>> /\ hole' \in Hole
    BY <1>13, <1>6, <1>7 DEF PushBuffer
  <2>2. push' \in PushType /\ error' \in BOOLEAN
    BY <1>13, <1>4, <1>5 DEF PushBuffer
  <2>3. [push.frame EXCEPT !.gap = hole] \in Frame
    BY <1>1 DEF PushType, Frame
  <2>4. entries' \in Seq(Frame) /\ Accounted'
    BY <1>13, <2>3, <1>3, <1>6, <1>7, PushAccounts DEF PushBuffer
  <2> QED
    BY <2>1, <2>2, <2>4, <1>2
<1>14. CASE PushWrite
  BY <1>14, <1>2, <1>3, <1>5 DEF PushWrite, history
<1> QED
  BY <1>8, <1>9, <1>10, <1>11, <1>12, <1>13, <1>14 DEF PushStep

LEMMA DrainTypes ==
    ASSUME TypeInv, DrainStep \/ DrainExit
    PROVE  TypeInv'
<1> USE DEF TypeInv, ControllerTypeOK, Rest, control, request
<1>1. drain \in DrainType
  BY DEF DrainType
<1>2. ASSUME entries' \in Seq(Frame) /\ Accounted', drain' \in DrainType,
             UNCHANGED <<control, push, request, cancelled, hole, gop>>,
             error' \in BOOLEAN, fresh' \in BOOLEAN
      PROVE  TypeInv'
  <2>1. usedBytes' \in 0..Capacity
    BY <1>2, BytesType, RingAssumption DEF Accounted
  <2> QED
    BY <1>2, <2>1 DEF DrainType
<1>3. ASSUME UNCHANGED ring PROVE entries' \in Seq(Frame) /\ Accounted'
  BY <1>3 DEF ring, Accounted, Bytes, KeyframesIn
<1>4. \A where \in {"idle", "peek", "pop", "write", "gone"} : DrainGoes(where) => drain' \in DrainType
  BY <1>1 DEF DrainGoes, DrainType
<1>5. DrainIdle => drain' \in DrainType
  BY IdleTypes DEF DrainIdle
<1>6. CASE DrainReady
  <2>1. drain' \in DrainType
    BY <1>6, ControllerAssumption DEF DrainReady, DrainType, Policy
  <2> QED
    BY <1>6, <2>1, <1>2, <1>3 DEF DrainReady, history
<1>7. CASE DrainPeek
  BY <1>7, <1>2, <1>3, <1>4, <1>5 DEF DrainPeek, history
<1>8. CASE DrainPop
  <2>1. drain' \in DrainType
    BY <1>8, <1>4, <1>5 DEF DrainPop
  <2>2. entries' \in Seq(Frame) /\ Accounted'
    BY <1>8, <1>3, PopAccounts DEF DrainPop
  <2> QED
    BY <1>8, <2>1, <2>2, <1>2 DEF DrainPop
<1>9. CASE DrainWrite
  <2>1. drain' \in DrainType
    BY <1>9, <1>4, <1>5 DEF DrainWrite
  <2> QED
    BY <1>9, <2>1, <1>2, <1>3 DEF DrainWrite, history
<1>10. CASE DrainExit
  BY <1>10, <1>2, <1>3, <1>4 DEF DrainExit, history
<1> QED
  BY <1>6, <1>7, <1>8, <1>9, <1>10 DEF DrainStep

LEMMA OpTypes ==
    ASSUME TypeInv, Start \/ OpStep
    PROVE  TypeInv'
<1> USE DEF TypeInv, ControllerTypeOK, World
<1>1. ASSUME entries' \in Seq(Frame) /\ Accounted', UNCHANGED <<World, gop>>,
             policy' \in Policy, delay' \in {0, Delay},
             slateBuffersInput' \in BOOLEAN, racy' \in BOOLEAN,
             todo' \in Seq(Section), mode' \in {"REALTIME", "DELAYED", "BUSY"},
             hole' \in Hole, fresh' \in BOOLEAN
      PROVE  TypeInv'
  <2>1. usedBytes' \in 0..Capacity
    BY <1>1, BytesType, RingAssumption DEF Accounted
  <2> QED
    BY <1>1, <2>1
<1>2. ASSUME UNCHANGED ring PROVE entries' \in Seq(Frame) /\ Accounted'
  BY <1>2 DEF ring, Accounted, Bytes, KeyframesIn
<1>3. \A section : Run(section) /\ Continue => todo' \in Seq(Section)
  BY DEF Run, Continue
<1>4. CASE Start
  BY <1>4, <1>1, <1>2, EnableSequence, ReturnSequence, DumpSequence DEF Start, control, history
<1>5. CASE SetTargetDelay
  BY <1>5, <1>1, <1>2, <1>3 DEF SetTargetDelay, history
<1>6. CASE SetPolicy
  BY <1>6, <1>1, <1>2, <1>3 DEF SetPolicy
<1>7. CASE SetSlateBuffersInput
  <2>1. (Run("buffer") \/ Run("unbuffer")) /\ Continue
    BY <1>7 DEF SetSlateBuffersInput
  <2>2. todo' \in Seq(Section)
    BY <2>1, <1>3
  <2>3. slateBuffersInput' \in BOOLEAN
    BY <1>7 DEF SetSlateBuffersInput, Run
  <2>4. racy' \in BOOLEAN
    BY <1>7, Zenon DEF SetSlateBuffersInput
  <2> QED
    BY <1>7, <2>2, <2>3, <2>4, <1>1, <1>2 DEF SetSlateBuffersInput, history
<1>8. CASE ClearRing
  <2>1. entries' \in Seq(Frame) /\ Accounted'
    BY <1>8, ClearAccounts DEF ClearRing
  <2> QED
    BY <1>8, <2>1, <1>1, <1>3 DEF ClearRing, control, Hole
<1>9. CASE Drop
  <2>1. entries' \in Seq(Frame) /\ Accounted'
    BY <1>9, DropAccounts DEF Drop
  <2> QED
    BY <1>9, <2>1, <1>1, <1>3 DEF Drop, control, history
<1>10. CASE Wait
  BY <1>10, <1>1, <1>2, <1>3 DEF Wait, control, history
<1>11. CASE Sleep
  BY <1>11, <1>1, <1>2, <1>3 DEF Sleep, control, history
<1>12. CASE Checks
  <2>1. todo' = <<>> \/ (todo' = Tail(todo) /\ todo # <<>>)
    BY <1>12, Zenon DEF Checks, Run, Continue
  <2>2. todo' \in Seq(Section)
    <3>1. ASSUME NEW s \in Seq(Section), s # <<>> PROVE Tail(s) \in Seq(Section)
      BY <3>1
    <3>2. todo \in Seq(Section) /\ <<>> \in Seq(Section)
      OBVIOUS
    <3> HIDE DEF TypeInv, ControllerTypeOK
    <3> QED
      BY <2>1, <3>1, <3>2
  <2>3. UNCHANGED <<ring, control, World, mode, history>>
    BY <1>12, Zenon DEF Checks
  <2> QED
    BY <2>2, <2>3, <1>1, <1>2 DEF control, history
<1>13. CASE Finish
  BY <1>13, <1>1, <1>2, <1>3 DEF Finish, control, history
<1> QED
  BY <1>4, <1>5, <1>6, <1>7, <1>8, <1>9, <1>10, <1>11, <1>12, <1>13 DEF OpStep

(* A tick makes the frames older and changes nothing else of the ring.     *)
LEMMA TickAges ==
    ASSUME TypeInv, Tick
    PROVE  /\ entries' \in Seq(Frame) /\ Len(entries') = Len(entries)
           /\ \A i \in 1..Len(entries) : entries'[i] = Older(entries[i])
<1>1. entries \in Seq(Frame)
  BY DEF TypeInv, ControllerTypeOK
<1>2. entries' = [i \in 1..Len(entries) |-> Older(entries[i])]
  BY <1>1 DEF Tick
<1>3. \A i \in 1..Len(entries) : Older(entries[i]) \in Frame
  BY <1>1, OlderType
<1> QED
  BY <1>1, <1>2, <1>3

LEMMA TypeStep == TypeInv /\ [ControllerNext]_cvars => TypeInv'
<1> SUFFICES ASSUME TypeInv, [ControllerNext]_cvars PROVE TypeInv'
  OBVIOUS
<1>1. CASE PushStep \/ \E key \in BOOLEAN : PushBegin(key)
  BY <1>1, PushTypes
<1>2. CASE DrainStep \/ DrainExit
  BY <1>2, DrainTypes
<1>3. CASE Start \/ OpStep
  BY <1>3, OpTypes
<1>4. CASE Stop
  BY <1>4 DEF Stop, PushGoes, TypeInv, ControllerTypeOK, control, request, history, ring,
              Accounted, Bytes, KeyframesIn
<1>5. CASE Stopped
  <2>1. entries' \in Seq(Frame) /\ Accounted'
    BY <1>5, ClearAccounts DEF Stopped
  <2>2. usedBytes' \in 0..Capacity
    BY <1>5, RingAssumption DEF Stopped, Clear
  <2> QED
    BY <1>5, <2>1, <2>2 DEF Stopped, PushGoes, TypeInv, ControllerTypeOK, Others, control, request, Hole
<1>6. CASE Tick
  <2>1. entries' \in Seq(Frame) /\ Len(entries') = Len(entries)
    BY <1>6, TickAges
  <2>2. \A i \in 1..Len(entries) : entries'[i].key = entries[i].key
    BY <1>6, TickAges, OlderType DEF TypeInv, ControllerTypeOK
  <2>3. Bytes(entries') = Bytes(entries)
    BY <2>1, <2>2, BytesSame DEF TypeInv, ControllerTypeOK
  <2>4. Accounted' /\ usedBytes' = usedBytes
    BY <1>6, <2>3 DEF Tick, TypeInv, Accounted
  <2>5. drain' \in DrainType
    <3>1. drain \in DrainType
      BY DEF TypeInv, ControllerTypeOK, DrainType
    <3>2. CASE drain.at = "write"
      BY <1>6, <3>1, <3>2, ControllerAssumption DEF Tick, DrainType
    <3>3. CASE drain.at # "write"
      BY <1>6, <3>1, <3>3 DEF Tick
    <3> QED
      BY <3>2, <3>3
  <2> QED
    BY <1>6, <2>1, <2>4, <2>5 DEF Tick, TypeInv, ControllerTypeOK, DrainType, control, request, history
<1>7. CASE UNCHANGED cvars
  BY <1>7 DEF cvars, TypeInv, ControllerTypeOK, control, request, history, ring, Accounted, Bytes,
              KeyframesIn
<1> QED
  BY <1>1, <1>2, <1>3, <1>4, <1>5, <1>6, <1>7 DEF ControllerNext

LEMMA TypeStart == ControllerInit => TypeInv
<1> SUFFICES ASSUME ControllerInit PROVE TypeInv
  OBVIOUS
<1>1. entries \in Seq(Frame) /\ usedBytes \in 0..Capacity /\ Accounted
  BY BytesOfNone, RingAssumption DEF ControllerInit, RingInit, Accounted
<1>2. push \in PushType /\ drain \in DrainType
  BY IdleTypes DEF ControllerInit
<1>3. policy \in Policy /\ delay \in {0, Delay} /\ gop \in 0..MaxGop /\ hole \in Hole
  BY ControllerAssumption DEF ControllerInit, Policy, Hole
<1>4. todo \in Seq(Section) /\ mode \in {"REALTIME", "DELAYED", "BUSY"}
  BY DEF ControllerInit
<1>5. /\ slateBuffersInput \in BOOLEAN /\ racy \in BOOLEAN
      /\ cancelled \in BOOLEAN /\ error \in BOOLEAN /\ fresh \in BOOLEAN
  BY DEF ControllerInit
<1> QED
  BY <1>1, <1>2, <1>3, <1>4, <1>5 DEF TypeInv, ControllerTypeOK, PushType, DrainType

(* Every run of a pipeline keeps to its types: Push never fills the ring   *)
(* beyond its capacity, and usedBytes never goes below zero.               *)
THEOREM ControllerTypeCorrect == ControllerSpec => []ControllerTypeOK
<1>1. TypeInv => ControllerTypeOK
  BY DEF TypeInv
<1> QED
  BY <1>1, TypeStart, TypeStep, PTL DEF ControllerSpec

(* The bytes a pipeline reports as used are those of the frames it holds,  *)
(* whatever was pushed, popped, dropped and cleared before.                *)
THEOREM BytesAreAccounted == ControllerSpec => []Accounted
<1>1. TypeInv => Accounted
  BY DEF TypeInv
<1> QED
  BY <1>1, TypeStart, TypeStep, PTL DEF ControllerSpec
=============================================================================
