-------------------------- MODULE DelayOutput_proofs --------------------------
(***************************************************************************)
(* The delayed output of a pipeline: when its frames leave the ring, where *)
(* it starts and that nothing is missing from it.  What is promised of the *)
(* ring and of the goroutines depends on how far EnableDelay has come, so  *)
(* the invariant has a stage for each of its sections, as the one of       *)
(* DelayController_proofs for the ring in REALTIME.                        *)
(***************************************************************************)
EXTENDS DelayController_proofs

(* The goroutines, wherever the operation is.                              *)
GoInv ==
    /\ push.frame.age = 0
    /\ cancelled <=> push.at \in {"stopping", "stopped"}
    /\ drain.at = "peek" => drain.policy = "delayed"
    /\ drain.at \in {"pop", "write"} => drain.policy \in {"delayed", "drain_at_live"}
    /\ drain.at \in {"peek", "pop", "write"} /\ drain.policy = "delayed" => drain.delay = Delay

DelayInv == policy = "delayed" => delay = Delay

LEMMA GoStep ==
    ASSUME TypeInv, GoInv, DelayInv, [ControllerNext]_cvars
    PROVE  GoInv'
<1> USE DEF GoInv, TypeInv, ControllerTypeOK
<1>1. ASSUME UNCHANGED <<push, drain, cancelled>> PROVE GoInv'
  BY <1>1
<1>2. ASSUME NEW key \in BOOLEAN, PushBegin(key) PROVE GoInv'
  <2>1. push'.frame = [NoFrame EXCEPT !.key = key] /\ push'.at = "act" /\ UNCHANGED <<drain, cancelled>>
    BY <1>2 DEF PushBegin, Others
  <2>2. push'.frame.age = 0 /\ ~cancelled
    BY <1>2, <2>1 DEF NoFrame, PushBegin
  <2> QED
    BY <2>1, <2>2
<1>3. CASE PushStep
  <2>1. UNCHANGED <<drain, cancelled>>
    BY <1>3 DEF PushStep, PushDirect, PushSlate, PushFlag, PushDrain, PushBuffer, PushWrite, Others
  <2>2. push.at \in {"act", "flag", "buffer", "write"}
    BY <1>3 DEF PushStep, PushDirect, PushSlate, PushFlag, PushDrain, PushBuffer, PushWrite, Buffering
  <2>3. push' = Idle \/ \E where \in {"flag", "buffer", "write"} : PushGoes(where)
    BY <1>3 DEF PushStep, PushDirect, PushSlate, PushFlag, PushDrain, PushBuffer, PushWrite, Returns
  <2>4. push'.frame.age = 0 /\ push'.at \in {"idle", "flag", "buffer", "write"}
    BY <2>3 DEF PushGoes, Idle, NoFrame
  <2> QED
    BY <2>1, <2>2, <2>4
<1>4. CASE Stop
  BY <1>4 DEF Stop, PushGoes
<1>5. CASE Stopped
  BY <1>5 DEF Stopped, PushGoes, Others
<1>6. CASE DrainReady
  BY <1>6 DEF DrainReady, Rest, DelayInv
<1>7. CASE DrainPeek
  BY <1>7 DEF DrainPeek, Rest, DrainGoes, DrainIdle
<1>8. CASE DrainPop
  BY <1>8 DEF DrainPop, Rest, DrainGoes, DrainIdle
<1>9. CASE DrainWrite
  BY <1>9 DEF DrainWrite, Rest, DrainGoes, DrainIdle
<1>10. CASE DrainExit
  BY <1>10 DEF DrainExit, Rest, DrainGoes
<1>11. CASE Start \/ OpStep
  <2>1. UNCHANGED World
    BY <1>11 DEF Start, OpStep, SetTargetDelay, SetPolicy, SetSlateBuffersInput, ClearRing, Drop,
                 Wait, Sleep, Checks, Finish
  <2> QED
    BY <2>1, <1>1 DEF World
<1>12. CASE Tick
  BY <1>12 DEF Tick
<1>13. CASE UNCHANGED cvars
  BY <1>13, <1>1 DEF cvars
<1> QED
  BY <1>2, <1>3, <1>4, <1>5, <1>6, <1>7, <1>8, <1>9, <1>10, <1>11, <1>12, <1>13
  DEF ControllerNext, DrainStep
-----------------------------------------------------------------------------
(* What Push has read lets it put its frame in the ring, or at least not   *)
(* send it past the ring while the slate buffers.                          *)
Onward ==
    /\ push.at \notin {"flag", "buffer"}
    /\ push.at = "act" => push.policy \in {"buffering_fill", "delayed"}

Inward == push.at = "act" => push.policy \in {"buffering_fill", "slate", "delayed"}

(* No frame goes past the ring unnoticed.                                  *)
NoLoss ==
    /\ Inward
    /\ push.at = "flag" => (slateBuffersInput = TRUE /\ racy = FALSE) \/ Switching

(* The ring starts with a keyframe; with nothing once the pipeline stops.  *)
KeyFirst == IF entries = <<>> THEN cancelled ELSE Head(entries).key

KeyInv == fresh /\ policy = "delayed" => KeyFirst

(* The frame about to be popped was found due.                             *)
Ready ==
    drain.at = "pop" =>
        drain.policy = "delayed" /\ entries # <<>> /\ Head(entries).age - drain.lag >= Delay

(* Nothing in the ring is older than a pass that is still under way.       *)
OldPass ==
    drain.at \in {"peek", "pop", "write"} /\ drain.policy = "delayed" =>
        \A i \in 1..Len(entries) : entries[i].age <= drain.lag

(* Nothing is missing between the frames of the ring, from its first one   *)
(* or, once the output is delayed, from the last one taken.                *)
Joined ==
    \/ error
    \/ /\ \A i \in 2..Len(entries) : entries[i].gap # "loss"
       /\ hole = "loss" => entries = <<>>

Whole ==
    \/ error
    \/ /\ \A i \in 1..Len(entries) : entries[i].gap # "loss" \/ (fresh /\ i = 1)
       /\ hole # "loss" \/ cancelled

Delayed == Ready /\ Inward /\ Whole

(* The stages of EnableDelay: the policy and the flag, what Push may have  *)
(* read, and the ring with the drain goroutine.                            *)
FillControl(n) ==
    /\ n >= 2 => delay = Delay
    /\ n \in 4..7 => policy = "buffering_fill"
    /\ n \in 8..12 => policy = "slate"
    /\ n \in 7..10 => slateBuffersInput = TRUE
    /\ n \in 8..10 => racy = FALSE
    /\ n \in 11..12 => racy = TRUE

FillPush(n) ==
    /\ n <= 3 => Unbuffered \/ (policy = "delayed" /\ Onward)
    /\ n = 3 => entries = <<>> \/ policy = "delayed"
    /\ n = 4 => entries = <<>> \/ Onward
    /\ n \in 5..7 => Onward
    /\ n \in 8..12 => Inward

FillRing(n) ==
    /\ n = 3 => \A i \in 1..Len(entries) : entries[i].age = 0
    /\ n \in 3..12 => OldPass /\ Joined
    /\ n \in 5..12 => drain.at # "pop"
    /\ n \in 9..11 => cancelled \/ Keyframes # {}
    /\ n = 12 => KeyFirst
    /\ n >= 13 => Delayed

FillStage(n) == FillControl(n) /\ FillPush(n) /\ FillRing(n)

LastStage(n) == n >= 13 => policy = "passthrough"

RestStage ==
    /\ mode = "REALTIME" => policy = "passthrough" \/ (policy = "delayed" /\ Onward)
    /\ policy = "delayed" => Delayed

StageInv ==
    \/ todo = <<>> /\ RestStage
    \/ \E n \in 1..15 : Left(EnableDelay, n) /\ FillStage(n)
    \/ \E n \in 1..15 : Left(ReturnLive, n) /\ (n >= 2 => policy # "delayed") /\ LastStage(n)
    \/ \E n \in 1..16 : Left(DumpBuffer, n) /\ (n >= 4 => policy # "delayed") /\ LastStage(n)

OutputInv == GoInv /\ DelayInv /\ KeyInv /\ StageInv
-----------------------------------------------------------------------------
(* A section of Push either puts its frame at the end of the ring, or      *)
(* leaves the ring alone and says so in hole.                              *)
Puts ==
    /\ Buffering
    /\ entries' = Append(entries, [push.frame EXCEPT !.gap = hole])
    /\ hole' = "none" /\ error' = error
    /\ push'.at \in {"idle", "write"}

Passes ==
    /\ entries' = entries
    /\ error => error'
    /\ \/ error' \/ hole' = hole
       \/ push.at = "act" /\ push.policy \in {"passthrough", "drain_at_live"}
       \/ push.at = "flag" /\ Switching /\ hole' # "loss"
       \/ push.at = "flag" /\ (slateBuffersInput = FALSE \/ racy = TRUE) /\ ~Switching

LEMMA PushEffect ==
    ASSUME TypeInv, PushStep \/ \E key \in BOOLEAN : PushBegin(key)
    PROVE  Puts \/ Passes
<1> USE DEF Passes
<1>1. ASSUME NEW key \in BOOLEAN, PushBegin(key) PROVE Passes
  BY <1>1 DEF PushBegin, ring
<1>2. CASE PushDirect
  BY <1>2 DEF PushDirect, NotBuffered, ring
<1>3. CASE PushSlate
  BY <1>3 DEF PushSlate, history, ring
<1>4. CASE PushFlag
  <2>1. entries' = entries /\ error' = error /\ push.at = "flag"
    BY <1>4 DEF PushFlag, NotBuffered, ring
  <2>2. CASE UNCHANGED history
    BY <2>1, <2>2 DEF history
  <2>3. CASE (~slateBuffersInput \/ racy) /\ NotBuffered(IF Switching THEN "switch" ELSE "loss")
    <3>1. slateBuffersInput = FALSE \/ racy = TRUE
      BY <2>3, Zenon DEF TypeInv, ControllerTypeOK
    <3>2. hole' = IF hole = "loss" THEN hole ELSE IF Switching THEN "switch" ELSE "loss"
      BY <2>3 DEF NotBuffered
    <3> QED
      BY <2>1, <3>1, <3>2
  <2> QED
    BY <1>4, <2>2, <2>3 DEF PushFlag
<1>5. CASE PushDrain
  BY <1>5 DEF PushDrain, NotBuffered, Returns, ring
<1>6. CASE PushBuffer
  <2>1. CASE RingPush([push.frame EXCEPT !.gap = hole]) /\ hole' = "none"
               /\ IF push.policy = "delayed" THEN Returns(FALSE) ELSE PushGoes("write") /\ UNCHANGED error
    <3>1. error' = error /\ push'.at \in {"idle", "write"}
      BY <2>1 DEF Returns, PushGoes, Idle, TypeInv, ControllerTypeOK
    <3> QED
      BY <1>6, <2>1, <3>1 DEF Puts, PushBuffer, RingPush
  <2>2. CASE NotBuffered("loss") /\ Returns(TRUE)
    BY <2>2 DEF NotBuffered, Returns, ring
  <2> QED
    BY <1>6, <2>1, <2>2 DEF PushBuffer
<1>7. CASE PushWrite
  BY <1>7 DEF PushWrite, Returns, history, ring
<1> QED
  BY <1>1, <1>2, <1>3, <1>4, <1>5, <1>6, <1>7 DEF PushStep

LEMMA PutsFrame ==
    ASSUME TypeInv, GoInv, Puts
    PROVE  /\ Len(entries') = Len(entries) + 1
           /\ \A i \in 1..Len(entries) : entries'[i] = entries[i]
           /\ entries'[Len(entries) + 1].age = 0
           /\ entries'[Len(entries) + 1].gap = hole
           /\ ~cancelled
<1>1. push.frame \in Frame /\ hole \in Hole /\ entries \in Seq(Frame)
  BY DEF TypeInv, ControllerTypeOK
<1> DEFINE f == [push.frame EXCEPT !.gap = hole]
<1>2. f.age = 0 /\ f.gap = hole
  BY <1>1 DEF GoInv, Frame
<1>3. entries' = Append(entries, f)
  BY DEF Puts
<1>4. ~cancelled
  BY DEF Puts, Buffering, GoInv
<1> HIDE DEF f
<1> QED
  BY <1>1, <1>2, <1>3, <1>4

(* What Push keeps of the promises about the ring.                         *)
LEMMA PushOutput ==
    ASSUME TypeInv, GoInv, PushStep \/ \E key \in BOOLEAN : PushBegin(key)
    PROVE  /\ OldPass => OldPass'
           /\ Ready => Ready'
           /\ (\A i \in 1..Len(entries) : entries[i].age = 0) =>
                 \A i \in 1..Len(entries') : entries'[i].age = 0
           /\ KeyFirst => KeyFirst'
           /\ Keyframes # {} => Keyframes' # {}
           /\ Joined /\ (entries = <<>> \/ NoLoss) => Joined'
           /\ Whole /\ NoLoss => Whole'
<1>1. UNCHANGED <<drain, cancelled, fresh>> /\ entries \in Seq(Frame) /\ drain.lag \in 0..MaxLag
  BY DEF TypeInv, ControllerTypeOK, PushStep, PushBegin, PushDirect, PushSlate, PushFlag, PushDrain,
         PushBuffer, PushWrite, Others, NotBuffered, history
<1>2. CASE Puts
  <2>1. /\ Len(entries') = Len(entries) + 1
        /\ \A i \in 1..Len(entries) : entries'[i] = entries[i]
        /\ entries'[Len(entries) + 1].age = 0
        /\ entries'[Len(entries) + 1].gap = hole
        /\ ~cancelled
    BY <1>2, PutsFrame
  <2>2. /\ OldPass => OldPass'
        /\ (\A i \in 1..Len(entries) : entries[i].age = 0) =>
              \A i \in 1..Len(entries') : entries'[i].age = 0
    BY <1>1, <2>1, ControllerAssumption DEF OldPass
  <2>3. entries # <<>> => entries' # <<>> /\ Head(entries') = Head(entries)
    BY <1>1, <1>2 DEF Puts
  <2>4. (Ready => Ready') /\ (KeyFirst => KeyFirst')
    BY <1>1, <2>1, <2>3 DEF Ready, KeyFirst
  <2>5. Keyframes # {} => Keyframes' # {}
    <3> SUFFICES ASSUME NEW i \in Keyframes PROVE i \in Keyframes'
      OBVIOUS
    <3>1. i \in 1..Len(entries) /\ entries[i].key
      BY <1>1 DEF Keyframes, KeyframesIn
    <3>2. i \in DOMAIN entries' /\ entries'[i].key
      BY <1>1, <1>2, <2>1, <3>1 DEF Puts
    <3> QED
      BY <3>2 DEF Keyframes, KeyframesIn
  <2>6. hole' = "none" /\ error' = error
    BY <1>2 DEF Puts
  <2>7. Joined => Joined'
    <3>1. CASE error
      BY <2>6, <3>1 DEF Joined
    <3>2. CASE ~error
      <4> SUFFICES ASSUME Joined, NEW i \in 2..Len(entries') PROVE entries'[i].gap # "loss"
        BY <2>6 DEF Joined
      <4>1. CASE i <= Len(entries)
        BY <1>1, <2>1, <3>2, <4>1 DEF Joined
      <4>2. CASE i = Len(entries) + 1
        BY <1>1, <2>1, <3>2, <4>2 DEF Joined
      <4> QED
        BY <1>1, <2>1, <4>1, <4>2
    <3> QED
      BY <3>1, <3>2
  <2>8. Whole => Whole'
    <3>1. CASE error
      BY <2>6, <3>1 DEF Whole
    <3>2. CASE ~error
      <4> SUFFICES ASSUME Whole, NEW i \in 1..Len(entries')
                   PROVE  entries'[i].gap # "loss" \/ (fresh' /\ i = 1)
        BY <2>6 DEF Whole
      <4>1. CASE i <= Len(entries)
        BY <1>1, <2>1, <3>2, <4>1 DEF Whole
      <4>2. CASE i = Len(entries) + 1
        BY <1>1, <2>1, <3>2, <4>2 DEF Whole
      <4> QED
        BY <1>1, <2>1, <4>1, <4>2
    <3> QED
      BY <3>1, <3>2
  <2> QED
    BY <2>2, <2>4, <2>5, <2>7, <2>8
<1>3. CASE Passes
  <2>1. entries' = entries /\ (error => error')
    BY <1>3 DEF Passes
  <2>2. /\ OldPass => OldPass'
        /\ Ready => Ready'
        /\ KeyFirst => KeyFirst'
    BY <1>1, <2>1 DEF OldPass, Ready, KeyFirst
  <2>3. Keyframes' = Keyframes
    BY <2>1 DEF Keyframes, KeyframesIn
  <2>4. NoLoss => error' \/ hole' = hole \/ hole' # "loss"
    BY <1>3 DEF Passes, NoLoss, Inward
  <2>5. Joined /\ (entries = <<>> \/ NoLoss) => Joined'
    BY <2>1, <2>4 DEF Joined
  <2>6. Whole /\ NoLoss => Whole'
    BY <1>1, <2>1, <2>4 DEF Whole
  <2> QED
    BY <2>1, <2>2, <2>3, <2>5, <2>6
<1> QED
  BY <1>2, <1>3, PushEffect

LEMMA PushPolicies ==
    ASSUME TypeInv, PushStep \/ \E key \in BOOLEAN : PushBegin(key)
    PROVE  /\ Onward /\ policy \in {"buffering_fill", "delayed"} => Onward'
           /\ Inward /\ policy \in {"buffering_fill", "slate", "delayed"} => Inward'
<1> USE DEF TypeInv, ControllerTypeOK, Onward, Inward
<1>1. ASSUME NEW key \in BOOLEAN, PushBegin(key) PROVE push'.at = "act" /\ push'.policy = policy
  BY <1>1 DEF PushBegin
<1>2. CASE PushDirect
  BY <1>2 DEF PushDirect, PushGoes
<1>3. CASE PushSlate
  BY <1>3 DEF PushSlate, PushGoes
<1>4. CASE PushFlag
  BY <1>4 DEF PushFlag, PushGoes
<1>5. CASE PushDrain
  BY <1>5 DEF PushDrain, PushGoes, Returns, Idle
<1>6. CASE PushBuffer
  BY <1>6 DEF PushBuffer, PushGoes, Returns, Idle
<1>7. CASE PushWrite
  BY <1>7 DEF PushWrite, Returns, Idle
<1> QED
  BY <1>1, <1>2, <1>3, <1>4, <1>5, <1>6, <1>7 DEF PushStep

(* A frame put in the empty ring of the fourth section leaves Push behind. *)
LEMMA PutsOnward ==
    ASSUME Puts
    PROVE  Onward'
  BY DEF Puts, Onward
-----------------------------------------------------------------------------
(* What the drain goroutine does to the ring.                              *)
DrainEffect ==
    /\ error => error'
    /\ \/ entries' = entries /\ fresh' = fresh
       \/ /\ drain.at = "pop" /\ drain'.at = "write"
          /\ entries # <<>> /\ entries' = Tail(entries) /\ fresh' = FALSE
    /\ UNCHANGED <<control, push, request, cancelled, hole>>

(* How it moves: a pass begins under the policy that lets it, keeps its    *)
(* lag, and pops what it has found due.                                    *)
DrainMove ==
    /\ drain'.at \in {"peek", "pop", "write"} =>
          \/ /\ drain.at \in {"peek", "pop", "write"}
             /\ drain'.policy = drain.policy /\ drain'.lag = drain.lag
          \/ /\ policy \in {"delayed", "drain_at_live"}
             /\ drain'.policy = policy /\ drain'.lag = 0 /\ entries' = entries
    /\ drain'.at = "pop" =>
          \/ drain'.policy = "drain_at_live" /\ policy = "drain_at_live"
          \/ /\ drain.at = "peek" /\ drain.policy = "delayed"
             /\ drain'.policy = "delayed" /\ drain'.lag = drain.lag
             /\ entries # <<>> /\ Head(entries).age - drain.lag >= Delay
             /\ entries' = entries

LEMMA DrainEffects ==
    ASSUME TypeInv, DrainStep \/ DrainExit
    PROVE  DrainEffect
<1> USE DEF DrainEffect, TypeInv, ControllerTypeOK, Rest, history, ring
<1>1. CASE DrainReady
  BY <1>1 DEF DrainReady
<1>2. CASE DrainPeek
  BY <1>2 DEF DrainPeek
<1>3. CASE DrainPop
  BY <1>3 DEF DrainPop, PopOldest, DrainGoes
<1>4. CASE DrainWrite
  BY <1>4 DEF DrainWrite
<1>5. CASE DrainExit
  BY <1>5 DEF DrainExit
<1> QED
  BY <1>1, <1>2, <1>3, <1>4, <1>5 DEF DrainStep

LEMMA DrainMoves ==
    ASSUME TypeInv, GoInv, DrainStep \/ DrainExit
    PROVE  DrainMove
<1> USE DEF DrainMove, TypeInv, ControllerTypeOK, ring
<1>1. CASE DrainReady
  BY <1>1 DEF DrainReady
<1>2. CASE DrainPeek
  <2>1. drain.at = "peek" /\ drain.policy = "delayed" /\ drain.delay = Delay /\ entries' = entries
    BY <1>2 DEF DrainPeek, GoInv
  <2>2. CASE entries # <<>> /\ Due(Head(entries)) /\ DrainGoes("pop")
    BY <2>1, <2>2 DEF Due, DrainGoes
  <2>3. CASE DrainIdle
    BY <2>3 DEF DrainIdle
  <2> QED
    BY <1>2, <2>2, <2>3 DEF DrainPeek
<1>3. CASE DrainPop
  BY <1>3 DEF DrainPop, DrainGoes, DrainIdle
<1>4. CASE DrainWrite
  BY <1>4 DEF DrainWrite, DrainGoes, DrainIdle
<1>5. CASE DrainExit
  BY <1>5 DEF DrainExit, DrainGoes
<1> QED
  BY <1>1, <1>2, <1>3, <1>4, <1>5 DEF DrainStep

(* What it keeps of the promises about the ring.                           *)
LEMMA DrainOutput ==
    ASSUME TypeInv, GoInv, DrainStep \/ DrainExit
    PROVE  /\ Joined => Joined'
           /\ Whole => Whole'
           /\ drain.at # "pop" \/ entries = <<>> => entries' = entries /\ fresh' = fresh
           /\ KeyInv => KeyInv'
           /\ policy = "delayed" /\ Ready => Ready'
           /\ OldPass /\ (policy \in {"delayed", "drain_at_live"} =>
                             \A i \in 1..Len(entries) : entries[i].age = 0)
                => OldPass'
           /\ OldPass /\ policy \in {"buffering_fill", "slate"} /\ drain.at # "pop" =>
                 drain'.at # "pop"
           /\ (\A i \in 1..Len(entries) : entries[i].age = 0) =>
                 \A i \in 1..Len(entries') : entries'[i].age = 0
<1>effect. DrainEffect
  BY DrainEffects
<1>move. DrainMove
  BY DrainMoves
<1>1. entries \in Seq(Frame) /\ drain.lag \in 0..MaxLag
  BY DEF TypeInv, ControllerTypeOK
<1>2. entries # <<>> /\ entries' = Tail(entries) =>
        Len(entries') = Len(entries) - 1 /\ \A i \in 1..Len(entries') : entries'[i] = entries[i + 1]
  BY <1>1
<1>3. Joined => Joined'
  <2>1. CASE entries' = entries
    BY <1>effect, <2>1 DEF DrainEffect, Joined
  <2>2. CASE entries # <<>> /\ entries' = Tail(entries)
    <3> SUFFICES ASSUME Joined, ~error PROVE Joined'
      BY <1>effect DEF DrainEffect, Joined
    <3>1. hole' # "loss"
      BY <1>effect, <2>2 DEF DrainEffect, Joined
    <3>2. \A i \in 1..Len(entries') : entries'[i].gap # "loss"
      BY <1>1, <1>2, <2>2 DEF Joined
    <3> QED
      BY <1>1, <2>2, <3>1, <3>2 DEF Joined
  <2> QED
    BY <1>effect, <2>1, <2>2 DEF DrainEffect
<1>4. Whole => Whole'
  <2>1. CASE entries' = entries /\ fresh' = fresh
    BY <1>effect, <2>1 DEF DrainEffect, Whole
  <2>2. CASE entries # <<>> /\ entries' = Tail(entries)
    <3> SUFFICES ASSUME Whole, ~error PROVE Whole'
      BY <1>effect DEF DrainEffect, Whole
    <3>1. hole' # "loss" \/ cancelled'
      BY <1>effect DEF DrainEffect, Whole
    <3>2. \A i \in 1..Len(entries') : entries'[i].gap # "loss"
      BY <1>1, <1>2, <2>2 DEF Whole
    <3> QED
      BY <3>1, <3>2 DEF Whole
  <2> QED
    BY <1>effect, <2>1, <2>2 DEF DrainEffect
<1>5. KeyInv => KeyInv'
  BY <1>effect DEF DrainEffect, KeyInv, KeyFirst, control
<1>6. policy = "delayed" /\ Ready => Ready'
  <2> SUFFICES ASSUME policy = "delayed", drain'.at = "pop" PROVE Ready'
    BY DEF Ready
  <2>1. /\ drain'.policy = "delayed" /\ drain'.lag = drain.lag
        /\ entries # <<>> /\ Head(entries).age - drain.lag >= Delay /\ entries' = entries
    BY <1>move DEF DrainMove
  <2> QED
    BY <2>1 DEF Ready
<1>7. OldPass /\ (policy \in {"delayed", "drain_at_live"} =>
                     \A i \in 1..Len(entries) : entries[i].age = 0)
        => OldPass'
  <2> SUFFICES ASSUME OldPass, drain'.at \in {"peek", "pop", "write"}, drain'.policy = "delayed",
                      policy \in {"delayed", "drain_at_live"} =>
                          \A i \in 1..Len(entries) : entries[i].age = 0,
                      NEW i \in 1..Len(entries')
               PROVE  entries'[i].age <= drain'.lag
    BY DEF OldPass
  <2>1. CASE drain.at \in {"peek", "pop", "write"} /\ drain'.policy = drain.policy
               /\ drain'.lag = drain.lag
    <3>1. \A j \in 1..Len(entries) : entries[j].age <= drain'.lag
      BY <2>1 DEF OldPass
    <3>2. entries' = entries \/ (entries # <<>> /\ entries' = Tail(entries))
      BY <1>effect DEF DrainEffect
    <3> QED
      BY <1>1, <1>2, <3>1, <3>2
  <2>2. CASE policy \in {"delayed", "drain_at_live"} /\ drain'.lag = 0 /\ entries' = entries
    BY <2>2
  <2> QED
    BY <1>move, <2>1, <2>2 DEF DrainMove
<1>8. OldPass /\ policy \in {"buffering_fill", "slate"} /\ drain.at # "pop" => drain'.at # "pop"
  <2> SUFFICES ASSUME OldPass, drain.at = "peek", entries # <<>>, drain.policy = "delayed",
                      Head(entries).age - drain.lag >= Delay
               PROVE  FALSE
    <3> SUFFICES ASSUME policy \in {"buffering_fill", "slate"}, drain'.at = "pop"
                 PROVE  /\ drain.at = "peek" /\ entries # <<>> /\ drain.policy = "delayed"
                        /\ Head(entries).age - drain.lag >= Delay
      OBVIOUS
    <3> QED
      BY <1>move DEF DrainMove
  <2>1. Head(entries).age <= drain.lag /\ Head(entries).age \in Nat
    <3>1. 1 \in 1..Len(entries) /\ Head(entries) = entries[1]
      BY <1>1
    <3>2. entries[1].age <= drain.lag
      BY <3>1 DEF OldPass
    <3>3. entries[1].age \in 0..MaxAge /\ MaxAge \in Nat
      <4>1. entries[1] \in Frame
        BY <1>1, <3>1
      <4> QED
        BY <4>1, ControllerAssumption DEF Frame, MaxAge
    <3> QED
      BY <3>1, <3>2, <3>3
  <2> QED
    BY <1>1, <2>1, ControllerAssumption
<1>9. (\A i \in 1..Len(entries) : entries[i].age = 0) =>
         \A i \in 1..Len(entries') : entries'[i].age = 0
  BY <1>effect, <1>1, <1>2 DEF DrainEffect
<1>10. drain.at # "pop" \/ entries = <<>> => entries' = entries /\ fresh' = fresh
  BY <1>effect DEF DrainEffect
<1> QED
  BY <1>10, <1>3, <1>4, <1>5, <1>6, <1>7, <1>8, <1>9
-----------------------------------------------------------------------------
(* The place in a sequence is the same for both invariants.                *)
LEMMA FillPlace ==
    ASSUME EmptyInv, NEW n \in 1..15, Left(EnableDelay, n)
    PROVE  EnableStage(n) /\ mode = "BUSY" /\ todo # <<>> /\ todo[Len(todo)] = "DELAYED"
<1>1. todo # <<>> /\ Len(todo) = 15 - n + 1 /\ todo[Len(todo)] = EnableDelay[15]
  BY EnableSequence DEF Left
<1>2. todo[Len(todo)] = "DELAYED"
  BY <1>1, EnableSections
<1>3. ASSUME NEW m \in 1..15, Left(EnableDelay, m) PROVE m = n
  BY <1>1, <1>3, EnableSequence DEF Left
<1>4. ASSUME NEW m \in 1..15, Left(ReturnLive, m) PROVE FALSE
  <2>1. todo[Len(todo)] = ReturnLive[15]
    BY <1>1, <1>4, ReturnSequence DEF Left
  <2> QED
    BY <1>2, <2>1, ReturnSections
<1>5. ASSUME NEW m \in 1..16, Left(DumpBuffer, m) PROVE FALSE
  <2>1. todo[Len(todo)] = DumpBuffer[16]
    <3>1. m - 1 + Len(todo) = 16 /\ Len(todo) \in 1..Len(todo)
      BY <1>1, <1>5, DumpSequence DEF Left
    <3>2. todo[Len(todo)] = DumpBuffer[m - 1 + Len(todo)]
      BY <1>5, <3>1 DEF Left
    <3> QED
      BY <3>1, <3>2
  <2> QED
    BY <1>2, <2>1, DumpSections
<1> QED
  BY <1>1, <1>2, <1>3, <1>4, <1>5 DEF EmptyInv, Rests

LEMMA BusyWhileRunning == EmptyInv /\ todo # <<>> => mode = "BUSY"
  BY DEF EmptyInv, Rests

LEMMA AtRest == EmptyInv /\ todo = <<>> => Rests
<1> SUFFICES ASSUME EmptyInv, todo = <<>> PROVE Rests
  OBVIOUS
<1>1. Len(todo) = 0
  OBVIOUS
<1> QED
  BY <1>1, EnableSequence, ReturnSequence, DumpSequence DEF EmptyInv, Left

(* A step of Push, in each stage and at rest.                              *)
LEMMA PushStage ==
    ASSUME TypeInv, LiveInv, GoInv, EmptyInv, StageInv,
           PushStep \/ \E key \in BOOLEAN : PushBegin(key)
    PROVE  StageInv'
<1>1. /\ UNCHANGED <<request, control>>
      /\ Unbuffered => Direct' /\ (entries = <<>> => entries' = <<>>)
      /\ Calm => Calm'
  BY PushQuiet DEF Calm, control
<1>2. /\ UNCHANGED <<drain, cancelled>>
      /\ \A s, n : Left(s, n) => Left(s, n)'
  BY <1>1 DEF PushStep, PushBegin, PushDirect, PushSlate, PushFlag, PushDrain, PushBuffer, PushWrite,
              Others, request, Left
<1>3. Unbuffered => Unbuffered'
  BY <1>1 DEF Unbuffered, control
<1>4. Delayed /\ policy = "delayed" => Delayed'
  <2> SUFFICES ASSUME Delayed, policy = "delayed" PROVE Delayed'
    OBVIOUS
  <2>1. NoLoss
    BY DEF Delayed, NoLoss, Switching
  <2> QED
    BY <2>1, PushOutput, PushPolicies DEF Delayed
<1>5. RestStage => RestStage'
  BY <1>1, <1>4, PushPolicies DEF RestStage, control, request
<1>6. ASSUME NEW n \in 1..15, Left(EnableDelay, n), FillStage(n) PROVE FillStage(n)'
  <2>1. EnableStage(n)
    BY <1>6, FillPlace
  <2>2. FillControl(n)'
    BY <1>1, <1>6 DEF FillStage, FillControl, control
  <2>3. n = 4 => entries' = <<>> \/ Onward'
    <3> SUFFICES ASSUME n = 4 PROVE entries' = <<>> \/ Onward'
      OBVIOUS
    <3>1. policy = "buffering_fill" /\ (entries = <<>> \/ Onward)
      BY <1>6 DEF FillStage, FillControl, FillPush
    <3>2. CASE Onward
      BY <3>1, <3>2, PushPolicies
    <3>3. CASE entries = <<>>
      BY <3>3, PushEffect, PutsOnward DEF Passes
    <3> QED
      BY <3>1, <3>2, <3>3
  <2>4. n <= 3 => Unbuffered' \/ (policy' = "delayed" /\ Onward')
    BY <1>1, <1>3, <1>6, PushPolicies DEF FillStage, FillPush, control
  <2>5. n = 3 => entries' = <<>> \/ policy' = "delayed"
    BY <1>1, <1>6 DEF FillStage, FillPush, control
  <2>6. n \in 5..7 => Onward'
    BY <1>6, PushPolicies DEF FillStage, FillControl, FillPush
  <2>7. n \in 8..12 => Inward'
    BY <1>6, PushPolicies DEF FillStage, FillControl, FillPush
  <2>8. n \in 3..12 => entries = <<>> \/ NoLoss
    <3>1. Onward => NoLoss
      BY DEF Onward, NoLoss, Inward
    <3>2. n = 3 => entries = <<>> \/ Onward
      BY <1>6 DEF FillStage, FillPush, Unbuffered
    <3>3. n \in 8..10 => NoLoss
      BY <1>6 DEF FillStage, FillControl, FillPush, NoLoss
    <3>4. n \in 11..12 => NoLoss
      BY <1>6 DEF FillStage, FillControl, FillPush, NoLoss, Switching
    <3> QED
      BY <1>6, <3>1, <3>2, <3>3, <3>4 DEF FillStage, FillPush
  <2>9. FillRing(n)'
    <3>1. n >= 13 => policy = "delayed"
      BY <2>1 DEF EnableStage
    <3> QED
      BY <1>2, <1>4, <1>6, <2>8, <3>1, PushOutput DEF FillStage, FillRing
  <2> QED
    BY <2>2, <2>3, <2>4, <2>5, <2>6, <2>7, <2>9 DEF FillStage, FillPush
<1>7. \A n \in 1..16 : LastStage(n) => LastStage(n)'
  BY <1>1 DEF LastStage, control
<1> QED
  BY <1>1, <1>2, <1>5, <1>6, <1>7 DEF StageInv, control, request

(* A step of the drain goroutine.                                          *)
LEMMA DrainStage ==
    ASSUME TypeInv, LiveInv, GoInv, EmptyInv, StageInv, DrainStep \/ DrainExit
    PROVE  StageInv'
<1>1. UNCHANGED <<control, push, request, cancelled, hole>>
  BY DrainEffects DEF DrainEffect
<1>2. \A s, n : Left(s, n) => Left(s, n)'
  BY <1>1 DEF request, Left
<1>3. /\ Onward => Onward'
      /\ Inward => Inward'
      /\ entries = <<>> => entries' = <<>>
      /\ Unbuffered => Unbuffered'
  BY <1>1, DrainTakes DEF Onward, Inward, Unbuffered, Calm, Direct, control
<1>4. Delayed /\ policy = "delayed" => Delayed'
  BY <1>3, DrainOutput DEF Delayed
<1>5. RestStage => RestStage'
  BY <1>1, <1>3, <1>4 DEF RestStage, control, request
<1>6. ASSUME NEW n \in 1..15, Left(EnableDelay, n), FillStage(n) PROVE FillStage(n)'
  <2>1. EnableStage(n)
    BY <1>6, FillPlace
  <2>2. FillControl(n)'
    BY <1>1, <1>6 DEF FillStage, FillControl, control
  <2>3. FillPush(n)'
    BY <1>1, <1>3, <1>6 DEF FillStage, FillPush, control
  <2>4. n \in 4..12 => policy \in {"buffering_fill", "slate"}
    BY <1>6 DEF FillStage, FillControl
  <2>5. n \in 3..12 => OldPass' /\ Joined'
    <3>1. n \in 3..12 => (policy \in {"delayed", "drain_at_live"} =>
                             \A i \in 1..Len(entries) : entries[i].age = 0)
      BY <1>6, <2>4 DEF FillStage, FillRing
    <3> QED
      BY <1>6, <3>1, DrainOutput DEF FillStage, FillRing
  <2>6. n \in 5..12 => drain'.at # "pop" /\ entries' = entries
    BY <1>6, <2>4, DrainOutput DEF FillStage, FillRing
  <2>7. n \in 9..11 => cancelled' \/ Keyframes' # {}
    BY <1>1, <1>6, <2>6 DEF FillStage, FillRing, Keyframes, KeyframesIn
  <2>8. n = 12 => KeyFirst'
    BY <1>1, <1>6, <2>6 DEF FillStage, FillRing, KeyFirst
  <2>9. n >= 13 => Delayed'
    BY <1>4, <1>6, <2>1 DEF FillStage, FillRing, EnableStage
  <2>10. n = 3 => \A i \in 1..Len(entries') : entries'[i].age = 0
    BY <1>6, DrainOutput DEF FillStage, FillRing
  <2> QED
    BY <2>2, <2>3, <2>5, <2>6, <2>7, <2>8, <2>9, <2>10 DEF FillStage, FillRing
<1>7. \A n \in 1..16 : LastStage(n) => LastStage(n)'
  BY <1>1 DEF LastStage, control
<1> QED
  BY <1>1, <1>2, <1>5, <1>6, <1>7 DEF StageInv, control, request

(* The end of the pipeline, and the passing of time.                       *)
LEMMA OutsideStage ==
    ASSUME StageInv, UNCHANGED <<request, control>>,
           Onward => Onward', Inward => Inward', Unbuffered => Unbuffered',
           entries = <<>> => entries' = <<>>,
           Delayed => Delayed',
           \A n \in 1..15 : Left(EnableDelay, n) /\ FillRing(n) => FillRing(n)'
    PROVE  StageInv'
<1>1. \A s, n : Left(s, n) => Left(s, n)'
  BY DEF request, Left
<1>2. RestStage => RestStage'
  BY DEF RestStage, control, request
<1>3. \A n \in 1..15 : FillControl(n) => FillControl(n)'
  BY DEF FillControl, control
<1>4. \A n \in 1..15 : FillPush(n) => FillPush(n)'
  BY DEF FillPush, control
<1>5. \A n \in 1..15 : Left(EnableDelay, n) /\ FillStage(n) => FillStage(n)'
  BY <1>3, <1>4 DEF FillStage
<1>6. \A n \in 1..16 : LastStage(n) => LastStage(n)'
  BY DEF LastStage, control
<1> QED
  BY <1>1, <1>2, <1>5, <1>6 DEF StageInv, control, request

LEMMA StopStage ==
    ASSUME TypeInv, GoInv, StageInv, Stop \/ Stopped
    PROVE  StageInv'
<1> USE DEF TypeInv, ControllerTypeOK
<1>1. CASE Stop
  <2>1. /\ UNCHANGED <<entries, control, drain, request, error, hole, fresh>>
        /\ push'.at = "stopping" /\ cancelled'
    BY <1>1 DEF Stop, PushGoes, ring, history
  <2>2. /\ Onward' /\ Inward'
        /\ Unbuffered => Unbuffered'
        /\ Delayed => Delayed'
    BY <2>1 DEF Onward, Inward, Unbuffered, Calm, Direct, control, Delayed, Ready, Whole
  <2>3. \A n \in 1..15 : FillRing(n) => FillRing(n)'
    BY <2>1, <2>2 DEF FillRing, OldPass, Joined, KeyFirst
  <2> QED
    BY <2>1, <2>2, <2>3, OutsideStage
<1>2. CASE Stopped
  <2>1. /\ UNCHANGED <<control, drain, request, error, fresh, cancelled>>
        /\ entries' = <<>> /\ push'.at = "stopped" /\ cancelled /\ drain.at = "gone"
    BY <1>2 DEF Stopped, Clear, PushGoes, Others, GoInv
  <2>2. /\ Onward' /\ Inward'
        /\ Unbuffered => Unbuffered'
        /\ Delayed'
    BY <2>1 DEF Onward, Inward, Unbuffered, Calm, Direct, control, Delayed, Ready, Whole
  <2>3. \A n \in 1..15 : FillRing(n) => FillRing(n)'
    BY <2>1, <2>2 DEF FillRing, OldPass, Joined, KeyFirst
  <2> QED
    BY <2>1, <2>2, <2>3, OutsideStage
<1> QED
  BY <1>1, <1>2

LEMMA TickStage ==
    ASSUME TypeInv, GoInv, StageInv, Tick
    PROVE  StageInv'
<1> USE DEF TypeInv, ControllerTypeOK
<1>1. /\ Len(entries') = Len(entries) /\ entries' \in Seq(Frame) /\ entries \in Seq(Frame)
      /\ \A i \in 1..Len(entries) : entries'[i] = Older(entries[i])
  BY TickAges
<1>2. \A i \in 1..Len(entries) :
         /\ entries'[i].key = entries[i].key /\ entries'[i].gap = entries[i].gap
         /\ entries[i].age \in 0..MaxAge
         /\ entries'[i].age = IF entries[i].age < MaxAge THEN entries[i].age + 1 ELSE MaxAge
  <2> SUFFICES ASSUME NEW i \in 1..Len(entries)
               PROVE  /\ entries'[i].key = entries[i].key /\ entries'[i].gap = entries[i].gap
                      /\ entries[i].age \in 0..MaxAge
                      /\ entries'[i].age =
                            IF entries[i].age < MaxAge THEN entries[i].age + 1 ELSE MaxAge
    OBVIOUS
  <2>1. entries[i] \in Frame
    BY <1>1
  <2>2. entries[i].age \in 0..MaxAge
    BY <2>1 DEF Frame
  <2> QED
    BY <1>1, <2>1, <2>2, OlderType
<1>3. UNCHANGED <<control, push, request, cancelled, error, hole, fresh>>
  BY DEF Tick, history
<1>4. /\ drain.at \notin {"peek", "pop"} /\ drain'.at = drain.at /\ drain'.policy = drain.policy
      /\ drain.at = "write" => drain'.lag = drain.lag + 1
  BY DEF Tick
<1>5. entries = <<>> => entries' = <<>>
  BY <1>1
<1>6. /\ Onward => Onward'
      /\ Inward => Inward'
      /\ Unbuffered => Unbuffered'
  BY <1>3 DEF Onward, Inward, Unbuffered, Calm, Direct, control
<1>7. Joined => Joined'
  <2> SUFFICES ASSUME Joined, ~error
               PROVE  /\ \A i \in 2..Len(entries') : entries'[i].gap # "loss"
                      /\ hole' = "loss" => entries' = <<>>
    BY <1>3 DEF Joined
  <2>1. \A i \in 2..Len(entries) : entries[i].gap # "loss" /\ i \in 1..Len(entries)
    BY DEF Joined
  <2>2. hole = "loss" => entries = <<>>
    BY DEF Joined
  <2> QED
    BY <1>1, <1>2, <1>3, <1>5, <2>1, <2>2
<1>8. Whole => Whole'
  <2> SUFFICES ASSUME Whole, ~error
               PROVE  /\ \A i \in 1..Len(entries') : entries'[i].gap # "loss" \/ (fresh' /\ i = 1)
                      /\ hole' # "loss" \/ cancelled'
    BY <1>3 DEF Whole
  <2>1. \A i \in 1..Len(entries) : entries[i].gap # "loss" \/ (fresh /\ i = 1)
    BY DEF Whole
  <2>2. hole # "loss" \/ cancelled
    BY DEF Whole
  <2> QED
    BY <1>1, <1>2, <1>3, <2>1, <2>2
<1>9. Delayed => Delayed'
  BY <1>4, <1>6, <1>8 DEF Delayed, Ready
<1>10. OldPass => OldPass'
  <2> SUFFICES ASSUME OldPass, drain.at = "write", drain.policy = "delayed", NEW i \in 1..Len(entries)
               PROVE  entries'[i].age <= drain'.lag
    BY <1>1, <1>4 DEF OldPass
  <2>1. entries[i].age <= drain.lag /\ drain.lag \in Nat /\ MaxAge \in Nat
    BY ControllerAssumption DEF OldPass, MaxAge
  <2> QED
    BY <1>2, <1>4, <2>1
<1>11. Keyframes' = Keyframes
  BY <1>1, <1>2 DEF Keyframes, KeyframesIn
<1>12. KeyFirst => KeyFirst'
  BY <1>1, <1>2, <1>3 DEF KeyFirst
<1>13. ASSUME NEW n \in 1..15, Left(EnableDelay, n), FillRing(n) PROVE FillRing(n)'
  <2>1. n # 3
    <3> SUFFICES ASSUME n = 3 PROVE FALSE
      OBVIOUS
    <3>1. todo # <<>> /\ Head(todo) = "buffering_fill"
      BY <1>13, EnableSequence, EnableSections, LeftStep
    <3> QED
      BY <3>1 DEF Tick
  <2> QED
    BY <1>3, <1>4, <1>7, <1>9, <1>10, <1>11, <1>12, <1>13, <2>1 DEF FillRing
<1> QED
  BY <1>3, <1>5, <1>6, <1>9, <1>13, OutsideStage
-----------------------------------------------------------------------------
(* What a section of an operation does to the ring and to the control, as  *)
(* far as SectionEffect does not say it.                                   *)
RingEffect ==
    LET s == Head(todo) IN
    /\ UNCHANGED World
    /\ s \notin {"clear", "drop"} => entries' = entries
    /\ s = "clear" => entries' = <<>> /\ fresh' = FALSE
    /\ s = "drop" => DropUntilVideoKeyframe /\ racy' = racy
    /\ s # "clear" => hole' = hole
    /\ s = "delayed" => fresh' = TRUE
    /\ s \notin {"clear", "delayed"} => fresh' = fresh
    /\ delay' = IF s = "target" THEN Delay ELSE IF s = "untarget" THEN 0 ELSE delay
    /\ s = "buffer" => slateBuffersInput' = TRUE
    /\ s = "unbuffer" /\ slateBuffersInput = TRUE => racy' = TRUE
    /\ s = "filled" => cancelled \/ KeyframeAge >= Delay
    /\ s = "sleep" => (drain.at \in {"peek", "pop"} => drain.policy = policy)

LEMMA RingEffects ==
    ASSUME TypeInv, OpStep
    PROVE  RingEffect
<1> USE DEF RingEffect, Run, control, history, ring, Policy
<1>1. CASE SetTargetDelay
  BY <1>1 DEF SetTargetDelay
<1>2. CASE SetPolicy
  <2>1. PICK to \in Policy : Run(to) /\ policy' = to /\ fresh' = (fresh \/ to = "delayed")
    BY <1>2 DEF SetPolicy
  <2>2. UNCHANGED <<ring, delay, World, hole>>
    BY <1>2 DEF SetPolicy
  <2>3. fresh' = IF to = "delayed" THEN TRUE ELSE fresh
    BY <2>1, Zenon DEF TypeInv, ControllerTypeOK
  <2> QED
    BY <2>1, <2>2, <2>3
<1>3. CASE SetSlateBuffersInput
  <2>1. slateBuffersInput' = (Head(todo) = "buffer") /\ Head(todo) \in {"buffer", "unbuffer"}
    BY <1>3 DEF SetSlateBuffersInput
  <2>2. UNCHANGED <<ring, delay, World, history>>
    BY <1>3 DEF SetSlateBuffersInput
  <2>3. Head(todo) = "unbuffer" /\ slateBuffersInput = TRUE => racy' = TRUE
    <3>1. racy' = (racy \/ slateBuffersInput' # slateBuffersInput)
      BY <1>3 DEF SetSlateBuffersInput
    <3> QED
      BY <2>1, <3>1
  <2> QED
    BY <2>1, <2>2, <2>3
<1>4. CASE ClearRing
  BY <1>4 DEF ClearRing, Clear
<1>5. CASE Drop
  BY <1>5 DEF Drop
<1>6. CASE Wait
  BY <1>6 DEF Wait
<1>7. CASE Sleep
  BY <1>7 DEF Sleep
<1>8. CASE Checks
  BY <1>8 DEF Checks
<1>9. CASE Finish
  BY <1>9 DEF Finish
<1> QED
  BY <1>1, <1>2, <1>3, <1>4, <1>5, <1>6, <1>7, <1>8, <1>9 DEF OpStep

(* Dropping up to a keyframe keeps the end of the ring.                    *)
LEMMA DropOutput ==
    ASSUME TypeInv, DropUntilVideoKeyframe, UNCHANGED <<World, hole>>
    PROVE  /\ OldPass => OldPass'
           /\ Joined => Joined'
           /\ cancelled \/ Keyframes # {} => KeyFirst'
<1> DEFINE k == FirstKeyframe
<1>1. entries \in Seq(Frame)
  BY DEF TypeInv, ControllerTypeOK
<1>2. /\ k \in 1..(Len(entries) + 1)
      /\ Keyframes # {} => k \in Keyframes /\ entries[k].key
      /\ Keyframes = {} => k = Len(entries) + 1
  BY <1>1, FirstKeyframeIs
<1>3. entries' = SubSeq(entries, k, Len(entries))
  BY DEF DropUntilVideoKeyframe
<1> HIDE DEF k
<1>4. /\ Len(entries') = Len(entries) - k + 1
      /\ \A i \in 1..Len(entries') : entries'[i] = entries[i + k - 1]
  BY <1>1, <1>2, <1>3
<1>5. UNCHANGED <<drain, cancelled, error>>
  BY DEF World
<1>6. OldPass => OldPass'
  BY <1>1, <1>2, <1>4, <1>5 DEF OldPass
<1>7. Joined => Joined'
  <2> SUFFICES ASSUME Joined, ~error
               PROVE  /\ \A i \in 2..Len(entries') : entries'[i].gap # "loss"
                      /\ hole' = "loss" => entries' = <<>>
    BY <1>5 DEF Joined
  <2>1. \A i \in 2..Len(entries) : entries[i].gap # "loss"
    BY DEF Joined
  <2>2. hole = "loss" => entries = <<>>
    BY DEF Joined
  <2>3. \A i \in 2..Len(entries') : entries'[i].gap # "loss"
    BY <1>1, <1>2, <1>4, <2>1
  <2> QED
    BY <2>2, <2>3, DropEmpty
<1>8. ASSUME Keyframes # {} PROVE KeyFirst'
  <2>1. k \in 1..Len(entries) /\ entries[k].key
    BY <1>1, <1>2, <1>8 DEF Keyframes, KeyframesIn
  <2>2. Len(entries') >= 1 /\ entries'[1].key
    <3>1. 1 \in 1..Len(entries') /\ 1 + k - 1 = k
      BY <1>1, <1>4, <2>1
    <3>2. entries'[1] = entries[k]
      BY <1>4, <3>1
    <3> QED
      BY <2>1, <3>1, <3>2
  <2>3. entries' # <<>> /\ Head(entries').key
    <3>1. entries' \in Seq(Frame)
      BY <1>1, <1>2, <1>3
    <3> QED
      BY <2>2, <3>1
  <2> QED
    BY <2>3 DEF KeyFirst
<1>9. ASSUME Keyframes = {}, cancelled PROVE KeyFirst'
  <2>1. entries' = <<>>
    BY <1>1, <1>2, <1>3, <1>9
  <2> QED
    BY <1>5, <1>9, <2>1 DEF KeyFirst
<1> QED
  BY <1>6, <1>7, <1>8, <1>9
-----------------------------------------------------------------------------
(* The sections of EnableDelay.                                            *)
LEMMA FillNext ==
    ASSUME NEW n \in 1..15, Left(EnableDelay, n)
    PROVE  /\ todo # <<>> /\ Head(todo) = EnableDelay[n]
           /\ todo' = Tail(todo) =>
                 IF n = 15 THEN todo' = <<>> ELSE Left(EnableDelay, n + 1)'
<1>1. n \in 1..Len(EnableDelay)
  BY EnableSequence
<1> QED
  BY <1>1, EnableSequence, LeftStep

LEMMA FillControlSteps ==
    ASSUME TypeInv, OpStep, NEW n \in 1..14, Left(EnableDelay, n), FillControl(n)
    PROVE  FillControl(n + 1)'
<1>1. Head(todo) = EnableDelay[n]
  <2>1. n \in 1..15
    OBVIOUS
  <2> QED
    BY <2>1, FillNext
<1>2. SectionEffect /\ RingEffect
  BY SectionEffects, RingEffects
<1> USE <1>1, EnableSections DEF FillControl
<1>3. n + 1 >= 2 => delay' = Delay
  BY <1>2 DEF RingEffect
<1>4. n + 1 \in 4..7 => policy' = "buffering_fill"
  BY <1>2 DEF SectionEffect, Policy
<1>5. n + 1 \in 8..12 => policy' = "slate"
  BY <1>2 DEF SectionEffect, Policy
<1>6. n + 1 \in 7..10 => slateBuffersInput' = TRUE
  BY <1>2 DEF SectionEffect, RingEffect
<1>7. n + 1 \in 8..10 => racy' = FALSE
  BY <1>2 DEF SectionEffect, Policy
<1>8. n + 1 \in 11..12 => racy' = TRUE
  BY <1>2 DEF RingEffect
<1> QED
  BY <1>3, <1>4, <1>5, <1>6, <1>7, <1>8

LEMMA FillPushSteps ==
    ASSUME TypeInv, LiveInv, OpStep, NEW n \in 1..14, Left(EnableDelay, n),
           EnableStage(n), FillControl(n), FillPush(n)
    PROVE  FillPush(n + 1)'
<1>1. Head(todo) = EnableDelay[n]
  <2>1. n \in 1..15
    OBVIOUS
  <2> QED
    BY <2>1, FillNext
<1>2. SectionEffect /\ RingEffect
  BY SectionEffects, RingEffects
<1>3. push' = push /\ (Onward => Onward') /\ (Inward => Inward') /\ (Direct => Direct')
  BY <1>2 DEF RingEffect, World, Onward, Inward, Direct
<1>4. n \in 1..2 => policy' = policy /\ (Calm => Calm')
  BY <1>1, <1>2, <1>3, EnableSections DEF SectionEffect, Calm, Policy
<1>5. n + 1 <= 3 => Unbuffered' \/ (policy' = "delayed" /\ Onward')
  BY <1>3, <1>4 DEF FillPush, Unbuffered
<1>6. n + 1 = 3 => entries' = <<>>
  BY <1>1, <1>2, EnableSections DEF RingEffect
<1>7. n + 1 = 4 => entries' = <<>> \/ Onward'
  <2> SUFFICES ASSUME n = 3 PROVE entries' = <<>> \/ Onward'
    OBVIOUS
  <2>1. entries' = entries
    BY <1>1, <1>2, EnableSections DEF RingEffect
  <2>2. entries = <<>> \/ Onward
    BY DEF FillPush, Unbuffered
  <2> QED
    BY <1>3, <2>1, <2>2
<1>8. n + 1 \in 5..7 => Onward'
  <2>1. CASE n = 4
    <3>1. push.at \in {"act", "flag", "buffer"} => push.policy = policy
      BY <1>1, <1>2, <2>1, EnableSections DEF SectionEffect
    <3>2. policy = "buffering_fill"
      BY <2>1 DEF FillControl
    <3> QED
      BY <1>3, <3>1, <3>2 DEF Onward, LiveInv, PushShape
  <2>2. CASE n \in 5..7
    BY <1>3, <2>2 DEF FillPush
  <2> QED
    BY <2>1, <2>2
<1>9. n + 1 \in 8..12 => Inward'
  <2>1. Onward => Inward
    BY DEF Onward, Inward
  <2> QED
    BY <1>3, <2>1 DEF FillPush
<1> QED
  BY <1>5, <1>6, <1>7, <1>8, <1>9 DEF FillPush

LEMMA FillRingSteps ==
    ASSUME TypeInv, GoInv, OpStep, NEW n \in 1..14, Left(EnableDelay, n),
           EnableStage(n), FillControl(n), FillPush(n), FillRing(n)
    PROVE  FillRing(n + 1)'
<1>1. Head(todo) = EnableDelay[n]
  <2>1. n \in 1..15
    OBVIOUS
  <2> QED
    BY <2>1, FillNext
<1>2. SectionEffect /\ RingEffect
  BY SectionEffects, RingEffects
<1>3. UNCHANGED World
  BY <1>2 DEF RingEffect
<1>4. n \notin {2, 11} => entries' = entries /\ hole' = hole
  BY <1>1, <1>2, EnableSections DEF RingEffect
<1>5. n = 2 => entries' = <<>>
  BY <1>1, <1>2, EnableSections DEF RingEffect
<1>6. n = 11 => DropUntilVideoKeyframe /\ hole' = hole
  BY <1>1, <1>2, EnableSections DEF RingEffect
<1>7. n + 1 = 3 => \A i \in 1..Len(entries') : entries'[i].age = 0
  BY <1>5
<1>8. n + 1 \in 3..12 => OldPass' /\ Joined'
  <2>1. CASE n = 2
    BY <1>5, <2>1 DEF OldPass, Joined
  <2>2. CASE n \in 3..10
    BY <1>3, <1>4, <2>2 DEF FillRing, OldPass, Joined, World
  <2>3. CASE n = 11
    BY <1>3, <1>6, <2>3, DropOutput DEF FillRing
  <2> QED
    BY <2>1, <2>2, <2>3
<1>9. n + 1 \in 5..12 => drain'.at # "pop"
  <2>1. CASE n = 4
    <3>1. drain.at \in {"peek", "pop"} => drain.policy = policy
      BY <1>1, <1>2, <2>1, EnableSections DEF RingEffect
    <3>2. policy = "buffering_fill"
      BY <2>1 DEF FillControl
    <3> QED
      BY <1>3, <3>1, <3>2 DEF GoInv, World
  <2>2. CASE n \in 5..11
    BY <1>3, <2>2 DEF FillRing, World
  <2> QED
    BY <2>1, <2>2
<1>10. n + 1 \in 9..11 => cancelled' \/ Keyframes' # {}
  <2>1. Keyframes' = Keyframes \/ n \in {2, 11}
    BY <1>4 DEF Keyframes, KeyframesIn
  <2>2. n = 8 => cancelled \/ Keyframes # {}
    <3> SUFFICES ASSUME n = 8, Keyframes = {}, ~cancelled PROVE FALSE
      OBVIOUS
    <3>1. KeyframeAge = 0 /\ KeyframeAge >= Delay
      BY <1>1, <1>2, EnableSections DEF RingEffect, KeyframeAge
    <3> QED
      BY <3>1, ControllerAssumption
  <2> QED
    BY <1>3, <2>1, <2>2 DEF FillRing, World
<1>11. n + 1 = 12 => KeyFirst'
  BY <1>3, <1>6, DropOutput DEF FillRing
<1>12. n = 12 => Delayed'
  <2> SUFFICES ASSUME n = 12 PROVE Delayed'
    OBVIOUS
  <2>1. Ready' /\ Inward'
    BY <1>3 DEF FillPush, FillRing, Ready, Inward, World
  <2>2. fresh' = TRUE
    BY <1>1, <1>2, EnableSections DEF RingEffect
  <2>3. Joined /\ KeyFirst /\ entries' = entries /\ hole' = hole
    BY <1>4 DEF FillRing
  <2>4. entries \in Seq(Frame)
    BY DEF TypeInv, ControllerTypeOK
  <2>5. Whole'
    BY <1>3, <2>2, <2>3, <2>4 DEF Whole, Joined, KeyFirst, World
  <2> QED
    BY <2>1, <2>5 DEF Delayed
<1>13. n \in 13..14 => Delayed'
  <2>1. n \in 13..14 => fresh' = fresh
    BY <1>1, <1>2, EnableSections DEF RingEffect
  <2> QED
    BY <1>3, <1>4, <2>1 DEF FillRing, Delayed, Ready, Inward, Whole, World
<1> QED
  BY <1>7, <1>8, <1>9, <1>10, <1>11, <1>12, <1>13 DEF FillRing

(* An operation keeps the first keyframe and the delay of a delayed output.*)
LEMMA OpDelay ==
    ASSUME TypeInv, OpStep, KeyInv, DelayInv,
           Head(todo) = "drop" => policy # "delayed",
           Head(todo) = "untarget" => policy # "delayed",
           Head(todo) = "delayed" => KeyFirst /\ delay = Delay
    PROVE  KeyInv' /\ DelayInv'
<1>1. SectionEffect /\ RingEffect
  BY SectionEffects, RingEffects
<1>2. DelayInv'
  BY <1>1 DEF SectionEffect, RingEffect, DelayInv, Policy
<1>3. KeyInv'
  <2> SUFFICES ASSUME fresh', policy' = "delayed" PROVE KeyFirst'
    BY DEF KeyInv
  <2>1. Head(todo) # "clear" /\ (Head(todo) # "delayed" => policy = "delayed" /\ fresh)
    BY <1>1 DEF SectionEffect, RingEffect, Policy
  <2>2. entries' = entries /\ cancelled' = cancelled
    BY <1>1, <2>1 DEF RingEffect, World
  <2>3. KeyFirst
    BY <2>1 DEF KeyInv
  <2> QED
    BY <2>2, <2>3 DEF KeyFirst
<1> QED
  BY <1>2, <1>3

LEMMA FillOps ==
    ASSUME TypeInv, LiveInv, GoInv, EmptyInv, KeyInv, DelayInv, OpStep,
           NEW n \in 1..15, Left(EnableDelay, n), FillStage(n)
    PROVE  KeyInv' /\ DelayInv' /\ StageInv'
<1>1. Head(todo) = EnableDelay[n] /\ todo # <<>>
  BY FillNext
<1>2. SectionEffect /\ RingEffect
  BY SectionEffects, RingEffects
<1>3. EnableStage(n) /\ mode = "BUSY"
  BY FillPlace
<1>4. KeyInv' /\ DelayInv'
  BY <1>1, EnableSections, OpDelay DEF FillStage, FillControl, FillRing
<1>5. n \in {5, 9, 13, 15} =>
        /\ entries' = entries /\ policy' = policy /\ UNCHANGED World
        /\ hole' = hole /\ fresh' = fresh
  BY <1>1, <1>2, EnableSections DEF SectionEffect, RingEffect, Policy
<1>6. n \in {13, 15} => Delayed'
  BY <1>5 DEF FillStage, FillRing, Delayed, Ready, Inward, Whole, World
<1>7. CASE todo' = <<>> /\ Head(todo) \in {"check", "apply"}
  <2>1. n \in {5, 9, 13}
    BY <1>1, <1>7, EnableSections
  <2>2. mode' = "BUSY"
    BY <1>2, <1>3, <1>7 DEF SectionEffect
  <2>3. n \in {5, 9} => policy # "delayed"
    BY DEF FillStage, FillControl
  <2>4. RestStage'
    BY <1>5, <1>6, <2>1, <2>2, <2>3 DEF RestStage
  <2> QED
    BY <1>4, <1>7, <2>4 DEF StageInv
<1>8. CASE todo' = Tail(todo) /\ n = 15
  <2>1. todo' = <<>>
    BY <1>8, FillNext
  <2>2. mode' \in {"BUSY", "DELAYED"}
    BY <1>1, <1>2, <1>3, <1>8, EnableSections DEF SectionEffect
  <2>3. RestStage'
    BY <1>6, <1>8, <2>2 DEF RestStage
  <2> QED
    BY <1>4, <2>1, <2>3 DEF StageInv
<1>9. CASE todo' = Tail(todo) /\ n # 15
  <2>1. n \in 1..14 /\ n + 1 \in 1..15
    BY <1>9
  <2>2. Left(EnableDelay, n + 1)'
    BY <1>9, FillNext
  <2>3. FillStage(n + 1)'
    BY <1>3, <2>1, FillControlSteps, FillPushSteps, FillRingSteps DEF FillStage
  <2> QED
    BY <1>4, <2>1, <2>2, <2>3 DEF StageInv
<1> QED
  BY <1>2, <1>7, <1>8, <1>9 DEF SectionEffect

LEMMA ReturnOps ==
    ASSUME TypeInv, EmptyInv, KeyInv, DelayInv, OpStep,
           NEW n \in 1..15, Left(ReturnLive, n), n >= 2 => policy # "delayed", LastStage(n)
    PROVE  KeyInv' /\ DelayInv' /\ StageInv'
<1>1. n \in 1..Len(ReturnLive)
  BY ReturnSequence
<1>2. todo # <<>> /\ Head(todo) = ReturnLive[n]
  BY <1>1, ReturnSequence, LeftStep
<1>3. SectionEffect
  BY SectionEffects
<1>4. KeyInv' /\ DelayInv'
  BY <1>2, ReturnSections, OpDelay
<1>5. policy' # "delayed"
  BY <1>2, <1>3, ReturnSections DEF SectionEffect, Policy
<1>6. n >= 12 => policy' = "passthrough"
  BY <1>2, <1>3, ReturnSections DEF SectionEffect, Policy, LastStage
<1>7. mode = "BUSY"
  BY <1>2, BusyWhileRunning
<1>8. CASE todo' = <<>> /\ Head(todo) \in {"check", "apply"}
  <2>1. mode' = "BUSY"
    BY <1>3, <1>7, <1>8 DEF SectionEffect
  <2> QED
    BY <1>4, <1>5, <1>8, <2>1 DEF StageInv, RestStage
<1>9. CASE todo' = Tail(todo) /\ n = 15
  <2>1. todo' = <<>>
    BY <1>1, <1>9, ReturnSequence, LeftStep
  <2> QED
    BY <1>4, <1>5, <1>6, <1>9, <2>1 DEF StageInv, RestStage
<1>10. CASE todo' = Tail(todo) /\ n # 15
  <2>1. n + 1 \in 1..15
    BY <1>10
  <2>2. Left(ReturnLive, n + 1)'
    BY <1>1, <1>10, ReturnSequence, LeftStep
  <2>3. LastStage(n + 1)'
    BY <1>6 DEF LastStage
  <2> QED
    BY <1>4, <1>5, <2>1, <2>2, <2>3 DEF StageInv
<1> QED
  BY <1>3, <1>8, <1>9, <1>10 DEF SectionEffect

LEMMA DumpOps ==
    ASSUME TypeInv, EmptyInv, KeyInv, DelayInv, OpStep,
           NEW n \in 1..16, Left(DumpBuffer, n), n >= 4 => policy # "delayed", LastStage(n)
    PROVE  KeyInv' /\ DelayInv' /\ StageInv'
<1>1. n \in 1..Len(DumpBuffer)
  BY DumpSequence
<1>2. todo # <<>> /\ Head(todo) = DumpBuffer[n]
  BY <1>1, DumpSequence, LeftStep
<1>3. SectionEffect
  BY SectionEffects
<1>4. KeyInv' /\ DelayInv'
  BY <1>2, DumpSections, OpDelay
<1>5. n >= 3 => policy' # "delayed"
  <2>1. Head(todo) # "delayed" /\ (n = 3 => Head(todo) = "slate")
    BY <1>2, DumpSections
  <2>2. policy' = Head(todo) \/ (policy' = policy /\ Head(todo) \notin Policy)
    BY <1>3 DEF SectionEffect
  <2> QED
    BY <2>1, <2>2 DEF Policy
<1>6. n >= 12 => policy' = "passthrough"
  <2>1. CASE n = 12
    <3>1. Head(todo) = "passthrough"
      BY <1>2, <2>1, DumpSections
    <3> QED
      BY <1>3, <3>1 DEF SectionEffect, Policy
  <2>2. CASE n \in 13..16
    <3>1. Head(todo) \in {"clear", "check", "sleep", "REALTIME"}
      BY <1>2, <2>2, DumpSections
    <3>2. policy' = policy
      BY <1>3, <3>1 DEF SectionEffect, Policy
    <3> QED
      BY <2>2, <3>2 DEF LastStage
  <2> QED
    BY <2>1, <2>2
<1>7. mode = "BUSY"
  BY <1>2, BusyWhileRunning
<1>8. CASE todo' = <<>> /\ Head(todo) \in {"check", "apply"}
  <2>1. mode' = "BUSY" /\ n >= 3
    BY <1>2, <1>3, <1>7, <1>8, DumpSections DEF SectionEffect
  <2> QED
    BY <1>4, <1>5, <1>8, <2>1 DEF StageInv, RestStage
<1>9. CASE todo' = Tail(todo) /\ n = 16
  <2>1. todo' = <<>>
    BY <1>1, <1>9, DumpSequence, LeftStep
  <2> QED
    BY <1>4, <1>5, <1>6, <1>9, <2>1 DEF StageInv, RestStage
<1>10. CASE todo' = Tail(todo) /\ n # 16
  <2>1. n + 1 \in 1..16
    BY <1>10
  <2>2. Left(DumpBuffer, n + 1)'
    BY <1>1, <1>10, DumpSequence, LeftStep
  <2>3. LastStage(n + 1)'
    BY <1>6 DEF LastStage
  <2> QED
    BY <1>4, <1>5, <2>1, <2>2, <2>3 DEF StageInv
<1> QED
  BY <1>3, <1>8, <1>9, <1>10 DEF SectionEffect
-----------------------------------------------------------------------------
(* A request begins an operation: from live output, or from a delayed one. *)
LEMMA StartStage ==
    ASSUME TypeInv, EmptyInv, StageInv, Start
    PROVE  StageInv'
<1>1. todo = <<>> /\ mode \in {"REALTIME", "DELAYED"}
  BY DEF Start
<1>2. Rests
  BY <1>1, AtRest
<1>3. RestStage
  BY <1>1, EnableSequence, ReturnSequence, DumpSequence DEF StageInv, Left
<1>4. UNCHANGED <<entries, push, drain, policy, slateBuffersInput, racy>>
  BY DEF Start, control, World, ring
<1>5. CASE mode = "REALTIME" /\ todo' = EnableDelay
  <2>1. Unbuffered \/ (policy = "delayed" /\ Onward)
    BY <1>2, <1>3, <1>5 DEF Rests, RestStage
  <2>2. Unbuffered' \/ (policy' = "delayed" /\ Onward')
    BY <1>4, <2>1 DEF Unbuffered, Calm, Direct, Onward
  <2>3. FillStage(1)'
    BY <2>2 DEF FillStage, FillControl, FillPush, FillRing
  <2>4. Left(EnableDelay, 1)'
    BY <1>5, EnableSequence, LeftStart
  <2> QED
    BY <2>3, <2>4 DEF StageInv
<1>6. CASE todo' = ReturnLive
  <2>1. Left(ReturnLive, 1)'
    BY <1>6, ReturnSequence, LeftStart
  <2> QED
    BY <2>1 DEF StageInv, LastStage
<1>7. CASE todo' = DumpBuffer
  <2>1. Left(DumpBuffer, 1)'
    BY <1>7, DumpSequence, LeftStart
  <2> QED
    BY <2>1 DEF StageInv, LastStage
<1> QED
  BY <1>5, <1>6, <1>7 DEF Start

(* Outside the operation's own sections the ring keeps its first keyframe. *)
LEMMA KeyOutside ==
    ASSUME KeyInv, DelayInv, UNCHANGED <<control, fresh>>, KeyFirst => KeyFirst'
    PROVE  KeyInv' /\ DelayInv'
  BY DEF KeyInv, DelayInv, control

(* A tick ages the frames and leaves them where they are.                  *)
LEMMA TickKey ==
    ASSUME TypeInv, Tick, KeyFirst
    PROVE  KeyFirst'
<1>1. /\ Len(entries') = Len(entries) /\ entries' \in Seq(Frame) /\ entries \in Seq(Frame)
      /\ \A i \in 1..Len(entries) : entries'[i] = Older(entries[i])
  BY TickAges DEF TypeInv, ControllerTypeOK
<1>2. cancelled' = cancelled
  BY DEF Tick
<1>3. CASE entries = <<>>
  BY <1>1, <1>2, <1>3 DEF KeyFirst
<1>4. CASE entries # <<>>
  <2>1. 1 \in 1..Len(entries) /\ entries' # <<>>
    BY <1>1, <1>4
  <2>2. entries[1] \in Frame /\ entries'[1] = Older(entries[1])
    BY <1>1, <2>1
  <2>3. entries'[1].key = entries[1].key
    BY <2>2, OlderType
  <2> QED
    BY <1>1, <1>4, <2>1, <2>3 DEF KeyFirst
<1> QED
  BY <1>3, <1>4

LEMMA OutputStart == ControllerInit => OutputInv
<1> SUFFICES ASSUME ControllerInit PROVE OutputInv
  OBVIOUS
<1>1. push = Idle /\ cancelled = FALSE /\ drain.at = "idle" /\ drain.policy = "passthrough"
  BY DEF ControllerInit
<1>2. GoInv
  BY <1>1 DEF GoInv, Idle, NoFrame
<1>3. DelayInv
  BY DEF ControllerInit, DelayInv
<1>4. fresh = FALSE /\ entries = <<>> /\ hole = "none" /\ todo = <<>>
  BY DEF ControllerInit, RingInit
<1>5. policy \in {"delayed", "passthrough"}
  BY DEF ControllerInit
<1>6. Onward /\ Inward
  BY <1>1 DEF Onward, Inward, Idle
<1>7. Delayed
  BY <1>1, <1>4, <1>6 DEF Delayed, Ready, Whole
<1>8. StageInv
  BY <1>4, <1>5, <1>6, <1>7 DEF StageInv, RestStage
<1> QED
  BY <1>2, <1>3, <1>4, <1>8 DEF OutputInv, KeyInv

LEMMA OutputStep ==
    TypeInv /\ LiveInv /\ EmptyInv /\ OutputInv /\ [ControllerNext]_cvars => OutputInv'
<1> SUFFICES ASSUME TypeInv, LiveInv, EmptyInv, OutputInv, [ControllerNext]_cvars PROVE OutputInv'
  OBVIOUS
<1>1. GoInv /\ DelayInv /\ KeyInv /\ StageInv
  BY DEF OutputInv
<1>2. GoInv'
  BY <1>1, GoStep
<1> SUFFICES KeyInv' /\ DelayInv' /\ StageInv'
  BY <1>2 DEF OutputInv
<1>3. CASE PushStep \/ \E key \in BOOLEAN : PushBegin(key)
  <2>1. UNCHANGED <<control, fresh>>
    BY <1>3 DEF PushStep, PushBegin, PushDirect, PushSlate, PushFlag, PushDrain, PushBuffer, PushWrite,
                Others, NotBuffered, history
  <2>2. KeyFirst => KeyFirst'
    BY <1>1, <1>3, PushOutput
  <2> QED
    BY <1>1, <1>3, <2>1, <2>2, KeyOutside, PushStage
<1>4. CASE DrainStep \/ DrainExit
  <2>1. UNCHANGED control
    BY <1>4, DrainTakes
  <2>2. DelayInv'
    BY <1>1, <2>1 DEF DelayInv, control
  <2>3. KeyInv'
    BY <1>1, <1>4, DrainOutput
  <2> QED
    BY <1>1, <1>4, <2>2, <2>3, DrainStage
<1>5. CASE Stop \/ Stopped
  <2>1. UNCHANGED <<control, fresh>>
    BY <1>5 DEF Stop, Stopped, Others, history
  <2>2. cancelled' /\ (entries' = entries \/ entries' = <<>>)
    BY <1>1, <1>5 DEF Stop, Stopped, Others, Clear, GoInv, ring
  <2>3. KeyFirst => KeyFirst'
    BY <2>2 DEF KeyFirst
  <2> QED
    BY <1>1, <1>5, <2>1, <2>3, KeyOutside, StopStage
<1>6. CASE Start
  <2>1. UNCHANGED <<control, fresh, entries, cancelled>>
    BY <1>6 DEF Start, World, history, ring
  <2>2. KeyInv' /\ DelayInv'
    BY <1>1, <2>1, KeyOutside DEF KeyFirst
  <2> QED
    BY <1>1, <1>6, <2>2, StartStage
<1>7. CASE OpStep
  <2>1. todo # <<>>
    BY <1>7 DEF OpStep, SetTargetDelay, SetPolicy, SetSlateBuffersInput, ClearRing, Drop, Wait,
                Sleep, Checks, Finish, Run
  <2>2. ASSUME NEW n \in 1..15, Left(EnableDelay, n), FillStage(n)
        PROVE  KeyInv' /\ DelayInv' /\ StageInv'
    BY <1>1, <1>7, <2>2, FillOps
  <2>3. ASSUME NEW n \in 1..15, Left(ReturnLive, n), n >= 2 => policy # "delayed", LastStage(n)
        PROVE  KeyInv' /\ DelayInv' /\ StageInv'
    BY <1>1, <1>7, <2>3, ReturnOps
  <2>4. ASSUME NEW n \in 1..16, Left(DumpBuffer, n), n >= 4 => policy # "delayed", LastStage(n)
        PROVE  KeyInv' /\ DelayInv' /\ StageInv'
    BY <1>1, <1>7, <2>4, DumpOps
  <2> QED
    BY <1>1, <2>1, <2>2, <2>3, <2>4 DEF StageInv
<1>8. CASE Tick
  <2>1. UNCHANGED <<control, fresh, cancelled>>
    BY <1>8 DEF Tick, history
  <2>2. KeyFirst => KeyFirst'
    BY <1>8, <2>1, TickKey
  <2> QED
    BY <1>1, <1>8, <2>1, <2>2, KeyOutside, TickStage
<1>9. CASE UNCHANGED cvars
  <2>1. UNCHANGED <<control, request, push, drain, entries, cancelled, error, hole, fresh>>
    BY <1>9 DEF cvars, ring, history
  <2>2. KeyInv' /\ DelayInv'
    BY <1>1, <2>1, KeyOutside DEF KeyFirst
  <2>3. /\ Onward => Onward'
        /\ Inward => Inward'
        /\ Unbuffered => Unbuffered'
        /\ Delayed => Delayed'
    BY <2>1 DEF Onward, Inward, Unbuffered, Calm, Direct, control, Delayed, Ready, Whole
  <2>4. \A n \in 1..15 : FillRing(n) => FillRing(n)'
    BY <2>1, <2>3 DEF FillRing, OldPass, Joined, KeyFirst, Keyframes, KeyframesIn
  <2> QED
    BY <1>1, <2>1, <2>2, <2>3, <2>4, OutsideStage
<1> QED
  BY <1>3, <1>4, <1>5, <1>6, <1>7, <1>8, <1>9 DEF ControllerNext
-----------------------------------------------------------------------------
(* Once the sequence of EnableDelay has changed the policy, and at rest,   *)
(* the stages say of a delayed output what is promised of it.              *)
LEMMA SettledIsDelayed ==
    ASSUME StageInv, Settled
    PROVE  Delayed
<1>1. policy = "delayed" /\ \A i \in 1..Len(todo) : todo \in Seq(Section) =>
         todo[i] \in {"check", "sleep", "DELAYED"}
  BY DEF Settled, Range
<1>2. CASE todo = <<>> /\ RestStage
  BY <1>1, <1>2 DEF RestStage
<1>3. ASSUME NEW n \in 1..15, Left(EnableDelay, n), FillStage(n) PROVE Delayed
  <2>1. n \notin 1..12
    <3> SUFFICES ASSUME n \in 1..12 PROVE FALSE
      OBVIOUS
    <3>1. 13 - n \in 1..Len(todo) /\ todo[13 - n] = EnableDelay[12] /\ todo \in Seq(Section)
      BY <1>3, EnableSequence DEF Left
    <3> QED
      BY <1>1, <3>1, EnableSections
  <2> QED
    BY <1>3, <2>1 DEF FillStage, FillRing
<1>4. ASSUME NEW n \in 1..15, Left(ReturnLive, n) PROVE FALSE
  <2>1. 16 - n \in 1..Len(todo) /\ todo[16 - n] = ReturnLive[15] /\ todo \in Seq(Section)
    BY <1>4, ReturnSequence DEF Left
  <2> QED
    BY <1>1, <2>1, ReturnSections
<1>5. ASSUME NEW n \in 1..16, Left(DumpBuffer, n) PROVE FALSE
  <2>1. 17 - n \in 1..Len(todo) /\ todo[17 - n] = DumpBuffer[16] /\ todo \in Seq(Section)
    BY <1>5, DumpSequence DEF Left
  <2> QED
    BY <1>1, <2>1, DumpSections
<1> QED
  BY <1>2, <1>3, <1>4, <1>5 DEF StageInv

DelayedInv == TypeInv /\ LiveInv /\ EmptyInv /\ OutputInv

LEMMA DelayedStart == ControllerInit => DelayedInv
  BY TypeStart, LiveStart, EmptyStart, OutputStart DEF DelayedInv

LEMMA DelayedStep == DelayedInv /\ [ControllerNext]_cvars => DelayedInv'
  BY TypeStep, LiveStep, EmptyStep, OutputStep DEF DelayedInv

(* In every run, for any capacity, delay and lag of the drain goroutine,   *)
(* no frame of a delayed output leaves the ring before its delay: not even *)
(* when the requests before emptied the ring between the peek of a pass    *)
(* and its pop.                                                            *)
THEOREM DelayIsKept == ControllerSpec => NeverEarly
<1>1. DelayedInv => (Takes /\ Settled => Head(entries).age >= delay)
  <2> SUFFICES ASSUME DelayedInv, Takes, Settled PROVE Head(entries).age >= delay
    OBVIOUS
  <2>1. Ready /\ drain.at = "pop" /\ entries # <<>> /\ delay = Delay
    BY SettledIsDelayed DEF DelayedInv, OutputInv, DelayInv, Delayed, Settled, Takes, DrainPop
  <2>2. entries \in Seq(Frame) /\ drain.lag \in 0..MaxLag
    BY DEF DelayedInv, TypeInv, ControllerTypeOK
  <2>3. Head(entries).age \in 0..MaxAge
    <3>1. Head(entries) \in Frame
      BY <2>1, <2>2
    <3> QED
      BY <3>1 DEF Frame
  <2> QED
    BY <2>1, <2>2, <2>3, ControllerAssumption DEF Ready, MaxAge
<1>2. DelayedInv /\ [ControllerNext]_cvars => [Takes /\ Settled => Head(entries).age >= delay]_cvars
  BY <1>1
<1> QED
  BY <1>2, DelayedStart, DelayedStep, PTL DEF ControllerSpec, NeverEarly

(* The delayed output starts with a keyframe, whatever Push put in the     *)
(* ring since the sequence dropped what came before one.                   *)
THEOREM KeyframeComesFirst == ControllerSpec => StartsAtKeyframe
<1>1. DelayedInv => (Takes /\ fresh /\ policy = "delayed" => Head(entries).key)
  BY DEF DelayedInv, OutputInv, KeyInv, KeyFirst, Takes
<1>2. DelayedInv /\ [ControllerNext]_cvars =>
         [Takes /\ fresh /\ policy = "delayed" => Head(entries).key]_cvars
  BY <1>1
<1> QED
  BY <1>2, DelayedStart, DelayedStep, PTL DEF ControllerSpec, StartsAtKeyframe

(* Between the first frame of a delayed output and its last nothing was    *)
(* lost without an error, the frames of the fill and of the slate          *)
(* included, but for those of the moment BeginDelayedOutput leaves open.   *)
THEOREM NothingIsLost == ControllerSpec => NoSilentGap
<1>1. DelayedInv => (Takes /\ Settled /\ ~fresh => Head(entries).gap # "loss" \/ error)
  <2> SUFFICES ASSUME DelayedInv, Takes, Settled, ~fresh, ~error PROVE Head(entries).gap # "loss"
    OBVIOUS
  <2>1. Whole /\ entries # <<>> /\ entries \in Seq(Frame)
    BY SettledIsDelayed DEF DelayedInv, OutputInv, Delayed, Takes, TypeInv, ControllerTypeOK
  <2>2. 1 \in 1..Len(entries) /\ Head(entries) = entries[1]
    BY <2>1
  <2> QED
    BY <2>1, <2>2 DEF Whole
<1>2. DelayedInv /\ [ControllerNext]_cvars =>
         [Takes /\ Settled /\ ~fresh => Head(entries).gap # "loss" \/ error]_cvars
  BY <1>1
<1> QED
  BY <1>2, DelayedStart, DelayedStep, PTL DEF ControllerSpec, NoSilentGap
=============================================================================
