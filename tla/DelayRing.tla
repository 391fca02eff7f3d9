------------------------------ MODULE DelayRing ------------------------------
(***************************************************************************)
(* The delay buffer of a pipeline (internal/buffer/ring.go): a FIFO of     *)
(* media frames, bounded in bytes.  Every method holds r.mu throughout and *)
(* is one action here.                                                     *)
(*                                                                         *)
(* A frame is [key, age, gap]: whether it is a video keyframe, how many    *)
(* ticks ago it was enqueued (saturating), and what is missing between it  *)
(* and the frame before it, which only properties look at.                 *)
(***************************************************************************)
EXTENDS Integers, SequencesExt, FiniteSetsExt

CONSTANTS Capacity,    \* capacityBytes
          KeyBytes     \* size of a keyframe; other frames have size 1

ASSUME RingAssumption == KeyBytes \in 1..Capacity /\ Capacity \in Nat

VARIABLES entries, usedBytes

ring == <<entries, usedBytes>>

ByteSize(f) == IF f.key THEN KeyBytes ELSE 1

KeyframesIn(s) == {i \in DOMAIN s : s[i].key}

(* A byte for each frame, and what a keyframe has more.                    *)
Bytes(s) == Len(s) + (KeyBytes - 1) * Cardinality(KeyframesIn(s))

RingInit == entries = <<>> /\ usedBytes = 0

(* Mutant: the frame's own size is not counted.                           *)
Fits_AnyRoom(f) == usedBytes < Capacity

(* Otherwise Push returns ErrBufferOverflow or ErrFrameTooLarge.           *)
Fits(f) == usedBytes + ByteSize(f) <= Capacity

RingPush(f) ==
    /\ Fits(f)
    /\ entries' = Append(entries, f)
    /\ usedBytes' = usedBytes + ByteSize(f)

PopOldest ==
    /\ entries # <<>>
    /\ entries' = Tail(entries)
    /\ usedBytes' = Max({0, usedBytes - ByteSize(Head(entries))})

Clear == entries' = <<>> /\ usedBytes' = 0

Keyframes == KeyframesIn(entries)

FirstKeyframe == IF Keyframes = {} THEN Len(entries) + 1 ELSE Min(Keyframes)

(* Mutant: the dropped frames still count as used.                         *)
DropUntilVideoKeyframe_KeepsBytes ==
    /\ entries' = SubSeq(entries, FirstKeyframe, Len(entries))
    /\ UNCHANGED usedBytes

DropUntilVideoKeyframe ==
    /\ entries' = SubSeq(entries, FirstKeyframe, Len(entries))
    /\ usedBytes' = Max({0, usedBytes - Bytes(SubSeq(entries, 1, FirstKeyframe - 1))})

(* ActiveKeyframeDelayDuration, before it is capped at the target.         *)
KeyframeAge == IF Keyframes = {} THEN 0 ELSE entries[FirstKeyframe].age
-----------------------------------------------------------------------------
(* The bytes in use are those of the frames in the ring, within capacity:  *)
(* what Push refuses and what the status API reports depend on it.         *)
Accounted == usedBytes = Bytes(entries) /\ usedBytes <= Capacity
=============================================================================
