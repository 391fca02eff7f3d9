--------------------------- MODULE DelayRing_proofs ---------------------------
(***************************************************************************)
(* What the ring's methods do to its bytes, for rings of every capacity    *)
(* and frames of every kind: what is pushed, popped or dropped is counted  *)
(* exactly, so the clamp at zero in ring.go never bites.                   *)
(***************************************************************************)
EXTENDS DelayRing, FiniteSetTheorems, SequenceTheorems, TLAPS

(* The least element of a set of naturals, and the greater of two numbers. *)
LEMMA MinIs ==
    ASSUME NEW S \in SUBSET Nat, S # {}
    PROVE  Min(S) \in S /\ \A i \in S : Min(S) <= i
<1> DEFINE Below == {1..i : i \in S}
<1>1. Below \subseteq FiniteSubsetsOf(Nat) /\ Below # {}
  <2>1. \A i \in S : 1..i \in SUBSET Nat /\ IsFiniteSet(1..i)
    BY FS_Interval
  <2> QED
    BY <2>1 DEF FiniteSubsetsOf
<1>2. PICK B \in Below : \A C \in Below : <<C, B>> \notin StrictSubsetOrdering(Nat)
  <2>1. IsWellFoundedOn(StrictSubsetOrdering(Nat), FiniteSubsetsOf(Nat))
    BY FS_StrictSubsetOrderingWellFounded
  <2> HIDE DEF Below
  <2> QED
    BY <1>1, <2>1, WFMin
<1>3. PICK m \in S : B = 1..m
  OBVIOUS
<1>4. ASSUME NEW i \in S PROVE m <= i
  <2> SUFFICES ASSUME i < m PROVE FALSE
    BY <1>4
  <2>1. 1..i \subseteq 1..m /\ m \in 1..m /\ m \notin 1..i
    OBVIOUS
  <2>2. <<1..i, 1..m>> \in StrictSubsetOrdering(Nat)
    BY <2>1 DEF StrictSubsetOrdering
  <2> QED
    BY <1>2, <1>3, <2>2
<1> QED
  BY <1>4 DEF Min

LEMMA MaxWithZero ==
    ASSUME NEW n \in Int
    PROVE  Max({0, n}) = IF n < 0 THEN 0 ELSE n
  BY DEF Max

LEMMA Distributes ==
    ASSUME NEW k \in Int, NEW m \in Int, NEW n \in Int
    PROVE  k * (m + n) = k * m + k * n /\ k * m \in Int /\ k * n \in Int
  OBVIOUS

LEMMA KeyframesFinite ==
    ASSUME NEW F, NEW s \in Seq(F)
    PROVE  IsFiniteSet(KeyframesIn(s)) /\ Cardinality(KeyframesIn(s)) \in Nat
<1>1. IsFiniteSet(1..Len(s))
  BY FS_Interval
<1>2. KeyframesIn(s) \in SUBSET (1..Len(s))
  BY DEF KeyframesIn
<1> QED
  BY <1>1, <1>2, FS_Subset, FS_CardinalityType

(* Keyframes of the two parts of a sequence.                               *)
LEMMA KeyframesSplit ==
    ASSUME NEW F, NEW s \in Seq(F), NEW k \in 1..(Len(s) + 1)
    PROVE  Cardinality(KeyframesIn(s)) =
              Cardinality(KeyframesIn(SubSeq(s, 1, k - 1)))
                + Cardinality(KeyframesIn(SubSeq(s, k, Len(s))))
<1> DEFINE front == SubSeq(s, 1, k - 1)
           back  == SubSeq(s, k, Len(s))
           shift == [i \in KeyframesIn(back) |-> i + k - 1]
           moved == {i \in KeyframesIn(s) : i >= k}
<1>1. front \in Seq(F) /\ Len(front) = k - 1 /\ \A i \in 1..(k - 1) : front[i] = s[i]
  OBVIOUS
<1>2. back \in Seq(F) /\ Len(back) = Len(s) - k + 1
         /\ \A i \in 1..Len(back) : back[i] = s[i + k - 1]
  OBVIOUS
<1> HIDE DEF front, back
<1>3. KeyframesIn(s) = KeyframesIn(front) \cup moved
  BY <1>1 DEF KeyframesIn
<1>4. KeyframesIn(front) \cap moved = {}
  BY <1>1 DEF KeyframesIn
<1>5. shift \in Bijection(KeyframesIn(back), moved)
  <2>1. shift \in [KeyframesIn(back) -> moved]
    BY <1>2 DEF KeyframesIn
  <2>2. \A i, j \in KeyframesIn(back) : shift[i] = shift[j] => i = j
    BY <1>2 DEF KeyframesIn
  <2>3. \A m \in moved : \E i \in KeyframesIn(back) : shift[i] = m
    <3> TAKE m \in moved
    <3>1. m \in 1..Len(s) /\ m >= k /\ s[m].key
      BY DEF KeyframesIn
    <3>2. m - k + 1 \in 1..Len(back) /\ back[m - k + 1] = s[m]
      BY <1>2, <3>1
    <3>3. m - k + 1 \in KeyframesIn(back)
      BY <1>2, <3>1, <3>2 DEF KeyframesIn
    <3>4. shift[m - k + 1] = m
      BY <3>1, <3>3
    <3> QED
      BY <3>3, <3>4
  <2> QED
    BY <2>1, <2>2, <2>3 DEF Bijection, Injection, Surjection, IsInjective
<1>6. Cardinality(moved) = Cardinality(KeyframesIn(back)) /\ IsFiniteSet(moved)
  BY <1>2, <1>5, KeyframesFinite, FS_Bijection DEF ExistsBijection
<1>7. IsFiniteSet(KeyframesIn(front)) /\ Cardinality(KeyframesIn(front)) \in Nat
  BY <1>1, KeyframesFinite
<1>8. Cardinality(moved) \in Nat /\ Cardinality({}) = 0
  BY <1>6, FS_CardinalityType, FS_EmptySet
<1>9. Cardinality(KeyframesIn(s)) =
        Cardinality(KeyframesIn(front)) + Cardinality(moved) - Cardinality({})
  <2> HIDE DEF moved
  <2> QED
    BY <1>3, <1>4, <1>6, <1>7, FS_Union
<1> QED
  BY <1>6, <1>7, <1>8, <1>9 DEF front, back

LEMMA BytesType ==
    ASSUME NEW F, NEW s \in Seq(F)
    PROVE  Bytes(s) \in Nat /\ Bytes(s) >= Len(s)
<1>1. Cardinality(KeyframesIn(s)) \in Nat
  BY KeyframesFinite
<1>2. KeyBytes - 1 \in Nat
  BY RingAssumption
<1>3. ASSUME NEW m \in Nat, NEW n \in Nat PROVE m * n \in Nat
  BY <1>3
<1> QED
  BY <1>1, <1>2, <1>3 DEF Bytes

LEMMA BytesSplit ==
    ASSUME NEW F, NEW s \in Seq(F), NEW k \in 1..(Len(s) + 1)
    PROVE  Bytes(s) = Bytes(SubSeq(s, 1, k - 1)) + Bytes(SubSeq(s, k, Len(s)))
<1> DEFINE front == SubSeq(s, 1, k - 1)
           back  == SubSeq(s, k, Len(s))
           m     == Cardinality(KeyframesIn(front))
           n     == Cardinality(KeyframesIn(back))
<1>1. front \in Seq(F) /\ Len(front) = k - 1
  OBVIOUS
<1>2. back \in Seq(F) /\ Len(back) = Len(s) - k + 1
  OBVIOUS
<1>3. Cardinality(KeyframesIn(s)) = m + n
  BY KeyframesSplit
<1>4. m \in Nat /\ n \in Nat
  BY <1>1, <1>2, KeyframesFinite
<1> HIDE DEF front, back, m, n
<1>5. (KeyBytes - 1) * (m + n) = (KeyBytes - 1) * m + (KeyBytes - 1) * n
         /\ (KeyBytes - 1) * m \in Int /\ (KeyBytes - 1) * n \in Int
  <2>1. KeyBytes - 1 \in Int
    BY RingAssumption
  <2> QED
    BY <1>4, <2>1, Distributes
<1>6. Bytes(front) = Len(front) + (KeyBytes - 1) * m
  BY DEF Bytes, m
<1>7. Bytes(back) = Len(back) + (KeyBytes - 1) * n
  BY DEF Bytes, n
<1>8. Bytes(s) = Len(s) + (KeyBytes - 1) * (m + n)
  BY <1>3 DEF Bytes
<1>9. Bytes(s) = Bytes(front) + Bytes(back)
  BY <1>1, <1>2, <1>5, <1>6, <1>7, <1>8
<1> QED
  BY <1>9 DEF front, back

LEMMA BytesOfOne ==
    ASSUME NEW f
    PROVE  Bytes(<<f>>) = ByteSize(f) /\ ByteSize(f) \in 1..Capacity
<1>1. ByteSize(f) \in 1..Capacity
  BY RingAssumption DEF ByteSize
<1>2. CASE f.key
  <2>1. KeyframesIn(<<f>>) = {1}
    BY <1>2 DEF KeyframesIn
  <2>2. Cardinality({1}) = 1
    BY FS_Singleton
  <2>3. Bytes(<<f>>) = 1 + (KeyBytes - 1) * 1
    BY <2>1, <2>2 DEF Bytes
  <2> QED
    BY <1>1, <1>2, <2>3, RingAssumption DEF ByteSize
<1>3. CASE ~f.key
  <2>1. KeyframesIn(<<f>>) = {}
    BY <1>3 DEF KeyframesIn
  <2>2. Cardinality({}) = 0
    BY FS_EmptySet
  <2>3. Bytes(<<f>>) = 1 + (KeyBytes - 1) * 0
    BY <2>1, <2>2 DEF Bytes
  <2> QED
    BY <1>1, <1>3, <2>3, RingAssumption DEF ByteSize
<1> QED
  BY <1>2, <1>3

LEMMA BytesOfNone == Bytes(<<>>) = 0
<1>1. KeyframesIn(<<>>) = {} /\ Cardinality({}) = 0
  BY FS_EmptySet DEF KeyframesIn
<1>2. Bytes(<<>>) = 0 + (KeyBytes - 1) * 0
  BY <1>1 DEF Bytes
<1> QED
  BY <1>2, RingAssumption

LEMMA SubSeqOfOne ==
    ASSUME NEW F, NEW s \in Seq(F), NEW k \in 1..Len(s)
    PROVE  SubSeq(s, k, k) = <<s[k]>>
<1> DEFINE part == SubSeq(s, k, k)
           one  == <<s[k]>>
<1>1. part \in Seq(F) /\ Len(part) = 1 /\ part[1] = s[k]
  <2>1. \A i \in k..k : s[i] \in F
    OBVIOUS
  <2>2. \A i \in 1..(k - k + 1) : SubSeq(s, k, k)[i] = s[k + i - 1]
    BY <2>1, SubSeqProperties
  <2> QED
    BY <2>1, <2>2, SubSeqProperties
<1>2. one \in Seq(F) /\ Len(one) = 1 /\ one[1] = s[k]
  OBVIOUS
<1> HIDE DEF part, one
<1>3. part = one
  <2>1. \A i \in 1..Len(part) : part[i] = one[i]
    BY <1>1, <1>2
  <2> QED
    BY <1>1, <1>2, <2>1, SeqEqual
<1> QED
  BY <1>3 DEF part, one

LEMMA BytesAppend ==
    ASSUME NEW F, NEW s \in Seq(F), NEW f \in F
    PROVE  Bytes(Append(s, f)) = Bytes(s) + ByteSize(f)
<1> DEFINE t == Append(s, f)
<1>1. t \in Seq(F) /\ Len(t) = Len(s) + 1
  OBVIOUS
<1>2. SubSeq(t, 1, Len(t) - 1) = s
  <2>1. SubSeq(t, 1, Len(t) - 1) \in Seq(F) /\ Len(SubSeq(t, 1, Len(t) - 1)) = Len(s)
    OBVIOUS
  <2>2. \A i \in 1..Len(s) : SubSeq(t, 1, Len(t) - 1)[i] = s[i]
    OBVIOUS
  <2> HIDE DEF t
  <2> QED
    BY <2>1, <2>2, SeqEqual
<1>3. SubSeq(t, Len(t), Len(t)) = <<f>>
  <2>1. t[Len(t)] = f /\ Len(t) \in 1..Len(t)
    OBVIOUS
  <2> HIDE DEF t
  <2> QED
    BY <1>1, <2>1, SubSeqOfOne
<1>4. Bytes(t) = Bytes(SubSeq(t, 1, Len(t) - 1)) + Bytes(SubSeq(t, Len(t), Len(t)))
  <2> HIDE DEF t
  <2>1. Len(t) \in 1..(Len(t) + 1)
    BY <1>1
  <2> QED
    BY <1>1, <2>1, BytesSplit
<1> QED
  BY <1>2, <1>3, <1>4, BytesOfOne

LEMMA BytesTail ==
    ASSUME NEW F, NEW s \in Seq(F), s # <<>>
    PROVE  Bytes(s) = ByteSize(Head(s)) + Bytes(Tail(s))
<1>1. 2 \in 1..(Len(s) + 1)
  OBVIOUS
<1>2. SubSeq(s, 1, 2 - 1) = <<Head(s)>>
  <2>1. SubSeq(s, 1, 1) = <<s[1]>>
    BY <1>1, SubSeqOfOne
  <2> QED
    BY <2>1
<1>3. SubSeq(s, 2, Len(s)) = Tail(s)
  BY TailIsSubSeq
<1> QED
  BY <1>1, <1>2, <1>3, BytesSplit, BytesOfOne

(* Frames that differ in what is not counted have the same bytes.          *)
LEMMA BytesSame ==
    ASSUME NEW s, NEW t, DOMAIN s = DOMAIN t, Len(s) = Len(t),
           \A i \in DOMAIN s : s[i].key = t[i].key
    PROVE  Bytes(s) = Bytes(t)
<1>1. KeyframesIn(s) = KeyframesIn(t)
  BY DEF KeyframesIn
<1> QED
  BY <1>1 DEF Bytes

(* The first keyframe, or the place after the last frame.                  *)
LEMMA FirstKeyframeIs ==
    ASSUME NEW F, entries \in Seq(F)
    PROVE  /\ FirstKeyframe \in 1..(Len(entries) + 1)
           /\ Keyframes # {} => FirstKeyframe \in Keyframes /\ entries[FirstKeyframe].key
           /\ Keyframes = {} => FirstKeyframe = Len(entries) + 1
<1>1. Keyframes \in SUBSET (1..Len(entries))
  BY DEF Keyframes, KeyframesIn
<1>2. CASE Keyframes = {}
  BY <1>2 DEF FirstKeyframe
<1>3. CASE Keyframes # {}
  <2>1. Min(Keyframes) \in Keyframes
    BY <1>1, <1>3, MinIs
  <2> QED
    BY <1>1, <1>3, <2>1 DEF FirstKeyframe, Keyframes, KeyframesIn
<1> QED
  BY <1>2, <1>3
-----------------------------------------------------------------------------
(* The ring's methods, one by one: the frames stay frames of the kind the  *)
(* ring holds and the bytes stay theirs.                                   *)
LEMMA PushAccounts ==
    ASSUME NEW F, entries \in Seq(F), NEW f \in F, Accounted, RingPush(f)
    PROVE  entries' \in Seq(F) /\ Accounted'
<1>1. entries' = Append(entries, f) /\ usedBytes' = usedBytes + ByteSize(f) /\ usedBytes' <= Capacity
  BY DEF RingPush, Fits
<1>2. Bytes(entries') = Bytes(entries) + ByteSize(f)
  BY <1>1, BytesAppend
<1> QED
  BY <1>1, <1>2 DEF Accounted

LEMMA PopAccounts ==
    ASSUME NEW F, entries \in Seq(F), Accounted, PopOldest
    PROVE  entries' \in Seq(F) /\ Accounted'
<1>1. entries # <<>> /\ entries' = Tail(entries)
         /\ usedBytes' = Max({0, usedBytes - ByteSize(Head(entries))})
  BY DEF PopOldest
<1>2. Bytes(entries) = ByteSize(Head(entries)) + Bytes(entries')
  BY <1>1, BytesTail
<1>3. entries' \in Seq(F) /\ Bytes(entries') \in Nat
  <2>1. entries' \in Seq(F)
    BY <1>1
  <2> QED
    BY <2>1, BytesType
<1>4. ByteSize(Head(entries)) \in 1..Capacity
  BY BytesOfOne
<1>5. usedBytes - ByteSize(Head(entries)) = Bytes(entries')
  BY <1>2, <1>3, <1>4, RingAssumption DEF Accounted
<1>6. usedBytes' = Bytes(entries')
  BY <1>1, <1>3, <1>5, MaxWithZero
<1> QED
  BY <1>2, <1>3, <1>4, <1>6, RingAssumption DEF Accounted

LEMMA DropAccounts ==
    ASSUME NEW F, entries \in Seq(F), Accounted, DropUntilVideoKeyframe
    PROVE  entries' \in Seq(F) /\ Accounted'
<1> DEFINE k == FirstKeyframe
           gone == SubSeq(entries, 1, k - 1)
<1>1. k \in 1..(Len(entries) + 1)
  BY FirstKeyframeIs
<1>2. entries' = SubSeq(entries, k, Len(entries)) /\ usedBytes' = Max({0, usedBytes - Bytes(gone)})
  BY DEF DropUntilVideoKeyframe
<1> HIDE DEF k
<1>3. Bytes(entries) = Bytes(gone) + Bytes(entries')
  BY <1>1, <1>2, BytesSplit
<1>4. gone \in Seq(F) /\ entries' \in Seq(F)
  BY <1>1, <1>2
<1>5. Bytes(gone) \in Nat /\ Bytes(entries') \in Nat
  BY <1>4, BytesType
<1>6. usedBytes' = Bytes(entries')
  <2> HIDE DEF gone
  <2>1. usedBytes - Bytes(gone) = Bytes(entries')
    BY <1>3, <1>5 DEF Accounted
  <2> QED
    BY <1>2, <1>5, <2>1, MaxWithZero
<1>7. usedBytes' <= Capacity
  <2> HIDE DEF gone
  <2> QED
    BY <1>3, <1>5, <1>6, RingAssumption DEF Accounted
<1> QED
  BY <1>4, <1>6, <1>7 DEF Accounted

LEMMA ClearAccounts ==
    ASSUME NEW F, Clear
    PROVE  entries' \in Seq(F) /\ Accounted'
<1>1. Bytes(entries') = 0
  BY BytesOfNone DEF Clear
<1> QED
  BY <1>1, RingAssumption DEF Clear, Accounted
=============================================================================
