------------------------- MODULE SensorFrames_proofs -------------------------
(***************************************************************************)
(* Proofs about SensorFrames: frames keep their order, buffers, video      *)
(* frames and observations are conserved, what one thread leaves to the    *)
(* other is there, and the queues implement FrameLife, for any number of   *)
(* buffers, of at least three observations and of at least two frames of   *)
(* the decoder.                                                            *)
(***************************************************************************)
EXTENDS SensorFrames, FiniteSetTheorems, SequenceTheorems, TLAPS

NoRepeat(q) == \A i, j \in DOMAIN q : q[i] = q[j] => i = j

\* The places a buffer can be in besides the capture and the fast queue.
HandOf(t) == {t.frame} \ {None}
Held(t) == IF t.frame = None THEN 0 ELSE 1
Front == InSeq(longQ) \cup HandOf(long)

-----------------------------------------------------------------------------
(***************************************************************************)
(* Lemmas about queues: what Tail, Append and Older do to the elements.    *)
(***************************************************************************)
LEMMA SeqFacts ==
  ASSUME NEW S, NEW q \in Seq(S)
  PROVE  /\ Len(q) \in Nat /\ DOMAIN q = 1 .. Len(q) /\ InSeq(q) \subseteq S
         /\ q = <<>> <=> Len(q) = 0
         /\ q = <<>> <=> InSeq(q) = {}
         /\ q # <<>> => q[1] \in InSeq(q) /\ q[Len(q)] \in InSeq(q)
         /\ Len(q) = 1 => q[1] = q[Len(q)] /\ InSeq(q) = {q[1]}
         /\ \A x : x \in InSeq(q) <=> \E i \in 1 .. Len(q) : q[i] = x
<1>1. Len(q) \in Nat /\ q \in [1 .. Len(q) -> S] /\ DOMAIN q = 1 .. Len(q)
  BY LenProperties
<1>2. q = <<>> <=> Len(q) = 0
  BY EmptySeq
<1>3. /\ \A x : x \in InSeq(q) <=> \E i \in 1 .. Len(q) : q[i] = x
      /\ InSeq(q) \subseteq S
  BY <1>1 DEF InSeq
<1>4. q # <<>> => 1 \in 1 .. Len(q) /\ Len(q) \in 1 .. Len(q)
  BY <1>1, <1>2
<1>5. q # <<>> => q[1] \in InSeq(q) /\ q[Len(q)] \in InSeq(q)
  BY <1>3, <1>4
<1>6. q = <<>> => InSeq(q) = {}
  BY <1>1, <1>2, <1>3
<1>7. ASSUME Len(q) = 1 PROVE InSeq(q) = {q[1]}
  BY <1>3, <1>7
<1> QED
  BY <1>1, <1>2, <1>3, <1>5, <1>6, <1>7

LEMMA TailFacts ==
  ASSUME NEW S, NEW q \in Seq(S), q # <<>>
  PROVE  /\ Tail(q) \in Seq(S) /\ Len(Tail(q)) = Len(q) - 1
         /\ DOMAIN Tail(q) = 1 .. Len(q) - 1
         /\ \A i \in 1 .. Len(q) - 1 : Tail(q)[i] = q[i + 1]
         /\ InSeq(q) = InSeq(Tail(q)) \cup {q[1]}
         /\ NoRepeat(q) => NoRepeat(Tail(q)) /\ InSeq(Tail(q)) = InSeq(q) \ {q[1]}
<1>1. /\ Tail(q) \in Seq(S) /\ Len(Tail(q)) = Len(q) - 1
      /\ \A i \in 1 .. Len(Tail(q)) : Tail(q)[i] = q[i + 1]
  BY HeadTailProperties
<1>2. /\ Len(q) \in Nat /\ Len(q) > 0 /\ DOMAIN q = 1 .. Len(q)
      /\ DOMAIN Tail(q) = 1 .. Len(q) - 1
  BY <1>1, LenProperties, EmptySeq
<1>3. InSeq(q) = InSeq(Tail(q)) \cup {q[1]}
  <2>1. ASSUME NEW i \in 1 .. Len(q) PROVE q[i] \in InSeq(Tail(q)) \cup {q[1]}
    <3>1. CASE i = 1
      BY <3>1
    <3>2. CASE i # 1
      <4>1. i - 1 \in 1 .. Len(q) - 1 /\ Tail(q)[i - 1] = q[i]
        BY <1>1, <1>2, <3>2
      <4> QED
        BY <1>2, <4>1 DEF InSeq
    <3> QED
      BY <3>1, <3>2
  <2>2. ASSUME NEW i \in 1 .. Len(q) - 1 PROVE Tail(q)[i] \in InSeq(q)
    BY <1>1, <1>2 DEF InSeq
  <2>3. q[1] \in InSeq(q)
    BY <1>2 DEF InSeq
  <2> QED
    BY <1>2, <2>1, <2>2, <2>3 DEF InSeq
<1>4. ASSUME NoRepeat(q) PROVE NoRepeat(Tail(q)) /\ q[1] \notin InSeq(Tail(q))
  BY <1>1, <1>2, <1>4 DEF NoRepeat, InSeq
<1> QED
  BY <1>1, <1>2, <1>3, <1>4

LEMMA AppendFacts ==
  ASSUME NEW S, NEW q \in Seq(S), NEW b \in S
  PROVE  /\ Append(q, b) \in Seq(S) /\ Len(Append(q, b)) = Len(q) + 1
         /\ DOMAIN Append(q, b) = 1 .. Len(q) + 1
         /\ \A i \in 1 .. Len(q) : Append(q, b)[i] = q[i]
         /\ Append(q, b)[Len(q) + 1] = b
         /\ q \o <<b>> = Append(q, b) /\ q \o <<>> = q
         /\ InSeq(Append(q, b)) = InSeq(q) \cup {b}
         /\ NoRepeat(q) /\ b \notin InSeq(q) => NoRepeat(Append(q, b))
<1>1. /\ Append(q, b) \in Seq(S) /\ Len(Append(q, b)) = Len(q) + 1
      /\ \A i \in 1 .. Len(q) : Append(q, b)[i] = q[i]
      /\ Append(q, b)[Len(q) + 1] = b
  BY AppendProperties
<1>2. Len(q) \in Nat /\ DOMAIN q = 1 .. Len(q) /\ DOMAIN Append(q, b) = 1 .. Len(q) + 1
  BY <1>1, LenProperties
<1>3. q \o <<b>> = Append(q, b) /\ q \o <<>> = q
  BY AppendIsConcat, ConcatEmptySeq
<1>4. InSeq(Append(q, b)) = InSeq(q) \cup {b}
  <2>1. \A i \in 1 .. Len(q) + 1 : i \in 1 .. Len(q) \/ i = Len(q) + 1
    BY <1>2
  <2>2. \A i \in 1 .. Len(q) : i \in 1 .. Len(q) + 1
    BY <1>2
  <2>3. Len(q) + 1 \in 1 .. Len(q) + 1
    BY <1>2
  <2> QED
    BY <1>1, <1>2, <2>1, <2>2, <2>3 DEF InSeq
<1>5. ASSUME NoRepeat(q), b \notin InSeq(q) PROVE NoRepeat(Append(q, b))
  <2>1. \A i \in 1 .. Len(q) + 1 : i \in 1 .. Len(q) \/ i = Len(q) + 1
    BY <1>2
  <2> QED
    BY <1>1, <1>2, <1>5, <2>1 DEF InSeq, NoRepeat
<1> QED
  BY <1>1, <1>2, <1>3, <1>4, <1>5

LEMMA OlderFacts ==
  ASSUME NEW S, NEW q \in Seq(S), q # <<>>
  PROVE  /\ Older(q) \in Seq(S) /\ Len(Older(q)) = Len(q) - 1
         /\ DOMAIN Older(q) = 1 .. Len(q) - 1
         /\ \A i \in 1 .. Len(q) - 1 : Older(q)[i] = q[i]
         /\ Len(q) = 1 => Older(q) = <<>>
         /\ InSeq(q) = InSeq(Older(q)) \cup {Newest(q)}
         /\ NoRepeat(q) => NoRepeat(Older(q)) /\ InSeq(Older(q)) = InSeq(q) \ {Newest(q)}
<1>1. /\ Len(q) \in Nat /\ Len(q) > 0 /\ DOMAIN q = 1 .. Len(q)
      /\ \A i \in 1 .. Len(q) : q[i] \in S
  BY LenProperties, EmptySeq
<1>2. /\ Older(q) \in Seq(S) /\ Len(Older(q)) = Len(q) - 1
      /\ \A i \in 1 .. Len(q) - 1 : Older(q)[i] = q[i]
  <2>1. /\ SubSeq(q, 1, Len(q) - 1) \in Seq(S)
        /\ Len(SubSeq(q, 1, Len(q) - 1)) = IF 1 <= Len(q) - 1 THEN Len(q) - 1 - 1 + 1 ELSE 0
        /\ \A i \in 1 .. Len(q) - 1 - 1 + 1 : SubSeq(q, 1, Len(q) - 1)[i] = q[1 + i - 1]
    BY <1>1, SubSeqProperties
  <2> QED
    BY <1>1, <2>1 DEF Older
<1>3. DOMAIN Older(q) = 1 .. Len(q) - 1
  BY <1>1, <1>2, LenProperties
<1>4. InSeq(q) = InSeq(Older(q)) \cup {Newest(q)}
  <2>0. Len(q) \in Nat /\ Len(q) > 0
    BY <1>1
  <2>1. \A i \in 1 .. Len(q) : i \in 1 .. Len(q) - 1 \/ i = Len(q)
    BY <2>0
  <2>2. \A i \in 1 .. Len(q) - 1 : i \in 1 .. Len(q)
    BY <2>0
  <2>3. Len(q) \in 1 .. Len(q)
    BY <2>0
  <2> QED
    BY <1>1, <1>2, <1>3, <2>1, <2>2, <2>3 DEF InSeq, Newest
<1>5. ASSUME NoRepeat(q) PROVE NoRepeat(Older(q)) /\ Newest(q) \notin InSeq(Older(q))
  BY <1>1, <1>2, <1>3, <1>5 DEF NoRepeat, InSeq, Newest
<1>6. Len(q) = 1 => Older(q) = <<>>
  BY <1>2, EmptySeq
<1> QED
  BY <1>2, <1>3, <1>4, <1>5, <1>6
-----------------------------------------------------------------------------
(***************************************************************************)
(* The inductive invariant.                                                *)
(***************************************************************************)

\* A thread holds a frame exactly while it works on one; a frame waits for the
\* long thread only while that is not busy, and then only one does.
Hands ==
  /\ fast.frame # None <=> fast.pc \in {"decode", "blobs", "search", "save", "route"}
  /\ long.frame # None <=> long.pc \in {"search", "save", "finish"}
  /\ longBusy <=> long.frame # None
  /\ longBusy => longQ = <<>>
  /\ Len(longQ) <= 1

\* Every buffer is in one place.
Placed ==
  /\ NoRepeat(captureQ) /\ NoRepeat(fastQ)
  /\ \A b \in InSeq(captureQ) : b \notin InSeq(fastQ) /\ b # fast.frame /\ b \notin Front
  /\ \A b \in InSeq(fastQ) : b # fast.frame /\ b \notin Front
  /\ fast.frame \notin Front
  /\ \A b \in Buffers : \/ b \in InSeq(captureQ) \/ b \in InSeq(fastQ)
                         \/ b = fast.frame \/ b \in Front
  /\ Len(captureQ) + Len(fastQ) + Len(longQ) + Held(fast) + Held(long) = NumBuffers

\* What was captured before a buffer is what is in front of it.
InOrder ==
  /\ \A i, j \in DOMAIN fastQ : fastQ[i] \in earlier[fastQ[j]] <=> i < j
  /\ \A c \in InSeq(fastQ), b \in Buffers \ InSeq(fastQ) :
       b \in earlier[c] <=> b = fast.frame \/ b \in Front
  /\ fast.frame # None => earlier[fast.frame] = Front
  /\ \A b \in InSeq(captureQ) \cup Front : earlier[b] = {}

\* A buffer has a video frame from its capture to its release; one of the
\* decoder only once it is decoded.
Filled ==
  /\ \A b \in Buffers : buf[b].vframe = "none" <=> b \in InSeq(captureQ)
  /\ \A b \in InSeq(fastQ) : buf[b].vframe = "uvc"
  /\ fast.pc = "decode" => buf[fast.frame].vframe = "uvc"
  /\ main = "new" => (\A b \in Buffers : buf[b].vframe = "none") /\ uvc = [free |-> 0, cur |-> FALSE]

Counted ==
  /\ main # "new" => uvc.free + NumWith("uvc") + (IF uvc.cur THEN 1 ELSE 0) = NumVFrames
  /\ decoder.free + NumWith("jpeg") = decoder.alloced

\* An observation is with one buffer or on the queue, and which buffers have one.
Observed ==
  /\ NoRepeat(obsQ)
  /\ \A b \in Buffers : HoldsObs(b) => buf[b].obs \notin InSeq(obsQ)
  /\ \A b, c \in Buffers : HoldsObs(b) /\ buf[b].obs = buf[c].obs => b = c
  /\ \A o \in Obs : o \in InSeq(obsQ) \/ \E b \in Buffers : buf[b].obs = o
  /\ Len(obsQ) + Cardinality({b \in Buffers : HoldsObs(b)}) = NumObs
  /\ obsQ # <<>> => Oldest(obsQ) # lastObs

Marked ==
  /\ \A b \in InSeq(captureQ) \cup InSeq(fastQ) : ~HoldsObs(b)
  /\ \A b \in Front : HoldsObs(b) /\ buf[b].need
  /\ fast.pc \in {"decode", "blobs"} => ~HoldsObs(fast.frame)
  /\ fast.pc = "blobs" => ~buf[fast.frame].need
  /\ fast.pc \in {"search", "save"} => HoldsObs(fast.frame)
  /\ fast.pc = "route" /\ buf[fast.frame].need => HoldsObs(fast.frame)

\* A frame whose search began with a camera pose met one that was saved, or
\* tried to be.
Tried ==
  /\ camera.saved => camera.tried
  /\ camera.have /\ long.pc # "save" => camera.tried
  /\ long.pc \in {"search", "save"} /\ long.had => camera.tried

IInv == /\ TypeOK /\ Hands /\ Placed /\ InOrder /\ Filled /\ Counted
        /\ Observed /\ Marked /\ Tried

-----------------------------------------------------------------------------
(***************************************************************************)
(* Lemmas about what is counted, and about a release.                      *)
(***************************************************************************)
LEMMA Constants ==
  /\ IsFiniteSet(Buffers) /\ NumBuffers \in Nat /\ NumBuffers > 0
  /\ IsFiniteSet(Obs) /\ NumObs \in Nat /\ NumObs >= 3
  /\ None \notin Buffers /\ None \notin Obs
  /\ MaxDecoded \in Nat /\ MaxDecoded >= 2
  /\ NumVFrames = NumBuffers + 1
BY PipelineConstants, FS_CardinalityType, FS_EmptySet DEF NumBuffers, NumObs, NumVFrames

\* A count of buffers changes with one of them.
LEMMA CountChange ==
  ASSUME NEW S \in SUBSET Buffers, NEW T \in SUBSET Buffers, NEW b \in Buffers,
         \A c \in Buffers \ {b} : c \in S <=> c \in T
  PROVE  /\ Cardinality(S) \in Nat /\ Cardinality(T) \in Nat
         /\ b \in S /\ b \in T => Cardinality(T) = Cardinality(S)
         /\ b \notin S /\ b \notin T => Cardinality(T) = Cardinality(S)
         /\ b \in S /\ b \notin T => Cardinality(T) = Cardinality(S) - 1
         /\ b \notin S /\ b \in T => Cardinality(T) = Cardinality(S) + 1
<1>1. IsFiniteSet(S) /\ IsFiniteSet(T)
  BY Constants, FS_Subset
<1>2. Cardinality(S) \in Nat /\ Cardinality(T) \in Nat
  BY <1>1, FS_CardinalityType
<1>3. (b \in S <=> b \in T) => S = T
  OBVIOUS
<1>4. ASSUME b \in S, b \notin T PROVE Cardinality(T) = Cardinality(S) - 1
  <2>1. T = S \ {b}
    BY <1>4
  <2> QED
    BY <1>1, <1>4, <2>1, FS_RemoveElement
<1>5. ASSUME b \notin S, b \in T PROVE Cardinality(T) = Cardinality(S) + 1
  <2>1. T = S \cup {b}
    BY <1>5
  <2> QED
    BY <1>1, <1>5, <2>1, FS_AddElement
<1> QED
  BY <1>2, <1>3, <1>4, <1>5

LEMMA NumWithChange ==
  ASSUME NEW k, NEW b \in Buffers,
         \A c \in Buffers \ {b} : buf'[c].vframe = buf[c].vframe
  PROVE  /\ NumWith(k) \in Nat /\ NumWith(k)' \in Nat
         /\ NumWith(k)' = NumWith(k) + (IF buf'[b].vframe = k THEN 1 ELSE 0)
                                     - (IF buf[b].vframe = k THEN 1 ELSE 0)
<1> DEFINE S == {c \in Buffers : buf[c].vframe = k}
           T == {c \in Buffers : buf'[c].vframe = k}
<1>1. /\ Cardinality(S) \in Nat /\ Cardinality(T) \in Nat
      /\ b \in S /\ b \in T => Cardinality(T) = Cardinality(S)
      /\ b \notin S /\ b \notin T => Cardinality(T) = Cardinality(S)
      /\ b \in S /\ b \notin T => Cardinality(T) = Cardinality(S) - 1
      /\ b \notin S /\ b \in T => Cardinality(T) = Cardinality(S) + 1
  <2>1. \A c \in Buffers \ {b} : c \in S <=> c \in T
    OBVIOUS
  <2> HIDE DEF S, T
  <2>2. S \in SUBSET Buffers /\ T \in SUBSET Buffers
    BY DEF S, T
  <2> QED
    BY <2>1, <2>2, CountChange
<1>2. NumWith(k) = Cardinality(S) /\ NumWith(k)' = Cardinality(T)
  BY DEF NumWith
<1>3. (b \in S <=> buf[b].vframe = k) /\ (b \in T <=> buf'[b].vframe = k)
  OBVIOUS
<1> HIDE DEF S, T
<1> QED
  BY <1>1, <1>2, <1>3

LEMMA NumWithSame ==
  ASSUME NEW k, \A c \in Buffers : buf'[c].vframe = buf[c].vframe
  PROVE  NumWith(k) \in Nat /\ NumWith(k)' = NumWith(k)
<1>1. {c \in Buffers : buf'[c].vframe = k} = {c \in Buffers : buf[c].vframe = k}
  OBVIOUS
<1>2. Cardinality({c \in Buffers : buf[c].vframe = k}) \in Nat
  BY Constants, FS_Subset, FS_CardinalityType
<1> QED
  BY <1>1, <1>2 DEF NumWith

\* What is released without any buffer, and with one.
LEMMA ReleaseOfNone ==
  ASSUME TypeOK
  PROVE  /\ InSeq(<<>>) = {} /\ ObsReturned(<<>>) = <<>>
         /\ \A k : NumHolding(<<>>, k) = 0
         /\ Cleared(<<>>) = buf /\ EarlierWithout(<<>>) = earlier
<1>1. InSeq(<<>>) = {}
  BY DEF InSeq
<1>2. {i \in DOMAIN <<>> : HoldsObs(<<>>[i])} = {}
  OBVIOUS
<1>3. ObsReturned(<<>>) = <<>>
  BY <1>2, FS_EmptySet DEF ObsReturned
<1>4. \A k : NumHolding(<<>>, k) = 0
  BY <1>1, FS_EmptySet DEF NumHolding
<1>5. Cleared(<<>>) = buf
  BY <1>1 DEF Cleared, TypeOK
<1>6. EarlierWithout(<<>>) = earlier
  BY <1>1 DEF EarlierWithout, TypeOK
<1> QED
  BY <1>1, <1>3, <1>4, <1>5, <1>6

LEMMA ReleaseOfOne ==
  ASSUME TypeOK, NEW b \in Buffers
  PROVE  /\ InSeq(<<b>>) = {b}
         /\ ObsReturned(<<b>>) = IF HoldsObs(b) THEN <<buf[b].obs>> ELSE <<>>
         /\ \A k : NumHolding(<<b>>, k) = IF buf[b].vframe = k THEN 1 ELSE 0
         /\ Cleared(<<b>>) \in [Buffers -> [vframe : {"none", "uvc", "jpeg"},
                                            obs : Obs \cup {None}, need : BOOLEAN]]
         /\ \A c \in Buffers : c # b => Cleared(<<b>>)[c] = buf[c]
         /\ Cleared(<<b>>)[b] = [buf[b] EXCEPT !.vframe = "none", !.obs = None]
<1>1. InSeq(<<b>>) = {b}
  BY DEF InSeq
<1>2. ObsReturned(<<b>>) = IF HoldsObs(b) THEN <<buf[b].obs>> ELSE <<>>
  <2>1. DOMAIN <<b>> = {1} /\ <<b>>[1] = b
    OBVIOUS
  <2>2. CASE HoldsObs(b)
    <3>1. {i \in DOMAIN <<b>> : HoldsObs(<<b>>[i])} = {1}
      BY <2>1, <2>2
    <3>2. \A S : S = {1} => {j \in S : j <= 1} = {1}
      OBVIOUS
    <3>3. Cardinality({1}) = 1
      BY FS_Singleton
    <3>4. Nth({1}, 1) = 1
      BY <3>2, <3>3 DEF Nth
    <3>5. ObsReturned(<<b>>) = [k \in 1 .. 1 |-> buf[<<b>>[Nth({1}, k)]].obs]
      BY <3>1, <3>3 DEF ObsReturned
    <3>6. \A k \in 1 .. 1 : k = 1
      OBVIOUS
    <3>7. ObsReturned(<<b>>) = [k \in 1 .. 1 |-> buf[b].obs]
      BY <2>1, <3>4, <3>5, <3>6
    <3> QED
      BY <2>2, <3>7
  <2>3. CASE ~HoldsObs(b)
    <3>1. {i \in DOMAIN <<b>> : HoldsObs(<<b>>[i])} = {}
      BY <2>1, <2>3
    <3>2. ObsReturned(<<b>>) = [k \in 1 .. 0 |-> buf[<<b>>[Nth({}, k)]].obs]
      BY <3>1, FS_EmptySet DEF ObsReturned
    <3>3. ObsReturned(<<b>>) = <<>>
      BY <3>2
    <3> QED
      BY <2>3, <3>3
  <2> QED
    BY <2>2, <2>3
<1>3. \A k : NumHolding(<<b>>, k) = IF buf[b].vframe = k THEN 1 ELSE 0
  <2> SUFFICES ASSUME NEW k PROVE NumHolding(<<b>>, k) = IF buf[b].vframe = k THEN 1 ELSE 0
    OBVIOUS
  <2>1. CASE buf[b].vframe = k
    <3>1. {c \in {b} : buf[c].vframe = k} = {b}
      BY <2>1
    <3> QED
      BY <1>1, <2>1, <3>1, FS_Singleton DEF NumHolding
  <2>2. CASE buf[b].vframe # k
    <3>1. {c \in {b} : buf[c].vframe = k} = {}
      BY <2>2
    <3> QED
      BY <1>1, <2>2, <3>1, FS_EmptySet DEF NumHolding
  <2> QED
    BY <2>1, <2>2
<1>4. /\ Cleared(<<b>>) \in [Buffers -> [vframe : {"none", "uvc", "jpeg"},
                                         obs : Obs \cup {None}, need : BOOLEAN]]
      /\ \A c \in Buffers : c # b => Cleared(<<b>>)[c] = buf[c]
      /\ Cleared(<<b>>)[b] = [buf[b] EXCEPT !.vframe = "none", !.obs = None]
  BY <1>1, ZenonT(60) DEF Cleared, TypeOK
<1> QED
  BY <1>1, <1>2, <1>3, <1>4

-----------------------------------------------------------------------------
(***************************************************************************)
(* The places of the buffers and their order.                              *)
(***************************************************************************)
PlacesInv == Hands /\ Placed /\ InOrder

LEMMA QueueFacts ==
  ASSUME TypeOK
  PROVE  /\ captureQ \in Seq(Buffers) /\ fastQ \in Seq(Buffers) /\ longQ \in Seq(Buffers)
         /\ Len(captureQ) \in Nat /\ Len(fastQ) \in Nat /\ Len(longQ) \in Nat
         /\ InSeq(captureQ) \subseteq Buffers /\ InSeq(fastQ) \subseteq Buffers
         /\ InSeq(longQ) \subseteq Buffers /\ Front \subseteq Buffers
         /\ DOMAIN fastQ = 1 .. Len(fastQ)
         /\ \A i \in 1 .. Len(fastQ) : fastQ[i] \in InSeq(fastQ) /\ fastQ[i] \in Buffers
         /\ fast.frame \in Buffers \cup {None} /\ long.frame \in Buffers \cup {None}
         /\ earlier \in [Buffers -> SUBSET Buffers]
<1>1. /\ captureQ \in Seq(Buffers) /\ fastQ \in Seq(Buffers) /\ longQ \in Seq(Buffers)
      /\ fast.frame \in Buffers \cup {None} /\ long.frame \in Buffers \cup {None}
      /\ earlier \in [Buffers -> SUBSET Buffers]
  BY DEF TypeOK, ThreadState
<1> QED
  BY <1>1, SeqFacts DEF Front, HandOf

\* A thread that is signalled has no frame, before and after.
LEMMA SignalledFacts ==
  ASSUME NEW t, t.pc = "wait" => t.frame = None
  PROVE  /\ Signalled(t).frame = t.frame
         /\ Signalled(t).pc = IF t.pc = "wait" THEN "woken" ELSE t.pc
BY DEF Signalled, Woken, Thread

LEMMA CapturedPlaces ==
  ASSUME IInv, Captured, UNCHANGED <<longBusy, long>>
  PROVE  PlacesInv'
<1> DEFINE b == captureQ[1]
           n == Len(fastQ)
<1>1. TypeOK /\ Hands /\ Placed /\ InOrder /\ Filled
  BY DEF IInv
<1>2. /\ captureQ # <<>> /\ captureQ' = Tail(captureQ)
      /\ fastQ' = Append(fastQ, b)
      /\ earlier' = [earlier EXCEPT ![b] = InUse \ {b}]
      /\ UNCHANGED <<longQ, long, longBusy>>
      /\ fast' = Signalled(fast)
  BY <1>1, ReleaseOfNone DEF Captured, Attaches, SignalsFast, Oldest
<1>3. /\ b \in InSeq(captureQ) /\ b \in Buffers
      /\ Len(captureQ') = Len(captureQ) - 1
      /\ InSeq(captureQ') = InSeq(captureQ) \ {b} /\ NoRepeat(captureQ')
  BY <1>1, <1>2, QueueFacts, SeqFacts, TailFacts DEF Placed
<1>4. b \notin InSeq(fastQ) /\ b # fast.frame /\ b \notin Front
  BY <1>1, <1>3 DEF Placed
<1>5. /\ n \in Nat /\ Len(fastQ') = n + 1 /\ DOMAIN fastQ' = 1 .. n + 1
      /\ \A i \in 1 .. n : fastQ'[i] = fastQ[i]
      /\ fastQ'[n + 1] = b
      /\ InSeq(fastQ') = InSeq(fastQ) \cup {b} /\ NoRepeat(fastQ')
  BY <1>1, <1>2, <1>3, <1>4, QueueFacts, AppendFacts DEF Placed
<1>6. fast'.frame = fast.frame /\ (fast'.pc = IF fast.pc = "wait" THEN "woken" ELSE fast.pc)
  BY <1>1, <1>2, SignalledFacts DEF Hands
<1>7. Front' = Front
  BY <1>2 DEF Front, HandOf
<1>8. Hands'
  BY <1>1, <1>2, <1>6 DEF Hands
<1>9. Placed'
  <2>1. Len(captureQ') + Len(fastQ') + Len(longQ') + Held(fast') + Held(long') = NumBuffers
    <3>1. Len(captureQ) \in Nat /\ Len(longQ) \in Nat /\ n \in Nat
      BY <1>1, QueueFacts
    <3>2. Held(fast) \in {0, 1} /\ Held(long) \in {0, 1} /\ NumBuffers \in Nat
      BY Constants DEF Held
    <3>3. Held(fast') = Held(fast) /\ Held(long') = Held(long) /\ longQ' = longQ
      BY <1>2, <1>6 DEF Held
    <3> QED
      BY <1>1, <1>3, <1>5, <3>1, <3>2, <3>3 DEF Placed
  <2> QED
    BY <1>1, <1>3, <1>4, <1>5, <1>6, <1>7, <2>1 DEF Placed, Held
<1>10. InUse \ {b} = {c \in Buffers : c \in InSeq(fastQ) \/ c = fast.frame \/ c \in Front}
  BY <1>1, <1>3, <1>4 DEF InUse, Filled, Placed
<1>11. InOrder'
  <2>1. /\ earlier'[b] = InUse \ {b}
        /\ \A c \in Buffers : c # b => earlier'[c] = earlier[c]
    BY <1>1, <1>2, <1>3, QueueFacts
  <2>2. ASSUME NEW i \in 1 .. n + 1, NEW j \in 1 .. n + 1
        PROVE  fastQ'[i] \in earlier'[fastQ'[j]] <=> i < j
    <3>1. \A k \in 1 .. n + 1 : k \in 1 .. n \/ k = n + 1
      BY <1>5
    <3>2. \A k \in 1 .. n : fastQ[k] \in InSeq(fastQ) /\ fastQ[k] \in Buffers
      BY <1>1, QueueFacts
    <3>3. CASE j = n + 1
      BY <1>4, <1>5, <1>10, <2>1, <3>1, <3>2, <3>3
    <3>4. CASE j \in 1 .. n
      <4>1. earlier'[fastQ'[j]] = earlier[fastQ[j]]
        BY <1>4, <1>5, <2>1, <3>2, <3>4
      <4>2. CASE i \in 1 .. n
        BY <1>1, <1>5, <3>4, <4>1, <4>2, QueueFacts DEF InOrder
      <4>3. CASE i = n + 1
        BY <1>1, <1>3, <1>4, <1>5, <3>2, <3>4, <4>1, <4>3 DEF InOrder
      <4> QED
        BY <3>1, <4>2, <4>3
    <3> QED
      BY <3>1, <3>3, <3>4
  <2>3. ASSUME NEW c \in InSeq(fastQ'), NEW d \in Buffers \ InSeq(fastQ')
        PROVE  d \in earlier'[c] <=> d = fast'.frame \/ d \in Front'
    <3>1. CASE c = b
      BY <1>5, <1>6, <1>7, <1>10, <2>1, <3>1
    <3>2. CASE c # b
      BY <1>1, <1>5, <1>6, <1>7, <2>1, <3>2, QueueFacts DEF InOrder
    <3> QED
      BY <3>1, <3>2
  <2>4. fast'.frame # None => earlier'[fast'.frame] = Front'
    BY <1>1, <1>4, <1>6, <1>7, <2>1, QueueFacts DEF InOrder
  <2>5. \A c \in InSeq(captureQ') \cup Front' : earlier'[c] = {}
    BY <1>1, <1>3, <1>4, <1>7, <2>1, QueueFacts DEF InOrder
  <2> QED
    BY <1>5, <2>2, <2>3, <2>4, <2>5 DEF InOrder
<1> QED
  BY <1>8, <1>9, <1>11 DEF PlacesInv

\* A step that leaves the places alone: the threads keep their frames, or
\* their lack of one.
LEMMA QuietPlaces ==
  ASSUME IInv, UNCHANGED <<captureQ, fastQ, longQ, longBusy, earlier>>,
         fast'.frame = fast.frame, long'.frame = long.frame,
         fast'.pc \in {"decode", "blobs", "search", "save", "route"}
           <=> fast.pc \in {"decode", "blobs", "search", "save", "route"},
         long'.pc \in {"search", "save", "finish"} <=> long.pc \in {"search", "save", "finish"}
  PROVE  PlacesInv'
<1>1. Front' = Front /\ Held(fast') = Held(fast) /\ Held(long') = Held(long)
  BY DEF Front, HandOf, Held
<1> QED
  BY <1>1 DEF IInv, PlacesInv, Hands, Placed, InOrder

\* The newest waiting frame is captured anew: it stays the newest.
LEMMA ReclaimFastPlaces ==
  ASSUME IInv, CapturedReclaimingFast, UNCHANGED <<longBusy, long>>
  PROVE  PlacesInv'
<1> DEFINE n == Len(fastQ)
           b == fastQ[n]
<1>1. TypeOK /\ Hands /\ Placed /\ InOrder /\ Filled
  BY DEF IInv
<1>2. /\ fastQ # <<>> /\ b = Newest(fastQ)
      /\ fastQ' = Append(Older(fastQ), b)
      /\ earlier' = [EarlierWithout(<<b>>) EXCEPT ![b] = InUse \ {b}]
      /\ UNCHANGED <<captureQ, longQ, long, longBusy>>
      /\ fast' = Signalled(fast)
  BY DEF CapturedReclaimingFast, Attaches, SignalsFast, Newest
<1>3. /\ n \in Nat /\ n > 0 /\ n \in 1 .. n /\ b \in InSeq(fastQ) /\ b \in Buffers
  BY <1>1, <1>2, QueueFacts, SeqFacts
<1>4. fastQ' = fastQ
  <2>1. SubSeq(fastQ, 1, n) = SubSeq(fastQ, 1, n - 1) \o <<b>>
    <3>1. fastQ \in Seq(Buffers) /\ 1 \in 1 .. Len(fastQ) /\ n \in 1 .. Len(fastQ)
      BY <1>1, <1>3, QueueFacts
    <3> HIDE DEF n
    <3>2. SubSeq(fastQ, 1, n) = SubSeq(fastQ, 1, n - 1) \o <<fastQ[n]>>
      BY <3>1, SubSeqRecursiveSecond
    <3> QED
      BY <3>2
  <2>2. SubSeq(fastQ, 1, n) = fastQ
    BY <1>1, QueueFacts, SubSeqFull
  <2>3. Older(fastQ) \in Seq(Buffers)
    BY <1>1, <1>2, QueueFacts, OlderFacts
  <2>4. Append(Older(fastQ), b) = Older(fastQ) \o <<b>>
    BY <1>3, <2>3, AppendFacts
  <2> QED
    BY <1>2, <2>1, <2>2, <2>4 DEF Older
<1>5. \A c \in Buffers : c # b => b \notin earlier[c]
  <2> SUFFICES ASSUME NEW c \in Buffers, c # b PROVE b \notin earlier[c]
    OBVIOUS
  <2>1. CASE c \in InSeq(fastQ)
    <3>1. PICK j \in 1 .. n : fastQ[j] = c
      BY <1>1, <2>1, QueueFacts, SeqFacts
    <3>2. ~(n < j)
      BY <1>3
    <3> QED
      BY <1>1, <1>3, <3>1, <3>2, QueueFacts DEF InOrder
  <2>2. CASE c = fast.frame
    BY <1>1, <1>3, <2>2, Constants DEF InOrder, Placed
  <2>3. CASE c \in InSeq(captureQ) \/ c \in Front
    BY <1>1, <2>3 DEF InOrder
  <2> QED
    BY <1>1, <2>1, <2>2, <2>3 DEF Placed
<1>6. earlier[b] = InUse \ {b}
  <2>1. InUse = Buffers \ InSeq(captureQ)
    BY <1>1 DEF InUse, Filled
  <2>2. earlier[b] \subseteq Buffers
    BY <1>1, <1>3, QueueFacts
  <2>3. ASSUME NEW d \in InSeq(fastQ) PROVE d \in earlier[b] <=> d # b
    <3>1. PICK i \in 1 .. n : fastQ[i] = d
      BY <1>1, QueueFacts, SeqFacts
    <3>2. i < n <=> i # n
      BY <1>3
    <3>3. d = b <=> i = n
      BY <1>1, <1>3, <3>1, QueueFacts DEF Placed, NoRepeat
    <3> QED
      BY <1>1, <1>3, <3>1, <3>2, <3>3, QueueFacts DEF InOrder
  <2>4. \A d \in Buffers \ InSeq(fastQ) : d \in earlier[b] <=> d = fast.frame \/ d \in Front
    BY <1>1, <1>3 DEF InOrder
  <2>5. \A d \in Buffers \ InSeq(fastQ) :
          d \in InSeq(captureQ) <=> ~(d = fast.frame \/ d \in Front)
    BY <1>1 DEF Placed
  <2>6. \A d \in InSeq(fastQ) : d \in Buffers /\ d \notin InSeq(captureQ)
    BY <1>1, QueueFacts DEF Placed
  <2> QED
    BY <1>3, <2>1, <2>2, <2>3, <2>4, <2>5, <2>6
<1>7. earlier' = earlier
  <2>1. InSeq(<<b>>) = {b}
    BY <1>1, <1>3, ReleaseOfOne
  <2>2. earlier' = [c \in Buffers |-> IF c = b THEN earlier[b] ELSE earlier[c] \ {b}]
    BY <1>2, <1>3, <1>6, <2>1 DEF EarlierWithout
  <2>3. \A c \in Buffers : (IF c = b THEN earlier[b] ELSE earlier[c] \ {b}) = earlier[c]
    BY <1>5
  <2> QED
    BY <1>1, <2>2, <2>3, QueueFacts
<1>8. fast'.frame = fast.frame /\ (fast'.pc = IF fast.pc = "wait" THEN "woken" ELSE fast.pc)
  BY <1>1, <1>2, SignalledFacts DEF Hands
<1> QED
  BY <1>2, <1>4, <1>7, <1>8, QuietPlaces

\* The frame waiting for the long thread is captured anew.
LEMMA ReclaimLongPlaces ==
  ASSUME IInv, CapturedReclaimingLong, UNCHANGED <<longBusy, long>>
  PROVE  PlacesInv'
<1> DEFINE b == longQ[1]
<1>1. TypeOK /\ Hands /\ Placed /\ InOrder /\ Filled
  BY DEF IInv
<1>2. Len(longQ) = 1 /\ long.frame = None
  BY <1>1, QueueFacts, SeqFacts DEF CapturedReclaimingLong, Hands
<1>3. /\ fastQ = <<>> /\ captureQ = <<>> /\ captureQ' = <<>>
      /\ longQ' = Older(longQ) /\ fastQ' = Append(fastQ, b)
      /\ earlier' = [EarlierWithout(<<b>>) EXCEPT ![b] = InUse \ {b}]
      /\ UNCHANGED <<long, longBusy>>
      /\ fast' = Signalled(fast)
  BY <1>2 DEF CapturedReclaimingLong, Attaches, SignalsFast, Newest
<1>4. b \in Buffers /\ InSeq(longQ) = {b}
  BY <1>1, <1>2, QueueFacts, SeqFacts
<1>5. longQ' = <<>> /\ InSeq(longQ') = {} /\ Len(longQ') = 0
  BY <1>1, <1>2, <1>3, QueueFacts, OlderFacts, EmptySeq, SeqFacts
<1>6. /\ Len(fastQ) = 0 /\ InSeq(fastQ) = {} /\ InSeq(captureQ) = {} /\ Len(captureQ) = 0
  BY <1>1, <1>3, QueueFacts, SeqFacts
<1>7. /\ Len(fastQ') = 1 /\ DOMAIN fastQ' = 1 .. 1 /\ fastQ'[1] = b
      /\ InSeq(fastQ') = {b} /\ NoRepeat(fastQ')
  <2>1. fastQ \in Seq(Buffers) /\ NoRepeat(fastQ)
    BY <1>1, QueueFacts DEF Placed
  <2>2. /\ Len(fastQ') = Len(fastQ) + 1 /\ DOMAIN fastQ' = 1 .. Len(fastQ) + 1
        /\ fastQ'[Len(fastQ) + 1] = b /\ InSeq(fastQ') = InSeq(fastQ) \cup {b}
    <3>1. fastQ' = Append(fastQ, b)
      BY <1>3
    <3> HIDE DEF b
    <3> QED
      BY <3>1, <1>4, <2>1, AppendFacts
  <2>3. Len(fastQ) + 1 = 1
    BY <1>6
  <2> QED
    BY <1>6, <2>2, <2>3 DEF NoRepeat
<1>8. Front = {b} /\ Front' = {}
  BY <1>2, <1>3, <1>4, <1>5 DEF Front, HandOf
<1>9. fast'.frame = fast.frame /\ (fast'.pc = IF fast.pc = "wait" THEN "woken" ELSE fast.pc)
  BY <1>1, <1>3, SignalledFacts DEF Hands
<1>10. Hands'
  BY <1>1, <1>2, <1>3, <1>5, <1>9 DEF Hands
<1>11. fast.frame # b /\ \A d \in Buffers : d = b \/ d = fast.frame
  BY <1>1, <1>6, <1>8 DEF Placed
<1>12. Placed'
  <2>1. Len(captureQ') + Len(fastQ') + Len(longQ') + Held(fast') + Held(long') = NumBuffers
    <3>1. Held(fast') = Held(fast) /\ Held(long') = Held(long) /\ Held(fast) \in {0, 1}
          /\ Held(long) \in {0, 1}
      BY <1>3, <1>9 DEF Held
    <3> QED
      BY <1>1, <1>2, <1>3, <1>5, <1>6, <1>7, <3>1 DEF Placed
  <2> QED
    BY <1>1, <1>3, <1>6, <1>7, <1>8, <1>9, <1>11, <2>1 DEF Placed, Held
<1>13. InOrder'
  <2>1. InSeq(<<b>>) = {b}
    BY <1>1, <1>4, ReleaseOfOne
  <2>2. InUse = Buffers
    BY <1>1, <1>6 DEF InUse, Filled
  <2>3. /\ earlier'[b] = Buffers \ {b}
        /\ \A c \in Buffers : c # b => earlier'[c] = earlier[c] \ {b}
    BY <1>1, <1>3, <1>4, <2>1, <2>2, QueueFacts DEF EarlierWithout
  <2>4. \A i, j \in DOMAIN fastQ' : fastQ'[i] \in earlier'[fastQ'[j]] <=> i < j
    BY <1>7, <2>3
  <2>5. fast'.frame # None => earlier'[fast'.frame] = {}
    BY <1>1, <1>8, <1>9, <1>11, <2>3, QueueFacts DEF InOrder
  <2> QED
    BY <1>3, <1>6, <1>7, <1>8, <1>9, <1>11, <2>3, <2>4, <2>5 DEF InOrder
<1> QED
  BY <1>10, <1>12, <1>13 DEF PlacesInv

\* The fast thread has given its frame up and takes the next: what is left to
\* show is about the other places.
LEMMA FetchPlaces ==
  ASSUME TypeOK, FastFetches, NoRepeat(fastQ),
         \A i, j \in DOMAIN fastQ : fastQ[i] \in earlier'[fastQ[j]] <=> i < j,
         \A c \in InSeq(fastQ), d \in Buffers \ InSeq(fastQ) : d \in earlier'[c] <=> d \in Front',
         \A b \in InSeq(captureQ') \cup Front' : earlier'[b] = {},
         earlier' \in [Buffers -> SUBSET Buffers], NoRepeat(captureQ'), Front' \subseteq Buffers,
         \A b \in InSeq(captureQ') : b \notin InSeq(fastQ) /\ b \notin Front',
         \A b \in InSeq(fastQ) : b \notin Front',
         \A b \in Buffers : b \in InSeq(captureQ') \/ b \in InSeq(fastQ) \/ b \in Front',
         InSeq(captureQ') \subseteq Buffers,
         Len(captureQ') \in Nat, Len(longQ') \in Nat, Held(long') \in Nat,
         Len(captureQ') + Len(fastQ) + Len(longQ') + Held(long') = NumBuffers,
         long'.frame # None <=> long'.pc \in {"search", "save", "finish"},
         longBusy' <=> long'.frame # None, longBusy' => longQ' = <<>>, Len(longQ') <= 1
  PROVE  PlacesInv'
<1> DEFINE n == Len(fastQ)
<1>1. /\ n \in Nat /\ DOMAIN fastQ = 1 .. n /\ None \notin Front' /\ fastQ \in Seq(Buffers)
      /\ \A i \in 1 .. n : fastQ[i] \in InSeq(fastQ) /\ fastQ[i] \in Buffers
      /\ None \notin InSeq(fastQ) /\ None \notin InSeq(captureQ')
  BY QueueFacts, Constants
<1>2. CASE shutdown \/ fastQ = <<>>
  <2>1. FastNext.frame = None /\ FastNext.pc \in {"done", "wait"}
    BY <1>2 DEF FastNext, Done, Waiting, Thread
  <2>2. fast'.frame = None /\ fast'.pc \in {"done", "wait"} /\ fastQ' = fastQ
    BY <2>1 DEF FastFetches
  <2>3. Held(fast') = 0
    BY <2>2 DEF Held
  <2>4. Hands'
    BY <2>2 DEF Hands
  <2>5. Placed'
    <3>1. Len(captureQ') + Len(fastQ') + Len(longQ') + Held(fast') + Held(long') = NumBuffers
      BY <1>1, <2>2, <2>3
    <3> QED
      BY <1>1, <2>2, <3>1 DEF Placed
  <2>6. InOrder'
    BY <1>1, <2>2 DEF InOrder
  <2> QED
    BY <2>4, <2>5, <2>6 DEF PlacesInv
<1>3. CASE ~shutdown /\ fastQ # <<>>
  <2> DEFINE f == fastQ[1]
  <2>1. n > 0 /\ 1 \in 1 .. n /\ f \in InSeq(fastQ) /\ f \in Buffers /\ f # None
    BY <1>1, <1>3, SeqFacts, Constants, SMTT(30)
  <2>2. FastNext.frame = f /\ FastNext.pc = "decode"
    BY <1>3 DEF FastNext, Thread, Oldest
  <2>3. fast'.frame = f /\ fast'.pc = "decode" /\ fastQ' = Tail(fastQ)
    BY <2>1, <2>2 DEF FastFetches
  <2>4. Held(fast') = 1
    BY <2>1, <2>3 DEF Held
  <2>5. /\ Len(fastQ') = n - 1 /\ DOMAIN fastQ' = 1 .. n - 1
        /\ \A i \in 1 .. n - 1 : fastQ'[i] = fastQ[i + 1]
        /\ NoRepeat(fastQ') /\ InSeq(fastQ') = InSeq(fastQ) \ {f}
    <3> HIDE DEF n
    <3> QED
      BY <1>1, <1>3, <2>3, TailFacts DEF n
  <2>6. Hands'
    BY <2>1, <2>3 DEF Hands
  <2>7. Placed'
    <3>1. Len(captureQ') + Len(fastQ') + Len(longQ') + Held(fast') + Held(long') = NumBuffers
      BY <1>1, <2>4, <2>5
    <3> QED
      BY <1>1, <2>1, <2>3, <2>5, <3>1 DEF Placed
  <2>8. \A i, j \in DOMAIN fastQ' : fastQ'[i] \in earlier'[fastQ'[j]] <=> i < j
    <3> SUFFICES ASSUME NEW i \in 1 .. n - 1, NEW j \in 1 .. n - 1
                 PROVE  fastQ'[i] \in earlier'[fastQ'[j]] <=> i < j
      BY <2>5
    <3>1. /\ i + 1 \in DOMAIN fastQ /\ j + 1 \in DOMAIN fastQ
          /\ i + 1 < j + 1 <=> i < j
      BY <1>1
    <3> QED
      BY <2>5, <3>1, ZenonT(60)
  <2>9. ASSUME NEW c \in InSeq(fastQ'), NEW d \in Buffers \ InSeq(fastQ')
        PROVE  d \in earlier'[c] <=> d = f \/ d \in Front'
    <3>1. c \in InSeq(fastQ) /\ c # f
      BY <2>5
    <3>2. CASE d = f
      <4>1. PICK j \in 1 .. n : fastQ[j] = c
        BY <1>1, <3>1, SeqFacts
      <4>2. 1 < j
        BY <1>1, <3>1, <4>1
      <4> QED
        BY <1>1, <2>1, <3>2, <4>1, <4>2
    <3>3. CASE d # f
      BY <2>5, <3>1, <3>3
    <3> QED
      BY <3>2, <3>3
  <2>10. earlier'[f] = Front'
    <3>1. ASSUME NEW d \in InSeq(fastQ) PROVE d \notin earlier'[f]
      <4>1. PICK i \in 1 .. n : fastQ[i] = d
        BY <1>1, SeqFacts
      <4>2. ~(i < 1)
        BY <1>1
      <4> QED
        BY <1>1, <2>1, <4>1, <4>2
    <3>2. \A d \in Buffers \ InSeq(fastQ) : d \in earlier'[f] <=> d \in Front'
      BY <2>1
    <3>3. earlier'[f] \subseteq Buffers
      BY <2>1
    <3>4. \A d \in Buffers : d \in earlier'[f] <=> d \in Front'
      BY <3>1, <3>2
    <3>5. Front' \subseteq Buffers
      OBVIOUS
    <3> HIDE DEF f
    <3> QED
      BY <3>3, <3>4, <3>5
  <2>11. InOrder'
    BY <2>3, <2>8, <2>9, <2>10 DEF InOrder
  <2> QED
    BY <2>6, <2>7, <2>11 DEF PlacesInv
<1> QED
  BY <1>2, <1>3

LEMMA FastResumePlaces ==
  ASSUME IInv, FastResume
  PROVE  PlacesInv'
<1>1. TypeOK /\ Hands /\ Placed /\ InOrder
  BY DEF IInv
<1>2. fast.frame = None /\ FastFetches /\ UNCHANGED <<captureQ, longQ, earlier, longBusy, long>>
  BY <1>1 DEF Hands, FastResume, control
<1>3. Front' = Front /\ Held(long') = Held(long) /\ Held(long) \in Nat /\ Held(fast) = 0
  BY <1>2 DEF Front, HandOf, Held
<1>4. Len(captureQ) + Len(fastQ) + Len(longQ) + Held(long) = NumBuffers
  <2>1. Len(captureQ) \in Nat /\ Len(fastQ) \in Nat /\ Len(longQ) \in Nat
    BY <1>1, QueueFacts
  <2> QED
    BY <1>1, <1>3, <2>1 DEF Placed
<1>5. \A b \in Buffers : b # fast.frame
  BY <1>2, Constants
<1> QED
  BY <1>1, <1>2, <1>3, <1>4, <1>5, QueueFacts, FetchPlaces DEF Hands, Placed, InOrder

\* The frame of the fast thread is given up.
LEMMA FastReleasesPlaces ==
  ASSUME IInv, FastReleases
  PROVE  PlacesInv'
<1> DEFINE g == fast.frame
<1>1. TypeOK /\ Hands /\ Placed /\ InOrder
  BY DEF IInv
<1>2. /\ g # None /\ FastFetches /\ UNCHANGED <<longQ, longBusy, long>>
      /\ captureQ' = captureQ \o <<g>> /\ earlier' = EarlierWithout(<<g>>)
  BY <1>1 DEF Hands, FastReleases, Releases, control
<1>3. g \in Buffers
  BY <1>1, <1>2, QueueFacts
<1>4. InSeq(<<g>>) = {g}
  BY <1>1, <1>3, ReleaseOfOne
<1>5. g \notin InSeq(captureQ) /\ g \notin InSeq(fastQ) /\ g \notin Front
  BY <1>1 DEF Placed
<1>6. /\ captureQ' \in Seq(Buffers) /\ Len(captureQ') = Len(captureQ) + 1
      /\ InSeq(captureQ') = InSeq(captureQ) \cup {g} /\ NoRepeat(captureQ')
  <2>1. captureQ' = Append(captureQ, g)
    BY <1>1, <1>2, <1>3, QueueFacts, AppendFacts
  <2> HIDE DEF g
  <2> QED
    BY <1>1, <1>3, <1>5, <2>1, QueueFacts, AppendFacts DEF Placed
<1>7. /\ Front' = Front /\ Held(long') = Held(long) /\ Held(long) \in Nat /\ Held(fast) = 1
      /\ Len(captureQ') \in Nat /\ longQ' = longQ /\ Len(longQ) \in Nat /\ Len(fastQ) \in Nat
  BY <1>1, <1>2, <1>6, QueueFacts DEF Front, HandOf, Held
<1>8. Len(captureQ') + Len(fastQ) + Len(longQ') + Held(long') = NumBuffers
  <2>1. Len(captureQ) \in Nat
    BY <1>1, QueueFacts
  <2> QED
    BY <1>1, <1>6, <1>7, <2>1 DEF Placed
<1>9. /\ earlier' \in [Buffers -> SUBSET Buffers]
      /\ \A c \in Buffers : earlier'[c] = IF c = g THEN {} ELSE earlier[c] \ {g}
  BY <1>1, <1>2, <1>4, QueueFacts DEF EarlierWithout
<1>10. \A i, j \in DOMAIN fastQ : fastQ[i] \in earlier'[fastQ[j]] <=> i < j
  <2>1. \A i \in DOMAIN fastQ : fastQ[i] # g /\ fastQ[i] \in Buffers
    BY <1>1, <1>5, QueueFacts
  <2> QED
    BY <1>1, <1>9, <2>1 DEF InOrder
<1>11. \A c \in InSeq(fastQ), d \in Buffers \ InSeq(fastQ) : d \in earlier'[c] <=> d \in Front'
  <2>1. \A c \in InSeq(fastQ) : c # g /\ c \in Buffers
    BY <1>1, <1>5, QueueFacts
  <2> QED
    BY <1>1, <1>5, <1>7, <1>9, <2>1 DEF InOrder
<1>12. \A b \in InSeq(captureQ') \cup Front' : earlier'[b] = {}
  <2>1. ASSUME NEW b \in InSeq(captureQ) \cup Front PROVE earlier'[b] = {}
    <3>1. b \in Buffers /\ earlier[b] = {}
      BY <1>1, QueueFacts DEF InOrder
    <3> QED
      BY <1>9, <3>1
  <2>2. earlier'[g] = {}
    BY <1>3, <1>9
  <2> QED
    BY <1>6, <1>7, <2>1, <2>2
<1>13. /\ \A b \in InSeq(captureQ') : b \notin InSeq(fastQ) /\ b \notin Front'
       /\ \A b \in InSeq(fastQ) : b \notin Front'
       /\ \A b \in Buffers : b \in InSeq(captureQ') \/ b \in InSeq(fastQ) \/ b \in Front'
       /\ InSeq(captureQ') \subseteq Buffers /\ Front' \subseteq Buffers /\ NoRepeat(fastQ)
  BY <1>1, <1>3, <1>5, <1>6, <1>7, QueueFacts DEF Placed
<1>14. /\ long'.frame # None <=> long'.pc \in {"search", "save", "finish"}
       /\ longBusy' <=> long'.frame # None
       /\ longBusy' => longQ' = <<>>
       /\ Len(longQ') <= 1
  BY <1>1, <1>2 DEF Hands
<1> QED
  BY <1>1, <1>2, <1>6, <1>7, <1>8, <1>9, <1>10, <1>11, <1>12, <1>13, <1>14, FetchPlaces

\* What waits for the long thread is the only one, if it waits at all.
LEMMA FrontFacts ==
  ASSUME TypeOK, Hands
  PROVE  /\ longQ = <<>> \/ (Len(longQ) = 1 /\ longQ[1] \in Buffers /\ InSeq(longQ) = {longQ[1]}
                             /\ Newest(longQ) = longQ[1] /\ Older(longQ) = <<>>)
         /\ longQ = <<>> => InSeq(longQ) = {} /\ Len(longQ) = 0
         /\ longQ # <<>> => long.frame = None /\ Front = {longQ[1]}
         /\ longQ = <<>> => Front = HandOf(long)
<1>1. longQ \in Seq(Buffers) /\ Len(longQ) \in Nat /\ Len(longQ) <= 1
  BY QueueFacts DEF Hands
<1>2. longQ = <<>> => InSeq(longQ) = {} /\ Len(longQ) = 0
  BY <1>1, SeqFacts
<1>3. longQ = <<>> \/ (Len(longQ) = 1 /\ longQ[1] \in Buffers /\ InSeq(longQ) = {longQ[1]}
                       /\ Newest(longQ) = longQ[1] /\ Older(longQ) = <<>>)
  <2> SUFFICES ASSUME longQ # <<>>
               PROVE  Len(longQ) = 1 /\ longQ[1] \in Buffers /\ InSeq(longQ) = {longQ[1]}
                      /\ Newest(longQ) = longQ[1] /\ Older(longQ) = <<>>
    OBVIOUS
  <2>1. Len(longQ) = 1
    BY <1>1, SeqFacts, SMTT(30)
  <2>2. longQ[1] \in Buffers /\ InSeq(longQ) = {longQ[1]}
    BY <1>1, <2>1, SeqFacts
  <2> QED
    BY <1>1, <2>1, <2>2, OlderFacts DEF Newest
<1>4. longQ # <<>> => long.frame = None
  BY DEF Hands
<1> QED
  BY <1>2, <1>3, <1>4 DEF Front, HandOf

\* The frame of the fast thread waits for the long one, in the place of the
\* one that did.
LEMMA QueuesLongPlaces ==
  ASSUME IInv, FastQueuesLong
  PROVE  PlacesInv'
<1> DEFINE g == fast.frame
           R == IF longQ = <<>> THEN <<>> ELSE <<longQ[1]>>
<1>1. TypeOK /\ Hands /\ Placed /\ InOrder
  BY DEF IInv
<1>2. /\ g # None /\ FastFetches /\ ~longBusy /\ UNCHANGED longBusy
      /\ longQ' = Append(<<>>, g) /\ long' = Signalled(long)
      /\ captureQ' = captureQ \o R /\ earlier' = EarlierWithout(R)
  BY <1>1, FrontFacts DEF Hands, FastQueuesLong, WantsLong, Releases, control
<1>3. g \in Buffers /\ g \notin InSeq(captureQ) /\ g \notin InSeq(fastQ) /\ g \notin Front
  BY <1>1, <1>2, QueueFacts DEF Placed
<1>4. long.frame = None /\ long'.frame = None /\ HandOf(long) = {} /\ HandOf(long') = {}
      /\ long'.pc \notin {"search", "save", "finish"} /\ Held(long) = 0 /\ Held(long') = 0
  BY <1>1, <1>2, SignalledFacts DEF Hands, HandOf, Held
<1>5. Front = InSeq(longQ) /\ InSeq(R) = InSeq(longQ) /\ Len(longQ) \in {0, 1}
  BY <1>1, <1>4, FrontFacts, ReleaseOfNone, ReleaseOfOne DEF Front
<1>6. longQ' = <<g>> /\ Len(longQ') = 1 /\ InSeq(longQ') = {g}
  <2>1. InSeq(<<g>>) = {g}
    BY <1>1, <1>3, ReleaseOfOne
  <2>2. longQ' = Append(<<>>, g)
    BY <1>2
  <2> HIDE DEF g
  <2>3. Append(<<>>, g) = <<g>> /\ Len(<<g>>) = 1
    OBVIOUS
  <2> QED
    BY <2>1, <2>2, <2>3
<1>7. Front' = {g}
  BY <1>4, <1>6 DEF Front
<1>8. /\ captureQ' \in Seq(Buffers) /\ Len(captureQ') = Len(captureQ) + Len(longQ)
      /\ InSeq(captureQ') = InSeq(captureQ) \cup InSeq(longQ) /\ NoRepeat(captureQ')
  <2>1. captureQ \in Seq(Buffers) /\ NoRepeat(captureQ) /\ Len(captureQ) \in Nat
    BY <1>1, QueueFacts DEF Placed
  <2>2. CASE longQ = <<>>
    <3>1. captureQ' = captureQ /\ InSeq(longQ) = {} /\ Len(longQ) = 0
      BY <1>1, <1>2, <2>1, <2>2, FrontFacts, ConcatEmptySeq
    <3> QED
      BY <2>1, <3>1
  <2>3. CASE longQ # <<>>
    <3> DEFINE x == longQ[1]
    <3>1. x \in Buffers /\ InSeq(longQ) = {x} /\ Len(longQ) = 1 /\ x \notin InSeq(captureQ)
      BY <1>1, <1>5, <2>3, FrontFacts DEF Placed
    <3>2. captureQ' = captureQ \o <<x>>
      BY <1>2, <2>3
    <3> HIDE DEF x
    <3>3. captureQ' = Append(captureQ, x)
      BY <2>1, <3>1, <3>2, AppendFacts
    <3> QED
      BY <2>1, <3>1, <3>3, AppendFacts
  <2> QED
    BY <2>2, <2>3
<1>9. Len(captureQ') + Len(fastQ) + Len(longQ') + Held(long') = NumBuffers
  <2>1. Len(captureQ) \in Nat /\ Len(fastQ) \in Nat /\ Held(fast) = 1
    BY <1>1, <1>2, QueueFacts DEF Held
  <2> QED
    BY <1>1, <1>4, <1>5, <1>6, <1>8, <2>1 DEF Placed
<1>10. /\ earlier' \in [Buffers -> SUBSET Buffers]
       /\ \A c \in Buffers : earlier'[c] = IF c \in Front THEN {} ELSE earlier[c] \ Front
  BY <1>1, <1>2, <1>5, QueueFacts DEF EarlierWithout
<1>11. \A c \in InSeq(fastQ) : c # g /\ c \notin Front /\ c \in Buffers
  BY <1>1, <1>3, QueueFacts DEF Placed
<1>12. \A i, j \in DOMAIN fastQ : fastQ[i] \in earlier'[fastQ[j]] <=> i < j
  <2>1. \A i \in DOMAIN fastQ : fastQ[i] \notin Front /\ fastQ[i] \in Buffers
    BY <1>1, <1>11, QueueFacts
  <2> QED
    BY <1>1, <1>10, <2>1 DEF InOrder
<1>13. \A c \in InSeq(fastQ), d \in Buffers \ InSeq(fastQ) : d \in earlier'[c] <=> d \in Front'
  BY <1>1, <1>3, <1>7, <1>10, <1>11 DEF InOrder
<1>14. \A b \in InSeq(captureQ') \cup Front' : earlier'[b] = {}
  <2>1. ASSUME NEW b \in InSeq(captureQ) PROVE earlier'[b] = {}
    <3>1. b \in Buffers /\ earlier[b] = {}
      BY <1>1, QueueFacts DEF InOrder
    <3> QED
      BY <1>10, <3>1
  <2>2. ASSUME NEW b \in InSeq(longQ) PROVE earlier'[b] = {}
    BY <1>1, <1>5, <1>10, QueueFacts
  <2>3. earlier'[g] = {}
    <3>1. earlier[g] = Front
      BY <1>1, <1>2 DEF InOrder
    <3> QED
      BY <1>3, <1>10, <3>1
  <2> QED
    BY <1>7, <1>8, <2>1, <2>2, <2>3
<1>15. /\ \A b \in InSeq(captureQ') : b \notin InSeq(fastQ) /\ b \notin Front'
       /\ \A b \in InSeq(fastQ) : b \notin Front'
       /\ \A b \in Buffers : b \in InSeq(captureQ') \/ b \in InSeq(fastQ) \/ b \in Front'
       /\ InSeq(captureQ') \subseteq Buffers /\ Front' \subseteq Buffers /\ NoRepeat(fastQ)
  BY <1>1, <1>3, <1>5, <1>7, <1>8, QueueFacts DEF Placed
<1>16. Len(captureQ') \in Nat /\ Len(longQ') \in Nat /\ Held(long') \in Nat
  BY <1>4, <1>6, <1>8, SeqFacts
<1>17. /\ long'.frame # None <=> long'.pc \in {"search", "save", "finish"}
       /\ longBusy' <=> long'.frame # None
       /\ longBusy' => longQ' = <<>>
       /\ Len(longQ') <= 1
  BY <1>2, <1>4, <1>6
<1> HIDE DEF g, R
<1> QED
  BY <1>1, <1>2, <1>8, <1>9, <1>10, <1>12, <1>13, <1>14, <1>15, <1>16, <1>17, FetchPlaces

\* The long thread has given up the frame g, if any, and takes the one that
\* waits.
LEMMA LongPlaces ==
  ASSUME IInv, LongResume \/ LongFinish
  PROVE  PlacesInv'
<1> DEFINE R == IF long.frame = None THEN <<>> ELSE <<long.frame>>
           takes == ~shutdown /\ longQ # <<>>
<1>1. TypeOK /\ Hands /\ Placed /\ InOrder
  BY DEF IInv
<1>2. LongFetches(R) /\ UNCHANGED <<fastQ, fast>>
  BY <1>1 DEF Hands, LongResume, LongFinish
<1>3. /\ captureQ' = captureQ \o R /\ earlier' = EarlierWithout(R)
      /\ takes => /\ long' = Thread("search", longQ[1], camera.have)
                  /\ longBusy' = TRUE /\ longQ' = <<>> /\ long.frame = None
      /\ ~takes => /\ long' \in {Done, Waiting} /\ longBusy' = FALSE /\ longQ' = longQ
  <2>1. CASE takes
    <3>1. Newest(longQ) = longQ[1] /\ Older(longQ) = <<>> /\ long.frame = None
      BY <1>1, <2>1, FrontFacts
    <3>2. R \o <<>> = R
      BY <3>1
    <3> QED
      BY <1>2, <2>1, <3>1, <3>2 DEF LongFetches, Releases
  <2>2. CASE ~takes
    BY <1>2, <2>2 DEF LongFetches, Releases
  <2> QED
    BY <2>1, <2>2
<1>4. InSeq(R) = HandOf(long)
  <2>1. CASE long.frame = None
    BY <1>1, <2>1, ReleaseOfNone DEF HandOf
  <2>2. CASE long.frame # None
    <3>1. long.frame \in Buffers
      BY <1>1, <2>2, QueueFacts
    <3>2. InSeq(<<long.frame>>) = {long.frame}
      BY <1>1, <3>1, ReleaseOfOne
    <3> QED
      BY <2>2, <3>2 DEF HandOf
  <2> QED
    BY <2>1, <2>2
<1>5. /\ HandOf(long) \subseteq Buffers /\ HandOf(long) \subseteq Front
      /\ \A b \in HandOf(long) : b \notin InSeq(captureQ) /\ b \notin InSeq(fastQ) /\ b # fast.frame
  BY <1>1, QueueFacts DEF Placed, Front, HandOf
<1>6. /\ captureQ' \in Seq(Buffers) /\ Len(captureQ') = Len(captureQ) + Held(long)
      /\ InSeq(captureQ') = InSeq(captureQ) \cup HandOf(long) /\ NoRepeat(captureQ')
  <2>1. captureQ \in Seq(Buffers) /\ NoRepeat(captureQ) /\ Len(captureQ) \in Nat
    BY <1>1, QueueFacts DEF Placed
  <2>2. CASE long.frame = None
    <3>1. captureQ' = captureQ
      BY <1>3, <2>1, <2>2, ConcatEmptySeq
    <3> QED
      BY <2>1, <2>2, <3>1 DEF HandOf, Held
  <2>3. CASE long.frame # None
    <3> DEFINE x == long.frame
    <3>1. x \in Buffers /\ HandOf(long) = {x} /\ Held(long) = 1 /\ x \notin InSeq(captureQ)
      BY <1>1, <1>5, <2>3, QueueFacts DEF HandOf, Held
    <3>2. captureQ' = captureQ \o <<x>>
      BY <1>3, <2>3
    <3> HIDE DEF x
    <3>3. captureQ' = Append(captureQ, x)
      BY <2>1, <3>1, <3>2, AppendFacts
    <3> QED
      BY <2>1, <3>1, <3>3, AppendFacts
  <2> QED
    BY <2>2, <2>3
<1>7. /\ Hands' /\ Len(longQ') + Held(long') = Len(longQ)
      /\ Front' = InSeq(longQ)
  <2>1. CASE takes
    <3>1. /\ Len(longQ) = 1 /\ longQ[1] \in Buffers /\ longQ[1] # None /\ InSeq(longQ) = {longQ[1]}
      BY <1>1, <2>1, FrontFacts, Constants
    <3>2. long'.frame = longQ[1] /\ long'.pc = "search" /\ Len(longQ') = 0 /\ InSeq(longQ') = {}
      BY <1>3, <2>1, ReleaseOfNone, <1>1 DEF Thread
    <3>3. Held(long') = 1 /\ HandOf(long') = {longQ[1]}
      BY <3>1, <3>2 DEF Held, HandOf
    <3>4. Hands'
      BY <1>1, <1>2, <1>3, <2>1, <3>1, <3>2 DEF Hands
    <3> QED
      BY <3>1, <3>2, <3>3, <3>4 DEF Front
  <2>2. CASE ~takes
    <3>1. long'.frame = None /\ long'.pc \in {"done", "wait"} /\ longQ' = longQ
      BY <1>3, <2>2 DEF Done, Waiting, Thread
    <3>2. Held(long') = 0 /\ HandOf(long') = {}
      BY <3>1 DEF Held, HandOf
    <3>3. Hands'
      BY <1>1, <1>2, <1>3, <2>2, <3>1 DEF Hands
    <3> QED
      BY <1>1, <3>1, <3>2, <3>3, QueueFacts DEF Front
  <2> QED
    BY <2>1, <2>2
<1>8. Front = InSeq(longQ) \cup HandOf(long)
  BY DEF Front
<1>9. \A b \in HandOf(long) : b \notin InSeq(longQ)
  BY <1>1, FrontFacts DEF HandOf
<1>10. Placed'
  <2>1. Len(captureQ') + Len(fastQ') + Len(longQ') + Held(fast') + Held(long') = NumBuffers
    <3>1. /\ Len(captureQ) \in Nat /\ Len(fastQ) \in Nat /\ Len(longQ) \in Nat /\ Held(fast) \in Nat
          /\ Held(long) \in Nat /\ Held(long') \in Nat /\ Held(fast') = Held(fast)
      BY <1>1, <1>2, QueueFacts DEF Held
    <3>2. Len(longQ') \in Nat
      BY <1>1, <1>3, QueueFacts, EmptySeq
    <3>3. Len(captureQ) + Len(fastQ) + Len(longQ) + Held(fast) + Held(long) = NumBuffers
      BY <1>1 DEF Placed
    <3>4. Len(captureQ') = Len(captureQ) + Held(long) /\ Len(longQ') + Held(long') = Len(longQ)
      BY <1>6, <1>7
    <3>5. fastQ' = fastQ /\ Len(captureQ') \in Nat
      BY <1>2, <3>1, <3>4
    <3>6. Len(fastQ') = Len(fastQ) /\ Len(fastQ') \in Nat
      BY <3>1, <3>5
    <3>7. Len(captureQ) + Len(fastQ) + (Len(longQ') + Held(long')) + Held(fast') + Held(long) = NumBuffers
      BY <3>1, <3>3, <3>4
    <3>8. (Len(captureQ) + Held(long)) + Len(fastQ) + Len(longQ') + Held(fast') + Held(long') = NumBuffers
      BY <3>1, <3>2, <3>7
    <3>9. Len(captureQ') + Len(fastQ) + Len(longQ') + Held(fast') + Held(long') = NumBuffers
      BY <3>4, <3>8
    <3> QED
      BY <3>6, <3>9
  <2> QED
    BY <1>1, <1>2, <1>5, <1>6, <1>7, <1>8, <1>9, <2>1 DEF Placed
<1>11. /\ earlier' \in [Buffers -> SUBSET Buffers]
       /\ \A c \in Buffers : earlier'[c] = IF c \in HandOf(long) THEN {} ELSE earlier[c] \ HandOf(long)
  BY <1>1, <1>3, <1>4, QueueFacts DEF EarlierWithout
<1>12. InOrder'
  <2>1. \A c \in InSeq(fastQ) : c \notin HandOf(long) /\ c \in Buffers
    BY <1>1, <1>5, QueueFacts
  <2>2. \A i, j \in DOMAIN fastQ : fastQ[i] \in earlier'[fastQ[j]] <=> i < j
    <3>1. \A i \in DOMAIN fastQ : fastQ[i] \in InSeq(fastQ)
      BY <1>1, QueueFacts
    <3> QED
      BY <1>1, <1>11, <2>1, <3>1 DEF InOrder
  <2>3. \A c \in InSeq(fastQ), d \in Buffers \ InSeq(fastQ) :
          d \in earlier'[c] <=> d = fast.frame \/ d \in Front'
    <3> SUFFICES ASSUME NEW c \in InSeq(fastQ), NEW d \in Buffers \ InSeq(fastQ)
                 PROVE  d \in earlier'[c] <=> d = fast.frame \/ d \in Front'
      OBVIOUS
    <3>1. d \in earlier[c] <=> d = fast.frame \/ d \in Front
      BY <1>1 DEF InOrder
    <3>2. d \in earlier'[c] <=> d \in earlier[c] /\ d \notin HandOf(long)
      BY <1>11, <2>1
    <3> QED
      BY <1>5, <1>7, <1>8, <1>9, <3>1, <3>2
  <2>4. fast.frame # None => earlier'[fast.frame] = Front'
    <3> SUFFICES ASSUME fast.frame # None PROVE earlier'[fast.frame] = Front'
      OBVIOUS
    <3>1. fast.frame \in Buffers /\ fast.frame \notin HandOf(long) /\ earlier[fast.frame] = Front
      BY <1>1, <1>5, QueueFacts DEF InOrder
    <3>2. earlier'[fast.frame] = Front \ HandOf(long)
      BY <1>11, <3>1
    <3> QED
      BY <1>7, <1>8, <1>9, <3>2
  <2>5. \A b \in InSeq(captureQ') \cup Front' : earlier'[b] = {}
    <3> SUFFICES ASSUME NEW b \in InSeq(captureQ) \cup Front PROVE earlier'[b] = {}
      BY <1>5, <1>6, <1>7, <1>8
    <3>1. b \in Buffers /\ earlier[b] = {}
      BY <1>1, QueueFacts DEF InOrder
    <3> QED
      BY <1>11, <3>1
  <2> QED
    BY <1>2, <2>2, <2>3, <2>4, <2>5 DEF InOrder
<1> QED
  BY <1>7, <1>10, <1>12 DEF PlacesInv

-----------------------------------------------------------------------------
(***************************************************************************)
(* Who holds an observation, and what becomes of the observations.         *)
(***************************************************************************)
BufType == [vframe : {"none", "uvc", "jpeg"}, obs : Obs \cup {None}, need : BOOLEAN]

LEMMA SmallSets ==
  ASSUME NEW d, NEW e, NEW S
  PROVE  /\ S \subseteq {d} => IsFiniteSet(S) /\ Cardinality(S) \in Nat /\ Cardinality(S) <= 1
         /\ S \subseteq {d, e} => IsFiniteSet(S) /\ Cardinality(S) \in Nat /\ Cardinality(S) <= 2
<1>1. IsFiniteSet({d}) /\ Cardinality({d}) = 1
  BY FS_Singleton
<1>2. /\ IsFiniteSet({d, e}) /\ Cardinality({d, e}) \in Nat
      /\ Cardinality({d, e}) = 1 \/ Cardinality({d, e}) = 2
  <2>1. {d, e} = {d} \cup {e}
    OBVIOUS
  <2>2. /\ IsFiniteSet({d} \cup {e})
        /\ Cardinality({d} \cup {e}) = IF e \in {d} THEN 1 ELSE 1 + 1
    BY <1>1, FS_AddElement
  <2> QED
    BY <2>1, <2>2
<1>3. ASSUME S \subseteq {d}
      PROVE  IsFiniteSet(S) /\ Cardinality(S) \in Nat /\ Cardinality(S) <= 1
  BY <1>1, <1>3, FS_Subset, FS_CardinalityType
<1>4. ASSUME S \subseteq {d, e}
      PROVE  IsFiniteSet(S) /\ Cardinality(S) \in Nat /\ Cardinality(S) <= 2
  <2>1. IsFiniteSet(S) /\ Cardinality(S) <= Cardinality({d, e}) /\ Cardinality(S) \in Nat
    BY <1>2, <1>4, FS_Subset, FS_CardinalityType
  <2> QED
    BY <1>2, <2>1
<1> QED
  BY <1>3, <1>4

LEMMA FrontSmall ==
  ASSUME TypeOK, Hands
  PROVE  \E d : Front \subseteq {d}
<1>1. CASE longQ # <<>>
  BY <1>1, FrontFacts
<1>2. CASE longQ = <<>>
  <2>1. Front \subseteq {long.frame}
    BY <1>2, FrontFacts DEF HandOf
  <2> QED
    BY <2>1
<1> QED
  BY <1>1, <1>2

\* At most two buffers hold an observation, and only one while the fast thread
\* has none.
LEMMA Holders ==
  ASSUME TypeOK, Hands, Placed, Marked
  PROVE  LET H == {b \in Buffers : HoldsObs(b)}
         IN  /\ IsFiniteSet(H) /\ Cardinality(H) \in Nat /\ Cardinality(H) <= 2
             /\ (fast.frame \in Buffers /\ HoldsObs(fast.frame)) \/ Cardinality(H) <= 1
<1> DEFINE H == {b \in Buffers : HoldsObs(b)}
<1>1. PICK d : Front \subseteq {d}
  BY FrontSmall
<1>2. \A b \in Buffers : HoldsObs(b) => b = fast.frame \/ b \in Front
  BY DEF Placed, Marked
<1>3. H \subseteq {fast.frame, d}
  BY <1>1, <1>2
<1>4. (fast.frame \in Buffers /\ HoldsObs(fast.frame)) \/ H \subseteq {d}
  BY <1>1, <1>2
<1> HIDE DEF H
<1>5. IsFiniteSet(H) /\ Cardinality(H) \in Nat /\ Cardinality(H) <= 2
  BY <1>3, SmallSets
<1>6. H \subseteq {d} => Cardinality(H) <= 1
  BY SmallSets
<1> QED
  BY <1>4, <1>5, <1>6 DEF H

LEMMA ObservedKept ==
  ASSUME Observed, UNCHANGED <<obsQ, lastObs>>, \A b \in Buffers : buf'[b].obs = buf[b].obs
  PROVE  Observed'
<1>1. {b \in Buffers : HoldsObs(b)}' = {b \in Buffers : HoldsObs(b)}
  BY DEF HoldsObs
<1> QED
  BY <1>1, ZenonT(60) DEF Observed, HoldsObs

\* Buffer b gives its observation back, if it has one.
LEMMA ObservedReturned ==
  ASSUME TypeOK, Hands, Placed, Marked, Observed, NEW b \in Buffers,
         \A c \in Buffers : c # b => buf'[c].obs = buf[c].obs,
         buf'[b].obs = None, lastObs' = lastObs,
         obsQ' = obsQ \o (IF HoldsObs(b) THEN <<buf[b].obs>> ELSE <<>>)
  PROVE  Observed' /\ obsQ' \in Seq(Obs)
<1>1. obsQ \in Seq(Obs)
  BY DEF TypeOK
<1>2. CASE ~HoldsObs(b)
  <2>1. obsQ' = obsQ
    BY <1>1, <1>2, ConcatEmptySeq
  <2>2. \A c \in Buffers : buf'[c].obs = buf[c].obs
    BY <1>2 DEF HoldsObs
  <2> QED
    BY <1>1, <2>1, <2>2, ObservedKept
<1>3. CASE HoldsObs(b)
  <2> DEFINE o == buf[b].obs
             H == {c \in Buffers : HoldsObs(c)}
             K == {c \in Buffers : buf'[c].obs # None}
  <2>1. o \in Obs /\ o \notin InSeq(obsQ)
    BY <1>3 DEF HoldsObs, TypeOK, Observed
  <2>2. /\ obsQ' = Append(obsQ, o) /\ obsQ' \in Seq(Obs) /\ Len(obsQ') = Len(obsQ) + 1
        /\ InSeq(obsQ') = InSeq(obsQ) \cup {o} /\ NoRepeat(obsQ')
        /\ \A i \in 1 .. Len(obsQ) : obsQ'[i] = obsQ[i]
    <3>1. obsQ' = obsQ \o <<o>> /\ NoRepeat(obsQ)
      BY <1>3 DEF Observed
    <3> HIDE DEF o
    <3>2. obsQ' = Append(obsQ, o)
      BY <1>1, <2>1, <3>1, AppendFacts
    <3>3. /\ Append(obsQ, o) \in Seq(Obs) /\ Len(Append(obsQ, o)) = Len(obsQ) + 1
          /\ InSeq(Append(obsQ, o)) = InSeq(obsQ) \cup {o} /\ NoRepeat(Append(obsQ, o))
          /\ \A i \in 1 .. Len(obsQ) : Append(obsQ, o)[i] = obsQ[i]
      BY <1>1, <2>1, <3>1, AppendFacts
    <3> QED
      BY <3>2, <3>3
  <2>3. K = H \ {b} /\ b \in H
    BY <1>3 DEF HoldsObs
  <2>4. /\ IsFiniteSet(H) /\ Cardinality(H) \in Nat /\ Cardinality(H) <= 2
        /\ Cardinality(K) = Cardinality(H) - 1
    <3>1. IsFiniteSet(H) /\ Cardinality(H) \in Nat /\ Cardinality(H) <= 2
      BY Holders
    <3> HIDE DEF H, K
    <3> QED
      BY <2>3, <3>1, FS_RemoveElement
  <2>5. Len(obsQ) \in Nat /\ Len(obsQ) + Cardinality(H) = NumObs
    BY <1>1, SeqFacts DEF Observed
  <2>6. Len(obsQ) > 0 /\ Len(obsQ') + Cardinality(K) = NumObs
    <3> HIDE DEF H, K
    <3> QED
      BY <2>2, <2>4, <2>5, Constants
  <2>7. Oldest(obsQ') # lastObs'
    <3>1. obsQ # <<>> /\ 1 \in 1 .. Len(obsQ)
      BY <1>1, <2>5, <2>6, SeqFacts
    <3> QED
      BY <2>2, <3>1 DEF Observed, Oldest
  <2>8. \A c \in Buffers : HoldsObs(c)' => buf'[c].obs \notin InSeq(obsQ')
    <3> SUFFICES ASSUME NEW c \in Buffers, HoldsObs(c)' PROVE buf'[c].obs \notin InSeq(obsQ')
      OBVIOUS
    <3>1. c # b /\ buf'[c].obs = buf[c].obs /\ HoldsObs(c)
      BY DEF HoldsObs
    <3>2. buf[c].obs \notin InSeq(obsQ) /\ buf[c].obs # o
      BY <3>1 DEF Observed
    <3> QED
      BY <2>2, <3>1, <3>2
  <2>9. \A c, d \in Buffers : HoldsObs(c)' /\ buf'[c].obs = buf'[d].obs => c = d
    <3> SUFFICES ASSUME NEW c \in Buffers, NEW d \in Buffers, HoldsObs(c)',
                        buf'[c].obs = buf'[d].obs
                 PROVE  c = d
      OBVIOUS
    <3>1. c # b /\ d # b /\ HoldsObs(c) /\ buf[c].obs = buf[d].obs
      BY DEF HoldsObs
    <3> QED
      BY <3>1 DEF Observed
  <2>10. \A x \in Obs : x \in InSeq(obsQ') \/ \E c \in Buffers : buf'[c].obs = x
    <3> SUFFICES ASSUME NEW x \in Obs, x \notin InSeq(obsQ')
                 PROVE  \E c \in Buffers : buf'[c].obs = x
      OBVIOUS
    <3>1. x \notin InSeq(obsQ) /\ x # o
      BY <2>2
    <3>2. PICK c \in Buffers : buf[c].obs = x
      BY <3>1 DEF Observed
    <3> QED
      BY <3>1, <3>2
  <2>11. K = {c \in Buffers : HoldsObs(c)'}
    BY DEF HoldsObs
  <2> QED
    BY <2>2, <2>6, <2>7, <2>8, <2>9, <2>10, <2>11 DEF Observed
<1> QED
  BY <1>2, <1>3

\* Buffer b, which has none, takes the oldest observation.
LEMMA ObservedTaken ==
  ASSUME TypeOK, Observed, NEW b \in Buffers, ~HoldsObs(b), obsQ # <<>>,
         \A c \in Buffers : c # b => buf'[c].obs = buf[c].obs,
         buf'[b].obs = obsQ[1], lastObs' = obsQ[1], obsQ' = Tail(obsQ)
  PROVE  Observed' /\ obsQ' \in Seq(Obs) /\ obsQ[1] \in Obs
<1> DEFINE o == obsQ[1]
           H == {c \in Buffers : HoldsObs(c)}
           K == {c \in Buffers : HoldsObs(c)'}
<1>1. obsQ \in Seq(Obs) /\ o \in Obs /\ o \in InSeq(obsQ) /\ o # None
  BY SeqFacts, Constants DEF TypeOK
<1>2. /\ obsQ' \in Seq(Obs) /\ Len(obsQ') = Len(obsQ) - 1 /\ Len(obsQ) \in Nat
      /\ NoRepeat(obsQ') /\ InSeq(obsQ') = InSeq(obsQ) \ {o}
  BY <1>1, TailFacts, SeqFacts DEF Observed
<1>3. K = H \cup {b} /\ b \notin H
  BY <1>1 DEF HoldsObs
<1>4. Cardinality(K) = Cardinality(H) + 1 /\ Cardinality(H) \in Nat
  <2>1. IsFiniteSet(H)
    BY Constants, FS_Subset
  <2> HIDE DEF H, K
  <2> QED
    BY <1>3, <2>1, FS_AddElement, FS_CardinalityType
<1>5. Len(obsQ') + Cardinality(K) = NumObs
  <2>1. Len(obsQ) + Cardinality(H) = NumObs
    BY DEF Observed
  <2> HIDE DEF H, K
  <2> QED
    BY <1>2, <1>4, <2>1
<1>6. obsQ' # <<>> => Oldest(obsQ') # lastObs'
  <2>1. obsQ' # <<>> => obsQ'[1] \in InSeq(obsQ')
    BY <1>2, SeqFacts
  <2> QED
    BY <1>2, <2>1 DEF Oldest
<1>7. \A c \in Buffers : HoldsObs(c)' => buf'[c].obs \notin InSeq(obsQ')
  <2> SUFFICES ASSUME NEW c \in Buffers, HoldsObs(c)', c # b
               PROVE  buf'[c].obs \notin InSeq(obsQ')
    BY <1>2
  <2>1. buf'[c].obs = buf[c].obs /\ HoldsObs(c)
    BY DEF HoldsObs
  <2> QED
    BY <1>2, <2>1 DEF Observed
<1>8. \A c, d \in Buffers : HoldsObs(c)' /\ buf'[c].obs = buf'[d].obs => c = d
  <2> SUFFICES ASSUME NEW c \in Buffers, NEW d \in Buffers, HoldsObs(c)',
                      buf'[c].obs = buf'[d].obs
               PROVE  c = d
    OBVIOUS
  <2>1. \A x \in Buffers : x # b => buf'[x].obs = buf[x].obs /\ buf[x].obs # o
    BY <1>1 DEF Observed, HoldsObs
  <2>2. CASE c = b
    BY <2>1, <2>2
  <2>3. CASE c # b
    <3>1. d # b
      BY <2>1, <2>3
    <3> QED
      BY <2>1, <2>3, <3>1 DEF Observed, HoldsObs
  <2> QED
    BY <2>2, <2>3
<1>9. \A x \in Obs : x \in InSeq(obsQ') \/ \E c \in Buffers : buf'[c].obs = x
  <2> SUFFICES ASSUME NEW x \in Obs, x \notin InSeq(obsQ')
               PROVE  \E c \in Buffers : buf'[c].obs = x
    OBVIOUS
  <2>1. CASE x = o
    BY <2>1
  <2>2. CASE x # o
    <3>1. PICK c \in Buffers : buf[c].obs = x
      BY <1>2, <2>2 DEF Observed
    <3>2. c # b
      BY <3>1, Constants DEF HoldsObs
    <3> QED
      BY <3>1, <3>2
  <2> QED
    BY <2>1, <2>2
<1> QED
  BY <1>1, <1>2, <1>5, <1>6, <1>7, <1>8, <1>9 DEF Observed

-----------------------------------------------------------------------------
(***************************************************************************)
(* The video frames of the stream and of the decoder.                      *)
(***************************************************************************)
PoolTypes ==
  /\ uvc \in [free : 0 .. NumVFrames, cur : BOOLEAN]
  /\ decoder \in [free : 0 .. MaxDecoded, alloced : 0 .. MaxDecoded]

LEMMA CountedKept ==
  ASSUME TypeOK, Counted, UNCHANGED <<uvc, decoder, main>>,
         \A c \in Buffers : buf'[c].vframe = buf[c].vframe
  PROVE  Counted' /\ PoolTypes'
<1>1. NumWith("uvc")' = NumWith("uvc") /\ NumWith("jpeg")' = NumWith("jpeg")
  BY NumWithSame
<1> QED
  BY <1>1 DEF TypeOK, Counted, PoolTypes

\* Buffer b gives its video frame back to the pool it came from.
LEMMA CountedReturned ==
  ASSUME TypeOK, Filled, Counted, NEW b \in Buffers, buf[b].vframe # "none",
         \A c \in Buffers : c # b => buf'[c].vframe = buf[c].vframe,
         buf'[b].vframe = "none", main' = main,
         uvc' = [uvc EXCEPT !.free = @ + (IF buf[b].vframe = "uvc" THEN 1 ELSE 0)],
         decoder' = [decoder EXCEPT !.free = @ + (IF buf[b].vframe = "jpeg" THEN 1 ELSE 0)]
  PROVE  Counted' /\ PoolTypes'
<1> DEFINE x == IF buf[b].vframe = "uvc" THEN 1 ELSE 0
           y == IF buf[b].vframe = "jpeg" THEN 1 ELSE 0
           cur == IF uvc.cur THEN 1 ELSE 0
<1>1. /\ NumWith("uvc") \in Nat /\ NumWith("uvc")' \in Nat
      /\ NumWith("jpeg") \in Nat /\ NumWith("jpeg")' \in Nat
      /\ NumWith("uvc")' = NumWith("uvc") - x /\ NumWith("jpeg")' = NumWith("jpeg") - y
  BY NumWithChange
<1>2. main # "new"
  BY DEF Filled
<1>3. /\ uvc.free \in Nat /\ uvc.cur \in BOOLEAN /\ decoder.free \in Nat
      /\ decoder.alloced \in 0 .. MaxDecoded /\ x \in {0, 1} /\ y \in {0, 1} /\ cur \in {0, 1}
      /\ uvc \in [free : Nat, cur : BOOLEAN] /\ decoder \in [free : Nat, alloced : 0 .. MaxDecoded]
  BY Constants DEF TypeOK
<1>4. /\ uvc'.free = uvc.free + x /\ uvc'.cur = uvc.cur
      /\ decoder'.free = decoder.free + y /\ decoder'.alloced = decoder.alloced
      /\ uvc' \in [free : Nat, cur : BOOLEAN] /\ decoder' \in [free : Nat, alloced : 0 .. MaxDecoded]
  BY <1>3
<1>5. /\ uvc.free + NumWith("uvc") + cur = NumVFrames
      /\ decoder.free + NumWith("jpeg") = decoder.alloced
  BY <1>2 DEF Counted
<1> HIDE DEF x, y
<1>6. /\ uvc'.free + NumWith("uvc")' + cur = NumVFrames
      /\ decoder'.free + NumWith("jpeg")' = decoder'.alloced
  BY <1>1, <1>3, <1>4, <1>5
<1>7. uvc'.free <= NumVFrames /\ decoder'.free <= MaxDecoded
  BY <1>1, <1>3, <1>4, <1>6, Constants
<1>8. PoolTypes'
  BY <1>4, <1>7, Constants DEF PoolTypes
<1> QED
  BY <1>2, <1>4, <1>6, <1>8 DEF Counted

\* Buffer b gets the video frame that was being filled, having given up the one
\* it had, if any.
LEMMA CountedAttached ==
  ASSUME TypeOK, Counted, NEW b \in Buffers, main = "running", main' = main, uvc.cur,
         \A c \in Buffers : c # b => buf'[c].vframe = buf[c].vframe,
         buf'[b].vframe = "uvc",
         uvc' = [free |-> uvc.free + (IF buf[b].vframe = "uvc" THEN 1 ELSE 0), cur |-> FALSE],
         decoder' = [decoder EXCEPT !.free = @ + (IF buf[b].vframe = "jpeg" THEN 1 ELSE 0)]
  PROVE  Counted' /\ PoolTypes'
<1> DEFINE x == IF buf[b].vframe = "uvc" THEN 1 ELSE 0
           y == IF buf[b].vframe = "jpeg" THEN 1 ELSE 0
<1>1. /\ NumWith("uvc") \in Nat /\ NumWith("uvc")' \in Nat
      /\ NumWith("jpeg") \in Nat /\ NumWith("jpeg")' \in Nat
      /\ NumWith("uvc")' = NumWith("uvc") + 1 - x /\ NumWith("jpeg")' = NumWith("jpeg") + 0 - y
  BY NumWithChange
<1>2. /\ uvc.free \in Nat /\ decoder.free \in Nat
      /\ decoder.alloced \in 0 .. MaxDecoded /\ x \in {0, 1} /\ y \in {0, 1}
      /\ decoder \in [free : Nat, alloced : 0 .. MaxDecoded]
  BY Constants DEF TypeOK
<1>3. /\ uvc'.free = uvc.free + x /\ uvc'.cur = FALSE
      /\ decoder'.free = decoder.free + y /\ decoder'.alloced = decoder.alloced
      /\ uvc' \in [free : Nat, cur : BOOLEAN] /\ decoder' \in [free : Nat, alloced : 0 .. MaxDecoded]
  BY <1>2
<1>4. /\ uvc.free + NumWith("uvc") + 1 = NumVFrames
      /\ decoder.free + NumWith("jpeg") = decoder.alloced
  BY DEF Counted
<1> HIDE DEF x, y
<1>5. /\ uvc'.free + NumWith("uvc")' + 0 = NumVFrames
      /\ decoder'.free + NumWith("jpeg")' = decoder'.alloced
  BY <1>1, <1>2, <1>3, <1>4
<1>6. uvc'.free <= NumVFrames /\ decoder'.free <= MaxDecoded
  BY <1>1, <1>2, <1>3, <1>5, Constants
<1>7. PoolTypes'
  BY <1>3, <1>6, Constants DEF PoolTypes
<1> QED
  BY <1>3, <1>5, <1>7 DEF Counted

\* While a frame is being decoded, one other buffer at most has a frame of the
\* decoder: what get_output_frame asserts.
LEMMA DecoderRoom ==
  ASSUME TypeOK, Hands, Placed, Filled, Counted, fast.pc = "decode"
  PROVE  /\ NumWith("jpeg") \in Nat /\ NumWith("jpeg") <= 1
         /\ decoder.free = 0 => decoder.alloced < MaxDecoded
<1> DEFINE J == {b \in Buffers : buf[b].vframe = "jpeg"}
<1>1. PICK d : Front \subseteq {d}
  BY FrontSmall
<1>2. J \subseteq Front
  BY DEF Placed, Filled, Hands
<1> HIDE DEF J
<1>3. Cardinality(J) \in Nat /\ Cardinality(J) <= 1
  BY <1>1, <1>2, SmallSets
<1>4. NumWith("jpeg") = Cardinality(J)
  BY DEF NumWith, J
<1>5. decoder.free \in Nat /\ decoder.alloced \in Nat
  BY Constants DEF TypeOK
<1> QED
  BY <1>3, <1>4, <1>5, Constants DEF Counted

-----------------------------------------------------------------------------
(***************************************************************************)
(* What the steps do to the pools, given what they do to the places.       *)
(***************************************************************************)

\* At most one buffer is released, one in use.
LEMMA ReleasedPools ==
  ASSUME IInv, NEW R, Releases(R), main' = main, lastObs' = lastObs,
         R = <<>> \/ \E b \in Buffers : R = <<b>> /\ b \notin InSeq(captureQ)
  PROVE  /\ captureQ' \in Seq(Buffers) /\ earlier' \in [Buffers -> SUBSET Buffers]
         /\ buf' \in [Buffers -> BufType] /\ obsQ' \in Seq(Obs) /\ PoolTypes'
         /\ InSeq(R) \subseteq Buffers
         /\ InSeq(captureQ') = InSeq(captureQ) \cup InSeq(R)
         /\ \A c \in Buffers : c \notin InSeq(R) => buf'[c] = buf[c]
         /\ \A c \in InSeq(R) : buf'[c].vframe = "none" /\ buf'[c].obs = None
         /\ \A c \in Buffers : buf'[c].vframe = "none" <=> c \in InSeq(captureQ')
         /\ main # "new" \/ (uvc' = uvc /\ \A c \in Buffers : buf'[c].vframe = "none")
         /\ Counted' /\ Observed'
<1>1. TypeOK /\ Hands /\ Placed /\ Filled /\ Counted /\ Observed /\ Marked
  BY DEF IInv
<1>2. /\ captureQ' = captureQ \o R /\ buf' = Cleared(R) /\ earlier' = EarlierWithout(R)
      /\ obsQ' = obsQ \o ObsReturned(R)
      /\ uvc' = [uvc EXCEPT !.free = @ + NumHolding(R, "uvc")]
      /\ decoder' = [decoder EXCEPT !.free = @ + NumHolding(R, "jpeg")]
  BY DEF Releases, ReleasesPools
<1>3. /\ captureQ \in Seq(Buffers) /\ obsQ \in Seq(Obs) /\ buf \in [Buffers -> BufType]
      /\ earlier \in [Buffers -> SUBSET Buffers]
      /\ uvc \in [free : Nat, cur : BOOLEAN] /\ decoder \in [free : Nat, alloced : Nat]
  BY <1>1, Constants DEF TypeOK, BufType
<1>4. earlier' \in [Buffers -> SUBSET Buffers]
  BY <1>2, <1>3 DEF EarlierWithout
<1>5. CASE R = <<>>
  <2>1. /\ InSeq(R) = {} /\ ObsReturned(R) = <<>> /\ Cleared(R) = buf
        /\ NumHolding(R, "uvc") = 0 /\ NumHolding(R, "jpeg") = 0
    BY <1>1, <1>5, ReleaseOfNone
  <2>2. /\ captureQ' = captureQ /\ buf' = buf /\ obsQ' = obsQ
    BY <1>2, <1>3, <1>5, <2>1, ConcatEmptySeq
  <2>3. uvc' = uvc /\ decoder' = decoder
    BY <1>2, <1>3, <2>1
  <2>4. Counted' /\ PoolTypes'
    BY <1>1, <2>2, <2>3, CountedKept
  <2>5. Observed'
    BY <1>1, <2>2, ObservedKept
  <2> QED
    BY <1>1, <1>3, <1>4, <2>1, <2>2, <2>3, <2>4, <2>5 DEF Filled
<1>6. ASSUME NEW b \in Buffers, R = <<b>>, b \notin InSeq(captureQ)
      PROVE  /\ captureQ' \in Seq(Buffers)
             /\ buf' \in [Buffers -> BufType] /\ obsQ' \in Seq(Obs) /\ PoolTypes'
             /\ InSeq(R) = {b}
             /\ InSeq(captureQ') = InSeq(captureQ) \cup {b}
             /\ \A c \in Buffers : c # b => buf'[c] = buf[c]
             /\ buf'[b].vframe = "none" /\ buf'[b].obs = None
             /\ main # "new"
             /\ Counted' /\ Observed'
  <2>1. /\ InSeq(R) = {b}
        /\ ObsReturned(R) = IF HoldsObs(b) THEN <<buf[b].obs>> ELSE <<>>
        /\ NumHolding(R, "uvc") = IF buf[b].vframe = "uvc" THEN 1 ELSE 0
        /\ NumHolding(R, "jpeg") = IF buf[b].vframe = "jpeg" THEN 1 ELSE 0
        /\ buf' \in [Buffers -> BufType]
        /\ \A c \in Buffers : c # b => buf'[c] = buf[c]
        /\ buf'[b] = [buf[b] EXCEPT !.vframe = "none", !.obs = None]
    BY <1>1, <1>2, <1>6, ReleaseOfOne DEF BufType
  <2>2. buf[b] \in BufType
    BY <1>3, <1>6
  <2>3. buf'[b].vframe = "none" /\ buf'[b].obs = None
    BY <2>1, <2>2 DEF BufType
  <2>4. buf[b].vframe # "none" /\ main # "new"
    BY <1>1, <1>6 DEF Filled
  <2>5. Counted' /\ PoolTypes'
    BY <1>1, <1>2, <1>6, <2>1, <2>3, <2>4, CountedReturned
  <2>6. Observed' /\ obsQ' \in Seq(Obs)
    BY <1>1, <1>2, <1>6, <2>1, <2>3, ObservedReturned, ZenonT(60)
  <2>7. captureQ' \in Seq(Buffers) /\ InSeq(captureQ') = InSeq(captureQ) \cup {b}
    <3>1. captureQ' = Append(captureQ, b)
      BY <1>2, <1>3, <1>6, AppendFacts
    <3> QED
      BY <1>3, <1>6, <3>1, AppendFacts
  <2> QED
    BY <2>1, <2>3, <2>4, <2>5, <2>6, <2>7
<1>7. CASE \E b \in Buffers : R = <<b>> /\ b \notin InSeq(captureQ)
  <2>1. PICK b \in Buffers : R = <<b>> /\ b \notin InSeq(captureQ)
    BY <1>7
  <2>2. /\ captureQ' \in Seq(Buffers)
        /\ buf' \in [Buffers -> BufType] /\ obsQ' \in Seq(Obs) /\ PoolTypes'
        /\ InSeq(R) = {b}
        /\ InSeq(captureQ') = InSeq(captureQ) \cup {b}
        /\ \A c \in Buffers : c # b => buf'[c] = buf[c]
        /\ buf'[b].vframe = "none" /\ buf'[b].obs = None
        /\ main # "new"
        /\ Counted' /\ Observed'
    BY <1>6, <2>1
  <2>3. \A c \in Buffers : buf'[c].vframe = "none" <=> c \in InSeq(captureQ')
    BY <1>1, <2>2 DEF Filled
  <2> QED
    BY <1>4, <2>1, <2>2, <2>3
<1> QED
  BY <1>5, <1>7

\* A captured frame is attached to buffer b, which was free or is given up.
LEMMA AttachedPools ==
  ASSUME IInv, NEW b \in Buffers, NEW R, NEW q \in Seq(Buffers), Attaches(b, R, q),
         main = "running", main' = main, uvc.cur, lastObs' = lastObs,
         (R = <<>> /\ b \in InSeq(captureQ)) \/ R = <<b>>
  PROVE  /\ fastQ' \in Seq(Buffers) /\ earlier' \in [Buffers -> SUBSET Buffers]
         /\ buf' \in [Buffers -> BufType] /\ obsQ' \in Seq(Obs) /\ PoolTypes'
         /\ InSeq(fastQ') = InSeq(q) \cup {b}
         /\ \A c \in Buffers : c # b => buf'[c] = buf[c]
         /\ buf'[b].vframe = "uvc" /\ buf'[b].obs = None
         /\ Counted' /\ Observed'
<1>1. TypeOK /\ Hands /\ Placed /\ Filled /\ Counted /\ Observed /\ Marked
  BY DEF IInv
<1>2. /\ buf' = [Cleared(R) EXCEPT ![b].vframe = "uvc", ![b].obs = None]
      /\ fastQ' = Append(q, b)
      /\ earlier' = [EarlierWithout(R) EXCEPT ![b] = InUse \ {b}]
      /\ obsQ' = obsQ \o ObsReturned(R)
      /\ uvc' = [free |-> uvc.free + NumHolding(R, "uvc"), cur |-> FALSE]
      /\ decoder' = [decoder EXCEPT !.free = @ + NumHolding(R, "jpeg")]
  BY DEF Attaches
<1>3. buf \in [Buffers -> BufType] /\ earlier \in [Buffers -> SUBSET Buffers]
  BY <1>1 DEF TypeOK, BufType
<1>4. earlier' \in [Buffers -> SUBSET Buffers]
  BY <1>2, <1>3 DEF EarlierWithout, InUse
<1>5. /\ ObsReturned(R) = IF HoldsObs(b) THEN <<buf[b].obs>> ELSE <<>>
      /\ NumHolding(R, "uvc") = IF buf[b].vframe = "uvc" THEN 1 ELSE 0
      /\ NumHolding(R, "jpeg") = IF buf[b].vframe = "jpeg" THEN 1 ELSE 0
      /\ Cleared(R) \in [Buffers -> BufType]
      /\ \A c \in Buffers : c # b => Cleared(R)[c] = buf[c]
  <2>1. CASE R = <<>> /\ b \in InSeq(captureQ)
    <3>1. buf[b].vframe = "none" /\ ~HoldsObs(b)
      BY <1>1, <2>1 DEF Filled, Marked
    <3> QED
      BY <1>1, <1>3, <2>1, <3>1, ReleaseOfNone
  <2>2. CASE R = <<b>>
    BY <1>1, <2>2, ReleaseOfOne DEF BufType
  <2> QED
    BY <2>1, <2>2
<1>6. /\ buf' \in [Buffers -> BufType]
      /\ \A c \in Buffers : c # b => buf'[c] = buf[c]
      /\ buf'[b].vframe = "uvc" /\ buf'[b].obs = None
  BY <1>2, <1>5, ZenonT(60) DEF BufType
<1>7. Counted' /\ PoolTypes'
  BY <1>1, <1>2, <1>5, <1>6, CountedAttached
<1>8. Observed' /\ obsQ' \in Seq(Obs)
  BY <1>1, <1>2, <1>5, <1>6, ObservedReturned
<1>9. fastQ' \in Seq(Buffers) /\ InSeq(fastQ') = InSeq(q) \cup {b}
  BY <1>2, AppendFacts
<1> QED
  BY <1>4, <1>6, <1>7, <1>8, <1>9

LEMMA FetchFacts ==
  ASSUME TypeOK, FastFetches
  PROVE  /\ fastQ' \in Seq(Buffers) /\ InSeq(fastQ') \subseteq InSeq(fastQ)
         /\ fast' \in ThreadState({"wait", "decode", "done"})
         /\ fast'.pc = "decode" => fast'.frame \in InSeq(fastQ)
<1>1. fastQ \in Seq(Buffers)
  BY DEF TypeOK
<1>2. CASE shutdown \/ fastQ = <<>>
  <2>1. FastNext \in {Done, Waiting} /\ FastNext.frame = None
    BY <1>2 DEF FastNext, Done, Waiting, Thread
  <2>2. fastQ' = fastQ /\ fast' \in {Done, Waiting}
    BY <2>1 DEF FastFetches
  <2>3. fast' \in ThreadState({"wait", "decode", "done"}) /\ fast'.pc # "decode"
    <3>1. \A pc \in {"wait", "done"} :
            /\ Thread(pc, None, FALSE) \in ThreadState({"wait", "decode", "done"})
            /\ Thread(pc, None, FALSE).pc # "decode"
      BY DEF Thread, ThreadState
    <3>2. \E pc \in {"wait", "done"} : fast' = Thread(pc, None, FALSE)
      BY <2>2 DEF Done, Waiting
    <3> QED
      BY <3>1, <3>2
  <2> QED
    BY <1>1, <2>2, <2>3
<1>3. CASE ~shutdown /\ fastQ # <<>>
  <2>1. fastQ[1] \in InSeq(fastQ) /\ fastQ[1] \in Buffers /\ fastQ[1] # None
    BY <1>1, <1>3, SeqFacts, Constants
  <2>2. FastNext = Thread("decode", fastQ[1], FALSE)
    BY <1>3 DEF FastNext, Oldest
  <2>3. fast' = Thread("decode", fastQ[1], FALSE) /\ fastQ' = Tail(fastQ)
    BY <2>1, <2>2 DEF FastFetches, Thread
  <2>4. fastQ' \in Seq(Buffers) /\ InSeq(fastQ') \subseteq InSeq(fastQ)
    BY <1>1, <1>3, <2>3, TailFacts
  <2> QED
    BY <2>1, <2>3, <2>4 DEF Thread, ThreadState
<1> QED
  BY <1>2, <1>3

-----------------------------------------------------------------------------
(***************************************************************************)
(* Each action keeps the rest of the invariant.                            *)
(***************************************************************************)
PoolsInv == TypeOK /\ Filled /\ Counted /\ Observed /\ Marked

\* What the three ways to attach a captured frame have in common.
LEMMA AttachedRest ==
  ASSUME IInv, NEW b \in Buffers, NEW R, NEW q \in Seq(Buffers), Attaches(b, R, q),
         main = "running", uvc.cur, UNCHANGED <<control, lastObs, camera, long>>,
         (R = <<>> /\ b \in InSeq(captureQ)) \/ R = <<b>>,
         InSeq(q) \subseteq InSeq(fastQ), b # fast.frame, b \notin Front',
         captureQ' \in Seq(Buffers), InSeq(captureQ') = InSeq(captureQ) \ {b},
         longQ' \in Seq(Buffers), InSeq(longQ') \subseteq InSeq(longQ)
  PROVE  PoolsInv'
<1>1. TypeOK /\ Hands /\ Placed /\ Filled /\ Marked
  BY DEF IInv
<1>2. UNCHANGED <<longBusy, shutdown, main>> /\ fast' = Signalled(fast)
  BY DEF control, Attaches, SignalsFast
<1>3. /\ fastQ' \in Seq(Buffers) /\ earlier' \in [Buffers -> SUBSET Buffers]
      /\ buf' \in [Buffers -> BufType] /\ obsQ' \in Seq(Obs) /\ PoolTypes'
      /\ InSeq(fastQ') = InSeq(q) \cup {b}
      /\ \A c \in Buffers : c # b => buf'[c] = buf[c]
      /\ buf'[b].vframe = "uvc" /\ buf'[b].obs = None
      /\ Counted' /\ Observed'
  BY <1>2, AttachedPools
<1>4. fast'.frame = fast.frame /\ (fast'.pc = IF fast.pc = "wait" THEN "woken" ELSE fast.pc)
  BY <1>1, <1>2, SignalledFacts DEF Hands
<1>5. TypeOK'
  <2>1. fast' \in ThreadState({"woken", "wait", "decode", "blobs", "search",
                               "save", "route", "done"})
    BY <1>1, <1>2 DEF TypeOK, Signalled, Woken, Thread, ThreadState
  <2> QED
    BY <1>1, <1>2, <1>3, <2>1 DEF TypeOK, BufType, PoolTypes
<1>6. /\ InSeq(captureQ) \subseteq Buffers /\ InSeq(fastQ) \subseteq Buffers /\ Front \subseteq Buffers
      /\ fast.frame \in Buffers \cup {None}
  BY <1>1, QueueFacts
<1>7. \A c \in InSeq(fastQ') : c = b \/ (c \in InSeq(fastQ) /\ c \in Buffers /\ buf'[c] = buf[c])
  BY <1>3, <1>6
<1>8. fast.frame # None => buf'[fast.frame] = buf[fast.frame]
  BY <1>3, <1>6
<1>9. Filled'
  <2>1. \A c \in Buffers : buf'[c].vframe = "none" <=> c \in InSeq(captureQ')
    BY <1>1, <1>3 DEF Filled
  <2>2. \A c \in InSeq(fastQ') : buf'[c].vframe = "uvc"
    <3>1. \A c \in InSeq(fastQ) : buf[c].vframe = "uvc"
      BY <1>1 DEF Filled
    <3>2. buf'[b].vframe = "uvc"
      BY <1>3
    <3> QED
      BY <1>7, <3>1, <3>2
  <2>3. fast'.pc = "decode" => buf'[fast'.frame].vframe = "uvc"
    BY <1>1, <1>4, <1>8 DEF Filled, Hands
  <2> QED
    BY <1>2, <2>1, <2>2, <2>3 DEF Filled
<1>10. Marked'
  <2>1. \A c \in InSeq(captureQ') \cup InSeq(fastQ') : ~HoldsObs(c)'
    BY <1>1, <1>3, <1>6, <1>7 DEF Marked, HoldsObs
  <2>2. \A c \in Front' : c \in Front /\ c # b /\ c \in Buffers
    BY <1>6 DEF Front, HandOf
  <2>3. \A c \in Front' : HoldsObs(c)' /\ buf'[c].need
    BY <1>1, <1>3, <2>2 DEF Marked, HoldsObs
  <2>4. /\ fast'.pc \in {"decode", "blobs"} => ~HoldsObs(fast.frame)'
        /\ fast'.pc = "blobs" => ~buf'[fast.frame].need
        /\ fast'.pc \in {"search", "save"} => HoldsObs(fast.frame)'
        /\ fast'.pc = "route" /\ buf'[fast.frame].need => HoldsObs(fast.frame)'
    BY <1>1, <1>4, <1>8 DEF Marked, HoldsObs, Hands
  <2> QED
    BY <1>4, <2>1, <2>3, <2>4 DEF Marked, HoldsObs
<1> QED
  BY <1>3, <1>5, <1>9, <1>10 DEF PoolsInv

LEMMA CapturedRest ==
  ASSUME IInv, main = "running", uvc.cur, UNCHANGED <<control, lastObs, camera, long>>,
         Captured \/ CapturedReclaimingFast \/ CapturedReclaimingLong
  PROVE  PoolsInv'
<1>1. TypeOK /\ Hands /\ Placed
  BY DEF IInv
<1>2. /\ captureQ \in Seq(Buffers) /\ fastQ \in Seq(Buffers) /\ longQ \in Seq(Buffers)
      /\ InSeq(captureQ) \subseteq Buffers /\ InSeq(fastQ) \subseteq Buffers
  BY <1>1, QueueFacts
<1>3. HandOf(long') = HandOf(long)
  OBVIOUS
<1>4. CASE Captured
  <2> DEFINE b == captureQ[1]
  <2>1. captureQ # <<>> /\ captureQ' = Tail(captureQ) /\ Attaches(b, <<>>, fastQ) /\ longQ' = longQ
    BY <1>4 DEF Captured, Oldest
  <2>2. b \in InSeq(captureQ) /\ b \in Buffers
    BY <1>2, <2>1, SeqFacts
  <2>3. b # fast.frame /\ b \notin Front'
    BY <1>1, <1>3, <2>1, <2>2 DEF Placed, Front
  <2>4. captureQ' \in Seq(Buffers) /\ InSeq(captureQ') = InSeq(captureQ) \ {b}
    BY <1>1, <1>2, <2>1, TailFacts DEF Placed
  <2> HIDE DEF b
  <2> QED
    BY <1>2, <2>1, <2>2, <2>3, <2>4, AttachedRest
<1>5. CASE CapturedReclaimingFast
  <2> DEFINE b == Newest(fastQ)
             q == Older(fastQ)
  <2>1. fastQ # <<>> /\ Attaches(b, <<b>>, q) /\ UNCHANGED <<captureQ, longQ>>
    BY <1>5 DEF CapturedReclaimingFast
  <2>2. b \in InSeq(fastQ) /\ b \in Buffers
    BY <1>2, <2>1, SeqFacts DEF Newest
  <2>3. b # fast.frame /\ b \notin Front' /\ b \notin InSeq(captureQ)
    BY <1>1, <1>3, <2>1, <2>2 DEF Placed, Front
  <2>4. q \in Seq(Buffers) /\ InSeq(q) \subseteq InSeq(fastQ)
    BY <1>2, <2>1, OlderFacts
  <2> HIDE DEF b, q
  <2> QED
    BY <1>2, <2>1, <2>2, <2>3, <2>4, AttachedRest
<1>6. CASE CapturedReclaimingLong
  <2> DEFINE b == Newest(longQ)
  <2>1. longQ # <<>> /\ captureQ = <<>> /\ Attaches(b, <<b>>, fastQ) /\ captureQ' = captureQ
        /\ longQ' = Older(longQ)
    BY <1>6 DEF CapturedReclaimingLong
  <2>2. b = longQ[1] /\ b \in Buffers /\ InSeq(longQ) = {b} /\ Older(longQ) = <<>>
        /\ long.frame = None
    BY <1>1, <2>1, FrontFacts
  <2>3. InSeq(<<>>) = {}
    BY <1>1, ReleaseOfNone
  <2>4. b # fast.frame /\ b \notin InSeq(captureQ) /\ b \in Front
    BY <1>1, <2>2 DEF Placed, Front
  <2>5. longQ' = <<>> /\ longQ' \in Seq(Buffers) /\ InSeq(longQ') = {}
    BY <2>1, <2>2, <2>3
  <2>6. b \notin Front'
    BY <1>3, <2>2, <2>5 DEF Front, HandOf
  <2> HIDE DEF b
  <2> QED
    BY <1>2, <2>1, <2>2, <2>4, <2>5, <2>6, AttachedRest
<1> QED
  BY <1>4, <1>5, <1>6

\* The fast thread is done with its frame, which it leaves to the long thread,
\* at the cost of the one that waited, or gives up.
LEMMA FastRoutesRest ==
  ASSUME IInv, FastQueuesLong \/ FastReleases
  PROVE  PoolsInv'
<1> DEFINE g == fast.frame
<1>1. TypeOK /\ Hands /\ Placed /\ Filled /\ Marked
  BY DEF IInv
<1>2. /\ FastFetches /\ UNCHANGED <<longBusy, shutdown, main, lastObs, camera>>
      /\ fast.pc = "route" /\ g # None /\ g \in Buffers
  BY <1>1, QueueFacts DEF FastQueuesLong, FastReleases, control, Hands
<1>3. /\ fastQ' \in Seq(Buffers) /\ InSeq(fastQ') \subseteq InSeq(fastQ)
      /\ fast' \in ThreadState({"wait", "decode", "done"})
      /\ fast'.pc = "decode" => fast'.frame \in InSeq(fastQ)
  BY <1>1, <1>2, FetchFacts
<1>4. /\ InSeq(captureQ) \subseteq Buffers /\ InSeq(fastQ) \subseteq Buffers /\ Front \subseteq Buffers
      /\ longQ \in Seq(Buffers) /\ InSeq(longQ) \subseteq Front
  BY <1>1, QueueFacts DEF Front
<1>5. PICK R : /\ Releases(R)
               /\ R = <<>> \/ \E b \in Buffers : R = <<b>> /\ b \notin InSeq(captureQ)
               /\ InSeq(R) \cap InSeq(fastQ) = {}
               /\ longQ' \in Seq(Buffers)
               /\ long' \in ThreadState({"woken", "wait", "search", "save", "finish", "done"})
               /\ \A c \in Front' : /\ c \in Buffers /\ c \notin InSeq(R)
                                    /\ HoldsObs(c) /\ buf[c].need
  <2>1. CASE FastQueuesLong
    <3> DEFINE R == IF longQ = <<>> THEN <<>> ELSE <<longQ[1]>>
    <3>1. /\ Releases(R) /\ longQ' = Append(<<>>, g) /\ long' = Signalled(long)
          /\ ~longBusy /\ buf[g].need
      BY <1>1, <2>1, FrontFacts DEF FastQueuesLong, WantsLong
    <3>2. long.frame = None /\ long'.frame = None
      BY <1>1, <3>1, SignalledFacts DEF Hands
    <3>3. longQ # <<>> => longQ[1] \in Front /\ longQ[1] \in Buffers
      BY <1>1, FrontFacts
    <3>4. g \notin Front /\ g \notin InSeq(fastQ)
      BY <1>1 DEF Placed
    <3>5. InSeq(R) \subseteq Front
      <4>1. CASE longQ = <<>>
        BY <1>1, <4>1, ReleaseOfNone
      <4>2. CASE longQ # <<>>
        <5>1. InSeq(<<longQ[1]>>) = {longQ[1]}
          BY <1>1, <3>3, <4>2, ReleaseOfOne
        <5> QED
          BY <3>3, <4>2, <5>1
      <4> QED
        BY <4>1, <4>2
    <3>6. R = <<>> \/ \E b \in Buffers : R = <<b>> /\ b \notin InSeq(captureQ)
      BY <1>1, <3>3 DEF Placed
    <3>7. InSeq(R) \cap InSeq(fastQ) = {}
      BY <1>1, <3>5 DEF Placed
    <3>8. longQ' \in Seq(Buffers) /\ InSeq(longQ') = {g}
      <4>1. longQ' = Append(<<>>, g) /\ InSeq(<<g>>) = {g} /\ g \in Buffers
        BY <1>1, <1>2, <3>1, ReleaseOfOne
      <4> HIDE DEF g
      <4>2. Append(<<>>, g) = <<g>> /\ <<g>> \in Seq(Buffers)
        BY <4>1
      <4> QED
        BY <4>1, <4>2
    <3>9. Front' = {g}
      BY <3>2, <3>8 DEF Front, HandOf
    <3>10. HoldsObs(g)
      BY <1>1, <1>2, <3>1 DEF Marked
    <3>11. long' \in ThreadState({"woken", "wait", "search", "save", "finish", "done"})
      BY <1>1, <3>1 DEF TypeOK, Signalled, Woken, Thread, ThreadState
    <3> HIDE DEF R
    <3> QED
      BY <1>2, <3>1, <3>4, <3>5, <3>6, <3>7, <3>8, <3>9, <3>10, <3>11
  <2>2. CASE FastReleases
    <3>1. Releases(<<g>>) /\ UNCHANGED <<longQ, long>>
      BY <2>2 DEF FastReleases
    <3>2. g \notin InSeq(captureQ) /\ g \notin InSeq(fastQ) /\ g \notin Front
      BY <1>1 DEF Placed
    <3>3. InSeq(<<g>>) = {g}
      BY <1>1, <1>2, ReleaseOfOne
    <3>4. Front' = Front
      BY <3>1 DEF Front, HandOf
    <3>5. long' \in ThreadState({"woken", "wait", "search", "save", "finish", "done"})
      BY <1>1, <3>1 DEF TypeOK
    <3>6. \A c \in Front' : c \in Buffers /\ c \notin InSeq(<<g>>) /\ HoldsObs(c) /\ buf[c].need
      BY <1>1, <1>4, <3>2, <3>3, <3>4 DEF Marked
    <3> HIDE DEF g
    <3>7. InSeq(<<g>>) \cap InSeq(fastQ) = {} /\ longQ' \in Seq(Buffers)
      BY <1>4, <3>1, <3>2, <3>3
    <3>8. \E b \in Buffers : <<g>> = <<b>> /\ b \notin InSeq(captureQ)
      BY <1>2, <3>2
    <3> QED
      BY <3>1, <3>5, <3>6, <3>7, <3>8
  <2> QED
    BY <2>1, <2>2
<1>6. /\ captureQ' \in Seq(Buffers) /\ earlier' \in [Buffers -> SUBSET Buffers]
      /\ buf' \in [Buffers -> BufType] /\ obsQ' \in Seq(Obs) /\ PoolTypes'
      /\ InSeq(captureQ') = InSeq(captureQ) \cup InSeq(R) /\ InSeq(R) \subseteq Buffers
      /\ \A c \in Buffers : c \notin InSeq(R) => buf'[c] = buf[c]
      /\ \A c \in InSeq(R) : buf'[c].vframe = "none" /\ buf'[c].obs = None
      /\ \A c \in Buffers : buf'[c].vframe = "none" <=> c \in InSeq(captureQ')
      /\ main # "new" \/ (uvc' = uvc /\ \A c \in Buffers : buf'[c].vframe = "none")
      /\ Counted' /\ Observed'
  BY <1>2, <1>5, ReleasedPools
<1>7. TypeOK'
  <2>1. fast' \in ThreadState({"woken", "wait", "decode", "blobs", "search",
                               "save", "route", "done"})
    BY <1>3 DEF ThreadState
  <2> QED
    BY <1>1, <1>2, <1>3, <1>5, <1>6, <2>1 DEF TypeOK, BufType, PoolTypes
<1>8. \A c \in InSeq(fastQ) : c \in Buffers /\ buf'[c] = buf[c]
  BY <1>4, <1>5, <1>6
<1>9. Filled'
  <2>1. \A c \in InSeq(fastQ) : buf'[c].vframe = "uvc"
    <3>1. \A c \in InSeq(fastQ) : buf[c].vframe = "uvc"
      BY <1>1 DEF Filled
    <3> QED
      BY <1>8, <3>1
  <2>2. main' = "new" => uvc' = [free |-> 0, cur |-> FALSE]
    BY <1>1, <1>2, <1>6 DEF Filled
  <2> QED
    BY <1>2, <1>3, <1>6, <2>1, <2>2 DEF Filled
<1>10. Marked'
  <2>1. \A c \in InSeq(captureQ') \cup InSeq(fastQ) : ~HoldsObs(c)'
    <3>1. \A c \in InSeq(R) : ~HoldsObs(c)'
      BY <1>6 DEF HoldsObs
    <3>2. \A c \in InSeq(captureQ) : c \notin InSeq(R) => c \in Buffers /\ buf'[c] = buf[c]
      BY <1>4, <1>6
    <3>3. \A c \in InSeq(captureQ) \cup InSeq(fastQ) : buf[c].obs = None
      BY <1>1 DEF Marked, HoldsObs
    <3> QED
      BY <1>6, <1>8, <3>1, <3>2, <3>3 DEF HoldsObs
  <2>2. \A c \in Front' : HoldsObs(c)' /\ buf'[c].need
    BY <1>5, <1>6 DEF HoldsObs
  <2>3. fast'.pc = "decode" => buf'[fast'.frame].obs = None
    BY <1>3, <2>1 DEF HoldsObs
  <2>4. fast'.pc \notin {"blobs", "search", "save", "route"}
    BY <1>3 DEF ThreadState
  <2> QED
    BY <1>3, <2>1, <2>2, <2>3, <2>4 DEF Marked, HoldsObs
<1> QED
  BY <1>6, <1>7, <1>9, <1>10 DEF PoolsInv

LEMMA FastResumeRest ==
  ASSUME IInv, FastResume
  PROVE  PoolsInv'
<1>1. TypeOK /\ Hands /\ Filled /\ Counted /\ Observed /\ Marked
  BY DEF IInv
<1>2. /\ FastFetches
      /\ UNCHANGED <<captureQ, longQ, earlier, longBusy, shutdown, main, buf, uvc, decoder,
                     obsQ, lastObs, camera, long>>
  BY DEF FastResume, control, pools
<1>3. /\ fastQ' \in Seq(Buffers) /\ InSeq(fastQ') \subseteq InSeq(fastQ)
      /\ fast' \in ThreadState({"wait", "decode", "done"})
      /\ fast'.pc = "decode" => fast'.frame \in InSeq(fastQ)
  BY <1>1, <1>2, FetchFacts
<1>4. TypeOK'
  <2>1. fast' \in ThreadState({"woken", "wait", "decode", "blobs", "search",
                               "save", "route", "done"})
    BY <1>3 DEF ThreadState
  <2> QED
    BY <1>1, <1>2, <1>3, <2>1 DEF TypeOK
<1>5. Filled'
  BY <1>1, <1>2, <1>3 DEF Filled
<1>6. Counted'
  BY <1>1, <1>2, CountedKept
<1>7. Observed'
  BY <1>1, <1>2, ObservedKept
<1>8. Marked'
  <2>1. fast'.pc \notin {"blobs", "search", "save", "route"}
    BY <1>3 DEF ThreadState
  <2>2. Front' = Front
    BY <1>2 DEF Front, HandOf
  <2> QED
    BY <1>1, <1>2, <1>3, <2>1, <2>2 DEF Marked, HoldsObs
<1> QED
  BY <1>4, <1>5, <1>6, <1>7, <1>8 DEF PoolsInv

\* The long thread gives its frame up and takes the one that waits.
LEMMA LongRest ==
  ASSUME IInv, LongResume \/ LongFinish
  PROVE  PoolsInv'
<1> DEFINE R == IF long.frame = None THEN <<>> ELSE <<long.frame>>
<1>1. TypeOK /\ Hands /\ Placed /\ Filled /\ Marked
  BY DEF IInv
<1>2. /\ LongFetches(R) /\ UNCHANGED <<fastQ, fast, lastObs, shutdown, main, camera>>
  BY <1>1 DEF Hands, LongResume, LongFinish
<1>3. /\ InSeq(captureQ) \subseteq Buffers /\ InSeq(fastQ) \subseteq Buffers /\ Front \subseteq Buffers
      /\ longQ \in Seq(Buffers) /\ fast.frame \in Buffers \cup {None}
      /\ long.frame \in Buffers \cup {None}
  BY <1>1, QueueFacts
<1>4. /\ Releases(R) /\ longQ' \in Seq(Buffers) /\ Front' \subseteq InSeq(longQ)
      /\ long' \in ThreadState({"woken", "wait", "search", "save", "finish", "done"})
      /\ longBusy' \in BOOLEAN
  <2>1. InSeq(<<>>) = {} /\ <<>> \in Seq(Buffers)
    BY <1>1, ReleaseOfNone
  <2>2. CASE ~shutdown /\ longQ # <<>>
    <3>1. Newest(longQ) = longQ[1] /\ Older(longQ) = <<>> /\ long.frame = None
          /\ longQ[1] \in Buffers /\ InSeq(longQ) = {longQ[1]}
      BY <1>1, <2>2, FrontFacts
    <3>2. R \o <<>> = R
      BY <3>1
    <3>3. /\ Releases(R) /\ longQ' = <<>> /\ longBusy' = TRUE
          /\ long' = Thread("search", longQ[1], camera.have)
      BY <1>2, <2>2, <3>1, <3>2 DEF LongFetches
    <3>4. camera.have \in BOOLEAN
      BY <1>1 DEF TypeOK
    <3>5. long' \in ThreadState({"woken", "wait", "search", "save", "finish", "done"})
      BY <3>1, <3>3, <3>4 DEF Thread, ThreadState
    <3>6. Front' = {longQ[1]}
      BY <2>1, <3>1, <3>3, Constants DEF Front, HandOf, Thread
    <3> QED
      BY <2>1, <3>1, <3>3, <3>5, <3>6
  <2>3. CASE shutdown \/ longQ = <<>>
    <3>1. /\ Releases(R) /\ longQ' = longQ /\ longBusy' = FALSE
          /\ \E pc \in {"done", "wait"} : long' = Thread(pc, None, FALSE)
      BY <1>2, <2>3 DEF LongFetches, Done, Waiting
    <3>2. long' \in ThreadState({"woken", "wait", "search", "save", "finish", "done"})
      <4>1. \A pc \in {"done", "wait"} :
              Thread(pc, None, FALSE)
                \in ThreadState({"woken", "wait", "search", "save", "finish", "done"})
        BY DEF Thread, ThreadState
      <4> QED
        BY <3>1, <4>1
    <3>3. Front' = InSeq(longQ)
      BY <3>1 DEF Front, HandOf, Thread
    <3> QED
      BY <1>3, <3>1, <3>2, <3>3
  <2> QED
    BY <2>2, <2>3
<1>5. /\ R = <<>> \/ \E b \in Buffers : R = <<b>> /\ b \notin InSeq(captureQ)
      /\ InSeq(R) = HandOf(long)
  <2>1. CASE long.frame = None
    BY <1>1, <2>1, ReleaseOfNone DEF HandOf
  <2>2. CASE long.frame # None
    <3>1. long.frame \in Buffers /\ long.frame \in Front
      BY <1>3, <2>2 DEF Front, HandOf
    <3>2. InSeq(<<long.frame>>) = {long.frame} /\ long.frame \notin InSeq(captureQ)
      BY <1>1, <3>1, ReleaseOfOne DEF Placed
    <3> QED
      BY <2>2, <3>1, <3>2 DEF HandOf
  <2> QED
    BY <2>1, <2>2
<1>6. /\ HandOf(long) \subseteq Front /\ HandOf(long) \cap InSeq(longQ) = {}
      /\ InSeq(longQ) \subseteq Front
  BY <1>1, FrontFacts DEF Front, HandOf
<1> HIDE DEF R
<1>7. /\ captureQ' \in Seq(Buffers) /\ earlier' \in [Buffers -> SUBSET Buffers]
      /\ buf' \in [Buffers -> BufType] /\ obsQ' \in Seq(Obs) /\ PoolTypes'
      /\ InSeq(captureQ') = InSeq(captureQ) \cup InSeq(R) /\ InSeq(R) \subseteq Buffers
      /\ \A c \in Buffers : c \notin InSeq(R) => buf'[c] = buf[c]
      /\ \A c \in InSeq(R) : buf'[c].vframe = "none" /\ buf'[c].obs = None
      /\ \A c \in Buffers : buf'[c].vframe = "none" <=> c \in InSeq(captureQ')
      /\ main # "new" \/ (uvc' = uvc /\ \A c \in Buffers : buf'[c].vframe = "none")
      /\ Counted' /\ Observed'
  BY <1>2, <1>4, <1>5, ReleasedPools
<1>8. TypeOK'
  BY <1>1, <1>2, <1>4, <1>7 DEF TypeOK, BufType, PoolTypes
<1>9. /\ \A c \in InSeq(fastQ) : c \in Buffers /\ buf'[c] = buf[c]
      /\ fast.frame # None => buf'[fast.frame] = buf[fast.frame]
      /\ \A c \in InSeq(longQ) : c \in Buffers /\ buf'[c] = buf[c]
  BY <1>1, <1>3, <1>5, <1>6, <1>7 DEF Placed
<1>10. Filled'
  <2>1. \A c \in InSeq(fastQ) : buf'[c].vframe = "uvc"
    <3>1. \A c \in InSeq(fastQ) : buf[c].vframe = "uvc"
      BY <1>1 DEF Filled
    <3> QED
      BY <1>9, <3>1
  <2>2. main = "new" => uvc' = [free |-> 0, cur |-> FALSE]
    BY <1>1, <1>7 DEF Filled
  <2>3. fast.pc = "decode" => buf'[fast.frame].vframe = "uvc"
    BY <1>1, <1>9 DEF Filled, Hands
  <2> QED
    BY <1>2, <1>7, <2>1, <2>2, <2>3 DEF Filled
<1>11. Marked'
  <2>1. \A c \in InSeq(captureQ') \cup InSeq(fastQ) : ~HoldsObs(c)'
    <3>1. \A c \in InSeq(R) : ~HoldsObs(c)'
      BY <1>7 DEF HoldsObs
    <3>2. \A c \in InSeq(captureQ) : c \notin InSeq(R) => c \in Buffers /\ buf'[c] = buf[c]
      BY <1>3, <1>7
    <3>3. \A c \in InSeq(captureQ) \cup InSeq(fastQ) : buf[c].obs = None
      BY <1>1 DEF Marked, HoldsObs
    <3> QED
      BY <1>7, <1>9, <3>1, <3>2, <3>3 DEF HoldsObs
  <2>2. \A c \in Front' : HoldsObs(c)' /\ buf'[c].need
    BY <1>1, <1>4, <1>6, <1>9 DEF Marked, HoldsObs
  <2>3. /\ fast.pc \in {"decode", "blobs"} => ~HoldsObs(fast.frame)'
        /\ fast.pc = "blobs" => ~buf'[fast.frame].need
        /\ fast.pc \in {"search", "save"} => HoldsObs(fast.frame)'
        /\ fast.pc = "route" /\ buf'[fast.frame].need => HoldsObs(fast.frame)'
    BY <1>1, <1>2, <1>9 DEF Marked, HoldsObs, Hands
  <2> QED
    BY <1>2, <2>1, <2>2, <2>3 DEF Marked, HoldsObs
<1> QED
  BY <1>7, <1>8, <1>10, <1>11 DEF PoolsInv

\* A step that works on the frame in the fast thread's hand, or on none.
LEMMA FastWorksRest ==
  ASSUME IInv, UNCHANGED <<queues, control, long>>,
         \A c \in Buffers : c # fast.frame => buf'[c] = buf[c],
         buf' \in [Buffers -> BufType], obsQ' \in Seq(Obs), PoolTypes',
         lastObs' \in Obs \cup {None}, Counted', Observed',
         camera' \in [have : BOOLEAN, saved : BOOLEAN, tried : BOOLEAN],
         fast.pc \in {"decode", "blobs", "search", "save"},
         fast' \in ThreadState({"blobs", "search", "save", "route"}), fast'.frame = fast.frame,
         buf'[fast.frame].vframe # "none",
         fast'.pc = "blobs" => buf'[fast.frame].obs = None /\ ~buf'[fast.frame].need,
         fast'.pc \in {"search", "save"} => buf'[fast.frame].obs # None,
         fast'.pc = "route" /\ buf'[fast.frame].need => buf'[fast.frame].obs # None
  PROVE  PlacesInv' /\ PoolsInv'
<1> DEFINE g == fast.frame
<1>1. TypeOK /\ Hands /\ Placed /\ Filled /\ Marked
  BY DEF IInv
<1>2. UNCHANGED <<captureQ, fastQ, longQ, earlier, longBusy, shutdown, main>>
  BY DEF queues, control
<1>3. /\ InSeq(captureQ) \subseteq Buffers /\ InSeq(fastQ) \subseteq Buffers /\ Front \subseteq Buffers
      /\ g \in Buffers \cup {None}
  BY <1>1, QueueFacts
<1>4. /\ g # None /\ g \in Buffers
      /\ g \notin InSeq(captureQ) /\ g \notin InSeq(fastQ) /\ g \notin Front
  BY <1>1, <1>3 DEF Hands, Placed
<1>5. \A c \in InSeq(captureQ) \cup InSeq(fastQ) \cup Front : c \in Buffers /\ buf'[c] = buf[c]
  BY <1>3, <1>4
<1>6. fast'.pc \in {"blobs", "search", "save", "route"}
  BY DEF ThreadState
<1>7. PlacesInv'
  BY <1>2, <1>6, QuietPlaces
<1>8. TypeOK'
  <2>1. fast' \in ThreadState({"woken", "wait", "decode", "blobs", "search",
                               "save", "route", "done"})
    BY DEF ThreadState
  <2> QED
    BY <1>1, <1>2, <2>1 DEF TypeOK, BufType, PoolTypes
<1>9. Filled'
  <2>1. \A c \in Buffers : buf'[c].vframe = "none" <=> c \in InSeq(captureQ)
    BY <1>1, <1>4 DEF Filled
  <2>2. \A c \in InSeq(fastQ) : buf'[c].vframe = "uvc"
    <3>1. \A c \in InSeq(fastQ) : buf[c].vframe = "uvc"
      BY <1>1 DEF Filled
    <3> QED
      BY <1>5, <3>1
  <2>3. main # "new"
    BY <1>1, <1>4 DEF Filled
  <2> QED
    BY <1>2, <1>6, <2>1, <2>2, <2>3 DEF Filled
<1>10. Marked'
  <2>1. \A c \in InSeq(captureQ) \cup InSeq(fastQ) : ~HoldsObs(c)'
    BY <1>1, <1>5 DEF Marked, HoldsObs
  <2>2. Front' = Front
    BY <1>2 DEF Front, HandOf
  <2>3. \A c \in Front' : HoldsObs(c)' /\ buf'[c].need
    BY <1>1, <1>5, <2>2 DEF Marked, HoldsObs
  <2> QED
    BY <1>2, <1>6, <2>1, <2>3 DEF Marked, HoldsObs
<1> QED
  BY <1>7, <1>8, <1>9, <1>10 DEF PoolsInv

LEMMA FastStartGreyKeeps ==
  ASSUME IInv, FastStartGrey
  PROVE  PlacesInv' /\ PoolsInv'
<1> DEFINE g == fast.frame
<1>1. TypeOK /\ Hands /\ Filled /\ Counted /\ Observed /\ Marked
  BY DEF IInv
<1>2. /\ fast.pc = "decode" /\ g \in Buffers /\ buf \in [Buffers -> BufType]
      /\ buf[g].vframe = "uvc" /\ ~HoldsObs(g)
  BY <1>1, QueueFacts DEF FastStartGrey, Hands, Filled, Marked, TypeOK, BufType
<1>3. /\ buf' = [buf EXCEPT ![g] = [buf[g] EXCEPT !.need = FALSE]]
      /\ fast' = Thread("blobs", g, camera.have)
      /\ UNCHANGED <<queues, control, uvc, decoder, obsQ, lastObs, camera, long, main>>
  BY DEF FastStartGrey, StartsUnmarked, pools, control
<1>4. buf[g] \in BufType
  BY <1>2
<1>5. /\ buf' \in [Buffers -> BufType]
      /\ \A c \in Buffers : c # g => buf'[c] = buf[c]
      /\ buf'[g].vframe = "uvc" /\ buf'[g].obs = buf[g].obs /\ ~buf'[g].need
  BY <1>2, <1>3, <1>4 DEF BufType
<1>6. /\ \A c \in Buffers : buf'[c].vframe = buf[c].vframe
      /\ \A c \in Buffers : buf'[c].obs = buf[c].obs
  BY <1>2, <1>5
<1>7. Counted' /\ PoolTypes' /\ Observed'
  BY <1>1, <1>3, <1>6, CountedKept, ObservedKept
<1>8. /\ fast' \in ThreadState({"blobs", "search", "save", "route"})
      /\ fast'.frame = g /\ fast'.pc = "blobs"
  BY <1>1, <1>2, <1>3 DEF TypeOK, Thread, ThreadState
<1>9. /\ camera' \in [have : BOOLEAN, saved : BOOLEAN, tried : BOOLEAN]
      /\ obsQ' \in Seq(Obs) /\ lastObs' \in Obs \cup {None}
  BY <1>1, <1>3 DEF TypeOK
<1> QED
  BY <1>2, <1>3, <1>5, <1>7, <1>8, <1>9, FastWorksRest DEF HoldsObs

LEMMA FastDecodedKeeps ==
  ASSUME IInv, FastDecoded
  PROVE  PlacesInv' /\ PoolsInv'
<1> DEFINE g == fast.frame
<1>1. TypeOK /\ Hands /\ Placed /\ Filled /\ Counted /\ Observed /\ Marked
  BY DEF IInv
<1>2. /\ fast.pc = "decode" /\ g \in Buffers /\ buf \in [Buffers -> BufType]
      /\ buf[g].vframe = "uvc" /\ ~HoldsObs(g)
  BY <1>1, QueueFacts DEF FastDecoded, Hands, Filled, Marked, TypeOK, BufType
<1>3. /\ buf' = [buf EXCEPT ![g] = [[buf[g] EXCEPT !.need = FALSE] EXCEPT !.vframe = "jpeg"]]
      /\ fast' = Thread("blobs", g, camera.have) /\ uvc' = [uvc EXCEPT !.free = @ + 1]
      /\ decoder' = DecoderLent
      /\ UNCHANGED <<queues, control, obsQ, lastObs, camera, long, main>>
  BY DEF FastDecoded, StartsUnmarked, control
<1>4. buf[g] \in BufType
  BY <1>2
<1>5. /\ buf' \in [Buffers -> BufType]
      /\ \A c \in Buffers : c # g => buf'[c] = buf[c]
      /\ buf'[g].vframe = "jpeg" /\ buf'[g].obs = buf[g].obs /\ ~buf'[g].need
  BY <1>2, <1>3, <1>4 DEF BufType
<1>6. \A c \in Buffers : buf'[c].obs = buf[c].obs
  BY <1>2, <1>5
<1>7. Observed'
  BY <1>1, <1>3, <1>6, ObservedKept
<1>8. /\ NumWith("uvc") \in Nat /\ NumWith("uvc")' \in Nat
      /\ NumWith("jpeg") \in Nat /\ NumWith("jpeg")' \in Nat
      /\ NumWith("uvc")' = NumWith("uvc") - 1 /\ NumWith("jpeg")' = NumWith("jpeg") + 1
  <2>1. /\ NumWith("uvc") \in Nat /\ NumWith("uvc")' \in Nat
        /\ NumWith("uvc")' = NumWith("uvc") + (IF buf'[g].vframe = "uvc" THEN 1 ELSE 0)
                                           - (IF buf[g].vframe = "uvc" THEN 1 ELSE 0)
    BY <1>2, <1>5, NumWithChange
  <2>2. /\ NumWith("jpeg") \in Nat /\ NumWith("jpeg")' \in Nat
        /\ NumWith("jpeg")' = NumWith("jpeg") + (IF buf'[g].vframe = "jpeg" THEN 1 ELSE 0)
                                             - (IF buf[g].vframe = "jpeg" THEN 1 ELSE 0)
    BY <1>2, <1>5, NumWithChange
  <2> QED
    BY <1>2, <1>5, <2>1, <2>2
<1>9. main # "new"
  BY <1>1, <1>2 DEF Filled
<1>10. /\ uvc \in [free : Nat, cur : BOOLEAN] /\ decoder \in [free : Nat, alloced : Nat]
       /\ decoder.free <= MaxDecoded /\ decoder.alloced <= MaxDecoded
  BY <1>1, Constants DEF TypeOK
<1>11. /\ decoder.free = 0 => decoder.alloced < MaxDecoded
  BY <1>1, <1>2, DecoderRoom
<1>12. /\ decoder' \in [free : Nat, alloced : Nat]
       /\ decoder'.alloced <= MaxDecoded /\ decoder'.free <= MaxDecoded
       /\ decoder'.free - decoder'.alloced = decoder.free - decoder.alloced - 1
  BY <1>3, <1>10, <1>11, Constants DEF DecoderLent
<1>13. /\ uvc' \in [free : Nat, cur : BOOLEAN]
       /\ uvc'.free = uvc.free + 1 /\ uvc'.cur = uvc.cur
  BY <1>3, <1>10
<1>14. Counted' /\ PoolTypes'
  <2> DEFINE cur == IF uvc.cur THEN 1 ELSE 0
  <2>1. cur \in {0, 1}
    OBVIOUS
  <2>2. uvc.free + NumWith("uvc") + cur = NumVFrames /\ decoder.free + NumWith("jpeg") = decoder.alloced
    BY <1>1, <1>9 DEF Counted
  <2> HIDE DEF cur
  <2>3. /\ uvc'.free + NumWith("uvc")' + cur = NumVFrames /\ uvc'.free <= NumVFrames
        /\ decoder'.free + NumWith("jpeg")' = decoder'.alloced
    BY <1>8, <1>10, <1>12, <1>13, <2>1, <2>2, Constants
  <2>4. PoolTypes'
    BY <1>12, <1>13, <2>3, Constants DEF PoolTypes
  <2> QED
    BY <1>13, <2>3, <2>4 DEF Counted, cur
<1>15. /\ fast' \in ThreadState({"blobs", "search", "save", "route"})
       /\ fast'.frame = g /\ fast'.pc = "blobs"
  BY <1>1, <1>2, <1>3 DEF TypeOK, Thread, ThreadState
<1>16. /\ camera' \in [have : BOOLEAN, saved : BOOLEAN, tried : BOOLEAN]
       /\ obsQ' \in Seq(Obs) /\ lastObs' \in Obs \cup {None}
  BY <1>1, <1>3 DEF TypeOK
<1> QED
  BY <1>2, <1>3, <1>5, <1>7, <1>14, <1>15, <1>16, FastWorksRest DEF HoldsObs

LEMMA FastDecodeFailedKeeps ==
  ASSUME IInv, FastDecodeFailed
  PROVE  PlacesInv' /\ PoolsInv'
<1> DEFINE g == fast.frame
<1>1. TypeOK /\ Hands /\ Placed /\ Filled /\ Counted /\ Observed /\ Marked
  BY DEF IInv
<1>2. /\ fast.pc = "decode" /\ g \in Buffers /\ buf \in [Buffers -> BufType]
      /\ buf[g].vframe = "uvc" /\ ~HoldsObs(g)
  BY <1>1, QueueFacts DEF FastDecodeFailed, Hands, Filled, Marked, TypeOK, BufType
<1>3. /\ buf' = [buf EXCEPT ![g] = [buf[g] EXCEPT !.need = FALSE]]
      /\ fast' = [fast EXCEPT !.pc = "route"]
      /\ decoder' = decoder \/ decoder' = [DecoderLent EXCEPT !.free = @ + 1]
      /\ UNCHANGED <<queues, control, uvc, obsQ, lastObs, camera, long, main>>
  BY DEF FastDecodeFailed, StartsUnmarked, control
<1>4. buf[g] \in BufType
  BY <1>2
<1>5. /\ buf' \in [Buffers -> BufType]
      /\ \A c \in Buffers : c # g => buf'[c] = buf[c]
      /\ buf'[g].vframe = "uvc" /\ buf'[g].obs = buf[g].obs /\ ~buf'[g].need
  BY <1>2, <1>3, <1>4 DEF BufType
<1>6. /\ \A c \in Buffers : buf'[c].vframe = buf[c].vframe
      /\ \A c \in Buffers : buf'[c].obs = buf[c].obs
  BY <1>2, <1>5
<1>7. Observed'
  BY <1>1, <1>3, <1>6, ObservedKept
<1>8. /\ NumWith("uvc")' = NumWith("uvc") /\ NumWith("jpeg")' = NumWith("jpeg")
      /\ NumWith("jpeg") \in Nat
  BY <1>6, NumWithSame
<1>9. /\ uvc \in [free : 0 .. NumVFrames, cur : BOOLEAN] /\ decoder \in [free : Nat, alloced : Nat]
      /\ decoder.free <= MaxDecoded /\ decoder.alloced <= MaxDecoded
  BY <1>1, Constants DEF TypeOK
<1>10. decoder.free = 0 => decoder.alloced < MaxDecoded
  BY <1>1, <1>2, DecoderRoom
<1>11. /\ decoder' \in [free : Nat, alloced : Nat]
       /\ decoder'.alloced <= MaxDecoded /\ decoder'.free <= MaxDecoded
       /\ decoder'.alloced - decoder'.free = decoder.alloced - decoder.free
  BY <1>3, <1>9, <1>10, Constants DEF DecoderLent
<1>12. decoder'.free + NumWith("jpeg")' = decoder'.alloced
  <2>1. decoder.free + NumWith("jpeg") = decoder.alloced
    BY <1>1 DEF Counted
  <2> QED
    BY <1>8, <1>9, <1>11, <2>1
<1>13. Counted'
  BY <1>1, <1>3, <1>8, <1>12 DEF Counted
<1>14. PoolTypes'
  BY <1>3, <1>9, <1>11, Constants DEF PoolTypes
<1>15. /\ fast' \in ThreadState({"blobs", "search", "save", "route"})
       /\ fast'.frame = g /\ fast'.pc = "route"
  BY <1>1, <1>3 DEF TypeOK, ThreadState
<1>16. /\ camera' \in [have : BOOLEAN, saved : BOOLEAN, tried : BOOLEAN]
       /\ obsQ' \in Seq(Obs) /\ lastObs' \in Obs \cup {None}
  BY <1>1, <1>3 DEF TypeOK
<1> QED
  BY <1>2, <1>3, <1>5, <1>7, <1>13, <1>14, <1>15, <1>16, FastWorksRest

LEMMA FastBlobsKeeps ==
  ASSUME IInv, FastBlobs
  PROVE  PlacesInv' /\ PoolsInv'
<1> DEFINE g == fast.frame
<1>1. TypeOK /\ Hands /\ Placed /\ Filled /\ Counted /\ Observed /\ Marked
  BY DEF IInv
<1>2. /\ fast.pc = "blobs" /\ g \in Buffers /\ buf \in [Buffers -> BufType]
      /\ g \notin InSeq(captureQ) /\ ~HoldsObs(g)
  BY <1>1, QueueFacts DEF FastBlobs, Hands, Placed, Marked, TypeOK, BufType
<1>3. /\ buf' = [buf EXCEPT ![g] = [buf[g] EXCEPT !.obs = obsQ[1]]] /\ obsQ # <<>>
      /\ fast' = [fast EXCEPT !.pc = "search"] /\ obsQ' = Tail(obsQ) /\ lastObs' = obsQ[1]
      /\ UNCHANGED <<queues, control, uvc, decoder, camera, long, main>>
  BY DEF FastBlobs, Oldest, control
<1>4. buf[g] \in BufType /\ obsQ[1] \in Obs
  <2>1. obsQ \in Seq(Obs)
    BY <1>1 DEF TypeOK
  <2>2. obsQ[1] \in InSeq(obsQ) /\ InSeq(obsQ) \subseteq Obs
    BY <1>3, <2>1, SeqFacts
  <2> QED
    BY <1>2, <2>2
<1>5. /\ buf' \in [Buffers -> BufType]
      /\ \A c \in Buffers : c # g => buf'[c] = buf[c]
      /\ buf'[g].vframe = buf[g].vframe /\ buf'[g].obs = obsQ[1]
  BY <1>2, <1>3, <1>4 DEF BufType
<1>6. \A c \in Buffers : buf'[c].vframe = buf[c].vframe
  BY <1>2, <1>5
<1>7. Counted' /\ PoolTypes'
  BY <1>1, <1>3, <1>6, CountedKept
<1>8. Observed' /\ obsQ' \in Seq(Obs)
  BY <1>1, <1>2, <1>3, <1>5, ObservedTaken
<1>9. buf'[g].vframe # "none" /\ buf'[g].obs # None
  BY <1>1, <1>2, <1>4, <1>5, Constants DEF Filled
<1>10. /\ fast' \in ThreadState({"blobs", "search", "save", "route"})
       /\ fast'.frame = g /\ fast'.pc = "search"
  BY <1>1, <1>3 DEF TypeOK, ThreadState
<1>11. /\ camera' \in [have : BOOLEAN, saved : BOOLEAN, tried : BOOLEAN]
       /\ lastObs' \in Obs \cup {None}
  BY <1>1, <1>3, <1>4 DEF TypeOK
<1> QED
  BY <1>2, <1>3, <1>5, <1>7, <1>8, <1>9, <1>10, <1>11, FastWorksRest

LEMMA FastSearchesKeep ==
  ASSUME IInv, FastSearch \/ FastSave
  PROVE  PlacesInv' /\ PoolsInv'
<1> DEFINE g == fast.frame
<1>1. TypeOK /\ Hands /\ Placed /\ Filled /\ Counted /\ Observed /\ Marked
  BY DEF IInv
<1>2. /\ fast.pc \in {"search", "save"} /\ g \in Buffers /\ buf \in [Buffers -> BufType]
      /\ g \notin InSeq(captureQ) /\ HoldsObs(g)
      /\ camera \in [have : BOOLEAN, saved : BOOLEAN, tried : BOOLEAN]
  BY <1>1, QueueFacts DEF FastSearch, FastSave, Hands, Placed, Marked, TypeOK, BufType
<1>3. UNCHANGED <<queues, control, uvc, decoder, obsQ, lastObs, long, main>>
  BY DEF FastSearch, FastSave, pools, control
<1>4. buf[g] \in BufType
  BY <1>2
<1>5. /\ buf' \in [Buffers -> BufType]
      /\ \A c \in Buffers : c # g => buf'[c] = buf[c]
      /\ buf'[g].vframe = buf[g].vframe /\ buf'[g].obs = buf[g].obs
      /\ camera' \in [have : BOOLEAN, saved : BOOLEAN, tried : BOOLEAN]
      /\ \E pc \in {"save", "route"} : fast' = [fast EXCEPT !.pc = pc]
  <2>1. CASE FastSearch
    <3>1. /\ \E x \in BOOLEAN : buf' = [buf EXCEPT ![g].need = x]
          /\ camera' = camera /\ fast' = [fast EXCEPT !.pc = "save"]
      <4>1. PICK blobs \in BOOLEAN, missed \in BOOLEAN :
              buf' = [buf EXCEPT ![g].need = @ \/ (blobs /\ (missed \/ ~camera.have))]
        BY <2>1 DEF FastSearch
      <4>2. (buf[g].need \/ (blobs /\ (missed \/ ~camera.have))) \in BOOLEAN
        OBVIOUS
      <4>3. buf' = [buf EXCEPT ![g].need = buf[g].need \/ (blobs /\ (missed \/ ~camera.have))]
        BY <4>1
      <4> QED
        BY <2>1, <4>2, <4>3 DEF FastSearch
    <3>2. PICK x \in BOOLEAN : buf' = [buf EXCEPT ![g].need = x]
      BY <3>1
    <3> QED
      BY <1>2, <1>4, <3>1, <3>2 DEF BufType
  <2>2. CASE FastSave
    <3>1. buf' = buf /\ fast' = [fast EXCEPT !.pc = "route"] /\ SavesPose(fast)
      BY <2>2 DEF FastSave
    <3>2. camera' \in [have : BOOLEAN, saved : BOOLEAN, tried : BOOLEAN]
      BY <1>2, <3>1 DEF SavesPose
    <3> QED
      BY <1>2, <3>1, <3>2
  <2> QED
    BY <2>1, <2>2
<1>6. /\ \A c \in Buffers : buf'[c].vframe = buf[c].vframe
      /\ \A c \in Buffers : buf'[c].obs = buf[c].obs
  BY <1>2, <1>5
<1>7. Counted' /\ PoolTypes' /\ Observed'
  BY <1>1, <1>3, <1>6, CountedKept, ObservedKept
<1>8. buf'[g].vframe # "none" /\ buf'[g].obs # None
  BY <1>1, <1>2, <1>5 DEF Filled, HoldsObs
<1>9. /\ fast' \in ThreadState({"blobs", "search", "save", "route"})
      /\ fast'.frame = g /\ fast'.pc \in {"save", "route"}
  <2>1. PICK pc \in {"save", "route"} : fast' = [fast EXCEPT !.pc = pc]
    BY <1>5
  <2> QED
    BY <1>1, <2>1 DEF TypeOK, ThreadState
<1>10. obsQ' \in Seq(Obs) /\ lastObs' \in Obs \cup {None}
  BY <1>1, <1>3 DEF TypeOK
<1> QED
  BY <1>2, <1>3, <1>5, <1>7, <1>8, <1>9, <1>10, FastWorksRest

\* A step that leaves the buffers alone: a thread may wake up, the stream may
\* start on a frame or stop, and the long thread may go on with its frame.
LEMMA OthersRest ==
  ASSUME IInv, UNCHANGED <<queues, longBusy, buf, obsQ, lastObs>>, PoolTypes', Counted',
         camera' \in [have : BOOLEAN, saved : BOOLEAN, tried : BOOLEAN], shutdown' \in BOOLEAN,
         main' \in {"new", "running", "stopped", "joining", "freed"},
         main' = "new" => main = "new" /\ uvc' = uvc,
         fast' \in {fast, Signalled(fast)},
         long' \in {long, Signalled(long), [long EXCEPT !.pc = "save"], [long EXCEPT !.pc = "finish"]},
         long' \in {[long EXCEPT !.pc = "save"], [long EXCEPT !.pc = "finish"]}
            => long.pc \in {"search", "save"} \/ long' = long
  PROVE  PlacesInv' /\ PoolsInv'
<1>1. TypeOK /\ Hands /\ Placed /\ Filled /\ Observed /\ Marked
  BY DEF IInv
<1>2. UNCHANGED <<captureQ, fastQ, longQ, earlier>>
  BY DEF queues
<1>3. fast'.frame = fast.frame /\ (fast'.pc = fast.pc \/ (fast.pc = "wait" /\ fast'.pc = "woken"))
  BY <1>1, SignalledFacts DEF Hands
<1>4. /\ long'.frame = long.frame
      /\ long'.pc = long.pc \/ (long.pc = "wait" /\ long'.pc = "woken")
           \/ (long.pc \in {"search", "save"} /\ long'.pc \in {"save", "finish"})
  <2>1. long \in ThreadState({"woken", "wait", "search", "save", "finish", "done"})
    BY <1>1 DEF TypeOK
  <2>2. CASE long' = Signalled(long)
    BY <1>1, <2>2, SignalledFacts DEF Hands
  <2>3. CASE long' = long
    BY <2>3
  <2>4. CASE long' \in {[long EXCEPT !.pc = "save"], [long EXCEPT !.pc = "finish"]}
    BY <2>1, <2>4 DEF ThreadState
  <2> QED
    BY <2>2, <2>3, <2>4
<1>5. PlacesInv'
  BY <1>2, <1>3, <1>4, QuietPlaces
<1>6. TypeOK'
  <2>1. fast' \in ThreadState({"woken", "wait", "decode", "blobs", "search",
                               "save", "route", "done"})
    <3>1. fast' \in {fast, Woken}
      BY DEF Signalled
    <3>2. Woken \in ThreadState({"woken", "wait", "decode", "blobs", "search",
                                "save", "route", "done"})
      BY DEF Woken, Thread, ThreadState
    <3> QED
      BY <1>1, <3>1, <3>2 DEF TypeOK
  <2>2. long' \in ThreadState({"woken", "wait", "search", "save", "finish", "done"})
    <3>1. long' \in {long, Woken, [long EXCEPT !.pc = "save"], [long EXCEPT !.pc = "finish"]}
      BY DEF Signalled
    <3>2. Woken \in ThreadState({"woken", "wait", "search", "save", "finish", "done"})
      BY DEF Woken, Thread, ThreadState
    <3>3. long \in ThreadState({"woken", "wait", "search", "save", "finish", "done"})
      BY <1>1 DEF TypeOK
    <3>4. \A pc \in {"save", "finish"} :
            [long EXCEPT !.pc = pc]
              \in ThreadState({"woken", "wait", "search", "save", "finish", "done"})
      BY <3>3 DEF ThreadState
    <3> QED
      BY <3>1, <3>2, <3>3, <3>4
  <2> QED
    BY <1>1, <1>2, <2>1, <2>2 DEF TypeOK, PoolTypes
<1>7. Filled'
  BY <1>1, <1>2, <1>3 DEF Filled
<1>8. Observed'
  BY <1>1, ObservedKept
<1>9. Marked'
  <2>1. Front' = Front
    BY <1>2, <1>4 DEF Front, HandOf
  <2> QED
    BY <1>1, <1>2, <1>3, <2>1 DEF Marked, HoldsObs
<1> QED
  BY <1>5, <1>6, <1>7, <1>8, <1>9 DEF PoolsInv

LEMMA StreamKeeps ==
  ASSUME IInv, FrameStart \/ Start \/ (main = "running" /\ uvc.cur /\ CaptureDropped
                                      /\ UNCHANGED <<control, lastObs, camera, long>>)
  PROVE  PlacesInv' /\ PoolsInv'
<1>1. TypeOK /\ Filled /\ Counted
  BY DEF IInv
<1>2. /\ UNCHANGED <<queues, longBusy, shutdown, buf, decoder, obsQ, lastObs, camera, fast, long>>
      /\ main' \in {"running"}
  BY DEF FrameStart, Start, MainMoves, CaptureDropped, control
<1>3. NumWith("uvc")' = NumWith("uvc") /\ NumWith("jpeg")' = NumWith("jpeg")
      /\ NumWith("uvc") \in Nat
  BY <1>2, NumWithSame
<1>4. /\ uvc'.free \in 0 .. NumVFrames /\ uvc' \in [free : Nat, cur : BOOLEAN]
      /\ uvc'.free + NumWith("uvc") + (IF uvc'.cur THEN 1 ELSE 0) = NumVFrames
  <2>1. uvc \in [free : Nat, cur : BOOLEAN] /\ NumVFrames \in Nat
    BY <1>1, Constants DEF TypeOK
  <2>2. CASE FrameStart
    <3>1. uvc' = [free |-> uvc.free - 1, cur |-> TRUE] /\ uvc.free > 0 /\ ~uvc.cur /\ main = "running"
      BY <2>2 DEF FrameStart
    <3>2. uvc.free + NumWith("uvc") + 0 = NumVFrames
      BY <1>1, <3>1 DEF Counted
    <3>3. uvc'.free = uvc.free - 1 /\ uvc'.cur = TRUE /\ uvc' \in [free : Nat, cur : BOOLEAN]
      BY <2>1, <3>1
    <3> QED
      BY <1>3, <2>1, <3>1, <3>2, <3>3
  <2>3. CASE Start
    <3>1. uvc' = [free |-> NumVFrames, cur |-> FALSE] /\ main = "new"
      BY <2>3 DEF Start, MainMoves
    <3>2. {b \in Buffers : buf[b].vframe = "uvc"} = {}
      BY <1>1, <3>1 DEF Filled
    <3>3. NumWith("uvc") = 0
      BY <3>2, FS_EmptySet DEF NumWith
    <3> QED
      BY <2>1, <3>1, <3>3
  <2>4. CASE main = "running" /\ uvc.cur /\ CaptureDropped
    <3>1. uvc' = [free |-> uvc.free + 1, cur |-> FALSE]
      BY <2>4 DEF CaptureDropped
    <3>2. uvc.free + NumWith("uvc") + 1 = NumVFrames
      BY <1>1, <2>4 DEF Counted
    <3>3. uvc'.free = uvc.free + 1 /\ uvc'.cur = FALSE /\ uvc' \in [free : Nat, cur : BOOLEAN]
      BY <2>1, <3>1
    <3> QED
      BY <1>3, <2>1, <3>2, <3>3
  <2> QED
    BY <2>2, <2>3, <2>4
<1>5. Counted'
  BY <1>1, <1>2, <1>3, <1>4 DEF Counted
<1>6. PoolTypes'
  BY <1>1, <1>2, <1>4, Constants DEF TypeOK, PoolTypes
<1>7. camera' \in [have : BOOLEAN, saved : BOOLEAN, tried : BOOLEAN] /\ shutdown' \in BOOLEAN
  BY <1>1, <1>2 DEF TypeOK
<1> QED
  BY <1>2, <1>5, <1>6, <1>7, OthersRest

LEMMA ControlKeeps ==
  ASSUME IInv, LongSearch \/ LongSave \/ SpuriousWakeup \/ StopVideo \/ Shutdown \/ Join
  PROVE  PlacesInv' /\ PoolsInv'
<1>1. TypeOK /\ Hands /\ Counted
  BY DEF IInv
<1>2. UNCHANGED <<queues, longBusy, buf, uvc, decoder, obsQ, lastObs>>
  BY DEF LongSearch, LongSave, SpuriousWakeup, StopVideo, Shutdown, Join, control, pools
<1>3. NumWith("uvc")' = NumWith("uvc") /\ NumWith("jpeg")' = NumWith("jpeg")
  BY <1>2, NumWithSame
<1>4. /\ main' \in {"new", "running", "stopped", "joining", "freed"}
      /\ main' = "new" => main = "new"
      /\ main = "new" => main' = "new"
      /\ shutdown' \in BOOLEAN
  BY <1>1 DEF LongSearch, LongSave, SpuriousWakeup, StopVideo, Shutdown, Join, MainMoves,
              control, TypeOK
<1>5. Counted'
  BY <1>1, <1>2, <1>3, <1>4 DEF Counted
<1>6. PoolTypes'
  BY <1>1, <1>2 DEF PoolTypes, TypeOK
<1>7. camera' \in [have : BOOLEAN, saved : BOOLEAN, tried : BOOLEAN]
  <2>1. camera \in [have : BOOLEAN, saved : BOOLEAN, tried : BOOLEAN]
    BY <1>1 DEF TypeOK
  <2>2. CASE LongSearch
    BY <2>1, <2>2 DEF LongSearch
  <2>3. CASE LongSave
    BY <2>1, <2>3 DEF LongSave, SavesPose
  <2>4. CASE SpuriousWakeup \/ StopVideo \/ Shutdown \/ Join
    BY <2>1, <2>4 DEF SpuriousWakeup, StopVideo, Shutdown, Join
  <2> QED
    BY <2>2, <2>3, <2>4
<1>8. fast' \in {fast, Signalled(fast)}
  BY DEF LongSearch, LongSave, SpuriousWakeup, StopVideo, Shutdown, WakesAll, Join, Signalled
<1>9. /\ long' \in {long, Signalled(long), [long EXCEPT !.pc = "save"], [long EXCEPT !.pc = "finish"]}
      /\ long.pc \in {"search", "save"} \/ long' = long \/ (long' = Signalled(long) /\ long.pc = "wait")
  BY DEF LongSearch, LongSave, SpuriousWakeup, StopVideo, Shutdown, WakesAll, Join, Signalled
<1>10. long' \in {[long EXCEPT !.pc = "save"], [long EXCEPT !.pc = "finish"]}
         => long.pc \in {"search", "save"} \/ long' = long
  <2>1. long' = Signalled(long) /\ long.pc = "wait" => long'.pc = "woken"
    BY <1>1, SignalledFacts DEF Hands
  <2>2. long' = [long EXCEPT !.pc = "save"] => long'.pc = "save"
    BY <1>1 DEF TypeOK, ThreadState
  <2>3. long' = [long EXCEPT !.pc = "finish"] => long'.pc = "finish"
    BY <1>1 DEF TypeOK, ThreadState
  <2> QED
    BY <1>9, <2>1, <2>2, <2>3
<1> QED
  BY <1>2, <1>4, <1>5, <1>6, <1>7, <1>8, <1>9, <1>10, OthersRest

\* The flags of the camera pose.
LEMMA TriedKept ==
  ASSUME IInv, Next
  PROVE  Tried'
<1>1. TypeOK /\ Hands /\ Tried
  BY DEF IInv
<1>2. /\ camera \in [have : BOOLEAN, saved : BOOLEAN, tried : BOOLEAN]
      /\ long \in ThreadState({"woken", "wait", "search", "save", "finish", "done"})
  BY <1>1 DEF TypeOK
<1>3. CASE UNCHANGED camera /\ (long' = long \/ long' = Signalled(long))
  <2>1. \/ long'.pc = long.pc /\ long'.had = long.had
        \/ long'.pc = "woken" /\ long.pc = "wait"
    <3>1. Woken.pc = "woken"
      BY DEF Woken, Thread
    <3>2. long' = long \/ (long.pc = "wait" /\ long' = Woken)
      BY <1>3 DEF Signalled
    <3> QED
      BY <3>1, <3>2
  <2> QED
    BY <1>1, <1>3, <2>1 DEF Tried
<1>4. CASE LongResume \/ LongFinish
  <2>1. /\ UNCHANGED camera /\ long.pc \in {"woken", "finish"}
        /\ \/ long'.pc \in {"done", "wait"}
           \/ long'.pc = "search" /\ long'.had = camera.have
    BY <1>4 DEF LongResume, LongFinish, LongFetches, Done, Waiting, Thread
  <2> QED
    BY <1>1, <2>1 DEF Tried
<1>5. CASE LongSearch
  <2>1. /\ long.pc = "search" /\ long'.pc = "save" /\ long'.had = long.had
        /\ camera'.saved = camera.saved /\ camera'.tried = camera.tried
    BY <1>2, <1>5 DEF LongSearch, ThreadState
  <2> QED
    BY <1>1, <2>1 DEF Tried
<1>6. CASE LongSave
  <2>1. long.pc = "save" /\ long'.pc = "finish" /\ SavesPose(long)
    BY <1>2, <1>6 DEF LongSave, ThreadState
  <2>2. CASE ~long.had /\ camera.have /\ ~camera.saved
    <3>1. camera'.tried = TRUE
      BY <1>2, <2>1, <2>2 DEF SavesPose
    <3> QED
      BY <3>1 DEF Tried
  <2>3. CASE ~(~long.had /\ camera.have /\ ~camera.saved)
    <3>1. camera' = camera
      BY <2>1, <2>3 DEF SavesPose
    <3> QED
      BY <1>1, <2>1, <2>3, <3>1 DEF Tried
  <2> QED
    BY <2>2, <2>3
<1>7. CASE FastSave
  <2>1. UNCHANGED long /\ SavesPose(fast)
    BY <1>7 DEF FastSave
  <2>2. CASE ~fast.had /\ camera.have /\ ~camera.saved
    <3>1. camera'.tried = TRUE
      BY <1>2, <2>1, <2>2 DEF SavesPose
    <3> QED
      BY <3>1 DEF Tried
  <2>3. CASE ~(~fast.had /\ camera.have /\ ~camera.saved)
    BY <1>3, <2>1, <2>3 DEF SavesPose
  <2> QED
    BY <2>2, <2>3
<1>8. CASE FrameStart \/ FrameCapturedCb \/ FastResume \/ FastStartGrey \/ FastDecoded
           \/ FastDecodeFailed \/ FastBlobs \/ FastSearch \/ FastQueuesLong \/ FastReleases
  BY <1>3, <1>8 DEF FrameStart, FrameCapturedCb, FastResume, FastStartGrey, FastDecoded,
     FastDecodeFailed, FastBlobs, FastSearch, FastQueuesLong, FastReleases
<1>9. CASE SpuriousWakeup \/ Start \/ StopVideo \/ Shutdown \/ Join
  BY <1>3, <1>9 DEF SpuriousWakeup, Start, StopVideo, Shutdown, WakesAll, Join, Signalled
<1> QED
  BY <1>4, <1>5, <1>6, <1>7, <1>8, <1>9 DEF Next, FastThread, LongThread

-----------------------------------------------------------------------------
(***************************************************************************)
(* The invariant is inductive.                                             *)
(***************************************************************************)
LEMMA ArrangementFacts ==
  ASSUME NEW S, IsFiniteSet(S), NEW q \in Arrangements(S)
  PROVE  q \in Seq(S) /\ NoRepeat(q) /\ InSeq(q) = S /\ Len(q) = Cardinality(S)
<1> DEFINE n == Cardinality(S)
<1>1. /\ n \in Nat /\ q \in [1 .. n -> S] /\ \A x \in S : \E i \in DOMAIN q : q[i] = x
      /\ DOMAIN q = 1 .. n
  BY FS_CardinalityType DEF Arrangements
<1>2. q \in Seq(S) /\ Len(q) = n /\ InSeq(q) = S
  BY <1>1 DEF InSeq
<1>3. NoRepeat(q)
  <2>1. IsFiniteSet(1 .. n) /\ Cardinality(1 .. n) = n
    BY <1>1, FS_Interval
  <2>2. q \in Surjection(1 .. n, S)
    BY <1>1 DEF Surjection
  <2> HIDE DEF n
  <2>3. q \in Injection(1 .. n, S)
    BY <2>1, <2>2, FS_SurjSameCardinalityImpliesInj DEF n
  <2> QED
    BY <1>1, <2>3 DEF Injection, IsInjective, NoRepeat
<1> QED
  BY <1>2, <1>3

LEMMA InitOK == Init => IInv
<1> SUFFICES ASSUME Init PROVE IInv
  OBVIOUS
<1>1. /\ captureQ \in Seq(Buffers) /\ NoRepeat(captureQ) /\ InSeq(captureQ) = Buffers
      /\ Len(captureQ) = NumBuffers
      /\ obsQ \in Seq(Obs) /\ NoRepeat(obsQ) /\ InSeq(obsQ) = Obs /\ Len(obsQ) = NumObs
  BY Constants, ArrangementFacts DEF Init, NumBuffers, NumObs
<1>2. /\ fastQ = <<>> /\ longQ = <<>> /\ fastQ \in Seq(Buffers) /\ longQ \in Seq(Buffers)
      /\ InSeq(fastQ) = {} /\ InSeq(longQ) = {} /\ Len(fastQ) = 0 /\ Len(longQ) = 0
      /\ NoRepeat(fastQ)
  BY DEF Init, InSeq, NoRepeat
<1>3. fast = [pc |-> "woken", frame |-> None, had |-> FALSE] /\ long = fast
  BY DEF Init, Woken, Thread
<1>4. /\ longBusy = FALSE /\ shutdown = FALSE /\ main = "new" /\ lastObs = None
      /\ buf = [b \in Buffers |-> [vframe |-> "none", obs |-> None, need |-> FALSE]]
      /\ uvc = [free |-> 0, cur |-> FALSE] /\ decoder = [free |-> 0, alloced |-> 0]
      /\ earlier = [b \in Buffers |-> {}]
      /\ camera \in [have : BOOLEAN, saved : BOOLEAN, tried : BOOLEAN]
      /\ camera.tried = camera.have /\ camera.saved = camera.have
  BY DEF Init, EmptyBuf
<1>5. Front = {} /\ Held(fast) = 0 /\ Held(long) = 0
  BY <1>2, <1>3 DEF Front, HandOf, Held
<1>6. TypeOK
  <2>1. buf \in [Buffers -> [vframe : {"none", "uvc", "jpeg"}, obs : Obs \cup {None}, need : BOOLEAN]]
    BY <1>4
  <2>2. /\ fast \in ThreadState({"woken", "wait", "decode", "blobs", "search",
                                 "save", "route", "done"})
        /\ long \in ThreadState({"woken", "wait", "search", "save", "finish", "done"})
    BY <1>3 DEF ThreadState
  <2>3. /\ uvc \in [free : 0 .. NumVFrames, cur : BOOLEAN]
        /\ decoder \in [free : 0 .. MaxDecoded, alloced : 0 .. MaxDecoded]
    BY <1>4, Constants
  <2> QED
    BY <1>1, <1>2, <1>4, <2>1, <2>2, <2>3 DEF TypeOK
<1>7. Hands
  BY <1>2, <1>3, <1>4 DEF Hands
<1>8. Placed
  BY <1>1, <1>2, <1>3, <1>5, Constants DEF Placed
<1>9. InOrder
  BY <1>1, <1>2, <1>3, <1>4, <1>5 DEF InOrder
<1>10. Filled
  BY <1>1, <1>2, <1>3, <1>4 DEF Filled
<1>11. Counted
  <2>1. {b \in Buffers : buf[b].vframe = "jpeg"} = {}
    BY <1>4
  <2>2. NumWith("jpeg") = 0
    BY <2>1, FS_EmptySet DEF NumWith
  <2> QED
    BY <1>4, <2>2 DEF Counted
<1>12. Observed
  <2>1. \A b \in Buffers : ~HoldsObs(b)
    BY <1>4 DEF HoldsObs
  <2>2. Cardinality({b \in Buffers : HoldsObs(b)}) = 0
    <3>1. {b \in Buffers : HoldsObs(b)} = {}
      BY <2>1
    <3> QED
      BY <3>1, FS_EmptySet
  <2>3. Len(obsQ) + Cardinality({b \in Buffers : HoldsObs(b)}) = NumObs
    BY <1>1, <2>2, Constants
  <2>4. obsQ # <<>> => Oldest(obsQ) # lastObs
    <3>1. obsQ # <<>> => obsQ[1] \in Obs
      BY <1>1, SeqFacts
    <3> QED
      BY <1>4, <3>1, Constants DEF Oldest
  <2> QED
    BY <1>1, <2>1, <2>3, <2>4 DEF Observed
<1>13. Marked
  BY <1>1, <1>2, <1>3, <1>4, <1>5 DEF Marked, HoldsObs
<1>14. Tried
  BY <1>3, <1>4 DEF Tried
<1> QED
  BY <1>6, <1>7, <1>8, <1>9, <1>10, <1>11, <1>12, <1>13, <1>14 DEF IInv

LEMMA StepOK == IInv /\ [Next]_vars => IInv'
<1> SUFFICES ASSUME IInv, [Next]_vars PROVE IInv'
  OBVIOUS
<1>1. CASE UNCHANGED vars
  BY <1>1 DEF vars, IInv, TypeOK, Hands, Placed, InOrder, Filled, Counted, Observed, Marked,
     Tried, Front, HoldsObs, NumWith
<1>2. CASE Next
  <2>1. Tried'
    BY <1>2, TriedKept
  <2>2. CASE FrameCapturedCb
    <3>1. main = "running" /\ uvc.cur /\ UNCHANGED <<control, lastObs, camera, long>>
      BY <2>2 DEF FrameCapturedCb
    <3>2. UNCHANGED <<longBusy, long>>
      BY <3>1 DEF control
    <3>3. CASE Captured
      <4>1. PlacesInv'
        BY <3>2, <3>3, CapturedPlaces
      <4>2. PoolsInv'
        BY <3>1, <3>3, CapturedRest
      <4> QED
        BY <2>1, <4>1, <4>2 DEF IInv, PlacesInv, PoolsInv
    <3>4. CASE CapturedReclaimingFast
      <4>1. PlacesInv'
        BY <3>2, <3>4, ReclaimFastPlaces
      <4>2. PoolsInv'
        BY <3>1, <3>4, CapturedRest
      <4> QED
        BY <2>1, <4>1, <4>2 DEF IInv, PlacesInv, PoolsInv
    <3>5. CASE CapturedReclaimingLong
      <4>1. PlacesInv'
        BY <3>2, <3>5, ReclaimLongPlaces
      <4>2. PoolsInv'
        BY <3>1, <3>5, CapturedRest
      <4> QED
        BY <2>1, <4>1, <4>2 DEF IInv, PlacesInv, PoolsInv
    <3>6. CASE CaptureDropped
      <4>1. PlacesInv' /\ PoolsInv'
        BY <3>1, <3>6, StreamKeeps
      <4> QED
        BY <2>1, <4>1 DEF IInv, PlacesInv, PoolsInv
    <3> QED
      BY <2>2, <3>3, <3>4, <3>5, <3>6 DEF FrameCapturedCb
  <2>3. CASE FastThread
    <3>1. CASE FastResume
      <4>1. PlacesInv'
        BY <3>1, FastResumePlaces
      <4> QED
        BY <2>1, <3>1, <4>1, FastResumeRest DEF IInv, PlacesInv, PoolsInv
    <3>2. CASE FastStartGrey \/ FastDecoded \/ FastDecodeFailed \/ FastBlobs \/ FastSearch \/ FastSave
      <4>1. PlacesInv' /\ PoolsInv'
        BY <3>2, FastStartGreyKeeps, FastDecodedKeeps, FastDecodeFailedKeeps, FastBlobsKeeps,
           FastSearchesKeep
      <4> QED
        BY <2>1, <4>1 DEF IInv, PlacesInv, PoolsInv
    <3>3. CASE FastQueuesLong \/ FastReleases
      <4>1. PlacesInv' /\ PoolsInv'
        BY <3>3, QueuesLongPlaces, FastReleasesPlaces, FastRoutesRest
      <4> QED
        BY <2>1, <4>1 DEF IInv, PlacesInv, PoolsInv
    <3> QED
      BY <2>3, <3>1, <3>2, <3>3 DEF FastThread
  <2>4. CASE LongThread
    <3>1. CASE LongResume \/ LongFinish
      <4>1. PlacesInv' /\ PoolsInv'
        BY <3>1, LongPlaces, LongRest
      <4> QED
        BY <2>1, <4>1 DEF IInv, PlacesInv, PoolsInv
    <3>2. CASE LongSearch \/ LongSave
      <4>1. PlacesInv' /\ PoolsInv'
        BY <3>2, ControlKeeps
      <4> QED
        BY <2>1, <4>1 DEF IInv, PlacesInv, PoolsInv
    <3> QED
      BY <2>4, <3>1, <3>2 DEF LongThread
  <2>5. CASE FrameStart \/ Start \/ SpuriousWakeup \/ StopVideo \/ Shutdown \/ Join
    <3>1. PlacesInv' /\ PoolsInv'
      BY <2>5, StreamKeeps, ControlKeeps
    <3> QED
      BY <2>1, <3>1 DEF IInv, PlacesInv, PoolsInv
  <2> QED
    BY <1>2, <2>2, <2>3, <2>4, <2>5 DEF Next
<1> QED
  BY <1>1, <1>2

\* The invariant the theorems rest on: what is where, in which order, and what
\* each thread may count on at each point of its loop.
THEOREM Inductive == Spec => []IInv
<1>1. Init => IInv
  BY InitOK
<1>2. IInv /\ [Next]_vars => IInv'
  BY StepOK
<1> QED
  BY <1>1, <1>2, PTL DEF Spec

-----------------------------------------------------------------------------
(***************************************************************************)
(* What the invariant says.                                                *)
(***************************************************************************)
Ordered(q) == \A i, j \in DOMAIN q : q[i] \in earlier[q[j]] <=> i < j

\* A buffer in front of a queue, captured before all of it.
LEMMA PrependFacts ==
  ASSUME NEW q \in Seq(Buffers), NEW b \in Buffers, Ordered(q), b \notin earlier[b],
         \A c \in InSeq(q) : b \in earlier[c] /\ c \notin earlier[b]
  PROVE  /\ <<b>> \o q \in Seq(Buffers) /\ Len(<<b>> \o q) = Len(q) + 1
         /\ InSeq(<<b>> \o q) = {b} \cup InSeq(q) /\ Ordered(<<b>> \o q)
<1> DEFINE r == <<b>> \o q
           n == Len(q)
<1>1. n \in Nat /\ DOMAIN q = 1 .. n /\ \A i \in 1 .. n : q[i] \in InSeq(q)
  BY SeqFacts
<1>2. /\ r \in Seq(Buffers) /\ Len(r) = n + 1
      /\ \A i \in 1 .. n + 1 : r[i] = IF i = 1 THEN b ELSE q[i - 1]
  <2>1. <<b>> \in Seq(Buffers) /\ Len(<<b>>) = 1 /\ <<b>>[1] = b
    OBVIOUS
  <2>2. /\ r \in Seq(Buffers) /\ Len(r) = Len(<<b>>) + n
        /\ \A i \in 1 .. Len(<<b>>) + n :
             r[i] = IF i <= Len(<<b>>) THEN <<b>>[i] ELSE q[i - Len(<<b>>)]
    BY <2>1, ConcatProperties
  <2>3. r \in Seq(Buffers) /\ Len(r) = 1 + n
        /\ \A i \in 1 .. 1 + n : r[i] = IF i <= 1 THEN <<b>>[i] ELSE q[i - 1]
    BY <2>1, <2>2
  <2> HIDE DEF r, n
  <2> QED
    BY <1>1, <2>1, <2>3
<1>3. DOMAIN r = 1 .. n + 1
  BY <1>2, LenProperties
<1>4. InSeq(r) = {b} \cup InSeq(q)
  <2> HIDE DEF r, n
  <2>1. ASSUME NEW i \in 1 .. n + 1 PROVE r[i] \in {b} \cup InSeq(q)
    <3>1. CASE i = 1
      BY <1>2, <3>1
    <3>2. CASE i # 1
      <4>1. i - 1 \in 1 .. n
        BY <1>1, <3>2
      <4> QED
        BY <1>1, <1>2, <3>2, <4>1
    <3> QED
      BY <3>1, <3>2
  <2>2. b \in InSeq(r)
    <3>1. 1 \in 1 .. n + 1
      BY <1>1
    <3> QED
      BY <1>2, <1>3, <3>1 DEF InSeq
  <2>3. ASSUME NEW i \in 1 .. n PROVE q[i] \in InSeq(r)
    <3>1. i + 1 \in 1 .. n + 1 /\ i + 1 # 1 /\ (i + 1) - 1 = i
      BY <1>1
    <3>2. r[i + 1] = q[i]
      BY <1>2, <3>1
    <3> QED
      BY <1>3, <3>1, <3>2 DEF InSeq
  <2> QED
    BY <1>1, <1>3, <2>1, <2>2, <2>3 DEF InSeq
<1>5. ASSUME NEW i \in 1 .. n + 1, NEW j \in 1 .. n + 1
      PROVE  r[i] \in earlier[r[j]] <=> i < j
  <2> HIDE DEF r, n
  <2>1. CASE i = 1 /\ j = 1
    BY <1>2, <2>1
  <2>2. CASE i = 1 /\ j # 1
    <3>1. j - 1 \in 1 .. n /\ i < j
      BY <1>1, <2>2
    <3> QED
      BY <1>1, <1>2, <2>2, <3>1
  <2>3. CASE i # 1 /\ j = 1
    <3>1. i - 1 \in 1 .. n /\ ~(i < j)
      BY <1>1, <2>3
    <3> QED
      BY <1>1, <1>2, <2>3, <3>1
  <2>4. CASE i # 1 /\ j # 1
    <3>1. i - 1 \in 1 .. n /\ j - 1 \in 1 .. n /\ (i - 1 < j - 1 <=> i < j)
      BY <1>1, <2>4
    <3>2. q[i - 1] \in earlier[q[j - 1]] <=> i - 1 < j - 1
      BY <1>1, <3>1 DEF Ordered
    <3>3. r[i] = q[i - 1] /\ r[j] = q[j - 1]
      BY <1>2, <2>4
    <3> QED
      BY <3>1, <3>2, <3>3
  <2> QED
    BY <2>1, <2>2, <2>3, <2>4
<1> QED
  BY <1>2, <1>3, <1>4, <1>5 DEF Ordered

LEMMA OrderOK == IInv => PipelineInOrder
<1> SUFFICES ASSUME IInv PROVE PipelineInOrder
  OBVIOUS
<1>1. TypeOK /\ Hands /\ Placed /\ InOrder
  BY DEF IInv
<1>2. /\ fastQ \in Seq(Buffers) /\ longQ \in Seq(Buffers) /\ Front \subseteq Buffers
      /\ InSeq(fastQ) \subseteq Buffers
      /\ fast.frame \in Buffers \cup {None} /\ long.frame \in Buffers \cup {None}
      /\ Len(fastQ) \in Nat /\ Len(longQ) \in Nat /\ Len(captureQ) \in Nat
  BY <1>1, QueueFacts
<1> DEFINE A == InHand(long) \o longQ
           B == InHand(fast) \o fastQ
\* From the fast thread's frame on.
<1>3. /\ B \in Seq(Buffers) /\ Ordered(B) /\ Len(B) = Len(fastQ) + Held(fast)
      /\ InSeq(B) = InSeq(fastQ) \cup HandOf(fast)
  <2>1. Ordered(fastQ)
    BY <1>1 DEF InOrder, Ordered
  <2>2. CASE fast.frame = None
    <3>1. B = fastQ
      BY <1>2, <2>2, ConcatEmptySeq DEF InHand
    <3> QED
      BY <1>2, <2>1, <2>2, <3>1 DEF Held, HandOf
  <2>3. CASE fast.frame # None
    <3> DEFINE g == fast.frame
    <3>1. g \in Buffers /\ g \notin InSeq(fastQ) /\ g \notin Front /\ earlier[g] = Front
      BY <1>1, <1>2, <2>3 DEF Placed, InOrder
    <3>2. \A c \in InSeq(fastQ) : g \in earlier[c] /\ c \notin earlier[g]
      BY <1>1, <3>1 DEF Placed, InOrder
    <3>3. B = <<g>> \o fastQ /\ Held(fast) = 1 /\ HandOf(fast) = {g}
      BY <2>3 DEF InHand, Held, HandOf
    <3> HIDE DEF g, B
    <3>4. /\ <<g>> \o fastQ \in Seq(Buffers) /\ Len(<<g>> \o fastQ) = Len(fastQ) + 1
          /\ InSeq(<<g>> \o fastQ) = {g} \cup InSeq(fastQ) /\ Ordered(<<g>> \o fastQ)
      BY <1>2, <2>1, <3>1, <3>2, PrependFacts
    <3> QED
      BY <3>3, <3>4
  <2> QED
    BY <2>2, <2>3
\* What is in front of it is one buffer at most.
<1>4. /\ A = <<>> /\ Front = {} /\ Len(longQ) + Held(long) = 0
      \/ \E x \in Buffers : A = <<x>> /\ Front = {x} /\ Len(longQ) + Held(long) = 1
  <2>1. CASE longQ # <<>>
    <3> DEFINE x == longQ[1]
    <3>1. /\ Len(longQ) = 1 /\ x \in Buffers /\ long.frame = None /\ Front = {x}
      BY <1>1, <2>1, FrontFacts
    <3>2. A = longQ /\ Held(long) = 0
      BY <1>2, <3>1, ConcatEmptySeq DEF InHand, Held
    <3>3. longQ = <<x>>
      BY <1>2, <3>1
    <3> QED
      BY <3>1, <3>2, <3>3
  <2>2. CASE longQ = <<>>
    <3>1. Front = HandOf(long) /\ Len(longQ) = 0
      BY <1>1, <2>2, FrontFacts
    <3>2. CASE long.frame = None
      BY <1>2, <2>2, <3>1, <3>2, ConcatEmptySeq DEF InHand, Held, HandOf
    <3>3. CASE long.frame # None
      <4>1. long.frame \in Buffers /\ Front = {long.frame} /\ Held(long) = 1
        BY <1>2, <3>1, <3>3 DEF Held, HandOf
      <4>2. A = <<long.frame>> \o <<>>
        BY <2>2, <3>3 DEF InHand
      <4>3. A = <<long.frame>>
        BY <4>2
      <4> QED
        BY <3>1, <4>1, <4>3
    <3> QED
      BY <3>2, <3>3
  <2> QED
    BY <2>1, <2>2
<1>5. Pipeline = A \o B
  <2>1. /\ InHand(long) \in Seq(Buffers) /\ InHand(fast) \in Seq(Buffers)
    BY <1>2 DEF InHand
  <2>2. A \in Seq(Buffers)
    BY <1>2, <2>1, ConcatProperties
  <2>3. Pipeline = (A \o InHand(fast)) \o fastQ
    BY DEF Pipeline
  <2> HIDE DEF A
  <2>4. (A \o InHand(fast)) \o fastQ = A \o (InHand(fast) \o fastQ)
    <3> DEFINE F == InHand(fast)
    <3>1. F \in Seq(Buffers) /\ A \in Seq(Buffers) /\ fastQ \in Seq(Buffers)
      BY <1>2, <2>1, <2>2
    <3> HIDE DEF F
    <3>2. (A \o F) \o fastQ = A \o (F \o fastQ)
      BY <3>1, ConcatAssociative
    <3> QED
      BY <3>2 DEF F
  <2> QED
    BY <2>3, <2>4
<1>6. /\ Ordered(Pipeline) /\ Len(Pipeline) = Len(B) + Len(longQ) + Held(long)
      /\ InSeq(Pipeline) = InSeq(B) \cup Front
  <2>0. Len(B) \in Nat /\ Held(long) \in Nat
    BY <1>3, SeqFacts DEF Held
  <2>1. CASE A = <<>> /\ Front = {} /\ Len(longQ) + Held(long) = 0
    <3>1. Pipeline = B
      BY <1>3, <1>5, <2>1, ConcatEmptySeq
    <3> HIDE DEF A, B
    <3> QED
      BY <1>2, <1>3, <2>0, <2>1, <3>1
  <2>2. ASSUME NEW x \in Buffers, A = <<x>>, Front = {x}, Len(longQ) + Held(long) = 1
        PROVE  /\ Ordered(Pipeline) /\ Len(Pipeline) = Len(B) + Len(longQ) + Held(long)
               /\ InSeq(Pipeline) = InSeq(B) \cup Front
    <3>1. Pipeline = <<x>> \o B
      BY <1>5, <2>2
    <3>2. earlier[x] = {} /\ x \notin earlier[x]
      BY <1>1, <2>2 DEF InOrder
    <3>3. \A c \in InSeq(B) : x \in earlier[c] /\ c \notin earlier[x]
      <4>1. \A c \in InSeq(fastQ) : x \in earlier[c]
        BY <1>1, <2>2 DEF InOrder, Placed
      <4>2. \A c \in HandOf(fast) : x \in earlier[c]
        BY <1>1, <2>2 DEF InOrder, HandOf
      <4> QED
        BY <1>3, <3>2, <4>1, <4>2
    <3> HIDE DEF A, B
    <3>4. /\ Len(<<x>> \o B) = Len(B) + 1 /\ InSeq(<<x>> \o B) = {x} \cup InSeq(B)
          /\ Ordered(<<x>> \o B)
      BY <1>3, <2>2, <3>2, <3>3, PrependFacts
    <3>5. Len(Pipeline) = Len(B) + Len(longQ) + Held(long)
      BY <1>2, <2>0, <2>2, <3>1, <3>4
    <3> QED
      BY <2>2, <3>1, <3>4, <3>5
  <2> QED
    BY <1>4, <2>1, <2>2
<1>7. Len(Pipeline) + Len(captureQ) = NumBuffers
  <2>1. Held(fast) \in Nat /\ Held(long) \in Nat /\ Len(B) \in Nat
    BY <1>3, SeqFacts DEF Held
  <2>2. Len(captureQ) + Len(fastQ) + Len(longQ) + Held(fast) + Held(long) = NumBuffers
    BY <1>1 DEF Placed
  <2>3. Len(B) = Len(fastQ) + Held(fast) /\ Len(Pipeline) = Len(B) + Len(longQ) + Held(long)
    BY <1>3, <1>6
  <2> HIDE DEF A, B
  <2> QED
    BY <1>2, <2>1, <2>2, <2>3, SMTT(30)
<1>8. InSeq(Pipeline) \cup InSeq(captureQ) = Buffers
  <2>1. InSeq(Pipeline) = InSeq(fastQ) \cup HandOf(fast) \cup Front
    BY <1>3, <1>6
  <2>2. InSeq(captureQ) \subseteq Buffers /\ HandOf(fast) \subseteq Buffers
    BY <1>1, <1>2, QueueFacts DEF HandOf
  <2>3. \A b \in Buffers : b \in InSeq(captureQ) \/ b \in InSeq(fastQ) \/ b \in HandOf(fast) \/ b \in Front
    BY <1>1, Constants DEF Placed, HandOf
  <2> QED
    BY <1>2, <2>1, <2>2, <2>3
<1> QED
  BY <1>6, <1>7, <1>8 DEF PipelineInOrder, Ordered

LEMMA ConservedOK ==
  IInv => VideoFramesConserved /\ ObservationsConserved /\ SpareBuffers
<1> SUFFICES ASSUME IInv PROVE VideoFramesConserved /\ ObservationsConserved /\ SpareBuffers
  OBVIOUS
<1>1. TypeOK /\ Hands /\ Placed /\ Filled /\ Counted /\ Observed /\ Marked
  BY DEF IInv
<1>2. VideoFramesConserved
  <2>1. decoder.free = 0 /\ fast.pc = "decode" => decoder.alloced < MaxDecoded
    BY <1>1, DecoderRoom
  <2> QED
    BY <1>1, <2>1 DEF VideoFramesConserved, Counted, Filled
<1>3. ObservationsConserved
  <2>1. InSeq(obsQ) \subseteq Obs
    <3>1. obsQ \in Seq(Obs)
      BY <1>1 DEF TypeOK
    <3> QED
      BY <3>1, SeqFacts
  <2>2. \A b \in Buffers : HoldsObs(b) => buf[b].obs \in Obs
    BY <1>1 DEF TypeOK, HoldsObs
  <2>3. \A o \in Obs, b \in Buffers : buf[b].obs = o => HoldsObs(b)
    BY Constants DEF HoldsObs
  <2>4. InSeq(obsQ) \cup {buf[b].obs : b \in {c \in Buffers : HoldsObs(c)}} = Obs
    BY <1>1, <2>1, <2>2, <2>3 DEF Observed
  <2> QED
    BY <1>1, <2>4 DEF ObservationsConserved, Observed, Marked
<1>4. SpareBuffers
  <2>1. Len(captureQ) + Len(fastQ) + Len(longQ) + Held(fast) + Held(long) = NumBuffers
    BY <1>1 DEF Placed
  <2>2. Len(longQ) + Held(long) <= 1 /\ Held(fast) <= 1 /\ Held(fast) \in Nat /\ Held(long) \in Nat
    <3>1. longQ # <<>> => Len(longQ) = 1 /\ Held(long) = 0
      BY <1>1, FrontFacts DEF Held
    <3>2. longQ = <<>> => Len(longQ) = 0
      BY <1>1, FrontFacts
    <3>3. Held(fast) \in {0, 1} /\ Held(long) \in {0, 1}
      BY DEF Held
    <3> QED
      BY <3>1, <3>2, <3>3
  <2>3. Len(captureQ) \in Nat /\ Len(fastQ) \in Nat /\ Len(longQ) \in Nat
    BY <1>1, QueueFacts
  <2> QED
    BY <2>1, <2>2, <2>3, Constants DEF SpareBuffers
<1> QED
  BY <1>2, <1>3, <1>4

LEMMA HandedOverOK == IInv => HandedOver
<1> SUFFICES ASSUME IInv PROVE HandedOver
  OBVIOUS
<1>1. TypeOK /\ Hands /\ Placed /\ Observed /\ Marked /\ Tried
  BY DEF IInv
<1>2. PingPong
  <2> SUFFICES ASSUME fast.pc = "blobs" PROVE Len(obsQ) >= 2 /\ Oldest(obsQ) # lastObs
    BY DEF PingPong
  <2> DEFINE H == {b \in Buffers : HoldsObs(b)}
  <2>1. Cardinality(H) \in Nat /\ Cardinality(H) <= 1
    BY <1>1, Holders DEF Marked
  <2>2. Len(obsQ) + Cardinality(H) = NumObs
    BY <1>1 DEF Observed
  <2>3. obsQ \in Seq(Obs) /\ Len(obsQ) \in Nat
    <3>1. obsQ \in Seq(Obs)
      BY <1>1 DEF TypeOK
    <3> QED
      BY <3>1, SeqFacts
  <2> HIDE DEF H
  <2>4. Len(obsQ) >= 2
    BY <2>1, <2>2, <2>3, Constants
  <2>5. obsQ # <<>>
    BY <2>3, <2>4, SeqFacts
  <2> QED
    BY <1>1, <2>4, <2>5 DEF Observed
<1>3. LongHasBlobs
  <2>1. InSeq(longQ \o InHand(long)) = Front
    <3>1. longQ \in Seq(Buffers) /\ long.frame \in Buffers \cup {None}
      BY <1>1, QueueFacts
    <3>2. CASE long.frame = None
      BY <3>1, <3>2, ConcatEmptySeq DEF InHand, Front, HandOf
    <3>3. CASE long.frame # None
      <4> DEFINE x == long.frame
      <4>1. x \in Buffers /\ longQ \o InHand(long) = longQ \o <<x>> /\ Front = InSeq(longQ) \cup {x}
        BY <3>1, <3>3 DEF InHand, Front, HandOf
      <4> HIDE DEF x
      <4>2. longQ \o <<x>> = Append(longQ, x) /\ InSeq(Append(longQ, x)) = InSeq(longQ) \cup {x}
        BY <3>1, <4>1, AppendFacts
      <4> QED
        BY <4>1, <4>2
    <3> QED
      BY <3>2, <3>3
  <2> QED
    BY <1>1, <2>1 DEF LongHasBlobs, Marked
<1>4. LearnedPoseSaved
  BY <1>1 DEF LearnedPoseSaved, Tried
<1> QED
  BY <1>2, <1>3, <1>4 DEF HandedOver

\* Nothing the pipeline uses is lost, used twice or out of its order: frames
\* stay in the order of their capture whatever is stolen, reclaimed or given up
\* by the three threads, every buffer, video frame and observation is in exactly
\* one place, the decoder never meets its limit, and all but two buffers are
\* there for the camera.
THEOREM FramesSafe == Spec => []FramesConserved
<1>1. IInv => FramesConserved
  BY OrderOK, ConservedOK DEF FramesConserved, IInv
<1> QED
  BY <1>1, Inductive, PTL

\* What one analysis thread leaves to the other is there: blob extraction has
\* an observation that is not the one it compares with, a frame for the long
\* thread has its observation and was marked in this pass, and a camera pose
\* that was learned is saved, or a save was tried.
THEOREM HandOverSafe == Spec => []HandedOver
BY HandedOverOK, Inductive, PTL

-----------------------------------------------------------------------------
(***************************************************************************)
(* The pipeline implements FrameLife.                                      *)
(***************************************************************************)
stages == [b \in Buffers |-> StageOf(b)]

LEMMA InHandFacts ==
  ASSUME NEW t, t.frame \in Buffers \cup {None}
  PROVE  InSeq(InHand(t)) = HandOf(t)
<1>1. CASE t.frame = None
  BY <1>1 DEF InHand, HandOf, InSeq
<1>2. CASE t.frame # None
  <2> DEFINE x == t.frame
  <2>1. InHand(t) = <<x>> /\ HandOf(t) = {x}
    BY <1>2 DEF InHand, HandOf
  <2> HIDE DEF x
  <2>2. InSeq(<<x>>) = {x}
    BY DEF InSeq
  <2> QED
    BY <2>1, <2>2
<1> QED
  BY <1>1, <1>2

\* The stage of a buffer says in which of the five places it is.
StagesRight ==
  \A b \in Buffers :
    /\ StageOf(b) = "long" <=> b \in HandOf(long)
    /\ StageOf(b) = "pending" <=> b \in InSeq(longQ)
    /\ StageOf(b) = "fast" <=> b = fast.frame
    /\ StageOf(b) = "queued" <=> b \in InSeq(fastQ)
    /\ StageOf(b) = "free" <=> b \in InSeq(captureQ)
    /\ StageOf(b) \in {"free", "queued", "fast", "pending", "long"}

LEMMA StageIs == IInv => StagesRight
<1> SUFFICES ASSUME IInv, NEW b \in Buffers
             PROVE  /\ StageOf(b) = "long" <=> b \in HandOf(long)
                    /\ StageOf(b) = "pending" <=> b \in InSeq(longQ)
                    /\ StageOf(b) = "fast" <=> b = fast.frame
                    /\ StageOf(b) = "queued" <=> b \in InSeq(fastQ)
                    /\ StageOf(b) = "free" <=> b \in InSeq(captureQ)
                    /\ StageOf(b) \in {"free", "queued", "fast", "pending", "long"}
  BY DEF StagesRight
<1>1. TypeOK /\ Hands /\ Placed
  BY DEF IInv
<1>2. InSeq(InHand(long)) = HandOf(long) /\ InSeq(InHand(fast)) = HandOf(fast)
  BY <1>1, QueueFacts, InHandFacts
<1>3. b \in HandOf(fast) <=> b = fast.frame
  BY Constants DEF HandOf
<1>4. ~(b \in InSeq(longQ) /\ b \in HandOf(long))
  BY <1>1, FrontFacts DEF HandOf
<1>5. /\ b \in InSeq(captureQ) => b \notin InSeq(fastQ) /\ b # fast.frame
                                  /\ b \notin InSeq(longQ) /\ b \notin HandOf(long)
      /\ b \in InSeq(fastQ) => b # fast.frame /\ b \notin InSeq(longQ) /\ b \notin HandOf(long)
      /\ b = fast.frame => b \notin InSeq(longQ) /\ b \notin HandOf(long)
      /\ \/ b \in InSeq(captureQ) \/ b \in InSeq(fastQ) \/ b = fast.frame
         \/ b \in InSeq(longQ) \/ b \in HandOf(long)
  BY <1>1 DEF Placed, Front
<1> QED
  BY <1>2, <1>3, <1>4, <1>5 DEF StageOf

LEMMA OneEach == IInv => Life!OneAtATime(stages)
<1> SUFFICES ASSUME IInv PROVE Life!OneAtATime(stages)
  OBVIOUS
<1>1. Life!In(stages, {"fast"}) \subseteq {fast.frame}
  BY StageIs DEF StagesRight, stages, Life!In
<1>2. PICK d : Front \subseteq {d}
  BY FrontSmall DEF IInv
<1>3. Life!In(stages, {"pending", "long"}) \subseteq {d}
  BY <1>2, StageIs DEF StagesRight, stages, Life!In, Front
<1> QED
  BY <1>1, <1>3 DEF Life!OneAtATime

LEMMA FetchSets ==
  ASSUME TypeOK, NoRepeat(fastQ), FastFetches
  PROVE  /\ InSeq(fastQ') = InSeq(fastQ) \ {fast'.frame}
         /\ fast'.frame = None \/ fast'.frame \in InSeq(fastQ)
<1>1. fastQ \in Seq(Buffers) /\ None \notin InSeq(fastQ)
  BY QueueFacts, Constants
<1>2. CASE shutdown \/ fastQ = <<>>
  <2>1. FastNext.frame = None
    BY <1>2 DEF FastNext, Done, Waiting, Thread
  <2>2. fastQ' = fastQ /\ fast'.frame = None
    BY <2>1 DEF FastFetches
  <2> QED
    BY <1>1, <2>2
<1>3. CASE ~shutdown /\ fastQ # <<>>
  <2>1. fastQ[1] \in InSeq(fastQ) /\ fastQ[1] # None
    BY <1>1, <1>3, SeqFacts
  <2>2. FastNext.frame = fastQ[1]
    BY <1>3 DEF FastNext, Oldest, Thread
  <2>3. fast'.frame = fastQ[1] /\ fastQ' = Tail(fastQ)
    BY <2>1, <2>2 DEF FastFetches
  <2>4. InSeq(Tail(fastQ)) = InSeq(fastQ) \ {fastQ[1]}
    BY <1>1, <1>3, TailFacts
  <2> QED
    BY <2>1, <2>3, <2>4
<1> QED
  BY <1>2, <1>3

\* Where a step takes the buffers of each place.
Advances ==
  /\ \A b \in InSeq(captureQ) : b \in InSeq(captureQ') \/ b \in InSeq(fastQ')
  /\ \A b \in InSeq(fastQ) : b \in InSeq(fastQ') \/ b = fast'.frame
  /\ \A b \in Buffers : b = fast.frame =>
       b = fast'.frame \/ b \in InSeq(captureQ') \/ b \in InSeq(longQ')
  /\ \A b \in InSeq(longQ) :
       \/ b \in InSeq(longQ') \/ b \in HandOf(long')
       \/ b \in InSeq(captureQ') \/ b \in InSeq(fastQ')
  /\ \A b \in HandOf(long) : b \in HandOf(long') \/ b \in InSeq(captureQ')

LEMMA CaptureAdvances ==
  ASSUME IInv, FrameCapturedCb
  PROVE  Advances
<1>1. TypeOK /\ Hands /\ Placed
  BY DEF IInv
<1>2. captureQ \in Seq(Buffers) /\ fastQ \in Seq(Buffers) /\ longQ \in Seq(Buffers)
  BY <1>1, QueueFacts
<1>3. long' = long
  BY DEF FrameCapturedCb
<1>4. CASE Captured
  <2> DEFINE b == captureQ[1]
  <2>1. /\ captureQ # <<>> /\ captureQ' = Tail(captureQ) /\ fastQ' = Append(fastQ, b)
        /\ longQ' = longQ /\ fast' = Signalled(fast)
    BY <1>4 DEF Captured, Oldest, Attaches, SignalsFast
  <2>2. InSeq(captureQ) = InSeq(captureQ') \cup {b} /\ b \in Buffers
    <3>1. InSeq(captureQ) = InSeq(Tail(captureQ)) \cup {b}
      BY <1>2, <2>1, TailFacts
    <3> QED
      BY <1>1, <2>1, <3>1, QueueFacts
  <2>3. InSeq(fastQ') = InSeq(fastQ) \cup {b}
    <3> HIDE DEF b
    <3> QED
      BY <1>2, <2>1, <2>2, AppendFacts
  <2>4. fast'.frame = fast.frame
    BY <1>1, <2>1, SignalledFacts DEF Hands
  <2> HIDE DEF b
  <2> QED
    BY <1>3, <2>1, <2>2, <2>3, <2>4 DEF Advances
<1>5. CASE CapturedReclaimingFast
  <2> DEFINE b == Newest(fastQ)
  <2>1. /\ fastQ # <<>> /\ captureQ' = captureQ /\ fastQ' = Append(Older(fastQ), b)
        /\ longQ' = longQ /\ fast' = Signalled(fast)
    BY <1>5 DEF CapturedReclaimingFast, Attaches, SignalsFast
  <2>2. InSeq(fastQ) = InSeq(Older(fastQ)) \cup {b} /\ b \in Buffers /\ Older(fastQ) \in Seq(Buffers)
    <3>1. InSeq(fastQ) = InSeq(Older(fastQ)) \cup {b} /\ Older(fastQ) \in Seq(Buffers)
      BY <1>2, <2>1, OlderFacts
    <3> QED
      BY <1>1, <3>1, QueueFacts
  <2>3. InSeq(fastQ') = InSeq(fastQ)
    <3> HIDE DEF b
    <3>1. InSeq(Append(Older(fastQ), b)) = InSeq(Older(fastQ)) \cup {b}
      BY <2>2, AppendFacts
    <3> QED
      BY <2>1, <2>2, <3>1
  <2>4. fast'.frame = fast.frame
    BY <1>1, <2>1, SignalledFacts DEF Hands
  <2> QED
    BY <1>3, <2>1, <2>3, <2>4 DEF Advances
<1>6. CASE CapturedReclaimingLong
  <2> DEFINE b == Newest(longQ)
  <2>1. /\ longQ # <<>> /\ captureQ' = captureQ /\ fastQ' = Append(fastQ, b)
        /\ longQ' = Older(longQ) /\ fast' = Signalled(fast)
    BY <1>6 DEF CapturedReclaimingLong, Attaches, SignalsFast
  <2>2. InSeq(longQ) = {b} /\ b \in Buffers
    BY <1>1, <2>1, FrontFacts
  <2>3. InSeq(fastQ') = InSeq(fastQ) \cup {b}
    <3> HIDE DEF b
    <3> QED
      BY <1>2, <2>1, <2>2, AppendFacts
  <2>4. fast'.frame = fast.frame
    BY <1>1, <2>1, SignalledFacts DEF Hands
  <2> HIDE DEF b
  <2> QED
    BY <1>3, <2>1, <2>2, <2>3, <2>4 DEF Advances
<1>7. CASE CaptureDropped
  BY <1>3, <1>7 DEF CaptureDropped, queues, Advances
<1> QED
  BY <1>4, <1>5, <1>6, <1>7 DEF FrameCapturedCb

LEMMA FetchAdvances ==
  ASSUME IInv, FastResume \/ FastQueuesLong \/ FastReleases
  PROVE  Advances
<1> DEFINE g == fast.frame
<1>1. TypeOK /\ Hands /\ Placed
  BY DEF IInv
<1>2. FastFetches
  BY DEF FastResume, FastQueuesLong, FastReleases
<1>3. /\ InSeq(fastQ') = InSeq(fastQ) \ {fast'.frame}
      /\ fast'.frame = None \/ fast'.frame \in InSeq(fastQ)
  BY <1>1, <1>2, FetchSets DEF Placed
<1>4. CASE FastResume
  <2>1. UNCHANGED <<captureQ, longQ, long>> /\ fast.frame = None
    BY <1>1, <1>4 DEF FastResume, Hands
  <2>2. \A b \in Buffers : b # fast.frame
    BY <2>1, Constants
  <2> QED
    BY <1>3, <2>1, <2>2 DEF Advances
<1>5. CASE FastQueuesLong
  <2> DEFINE R == IF longQ = <<>> THEN <<>> ELSE <<longQ[1]>>
  <2>1. /\ Releases(R) /\ longQ' = Append(<<>>, g) /\ long' = Signalled(long)
        /\ main' = main /\ lastObs' = lastObs /\ g \in Buffers /\ ~longBusy
    BY <1>1, <1>5, FrontFacts, QueueFacts DEF FastQueuesLong, control, Hands, WantsLong
  <2>2. HandOf(long) = {}
    BY <1>1, <2>1 DEF Hands, HandOf
  <2>3. InSeq(R) = InSeq(longQ) /\ (R = <<>> \/ \E b \in Buffers : R = <<b>> /\ b \notin InSeq(captureQ))
    <3>1. CASE longQ = <<>>
      BY <1>1, <3>1, FrontFacts, ReleaseOfNone
    <3>2. CASE longQ # <<>>
      <4>1. longQ[1] \in Buffers /\ InSeq(longQ) = {longQ[1]} /\ longQ[1] \notin InSeq(captureQ)
        BY <1>1, <3>2, FrontFacts DEF Placed, Front
      <4>2. InSeq(<<longQ[1]>>) = {longQ[1]}
        BY <1>1, <4>1, ReleaseOfOne
      <4> QED
        BY <3>2, <4>1, <4>2
    <3> QED
      BY <3>1, <3>2
  <2> HIDE DEF R
  <2>4. InSeq(captureQ') = InSeq(captureQ) \cup InSeq(R)
    BY <2>1, <2>3, ReleasedPools
  <2>5. g \in InSeq(longQ')
    <3>1. longQ' = Append(<<>>, g) /\ InSeq(<<g>>) = {g}
      BY <1>1, <2>1, ReleaseOfOne
    <3> HIDE DEF g
    <3>2. Append(<<>>, g) = <<g>>
      OBVIOUS
    <3> QED
      BY <3>1, <3>2
  <2> QED
    BY <1>3, <2>2, <2>3, <2>4, <2>5 DEF Advances
<1>6. CASE FastReleases
  <2>1. /\ Releases(<<g>>) /\ UNCHANGED <<longQ, long>> /\ main' = main /\ lastObs' = lastObs
        /\ g \in Buffers /\ g \notin InSeq(captureQ)
    BY <1>1, <1>6, QueueFacts DEF FastReleases, control, Hands, Placed
  <2>2. InSeq(<<g>>) = {g}
    BY <1>1, <2>1, ReleaseOfOne
  <2>3. InSeq(captureQ') = InSeq(captureQ) \cup InSeq(<<g>>)
    BY <2>1, ReleasedPools
  <2> QED
    BY <1>3, <2>1, <2>2, <2>3 DEF Advances
<1> QED
  BY <1>4, <1>5, <1>6

LEMMA LongAdvances ==
  ASSUME IInv, LongResume \/ LongFinish
  PROVE  Advances
<1> DEFINE R == IF long.frame = None THEN <<>> ELSE <<long.frame>>
<1>1. TypeOK /\ Hands /\ Placed
  BY DEF IInv
<1>2. LongFetches(R) /\ UNCHANGED <<fastQ, fast, lastObs, main>>
  BY <1>1 DEF Hands, LongResume, LongFinish
<1>3. /\ Releases(R)
      /\ InSeq(longQ) \subseteq InSeq(longQ') \cup HandOf(long')
  <2>1. CASE ~shutdown /\ longQ # <<>>
    <3>1. Newest(longQ) = longQ[1] /\ Older(longQ) = <<>> /\ long.frame = None
          /\ InSeq(longQ) = {longQ[1]} /\ longQ[1] \in Buffers
      BY <1>1, <2>1, FrontFacts
    <3>2. R \o <<>> = R
      BY <3>1
    <3>3. Releases(R) /\ long' = Thread("search", longQ[1], camera.have)
      BY <1>2, <2>1, <3>1, <3>2 DEF LongFetches
    <3>4. longQ[1] \in HandOf(long')
      BY <3>1, <3>3, Constants DEF Thread, HandOf
    <3> QED
      BY <3>1, <3>3, <3>4
  <2>2. CASE shutdown \/ longQ = <<>>
    BY <1>2, <2>2 DEF LongFetches
  <2> QED
    BY <2>1, <2>2
<1>4. /\ R = <<>> \/ \E b \in Buffers : R = <<b>> /\ b \notin InSeq(captureQ)
      /\ InSeq(R) = HandOf(long)
  <2>1. CASE long.frame = None
    BY <1>1, <2>1, ReleaseOfNone DEF HandOf
  <2>2. CASE long.frame # None
    <3>1. long.frame \in Buffers /\ long.frame \in Front
      BY <1>1, <2>2, QueueFacts DEF Front, HandOf
    <3>2. InSeq(<<long.frame>>) = {long.frame} /\ long.frame \notin InSeq(captureQ)
      BY <1>1, <3>1, ReleaseOfOne DEF Placed
    <3> QED
      BY <2>2, <3>1, <3>2 DEF HandOf
  <2> QED
    BY <2>1, <2>2
<1> HIDE DEF R
<1>5. InSeq(captureQ') = InSeq(captureQ) \cup InSeq(R)
  BY <1>2, <1>3, <1>4, ReleasedPools
<1> QED
  BY <1>2, <1>3, <1>4, <1>5 DEF Advances

\* The other actions move no buffer.
LEMMA OtherAdvances ==
  ASSUME IInv, FrameStart \/ FastStartGrey \/ FastDecoded \/ FastDecodeFailed \/ FastBlobs
               \/ FastSearch \/ FastSave \/ LongSearch \/ LongSave \/ SpuriousWakeup
               \/ Start \/ StopVideo \/ Shutdown \/ Join
  PROVE  Advances
<1>1. TypeOK /\ Hands
  BY DEF IInv
<1>2. UNCHANGED <<captureQ, fastQ, longQ>>
  BY DEF FrameStart, FastStartGrey, FastDecoded, FastDecodeFailed, FastBlobs, FastSearch,
     FastSave, LongSearch, LongSave, SpuriousWakeup, Start, StopVideo, Shutdown, Join, queues
<1>3. \/ fast' = fast \/ fast' = Signalled(fast) \/ fast' = Thread("blobs", fast.frame, camera.have)
      \/ \E pc \in {"route", "search", "save"} : fast' = [fast EXCEPT !.pc = pc]
  BY DEF FrameStart, FastStartGrey, FastDecoded, FastDecodeFailed, FastBlobs, FastSearch,
     FastSave, LongSearch, LongSave, SpuriousWakeup, Start, StopVideo, Shutdown, Join, WakesAll,
     Signalled
<1>4. \/ long' = long \/ long' = Signalled(long)
      \/ \E pc \in {"save", "finish"} : long' = [long EXCEPT !.pc = pc]
  BY DEF FrameStart, FastStartGrey, FastDecoded, FastDecodeFailed, FastBlobs, FastSearch,
     FastSave, LongSearch, LongSave, SpuriousWakeup, Start, StopVideo, Shutdown, Join, WakesAll,
     Signalled
<1>5. fast'.frame = fast.frame
  <2>1. Signalled(fast).frame = fast.frame
    BY <1>1, SignalledFacts DEF Hands
  <2>2. Thread("blobs", fast.frame, camera.have).frame = fast.frame
    BY DEF Thread
  <2>3. \A pc : [fast EXCEPT !.pc = pc].frame = fast.frame
    BY <1>1 DEF TypeOK, ThreadState
  <2> QED
    BY <1>3, <2>1, <2>2, <2>3
<1>6. long'.frame = long.frame
  BY <1>1, <1>4, SignalledFacts DEF Hands, TypeOK, ThreadState
<1> QED
  BY <1>2, <1>5, <1>6 DEF Advances, HandOf

LEMMA StageMoves ==
  ASSUME StagesRight, StagesRight', Advances, NEW b \in Buffers
  PROVE  StageOf(b)' = StageOf(b) \/ <<StageOf(b), StageOf(b)'>> \in Life!Moves
<1>1. /\ StageOf(b) = "long" <=> b \in HandOf(long)
      /\ StageOf(b) = "pending" <=> b \in InSeq(longQ)
      /\ StageOf(b) = "fast" <=> b = fast.frame
      /\ StageOf(b) = "queued" <=> b \in InSeq(fastQ)
      /\ StageOf(b) = "free" <=> b \in InSeq(captureQ)
      /\ StageOf(b) \in {"free", "queued", "fast", "pending", "long"}
  BY DEF StagesRight
<1>2. /\ StageOf(b)' = "long" <=> b \in HandOf(long')
      /\ StageOf(b)' = "pending" <=> b \in InSeq(longQ')
      /\ StageOf(b)' = "fast" <=> b = fast'.frame
      /\ StageOf(b)' = "queued" <=> b \in InSeq(fastQ')
      /\ StageOf(b)' = "free" <=> b \in InSeq(captureQ')
  BY DEF StagesRight
<1> QED
  BY <1>1, <1>2 DEF Advances, Life!Moves

LEMMA LifeInit == Init => Life!Init
<1> SUFFICES ASSUME Init PROVE Life!Init
  OBVIOUS
<1>1. StagesRight
  BY InitOK, StageIs
<1>2. InSeq(captureQ) = Buffers
  BY Constants, ArrangementFacts DEF Init
<1>3. \A b \in Buffers : StageOf(b) = "free"
  BY <1>1, <1>2 DEF StagesRight
<1> QED
  BY <1>3 DEF Life!Init

LEMMA LifeStep == IInv /\ IInv' /\ [Next]_vars => [Life!Next]_stages
<1> SUFFICES ASSUME IInv, IInv', [Next]_vars PROVE [Life!Next]_stages
  OBVIOUS
<1>1. CASE UNCHANGED vars
  <2>1. UNCHANGED <<long, longQ, fast, fastQ>>
    BY <1>1 DEF vars
  <2>2. stages' = stages
    BY <2>1 DEF stages, StageOf
  <2> QED
    BY <2>2
<1>2. CASE Next
  <2>1. Advances
    BY <1>2, CaptureAdvances, FetchAdvances, LongAdvances, OtherAdvances
       DEF Next, FastThread, LongThread
  <2>2. StagesRight /\ StagesRight'
    BY StageIs, PTL
  <2>3. Life!OneAtATime(stages)'
    BY OneEach, PTL
  <2>4. stages' = [b \in Buffers |-> StageOf(b)']
    BY DEF stages
  <2>5. \A b \in Buffers : StageOf(b)' = StageOf(b) \/ <<StageOf(b), StageOf(b)'>> \in Life!Moves
    BY <2>1, <2>2, StageMoves
  <2>6. stages' \in [Buffers -> Life!Stages]
    BY <2>2, <2>4 DEF StagesRight, Life!Stages
  <2>7. Life!Next
    BY <2>3, <2>4, <2>5, <2>6 DEF Life!Next, stages
  <2> QED
    BY <2>7
<1> QED
  BY <1>1, <1>2

\* The queues implement the life of a frame that FrameLife states: a buffer only
\* moves forward, one frame is in fast analysis, and one waits for or is in long
\* analysis, whatever the three threads do in one step.
THEOREM Refinement == Spec => ImplementsLife
<1>1. Init => Life!Init
  BY LifeInit
<1>2. IInv /\ IInv' /\ [Next]_vars => [Life!Next]_stages
  BY LifeStep
<1> QED
  BY <1>1, <1>2, Inductive, PTL DEF Spec, ImplementsLife, Life!Spec, stages
=============================================================================
