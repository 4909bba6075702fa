-------------------------- MODULE PoseUpdate_proofs --------------------------
(***************************************************************************)
(* Proofs about PoseUpdate: a device that no camera sees stands still, and *)
(* one camera that is wrong replaces no established pose, for any cameras, *)
(* orientations, places, delay slots and thresholds.                       *)
(***************************************************************************)
EXTENDS PoseUpdate, TLAPS

\* The filter of an HMD that is not seen does not move.
HmdStopped == kind = "hmd" /\ Unseen => ~fusion.moving

\* A frame in analysis is of the last exposure or of an older one, and a
\* camera that has one of the last exposure gets no other.
ExposureKept ==
    /\ exposure.age = Never => taken = Sensors
    /\ \A s \in Sensors : frames[s] # NoFrame =>
          /\ exposure.age # Never /\ frames[s].age >= exposure.age
          /\ frames[s].age = exposure.age => s \in taken

IInv == TypeOK /\ StampsOrdered /\ HmdStopped /\ ExposureKept

\* At most one camera may be wrong.
OneLiar == \A s, t \in Liars : s = t

\* A candidate that a right camera left is the truth.
CandidateTrue ==
    candidate # NoCandidate /\ candidate.from \notin Liars => PoseOf(candidate) = Truth

\* The camera has yet to report in this slot.
StillReports(s, k) ==
    \/ frames[s] # NoFrame /\ frames[s].slot = k /\ frames[s].age = slots[k].age
    \/ s \notin taken /\ exposure.slot = k /\ exposure.age = slots[k].age

\* What a wrong camera may agree with was reported by others: until its own
\* report the slot has none but true ones.
ReportsTrue ==
    \A s \in Liars, k \in Slots : StillReports(s, k) => slots[k].reports \subseteq {Truth}

AgreeInv == CandidateTrue /\ ReportsTrue

-----------------------------------------------------------------------------
(***************************************************************************)
(* Types, one set each.                                                    *)
(***************************************************************************)
FusionType == [turn : Turns, place : Places, moving : BOOLEAN]
CandidateType ==
    {NoCandidate} \cup [age : 0 .. MaxCand, from : Sensors, turn : Turns, place : Places]
SlotType == [age : Ages(MaxSearch), used : BOOLEAN, reports : SUBSET Poses]
ExposureType == [age : Ages(MaxSearch), slot : Slots \cup {NoSlot}, lock : BOOLEAN]
QueuedType ==
    [phase : {"queued"}, age : 0 .. MaxSearch, slot : Slots \cup {NoSlot}, lock : BOOLEAN]
SearchType ==
    [phase : {"search"}, age : 0 .. MaxSearch, slot : Slots \cup {NoSlot}, lock : BOOLEAN,
     wide : Doubts, capture : Poses]
FrameType == {NoFrame} \cup QueuedType \cup SearchType

FilterTypes ==
    /\ kind \in Kinds
    /\ uptime \in 0 .. PoseLost
    /\ fusion \in FusionType
    /\ poseAge \in Ages(PoseLost)
    /\ orientAge \in Ages(PoseLost)
    /\ lock \in BOOLEAN
    /\ shown \in Places
CandidateTypes == candidate \in CandidateType
SlotTypes ==
    /\ slots \in [Slots -> SlotType]
    /\ exposure \in ExposureType
    /\ taken \subseteq Sensors
FrameTypes == frames \in [Sensors -> FrameType]

LEMMA TypeParts == TypeOK <=> FilterTypes /\ CandidateTypes /\ SlotTypes /\ FrameTypes
BY DEF TypeOK, FilterTypes, CandidateTypes, SlotTypes, FrameTypes, FusionType, CandidateType,
       SlotType, ExposureType, FrameType, QueuedType, SearchType

LEMMA Numbers ==
    /\ NumSlots \in Nat /\ NumSlots >= 1 /\ OrientLost \in Nat /\ OrientLost >= 1
    /\ CrossGap \in Nat /\ CrossGap >= 1 /\ PoseLost \in Nat /\ PoseLost >= 2
    /\ MaxSearch \in Nat /\ MaxSearch >= 1
    /\ MaxCand \in Nat /\ MaxCand >= 1
    /\ Truth \in Poses /\ Truth.turn \in Turns /\ Truth.place \in Places
BY TimeAssumption, PoseAssumption DEF MaxCand, Poses

\* A frame in analysis: its phase, age and slot.
LEMMA FrameIs ==
    ASSUME FrameTypes, NEW s \in Sensors
    PROVE  /\ frames[s] \in FrameType
           /\ frames[s].phase \in {"queued", "search"} <=> frames[s] # NoFrame
           /\ frames[s] # NoFrame => /\ frames[s].age \in 0 .. MaxSearch
                                     /\ frames[s].slot \in Slots \cup {NoSlot}
           /\ frames[s].phase = "queued" => frames[s] \in QueuedType
           /\ frames[s].phase = "search" => frames[s] \in SearchType
<1>1. frames[s] \in FrameType
  BY DEF FrameTypes
<1>2. /\ NoFrame.phase = "none"
      /\ \A f \in QueuedType : f.phase = "queued" /\ f.age \in 0 .. MaxSearch
                               /\ f.slot \in Slots \cup {NoSlot}
      /\ \A f \in SearchType : f.phase = "search" /\ f.age \in 0 .. MaxSearch
                               /\ f.slot \in Slots \cup {NoSlot}
  BY DEF NoFrame, QueuedType, SearchType
<1> QED
  BY <1>1, <1>2 DEF FrameType

\* What grows older keeps its type.
LEMMA OlderType ==
    ASSUME NEW max \in Nat, NEW age \in Ages(max)
    PROVE  /\ Older(age, max) \in Ages(max)
           /\ Older(age, max) = Never <=> age = Never
           /\ age # Never => Older(age, max) >= age /\ age \in 0 .. max /\ Older(age, max) \in 0 .. max
BY DEF Older, Ages, Never

LEMMA AgedSlot ==
    ASSUME NEW slot \in SlotType
    PROVE  /\ Aged(slot, MaxSearch, FreshSlot) \in SlotType
           /\ \/ Aged(slot, MaxSearch, FreshSlot).reports = {}
              \/ slot.age = Never /\ Aged(slot, MaxSearch, FreshSlot) = slot
              \/ /\ Aged(slot, MaxSearch, FreshSlot).reports = slot.reports
                 /\ Aged(slot, MaxSearch, FreshSlot).age = slot.age + 1
                 /\ slot.age \in Nat
<1>1. FreshSlot \in SlotType /\ FreshSlot.reports = {}
  BY DEF FreshSlot, SlotType, Ages
<1>2. CASE slot.age = Never
  BY <1>2 DEF Aged
<1>3. CASE slot.age # Never /\ slot.age = MaxSearch
  BY <1>1, <1>3 DEF Aged
<1>4. CASE slot.age # Never /\ slot.age # MaxSearch
  <2>1. slot.age \in 0 .. MaxSearch /\ slot.age + 1 \in Ages(MaxSearch)
    BY <1>4, Numbers DEF SlotType, Ages, Never
  <2>2. Aged(slot, MaxSearch, FreshSlot) = [slot EXCEPT !.age = slot.age + 1]
    BY <1>4 DEF Aged
  <2> QED
    BY <2>1, <2>2 DEF SlotType
<1> QED
  BY <1>2, <1>3, <1>4

LEMMA AgedExposure ==
    ASSUME exposure \in ExposureType
    PROVE  /\ Aged(exposure, MaxSearch, NoExposure) \in ExposureType
           /\ \/ exposure.age = Never /\ Aged(exposure, MaxSearch, NoExposure) = exposure
              \/ exposure.age = MaxSearch /\ Aged(exposure, MaxSearch, NoExposure).age = Never
              \/ /\ exposure.age \in 0 .. MaxSearch - 1
                 /\ Aged(exposure, MaxSearch, NoExposure).age = exposure.age + 1
                 /\ Aged(exposure, MaxSearch, NoExposure).slot = exposure.slot
<1>1. NoExposure \in ExposureType /\ NoExposure.age = Never
  BY DEF NoExposure, ExposureType, Ages
<1>2. CASE exposure.age = Never
  BY <1>2 DEF Aged
<1>3. CASE exposure.age # Never /\ exposure.age = MaxSearch
  BY <1>1, <1>3 DEF Aged
<1>4. CASE exposure.age # Never /\ exposure.age # MaxSearch
  <2>1. exposure.age \in 0 .. MaxSearch - 1 /\ exposure.age + 1 \in Ages(MaxSearch)
    BY <1>4, Numbers DEF ExposureType, Ages, Never
  <2>2. Aged(exposure, MaxSearch, NoExposure) = [exposure EXCEPT !.age = exposure.age + 1]
    BY <1>4 DEF Aged
  <2> QED
    BY <2>1, <2>2 DEF ExposureType
<1> QED
  BY <1>2, <1>3, <1>4

LEMMA AgedCandidate ==
    ASSUME candidate \in CandidateType
    PROVE  /\ Aged(candidate, MaxCand, NoCandidate) \in CandidateType
           /\ \/ Aged(candidate, MaxCand, NoCandidate) = NoCandidate
              \/ /\ candidate # NoCandidate
                 /\ Aged(candidate, MaxCand, NoCandidate).from = candidate.from
                 /\ Aged(candidate, MaxCand, NoCandidate).turn = candidate.turn
                 /\ Aged(candidate, MaxCand, NoCandidate).place = candidate.place
<1>1. CASE candidate = NoCandidate
  BY <1>1 DEF Aged, NoCandidate, CandidateType
<1>2. CASE candidate # NoCandidate
  <2>1. candidate \in [age : 0 .. MaxCand, from : Sensors, turn : Turns, place : Places]
    BY <1>2 DEF CandidateType
  <2>2. candidate.age \in 0 .. MaxCand /\ candidate.age # Never
    BY <2>1, Numbers DEF Never
  <2>3. CASE candidate.age = MaxCand
    BY <2>2, <2>3 DEF Aged, CandidateType
  <2>4. CASE candidate.age # MaxCand
    <3>1. Aged(candidate, MaxCand, NoCandidate) = [candidate EXCEPT !.age = candidate.age + 1]
      BY <2>2, <2>4 DEF Aged
    <3>2. candidate.age + 1 \in 0 .. MaxCand
      BY <2>2, <2>4, Numbers
    <3> QED
      BY <1>2, <2>1, <3>1, <3>2 DEF CandidateType
  <2> QED
    BY <2>3, <2>4
<1> QED
  BY <1>1, <1>2

-----------------------------------------------------------------------------
(***************************************************************************)
(* Angles: eighths of a circle that are less than 45 degrees apart are the *)
(* same, so two poses that agree are.                                      *)
(***************************************************************************)
LEMMA SameTurn ==
    ASSUME NEW p, NEW q, p.turn \in Turns, q.turn \in Turns, Degrees(p, q) <= 35
    PROVE  p.turn = q.turn
<1>1. p.turn \in 0 .. 7 /\ q.turn \in 0 .. 7
  BY TurnsAssumption
<1>2. \A i, j \in 0 .. 7 :
        (LET d == IF i > j THEN i - j ELSE j - i
         IN  45 * (IF d > 4 THEN 8 - d ELSE d)) <= 35 => i = j
  OBVIOUS
<1> QED
  BY <1>1, <1>2 DEF Degrees

LEMMA DegreesInt ==
    ASSUME NEW p, NEW q, p.turn \in 0 .. 7, q.turn \in 0 .. 7
    PROVE  Degrees(p, q) \in Int
<1>1. \A i, j \in 0 .. 7 :
        LET d == IF i > j THEN i - j ELSE j - i
        IN  45 * (IF d > 4 THEN 8 - d ELSE d) \in Int
  OBVIOUS
<1> QED
  BY <1>1 DEF Degrees

LEMMA SamePose ==
    ASSUME NEW p \in Poses, NEW q \in Poses, Agree(p, q)
    PROVE  p = q
<1>1. p.turn \in Turns /\ q.turn \in Turns /\ p.place = q.place
  BY DEF Poses, Agree
<1>2. Degrees(p, q) \in Int
  BY <1>1, TurnsAssumption, DegreesInt
<1>3. p.turn = q.turn
  BY <1>1, <1>2, SameTurn DEF Agree
<1> QED
  BY <1>1, <1>3 DEF Poses

LEMMA FusionPose == ASSUME fusion \in FusionType PROVE PoseOf(fusion) \in Poses
BY DEF FusionType, PoseOf, Poses

-----------------------------------------------------------------------------
(***************************************************************************)
(* Time passes.                                                            *)
(***************************************************************************)
LEMMA InitKeeps == Init => IInv /\ AgreeInv
<1> SUFFICES ASSUME Init PROVE IInv /\ AgreeInv
  OBVIOUS
<1>1. PICK t \in Turns, p \in Places : fusion = [turn |-> t, place |-> p, moving |-> FALSE]
  BY DEF Init
<1>2. fusion \in FusionType /\ ~fusion.moving /\ fusion.place \in Places
  BY <1>1 DEF FusionType
<1>3. FilterTypes
  BY <1>2 DEF Init, FilterTypes, Ages
<1>4. CandidateTypes
  BY DEF Init, CandidateTypes, CandidateType
<1>5. SlotTypes
  <2>1. FreshSlot \in SlotType /\ NoExposure \in ExposureType
    BY DEF FreshSlot, SlotType, NoExposure, ExposureType, Ages
  <2> QED
    BY <2>1 DEF Init, SlotTypes
<1>6. FrameTypes /\ \A s \in Sensors : frames[s] = NoFrame
  BY DEF Init, FrameTypes, FrameType
<1>7. TypeOK
  BY <1>3, <1>4, <1>5, <1>6, TypeParts
<1>8. StampsOrdered
  BY DEF Init, StampsOrdered, Established
<1>9. HmdStopped
  BY <1>2 DEF HmdStopped
<1>10. ExposureKept
  BY <1>6 DEF Init, ExposureKept
<1>11. CandidateTrue
  BY DEF Init, CandidateTrue
<1>12. ReportsTrue
  <2>1. \A k \in Slots : slots[k].reports = {}
    BY DEF Init, FreshSlot
  <2> QED
    BY <2>1 DEF ReportsTrue
<1> QED
  BY <1>7, <1>8, <1>9, <1>10, <1>11, <1>12 DEF IInv, AgreeInv

\* A tick ages all that is remembered alike: what was of one exposure still is.
LEMMA ImuKeeps ==
    ASSUME IInv, ImuUpdate
    PROVE  IInv' /\ (AgreeInv => AgreeInv')
<1>1. FilterTypes /\ CandidateTypes /\ SlotTypes /\ FrameTypes
  BY TypeParts DEF IInv
<1>2. PoseLost \in Nat /\ MaxSearch \in Nat /\ PoseLost >= 2
  BY Numbers
<1>3. PICK pushed \in BOOLEAN, p \in Places :
        fusion' = [fusion EXCEPT
                !.place = p,
                !.moving = (fusion.moving \/ pushed) /\ ~Stopped(poseAge')]
  BY DEF ImuUpdate
<1>4. fusion' \in FusionType /\ (Stopped(poseAge') => ~fusion'.moving)
  <2>1. fusion \in FusionType
    BY <1>1 DEF FilterTypes
  <2> DEFINE m == (fusion.moving \/ pushed) /\ ~Stopped(poseAge')
  <2>2. m \in BOOLEAN /\ (Stopped(poseAge') => ~m)
    OBVIOUS
  <2>3. fusion' = [fusion EXCEPT !.place = p, !.moving = m]
    BY <1>3
  <2> HIDE DEF m
  <2> QED
    BY <2>1, <2>2, <2>3 DEF FusionType
<1>5. FilterTypes'
  <2>1. /\ Older(uptime, PoseLost) \in 0 .. PoseLost
        /\ poseAge' \in Ages(PoseLost) /\ orientAge' \in Ages(PoseLost)
    <3>1. uptime \in Ages(PoseLost) /\ uptime # Never
      BY <1>1, <1>2 DEF FilterTypes, Ages, Never
    <3> QED
      BY <1>1, <1>2, <3>1, OlderType DEF FilterTypes, ImuUpdate
  <2> QED
    BY <1>1, <1>4, <2>1 DEF FilterTypes, ImuUpdate
<1>6. CandidateTypes'
  BY <1>1, AgedCandidate DEF CandidateTypes, ImuUpdate
<1>7. ASSUME NEW k \in Slots
      PROVE  /\ slots'[k] \in SlotType
             /\ \/ slots'[k].reports = {}
                \/ slots[k].age = Never /\ slots'[k] = slots[k]
                \/ /\ slots'[k].reports = slots[k].reports
                   /\ slots'[k].age = slots[k].age + 1 /\ slots[k].age \in Nat
  <2>1. slots[k] \in SlotType /\ slots'[k] = Aged(slots[k], MaxSearch, FreshSlot)
    BY <1>1 DEF SlotTypes, ImuUpdate
  <2> QED
    BY <2>1, AgedSlot
<1>8. /\ exposure' \in ExposureType
      /\ \/ exposure.age = Never /\ exposure' = exposure
         \/ exposure.age = MaxSearch /\ exposure'.age = Never
         \/ /\ exposure.age \in 0 .. MaxSearch - 1
            /\ exposure'.age = exposure.age + 1 /\ exposure'.slot = exposure.slot
  BY <1>1, AgedExposure DEF SlotTypes, ImuUpdate
<1>9. SlotTypes'
  <2>1. slots' \in [Slots -> SlotType]
    BY <1>7 DEF ImuUpdate
  <2>2. taken' \subseteq Sensors
    BY <1>1 DEF SlotTypes, ImuUpdate
  <2> QED
    BY <1>8, <2>1, <2>2 DEF SlotTypes
<1>10. ASSUME NEW s \in Sensors
       PROVE  /\ frames'[s] \in FrameType
              /\ \/ frames[s] = NoFrame /\ frames'[s] = NoFrame
                 \/ /\ frames[s] # NoFrame /\ frames[s].age \in 0 .. MaxSearch - 1
                    /\ frames'[s].age = frames[s].age + 1
                    /\ frames'[s].slot = frames[s].slot
  <2>1. frames'[s] = IF frames[s] = NoFrame THEN NoFrame
                     ELSE [frames[s] EXCEPT !.age = frames[s].age + 1]
    BY DEF ImuUpdate
  <2>2. CASE frames[s] = NoFrame
    BY <2>1, <2>2 DEF FrameType
  <2>3. CASE frames[s] # NoFrame
    <3>1. frames[s].age \in 0 .. MaxSearch - 1 /\ frames[s].age + 1 \in 0 .. MaxSearch
      BY <1>1, <1>2, <2>3, FrameIs DEF ImuUpdate
    <3>2. CASE frames[s] \in QueuedType
      BY <2>1, <2>3, <3>1, <3>2 DEF QueuedType, FrameType
    <3>3. CASE frames[s] \in SearchType
      BY <2>1, <2>3, <3>1, <3>3 DEF SearchType, FrameType
    <3> QED
      BY <1>1, <2>3, <3>2, <3>3, FrameIs DEF FrameType
  <2> QED
    BY <2>2, <2>3
<1>11. FrameTypes'
  BY <1>10 DEF FrameTypes, ImuUpdate
<1>12. StampsOrdered'
  <2>1. poseAge \in Ages(PoseLost) /\ orientAge \in Ages(PoseLost)
    BY <1>1 DEF FilterTypes
  <2>2. poseAge' = Older(poseAge, PoseLost) /\ orientAge' = Older(orientAge, PoseLost) /\ lock' = lock
    BY DEF ImuUpdate
  <2> QED
    BY <1>2, <2>1, <2>2 DEF StampsOrdered, Established, Older, Ages, Never, IInv
<1>13. HmdStopped'
  BY <1>4 DEF HmdStopped, Unseen, Stopped, ImuUpdate
<1>14. ExposureKept'
  <2>1. exposure'.age = Never => taken' = Sensors
    BY DEF ImuUpdate
  <2>2. ASSUME NEW s \in Sensors, frames'[s] # NoFrame
        PROVE  /\ exposure'.age # Never /\ frames'[s].age >= exposure'.age
               /\ frames'[s].age = exposure'.age => s \in taken'
    <3>1. /\ frames[s] # NoFrame /\ frames[s].age \in 0 .. MaxSearch - 1
          /\ frames'[s].age = frames[s].age + 1
      BY <1>10, <2>2
    <3>2. /\ exposure.age # Never /\ frames[s].age >= exposure.age
          /\ frames[s].age = exposure.age => s \in taken
      BY <3>1 DEF IInv, ExposureKept
    <3>3. exposure.age \in 0 .. MaxSearch - 1 /\ exposure'.age = exposure.age + 1
      BY <1>2, <1>8, <3>1, <3>2
    <3>4. exposure'.age # Never
      BY <3>3 DEF Never
    <3>5. taken' = taken
      BY <3>4 DEF ImuUpdate
    <3> QED
      BY <3>1, <3>2, <3>3, <3>4, <3>5
  <2> QED
    BY <2>1, <2>2 DEF ExposureKept
<1>15. IInv'
  BY <1>5, <1>6, <1>9, <1>11, <1>12, <1>13, <1>14, TypeParts
     DEF IInv, TypeOK, FilterTypes, CandidateTypes, SlotTypes, FrameTypes, FusionType,
         CandidateType, SlotType, ExposureType, FrameType, QueuedType, SearchType
<1>16. ASSUME CandidateTrue PROVE CandidateTrue'
  <2>1. \/ candidate' = NoCandidate
        \/ /\ candidate # NoCandidate /\ candidate'.from = candidate.from
           /\ candidate'.turn = candidate.turn /\ candidate'.place = candidate.place
    BY <1>1, AgedCandidate DEF CandidateTypes, ImuUpdate
  <2> QED
    BY <1>16, <2>1 DEF CandidateTrue, PoseOf
<1>17. ASSUME ReportsTrue PROVE ReportsTrue'
  <2> SUFFICES ASSUME NEW s \in Liars, NEW k \in Slots, StillReports(s, k)', slots'[k].reports # {}
               PROVE  slots'[k].reports \subseteq {Truth}
    BY DEF ReportsTrue
  <2>1. s \in Sensors
    BY TurnsAssumption
  <2>2. /\ slots'[k].reports = slots[k].reports
        /\ \/ slots[k].age = Never /\ slots'[k].age = Never
           \/ slots[k].age \in Nat /\ slots'[k].age = slots[k].age + 1
    BY <1>7
  <2>3. CASE frames'[s] # NoFrame /\ frames'[s].slot = k /\ frames'[s].age = slots'[k].age
    <3>1. frames[s] # NoFrame /\ frames[s].slot = k /\ frames[s].age = slots[k].age
      BY <1>2, <1>10, <2>1, <2>2, <2>3 DEF Never
    <3> QED
      BY <1>17, <2>2, <3>1 DEF ReportsTrue, StillReports
  <2>4. CASE s \notin taken' /\ exposure'.slot = k /\ exposure'.age = slots'[k].age
    <3>1. exposure'.age # Never /\ taken' = taken
      BY <2>1, <2>4 DEF ImuUpdate
    <3>2. exposure.slot = k /\ exposure.age = slots[k].age
      BY <1>2, <1>8, <2>2, <2>4, <3>1 DEF Never
    <3> QED
      BY <1>17, <2>2, <2>4, <3>1, <3>2 DEF ReportsTrue, StillReports
  <2> QED
    BY <2>3, <2>4 DEF StillReports
<1> QED
  BY <1>15, <1>16, <1>17 DEF AgreeInv

-----------------------------------------------------------------------------
(***************************************************************************)
(* An exposure, and what is done with its frames.                          *)
(***************************************************************************)
\* What the invariants say of times and motion only concerns the filter.
LEMMA FilterKept ==
    ASSUME IInv, UNCHANGED <<kind, uptime, fusion, poseAge, orientAge>>, lock' => lock,
           lock' \in BOOLEAN, shown' \in Places
    PROVE  FilterTypes' /\ StampsOrdered' /\ HmdStopped'
<1>1. FilterTypes /\ StampsOrdered /\ HmdStopped
  BY TypeParts DEF IInv
<1>2. FilterTypes'
  BY <1>1 DEF FilterTypes
<1>3. StampsOrdered'
  BY <1>1 DEF StampsOrdered, Established
<1>4. HmdStopped'
  BY <1>1 DEF HmdStopped, Unseen
<1> QED
  BY <1>2, <1>3, <1>4

LEMMA TypesNext == FilterTypes' /\ CandidateTypes' /\ SlotTypes' /\ FrameTypes' => TypeOK'
BY DEF TypeOK, FilterTypes, CandidateTypes, SlotTypes, FrameTypes, FusionType, CandidateType,
       SlotType, ExposureType, FrameType, QueuedType, SearchType

\* No frame is of the new exposure yet, and its slot has no reports.
LEMMA ExposureKeeps ==
    ASSUME IInv, NewExposure
    PROVE  IInv' /\ (AgreeInv => AgreeInv')
<1>1. FilterTypes /\ CandidateTypes /\ SlotTypes /\ FrameTypes
  BY TypeParts DEF IInv
<1> DEFINE free == {k \in Slots : ~InUse(k)}
           used == {k \in Slots : slots[k].used}
           some == IF free # {} THEN free ELSE used
           fresh == [age |-> 0, reports |-> {}, used |-> FALSE]
<1>2. PICK k \in (IF some = {} THEN {NoSlot} ELSE some) :
        /\ exposure' = [age |-> 0, slot |-> k, lock |-> ~Lost]
        /\ slots' = IF k = NoSlot THEN slots ELSE [slots EXCEPT ![k] = fresh]
  BY DEF NewExposure
<1>3. k \in Slots \cup {NoSlot}
  BY <1>2
<1> HIDE DEF free, used, some
<1>4. 0 \in Ages(MaxSearch) /\ 0 # Never
  BY Numbers DEF Ages, Never
<1>5. exposure' \in ExposureType /\ exposure'.age = 0 /\ exposure'.slot = k
  <2>1. (~Lost) \in BOOLEAN
    BY Zenon
  <2> QED
    BY <1>2, <1>3, <1>4, <2>1 DEF ExposureType
<1>6. fresh \in SlotType
  BY <1>4 DEF SlotType
<1>7. SlotTypes'
  <2>1. slots' \in [Slots -> SlotType]
    BY <1>1, <1>2, <1>6 DEF SlotTypes
  <2>2. taken' = {}
    BY DEF NewExposure
  <2> QED
    BY <1>5, <2>1, <2>2 DEF SlotTypes
<1>8. FilterTypes' /\ StampsOrdered' /\ HmdStopped'
  <2>1. lock' \in BOOLEAN /\ (lock' => lock)
    BY DEF NewExposure, Lost
  <2> QED
    BY <1>1, <2>1, FilterKept DEF NewExposure, FilterTypes
<1>9. CandidateTypes' /\ FrameTypes' /\ frames' = frames /\ kind' = kind /\ candidate' = candidate
  BY <1>1 DEF NewExposure, CandidateTypes, FrameTypes
<1>10. ExposureKept'
  <2>1. ASSUME NEW s \in Sensors, frames[s] # NoFrame
        PROVE  frames[s].age >= 0 /\ frames[s].age # 0
    <3>1. exposure.age # Never /\ frames[s].age >= exposure.age /\ exposure.age # 0
      BY <2>1 DEF IInv, ExposureKept, NewExposure
    <3>2. frames[s].age \in 0 .. MaxSearch /\ exposure.age \in 0 .. MaxSearch
      BY <1>1, <2>1, <3>1, FrameIs DEF SlotTypes, ExposureType, Ages
    <3> QED
      BY <3>1, <3>2, Numbers
  <2> QED
    BY <1>4, <1>5, <1>9, <2>1 DEF ExposureKept
<1>11. IInv'
  BY <1>7, <1>8, <1>9, <1>10, TypesNext DEF IInv
<1>12. ASSUME CandidateTrue PROVE CandidateTrue'
  BY <1>9, <1>12 DEF CandidateTrue
<1>13. ASSUME ReportsTrue PROVE ReportsTrue'
  <2> SUFFICES ASSUME NEW s \in Liars, NEW j \in Slots, StillReports(s, j)'
               PROVE  slots'[j].reports \subseteq {Truth}
    BY DEF ReportsTrue
  <2>1. CASE j = k
    <3>1. k # NoSlot
      BY <2>1 DEF NoSlot, Slots
    <3>2. slots'[j] = fresh
      BY <1>1, <1>2, <2>1, <3>1 DEF SlotTypes
    <3> QED
      BY <3>2
  <2>2. CASE j # k
    <3>1. slots'[j] = slots[j]
      BY <1>1, <1>2, <2>2 DEF SlotTypes
    <3>2. StillReports(s, j)
      BY <1>5, <1>9, <2>2, <3>1 DEF StillReports
    <3> QED
      BY <1>13, <3>1, <3>2 DEF ReportsTrue
  <2> QED
    BY <2>1, <2>2
<1> QED
  BY <1>11, <1>12, <1>13 DEF AgreeInv

\* A frame that is captured takes the slot of the last exposure with it.
LEMMA CaptureKeeps ==
    ASSUME IInv, NEW s \in Sensors, Capture(s)
    PROVE  IInv' /\ (AgreeInv => AgreeInv')
<1>1. FilterTypes /\ CandidateTypes /\ SlotTypes /\ FrameTypes
  BY TypeParts DEF IInv
<1> DEFINE f == [phase |-> "queued", age |-> exposure.age, slot |-> exposure.slot,
                 lock |-> exposure.lock]
<1>2. /\ s \notin taken /\ taken' = taken \cup {s}
      /\ frames' = [frames EXCEPT ![s] = f]
      /\ UNCHANGED <<kind, uptime, fusion, poseAge, orientAge, lock, candidate, slots,
                     exposure, shown>>
  BY DEF Capture
<1>3. exposure.age # Never /\ exposure.age \in 0 .. MaxSearch
  BY <1>1, <1>2 DEF IInv, ExposureKept, SlotTypes, ExposureType, Ages
<1>4. f \in QueuedType /\ f # NoFrame
  BY <1>1, <1>3 DEF SlotTypes, ExposureType, QueuedType, NoFrame
<1>5. /\ frames'[s] = f /\ \A t \in Sensors \ {s} : frames'[t] = frames[t]
      /\ frames' \in [Sensors -> FrameType]
  BY <1>1, <1>2, <1>4 DEF FrameTypes, FrameType
<1>6. TypeOK' /\ StampsOrdered' /\ HmdStopped'
  <2>1. SlotTypes' /\ CandidateTypes' /\ FrameTypes'
    BY <1>1, <1>2, <1>5 DEF SlotTypes, CandidateTypes, FrameTypes
  <2>2. FilterTypes' /\ StampsOrdered' /\ HmdStopped'
    BY <1>1, <1>2, FilterKept DEF FilterTypes
  <2> QED
    BY <2>1, <2>2, TypesNext
<1>7. ExposureKept'
  <2>1. ASSUME NEW t \in Sensors, frames'[t] # NoFrame
        PROVE  /\ exposure.age # Never /\ frames'[t].age >= exposure.age
               /\ frames'[t].age = exposure.age => t \in taken'
    <3>1. CASE t = s
      BY <1>2, <1>3, <1>5, <3>1
    <3>2. CASE t # s
      BY <1>2, <1>5, <2>1, <3>2 DEF IInv, ExposureKept
    <3> QED
      BY <3>1, <3>2
  <2> QED
    BY <1>2, <1>3, <2>1 DEF ExposureKept
<1>8. ASSUME AgreeInv PROVE AgreeInv'
  <2>1. CandidateTrue'
    BY <1>2, <1>8 DEF AgreeInv, CandidateTrue
  <2>2. ASSUME NEW t \in Liars, NEW k \in Slots, StillReports(t, k)'
        PROVE  StillReports(t, k)
    <3>1. t \in Sensors
      BY TurnsAssumption
    <3>2. CASE t = s
      BY <1>2, <1>5, <2>2, <3>2 DEF StillReports
    <3>3. CASE t # s
      BY <1>2, <1>5, <2>2, <3>1, <3>3 DEF StillReports
    <3> QED
      BY <3>2, <3>3
  <2>3. ReportsTrue'
    BY <1>2, <1>8, <2>2 DEF AgreeInv, ReportsTrue
  <2> QED
    BY <2>1, <2>3 DEF AgreeInv
<1> QED
  BY <1>6, <1>7, <1>8 DEF IInv

\* A frame whose search begins or ends keeps its slot, or loses its claim.
LEMMA FramesKept ==
    ASSUME IInv, NEW s \in Sensors, NEW f \in FrameType,
           f # NoFrame => /\ frames[s] # NoFrame
                          /\ f.age = frames[s].age /\ f.slot = frames[s].slot,
           frames' = [frames EXCEPT ![s] = f], UNCHANGED <<exposure, taken>>
    PROVE  /\ FrameTypes' /\ ExposureKept'
           /\ \A t \in Sensors, k \in Slots :
                slots'[k].age = slots[k].age /\ StillReports(t, k)' => StillReports(t, k)
<1>1. FrameTypes /\ SlotTypes
  BY TypeParts DEF IInv
<1>2. /\ frames'[s] = f /\ \A t \in Sensors \ {s} : frames'[t] = frames[t]
      /\ frames' \in [Sensors -> FrameType]
  BY <1>1 DEF FrameTypes
<1>3. \A t \in Sensors : frames'[t] # NoFrame =>
        /\ frames[t] # NoFrame
        /\ frames'[t].age = frames[t].age /\ frames'[t].slot = frames[t].slot
  BY <1>2
<1>4. ExposureKept'
  BY <1>3 DEF IInv, ExposureKept
<1>5. ASSUME NEW t \in Sensors, NEW k \in Slots, slots'[k].age = slots[k].age, StillReports(t, k)'
      PROVE  StillReports(t, k)
  BY <1>3, <1>5 DEF StillReports
<1> QED
  BY <1>2, <1>4, <1>5 DEF FrameTypes

LEMMA SearchKeeps ==
    ASSUME IInv, NEW s \in Sensors, StartSearch(s)
    PROVE  IInv' /\ (AgreeInv => AgreeInv')
<1>1. FilterTypes /\ CandidateTypes /\ SlotTypes /\ FrameTypes
  BY TypeParts DEF IInv
<1>2. PICK wide \in Doubts :
        frames' = [frames EXCEPT ![s] =
             IF Matching(frames[s])
             THEN [phase |-> "search", age |-> frames[s].age, slot |-> frames[s].slot,
                   lock |-> frames[s].lock, wide |-> wide, capture |-> PoseOf(fusion)]
             ELSE NoFrame]
  BY DEF StartSearch
<1> DEFINE g == [phase |-> "search", age |-> frames[s].age, slot |-> frames[s].slot,
                 lock |-> frames[s].lock, wide |-> wide, capture |-> PoseOf(fusion)]
           f == IF Matching(frames[s]) THEN g ELSE NoFrame
<1>3. /\ UNCHANGED <<kind, uptime, fusion, poseAge, orientAge, lock, candidate, slots, exposure,
                     taken, shown>>
      /\ frames[s].phase = "queued" /\ frames' = [frames EXCEPT ![s] = f]
  BY <1>2 DEF StartSearch
<1>4. frames[s] \in QueuedType /\ frames[s] # NoFrame
  BY <1>1, <1>3, FrameIs
<1>5. /\ g \in SearchType /\ g.age = frames[s].age /\ g.slot = frames[s].slot
  <2>1. PoseOf(fusion) \in Poses
    BY <1>1, FusionPose DEF FilterTypes
  <2> QED
    BY <1>4, <2>1 DEF QueuedType, SearchType
<1>6. f \in FrameType /\ (f # NoFrame => f.age = frames[s].age /\ f.slot = frames[s].slot)
  BY <1>5 DEF FrameType, NoFrame
<1> HIDE DEF f
<1>7. /\ FrameTypes' /\ ExposureKept'
      /\ \A t \in Sensors, k \in Slots :
           slots'[k].age = slots[k].age /\ StillReports(t, k)' => StillReports(t, k)
  BY <1>3, <1>4, <1>6, FramesKept
<1>8. TypeOK' /\ StampsOrdered' /\ HmdStopped'
  <2>1. SlotTypes' /\ CandidateTypes'
    BY <1>1, <1>3 DEF SlotTypes, CandidateTypes
  <2>2. FilterTypes' /\ StampsOrdered' /\ HmdStopped'
    BY <1>1, <1>3, FilterKept DEF FilterTypes
  <2> QED
    BY <1>7, <2>1, <2>2, TypesNext
<1>9. ASSUME AgreeInv PROVE AgreeInv'
  <2>1. CandidateTrue'
    BY <1>3, <1>9 DEF AgreeInv, CandidateTrue
  <2>2. ReportsTrue'
    BY <1>3, <1>7, <1>9, TurnsAssumption DEF AgreeInv, ReportsTrue
  <2> QED
    BY <2>1, <2>2 DEF AgreeInv
<1> QED
  BY <1>7, <1>8, <1>9 DEF IInv

LEMMA NothingKeeps ==
    ASSUME IInv, NEW s \in Sensors, NothingFound(s)
    PROVE  IInv' /\ (AgreeInv => AgreeInv')
<1>1. FilterTypes /\ CandidateTypes /\ SlotTypes /\ FrameTypes
  BY TypeParts DEF IInv
<1>2. /\ UNCHANGED <<kind, uptime, fusion, poseAge, orientAge, lock, candidate, slots, exposure,
                     taken, shown>>
      /\ frames' = [frames EXCEPT ![s] = NoFrame]
  BY DEF NothingFound
<1>3. /\ FrameTypes' /\ ExposureKept'
      /\ \A t \in Sensors, k \in Slots :
           slots'[k].age = slots[k].age /\ StillReports(t, k)' => StillReports(t, k)
  <2>1. NoFrame \in FrameType
    BY DEF FrameType
  <2> QED
    BY <1>2, <2>1, FramesKept
<1>4. TypeOK' /\ StampsOrdered' /\ HmdStopped'
  <2>1. SlotTypes' /\ CandidateTypes'
    BY <1>1, <1>2 DEF SlotTypes, CandidateTypes
  <2>2. FilterTypes' /\ StampsOrdered' /\ HmdStopped'
    BY <1>1, <1>2, FilterKept DEF FilterTypes
  <2> QED
    BY <1>3, <2>1, <2>2, TypesNext
<1>5. ASSUME AgreeInv PROVE AgreeInv'
  <2>1. CandidateTrue'
    BY <1>2, <1>5 DEF AgreeInv, CandidateTrue
  <2>2. ReportsTrue'
    BY <1>2, <1>3, <1>5, TurnsAssumption DEF AgreeInv, ReportsTrue
  <2> QED
    BY <2>1, <2>2 DEF AgreeInv
<1> QED
  BY <1>3, <1>4, <1>5 DEF IInv

LEMMA ViewKeeps ==
    ASSUME IInv, GetViewPose
    PROVE  IInv' /\ (AgreeInv => AgreeInv')
<1>1. FilterTypes /\ CandidateTypes /\ SlotTypes /\ FrameTypes
  BY TypeParts DEF IInv
<1>2. /\ UNCHANGED <<kind, uptime, fusion, poseAge, orientAge, lock, candidate, slots, exposure,
                     taken, frames>>
      /\ shown' \in Places
  BY <1>1 DEF GetViewPose, FilterTypes, FusionType
<1>3. TypeOK' /\ StampsOrdered' /\ HmdStopped'
  <2>1. SlotTypes' /\ CandidateTypes' /\ FrameTypes'
    BY <1>1, <1>2 DEF SlotTypes, CandidateTypes, FrameTypes
  <2>2. FilterTypes' /\ StampsOrdered' /\ HmdStopped'
    BY <1>1, <1>2, FilterKept DEF FilterTypes
  <2> QED
    BY <2>1, <2>2, TypesNext
<1>4. ExposureKept'
  BY <1>2 DEF IInv, ExposureKept
<1>5. AgreeInv => AgreeInv'
  BY <1>2 DEF AgreeInv, CandidateTrue, ReportsTrue, StillReports
<1> QED
  BY <1>3, <1>4, <1>5 DEF IInv

-----------------------------------------------------------------------------
(***************************************************************************)
(* A pose is found.                                                        *)
(***************************************************************************)
\* The pose found by a camera that is right is the truth.
Honest(s, pose) == s \notin Liars => pose = Truth

\* A pose that counts as seen is fused, and a candidate is forgotten, kept or
\* the pose just found.
LEMMA WayIs ==
    ASSUME NEW s, NEW f, NEW pose, NEW score
    PROVE  Way(s, f, pose, score).observed => Way(s, f, pose, score).position
BY DEF Way, Agreed, Rejected

LEMMA CandidateIs ==
    ASSUME NEW s, NEW f, NEW pose, NEW score
    PROVE  \/ CandidateAfter(s, f, pose, score) \in {NoCandidate, candidate}
           \/ CandidateAfter(s, f, pose, score) =
                [age |-> f.age, from |-> s, turn |-> pose.turn, place |-> pose.place]
<1> DEFINE doubted == HmdNeedsConsensus(f, pose) \/ ControllerFlipped(f, pose)
           agreed == ConsensusOf(s, f, pose, score)
           matched == ~ControllerTurned(f, pose) /\ MatchOrient(pose, f)
<1>1. CandidateAfter(s, f, pose, score) =
        CASE doubted /\ agreed -> NoCandidate
          [] doubted /\ ~agreed -> Remembered(s, f, pose, score)
          [] ~doubted /\ matched -> NoCandidate
          [] OTHER -> candidate
  BY DEF CandidateAfter
<1> HIDE DEF doubted, agreed, matched
<1>2. CandidateAfter(s, f, pose, score) \in {NoCandidate, Remembered(s, f, pose, score), candidate}
  BY <1>1
<1> QED
  BY <1>2 DEF Remembered

LEMMA ModelKeeps ==
    ASSUME IInv, NEW s \in Sensors, NEW pose \in Poses, NEW score \in Scores,
           ModelPoseUpdate(s, pose, score), Honest(s, pose)
    PROVE  IInv' /\ (OneLiar /\ AgreeInv => AgreeInv')
<1>1. FilterTypes /\ CandidateTypes /\ SlotTypes /\ FrameTypes
  BY TypeParts DEF IInv
<1> DEFINE f == frames[s]
           k == frames[s].slot
           way == Way(s, frames[s], pose, score)
<1>2. /\ f.phase = "search" /\ frames' = [frames EXCEPT ![s] = NoFrame]
      /\ UNCHANGED <<kind, uptime, exposure, taken, shown>>
  BY DEF ModelPoseUpdate
<1>3. f \in SearchType /\ f # NoFrame
  BY <1>1, <1>2, FrameIs
<1>4. /\ FrameTypes' /\ ExposureKept'
      /\ \A t \in Sensors, j \in Slots :
           slots'[j].age = slots[j].age /\ StillReports(t, j)' => StillReports(t, j)
  <2>1. NoFrame \in FrameType
    BY DEF FrameType
  <2> QED
    BY <1>2, <2>1, FramesKept
<1>5. CASE ~Matching(f)
  <2>1. UNCHANGED <<fusion, poseAge, orientAge, lock, candidate, slots>>
    BY <1>5 DEF ModelPoseUpdate
  <2>2. FilterTypes' /\ StampsOrdered' /\ HmdStopped'
    BY <1>1, <1>2, <2>1, FilterKept DEF FilterTypes
  <2>3. SlotTypes' /\ CandidateTypes'
    BY <1>1, <1>2, <2>1 DEF SlotTypes, CandidateTypes
  <2>4. AgreeInv => AgreeInv'
    BY <1>4, <2>1, TurnsAssumption DEF AgreeInv, CandidateTrue, ReportsTrue
  <2> QED
    BY <1>4, <2>2, <2>3, <2>4, TypesNext DEF IInv
<1>6. CASE Matching(f)
  <2>1. /\ candidate' = CandidateAfter(s, f, pose, score)
        /\ orientAge' = IF way.observed THEN 0 ELSE orientAge
        /\ poseAge' = IF way.position THEN 0 ELSE poseAge
        /\ lock' = (lock \/ way.position)
        /\ fusion' = IF way.position THEN Fused(way, pose) ELSE fusion
        /\ slots' = [slots EXCEPT ![k] = Reported(slots[k], way.position, pose, score)]
    <3>1. /\ candidate' = CandidateAfter(s, f, pose, score)
          /\ orientAge' = IF way.observed THEN 0 ELSE orientAge
          /\ poseAge' = IF way.position THEN 0 ELSE poseAge
          /\ fusion' = IF way.position THEN Fused(way, pose) ELSE fusion
          /\ slots' = [slots EXCEPT ![k] = Reported(slots[k], way.position, pose, score)]
      BY <1>6 DEF ModelPoseUpdate
    <3>2. lock' = (lock \/ way.position)
      BY <1>6, Zenon DEF ModelPoseUpdate
    <3> QED
      BY <3>1, <3>2
  <2>2. way.observed => way.position
    BY WayIs
  <2> HIDE DEF way
  <2>3. k \in Slots /\ slots[k] \in SlotType /\ slots[k].age = f.age
    BY <1>1, <1>3, <1>6 DEF Matching, SearchType, SlotTypes
  <2>4. FilterTypes'
    <3>1. Fused(way, pose) \in FusionType
      <4>1. (fusion.moving /\ ~way.reset) \in BOOLEAN
        BY Zenon
      <4>2. (IF way.orientation THEN pose.turn ELSE fusion.turn) \in Turns /\ pose.place \in Places
        BY <1>1 DEF FilterTypes, FusionType, Poses
      <4> QED
        BY <4>1, <4>2 DEF Fused, FusionType
    <3>2. 0 \in Ages(PoseLost)
      BY Numbers DEF Ages
    <3>3. (lock \/ way.position) \in BOOLEAN
      BY Zenon
    <3> QED
      BY <1>1, <1>2, <2>1, <3>1, <3>2, <3>3 DEF FilterTypes
  <2>5. StampsOrdered'
    <3>1. StampsOrdered /\ poseAge \in Ages(PoseLost) /\ orientAge \in Ages(PoseLost)
      BY <1>1 DEF IInv, FilterTypes
    <3>2. CASE way.position
      BY <2>1, <3>1, <3>2, Numbers DEF StampsOrdered, Established, Ages, Never
    <3>3. CASE ~way.position
      BY <2>1, <2>2, <3>1, <3>3 DEF StampsOrdered, Established
    <3> QED
      BY <3>2, <3>3
  <2>6. HmdStopped'
    <3>1. CASE way.position
      BY <2>1, <3>1, Numbers DEF HmdStopped, Unseen, Never
    <3>2. CASE ~way.position
      BY <1>2, <2>1, <3>2 DEF HmdStopped, Unseen, IInv
    <3> QED
      BY <3>1, <3>2
  <2>7. CandidateTypes'
    <3>1. f.age \in 0 .. MaxCand
      BY <1>3, Numbers DEF SearchType, MaxCand
    <3> QED
      BY <1>1, <2>1, <3>1, CandidateIs DEF CandidateTypes, CandidateType, Poses
  <2>8. /\ slots' \in [Slots -> SlotType]
        /\ \A j \in Slots \ {k} : slots'[j] = slots[j]
        /\ slots'[k].age = slots[k].age
        /\ slots'[k].reports \subseteq slots[k].reports \cup {pose}
    <3>1. (slots[k].used \/ way.position) \in BOOLEAN
      BY Zenon
    <3> DEFINE u == slots[k].used \/ way.position
               r == IF kind = "hmd" /\ score.ids THEN slots[k].reports \cup {pose}
                    ELSE slots[k].reports
    <3>2. u \in BOOLEAN /\ r \in SUBSET Poses /\ r \subseteq slots[k].reports \cup {pose}
      BY <2>3, <3>1 DEF SlotType
    <3>3. slots' = [slots EXCEPT ![k] = [slots[k] EXCEPT !.used = u, !.reports = r]]
      BY <2>1 DEF Reported
    <3> HIDE DEF u, r
    <3>4. [slots[k] EXCEPT !.used = u, !.reports = r] \in SlotType
      BY <2>3, <3>2 DEF SlotType
    <3> QED
      BY <1>1, <2>3, <3>2, <3>3, <3>4 DEF SlotTypes, SlotType
  <2>9. SlotTypes'
    BY <1>1, <1>2, <2>8 DEF SlotTypes
  <2>10. IInv'
    BY <1>4, <2>4, <2>5, <2>6, <2>7, <2>9, TypesNext DEF IInv
  <2>11. ASSUME CandidateTrue PROVE CandidateTrue'
    <3>1. CASE candidate' \in {NoCandidate, candidate}
      BY <2>11, <3>1 DEF CandidateTrue
    <3>2. CASE candidate' = [age |-> f.age, from |-> s, turn |-> pose.turn, place |-> pose.place]
      <4>1. s \notin Liars => PoseOf(candidate') = PoseOf(Truth) /\ Truth \in Poses
        BY <3>2, Numbers DEF Honest, PoseOf
      <4>2. PoseOf(Truth) = Truth
        BY Numbers DEF PoseOf, Poses
      <4> QED
        BY <3>2, <4>1, <4>2 DEF CandidateTrue
    <3> QED
      BY <2>1, <3>1, <3>2, CandidateIs
  <2>12. ASSUME OneLiar, ReportsTrue PROVE ReportsTrue'
    <3> SUFFICES ASSUME NEW t \in Liars, NEW j \in Slots, StillReports(t, j)'
                 PROVE  slots'[j].reports \subseteq {Truth}
      BY DEF ReportsTrue
    <3>1. t \in Sensors /\ slots'[j].age = slots[j].age
      BY <2>8, TurnsAssumption
    <3>2. slots[j].reports \subseteq {Truth}
      BY <1>4, <2>12, <3>1 DEF ReportsTrue
    <3>3. CASE j # k
      BY <2>8, <3>2, <3>3
    <3>4. CASE j = k /\ s \notin Liars
      BY <2>8, <3>2, <3>4 DEF Honest
    <3>5. CASE j = k /\ s \in Liars
      <4>1. t = s
        BY <2>12, <3>5 DEF OneLiar
      <4>2. frames'[s] = NoFrame
        BY <1>1, <1>2 DEF FrameTypes
      <4>3. s \notin taken /\ exposure.age = slots[k].age
        BY <1>2, <2>8, <3>5, <4>1, <4>2 DEF StillReports
      <4>4. frames[s].age = exposure.age
        BY <2>3, <4>3
      <4> QED
        BY <1>3, <4>3, <4>4 DEF IInv, ExposureKept
    <3> QED
      BY <3>3, <3>4, <3>5
  <2> QED
    BY <2>10, <2>11, <2>12 DEF AgreeInv
<1> QED
  BY <1>5, <1>6

-----------------------------------------------------------------------------
LEMMA HonestPose ==
    ASSUME NEW s \in Sensors, FoundPose(s)
    PROVE  \E pose \in Poses, score \in Scores :
             ModelPoseUpdate(s, pose, score) /\ Honest(s, pose)
BY Numbers DEF FoundPose, Honest

\* Every step keeps the invariant, and what a wrong camera may agree with.
THEOREM Inductive ==
    IInv /\ [Next]_vars => IInv' /\ (OneLiar /\ AgreeInv => AgreeInv')
<1> SUFFICES ASSUME IInv, [Next]_vars
             PROVE  IInv' /\ (OneLiar /\ AgreeInv => AgreeInv')
  OBVIOUS
<1>1. CASE ImuUpdate
  BY <1>1, ImuKeeps
<1>2. CASE NewExposure
  BY <1>2, ExposureKeeps
<1>3. ASSUME NEW s \in Sensors, Capture(s) \/ StartSearch(s) \/ FoundPose(s) \/ NothingFound(s)
      PROVE  IInv' /\ (OneLiar /\ AgreeInv => AgreeInv')
  BY <1>3, CaptureKeeps, SearchKeeps, HonestPose, ModelKeeps, NothingKeeps
<1>4. CASE GetViewPose
  BY <1>4, ViewKeeps
<1>5. CASE UNCHANGED vars
  BY <1>5 DEF vars, IInv, AgreeInv, TypeOK, StampsOrdered, Established, HmdStopped, Unseen,
              ExposureKept, CandidateTrue, ReportsTrue, StillReports
<1> QED
  BY <1>1, <1>2, <1>3, <1>4, <1>5 DEF Next

-----------------------------------------------------------------------------
(***************************************************************************)
(* What a step may not do.                                                 *)
(***************************************************************************)
\* Only a tick or a fused pose moves what the filter estimates.
LEMMA FusionMoves ==
    ASSUME IInv, [Next]_vars, fusion' # fusion
    PROVE  \/ ImuUpdate
           \/ \E s \in Sensors, pose \in Poses, score \in Scores :
                /\ ModelPoseUpdate(s, pose, score) /\ Honest(s, pose)
                /\ Matching(frames[s]) /\ Way(s, frames[s], pose, score).position
                /\ poseAge' = 0
                /\ fusion' = Fused(Way(s, frames[s], pose, score), pose)
<1>1. ASSUME NEW s \in Sensors, FoundPose(s)
      PROVE  \E pose \in Poses, score \in Scores :
                /\ ModelPoseUpdate(s, pose, score) /\ Honest(s, pose)
                /\ Matching(frames[s]) /\ Way(s, frames[s], pose, score).position
                /\ poseAge' = 0
                /\ fusion' = Fused(Way(s, frames[s], pose, score), pose)
  <2>1. PICK pose \in Poses, score \in Scores :
          ModelPoseUpdate(s, pose, score) /\ Honest(s, pose)
    BY <1>1, HonestPose
  <2>2. Matching(frames[s])
    BY <2>1 DEF ModelPoseUpdate
  <2> DEFINE way == Way(s, frames[s], pose, score)
  <2>3. /\ fusion' = IF way.position THEN Fused(way, pose) ELSE fusion
        /\ poseAge' = IF way.position THEN 0 ELSE poseAge
    BY <2>1, <2>2 DEF ModelPoseUpdate
  <2>4. way.position
    BY <2>3
  <2> QED
    BY <2>1, <2>2, <2>3, <2>4
<1> QED
  BY <1>1 DEF Next, vars, NewExposure, Capture, StartSearch, NothingFound, GetViewPose

\* A device that no camera sees stands still and is shown where it was, and it
\* only counts as seen when a pose of it was fused
\* (rift_tracked_device_imu_update, _model_pose_update and _get_view_pose).
THEOREM UnseenStands == Spec => PoseStands
<1>1. Init => IInv
  BY InitKeeps
<1>2. IInv /\ [Next]_vars => IInv'
  BY Inductive
<1>3. IInv => TypeOK /\ StampsOrdered
  BY DEF IInv
<1>4. IInv /\ [Next]_vars =>
        [kind = "hmd" /\ Unseen /\ fusion'.place # fusion.place => poseAge' = 0]_vars
  <2> SUFFICES ASSUME IInv, [Next]_vars, kind = "hmd", Unseen, fusion'.place # fusion.place
               PROVE  poseAge' = 0
    OBVIOUS
  <2>1. ~fusion.moving
    BY DEF IInv, HmdStopped
  <2>2. CASE ImuUpdate
    <3>1. \E pushed \in BOOLEAN, p \in Places :
            /\ p = fusion.place
            /\ fusion' = [fusion EXCEPT !.place = p,
                            !.moving = (fusion.moving \/ pushed) /\ ~Stopped(poseAge')]
      BY <2>1, <2>2 DEF ImuUpdate
    <3>2. fusion \in FusionType
      BY TypeParts DEF IInv, FilterTypes
    <3> QED
      BY <3>1, <3>2 DEF FusionType
  <2> QED
    BY <2>2, FusionMoves
<1>5. IInv /\ [Next]_vars =>
        [shown' # shown => ~Unseen \/ (poseAge = Never /\ uptime < PoseLost)]_vars
  <2> SUFFICES ASSUME IInv, [Next]_vars, shown' # shown
               PROVE  ~Unseen \/ (poseAge = Never /\ uptime < PoseLost)
    OBVIOUS
  <2>1. GetViewPose
    <3>1. ~ImuUpdate /\ ~NewExposure /\ ~UNCHANGED vars
      BY DEF ImuUpdate, NewExposure, vars
    <3>2. ASSUME NEW s \in Sensors
          PROVE  ~Capture(s) /\ ~StartSearch(s) /\ ~NothingFound(s)
      BY DEF Capture, StartSearch, NothingFound
    <3>3. ASSUME NEW s \in Sensors, FoundPose(s)
          PROVE  FALSE
      BY <3>3, HonestPose DEF ModelPoseUpdate
    <3> QED
      BY <3>1, <3>2, <3>3 DEF Next
  <2>2. ~(Since(poseAge) >= PoseLost)
    BY <2>1 DEF GetViewPose, Lost
  <2>3. poseAge \in Ages(PoseLost) /\ uptime \in 0 .. PoseLost /\ PoseLost \in Nat
    BY TypeParts, Numbers DEF IInv, FilterTypes
  <2> QED
    BY <2>2, <2>3 DEF Since, Unseen, Ages, Never
<1> QED
  BY <1>1, <1>2, <1>3, <1>4, <1>5, PTL DEF Spec, PoseStands, UnseenHmdStays, ShownWhenSeen

-----------------------------------------------------------------------------
(***************************************************************************)
(* One wrong camera.                                                       *)
(***************************************************************************)
\* When two cameras agree on a pose, in either way, it is the truth.
LEMMA AgreedIsTrue ==
    ASSUME OneLiar, IInv, AgreeInv, NEW s \in Sensors, NEW pose \in Poses, NEW score \in Scores,
           frames[s].phase = "search", Matching(frames[s]), Honest(s, pose),
           ConsensusOf(s, frames[s], pose, score)
    PROVE  pose = Truth
<1>1. SlotTypes /\ CandidateTypes /\ FrameTypes
  BY TypeParts DEF IInv
<1>2. CASE s \notin Liars
  BY <1>2 DEF Honest
<1>3. CASE s \in Liars /\ pose_has_two_sensor_consensus(frames[s], pose, score)
  <2>1. PICK other \in slots[frames[s].slot].reports : Agree(pose, other)
    BY <1>3 DEF pose_has_two_sensor_consensus
  <2>2. frames[s].slot \in Slots /\ frames[s] # NoFrame
    BY <1>1, FrameIs DEF Matching
  <2>3. StillReports(s, frames[s].slot)
    BY <2>2 DEF StillReports, Matching
  <2>4. other = Truth
    BY <1>3, <2>1, <2>2, <2>3 DEF AgreeInv, ReportsTrue
  <2> QED
    BY <2>1, <2>4, Numbers, SamePose
<1>4. CASE s \in Liars /\ pose_has_cross_sensor_consensus(s, frames[s], pose, score)
  <2>1. candidate # NoCandidate /\ candidate.from # s /\ Agree(pose, PoseOf(candidate))
    BY <1>4 DEF pose_has_cross_sensor_consensus
  <2>2. PoseOf(candidate) = Truth
    BY <1>4, <2>1 DEF OneLiar, AgreeInv, CandidateTrue
  <2> QED
    BY <2>1, <2>2, Numbers, SamePose
<1> QED
  BY <1>2, <1>3, <1>4 DEF ConsensusOf

\* One camera that is wrong neither turns a device whose orientation is
\* established and right, nor moves an HMD whose pose is, unless the device is an
\* HMD whose filter had lost track of just that when the search began
\* (rift_tracked_device_model_pose_update: two cameras have to agree on what
\* contradicts the prior of a search).
THEOREM OneCameraStands ==
    ASSUME OneLiar
    PROVE  Spec => OneCameraCannotReplace
<1> DEFINE Inv == IInv /\ AgreeInv
<1>1. Init => Inv
  BY InitKeeps
<1>2. Inv /\ [Next]_vars => Inv'
  BY Inductive
<1>3. Inv /\ [Next]_vars =>
        [Established /\ fusion.turn = Truth.turn /\ PriorsCurrent
         => fusion'.turn = Truth.turn \/ Vague("turn")]_vars
  <2> SUFFICES ASSUME IInv, AgreeInv, [Next]_vars, Established, fusion.turn = Truth.turn,
                      PriorsCurrent, fusion' # fusion, ~Vague("turn")
               PROVE  fusion'.turn = Truth.turn
    OBVIOUS
  <2>1. FilterTypes /\ FrameTypes /\ kind \in {"hmd", "controller"}
    BY TypeParts, KindsAssumption DEF IInv, FilterTypes
  <2>2. CASE ImuUpdate
    BY <2>1, <2>2 DEF ImuUpdate, FilterTypes, FusionType
  <2>3. ASSUME NEW s \in Sensors, NEW pose \in Poses, NEW score \in Scores,
               ModelPoseUpdate(s, pose, score), Honest(s, pose), Matching(frames[s]),
               fusion' = Fused(Way(s, frames[s], pose, score), pose)
        PROVE  fusion'.turn = Truth.turn
    <3> DEFINE f == frames[s]
               way == Way(s, frames[s], pose, score)
    <3>1. /\ f.phase = "search" /\ f.capture = PoseOf(fusion)
          /\ kind = "hmd" => "turn" \notin f.wide
      BY <2>1, <2>3 DEF ModelPoseUpdate, PriorsCurrent, FrameTypes, Vague
    <3>2. fusion'.turn = IF way.orientation THEN pose.turn ELSE fusion.turn
      BY <2>3 DEF Fused
    <3>3. pose.turn \in Turns /\ f.capture.turn \in Turns /\ f.capture.turn = Truth.turn
          /\ Degrees(pose, f.capture) \in Int
      <4>1. pose.turn \in Turns /\ f.capture.turn \in Turns /\ f.capture.turn = Truth.turn
        BY <2>1, <3>1 DEF FilterTypes, FusionType, PoseOf, Poses
      <4>2. pose.turn \in 0 .. 7 /\ f.capture.turn \in 0 .. 7
        BY <4>1, TurnsAssumption
      <4> QED
        BY <4>1, <4>2, DegreesInt
    <3>4. CASE HmdNeedsConsensus(f, pose) \/ ControllerFlipped(f, pose)
      <4>1. way = IF ConsensusOf(s, f, pose, score) THEN Agreed ELSE Rejected
        BY <3>4 DEF Way
      <4>2. ConsensusOf(s, f, pose, score) => pose = Truth
        BY <2>3, <3>1, AgreedIsTrue
      <4> QED
        BY <3>2, <4>1, <4>2 DEF Rejected
    <3>5. CASE kind = "hmd" /\ ~HmdNeedsConsensus(f, pose)
      <4>1. Degrees(pose, f.capture) <= 25
        BY <3>1, <3>5 DEF HmdNeedsConsensus, MatchOrient
      <4> QED
        BY <3>2, <3>3, <4>1, SameTurn
    <3>6. CASE kind = "controller" /\ ~HmdNeedsConsensus(f, pose) /\ ~ControllerFlipped(f, pose)
      <4>1. way.orientation => ~ControllerTurned(f, pose)
        BY <3>6 DEF Way
      <4>2. way.orientation => Degrees(pose, f.capture) <= 35
        BY <3>3, <3>6, <4>1 DEF ControllerTurned
      <4> QED
        BY <3>2, <3>3, <4>2, SameTurn
    <3> QED
      BY <2>1, <3>4, <3>5, <3>6
  <2> QED
    BY <2>2, <2>3, FusionMoves
<1>4. Inv /\ [Next]_vars =>
        [/\ kind = "hmd" /\ Established /\ PoseOf(fusion) = Truth
         /\ ~fusion.moving /\ PriorsCurrent
         => fusion'.place = Truth.place \/ Vague("place")]_vars
  <2> SUFFICES ASSUME IInv, AgreeInv, [Next]_vars, kind = "hmd", Established,
                      PoseOf(fusion) = Truth, ~fusion.moving, PriorsCurrent, fusion' # fusion,
                      ~Vague("place")
               PROVE  fusion'.place = Truth.place
    <3>1. PoseOf(fusion) = Truth => fusion.place = Truth.place
      BY DEF PoseOf
    <3> QED
      BY <3>1
  <2>1. FilterTypes /\ FrameTypes /\ fusion.place = Truth.place
    BY TypeParts DEF IInv, PoseOf
  <2>2. CASE ImuUpdate
    <3>1. \E m, p : p = fusion.place /\ fusion' = [fusion EXCEPT !.place = p, !.moving = m]
      BY <2>2 DEF ImuUpdate
    <3> QED
      BY <2>1, <3>1 DEF FilterTypes, FusionType
  <2>3. ASSUME NEW s \in Sensors, NEW pose \in Poses, NEW score \in Scores,
               ModelPoseUpdate(s, pose, score), Honest(s, pose), Matching(frames[s]),
               Way(s, frames[s], pose, score).position,
               fusion' = Fused(Way(s, frames[s], pose, score), pose)
        PROVE  fusion'.place = Truth.place
    <3> DEFINE f == frames[s]
               way == Way(s, frames[s], pose, score)
    <3>1. /\ f.phase = "search" /\ f.capture = Truth /\ "place" \notin f.wide
          /\ fusion'.place = pose.place
      BY <2>1, <2>3 DEF ModelPoseUpdate, PriorsCurrent, FrameTypes, Vague, Fused
    <3>2. CASE HmdNeedsConsensus(f, pose) \/ ControllerFlipped(f, pose)
      <4>1. way = IF ConsensusOf(s, f, pose, score) THEN Agreed ELSE Rejected
        BY <3>2 DEF Way
      <4>2. ConsensusOf(s, f, pose, score)
        BY <2>3, <4>1 DEF Rejected
      <4> QED
        BY <2>3, <3>1, <4>2, AgreedIsTrue
    <3>3. CASE ~HmdNeedsConsensus(f, pose)
      BY <3>1, <3>3 DEF HmdNeedsConsensus, MatchPosition
    <3> QED
      BY <3>2, <3>3
  <2> QED
    BY <2>2, <2>3, FusionMoves
<1> QED
  BY <1>1, <1>2, <1>3, <1>4, PTL
     DEF Spec, OneCameraCannotReplace, OneCameraCannotTurn, OneCameraCannotMoveHmd
=============================================================================
