-------------------------- MODULE DelaySlots_proofs --------------------------
(***************************************************************************)
(* Proofs about DelaySlots: types, exact use counts, no stale matches,     *)
(* observations recorded in the slot of their own exposure and from two    *)
(* cameras, for every number of devices, cameras, frames, slots and        *)
(* exposures.                                                              *)
(***************************************************************************)
EXTENDS DelaySlots, FiniteSetTheorems, TLAPS

SlotType == [valid : BOOLEAN, use : Nat, time : Nat, exposure : Nat,
             reports : Seq(Report)]

FrameType == [held : BOOLEAN, valid : BOOLEAN, info : Info]

LEMMA ConstantFacts ==
  /\ NumDevices \in Nat /\ NumDevices > 0
  /\ NumSlots \in Nat /\ NumSlots > 0
  /\ 0 \in SlotIds
  /\ NoSlot \notin SlotIds
  /\ Hmd \in Devices
  /\ Quiet \subseteq Devices
BY SlotConstants, SMT DEF SlotIds, NoSlot, Devices, Hmd

LEMMA ClearedInfoType ==
  ASSUME NEW info \in Info, NEW D \in SUBSET Devices
  PROVE  [info EXCEPT !.dev = [d \in Devices |->
            IF d \in D THEN [info.dev[d] EXCEPT !.slot = NoSlot]
                       ELSE info.dev[d]]] \in Info
BY DEF Info, DevInfo

\* What a claim leaves of an info is an info, and so is what a release leaves.
LEMMA ClaimedType == ASSUME NEW info \in Info PROVE Claimed(info) \in Info
<1> DEFINE D == {d \in Devices : d < info.n /\ ~HasSlot(info, d)}
<1>1. Claimed(info) =
        [info EXCEPT !.dev = [d \in Devices |->
            IF d \in D THEN [info.dev[d] EXCEPT !.slot = NoSlot]
                       ELSE info.dev[d]]]
  BY DEF Claimed
<1>2. D \in SUBSET Devices
  OBVIOUS
<1> HIDE DEF D
<1> QED
  BY <1>1, <1>2, ClearedInfoType

LEMMA ReleasedInfoType ==
  ASSUME TypeOK, NEW f \in Frames, NEW D
  PROVE  ReleasedInfo(f, D) \in Info
<1> DEFINE E == {d \in Devices : \E i \in SlotIds : ReleasesSlot(f, D, d, i)}
<1>1. ReleasedInfo(f, D) =
        [frame[f].info EXCEPT !.dev = [d \in Devices |->
            IF d \in E THEN [frame[f].info.dev[d] EXCEPT !.slot = NoSlot]
                       ELSE frame[f].info.dev[d]]]
  BY DEF ReleasedInfo
<1>2. frame[f].info \in Info /\ E \in SUBSET Devices
  BY DEF TypeOK
<1> HIDE DEF E
<1> QED
  BY <1>1, <1>2, ClearedInfoType

\* A slot keeps its type when it gains or loses a user.
LEMMA UseType ==
  ASSUME NEW slot \in SlotType
  PROVE  /\ [slot EXCEPT !.use = @ + 1] \in SlotType
         /\ slot.use > 0 => [slot EXCEPT !.use = @ - 1] \in SlotType
BY DEF SlotType

LEMMA ReleasedSlotsType ==
  ASSUME TypeOK, NEW f \in Frames, NEW D
  PROVE  ReleasedSlots(f, D) \in [Devices -> [SlotIds -> SlotType]]
<1>1. \A d \in Devices, i \in SlotIds : slots[d][i] \in SlotType
  BY DEF TypeOK, SlotType
<1>2. ASSUME NEW d \in Devices, NEW i \in SlotIds
      PROVE  (IF ReleasesSlot(f, D, d, i)
              THEN [slots[d][i] EXCEPT !.use = @ - 1]
              ELSE slots[d][i]) \in SlotType
  BY <1>1, UseType DEF ReleasesSlot
<1> QED
  BY <1>2 DEF ReleasedSlots

\* Every step keeps every variable in its type (TypeOK): the rotating slot
\* index stays in range, counters do not go below zero, a frame's work names a
\* device.
LEMMA TypeStep == TypeOK /\ [Next]_vars => TypeOK'
<1> SUFFICES ASSUME TypeOK, [Next]_vars PROVE TypeOK'
  OBVIOUS
<1> USE ConstantFacts
<1>1. CASE AddDevice
  BY <1>1 DEF TypeOK, AddDevice, exposureVars
<1>2. ASSUME NEW s \in Sensors, TellSensor(s) PROVE TypeOK'
  BY <1>2 DEF TypeOK, TellSensor, exposureVars
<1>3. ASSUME NEW d \in Devices, ImuUpdate(d) PROVE TypeOK'
  <2>1. devTime' \in [Devices -> Nat]
    <3>1. devTime \in [Devices -> Nat]
      BY DEF TypeOK
    <3>2. devTime' = [devTime EXCEPT ![d] = @ + 1]
      BY <1>3 DEF ImuUpdate
    <3> QED
      BY <3>1, <3>2
  <2>2. fresh' \in [Devices -> BOOLEAN]
    BY <1>3, Zenon DEF TypeOK, ImuUpdate
  <2> QED
    BY <1>3, <2>1, <2>2 DEF TypeOK, ImuUpdate, exposureVars
<1>4. CASE NewExposure
  <2>1. PICK pick \in [Devices -> SlotIds \cup {NoSlot}] :
          /\ \A d \in Devices :
               IF d < nDevices THEN PicksSlot(d, pick[d]) ELSE pick[d] = NoSlot
          /\ slots' = [d \in Devices |->
                         [i \in SlotIds |->
                            IF pick[d] = i THEN PreparedSlot(d)
                                           ELSE slots[d][i]]]
          /\ slotIndex' = [d \in Devices |->
                             IF d < nDevices THEN NextIndex(d, pick[d])
                                             ELSE slotIndex[d]]
          /\ LET info == [count |-> count + 1, n |-> nDevices,
                          dev |-> [d \in Devices |->
                                     [time |-> devTime[d], slot |-> pick[d]]]]
             IN  history' = {e \in history \cup {info} :
                                e.count > count + 1 - HistSize}
    BY <1>4 DEF NewExposure
  <2>2. \A d \in Devices : PreparedSlot(d) \in SlotType
    BY DEF TypeOK, PreparedSlot, SlotType
  <2>3. slots' \in [Devices -> [SlotIds -> SlotType]]
    BY <2>1, <2>2 DEF TypeOK, SlotType
  <2>4. ASSUME NEW d \in Devices, d < nDevices
        PROVE  NextIndex(d, pick[d]) \in SlotIds
    <3>1. CASE NoFreeSlot(d)
      BY <3>1 DEF NextIndex, TypeOK
    <3>2. CASE ~NoFreeSlot(d)
      <4>1. \E k \in SlotIds : pick[d] = Probe(d, k)
        BY <2>1, <2>4, <3>2 DEF PicksSlot
      <4>2. pick[d] \in Int
        BY DEF SlotIds, NoSlot
      <4>3. (pick[d] + 1) % NumSlots \in SlotIds
        BY <4>2, SMT DEF SlotIds
      <4> QED
        BY <3>2, <4>3 DEF NextIndex
    <3> QED
      BY <3>1, <3>2
  <2>5. slotIndex' \in [Devices -> SlotIds]
    BY <2>1, <2>4 DEF TypeOK
  <2>6. [count |-> count + 1, n |-> nDevices,
         dev |-> [d \in Devices |-> [time |-> devTime[d], slot |-> pick[d]]]]
        \in Info
    BY DEF TypeOK, Info, DevInfo
  <2>7. history' \subseteq Info
    BY <2>1, <2>6 DEF TypeOK
  <2>8. count' \in Nat /\ fresh' \in [Devices -> BOOLEAN]
    BY <1>4 DEF NewExposure, TypeOK
  <2> QED
    BY <1>4, <2>3, <2>5, <2>7, <2>8 DEF NewExposure, TypeOK, SlotType
<1>5. ASSUME NEW f \in Frames, FrameCaptured(f) PROVE TypeOK'
  <2>1. PICK info \in history :
          /\ slots' = [d \in Devices |->
                         [i \in SlotIds |->
                            IF d < info.n /\ Matches(info, d, i)
                            THEN [slots[d][i] EXCEPT !.use = @ + 1]
                            ELSE slots[d][i]]]
          /\ frame' = [frame EXCEPT ![f] =
                         [held |-> TRUE, valid |-> TRUE,
                          info |-> Claimed(info)]]
    BY <1>5 DEF FrameCaptured
  <2>2. \A d \in Devices, i \in SlotIds : slots[d][i] \in SlotType
    BY DEF TypeOK, SlotType
  <2>3. slots' \in [Devices -> [SlotIds -> SlotType]]
    BY <2>1, <2>2, UseType
  <2>4. Claimed(info) \in Info
    BY ClaimedType DEF TypeOK
  <2>5. frame' \in [Frames -> FrameType]
    BY <2>1, <2>4 DEF TypeOK, FrameType
  <2> QED
    BY <1>5, <2>3, <2>5
    DEF FrameCaptured, TypeOK, SlotType, FrameType, driverVars, exposureVars
<1>6. ASSUME NEW f \in Frames, FrameCapturedNoInfo(f) PROVE TypeOK'
  BY <1>6 DEF TypeOK, FrameCapturedNoInfo, exposureVars, driverVars
<1>7. ASSUME NEW f \in Frames, NEW d \in Devices, GetLatestPose(f, d) PROVE TypeOK'
  <2>1. frame[f] \in FrameType
    BY DEF TypeOK, FrameType
  <2>2. [frame EXCEPT ![f].info.dev[d].slot = NoSlot] \in [Frames -> FrameType]
    <3> DEFINE info == [frame[f].info EXCEPT !.dev[d].slot = NoSlot]
    <3>1. info \in Info
      BY <2>1 DEF FrameType, Info, DevInfo
    <3>2. [frame EXCEPT ![f].info.dev[d].slot = NoSlot]
            = [frame EXCEPT ![f] = [frame[f] EXCEPT !.info = info]]
      OBVIOUS
    <3> HIDE DEF info
    <3> QED
      BY <2>1, <3>1, <3>2 DEF TypeOK, FrameType
  <2>3. [work EXCEPT ![f] = [dev |-> d, stage |-> "search"]] \in [Frames -> Work]
    BY DEF TypeOK, Work
  <2> QED
    BY <1>7, <2>2, <2>3
    DEF GetLatestPose, TypeOK, FrameType, driverVars, exposureVars
<1>8. ASSUME NEW f \in Frames, SearchFails(f) PROVE TypeOK'
  BY <1>8 DEF TypeOK, SearchFails, exposureVars, driverVars, IdleWork, Work
<1>9. ASSUME NEW f \in Frames, PoseUpdate(f) PROVE TypeOK'
  <2> DEFINE d == work[f].dev
             r(used) == [sensor |-> SensorOf(f),
                         exposure |-> frame[f].info.count, used |-> used]
  <2>1. PICK used \in BOOLEAN :
          slots' = [slots EXCEPT ![d] =
                      [i \in SlotIds |->
                         IF /\ Matches(frame[f].info, d, i)
                            /\ Len(slots[d][i].reports) < MaxReports
                         THEN [slots[d][i] EXCEPT
                                 !.reports = Append(@, r(used))]
                         ELSE slots[d][i]]]
    BY <1>9 DEF PoseUpdate
  <2>2. r(used) \in Report
    <3>1. SensorOf(f) \in Sensors
      BY DEF Frames, SensorOf
    <3>2. frame[f].info.count \in Nat
      BY DEF TypeOK, Info
    <3> QED
      BY <3>1, <3>2 DEF Report
  <2>3. slots \in [Devices -> [SlotIds -> SlotType]]
    BY DEF TypeOK, SlotType
  <2> HIDE DEF d, r
  <2>4. \A slot \in SlotType :
          [slot EXCEPT !.reports = Append(@, r(used))] \in SlotType
    <3> SUFFICES ASSUME NEW slot \in SlotType
                 PROVE  [slot EXCEPT !.reports = Append(@, r(used))] \in SlotType
      OBVIOUS
    <3>1. slot.reports \in Seq(Report)
      BY DEF SlotType
    <3>2. Append(slot.reports, r(used)) \in Seq(Report)
      BY <2>2, <3>1
    <3> QED
      BY <3>2 DEF SlotType
  <2>5. slots' \in [Devices -> [SlotIds -> SlotType]]
    BY <2>1, <2>3, <2>4
  <2>6. work' \in [Frames -> Work]
    BY <1>9 DEF PoseUpdate, TypeOK, Work
  <2> QED
    BY <1>9, <2>5, <2>6
    DEF PoseUpdate, TypeOK, SlotType, driverVars, exposureVars
<1>10. ASSUME NEW f \in Frames, DeviceFrameRelease(f) PROVE TypeOK'
  <2>1. slots' \in [Devices -> [SlotIds -> SlotType]]
    BY <1>10, ReleasedSlotsType DEF DeviceFrameRelease
  <2>2. frame' \in [Frames -> FrameType]
    BY <1>10, ReleasedInfoType DEF DeviceFrameRelease, TypeOK, FrameType
  <2>3. work' \in [Frames -> Work]
    BY <1>10 DEF DeviceFrameRelease, TypeOK, Work, IdleWork
  <2> QED
    BY <1>10, <2>1, <2>2, <2>3
    DEF DeviceFrameRelease, TypeOK, SlotType, FrameType, driverVars, exposureVars
<1>11. ASSUME NEW f \in Frames, FrameRelease(f) PROVE TypeOK'
  <2>1. slots' \in [Devices -> [SlotIds -> SlotType]]
    BY <1>11, ReleasedSlotsType DEF FrameRelease
  <2>2. frame' \in [Frames -> FrameType]
    BY <1>11, ReleasedInfoType DEF FrameRelease, TypeOK, FrameType
  <2>3. work' \in [Frames -> Work]
    BY <1>11 DEF FrameRelease, TypeOK, Work, IdleWork
  <2> QED
    BY <1>11, <2>1, <2>2, <2>3
    DEF FrameRelease, TypeOK, SlotType, FrameType, driverVars, exposureVars
<1>12. CASE UNCHANGED vars
  BY <1>12 DEF TypeOK, vars
<1> QED
  BY <1>1, <1>2, <1>3, <1>4, <1>5, <1>6, <1>7, <1>8, <1>9, <1>10, <1>11,
     <1>12 DEF Next

LEMMA TypeInit == Init => TypeOK
<1> SUFFICES ASSUME Init PROVE TypeOK
  OBVIOUS
<1>1. ZeroInfo \in Info
  BY ConstantFacts, SMT DEF ZeroInfo, Info, DevInfo
<1>2. EmptySlot \in SlotType
  BY DEF EmptySlot, SlotType
<1>3. IdleWork \in Work
  BY DEF IdleWork, Work
<1> QED
  BY <1>1, <1>2, <1>3, ConstantFacts DEF Init, TypeOK, SlotType

\* Every variable keeps its type in every behaviour.
THEOREM TypeCorrect == Spec => []TypeOK
BY TypeInit, TypeStep, PTL DEF Spec

-----------------------------------------------------------------------------
(***************************************************************************)
(* The use counts.                                                         *)
(***************************************************************************)

SlotInv ==
  /\ TypeOK
  /\ UseCountExact
  /\ NoStaleMatch
  /\ ReportsOfOwnExposure
  /\ PastTimes

LEMMA UsersFinite ==
  \A d, i : IsFiniteSet(Users(d, i)) /\ Cardinality(Users(d, i)) \in Nat
<1>1. IsFiniteSet(Frames)
  BY SlotConstants, FS_Product DEF Frames
<1>2. \A d, i : Users(d, i) \subseteq Frames
  BY DEF Users
<1> QED
  BY <1>1, <1>2, FS_Subset, FS_CardinalityType

\* A step that keeps the slots and the frames, and lets no clock run backwards
\* past a kept time, keeps the invariant.
LEMMA SlotsAndFramesKept ==
  ASSUME SlotInv, TypeOK',
         UNCHANGED <<slots, frame, work, history>>,
         nDevices' >= nDevices,
         \A d \in Devices : d >= nDevices' => fresh'[d],
         \A d \in Ticking, t \in Nat : Past(d, t) => Past(d, t)'
  PROVE  SlotInv'
<1>1. UseCountExact' /\ NoStaleMatch'
  BY DEF SlotInv, UseCountExact, NoStaleMatch, Users, HoldsSlot, HasSlot,
         Matches
<1>2. ReportsOfOwnExposure'
  BY DEF SlotInv, ReportsOfOwnExposure
<1>3. ASSUME NEW info \in Info, PastInfo(info), OwnExposure(info)
      PROVE  PastInfo(info)' /\ OwnExposure(info)'
  <2>1. OwnExposure(info)'
    BY <1>3 DEF OwnExposure, Matches
  <2>2. info.n <= nDevices'
    BY <1>3 DEF PastInfo, SlotInv, TypeOK, Info
  <2>3. \A d \in Ticking : info.dev[d].time \in Nat
    BY DEF Info, DevInfo, Ticking
  <2> QED
    BY <1>3, <2>1, <2>2, <2>3 DEF PastInfo
<1>4. PastTimes'
  <2>1. \A d \in Ticking, i \in SlotIds : slots[d][i].time \in Nat
    BY DEF SlotInv, TypeOK, Ticking
  <2>2. \A d \in Ticking, i \in SlotIds :
          slots[d][i].valid' => Past(d, slots[d][i].time)'
    BY <2>1 DEF SlotInv, PastTimes, Past
  <2>3. /\ \A info \in history : info \in Info
        /\ \A f \in Frames : frame[f].info \in Info
    BY DEF SlotInv, TypeOK
  <2>4. \A info \in history' : PastInfo(info)' /\ OwnExposure(info)'
    BY <1>3, <2>3 DEF SlotInv, PastTimes
  <2>5. \A f \in Frames : PastInfo(frame[f].info)' /\ OwnExposure(frame[f].info)'
    BY <1>3, <2>3 DEF SlotInv, PastTimes
  <2> QED
    BY <2>2, <2>4, <2>5 DEF SlotInv, PastTimes, WorkKnown
<1> QED
  BY <1>1, <1>2, <1>4 DEF SlotInv

\* When only frame f changes hands, the number of users of a slot follows f.
LEMMA UsersStep ==
  ASSUME NEW f \in Frames, NEW d \in Devices, NEW i \in SlotIds,
         \A g \in Frames : g # f => (HoldsSlot(g, d, i)' <=> HoldsSlot(g, d, i))
  PROVE  /\ HoldsSlot(f, d, i)' /\ ~HoldsSlot(f, d, i)
            => Cardinality(Users(d, i))' = Cardinality(Users(d, i)) + 1
         /\ ~HoldsSlot(f, d, i)' /\ HoldsSlot(f, d, i)
            => Cardinality(Users(d, i))' = Cardinality(Users(d, i)) - 1
         /\ (HoldsSlot(f, d, i)' <=> HoldsSlot(f, d, i))
            => Cardinality(Users(d, i))' = Cardinality(Users(d, i))
<1>1. CASE HoldsSlot(f, d, i)' /\ ~HoldsSlot(f, d, i)
  <2>1. Users(d, i)' = Users(d, i) \cup {f} /\ f \notin Users(d, i)
    BY <1>1 DEF Users
  <2> QED
    BY <1>1, <2>1, UsersFinite, FS_AddElement
<1>2. CASE ~HoldsSlot(f, d, i)' /\ HoldsSlot(f, d, i)
  <2>1. Users(d, i)' = Users(d, i) \ {f} /\ f \in Users(d, i)
    BY <1>2 DEF Users
  <2> QED
    BY <1>2, <2>1, UsersFinite, FS_RemoveElement
<1>3. CASE HoldsSlot(f, d, i)' <=> HoldsSlot(f, d, i)
  <2>1. Users(d, i)' = Users(d, i)
    BY <1>3 DEF Users
  <2> QED
    BY <1>3, <2>1
<1> QED
  BY <1>1, <1>2, <1>3

\* A slot with a user counts at least one.
LEMMA UsedSlot ==
  ASSUME SlotInv, NEW f \in Frames, NEW d \in Ticking, NEW i \in SlotIds,
         HoldsSlot(f, d, i)
  PROVE  slots[d][i].use > 0
<1>1. f \in Users(d, i)
  BY DEF Users
<1>2. Cardinality(Users(d, i)) # 0
  BY <1>1, UsersFinite, FS_EmptySet
<1> QED
  BY <1>2, UsersFinite DEF SlotInv, UseCountExact

\* y is x with some slots cleared.
Clears(y, x) ==
  /\ y \in Info
  /\ y.n = x.n
  /\ y.count = x.count
  /\ \A d \in Devices : /\ y.dev[d].time = x.dev[d].time
                        /\ y.dev[d].slot \in {x.dev[d].slot, NoSlot}

LEMMA ClearsKeeps ==
  ASSUME NEW x \in Info, NEW y, Clears(y, x)
  PROVE  /\ PastInfo(x) => PastInfo(y)
         /\ OwnExposure(x) => OwnExposure(y)
         /\ \A d \in Devices, i \in SlotIds : Matches(y, d, i) => Matches(x, d, i)
<1>1. \A d \in Devices, i \in SlotIds : Matches(y, d, i) => Matches(x, d, i)
  BY ConstantFacts DEF Clears, Matches
<1>2. Ticking \subseteq Devices
  BY DEF Ticking
<1>3. PastInfo(x) => PastInfo(y)
  BY <1>2 DEF PastInfo, Clears
<1>4. OwnExposure(x) => OwnExposure(y)
  BY <1>1, <1>2 DEF OwnExposure, Clears
<1> QED
  BY <1>1, <1>3, <1>4

\* What the steps of one frame have in common: no clock moves, the slots keep
\* the exposure they track, and only frame f changes, to an info it had or took
\* from the history, perhaps with slots cleared.
FrameStep(f) ==
  /\ UNCHANGED <<nDevices, devTime, fresh, history>>
  /\ \A d \in Devices, i \in SlotIds :
       /\ slots[d][i].valid' = slots[d][i].valid
       /\ slots[d][i].time' = slots[d][i].time
       /\ slots[d][i].exposure' = slots[d][i].exposure
  /\ \A g \in Frames : g # f => frame[g]' = frame[g]
  /\ \E x \in history \cup {frame[f].info} : Clears(frame[f].info', x)

LEMMA SameMatches ==
  ASSUME NEW f \in Frames, FrameStep(f)
  PROVE  \A x, d, i : d \in Devices /\ i \in SlotIds
                      => (Matches(x, d, i)' <=> Matches(x, d, i))
BY DEF FrameStep, Matches

LEMMA FrameStepPast ==
  ASSUME SlotInv, TypeOK', NEW f \in Frames, FrameStep(f), WorkKnown'
  PROVE  PastTimes'
<1>1. /\ \A info \in history : info \in Info
      /\ \A g \in Frames : frame[g].info \in Info
      /\ Ticking \subseteq Devices
  BY DEF SlotInv, TypeOK, Ticking
<1>2. \A x \in Info : /\ PastInfo(x)' <=> PastInfo(x)
                     /\ OwnExposure(x)' <=> OwnExposure(x)
  BY <1>1, SameMatches DEF FrameStep, PastInfo, OwnExposure, Past
<1>3. PICK x \in history \cup {frame[f].info} : Clears(frame[f].info', x)
  BY DEF FrameStep
<1>4. x \in Info /\ PastInfo(x) /\ OwnExposure(x)
  BY <1>1 DEF SlotInv, PastTimes
<1>5. PICK y \in Info : y = frame[f].info'
  BY <1>3 DEF Clears
<1>6. PastInfo(y)' /\ OwnExposure(y)'
  BY <1>2, <1>3, <1>4, <1>5, ClearsKeeps
<1>7. \A g \in Frames : PastInfo(frame[g].info)' /\ OwnExposure(frame[g].info)'
  <2> SUFFICES ASSUME NEW g \in Frames
               PROVE  PastInfo(frame[g].info)' /\ OwnExposure(frame[g].info)'
    OBVIOUS
  <2>1. CASE g = f
    BY <1>5, <1>6, <2>1 DEF PastInfo, OwnExposure, Past, Matches
  <2>2. CASE g # f
    <3>1. PICK z \in Info : z = frame[g].info
      BY <1>1
    <3>2. frame[g].info' = z
      BY <2>2, <3>1 DEF FrameStep
    <3>3. PastInfo(z)' /\ OwnExposure(z)'
      BY <1>2, <3>1 DEF SlotInv, PastTimes
    <3> QED
      BY <3>2, <3>3 DEF PastInfo, OwnExposure, Past, Matches
  <2> QED
    BY <2>1, <2>2
<1>8. \A info \in history' : PastInfo(info)' /\ OwnExposure(info)'
  BY <1>1, <1>2 DEF FrameStep, SlotInv, PastTimes
<1>9. \A d \in Ticking, i \in SlotIds :
        slots[d][i].valid' => Past(d, slots[d][i].time)'
  BY <1>1 DEF FrameStep, SlotInv, PastTimes, Past
<1>10. \A d \in Devices : d >= nDevices' => fresh[d]'
  BY DEF FrameStep, SlotInv, PastTimes
<1> QED
  BY <1>7, <1>8, <1>9, <1>10 DEF PastTimes

LEMMA FrameCapturedStep ==
  ASSUME SlotInv, TypeOK', NEW f \in Frames, FrameCaptured(f)
  PROVE  SlotInv'
<1>1. PICK info \in history :
        /\ slots' = [d \in Devices |->
                       [i \in SlotIds |->
                          IF d < info.n /\ Matches(info, d, i)
                          THEN [slots[d][i] EXCEPT !.use = @ + 1]
                          ELSE slots[d][i]]]
        /\ frame' = [frame EXCEPT ![f] =
                       [held |-> TRUE, valid |-> TRUE,
                        info |-> Claimed(info)]]
  BY DEF FrameCaptured
<1>2. info \in Info /\ Claimed(info) \in Info
  BY ClaimedType DEF SlotInv, TypeOK
<1>3. Clears(Claimed(info), info)
  BY <1>2 DEF Clears, Claimed, Info, DevInfo
<1>4. /\ frame[f]' = [held |-> TRUE, valid |-> TRUE, info |-> Claimed(info)]
      /\ \A g \in Frames : g # f => frame[g]' = frame[g]
  BY <1>1 DEF SlotInv, TypeOK
<1>5. \A d \in Devices, i \in SlotIds :
        /\ slots[d][i].valid' = slots[d][i].valid
        /\ slots[d][i].time' = slots[d][i].time
        /\ slots[d][i].exposure' = slots[d][i].exposure
        /\ slots[d][i].reports' = slots[d][i].reports
        /\ slots[d][i].use' = IF d < info.n /\ Matches(info, d, i)
                              THEN slots[d][i].use + 1 ELSE slots[d][i].use
  BY <1>1 DEF SlotInv, TypeOK
<1>6. FrameStep(f)
  BY <1>3, <1>4, <1>5 DEF FrameStep, FrameCaptured, driverVars, exposureVars
<1>7. WorkKnown'
  BY <1>4 DEF FrameCaptured, SlotInv, PastTimes, WorkKnown
<1>8. \A d \in Devices, i \in SlotIds :
        d < info.n => (Matches(Claimed(info), d, i) <=> Matches(info, d, i))
  <2> SUFFICES ASSUME NEW d \in Devices, NEW i \in SlotIds, d < info.n
               PROVE  Matches(Claimed(info), d, i) <=> Matches(info, d, i)
    OBVIOUS
  <2>1. Claimed(info).dev[d] = IF ~HasSlot(info, d)
                               THEN [info.dev[d] EXCEPT !.slot = NoSlot]
                               ELSE info.dev[d]
    BY <1>2 DEF Claimed, Info
  <2>2. info.dev[d] \in DevInfo
    BY <1>2 DEF Info
  <2>3. CASE HasSlot(info, d)
    BY <2>1, <2>3 DEF Matches
  <2>4. CASE ~HasSlot(info, d)
    <3>1. Claimed(info).dev[d].slot = NoSlot
      BY <2>1, <2>2, <2>4 DEF DevInfo
    <3> QED
      BY <3>1, <2>4, ConstantFacts DEF Matches, HasSlot
  <2> QED
    BY <2>3, <2>4
<1>9. \A d \in Devices, i \in SlotIds :
        /\ \A g \in Frames : g # f => (HoldsSlot(g, d, i)' <=> HoldsSlot(g, d, i))
        /\ HoldsSlot(f, d, i)' <=> d < info.n /\ Matches(info, d, i)
        /\ ~HoldsSlot(f, d, i)
  <2> SUFFICES ASSUME NEW d \in Devices, NEW i \in SlotIds
               PROVE  /\ \A g \in Frames :
                           g # f => (HoldsSlot(g, d, i)' <=> HoldsSlot(g, d, i))
                      /\ HoldsSlot(f, d, i)' <=> d < info.n /\ Matches(info, d, i)
                      /\ ~HoldsSlot(f, d, i)
    OBVIOUS
  <2>1. ~HoldsSlot(f, d, i)
    BY DEF FrameCaptured, HoldsSlot
  <2>2. Claimed(info).n = info.n
    BY <1>3 DEF Clears
  <2>3. HoldsSlot(f, d, i)' <=> d < info.n /\ Matches(Claimed(info), d, i)
    BY <1>4, <1>5, <2>2 DEF HoldsSlot, Matches
  <2>4. \A g \in Frames : g # f => (HoldsSlot(g, d, i)' <=> HoldsSlot(g, d, i))
    BY <1>4, <1>5 DEF HoldsSlot, Matches
  <2> QED
    BY <1>8, <2>1, <2>3, <2>4
<1>10. UseCountExact'
  <2> SUFFICES ASSUME NEW d \in Ticking, NEW i \in SlotIds
               PROVE  slots[d][i].use' = Cardinality(Users(d, i))'
    BY DEF UseCountExact
  <2>1. d \in Devices
    BY DEF Ticking
  <2>2. slots[d][i].use = Cardinality(Users(d, i))
    BY DEF SlotInv, UseCountExact
  <2> QED
    BY <1>5, <1>9, <2>1, <2>2, UsersStep
<1>11. NoStaleMatch'
  BY <1>4, <1>5 DEF SlotInv, NoStaleMatch, HasSlot, Matches, Ticking
<1>12. ReportsOfOwnExposure'
  BY <1>5 DEF SlotInv, ReportsOfOwnExposure, Ticking
<1> QED
  BY <1>6, <1>7, <1>10, <1>11, <1>12, FrameStepPast DEF SlotInv

LEMMA FrameCapturedNoInfoStep ==
  ASSUME SlotInv, TypeOK', NEW f \in Frames, FrameCapturedNoInfo(f)
  PROVE  SlotInv'
<1>1. /\ frame[f].held' /\ ~frame[f].valid' /\ frame[f].info' = frame[f].info
      /\ \A g \in Frames : g # f => frame[g]' = frame[g]
      /\ ~frame[f].held
      /\ UNCHANGED <<slots, nDevices, devTime, fresh, history, work>>
  BY DEF FrameCapturedNoInfo, SlotInv, TypeOK, driverVars, exposureVars
<1>2. Clears(frame[f].info, frame[f].info)
  BY DEF Clears, SlotInv, TypeOK
<1>3. FrameStep(f)
  BY <1>1, <1>2 DEF FrameStep
<1>4. WorkKnown'
  BY <1>1 DEF SlotInv, PastTimes, WorkKnown
<1>5. \A d \in Devices, i \in SlotIds :
        \A g \in Frames : HoldsSlot(g, d, i)' <=> HoldsSlot(g, d, i)
  BY <1>1 DEF HoldsSlot, Matches
<1>6. UseCountExact'
  BY <1>1, <1>5 DEF UseCountExact, Users, SlotInv, Ticking
<1>7. NoStaleMatch'
  BY <1>1 DEF SlotInv, NoStaleMatch, HasSlot, Matches
<1>8. ReportsOfOwnExposure'
  BY <1>1 DEF SlotInv, ReportsOfOwnExposure
<1> QED
  BY <1>3, <1>4, <1>6, <1>7, <1>8, FrameStepPast DEF SlotInv

LEMMA GetLatestPoseStep ==
  ASSUME SlotInv, TypeOK', NEW f \in Frames, NEW d \in Devices,
         GetLatestPose(f, d)
  PROVE  SlotInv'
<1>1. UNCHANGED <<slots, nDevices, devTime, fresh, history, count>>
  BY DEF GetLatestPose, driverVars, exposureVars
<1>2. frame[f].info \in Info
  BY DEF SlotInv, TypeOK
<1>3. /\ \A g \in Frames : g # f => frame[g]' = frame[g]
      /\ frame[f].held' = frame[f].held
      /\ frame[f].valid' = frame[f].valid
      /\ Clears(frame[f].info', frame[f].info)
  <2>1. CASE HasSlot(frame[f].info, d)
    BY <1>2, <2>1 DEF GetLatestPose, Clears
  <2>2. CASE ~HasSlot(frame[f].info, d)
    <3> DEFINE info == [frame[f].info EXCEPT !.dev[d].slot = NoSlot]
    <3>1. frame' = [frame EXCEPT ![f].info = info]
      BY <2>2 DEF GetLatestPose
    <3>2. Clears(info, frame[f].info)
      BY <1>2 DEF Clears, Info, DevInfo
    <3> HIDE DEF info
    <3> QED
      BY <3>1, <3>2 DEF SlotInv, TypeOK
  <2> QED
    BY <2>1, <2>2
<1>4. FrameStep(f)
  BY <1>1, <1>3 DEF FrameStep
<1>5. WorkKnown'
  <2>1. CASE HasSlot(frame[f].info, d)
    <3>1. /\ work[f]' = [dev |-> d, stage |-> "search"]
          /\ \A g \in Frames : g # f => work[g]' = work[g]
          /\ UNCHANGED frame
      BY <2>1 DEF GetLatestPose, SlotInv, TypeOK
    <3>2. frame[f].held /\ d < frame[f].info.n
      BY DEF GetLatestPose
    <3> QED
      BY <3>1, <3>2 DEF SlotInv, PastTimes, WorkKnown
  <2>2. CASE ~HasSlot(frame[f].info, d)
    BY <1>3, <2>2 DEF GetLatestPose, SlotInv, PastTimes, WorkKnown, Clears
  <2> QED
    BY <2>1, <2>2
<1>6. \A e \in Devices, i \in SlotIds :
        Matches(frame[f].info, e, i)' <=> Matches(frame[f].info, e, i)
  <2>1. CASE HasSlot(frame[f].info, d)
    BY <1>1, <2>1 DEF GetLatestPose, Matches
  <2>2. CASE ~HasSlot(frame[f].info, d)
    <3>1. /\ frame[f].info'.dev[d].slot = NoSlot
          /\ \A e \in Devices : e # d => frame[f].info'.dev[e] = frame[f].info.dev[e]
      BY <1>2, <2>2, SMTT(30) DEF GetLatestPose, SlotInv, TypeOK, Info, DevInfo
    <3> QED
      BY <1>1, <2>2, <3>1, ConstantFacts DEF Matches, HasSlot
  <2> QED
    BY <2>1, <2>2
<1>7. \A e \in Devices, i \in SlotIds :
        \A g \in Frames : HoldsSlot(g, e, i)' <=> HoldsSlot(g, e, i)
  <2> SUFFICES ASSUME NEW e \in Devices, NEW i \in SlotIds, NEW g \in Frames
               PROVE  HoldsSlot(g, e, i)' <=> HoldsSlot(g, e, i)
    OBVIOUS
  <2>1. CASE g # f
    BY <1>1, <1>3, <2>1 DEF HoldsSlot, Matches
  <2>2. CASE g = f
    <3>1. frame[f].info'.n = frame[f].info.n
      BY <1>3 DEF Clears
    <3>2. Matches(frame[f].info, e, i)' <=> Matches(frame[f].info, e, i)
      BY <1>6
    <3> QED
      BY <1>3, <2>2, <3>1, <3>2 DEF HoldsSlot
  <2> QED
    BY <2>1, <2>2
<1>8. UseCountExact'
  BY <1>1, <1>7 DEF UseCountExact, Users, SlotInv, Ticking
<1>9. NoStaleMatch'
  <2> SUFFICES ASSUME NEW g \in Frames, NEW e \in Ticking,
                      ~(frame[g].held /\ frame[g].valid)', e < frame[g].info'.n,
                      HasSlot(frame[g].info, e)'
               PROVE  FALSE
    BY DEF NoStaleMatch
  <2>1. e \in Devices /\ (e < frame[g].info.n /\ HasSlot(frame[g].info, e)
                         => frame[g].held /\ frame[g].valid)
    BY DEF SlotInv, NoStaleMatch, Ticking
  <2>2. PICK i \in SlotIds : Matches(frame[g].info, e, i)'
    BY DEF HasSlot
  <2>3. CASE g # f
    BY <1>1, <1>3, <2>1, <2>2, <2>3 DEF HasSlot, Matches
  <2>4. CASE g = f
    <3>1. frame[f].info'.n = frame[f].info.n
      BY <1>3 DEF Clears
    <3>2. HasSlot(frame[f].info, e)
      BY <1>6, <2>1, <2>2, <2>4 DEF HasSlot
    <3> QED
      BY <1>3, <2>1, <2>4, <3>1, <3>2
  <2> QED
    BY <2>3, <2>4
<1>10. ReportsOfOwnExposure'
  BY <1>1 DEF SlotInv, ReportsOfOwnExposure
<1> QED
  BY <1>4, <1>5, <1>8, <1>9, <1>10, FrameStepPast DEF SlotInv

LEMMA PoseUpdateStep ==
  ASSUME SlotInv, TypeOK', NEW f \in Frames, PoseUpdate(f)
  PROVE  SlotInv'
<1> DEFINE e == work[f].dev
           r(used) == [sensor |-> SensorOf(f),
                       exposure |-> frame[f].info.count, used |-> used]
<1>1. PICK used \in BOOLEAN :
        slots' = [slots EXCEPT ![e] =
                    [i \in SlotIds |->
                       IF /\ Matches(frame[f].info, e, i)
                          /\ Len(slots[e][i].reports) < MaxReports
                       THEN [slots[e][i] EXCEPT
                               !.reports = Append(@, r(used))]
                       ELSE slots[e][i]]]
  BY DEF PoseUpdate
<1>2. e \in Devices /\ e < frame[f].info.n
  BY DEF PoseUpdate, SlotInv, PastTimes, WorkKnown
<1>3. \A d \in Devices, i \in SlotIds :
        slots[d][i]' = IF /\ d = e
                          /\ Matches(frame[f].info, e, i)
                          /\ Len(slots[e][i].reports) < MaxReports
                       THEN [slots[d][i] EXCEPT !.reports = Append(@, r(used))]
                       ELSE slots[d][i]
  <2>1. slots \in [Devices -> [SlotIds -> SlotType]]
    BY DEF SlotInv, TypeOK, SlotType
  <2> HIDE DEF e, r
  <2> QED
    BY <1>1, <1>2, <2>1
<1>4. \A d \in Devices, i \in SlotIds :
        /\ slots[d][i].valid' = slots[d][i].valid
        /\ slots[d][i].time' = slots[d][i].time
        /\ slots[d][i].use' = slots[d][i].use
        /\ slots[d][i].exposure' = slots[d][i].exposure
        /\ \/ slots[d][i].reports' = slots[d][i].reports
           \/ /\ d = e
              /\ Matches(frame[f].info, e, i)
              /\ slots[d][i].reports' = Append(slots[d][i].reports, r(used))
  <2>1. \A d \in Devices, i \in SlotIds : slots[d][i] \in SlotType
    BY DEF SlotInv, TypeOK, SlotType
  <2> HIDE DEF e, r
  <2> QED
    BY <1>3, <2>1 DEF SlotType
<1>5. /\ UNCHANGED <<nDevices, devTime, fresh, history, frame>>
      /\ \A g \in Frames : g # f => work[g]' = work[g]
  BY DEF PoseUpdate, driverVars, exposureVars, SlotInv, TypeOK
<1>6. FrameStep(f)
  <2>1. Clears(frame[f].info, frame[f].info)
    BY DEF Clears, SlotInv, TypeOK
  <2> QED
    BY <1>4, <1>5, <2>1 DEF FrameStep
<1>7. WorkKnown'
  <2>1. work[f]'.dev = e /\ work[f].stage = "search"
    <3>1. work' = [work EXCEPT ![f].stage = "found"] /\ work[f].stage = "search"
      BY DEF PoseUpdate
    <3>2. work \in [Frames -> Work]
      BY DEF SlotInv, TypeOK
    <3> QED
      BY <3>1, <3>2 DEF Work
  <2>2. frame[f].held
    BY <2>1 DEF SlotInv, PastTimes, WorkKnown
  <2> HIDE DEF e
  <2> QED
    BY <1>2, <1>5, <2>1, <2>2 DEF SlotInv, PastTimes, WorkKnown
<1>80. \A d \in Devices, i \in SlotIds, g \in Frames :
         Matches(frame[g].info, d, i)' <=> Matches(frame[g].info, d, i)
  BY <1>4, <1>5 DEF Matches
<1>8. UseCountExact' /\ NoStaleMatch'
  <2>1. Ticking \subseteq Devices
    BY DEF Ticking
  <2>2. \A d \in Devices, i \in SlotIds : Users(d, i)' = Users(d, i)
    BY <1>5, <1>80 DEF Users, HoldsSlot
  <2>3. UseCountExact'
    BY <1>4, <2>1, <2>2 DEF SlotInv, UseCountExact
  <2>4. \A g \in Frames, d \in Devices : HasSlot(frame[g].info, d)' <=> HasSlot(frame[g].info, d)
    BY <1>80 DEF HasSlot
  <2>5. NoStaleMatch'
    BY <1>5, <2>1, <2>4 DEF SlotInv, NoStaleMatch
  <2> QED
    BY <2>3, <2>5
<1>9. ReportsOfOwnExposure'
  <2> SUFFICES ASSUME NEW d \in Ticking, NEW i \in SlotIds,
                      NEW k \in 1 .. Len(slots[d][i].reports')
               PROVE  slots[d][i].reports'[k].exposure = slots[d][i].exposure
    BY <1>4 DEF ReportsOfOwnExposure, Ticking
  <2>1. d \in Devices
    BY DEF Ticking
  <2>2. slots[d][i].reports \in Seq(Report)
    BY <2>1 DEF SlotInv, TypeOK
  <2>3. CASE slots[d][i].reports' = slots[d][i].reports
    BY <2>3 DEF SlotInv, ReportsOfOwnExposure
  <2>4. CASE /\ d = e
             /\ Matches(frame[f].info, e, i)
             /\ slots[d][i].reports' = Append(slots[d][i].reports, r(used))
    <3>1. slots[d][i].exposure = frame[f].info.count
      BY <1>2, <2>4 DEF SlotInv, PastTimes, OwnExposure
    <3>4. r(used).exposure = frame[f].info.count /\ r(used) \in Report
      <4>1. SensorOf(f) \in Sensors /\ frame[f].info.count \in Nat
        BY DEF Frames, SensorOf, SlotInv, TypeOK, Info
      <4> QED
        BY <4>1 DEF Report
    <3> HIDE DEF e, r
    <3>5. /\ Len(slots[d][i].reports') = Len(slots[d][i].reports) + 1
          /\ \A j \in 1 .. Len(slots[d][i].reports) :
               slots[d][i].reports'[j] = slots[d][i].reports[j]
          /\ slots[d][i].reports'[Len(slots[d][i].reports) + 1] = r(used)
      BY <2>2, <2>4, <3>4
    <3>2. CASE k \in 1 .. Len(slots[d][i].reports)
      BY <3>2, <3>5 DEF SlotInv, ReportsOfOwnExposure
    <3>3. CASE k = Len(slots[d][i].reports) + 1
      BY <3>1, <3>3, <3>4, <3>5
    <3> QED
      BY <2>2, <3>2, <3>3, <3>5
  <2> QED
    BY <1>4, <2>1, <2>3, <2>4, Zenon
<1> QED
  BY <1>6, <1>7, <1>8, <1>9, FrameStepPast DEF SlotInv

\* A release of the slots of the devices in D, after which the frame is still
\* analysed or has given back the slots of all its devices.
LEMMA ReleaseStep ==
  ASSUME SlotInv, TypeOK', NEW f \in Frames, NEW D,
         UNCHANGED <<nDevices, devTime, fresh, history>>, WorkKnown',
         slots' = ReleasedSlots(f, D),
         frame[f].info' = ReleasedInfo(f, D),
         frame[f].valid' = frame[f].valid,
         \A g \in Frames : g # f => frame[g]' = frame[g],
         \/ frame[f].held' = frame[f].held
         \/ /\ ~frame[f].held'
            /\ frame[f].held
            /\ frame[f].valid =>
                 \A d \in Devices : d < frame[f].info.n => d \in D
  PROVE  SlotInv'
<1>1. frame[f].info \in Info /\ frame[f].info' \in Info
  BY ReleasedInfoType DEF SlotInv, TypeOK
<1>2. \A d \in Devices :
        frame[f].info'.dev[d] = IF \E i \in SlotIds : ReleasesSlot(f, D, d, i)
                                THEN [frame[f].info.dev[d] EXCEPT !.slot = NoSlot]
                                ELSE frame[f].info.dev[d]
  BY <1>1, SMTT(30) DEF ReleasedInfo, Info
<1>3. Clears(frame[f].info', frame[f].info)
  <2>1. frame[f].info'.n = frame[f].info.n
        /\ frame[f].info'.count = frame[f].info.count
    BY <1>1 DEF ReleasedInfo, Info
  <2>2. \A d \in Devices : frame[f].info.dev[d] \in DevInfo
    BY <1>1 DEF Info
  <2>3. \A d \in Devices :
          /\ frame[f].info'.dev[d].time = frame[f].info.dev[d].time
          /\ frame[f].info'.dev[d].slot \in {frame[f].info.dev[d].slot, NoSlot}
    <3> SUFFICES ASSUME NEW d \in Devices
                 PROVE  /\ frame[f].info'.dev[d].time = frame[f].info.dev[d].time
                        /\ frame[f].info'.dev[d].slot
                             \in {frame[f].info.dev[d].slot, NoSlot}
      OBVIOUS
    <3>1. \/ frame[f].info'.dev[d] = frame[f].info.dev[d]
          \/ frame[f].info'.dev[d] = [frame[f].info.dev[d] EXCEPT !.slot = NoSlot]
      BY <1>2, Zenon
    <3> QED
      BY <2>2, <3>1 DEF DevInfo
  <2> QED
    BY <1>1, <2>1, <2>3 DEF Clears
<1>4. \A d \in Devices, i \in SlotIds :
        /\ slots[d][i].valid' = slots[d][i].valid
        /\ slots[d][i].time' = slots[d][i].time
        /\ slots[d][i].exposure' = slots[d][i].exposure
        /\ slots[d][i].reports' = slots[d][i].reports
        /\ slots[d][i].use' = IF ReleasesSlot(f, D, d, i)
                              THEN slots[d][i].use - 1 ELSE slots[d][i].use
  BY DEF SlotInv, TypeOK, ReleasedSlots
<1>5. FrameStep(f)
  BY <1>3, <1>4 DEF FrameStep
<1>6. \A d \in Devices, i \in SlotIds :
        Matches(frame[f].info, d, i)' => /\ Matches(frame[f].info, d, i)
                                        /\ ~ReleasesSlot(f, D, d, i)
  <2> SUFFICES ASSUME NEW d \in Devices, NEW i \in SlotIds,
                      Matches(frame[f].info, d, i)'
               PROVE  /\ Matches(frame[f].info, d, i)
                      /\ ~ReleasesSlot(f, D, d, i)
    OBVIOUS
  <2>1. frame[f].info.dev[d] \in DevInfo
    BY <1>1 DEF Info
  <2>2. frame[f].info'.dev[d].slot # NoSlot
    BY ConstantFacts DEF Matches
  <2>3. /\ ~ReleasesSlot(f, D, d, i)
        /\ frame[f].info'.dev[d] = frame[f].info.dev[d]
    BY <1>2, <2>1, <2>2 DEF DevInfo
  <2> QED
    BY <1>4, <2>3 DEF Matches
<1>7. ASSUME NEW d \in Ticking, NEW i \in SlotIds
      PROVE  /\ \A g \in Frames : g # f => (HoldsSlot(g, d, i)' <=> HoldsSlot(g, d, i))
             /\ HoldsSlot(f, d, i)' => HoldsSlot(f, d, i)
             /\ ReleasesSlot(f, D, d, i)
                  <=> HoldsSlot(f, d, i) /\ ~HoldsSlot(f, d, i)'
  <2>1. d \in Devices
    BY DEF Ticking
  <2>2. \A g \in Frames : g # f => (HoldsSlot(g, d, i)' <=> HoldsSlot(g, d, i))
    BY <1>4, <2>1 DEF HoldsSlot, Matches
  <2>3. HoldsSlot(f, d, i)' => HoldsSlot(f, d, i) /\ ~ReleasesSlot(f, D, d, i)
    BY <1>3, <1>6, <2>1 DEF HoldsSlot, Clears
  <2>4. ReleasesSlot(f, D, d, i) => HoldsSlot(f, d, i)
    BY DEF ReleasesSlot, HoldsSlot, SlotInv, NoStaleMatch, HasSlot
  <2>5. ASSUME HoldsSlot(f, d, i), ~ReleasesSlot(f, D, d, i)
        PROVE  HoldsSlot(f, d, i)'
    <3>1. slots[d][i].use > 0
      BY <2>5, UsedSlot
    <3>2. d \notin D
      BY <2>5, <3>1 DEF ReleasesSlot, HoldsSlot
    <3>3. frame[f].held'
      BY <2>1, <2>5, <3>2 DEF HoldsSlot
    <3>4. frame[f].info'.dev[d] = frame[f].info.dev[d]
      BY <1>2, <2>1, <3>2 DEF ReleasesSlot
    <3> QED
      BY <1>3, <1>4, <2>1, <2>5, <3>3, <3>4 DEF HoldsSlot, Matches, Clears
  <2> QED
    BY <2>2, <2>3, <2>4, <2>5
<1>8. UseCountExact'
  <2> SUFFICES ASSUME NEW d \in Ticking, NEW i \in SlotIds
               PROVE  slots[d][i].use' = Cardinality(Users(d, i))'
    BY DEF UseCountExact
  <2>1. d \in Devices
    BY DEF Ticking
  <2>2. slots[d][i].use = Cardinality(Users(d, i))
    BY DEF SlotInv, UseCountExact
  <2> QED
    BY <1>4, <1>7, <2>1, <2>2, UsersStep
<1>9. NoStaleMatch'
  <2> SUFFICES ASSUME NEW g \in Frames, NEW d \in Ticking, NEW i \in SlotIds,
                      ~(frame[g].held /\ frame[g].valid)',
                      d < frame[g].info'.n,
                      Matches(frame[g].info, d, i)'
               PROVE  FALSE
    BY DEF NoStaleMatch, HasSlot
  <2>1. d \in Devices
    BY DEF Ticking
  <2>2. CASE g # f
    BY <1>4, <2>1, <2>2 DEF SlotInv, NoStaleMatch, HasSlot, Matches
  <2>3. CASE g = f
    <3>1. d < frame[f].info.n /\ Matches(frame[f].info, d, i)
      BY <1>3, <1>6, <2>1, <2>3 DEF Clears
    <3>2. HoldsSlot(f, d, i)
      BY <3>1 DEF SlotInv, NoStaleMatch, HasSlot, HoldsSlot
    <3>3. ~HoldsSlot(f, d, i)'
      BY <2>3 DEF HoldsSlot
    <3>4. ReleasesSlot(f, D, d, i)
      BY <1>7, <3>2, <3>3
    <3> QED
      BY <1>6, <2>1, <2>3, <3>4
  <2> QED
    BY <2>2, <2>3
<1>10. ReportsOfOwnExposure'
  BY <1>4 DEF SlotInv, ReportsOfOwnExposure, Ticking
<1> QED
  BY <1>5, <1>8, <1>9, <1>10, FrameStepPast DEF SlotInv

\* A new exposure takes a slot whose old exposure no frame can match any more:
\* the clock of a ticking device has moved past every time that is kept.
LEMMA NewExposureStep ==
  ASSUME SlotInv, TypeOK', NewExposure
  PROVE  SlotInv'
<1>1. PICK pick \in [Devices -> SlotIds \cup {NoSlot}] :
        /\ \A d \in Devices :
             IF d < nDevices THEN PicksSlot(d, pick[d]) ELSE pick[d] = NoSlot
        /\ slots' = [d \in Devices |->
                       [i \in SlotIds |->
                          IF pick[d] = i THEN PreparedSlot(d)
                                         ELSE slots[d][i]]]
        /\ LET info == [count |-> count + 1, n |-> nDevices,
                        dev |-> [d \in Devices |->
                                   [time |-> devTime[d], slot |-> pick[d]]]]
           IN  history' = {e \in history \cup {info} :
                              e.count > count + 1 - HistSize}
  BY DEF NewExposure
<1>0. PICK new : new = [count |-> count + 1, n |-> nDevices,
                        dev |-> [d \in Devices |->
                                   [time |-> devTime[d], slot |-> pick[d]]]]
  OBVIOUS
<1>2. /\ UNCHANGED <<nDevices, devTime, frame, work>>
      /\ \A d \in Devices : fresh'[d] <=> d >= nDevices
      /\ \A d \in Ticking : fresh[d]
  BY DEF NewExposure, Ticking
<1>3. \A d \in Ticking, i \in SlotIds :
        pick[d] # i => slots[d][i]' = slots[d][i]
  BY <1>1 DEF Ticking
<1>4. \A d \in Ticking, i \in SlotIds :
        pick[d] = i => /\ d < nDevices
                       /\ slots[d][i].valid'
                       /\ slots[d][i].use' = 0
                       /\ slots[d][i].time' = devTime[d]
                       /\ slots[d][i].exposure' = count + 1
                       /\ slots[d][i].reports' = <<>>
  <2>1. \A d \in Ticking, i \in SlotIds :
          pick[d] = i => d < nDevices /\ slots[d][i]' = PreparedSlot(d)
    BY <1>1, ConstantFacts DEF Ticking
  <2>2. \A d : /\ PreparedSlot(d).valid
               /\ PreparedSlot(d).use = 0
               /\ PreparedSlot(d).time = devTime[d]
               /\ PreparedSlot(d).exposure = count + 1
               /\ PreparedSlot(d).reports = <<>>
    BY DEF PreparedSlot
  <2> QED
    BY <2>1, <2>2
<1>5. /\ \A info \in history : info \in Info
      /\ \A f \in Frames : frame[f].info \in Info
      /\ Ticking \subseteq Devices
      /\ devTime \in [Devices -> Nat]
      /\ nDevices \in Nat
      /\ NoSlot \notin SlotIds
      /\ Devices \subseteq Nat
  BY ConstantFacts, SlotConstants DEF SlotInv, TypeOK, Ticking, Devices
<1>18. \A d \in Ticking, t \in Nat :
         Past(d, t)' <=> IF d >= nDevices THEN t < devTime[d]
                                          ELSE t <= devTime[d]
  <2> SUFFICES ASSUME NEW d \in Ticking, NEW t \in Nat
               PROVE  Past(d, t)' <=> IF d >= nDevices THEN t < devTime[d]
                                                       ELSE t <= devTime[d]
    OBVIOUS
  <2>1. (fresh[d])' <=> d >= nDevices
    BY <1>2, <1>5
  <2>2. devTime' = devTime
    BY <1>2
  <2> QED
    BY <2>1, <2>2, Zenon DEF Past
<1>6. \A d \in Ticking, t \in Nat :
        Past(d, t) => t < devTime[d] /\ Past(d, t)'
  BY <1>2, <1>5, <1>18 DEF Past
\* An info kept from before matches no new slot, and the others as before.
<1>7. ASSUME NEW x \in Info, PastInfo(x), NEW d \in Ticking, NEW i \in SlotIds,
             d < x.n
      PROVE  Matches(x, d, i)' <=> Matches(x, d, i) /\ pick[d] # i
  <2>1. x.dev[d].time \in Nat /\ x.dev[d].time < devTime[d]
    BY <1>5, <1>6, <1>7 DEF PastInfo, Info, DevInfo
  <2>2. CASE pick[d] = i
    BY <1>4, <1>5, <2>1, <2>2 DEF Matches
  <2>3. CASE pick[d] # i
    BY <1>3, <2>3 DEF Matches
  <2> QED
    BY <2>2, <2>3
<1>8. ASSUME NEW x \in Info, PastInfo(x), OwnExposure(x)
      PROVE  PastInfo(x)' /\ OwnExposure(x)'
  <2>1. PastInfo(x)'
    <3>1. \A d \in Ticking : x.dev[d].time \in Nat
      BY <1>5 DEF Info, DevInfo
    <3> QED
      BY <1>2, <1>6, <1>8, <3>1 DEF PastInfo
  <2>2. OwnExposure(x)'
    BY <1>3, <1>5, <1>7, <1>8 DEF OwnExposure
  <2> QED
    BY <2>1, <2>2
<1>9. PastInfo(new)' /\ OwnExposure(new)'
  <2>1. /\ new.n = nDevices /\ new.count = count + 1
        /\ \A d \in Ticking : new.dev[d].time = devTime[d] /\ new.dev[d].slot = pick[d]
    BY <1>0 DEF Ticking
  <2>2. PastInfo(new)'
    <3>1. ASSUME NEW d \in Ticking, d < nDevices
          PROVE  /\ new.dev[d].time \in Nat
                 /\ Past(d, new.dev[d].time)'
      <4>1. new.dev[d].time = devTime[d] /\ devTime[d] \in Nat
        BY <1>5, <2>1
      <4>2. ~(d >= nDevices)
        BY <1>5, <3>1
      <4>3. PICK t \in Nat : t = new.dev[d].time /\ t = devTime[d]
        BY <4>1
      <4>4. Past(d, t)'
        BY <1>18, <4>2, <4>3
      <4> QED
        BY <4>3, <4>4 DEF Past
    <3>2. new.n <= nDevices'
      BY <1>2, <1>5, <2>1
    <3> QED
      BY <2>1, <3>1, <3>2 DEF PastInfo
  <2>3. OwnExposure(new)'
    BY <1>4, <2>1 DEF OwnExposure, Matches
  <2> QED
    BY <2>2, <2>3
<1>10. \A info \in history' : PastInfo(info)' /\ OwnExposure(info)'
  <2>1. \A info \in history' : info \in history \/ info = new
    BY <1>0, <1>1
  <2>2. \A info \in history : PastInfo(info)' /\ OwnExposure(info)'
    BY <1>5, <1>8 DEF SlotInv, PastTimes
  <2> QED
    BY <1>9, <2>1, <2>2
<1>11. \A f \in Frames : PastInfo(frame[f].info)' /\ OwnExposure(frame[f].info)'
  <2> SUFFICES ASSUME NEW f \in Frames
               PROVE  PastInfo(frame[f].info)' /\ OwnExposure(frame[f].info)'
    OBVIOUS
  <2>1. PICK x \in Info : x = frame[f].info
    BY <1>5
  <2>2. PastInfo(x)' /\ OwnExposure(x)'
    BY <1>8, <2>1 DEF SlotInv, PastTimes
  <2>3. frame[f].info' = x
    BY <1>2, <2>1
  <2> QED
    BY <2>2, <2>3 DEF PastInfo, OwnExposure, Past, Matches
<1>12. \A d \in Ticking, i \in SlotIds :
         slots[d][i].valid' => Past(d, slots[d][i].time)'
  <2> SUFFICES ASSUME NEW d \in Ticking, NEW i \in SlotIds, slots[d][i].valid'
               PROVE  Past(d, slots[d][i].time)'
    OBVIOUS
  <2>1. CASE pick[d] = i
    <3>0. d < nDevices /\ slots[d][i].time' = devTime[d]
      BY <1>4, <2>1
    <3>a. d \in Nat /\ nDevices \in Nat /\ devTime[d] \in Nat
      BY <1>5
    <3>1. PICK t \in Nat : t = devTime[d] /\ t = slots[d][i].time'
      BY <3>0, <3>a
    <3>b. ~(d >= nDevices) /\ t <= devTime[d]
      BY <3>0, <3>a, <3>1
    <3>2. Past(d, t)'
      BY <1>18, <3>b
    <3> QED
      BY <3>1, <3>2 DEF Past
  <2>2. CASE pick[d] # i
    <3>1. slots[d][i].time \in Nat
      BY <1>5 DEF SlotInv, TypeOK
    <3>2. Past(d, slots[d][i].time)
      BY <1>3, <1>5, <2>2 DEF SlotInv, PastTimes
    <3>3. PICK t \in Nat : t = slots[d][i].time /\ t = slots[d][i].time'
      BY <1>3, <2>2, <3>1
    <3>4. Past(d, t)'
      BY <1>6, <3>2, <3>3
    <3> QED
      BY <3>3, <3>4 DEF Past
  <2> QED
    BY <2>1, <2>2
<1>13. PastTimes'
  BY <1>2, <1>10, <1>11, <1>12 DEF SlotInv, PastTimes, WorkKnown
<1>14. \A f \in Frames, d \in Ticking, i \in SlotIds :
         d < frame[f].info.n =>
           (Matches(frame[f].info, d, i)'
              <=> Matches(frame[f].info, d, i) /\ pick[d] # i)
  <2> SUFFICES ASSUME NEW f \in Frames, NEW d \in Ticking, NEW i \in SlotIds,
                      d < frame[f].info.n
               PROVE  Matches(frame[f].info, d, i)'
                        <=> Matches(frame[f].info, d, i) /\ pick[d] # i
    OBVIOUS
  <2>1. PICK x \in Info : x = frame[f].info /\ x = frame[f].info'
    BY <1>2, <1>5
  <2>2. Matches(x, d, i)' <=> Matches(x, d, i) /\ pick[d] # i
    BY <1>7, <2>1 DEF SlotInv, PastTimes
  <2> QED
    BY <2>1, <2>2 DEF Matches
<1>15. UseCountExact'
  <2> SUFFICES ASSUME NEW d \in Ticking, NEW i \in SlotIds
               PROVE  slots[d][i].use' = Cardinality(Users(d, i))'
    BY DEF UseCountExact
  <2>1. CASE pick[d] = i
    <3>1. Users(d, i)' = {}
      BY <1>2, <1>14, <2>1 DEF Users, HoldsSlot
    <3> QED
      BY <1>4, <2>1, <3>1, FS_EmptySet
  <2>2. CASE pick[d] # i
    <3>1. Users(d, i)' = Users(d, i)
      BY <1>2, <1>14, <2>2 DEF Users, HoldsSlot
    <3> QED
      BY <1>3, <2>2, <3>1 DEF SlotInv, UseCountExact
  <2> QED
    BY <2>1, <2>2
<1>16. NoStaleMatch'
  BY <1>2, <1>14 DEF SlotInv, NoStaleMatch, HasSlot
<1>17. ReportsOfOwnExposure'
  BY <1>3, <1>4 DEF SlotInv, ReportsOfOwnExposure
<1> QED
  BY <1>13, <1>15, <1>16, <1>17 DEF SlotInv

LEMMA SlotInit == Init => SlotInv
<1> SUFFICES ASSUME Init PROVE SlotInv
  OBVIOUS
<1>1. TypeOK
  BY TypeInit
<1>2. \A d \in Devices, i \in SlotIds : slots[d][i] = EmptySlot
  BY DEF Init
<1>3. \A f \in Frames : /\ ~frame[f].held
                        /\ frame[f].info = ZeroInfo
                        /\ work[f] = IdleWork
  BY DEF Init
<1>4. Ticking \subseteq Devices
  BY DEF Ticking
<1>5. \A d, i : Users(d, i) = {}
  BY <1>3 DEF Users, HoldsSlot
<1>6. UseCountExact
  <2>1. \A d, i : Cardinality(Users(d, i)) = 0
    BY <1>5, FS_EmptySet, Zenon
  <2>2. \A d \in Ticking, i \in SlotIds : slots[d][i].use = 0
    BY <1>2, <1>4 DEF EmptySlot
  <2> QED
    BY <2>1, <2>2 DEF UseCountExact
<1>7. ZeroInfo.n = 0 /\ nDevices = 0 /\ Devices \subseteq Nat
  BY SlotConstants DEF ZeroInfo, Init, Devices
<1>8. NoStaleMatch
  BY <1>3, <1>4, <1>7 DEF NoStaleMatch
<1>9. ReportsOfOwnExposure
  BY <1>2, <1>4 DEF ReportsOfOwnExposure, EmptySlot
<1>10. PastInfo(ZeroInfo) /\ OwnExposure(ZeroInfo)
  BY <1>4, <1>7 DEF PastInfo, OwnExposure
<1>11. WorkKnown
  BY <1>3 DEF WorkKnown, IdleWork
<1>12. PastTimes
  BY <1>2, <1>3, <1>4, <1>10, <1>11 DEF PastTimes, EmptySlot, Init
<1> QED
  BY <1>1, <1>6, <1>8, <1>9, <1>12 DEF SlotInv

LEMMA SlotStep == SlotInv /\ [Next]_vars => SlotInv'
<1> SUFFICES ASSUME SlotInv, [Next]_vars PROVE SlotInv'
  OBVIOUS
<1>0. TypeOK'
  BY TypeStep DEF SlotInv
<1>1. /\ Ticking \subseteq Devices
      /\ nDevices \in Nat
      /\ devTime \in [Devices -> Nat]
  BY DEF SlotInv, TypeOK, Ticking
<1>2. CASE AddDevice
  <2>1. UNCHANGED <<slots, frame, work, history, devTime, fresh>>
    BY <1>2 DEF AddDevice, exposureVars
  <2>2. nDevices' = nDevices + 1
    BY <1>2 DEF AddDevice
  <2>3. \A d \in Devices : d >= nDevices' => fresh'[d]
    BY <1>1, <2>1, <2>2, SlotConstants DEF SlotInv, PastTimes, Devices
  <2>4. \A d \in Ticking, t \in Nat : Past(d, t) => Past(d, t)'
    BY <2>1 DEF Past
  <2> QED
    BY <1>0, <1>1, <2>1, <2>2, <2>3, <2>4, SlotsAndFramesKept
<1>3. ASSUME NEW s \in Sensors, TellSensor(s) PROVE SlotInv'
  <2>1. UNCHANGED <<slots, frame, work, history, devTime, fresh, nDevices>>
    BY <1>3 DEF TellSensor, exposureVars
  <2>2. \A d \in Devices : d >= nDevices' => fresh'[d]
    BY <2>1 DEF SlotInv, PastTimes
  <2>3. \A d \in Ticking, t \in Nat : Past(d, t) => Past(d, t)'
    BY <2>1 DEF Past
  <2> QED
    BY <1>0, <1>1, <2>1, <2>2, <2>3, SlotsAndFramesKept
<1>4. ASSUME NEW e \in Devices, ImuUpdate(e) PROVE SlotInv'
  <2>1. UNCHANGED <<slots, frame, work, history, nDevices>>
    BY <1>4 DEF ImuUpdate, exposureVars
  <2>2. /\ devTime' = [devTime EXCEPT ![e] = @ + 1]
        /\ fresh' = [fresh EXCEPT ![e] = TRUE]
        /\ ~fresh[e]
    BY <1>4 DEF ImuUpdate
  <2>3. \A d \in Devices : d >= nDevices' => fresh'[d]
    BY <2>1, <2>2 DEF SlotInv, TypeOK, PastTimes
  <2>4. ASSUME NEW d \in Ticking, NEW t \in Nat, Past(d, t)
        PROVE  Past(d, t)'
    <3>1. CASE d = e
      <4>1. t <= devTime[d] /\ devTime'[d] = devTime[d] + 1 /\ devTime[d] \in Nat
        BY <1>1, <2>2, <2>4, <3>1 DEF Past
      <4>2. t < devTime'[d] /\ t <= devTime'[d]
        BY <4>1
      <4> QED
        BY <4>2 DEF Past
    <3>2. CASE d # e
      <4>1. devTime'[d] = devTime[d] /\ fresh'[d] = fresh[d]
        BY <1>1, <2>2, <3>2 DEF SlotInv, TypeOK
      <4> QED
        BY <2>4, <4>1, Zenon DEF Past
    <3> QED
      BY <3>1, <3>2
  <2> QED
    BY <1>0, <1>1, <2>1, <2>3, <2>4, SlotsAndFramesKept
<1>5. CASE NewExposure
  BY <1>0, <1>5, NewExposureStep
<1>6. ASSUME NEW f \in Frames, FrameCaptured(f) PROVE SlotInv'
  BY <1>0, <1>6, FrameCapturedStep
<1>7. ASSUME NEW f \in Frames, FrameCapturedNoInfo(f) PROVE SlotInv'
  BY <1>0, <1>7, FrameCapturedNoInfoStep
<1>8. ASSUME NEW f \in Frames, NEW d \in Devices, GetLatestPose(f, d)
      PROVE  SlotInv'
  BY <1>0, <1>8, GetLatestPoseStep
<1>9. ASSUME NEW f \in Frames, SearchFails(f) PROVE SlotInv'
  <2>1. /\ UNCHANGED <<slots, frame, history, devTime, fresh, nDevices>>
        /\ work[f]' = IdleWork
        /\ \A g \in Frames : g # f => work[g]' = work[g]
    BY <1>9 DEF SearchFails, driverVars, exposureVars, SlotInv, TypeOK
  <2>2. Clears(frame[f].info, frame[f].info)
    BY DEF Clears, SlotInv, TypeOK
  <2>3. FrameStep(f)
    BY <2>1, <2>2 DEF FrameStep
  <2>4. WorkKnown'
    BY <2>1 DEF SlotInv, PastTimes, WorkKnown, IdleWork
  <2>5. UseCountExact' /\ NoStaleMatch' /\ ReportsOfOwnExposure'
    BY <2>1 DEF SlotInv, UseCountExact, NoStaleMatch, ReportsOfOwnExposure,
                Users, HoldsSlot, HasSlot, Matches
  <2> QED
    BY <1>0, <2>3, <2>4, <2>5, FrameStepPast DEF SlotInv
<1>10. ASSUME NEW f \in Frames, PoseUpdate(f) PROVE SlotInv'
  BY <1>0, <1>10, PoseUpdateStep
<1>11. ASSUME NEW f \in Frames, DeviceFrameRelease(f) PROVE SlotInv'
  <2>1. UNCHANGED <<nDevices, devTime, fresh, history>>
    BY <1>11 DEF DeviceFrameRelease, driverVars, exposureVars
  <2>2. /\ frame' = [frame EXCEPT ![f].info = ReleasedInfo(f, {work[f].dev})]
        /\ frame \in [Frames -> FrameType]
    BY <1>11 DEF DeviceFrameRelease, SlotInv, TypeOK, FrameType
  <2>3. /\ frame[f].info' = ReleasedInfo(f, {work[f].dev})
        /\ frame[f].valid' = frame[f].valid
        /\ frame[f].held' = frame[f].held
        /\ \A g \in Frames : g # f => frame[g]' = frame[g]
    BY <2>2 DEF FrameType
  <2>4. /\ work[f]' = IdleWork
        /\ \A g \in Frames : g # f => work[g]' = work[g]
    BY <1>11 DEF DeviceFrameRelease, SlotInv, TypeOK
  <2>5. WorkKnown'
    BY <2>3, <2>4 DEF SlotInv, PastTimes, WorkKnown, IdleWork
  <2>6. slots' = ReleasedSlots(f, {work[f].dev})
    BY <1>11 DEF DeviceFrameRelease
  <2> QED
    BY <1>0, <2>1, <2>3, <2>5, <2>6, ReleaseStep
<1>12. ASSUME NEW f \in Frames, FrameRelease(f) PROVE SlotInv'
  <2> DEFINE D == ReleasedDevices(f)
  <2>1. UNCHANGED <<nDevices, devTime, fresh, history, work>>
    BY <1>12 DEF FrameRelease, driverVars, exposureVars
  <2>2. /\ frame' = [frame EXCEPT ![f] = [@ EXCEPT !.held = FALSE,
                                                   !.info = ReleasedInfo(f, D)]]
        /\ frame \in [Frames -> FrameType]
    BY <1>12 DEF FrameRelease, SlotInv, TypeOK, FrameType
  <2> HIDE DEF D
  <2>3. /\ frame[f].info' = ReleasedInfo(f, D)
        /\ frame[f].valid' = frame[f].valid
        /\ ~frame[f].held'
        /\ \A g \in Frames : g # f => frame[g]' = frame[g]
    BY <2>2 DEF FrameType
  <2>4. WorkKnown'
    BY <1>12, <2>1, <2>3 DEF FrameRelease, SlotInv, PastTimes, WorkKnown
  <2>5. frame[f].valid =>
          \A d \in Devices : d < frame[f].info.n => d \in D
    <3>1. frame[f].info.n <= nDevices /\ frame[f].info.n \in Nat
      BY DEF SlotInv, TypeOK, PastTimes, PastInfo, Info
    <3> QED
      BY <1>1, <3>1, SlotConstants DEF D, ReleasedDevices, Devices
  <2>6. slots' = ReleasedSlots(f, D) /\ frame[f].held
    BY <1>12 DEF FrameRelease, D
  <2> QED
    BY <1>0, <2>1, <2>3, <2>4, <2>5, <2>6, ReleaseStep
<1>13. CASE UNCHANGED vars
  BY <1>13, SMTT(30)
  DEF vars, SlotInv, TypeOK, UseCountExact, NoStaleMatch, ReportsOfOwnExposure,
      PastTimes, PastInfo, OwnExposure, WorkKnown, Past, Users, HoldsSlot,
      HasSlot, Matches
<1> QED
  BY <1>2, <1>3, <1>4, <1>5, <1>6, <1>7, <1>8, <1>9, <1>10, <1>11, <1>12,
     <1>13 DEF Next

LEMMA SlotInvariant == Spec => []SlotInv
BY SlotInit, SlotStep, PTL DEF Spec

\* use_count is the number of frames using the slot (rift-tracker.c:114), for
\* every device whose clock moves between exposures, in every behaviour of the
\* claims, early releases, final releases, reuses and reclaims.
THEOREM UseCountCorrect == Spec => []UseCountExact
<1>1. SlotInv => UseCountExact
  BY DEF SlotInv
<1> QED
  BY <1>1, SlotInvariant, PTL

\* A frame that is not analysed for a known exposure matches no slot, so the
\* info left in a recycled frame buffer can neither report nor release.
THEOREM StaleFramesHarmless == Spec => []NoStaleMatch
<1>1. SlotInv => NoStaleMatch
  BY DEF SlotInv
<1> QED
  BY <1>1, SlotInvariant, PTL

\* An observation is recorded only in the slot of the exposure its frame was
\* taken at: get_matching_delay_slot's comparison of times is enough.
THEOREM ReportsInOwnSlot == Spec => []ReportsOfOwnExposure
<1>1. SlotInv => ReportsOfOwnExposure
  BY DEF SlotInv
<1> QED
  BY <1>1, SlotInvariant, PTL

\* A slot is taken away from frames that still use it only if an observation of
\* its exposure was fused: find_free_delay_slot never returns a slot in use.
THEOREM SlotsTakenOnlyIfFused == Spec => TakenOnlyIfFused
<1>1. SlotInv /\ [Next]_vars => [KeptUntilFused]_vars
  <2> SUFFICES ASSUME SlotInv, Next,
                      NEW d \in Ticking, NEW i \in SlotIds,
                      Users(d, i) # {},
                      slots'[d][i].exposure # slots[d][i].exposure
               PROVE  NumUsed(slots[d][i]) > 0
    BY DEF KeptUntilFused
  <2>1. d \in Devices
    BY DEF Ticking
  <2>2. \A f \in Frames :
          ~FrameCaptured(f) /\ ~PoseUpdate(f) /\ ~DeviceFrameRelease(f)
          /\ ~FrameRelease(f)
    <3> SUFFICES ASSUME NEW f \in Frames,
                        \/ FrameCaptured(f) \/ PoseUpdate(f)
                        \/ DeviceFrameRelease(f) \/ FrameRelease(f)
                 PROVE  slots'[d][i].exposure = slots[d][i].exposure
      OBVIOUS
    <3>1. slots \in [Devices -> [SlotIds -> SlotType]]
      BY DEF SlotInv, TypeOK, SlotType
    <3>2. ASSUME NEW D, slots' = ReleasedSlots(f, D)
          PROVE  slots'[d][i].exposure = slots[d][i].exposure
      BY <2>1, <3>1, <3>2 DEF ReleasedSlots, SlotType
    <3>3. CASE FrameCaptured(f)
      BY <2>1, <3>1, <3>3 DEF FrameCaptured, SlotType
    <3>4. CASE PoseUpdate(f)
      <4> DEFINE e == work[f].dev
                 more(j, used) ==
                   Append(slots[e][j].reports,
                          [sensor |-> SensorOf(f),
                           exposure |-> frame[f].info.count, used |-> used])
      <4>1. PICK used \in BOOLEAN :
              slots' = [slots EXCEPT ![e] =
                          [j \in SlotIds |->
                             IF /\ Matches(frame[f].info, e, j)
                                /\ Len(slots[e][j].reports) < MaxReports
                             THEN [slots[e][j] EXCEPT !.reports = more(j, used)]
                             ELSE slots[e][j]]]
        BY <3>4 DEF PoseUpdate
      <4> HIDE DEF e, more
      <4> QED
        BY <2>1, <3>1, <4>1 DEF SlotType
    <3>5. CASE DeviceFrameRelease(f)
      BY <3>2, <3>5 DEF DeviceFrameRelease
    <3>6. CASE FrameRelease(f)
      BY <3>2, <3>6 DEF FrameRelease
    <3> QED
      BY <3>3, <3>4, <3>5, <3>6
  <2>3. NewExposure
    BY <2>2 DEF Next, AddDevice, TellSensor, ImuUpdate, FrameCapturedNoInfo,
                GetLatestPose, SearchFails
  <2>4. slots[d][i].use # 0
    BY UsersFinite, FS_EmptySet DEF SlotInv, UseCountExact
  <2>5. PicksSlot(d, i)
    <3>1. PICK pick \in [Devices -> SlotIds \cup {NoSlot}] :
            /\ \A e \in Devices :
                 IF e < nDevices THEN PicksSlot(e, pick[e]) ELSE pick[e] = NoSlot
            /\ slots' = [e \in Devices |->
                           [j \in SlotIds |->
                              IF pick[e] = j THEN PreparedSlot(e)
                                             ELSE slots[e][j]]]
      BY <2>3 DEF NewExposure
    <3>2. pick[d] = i
      BY <2>1, <3>1
    <3> QED
      BY <2>1, <3>1, <3>2, ConstantFacts
  <2>6. ~ \E k \in SlotIds : FreeAt(d, k) /\ i = Probe(d, k)
    BY <2>4 DEF FreeAt
  <2> QED
    BY <2>5, <2>6, ConstantFacts DEF PicksSlot, Reclaims, Reclaimable
<1> QED
  BY <1>1, SlotInvariant, PTL DEF Spec, TakenOnlyIfFused

-----------------------------------------------------------------------------
(***************************************************************************)
(* What a frame claims: the devices it names, and one observation per      *)
(* device and camera.                                                      *)
(***************************************************************************)

Seen(f, d, i) == d < frame[f].info.n /\ Matches(frame[f].info, d, i)

Reported(d, i, s) ==
  \E k \in 1 .. Len(slots[d][i].reports) : slots[d][i].reports[k].sensor = s

\* Every camera was told about the devices of every exposure that is kept: an
\* exposure in between a device's joining and the telling does not happen.
ToldOf ==
  /\ \A info \in history : \A s \in Sensors : info.n <= sensorDevices[s]
  /\ \A f \in Frames : frame[f].info.n <= sensorDevices[SensorOf(f)]

\* A camera has one frame of an exposure at most.
OneFrameEach ==
  \A f, g \in Frames :
    /\ SensorOf(f) = SensorOf(g) /\ frame[f].info.count = frame[g].info.count
    /\ frame[f].info.n > 0 /\ frame[g].info.n > 0
    => f = g

\* Once a camera has reported in a slot, its frame of that exposure only
\* matches the slot until it gives it back, and it will get no other frame of
\* that exposure.
SeenOnce ==
  \A d \in Ticking : \A i \in SlotIds : \A f \in Frames :
    Reported(d, i, SensorOf(f)) =>
      /\ \E g \in Frames : /\ SensorOf(g) = SensorOf(f)
                           /\ frame[g].info.count >= slots[d][i].exposure
      /\ Seen(f, d, i) => work[f] = [dev |-> d, stage |-> "found"]

Independent == \A d \in Ticking : \A i \in SlotIds : SlotReportsIndependent(d, i)

ClaimInv ==
  /\ ToldOf
  /\ Synced => OneFrameEach /\ SeenOnce /\ Independent

LEMMA ClaimInit == Init => ClaimInv
<1> SUFFICES ASSUME Init PROVE ClaimInv
  OBVIOUS
<1>1. /\ \A f \in Frames : frame[f].info = ZeroInfo /\ SensorOf(f) \in Sensors
      /\ \A d \in Ticking, i \in SlotIds : slots[d][i].reports = <<>>
  BY DEF Init, EmptySlot, Ticking, Frames, SensorOf
<1>2. ToldOf
  BY <1>1 DEF Init, ToldOf, ZeroInfo
<1>3. OneFrameEach
  BY <1>1 DEF OneFrameEach, ZeroInfo
<1>4. SeenOnce /\ Independent
  BY <1>1 DEF SeenOnce, Independent, SlotReportsIndependent, Reported
<1> QED
  BY <1>2, <1>3, <1>4 DEF ClaimInv

\* A step of frame f that records no observation, and leaves f the exposure it
\* has, perhaps with slots cleared.
OwnStep(f) ==
  /\ UNCHANGED <<sensorDevices, history>>
  /\ \A d \in Devices, i \in SlotIds :
       /\ slots[d][i].valid' = slots[d][i].valid
       /\ slots[d][i].time' = slots[d][i].time
       /\ slots[d][i].exposure' = slots[d][i].exposure
       /\ slots[d][i].reports' = slots[d][i].reports
  /\ \A g \in Frames : g # f => frame[g]' = frame[g] /\ work[g]' = work[g]
  /\ Clears(frame[f].info', frame[f].info)

\* A camera that has reported in a slot has or had a frame of that exposure.
LEMMA ReportHasFrame ==
  ASSUME SeenOnce, NEW d \in Ticking, NEW i \in SlotIds, NEW g \in Frames,
         Reported(d, i, SensorOf(g))
  PROVE  \E h \in Frames : /\ SensorOf(h) = SensorOf(g)
                           /\ frame[h].info.count >= slots[d][i].exposure
BY DEF SeenOnce

LEMMA OwnStepClaims ==
  ASSUME SlotInv, ClaimInv, NEW f \in Frames, OwnStep(f),
         \A d \in Ticking, i \in SlotIds :
           Synced /\ Seen(f, d, i)' /\ Seen(f, d, i) /\ Reported(d, i, SensorOf(f))
             => work[f]' = [dev |-> d, stage |-> "found"]
  PROVE  ClaimInv'
<1>1. /\ \A g \in Frames : frame[g].info'.n = frame[g].info.n
                           /\ frame[g].info'.count = frame[g].info.count
      /\ Ticking \subseteq Devices
  BY DEF OwnStep, Clears, Ticking
<1>2. ToldOf'
  BY <1>1 DEF OwnStep, ClaimInv, ToldOf
<1>3. OneFrameEach => OneFrameEach'
  BY <1>1 DEF OneFrameEach
<1>4. \A d \in Ticking, i \in SlotIds :
        \A s : Reported(d, i, s)' <=> Reported(d, i, s)
  BY <1>1 DEF OwnStep, Reported
<1>5. \A d \in Ticking, i \in SlotIds, g \in Frames : Seen(g, d, i)' => Seen(g, d, i)
  <2> SUFFICES ASSUME NEW d \in Ticking, NEW i \in SlotIds, NEW g \in Frames,
                      Seen(g, d, i)'
               PROVE  Seen(g, d, i)
    OBVIOUS
  <2>1. d \in Devices
    BY <1>1
  <2>2. CASE g # f
    BY <2>1, <2>2 DEF OwnStep, Seen, Matches
  <2>3. CASE g = f
    <3>1. frame[f].info'.dev[d].slot = frame[f].info.dev[d].slot
          /\ frame[f].info'.dev[d].time = frame[f].info.dev[d].time
      BY <2>1, <2>3, ConstantFacts DEF OwnStep, Clears, Seen, Matches
    <3> QED
      BY <1>1, <2>1, <2>3, <3>1 DEF OwnStep, Seen, Matches
  <2> QED
    BY <2>2, <2>3
<1>6. Synced /\ SeenOnce => SeenOnce'
  <2> SUFFICES ASSUME Synced, SeenOnce, NEW d \in Ticking, NEW i \in SlotIds,
                      NEW g \in Frames, Reported(d, i, SensorOf(g))
               PROVE  /\ \E h \in Frames : /\ SensorOf(h) = SensorOf(g)
                                           /\ frame[h].info'.count >= slots[d][i].exposure'
                      /\ Seen(g, d, i)' => work[g]' = [dev |-> d, stage |-> "found"]
    BY <1>4 DEF SeenOnce
  <2>1. \E h \in Frames : /\ SensorOf(h) = SensorOf(g)
                          /\ frame[h].info'.count >= slots[d][i].exposure'
    <3>1. slots[d][i].exposure' = slots[d][i].exposure
      BY <1>1 DEF OwnStep
    <3>2. PICK h \in Frames : /\ SensorOf(h) = SensorOf(g)
                              /\ frame[h].info.count >= slots[d][i].exposure
      BY ReportHasFrame
    <3>3. frame[h].info'.count = frame[h].info.count
      BY <1>1
    <3> QED
      BY <3>1, <3>2, <3>3
  <2>2. ASSUME Seen(g, d, i)' PROVE work[g]' = [dev |-> d, stage |-> "found"]
    BY <1>5, <2>2 DEF SeenOnce, OwnStep
  <2> QED
    BY <2>1, <2>2
<1>7. Independent => Independent'
  <2>1. \A d \in Ticking, i \in SlotIds : slots[d][i].reports' = slots[d][i].reports
    BY <1>1 DEF OwnStep
  <2> QED
    BY <2>1, SMTT(30) DEF Independent, SlotReportsIndependent
<1> QED
  BY <1>2, <1>3, <1>6, <1>7 DEF ClaimInv

LEMMA FrameCapturedClaims ==
  ASSUME SlotInv, ClaimInv, NEW f \in Frames, FrameCaptured(f)
  PROVE  ClaimInv'
<1>1. PICK info \in history :
        /\ Synced => \A g \in Frames :
             SensorOf(g) = SensorOf(f) => frame[g].info.count < info.count
        /\ slots' = [d \in Devices |->
                       [i \in SlotIds |->
                          IF d < info.n /\ Matches(info, d, i)
                          THEN [slots[d][i] EXCEPT !.use = @ + 1]
                          ELSE slots[d][i]]]
        /\ frame' = [frame EXCEPT ![f] =
                       [held |-> TRUE, valid |-> TRUE,
                        info |-> Claimed(info)]]
  BY DEF FrameCaptured
<1>2. info \in Info /\ Claimed(info) \in Info
  BY ClaimedType DEF SlotInv, TypeOK
<1>3. Clears(Claimed(info), info)
  BY <1>2 DEF Clears, Claimed, Info, DevInfo
<1>4. /\ frame[f].info' = Claimed(info)
      /\ frame[f].info'.n = info.n /\ frame[f].info'.count = info.count
      /\ \A g \in Frames : g # f => frame[g]' = frame[g]
  BY <1>1, <1>3 DEF SlotInv, TypeOK, Clears
<1>5. \A d \in Devices, i \in SlotIds :
        /\ slots[d][i].valid' = slots[d][i].valid
        /\ slots[d][i].time' = slots[d][i].time
        /\ slots[d][i].exposure' = slots[d][i].exposure
        /\ slots[d][i].reports' = slots[d][i].reports
  BY <1>1 DEF SlotInv, TypeOK
<1>6. /\ UNCHANGED <<sensorDevices, history, work>>
      /\ Ticking \subseteq Devices /\ SensorOf(f) \in Sensors
  BY DEF FrameCaptured, driverVars, exposureVars, Ticking, Frames, SensorOf
<1>7. ToldOf'
  BY <1>4, <1>6 DEF ClaimInv, ToldOf
<1>8. ASSUME Synced PROVE OneFrameEach'
  <2>1. \A g \in Frames : SensorOf(g) = SensorOf(f) =>
          frame[g].info.count # info.count
    BY <1>1, <1>2, <1>8 DEF SlotInv, TypeOK, Info
  <2> QED
    BY <1>4, <1>8, <2>1 DEF ClaimInv, OneFrameEach
<1>9. ASSUME Synced PROVE SeenOnce'
  <2> SUFFICES ASSUME NEW d \in Ticking, NEW i \in SlotIds, NEW g \in Frames,
                      Reported(d, i, SensorOf(g))
               PROVE  /\ \E h \in Frames : /\ SensorOf(h) = SensorOf(g)
                                           /\ frame[h].info'.count >= slots[d][i].exposure'
                      /\ Seen(g, d, i)' => work[g]' = [dev |-> d, stage |-> "found"]
    <3>1. \A d \in Ticking, i \in SlotIds :
            \A s : Reported(d, i, s)' <=> Reported(d, i, s)
      BY <1>5, <1>6 DEF Reported
    <3> QED
      BY <3>1 DEF SeenOnce
  <2>1. d \in Devices /\ slots[d][i].exposure \in Nat
    BY <1>6 DEF SlotInv, TypeOK
  <2>2. PICK h \in Frames : /\ SensorOf(h) = SensorOf(g)
                            /\ frame[h].info.count >= slots[d][i].exposure
    BY <1>9 DEF ClaimInv, SeenOnce
  <2>3. frame[h].info.count \in Nat /\ info.count \in Nat
    BY <1>2 DEF SlotInv, TypeOK, Info
  <2>4. SensorOf(g) = SensorOf(f) => slots[d][i].exposure < info.count
    <3>1. ASSUME SensorOf(g) = SensorOf(f) PROVE frame[h].info.count < info.count
      BY <1>1, <1>9, <2>2, <3>1
    <3> QED
      BY <2>1, <2>2, <2>3, <3>1
  <2>5. frame[h].info'.count >= slots[d][i].exposure'
    <3>1. CASE h = f
      BY <1>4, <1>5, <2>1, <2>2, <2>3, <2>4, <3>1
    <3>2. CASE h # f
      BY <1>4, <1>5, <2>1, <2>2, <3>2
    <3> QED
      BY <3>1, <3>2
  <2>6. ASSUME Seen(g, d, i)' PROVE work[g]' = [dev |-> d, stage |-> "found"]
    <3>1. CASE g = f
      <4>1. d < info.n /\ Matches(Claimed(info), d, i)
        BY <1>4, <1>5, <2>1, <2>6, <3>1 DEF Seen, Matches
      <4>2. Matches(info, d, i)
        BY <1>2, <1>3, <2>1, <4>1, ClearsKeeps
      <4>3. slots[d][i].exposure = info.count
        BY <4>1, <4>2 DEF SlotInv, PastTimes, OwnExposure
      <4> QED
        BY <2>1, <2>3, <2>4, <3>1, <4>3
    <3>2. CASE g # f
      <4>1. Seen(g, d, i)
        BY <1>4, <1>5, <2>1, <2>6, <3>2 DEF Seen, Matches
      <4> QED
        BY <1>6, <1>9, <4>1 DEF ClaimInv, SeenOnce
    <3> QED
      BY <3>1, <3>2
  <2> QED
    BY <2>2, <2>5, <2>6
<1>10. ASSUME Synced PROVE Independent'
  BY <1>5, <1>6, <1>10, SMTT(30) DEF ClaimInv, Independent, SlotReportsIndependent
<1> QED
  BY <1>7, <1>8, <1>9, <1>10 DEF ClaimInv

LEMMA PoseUpdateClaims ==
  ASSUME SlotInv, ClaimInv, NEW f \in Frames, PoseUpdate(f)
  PROVE  ClaimInv'
<1> DEFINE e == work[f].dev
           r(used) == [sensor |-> SensorOf(f),
                       exposure |-> frame[f].info.count, used |-> used]
<1>1. PICK used \in BOOLEAN :
        slots' = [slots EXCEPT ![e] =
                    [i \in SlotIds |->
                       IF /\ Matches(frame[f].info, e, i)
                          /\ Len(slots[e][i].reports) < MaxReports
                       THEN [slots[e][i] EXCEPT
                               !.reports = Append(@, r(used))]
                       ELSE slots[e][i]]]
  BY DEF PoseUpdate
<1>2. e \in Devices /\ e < frame[f].info.n
  BY DEF PoseUpdate, SlotInv, PastTimes, WorkKnown
<1>3. \A d \in Devices, i \in SlotIds :
        slots[d][i]' = IF /\ d = e
                          /\ Matches(frame[f].info, e, i)
                          /\ Len(slots[e][i].reports) < MaxReports
                       THEN [slots[d][i] EXCEPT !.reports = Append(@, r(used))]
                       ELSE slots[d][i]
  <2>1. slots \in [Devices -> [SlotIds -> SlotType]]
    BY DEF SlotInv, TypeOK, SlotType
  <2> HIDE DEF e, r
  <2> QED
    BY <1>1, <1>2, <2>1
<1>4. \A d \in Devices, i \in SlotIds :
        /\ slots[d][i].valid' = slots[d][i].valid
        /\ slots[d][i].time' = slots[d][i].time
        /\ slots[d][i].exposure' = slots[d][i].exposure
        /\ \/ slots[d][i].reports' = slots[d][i].reports
           \/ /\ d = e
              /\ Matches(frame[f].info, e, i)
              /\ slots[d][i].reports' = Append(slots[d][i].reports, r(used))
  <2>1. \A d \in Devices, i \in SlotIds : slots[d][i] \in SlotType
    BY DEF SlotInv, TypeOK, SlotType
  <2> HIDE DEF e, r
  <2> QED
    BY <1>3, <2>1 DEF SlotType
<1>5. /\ UNCHANGED <<sensorDevices, history, frame>>
      /\ \A g \in Frames : g # f => work[g]' = work[g]
      /\ work[f].stage = "search" /\ work[f]' = [dev |-> e, stage |-> "found"]
  BY DEF PoseUpdate, driverVars, exposureVars, SlotInv, TypeOK, Work
<1>6. Ticking \subseteq Devices /\ SensorOf(f) \in Sensors
      /\ frame[f].info.count \in Nat /\ frame[f].info.n \in Nat
  BY DEF Ticking, Frames, SensorOf, SlotInv, TypeOK, Info
<1>7. r(used) \in Report /\ r(used).sensor = SensorOf(f)
  BY <1>6 DEF Report
<1> HIDE DEF e, r
<1>8. ToldOf'
  BY <1>5 DEF ClaimInv, ToldOf
<1>9. OneFrameEach => OneFrameEach'
  BY <1>5 DEF OneFrameEach
\* While f searches, its camera has reported in no slot that f matches.
<1>10. ASSUME Synced, NEW d \in Ticking, NEW i \in SlotIds, Seen(f, d, i)
       PROVE  ~Reported(d, i, SensorOf(f))
  <2>1. [dev |-> d, stage |-> "found"].stage # work[f].stage
    BY <1>5
  <2>2. SeenOnce
    BY <1>10 DEF ClaimInv
  <2>3. Reported(d, i, SensorOf(f)) => work[f] = [dev |-> d, stage |-> "found"]
    BY <1>10, <2>2 DEF SeenOnce
  <2> QED
    BY <2>1, <2>3
<1>11. ASSUME NEW d \in Ticking, NEW i \in SlotIds
       PROVE  \/ slots[d][i].reports' = slots[d][i].reports
              \/ /\ d = e /\ Seen(f, d, i)
                 /\ slots[d][i].reports \in Seq(Report)
                 /\ Len(slots[d][i].reports') = Len(slots[d][i].reports) + 1
                 /\ slots[d][i].reports'[Len(slots[d][i].reports) + 1].sensor = SensorOf(f)
                 /\ \A k \in 1 .. Len(slots[d][i].reports) :
                      slots[d][i].reports'[k] = slots[d][i].reports[k]
  <2>1. d \in Devices /\ slots[d][i].reports \in Seq(Report)
    BY <1>6 DEF SlotInv, TypeOK
  <2>2. CASE /\ d = e
             /\ Matches(frame[f].info, e, i)
             /\ slots[d][i].reports' = Append(slots[d][i].reports, r(used))
    <3>1. /\ Len(slots[d][i].reports') = Len(slots[d][i].reports) + 1
          /\ \A j \in 1 .. Len(slots[d][i].reports) :
               slots[d][i].reports'[j] = slots[d][i].reports[j]
          /\ slots[d][i].reports'[Len(slots[d][i].reports) + 1] = r(used)
      BY <1>7, <2>1, <2>2
    <3>2. Seen(f, d, i)
      BY <1>2, <2>2 DEF Seen
    <3> QED
      BY <1>7, <2>1, <2>2, <3>1, <3>2
  <2> QED
    BY <1>4, <2>1, <2>2, Zenon
<1>12. \A g \in Frames, d \in Ticking, i \in SlotIds : Seen(g, d, i)' <=> Seen(g, d, i)
  BY <1>4, <1>5, <1>6 DEF Seen, Matches
<1>13. ASSUME Synced PROVE SeenOnce'
  <2> SUFFICES ASSUME NEW d \in Ticking, NEW i \in SlotIds, NEW g \in Frames,
                      Reported(d, i, SensorOf(g))'
               PROVE  /\ \E h \in Frames : /\ SensorOf(h) = SensorOf(g)
                                           /\ frame[h].info.count >= slots[d][i].exposure
                      /\ Seen(g, d, i) => work[g]' = [dev |-> d, stage |-> "found"]
    BY <1>4, <1>5, <1>6, <1>12 DEF SeenOnce
  <2>1. CASE Reported(d, i, SensorOf(g))
    <3>1. ASSUME Seen(g, d, i) PROVE work[g]' = [dev |-> d, stage |-> "found"]
      <4>1. work[g] = [dev |-> d, stage |-> "found"]
        BY <1>13, <2>1, <3>1 DEF ClaimInv, SeenOnce
      <4>2. g # f
        BY <1>5, <4>1
      <4> QED
        BY <1>5, <4>1, <4>2
    <3> QED
      BY <1>13, <2>1, <3>1 DEF ClaimInv, SeenOnce
  <2>2. CASE ~Reported(d, i, SensorOf(g))
    <3>1. slots[d][i].reports' # slots[d][i].reports
      BY <2>2 DEF Reported
    <3>2. d = e /\ Seen(f, d, i) /\ SensorOf(g) = SensorOf(f)
      <4>1. PICK k \in 1 .. Len(slots[d][i].reports') :
              slots[d][i].reports'[k].sensor = SensorOf(g)
        BY DEF Reported
      <4>2. k \notin 1 .. Len(slots[d][i].reports)
        BY <1>11, <2>2, <3>1, <4>1 DEF Reported
      <4>3. Len(slots[d][i].reports) \in Nat
        BY <1>11, <3>1
      <4>4. k = Len(slots[d][i].reports) + 1
        BY <1>11, <3>1, <4>2, <4>3
      <4> QED
        BY <1>11, <3>1, <4>1, <4>4
    <3>3. slots[d][i].exposure = frame[f].info.count
      BY <3>2 DEF Seen, SlotInv, PastTimes, OwnExposure
    <3>4. frame[f].info.count >= slots[d][i].exposure
      BY <1>6, <3>3
    <3>5. ASSUME Seen(g, d, i) PROVE g = f
      <4>1. slots[d][i].exposure = frame[g].info.count
        BY <3>5 DEF Seen, SlotInv, PastTimes, OwnExposure
      <4>2. d \in Nat /\ frame[g].info.n \in Nat
        BY <1>6 DEF Devices, SlotInv, TypeOK, Info
      <4>3. frame[f].info.n > 0 /\ frame[g].info.n > 0
        BY <1>6, <3>2, <3>5, <4>2 DEF Seen
      <4> QED
        BY <1>13, <3>2, <3>3, <4>1, <4>3 DEF ClaimInv, OneFrameEach
    <3> QED
      BY <1>5, <3>2, <3>4, <3>5
  <2> QED
    BY <2>1, <2>2
<1>14. ASSUME Synced PROVE Independent'
  <2> SUFFICES ASSUME NEW d \in Ticking, NEW i \in SlotIds
               PROVE  SlotReportsIndependent(d, i)'
    BY DEF Independent
  <2>1. SlotReportsIndependent(d, i)
    BY <1>14 DEF ClaimInv, Independent
  <2>2. CASE slots[d][i].reports' = slots[d][i].reports
    BY <2>1, <2>2 DEF SlotReportsIndependent
  <2>3. CASE slots[d][i].reports' # slots[d][i].reports
    <3> DEFINE n == Len(slots[d][i].reports)
    <3>1. n \in Nat
      BY <1>11, <2>3
    <3>2. \A k \in 1 .. n : slots[d][i].reports'[k].sensor # SensorOf(f)
      BY <1>10, <1>11, <1>14, <2>3 DEF Reported
    <3>3. \A k \in 1 .. Len(slots[d][i].reports') : k \in 1 .. n \/ k = n + 1
      BY <1>11, <2>3, <3>1
    <3>4. ASSUME NEW j \in 1 .. Len(slots[d][i].reports'),
                 NEW k \in 1 .. Len(slots[d][i].reports'),
                 slots[d][i].reports'[j].sensor = slots[d][i].reports'[k].sensor
          PROVE  j = k
      <4>1. CASE j \in 1 .. n /\ k \in 1 .. n
        BY <1>11, <2>1, <2>3, <3>4, <4>1 DEF SlotReportsIndependent
      <4>2. CASE j = n + 1 \/ k = n + 1
        BY <1>11, <2>3, <3>2, <3>3, <3>4, <4>2, ZenonT(60)
      <4> QED
        BY <3>3, <4>1, <4>2
    <3> QED
      BY <3>4 DEF SlotReportsIndependent
  <2> QED
    BY <2>2, <2>3
<1> QED
  BY <1>8, <1>9, <1>13, <1>14 DEF ClaimInv

\* What a release of the slots of the devices in D leaves of a frame: its
\* exposure, and the slots that were not given back.
LEMMA ReleaseLeaves ==
  ASSUME SlotInv, NEW f \in Frames, NEW D,
         slots' = ReleasedSlots(f, D), frame[f].info' = ReleasedInfo(f, D)
  PROVE  /\ Clears(frame[f].info', frame[f].info)
         /\ \A d \in Devices, i \in SlotIds :
              /\ slots[d][i].valid' = slots[d][i].valid
              /\ slots[d][i].time' = slots[d][i].time
              /\ slots[d][i].exposure' = slots[d][i].exposure
              /\ slots[d][i].reports' = slots[d][i].reports
         /\ \A d \in D \cap Ticking, i \in SlotIds : ~(Seen(f, d, i) /\ Seen(f, d, i)')
<1>1. frame[f].info \in Info /\ frame[f].info' \in Info
  BY ReleasedInfoType DEF SlotInv, TypeOK
<1>2. \A d \in Devices :
        frame[f].info'.dev[d] = IF \E i \in SlotIds : ReleasesSlot(f, D, d, i)
                                THEN [frame[f].info.dev[d] EXCEPT !.slot = NoSlot]
                                ELSE frame[f].info.dev[d]
  BY <1>1 DEF ReleasedInfo, Info
<1>3. Clears(frame[f].info', frame[f].info)
  <2>1. frame[f].info'.n = frame[f].info.n
        /\ frame[f].info'.count = frame[f].info.count
    BY <1>1 DEF ReleasedInfo, Info
  <2>2. \A d \in Devices : frame[f].info.dev[d] \in DevInfo
    BY <1>1 DEF Info
  <2>3. \A d \in Devices :
          \/ frame[f].info'.dev[d] = frame[f].info.dev[d]
          \/ frame[f].info'.dev[d] = [frame[f].info.dev[d] EXCEPT !.slot = NoSlot]
    BY <1>2, Zenon
  <2>4. \A d \in Devices :
          /\ frame[f].info'.dev[d].time = frame[f].info.dev[d].time
          /\ frame[f].info'.dev[d].slot \in {frame[f].info.dev[d].slot, NoSlot}
    BY <2>2, <2>3 DEF DevInfo
  <2> QED
    BY <1>1, <2>1, <2>4 DEF Clears
<1>4. \A d \in Devices, i \in SlotIds :
        /\ slots[d][i].valid' = slots[d][i].valid
        /\ slots[d][i].time' = slots[d][i].time
        /\ slots[d][i].exposure' = slots[d][i].exposure
        /\ slots[d][i].reports' = slots[d][i].reports
  BY DEF SlotInv, TypeOK, ReleasedSlots
<1>5. ASSUME NEW d \in D \cap Ticking, NEW i \in SlotIds, Seen(f, d, i), Seen(f, d, i)'
      PROVE  FALSE
  <2>1. d \in Devices
    BY DEF Ticking
  <2>2. HoldsSlot(f, d, i)
    BY <1>5 DEF Seen, HoldsSlot, SlotInv, NoStaleMatch, HasSlot
  <2>3. ReleasesSlot(f, D, d, i)
    BY <1>5, <2>2, UsedSlot DEF ReleasesSlot, Seen
  <2>4. frame[f].info.dev[d] \in DevInfo
    BY <1>1, <2>1 DEF Info
  <2>5. frame[f].info'.dev[d].slot = NoSlot
    BY <1>2, <2>1, <2>3, <2>4 DEF DevInfo
  <2> QED
    BY <1>5, <2>5, ConstantFacts DEF Seen, Matches
<1> QED
  BY <1>3, <1>4, <1>5

LEMMA NewExposureClaims ==
  ASSUME SlotInv, ClaimInv, NewExposure
  PROVE  ClaimInv'
<1>1. PICK pick \in [Devices -> SlotIds \cup {NoSlot}] :
        /\ slots' = [d \in Devices |->
                       [i \in SlotIds |->
                          IF pick[d] = i THEN PreparedSlot(d)
                                         ELSE slots[d][i]]]
        /\ LET info == [count |-> count + 1, n |-> nDevices,
                        dev |-> [d \in Devices |->
                                   [time |-> devTime[d], slot |-> pick[d]]]]
           IN  history' = {e \in history \cup {info} :
                              e.count > count + 1 - HistSize}
  BY DEF NewExposure
<1>2. UNCHANGED <<frame, work, sensorDevices, nDevices>> /\ Ticking \subseteq Devices
      /\ \A s \in Sensors : sensorDevices[s] = nDevices
  BY DEF NewExposure, DriverIdle, Ticking
<1>3. ToldOf'
  <2>1. \A info \in history' : info \in history \/ info.n = nDevices
    BY <1>1
  <2>2. ASSUME NEW info \in history', NEW s \in Sensors
        PROVE  info.n <= sensorDevices'[s]
    <3>1. nDevices <= nDevices
      BY DEF SlotInv, TypeOK
    <3> QED
      BY <1>2, <2>1, <3>1 DEF ClaimInv, ToldOf
  <2>3. \A f \in Frames : frame[f].info'.n <= sensorDevices'[SensorOf(f)]
    BY <1>2 DEF ClaimInv, ToldOf
  <2> QED
    BY <2>2, <2>3 DEF ToldOf
<1>4. OneFrameEach => OneFrameEach'
  BY <1>2 DEF OneFrameEach
<1>5. ASSUME NEW d \in Ticking, NEW i \in SlotIds
      PROVE  slots[d][i]' = slots[d][i] \/ slots[d][i]'.reports = <<>>
  BY <1>1, <1>2 DEF PreparedSlot
<1>6. \A d \in Ticking, i \in SlotIds : \A s : Reported(d, i, s)' => slots[d][i]' = slots[d][i]
  BY <1>5 DEF Reported
<1>7. SeenOnce => SeenOnce'
  <2> SUFFICES ASSUME SeenOnce, NEW d \in Ticking, NEW i \in SlotIds, NEW f \in Frames,
                      Reported(d, i, SensorOf(f))'
               PROVE  /\ \E g \in Frames : /\ SensorOf(g) = SensorOf(f)
                                           /\ frame[g].info.count >= slots[d][i].exposure'
                      /\ Seen(f, d, i)' => work[f] = [dev |-> d, stage |-> "found"]
    BY <1>2 DEF SeenOnce
  <2>1. slots[d][i]' = slots[d][i]
    BY <1>6
  <2>2. Reported(d, i, SensorOf(f)) /\ (Seen(f, d, i)' <=> Seen(f, d, i))
    BY <1>2, <2>1 DEF Reported, Seen, Matches
  <2> QED
    BY <2>1, <2>2 DEF SeenOnce
<1>8. Independent => Independent'
  BY <1>5 DEF Independent, SlotReportsIndependent
<1> QED
  BY <1>3, <1>4, <1>7, <1>8 DEF ClaimInv

\* Every step keeps what the frames claim.
LEMMA ClaimStep == SlotInv /\ ClaimInv /\ [Next]_vars => ClaimInv'
<1> SUFFICES ASSUME SlotInv, ClaimInv, [Next]_vars PROVE ClaimInv'
  OBVIOUS
<1>0. \A f \in Frames : Clears(frame[f].info, frame[f].info)
  BY DEF Clears, SlotInv, TypeOK
<1>1. CASE UNCHANGED <<slots, frame, work, history>> /\ UNCHANGED sensorDevices
  BY <1>1 DEF ClaimInv, ToldOf, OneFrameEach, SeenOnce, Independent,
              SlotReportsIndependent, Reported, Seen, Matches
<1>2. ASSUME NEW s \in Sensors, TellSensor(s) PROVE ClaimInv'
  <2>1. UNCHANGED <<slots, frame, work, history>>
        /\ sensorDevices' = [sensorDevices EXCEPT ![s] = @ + 1]
    BY <1>2 DEF TellSensor, exposureVars
  <2>2. \A t \in Sensors : sensorDevices[t] \in Nat /\ sensorDevices'[t] >= sensorDevices[t]
                           /\ sensorDevices'[t] \in Nat
    BY <2>1 DEF SlotInv, TypeOK
  <2>3. /\ \A info \in history : info.n \in Nat
        /\ \A f \in Frames : frame[f].info.n \in Nat /\ SensorOf(f) \in Sensors
    BY DEF SlotInv, TypeOK, Info, Frames, SensorOf
  <2>4. ToldOf'
    <3>1. \A info \in history : \A t \in Sensors : info.n <= sensorDevices'[t]
      BY <2>2, <2>3 DEF ClaimInv, ToldOf
    <3>2. \A f \in Frames : frame[f].info.n <= sensorDevices'[SensorOf(f)]
      BY <2>2, <2>3 DEF ClaimInv, ToldOf
    <3> QED
      BY <2>1, <3>1, <3>2 DEF ToldOf
  <2> QED
    BY <2>1, <2>4 DEF ClaimInv, OneFrameEach, SeenOnce, Independent,
                      SlotReportsIndependent, Reported, Seen, Matches
<1>3. CASE NewExposure
  BY <1>3, NewExposureClaims
<1>4. ASSUME NEW f \in Frames, FrameCaptured(f) PROVE ClaimInv'
  BY <1>4, FrameCapturedClaims
<1>5. ASSUME NEW f \in Frames, FrameCapturedNoInfo(f) PROVE ClaimInv'
  <2>1. /\ frame[f].info' = frame[f].info
        /\ \A g \in Frames : g # f => frame[g]' = frame[g]
        /\ UNCHANGED <<slots, history, work, sensorDevices>>
    BY <1>5 DEF FrameCapturedNoInfo, SlotInv, TypeOK, driverVars, exposureVars
  <2>2. OwnStep(f)
    BY <1>0, <2>1 DEF OwnStep
  <2>3. \A d \in Ticking, i \in SlotIds :
          Synced /\ Seen(f, d, i) /\ Reported(d, i, SensorOf(f))
            => work[f]' = [dev |-> d, stage |-> "found"]
    BY <2>1 DEF ClaimInv, SeenOnce
  <2> QED
    BY <2>2, <2>3, OwnStepClaims
<1>6. ASSUME NEW f \in Frames, NEW e \in Devices, GetLatestPose(f, e) PROVE ClaimInv'
  <2>1. /\ UNCHANGED <<slots, sensorDevices, history>>
        /\ work[f].stage = "idle"
        /\ \A g \in Frames : g # f => work[g]' = work[g]
    BY <1>6 DEF GetLatestPose, driverVars, exposureVars, SlotInv, TypeOK
  <2>2. frame[f].info \in Info
    BY DEF SlotInv, TypeOK
  <2>3. /\ \A g \in Frames : g # f => frame[g]' = frame[g]
        /\ Clears(frame[f].info', frame[f].info)
    <3>1. CASE HasSlot(frame[f].info, e)
      BY <1>0, <1>6, <3>1 DEF GetLatestPose
    <3>2. CASE ~HasSlot(frame[f].info, e)
      <4> DEFINE info == [frame[f].info EXCEPT !.dev[e].slot = NoSlot]
      <4>1. frame' = [frame EXCEPT ![f].info = info]
        BY <1>6, <3>2 DEF GetLatestPose
      <4>2. Clears(info, frame[f].info)
        BY <2>2 DEF Clears, Info, DevInfo
      <4> HIDE DEF info
      <4> QED
        BY <4>1, <4>2 DEF SlotInv, TypeOK
    <3> QED
      BY <3>1, <3>2
  <2>4. OwnStep(f)
    BY <2>1, <2>3 DEF OwnStep
  <2>5. \A d : work[f] # [dev |-> d, stage |-> "found"]
    BY <2>1
  <2> QED
    BY <2>4, <2>5, OwnStepClaims DEF ClaimInv, SeenOnce
<1>7. ASSUME NEW f \in Frames, SearchFails(f) PROVE ClaimInv'
  <2>1. /\ UNCHANGED <<slots, frame, history, sensorDevices>>
        /\ work[f].stage = "search"
        /\ \A g \in Frames : g # f => work[g]' = work[g]
    BY <1>7 DEF SearchFails, driverVars, exposureVars, SlotInv, TypeOK
  <2>2. OwnStep(f)
    BY <1>0, <2>1 DEF OwnStep
  <2>3. \A d : work[f] # [dev |-> d, stage |-> "found"]
    BY <2>1
  <2> QED
    BY <2>2, <2>3, OwnStepClaims DEF ClaimInv, SeenOnce
<1>8. ASSUME NEW f \in Frames, PoseUpdate(f) PROVE ClaimInv'
  BY <1>8, PoseUpdateClaims
<1>9. ASSUME NEW f \in Frames, DeviceFrameRelease(f) PROVE ClaimInv'
  <2> DEFINE e == work[f].dev
  <2>1. /\ frame' = [frame EXCEPT ![f].info = ReleasedInfo(f, {e})]
        /\ frame \in [Frames -> FrameType]
    BY <1>9 DEF DeviceFrameRelease, SlotInv, TypeOK, FrameType
  <2>2. /\ UNCHANGED <<history, sensorDevices>>
        /\ slots' = ReleasedSlots(f, {e})
        /\ \A g \in Frames : g # f => work[g]' = work[g]
    BY <1>9 DEF DeviceFrameRelease, driverVars, exposureVars, SlotInv, TypeOK
  <2> HIDE DEF e
  <2>3. /\ frame[f].info' = ReleasedInfo(f, {e})
        /\ \A g \in Frames : g # f => frame[g]' = frame[g]
    BY <2>1 DEF FrameType
  <2>4. /\ OwnStep(f)
        /\ \A d \in {e} \cap Ticking, i \in SlotIds : ~(Seen(f, d, i) /\ Seen(f, d, i)')
    BY <2>2, <2>3, ReleaseLeaves DEF OwnStep
  <2>5. \A d \in Ticking, i \in SlotIds :
          Synced /\ Seen(f, d, i) /\ Reported(d, i, SensorOf(f)) => d = e
    <3>1. \A d : work[f] = [dev |-> d, stage |-> "found"] => d = e
      BY DEF e
    <3> QED
      BY <3>1 DEF ClaimInv, SeenOnce
  <2> QED
    BY <2>4, <2>5, OwnStepClaims
<1>10. ASSUME NEW f \in Frames, FrameRelease(f) PROVE ClaimInv'
  <2> DEFINE D == ReleasedDevices(f)
  <2>1. /\ frame' = [frame EXCEPT ![f] = [@ EXCEPT !.held = FALSE,
                                                   !.info = ReleasedInfo(f, D)]]
        /\ frame \in [Frames -> FrameType]
    BY <1>10 DEF FrameRelease, SlotInv, TypeOK, FrameType
  <2>2. /\ UNCHANGED <<history, work, sensorDevices>>
        /\ slots' = ReleasedSlots(f, D) /\ work[f].stage = "idle"
    BY <1>10 DEF FrameRelease, driverVars, exposureVars
  <2> HIDE DEF D
  <2>3. /\ frame[f].info' = ReleasedInfo(f, D)
        /\ \A g \in Frames : g # f => frame[g]' = frame[g]
    BY <2>1 DEF FrameType
  <2>4. OwnStep(f)
    BY <2>2, <2>3, ReleaseLeaves DEF OwnStep
  <2>5. \A d : work[f] # [dev |-> d, stage |-> "found"]
    BY <2>2
  <2> QED
    BY <2>4, <2>5, OwnStepClaims DEF ClaimInv, SeenOnce
<1> QED
  <2>1. CASE AddDevice \/ (\E d \in Devices : ImuUpdate(d)) \/ UNCHANGED vars
    BY <1>1, <2>1 DEF AddDevice, ImuUpdate, vars, exposureVars
  <2> QED
    BY <1>2, <1>3, <1>4, <1>5, <1>6, <1>7, <1>8, <1>9, <1>10, <2>1 DEF Next

\* What a frame claims fits: its camera was told about the devices it names,
\* the times it names are past, and, if a camera delivers one frame per
\* exposure, two observations in a slot come from two cameras, so that the
\* agreement pose_has_two_sensor_consensus looks for is one of two cameras.
THEOREM ClaimsSafe == Spec => []ClaimsFit
<1>1. SlotInv /\ ClaimInv => ClaimsFit
  <2> SUFFICES ASSUME SlotInv, ClaimInv PROVE ClaimsFit
    OBVIOUS
  <2>1. DevicesKnown
    BY DEF ClaimInv, ToldOf, DevicesKnown
  <2>2. ReportsIndependent
    BY DEF ClaimInv, Independent, ReportsIndependent
  <2> QED
    BY <2>1, <2>2 DEF SlotInv, ClaimsFit
<1> QED
  BY <1>1, SlotInvariant, ClaimInit, ClaimStep, PTL DEF Spec
=============================================================================
