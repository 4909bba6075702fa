----------------------------- MODULE PoseUpdate -----------------------------
(***************************************************************************)
(* What the tracker does with the poses the cameras find for one device    *)
(* (rift-tracker.c): which it fuses into the position, which into the      *)
(* orientation as well, which it only remembers until another camera       *)
(* agrees, and what position it shows when no camera has seen the device   *)
(* for a while.                                                            *)
(*                                                                         *)
(* Times are ages: how many ticks of the device's clock ago something      *)
(* happened, Never if it did not (the code's timestamp 0), and no age      *)
(* grows past the last value the code tells apart.  Turns are eighths of   *)
(* a circle, so that two orientations are 0, 45, 90, 135 or 180 degrees    *)
(* apart; a place stands for positions within every bound on distance.    *)
(* The device stands still at Truth; some cameras may lie about it.        *)
(***************************************************************************)
EXTENDS Integers, FiniteSets

CONSTANTS
    Sensors,      \* the cameras
    Liars,        \* the cameras whose pose search may find any pose
    Turns,        \* orientations, eighths of a circle
    Places,       \* positions
    Truth,        \* the pose of the device, [turn, place]
    Kinds,        \* what the device may be: "hmd" (id 0) or "controller"
    Doubts,       \* what the filter may have lost track of when a search begins:
                  \* sets of "turn" and "place"
    NumSlots,     \* NUM_POSE_DELAY_SLOTS
    OrientLost,   \* POSE_LOST_ORIENT_THRESHOLD in ticks
    CrossGap,     \* CROSS_SENSOR_MAX_GAP_NS in ticks
    PoseLost,     \* POSE_LOST_THRESHOLD in ticks
    MaxSearch     \* bound: how many ticks the analysis of a frame may take

ASSUME TurnsAssumption == Turns \subseteq 0 .. 7 /\ Liars \subseteq Sensors
ASSUME KindsAssumption == Kinds \subseteq {"hmd", "controller"}
ASSUME DoubtsAssumption == Doubts \subseteq SUBSET {"turn", "place"}
ASSUME PoseAssumption == Truth \in [turn : Turns, place : Places]
ASSUME TimeAssumption ==
    /\ {NumSlots, OrientLost, CrossGap, PoseLost, MaxSearch} \subseteq Nat \ {0}
    /\ OrientLost < PoseLost

VARIABLES
    kind,         \* what the device is (base.id)
    uptime,       \* age of the device's clock
    fusion,       \* the pose the filter estimates, and whether it moves
    poseAge,      \* age of last_observed_pose_ts
    orientAge,    \* age of last_observed_orient_ts
    lock,         \* last_acquired_pose_lock_ts is set
    candidate,    \* reacquire_candidate_*
    slots,        \* delay_slots
    exposure,     \* the last exposure's info for the device
    taken,        \* the cameras that captured the last exposure
    frames,       \* the frame each camera is analysing
    shown         \* the position of reported_pose

vars == <<kind, uptime, fusion, poseAge, orientAge, lock, candidate, slots,
          exposure, taken, frames, shown>>

Never == -1
Poses == [turn : Turns, place : Places]
Slots == 1 .. NumSlots
NoSlot == 0
NoFrame == [phase |-> "none"]
NoCandidate == [age |-> Never]

(***************************************************************************)
(* What no frame can reach any more is forgotten: a slot or an exposure    *)
(* older than any frame in analysis, a candidate past the gap of all.      *)
(***************************************************************************)
MaxCand == MaxSearch + CrossGap
FreshSlot == [age |-> Never, reports |-> {}, used |-> FALSE]
NoExposure == [age |-> Never, slot |-> NoSlot, lock |-> FALSE]
Aged(r, max, gone) ==
    IF r.age = Never THEN r
    ELSE IF r.age = max THEN gone ELSE [r EXCEPT !.age = @ + 1]
Older(age, max) == IF age = Never \/ age = max THEN age ELSE age + 1
\* now - ts > limit, where a timestamp of 0 gives the clock itself
Since(age) == IF age = Never THEN uptime ELSE age

Degrees(p, q) ==
    LET d == IF p.turn > q.turn THEN p.turn - q.turn ELSE q.turn - p.turn
    IN  45 * (IF d > 4 THEN 8 - d ELSE d)

\* within POSE_CONSENSUS_MAX_ORIENT_ERROR and _POS_ERROR
Agree(p, q) == Degrees(p, q) <= 20 /\ p.place = q.place
PoseOf(r) == [turn |-> r.turn, place |-> r.place]

(***************************************************************************)
(* What a camera reports: a pose, whether at least four of its LEDs were   *)
(* identified by their blinking, and whether the fit is tight enough for   *)
(* the agreement of cameras.                                               *)
(***************************************************************************)
Scores == [ids : BOOLEAN, tight : BOOLEAN]

\* check_pose_prior: the flags of a pose against the prior of its search, within
\* the filter's deviations: at least 25 degrees, and anything once they have grown
MatchOrient(pose, frame) ==
    "turn" \in frame.wide \/ Degrees(pose, frame.capture) <= 25
MatchPosition(pose, frame) ==
    "place" \in frame.wide \/ pose.place = frame.capture.place

\* get_matching_delay_slot
Matching(frame) ==
    /\ frame.slot # NoSlot
    /\ slots[frame.slot].age = frame.age

InUse(k) == \E s \in Sensors : /\ frames[s] # NoFrame
                               /\ frames[s].slot = k
                               /\ Matching(frames[s])

-----------------------------------------------------------------------------
Init ==
    /\ kind \in Kinds
    /\ uptime \in 0 .. PoseLost
    /\ \E t \in Turns, p \in Places :
          fusion = [turn |-> t, place |-> p, moving |-> FALSE]
    /\ poseAge = Never
    /\ orientAge = Never
    /\ lock = FALSE
    /\ candidate = NoCandidate
    /\ slots = [k \in Slots |-> FreshSlot]
    /\ exposure = NoExposure
    /\ taken = Sensors
    /\ frames = [s \in Sensors |-> NoFrame]
    /\ shown = fusion.place

\* no optical position for POSE_LOST_THRESHOLD
\* mutant: lost a tick late
Lost_Late == Since(poseAge) > PoseLost
Lost == Since(poseAge) >= PoseLost

\* the filter of an HMD is stopped while no camera sees it
Stopped(age) == kind = "hmd" /\ (age = Never \/ age >= PoseLost)

(***************************************************************************)
(* rift_tracked_device_imu_update: the clock goes on and the filter        *)
(* integrates.  A device that moves may get anywhere; acceleration that    *)
(* the impact rejection does not keep from the filter starts a motion.     *)
(* An HMD that is not seen is stopped after the filter's step.             *)
(***************************************************************************)
ImuUpdate ==
    /\ \A s \in Sensors : frames[s] # NoFrame => frames[s].age < MaxSearch
    /\ uptime' = Older(uptime, PoseLost)
    /\ poseAge' = Older(poseAge, PoseLost)
    /\ orientAge' = Older(orientAge, PoseLost)
    /\ candidate' = Aged(candidate, MaxCand, NoCandidate)
    /\ slots' = [k \in Slots |-> Aged(slots[k], MaxSearch, FreshSlot)]
    /\ exposure' = Aged(exposure, MaxSearch, NoExposure)
    /\ taken' = IF exposure'.age = Never THEN Sensors ELSE taken
    /\ frames' = [s \in Sensors |-> IF frames[s] = NoFrame THEN NoFrame
                                    ELSE [frames[s] EXCEPT !.age = @ + 1]]
    /\ \E pushed \in BOOLEAN, p \in Places :
          /\ ~fusion.moving => p = fusion.place
          /\ fusion' = [fusion EXCEPT
                !.place = p,
                !.moving = (@ \/ pushed) /\ ~Stopped(poseAge')]
    /\ UNCHANGED <<kind, lock, shown>>

(***************************************************************************)
(* rift_tracked_device_on_new_exposure.  Which free slot, or which of the  *)
(* used ones, is the business of DelaySlots.                               *)
(***************************************************************************)
NewExposure ==
    /\ exposure.age # 0
    /\ LET free == {k \in Slots : ~InUse(k)}
           used == {k \in Slots : slots[k].used}
           some == IF free # {} THEN free ELSE used
       IN  \E k \in IF some = {} THEN {NoSlot} ELSE some :
              /\ exposure' = [age |-> 0, slot |-> k, lock |-> ~Lost]
              /\ slots' = IF k = NoSlot THEN slots
                          ELSE [slots EXCEPT ![k] = [age |-> 0, reports |-> {},
                                                     used |-> FALSE]]
    /\ lock' = (lock /\ ~Lost)
    /\ taken' = {}
    /\ UNCHANGED <<kind, uptime, fusion, poseAge, orientAge, candidate, frames,
                   shown>>

\* A camera's frame of the last exposure arrives and claims its slot.
Capture(s) ==
    /\ s \notin taken
    /\ frames[s] = NoFrame
    /\ taken' = taken \cup {s}
    /\ frames' = [frames EXCEPT ![s] =
          [phase |-> "queued", age |-> exposure.age, slot |-> exposure.slot,
           lock |-> exposure.lock]]
    /\ UNCHANGED <<kind, uptime, fusion, poseAge, orientAge, lock, candidate,
                   slots, exposure, shown>>

(***************************************************************************)
(* rift_tracked_device_get_latest_exposure_info_pose: the search starts    *)
(* from the slot's estimate as it is now, or is skipped when the slot has  *)
(* been taken away.  The deviations of the filter have a minimum but no    *)
(* maximum: they may have grown in turn, in place or in both.              *)
(***************************************************************************)
StartSearch(s) ==
    /\ frames[s].phase = "queued"
    /\ \E wide \in Doubts :
          frames' = [frames EXCEPT ![s] =
             IF Matching(@)
             THEN [phase |-> "search", age |-> @.age, slot |-> @.slot,
                   lock |-> @.lock, wide |-> wide, capture |-> PoseOf(fusion)]
             ELSE NoFrame]
    /\ UNCHANGED <<kind, uptime, fusion, poseAge, orientAge, lock, candidate,
                   slots, exposure, taken, shown>>

-----------------------------------------------------------------------------
(***************************************************************************)
(* The two ways cameras agree.  The first looks at the other reports of    *)
(* the exposure that had enough identified LEDs (the others are skipped    *)
(* and not kept here, nor are those of a controller, which nothing reads); *)
(* the second at the last good pose that was rejected, and always          *)
(* remembers the new one instead.                                          *)
(***************************************************************************)
pose_has_two_sensor_consensus(frame, pose, score) ==
    /\ score.ids
    /\ \E other \in slots[frame.slot].reports : Agree(pose, other)

\* mutant: a camera may agree with itself
pose_has_cross_sensor_consensus_Self(s, frame, pose, score) ==
    /\ score.tight
    /\ candidate # NoCandidate
    /\ candidate.age >= frame.age
    /\ candidate.age - frame.age <= CrossGap
    /\ Agree(pose, PoseOf(candidate))

pose_has_cross_sensor_consensus(s, frame, pose, score) ==
    /\ score.tight
    /\ candidate # NoCandidate
    /\ candidate.age >= frame.age
    /\ candidate.age - frame.age <= CrossGap
    /\ candidate.from # s
    /\ Agree(pose, PoseOf(candidate))

Remembered(s, frame, pose, score) ==
    IF score.tight
    THEN [age |-> frame.age, from |-> s, turn |-> pose.turn, place |-> pose.place]
    ELSE candidate

\* A position that contradicts the prior and is older than the last one seen
Outdated(frame, pose) ==
    /\ frame.lock
    /\ ~MatchPosition(pose, frame)
    /\ poseAge # Never
    /\ poseAge < frame.age

Established == orientAge # Never
HmdNeedsConsensus(frame, pose) ==
    /\ kind = "hmd" /\ Established
    /\ ~(MatchPosition(pose, frame) /\ MatchOrient(pose, frame))
ControllerFlipped(frame, pose) ==
    kind = "controller" /\ Established /\ Degrees(pose, frame.capture) > 60
ControllerTurned(frame, pose) ==
    kind = "controller" /\ Established /\ Degrees(pose, frame.capture) > 35

(***************************************************************************)
(* The cases of rift_tracked_device_model_pose_update for a pose with a    *)
(* slot: which parts are fused, whether the motion is reset, whether the   *)
(* orientation counts as observed, and the candidate afterwards.           *)
(***************************************************************************)
Agreed == [position |-> TRUE, orientation |-> TRUE, reset |-> TRUE,
           observed |-> TRUE]
Rejected == [position |-> FALSE, orientation |-> FALSE, reset |-> FALSE,
             observed |-> FALSE]

ConsensusOf(s, frame, pose, score) ==
    IF kind = "hmd"
    THEN \/ pose_has_two_sensor_consensus(frame, pose, score)
         \/ pose_has_cross_sensor_consensus(s, frame, pose, score)
    ELSE pose_has_cross_sensor_consensus(s, frame, pose, score)

Way(s, frame, pose, score) ==
    LET fresh == ~Outdated(frame, pose)
        doubted == \/ HmdNeedsConsensus(frame, pose)
                   \/ ControllerFlipped(frame, pose)
        match == ~ControllerTurned(frame, pose) /\ MatchOrient(pose, frame)
        forced == kind = "hmd" /\ Since(orientAge) > OrientLost
    IN  IF doubted
        THEN IF ConsensusOf(s, frame, pose, score) THEN Agreed ELSE Rejected
        ELSE [position |-> fresh,
              orientation |-> match \/ forced,
              reset |-> kind = "controller" /\ pose.place # frame.capture.place,
              observed |-> match /\ fresh]

CandidateAfter(s, frame, pose, score) ==
    LET doubted == \/ HmdNeedsConsensus(frame, pose)
                   \/ ControllerFlipped(frame, pose)
    IN  CASE doubted /\ ConsensusOf(s, frame, pose, score) -> NoCandidate
          [] doubted /\ ~ConsensusOf(s, frame, pose, score) ->
                Remembered(s, frame, pose, score)
          [] ~doubted /\ ~ControllerTurned(frame, pose)
                      /\ MatchOrient(pose, frame) -> NoCandidate
          [] OTHER -> candidate

\* rift_kalman_6dof_pose_update or _position_update, then _clear_linear_motion
Fused(way, pose) ==
    [turn |-> IF way.orientation THEN pose.turn ELSE fusion.turn,
     place |-> pose.place,
     moving |-> fusion.moving /\ ~way.reset]

\* The slot keeps the pose for the agreement of cameras, and that one was used.
Reported(slot, position, pose, score) ==
    [slot EXCEPT !.used = @ \/ position,
                 !.reports = IF kind = "hmd" /\ score.ids THEN @ \cup {pose} ELSE @]

(***************************************************************************)
(* rift_tracked_device_model_pose_update, and the release of the slot by   *)
(* handle_found_pose whatever the outcome: a frame reports a device once.  *)
(***************************************************************************)
ModelPoseUpdate(s, pose, score) ==
    /\ frames[s].phase = "search"
    /\ frames' = [frames EXCEPT ![s] = NoFrame]
    /\ IF ~Matching(frames[s])
       THEN UNCHANGED <<fusion, poseAge, orientAge, lock, candidate, slots>>
       ELSE LET way == Way(s, frames[s], pose, score)
            IN  /\ candidate' = CandidateAfter(s, frames[s], pose, score)
                /\ orientAge' = IF way.observed THEN 0 ELSE orientAge
                /\ poseAge' = IF way.position THEN 0 ELSE poseAge
                /\ lock' = (lock \/ way.position)
                /\ fusion' = IF way.position THEN Fused(way, pose) ELSE fusion
                /\ slots' = [slots EXCEPT ![frames[s].slot] =
                      Reported(@, way.position, pose, score)]
    /\ UNCHANGED <<kind, uptime, exposure, taken, shown>>

\* The pose search of a camera finds a pose: the device's, unless it lies.  Of
\* one that comes too late nothing is kept, whatever it is; LEDs of controllers
\* do not blink.
FoundPose(s) ==
    /\ frames[s].phase = "search"
    /\ \E pose \in IF s \in Liars /\ Matching(frames[s]) THEN Poses ELSE {Truth},
          score \in Scores :
          /\ kind = "controller" => ~score.ids
          /\ ModelPoseUpdate(s, pose, score)

\* The search finds nothing; the frame is released.
NothingFound(s) ==
    /\ frames[s].phase = "search"
    /\ frames' = [frames EXCEPT ![s] = NoFrame]
    /\ UNCHANGED <<kind, uptime, fusion, poseAge, orientAge, lock, candidate,
                   slots, exposure, taken, shown>>

\* rift_tracked_device_get_view_pose: the position stays when it is lost.
GetViewPose ==
    /\ shown' = IF Lost THEN shown ELSE fusion.place
    /\ UNCHANGED <<kind, uptime, fusion, poseAge, orientAge, lock, candidate,
                   slots, exposure, taken, frames>>

Next ==
    \/ ImuUpdate
    \/ NewExposure
    \/ \E s \in Sensors :
          Capture(s) \/ StartSearch(s) \/ FoundPose(s) \/ NothingFound(s)
    \/ GetViewPose

Spec == Init /\ [][Next]_vars

-----------------------------------------------------------------------------
Unseen == poseAge = Never \/ poseAge >= PoseLost
Ages(max) == 0 .. max \cup {Never}

TypeOK ==
    /\ kind \in Kinds
    /\ uptime \in 0 .. PoseLost
    /\ fusion \in [turn : Turns, place : Places, moving : BOOLEAN]
    /\ poseAge \in Ages(PoseLost)
    /\ orientAge \in Ages(PoseLost)
    /\ lock \in BOOLEAN
    /\ candidate \in {NoCandidate} \cup
          [age : 0 .. MaxCand, from : Sensors, turn : Turns, place : Places]
    /\ slots \in [Slots -> [age : Ages(MaxSearch), used : BOOLEAN,
                           reports : SUBSET Poses]]
    /\ exposure \in [age : Ages(MaxSearch), slot : Slots \cup {NoSlot},
                     lock : BOOLEAN]
    /\ taken \subseteq Sensors
    /\ shown \in Places
    /\ frames \in [Sensors -> {NoFrame}
          \cup [phase : {"queued"}, age : 0 .. MaxSearch,
                slot : Slots \cup {NoSlot}, lock : BOOLEAN]
          \cup [phase : {"search"}, age : 0 .. MaxSearch,
                slot : Slots \cup {NoSlot}, lock : BOOLEAN,
                wide : Doubts, capture : Poses]]

\* The searches that are running started from the pose as it is now.
PriorsCurrent ==
    \A s \in Sensors :
        frames[s].phase = "search" => frames[s].capture = PoseOf(fusion)

\* A search that ends now was of an HMD whose filter had lost track of this.
Vague(what) ==
    kind = "hmd" /\ \E s \in Sensors :
        /\ frames[s].phase = "search" /\ what \in frames[s].wide
        /\ frames'[s] = NoFrame

(***************************************************************************)
(* One camera that finds wrong poses cannot turn a device away from its    *)
(* true orientation once that is established, whatever the order in which  *)
(* the frames of the cameras are analysed: rift-tracker.c replaces the     *)
(* orientation only when two cameras agree on the new one.  A controller   *)
(* is safe however far its deviations have grown ("A growing covariance    *)
(* must not turn a flipped controller solution into an orientation match", *)
(* rift-tracker.c:962).  An HMD is not: what is within the deviations of   *)
(* its search contradicts nothing.                                         *)
(***************************************************************************)
OneCameraCannotTurn ==
    [][Established /\ fusion.turn = Truth.turn /\ PriorsCurrent
       => fusion'.turn = Truth.turn \/ Vague("turn")]_vars

(***************************************************************************)
(* The same for the place of an HMD: a place that contradicts the prior is *)
(* only taken when two cameras agree, so an HMD whose established pose is  *)
(* right and that does not move stays where it is, unless the deviation of *)
(* its place had grown.  That of its orientation does not matter.          *)
(***************************************************************************)
OneCameraCannotMoveHmd ==
    [][/\ kind = "hmd" /\ Established /\ PoseOf(fusion) = Truth
       /\ ~fusion.moving /\ PriorsCurrent
       => fusion'.place = Truth.place \/ Vague("place")]_vars

(***************************************************************************)
(* "If a pose no longer agrees with the established IMU/optical state,     *)
(* however, only let two cameras that see matching identified LEDs replace *)
(* both its global position and orientation" (rift-tracker.c:957): also    *)
(* when the state was established while a search was running.              *)
(***************************************************************************)
EstablishedTurnStays ==
    [][Established /\ fusion.turn = Truth.turn
       => fusion'.turn = Truth.turn \/ Vague("turn")]_vars

(***************************************************************************)
(* The orientation counts as observed only when a pose was fused: the      *)
(* comment "Only update the time if we're actually going to apply this     *)
(* matched orientation" (rift-tracker.c:1016), over all the cases.         *)
(***************************************************************************)
StampsOrdered ==
    /\ Established => poseAge # Never /\ poseAge <= orientAge
    /\ lock => poseAge # Never

(***************************************************************************)
(* An HMD no camera sees does not drift: rift-tracker.c stops the filter's *)
(* motion so that the next camera pose does not look implausibly far away. *)
(***************************************************************************)
UnseenHmdStays ==
    [][kind = "hmd" /\ Unseen /\ fusion'.place # fusion.place => poseAge' = 0]_vars

(***************************************************************************)
(* The position shown only changes for a device that a camera saw within   *)
(* POSE_LOST_THRESHOLD, or whose clock has not reached that value yet.     *)
(***************************************************************************)
ShownWhenSeen ==
    [][shown' # shown => ~Unseen \/ (poseAge = Never /\ uptime < PoseLost)]_vars

\* One camera replaces neither the orientation nor the place.
OneCameraCannotReplace == OneCameraCannotTurn /\ OneCameraCannotMoveHmd

\* A device that is not seen stands still, and only counts as seen when a pose
\* of it was fused.
PoseStands == []TypeOK /\ []StampsOrdered /\ UnseenHmdStays /\ ShownWhenSeen
=============================================================================
