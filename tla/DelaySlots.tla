----------------------------- MODULE DelaySlots -----------------------------
(***************************************************************************)
(* The exposure bookkeeping of the Rift tracker (rift-tracker.c).          *)
(*                                                                         *)
(* When the HMD reports a camera exposure, every tracked device snapshots  *)
(* its predicted state into one of a few "delay slots" of its filter.  The *)
(* cameras deliver the frame of that exposure later; the frame claims the  *)
(* slots it was exposed with, analysis threads look poses up and report    *)
(* observations against them, and the frame gives them back.  Slots are    *)
(* scarce: when none is free, one that already received an observation is  *)
(* reclaimed under the feet of the frames that still hold it, and those    *)
(* frames must notice.                                                     *)
(*                                                                         *)
(* An operator X_... is a plausible bug of the operator X that follows it,  *)
(* kept to show that some property notices it; nothing uses it.            *)
(*                                                                         *)
(* Who runs what: AddDevice, TellSensor, ImuUpdate and NewExposure run on  *)
(* the driver's update thread, FrameCaptured on the USB thread, the other  *)
(* actions on the analysis threads of the camera that owns the frame. Each *)
(* action is one critical section of tracker_lock or of a device_lock.     *)
(***************************************************************************)
EXTENDS Integers, FiniteSets, Sequences

CONSTANTS
  NumDevices,   \* RIFT_MAX_TRACKED_DEVICES
  Sensors,      \* the cameras
  Buffers,      \* names of the analysis frames of one camera
  NumSlots,     \* NUM_POSE_DELAY_SLOTS
  HistSize,     \* NUM_EXPOSURE_HISTORY
  MaxReports,   \* MAX_SENSORS, the reports a slot has room for
  Quiet,        \* devices whose IMU may stay silent between two exposures
  Synced,       \* TRUE: a camera delivers one frame per exposure; FALSE: the
                \* +/- 10ms window may match two of its frames to one exposure
  MaxExposures  \* bound of the model: exposures of one behaviour

ASSUME SlotConstants ==
  /\ NumDevices \in Nat \ {0}
  /\ NumSlots \in Nat \ {0}
  /\ HistSize \in Nat \ {0}
  /\ MaxReports \in Nat \ {0}
  /\ MaxExposures \in Nat
  /\ Synced \in BOOLEAN
  /\ IsFiniteSet(Sensors)
  /\ IsFiniteSet(Buffers)
  /\ Quiet \subseteq 1 .. NumDevices - 1

Devices == 0 .. NumDevices - 1
Hmd     == 0
Ticking == Devices \ Quiet
SlotIds == 0 .. NumSlots - 1
NoSlot  == -1
Frames  == Sensors \X Buffers

SensorOf(f) == f[1]

VARIABLES
  nDevices,        \* ctx->n_devices
  sensorDevices,   \* sensor->n_devices of each camera
  devTime,         \* dev->device_time_ns
  fresh,           \* an IMU sample arrived since the last exposure
  slots,           \* dev->delay_slots
  slotIndex,       \* dev->delay_slot_index
  count,           \* the newest exposure count
  history,         \* ctx->exposure_history
  frame,           \* the exposure_info of every analysis frame
  work             \* the device an analysis thread is looking for, per frame

driverVars == <<nDevices, sensorDevices, devTime, fresh>>
exposureVars == <<count, history>>
vars == <<nDevices, sensorDevices, devTime, fresh, slots, slotIndex,
          count, history, frame, work>>

-----------------------------------------------------------------------------
(***************************************************************************)
(* Data.  A device info is the pair (device_time_ns, fusion_slot), an      *)
(* exposure info one per device.  In a slot, "exposure" and in a report    *)
(* "exposure" are history: the exposure they belong to.                    *)
(***************************************************************************)
DevInfo == [time : Nat, slot : SlotIds \cup {NoSlot}]

Info == [count : Nat, n : 0 .. NumDevices, dev : [Devices -> DevInfo]]

ZeroInfo == [count |-> 0, n |-> 0,
             dev |-> [d \in Devices |-> [time |-> 0, slot |-> 0]]]

Report == [sensor : Sensors, exposure : Nat, used : BOOLEAN]

EmptySlot == [valid |-> FALSE, use |-> 0, time |-> 0, exposure |-> 0,
              reports |-> <<>>]

IdleWork == [dev |-> NoSlot, stage |-> "idle"]

Work == [dev : Devices \cup {NoSlot}, stage : {"idle", "search", "found"}]

Matches_SlotOnly(info, d, i) ==
  info.dev[d].slot = i /\ slots[d][i].valid

\* get_matching_delay_slot: does the info of device d name a slot that is
\* still tracking the exposure the info was taken at?
Matches(info, d, i) ==
  /\ info.dev[d].slot = i
  /\ slots[d][i].valid
  /\ slots[d][i].time = info.dev[d].time

HasSlot(info, d) == \E i \in SlotIds : Matches(info, d, i)

NumUsed(slot) ==
  Cardinality({k \in 1 .. Len(slot.reports) : slot.reports[k].used})

-----------------------------------------------------------------------------
(***************************************************************************)
(* Picking a slot for a new exposure.                                      *)
(***************************************************************************)

\* The slot at distance k of the rotating index.
Probe(d, k) == (slotIndex[d] + k) % NumSlots

\* find_free_delay_slot: probes from delay_slot_index, which moves past
\* every slot it probed.
FreeAt(d, k) ==
  /\ slots[d][Probe(d, k)].use = 0
  /\ \A j \in 0 .. k - 1 : slots[d][Probe(d, j)].use # 0

NoFreeSlot(d) == \A i \in SlotIds : slots[d][i].use # 0

Reclaimable_AnyValid(d, i) == slots[d][i].valid

\* reclaim_delay_slot: the first slot that already received a used report.
Reclaimable(d, i) ==
  /\ slots[d][i].valid
  /\ NumUsed(slots[d][i]) > 0

Reclaims(d, i) ==
  /\ Reclaimable(d, i)
  /\ \A j \in 0 .. i - 1 : ~Reclaimable(d, j)

\* The slot a new exposure gets: a free one, else a reclaimed one, else none.
PicksSlot(d, i) ==
  \/ \E k \in SlotIds : FreeAt(d, k) /\ i = Probe(d, k)
  \/ NoFreeSlot(d) /\ i \in SlotIds /\ Reclaims(d, i)
  \/ NoFreeSlot(d) /\ i = NoSlot /\ \A j \in SlotIds : ~Reclaimable(d, j)

\* delay_slot_index after a search that ended in slot i: past the free slot, or
\* all the way round when there was none.
NextIndex(d, i) ==
  IF NoFreeSlot(d) THEN slotIndex[d] ELSE (i + 1) % NumSlots

-----------------------------------------------------------------------------
Init ==
  /\ nDevices = 0
  /\ sensorDevices = [s \in Sensors |-> 0]
  /\ devTime = [d \in Devices |-> 0]
  /\ fresh = [d \in Devices |-> TRUE]
  /\ slots = [d \in Devices |-> [i \in SlotIds |-> EmptySlot]]
  /\ slotIndex = [d \in Devices |-> 0]
  /\ count = 0
  /\ history = {}
  /\ frame = [f \in Frames |->
                [held |-> FALSE, valid |-> FALSE, info |-> ZeroInfo]]
  /\ work = [f \in Frames |-> IdleWork]

DriverIdle_Unordered == TRUE

\* The update thread has returned from rift_tracker_add_device.
DriverIdle == \A s \in Sensors : sensorDevices[s] = nDevices

\* rift_tracker_add_device, under tracker_lock.
AddDevice ==
  /\ DriverIdle
  /\ nDevices < NumDevices
  /\ nDevices' = nDevices + 1
  /\ UNCHANGED <<sensorDevices, devTime, fresh, slots, slotIndex,
                 exposureVars, frame, work>>

\* ... and then rift_sensor_add_device for each camera, under sensor_lock.
TellSensor(s) ==
  /\ sensorDevices[s] < nDevices
  /\ sensorDevices' = [sensorDevices EXCEPT ![s] = @ + 1]
  /\ UNCHANGED <<nDevices, devTime, fresh, slots, slotIndex, exposureVars,
                 frame, work>>

\* rift_tracked_device_imu_update, as far as the slots see it: the clock of
\* the device moves. The samples between two exposures count as one.
ImuUpdate(d) ==
  /\ DriverIdle
  /\ d < nDevices
  /\ ~fresh[d]
  /\ devTime' = [devTime EXCEPT ![d] = @ + 1]
  /\ fresh' = [fresh EXCEPT ![d] = TRUE]
  /\ UNCHANGED <<nDevices, sensorDevices, slots, slotIndex, exposureVars,
                 frame, work>>

\* rift_tracked_device_on_new_exposure for one device that picked slot i.
PreparedSlot(d) ==
  [valid |-> TRUE, use |-> 0, time |-> devTime[d], exposure |-> count + 1,
   reports |-> <<>>]

\* rift_tracker_on_new_exposure. The HMD reports exposures in its own IMU
\* packets, so its clock has moved since the last one; only a Quiet device's
\* may stand still. A repeated exposure count changes nothing (no action).
NewExposure ==
  /\ DriverIdle
  /\ nDevices > 0
  /\ count < MaxExposures
  /\ \A d \in Ticking : fresh[d]
  /\ \E pick \in [Devices -> SlotIds \cup {NoSlot}] :
       /\ \A d \in Devices :
            IF d < nDevices THEN PicksSlot(d, pick[d]) ELSE pick[d] = NoSlot
       /\ slots' = [d \in Devices |->
                      [i \in SlotIds |->
                         IF pick[d] = i THEN PreparedSlot(d)
                                        ELSE slots[d][i]]]
       /\ slotIndex' = [d \in Devices |->
                          IF d < nDevices THEN NextIndex(d, pick[d])
                                          ELSE slotIndex[d]]
       /\ LET info == [count |-> count + 1, n |-> nDevices,
                       dev |-> [d \in Devices |->
                                  [time |-> devTime[d], slot |-> pick[d]]]]
          IN  history' = {e \in history \cup {info} :
                             e.count > count + 1 - HistSize}
  /\ count' = count + 1
  /\ fresh' = [d \in Devices |-> d >= nDevices]
  /\ UNCHANGED <<nDevices, sensorDevices, devTime, frame, work>>

-----------------------------------------------------------------------------
(***************************************************************************)
(* The life of a frame.                                                    *)
(***************************************************************************)

\* rift_tracked_device_exposure_claim, for all devices of an info.
Claimed(info) ==
  [info EXCEPT !.dev =
     [d \in Devices |->
        IF d < info.n /\ ~HasSlot(info, d)
        THEN [info.dev[d] EXCEPT !.slot = NoSlot]
        ELSE info.dev[d]]]

\* rift_tracker_frame_captured, the frame matched an exposure of the history.
FrameCaptured(f) ==
  /\ ~frame[f].held
  /\ \E info \in history :
       /\ Synced => \A g \in Frames :
            SensorOf(g) = SensorOf(f) => frame[g].info.count < info.count
       /\ slots' = [d \in Devices |->
                      [i \in SlotIds |->
                         IF d < info.n /\ Matches(info, d, i)
                         THEN [slots[d][i] EXCEPT !.use = @ + 1]
                         ELSE slots[d][i]]]
       /\ frame' = [frame EXCEPT ![f] =
                      [held |-> TRUE, valid |-> TRUE, info |-> Claimed(info)]]
  /\ UNCHANGED <<driverVars, slotIndex, exposureVars, work>>

\* The same when no exposure matches: the frame is analysed all the same, with
\* the info its last use left behind, and marked exposure_info_valid = false.
FrameCapturedNoInfo(f) ==
  /\ ~frame[f].held
  /\ frame' = [frame EXCEPT ![f].held = TRUE, ![f].valid = FALSE]
  /\ UNCHANGED <<driverVars, slots, slotIndex, exposureVars, work>>

\* rift_tracked_device_get_latest_exposure_info_pose for device d: a match
\* starts a search, a lost slot is cleared from the frame.
GetLatestPose(f, d) ==
  /\ frame[f].held
  /\ work[f].stage = "idle"
  /\ d < frame[f].info.n
  /\ frame[f].info.dev[d].slot # NoSlot
  /\ IF HasSlot(frame[f].info, d)
     THEN /\ work' = [work EXCEPT ![f] = [dev |-> d, stage |-> "search"]]
          /\ UNCHANGED frame
     ELSE /\ frame' = [frame EXCEPT ![f].info.dev[d].slot = NoSlot]
          /\ UNCHANGED work
  /\ UNCHANGED <<driverVars, slots, slotIndex, exposureVars>>

\* The search finds nothing good enough to report.
SearchFails(f) ==
  /\ work[f].stage = "search"
  /\ work' = [work EXCEPT ![f] = IdleWork]
  /\ UNCHANGED <<driverVars, slots, slotIndex, exposureVars, frame>>

\* rift_tracked_device_model_pose_update: the observation is recorded in the
\* slot if it is still this exposure's, whether the filter used it or not.
PoseUpdate(f) ==
  LET d == work[f].dev
      r(used) == [sensor |-> SensorOf(f), exposure |-> frame[f].info.count,
                  used |-> used]
  IN
  /\ work[f].stage = "search"
  /\ \E used \in BOOLEAN :
       slots' = [slots EXCEPT ![d] =
                   [i \in SlotIds |->
                      IF /\ Matches(frame[f].info, d, i)
                         /\ Len(slots[d][i].reports) < MaxReports
                      THEN [slots[d][i] EXCEPT
                              !.reports = Append(@, r(used))]
                      ELSE slots[d][i]]]
  /\ work' = [work EXCEPT ![f].stage = "found"]
  /\ UNCHANGED <<driverVars, slotIndex, exposureVars, frame>>

\* rift_tracked_device_exposure_release_locked: the slots of the devices in D
\* lose a user, the frame forgets the slots it gave back.
ReleasesSlot(f, D, d, i) ==
  /\ d \in D
  /\ d < frame[f].info.n
  /\ Matches(frame[f].info, d, i)
  /\ slots[d][i].use > 0

ReleasedSlots(f, D) ==
  [d \in Devices |->
     [i \in SlotIds |->
        IF ReleasesSlot(f, D, d, i)
        THEN [slots[d][i] EXCEPT !.use = @ - 1]
        ELSE slots[d][i]]]

ReleasedInfo_Kept(f, D) == frame[f].info

ReleasedInfo(f, D) ==
  [frame[f].info EXCEPT !.dev =
     [d \in Devices |->
        IF \E i \in SlotIds : ReleasesSlot(f, D, d, i)
        THEN [frame[f].info.dev[d] EXCEPT !.slot = NoSlot]
        ELSE frame[f].info.dev[d]]]

\* rift_tracked_device_frame_release at the end of handle_found_pose: the
\* frame gives the device's slot back, accepted or not.
DeviceFrameRelease(f) ==
  /\ work[f].stage = "found"
  /\ slots' = ReleasedSlots(f, {work[f].dev})
  /\ frame' = [frame EXCEPT ![f].info = ReleasedInfo(f, {work[f].dev})]
  /\ work' = [work EXCEPT ![f] = IdleWork]
  /\ UNCHANGED <<driverVars, slotIndex, exposureVars>>

ReleasedDevices_OffByOne(f) ==
  IF frame[f].valid THEN 0 .. nDevices - 2 ELSE {}

\* rift_tracker_frame_release gets the info of the frame if it is valid, else
\* NULL, which releases nothing.
ReleasedDevices(f) ==
  IF frame[f].valid THEN 0 .. nDevices - 1 ELSE {}

FrameRelease(f) ==
  /\ frame[f].held
  /\ work[f].stage = "idle"
  /\ LET D == ReleasedDevices(f)
     IN  /\ slots' = ReleasedSlots(f, D)
         /\ frame' = [frame EXCEPT
                        ![f] = [@ EXCEPT !.held = FALSE,
                                         !.info = ReleasedInfo(f, D)]]
  /\ UNCHANGED <<driverVars, slotIndex, exposureVars, work>>

Next ==
  \/ AddDevice
  \/ \E s \in Sensors : TellSensor(s)
  \/ \E d \in Devices : ImuUpdate(d)
  \/ NewExposure
  \/ \E f \in Frames : FrameCaptured(f)
  \/ \E f \in Frames : FrameCapturedNoInfo(f)
  \/ \E f \in Frames : \E d \in Devices : GetLatestPose(f, d)
  \/ \E f \in Frames : SearchFails(f)
  \/ \E f \in Frames : PoseUpdate(f)
  \/ \E f \in Frames : DeviceFrameRelease(f)
  \/ \E f \in Frames : FrameRelease(f)

Spec == Init /\ [][Next]_vars
-----------------------------------------------------------------------------
(***************************************************************************)
(* Properties.                                                             *)
(***************************************************************************)

TypeOK ==
  /\ nDevices \in 0 .. NumDevices
  /\ sensorDevices \in [Sensors -> 0 .. NumDevices]
  /\ devTime \in [Devices -> Nat]
  /\ fresh \in [Devices -> BOOLEAN]
  /\ slots \in [Devices -> [SlotIds -> [valid : BOOLEAN, use : Nat, time : Nat,
                                       exposure : Nat, reports : Seq(Report)]]]
  /\ slotIndex \in [Devices -> SlotIds]
  /\ count \in Nat
  /\ history \subseteq Info
  /\ frame \in [Frames -> [held : BOOLEAN, valid : BOOLEAN, info : Info]]
  /\ work \in [Frames -> Work]

\* The frames that hold slot i of device d.
HoldsSlot(f, d, i) ==
  /\ frame[f].held
  /\ frame[f].valid
  /\ d < frame[f].info.n
  /\ Matches(frame[f].info, d, i)

Users(d, i) == {f \in Frames : HoldsSlot(f, d, i)}

\* use_count is what its comment says, "Number of frames using this slot"
\* (rift-tracker.c:114), through every claim, early release, final release,
\* reuse and reclaim. Devices whose clock may stand still are excluded.
UseCountExact ==
  \A d \in Ticking : \A i \in SlotIds :
    slots[d][i].use = Cardinality(Users(d, i))

\* The same for every device, as the comment has it: a controller that sends no
\* sample between two exposures breaks it, because the slot reclaimed for the
\* second exposure still matches the frames of the first.
UseCountIsFramesUsing ==
  \A d \in Devices : \A i \in SlotIds :
    slots[d][i].use = Cardinality(Users(d, i))

\* A frame that is not being analysed for a known exposure matches no slot:
\* what is left in its exposure_info can neither report nor release.
NoStaleMatch ==
  \A f \in Frames : \A d \in Ticking :
    ~(frame[f].held /\ frame[f].valid) /\ d < frame[f].info.n
      => ~HasSlot(frame[f].info, d)

\* An observation is only ever recorded in the slot of the exposure its frame
\* was taken at, however late the search that made it ends.
ReportsOfOwnExposure ==
  \A d \in Ticking : \A i \in SlotIds :
    \A k \in 1 .. Len(slots[d][i].reports) :
      slots[d][i].reports[k].exposure = slots[d][i].exposure

SlotReportsIndependent(d, i) ==
  \A j, k \in 1 .. Len(slots[d][i].reports) :
    slots[d][i].reports[j].sensor = slots[d][i].reports[k].sensor => j = k

\* When a camera delivers one frame per exposure, two observations in one slot
\* come from two cameras: what pose_has_two_sensor_consensus takes for the
\* agreement of two sensors is not one camera's fast and long analysis agreeing
\* with each other.
ReportsIndependent ==
  Synced => \A d \in Ticking : \A i \in SlotIds :
              SlotReportsIndependent(d, i)

\* The same without that condition, as the comment on the consensus has it,
\* "let two cameras that see matching identified LEDs replace both"
\* (rift-tracker.c:943): two frames of one camera that fall in the +/- 10ms
\* window of one exposure break it.
ReportsFromTwoCameras ==
  \A d \in Ticking : \A i \in SlotIds : SlotReportsIndependent(d, i)

(***************************************************************************)
(* What makes them inductive.                                              *)
(***************************************************************************)

\* t is the time of a past exposure: if a sample arrived since the last one,
\* the clock has moved past it.
Past(d, t) == IF fresh[d] THEN t < devTime[d] ELSE t <= devTime[d]

PastInfo(info) ==
  /\ info.n <= nDevices
  /\ \A d \in Ticking : d < info.n => Past(d, info.dev[d].time)

OwnExposure(info) ==
  \A d \in Ticking : \A i \in SlotIds :
    d < info.n /\ Matches(info, d, i) => slots[d][i].exposure = info.count

WorkKnown ==
  \A f \in Frames :
    work[f].stage # "idle" =>
      /\ frame[f].held
      /\ work[f].dev \in Devices
      /\ work[f].dev < frame[f].info.n

\* Every time the tracker keeps is a past one, an info that matches a slot was
\* taken at the exposure the slot tracks, and a device searched for is one of
\* the frame's exposure.
PastTimes ==
  /\ \A d \in Devices : d >= nDevices => fresh[d]
  /\ \A d \in Ticking : \A i \in SlotIds :
       slots[d][i].valid => Past(d, slots[d][i].time)
  /\ \A info \in history : PastInfo(info) /\ OwnExposure(info)
  /\ \A f \in Frames : PastInfo(frame[f].info) /\ OwnExposure(frame[f].info)
  /\ WorkKnown

-----------------------------------------------------------------------------
\* An analysis thread only looks for devices its camera was told about: the
\* devices of an exposure are in sensor->devices of every camera that gets a
\* frame of it, although the two are updated under different locks.
DevicesKnown ==
  \A f \in Frames :
    frame[f].held => frame[f].info.n <= sensorDevices[SensorOf(f)]

KeptUntilFused ==
  \A d \in Ticking : \A i \in SlotIds :
    /\ Users(d, i) # {}
    /\ slots'[d][i].exposure # slots[d][i].exposure
    => NumUsed(slots[d][i]) > 0

\* A slot is taken away from a frame that still uses it only after some
\* observation of that exposure was fused.
TakenOnlyIfFused == [][KeptUntilFused]_vars

\* What a frame claims fits: it names only devices its camera was told about,
\* times that are past, and its observations count once.
ClaimsFit == TypeOK /\ PastTimes /\ DevicesKnown /\ ReportsIndependent
=============================================================================
