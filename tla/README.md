# Open-CV1: a TLA+ model of the tracking driver

Open-CV1 makes an Oculus Rift CV1 work under SteamVR on Linux. A SteamVR driver
(`src/driver_openhmd.cpp`) polls devices of a bundled OpenHMD
(`src/subprojects/openhmd`), whose Rift driver does the work: it reads the HID
reports of headset and controllers, runs the CV1 cameras over USB, finds the
LEDs of the devices in their frames and fuses what it sees with the IMU.

This directory models the concurrent core of that driver in TLA+, checks it
with TLC on small instances and proves its central invariants with TLAPS.

## 1. Inventory

| Component | Source | State | Operations | Talks to |
|---|---|---|---|---|
| Exposures and delay slots | `drv_oculus_rift/rift-tracker.c` | exposure history, per device three delay slots with use counts and pose reports, device clock | add device, IMU sample, new exposure, frame captured / released, latest pose, pose report, device release | called by the Rift driver (IMU, exposures), by cameras (frames), by analysis threads (poses) |
| Camera frame pipeline | `rift-sensor.c` | capture, fast and long queue, busy and shutdown flags, per buffer its video frame, observation and marks | frame captured, fast analysis, long analysis, start, free | USB thread in, tracker and blob watcher out |
| Video frame pools | `sensor/uvc.c`, `ohmd-jpeg.c` | free and allocated frames, the frame being filled | frame start / end, release, decode, start, stop | the pipeline |
| UVC stream | `sensor/uvc.c` | transfers, their active count, the frame being assembled, frame id | start, stop, transfer callback, payload | USB thread, the pipeline |
| Blob watcher | `rift-sensor-blobwatch.c` | three observations, the last one, blob ids and labels | extract, match, release, update labels | both analysis threads |
| Pose search | `rift-sensor-pose-search.c`, `correspondence_search.c`, `led_search.c` | camera pose, labels of the blobs, per frame the devices found and their scores | fast, quick and deep pass, search for one device, scoring | tracker, blob watcher |
| Filter | `rift-kalman-6dof.c` | state vector and covariance | predict, update | tracker |
| Rift HID driver | `rift.c` | shared HMD record, haptics, last timestamps | open, update, keep-alive, haptics, close | tracker, radio |
| Touch radio | `rift-hmd-radio.c` | current command, its device, pending flag, read offset | read calibration, send haptics, cancel | HID device, config cache |
| Pose decision | `rift-tracker.c` | times of the last observed pose and orientation, candidate pose, pose shown | model pose update, IMU update, view pose | analysis threads, filter |
| Sensor clocks | `rift.c`, `rift-s*.c`, `vive.c`, `psvr.c`, `wmr.c`, `vrtek.c`, `deepoon.c` | last stamp, last number | handle a sensor packet | sensor fusion |
| Rift S | `drv_oculus_rift_s/*` | shared head unit, remotes, radio queue, JSON buffers | open, close, poll, remote report, radio command | OpenHMD core, HID |
| OpenHMD core | `openhmd.c` | device list, active devices, update thread | open, close, update, destroy | drivers |
| SteamVR driver | `driver_openhmd.cpp` | driver objects, pose thread, height calibration | init, activate, cleanup, run frame, pose update | OpenHMD core, SteamVR, files |
| HID library | `hidapi/libusb/hid.c` | per device a thread, a transfer and a queue of reports | open, read, callback, close | all HID drivers, libusb |
| Height calibration | `scripts/calibrate-cv1-sensors.sh` | request, result and settings file | ask, wait, store | SteamVR driver, by files |

Hard behaviour: five kinds of threads (driver update, USB events, two analysis
threads per camera, SteamVR pose thread) under three levels of locks (`sensor_lock`, `tracker_lock`,
`device_lock`), with a frame's data taken under one and used after it was given
up; fixed small pools (delay slots, buffers, observations, decoder frames) with
take-back when they run out; results that arrive several exposures late; joins
of controllers while frames are in flight; teardown while threads run.

What makes each correct, in short: a slot's use count counts the frames that use
it and late results never touch the slot of another exposure; buffers, video
frames and observations are neither lost nor in two places, every frame comes
back, teardown ends; the radio's command belongs to one device and is always
finished or given up; the update thread never meets a closed device; the poses
SteamVR sees are of live devices. `PROJECT.json` lists the hazards line by line.

## 2. Modules

| Module | Models | Run | Proved in |
|---|---|---|---|
| `DelaySlots` | exposures, delay slots, frames' claims | `time` | `DelaySlots_proofs` |
| `PoseUpdate` | which poses are fused, into what, and what position is shown | `pose` | `PoseUpdate_proofs` |
| `FrameLife` | what the frame queues promise | as a property of `SensorFrames` | `SensorFrames_proofs` (that it is implemented) |
| `SensorFrames` | the frame pipeline of one camera with its pools | `frames_jpeg`, `frames_live` | `SensorFrames_proofs` |
| `UvcStream` | transfers, frame assembly, start and stop of a stream | `camera` | `Camera_proofs` |
| `PoseSearch` | the devices of a frame claim blobs, pass by pass | `camera` | `Camera_proofs` |
| `PoseTrials` | which LEDs are tried against which blobs, and which pose is kept | `camera` | |
| `Blobs` | pixels to extents to blobs, matching of blobs | `blobs` | |
| `BlobTracks` | ids and labels of blobs across frames and threads | `blobs` | `Camera_proofs` |
| `RiftRadio` | the radio shared by the two Touch controllers | `radio` | `RiftRadio_proofs` |
| `SampleClocks` | from stamps to time steps, in ten drivers | `time` | |
| `RiftS` | the Rift S: shared head unit, remotes, radio queue | `rift_s` | `RiftS_proofs` |
| `OhmdContext` | device list, update thread, shared headsets | `ohmd` | `SteamDriver_proofs` |
| `SteamDriver` | the SteamVR driver on top of `OhmdContext` | `steam` | `SteamDriver_proofs` |
| `HidReader` | the HID library: read threads, their callbacks, the queue, close | `hid` | `HidReader_proofs` |
| `HeightCalibration` | the driver and the calibration script, joined by files | `height` | `SteamDriver_proofs` |

Each is instantiated by a module `MC...` of the same name, except for two pairs that
share a run: `MCTime` (`DelaySlots`, `SampleClocks`) and `MCCamera` (`UvcStream`,
`PoseSearch` with `PoseTrials`). A behaviour of such a run is one of either module; `subject` says of which. `SteamDriver` extends
`OhmdContext`: SteamVR's thread and the pose thread are the client of the
context, each action of the composition one of the context or a stutter of it.
`BlobTracks` extends `Blobs` and takes the turns of a match from it. `SensorFrames`
implements `FrameLife`.

An operator named `X_Something` is a plausible bug of `X`, kept beside it to
show that some property notices it. Nothing uses it.

### DelaySlots

One action is one critical section of `tracker_lock` or `device_lock`. `slots`
is `dev->delay_slots`, `history` the exposure history, `frame` the
`exposure_info` each analysis frame carries (also after its release: the code
does not clear it), `work` the search an analysis thread is in, between the
look-up of a pose and the report of what was found. Times are counted in IMU
batches: all samples between two exposures are one tick, because slots are
compared by equality of `device_time_ns` only.

Abstractions: poses are dropped; whether the filter uses an observation is a
free choice; which exposure a frame matches is a free choice within the history
(the code compares times within 10 ms), restricted by `Synced` to one frame per
exposure and camera.
The HMD's clock always moves between exposures, because exposures are reported
in its IMU packets; devices in `Quiet` need not send samples in between.

### PoseUpdate

What `DelaySlots` leaves to choice: `ModelPoseUpdate` is
`rift_tracked_device_model_pose_update` with all its cases, for an HMD or a
controller. Timestamps are ages, cut off at the last value the code tells apart.
An orientation is one of eight directions, so that the thresholds of 20, 25, 35
and 60 degrees fall between two of them as they do in the code; a place stands
for positions within each bound on distance. The device stands still at
`Truth`; a camera in `Liars` may find any pose with any score, the others find
the true one. The filter itself is the pose it estimates and whether it moves. Its
covariance is only what a search begins with: `StartSearch` chooses from `Doubts` whether
turn or place may differ at will without contradicting the prior, for an HMD as for a controller.

### SensorFrames

One action is one critical section of `sensor_lock`, or a piece of analysis
between two of them. `buf` holds what the code keeps in each analysis frame;
video frames are counted per pool, observations have identities because the
blob watcher compares each with the last. Condition variables are modelled: a
thread in `"wait"` only runs again when signalled, or spuriously. The camera
pose flags are read and written without a lock, as in the code.

`FrameLife` is its contract without queues: a buffer only moves forward from
free to queued, fast, pending and long; one frame is in fast analysis and one
in or before long analysis. `ImplementsLife` checks the refinement, with
`stage` mapped to the place each buffer is in.

Abstractions: pixels, blobs and poses; the search ends (its loops are finite);
at the start of a thread the first fetch and the check of `shutdown` are one.
After `StopVideo` the code reads freed video frames (section 7); the model goes
on as if the memory were intact.

### UvcStream

Two threads: the one that starts and stops the stream, and the tracker's USB
thread with the transfer callbacks. `main` and `callback` are their places,
`waiters` libusb's event waiters lock, which `StopLocks` takes and
`libusb_wait_for_event` gives up. A transfer carries one packet, a frame `Parts`
packets; one bit of frame id is kept, the camera counts frames modulo four. The
camera may lose any packets but all of one frame. `uncounted` are the transfers
that ended before start had counted them (section 7).

### Blobs and BlobTracks

`Blobs` has no variables: `process_scanline`, the joining of extents and
the matching in `blobwatch_process` as operators, over small images and small rows of
blobs. A pixel is dark, faint or bright, an extent the set of its pixels.
`Claims` is one turn of a blob in a scan; `Scans` is the whole loop, for the
comparison with what a match should be.
`BlobTracks` is the life of three observations between the fast and the long
thread: matching a new observation with the last one (`MatchBlob`, `ScanEnds`)
and copying ids and labels (`CopyBlob`), both blob by blob, while the long
thread labels an older one or moves its labels to the last. Neither takes a
lock, and the model interleaves them. `strayed` and `torn`
mark what the code does not exclude (section 7).

### PoseTrials and PoseSearch

`PoseTrials` has no state. `Selections`, `LedTrials` and `BlobTrials` are the
choices of three neighbours that `select_k_leds_from_n`,
`generate_led_match_candidates` and `check_leds_against_anchor` go through,
`LedNeighbours` and `BlobNeighbours` the lists they choose from, `Better` is
`rift_score_is_better_pose` and `Kept` the pose left after a row of trials.

`PoseSearch` is a frame on its way through the fast pass, the quick one and the
deep one. The devices have their turn one after the other, and what an earlier
one found is taken from the later ones by the labels it wrote into the blobs:
`label` is the state in which they meet. A pose is the set of blobs it explains; a
search may come upon any, or upon none, so that what is claimed has to follow from how
it is judged and written down. The depth of a search does not matter here.

### RiftRadio

Everything here runs under the update mutex of OpenHMD, so an action is a whole
call: one `check_haptics_state`, one `rift_touch_get_calibration`, one request
of the application. The hard part is that a call never waits: state of the
command in progress stays in the radio record until the next call for the same
controller, with calls for the other one in between. `turn` keeps the order of
one update: vibrations of controller 0, of controller 1, then any number of
messages; between two updates, that is before the check of controller 0, the
application asks for vibrations. A command on the air is a record, and what it reads is named by that
record, so a model state shows whose answer each block, the hash and each cache
file came from.

`GetCalibration` goes through all answers that are there at once, as the loop in
`rift_radio_read_calibration` does: `ReadStops` is a call that meets an answer
that is not there or an error, `FromFlash` and `FromCache` one that gets to the
end. Time is a free choice where the code compares clocks: the end of a pulse,
the timeout of a command. `motor` is what the controller really does, and is the
only external part: a command whose result is reported as an error, or is given
up, may have been carried out or not.

Not distinguished: the kinds of errors (all but EINPROGRESS and EBUSY act alike),
an invalid header from a failed read of it, and the contents of a calibration
beyond where it came from and whether it parses.

### SampleClocks

A device takes a sample per tick and sends some of them in a packet, with a
stamp that wraps at `Wrap` and a number that wraps at `SeqWrap`; packets get lost. One
action per driver is its handler of a sensor packet, with its own way of telling
how much time has gone by. `handled` is what the handler gave to the sensor
fusion, each sample with its time step. A packet that cannot be decoded is a lost one in
the drivers that drop it (`Decodes`). The others keep what they decode in `packet`, and
handle the packet before again (`Keeps`); the Vive handles what is on the stack
(`ViveUndecoded`). `NothingNew` says what that costs: samples are fused a second time, in
drivers with one sample at a time without any time, and the next packet goes on from the right
place. `mistaken` is set where the code takes a stamp of zero for none, for a PSVR where
it takes any unusual gap for a tick, and for a DK1 when its clock of 16 bits starts
over (section 7).

### RiftS

One HID thread: OpenHMD polls the head unit through one of the open devices,
`pc` is the place in its `update_hmd`. The head unit is external: it relays one
command at a time to a remote and answers with a new sequence number. The
commands wait in `pending_commands`; completion callbacks append to it. A remote's
JSON block is counted in half pieces, so that it can end within one.

### OhmdContext

A call of the client under `update_mutex` is one step; the update thread's pass
is one step per device, and an update of a headset is one of its own, so that
what the mutex does not protect interleaves with it. `use` is the `use_count` of the
CV1's shared headset record and the condition of its life. A headset's `data`
flips with each update, which is enough to tell a mixed snapshot.

### SteamDriver

`host` is SteamVR's thread in `Init`, `Activate`, `Deactivate` and `Cleanup`,
`pose` the pose thread. `InitLooks` is a turn of `Init`'s loop over the device list and
`InitChooses` its end, where configured places replace what the loop found. Rift
devices are read past the mutex (`ohmd_device_getf_direct`), others through the
snapshot of `ohmd_ctx_update`. `offsets` counts how often the local offset of a
controller is in the position it was published with.

### HidReader

`hidapi/libusb/hid.c`, the backend the build chooses on Linux. All devices share one
libusb context, so the thread of any of them may run the callback of any other:
`handler` is the thread that handles events now and the callback it is in. `thread` is where
each `read_thread` is, `transfer` its one transfer, `queue` its `input_reports`. libusb is
external: one thread handles events, the others wait for them, and a cancelled transfer
ends as cancelled if it was in flight. `Missed` says that both cancels came while another
thread ran the callback (section 7).

### HeightCalibration

Time passes in seconds; in each, driver and script look once. A file is absent or
a record of its height, whether it is whole, in which run of the script it came
was asked for (`run`) and in which it was published, and for how long the headset had been
still: the last three are history. Its actions
are under names of their own (`HeightInit`, `HeightNext`), as its proofs share a module with
those of the driver. The driver's steps between opening the temporary file and removing the request are
actions of their own, and either side may end between any two.

## 3. Runs

| Run | Properties | Shows |
|---|---|---|
| `time` | `ClaimsFit`, `UseCountExact`, `NoStaleMatch`, `ReportsOfOwnExposure`, `TakenOnlyIfFused`, `SamplesExact` | Two cameras fight for the delay slot of the HMD and that of a controller that joins while frames are in flight and may go quiet: use counts stay exact, no report lands in another exposure's slot, a slot in use is only reclaimed once it was fused, no frame names a device its camera was not told about, and two reports in one slot come from two cameras. Or: The time steps that ten drivers give to their sensor fusion, while clocks and sample numbers wrap, packets get lost, cannot be decoded or repeat samples, and reports are not full. |
| `frames_jpeg` | `HandedOver`, `FramesConserved`, `ImplementsLife` | The pipeline of one camera with its real sizes and JPEG frames: nothing is lost or used twice, frames keep their order, and the queues implement FrameLife. |
| `frames_live` | `OldestReturns`, `TearDownEnds` | Under fair analysis threads every frame comes back and a teardown ends. The frames are grey, so they hold the stream's own video frames, and there are only two buffers, so the cases the real number rules out happen too: a frame is taken back from the long queue, or dropped. |
| `radio` | `HapticInv`, `ReadInv`, `RequestsSent` | The calibrations of both controllers, one of them malformed, are read in pieces while one vibrates, with failures, timeouts, broken cache files and restarts: no part, answer or file gets to the wrong controller, the motor does in the end what was last asked of it, and with both in range a refused vibration is sent in the end. |
| `pose` | `PoseStands`, `OneCameraCannotReplace` | Two cameras, one of which may find any pose, search frames of an HMD or a controller while time passes: as long as its searches are not too vague to contradict, the lying camera alone moves or turns no HMD, it never turns a controller, and without cameras the position stands still. |
| `ohmd` | `UpdaterGoesOn`, `UpdatedOnce`, `ListAndUsersExact` | A client opens and closes the three devices of one headset in any order, with and without automatic updates, and calls ohmd_ctx_update and ohmd_ctx_destroy, while the update thread runs. |
| `steam` | `ThreadsGoOn`, `PosesRight`, `FirstThatFits` | SteamVR starts and stops the driver over four lists of devices while the pose thread reads and the update thread of the context updates: roles, poses and an orderly end. |
| `height` | `BothReturn`, `AnswerRight` | The calibration script and the driver exchange a request and a result file while the wearer moves, SteamVR starts and stops and files cannot be written. |
| `camera` | `TransfersCounted`, `FrameOfOneImage`, `StopReturns`, `ClaimsHold`, `SearchExact` | A camera is started and stopped while its transfers end, fail, are submitted again or given up, and packets are lost: what is delivered is of one image, and a stop returns when no transfer is left. Or: three devices are searched for in a frame, over both analyses, and the choices of LEDs, blobs and poses are compared with what they should be. |
| `hid` | `ReportsKept`, `ReadersEnd` | Two HID devices are opened, read in every mode, unplugged and closed, while the thread of either runs the callbacks of both: reports come in order, a freed device is not used, and closes and reads end unless both cancels came while the other thread ran the callback. |
| `rift_s` | `HeadUnitShared`, `CalibratedByOwn`, `RemotesComeUp` | Three devices share a Rift S and are opened, closed and updated in any order while two remotes are found, typed and calibrated over its radio, with a lost command or a short reply. |
| `blobs` | `LabelsRight`, `MatchesStand`, `PixelsOnce`, `MatchingStable`, `IdsFollowLights` | Blobs from pixels and matches from blobs on every small input, and the ids and labels they get while the fast thread matches and copies, the long thread moves labels of an older frame, and lights move, go out and come on. |

A property of several parts is a conjunction of named ones, stated and explained one by one
in its module: `HandedOver`, `FramesConserved`, `HapticInv`, `ReadInv`, `PoseStands`,
`ClaimsHold`, `SearchExact`, `LabelsRight` and others. TLC checks the conjunction.

## 4. Bounds

* `time`, exposures. The code has three devices, three slots, an exposure history of a
  few entries and a handful of buffers per camera. A slot is taken from its
  users only when there are fewer slots than exposures in flight, so one slot
  and two exposures reach what three slots reach over more exposures. Two
  cameras are enough for every pair of conflicting reports. The invariants
  without a bound on exposures, slots, cameras, buffers or devices are the
  subject of the proofs.
* `pose`. Two cameras, one that lies; directions ahead, 45 degrees and
  opposite, which are on different sides of every threshold; thresholds of one
  and two ticks keep the order of the real ones (0.1 s to 1.5 s). A search lasts up to
  one tick, enough for a newer pose to be fused, or a slot taken away, during it. It is of a
  device the filter knows, or whose place, or place and turn, it has lost: those two in the other order
  are a matter of the proofs.
* `frames_jpeg` uses the real sizes: four buffers, three observations, four
  decoder frames. The only reduction is symmetry among buffers and among
  observations, whose names mean nothing. `frames_live` has no symmetry, as
  liveness requires, and two buffers: with fewer buffers than the pipeline has
  places a new frame is dropped, or a waiting one taken back, and these are the
  branches in which a wake-up or a video frame would be lost. Its frames are
  grey, the other of the two stream formats.
* `camera`, stream. Two transfers are one that ends before and one after any step of the
  stopping thread; three packets have a first, a middle and a last; two attempts
  have a last and one before it. The proofs need none of these numbers.
* `camera`, search. Three devices are what the code has. Two blobs stand for the five
  that a match needs and three for the seven that it needs away from its prior, so four
  blobs are too few for two unaided devices and enough for one of either kind. Labels are
  brought in order, as blobs are interchangeable. What is tried is compared for scenes of
  six LEDs in a row, of which any are seen, in order or with two exchanged, with one blob of
  another device, and for lists of three to eight neighbours; what is kept for any row of
  three scores. This part is evaluated in the initial states.
* `blobs`. Images of three lines of three pixels (every value) and of four (dark or
  bright) contain every way two extents meet one of the line above; rows of up to
  three blobs on five places contain the chains in which a blob takes a match from
  another. The limits of size and number are the real ones and are not reached there.
  The threads run over two lights on three places, four ids and two poses: enough for a blob
  to lose its match to the other and for two frames of two blobs. The view leaves out the
  blobs of an observation that nothing reads before it is filled again, and which of the three
  observations is which.
* `radio`. There are two controllers. With one block a calibration has three
  parts (hash, header, block), each read by a command of its own, which is
  enough to stop before, between and after each. One vibration besides `Off`
  makes a replaced request visible, as `Off` is both the end of one and a legal
  amplitude. One of the two calibrations does not parse (`BadFlash`), and the
  controller with the good one vibrates.
* `time`, samples. Clocks wrap after 32 samples instead of 2^24 or 2^32 and numbers after 8
  instead of 256; starts near the end of the range let both wrap in the run, and
  gaps of up to three lost samples (up to a whole turn of the numbers for the Vive)
  are below half a turn, which is what the code needs as well; 22 samples are
more than two turns of the numbers and, from two of the starts, pass the end of the clock.
* `hid`. Two devices are one and another whose thread gets in between. The queue drops the
  oldest report at the third (`MaxQueued` 0; in the code at the 33rd), and three reports in
  all fill it once.
* `rift_s`. Two remotes for the two places, a block of one piece and a half, one
  fault of any kind anywhere.
* `ohmd`, `steam`. The three devices of a CV1, for `steam` also a separate tracker, an
  HMD of another vendor and a null controller, in the four lists that differ in what
  `Init` decides.
* `height`. Three heights, of which one gives an offset out of range, a window of
  two seconds as in the code; five seconds of preparation and twenty of
  patience are two and seven; two runs of the script and one fault.

`CHECK_DEADLOCK FALSE` is set where the system really stops: exposures run out at
`MaxExposures` and samples at `MaxTime` (`time`), a teardown, a stop, a frame or a
destroyed context ends everything (`frames_*`, `camera`, `ohmd`, `steam`), all devices are
closed (`hid`), the script has run
its two times (`height`), a device that no camera reports may stand still (`pose`). The
other runs are checked for deadlock.

## 5. Fairness

* `frames_live`: weak fairness of each analysis thread and of the teardown once
  begun: they are threads of their own, their searches are bounded loops, and
  `sensor_lock` is held only for short sections. Cameras, and the decision to
  tear down, are not fair: frames may stop coming.
* `camera`: both threads of the stream run, and the USB host ends every transfer, at the latest
  with its time-out of a second. Strong fairness of `CallbackBegins` says that libusb
  handles every transfer that has ended and does not prefer the others for ever.
* `radio`: updates keep coming (OpenHMD's update thread never waits for the
  radio), a vibration without an answer sooner or later meets its 50 ms timeout
  or an answer (strong fairness of a check that ends the wait), and a read of a
  controller's calibration succeeds once in a while, that is, both controllers
  stay in range. The last one is an assumption about the hardware; section 7
  shows what starves the other controller without it.
* `ohmd`, `steam`: the threads run, and one that asks for the mutex again and again
  gets it: the update thread sleeps 1 ms between passes without it. The client
  need not begin anything.
* `hid`: the threads, a callback and the client that has begun a call run; strong fairness of
  `CallbackEnds` says that libusb at last calls back a transfer that was cancelled. Devices need
  not send anything, and nobody has to begin a read or a close.
* `height`: seconds pass, and driver and script run while they are running; nobody has
  to start either.
* `rift_s`: updates keep coming, the head unit answers, an HID read does not fail for
  ever, and a remote that was heard keeps reporting and is listed some time.

`time`, `frames_jpeg`, `pose`, `blobs` and the search of `camera` ask for safety only.

## 6. Proofs

TLAPS checks these for every value of the constants that the named assumptions admit; the
run of the last column shows the same definition on a small instance. Two modules hold the
proofs of several components that extend or stand next to each other. A theorem about
`[]Inv` follows from `Init => IInv`, from a lemma per action that it keeps `IInv`, and from
`IInv => Inv`.

| Module | Inductive invariant | Assumes | Theorems | Run |
|---|---|---|---|---|
| `DelaySlots_proofs` | `SlotInv`, `ClaimInv` | `SlotConstants` | `TypeCorrect`, `UseCountCorrect`, `StaleFramesHarmless`, `ReportsInOwnSlot`, `SlotsTakenOnlyIfFused`, `ClaimsSafe` | `time` |
| `PoseUpdate_proofs` | `IInv`, `AgreeInv` | `TurnsAssumption`, `KindsAssumption`, `PoseAssumption`, `TimeAssumption`; `OneCameraStands` also `OneLiar` | `Inductive`, `UnseenStands`, `OneCameraStands` | `pose` |
| `SensorFrames_proofs` | `IInv` | `PipelineConstants` | `Inductive`, `FramesSafe`, `HandOverSafe`, `Refinement` | `frames_jpeg` |
| `Camera_proofs` | `IInv`, `Gathered` | `StreamAssumption` | `TypeCorrect`, `CountedUntilFreed`, `DeliversImages` | `camera` |
| | `SearchInv` | `SearchAssumption` | `SearchInductive`, `ClaimsStand` | `camera` |
| | `TracksInv` | `TracksAssumption` | `TracksInductive`, `MatchesSafe`, `LabelsSafe`, `IdsFollow` | `blobs` |
| `RiftRadio_proofs` | `RadioInv` | `RadioConstants` | `TypeCorrect`, `ReadsOwn`, `VibratesAsAsked` | `radio` |
| `RiftS_proofs` | `IInv` | `RiftSAssumption` | `Inductive`, `SharedSafe`, `CalibrationSafe` | `rift_s` |
| `SteamDriver_proofs` | `IInv` | `ContextAssumption` | `Inductive`, `ListSafe`, `UpdatesSafe` | `ohmd` |
| | `SteamInv` | also `SteamAssumption` | `SteamInductive`, `SteamIsClient`, `RolesRight`, `PosesSafe` | `steam` |
| | `HeightInv` | `CalibrationAssumption` | `HeightInductive`, `AnswerSafe` | `height` |
| `HidReader_proofs` | `IInv` | `HidAssumption` | `Inductive`, `ReportsSafe` | `hid` |

* `SlotInv` is `TypeOK`, `UseCountExact`, `NoStaleMatch`, `ReportsOfOwnExposure` and
  `PastTimes`. A frame finds its slot again by the slot's number and by the device time of
  the exposure, so nothing but `PastTimes` keeps a late frame from the slot of a newer
  exposure: every time that a slot or a frame remembers lies in the past of the
  device's clock, strictly so once a sample has come since the last exposure. Hence a new
  exposure has a time that nobody remembers. It fails for a device in `Quiet`, and so do
  the theorems, which are about `Ticking` devices (section 7). That a slot in use is taken
  only after it was fused is a property of steps, and follows from `SlotInv` before the step.
* `ClaimInv` is about who has been told what. Every camera knows the devices of each exposure
  in the history and its frame is of one of them at most; a camera's frame that has
  reported in a slot can only be released. So a second report in a slot is another camera's.
* `PoseUpdate_proofs`. `IInv` says that the filter of an HMD nobody sees does not move, and that
  a camera which has a frame of the last exposure gets no second one. `AgreeInv` is why one camera is not enough: a candidate left by a right
  camera is the truth, and until the wrong camera has reported in a slot all reports there are
  true. Whatever the wrong camera agrees with is therefore the truth, in both ways of agreeing.
  The right cameras never disagree, so this needs no bound on them. `OneLiar` says that at
  most one camera is wrong; two that are wrong alike may well agree. What does not contradict
  the prior of an HMD's search needs no agreement, and the deviations a search starts with have
  no upper limit: `OneCameraStands` excepts the step in which a search that is vague in turn
  (in place) ends, and only for the turn (the place). A controller is held by its limits of 35
  and 60 degrees whatever its deviations are.
* `SensorFrames_proofs`. The history variable `earlier` orders frames by their capture, and the heart of
  `IInv` is that it agrees with the order of places: what was captured before is further in
  front. Next to it stand what each place demands of its buffer (a video frame, an
  observation, the marks of a first or second try) and the counts: with at most one buffer in
  or before long analysis, three observations are enough for one thread to
  compare the new one with the last while the other still has one, and the decoder never
  runs out with two frames. `Refinement` goes through the actions: each moves one buffer of
  `FrameLife`, two when an older one is thrown back, or none.
* `Camera_proofs`, stream. While the stream starts, the counter is still zero, and the transfers that ended
  already make up the difference to those submitted: `Counted` has a form for each of the
  two, and a start that fails goes from one to the other. `Gathered` says that what is
  gathered is of the camera's frame, or of the one before if nothing of that frame has arrived, in
  rising order and so with part `i` or a later one at `i`. A frame that is as long as
  it should be has therefore every part; one that an EOF bit ends early has what was gathered.
* `Camera_proofs`, search. `SearchInv` is `ClaimsHold` with what a device that was not found
  yet has: no final pose, and in the fast pass a turn to come. A claim takes only blobs that are
  free or its own, so no pose that was found before loses any, and the number of blobs counted
  in the fast pass is that of disjoint sets. `SearchAssumption`: devices are numbered from 0
  as in `rift-tracker.c`, and a pose far from its prior needs at least as many blobs as one
  near it (seven and five).
* `Camera_proofs`, labels. `LabelsRight` needs to know where each observation is
  (`PoolKept`, `LastPlaced`): in the queue, with one of the threads, or the last one; as there are three, the
  one filled next is not the last. `Paired` says that the matches are pairs at every turn of a scan,
  so that copying gives no id twice; a blob that is not copied yet has an id above all of the last
  observation (`IdsHandedOn`). `IdsOfOneLight` carries a label to the right blob when it moves by id
  from an older observation. `MutualMatched`, for `IdsFollow`: of two blobs that are closest to each
  other, the new one never claims another and nobody takes the old one from it, so it has its match
  after its turn in every scan. `NoBetter`, for `MatchesSafe`: the match of a blob of the last frame
  only ever gets closer, so what a new blob could not claim it cannot claim later, and in a scan that
  takes no match away this holds of every blob it has come to. That the scans come to an end is shown for
  small rows only (`MatchingStable`). `TracksAssumption`: places are integers, and 0 is
  neither a device nor a light.
* `RadioInv` is `TypeOK`, `ReadInv` and `HapticInv`. `ReadInv` holds what the offset into a
  calibration means: the parts before it have been read by commands of the controller that
  owns the radio. `HapticInv` needs `HapticsPending` (the radio is used for a vibration
  exactly if that controller waits for one) and `SentAsWanted` (a command on the air is the
  one last asked for, unless a newer wish waits behind it); the motor alone would not be
  inductive.
* `RiftS_proofs`. `RadioOwn`: the sequence number differs from the last one seen only by the
  answer to the command at the head of the queue. It fails once the first command of a
  session was lost, which `lostFirst` marks, and so the calibration is promised up to that or
  to a short reply only. `InPieces`: a remote has at most one command for its block in the queue,
  for the next piece, while its offset is already behind that piece. The theorems
  are about `Spec`; fairness is in `FairSpec`.
* `SteamDriver_proofs`, context. A device's `active_device_idx` is its place in the list, so none is in it
  twice, and closing one moves the others with their index; from the place that
  `ohmd_ctx_destroy` has come to on, the listed are the open ones. Between the two halves of
  `ohmd_ctx_update` the client's decision who updates a headset still stands. In a pass, what
  was updated are the headsets that the update thread is responsible for, up to its place.
* `SteamDriver_proofs`, driver. `SteamIsClient` says that each step of the driver is one of the
  context's or leaves it alone, so `IInv` holds of the context here too. `SteamInv` adds what Init
  has looked at so far and which of its devices fits each role first; that a driver object
  has an open device from its `Activate` to the end of the pose thread, which `Cleanup`
  waits for before it closes the context; and how often the offset went into each position.
  `SteamAssumption`: a configured place is in the list or unset, and no device has both
  hand flags, as the drivers of `src/` set at most one of them.
* `SteamDriver_proofs`, height. `HeightInv` ties the clock of the script to the driver's window: as
  long as nobody interferes the driver is at most a window behind, and a request is answered
  within two. A file that is whole is of a full window in which the headset was where the
  samples say. The script removes both files first, so the result it reads was published in
  its own run (`OwnAnswer`). It was measured for that run as well, unless the driver was still
  measuring for an earlier one when the run began (`late`): then it may be the answer to that.
* `HidReader_proofs`. `cancelled` is set by the last callback only, whoever runs it, and the
  device's thread leaves its drain for nothing else: an ended thread has no transfer left, and
  `hid_close` waits for that end. The queue holds consecutive reports behind the last one read;
  a gap in front of it means that it is full.

Only model-checked are `SamplesExact` (`SampleClocks`), whose steps apply folds over samples, and
what the folds and recursive operators of `Blobs` and `PoseTrials` compute (`PixelsOnce`, `MatchingStable`, `SearchExact`):
induction over data is out of reach of this prover. So is liveness under fairness: `OldestReturns`,
`TearDownEnds`, `StopReturns`, `ReadersEnd`, `RequestsSent`, `RemotesComeUp`, `UpdaterGoesOn`,
`ThreadsGoOn` and `BothReturn` rest on their runs. Modules with proofs reach no recursive operator.

## 7. Where code and documentation disagree, and what the code does not exclude

The first group can be seen with TLC: add the named definition to the
configuration as an invariant or property (with `Quiet`, `Synced`, `Jpeg` or `Vibrating`
as given) and it is violated.

* `UseCountIsFramesUsing` (`DelaySlots`, `Quiet = {1}`): the comment on `use_count`, when
  a controller sends no IMU sample between two exposures.
* `ReportsFromTwoCameras` (`DelaySlots`, `Synced = FALSE`): two reports of one camera
  count as two cameras when two of its frames match one exposure.
* `AnalysedFramesLive` (`SensorFrames`, `Jpeg = FALSE`): `rift_sensor_free` frees the
  stream's video frames (uvc.c:577-585) before the analysis threads have ended.
* `RefusedWhileReading` (`RiftRadio`): a failed hash read leaves the radio taken; when
  that controller is switched off then, the other one is refused for good.
* `GoesOnCalibrated` (`RiftRadio`): a calibration that does not parse is taken for a
  success, and a cache file cut short is never replaced.
* `OffMeansOff` (`RiftRadio`, `Vibrating = {0, 1}`): a failed "vibration off" is
  forgotten while the controller goes on.
* `EstablishedTurnStays` (`PoseUpdate`): the comment at rift-tracker.c:957 promises that
  one camera cannot replace an established orientation. It can when the search began
  before the orientation was established: the pose is compared with the older prior.
  `OneCameraCannotTurn` is therefore about searches whose prior is current.

* `EveryChoiceTried` (`PoseTrials`): the comments at correspondence_search.c:64 and at
  `generate_led_match_candidates` promise all combinations of three neighbours. With one
  left to choose, only the first candidate is taken, so that the last two of a choice are always
  next to each other: three of four choices are tried, six of ten. A hidden third neighbour, or
  one blob of clutter, can defeat a search.
* `PriorsDoNotTurnBack` (`PoseTrials`): `rift_score_is_better_pose` "Return[s] true if new_score
  is for a more likely pose than old_score". With a prior, each of two poses can be better
  than the other, and the result depends on the order of the trials.

The second group was met while reading; the models leave it out by a named
variable or describe it as it is:

* A transfer that its callback gives up between its submission and
  `active_transfers = num_transfers` is counted once more; stop then waits for ever
  (`uncounted`). One bit of frame id cannot tell a frame from the next but one.
* `strayed`: blob matching has no limit on distance, so an id and a label jump to a
  new light when another goes out. `torn`: `copy_matching_blob` runs without the lock
  under which the long thread moves labels, so an observation may get labels of two
  poses or lose some. The first pixel of an extent is not counted for its brightest, so a
  blob one pixel wide is always dropped. The flicker code is never enabled.
* `mistaken`: Rift S, Vive, WMR and Deepoon take a stamp of zero for "none"; the Rift S starts
  its stamp with -1 but tests it against 0, so its first time step is the stamp itself. PSVR
  replaces any gap that is not about a tick by one tick. The clock of a DK1 has 16 bits of
  milliseconds and its difference 32: every 65 seconds a step is of more than an hour. A Touch
  controller that restarts keeps `time_valid`; NOLO exchanges acceleration and gyro (nolo.c:62).
* `decoded`: a packet that cannot be decoded is only logged. Rift (rift.c:214-221), PSVR
  (psvr.c:74-76), Deepoon (deepoon.c:94-96), VR-Tek (vrtek.c:451-454) and WMR (wmr.c:81-83) then
  fuse the samples of the packet before a second time. For the VR-Tek, a Deepoon and a Rift
  packet of one sample no time goes by in that. The first step of a Rift packet of several, or of
  a WMR packet, is below zero and wraps, in 32 bits to more than an hour and in 64 to much more; a
  PSVR goes on by two ticks. The Vive (vive.c:126-133) handles a packet that was never initialised: what it fuses
  then is anyone's guess, and the loop over its samples need not end.
* `ohmd_ctx_destroy` closes the devices without the mutex while the update thread may be in
  one (`UpdatesLive` is stated up to then). The CV1 and its "Remote Control" entry open the same
  record: opened both, the device is twice in `active_devices`.
  `ohmd_device_getf_direct` skips the mutex for every device of "Oculus VR, Inc.", also the
  Rift S, whose `getf` has no lock.
* Controllers without positional tracking add their local offset to their position every 2 ms,
  though the comment in driver_openhmd.cpp says "Set an initial position". `device_flags` is read
  uninitialised before `Activate`. A headset that does not open is a null dereference.
* With two HID devices open, `hid_close` may wait for ever: it cancels twice (the comment in hid.c
  says "This call will fail if no transfers are pending, but that's OK"), and both fail if the
  other device's thread is in the callback, which then submits the transfer again (`Missed`). The
  result of the first submission is not looked at, with the same end. A queue is cut at 32
  reports, where the comment says 30.
* A good but not strong match of the quick pass is lost: the deep pass scores the prior again, not
  what was found, though the comment there says "re-check our pose", and then starts at the third
  neighbour. A pose that `find_one_pose` could not find leaves the last one tried in `best_pose`,
  which nobody uses.
* A camera's packet with the EOF bit ends its frame at once (uvc.c:147 and 263-288), which is right
  for a JPEG and for a frame without gaps. A grey frame that lost packets goes out short, with
  what the buffer held before in the rest of it; only without the bit is it
  dropped (`Complete`). "CV1 sensor never seems to set this bit, but others might".
* The covariance of an HMD that was not seen for a while grows without limit, and with it what
  counts as a match (rift-tracker.c:855-864): the comment at rift-tracker.c:941 lets two cameras replace
  a pose that "no longer agrees", but a vague prior agrees with whatever one camera finds (`Vague`).
  For controllers the comment at rift-tracker.c:962 names this danger and the code has limits.
* The script says "Sampling starts in 5 seconds" (calibrate-cv1-sensors.sh:143), and waits, but
  a driver that is still measuring for an earlier run does not stop when the request is gone
  (driver_openhmd.cpp:1231-1244), and may publish during the five seconds: the script takes that
  for its result (`late`).
* A height result or request that was left by an interrupted run is removed at the start of the
  next; between two runs it stays. An implausible offset leaves the result file.
* Rift S: closing calls `rift_s_hmd_enable(..., true)` and logs "Failed to disable"; the result
  of sending a radio command is not looked at (`lostFirst`); a bad JSON header is reported as a
  success; a short reply leaves a hole (`odd`).

## 8. Not modelled

* Numerics: the pose filter (`rift-kalman-6dof.c`, `ukf`), the projection of LEDs and the solution
  for a pose from four matches, sub-pixel blob centres, IMU integration. What they decide appears as a free choice,
  or as a pose that a camera finds.
* USB and HID transfers beyond those of the stream, sensor chip registers, display
  distortion, report decoding: I/O and conversion without state of their own.
* Of the drivers of other headsets everything but the Rift S and the time steps of the others:
  they decode one report at a time.
* Vendored libraries (`openvr`, `miniz`, `nxjson`), the backends of `hidapi` for other systems, debug streams,
  installation. They are more than half of the lines of the repository, which is why the map
  covers a small share of it.
* The text of a calibration: whether it parses depends on its blocks only.

## 9. Plan

1. `TrackerPipeline`: `SensorFrames`, `DelaySlots` and `PoseUpdate` composed, so that a frame's
   claim lasts exactly as long as its place in the queues, and poses go through the real slots.
2. Keep-alive and the opening of the CV1's HID devices.
