----------------------------- MODULE SteamDriver -----------------------------
(***************************************************************************)
(* The SteamVR driver (driver_openhmd.cpp) on top of an OpenHMD context.   *)
(*                                                                         *)
(* Three threads: SteamVR's own, which calls Init, Activate, Deactivate    *)
(* and Cleanup; the pose thread, which reads and publishes the poses; and  *)
(* the update thread of the context.  The first two are the client of      *)
(* OhmdContext, at different times.  A Rift is read directly, past the     *)
(* mutex of the context (ohmd_device_getf_direct); any other device from   *)
(* the snapshot that ohmd_ctx_update leaves.                               *)
(***************************************************************************)
EXTENDS OhmdContext

CONSTANTS
  Setups,       \* the lists ohmd_ctx_probe may find, with a configuration that
                \* gives each role a place in the list, or Unset
  Unset,        \* -1: choose from the list
  MaxDrift      \* bound: local offsets counted on top of a position

VARIABLES
  list,         \* ctx->list
  config,       \* get_configvalues()
  chosen,       \* the place in the list of each role's device, or Unset
  looked,       \* the entries of the list that Init has looked at
  host,         \* SteamVR's thread: its place in Init and Cleanup
  device,       \* the open device of each driver object, None without one
  activated,    \* the driver objects with a valid m_unObjectId
  flags,        \* the driver objects whose device_flags are known
  poseExit,     \* m_poseThreadExit
  pose,         \* the pose thread: its place, the driver object whose pose
                \* it reads and the rotation it has read
  offsets,      \* local offsets in pose.vecPosition since it was last set
  published     \* the last pose given to SteamVR, and whose it is

setup == <<list, config, chosen, looked>>
steamVars == <<setup, host, device, activated, flags, poseExit, pose, offsets, published>>

Roles == {"hmd", "tracker", "left", "right"}
Controllers == {"left", "right"}
Objects == <<"hmd", "left", "right">>   \* in the order of the pose thread

None == [dev |-> Unset, class |-> "none", left |-> FALSE, right |-> FALSE,
         oculus |-> FALSE, positional |-> FALSE]

\* What the list tells of a device.
Listed(d, class, left, right, oculus, positional) ==
  [dev |-> d, class |-> class, left |-> left, right |-> right,
   oculus |-> oculus, positional |-> positional]

\* rift.c's get_device_list publishes for a CV1: the HMD, the remote control -
\* the same device under another name -, the right and the left controller.
RiftList(hmd, right, left) ==
  <<Listed(hmd, "hmd", FALSE, FALSE, TRUE, TRUE),
    Listed(hmd, "controller", FALSE, FALSE, TRUE, FALSE),
    Listed(right, "controller", FALSE, TRUE, TRUE, TRUE),
    Listed(left, "controller", TRUE, FALSE, TRUE, TRUE)>>

\* No driver makes a device both a left and a right controller, nor one that is
\* neither of the three classes; the configuration names places in the list.
ASSUME SteamAssumption ==
  /\ Unset \in Int /\ MaxDrift \in Nat \ {0}
  /\ \A s \in Setups :
       /\ s.list \in Seq([dev : Devices, class : {"hmd", "controller", "tracker"},
                          left : BOOLEAN, right : BOOLEAN,
                          oculus : BOOLEAN, positional : BOOLEAN])
       /\ \A i \in 1 .. Len(s.list) : ~(s.list[i].left /\ s.list[i].right)
       /\ Unset \notin 1 .. Len(s.list)
       /\ s.config \in [Roles -> 1 .. Len(s.list) \cup {Unset}]

-----------------------------------------------------------------------------
(* CServerDriver_OpenHMD::Init: which device plays which part.             *)

Takes(entry, role) ==
  CASE role = "hmd"     -> entry.class = "hmd"
    [] role = "tracker" -> entry.class = "tracker" /\ ~entry.left /\ ~entry.right
    [] role = "left"    -> entry.class \in {"controller", "tracker"} /\ entry.left
    [] role = "right"   -> entry.class \in {"controller", "tracker"} /\ entry.right

\* mutant: the last device that fits
Gives_Last(roles, i) ==
  LET fits == {r \in Roles : Takes(list[i], r)}
  IN  [r \in Roles |-> IF r \in fits /\ config[r] = Unset THEN i ELSE roles[r]]

\* A device takes the first role, in the order of the code, that is still to
\* be given.
Gives(roles, i) ==
  LET free == {r \in Roles : roles[r] = Unset /\ Takes(list[i], r)}
      role == IF "left" \in free THEN "left" ELSE CHOOSE r \in free : TRUE
  IN  IF free = {} THEN roles ELSE [roles EXCEPT ![role] = i]

Entry(role) == list[chosen[role]]

\* The device a pose comes from: the HMD's is that of the tracker, if open.
Source(role) == IF role = "hmd" /\ device.tracker # None THEN device.tracker ELSE device[role]

\* g_useDirectPoseReads
Direct == Source("hmd").oculus

-----------------------------------------------------------------------------
SteamInit ==
  /\ Init
  /\ \E s \in Setups : list = s.list /\ config = s.config
  /\ chosen = config /\ looked = 0
  /\ host = "choosing"
  /\ device = [r \in Roles |-> None]
  /\ activated = {} /\ flags = {}
  /\ poseExit = FALSE
  /\ pose = [at |-> "none", k |-> 1, rot |-> 0]
  /\ offsets = [r \in Controllers |-> 0]
  /\ published = [of |-> "hmd", rot |-> 0, pos |-> 0]

\* All devices of the list in turn.
InitLooks ==
  /\ host = "choosing" /\ looked < Len(list)
  /\ chosen' = Gives(chosen, looked + 1)
  /\ looked' = looked + 1
  /\ UNCHANGED vars
  /\ UNCHANGED <<list, config, host, device, activated, flags, poseExit, pose, offsets, published>>

\* Without a tracker the HMD is its own.
InitChooses ==
  /\ host = "choosing" /\ looked = Len(list)
  /\ chosen' = [chosen EXCEPT !.tracker = IF @ = Unset THEN chosen.hmd ELSE @]
  /\ host' = "hmd"
  /\ UNCHANGED vars
  /\ UNCHANGED <<list, config, looked, device, activated, flags, poseExit, pose, offsets, published>>

\* The order in which Init opens the devices.
After(role) ==
  CASE role = "hmd"     -> IF chosen.tracker = chosen.hmd THEN "left" ELSE "tracker"
    [] role = "tracker" -> "left"
    [] role = "left"    -> "right"
    [] role = "right"   -> "thread"

InitOpens(role) ==
  /\ host = role
  /\ chosen[role] # Unset
  /\ OpenDevice(Entry(role).dev, TRUE)
  /\ device' = [device EXCEPT ![role] = Entry(role)]
  /\ host' = After(role)
  /\ UNCHANGED <<setup, activated, flags, poseExit, pose, offsets, published>>

\* A controller or tracker that is not there, or does not open, gets no driver
\* object; the constructor of the HMD's goes on with a null pointer.
InitSkips(role) ==
  /\ host = role
  /\ mutex # "updater"
  /\ host' = IF role = "hmd" THEN "crashed" ELSE After(role)
  /\ UNCHANGED vars
  /\ UNCHANGED <<setup, device, activated, flags, poseExit, pose, offsets, published>>

StartPoseThread ==
  /\ host = "thread"
  /\ pose' = [pose EXCEPT !.at = "top"]
  /\ host' = "running"
  /\ UNCHANGED vars
  /\ UNCHANGED <<setup, device, activated, flags, poseExit, offsets, published>>

\* SteamVR activates a device it was told of, within TrackedDeviceAdded or at
\* any time after it.  A controller gets its initial position.
Activate(role) ==
  /\ host \notin {"crashed", "joining", "destroying"}
  /\ role \notin activated /\ device[role] # None
  /\ activated' = activated \cup {role}
  /\ flags' = flags \cup {role}
  /\ offsets' = [r \in Controllers |-> IF r = role THEN 0 ELSE offsets[r]]
  /\ UNCHANGED vars
  /\ UNCHANGED <<setup, host, device, poseExit, pose, published>>

Deactivate(role) ==
  /\ host = "running" /\ role \in activated
  /\ activated' = activated \ {role}
  /\ UNCHANGED vars
  /\ UNCHANGED <<setup, host, device, flags, poseExit, pose, offsets, published>>

\* Cleanup: end the pose thread, wait for it, delete the driver objects, then
\* destroy the context.
StopPoseThread ==
  /\ host = "running"
  /\ poseExit' = TRUE
  /\ host' = "joining"
  /\ UNCHANGED vars
  /\ UNCHANGED <<setup, device, activated, flags, pose, offsets, published>>

\* mutant: without waiting for the pose thread
CleanupDeletes_AtOnce ==
  /\ host = "joining"
  /\ device' = [r \in Roles |-> None]
  /\ activated' = {}
  /\ host' = "destroying"
  /\ UNCHANGED vars
  /\ UNCHANGED <<setup, flags, poseExit, pose, offsets, published>>

CleanupDeletes ==
  /\ host = "joining"
  /\ pose.at = "ended"
  /\ device' = [r \in Roles |-> None]
  /\ activated' = {}
  /\ host' = "destroying"
  /\ UNCHANGED vars
  /\ UNCHANGED <<setup, flags, poseExit, pose, offsets, published>>

CleanupDestroys ==
  /\ host = "destroying"
  /\ Destroy
  /\ UNCHANGED steamVars

-----------------------------------------------------------------------------
(* PoseThreadMain                                                          *)

\* The HMD's pose is published while it is activated, a controller's always.
HasPose(k) ==
  IF Objects[k] = "hmd" THEN "hmd" \in activated ELSE device[Objects[k]] # None

\* The place of the pose thread at the first object from the kth on that has
\* a pose to publish.
AtObject(k) ==
  LET rest == {j \in k .. Len(Objects) : HasPose(j)}
  IN  IF rest = {} THEN [at |-> "top", k |-> 1, rot |-> 0]
      ELSE [at |-> "rot", k |-> CHOOSE j \in rest : \A i \in rest : j <= i, rot |-> 0]

PoseThreadLoops ==
  /\ pose.at = "top"
  /\ IF poseExit THEN pose' = [pose EXCEPT !.at = "ended"] /\ UNCHANGED vars
     ELSE IF Direct THEN pose' = AtObject(1) /\ UNCHANGED vars
     ELSE pose' = [pose EXCEPT !.at = "context"] /\ CtxUpdateStarts
  /\ UNCHANGED <<setup, host, device, activated, flags, poseExit, offsets, published>>

PoseThreadUpdates ==
  /\ pose.at = "context"
  /\ CtxUpdateUpdates \/ CtxUpdateReads
  /\ UNCHANGED steamVars

PoseThreadUpdated ==
  /\ pose.at = "context" /\ client = Idle
  /\ pose' = AtObject(1)
  /\ UNCHANGED vars
  /\ UNCHANGED <<setup, host, device, activated, flags, poseExit, offsets, published>>

\* GetPoseFloat: past the mutex, what the driver has now, or under the mutex
\* what ohmd_ctx_update has left.
MayRead(e) == e.oculus \/ mutex # "updater"
Value(e, what) == IF e.oculus THEN data[Headset(e.dev)] ELSE snapshot[e.dev][what]

GetRotation ==
  /\ pose.at = "rot"
  /\ LET e == Source(Objects[pose.k])
     IN  MayRead(e) /\ pose' = [pose EXCEPT !.at = "pos", !.rot = Value(e, "rot")]
  /\ UNCHANGED vars
  /\ UNCHANGED <<setup, host, device, activated, flags, poseExit, offsets, published>>

\* GetPose of a controller: the local offset is added in place, to a position
\* that is set anew only if the device has one.  device_flags is not
\* initialised before the controller is activated.
OffsetsAfter(r, positional) ==
  IF positional THEN 1 ELSE IF offsets[r] < MaxDrift THEN offsets[r] + 1 ELSE MaxDrift

GetPosition ==
  LET r == Objects[pose.k]
      e == Source(r)
  IN  /\ pose.at = "pos" /\ MayRead(e)
      /\ IF r = "hmd" THEN UNCHANGED offsets
         ELSE \E positional \in IF r \in flags THEN {e.positional} ELSE BOOLEAN :
                offsets' = [offsets EXCEPT ![r] = OffsetsAfter(r, positional)]
      /\ published' = [of |-> r, rot |-> pose.rot, pos |-> Value(e, "pos")]
      /\ pose' = AtObject(pose.k + 1)
      /\ UNCHANGED vars
      /\ UNCHANGED <<setup, host, device, activated, flags, poseExit>>

\* mutant: the objects are published in turns
PoseThread_Hmd ==
  \/ PoseThreadLoops \/ PoseThreadUpdates \/ PoseThreadUpdated
  \/ Objects[pose.k] = "hmd" /\ (GetRotation \/ GetPosition)
  \/ /\ pose.at = "rot" /\ Objects[pose.k] # "hmd"
     /\ pose' = AtObject(pose.k + 1)
     /\ UNCHANGED vars
     /\ UNCHANGED <<setup, host, device, activated, flags, poseExit, offsets, published>>

PoseThread ==
  \/ PoseThreadLoops \/ PoseThreadUpdates \/ PoseThreadUpdated
  \/ GetRotation \/ GetPosition

-----------------------------------------------------------------------------
UpdateThread == host # "crashed" /\ Updater /\ UNCHANGED steamVars

Cleanup == CleanupDeletes \/ CleanupDestroys

SteamNext ==
  \/ InitLooks \/ InitChooses
  \/ \E r \in Roles : InitOpens(r) \/ InitSkips(r)
  \/ \E r \in ToSet(Objects) : Activate(r) \/ Deactivate(r)
  \/ StartPoseThread \/ StopPoseThread \/ Cleanup
  \/ PoseThread \/ UpdateThread

SteamSpec == SteamInit /\ [][SteamNext]_<<vars, steamVars>>

(***************************************************************************)
(* Fairness: the threads run, and SteamVR goes on with a Cleanup it has    *)
(* begun.  A thread that asks again and again gets the mutex in the end:   *)
(* the update thread sleeps between its passes.                            *)
(***************************************************************************)
SteamFairness ==
  /\ WF_<<vars, steamVars>>(UpdateThread)
  /\ WF_<<vars, steamVars>>(Cleanup)
  /\ SF_<<vars, steamVars>>(PoseThread)

SteamFairSpec == SteamSpec /\ SteamFairness

-----------------------------------------------------------------------------
SteamTypeOK ==
  /\ TypeOK
  /\ chosen \in [Roles -> 1 .. Len(list) \cup {Unset}]
  /\ looked \in 0 .. Len(list)
  /\ host \in Roles \cup {"choosing", "thread", "running", "joining", "destroying", "crashed"}
  /\ device \in [Roles -> ToSet(list) \cup {None}]
  /\ activated \subseteq ToSet(Objects) /\ flags \subseteq ToSet(Objects)
  /\ poseExit \in BOOLEAN
  /\ pose \in [at : {"none", "top", "context", "rot", "pos", "ended"},
               k : 1 .. Len(Objects), rot : 0 .. 1]
  /\ offsets \in [Controllers -> 0 .. MaxDrift]
  /\ published \in [of : ToSet(Objects), rot : 0 .. 1, pos : 0 .. 1]

\* Init's pass over the list gives each role to the first device that can play
\* it, however the roles were taken before and whatever else is in the list,
\* and leaves to the configuration what it decides.
FirstThatFits ==
  host # "choosing" =>
    \A r \in Roles :
      IF config[r] # Unset THEN chosen[r] = config[r]
      ELSE LET fits == {i \in 1 .. Len(list) : Takes(list[i], r)}
           IN  IF fits # {} THEN chosen[r] \in fits /\ \A i \in fits : chosen[r] <= i
               ELSE chosen[r] = IF r = "tracker" THEN chosen.hmd ELSE Unset

\* While the pose thread runs, the devices it reads are open: Cleanup waits for
\* it before it deletes anything.
ReadsOpenDevices ==
  pose.at \in {"rot", "pos"} =>
    LET e == Source(Objects[pose.k])
    IN  e # None /\ opened[e.dev] /\ use[Headset(e.dev)] > 0

\* A pose read through the snapshot is of one update of the device, though its
\* rotation and its position are read one after the other while the update
\* thread goes on.
OneUpdatePose ==
  device[published.of] # None /\ ~Source(published.of).oculus =>
    published.rot = published.pos

\* The pose of a controller with positional tracking has its local offset
\* exactly once, however often it is published - from the first pose after it
\* was activated.
OffsetOnce ==
  \A r \in Controllers :
    r \in flags /\ Source(r).positional => offsets[r] <= 1

\* Cleanup ends: both threads notice that they are to end, wherever they are.
CleanupEnds == host = "joining" ~> client.at = "destroyed"

\* As long as SteamVR does not stop the driver, each controller gets poses: the
\* pose thread is never kept out by the update thread.
PosesKeepComing ==
  \A r \in Controllers :
    host = "running" /\ device[r] # None ~>
      (pose.at = "pos" /\ Objects[pose.k] = r) \/ host # "running"

-----------------------------------------------------------------------------
\* A published pose is of an open device, of one update, with its offset once.
PosesRight == SteamTypeOK /\ ReadsOpenDevices /\ OneUpdatePose /\ OffsetOnce

\* The pose thread serves every controller until it is to end, and then ends.
ThreadsGoOn == CleanupEnds /\ PosesKeepComing
=============================================================================
