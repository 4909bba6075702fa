----------------------------- MODULE OhmdContext -----------------------------
(***************************************************************************)
(* The device list of an OpenHMD context (openhmd.c), its update thread,   *)
(* and the sharing of one headset by the devices it publishes (rift.c:     *)
(* find_hmd, release_hmd, update_device).                                  *)
(*                                                                         *)
(* Devices are numbered in the order of their ids within their headset,    *)
(* the lowest being the headset itself.  One client opens and closes       *)
(* devices and calls ohmd_ctx_update; the update thread updates all        *)
(* devices that were opened with automatic updates.  update_mutex excludes *)
(* them from each other; a call of the client under the mutex is one step, *)
(* since the update thread can take no step inside it.  ohmd_ctx_destroy   *)
(* closes the devices without the mutex, one step each.                    *)
(***************************************************************************)
EXTENDS Naturals, FiniteSets, SequencesExt

CONSTANTS
  Devices,      \* the devices of the list (those of a Rift: HMD, right, left)
  HeadsetOf,    \* the driver object behind a device: a Rift has one for all three
  ManualToo     \* clients may open devices without automatic updates

ASSUME ContextAssumption ==
  /\ Devices \subseteq Nat /\ IsFiniteSet(Devices)
  /\ HeadsetOf \in [Devices -> Nat]
  /\ ManualToo \in BOOLEAN

VARIABLES
  active,       \* ctx->active_devices[0 .. num_active_devices - 1]
  index,        \* device->active_device_idx
  auto,         \* device->settings.automatic_update
  opened,       \* dev_priv->opened
  use,          \* hmd->use_count of each headset, 0 when it is freed
  mutex,        \* ctx->update_mutex: "none" before it is created, "free",
                \* or "updater" while the update thread holds it
  updater,      \* the update thread: its place, loop index and the headsets
                \* it has updated in this pass
  client,       \* the client: its place and loop index
  quit,         \* ctx->update_request_quit
  data,         \* what the last update of a headset left: a bit that flips
  snapshot      \* device->position and device->rotation of ohmd_ctx_update

vars == <<active, index, auto, opened, use, mutex, updater, client, quit, data, snapshot>>

Headset(d) == HeadsetOf[d]
Headsets == {Headset(d) : d \in Devices}
Idle == [at |-> "idle", i |-> 0]

Init ==
  /\ active = <<>>
  /\ index = [d \in Devices |-> 0]
  /\ auto = [d \in Devices |-> FALSE]
  /\ opened = [d \in Devices |-> FALSE]
  /\ use = [h \in Headsets |-> 0]
  /\ mutex = "none"
  /\ updater = [at |-> "none", i |-> 0, done |-> {}]
  /\ client = Idle
  /\ quit = FALSE
  /\ data = [h \in Headsets |-> 0]
  /\ snapshot = [d \in Devices |-> [pos |-> 0, rot |-> 0]]

-----------------------------------------------------------------------------
\* find_hmd finds a headset that is open already and counts the new user;
\* open_hmd makes one with use_count 1.
Acquired(h) == [use EXCEPT ![h] = @ + 1]

\* release_hmd: the last user closes the headset and frees it.
Released(h) == [use EXCEPT ![h] = IF @ > 1 THEN @ - 1 ELSE 0]

\* The indices of the devices behind position i move down with them.
Renumbered(i) ==
  [d \in Devices |->
     IF \E j \in i + 1 .. Len(active) : active[j] = d THEN index[d] - 1 ELSE index[d]]

\* The first device with automatic updates starts the thread
\* (ohmd_set_up_update_thread).
ThreadSetUp(a) ==
  IF a /\ mutex = "none"
  THEN mutex' = "free" /\ updater' = [updater EXCEPT !.at = "idle"]
  ELSE UNCHANGED <<mutex, updater>>

\* ohmd_list_open_device_s.  A device that does not open changes nothing.
OpenDevice(d, a) ==
  /\ client = Idle /\ mutex # "updater" /\ ~quit
  /\ ~opened[d]
  /\ opened' = [opened EXCEPT ![d] = TRUE]
  /\ use' = Acquired(Headset(d))
  /\ auto' = [auto EXCEPT ![d] = a]
  /\ index' = [index EXCEPT ![d] = Len(active)]
  /\ active' = Append(active, d)
  /\ ThreadSetUp(a)
  /\ UNCHANGED <<client, quit, data, snapshot>>

\* mutant: without the mutex.
CloseDevice_Unlocked(d) ==
  /\ client = Idle /\ ~quit
  /\ opened[d]
  /\ active' = RemoveAt(active, index[d] + 1)
  /\ index' = Renumbered(index[d] + 1)
  /\ opened' = [opened EXCEPT ![d] = FALSE]
  /\ use' = Released(Headset(d))
  /\ UNCHANGED <<auto, mutex, updater, client, quit, data, snapshot>>

\* ohmd_close_device.
CloseDevice(d) ==
  /\ client = Idle /\ mutex # "updater" /\ ~quit
  /\ opened[d]
  /\ active' = RemoveAt(active, index[d] + 1)
  /\ index' = Renumbered(index[d] + 1)
  /\ opened' = [opened EXCEPT ![d] = FALSE]
  /\ use' = Released(Headset(d))
  /\ UNCHANGED <<auto, mutex, updater, client, quit, data, snapshot>>

-----------------------------------------------------------------------------
\* mutant: only the HMD goes first.
Updates_HmdFirst(d) ==
  \A e \in Devices : Headset(e) = Headset(d) /\ opened[e] /\ (\A f \in Devices : e <= f) => d = e

\* rift.c's update_device: the open device with the lowest id updates the
\* headset for all.
Updates(d) == \A e \in Devices : Headset(e) = Headset(d) /\ opened[e] => d <= e

NewData(d) == [data EXCEPT ![Headset(d)] = 1 - @]

\* ohmd_update_thread.
UpdaterLocks ==
  /\ updater.at = "idle" /\ ~quit
  /\ mutex = "free" /\ mutex' = "updater"
  /\ updater' = [at |-> "loop", i |-> 1, done |-> {}]
  /\ UNCHANGED <<active, index, auto, opened, use, client, quit, data, snapshot>>

\* mutant: a device that is not updated is not passed over.
UpdaterNext_Stays ==
  /\ updater.at = "loop" /\ updater.i <= Len(active)
  /\ LET d == active[updater.i]
     IN  updater' = IF auto[d] /\ Updates(d) THEN [updater EXCEPT !.at = "update"]
                                             ELSE updater
  /\ UNCHANGED <<active, index, auto, opened, use, mutex, client, quit, data, snapshot>>

UpdaterNext ==
  /\ updater.at = "loop" /\ updater.i <= Len(active)
  /\ LET d == active[updater.i]
     IN  updater' = IF auto[d] /\ Updates(d) THEN [updater EXCEPT !.at = "update"]
                                             ELSE [updater EXCEPT !.i = @ + 1]
  /\ UNCHANGED <<active, index, auto, opened, use, mutex, client, quit, data, snapshot>>

UpdaterUpdates ==
  /\ updater.at = "update"
  /\ LET d == active[updater.i]
     IN  /\ data' = NewData(d)
         /\ updater' = [at |-> "loop", i |-> updater.i + 1,
                        done |-> updater.done \cup {Headset(d)}]
  /\ UNCHANGED <<active, index, auto, opened, use, mutex, client, quit, snapshot>>

UpdaterUnlocks ==
  /\ updater.at = "loop" /\ updater.i > Len(active)
  /\ mutex' = "free"
  /\ updater' = [updater EXCEPT !.at = "idle"]
  /\ UNCHANGED <<active, index, auto, opened, use, client, quit, data, snapshot>>

UpdaterQuits ==
  /\ updater.at = "idle" /\ quit
  /\ updater' = [updater EXCEPT !.at = "ended"]
  /\ UNCHANGED <<active, index, auto, opened, use, mutex, client, quit, data, snapshot>>

-----------------------------------------------------------------------------
\* ohmd_ctx_update: for each device an update, if the thread does not do it,
\* and then, under the mutex, the position and the rotation.
AtDevice(i) ==
  IF i > Len(active) THEN Idle
  ELSE [at |-> IF ~auto[active[i]] /\ Updates(active[i]) THEN "update" ELSE "snapshot",
        i |-> i]

CtxUpdateStarts ==
  /\ client = Idle /\ ~quit
  /\ active # <<>>
  /\ client' = AtDevice(1)
  /\ UNCHANGED <<active, index, auto, opened, use, mutex, updater, quit, data, snapshot>>

CtxUpdateUpdates ==
  /\ client.at = "update"
  /\ data' = NewData(active[client.i])
  /\ client' = [client EXCEPT !.at = "snapshot"]
  /\ UNCHANGED <<active, index, auto, opened, use, mutex, updater, quit, snapshot>>

CtxUpdateReads ==
  /\ client.at = "snapshot" /\ mutex # "updater"
  /\ LET now == data[Headset(active[client.i])]
     IN  snapshot' = [snapshot EXCEPT ![active[client.i]] = [pos |-> now, rot |-> now]]
  /\ client' = AtDevice(client.i + 1)
  /\ UNCHANGED <<active, index, auto, opened, use, mutex, updater, quit, data>>

CtxUpdate == CtxUpdateStarts \/ CtxUpdateUpdates \/ CtxUpdateReads

-----------------------------------------------------------------------------
\* ohmd_ctx_destroy: ask the thread to end, close every device, then join the
\* thread, if there is one.
DestroyStarts ==
  /\ client = Idle /\ ~quit
  /\ quit' = TRUE
  /\ client' = [at |-> "closing", i |-> 1]
  /\ UNCHANGED <<active, index, auto, opened, use, mutex, updater, data, snapshot>>

DestroyCloses ==
  /\ client.at = "closing" /\ client.i <= Len(active)
  /\ LET d == active[client.i]
     IN  /\ opened' = [opened EXCEPT ![d] = FALSE]
         /\ use' = Released(Headset(d))
  /\ client' = [client EXCEPT !.i = @ + 1]
  /\ UNCHANGED <<active, index, auto, mutex, updater, quit, data, snapshot>>

DestroyJoins ==
  /\ client.at = "closing" /\ client.i > Len(active)
  /\ updater.at \in {"none", "ended"}
  /\ client' = [client EXCEPT !.at = "destroyed"]
  /\ UNCHANGED <<active, index, auto, opened, use, mutex, updater, quit, data, snapshot>>

Destroy == DestroyStarts \/ DestroyCloses \/ DestroyJoins
Updater == UpdaterLocks \/ UpdaterNext \/ UpdaterUpdates \/ UpdaterUnlocks \/ UpdaterQuits

Next ==
  \/ \E d \in Devices : CloseDevice(d) \/ \E a \in {TRUE, ~ManualToo} : OpenDevice(d, a)
  \/ CtxUpdate \/ Destroy \/ Updater

Spec == Init /\ [][Next]_vars

(***************************************************************************)
(* Fairness: the operating system runs the update thread, and a client     *)
(* that has begun a call goes on with it.  The mutex is a fair one only as *)
(* far as a client that asks again and again gets it in the end (SF): the  *)
(* update thread sleeps 1 ms between two passes without it.                *)
(***************************************************************************)
Fairness ==
  /\ WF_vars(Updater)
  /\ WF_vars(DestroyCloses \/ DestroyJoins)
  /\ WF_vars(CtxUpdateUpdates) /\ SF_vars(CtxUpdateReads)

FairSpec == Spec /\ Fairness

-----------------------------------------------------------------------------
TypeOK ==
  /\ active \in Seq(Devices) /\ Len(active) <= Cardinality(Devices)
  /\ index \in [Devices -> 0 .. Cardinality(Devices) - 1]
  /\ auto \in [Devices -> BOOLEAN] /\ opened \in [Devices -> BOOLEAN]
  /\ use \in [Headsets -> 0 .. Cardinality(Devices)]
  /\ mutex \in {"none", "free", "updater"}
  /\ updater \in [at : {"none", "idle", "loop", "update", "ended"},
                  i : 0 .. Cardinality(Devices) + 1, done : SUBSET Headsets]
  /\ client \in [at : {"idle", "update", "snapshot", "closing", "destroyed"},
                 i : 0 .. Cardinality(Devices) + 1]
  /\ quit \in BOOLEAN
  /\ data \in [Headsets -> 0 .. 1]
  /\ snapshot \in [Devices -> [pos : 0 .. 1, rot : 0 .. 1]]

\* Until the context is destroyed, the list holds every open device once, at
\* the place the device itself remembers, in whatever order they were opened
\* and closed: ohmd_close_device removes by that index.
ListExact ==
  ~quit =>
    /\ ToSet(active) = {d \in Devices : opened[d]}
    /\ \A i \in 1 .. Len(active) : index[active[i]] = i - 1

\* A headset lives exactly as long as one of its devices is open, so that the
\* last close frees it and no other does.
UsersCounted ==
  \A h \in Headsets :
    use[h] = Cardinality({d \in Devices : Headset(d) = h /\ opened[d]})

\* Until the context is destroyed, neither thread updates a device that has
\* left the list, or a headset that has been freed.
UpdatesLive ==
  ~quit => \A t \in {updater, client} :
    t.at = "update" => t.i \in DOMAIN active /\ use[Headset(active[t.i])] > 0

\* A headset is never updated by both threads at once (update_hmd has no lock
\* of its own): the lowest open device decides which of them it is, though
\* some of its devices are updated by the one and some by the other.
OneThreadUpdates ==
  updater.at = "update" /\ client.at = "update" =>
    Headset(active[updater.i]) # Headset(active[client.i])

\* Unless the context is being destroyed, a pass of the update thread updates
\* each headset once whose lowest device it has to update, and no headset
\* twice, whichever of its devices are open.
EachOnce ==
  ~quit =>
    /\ updater.at = "update" => Headset(active[updater.i]) \notin updater.done
    /\ updater.at = "loop" /\ updater.i > Len(active) =>
         updater.done = {Headset(d) : d \in {e \in Devices : opened[e] /\ auto[e] /\ Updates(e)}}

\* ohmd_ctx_destroy returns: the update thread sees the request and ends.
DestroyEnds == quit ~> client.at = "destroyed"

\* As long as a headset is open and its lowest device is updated by the
\* thread, updates keep coming.
KeepsUpdating ==
  \A d \in Devices :
    (opened[d] /\ auto[d] /\ Updates(d)) ~>
      (updater.at = "update" \/ ~opened[d] \/ ~Updates(d))

-----------------------------------------------------------------------------
\* The list and the users of each headset are exact, so that none is used after
\* it was freed.
ListAndUsersExact == TypeOK /\ ListExact /\ UsersCounted /\ UpdatesLive

\* In each pass each headset is updated once, by one thread.
UpdatedOnce == OneThreadUpdates /\ EachOnce

\* The update thread goes on until it is to end, and then ends.
UpdaterGoesOn == KeepsUpdating /\ DestroyEnds
=============================================================================
