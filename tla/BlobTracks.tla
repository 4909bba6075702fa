------------------------------ MODULE BlobTracks ------------------------------
(***************************************************************************)
(* The identities and labels of blobs from frame to frame.  The fast       *)
(* thread of a camera turns a frame into an observation, hands each blob   *)
(* the id and the label of its match in the last observation and labels    *)
(* the blobs of a pose it finds.  The long thread labels the blobs of an   *)
(* older observation and, if its pose is accepted, moves its labels to the *)
(* last observation.  Only that move holds sensor_lock.                    *)
(*                                                                         *)
(* Each blob is of a light, which the program does not know.               *)
(***************************************************************************)
EXTENDS Blobs

CONSTANTS
  Lights,       \* what can be seen
  Places,       \* where
  Targets,      \* ids of the tracked devices
  MaxIds,       \* bound: blob ids given out
  MaxMarks      \* bound: poses that blobs are labelled for

NoObs == 0

ASSUME TracksAssumption ==
  /\ NoObs \notin Targets \cup Lights
  /\ IsFiniteSet(Lights) /\ Places \subseteq Int
  /\ MaxIds \in Nat /\ MaxMarks \in Nat

VARIABLES
  blobs,         \* the blobs of each observation
  observation_q, \* the observations that are free
  last,          \* last_observation, or NoObs
  next_blob_id,
  fast,          \* the fast thread: its place, observation, the matches so
                 \* far, the next blob to match or copy, and the pose it has
  long,          \* the long thread: its place, observation and pose
  marks,         \* poses so far
  strayed,       \* ids that a blob of another light was given
  torn           \* both threads were once at the labels of one observation

tracksVars == <<blobs, observation_q, last, next_blob_id, fast, long, marks, strayed, torn>>

Observations == 1 .. 3      \* NUM_FRAMES_HISTORY
\* A label is of a device, of the pose that gave it and for a light.
NoLabel == [dev |-> 0, mark |-> 0, light |-> 0]
NoPose == [dev |-> 0, mark |-> 0]

NoMatches == Unmatched(<<>>, <<>>)

Idle == [at |-> "idle", ob |-> NoObs, m |-> NoMatches, i |-> 1, pose |-> NoPose]
Rest == [at |-> "idle", ob |-> NoObs, into |-> NoObs, pose |-> NoPose]

TracksInit ==
  /\ blobs = [o \in Observations |-> <<>>]
  /\ observation_q = <<1, 2, 3>>
  /\ last = NoObs
  /\ next_blob_id = 1
  /\ fast = Idle /\ long = Rest
  /\ marks = 0
  /\ strayed = {} /\ torn = FALSE

-----------------------------------------------------------------------------
(* blobwatch_process                                                       *)

\* store_blob: a blob of light l at place p.
NewBlob(id, l, p) == [blob_id |-> id, light |-> l, at |-> p, v |-> 0, label |-> NoLabel]

\* What a camera can see: some of the lights, each at a place of its own, in
\* the order in which their blobs are found.
Scenes ==
  {scene \in UNION {[1 .. n -> [light : Lights, at : Places]] : n \in 0 .. Cardinality(Lights)} :
     \A i, k \in DOMAIN scene :
       i < k => scene[i].light # scene[k].light /\ scene[i].at < scene[k].at}

Observed(scene) ==
  [i \in DOMAIN scene |-> NewBlob(next_blob_id + i - 1, scene[i].light, scene[i].at)]

Where(ob) == [i \in DOMAIN ob |-> ob[i].at]
Expected(ob) == [j \in DOMAIN ob |-> ob[j].at + ob[j].v]

ProcessFrame(scene) ==
  /\ fast.at = "idle" /\ next_blob_id + Len(scene) <= MaxIds + 1
  /\ observation_q # <<>>
  /\ LET ob == Head(observation_q)
         new == Observed(scene)
     IN  /\ blobs' = [blobs EXCEPT ![ob] = new]
         /\ observation_q' = Tail(observation_q)
         /\ next_blob_id' = next_blob_id + Len(new)
         /\ IF last = NoObs
            THEN /\ last' = ob
                 /\ fast' = [Idle EXCEPT !.at = "found", !.ob = ob]
            ELSE /\ fast' = [Idle EXCEPT !.at = "match", !.ob = ob,
                               !.m = Unmatched(Where(new), Expected(blobs[last]))]
                 /\ UNCHANGED last
  /\ UNCHANGED <<long, marks, strayed>>

\* A turn of a blob in a scan.
MatchBlob ==
  /\ fast.at = "match" /\ fast.i <= Len(blobs[fast.ob])
  /\ fast' = [fast EXCEPT !.i = @ + 1,
                 !.m = Claims(@, Where(blobs[fast.ob]), Expected(blobs[last]), fast.i)]
  /\ UNCHANGED <<blobs, observation_q, last, next_blob_id, long, marks, strayed>>

\* mutant: one scan is enough
ScanEnds_Once ==
  /\ fast.at = "match" /\ fast.i > Len(blobs[fast.ob])
  /\ fast' = [fast EXCEPT !.i = 1, !.m.scan_again = FALSE, !.at = "copy"]
  /\ UNCHANGED <<blobs, observation_q, last, next_blob_id, long, marks, strayed>>

\* The end of a scan: another one if a blob has lost its match.
ScanEnds ==
  /\ fast.at = "match" /\ fast.i > Len(blobs[fast.ob])
  /\ fast' = [fast EXCEPT !.i = 1, !.m.scan_again = FALSE,
                 !.at = IF fast.m.scan_again THEN "match" ELSE "copy"]
  /\ UNCHANGED <<blobs, observation_q, last, next_blob_id, long, marks, strayed>>

\* mutant: the id is not taken over
Copied_NewId(to, from) == [to EXCEPT !.v = to.at - from.at, !.label = from.label]

\* copy_matching_blob
Copied(to, from) ==
  [to EXCEPT !.blob_id = from.blob_id, !.v = to.at - from.at, !.label = from.label]

CopyBlob ==
  /\ fast.at = "copy" /\ fast.i <= Len(blobs[fast.ob])
  /\ LET j == fast.m.closest_ob[fast.i]
         to == blobs[fast.ob][fast.i]
         from == blobs[last][j]
     IN  IF j = 0 THEN UNCHANGED <<blobs, strayed>>
         ELSE /\ blobs' = [blobs EXCEPT ![fast.ob][fast.i] = Copied(to, from)]
              /\ strayed' = IF to.light = from.light THEN strayed ELSE strayed \cup {from.blob_id}
  /\ fast' = [fast EXCEPT !.i = @ + 1]
  /\ UNCHANGED <<observation_q, last, next_blob_id, long, marks>>

ProcessEnds ==
  /\ fast.at = "copy" /\ fast.i > Len(blobs[fast.ob])
  /\ last' = fast.ob
  /\ fast' = [fast EXCEPT !.at = "found", !.i = 1, !.m = NoMatches]
  /\ UNCHANGED <<blobs, observation_q, next_blob_id, long, marks, strayed>>

-----------------------------------------------------------------------------
(* Labels of a device in an observation.                                   *)

\* rift_clear_blob_labels
Cleared(ob, dev) ==
  [i \in DOMAIN ob |-> IF ob[i].label.dev = dev THEN [ob[i] EXCEPT !.label = NoLabel] ELSE ob[i]]

\* rift_mark_matching_blobs: of the blobs without a label of another device
\* those with a place in ps match a LED.
Marked(ob, pose, ps) ==
  [i \in DOMAIN ob |->
     IF ob[i].label.dev \in {0, pose.dev} /\ ob[i].at \in ps
     THEN [ob[i] EXCEPT !.label = [dev |-> pose.dev, mark |-> pose.mark, light |-> ob[i].light]]
     ELSE ob[i]]

\* mutant: labels go by the order of the blobs
Transferred_ByIndex(new, ob, dev) ==
  [l \in DOMAIN new |->
     IF l \in DOMAIN ob /\ ob[l].label.dev = dev
     THEN [new[l] EXCEPT !.label = ob[l].label] ELSE new[l]]

\* The second half of blobwatch_update_labels: the labels of dev in ob go to
\* the blobs of the same id.
Transferred(new, ob, dev) ==
  [l \in DOMAIN new |->
     LET from == {i \in DOMAIN ob : ob[i].blob_id = new[l].blob_id /\ ob[i].label.dev = dev}
     IN  IF from = {} THEN new[l]
         ELSE [new[l] EXCEPT !.label = ob[CHOOSE i \in from : TRUE].label]]

-----------------------------------------------------------------------------
(* The fast thread: update_device_and_blobs and handle_found_pose on the   *)
(* observation it has made.                                                *)

NewPose(dev) == [dev |-> dev, mark |-> marks + 1]

FastClears(dev) ==
  /\ fast.at = "found" /\ marks < MaxMarks
  /\ blobs[fast.ob] # <<>>
  /\ blobs' = [blobs EXCEPT ![fast.ob] = Cleared(@, dev)]
  /\ fast' = [fast EXCEPT !.at = "mark", !.pose = NewPose(dev)]
  /\ marks' = marks + 1
  /\ UNCHANGED <<observation_q, last, next_blob_id, long, strayed>>

FastMarks(ps) ==
  /\ fast.at = "mark"
  /\ blobs' = [blobs EXCEPT ![fast.ob] = Marked(@, fast.pose, ps)]
  /\ fast' = [fast EXCEPT !.at = "decide"]
  /\ UNCHANGED <<observation_q, last, next_blob_id, long, marks, strayed>>

\* Accepted: this is the last observation, there is nothing to move, but the
\* lock is taken.
FastAccepted ==
  /\ fast.at = "decide" /\ long.at # "transfer"
  /\ fast' = [fast EXCEPT !.at = "found", !.pose = NoPose]
  /\ UNCHANGED <<blobs, observation_q, last, next_blob_id, long, marks, strayed>>

FastRejected ==
  /\ fast.at = "decide"
  /\ blobs' = [blobs EXCEPT ![fast.ob] = Cleared(@, fast.pose.dev)]
  /\ fast' = [fast EXCEPT !.at = "found", !.pose = NoPose]
  /\ UNCHANGED <<observation_q, last, next_blob_id, long, marks, strayed>>

\* The frame, and its observation with it, goes to the long thread or back.
FastEnds ==
  /\ fast.at = "found" /\ long.at # "transfer"
  /\ fast' = Idle
  /\ \/ /\ long.at = "idle"
        /\ long' = [Rest EXCEPT !.at = "search", !.ob = fast.ob]
        /\ UNCHANGED observation_q
     \/ /\ observation_q' = Append(observation_q, fast.ob)
        /\ UNCHANGED long
  /\ UNCHANGED <<blobs, last, next_blob_id, marks, strayed>>

-----------------------------------------------------------------------------
(* The long thread: the same on an older observation.                      *)

LongClears(dev) ==
  /\ long.at = "search" /\ marks < MaxMarks
  /\ blobs[long.ob] # <<>>
  /\ blobs' = [blobs EXCEPT ![long.ob] = Cleared(@, dev)]
  /\ long' = [long EXCEPT !.at = "mark", !.pose = NewPose(dev)]
  /\ marks' = marks + 1
  /\ UNCHANGED <<observation_q, last, next_blob_id, fast, strayed>>

LongMarks(ps) ==
  /\ long.at = "mark"
  /\ blobs' = [blobs EXCEPT ![long.ob] = Marked(@, long.pose, ps)]
  /\ long' = [long EXCEPT !.at = "decide"]
  /\ UNCHANGED <<observation_q, last, next_blob_id, fast, marks, strayed>>

LongRejected ==
  /\ long.at = "decide"
  /\ blobs' = [blobs EXCEPT ![long.ob] = Cleared(@, long.pose.dev)]
  /\ long' = [long EXCEPT !.at = "search", !.pose = NoPose]
  /\ UNCHANGED <<observation_q, last, next_blob_id, fast, marks, strayed>>

\* blobwatch_update_labels, under the lock, for an accepted pose: clear the
\* device's labels in the last observation, then move those of this one.
UpdateClears ==
  /\ long.at = "decide" /\ last # long.ob
  /\ blobs' = [blobs EXCEPT ![last] = Cleared(@, long.pose.dev)]
  /\ long' = [long EXCEPT !.at = "transfer", !.into = last]
  /\ UNCHANGED <<observation_q, last, next_blob_id, fast, marks, strayed>>

UpdateTransfers ==
  /\ long.at = "transfer"
  /\ blobs' = [blobs EXCEPT ![long.into] = Transferred(@, blobs[long.ob], long.pose.dev)]
  /\ long' = [long EXCEPT !.at = "search", !.into = NoObs, !.pose = NoPose]
  /\ UNCHANGED <<observation_q, last, next_blob_id, fast, marks, strayed>>

\* It still is the last observation: there is nothing to move.
UpdateNothing ==
  /\ long.at = "decide" /\ last = long.ob
  /\ long' = [long EXCEPT !.at = "search", !.pose = NoPose]
  /\ UNCHANGED <<blobs, observation_q, last, next_blob_id, fast, marks, strayed>>

\* release_capture_frame
LongEnds ==
  /\ long.at = "search"
  /\ observation_q' = Append(observation_q, long.ob)
  /\ long' = Rest
  /\ UNCHANGED <<blobs, last, next_blob_id, fast, marks, strayed>>

-----------------------------------------------------------------------------
\* The observation whose labels a thread reads or writes.
FastUses == CASE fast.at = "copy" -> {last}
              [] fast.at \in {"mark", "decide"} -> {fast.ob}
              [] OTHER -> {}
LongUses == CASE long.at \in {"mark", "decide"} -> {long.ob}
              [] long.at = "transfer" -> {long.ob, long.into}
              [] OTHER -> {}

Fast ==
  \/ \E scene \in Scenes : ProcessFrame(scene)
  \/ MatchBlob \/ ScanEnds \/ CopyBlob \/ ProcessEnds
  \/ \E dev \in Targets : FastClears(dev)
  \/ \E ps \in SUBSET Places : FastMarks(ps)
  \/ FastAccepted \/ FastRejected \/ FastEnds

Long ==
  \/ \E dev \in Targets : LongClears(dev)
  \/ \E ps \in SUBSET Places : LongMarks(ps)
  \/ LongRejected \/ UpdateClears \/ UpdateTransfers \/ UpdateNothing \/ LongEnds

TracksNext == (Fast \/ Long) /\ torn' = (torn \/ FastUses' \cap LongUses' # {})

TracksSpec == TracksInit /\ [][TracksNext]_tracksVars

-----------------------------------------------------------------------------
BlobLabels == {NoLabel} \cup [dev : Targets, mark : 1 .. MaxMarks, light : Lights]

TracksTypeOK ==
  /\ \A o \in Observations : \A i \in DOMAIN blobs[o] :
       /\ blobs[o][i].blob_id \in 1 .. next_blob_id - 1
       /\ blobs[o][i].at \in Places /\ blobs[o][i].light \in Lights
       /\ blobs[o][i].label \in BlobLabels
  /\ IsInjective(observation_q) /\ ToSet(observation_q) \subseteq Observations
  /\ last \in Observations \cup {NoObs}
  /\ fast.ob \in Observations \cup {NoObs} /\ long.ob \in Observations \cup {NoObs}
  /\ fast.at \in {"idle", "match", "copy", "found", "mark", "decide"}
  /\ long.at \in {"idle", "search", "mark", "decide", "transfer"}
  /\ marks \in 0 .. MaxMarks

\* Labels move from an older observation by blob id, so an id must not occur
\* twice in an observation, also while its blobs still get those of their
\* matches.
IdsUnique ==
  \A o \in Observations : \A i, k \in DOMAIN blobs[o] :
    i # k => blobs[o][i].blob_id # blobs[o][k].blob_id

\* A light that is seen in two frames in a row keeps its blob id, as long as it
\* is closer to where it was expected than any other light of the new frame,
\* and than to where any other of the last frame was: whatever other lights do,
\* also those that go out or come on.
IdsFollowLights ==
  [][fast.at = "copy" /\ fast'.at = "found" =>
       LET new == blobs[fast.ob]
           old == blobs[last]
           D(a, b) == distsq(Where(new), Expected(old), a, b)
       IN  \A i \in DOMAIN new, j \in DOMAIN old :
             /\ new[i].light = old[j].light
             /\ \A k \in DOMAIN new \ {i} : D(i, j) < D(k, j)
             /\ \A k \in DOMAIN old \ {j} : D(i, j) < D(i, k)
             => new[i].blob_id = old[j].blob_id]_fast

\* However often blobs took matches from each other, when the scans are over no
\* blob of the last frame has two matches, and there is no pair that is not
\* matched with each other although each would be better off with the other:
\* without a match, or with one that is further.
MatchesStand ==
  fast.at = "copy" =>
    LET ob == fast.m.closest_ob
        D(a, b) == distsq(Where(blobs[fast.ob]), Expected(blobs[last]), a, b)
    IN  /\ \A i, k \in DOMAIN ob : i # k /\ ob[i] = ob[k] => ob[i] = 0
        /\ \A i \in DOMAIN ob, j \in DOMAIN blobs[last] :
             ~ /\ ob[i] # j
               /\ ob[i] = 0 \/ D(i, j) < D(i, ob[i])
               /\ \A k \in DOMAIN ob : ob[k] = j => D(i, j) < D(k, j)

\* The blobs a new frame is matched with are those of the last frame: with
\* NUM_FRAMES_HISTORY observations and one frame at a time with the long
\* thread, the last observation is never the one that is filled next.
LastKept == fast.at \in {"match", "copy"} => fast.ob # last

\* However the two threads interleave, a label is on a blob of the light it was
\* given for, unless the blob has the id of another light's.
LabelOnItsLight ==
  \A o \in Observations : \A i \in DOMAIN blobs[o] :
    LET b == blobs[o][i]
    IN  b.label # NoLabel /\ b.blob_id \notin strayed => b.label.light = b.light

\* The labels of a device in the last observation are all of one pose: an older
\* pose is replaced as a whole, never mixed with a newer one - unless the two
\* threads were at the labels of one observation at once.
LabelsOfOnePose ==
  ~torn /\ last # NoObs =>
    \A i, k \in DOMAIN blobs[last] :
      LET a == blobs[last][i].label
          b == blobs[last][k].label
      IN  a # NoLabel /\ b # NoLabel /\ a.dev = b.dev => a.mark = b.mark

-----------------------------------------------------------------------------
\* Ids and labels are on the blobs of the lights they were given for.
LabelsRight == TracksTypeOK /\ IdsUnique /\ LastKept /\ LabelOnItsLight /\ LabelsOfOnePose
=============================================================================
