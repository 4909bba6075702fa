----------------------------- MODULE PoseSearch -----------------------------
(***************************************************************************)
(* A camera frame on its way through the fast and the long analysis        *)
(* (rift-sensor-pose-search.c), in which the devices claim blobs one after *)
(* the other by writing their LED's number into them.  A pose is the set   *)
(* of blobs that it explains; a search may come upon any (which ones it    *)
(* tries: PoseTrials).                                                     *)
(***************************************************************************)
EXTENDS Integers, FiniteSets

CONSTANTS
    Devices,      \* the devices in the order of their numbers, from 0, the HMD
    Blobs,        \* the blobs of the frame
    MinMatched,   \* blobs a pose must explain, 5
    MinUnaided    \* blobs a pose far from the prior must explain, 7

ASSUME SearchAssumption ==
    /\ IsFiniteSet(Devices) /\ Devices # {} /\ Devices = 0 .. Cardinality(Devices) - 1
    /\ IsFiniteSet(Blobs)
    /\ MinMatched \in Nat /\ MinUnaided \in Nat /\ MinMatched <= MinUnaided

VARIABLES
    label,        \* per blob the device its led_id names, or None
    brought,      \* history: the blobs with the label the frame came with
    haveCameraPose,  \* have_camera_pose
    level,        \* the HMD's gravity error is small enough to place the camera
    placed,       \* the camera was placed before this frame
    turn,         \* [phase, dev]: whose turn it is in which pass, or the end
    slot,         \* per device: the frame still holds a delay slot of it
    score,        \* per device the flags of dev_state->score
    found,        \* per device: found_device_pose
    final,        \* per found device the blobs its final pose was scored with
    missing,      \* have_unfound_devices
    used          \* used_blobs, the return values of the fast pass

searchVars == <<label, brought, haveCameraPose, level, placed, turn, slot, score, found,
                final, missing, used>>

-----------------------------------------------------------------------------
None == -1      \* LED_INVALID_ID

Labels == Devices \cup {None}
Free(d) == {b \in Blobs : label[b] \in {None, d}}
LabelledBy(d) == {b \in Blobs : label[b] = d}

(***************************************************************************)
(* rift_evaluate_pose_with_prior: the flags that a pose which explains n   *)
(* blobs of its own may get, near the prior or far from it, with a tight   *)
(* fit or a loose one.                                                     *)
(***************************************************************************)
Flags(n, prior, must) ==
    {"none"} \cup
    (IF n >= MinMatched /\ prior THEN {"good", "strong"} ELSE {}) \cup
    (IF n >= MinUnaided /\ ~(prior /\ must)
     THEN IF prior THEN {"good"} ELSE {"good", "strong"} ELSE {})

IsMatch(f) == f \in {"good", "strong"}
Without(d) == [b \in Blobs |-> IF label[b] = d THEN None ELSE label[b]]

\* The next device of the pass, or the next pass.  The long analysis follows
\* when a device was not found and enough blobs are left; missing' and used'
\* are set before.
Proceed ==
    turn' = IF turn.dev + 1 \in Devices THEN [turn EXCEPT !.dev = @ + 1]
            ELSE [dev |-> 0,
                  phase |-> CASE turn.phase = "fast" /\ missing'
                                 /\ Cardinality(Blobs) - used' >= MinMatched -> "quick"
                              [] turn.phase = "quick" -> "deep"
                              [] OTHER -> "end"]

SearchInit ==
    /\ label \in [Blobs -> Labels] /\ brought = Blobs
    /\ haveCameraPose \in BOOLEAN /\ placed = haveCameraPose
    /\ level \in BOOLEAN /\ (haveCameraPose => level)
    \* without a camera pose the fast pass sends the frame on
    /\ turn = [phase |-> IF haveCameraPose THEN "fast" ELSE "quick", dev |-> 0]
    /\ slot = [d \in Devices |-> TRUE]
    /\ score = [d \in Devices |-> "none"]
    /\ found = [d \in Devices |-> FALSE]
    /\ final = [d \in Devices |-> {}]
    /\ missing = FALSE
    /\ used = 0

\* A device that has no slot for this frame, or has just lost it to a newer
\* exposure, or (in the long analysis) was found already.
SkipDevice ==
    /\ turn.phase # "end"
    /\ slot' = IF turn.phase # "fast" /\ found[turn.dev] THEN slot
               ELSE [slot EXCEPT ![turn.dev] = FALSE]
    /\ UNCHANGED <<label, brought, haveCameraPose, level, placed, score, found, final,
                   missing, used>>
    /\ Proceed

(***************************************************************************)
(* update_device_and_blobs: the device gives up its blobs, takes those the *)
(* pose explains and those the refined pose explains, and is scored again. *)
(* A failed score, or the fusion's refusal (handle_found_pose), gives the  *)
(* labels up; the fusion's answer of either kind releases the slot.        *)
(***************************************************************************)
ClaimOf(d, own, mine, f, accepted) ==
    LET knows == haveCameraPose \/ (d = 0 /\ level /\ IsMatch(f))
        keeps == IsMatch(f) /\ (accepted \/ ~knows)
        finds == IsMatch(f) /\ knows /\ accepted
    IN  /\ label' = [b \in Blobs |-> IF keeps /\ b \in own THEN d ELSE Without(d)[b]]
        /\ score' = [score EXCEPT ![d] = f]
        /\ haveCameraPose' = knows
        /\ slot' = [slot EXCEPT ![d] = ~(IsMatch(f) /\ knows)]
        /\ found' = [found EXCEPT ![d] = finds]
        /\ final' = [final EXCEPT ![d] = IF finds THEN mine ELSE {}]
        /\ used' = IF turn.phase = "fast" /\ finds
                   THEN used + Cardinality(mine) ELSE used
        /\ brought' = {b \in brought : label'[b] = label[b]}
        /\ UNCHANGED <<level, placed>>

\* mutant: the labels of another device are taken as well
Claim_Others(d) ==
    \E own \in {o \in SUBSET Blobs : Cardinality(o) >= MinMatched} : \E mine \in SUBSET own :
    \E f \in Flags(Cardinality(mine), haveCameraPose, FALSE), accepted \in BOOLEAN :
      ClaimOf(d, own, mine, f, accepted)

Claim(d) ==
    \E own \in {o \in SUBSET Free(d) : Cardinality(o) >= MinMatched} : \E mine \in SUBSET own :
    \E f \in Flags(Cardinality(mine), haveCameraPose, FALSE), accepted \in BOOLEAN :
      ClaimOf(d, own, mine, f, accepted)

NoClaim(d) ==
    UNCHANGED <<label, brought, haveCameraPose, level, placed, slot, found, final, used>>

(***************************************************************************)
(* rift_pose_finder_process_blobs_fast: the prior itself is scored, and    *)
(* when it does not fit, or not with the labels, a pose is estimated from  *)
(* the labels if there are enough of them.                                 *)
(***************************************************************************)
FastDevice ==
    LET d == turn.dev
        priors == Flags(Cardinality(Free(d)), TRUE, TRUE)
        estimated == Cardinality(LabelledBy(d)) >= MinMatched
    IN  /\ turn.phase = "fast"
        /\ slot[d]
        /\ \E f \in priors, ids \in BOOLEAN :
           \E g \in IF ~(IsMatch(f) /\ ids) /\ estimated THEN priors ELSE {f} :
             IF IsMatch(g) THEN Claim(d)
             ELSE NoClaim(d) /\ score' = [score EXCEPT ![d] = "none"]
        /\ missing' = (missing \/ ~found'[d])
        /\ Proceed

(***************************************************************************)
(* rift_pose_finder_process_blobs_long, after search_pose_for_model.  The  *)
(* first pass takes strong matches only, and its other matches are not     *)
(* kept: the second pass searches again.                                   *)
(***************************************************************************)
LongDevice ==
    LET d == turn.dev
    IN  /\ turn.phase \in {"quick", "deep"}
        /\ slot[d] /\ ~found[d]
        /\ \E f \in Flags(Cardinality(Free(d)), haveCameraPose, FALSE) :
             IF IsMatch(f) /\ (turn.phase = "quick" => f = "strong")
             THEN Claim(d)
             ELSE NoClaim(d) /\ score' = [score EXCEPT ![d] = f]
        /\ UNCHANGED missing
        /\ Proceed

SearchNext == SkipDevice \/ FastDevice \/ LongDevice

SearchSpec == SearchInit /\ [][SearchNext]_searchVars

-----------------------------------------------------------------------------
SearchTypeOK ==
    /\ label \in [Blobs -> Labels] /\ brought \subseteq Blobs
    /\ {haveCameraPose, level, placed, missing} \subseteq BOOLEAN
    /\ turn \in [phase : {"fast", "quick", "deep", "end"}, dev : Devices]
    /\ {slot, found} \subseteq [Devices -> BOOLEAN]
    /\ score \in [Devices -> {"none", "good", "strong"}]
    /\ final \in [Devices -> SUBSET Blobs]
    /\ used \in Nat

\* A device that was found stands on blobs that still bear its name, enough
\* for a match, whatever was searched for after it: final_cam_pose, the
\* score handed to the fusion and the labels are about the same blobs.
FoundStands ==
    \A d \in Devices : found[d] =>
        /\ IsMatch(score[d])
        /\ Cardinality(final[d]) >= MinMatched
        /\ final[d] \subseteq LabelledBy(d)

\* A device that was not found bears no label but those the frame brought,
\* unless the camera had no place yet: a failed attempt leaves nothing.
LabelsEarned ==
    \A b \in Blobs :
        \/ label[b] = None \/ b \in brought
        \/ found[label[b]] \/ ~placed

\* The fast pass counts a blob once: what it takes to be left for the long
\* analysis are the blobs that no found device was scored with.
LeftExact ==
    turn.phase = "fast" => used = Cardinality(UNION {final[d] : d \in Devices})

ClaimsHold == SearchTypeOK /\ FoundStands /\ LabelsEarned /\ LeftExact
=============================================================================
