----------------------------- MODULE PoseTrials -----------------------------
(***************************************************************************)
(* The search for a device among the blobs of a camera frame: which LEDs   *)
(* correspondence_search.c tries against which blobs, and which of the     *)
(* poses it meets it keeps.                                                *)
(***************************************************************************)
EXTENDS Integers, FiniteSets, Sequences, SequencesExt, FiniteSetsExt

\* LED_INVALID_ID: a blob that no device has labelled.
Unlabelled == -1

-----------------------------------------------------------------------------
(***************************************************************************)
(* select_k_leds_from_n and select_k_blobs_from_n: both take the first     *)
(* candidate and k - 1 of the rest, then leave it and take k of the rest.  *)
(* When one is left to choose they take the first and try no other.  (A    *)
(* search that may stop at a strong match leaves out the rest.)            *)
(***************************************************************************)
RECURSIVE Selections(_, _)
Selections(candidates, k) ==
    IF k = 1 THEN <<<<candidates[1]>>>>
    ELSE LET rest == Tail(candidates)
             with == Selections(rest, k - 1)
         IN  [i \in DOMAIN with |-> <<candidates[1]>> \o with[i]]
             \o IF Len(candidates) > k THEN Selections(rest, k) ELSE <<>>

\* the search depths of search_pose_for_model
Depths(flags) ==
    LET deep == "deep" \in flags \/ "shallow" \notin flags
    IN  [blob |-> IF deep THEN 5 ELSE 4,
         minLed |-> IF "shallow" \in flags THEN 1 ELSE 3,
         maxLed |-> IF deep THEN 8 ELSE 4]

\* generate_led_match_candidates: each choice of three neighbours as it is
\* and with the first two exchanged, behind the anchor
\* mutant: the list starts one neighbour late
LedTrials_Late(led, neighbours, d) ==
    LET upto == IF d.maxLed < Len(neighbours) THEN d.maxLed ELSE Len(neighbours)
        near == SubSeq(neighbours, d.minLed + 1, upto)
    IN  IF Len(near) < 3 THEN {}
        ELSE UNION {{<<led, c[1], c[2], c[3]>>, <<led, c[2], c[1], c[3]>>} :
                       c \in ToSet(Selections(near, 3))}

LedTrials(led, neighbours, d) ==
    LET upto == IF d.maxLed < Len(neighbours) THEN d.maxLed ELSE Len(neighbours)
        near == SubSeq(neighbours, d.minLed, upto)
    IN  IF Len(near) < 3 THEN {}
        ELSE UNION {{<<led, c[1], c[2], c[3]>>, <<led, c[2], c[1], c[3]>>} :
                       c \in ToSet(Selections(near, 3))}

\* check_leds_against_anchor
BlobTrials(anchor, neighbours, d) ==
    LET near == SubSeq(neighbours, 1,
                       IF d.blob < Len(neighbours) THEN d.blob ELSE Len(neighbours))
    IN  IF Len(near) < 3 THEN {}
        ELSE {<<anchor>> \o c : c \in ToSet(Selections(near, 3))}

\* compare_leds and compare_blobs_distance, on a line
Distance(x, y) == IF x > y THEN x - y ELSE y - x
Nearest(anchor, S) ==
    SetToSortSeq(S \ {anchor}, LAMBDA x, y : Distance(x, anchor) < Distance(y, anchor))

\* led_search_candidate_new: without the LEDs that look another way, here the
\* ends of the line
LedNeighbours(led, leds) == Nearest(led, {x \in leds : Distance(x, led) < 20})

\* the filter of search_pose_for_model: at most five neighbours that are
\* unknown or the model's own, and none for the blob of another
BlobNeighbours(b, S, owner, dev, all) ==
    LET mine(x) == all \/ owner[x] \in {Unlabelled, dev}
        near == SelectSeq(Nearest(b, S), mine)
    IN  IF mine(b) THEN SubSeq(near, 1, IF Len(near) < 5 THEN Len(near) ELSE 5)
        ELSE <<>>

\* search_pose_for_model tries all of these fours of LEDs against all of these
\* fours of blobs
TriedLeds(leds, flags) ==
    UNION {LedTrials(x, LedNeighbours(x, leds), Depths(flags)) : x \in leds}
TriedBlobs(S, owner, dev, all, flags) ==
    UNION {BlobTrials(x, BlobNeighbours(x, S, owner, dev, all), Depths(flags)) : x \in S}

(***************************************************************************)
(* rift_score_is_better_pose.  A score has flags, the number of matched    *)
(* blobs, the sum of their errors, and its angle to the prior.             *)
(***************************************************************************)
IsGood(s) == s.flags \in {"good", "strong"}
\* mutant: a pose with more blobs is better, however well they fit
Better_MoreBlobs(old, new) ==
    \/ ~IsGood(old) /\ IsGood(new)
    \/ old.matched < new.matched
    \/ old.matched = new.matched /\ new.error < old.error

Better(old, new) ==
    LET closer == new.error * old.matched < old.error * new.matched
        aboutAsClose == 10 * new.error * old.matched < 11 * old.error * new.matched
    IN  /\ old.flags = "strong" => new.flags = "strong"
        /\ \/ ~IsGood(old) /\ IsGood(new)
           \/ old.matched < new.matched /\ closer
           \/ old.matched + 1 < new.matched /\ aboutAsClose
           \/ old.matched = new.matched /\ new.error < old.error
           \/ old.prior /\ new.prior /\ new.angle < old.angle

\* what correspondence_search_project_pose has kept after some poses
NoScore == [flags |-> "none", matched |-> 0, error |-> 0, angle |-> 0, prior |-> FALSE]
Kept(poses) ==
    FoldLeft(LAMBDA best, s : IF IsGood(s) /\ Better(best, s) THEN s ELSE best,
             NoScore, poses)

-----------------------------------------------------------------------------
\* The recursion takes each choice of three whose last two are next to each
\* other, once; and a search of both depths tries all that a shallow and a
\* deep one try.
Row(n) == [i \in 1 .. n |-> i]
SelectionsExact ==
    \A n \in 3 .. 8 :
        LET s == Selections(Row(n), 3)
        IN  /\ ToSet(s) = {c \in [1 .. 3 -> 1 .. n] : c[1] < c[2] /\ c[3] = c[2] + 1}
            /\ Cardinality(ToSet(s)) = Len(s)
            /\ \A one \in {"shallow", "deep"} :
                  LedTrials(0, Row(n), Depths({one}))
                     \subseteq LedTrials(0, Row(n), Depths({"shallow", "deep"}))

\* The comments on select_k_leds_from_n and generate_led_match_candidates
\* promise all choices of three; from four neighbours on this does not hold.
EveryChoiceTried ==
    \A n \in 3 .. 8 : \A c \in [1 .. 3 -> 1 .. n] :
        c[1] < c[2] /\ c[2] < c[3] => c \in ToSet(Selections(Row(n), 3))

(***************************************************************************)
(* Scenes on a line: six LEDs, of which some are seen, each as a blob at   *)
(* its own place or with two of them seen in the other order; one blob may *)
(* have been given to another device.                                      *)
(***************************************************************************)
Leds == {0, 1, 3, 7, 12, 20}
Images == {[x \in Leds |-> x],
           [x \in Leds |-> CASE x = 0 -> 1 [] x = 1 -> 0 [] OTHER -> x]}

\* When the three blobs nearest to the image of an LED, among those the device
\* may use, are the images of its three nearest neighbours, two of them in
\* either order, then any search that begins with the nearest neighbours tries
\* these four together; and no search for one device uses the blob of another,
\* unless it may use all.
SeenIsTried ==
    \A seen \in SUBSET Leds, image \in Images, all \in BOOLEAN,
       flags \in {{"shallow"}, {"shallow", "deep"}}, other \in Leds \cup {Unlabelled} :
      LET S == {image[x] : x \in seen}
          owner == [b \in S |-> IF b = other THEN 1 ELSE Unlabelled]
          leds == TriedLeds(Leds, flags)
          blobs == TriedBlobs(S, owner, 0, all, flags)
          imaged(t) == [i \in 1 .. 4 |-> image[t[i]]]
      IN  /\ \A l \in seen :
                LET n == SubSeq(LedNeighbours(l, Leds), 1, 3)
                    b == BlobNeighbours(image[l], S, owner, 0, all)
                IN  /\ Len(b) >= 3
                    /\ {b[1], b[2]} = {image[n[1]], image[n[2]]}
                    /\ b[3] = image[n[3]]
                    => \E t \in leds : t[1] = l /\ imaged(t) \in blobs
          /\ ~all => \A t \in blobs : \A i \in 1 .. 4 : t[i] # other

\* A pose that is kept is good if any is, a strong one gives way to strong
\* ones only, and without a prior no pose that was replaced can come back: the
\* outcome does not go round in circles with the order of the trials.
Scores(prior) ==
    {s \in [flags : {"none", "good", "strong"}, matched : 5 .. 7, error : {5, 7, 9, 12},
            angle : IF prior THEN {0, 1} ELSE {0}, prior : {prior}] :
        /\ s.flags = "strong" => 2 * s.error < 3 * s.matched
        /\ s.flags = "good" => 2 * s.error >= 3 * s.matched
        /\ s.flags = "none" => s.error = 12}

NoTurningBack(prior) ==
    \A a, b, c \in {s \in Scores(prior) : IsGood(s)} :
        Better(a, b) /\ (b = c \/ Better(b, c)) => ~Better(c, a)

BestKept ==
    /\ \A prior \in BOOLEAN : \A a, b, c \in Scores(prior) :
          LET two == Kept(<<a, b>>)
              three == Kept(<<a, b, c>>)
          IN  /\ IsGood(three) <=> IsGood(a) \/ IsGood(b) \/ IsGood(c)
              /\ two.flags = "strong" => three.flags = "strong"
    /\ NoTurningBack(FALSE)

\* rift_score_is_better_pose, "Return true if new_score is for a more likely
\* pose than old_score": with a prior, each of two poses may be more likely.
PriorsDoNotTurnBack == NoTurningBack(TRUE)
=============================================================================
