---------------------------- MODULE MCBlobTracks ----------------------------
(* BlobTracks on small scenes, and what Blobs computes on small inputs.    *)
EXTENDS BlobTracks, TLC

AllPlaces == 0 .. 2

Names == Permutations(Lights) \cup Permutations(Targets)

\* What a state is but for what nothing reads any more: the blobs of an
\* observation that is free and not the last, the places in one that is with
\* the long thread only, and which observation is which.  An observation goes
\* by its place in Held.
Held == SelectSeq(<<fast.ob, long.ob>>, LAMBDA o : o # NoObs) \o observation_q
Named(o) == IF o = NoObs THEN 0 ELSE CHOOSE k \in DOMAIN Held : Held[k] = o

InUse ==
  <<[k \in DOMAIN Held |->
       CASE Held[k] \in {last, fast.ob} -> blobs[Held[k]]
         [] Held[k] = long.ob -> [i \in DOMAIN blobs[long.ob] |->
                                    [blobs[long.ob][i] EXCEPT !.at = 0, !.v = 0]]
         [] OTHER -> <<>>],
    Named(last), next_blob_id, [fast EXCEPT !.ob = Named(@)],
    [long EXCEPT !.ob = Named(@), !.into = Named(@)], marks, strayed, torn>>

SequencesOf(S, n) == UNION {[1 .. k -> S] : k \in 0 .. n}

\* Frames of three lines of three pixels, and of three lines of four where
\* pixels are dark or bright.
SmallFrames ==
  [1 .. 3 -> [1 .. 3 -> {"dark", "faint", "bright"}]]
  \cup [1 .. 3 -> [1 .. 4 -> {"dark", "bright"}]]

PixelsOnceEverywhere == \A frame \in SmallFrames : PixelsOnceIn(frame)

\* Up to three blobs against up to three expected places, which may coincide.
StableEverywhere ==
  \A places, expected \in SequencesOf(0 .. 4, 3) : IsInjective(places) => StableIn(places, expected)

\* Every pixel above the threshold is in exactly one extent that is finished,
\* whichever extents join, and the pixels of an extent touch and are in its
\* box.
PixelsOnce == marks = 0 /\ next_blob_id = 1 => PixelsOnceEverywhere

\* However blobs take matches from each other, the scans end, each blob of the
\* last frame has one match at most, and no two blobs that are not matched
\* would both be better off together.
MatchingStable == marks = 0 /\ next_blob_id = 1 => StableEverywhere
=============================================================================
