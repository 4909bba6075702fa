-------------------------------- MODULE Blobs --------------------------------
(***************************************************************************)
(* What a camera frame is made into (rift-sensor-blobwatch.c): bright      *)
(* pixels into extents and extents into blobs, line by line, and the blobs *)
(* of a frame paired with those of the frame before.                       *)
(*                                                                         *)
(* Pixels are dark, faint or bright: at most the threshold of the          *)
(* extents, above it, or at least BLOB_THRESHOLD_MIN.  The area of an      *)
(* extent is the set of its pixels.  Places of blobs are integers on a     *)
(* line.                                                                   *)
(***************************************************************************)
EXTENDS Integers, FiniteSets, SequencesExt

CONSTANTS
  MaxExtents,   \* MAX_EXTENTS_PER_LINE (30)
  MaxSize,      \* the largest blob that is kept, in pixels (35)
  MaxBlobs      \* MAX_BLOBS_PER_FRAME (100)

ASSUME BlobsAssumption ==
  MaxExtents \in Nat \ {0} /\ MaxSize \in Nat /\ MaxBlobs \in Nat \ {0}

-----------------------------------------------------------------------------
(* process_scanline: a line is a sequence of pixels.                       *)

\* The contiguous ranges of pixels that are not dark, the first ones only if
\* there are too many.
Lit(line, x) == x \in DOMAIN line /\ line[x] # "dark"
Ranges(line) ==
  LET starts == {x \in DOMAIN line : Lit(line, x) /\ ~Lit(line, x - 1)}
      EndOf(s) == CHOOSE e \in s .. Len(line) : ~Lit(line, e + 1) /\ \A x \in s .. e : Lit(line, x)
      sorted == SetToSortSeq(starts, <)
  IN  [i \in 1 .. (IF Len(sorted) < MaxExtents THEN Len(sorted) ELSE MaxExtents) |->
         [start |-> sorted[i], end |-> EndOf(sorted[i])]]

Smaller(a, b) == IF a < b THEN a ELSE b
Larger(a, b) == IF a > b THEN a ELSE b

\* A new extent.  Its brightest pixel is looked for from the second one on.
Extent(line, y, r) ==
  [start |-> r.start, end |-> r.end, top |-> y, left |-> r.start, right |-> r.end,
   area |-> {<<x, y>> : x \in r.start .. r.end},
   max_pixel |-> IF \E x \in r.start + 1 .. r.end : line[x] = "bright" THEN "bright" ELSE "faint"]

\* An extent that goes on with `above`, an extent of the line above.
Inherits(e, above) ==
  [e EXCEPT !.top = above.top, !.left = Smaller(e.start, above.left),
            !.right = Larger(e.end, above.right), !.area = @ \cup above.area,
            !.max_pixel = IF above.max_pixel = "bright" THEN "bright" ELSE @]

\* mutant: an extent above is left in place for the next one to inherit
Joined_Kept(s, prev, line, y, r) ==
  LET c == r.start + r.end
      next == s.le + Cardinality({k \in s.le .. Len(prev) : 2 * prev[k].end < c})
      own == Extent(line, y, r)
  IN  IF next <= Len(prev) /\ 2 * prev[next].start <= c
      THEN [le |-> next, done |-> s.done \o SubSeq(prev, s.le, next - 1),
            here |-> Append(s.here, Inherits(own, prev[next]))]
      ELSE [le |-> next, done |-> s.done \o SubSeq(prev, s.le, next - 1),
            here |-> Append(s.here, own)]

\* The extents above that end before the middle of the range r are the
\* bottoms of finished blobs; the next one, if the middle is over it, goes on.
Joined(s, prev, line, y, r) ==
  LET c == r.start + r.end
      next == s.le + Cardinality({k \in s.le .. Len(prev) : 2 * prev[k].end < c})
      own == Extent(line, y, r)
      done == s.done \o SubSeq(prev, s.le, next - 1)
  IN  IF next <= Len(prev) /\ 2 * prev[next].start <= c
      THEN [le |-> next + 1, done |-> done, here |-> Append(s.here, Inherits(own, prev[next]))]
      ELSE [le |-> next, done |-> done, here |-> Append(s.here, own)]

\* What a line makes of the extents of the line above: those that are finished
\* and its own.
Scanline(prev, line, y) ==
  LET s == FoldLeft(LAMBDA t, r : Joined(t, prev, line, y, r),
                    [le |-> 1, done |-> <<>>, here |-> <<>>], Ranges(line))
  IN  [done |-> s.done \o SubSeq(prev, s.le, Len(prev)), here |-> s.here]

\* process_frame: the finished extents in the order in which they finish, each
\* with the line that finished it.
Finished(frame) ==
  LET Next(t, y) ==
        LET s == Scanline(t.here, frame[y], y)
            At(es) == [i \in DOMAIN es |-> [extent |-> es[i], y |-> y]]
        IN  [here |-> s.here,
             all |-> t.all \o At(s.done) \o (IF y = Len(frame) THEN At(s.here) ELSE <<>>)]
  IN  FoldLeft(Next, [here |-> <<>>, all |-> <<>>], [y \in 1 .. Len(frame) |-> y]).all

\* extent_to_blobs
IsBlob(f) ==
  /\ f.extent.max_pixel = "bright"
  /\ ~(f.extent.top = f.y /\ f.extent.left = f.extent.right)
  /\ f.y - f.extent.top <= MaxSize /\ f.extent.right - f.extent.left <= MaxSize

Extracted(frame) ==
  LET kept == SelectSeq(Finished(frame), IsBlob)
  IN  SubSeq(kept, 1, Smaller(Len(kept), MaxBlobs))

-----------------------------------------------------------------------------
(* blobwatch_process: places[i] of the blobs of this frame against the     *)
(* places expected of those of the last.                                   *)

distsq(places, expected, i, j) == (places[i] - expected[j]) * (places[i] - expected[j])

\* The blobs of the last frame that the ith may claim: those nobody has
\* claimed from nearer or as near.
Claimable(m, places, expected, i) ==
  {j \in DOMAIN expected :
     m.closest_last_ob[j] = 0 \/ m.closest_last_ob_distsq[j] > distsq(places, expected, i, j)}

\* The closest of them, the first if several are as close.
Closest(js, places, expected, i) ==
  CHOOSE j \in js : \A k \in js :
    \/ distsq(places, expected, i, j) < distsq(places, expected, i, k)
    \/ distsq(places, expected, i, j) = distsq(places, expected, i, k) /\ j <= k

\* mutant: the blob that had it keeps believing so
Claims_Shared(m, places, expected, i) ==
  LET js == Claimable(m, places, expected, i)
      j == Closest(js, places, expected, i)
  IN  IF m.closest_ob[i] # 0 \/ js = {} THEN m
      ELSE [closest_ob |-> [m.closest_ob EXCEPT ![i] = j],
            closest_last_ob |-> [m.closest_last_ob EXCEPT ![j] = i],
            closest_last_ob_distsq |->
              [m.closest_last_ob_distsq EXCEPT ![j] = distsq(places, expected, i, j)],
            scan_again |-> m.scan_again]

\* A blob without a match claims the closest it may, from the blob that had it.
Claims(m, places, expected, i) ==
  LET js == Claimable(m, places, expected, i)
      j == Closest(js, places, expected, i)
      usurped == m.closest_last_ob[j]
  IN  IF m.closest_ob[i] # 0 \/ js = {} THEN m
      ELSE [closest_ob |-> [k \in DOMAIN places |-> IF k = i THEN j
                              ELSE IF k = usurped THEN 0 ELSE m.closest_ob[k]],
            closest_last_ob |-> [m.closest_last_ob EXCEPT ![j] = i],
            closest_last_ob_distsq |->
              [m.closest_last_ob_distsq EXCEPT ![j] = distsq(places, expected, i, j)],
            scan_again |-> m.scan_again \/ usurped # 0]

\* All blobs in turn.
Scan(m, places, expected) ==
  FoldLeft(LAMBDA t, i : Claims(t, places, expected, i),
           [m EXCEPT !.scan_again = FALSE], [i \in DOMAIN places |-> i])

\* Before the first scan; that there is one is not said.
Unmatched(places, expected) ==
  [closest_ob |-> [i \in DOMAIN places |-> 0],
   closest_last_ob |-> [j \in DOMAIN expected |-> 0],
   closest_last_ob_distsq |-> [j \in DOMAIN expected |-> 1000000],
   scan_again |-> FALSE]

\* The scans until one takes nothing away from another blob.  A bound on their
\* number stands for the loop; StableIn says that it is enough.
Scans(places, expected) ==
  LET bound == Len(places) * Len(expected) + 1
      none == [Unmatched(places, expected) EXCEPT !.scan_again = TRUE]
  IN  FoldLeft(LAMBDA m, n : IF m.scan_again THEN Scan(m, places, expected) ELSE m,
               none, [n \in 1 .. bound |-> n])

-----------------------------------------------------------------------------
(* Reference definitions.                                                  *)

\* A set of pixels that touch: a range in each line, from the first to the
\* last, and each range over a part of the next.
RowOf(pixels, y) == {p[1] : p \in {q \in pixels : q[2] = y}}
IsRange(xs) == \A a, b \in xs : a .. b \subseteq xs
Connected(pixels) ==
  LET ys == {p[2] : p \in pixels}
  IN  /\ IsRange(ys)
      /\ \A y \in ys : IsRange(RowOf(pixels, y))
      /\ \A y \in ys : y + 1 \in ys => RowOf(pixels, y) \cap RowOf(pixels, y + 1) # {}

\* The pixels of the ranges that are looked at.
Seen(frame) ==
  UNION {UNION {{<<x, y>> : x \in r.start .. r.end} : r \in ToSet(Ranges(frame[y]))} :
           y \in DOMAIN frame}

\* Each pixel is in exactly one finished extent, and an extent is of pixels
\* that touch, in its box.
PixelsOnceIn(frame) ==
  LET fs == Finished(frame)
  IN  /\ UNION {fs[i].extent.area : i \in DOMAIN fs} = Seen(frame)
      /\ \A i, k \in DOMAIN fs : i # k => fs[i].extent.area \cap fs[k].extent.area = {}
      /\ \A i \in DOMAIN fs :
           LET e == fs[i].extent
           IN  /\ Connected(e.area)
               /\ \A p \in e.area : p[1] \in e.left .. e.right /\ p[2] \in e.top .. fs[i].y

\* The scans come to an end; no blob of the last frame has two matches; and
\* there is no pair that is not matched with each other although each would be
\* better off with the other: without a match, or with one that is further.
StableIn(places, expected) ==
  LET m == Scans(places, expected)
      ob == m.closest_ob
      D(i, j) == distsq(places, expected, i, j)
      partners(j) == {i \in DOMAIN places : ob[i] = j}
  IN  /\ ~m.scan_again
      /\ \A j \in DOMAIN expected : Cardinality(partners(j)) <= 1
      /\ \A i \in DOMAIN places, j \in DOMAIN expected :
           ~ /\ ob[i] # j
             /\ ob[i] = 0 \/ D(i, j) < D(i, ob[i])
             /\ \A k \in partners(j) : D(i, j) < D(k, j)
=============================================================================
