------------------------------ MODULE MCCamera ------------------------------
(***************************************************************************)
(* What a camera delivers, from USB packets to frames (UvcStream), and the *)
(* search for the devices in one of its frames (PoseSearch, PoseTrials).   *)
(* A behaviour is one of either.                                           *)
(***************************************************************************)
EXTENDS UvcStream, PoseSearch

CONSTANTS NumDevices, NumBlobs

VARIABLE subject

AllDevices == 0 .. NumDevices - 1
AllBlobs == 1 .. NumBlobs

Trials == INSTANCE PoseTrials

OfStream(step) == subject = "stream" /\ step /\ UNCHANGED <<subject, searchVars>>
OfSearch(step) == subject = "search" /\ step /\ UNCHANGED <<subject, vars>>

\* Blobs are interchangeable, so that a frame may as well bring its labels in
\* order.  What does not move in a behaviour has one value throughout.
Ordered == \A b \in 1 .. NumBlobs - 1 : label[b] <= label[b + 1]
NoSearch == label = [b \in Blobs |-> None] /\ ~haveCameraPose /\ ~level
NoStream == format = "grey" /\ camera = [frame |-> 0, part |-> 1, arrived |-> 0]

CameraInit ==
  /\ Init /\ SearchInit
  /\ \/ subject = "stream" /\ NoSearch
     \/ subject = "search" /\ NoStream /\ Ordered

CameraSpec ==
  CameraInit
  /\ [][OfStream(Next) \/ OfSearch(SearchNext)]_<<subject, vars, searchVars>>

CameraFairSpec == CameraSpec /\ Fairness

\* What the search for a device tries (PoseTrials).  It needs no state and is
\* evaluated in one of the initial states.
SearchExact ==
  /\ subject = "search"
  /\ turn = [phase |-> "quick", dev |-> 0] /\ label = [b \in Blobs |-> None]
  /\ ~level /\ slot = [d \in Devices |-> TRUE] /\ score = [d \in Devices |-> "none"]
  => Trials!SelectionsExact /\ Trials!SeenIsTried /\ Trials!BestKept
=============================================================================
