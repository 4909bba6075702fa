---------------------------- MODULE Camera_proofs ----------------------------
(***************************************************************************)
(* Proofs about the camera, from its transfers to the labels of blobs.     *)
(* UvcStream: types, the count of the transfers that are still to end,     *)
(* that no callback is left when the frames are freed, and that a frame is *)
(* made of one image, for every number of transfers, packets, frames and   *)
(* attempts.  PoseSearch: that what the devices of a frame claim stands    *)
(* until its end, for any number of devices and blobs.  BlobTracks: that   *)
(* matches are stable and that ids and labels are on the lights they were  *)
(* given for, however the two threads interleave, for any number of        *)
(* lights, places and devices.                                             *)
(***************************************************************************)
EXTENDS UvcStream, PoseSearch, BlobTracks, FiniteSetTheorems, NaturalsInduction, TLAPS

\* While the stream starts, active_transfers is not set yet: callbacks that
\* give a transfer up take it below zero, and the transfers that are under way
\* and those given up are those that were submitted.
Starting == main.at \in {"new", "submitting"}

Counted ==
  /\ main.at = "new" => main.next = 1
  /\ Starting => active + uncounted = 0
  /\ Starting => Cardinality(Busy) + uncounted = main.next - 1
  /\ ~Starting => active = Cardinality(Busy) + uncounted
  /\ Cardinality(Busy) + uncounted <= Transfers

\* A transfer is submitted once; a callback at work has a transfer; and there
\* is none when the stream has stopped.
Placed ==
  /\ Starting => \A t \in main.next .. Transfers : transfer[t] = "ours"
  /\ callback.at \in {"packet", "submit"} => transfer[callback.t] = "callback"
  /\ main.at = "stopped" => Busy = {}

IInv == TypeOK /\ Counted /\ Placed

MainPlaces ==
  {"new", "submitting", "running", "stopping", "checking", "waiting", "asleep", "stopped"}
MainSet == [at : MainPlaces, next : 1 .. Transfers + 1]

-----------------------------------------------------------------------------
LEMMA BusyFinite ==
  /\ IsFiniteSet(Busy) /\ Cardinality(Busy) \in Nat
  /\ IsFiniteSet(Busy') /\ Cardinality(Busy') \in Nat
<1>1. IsFiniteSet(1 .. Transfers)
  BY StreamAssumption, FS_Interval
<1>2. Busy \subseteq 1 .. Transfers /\ Busy' \subseteq 1 .. Transfers
  BY DEF Busy
<1> QED
  BY <1>1, <1>2, FS_Subset, FS_CardinalityType

LEMMA Integral ==
  TypeOK => /\ active \in Int /\ uncounted \in Nat
            /\ main.next \in Nat /\ main.next >= 1
            /\ Transfers \in Nat /\ Transfers >= 1
BY StreamAssumption DEF TypeOK

LEMMA MainIs ==
  IInv => /\ main \in MainSet /\ main.next \in 1 .. Transfers + 1
          /\ [main EXCEPT !.next = main.next + 1].at = main.at
          /\ [main EXCEPT !.next = main.next + 1].next = main.next + 1
<1>1. IInv => main \in MainSet
  BY DEF IInv, TypeOK, MainSet, MainPlaces
<1> QED
  BY <1>1 DEF MainSet

LEMMA TypeIs ==
  IInv => /\ TypeOK
          /\ transfer \in [1 .. Transfers -> {"ours", "flying", "completed", "failed", "callback"}]
          /\ active \in -Transfers .. Transfers /\ running \in BOOLEAN
          /\ waiters \in {"free", "main"} /\ free \in 0 .. Frames
BY DEF IInv, TypeOK

LEMMA CallbackIs == IInv => callback.t \in 1 .. Transfers
BY DEF IInv, TypeOK

\* A transfer that is submitted, and one that its callback does not submit
\* again.
LEMMA OneMore ==
  ASSUME TypeOK, NEW t \in 1 .. Transfers, transfer[t] = "ours",
         transfer' = [transfer EXCEPT ![t] = "flying"]
  PROVE  Cardinality(Busy') = Cardinality(Busy) + 1
<1>1. Busy' = Busy \cup {t} /\ t \notin Busy
  BY DEF Busy, TypeOK
<1> QED
  BY <1>1, BusyFinite, FS_AddElement

LEMMA OneFewer ==
  ASSUME TypeOK, NEW t \in 1 .. Transfers, transfer[t] # "ours",
         transfer' = [transfer EXCEPT ![t] = "ours"]
  PROVE  Cardinality(Busy') = Cardinality(Busy) - 1
<1>1. Busy' = Busy \ {t} /\ t \in Busy
  BY DEF Busy, TypeOK
<1> QED
  BY <1>1, BusyFinite, FS_RemoveElement

LEMMA NoneFewer ==
  ASSUME TypeOK, NEW t \in 1 .. Transfers, transfer[t] # "ours",
         NEW w \in {"flying", "completed", "failed", "callback"},
         transfer' = [transfer EXCEPT ![t] = w]
  PROVE  Busy' = Busy
BY DEF Busy, TypeOK

\* A callback that is the last of its transfer.
LEMMA RetiredKeeps ==
  ASSUME IInv, NEW t \in 1 .. Transfers, transfer[t] # "ours", Retired(t),
         UNCHANGED <<format, running, main, waiters, frameVars>>
  PROVE  IInv'
<1>1. Cardinality(Busy') = Cardinality(Busy) - 1
  BY OneFewer DEF IInv, Retired
<1>2. Cardinality(Busy) \in Nat /\ Cardinality(Busy') \in Nat
  BY BusyFinite
<1>3. main.at # "new" /\ main.at # "stopped"
  <2>1. t \in Busy /\ Cardinality(Busy) >= 1
    BY <1>1, <1>2 DEF Busy
  <2>2. main.at # "new"
    BY <2>1, <1>2, Integral DEF IInv, Counted, Starting
  <2> QED
    BY <2>1, <2>2 DEF IInv, Placed
<1>4. Counted'
  BY <1>1, <1>2, <1>3, Integral DEF IInv, Counted, Starting, Retired
<1>5. Placed'
  BY <1>3 DEF IInv, TypeOK, Placed, Starting, Retired
<1>6. active' \in -Transfers .. Transfers /\ uncounted' \in 0 .. Transfers
  BY <1>1, <1>2, <1>3, <1>4, Integral DEF IInv, Counted, Starting, Retired
<1>7. /\ transfer' \in [1 .. Transfers -> {"ours", "flying", "completed", "failed", "callback"}]
      /\ callback' \in [at : {"none", "packet", "submit", "waking"},
                        t : 1 .. Transfers, tries : 0 .. MaxTries - 1]
  BY DEF IInv, TypeOK, Retired
<1>8. TypeOK'
  BY <1>6, <1>7 DEF IInv, TypeOK, frameVars
<1> QED
  BY <1>4, <1>5, <1>8 DEF IInv

-----------------------------------------------------------------------------
LEMMA InitOK == Init => IInv
<1> SUFFICES ASSUME Init PROVE IInv
  OBVIOUS
<1> USE StreamAssumption
<1>1. Busy = {} /\ Cardinality(Busy) = 0
  BY FS_EmptySet DEF Init, Busy
<1>2. Counted
  BY <1>1 DEF Counted, Starting, Init
<1>3. Placed
  BY <1>1 DEF Placed, Starting, Init
<1>4. TypeOK
  <2>1. transfer \in [1 .. Transfers -> {"ours", "flying", "completed", "failed", "callback"}]
    BY DEF Init
  <2>2. assembly \in [id : 0 .. 1, cur : BOOLEAN, skip : BOOLEAN, got : Seq(Packets)]
    BY DEF Init
  <2>3. camera \in [frame : Numbers, part : 1 .. Parts, arrived : 0 .. Parts]
    BY DEF Init
  <2>4. active \in -Transfers .. Transfers /\ uncounted \in 0 .. Transfers
    BY DEF Init
  <2>5. main \in MainSet
    BY DEF Init, MainSet, MainPlaces
  <2>7. callback \in [at : {"none", "packet", "submit", "waking"},
                      t : 1 .. Transfers, tries : 0 .. MaxTries - 1]
    BY DEF Init
  <2>6. free \in 0 .. Frames /\ delivered \in Seq(Packets)
    BY DEF Init
  <2> QED
    BY <2>1, <2>2, <2>3, <2>4, <2>5, <2>6, <2>7 DEF Init, TypeOK, MainSet, MainPlaces
<1> QED
  BY <1>2, <1>3, <1>4 DEF IInv

\* What a step of the starting and stopping thread may change.
LEMMA MainType ==
  ASSUME TypeOK, main' \in MainSet,
         transfer' \in [1 .. Transfers -> {"ours", "flying", "completed", "failed", "callback"}],
         active' \in -Transfers .. Transfers, running' \in BOOLEAN,
         waiters' \in {"free", "main"}, free' \in 0 .. Frames,
         UNCHANGED <<format, uncounted, callback, camera, assembly, delivered>>
  PROVE  TypeOK'
BY DEF TypeOK, MainSet, MainPlaces

\* Most steps go on to another place.
LEMMA Goes ==
  ASSUME TypeOK, NEW x \in MainPlaces
  PROVE  /\ main \in MainSet /\ main.at \in MainPlaces
         /\ [main EXCEPT !.at = x] \in MainSet
         /\ [main EXCEPT !.at = x].at = x
         /\ [main EXCEPT !.at = x].next = main.next
<1>1. main \in MainSet
  BY DEF TypeOK, MainSet, MainPlaces
<1> QED
  BY <1>1 DEF MainSet

LEMMA PlaceKeeps ==
  ASSUME IInv, ~Starting, main.at # "stopped",
         NEW x \in {"stopping", "checking", "waiting", "asleep"},
         main' = [main EXCEPT !.at = x],
         running' \in BOOLEAN, waiters' \in {"free", "main"},
         UNCHANGED <<format, transfer, active, uncounted, camera, assembly, free, delivered>>,
         \/ callback' = callback
         \/ callback' = [at |-> "none", t |-> 1, tries |-> 0]
  PROVE  IInv'
<1>1. Busy' = Busy
  BY DEF Busy
<1>2. main' \in MainSet /\ main'.at = x
  BY Goes DEF IInv, MainPlaces
<1>3. callback' \in [at : {"none", "packet", "submit", "waking"},
                     t : 1 .. Transfers, tries : 0 .. MaxTries - 1]
  BY StreamAssumption, SMTT(30) DEF IInv, TypeOK
<1>4. TypeOK'
  BY <1>2, <1>3 DEF IInv, TypeOK, MainSet, MainPlaces
<1>5. Counted'
  BY <1>1, <1>2 DEF IInv, Counted, Starting
<1>6. Placed'
  BY <1>1, <1>2 DEF IInv, Placed, Starting
<1> QED
  BY <1>4, <1>5, <1>6 DEF IInv

\* The starting and stopping thread.
LEMMA MainKeeps == IInv /\ (Main \/ Stop) => IInv'
<1> SUFFICES ASSUME IInv, Main \/ Stop PROVE IInv'
  OBVIOUS
<1> USE StreamAssumption
<1>0. Cardinality(Busy) \in Nat /\ Cardinality(Busy') \in Nat
  BY BusyFinite
<1>1. CASE StartRuns
  <2>1. Busy' = Busy
    BY <1>1 DEF StartRuns, usbVars, Busy
  <2>2. TypeOK'
    <3>1. main' \in MainSet
      BY <1>1, Goes DEF IInv, StartRuns, MainPlaces
    <3> QED
      BY <1>1, <3>1, MainType, TypeIs DEF StartRuns, usbVars, frameVars
  <2> QED
    BY <1>1, <2>1, <2>2, Integral DEF IInv, Counted, Placed, Starting, StartRuns, usbVars
<1>2. CASE StartSubmits
  <2>1. main.next \in 1 .. Transfers /\ transfer[main.next] = "ours"
    BY <1>2 DEF IInv, TypeOK, Placed, Starting, StartSubmits
  <2>2. Cardinality(Busy') = Cardinality(Busy) + 1
    BY <1>2, <2>1, OneMore DEF StartSubmits, IInv
  <2>3. TypeOK'
    <3>1. main' \in MainSet
      <4>1. main \in MainSet /\ main.next + 1 \in 1 .. Transfers + 1
        BY <2>1, Integral DEF IInv, TypeOK, MainSet, MainPlaces
      <4> QED
        BY <1>2, <4>1 DEF StartSubmits, MainSet
    <3>2. transfer' \in [1 .. Transfers -> {"ours", "flying", "completed", "failed", "callback"}]
      BY <1>2 DEF IInv, TypeOK, StartSubmits
    <3> QED
      BY <1>2, <3>1, <3>2, MainType, TypeIs DEF StartSubmits, frameVars
  <2>4. Counted'
    <3>1. main' = [main EXCEPT !.next = main.next + 1] /\ active' = active /\ uncounted' = uncounted
      BY <1>2 DEF StartSubmits
    <3>2. main'.next = main.next + 1 /\ main'.at = "submitting"
      BY <1>2, <3>1 DEF StartSubmits, IInv, TypeOK
    <3> QED
      BY <1>0, <1>2, <2>1, <2>2, <3>1, <3>2, Integral DEF IInv, Counted, Starting, StartSubmits
  <2>5. Placed'
    <3>1. /\ main.at = "submitting" /\ main'.at = "submitting" /\ main'.next = main.next + 1
          /\ callback' = callback
          /\ transfer' = [transfer EXCEPT ![main.next] = "flying"]
      BY <1>2, MainIs DEF StartSubmits
    <3>2. /\ \A t \in main.next .. Transfers : transfer[t] = "ours"
          /\ callback.at \in {"packet", "submit"} => transfer[callback.t] = "callback"
      BY <3>1 DEF IInv, Placed, Starting
    <3>3. \A t \in main.next + 1 .. Transfers : t \in main.next .. Transfers /\ t # main.next
      BY <2>1, Integral
    <3>4. transfer \in [1 .. Transfers -> {"ours", "flying", "completed", "failed", "callback"}]
      BY DEF IInv, TypeOK
    <3>5. \A t \in 1 .. Transfers : t # main.next => transfer'[t] = transfer[t]
      BY <3>1, <3>4
    <3>6. main.next + 1 .. Transfers \subseteq 1 .. Transfers
      BY <2>1, Integral
    <3>7. callback.at \in {"packet", "submit"} => callback.t \in 1 .. Transfers
      BY CallbackIs
    <3> QED
      BY <2>1, <3>1, <3>2, <3>3, <3>5, <3>6, <3>7 DEF Placed, Starting
  <2> QED
    BY <2>3, <2>4, <2>5 DEF IInv
<1>3. CASE StartFails \/ StartCounts
  <2>1. Busy' = Busy
    BY <1>3 DEF StartFails, StartCounts, Busy
  <2>2. active' = main.next - 1 /\ main.next - 1 \in 0 .. Transfers
    <3>1. main.next \in 1 .. Transfers + 1
      BY MainIs
    <3> QED
      BY <1>3, <3>1, Integral DEF StartFails, StartCounts
  <2>3. /\ main.at = "submitting"
        /\ main' \in MainSet /\ main'.at \in {"stopping", "running"}
    BY <1>3, Goes DEF IInv, MainPlaces, StartFails, StartCounts
  <2>4. TypeOK'
    <3>1. active' \in -Transfers .. Transfers
      BY <2>2
    <3> QED
      BY <1>3, <2>3, <3>1, MainType, TypeIs DEF StartFails, StartCounts, frameVars
  <2>5. UNCHANGED <<transfer, uncounted, callback>>
    BY <1>3 DEF StartFails, StartCounts
  <2>6. Counted'
    BY <1>0, <2>1, <2>2, <2>3, <2>5, Integral DEF IInv, Counted, Starting
  <2>7. Placed'
    BY <2>3, <2>5 DEF IInv, Placed, Starting
  <2> QED
    BY <2>4, <2>6, <2>7 DEF IInv
<1>4. CASE Stop \/ StopLocks \/ StopChecks \/ StopWaits
  <2>1. /\ ~Starting /\ main.at # "stopped"
        /\ \E x \in {"stopping", "checking", "waiting", "asleep"} : main' = [main EXCEPT !.at = x]
    BY <1>4 DEF Starting, Stop, StopLocks, StopChecks, StopWaits
  <2>2. /\ running' \in BOOLEAN /\ waiters' \in {"free", "main"}
        /\ UNCHANGED <<format, usbVars, callback, frameVars>>
    BY <1>4 DEF IInv, TypeOK, Stop, StopLocks, StopChecks, StopWaits
  <2> QED
    BY <2>1, <2>2, PlaceKeeps DEF usbVars, frameVars
<1>5. CASE StopFrees
  <2>1. Cardinality(Busy) = 0
    BY <1>0, <1>5, Integral DEF IInv, Counted, Starting, StopFrees
  <2>2. Busy = {} /\ Busy' = Busy
    BY <1>5, <2>1, BusyFinite, FS_EmptySet DEF StopFrees, usbVars, Busy
  <2>3. main' \in MainSet /\ main'.at = "stopped"
    BY <1>5, Goes DEF IInv, MainPlaces, StopFrees
  <2>4. TypeOK'
    BY <1>5, <2>3, MainType, TypeIs DEF StopFrees, usbVars, frameVars
  <2>5. Counted' /\ Placed'
    BY <1>5, <2>2, <2>3 DEF IInv, Counted, Placed, Starting, StopFrees, usbVars
  <2> QED
    BY <2>4, <2>5 DEF IInv
<1> QED
  BY <1>1, <1>2, <1>3, <1>4, <1>5 DEF Main

-----------------------------------------------------------------------------
\* What a step of the USB thread may change when the transfers that are to end
\* stay the same.
LEMMA UsbKeeps ==
  ASSUME IInv, Busy' = Busy,
         transfer' \in [1 .. Transfers -> {"ours", "flying", "completed", "failed", "callback"}],
         \A t \in 1 .. Transfers : transfer[t] = "ours" => transfer'[t] = "ours",
         callback' \in [at : {"none", "packet", "submit", "waking"},
                        t : 1 .. Transfers, tries : 0 .. MaxTries - 1],
         callback'.at \in {"packet", "submit"} => transfer'[callback'.t] = "callback",
         camera' \in [frame : Numbers, part : 1 .. Parts, arrived : 0 .. Parts],
         assembly' \in [id : 0 .. 1, cur : BOOLEAN, skip : BOOLEAN, got : Seq(Packets)],
         free' \in 0 .. Frames, delivered' \in Seq(Packets),
         UNCHANGED <<format, active, uncounted, running, main, waiters>>
  PROVE  IInv'
<1>1. TypeOK'
  BY DEF IInv, TypeOK
<1>2. Counted'
  BY DEF IInv, Counted, Starting
<1>3. Placed'
  <2>1. Starting' => \A t \in main.next .. Transfers : transfer'[t] = "ours"
    <3> SUFFICES ASSUME Starting', NEW t \in main.next .. Transfers PROVE transfer'[t] = "ours"
      OBVIOUS
    <3>1. t \in 1 .. Transfers /\ transfer[t] = "ours"
      BY Integral DEF IInv, Placed, Starting
    <3> QED
      BY <3>1
  <2> QED
    BY <2>1 DEF IInv, Placed
<1> QED
  BY <1>1, <1>2, <1>3 DEF IInv

\* A transfer ends.
LEMMA EndsKeeps ==
  ASSUME IInv, NEW t \in 1 .. Transfers, TransferEnds(t) PROVE IInv'
<1>1. PICK w \in {"completed", "failed"} : transfer' = [transfer EXCEPT ![t] = w]
  BY DEF TransferEnds
<1>2. Busy' = Busy
  BY <1>1, NoneFewer DEF IInv, TransferEnds
<1>3. transfer[t] = "flying"
  BY DEF TransferEnds
<1> QED
  BY <1>1, <1>2, <1>3, UsbKeeps DEF IInv, TypeOK, Placed, TransferEnds, frameVars

\* The callback of a transfer.
LEMMA CallbackKeeps ==
  ASSUME IInv, \/ \E t \in 1 .. Transfers : CallbackBegins(t)
               \/ CallbackSubmits \/ CallbackRetries
  PROVE  IInv'
<1>0. callback.t \in 1 .. Transfers /\ callback.tries \in 0 .. MaxTries - 1
  BY DEF IInv, TypeOK
<1>1. ASSUME NEW t \in 1 .. Transfers, CallbackBegins(t) PROVE IInv'
  <2>0. transfer[t] # "ours"
    BY <1>1 DEF CallbackBegins
  <2>1. CASE transfer[t] = "completed" /\ running
    <3>1. /\ transfer' = [transfer EXCEPT ![t] = "callback"]
          /\ callback' = [at |-> "packet", t |-> t, tries |-> 0]
      BY <1>1, <2>1 DEF CallbackBegins
    <3>2. Busy' = Busy
      BY <2>0, <3>1, NoneFewer DEF IInv
    <3>3. 0 \in 0 .. MaxTries - 1
      BY StreamAssumption
    <3> QED
      BY <1>1, <2>1, <3>1, <3>2, <3>3, UsbKeeps DEF IInv, TypeOK, CallbackBegins, frameVars
  <2>2. CASE ~(transfer[t] = "completed" /\ running)
    BY <1>1, <2>0, <2>2, RetiredKeeps DEF CallbackBegins
  <2> QED
    BY <2>1, <2>2
<1>2. CASE CallbackSubmits
  <2>0. transfer[callback.t] = "callback"
    BY <1>2 DEF IInv, Placed, CallbackSubmits
  <2>1. CASE running
    <3>1. /\ transfer' = [transfer EXCEPT ![callback.t] = "flying"]
          /\ callback' = [callback EXCEPT !.at = "waking"]
      BY <1>2, <2>1 DEF CallbackSubmits
    <3>2. Busy' = Busy
      BY <1>0, <2>0, <3>1, NoneFewer DEF IInv
    <3> QED
      BY <1>2, <2>0, <2>1, <3>1, <3>2, UsbKeeps DEF IInv, TypeOK, CallbackSubmits, frameVars
  <2>2. CASE ~running
    BY <1>0, <1>2, <2>0, <2>2, RetiredKeeps DEF CallbackSubmits
  <2> QED
    BY <2>1, <2>2
<1>3. CASE CallbackRetries
  <2>0. transfer[callback.t] = "callback" /\ callback.at = "submit"
    BY <1>3 DEF IInv, Placed, CallbackRetries
  <2>1. CASE callback.tries + 1 < MaxTries
    <3>1. callback' = [callback EXCEPT !.tries = callback.tries + 1] /\ UNCHANGED usbVars
      BY <1>3, <2>1 DEF CallbackRetries
    <3>2. callback.tries + 1 \in 0 .. MaxTries - 1
      BY <1>0, <2>1, StreamAssumption
    <3>3. Busy' = Busy
      BY <3>1 DEF usbVars, Busy
    <3> QED
      BY <1>3, <2>0, <3>1, <3>2, <3>3, UsbKeeps DEF IInv, TypeOK, CallbackRetries, usbVars, frameVars
  <2>2. CASE ~(callback.tries + 1 < MaxTries)
    BY <1>0, <1>3, <2>0, <2>2, RetiredKeeps DEF CallbackRetries
  <2> QED
    BY <2>1, <2>2
<1> QED
  BY <1>1, <1>2, <1>3

\* libusb wakes the thread that stops the stream.
LEMMA WakesKeeps == IInv /\ CallbackWakes => IInv'
<1> SUFFICES ASSUME IInv, CallbackWakes PROVE IInv'
  OBVIOUS
<1>1. CASE main.at = "asleep"
  <2>1. ~Starting /\ main.at # "stopped"
    BY <1>1 DEF Starting
  <2> QED
    BY <1>1, <2>1, PlaceKeeps DEF IInv, TypeOK, CallbackWakes, usbVars, frameVars
<1>2. CASE main.at # "asleep"
  <2>1. Busy' = Busy
    BY DEF CallbackWakes, usbVars, Busy
  <2>2. 1 \in 1 .. Transfers /\ 0 \in 0 .. MaxTries - 1
    BY StreamAssumption
  <2> QED
    BY <1>2, <2>1, <2>2, UsbKeeps DEF IInv, TypeOK, CallbackWakes, usbVars, frameVars
<1> QED
  BY <1>1, <1>2

-----------------------------------------------------------------------------
\* Packets change neither transfers nor the threads.  Fewer packets of a frame
\* have arrived than the number of the next one.
CameraSet == [frame : Numbers, part : 1 .. Parts, arrived : 0 .. Parts]
Arrived == camera.arrived < camera.part

LEMMA CameraType ==
  ASSUME TypeOK, Arrived, NEW arrived \in {0, 1}, camera' = CameraAfter(arrived)
  PROVE  camera' \in CameraSet /\ Arrived'
<1>0. /\ camera \in CameraSet /\ Parts \in Nat /\ Parts >= 1
      /\ camera.frame \in 0 .. 3 /\ camera.part \in 1 .. Parts /\ camera.arrived \in 0 .. Parts
  BY StreamAssumption DEF TypeOK, CameraSet, Numbers
<1>1. CASE camera.part < Parts
  <2>1. camera' = [camera EXCEPT !.part = camera.part + 1, !.arrived = camera.arrived + arrived]
    BY <1>1 DEF CameraAfter
  <2>2. /\ camera.part + 1 \in 1 .. Parts
        /\ camera.arrived + arrived \in 0 .. Parts
        /\ camera.arrived + arrived < camera.part + 1
    BY <1>0, <1>1 DEF Arrived
  <2> QED
    BY <1>0, <2>1, <2>2 DEF CameraSet, Arrived
<1>2. CASE ~(camera.part < Parts)
  <2>1. camera' = [frame |-> (camera.frame + 1) % 4, part |-> 1, arrived |-> 0]
    BY <1>2 DEF CameraAfter
  <2>2. (camera.frame + 1) % 4 \in Numbers /\ 1 \in 1 .. Parts /\ 0 \in 0 .. Parts
    BY <1>0 DEF Numbers
  <2> QED
    BY <2>1, <2>2 DEF CameraSet, Arrived
<1> QED
  BY <1>1, <1>2

AssemblySet == [id : 0 .. 1, cur : BOOLEAN, skip : BOOLEAN, got : Seq(Packets)]

\* The frame being assembled when a packet has been looked at.
LEMMA AssemblyType ==
  ASSUME TypeOK
  PROVE  /\ Packet \in Packets
         /\ Assembly(assembly, Packet) \in AssemblySet
         /\ Assembly(assembly, Packet).cur /\ ~assembly.cur => free > 0
<1>0. assembly \in AssemblySet /\ camera.frame \in 0 .. 3 /\ camera.part \in 1 .. Parts
  BY DEF TypeOK, AssemblySet, Numbers
<1>1. Packet \in Packets /\ Packet.frame \in 0 .. 3
  BY <1>0 DEF Packet, Packets, Numbers
<1>2. Packet.frame % 2 \in 0 .. 1
  BY <1>1
<1>3. <<>> \in Seq(Packets)
  OBVIOUS
<1>4. (assembly.cur \/ free > 0) \in BOOLEAN
  OBVIOUS
<1>5. CASE Packet.frame % 2 = assembly.id
  BY <1>0, <1>1, <1>5 DEF Assembly, AssemblySet
<1>6. CASE Packet.frame % 2 # assembly.id
  <2>1. Assembly(assembly, Packet) =
          [id |-> Packet.frame % 2, cur |-> assembly.cur \/ free > 0,
           skip |-> ~(assembly.cur \/ free > 0), got |-> <<>>]
    BY <1>6 DEF Assembly
  <2>2. Assembly(assembly, Packet) \in AssemblySet
    BY <1>2, <1>3, <1>4, <2>1 DEF AssemblySet
  <2>3. Assembly(assembly, Packet).cur <=> assembly.cur \/ free > 0
    <3> DEFINE c == assembly.cur \/ free > 0
               r(x) == [id |-> Packet.frame % 2, cur |-> x, skip |-> ~x, got |-> <<>>]
    <3>1. ASSUME NEW x \in BOOLEAN PROVE r(x).cur = x
      OBVIOUS
    <3>2. Assembly(assembly, Packet) = r(c) /\ c \in BOOLEAN
      BY <2>1
    <3> HIDE DEF r, c
    <3>3. Assembly(assembly, Packet).cur = c
      BY <3>1, <3>2
    <3> QED
      BY <3>3 DEF c
  <2> QED
    BY <1>1, <2>2, <2>3
<1> QED
  BY <1>5, <1>6

LEMMA FrameDone ==
  ASSUME NEW b \in AssemblySet
  PROVE  b.got \in Seq(Packets) /\ [b EXCEPT !.cur = FALSE, !.got = <<>>] \in AssemblySet
<1>1. b.got \in Seq(Packets) /\ <<>> \in Seq(Packets)
  BY DEF AssemblySet
<1>2. [b EXCEPT !.cur = FALSE] \in AssemblySet
  BY DEF AssemblySet
<1>3. ASSUME NEW c \in AssemblySet PROVE [c EXCEPT !.got = <<>>] \in AssemblySet
  BY <1>1 DEF AssemblySet
<1>4. [[b EXCEPT !.cur = FALSE] EXCEPT !.got = <<>>] \in AssemblySet
  BY <1>2, <1>3
<1> QED
  BY <1>1, <1>4

\* What is written for a packet has its type.
LEMMA WrittenType ==
  ASSUME TypeOK, PacketArrives
  PROVE  assembly' \in AssemblySet /\ delivered' \in Seq(Packets) /\ free' \in 0 .. Frames
<1> DEFINE a == Assembly(assembly, Packet)
           copied == a.cur /\ ~a.skip /\ Len(a.got) < Parts
           b == IF copied THEN [a EXCEPT !.got = Append(a.got, Packet)] ELSE a
<1>1. /\ Packet \in Packets /\ a \in AssemblySet
      /\ a.cur /\ ~assembly.cur => free > 0
  BY AssemblyType
<1>2. /\ IF copied /\ Complete(b)
         THEN delivered' = b.got /\ assembly' = [b EXCEPT !.cur = FALSE, !.got = <<>>]
         ELSE assembly' = b /\ delivered' = <<>>
      /\ free' = free - (IF a.cur /\ ~assembly.cur THEN 1 ELSE 0)
  BY DEF PacketArrives
<1>3. free \in 0 .. Frames /\ Frames \in Nat
  BY StreamAssumption DEF TypeOK
<1>4. free' \in 0 .. Frames
  BY <1>1, <1>2, <1>3
<1>5. b \in AssemblySet
  <2> HIDE DEF a
  <2>1. Append(a.got, Packet) \in Seq(Packets)
    BY <1>1 DEF AssemblySet
  <2> QED
    BY <1>1, <2>1 DEF AssemblySet
<1>6. b.got \in Seq(Packets) /\ [b EXCEPT !.cur = FALSE, !.got = <<>>] \in AssemblySet
  BY <1>5, FrameDone
<1> HIDE DEF b, copied
<1>7. <<>> \in Seq(Packets)
  OBVIOUS
<1> QED
  BY <1>2, <1>4, <1>5, <1>6, <1>7

LEMMA PacketsKeep ==
  ASSUME IInv, Arrived, PacketLost \/ PacketArrives
  PROVE  IInv' /\ Arrived'
<1>1. /\ callback' = [callback EXCEPT !.at = "submit"] /\ callback.at = "packet"
      /\ UNCHANGED <<format, usbVars, running, main, waiters>>
      /\ \E n \in {0, 1} : camera' = CameraAfter(n)
  BY DEF PacketLost, PacketArrives
<1>2. Busy' = Busy
  BY <1>1 DEF usbVars, Busy
<1>3. camera' \in CameraSet /\ Arrived'
  BY <1>1, CameraType DEF IInv
<1>4. assembly' \in AssemblySet /\ delivered' \in Seq(Packets) /\ free' \in 0 .. Frames
  <2>1. CASE PacketLost
    <3>1. <<>> \in Seq(Packets)
      OBVIOUS
    <3> QED
      BY <2>1, <3>1 DEF IInv, TypeOK, AssemblySet, PacketLost
  <2>2. CASE PacketArrives
    BY <2>2, WrittenType DEF IInv
  <2> QED
    BY <2>1, <2>2
<1>5. /\ callback' \in [at : {"none", "packet", "submit", "waking"},
                        t : 1 .. Transfers, tries : 0 .. MaxTries - 1]
      /\ callback'.at = "submit" /\ callback'.t = callback.t
  BY <1>1 DEF IInv, TypeOK
<1>6. transfer'[callback'.t] = "callback"
  BY <1>1, <1>5 DEF IInv, Placed, usbVars
<1>7. /\ transfer' = transfer /\ UNCHANGED <<format, active, uncounted, running, main, waiters>>
      /\ transfer \in [1 .. Transfers -> {"ours", "flying", "completed", "failed", "callback"}]
  BY <1>1 DEF usbVars, IInv, TypeOK
<1>8. IInv'
  BY <1>2, <1>3, <1>4, <1>5, <1>6, <1>7, UsbKeeps DEF CameraSet, AssemblySet
<1> QED
  BY <1>3, <1>8

\* A frame that is released, and a step that changes nothing.
LEMMA ReleaseKeeps ==
  ASSUME IInv, ReleaseFrame \/ UNCHANGED vars
  PROVE  IInv'
<1>1. Busy' = Busy
  BY DEF ReleaseFrame, vars, usbVars, Busy
<1>2. UNCHANGED <<format, usbVars, running, main, callback, waiters, camera, assembly, delivered>>
  BY DEF ReleaseFrame, vars, frameVars
<1>3. free' \in 0 .. Frames
  BY StreamAssumption, SMTT(30) DEF IInv, TypeOK, ReleaseFrame, vars, frameVars
<1>4. TypeOK'
  BY <1>2, <1>3 DEF IInv, TypeOK, usbVars
<1>5. Counted' /\ Placed'
  BY <1>1, <1>2 DEF IInv, Counted, Placed, Starting, usbVars
<1> QED
  BY <1>4, <1>5 DEF IInv

-----------------------------------------------------------------------------
LEMMA Inductive == IInv /\ Arrived /\ [Next]_vars => IInv' /\ Arrived'
<1> SUFFICES ASSUME IInv, Arrived, [Next]_vars PROVE IInv' /\ Arrived'
  OBVIOUS
<1>1. CASE Main \/ Stop
  <2>1. camera' = camera
    BY <1>1 DEF Main, Stop, StartRuns, StartSubmits, StartFails, StartCounts,
                StopLocks, StopChecks, StopWaits, StopFrees, frameVars
  <2> QED
    BY <1>1, <2>1, MainKeeps DEF Arrived
<1>2. CASE (\E t \in 1 .. Transfers : CallbackBegins(t)) \/ CallbackSubmits \/ CallbackRetries
  <2>1. camera' = camera
    BY <1>2 DEF CallbackBegins, CallbackSubmits, CallbackRetries, frameVars
  <2> QED
    BY <1>2, <2>1, CallbackKeeps DEF Arrived
<1>3. CASE CallbackWakes
  BY <1>3, WakesKeeps DEF Arrived, CallbackWakes, frameVars
<1>4. CASE PacketLost \/ PacketArrives
  BY <1>4, PacketsKeep
<1>5. CASE ReleaseFrame \/ UNCHANGED vars
  BY <1>5, ReleaseKeeps DEF Arrived, ReleaseFrame, vars, frameVars
<1>6. CASE \E t \in 1 .. Transfers : TransferEnds(t)
  BY <1>6, EndsKeeps DEF Arrived, TransferEnds, frameVars
<1> QED
  BY <1>1, <1>2, <1>3, <1>4, <1>5, <1>6 DEF Next, UsbThread

LEMMA InvariantHolds == Spec => [](IInv /\ Arrived)
<1>1. Init => IInv /\ Arrived
  <2>1. Init => Arrived
    BY StreamAssumption DEF Init, Arrived
  <2> QED
    BY <2>1, InitOK
<1> QED
  BY <1>1, Inductive, PTL DEF Spec

\* The variables keep their types: no count of uvc.c leaves its range, and a
\* frame is taken from the free ones only when there is one.
THEOREM TypeCorrect == Spec => []TypeOK
<1>1. IInv /\ Arrived => TypeOK
  BY DEF IInv
<1> QED
  BY <1>1, InvariantHolds, PTL

\* active_transfers, which rift_sensor_uvc_stream_stop waits on, is the number
\* of transfers that are still to end and of those that ended too early; when
\* the stop has freed the frames, none is left whose callback could write to one.
THEOREM CountedUntilFreed == Spec => []TransfersCounted
<1>1. IInv /\ Arrived => TransfersCounted
  BY DEF IInv, Counted, Starting, Placed, TransfersCounted, ActiveExact, QuietWhenFreed
<1> QED
  BY <1>1, InvariantHolds, PTL

-----------------------------------------------------------------------------
(***************************************************************************)
(* What is delivered is one image.                                         *)
(***************************************************************************)

\* Packets of one frame of the camera in their order; the i-th is not one of
\* the first i - 1, so that Parts of them are all.
OneImage(q) ==
  /\ \A i \in 1 .. Len(q) - 1 : q[i].frame = q[i + 1].frame /\ q[i].part < q[i + 1].part
  /\ \A i \in 1 .. Len(q) : q[i].part >= i

\* What has been gathered is of the frame the camera is sending, or of the one
\* before if nothing has arrived of this one yet: only then can the two frame
\* ids tell the next packet's frame from it.
Gathered ==
  /\ OneImage(assembly.got)
  /\ assembly.got # <<>> =>
       LET latest == assembly.got[Len(assembly.got)]
       IN  /\ latest.frame % 2 = assembly.id
           /\ \/ camera.frame = latest.frame /\ latest.part < camera.part
              \/ camera.frame = (latest.frame + 1) % 4 /\ camera.arrived = 0

ImageInv == Gathered /\ FrameOfOneImage

LEMMA LastIs ==
  ASSUME NEW q \in Seq(Packets), q # <<>>
  PROVE  /\ Len(q) \in Nat /\ Len(q) >= 1 /\ Last(q) = q[Len(q)]
         /\ q[Len(q)] \in Packets /\ q[Len(q)].frame \in 0 .. 3
         /\ q[Len(q)].part \in 1 .. Parts
<1>1. Len(q) \in Nat /\ Len(q) >= 1
  OBVIOUS
<1>2. q[Len(q)] \in Packets
  BY <1>1
<1> QED
  BY <1>1, <1>2 DEF Last, Packets, Numbers

\* A packet of the same frame that comes later.
LEMMA OneMorePacket ==
  ASSUME NEW q \in Seq(Packets), NEW p \in Packets, OneImage(q),
         q # <<>> => q[Len(q)].frame = p.frame /\ q[Len(q)].part < p.part
  PROVE  /\ OneImage(Append(q, p)) /\ Append(q, p) # <<>>
         /\ Append(q, p)[Len(Append(q, p))] = p
<1> DEFINE r == Append(q, p)
           n == Len(q)
<1>1. /\ n \in Nat /\ r \in Seq(Packets) /\ Len(r) = n + 1 /\ r[n + 1] = p /\ r # <<>>
      /\ \A i \in 1 .. n : r[i] = q[i]
  BY SMTT(30)
<1>2. (q = <<>> <=> n = 0) /\ p.part \in 1 .. Parts /\ Parts \in Nat
  BY StreamAssumption DEF Packets
<1>3. \A i \in 1 .. n : q[i] \in Packets /\ q[i].part \in 1 .. Parts /\ q[i].part >= i
  <2>1. \A i \in 1 .. n : q[i] \in Packets
    OBVIOUS
  <2>2. \A x \in Packets : x.part \in 1 .. Parts
    BY DEF Packets
  <2> QED
    BY <2>1, <2>2 DEF OneImage
<1> HIDE DEF r
<1>4. ASSUME NEW i \in 1 .. Len(r) - 1
      PROVE  r[i].frame = r[i + 1].frame /\ r[i].part < r[i + 1].part
  <2>1. CASE i = n
    BY <1>1, <1>2, <2>1
  <2>2. CASE i # n
    <3>1. i \in 1 .. n - 1 /\ i \in 1 .. n /\ i + 1 \in 1 .. n
      BY <1>1, <2>2
    <3>2. q[i].frame = q[i + 1].frame /\ q[i].part < q[i + 1].part
      BY <3>1 DEF OneImage
    <3> QED
      BY <1>1, <3>1, <3>2
  <2> QED
    BY <2>1, <2>2
<1>5. ASSUME NEW i \in 1 .. Len(r)
      PROVE  r[i].part >= i
  <2>1. CASE i = n + 1
    <3>1. CASE n = 0
      BY <1>1, <1>2, <2>1, <3>1
    <3>2. CASE n # 0
      <4>1. q[n].part >= n /\ q[n].part < p.part /\ q[n].part \in 1 .. Parts
        BY <1>1, <1>2, <1>3, <3>2
      <4> QED
        BY <1>1, <1>2, <2>1, <4>1
    <3> QED
      BY <3>1, <3>2
  <2>2. CASE i # n + 1
    BY <1>1, <1>3, <2>2
  <2> QED
    BY <2>1, <2>2
<1>6. OneImage(r)
  BY <1>4, <1>5 DEF OneImage
<1> QED
  BY <1>1, <1>6 DEF r

\* The camera's next packet is of the same frame or the first of the next.
LEMMA CameraGoes ==
  ASSUME TypeOK, NEW arrived \in {0, 1}, camera' = CameraAfter(arrived)
  PROVE  \/ /\ camera.part < Parts /\ camera'.frame = camera.frame
            /\ camera'.part = camera.part + 1
            /\ camera'.arrived = camera.arrived + arrived
         \/ /\ camera.part = Parts /\ camera'.frame = (camera.frame + 1) % 4
            /\ camera'.arrived = 0
<1>0. /\ camera \in CameraSet /\ Parts \in Nat /\ camera.part \in 1 .. Parts
  BY StreamAssumption DEF TypeOK, CameraSet
<1>1. CASE camera.part < Parts
  <2>1. camera' = [camera EXCEPT !.part = camera.part + 1, !.arrived = camera.arrived + arrived]
    BY <1>1 DEF CameraAfter
  <2> QED
    BY <1>0, <1>1, <2>1 DEF CameraSet
<1>2. CASE ~(camera.part < Parts)
  <2>1. camera' = [frame |-> (camera.frame + 1) % 4, part |-> 1, arrived |-> 0]
    BY <1>2 DEF CameraAfter
  <2> QED
    BY <1>0, <1>2, <2>1
<1> QED
  BY <1>1, <1>2

\* When a packet has arrived, what is gathered is of its frame and before it.
LEMMA SameFrame ==
  ASSUME TypeOK, Gathered
  PROVE  LET a == Assembly(assembly, Packet)
         IN  /\ OneImage(a.got) /\ a.id = Packet.frame % 2
             /\ a.got # <<>> => /\ a.got[Len(a.got)].frame = Packet.frame
                                /\ a.got[Len(a.got)].part < Packet.part
<1>1. /\ Packet.frame = camera.frame /\ Packet.part = camera.part
      /\ camera.frame \in 0 .. 3 /\ assembly.got \in Seq(Packets)
  BY DEF Packet, TypeOK, Numbers
<1>2. CASE Packet.frame % 2 = assembly.id
  <2>1. Assembly(assembly, Packet) = assembly
    BY <1>2 DEF Assembly
  <2>2. ASSUME assembly.got # <<>>
        PROVE  /\ assembly.got[Len(assembly.got)].frame = Packet.frame
               /\ assembly.got[Len(assembly.got)].part < Packet.part
    <3> DEFINE latest == assembly.got[Len(assembly.got)]
    <3>1. latest.frame \in 0 .. 3
      BY <1>1, <2>2, LastIs
    <3>2. /\ latest.frame % 2 = assembly.id
          /\ \/ camera.frame = latest.frame /\ latest.part < camera.part
             \/ camera.frame = (latest.frame + 1) % 4 /\ camera.arrived = 0
      BY <2>2 DEF Gathered
    <3> HIDE DEF latest
    <3>3. camera.frame # (latest.frame + 1) % 4
      <4>1. latest.frame \in {0, 1, 2, 3} /\ latest.frame % 2 = camera.frame % 2
        BY <1>1, <1>2, <3>1, <3>2
      <4> QED
        BY <4>1
    <3> QED
      BY <1>1, <3>2, <3>3 DEF latest
  <2> QED
    BY <1>2, <2>1, <2>2 DEF Gathered
<1>3. CASE Packet.frame % 2 # assembly.id
  <2>1. /\ Assembly(assembly, Packet).got = <<>>
        /\ Assembly(assembly, Packet).id = Packet.frame % 2
    BY <1>3 DEF Assembly
  <2>2. OneImage(<<>>)
    BY DEF OneImage
  <2> QED
    BY <2>1, <2>2
<1> QED
  BY <1>2, <1>3

LEMMA ArrivesKeepsImage ==
  ASSUME TypeOK, ImageInv, PacketArrives
  PROVE  ImageInv'
<1> DEFINE a == Assembly(assembly, Packet)
           copied == a.cur /\ ~a.skip /\ Len(a.got) < Parts
           b == IF copied THEN [a EXCEPT !.got = Append(a.got, Packet)] ELSE a
<1>1. /\ IF copied /\ Complete(b)
         THEN delivered' = b.got /\ assembly' = [b EXCEPT !.cur = FALSE, !.got = <<>>]
         ELSE assembly' = b /\ delivered' = <<>>
      /\ camera' = CameraAfter(1) /\ format' = format
  BY DEF PacketArrives
<1>2. Packet \in Packets /\ a \in AssemblySet
  BY AssemblyType
<1>3. /\ OneImage(a.got) /\ a.id = Packet.frame % 2
      /\ a.got # <<>> => /\ a.got[Len(a.got)].frame = Packet.frame
                         /\ a.got[Len(a.got)].part < Packet.part
  BY SameFrame DEF ImageInv
<1>4. /\ Packet.frame = camera.frame /\ Packet.part = camera.part
      /\ camera.part \in 1 .. Parts /\ camera.frame \in 0 .. 3
  BY DEF Packet, TypeOK, Numbers
<1> HIDE DEF a
<1>5. a.got \in Seq(Packets)
  BY <1>2 DEF AssemblySet
\* The packets gathered now, of which the last is no later than this one.
<1>6. /\ b.got \in Seq(Packets) /\ OneImage(b.got) /\ b.id = a.id /\ b \in AssemblySet
      /\ b.got # <<>> => /\ b.got[Len(b.got)].frame = camera.frame
                         /\ b.got[Len(b.got)].part <= camera.part
  <2>1. CASE copied
    <3> HIDE DEF copied
    <3> DEFINE q == Append(a.got, Packet)
    <3>1. /\ OneImage(q) /\ q # <<>> /\ q[Len(q)] = Packet /\ q \in Seq(Packets)
      BY <1>2, <1>3, <1>5, OneMorePacket
    <3> HIDE DEF q
    <3>2. b = [a EXCEPT !.got = q]
      BY <2>1 DEF q
    <3>3. b.got = q /\ b.id = a.id /\ b \in AssemblySet
      BY <1>2, <3>1, <3>2 DEF AssemblySet
    <3> HIDE DEF b
    <3> QED
      BY <1>4, <3>1, <3>3
  <2>2. CASE ~copied
    <3>1. b = a
      BY <2>2
    <3> HIDE DEF b, copied
    <3>2. a.got # <<>> => a.got[Len(a.got)].part \in 1 .. Parts
      BY <1>5, LastIs
    <3>3. Parts \in Nat
      BY StreamAssumption
    <3> QED
      BY <1>2, <1>3, <1>4, <1>5, <3>1, <3>2, <3>3
  <2> QED
    BY <2>1, <2>2
<1> HIDE DEF b, copied
<1>7. b.got # <<>> => /\ Len(b.got) \in Nat /\ Len(b.got) >= 1 /\ Last(b.got) = b.got[Len(b.got)]
                      /\ b.got[Len(b.got)].part \in 1 .. Parts
                      /\ b.got[Len(b.got)].frame \in 0 .. 3
  BY <1>6, LastIs
<1>8. Parts \in Nat /\ Parts >= 1
  BY StreamAssumption
<1>9. CASE copied /\ Complete(b)
  <2>1. delivered' = b.got /\ assembly'.got = <<>>
    BY <1>1, <1>6, <1>9 DEF AssemblySet
  <2>2. Gathered'
    BY <2>1 DEF Gathered, OneImage
  <2>3. ASSUME b.got # <<>>
        PROVE  /\ Last(b.got).part = Parts
               /\ format = "grey" => Len(b.got) = Parts
    <3>1. Last(b.got).part = Parts
      <4>1. CASE Len(b.got) = Parts
        <5>1. b.got[Len(b.got)].part >= Len(b.got)
          BY <1>6, <1>7, <2>3 DEF OneImage
        <5> QED
          BY <1>7, <1>8, <2>3, <4>1, <5>1
      <4>2. CASE Len(b.got) # Parts
        BY <1>9, <4>2 DEF Complete
      <4> QED
        BY <4>1, <4>2
    <3>2. format = "grey" => Len(b.got) = Parts
      BY <1>9 DEF Complete
    <3> QED
      BY <3>1, <3>2
  <2>4. FrameOfOneImage'
    BY <1>1, <1>6, <2>1, <2>3 DEF FrameOfOneImage, OneImage
  <2> QED
    BY <2>2, <2>4 DEF ImageInv
<1>10. CASE ~(copied /\ Complete(b))
  <2>1. assembly' = b /\ delivered' = <<>>
    BY <1>1, <1>10
  <2>2. FrameOfOneImage'
    BY <2>1 DEF FrameOfOneImage
  <2>3. ASSUME b.got # <<>>
        PROVE  /\ b.got[Len(b.got)].frame % 2 = b.id
               /\ \/ /\ camera'.frame = b.got[Len(b.got)].frame
                     /\ b.got[Len(b.got)].part < camera'.part
                  \/ /\ camera'.frame = (b.got[Len(b.got)].frame + 1) % 4
                     /\ camera'.arrived = 0
    <3>1. b.got[Len(b.got)].frame % 2 = b.id
      BY <1>3, <1>4, <1>6, <2>3
    <3>2. \/ camera'.frame = camera.frame /\ camera'.part = camera.part + 1
          \/ camera'.frame = (camera.frame + 1) % 4 /\ camera'.arrived = 0
      BY <1>1, CameraGoes
    <3>3. b.got[Len(b.got)].part < camera.part + 1
      BY <1>4, <1>6, <1>7, <1>8, <2>3
    <3> QED
      BY <1>6, <2>3, <3>1, <3>2, <3>3
  <2>4. Gathered'
    BY <1>6, <2>1, <2>3 DEF Gathered
  <2> QED
    BY <2>2, <2>4 DEF ImageInv
<1> QED
  BY <1>9, <1>10

LEMMA LostKeepsImage ==
  ASSUME TypeOK, ImageInv, PacketLost
  PROVE  ImageInv'
<1>1. /\ camera.part < Parts \/ camera.arrived > 0
      /\ camera' = CameraAfter(0) /\ delivered' = <<>> /\ assembly' = assembly
  BY DEF PacketLost
<1>2. FrameOfOneImage'
  BY <1>1 DEF FrameOfOneImage
<1>3. \/ /\ camera.part < Parts /\ camera'.frame = camera.frame
         /\ camera'.part = camera.part + 1 /\ camera'.arrived = camera.arrived + 0
      \/ /\ camera.part = Parts /\ camera'.frame = (camera.frame + 1) % 4
         /\ camera'.arrived = 0
  BY <1>1, CameraGoes
<1>4. /\ camera.part \in 1 .. Parts /\ camera.arrived \in 0 .. Parts /\ Parts \in Nat
      /\ assembly.got \in Seq(Packets)
  BY StreamAssumption DEF TypeOK
<1>5. ASSUME assembly.got # <<>>
      PROVE  LET latest == assembly.got[Len(assembly.got)]
             IN  \/ camera'.frame = latest.frame /\ latest.part < camera'.part
                 \/ camera'.frame = (latest.frame + 1) % 4 /\ camera'.arrived = 0
  <2> DEFINE latest == assembly.got[Len(assembly.got)]
  <2>1. latest.part \in 1 .. Parts
    BY <1>4, <1>5, LastIs
  <2>2. \/ camera.frame = latest.frame /\ latest.part < camera.part
        \/ camera.frame = (latest.frame + 1) % 4 /\ camera.arrived = 0
    BY <1>5 DEF ImageInv, Gathered
  <2> HIDE DEF latest
  <2>3. ASSUME camera.frame = latest.frame /\ latest.part < camera.part
        PROVE  \/ camera'.frame = latest.frame /\ latest.part < camera'.part
               \/ camera'.frame = (latest.frame + 1) % 4 /\ camera'.arrived = 0
    BY <1>3, <1>4, <2>1, <2>3
  <2>4. ASSUME camera.frame = (latest.frame + 1) % 4 /\ camera.arrived = 0
        PROVE  camera'.frame = (latest.frame + 1) % 4 /\ camera'.arrived = 0
    <3>1. camera.part < Parts /\ camera.arrived + 0 = 0
      BY <1>1, <1>4, <2>4
    <3> QED
      BY <1>3, <1>4, <2>4, <3>1
  <2>5. \/ camera'.frame = latest.frame /\ latest.part < camera'.part
        \/ camera'.frame = (latest.frame + 1) % 4 /\ camera'.arrived = 0
    BY <2>2, <2>3, <2>4
  <2> QED
    BY <2>5 DEF latest
<1>6. Gathered'
  BY <1>1, <1>5 DEF ImageInv, Gathered
<1> QED
  BY <1>2, <1>6 DEF ImageInv

LEMMA ImageStep == TypeOK /\ ImageInv /\ [Next]_vars => ImageInv'
<1> SUFFICES ASSUME TypeOK, ImageInv, [Next]_vars PROVE ImageInv'
  OBVIOUS
<1>1. CASE PacketLost \/ PacketArrives
  BY <1>1, LostKeepsImage, ArrivesKeepsImage
<1>2. CASE ~(PacketLost \/ PacketArrives)
  <2>1. UNCHANGED <<format, camera, delivered, assembly>>
    BY <1>2 DEF Next, Main, Stop, UsbThread, StartRuns, StartSubmits, StartFails, StartCounts,
                StopLocks, StopChecks, StopWaits, StopFrees, CallbackBegins, CallbackSubmits,
                CallbackRetries, CallbackWakes, ReleaseFrame, TransferEnds, vars, frameVars
  <2> QED
    BY <2>1 DEF ImageInv, Gathered, FrameOfOneImage
<1> QED
  BY <1>1, <1>2

\* What a delivered frame holds up to its data_size is of one image of the
\* camera and ends with its last packet, although one bit of frame id is all
\* that tells two frames apart, and whatever packets are lost but all of one
\* frame; a grey frame of a camera without end-of-frame bit has all of them.
THEOREM DeliversImages == Spec => []FrameOfOneImage
<1>1. Init => ImageInv
  <2> SUFFICES ASSUME Init PROVE ImageInv
    OBVIOUS
  <2>1. assembly.got = <<>> /\ delivered = <<>>
    BY DEF Init
  <2> QED
    BY <2>1 DEF ImageInv, Gathered, OneImage, FrameOfOneImage
<1>2. ImageInv => FrameOfOneImage
  BY DEF ImageInv
<1> QED
  BY <1>1, <1>2, TypeCorrect, ImageStep, PTL DEF Spec

-----------------------------------------------------------------------------
(***************************************************************************)
(* The search of a frame: what the devices claim.                          *)
(***************************************************************************)
\* A device that was not found stands on nothing; in the fast pass those to
\* come are not found yet; and a camera keeps the place it has.
SearchGoes ==
  /\ \A d \in Devices : ~found[d] => final[d] = {}
  /\ turn.phase = "fast" => \A d \in Devices : turn.dev <= d => ~found[d]
  /\ placed => haveCameraPose

SearchInv == ClaimsHold /\ SearchGoes

LEMMA DevicesCount ==
  /\ Devices \subseteq Nat /\ 0 \in Devices /\ None \notin Devices
  /\ \A d, e \in Devices : e < d => e + 1 \in Devices
<1> DEFINE n == Cardinality(Devices)
<1>1. n \in Nat /\ n # 0 /\ Devices = 0 .. n - 1
  BY SearchAssumption, FS_CardinalityType, FS_EmptySet DEF SearchAssumption
<1> HIDE DEF n
<1> QED
  BY <1>1 DEF None

LEMMA Limits ==
  /\ IsFiniteSet(Blobs) /\ MinMatched \in Nat /\ MinUnaided \in Nat
  /\ MinMatched <= MinUnaided
BY SearchAssumption DEF SearchAssumption

\* A pose that matches explains enough blobs.
LEMMA MatchIsEnough ==
  ASSUME NEW n \in Nat, NEW prior \in BOOLEAN, NEW must \in BOOLEAN,
         NEW f \in Flags(n, prior, must)
  PROVE  f \in {"none", "good", "strong"} /\ (IsMatch(f) => n >= MinMatched)
BY Limits DEF Flags, IsMatch

LEMMA SearchInitKeeps == SearchInit => SearchInv
<1> SUFFICES ASSUME SearchInit PROVE SearchInv
  OBVIOUS
<1>1. SearchTypeOK
  BY DevicesCount DEF SearchInit, SearchTypeOK
<1>2. UNION {final[d] : d \in Devices} = {}
  BY DEF SearchInit
<1>3. Cardinality({}) = 0
  BY FS_EmptySet
<1>4. FoundStands /\ LabelsEarned /\ LeftExact
  BY <1>2, <1>3 DEF SearchInit, FoundStands, LabelsEarned, LeftExact
<1>5. SearchGoes
  BY DEF SearchInit, SearchGoes
<1> QED
  BY <1>1, <1>4, <1>5 DEF SearchInv, ClaimsHold

-----------------------------------------------------------------------------
\* The turn goes on in order; once the fast pass is over it does not return.
LEMMA ProceedGoes ==
  ASSUME SearchTypeOK, Proceed
  PROVE  /\ turn' \in [phase : {"fast", "quick", "deep", "end"}, dev : Devices]
         /\ turn'.phase = "fast" => turn.phase = "fast" /\ turn'.dev = turn.dev + 1
<1>1. turn \in [phase : {"fast", "quick", "deep", "end"}, dev : Devices]
  BY DEF SearchTypeOK
<1>2. CASE turn.dev + 1 \in Devices
  BY <1>1, <1>2 DEF Proceed
<1>3. CASE turn.dev + 1 \notin Devices
  BY <1>1, <1>3, DevicesCount DEF Proceed
<1> QED
  BY <1>2, <1>3

LEMMA SkipKeeps == ASSUME SearchInv, SkipDevice PROVE SearchInv'
<1> USE DEF SearchInv, ClaimsHold
<1>0. /\ UNCHANGED <<label, brought, haveCameraPose, level, placed, score, found, final,
                     missing, used>>
      /\ Proceed
  BY DEF SkipDevice
<1>1. /\ turn' \in [phase : {"fast", "quick", "deep", "end"}, dev : Devices]
      /\ turn'.phase = "fast" => turn.phase = "fast" /\ turn'.dev = turn.dev + 1
  BY <1>0, ProceedGoes
<1>2. SearchTypeOK'
  <2>1. slot \in [Devices -> BOOLEAN]
    BY DEF SearchTypeOK
  <2>2. slot' \in [Devices -> BOOLEAN]
    BY <2>1 DEF SkipDevice
  <2> QED
    BY <1>0, <1>1, <2>2 DEF SearchTypeOK
<1>3. FoundStands' /\ LabelsEarned' /\ LeftExact'
  BY <1>0, <1>1 DEF FoundStands, LabelsEarned, LeftExact, LabelledBy
<1>4. SearchGoes'
  <2>1. turn.dev \in Nat /\ Devices \subseteq Nat
    BY DevicesCount DEF SearchTypeOK
  <2> QED
    BY <1>0, <1>1, <2>1 DEF SearchGoes
<1> QED
  BY <1>2, <1>3, <1>4

\* A search without a claim: of a device that was not found only the score
\* changes.
LEMMA NoClaimKeeps ==
  ASSUME SearchInv, NEW d \in Devices, ~found[d], d = turn.dev, NoClaim(d), Proceed,
         NEW f \in {"none", "good", "strong"}, score' = [score EXCEPT ![d] = f],
         missing' \in BOOLEAN
  PROVE  SearchInv'
<1> USE DEF SearchInv, ClaimsHold
<1>0. UNCHANGED <<label, brought, haveCameraPose, level, placed, slot, found, final, used>>
  BY DEF NoClaim
<1>1. /\ turn' \in [phase : {"fast", "quick", "deep", "end"}, dev : Devices]
      /\ turn'.phase = "fast" => turn.phase = "fast" /\ turn'.dev = turn.dev + 1
  BY ProceedGoes
<1>2. SearchTypeOK'
  BY <1>0, <1>1 DEF SearchTypeOK
<1>3. FoundStands'
  <2>1. \A e \in Devices : found[e] => score'[e] = score[e]
    BY DEF SearchTypeOK
  <2> QED
    BY <1>0, <2>1 DEF FoundStands, LabelledBy
<1>4. LabelsEarned' /\ LeftExact'
  BY <1>0, <1>1 DEF LabelsEarned, LeftExact
<1>5. SearchGoes'
  <2>1. turn.dev \in Nat /\ Devices \subseteq Nat
    BY DevicesCount DEF SearchTypeOK
  <2> QED
    BY <1>0, <1>1, <2>1 DEF SearchGoes
<1> QED
  BY <1>2, <1>3, <1>4, <1>5

-----------------------------------------------------------------------------
\* A claim: the device takes blobs that are free or its own, and what the
\* devices that were found before stand on stays theirs.
LEMMA ClaimKeeps ==
  ASSUME SearchInv, NEW d \in Devices, ~found[d], d = turn.dev, Claim(d), Proceed,
         missing' \in BOOLEAN
  PROVE  SearchInv'
<1> USE DEF SearchInv, ClaimsHold
<1>0. PICK own \in {o \in SUBSET Free(d) : Cardinality(o) >= MinMatched} :
        \E mine \in SUBSET own :
        \E f \in Flags(Cardinality(mine), haveCameraPose, FALSE), accepted \in BOOLEAN :
          ClaimOf(d, own, mine, f, accepted)
  BY DEF Claim
<1>1. PICK mine \in SUBSET own :
        \E f \in Flags(Cardinality(mine), haveCameraPose, FALSE), accepted \in BOOLEAN :
          ClaimOf(d, own, mine, f, accepted)
  BY <1>0
<1>2. PICK f \in Flags(Cardinality(mine), haveCameraPose, FALSE), accepted \in BOOLEAN :
        ClaimOf(d, own, mine, f, accepted)
  BY <1>1
<1> DEFINE knows == haveCameraPose \/ (d = 0 /\ level /\ IsMatch(f))
           keeps == IsMatch(f) /\ (accepted \/ ~knows)
           finds == IsMatch(f) /\ knows /\ accepted
<1>3. /\ label' = [b \in Blobs |-> IF keeps /\ b \in own THEN d ELSE Without(d)[b]]
      /\ score' = [score EXCEPT ![d] = f]
      /\ haveCameraPose' = knows
      /\ slot' = [slot EXCEPT ![d] = ~(IsMatch(f) /\ knows)]
      /\ found' = [found EXCEPT ![d] = finds]
      /\ final' = [final EXCEPT ![d] = IF finds THEN mine ELSE {}]
      /\ used' = IF turn.phase = "fast" /\ finds THEN used + Cardinality(mine) ELSE used
      /\ brought' = {b \in brought : label'[b] = label[b]}
      /\ UNCHANGED <<level, placed>>
  BY <1>2 DEF ClaimOf
<1>4. /\ own \subseteq Blobs /\ mine \subseteq own
      /\ \A b \in own : label[b] \in {None, d}
      /\ \A b \in Blobs : Without(d)[b] = IF label[b] = d THEN None ELSE label[b]
  BY DEF Free, Without
<1>5. /\ label \in [Blobs -> Labels] /\ brought \subseteq Blobs
      /\ haveCameraPose \in BOOLEAN /\ level \in BOOLEAN /\ placed \in BOOLEAN
      /\ slot \in [Devices -> BOOLEAN] /\ found \in [Devices -> BOOLEAN]
      /\ score \in [Devices -> {"none", "good", "strong"}]
      /\ final \in [Devices -> SUBSET Blobs] /\ used \in Nat
  BY DEF SearchTypeOK
<1>6. /\ IsFiniteSet(mine) /\ Cardinality(mine) \in Nat
      /\ f \in {"none", "good", "strong"}
      /\ finds => IsMatch(f) /\ Cardinality(mine) >= MinMatched
  <2>1. IsFiniteSet(mine)
    BY <1>4, Limits, FS_Subset
  <2>2. Cardinality(mine) \in Nat
    BY <2>1, FS_CardinalityType
  <2> QED
    BY <1>5, <2>1, <2>2, MatchIsEnough
<1>7. /\ finds \in BOOLEAN /\ knows \in BOOLEAN
      /\ keeps /\ ~finds => ~haveCameraPose
      /\ finds => keeps
  BY <1>5 DEF IsMatch
<1> HIDE DEF knows, keeps, finds
<1>8. /\ turn' \in [phase : {"fast", "quick", "deep", "end"}, dev : Devices]
      /\ turn'.phase = "fast" => turn.phase = "fast" /\ turn'.dev = turn.dev + 1
  BY ProceedGoes
<1>9. /\ \A b \in Blobs : label'[b] = IF keeps /\ b \in own THEN d
                                     ELSE IF label[b] = d THEN None ELSE label[b]
      /\ found'[d] = finds /\ score'[d] = f
      /\ final'[d] = IF finds THEN mine ELSE {}
      /\ \A e \in Devices \ {d} :
           found'[e] = found[e] /\ score'[e] = score[e] /\ final'[e] = final[e]
  BY <1>3, <1>4, <1>5
<1>10. SearchTypeOK'
  <2>1. label' \in [Blobs -> Labels]
    BY <1>3, <1>5, <1>9 DEF Labels
  <2>2. used' \in Nat
    BY <1>3, <1>5, <1>6
  <2>3. /\ score' \in [Devices -> {"none", "good", "strong"}]
        /\ slot' \in [Devices -> BOOLEAN] /\ found' \in [Devices -> BOOLEAN]
        /\ final' \in [Devices -> SUBSET Blobs]
    BY <1>3, <1>4, <1>5, <1>6, <1>7
  <2>4. brought' \subseteq Blobs /\ haveCameraPose' \in BOOLEAN
    BY <1>3, <1>5, <1>7
  <2> QED
    BY <1>3, <1>5, <1>8, <2>1, <2>2, <2>3, <2>4 DEF SearchTypeOK
\* The blobs another device stands on keep its label.
<1>11. \A e \in Devices \ {d}, b \in Blobs : label[b] = e => label'[b] = e /\ b \notin own
  BY <1>4, <1>9, DevicesCount
<1>12. FoundStands'
  <2> SUFFICES ASSUME NEW e \in Devices, found'[e]
               PROVE  /\ IsMatch(score'[e]) /\ Cardinality(final'[e]) >= MinMatched
                      /\ \A b \in final'[e] : b \in Blobs /\ label'[b] = e
    BY DEF FoundStands, LabelledBy
  <2>1. CASE e = d
    BY <1>4, <1>6, <1>7, <1>9, <2>1
  <2>2. CASE e # d
    <3>1. IsMatch(score[e]) /\ Cardinality(final[e]) >= MinMatched
      BY <1>9, <2>2 DEF FoundStands
    <3>2. \A b \in final[e] : b \in Blobs /\ label[b] = e
      BY <1>9, <2>2 DEF FoundStands, LabelledBy
    <3> QED
      BY <1>9, <1>11, <2>2, <3>1, <3>2
  <2> QED
    BY <2>1, <2>2
<1>13. LabelsEarned'
  <2> SUFFICES ASSUME NEW b \in Blobs, label'[b] # None, placed
               PROVE  b \in brought' \/ found'[label'[b]]
    BY <1>3 DEF LabelsEarned
  <2>1. CASE keeps /\ b \in own
    BY <1>7, <1>9, <2>1 DEF SearchGoes
  <2>2. CASE ~(keeps /\ b \in own)
    <3>1. label'[b] = label[b] /\ label[b] # d /\ label[b] \in Devices
      BY <1>5, <1>9, <2>2 DEF Labels
    <3>2. b \in brought \/ found[label[b]]
      BY <3>1 DEF LabelsEarned
    <3> QED
      BY <1>3, <1>9, <3>1, <3>2
  <2> QED
    BY <2>1, <2>2
<1>14. LeftExact'
  <2> SUFFICES ASSUME turn'.phase = "fast"
               PROVE  used' = Cardinality(UNION {final'[e] : e \in Devices})
    BY DEF LeftExact
  <2> DEFINE All == UNION {final[e] : e \in Devices}
  <2>1. turn.phase = "fast" /\ used = Cardinality(All)
    BY <1>8 DEF LeftExact
  <2>2. final[d] = {}
    BY DEF SearchGoes
  <2>3. CASE finds
    <3>1. UNION {final'[e] : e \in Devices} = All \cup mine
      BY <1>9, <2>2, <2>3
    <3>2. All \cap mine = {}
      <4> SUFFICES ASSUME NEW e \in Devices, NEW b \in final[e], b \in mine PROVE FALSE
        OBVIOUS
      <4>1. e # d /\ found[e]
        BY <2>2 DEF SearchGoes
      <4>2. b \in Blobs /\ label[b] = e
        BY <4>1 DEF FoundStands, LabelledBy
      <4> QED
        BY <1>4, <1>11, <4>1, <4>2
    <3>3. IsFiniteSet(All)
      <4>1. All \subseteq Blobs
        BY <1>5
      <4> QED
        BY <4>1, Limits, FS_Subset
    <3>4. Cardinality(All \cup mine) = Cardinality(All) + Cardinality(mine)
      <4>1. Cardinality(All \cup mine)
              = Cardinality(All) + Cardinality(mine) - Cardinality(All \cap mine)
        BY <1>6, <3>3, FS_Union
      <4>2. Cardinality(All \cap mine) = 0 /\ Cardinality(All) \in Nat
        BY <3>2, <3>3, FS_EmptySet, FS_CardinalityType
      <4> HIDE DEF All
      <4> QED
        BY <1>6, <4>1, <4>2
    <3> HIDE DEF All
    <3> QED
      BY <1>3, <2>1, <2>3, <3>1, <3>4
  <2>4. CASE ~finds
    <3>1. UNION {final'[e] : e \in Devices} = All
      BY <1>9, <2>2, <2>4
    <3> QED
      BY <1>3, <2>1, <2>4, <3>1
  <2> QED
    BY <2>3, <2>4
<1>15. SearchGoes'
  <2>1. \A e \in Devices : ~found'[e] => final'[e] = {}
    BY <1>9 DEF SearchGoes
  <2>2. turn'.phase = "fast" => \A e \in Devices : turn'.dev <= e => ~found'[e]
    <3>1. turn.dev \in Nat /\ Devices \subseteq Nat
      BY DevicesCount DEF SearchTypeOK
    <3> QED
      BY <1>8, <1>9, <3>1 DEF SearchGoes
  <2>3. placed' => haveCameraPose'
    BY <1>3 DEF SearchGoes, knows
  <2> QED
    BY <2>1, <2>2, <2>3 DEF SearchGoes
<1> QED
  BY <1>10, <1>12, <1>13, <1>14, <1>15

-----------------------------------------------------------------------------
LEMMA FastKeeps == ASSUME SearchInv, FastDevice PROVE SearchInv'
<1> DEFINE d == turn.dev
           priors == Flags(Cardinality(Free(d)), TRUE, TRUE)
<1>1. d \in Devices /\ ~found[d]
  <2>1. d \in Devices /\ d \in Nat
    BY DevicesCount DEF SearchInv, ClaimsHold, SearchTypeOK
  <2> QED
    BY <2>1 DEF FastDevice, SearchInv, SearchGoes
<1>2. /\ Claim(d) \/ (NoClaim(d) /\ score' = [score EXCEPT ![d] = "none"])
      /\ missing' = (missing \/ ~found'[d]) /\ Proceed
  BY DEF FastDevice
<1>3. missing' \in BOOLEAN
  BY <1>2 DEF SearchInv, ClaimsHold, SearchTypeOK
<1> QED
  BY <1>1, <1>2, <1>3, ClaimKeeps, NoClaimKeeps

LEMMA LongKeeps == ASSUME SearchInv, LongDevice PROVE SearchInv'
<1> DEFINE d == turn.dev
<1>1. d \in Devices /\ ~found[d] /\ missing' \in BOOLEAN
  BY DEF LongDevice, SearchInv, ClaimsHold, SearchTypeOK
<1>2. PICK f \in Flags(Cardinality(Free(d)), haveCameraPose, FALSE) :
        Claim(d) \/ (NoClaim(d) /\ score' = [score EXCEPT ![d] = f])
  BY DEF LongDevice
<1>3. f \in {"none", "good", "strong"}
  BY DEF Flags
<1>4. Proceed
  BY DEF LongDevice
<1> QED
  BY <1>1, <1>2, <1>3, <1>4, ClaimKeeps, NoClaimKeeps

LEMMA SearchNextKeeps == SearchInv /\ [SearchNext]_searchVars => SearchInv'
<1> SUFFICES ASSUME SearchInv, [SearchNext]_searchVars PROVE SearchInv'
  OBVIOUS
<1>1. CASE UNCHANGED searchVars
  BY <1>1 DEF searchVars, SearchInv, ClaimsHold, SearchTypeOK, FoundStands, LabelsEarned,
              LeftExact, SearchGoes, LabelledBy
<1> QED
  BY <1>1, SkipKeeps, FastKeeps, LongKeeps DEF SearchNext

\* The inductive invariant of the search of a frame.
THEOREM SearchInductive == SearchSpec => []SearchInv
<1> QED
  BY SearchInitKeeps, SearchNextKeeps, PTL DEF SearchSpec

\* A device that was found stands on enough blobs that bear its name, whatever
\* is searched for after it, a failed attempt leaves no label behind, and the
\* fast pass counts each explained blob once, for any number of devices and
\* blobs and any thresholds.
THEOREM ClaimsStand == SearchSpec => []ClaimsHold
<1> QED
  BY SearchInductive, PTL DEF SearchInv

-----------------------------------------------------------------------------
(***************************************************************************)
(* The ids and labels of blobs.                                            *)
(***************************************************************************)
Poses == [dev : Targets, mark : 1 .. MaxMarks]
Blob == [blob_id : Nat \ {0}, light : Lights, at : Places, v : Int, label : BlobLabels]
FastPlaces == {"idle", "match", "copy", "found", "mark", "decide"}
LongPlaces == {"idle", "search", "mark", "decide", "transfer"}

TracksTypes ==
  /\ blobs \in [Observations -> Seq(Blob)]
  /\ observation_q \in Seq(Observations)
  /\ last \in Observations \cup {NoObs}
  /\ next_blob_id \in Nat \ {0}
  /\ fast = [at |-> fast.at, ob |-> fast.ob, m |-> fast.m, i |-> fast.i, pose |-> fast.pose]
  /\ fast.at \in FastPlaces /\ fast.i \in Nat \ {0}
  /\ fast.ob \in Observations \cup {NoObs}
  /\ fast.at \in {"mark", "decide"} => fast.pose \in Poses
  /\ long = [at |-> long.at, ob |-> long.ob, into |-> long.into, pose |-> long.pose]
  /\ long.at \in LongPlaces
  /\ long.ob \in Observations \cup {NoObs}
  /\ long.at \in {"mark", "decide", "transfer"} => long.pose \in Poses
  /\ marks \in 0 .. MaxMarks
  /\ strayed \subseteq Nat /\ torn \in BOOLEAN

\* An observation is free or with one of the threads; and the last one, which
\* may be anywhere, is not the next to be filled.
PoolKept ==
  /\ IsInjective(observation_q)
  /\ \A o \in ToSet(observation_q) : o # fast.ob /\ o # long.ob
  /\ fast.ob = NoObs <=> fast.at = "idle"
  /\ long.ob = NoObs <=> long.at = "idle"
  /\ fast.ob = long.ob => fast.ob = NoObs
  /\ Len(observation_q) =
       3 - (IF fast.ob = NoObs THEN 0 ELSE 1) - (IF long.ob = NoObs THEN 0 ELSE 1)

LastPlaced ==
  /\ fast.at = "idle" /\ last # NoObs => Head(observation_q) # last
  /\ fast.at \in {"match", "copy"} => last # NoObs /\ fast.ob # last
  /\ fast.at \in {"found", "mark", "decide"} => last = fast.ob
  /\ long.at # "idle" => last # NoObs
  /\ long.at = "transfer" =>
       /\ long.into \in Observations /\ long.into # long.ob
       /\ fast.at \in {"idle", "match", "copy"} => long.into = last

IdsBelow ==
  \A o \in Observations : \A i \in DOMAIN blobs[o] : blobs[o][i].blob_id < next_blob_id

\* An id that no blob of another light was given is of one light.
IdsOfOneLight ==
  \A o, p \in Observations : \A i \in DOMAIN blobs[o], k \in DOMAIN blobs[p] :
    blobs[o][i].blob_id = blobs[p][k].blob_id /\ blobs[o][i].blob_id \notin strayed =>
      blobs[o][i].light = blobs[p][k].light

\* The blobs at hand, and the distance of one from where one was expected.
New == blobs[fast.ob]
Old == blobs[last]
Gap(a, b) == distsq(Where(New), Expected(Old), a, b)

\* Each is closer to the other than any other is.
Mutual(i, j) ==
  /\ \A k \in DOMAIN New \ {i} : Gap(i, j) < Gap(k, j)
  /\ \A k \in DOMAIN Old \ {j} : Gap(i, j) < Gap(i, k)

\* The matches are pairs, and those that are closest to each other are matched
\* once the scan has come to them.
MatchTypes ==
  /\ fast.m = [closest_ob |-> fast.m.closest_ob, closest_last_ob |-> fast.m.closest_last_ob,
               closest_last_ob_distsq |-> fast.m.closest_last_ob_distsq,
               scan_again |-> fast.m.scan_again]
  /\ fast.m.closest_ob \in [DOMAIN New -> {0} \cup DOMAIN Old]
  /\ fast.m.closest_last_ob \in [DOMAIN Old -> {0} \cup DOMAIN New]
  /\ fast.m.closest_last_ob_distsq \in [DOMAIN Old -> Int]
  /\ fast.m.scan_again \in BOOLEAN

Paired ==
  LET m == fast.m
  IN  /\ \A i \in DOMAIN New : m.closest_ob[i] # 0 => m.closest_last_ob[m.closest_ob[i]] = i
      /\ \A j \in DOMAIN Old : m.closest_last_ob[j] # 0 =>
           /\ m.closest_ob[m.closest_last_ob[j]] = j
           /\ m.closest_last_ob_distsq[j] = Gap(m.closest_last_ob[j], j)

\* What would be closer to a matched blob than its match is as close to another;
\* and once a scan has come to a blob without taking a match from any, that
\* holds also for those that found none.
Taken(i, j) ==
  fast.m.closest_last_ob[j] # 0 /\ fast.m.closest_last_ob_distsq[j] <= Gap(i, j)

NoBetter ==
  /\ fast.at = "copy" => ~fast.m.scan_again
  /\ LET ob == fast.m.closest_ob
     IN  \A i \in DOMAIN New, j \in DOMAIN Old :
           /\ ob[i] # 0 /\ Gap(i, j) < Gap(i, ob[i]) => Taken(i, j)
           /\ ob[i] = 0 /\ ~fast.m.scan_again /\ (fast.at = "copy" \/ i < fast.i) => Taken(i, j)

MutualMatched ==
  \A i \in DOMAIN New, j \in DOMAIN Old : Mutual(i, j) =>
    /\ fast.m.closest_ob[i] \in {0, j}
    /\ fast.at = "copy" \/ i < fast.i => fast.m.closest_ob[i] = j

\* A blob has the id of its match, or a new one that no blob of the last
\* observation has.
IdsHandedOn ==
  \A i \in DOMAIN New :
    IF fast.at = "copy" /\ i < fast.i /\ fast.m.closest_ob[i] # 0
    THEN New[i].blob_id = Old[fast.m.closest_ob[i]].blob_id
    ELSE \A j \in DOMAIN Old : Old[j].blob_id < New[i].blob_id

\* So with the labels, unless both threads are at those of the last observation.
LabelsHandedOn ==
  /\ fast.at = "match" => \A i \in DOMAIN New : New[i].label = NoLabel
  /\ ~torn => \A i \in DOMAIN New :
       New[i].label = NoLabel \/ \E j \in DOMAIN Old : New[i].label = Old[j].label

Matching ==
  fast.at \in {"match", "copy"} =>
    MatchTypes /\ Paired /\ MutualMatched /\ NoBetter /\ IdsHandedOn /\ LabelsHandedOn

\* The labels of one device in an observation are of one pose, and while a
\* device is about to get new ones it has none.
OnePose(ob) ==
  \A i, k \in DOMAIN ob :
    ob[i].label # NoLabel /\ ob[k].label # NoLabel /\ ob[i].label.dev = ob[k].label.dev =>
      ob[i].label.mark = ob[k].label.mark
NoneOf(ob, dev) == \A i \in DOMAIN ob : ob[i].label.dev # dev

PosesKept ==
  /\ FastUses \cap LongUses # {} => torn
  /\ ~torn =>
       /\ \A o \in Observations : OnePose(blobs[o])
       /\ fast.at = "mark" => NoneOf(blobs[fast.ob], fast.pose.dev)
       /\ long.at = "mark" => NoneOf(blobs[long.ob], long.pose.dev)
       /\ long.at = "transfer" => NoneOf(blobs[long.into], long.pose.dev)

TracksInv ==
  /\ TracksTypes /\ PoolKept /\ LastPlaced
  /\ IdsBelow /\ IdsUnique /\ IdsOfOneLight /\ Matching
  /\ LabelOnItsLight /\ PosesKept

-----------------------------------------------------------------------------
(***************************************************************************)
(* What a new label leaves as it is.                                       *)
(***************************************************************************)
SameButLabels(a, b) ==
  /\ DOMAIN b = DOMAIN a
  /\ \A i \in DOMAIN a : b[i] = [a[i] EXCEPT !.label = b[i].label]

\* The light of a label, but for the blobs whose id strayed.
LightsRight(ob) ==
  \A i \in DOMAIN ob :
    ob[i].label # NoLabel /\ ob[i].blob_id \notin strayed => ob[i].label.light = ob[i].light

LEMMA SequenceOf ==
  ASSUME NEW S, NEW n \in Nat, NEW f \in [1 .. n -> S]
  PROVE  f \in Seq(S) /\ Len(f) = n /\ DOMAIN f = 1 .. n
  OBVIOUS

LEMMA SameInSeq ==
  ASSUME NEW a \in Seq(Blob), NEW b, b = [i \in DOMAIN a |-> b[i]],
         \A i \in DOMAIN a : b[i] \in Blob /\ b[i] = [a[i] EXCEPT !.label = b[i].label]
  PROVE  b \in Seq(Blob) /\ SameButLabels(a, b)
<1>1. b \in [1 .. Len(a) -> Blob] /\ Len(a) \in Nat
  OBVIOUS
<1> QED
  BY <1>1, SequenceOf DEF SameButLabels

LEMMA BlobFields ==
  ASSUME NEW b \in Blob, NEW x \in BlobLabels
  PROVE  /\ [b EXCEPT !.label = x] \in Blob
         /\ [b EXCEPT !.label = x].label = x
         /\ [[b EXCEPT !.label = x] EXCEPT !.label = [b EXCEPT !.label = x].label]
              = [b EXCEPT !.label = x]
         /\ b = [b EXCEPT !.label = b.label]
         /\ b.label \in BlobLabels
         /\ NoLabel \in BlobLabels
  BY DEF Blob, BlobLabels

LEMMA LabelFields ==
  ASSUME NEW x \in BlobLabels
  PROVE  /\ x.dev = NoObs <=> x = NoLabel
         /\ x # NoLabel => x.dev \in Targets /\ x.mark \in 1 .. MaxMarks /\ x.light \in Lights
         /\ NoLabel.dev = NoObs /\ NoObs \notin Targets
  BY TracksAssumption DEF BlobLabels, NoLabel, NoObs

LEMMA ClearedSame ==
  ASSUME NEW ob \in Seq(Blob), NEW dev \in Targets
  PROVE  /\ Cleared(ob, dev) \in Seq(Blob) /\ SameButLabels(ob, Cleared(ob, dev))
         /\ NoneOf(Cleared(ob, dev), dev)
         /\ OnePose(ob) => OnePose(Cleared(ob, dev))
         /\ \A d \in Targets : NoneOf(ob, d) => NoneOf(Cleared(ob, dev), d)
         /\ LightsRight(ob) => LightsRight(Cleared(ob, dev))
<1> DEFINE c == Cleared(ob, dev)
<1>1. \A i \in DOMAIN ob : ob[i] \in Blob
  OBVIOUS
<1>2. c = [i \in DOMAIN ob |-> c[i]]
      /\ \A i \in DOMAIN ob :
           c[i] = IF ob[i].label.dev = dev THEN [ob[i] EXCEPT !.label = NoLabel] ELSE ob[i]
  BY DEF Cleared
<1>3. ASSUME NEW i \in DOMAIN ob
      PROVE  /\ c[i] \in Blob /\ c[i] = [ob[i] EXCEPT !.label = c[i].label]
             /\ c[i].label \in {NoLabel, ob[i].label} /\ c[i].label.dev # dev
             /\ c[i].blob_id = ob[i].blob_id /\ c[i].light = ob[i].light
  <2>0. ob[i] \in Blob /\ NoLabel \in BlobLabels
    BY <1>1 DEF BlobLabels
  <2>1. CASE ob[i].label.dev = dev
    <3>1. c[i] = [ob[i] EXCEPT !.label = NoLabel]
      BY <2>1, <1>2
    <3>2. c[i].label = NoLabel
      BY <3>1, <2>0 DEF Blob
    <3>3. NoLabel.dev # dev
      BY LabelFields, <2>0
    <3>4. c[i].blob_id = ob[i].blob_id /\ c[i].light = ob[i].light
      BY <3>1, <2>0 DEF Blob
    <3>5. c[i] \in Blob
      <4>1. [ob[i] EXCEPT !.label = NoLabel] \in Blob
        BY <2>0, BlobFields
      <4> QED
        BY <3>1, <4>1, Zenon
    <3>6. c[i] = [ob[i] EXCEPT !.label = c[i].label]
      BY <3>1, <3>2, Zenon
    <3> QED
      BY <3>2, <3>3, <3>4, <3>5, <3>6
  <2>2. CASE ob[i].label.dev # dev
    BY <2>0, <2>2, <1>2, BlobFields
  <2> QED
    BY <2>1, <2>2
<1>4. c \in Seq(Blob) /\ SameButLabels(ob, c)
  BY <1>2, <1>3, SameInSeq
<1>5. DOMAIN c = DOMAIN ob
  BY <1>4 DEF SameButLabels
<1>6. NoneOf(c, dev)
  BY <1>3, <1>5 DEF NoneOf
<1>7. OnePose(ob) => OnePose(c)
  BY <1>3, <1>5 DEF OnePose
<1>8. ASSUME NEW d \in Targets, NoneOf(ob, d)  PROVE NoneOf(c, d)
  <2>1. d # NoLabel.dev
    BY TracksAssumption DEF NoLabel, NoObs
  <2>2. ASSUME NEW i \in DOMAIN ob  PROVE c[i].label.dev # d
    BY <1>3, <1>8, <2>1 DEF NoneOf
  <2> QED
    BY <1>5, <2>2 DEF NoneOf
<1>9. LightsRight(ob) => LightsRight(c)
  BY <1>3, <1>5 DEF LightsRight
<1> HIDE DEF c
<1> QED
  BY <1>4, <1>6, <1>7, <1>8, <1>9 DEF c

LEMMA MarkedSame ==
  ASSUME NEW ob \in Seq(Blob), NEW pose \in Poses, NEW ps
  PROVE  /\ Marked(ob, pose, ps) \in Seq(Blob) /\ SameButLabels(ob, Marked(ob, pose, ps))
         /\ OnePose(ob) /\ NoneOf(ob, pose.dev) => OnePose(Marked(ob, pose, ps))
         /\ LightsRight(ob) => LightsRight(Marked(ob, pose, ps))
<1> DEFINE c == Marked(ob, pose, ps)
           given(i) == [dev |-> pose.dev, mark |-> pose.mark, light |-> ob[i].light]
<1>1. \A i \in DOMAIN ob : ob[i] \in Blob
  OBVIOUS
<1>2. c = [i \in DOMAIN ob |-> c[i]]
      /\ \A i \in DOMAIN ob :
           c[i] = IF ob[i].label.dev \in {0, pose.dev} /\ ob[i].at \in ps
                  THEN [ob[i] EXCEPT !.label = given(i)] ELSE ob[i]
  BY DEF Marked
<1>3. ASSUME NEW i \in DOMAIN ob
      PROVE  /\ c[i] \in Blob /\ c[i] = [ob[i] EXCEPT !.label = c[i].label]
             /\ c[i].label \in {given(i), ob[i].label}
             /\ c[i].blob_id = ob[i].blob_id /\ c[i].light = ob[i].light
  <2>0. ob[i] \in Blob /\ given(i) \in BlobLabels
    BY <1>1 DEF BlobLabels, Poses, Blob
  <2>1. CASE ob[i].label.dev \in {0, pose.dev} /\ ob[i].at \in ps
    <3>1. c[i] = [ob[i] EXCEPT !.label = given(i)]
      BY <2>1, <1>2
    <3> HIDE DEF given
    <3>2. [ob[i] EXCEPT !.label = given(i)].label = given(i)
      BY <2>0, BlobFields
    <3>3. c[i].label = given(i)
      BY <3>1, <3>2, Zenon
    <3> QED
      BY <2>0, <3>1, <3>3, BlobFields DEF Blob
  <2>2. CASE ~(ob[i].label.dev \in {0, pose.dev} /\ ob[i].at \in ps)
    <3>1. c[i] = ob[i]
      BY <2>2, <1>2
    <3> QED
      BY <3>1, <2>0, BlobFields
  <2> QED
    BY <2>1, <2>2
<1>4. c \in Seq(Blob) /\ SameButLabels(ob, c)
  BY <1>2, <1>3, SameInSeq
<1>5. DOMAIN c = DOMAIN ob
  BY <1>4 DEF SameButLabels
<1>6. ASSUME OnePose(ob), NoneOf(ob, pose.dev)  PROVE OnePose(c)
  <2> SUFFICES ASSUME NEW i \in DOMAIN ob, NEW k \in DOMAIN ob, c[i].label.dev = c[k].label.dev,
                      c[i].label # NoLabel, c[k].label # NoLabel
               PROVE  c[i].label.mark = c[k].label.mark
    BY <1>5 DEF OnePose
  <2>1. given(i).dev = pose.dev /\ given(i).mark = pose.mark
        /\ given(k).dev = pose.dev /\ given(k).mark = pose.mark
    OBVIOUS
  <2>2. ob[i].label.dev # pose.dev /\ ob[k].label.dev # pose.dev
    BY <1>6 DEF NoneOf
  <2>3. c[i].label \in {given(i), ob[i].label} /\ c[k].label \in {given(k), ob[k].label}
    BY <1>3
  <2> HIDE DEF given
  <2> QED
    BY <1>6, <2>1, <2>2, <2>3 DEF OnePose
<1>7. ASSUME LightsRight(ob)  PROVE LightsRight(c)
  <2> SUFFICES ASSUME NEW i \in DOMAIN ob, c[i].label # NoLabel, c[i].blob_id \notin strayed
               PROVE  c[i].label.light = c[i].light
    BY <1>5 DEF LightsRight
  <2>1. given(i).light = ob[i].light
    OBVIOUS
  <2>2. c[i].label \in {given(i), ob[i].label} /\ c[i].blob_id = ob[i].blob_id
        /\ c[i].light = ob[i].light
    BY <1>3
  <2> HIDE DEF given
  <2> QED
    BY <1>7, <2>1, <2>2 DEF LightsRight
<1> HIDE DEF c
<1> QED
  BY <1>4, <1>6, <1>7 DEF c

\* Labels that move by id get to blobs of their light.
LEMMA TransferredSame ==
  ASSUME NEW new \in Seq(Blob), NEW ob \in Seq(Blob), NEW dev \in Targets
  PROVE  /\ Transferred(new, ob, dev) \in Seq(Blob) /\ SameButLabels(new, Transferred(new, ob, dev))
         /\ OnePose(new) /\ NoneOf(new, dev) /\ OnePose(ob) => OnePose(Transferred(new, ob, dev))
         /\ LightsRight(new) /\ LightsRight(ob)
            /\ (\A i \in DOMAIN ob, l \in DOMAIN new :
                  ob[i].blob_id = new[l].blob_id /\ new[l].blob_id \notin strayed =>
                    ob[i].light = new[l].light)
            => LightsRight(Transferred(new, ob, dev))
<1> DEFINE c == Transferred(new, ob, dev)
           from(l) == {i \in DOMAIN ob : ob[i].blob_id = new[l].blob_id /\ ob[i].label.dev = dev}
           moved(l) == CHOOSE i \in from(l) : TRUE
<1>1. (\A i \in DOMAIN ob : ob[i] \in Blob) /\ (\A l \in DOMAIN new : new[l] \in Blob)
  OBVIOUS
<1>2. c = [l \in DOMAIN new |-> c[l]]
      /\ \A l \in DOMAIN new :
           c[l] = IF from(l) = {} THEN new[l] ELSE [new[l] EXCEPT !.label = ob[moved(l)].label]
  BY DEF Transferred
<1>3. ASSUME NEW l \in DOMAIN new
      PROVE  /\ c[l] \in Blob /\ c[l] = [new[l] EXCEPT !.label = c[l].label]
             /\ \/ c[l].label = new[l].label
                \/ \E i \in DOMAIN ob : /\ c[l].label = ob[i].label /\ ob[i].label.dev = dev
                                        /\ ob[i].blob_id = new[l].blob_id
             /\ c[l].blob_id = new[l].blob_id /\ c[l].light = new[l].light
  <2>1. CASE from(l) = {}
    <3>1. c[l] = new[l] /\ new[l] \in Blob
      BY <1>1, <2>1, <1>2
    <3>2. new[l] = [new[l] EXCEPT !.label = new[l].label]
      BY <3>1 DEF Blob
    <3> HIDE DEF c
    <3> QED
      BY <3>1, <3>2
  <2>2. CASE from(l) # {}
    <3>1. c[l] = [new[l] EXCEPT !.label = ob[moved(l)].label]
      BY <2>2, <1>2
    <3>2. moved(l) \in from(l)
      BY <2>2
    <3>3. moved(l) \in DOMAIN ob /\ ob[moved(l)].blob_id = new[l].blob_id
          /\ ob[moved(l)].label.dev = dev
      BY <3>2
    <3> HIDE DEF moved, from
    <3>4. ob[moved(l)].label \in BlobLabels
      BY <1>1, <3>3 DEF Blob
    <3>5. c[l].label = ob[moved(l)].label
      BY <1>1, <3>1, <3>4 DEF Blob
    <3> QED
      BY <1>1, <3>1, <3>3, <3>4, <3>5, BlobFields DEF Blob
  <2> QED
    BY <2>1, <2>2
<1>4. c \in Seq(Blob) /\ SameButLabels(new, c)
  BY <1>2, <1>3, SameInSeq
<1>5. DOMAIN c = DOMAIN new
  BY <1>4 DEF SameButLabels
<1>6. ASSUME OnePose(new), NoneOf(new, dev), OnePose(ob)  PROVE OnePose(c)
  <2> HIDE DEF c
  <2> SUFFICES ASSUME NEW l \in DOMAIN new, NEW k \in DOMAIN new, c[l].label.dev = c[k].label.dev,
                      c[l].label # NoLabel, c[k].label # NoLabel
               PROVE  c[l].label.mark = c[k].label.mark
    BY <1>5 DEF OnePose
  <2>1. CASE c[l].label = new[l].label /\ c[k].label = new[k].label
    BY <1>6, <2>1 DEF OnePose
  <2>2. CASE ~(c[l].label = new[l].label /\ c[k].label = new[k].label)
    <3>1. c[l].label.dev = dev \/ c[k].label.dev = dev
      BY <1>3, <2>2
    <3>2. c[l].label # new[l].label \/ new[l].label.dev # dev
      BY <1>6 DEF NoneOf
    <3>3. c[k].label # new[k].label \/ new[k].label.dev # dev
      BY <1>6 DEF NoneOf
    <3>4. PICK i \in DOMAIN ob : c[l].label = ob[i].label
      BY <1>3, <3>1, <3>2
    <3>5. PICK j \in DOMAIN ob : c[k].label = ob[j].label
      BY <1>3, <3>1, <3>3
    <3> QED
      BY <1>6, <3>4, <3>5 DEF OnePose
  <2> QED
    BY <2>1, <2>2
<1>7. ASSUME LightsRight(new), LightsRight(ob),
             \A i \in DOMAIN ob, l \in DOMAIN new :
               ob[i].blob_id = new[l].blob_id /\ new[l].blob_id \notin strayed =>
                 ob[i].light = new[l].light
      PROVE  LightsRight(c)
  BY <1>3, <1>5, <1>7 DEF LightsRight
<1> HIDE DEF c
<1> QED
  BY <1>4, <1>6, <1>7 DEF c

-----------------------------------------------------------------------------
(***************************************************************************)
(* Steps that change labels only.                                          *)
(***************************************************************************)
\* An observation keeps its blobs but for their labels.
KeepsBlobs(o) ==
  /\ DOMAIN blobs'[o] = DOMAIN blobs[o]
  /\ \A i \in DOMAIN blobs[o] :
       /\ blobs'[o][i].blob_id = blobs[o][i].blob_id /\ blobs'[o][i].light = blobs[o][i].light
       /\ blobs'[o][i].at = blobs[o][i].at /\ blobs'[o][i].v = blobs[o][i].v

LEMMA RelabelKeepsBlobs ==
  ASSUME TracksInv, NEW o \in Observations, NEW ob \in Seq(Blob), SameButLabels(blobs[o], ob),
         blobs' = [blobs EXCEPT ![o] = ob]
  PROVE  /\ blobs' \in [Observations -> Seq(Blob)]
         /\ \A p \in Observations : KeepsBlobs(p)
         /\ blobs'[o] = ob /\ \A p \in Observations \ {o} : blobs'[p] = blobs[p]
<1>1. blobs \in [Observations -> Seq(Blob)]
  BY DEF TracksInv, TracksTypes
<1>2. blobs' \in [Observations -> Seq(Blob)] /\ blobs'[o] = ob
      /\ \A p \in Observations \ {o} : blobs'[p] = blobs[p]
  BY <1>1
<1>3. DOMAIN ob = DOMAIN blobs[o] /\ \A i \in DOMAIN ob : blobs[o][i] \in Blob
  BY <1>1 DEF SameButLabels
<1>4. ASSUME NEW i \in DOMAIN ob
      PROVE  /\ ob[i].blob_id = blobs[o][i].blob_id /\ ob[i].light = blobs[o][i].light
             /\ ob[i].at = blobs[o][i].at /\ ob[i].v = blobs[o][i].v
  <2>1. blobs[o][i] \in Blob /\ ob[i] = [blobs[o][i] EXCEPT !.label = ob[i].label]
    BY <1>3 DEF SameButLabels
  <2> QED
    BY <2>1 DEF Blob
<1>5. KeepsBlobs(o)
  BY <1>2, <1>3, <1>4 DEF KeepsBlobs
<1>6. \A p \in Observations \ {o} : KeepsBlobs(p)
  BY <1>2 DEF KeepsBlobs
<1> QED
  BY <1>2, <1>5, <1>6

LEMMA RelabelKeepsIds ==
  ASSUME TracksInv, \A p \in Observations : KeepsBlobs(p), UNCHANGED <<next_blob_id, strayed>>
  PROVE  IdsBelow' /\ IdsUnique' /\ IdsOfOneLight'
<1>1. IdsBelow'
  BY DEF TracksInv, IdsBelow, KeepsBlobs
<1>2. IdsUnique'
  BY DEF TracksInv, IdsUnique, KeepsBlobs
<1>3. IdsOfOneLight'
  BY DEF TracksInv, IdsOfOneLight, KeepsBlobs
<1> QED
  BY <1>1, <1>2, <1>3

LEMMA RelabelKeepsLights ==
  ASSUME TracksInv, NEW o \in Observations, NEW ob \in Seq(Blob), LightsRight(ob),
         blobs' = [blobs EXCEPT ![o] = ob], strayed' = strayed
  PROVE  LabelOnItsLight'
<1>1. blobs \in [Observations -> Seq(Blob)]
  BY DEF TracksInv, TracksTypes
<1> QED
  BY <1>1 DEF TracksInv, LabelOnItsLight, LightsRight

LEMMA LightsOf ==
  ASSUME TracksInv, NEW o \in Observations
  PROVE  LightsRight(blobs[o]) /\ blobs[o] \in Seq(Blob)
  BY DEF TracksInv, TracksTypes, LabelOnItsLight, LightsRight

\* The matching goes by places and ids.
LEMMA MatchingStays ==
  ASSUME TracksInv, fast.at \in {"match", "copy"}, fast' = fast, last' = last,
         \A p \in Observations : KeepsBlobs(p)
  PROVE  MatchTypes' /\ Paired' /\ MutualMatched' /\ NoBetter' /\ IdsHandedOn'
<1>1. fast.ob \in Observations /\ last \in Observations
  BY DEF TracksInv, TracksTypes, PoolKept, LastPlaced
<1>2. KeepsBlobs(fast.ob) /\ KeepsBlobs(last)
  BY <1>1
<1>3. DOMAIN New' = DOMAIN New /\ DOMAIN Old' = DOMAIN Old
  BY <1>2 DEF KeepsBlobs, New, Old
<1>4. Where(New)' = Where(New) /\ Expected(Old)' = Expected(Old)
  BY <1>2 DEF KeepsBlobs, New, Old, Where, Expected
<1>5. \A i, j : Gap(i, j)' = Gap(i, j)
  BY <1>4 DEF Gap, distsq
<1>6. MatchTypes /\ Paired /\ MutualMatched /\ NoBetter /\ IdsHandedOn
  BY DEF TracksInv, Matching
<1>7. MatchTypes'
  BY <1>3, <1>6 DEF MatchTypes
<1>8. Paired'
  BY <1>3, <1>5, <1>6 DEF Paired
<1>9. MutualMatched'
  BY <1>3, <1>5, <1>6 DEF MutualMatched, Mutual
<1>11. NoBetter'
  BY <1>3, <1>5, <1>6 DEF NoBetter, Taken, MatchTypes
<1>10. IdsHandedOn'
  BY <1>2, <1>3, <1>6, <1>1 DEF IdsHandedOn, KeepsBlobs, New, Old, MatchTypes
<1> QED
  BY <1>7, <1>8, <1>9, <1>10, <1>11

\* All but what is said of poses.
Tracked ==
  /\ TracksTypes /\ PoolKept /\ LastPlaced
  /\ IdsBelow /\ IdsUnique /\ IdsOfOneLight /\ Matching
  /\ LabelOnItsLight

\* What a step has to keep of the poses.  torn is set if both threads are at
\* the labels of one observation then.
Tears == torn' = (torn \/ FastUses' \cap LongUses' # {})

LEMMA TornSays ==
  ASSUME TracksInv, Tears
  PROVE  /\ torn' \in BOOLEAN /\ (torn => torn')
         /\ FastUses' \cap LongUses' # {} => torn'
         /\ ~torn => FastUses \cap LongUses = {}
         /\ ~torn' => ~torn /\ FastUses' \cap LongUses' = {}
  BY DEF TracksInv, TracksTypes, PosesKept, Tears

LEMMA FastRelabels ==
  ASSUME TracksInv, fast.at \in {"found", "mark", "decide"},
         NEW ob \in Seq(Blob), SameButLabels(blobs[fast.ob], ob), LightsRight(ob),
         blobs' = [blobs EXCEPT ![fast.ob] = ob],
         NEW at \in {"found", "mark", "decide"}, NEW pose, at \in {"mark", "decide"} => pose \in Poses,
         fast' = [fast EXCEPT !.at = at, !.pose = pose],
         marks' \in 0 .. MaxMarks, torn' \in BOOLEAN,
         UNCHANGED <<observation_q, last, next_blob_id, long, strayed>>
  PROVE  /\ Tracked' /\ blobs'[fast.ob] = ob /\ fast.ob \in Observations
         /\ \A p \in Observations \ {fast.ob} : blobs'[p] = blobs[p]
         /\ fast'.at = at /\ fast'.ob = fast.ob /\ fast'.pose = pose
<1>1. fast.ob \in Observations
  BY DEF TracksInv, TracksTypes, PoolKept
<1>2. /\ blobs' \in [Observations -> Seq(Blob)]
      /\ \A p \in Observations : KeepsBlobs(p)
      /\ blobs'[fast.ob] = ob /\ \A p \in Observations \ {fast.ob} : blobs'[p] = blobs[p]
  BY <1>1, RelabelKeepsBlobs
<1>3. IdsBelow' /\ IdsUnique' /\ IdsOfOneLight'
  BY <1>2, RelabelKeepsIds
<1>4. LabelOnItsLight'
  BY <1>1, RelabelKeepsLights
<1>5. /\ fast'.at = at /\ fast'.ob = fast.ob /\ fast'.pose = pose /\ fast'.i = fast.i
      /\ fast' = [at |-> fast'.at, ob |-> fast'.ob, m |-> fast'.m, i |-> fast'.i, pose |-> fast'.pose]
  BY DEF TracksInv, TracksTypes
<1>6. TracksTypes'
  BY <1>2, <1>5 DEF TracksInv, TracksTypes, FastPlaces
<1>7. PoolKept'
  BY <1>5 DEF TracksInv, PoolKept
<1>8. LastPlaced'
  BY <1>5 DEF TracksInv, LastPlaced
<1>9. Matching'
  BY <1>5 DEF Matching
<1> QED
  BY <1>1, <1>2, <1>3, <1>4, <1>5, <1>6, <1>7, <1>8, <1>9 DEF Tracked

\* The long thread changes the labels of o and goes on.
LongWrites(o, ob, at, into, pose) ==
  /\ long.at # "idle"
  /\ o \in Observations /\ (o # fast.ob \/ fast.at \notin {"match", "copy"})
  /\ ob \in Seq(Blob) /\ SameButLabels(blobs[o], ob) /\ LightsRight(ob)
  /\ blobs' = [blobs EXCEPT ![o] = ob]
  /\ at \in {"search", "mark", "decide", "transfer"}
  /\ at # "search" => pose \in Poses
  /\ long' = [long EXCEPT !.at = at, !.into = into, !.pose = pose]
  /\ at = "transfer" =>
       /\ into \in Observations /\ into # long.ob
       /\ fast.at \in {"idle", "match", "copy"} => into = last
  /\ fast.at = "copy" /\ o = last => torn'
  /\ marks' \in 0 .. MaxMarks
  /\ UNCHANGED <<observation_q, last, next_blob_id, fast, strayed>>

LEMMA LongRelabels ==
  ASSUME TracksInv, Tears, NEW o, NEW ob, NEW at, NEW into, NEW pose,
         LongWrites(o, ob, at, into, pose)
  PROVE  /\ Tracked' /\ blobs'[o] = ob
         /\ \A p \in Observations \ {o} : blobs'[p] = blobs[p]
         /\ long'.at = at /\ long'.ob = long.ob /\ long'.into = into /\ long'.pose = pose
         /\ long.ob \in Observations
<1> USE DEF LongWrites
<1>0. torn' \in BOOLEAN /\ (torn => torn')
  BY TornSays
<1>1. long.ob \in Observations
  BY DEF TracksInv, TracksTypes, PoolKept
<1>2. /\ blobs' \in [Observations -> Seq(Blob)]
      /\ \A p \in Observations : KeepsBlobs(p)
      /\ blobs'[o] = ob /\ \A p \in Observations \ {o} : blobs'[p] = blobs[p]
  BY RelabelKeepsBlobs
<1>3. IdsBelow' /\ IdsUnique' /\ IdsOfOneLight'
  BY <1>2, RelabelKeepsIds
<1>4. LabelOnItsLight'
  BY RelabelKeepsLights
<1>5. /\ long'.at = at /\ long'.ob = long.ob /\ long'.pose = pose /\ long'.into = into
      /\ long' = [at |-> long'.at, ob |-> long'.ob, into |-> long'.into, pose |-> long'.pose]
  BY DEF TracksInv, TracksTypes
<1>6. TracksTypes'
  BY <1>0, <1>2, <1>5 DEF TracksInv, TracksTypes, LongPlaces
<1>7. PoolKept'
  BY <1>5 DEF TracksInv, PoolKept, LongPlaces
<1>8. LastPlaced'
  BY <1>5 DEF TracksInv, LastPlaced
<1>9. ASSUME fast.at \in {"match", "copy"}
      PROVE  MatchTypes' /\ Paired' /\ MutualMatched' /\ NoBetter' /\ IdsHandedOn' /\ LabelsHandedOn'
  <2>1. fast.ob \in Observations /\ last \in Observations /\ o # fast.ob
    BY <1>9 DEF TracksInv, TracksTypes, PoolKept, LastPlaced
  <2>2. MatchTypes' /\ Paired' /\ MutualMatched' /\ NoBetter' /\ IdsHandedOn'
    BY <1>2, <1>9, MatchingStays
  <2>3. New' = New
    BY <1>2, <2>1 DEF New
  <2>4. LabelsHandedOn
    BY <1>9 DEF TracksInv, Matching
  <2>5. CASE fast.at = "match"
    BY <1>0, <2>2, <2>3, <2>4, <2>5 DEF LabelsHandedOn
  <2>6. CASE fast.at = "copy" /\ o = last
    BY <2>2, <2>6 DEF LabelsHandedOn
  <2>7. CASE o # last
    <3>1. Old' = Old
      BY <1>2, <2>1, <2>7 DEF Old
    <3> QED
      BY <1>0, <2>2, <2>3, <2>4, <3>1 DEF LabelsHandedOn
  <2> QED
    BY <1>9, <2>2, <2>5, <2>6, <2>7
<1>10. Matching'
  BY <1>9 DEF Matching
<1> QED
  BY <1>1, <1>2, <1>3, <1>4, <1>5, <1>6, <1>7, <1>8, <1>10 DEF Tracked

LEMMA FastClearsKeeps ==
  ASSUME TracksInv, Tears, NEW dev \in Targets, FastClears(dev)
  PROVE  TracksInv'
<1> DEFINE ob == Cleared(blobs[fast.ob], dev)
<1>1. fast.at = "found" /\ fast.ob \in Observations /\ marks < MaxMarks
  BY DEF FastClears, TracksInv, TracksTypes, PoolKept
<1>2. blobs[fast.ob] \in Seq(Blob) /\ LightsRight(blobs[fast.ob])
  BY <1>1, LightsOf
<1>3. ob \in Seq(Blob) /\ SameButLabels(blobs[fast.ob], ob) /\ LightsRight(ob) /\ NoneOf(ob, dev)
      /\ (OnePose(blobs[fast.ob]) => OnePose(ob))
  BY <1>2, ClearedSame
<1>4. NewPose(dev) \in Poses /\ NewPose(dev).dev = dev
  BY <1>1, TracksAssumption DEF NewPose, Poses, TracksInv, TracksTypes
<1>5. marks' \in 0 .. MaxMarks
  BY <1>1, TracksAssumption DEF FastClears, TracksInv, TracksTypes
<1> HIDE DEF ob
<1>6. /\ Tracked' /\ blobs'[fast.ob] = ob
      /\ \A p \in Observations \ {fast.ob} : blobs'[p] = blobs[p]
      /\ fast'.at = "mark" /\ fast'.ob = fast.ob /\ fast'.pose = NewPose(dev)
  <2>1. blobs' = [blobs EXCEPT ![fast.ob] = ob]
        /\ fast' = [fast EXCEPT !.at = "mark", !.pose = NewPose(dev)]
        /\ UNCHANGED <<observation_q, last, next_blob_id, long, strayed>>
    BY DEF FastClears, ob
  <2> QED
    BY <1>1, <1>3, <1>4, <1>5, <2>1, TornSays, FastRelabels
<1>7. long' = long
  BY DEF FastClears
<1>8. PosesKept'
  <2>1. FastUses' \cap LongUses' # {} => torn'
    BY TornSays
  <2> SUFFICES ASSUME ~torn'
               PROVE  /\ \A o \in Observations : OnePose(blobs'[o])
                      /\ NoneOf(blobs'[fast.ob], dev)
                      /\ long.at = "mark" => NoneOf(blobs'[long.ob], long.pose.dev)
                      /\ long.at = "transfer" => NoneOf(blobs'[long.into], long.pose.dev)
    BY <2>1, <1>4, <1>6, <1>7 DEF PosesKept
  <2>2. ~torn /\ FastUses' \cap LongUses' = {}
    BY TornSays
  <2>3. FastUses' = {fast.ob}
    BY <1>6 DEF FastUses
  <2>4. long.at = "mark" => long.ob # fast.ob /\ long.ob \in Observations
    BY <1>7, <2>2, <2>3 DEF LongUses, TracksInv, TracksTypes, PoolKept
  <2>5. long.at = "transfer" => long.into # fast.ob /\ long.into \in Observations
    BY <1>7, <2>2, <2>3 DEF LongUses, TracksInv, LastPlaced
  <2> QED
    BY <1>3, <1>6, <2>2, <2>4, <2>5 DEF TracksInv, PosesKept
<1> QED
  BY <1>6, <1>8 DEF Tracked, TracksInv

LEMMA FastMarksKeeps ==
  ASSUME TracksInv, Tears, NEW ps, FastMarks(ps)
  PROVE  TracksInv'
<1> DEFINE ob == Marked(blobs[fast.ob], fast.pose, ps)
<1>1. fast.at = "mark" /\ fast.ob \in Observations /\ fast.pose \in Poses
  BY DEF FastMarks, TracksInv, TracksTypes, PoolKept
<1>2. blobs[fast.ob] \in Seq(Blob) /\ LightsRight(blobs[fast.ob])
  BY <1>1, LightsOf
<1>3. ob \in Seq(Blob) /\ SameButLabels(blobs[fast.ob], ob) /\ LightsRight(ob)
      /\ (OnePose(blobs[fast.ob]) /\ NoneOf(blobs[fast.ob], fast.pose.dev) => OnePose(ob))
  BY <1>1, <1>2, MarkedSame
<1> HIDE DEF ob
<1>6. /\ Tracked' /\ blobs'[fast.ob] = ob
      /\ \A p \in Observations \ {fast.ob} : blobs'[p] = blobs[p]
      /\ fast'.at = "decide" /\ fast'.ob = fast.ob /\ fast'.pose = fast.pose
  <2>1. blobs' = [blobs EXCEPT ![fast.ob] = ob]
        /\ fast' = [fast EXCEPT !.at = "decide"]
        /\ UNCHANGED <<observation_q, last, next_blob_id, long, marks, strayed>>
    BY DEF FastMarks, ob
  <2>2. fast' = [fast EXCEPT !.at = "decide", !.pose = fast.pose]
    BY <2>1 DEF TracksInv, TracksTypes
  <2>3. marks' \in 0 .. MaxMarks
    BY <2>1 DEF TracksInv, TracksTypes
  <2> QED
    BY <1>1, <1>3, <2>1, <2>2, <2>3, TornSays, FastRelabels
<1>7. long' = long
  BY DEF FastMarks
<1>8. PosesKept'
  <2>1. FastUses' \cap LongUses' # {} => torn'
    BY TornSays
  <2> SUFFICES ASSUME ~torn'
               PROVE  /\ \A o \in Observations : OnePose(blobs'[o])
                      /\ long.at = "mark" => NoneOf(blobs'[long.ob], long.pose.dev)
                      /\ long.at = "transfer" => NoneOf(blobs'[long.into], long.pose.dev)
    BY <2>1, <1>6, <1>7 DEF PosesKept
  <2>2. ~torn /\ FastUses' \cap LongUses' = {}
    BY TornSays
  <2>3. FastUses' = {fast.ob}
    BY <1>6 DEF FastUses
  <2>4. long.at = "mark" => long.ob # fast.ob /\ long.ob \in Observations
    BY <1>7, <2>2, <2>3 DEF LongUses, TracksInv, TracksTypes, PoolKept
  <2>5. long.at = "transfer" => long.into # fast.ob /\ long.into \in Observations
    BY <1>7, <2>2, <2>3 DEF LongUses, TracksInv, LastPlaced
  <2> QED
    BY <1>1, <1>3, <1>6, <2>2, <2>4, <2>5 DEF TracksInv, PosesKept
<1> QED
  BY <1>6, <1>8 DEF Tracked, TracksInv

LEMMA FastRejectedKeeps ==
  ASSUME TracksInv, Tears, FastRejected
  PROVE  TracksInv'
<1> DEFINE dev == fast.pose.dev
           ob == Cleared(blobs[fast.ob], dev)
<1>1. fast.at = "decide" /\ fast.ob \in Observations /\ dev \in Targets
  BY DEF FastRejected, TracksInv, TracksTypes, PoolKept, Poses
<1> HIDE DEF dev
<1>2. blobs[fast.ob] \in Seq(Blob) /\ LightsRight(blobs[fast.ob])
  BY <1>1, LightsOf
<1>3. ob \in Seq(Blob) /\ SameButLabels(blobs[fast.ob], ob) /\ LightsRight(ob)
      /\ (OnePose(blobs[fast.ob]) => OnePose(ob))
      /\ \A d \in Targets : NoneOf(blobs[fast.ob], d) => NoneOf(ob, d)
  BY <1>1, <1>2, ClearedSame
<1> HIDE DEF ob
<1>6. /\ Tracked' /\ blobs'[fast.ob] = ob
      /\ \A p \in Observations \ {fast.ob} : blobs'[p] = blobs[p]
      /\ fast'.at = "found" /\ fast'.ob = fast.ob
  <2>1. blobs' = [blobs EXCEPT ![fast.ob] = ob]
        /\ fast' = [fast EXCEPT !.at = "found", !.pose = NoPose]
        /\ UNCHANGED <<observation_q, last, next_blob_id, long, marks, strayed>>
    BY DEF FastRejected, ob, dev
  <2>3. marks' \in 0 .. MaxMarks
    BY <2>1 DEF TracksInv, TracksTypes
  <2> QED
    BY <1>1, <1>3, <2>1, <2>3, TornSays, FastRelabels
<1>7. long' = long
  BY DEF FastRejected
<1>8. PosesKept'
  <2>1. FastUses' \cap LongUses' # {} => torn'
    BY TornSays
  <2> SUFFICES ASSUME ~torn'
               PROVE  /\ \A o \in Observations : OnePose(blobs'[o])
                      /\ long.at = "mark" => NoneOf(blobs'[long.ob], long.pose.dev)
                      /\ long.at = "transfer" => NoneOf(blobs'[long.into], long.pose.dev)
    BY <2>1, <1>6, <1>7 DEF PosesKept
  <2>2. ~torn
    BY TornSays
  <2>3. long.at \in {"mark", "transfer"} => long.pose.dev \in Targets
    BY DEF TracksInv, TracksTypes, Poses
  <2>4. long.at = "mark" => long.ob \in Observations
    BY DEF TracksInv, TracksTypes, PoolKept
  <2>5. long.at = "transfer" => long.into \in Observations
    BY DEF TracksInv, LastPlaced
  <2> QED
    BY <1>3, <1>6, <2>2, <2>3, <2>4, <2>5 DEF TracksInv, PosesKept
<1> QED
  BY <1>6, <1>8 DEF Tracked, TracksInv

-----------------------------------------------------------------------------
(***************************************************************************)
(* The long thread's labels.                                               *)
(***************************************************************************)
LEMMA LongAt ==
  ASSUME TracksInv, long.at # "idle"
  PROVE  /\ long.ob \in Observations /\ long.ob # fast.ob /\ last \in Observations
         /\ blobs[long.ob] \in Seq(Blob) /\ LightsRight(blobs[long.ob])
         /\ blobs[last] \in Seq(Blob) /\ LightsRight(blobs[last])
         /\ fast.at \in {"mark", "decide"} => fast.ob \in Observations
<1>1. long.ob \in Observations /\ long.ob # fast.ob /\ last \in Observations
  BY DEF TracksInv, TracksTypes, PoolKept, LastPlaced
<1>2. fast.at \in {"mark", "decide"} => fast.ob \in Observations
  BY DEF TracksInv, TracksTypes, PoolKept
<1> QED
  BY <1>1, <1>2, LightsOf

LEMMA LongClearsKeeps ==
  ASSUME TracksInv, Tears, NEW dev \in Targets, LongClears(dev)
  PROVE  TracksInv'
<1> DEFINE ob == Cleared(blobs[long.ob], dev)
<1>1. long.at = "search" /\ marks < MaxMarks
  BY DEF LongClears
<1>2. long.ob \in Observations /\ long.ob # fast.ob
      /\ (fast.at \in {"mark", "decide"} => fast.ob \in Observations)
  BY <1>1, LongAt
<1>3. ob \in Seq(Blob) /\ SameButLabels(blobs[long.ob], ob) /\ LightsRight(ob) /\ NoneOf(ob, dev)
      /\ (OnePose(blobs[long.ob]) => OnePose(ob))
  BY <1>1, LongAt, ClearedSame
<1>4. NewPose(dev) \in Poses /\ NewPose(dev).dev = dev
  BY <1>1, TracksAssumption DEF NewPose, Poses, TracksInv, TracksTypes
<1>5. marks' \in 0 .. MaxMarks
  BY <1>1, TracksAssumption DEF LongClears, TracksInv, TracksTypes
<1> HIDE DEF ob
<1>6. UNCHANGED <<observation_q, last, next_blob_id, fast, strayed>>
      /\ long' = [long EXCEPT !.at = "mark", !.into = long.into, !.pose = NewPose(dev)]
      /\ blobs' = [blobs EXCEPT ![long.ob] = ob]
  BY DEF LongClears, ob, TracksInv, TracksTypes
<1>7. fast.at = "copy" /\ long.ob = last => torn'
  <2>1. fast.at = "copy" => FastUses' = {last}
    BY <1>6 DEF FastUses
  <2>2. LongUses' = {long.ob}
    BY <1>6 DEF LongUses, TracksInv, TracksTypes
  <2> QED
    BY <2>1, <2>2, TornSays
<1>8. /\ Tracked' /\ blobs'[long.ob] = ob
      /\ \A p \in Observations \ {long.ob} : blobs'[p] = blobs[p]
      /\ long'.at = "mark" /\ long'.ob = long.ob /\ long'.pose = NewPose(dev)
  <2>1. LongWrites(long.ob, ob, "mark", long.into, NewPose(dev))
    BY <1>1, <1>2, <1>3, <1>4, <1>5, <1>6, <1>7 DEF LongWrites
  <2> QED
    BY <2>1, LongRelabels
<1>9. PosesKept'
  <2>1. FastUses' \cap LongUses' # {} => torn'
    BY TornSays
  <2> SUFFICES ASSUME ~torn'
               PROVE  /\ \A o \in Observations : OnePose(blobs'[o])
                      /\ NoneOf(blobs'[long.ob], dev)
                      /\ fast.at = "mark" => NoneOf(blobs'[fast.ob], fast.pose.dev)
    BY <2>1, <1>4, <1>6, <1>8 DEF PosesKept
  <2>2. ~torn
    BY TornSays
  <2> QED
    BY <1>2, <1>3, <1>8, <2>2 DEF TracksInv, PosesKept
<1> QED
  BY <1>8, <1>9 DEF Tracked, TracksInv

LEMMA LongMarksKeeps ==
  ASSUME TracksInv, Tears, NEW ps, LongMarks(ps)
  PROVE  TracksInv'
<1> DEFINE ob == Marked(blobs[long.ob], long.pose, ps)
<1>1. long.at = "mark" /\ long.pose \in Poses
  BY DEF LongMarks, TracksInv, TracksTypes
<1>2. long.ob \in Observations /\ long.ob # fast.ob
      /\ (fast.at \in {"mark", "decide"} => fast.ob \in Observations)
  BY <1>1, LongAt
<1>3. ob \in Seq(Blob) /\ SameButLabels(blobs[long.ob], ob) /\ LightsRight(ob)
      /\ (OnePose(blobs[long.ob]) /\ NoneOf(blobs[long.ob], long.pose.dev) => OnePose(ob))
  BY <1>1, LongAt, MarkedSame
<1> HIDE DEF ob
<1>4. UNCHANGED <<observation_q, last, next_blob_id, fast, strayed>>
      /\ long' = [long EXCEPT !.at = "decide", !.into = long.into, !.pose = long.pose]
      /\ blobs' = [blobs EXCEPT ![long.ob] = ob] /\ marks' \in 0 .. MaxMarks
  BY DEF LongMarks, ob, TracksInv, TracksTypes
<1>5. fast.at = "copy" /\ long.ob = last => torn'
  <2>1. fast.at = "copy" => FastUses' = {last}
    BY <1>4 DEF FastUses
  <2>2. LongUses' = {long.ob}
    BY <1>4 DEF LongUses, TracksInv, TracksTypes
  <2> QED
    BY <2>1, <2>2, TornSays
<1>6. /\ Tracked' /\ blobs'[long.ob] = ob
      /\ \A p \in Observations \ {long.ob} : blobs'[p] = blobs[p]
      /\ long'.at = "decide" /\ long'.ob = long.ob
  <2>1. LongWrites(long.ob, ob, "decide", long.into, long.pose)
    BY <1>1, <1>2, <1>3, <1>4, <1>5 DEF LongWrites
  <2> QED
    BY <2>1, LongRelabels
<1>7. PosesKept'
  <2>1. FastUses' \cap LongUses' # {} => torn'
    BY TornSays
  <2> SUFFICES ASSUME ~torn'
               PROVE  /\ \A o \in Observations : OnePose(blobs'[o])
                      /\ fast.at = "mark" => NoneOf(blobs'[fast.ob], fast.pose.dev)
    BY <2>1, <1>4, <1>6 DEF PosesKept
  <2>2. ~torn
    BY TornSays
  <2> QED
    BY <1>1, <1>2, <1>3, <1>6, <2>2 DEF TracksInv, PosesKept
<1> QED
  BY <1>6, <1>7 DEF Tracked, TracksInv

LEMMA LongRejectedKeeps ==
  ASSUME TracksInv, Tears, LongRejected
  PROVE  TracksInv'
<1> DEFINE dev == long.pose.dev
           ob == Cleared(blobs[long.ob], dev)
<1>1. long.at = "decide" /\ dev \in Targets
  BY DEF LongRejected, TracksInv, TracksTypes, Poses
<1> HIDE DEF dev
<1>2. long.ob \in Observations /\ long.ob # fast.ob
      /\ (fast.at \in {"mark", "decide"} => fast.ob \in Observations)
  BY <1>1, LongAt
<1>3. ob \in Seq(Blob) /\ SameButLabels(blobs[long.ob], ob) /\ LightsRight(ob)
      /\ (OnePose(blobs[long.ob]) => OnePose(ob))
  BY <1>1, LongAt, ClearedSame
<1> HIDE DEF ob
<1>4. UNCHANGED <<observation_q, last, next_blob_id, fast, strayed>>
      /\ long' = [long EXCEPT !.at = "search", !.into = long.into, !.pose = NoPose]
      /\ blobs' = [blobs EXCEPT ![long.ob] = ob] /\ marks' \in 0 .. MaxMarks
  BY DEF LongRejected, ob, dev, TracksInv, TracksTypes
<1>5. fast.at = "copy" /\ long.ob = last => torn'
  <2>1. fast.at = "copy" => FastUses = {last}
    BY DEF FastUses
  <2>2. LongUses = {long.ob}
    BY <1>1 DEF LongUses
  <2> QED
    BY <2>1, <2>2, TornSays
<1>6. /\ Tracked' /\ blobs'[long.ob] = ob
      /\ \A p \in Observations \ {long.ob} : blobs'[p] = blobs[p]
      /\ long'.at = "search" /\ long'.ob = long.ob
  <2>1. LongWrites(long.ob, ob, "search", long.into, NoPose)
    BY <1>1, <1>2, <1>3, <1>4, <1>5 DEF LongWrites
  <2> QED
    BY <2>1, LongRelabels
<1>7. PosesKept'
  <2>1. FastUses' \cap LongUses' # {} => torn'
    BY TornSays
  <2> SUFFICES ASSUME ~torn'
               PROVE  /\ \A o \in Observations : OnePose(blobs'[o])
                      /\ fast.at = "mark" => NoneOf(blobs'[fast.ob], fast.pose.dev)
    BY <2>1, <1>4, <1>6 DEF PosesKept
  <2>2. ~torn
    BY TornSays
  <2> QED
    BY <1>2, <1>3, <1>6, <2>2 DEF TracksInv, PosesKept
<1> QED
  BY <1>6, <1>7 DEF Tracked, TracksInv

LEMMA UpdateClearsKeeps ==
  ASSUME TracksInv, Tears, UpdateClears
  PROVE  TracksInv'
<1> DEFINE dev == long.pose.dev
           ob == Cleared(blobs[last], dev)
<1>1. long.at = "decide" /\ dev \in Targets /\ long.pose \in Poses /\ last # long.ob
  BY DEF UpdateClears, TracksInv, TracksTypes, Poses
<1>2. last \in Observations /\ long.ob \in Observations
      /\ (fast.at \in {"mark", "decide"} => fast.ob \in Observations)
      /\ (last # fast.ob \/ fast.at \notin {"match", "copy"})
  BY <1>1, LongAt DEF TracksInv, LastPlaced
<1>3. ob \in Seq(Blob) /\ SameButLabels(blobs[last], ob) /\ LightsRight(ob) /\ NoneOf(ob, dev)
      /\ (OnePose(blobs[last]) => OnePose(ob))
      /\ \A d \in Targets : NoneOf(blobs[last], d) => NoneOf(ob, d)
  BY <1>1, LongAt, ClearedSame
<1> HIDE DEF ob
<1>4. UNCHANGED <<observation_q, last, next_blob_id, fast, strayed>>
      /\ long' = [long EXCEPT !.at = "transfer", !.into = last, !.pose = long.pose]
      /\ blobs' = [blobs EXCEPT ![last] = ob] /\ marks' \in 0 .. MaxMarks
  BY DEF UpdateClears, ob, TracksInv, TracksTypes
<1>5. fast.at = "copy" => torn'
  <2>1. fast.at = "copy" => FastUses' = {last}
    BY <1>4 DEF FastUses
  <2>2. LongUses' = {long.ob, last}
    BY <1>4 DEF LongUses, TracksInv, TracksTypes
  <2> QED
    BY <2>1, <2>2, TornSays
<1>6. /\ Tracked' /\ blobs'[last] = ob
      /\ \A p \in Observations \ {last} : blobs'[p] = blobs[p]
      /\ long'.at = "transfer" /\ long'.ob = long.ob /\ long'.into = last /\ long'.pose = long.pose
  <2>1. LongWrites(last, ob, "transfer", last, long.pose)
    BY <1>1, <1>2, <1>3, <1>4, <1>5 DEF LongWrites
  <2> QED
    BY <2>1, LongRelabels
<1>7. PosesKept'
  <2>1. FastUses' \cap LongUses' # {} => torn'
    BY TornSays
  <2> SUFFICES ASSUME ~torn'
               PROVE  /\ \A o \in Observations : OnePose(blobs'[o])
                      /\ NoneOf(blobs'[last], dev)
                      /\ fast.at = "mark" => NoneOf(blobs'[fast.ob], fast.pose.dev)
    BY <2>1, <1>4, <1>6 DEF PosesKept
  <2>2. ~torn
    BY TornSays
  <2>3. fast.at = "mark" => fast.pose.dev \in Targets
    BY DEF TracksInv, TracksTypes, Poses
  <2> QED
    BY <1>2, <1>3, <1>6, <2>2, <2>3 DEF TracksInv, PosesKept
<1> QED
  BY <1>6, <1>7 DEF Tracked, TracksInv

LEMMA UpdateTransfersKeeps ==
  ASSUME TracksInv, Tears, UpdateTransfers
  PROVE  TracksInv'
<1> DEFINE dev == long.pose.dev
           into == long.into
           ob == Transferred(blobs[into], blobs[long.ob], dev)
<1>1. long.at = "transfer" /\ dev \in Targets
  BY DEF UpdateTransfers, TracksInv, TracksTypes, Poses
<1>2. into \in Observations /\ long.ob \in Observations /\ into # long.ob
      /\ (fast.at \in {"match", "copy"} => into # fast.ob)
      /\ (fast.at \in {"mark", "decide"} => fast.ob \in Observations)
  BY <1>1, LongAt DEF TracksInv, LastPlaced
<1>3. ob \in Seq(Blob) /\ SameButLabels(blobs[into], ob) /\ LightsRight(ob)
      /\ (OnePose(blobs[into]) /\ NoneOf(blobs[into], dev) /\ OnePose(blobs[long.ob]) => OnePose(ob))
  <2>1. blobs[into] \in Seq(Blob) /\ blobs[long.ob] \in Seq(Blob)
        /\ LightsRight(blobs[into]) /\ LightsRight(blobs[long.ob])
    BY <1>2, LightsOf
  <2>2. \A i \in DOMAIN blobs[long.ob], l \in DOMAIN blobs[into] :
          blobs[long.ob][i].blob_id = blobs[into][l].blob_id
          /\ blobs[into][l].blob_id \notin strayed =>
            blobs[long.ob][i].light = blobs[into][l].light
    BY <1>2 DEF TracksInv, IdsOfOneLight
  <2> QED
    BY <1>1, <2>1, <2>2, TransferredSame
<1> HIDE DEF ob
<1>4. UNCHANGED <<observation_q, last, next_blob_id, fast, strayed>>
      /\ long' = [long EXCEPT !.at = "search", !.into = NoObs, !.pose = NoPose]
      /\ blobs' = [blobs EXCEPT ![into] = ob] /\ marks' \in 0 .. MaxMarks
  BY DEF UpdateTransfers, ob, TracksInv, TracksTypes
<1>5. LongUses = {long.ob, into}
  BY <1>1 DEF LongUses
<1>6. fast.at = "copy" /\ into = last => torn'
  <2>1. fast.at = "copy" => FastUses = {last}
    BY DEF FastUses
  <2> QED
    BY <2>1, <1>5, TornSays
<1>7. /\ Tracked' /\ blobs'[into] = ob
      /\ \A p \in Observations \ {into} : blobs'[p] = blobs[p]
      /\ long'.at = "search" /\ long'.ob = long.ob
  <2>1. LongWrites(into, ob, "search", NoObs, NoPose)
    BY <1>1, <1>2, <1>3, <1>4, <1>6 DEF LongWrites
  <2> QED
    BY <2>1, LongRelabels
<1>8. PosesKept'
  <2>1. FastUses' \cap LongUses' # {} => torn'
    BY TornSays
  <2> SUFFICES ASSUME ~torn'
               PROVE  /\ \A o \in Observations : OnePose(blobs'[o])
                      /\ fast.at = "mark" => NoneOf(blobs'[fast.ob], fast.pose.dev)
    BY <2>1, <1>4, <1>7 DEF PosesKept
  <2>2. ~torn
    BY TornSays
  <2>3. fast.at = "mark" => fast.ob # into
    <3>1. fast.at = "mark" => FastUses = {fast.ob}
      BY DEF FastUses
    <3> QED
      BY <1>5, <2>2, <3>1, TornSays
  <2> QED
    BY <1>1, <1>2, <1>3, <1>7, <2>2, <2>3 DEF TracksInv, PosesKept
<1> QED
  BY <1>7, <1>8 DEF Tracked, TracksInv

-----------------------------------------------------------------------------
(***************************************************************************)
(* Steps that leave the blobs as they are.                                 *)
(***************************************************************************)
LEMMA BlobsStay ==
  ASSUME TracksInv, UNCHANGED <<blobs, next_blob_id, strayed>>
  PROVE  IdsBelow' /\ IdsUnique' /\ IdsOfOneLight' /\ LabelOnItsLight'
  BY DEF TracksInv, IdsBelow, IdsUnique, IdsOfOneLight, LabelOnItsLight

LEMMA QueueHas ==
  ASSUME TracksInv
  PROVE  /\ observation_q \in Seq(Observations) /\ Len(observation_q) \in Nat
         /\ \A i \in 1 .. Len(observation_q) :
              /\ observation_q[i] # fast.ob /\ observation_q[i] # long.ob
              /\ observation_q[i] \in Observations
         /\ \A i, k \in 1 .. Len(observation_q) : observation_q[i] = observation_q[k] => i = k
<1>1. observation_q \in Seq(Observations) /\ Len(observation_q) \in Nat
      /\ DOMAIN observation_q = 1 .. Len(observation_q)
  BY DEF TracksInv, TracksTypes
<1>2. ToSet(observation_q) = {observation_q[i] : i \in 1 .. Len(observation_q)}
  BY <1>1 DEF ToSet
<1>3. \A o \in ToSet(observation_q) : o # fast.ob /\ o # long.ob
  BY DEF TracksInv, PoolKept
<1>4. \A i \in 1 .. Len(observation_q) : observation_q[i] # fast.ob /\ observation_q[i] # long.ob
  BY <1>2, <1>3
<1>5. \A i, k \in 1 .. Len(observation_q) : observation_q[i] = observation_q[k] => i = k
  BY <1>1 DEF TracksInv, PoolKept, IsInjective
<1> QED
  BY <1>1, <1>4, <1>5

LEMMA Queue ==
  ASSUME TracksInv, NEW o \in Observations, o \in {fast.ob, long.ob}
  PROVE  LET q == Append(observation_q, o)
         IN  /\ q \in Seq(Observations) /\ IsInjective(q) /\ Len(q) = Len(observation_q) + 1
             /\ \A p \in ToSet(q) : p \in Observations /\ (p = o \/ (p # fast.ob /\ p # long.ob))
             /\ Len(observation_q) \in Nat
             /\ Len(observation_q) # 0 =>
                  /\ Head(q) = Head(observation_q) /\ Head(q) \in Observations
                  /\ Head(q) # fast.ob /\ Head(q) # long.ob
<1> DEFINE q == Append(observation_q, o)
<1>1. observation_q \in Seq(Observations) /\ Len(observation_q) \in Nat
  BY QueueHas
<1>4. q \in Seq(Observations) /\ Len(q) = Len(observation_q) + 1 /\ DOMAIN q = 1 .. Len(q)
      /\ \A i \in 1 .. Len(q) : q[i] = IF i = Len(q) THEN o ELSE observation_q[i]
  BY <1>1
<1> HIDE DEF q
<1>5. IsInjective(q)
  BY <1>1, <1>4, QueueHas DEF IsInjective
<1>6. \A p \in ToSet(q) : p \in Observations /\ (p = o \/ (p # fast.ob /\ p # long.ob))
  <2>1. ToSet(q) = {q[i] : i \in 1 .. Len(q)}
    BY <1>4 DEF ToSet
  <2>2. \A i \in 1 .. Len(q) : q[i] \in Observations
                               /\ (q[i] = o \/ (q[i] # fast.ob /\ q[i] # long.ob))
    BY <1>1, <1>4, QueueHas
  <2> QED
    BY <2>1, <2>2
<1>7. Len(observation_q) # 0 => Head(q) = Head(observation_q) /\ Head(q) = observation_q[1]
  BY <1>1 DEF q
<1>8. Len(observation_q) # 0 => /\ observation_q[1] \in Observations
                                /\ observation_q[1] # fast.ob /\ observation_q[1] # long.ob
  BY QueueHas
<1> QED
  BY <1>1, <1>4, <1>5, <1>6, <1>7, <1>8 DEF q

\* A step that leaves the fast thread and the blobs alone leaves the matching
\* as it was.
LEMMA MatchingUnmoved ==
  ASSUME Matching, UNCHANGED <<blobs, last, fast>>, torn => torn'
  PROVE  Matching'
<1>1. New' = New /\ Old' = Old /\ fast' = fast
  BY DEF New, Old
<1>2. ASSUME NEW a, NEW b
      PROVE  Gap(a, b)' = Gap(a, b)
  BY <1>1 DEF Gap
<1>3. MatchTypes => MatchTypes'
  BY <1>1 DEF MatchTypes
<1>4. Paired => Paired'
  BY <1>1, <1>2 DEF Paired
<1>5. MutualMatched => MutualMatched'
  BY <1>1, <1>2 DEF MutualMatched, Mutual
<1>6. NoBetter => NoBetter'
  BY <1>1, <1>2 DEF NoBetter, Taken
<1>7. IdsHandedOn => IdsHandedOn'
  BY <1>1 DEF IdsHandedOn
<1>8. LabelsHandedOn => LabelsHandedOn'
  BY <1>1 DEF LabelsHandedOn
<1> QED
  BY <1>1, <1>3, <1>4, <1>5, <1>6, <1>7, <1>8 DEF Matching

LEMMA FastAcceptedKeeps ==
  ASSUME TracksInv, Tears, FastAccepted
  PROVE  TracksInv'
<1>1. IdsBelow' /\ IdsUnique' /\ IdsOfOneLight' /\ LabelOnItsLight'
  BY BlobsStay DEF FastAccepted
<1>2. fast.at = "decide" /\ long.at # "transfer" /\ fast'.at = "found" /\ fast'.ob = fast.ob
      /\ fast'.i = fast.i
      /\ fast' = [at |-> fast'.at, ob |-> fast'.ob, m |-> fast'.m, i |-> fast'.i, pose |-> fast'.pose]
      /\ UNCHANGED <<blobs, observation_q, last, next_blob_id, long, marks, strayed>>
  BY DEF FastAccepted, TracksInv, TracksTypes
<1>3. TracksTypes'
  BY <1>2, TornSays DEF TracksInv, TracksTypes, FastPlaces
<1>4. PoolKept' /\ LastPlaced'
  BY <1>2 DEF TracksInv, PoolKept, LastPlaced
<1>5. Matching'
  BY <1>2 DEF Matching
<1>6. PosesKept'
  BY <1>2, TornSays DEF TracksInv, PosesKept
<1> QED
  BY <1>1, <1>3, <1>4, <1>5, <1>6 DEF TracksInv

LEMMA UpdateNothingKeeps ==
  ASSUME TracksInv, Tears, UpdateNothing
  PROVE  TracksInv'
<1>1. IdsBelow' /\ IdsUnique' /\ IdsOfOneLight' /\ LabelOnItsLight'
  BY BlobsStay DEF UpdateNothing
<1>2. long.at = "decide" /\ long'.at = "search" /\ long'.ob = long.ob
      /\ long' = [at |-> long'.at, ob |-> long'.ob, into |-> long'.into, pose |-> long'.pose]
      /\ UNCHANGED <<blobs, observation_q, last, next_blob_id, fast, marks, strayed>>
  BY DEF UpdateNothing, TracksInv, TracksTypes
<1>3. TracksTypes'
  BY <1>2, TornSays DEF TracksInv, TracksTypes, LongPlaces
<1>4. PoolKept' /\ LastPlaced'
  BY <1>2 DEF TracksInv, PoolKept, LastPlaced
<1>5. Matching'
  BY <1>2, TornSays, MatchingUnmoved DEF TracksInv
<1>6. PosesKept'
  BY <1>2, TornSays DEF TracksInv, PosesKept
<1> QED
  BY <1>1, <1>3, <1>4, <1>5, <1>6 DEF TracksInv

LEMMA LongEndsKeeps ==
  ASSUME TracksInv, Tears, LongEnds
  PROVE  TracksInv'
<1>1. IdsBelow' /\ IdsUnique' /\ IdsOfOneLight' /\ LabelOnItsLight'
  BY BlobsStay DEF LongEnds
<1>2. long.at = "search" /\ long.ob \in Observations /\ long'.at = "idle" /\ long'.ob = NoObs
      /\ long' = [at |-> long'.at, ob |-> long'.ob, into |-> long'.into, pose |-> long'.pose]
      /\ observation_q' = Append(observation_q, long.ob)
      /\ UNCHANGED <<blobs, last, next_blob_id, fast, marks, strayed>>
  BY DEF LongEnds, Rest, TracksInv, TracksTypes, PoolKept
<1>3. /\ observation_q' \in Seq(Observations) /\ IsInjective(observation_q')
      /\ Len(observation_q') = Len(observation_q) + 1
      /\ \A p \in ToSet(observation_q') :
           p \in Observations /\ (p = long.ob \/ (p # fast.ob /\ p # long.ob))
      /\ Len(observation_q) \in Nat
      /\ Len(observation_q) # 0 => Head(observation_q') = Head(observation_q)
  BY <1>2, Queue
<1>4. TracksTypes'
  BY <1>2, <1>3, TornSays DEF TracksInv, TracksTypes, LongPlaces, NoObs
<1>5. PoolKept'
  <2>1. \A o \in ToSet(observation_q') : o # fast.ob /\ o # NoObs
    BY <1>2, <1>3 DEF TracksInv, PoolKept, Observations, NoObs
  <2> QED
    BY <1>2, <1>3, <2>1 DEF TracksInv, PoolKept, NoObs, Observations
<1>6. LastPlaced'
  <2>1. fast.at = "idle" => Len(observation_q) # 0
    BY <1>2 DEF TracksInv, PoolKept, NoObs, Observations
  <2> QED
    BY <1>2, <1>3, <2>1 DEF TracksInv, LastPlaced
<1>7. Matching'
  BY <1>2, TornSays, MatchingUnmoved DEF TracksInv
<1>8. PosesKept'
  BY <1>2, TornSays DEF TracksInv, PosesKept
<1> QED
  BY <1>1, <1>4, <1>5, <1>6, <1>7, <1>8 DEF TracksInv

LEMMA FastEndsKeeps ==
  ASSUME TracksInv, Tears, FastEnds
  PROVE  TracksInv'
<1>1. IdsBelow' /\ IdsUnique' /\ IdsOfOneLight' /\ LabelOnItsLight'
  BY BlobsStay DEF FastEnds
<1>2. fast.at = "found" /\ fast.ob \in Observations /\ last = fast.ob /\ long.at # "transfer"
      /\ fast' = Idle /\ fast'.at = "idle" /\ fast'.ob = NoObs /\ fast'.i = 1
      /\ UNCHANGED <<blobs, last, next_blob_id, marks, strayed>>
  BY DEF FastEnds, Idle, TracksInv, TracksTypes, PoolKept, LastPlaced
<1>3. \/ /\ long.at = "idle" /\ long' = [Rest EXCEPT !.at = "search", !.ob = fast.ob]
         /\ UNCHANGED observation_q
      \/ observation_q' = Append(observation_q, fast.ob) /\ UNCHANGED long
  BY DEF FastEnds
<1>4. observation_q \in Seq(Observations) /\ Len(observation_q) \in Nat \ {0}
      /\ \A i \in 1 .. Len(observation_q) : observation_q[i] # fast.ob /\ observation_q[i] # long.ob
                                            /\ observation_q[i] \in Observations
  BY <1>2, QueueHas DEF TracksInv, PoolKept, NoObs, Observations
<1>5. Matching'
  BY <1>2 DEF Matching
<1>6. fast' = [at |-> fast'.at, ob |-> fast'.ob, m |-> fast'.m, i |-> fast'.i, pose |-> fast'.pose]
  BY <1>2 DEF Idle
<1>7. CASE long.at = "idle" /\ long' = [Rest EXCEPT !.at = "search", !.ob = fast.ob]
           /\ UNCHANGED observation_q
  <2>1. long'.at = "search" /\ long'.ob = fast.ob
        /\ long' = [at |-> long'.at, ob |-> long'.ob, into |-> long'.into, pose |-> long'.pose]
    BY <1>7 DEF Rest
  <2>2. TracksTypes'
    BY <1>2, <1>6, <1>7, <2>1, TornSays DEF TracksInv, TracksTypes, LongPlaces, FastPlaces
  <2>3. \A o \in ToSet(observation_q) : o # fast.ob /\ o # NoObs
    <3>1. ToSet(observation_q) = {observation_q[i] : i \in 1 .. Len(observation_q)}
      BY <1>4 DEF ToSet
    <3> QED
      BY <1>4, <3>1 DEF Observations, NoObs
  <2>4. PoolKept'
    <3>1. long.ob = NoObs /\ fast.ob # NoObs
      BY <1>2, <1>7 DEF TracksInv, PoolKept, NoObs, Observations
    <3>2. Len(observation_q) = 2 /\ IsInjective(observation_q)
      BY <3>1 DEF TracksInv, PoolKept
    <3> QED
      BY <1>2, <1>7, <2>1, <2>3, <3>1, <3>2 DEF PoolKept
  <2>5. LastPlaced'
    <3>1. Head(observation_q) = observation_q[1] /\ observation_q[1] # fast.ob
      BY <1>4
    <3>2. last # NoObs
      BY <1>2 DEF Observations, NoObs
    <3> QED
      BY <1>2, <1>7, <2>1, <3>1, <3>2 DEF LastPlaced
  <2>6. PosesKept'
    BY <1>2, <1>7, <2>1, TornSays DEF TracksInv, PosesKept
  <2> QED
    BY <1>1, <1>5, <2>2, <2>4, <2>5, <2>6 DEF TracksInv
<1>8. CASE observation_q' = Append(observation_q, fast.ob) /\ UNCHANGED long
  <2>1. /\ observation_q' \in Seq(Observations) /\ IsInjective(observation_q')
        /\ Len(observation_q') = Len(observation_q) + 1
        /\ \A p \in ToSet(observation_q') :
             p \in Observations /\ (p = fast.ob \/ (p # fast.ob /\ p # long.ob))
        /\ Head(observation_q') = Head(observation_q) /\ Head(observation_q) # fast.ob
    BY <1>2, <1>4, <1>8, Queue
  <2>2. TracksTypes'
    BY <1>2, <1>6, <1>8, <2>1, TornSays DEF TracksInv, TracksTypes, FastPlaces
  <2>4. \A o \in ToSet(observation_q') : o # NoObs /\ o # long.ob
    BY <1>2, <2>1 DEF TracksInv, PoolKept, Observations, NoObs
  <2>5. PoolKept'
    BY <1>2, <1>8, <2>1, <2>4 DEF TracksInv, PoolKept, NoObs, Observations
  <2>6. LastPlaced'
    BY <1>2, <1>8, <2>1 DEF TracksInv, LastPlaced
  <2>7. PosesKept'
    BY <1>2, <1>8, TornSays DEF TracksInv, PosesKept
  <2> QED
    BY <1>1, <1>5, <2>2, <2>5, <2>6, <2>7 DEF TracksInv
<1> QED
  BY <1>3, <1>7, <1>8

LEMMA ScanEndsKeeps ==
  ASSUME TracksInv, Tears, ScanEnds
  PROVE  TracksInv'
<1>1. IdsBelow' /\ IdsUnique' /\ IdsOfOneLight' /\ LabelOnItsLight'
  BY BlobsStay DEF ScanEnds
<1>2. /\ fast.at = "match" /\ fast.i > Len(blobs[fast.ob]) /\ fast'.at \in {"match", "copy"}
      /\ fast'.ob = fast.ob /\ fast'.i = 1
      /\ fast'.m = [fast.m EXCEPT !.scan_again = FALSE]
      /\ fast' = [at |-> fast'.at, ob |-> fast'.ob, m |-> fast'.m, i |-> fast'.i, pose |-> fast'.pose]
      /\ UNCHANGED <<blobs, observation_q, last, next_blob_id, long, marks, strayed>>
  BY DEF ScanEnds, TracksInv, TracksTypes
<1>3. MatchTypes /\ Paired /\ MutualMatched /\ NoBetter /\ IdsHandedOn /\ LabelsHandedOn
  BY <1>2 DEF TracksInv, Matching
<1>4. /\ fast'.m.closest_ob = fast.m.closest_ob /\ fast'.m.closest_last_ob = fast.m.closest_last_ob
      /\ fast'.m.closest_last_ob_distsq = fast.m.closest_last_ob_distsq
      /\ fast'.m.scan_again = FALSE
      /\ fast'.m = [closest_ob |-> fast'.m.closest_ob, closest_last_ob |-> fast'.m.closest_last_ob,
                    closest_last_ob_distsq |-> fast'.m.closest_last_ob_distsq,
                    scan_again |-> fast'.m.scan_again]
  BY <1>2, <1>3 DEF MatchTypes
<1>5. TracksTypes'
  BY <1>2, TornSays DEF TracksInv, TracksTypes, FastPlaces
<1>6. PoolKept' /\ LastPlaced'
  BY <1>2 DEF TracksInv, PoolKept, LastPlaced
<1>7. New' = New /\ Old' = Old /\ \A i, j : Gap(i, j)' = Gap(i, j)
  BY <1>2 DEF New, Old, Gap
<1>8. MatchTypes' /\ Paired'
  BY <1>3, <1>4, <1>7 DEF MatchTypes, Paired
<1>9. MutualMatched'
  <2>1. blobs[fast.ob] \in Seq(Blob)
    BY <1>2 DEF TracksInv, TracksTypes, PoolKept
  <2>2. \A i \in DOMAIN New : i < fast.i
    BY <1>2, <2>1 DEF New, TracksInv, TracksTypes
  <2> QED
    BY <1>2, <1>3, <1>4, <1>7, <2>2 DEF MutualMatched, Mutual
<1>13. NoBetter'
  <2>1. blobs[fast.ob] \in Seq(Blob)
    BY <1>2 DEF TracksInv, TracksTypes, PoolKept
  <2>2. \A i \in DOMAIN New : i < fast.i /\ ~(i < fast'.i)
    BY <1>2, <2>1 DEF New, TracksInv, TracksTypes
  <2>3. fast'.at = "copy" => ~fast.m.scan_again
    BY <1>2 DEF ScanEnds, TracksInv, TracksTypes
  <2> QED
    BY <1>2, <1>3, <1>4, <1>7, <2>2, <2>3 DEF NoBetter, Taken
<1>10. IdsHandedOn'
  <2>1. \A i \in DOMAIN New : ~(i < fast'.i)
    <3>1. blobs[fast.ob] \in Seq(Blob)
      BY <1>2 DEF TracksInv, TracksTypes, PoolKept
    <3> QED
      BY <1>2, <3>1 DEF New
  <2> QED
    BY <1>2, <1>3, <1>7, <2>1 DEF IdsHandedOn
<1>11. LabelsHandedOn'
  BY <1>2, <1>3, <1>7 DEF LabelsHandedOn
<1>12. PosesKept'
  BY <1>2, TornSays DEF TracksInv, PosesKept
<1> QED
  BY <1>1, <1>5, <1>6, <1>8, <1>9, <1>10, <1>11, <1>12, <1>13 DEF TracksInv, Matching

LEMMA ProcessEndsKeeps ==
  ASSUME TracksInv, Tears, ProcessEnds
  PROVE  TracksInv'
<1>1. IdsBelow' /\ IdsUnique' /\ IdsOfOneLight' /\ LabelOnItsLight'
  BY BlobsStay DEF ProcessEnds
<1>2. /\ fast.at = "copy" /\ fast.ob \in Observations /\ fast'.at = "found"
      /\ fast'.ob = fast.ob /\ fast'.i = 1 /\ last' = fast.ob
      /\ fast' = [at |-> fast'.at, ob |-> fast'.ob, m |-> fast'.m, i |-> fast'.i, pose |-> fast'.pose]
      /\ UNCHANGED <<blobs, observation_q, next_blob_id, long, marks, strayed>>
  BY DEF ProcessEnds, TracksInv, TracksTypes, PoolKept
<1>3. TracksTypes'
  BY <1>2, TornSays DEF TracksInv, TracksTypes, FastPlaces
<1>4. PoolKept' /\ LastPlaced'
  BY <1>2 DEF TracksInv, PoolKept, LastPlaced, Observations, NoObs
<1>5. Matching'
  BY <1>2 DEF Matching
<1>6. PosesKept'
  BY <1>2, TornSays DEF TracksInv, PosesKept
<1> QED
  BY <1>1, <1>3, <1>4, <1>5, <1>6 DEF TracksInv

-----------------------------------------------------------------------------
(***************************************************************************)
(* The matching.                                                           *)
(***************************************************************************)
LEMMA NatLeast ==
  ASSUME NEW S, S \subseteq Nat, S # {}
  PROVE  \E m \in S : \A k \in S : m <= k
<1>1. PICK m \in S : \A k \in S : ~(<<k, m>> \in OpToRel(<, Nat))
  BY NatLessThanWellFounded, WFMin
<1>2. ASSUME NEW k \in S  PROVE ~(k < m)
  BY <1>1, Zenon DEF OpToRel
<1>3. \A k \in S : m \in Nat /\ k \in Nat
  OBVIOUS
<1> QED
  BY <1>2, <1>3

LEMMA ClosestIs ==
  ASSUME NEW places, NEW expected, NEW i, NEW js, js \subseteq Nat, js # {},
         \A j \in js : distsq(places, expected, i, j) \in Nat
  PROVE  LET c == Closest(js, places, expected, i)
         IN  /\ c \in js
             /\ \A k \in js : distsq(places, expected, i, c) <= distsq(places, expected, i, k)
<1> DEFINE D(j) == distsq(places, expected, i, j)
           ds == {D(j) : j \in js}
           IsFirst(j) == \A k \in js : D(j) < D(k) \/ (D(j) = D(k) /\ j <= k)
<1>0. \A j \in js : D(j) \in Nat
  OBVIOUS
<1> HIDE DEF D
<1>1. PICK d \in ds : \A e \in ds : d <= e
  <2>1. ds \subseteq Nat /\ ds # {}
    BY <1>0
  <2> QED
    BY <2>1, NatLeast
<1> DEFINE first == {j \in js : D(j) = d}
<1>2. PICK c \in first : \A k \in first : c <= k
  <2>1. first \subseteq Nat /\ first # {}
    OBVIOUS
  <2> QED
    BY <2>1, NatLeast
<1>3. c \in js /\ IsFirst(c)
  <2>1. c \in js /\ D(c) = d
    OBVIOUS
  <2>2. ASSUME NEW k \in js  PROVE D(c) < D(k) \/ (D(c) = D(k) /\ c <= k)
    <3>1. D(k) \in ds /\ d <= D(k) /\ D(k) \in Nat /\ D(c) \in Nat
      BY <1>0, <1>1, <2>1
    <3>2. D(k) = d => c <= k
      BY <1>2
    <3> QED
      BY <2>1, <3>1, <3>2
  <2> QED
    BY <2>1, <2>2
<1>4. Closest(js, places, expected, i) = CHOOSE j \in js : IsFirst(j)
  BY DEF Closest, D
<1> DEFINE c0 == CHOOSE j \in js : IsFirst(j)
<1> HIDE DEF IsFirst
<1>5. c0 \in js /\ IsFirst(c0)
  BY <1>3
<1> HIDE DEF c0
<1>6. \A k \in js : D(c0) <= D(k)
  BY <1>0, <1>5 DEF IsFirst
<1> QED
  BY <1>4, <1>5, <1>6 DEF D, c0

LEMMA MatchingAt ==
  ASSUME TracksInv, fast.at \in {"match", "copy"}
  PROVE  /\ fast.ob \in Observations /\ last \in Observations /\ fast.ob # last
         /\ New \in Seq(Blob) /\ Old \in Seq(Blob)
         /\ DOMAIN Where(New) = DOMAIN New /\ DOMAIN Expected(Old) = DOMAIN Old
         /\ DOMAIN New \subseteq Nat \ {0} /\ DOMAIN Old \subseteq Nat \ {0}
         /\ \A i \in DOMAIN New, j \in DOMAIN Old : Gap(i, j) \in Nat
<1>1. fast.ob \in Observations /\ last \in Observations /\ fast.ob # last
  BY DEF TracksInv, TracksTypes, PoolKept, LastPlaced
<1>2. New \in Seq(Blob) /\ Old \in Seq(Blob)
  BY <1>1 DEF TracksInv, TracksTypes, New, Old
<1>3. DOMAIN New \subseteq Nat \ {0} /\ DOMAIN Old \subseteq Nat \ {0}
  BY <1>2
<1>4. \A x \in Int : x * x \in Nat
  OBVIOUS
<1>5. ASSUME NEW i \in DOMAIN New, NEW j \in DOMAIN Old  PROVE Gap(i, j) \in Nat
  <2>1. New[i] \in Blob /\ Old[j] \in Blob
    BY <1>2
  <2>2. New[i].at \in Int /\ Old[j].at + Old[j].v \in Int
    <3>1. Places \subseteq Int
      BY TracksAssumption
    <3>2. New[i].at \in Places /\ Old[j].at \in Places /\ Old[j].v \in Int
      BY <2>1 DEF Blob
    <3>3. \A x \in Places : x \in Int
      BY <3>1
    <3>4. New[i].at \in Int /\ Old[j].at \in Int
      BY <3>2, <3>3, Zenon
    <3> QED
      BY <3>2, <3>4
  <2>3. Where(New)[i] = New[i].at /\ Expected(Old)[j] = Old[j].at + Old[j].v
    BY DEF Where, Expected
  <2>4. Where(New)[i] - Expected(Old)[j] \in Int
    BY <2>2, <2>3
  <2> QED
    BY <1>4, <2>4 DEF Gap, distsq
<1> QED
  BY <1>1, <1>2, <1>3, <1>5 DEF Where, Expected

\* What a turn makes of the matches: nothing, or a match of i with the closest
\* that it may claim.
MayClaim(i) ==
  {j \in DOMAIN Old : \/ fast.m.closest_last_ob[j] = 0
                      \/ fast.m.closest_last_ob_distsq[j] > Gap(i, j)}
Claimed(i, j) ==
  [closest_ob |-> [k \in DOMAIN New |-> IF k = i THEN j
                     ELSE IF k = fast.m.closest_last_ob[j] THEN 0 ELSE fast.m.closest_ob[k]],
   closest_last_ob |-> [fast.m.closest_last_ob EXCEPT ![j] = i],
   closest_last_ob_distsq |-> [fast.m.closest_last_ob_distsq EXCEPT ![j] = Gap(i, j)],
   scan_again |-> fast.m.scan_again \/ fast.m.closest_last_ob[j] # 0]

LEMMA ClaimsIs ==
  ASSUME TracksInv, fast.at = "match", NEW i \in DOMAIN New
  PROVE  LET m == Claims(fast.m, Where(New), Expected(Old), i)
         IN  \/ m = fast.m /\ (fast.m.closest_ob[i] # 0 \/ MayClaim(i) = {})
             \/ \E j \in MayClaim(i) :
                  /\ fast.m.closest_ob[i] = 0 /\ \A k \in MayClaim(i) : Gap(i, j) <= Gap(i, k)
                  /\ m = Claimed(i, j)
<1> DEFINE m == Claims(fast.m, Where(New), Expected(Old), i)
           js == MayClaim(i)
           j == Closest(js, Where(New), Expected(Old), i)
<1>1. DOMAIN Where(New) = DOMAIN New /\ DOMAIN Expected(Old) = DOMAIN Old
      /\ DOMAIN Old \subseteq Nat /\ \A k \in DOMAIN Old : Gap(i, k) \in Nat
  BY MatchingAt
<1>2. Claimable(fast.m, Where(New), Expected(Old), i) = js
  BY <1>1 DEF Claimable, Gap, MayClaim
<1>3. m = IF fast.m.closest_ob[i] # 0 \/ js = {} THEN fast.m ELSE Claimed(i, j)
  BY <1>1, <1>2 DEF Claims, Gap, Claimed
<1>4. ASSUME js # {}
      PROVE  j \in js /\ \A k \in js : Gap(i, j) <= Gap(i, k)
  <2>1. js \subseteq Nat /\ \A k \in js : distsq(Where(New), Expected(Old), i, k) \in Nat
    BY <1>1 DEF Gap, MayClaim
  <2> HIDE DEF js
  <2> QED
    BY <1>4, <2>1, ClosestIs DEF Gap
<1> HIDE DEF j
<1> QED
  BY <1>3, <1>4

LEMMA ClaimsKeep ==
  ASSUME TracksInv, fast.at = "match", NEW i \in DOMAIN New, i = fast.i,
         NEW m, m = Claims(fast.m, Where(New), Expected(Old), i)
  PROVE  /\ m = [closest_ob |-> m.closest_ob, closest_last_ob |-> m.closest_last_ob,
                 closest_last_ob_distsq |-> m.closest_last_ob_distsq, scan_again |-> m.scan_again]
         /\ m.closest_ob \in [DOMAIN New -> {0} \cup DOMAIN Old]
         /\ m.closest_last_ob \in [DOMAIN Old -> {0} \cup DOMAIN New]
         /\ m.closest_last_ob_distsq \in [DOMAIN Old -> Int] /\ m.scan_again \in BOOLEAN
         /\ \A k \in DOMAIN New : m.closest_ob[k] # 0 => m.closest_last_ob[m.closest_ob[k]] = k
         /\ \A j \in DOMAIN Old : m.closest_last_ob[j] # 0 =>
              /\ m.closest_ob[m.closest_last_ob[j]] = j
              /\ m.closest_last_ob_distsq[j] = Gap(m.closest_last_ob[j], j)
         /\ \A k \in DOMAIN New, j \in DOMAIN Old : Mutual(k, j) =>
              m.closest_ob[k] \in {0, j} /\ (k < i + 1 => m.closest_ob[k] = j)
<1> DEFINE f == fast.m
           js == MayClaim(i)
<1>1. /\ DOMAIN New \subseteq Nat \ {0} /\ DOMAIN Old \subseteq Nat \ {0}
      /\ \A k \in DOMAIN New, j \in DOMAIN Old : Gap(k, j) \in Nat
  BY MatchingAt
<1>2. /\ MatchTypes
      /\ \A k \in DOMAIN New : f.closest_ob[k] # 0 => f.closest_last_ob[f.closest_ob[k]] = k
      /\ \A j \in DOMAIN Old : f.closest_last_ob[j] # 0 =>
           /\ f.closest_ob[f.closest_last_ob[j]] = j
           /\ f.closest_last_ob_distsq[j] = Gap(f.closest_last_ob[j], j)
      /\ \A k \in DOMAIN New, j \in DOMAIN Old : Mutual(k, j) =>
           f.closest_ob[k] \in {0, j} /\ (k < i => f.closest_ob[k] = j)
  BY DEF TracksInv, Matching, Paired, MutualMatched
<1>3. /\ f.closest_ob \in [DOMAIN New -> {0} \cup DOMAIN Old]
      /\ f.closest_last_ob \in [DOMAIN Old -> {0} \cup DOMAIN New]
      /\ f.closest_last_ob_distsq \in [DOMAIN Old -> Int] /\ f.scan_again \in BOOLEAN
  BY <1>2 DEF MatchTypes
<1>4. ASSUME NEW j \in DOMAIN Old, Mutual(i, j), f.closest_ob[i] = 0  PROVE j \in js
  <2>1. CASE f.closest_last_ob[j] = 0
    BY <2>1 DEF MayClaim
  <2>2. CASE f.closest_last_ob[j] # 0
    <3> DEFINE a == f.closest_last_ob[j]
    <3>1. a \in DOMAIN New /\ f.closest_ob[a] = j /\ f.closest_last_ob_distsq[j] = Gap(a, j)
      BY <1>2, <1>3, <2>2
    <3>2. a # i
      BY <1>1, <1>4, <3>1
    <3>3. Gap(i, j) < Gap(a, j)
      BY <1>4, <3>1, <3>2 DEF Mutual
    <3>4. f.closest_last_ob_distsq[j] > Gap(i, j)
      BY <1>1, <3>1, <3>3
    <3> QED
      BY <3>4 DEF MayClaim
  <2> QED
    BY <2>1, <2>2
<1>5. CASE m = f /\ (f.closest_ob[i] # 0 \/ js = {})
  <2>1. ASSUME NEW k \in DOMAIN New, NEW j \in DOMAIN Old, Mutual(k, j), k < i + 1
        PROVE  f.closest_ob[k] = j
    <3>1. CASE k < i
      BY <1>2, <2>1, <3>1
    <3>2. CASE k = i
      BY <1>2, <1>4, <1>5, <2>1, <3>2
    <3> QED
      BY <1>1, <2>1, <3>1, <3>2
  <2> QED
    BY <1>2, <1>3, <1>5, <2>1 DEF MatchTypes
<1>6. ASSUME NEW j0 \in js, f.closest_ob[i] = 0, \A k \in js : Gap(i, j0) <= Gap(i, k),
             m = Claimed(i, j0)
      PROVE  /\ m = [closest_ob |-> m.closest_ob, closest_last_ob |-> m.closest_last_ob,
                     closest_last_ob_distsq |-> m.closest_last_ob_distsq, scan_again |-> m.scan_again]
             /\ m.closest_ob \in [DOMAIN New -> {0} \cup DOMAIN Old]
             /\ m.closest_last_ob \in [DOMAIN Old -> {0} \cup DOMAIN New]
             /\ m.closest_last_ob_distsq \in [DOMAIN Old -> Int] /\ m.scan_again \in BOOLEAN
             /\ \A k \in DOMAIN New : m.closest_ob[k] # 0 => m.closest_last_ob[m.closest_ob[k]] = k
             /\ \A j \in DOMAIN Old : m.closest_last_ob[j] # 0 =>
                  /\ m.closest_ob[m.closest_last_ob[j]] = j
                  /\ m.closest_last_ob_distsq[j] = Gap(m.closest_last_ob[j], j)
             /\ \A k \in DOMAIN New, j \in DOMAIN Old : Mutual(k, j) =>
                  m.closest_ob[k] \in {0, j} /\ (k < i + 1 => m.closest_ob[k] = j)
  <2> DEFINE u == f.closest_last_ob[j0]
             ob == m.closest_ob
             of == m.closest_last_ob
             ds == m.closest_last_ob_distsq
  <2>1. j0 \in DOMAIN Old /\ (u = 0 \/ f.closest_last_ob_distsq[j0] > Gap(i, j0))
    BY DEF MayClaim
  <2>2. u \in {0} \cup DOMAIN New /\ u # i
        /\ (u # 0 => f.closest_ob[u] = j0 /\ f.closest_last_ob_distsq[j0] = Gap(u, j0))
    BY <1>1, <1>2, <1>3, <1>6, <2>1
  <2>3. /\ ob = [k \in DOMAIN New |-> IF k = i THEN j0 ELSE IF k = u THEN 0 ELSE f.closest_ob[k]]
        /\ of = [f.closest_last_ob EXCEPT ![j0] = i]
        /\ ds = [f.closest_last_ob_distsq EXCEPT ![j0] = Gap(i, j0)]
        /\ m.scan_again \in BOOLEAN
        /\ m = [closest_ob |-> ob, closest_last_ob |-> of, closest_last_ob_distsq |-> ds,
                scan_again |-> m.scan_again]
    BY <1>6 DEF Claimed
  <2>4. Gap(i, j0) \in Int
    BY <1>1, <2>1
  <2> HIDE DEF ob, of, ds, js
  <2>5. /\ ob \in [DOMAIN New -> {0} \cup DOMAIN Old] /\ of \in [DOMAIN Old -> {0} \cup DOMAIN New]
        /\ ds \in [DOMAIN Old -> Int]
    BY <1>3, <2>1, <2>3, <2>4
  <2>6. ob[i] = j0 /\ \A k \in DOMAIN New \ {i} : ob[k] = IF k = u THEN 0 ELSE f.closest_ob[k]
    BY <2>3
  <2>7. of[j0] = i /\ ds[j0] = Gap(i, j0)
        /\ \A j \in DOMAIN Old \ {j0} :
             of[j] = f.closest_last_ob[j] /\ ds[j] = f.closest_last_ob_distsq[j]
    BY <1>3, <2>1, <2>3
  <2>8. ASSUME NEW k \in DOMAIN New, ob[k] # 0  PROVE of[ob[k]] = k
    <3>1. CASE k = i
      BY <2>6, <2>7, <3>1
    <3>2. CASE k # i
      <4>1. k # u /\ ob[k] = f.closest_ob[k] /\ f.closest_last_ob[ob[k]] = k /\ ob[k] \in DOMAIN Old
        BY <1>2, <1>3, <2>6, <2>8, <3>2
      <4> QED
        BY <2>7, <4>1
    <3> QED
      BY <3>1, <3>2
  <2>9. ASSUME NEW j \in DOMAIN Old, of[j] # 0  PROVE ob[of[j]] = j /\ ds[j] = Gap(of[j], j)
    <3>1. CASE j = j0
      BY <2>6, <2>7, <3>1
    <3>2. CASE j # j0
      <4>1. of[j] = f.closest_last_ob[j] /\ f.closest_ob[of[j]] = j /\ of[j] \in DOMAIN New
            /\ ds[j] = Gap(of[j], j)
        BY <1>2, <1>3, <2>7, <2>9, <3>2
      <4>2. of[j] # i /\ of[j] # u
        BY <1>1, <1>6, <2>2, <3>2, <4>1, <2>9
      <4> QED
        BY <2>6, <4>1, <4>2
    <3> QED
      BY <3>1, <3>2
  <2>10. ASSUME NEW k \in DOMAIN New, NEW j \in DOMAIN Old, Mutual(k, j)
         PROVE  ob[k] \in {0, j} /\ (k < i + 1 => ob[k] = j)
    <3>1. CASE k = i
      <4>1. j \in js /\ Gap(i, j0) <= Gap(i, j)
        BY <1>4, <1>6, <2>10, <3>1
      <4>2. j0 # j => Gap(i, j) < Gap(i, j0)
        BY <2>1, <2>10, <3>1 DEF Mutual
      <4>3. j0 = j
        BY <1>1, <2>1, <4>1, <4>2
      <4> QED
        BY <2>6, <3>1, <4>3
    <3>2. CASE k # i
      <4>1. k # u
        <5> SUFFICES ASSUME k = u  PROVE FALSE
          OBVIOUS
        <5>1. u # 0 /\ f.closest_ob[k] = j0 /\ Gap(k, j0) > Gap(i, j0)
          BY <1>1, <2>1, <2>2
        <5>2. j = j0
          BY <1>1, <1>2, <2>1, <2>10, <5>1
        <5>3. Gap(k, j0) < Gap(i, j0)
          BY <2>10, <3>2, <5>2 DEF Mutual
        <5> QED
          BY <1>1, <2>1, <5>1, <5>3
      <4>2. ob[k] = f.closest_ob[k] /\ (k < i + 1 => k < i)
        BY <1>1, <2>6, <3>2, <4>1
      <4> QED
        BY <1>2, <2>10, <4>2
    <3> QED
      BY <3>1, <3>2
  <2> QED
    BY <2>3, <2>5, <2>8, <2>9, <2>10 DEF ob, of, ds
<1>7. (m = f /\ (f.closest_ob[i] # 0 \/ js = {}))
      \/ \E j \in js :
           /\ f.closest_ob[i] = 0 /\ \A k \in js : Gap(i, j) <= Gap(i, k)
           /\ m = Claimed(i, j)
  BY ClaimsIs
<1> HIDE DEF js, f
<1> QED
  BY <1>5, <1>6, <1>7

\* The turn makes the matches of the last frame's blobs closer only.
LEMMA ClaimsNoBetter ==
  ASSUME TracksInv, fast.at = "match", NEW i \in DOMAIN New, i = fast.i,
         NEW m, m = Claims(fast.m, Where(New), Expected(Old), i),
         NEW k \in DOMAIN New, NEW j \in DOMAIN Old,
         \/ m.closest_ob[k] # 0 /\ Gap(k, j) < Gap(k, m.closest_ob[k])
         \/ m.closest_ob[k] = 0 /\ ~m.scan_again /\ k < i + 1
  PROVE  m.closest_last_ob[j] # 0 /\ m.closest_last_ob_distsq[j] <= Gap(k, j)
<1> DEFINE f == fast.m
           js == MayClaim(i)
<1>1. /\ DOMAIN New \subseteq Nat \ {0} /\ DOMAIN Old \subseteq Nat \ {0}
      /\ \A a \in DOMAIN New, b \in DOMAIN Old : Gap(a, b) \in Nat
  BY MatchingAt
<1>2. /\ f.closest_ob \in [DOMAIN New -> {0} \cup DOMAIN Old]
      /\ f.closest_last_ob \in [DOMAIN Old -> {0} \cup DOMAIN New]
      /\ f.closest_last_ob_distsq \in [DOMAIN Old -> Int]
  BY DEF TracksInv, Matching, MatchTypes
<1>3. \A a \in DOMAIN New, b \in DOMAIN Old :
        /\ f.closest_ob[a] # 0 /\ Gap(a, b) < Gap(a, f.closest_ob[a]) => Taken(a, b)
        /\ f.closest_ob[a] = 0 /\ ~f.scan_again /\ a < i => Taken(a, b)
  BY DEF TracksInv, Matching, NoBetter
<1>4. \A b \in DOMAIN Old : b \notin js => Taken(i, b)
  BY <1>1, <1>2 DEF MayClaim, Taken
<1>5. CASE m = f /\ (f.closest_ob[i] # 0 \/ js = {})
  <2>1. Taken(k, j)
    <3>1. CASE f.closest_ob[k] # 0
      BY <1>3, <1>5, <3>1
    <3>2. CASE f.closest_ob[k] = 0 /\ k = i
      BY <1>4, <1>5, <3>2
    <3>3. CASE f.closest_ob[k] = 0 /\ k # i
      <4>1. k < i
        BY <1>1, <1>5, <3>3
      <4> QED
        BY <1>3, <1>5, <3>3, <4>1
    <3> QED
      BY <3>1, <3>2, <3>3
  <2> QED
    BY <1>5, <2>1 DEF Taken
<1>6. ASSUME NEW j0 \in js, f.closest_ob[i] = 0, \A b \in js : Gap(i, j0) <= Gap(i, b),
             m = Claimed(i, j0)
      PROVE  m.closest_last_ob[j] # 0 /\ m.closest_last_ob_distsq[j] <= Gap(k, j)
  <2> DEFINE u == f.closest_last_ob[j0]
             ob == m.closest_ob
  <2>1. j0 \in DOMAIN Old /\ (u = 0 \/ f.closest_last_ob_distsq[j0] > Gap(i, j0))
    BY DEF MayClaim
  <2>2. /\ ob = [a \in DOMAIN New |-> IF a = i THEN j0 ELSE IF a = u THEN 0 ELSE f.closest_ob[a]]
        /\ m.closest_last_ob = [f.closest_last_ob EXCEPT ![j0] = i]
        /\ m.closest_last_ob_distsq = [f.closest_last_ob_distsq EXCEPT ![j0] = Gap(i, j0)]
        /\ m.scan_again = (f.scan_again \/ u # 0)
    BY <1>6 DEF Claimed
  <2> HIDE DEF ob, js
  <2>3. ob[i] = j0 /\ \A a \in DOMAIN New \ {i} : ob[a] = IF a = u THEN 0 ELSE f.closest_ob[a]
    BY <2>2
  <2>4. m.closest_last_ob[j0] = i /\ m.closest_last_ob_distsq[j0] = Gap(i, j0)
        /\ \A b \in DOMAIN Old \ {j0} :
             /\ m.closest_last_ob[b] = f.closest_last_ob[b]
             /\ m.closest_last_ob_distsq[b] = f.closest_last_ob_distsq[b]
    BY <1>2, <2>1, <2>2
  <2>5. CASE k = i
    <3>1. Gap(i, j) < Gap(i, j0)
      BY <1>1, <2>1, <2>3, <2>5 DEF ob
    <3>2. j \notin js /\ j # j0
      BY <1>1, <1>6, <2>1, <3>1
    <3> QED
      BY <1>4, <2>4, <2>5, <3>2 DEF Taken
  <2>6. CASE k # i
    <3>1. Taken(k, j)
      <4>1. CASE ob[k] # 0
        BY <1>3, <2>3, <2>6, <4>1 DEF ob
      <4>2. CASE ob[k] = 0
        <5>1. ~f.scan_again /\ u = 0 /\ k < i
          <6>1. ~m.scan_again /\ k < i + 1
            BY <4>2 DEF ob
          <6>2. ~f.scan_again /\ u = 0
            BY <2>2, <6>1, Zenon
          <6> QED
            BY <1>1, <2>6, <6>1, <6>2
        <5>2. f.closest_ob[k] = 0
          BY <1>1, <2>3, <2>6, <4>2, <5>1
        <5> QED
          BY <1>3, <5>1, <5>2
      <4> QED
        BY <4>1, <4>2
    <3>2. CASE j = j0
      BY <1>1, <1>2, <2>1, <2>4, <3>1, <3>2 DEF Taken
    <3>3. CASE j # j0
      BY <2>4, <3>1, <3>3 DEF Taken
    <3> QED
      BY <3>2, <3>3
  <2> QED
    BY <2>5, <2>6
<1>7. (m = f /\ (f.closest_ob[i] # 0 \/ js = {}))
      \/ \E b \in js :
           /\ f.closest_ob[i] = 0 /\ \A a \in js : Gap(i, b) <= Gap(i, a)
           /\ m = Claimed(i, b)
  BY ClaimsIs
<1> HIDE DEF js, f
<1> QED
  BY <1>5, <1>6, <1>7

LEMMA MatchBlobKeeps ==
  ASSUME TracksInv, Tears, MatchBlob
  PROVE  TracksInv'
<1>1. IdsBelow' /\ IdsUnique' /\ IdsOfOneLight' /\ LabelOnItsLight'
  BY BlobsStay DEF MatchBlob
<1>2. /\ fast.at = "match" /\ fast.i <= Len(blobs[fast.ob]) /\ fast'.at = "match"
      /\ fast'.ob = fast.ob /\ fast'.i = fast.i + 1 /\ fast.i \in Nat \ {0}
      /\ fast'.m = Claims(fast.m, Where(New), Expected(Old), fast.i)
      /\ fast' = [at |-> fast'.at, ob |-> fast'.ob, m |-> fast'.m, i |-> fast'.i, pose |-> fast'.pose]
      /\ UNCHANGED <<blobs, observation_q, last, next_blob_id, long, marks, strayed>>
  BY DEF MatchBlob, TracksInv, TracksTypes, New, Old
<1>3. fast.i \in DOMAIN New
  <2>1. New \in Seq(Blob)
    BY <1>2, MatchingAt
  <2> QED
    BY <1>2, <2>1 DEF New
<1>4. TracksTypes'
  BY <1>2, TornSays DEF TracksInv, TracksTypes, FastPlaces
<1>5. PoolKept' /\ LastPlaced'
  BY <1>2 DEF TracksInv, PoolKept, LastPlaced
<1>6. New' = New /\ Old' = Old /\ \A i, j : Gap(i, j)' = Gap(i, j)
  BY <1>2 DEF New, Old, Gap
<1>7. MatchTypes' /\ Paired' /\ MutualMatched'
  <2> DEFINE m == fast'.m
             i == fast.i
  <2>1. /\ m = [closest_ob |-> m.closest_ob, closest_last_ob |-> m.closest_last_ob,
                 closest_last_ob_distsq |-> m.closest_last_ob_distsq, scan_again |-> m.scan_again]
        /\ m.closest_ob \in [DOMAIN New -> {0} \cup DOMAIN Old]
        /\ m.closest_last_ob \in [DOMAIN Old -> {0} \cup DOMAIN New]
        /\ m.closest_last_ob_distsq \in [DOMAIN Old -> Int] /\ m.scan_again \in BOOLEAN
        /\ \A k \in DOMAIN New : m.closest_ob[k] # 0 => m.closest_last_ob[m.closest_ob[k]] = k
        /\ \A j \in DOMAIN Old : m.closest_last_ob[j] # 0 =>
              /\ m.closest_ob[m.closest_last_ob[j]] = j
              /\ m.closest_last_ob_distsq[j] = Gap(m.closest_last_ob[j], j)
        /\ \A k \in DOMAIN New, j \in DOMAIN Old : Mutual(k, j) =>
              m.closest_ob[k] \in {0, j} /\ (k < i + 1 => m.closest_ob[k] = j)
    BY <1>2, <1>3, ClaimsKeep
  <2>2. MatchTypes'
    BY <1>6, <2>1 DEF MatchTypes
  <2>3. Paired'
    BY <1>6, <2>1 DEF Paired
  <2>4. MutualMatched'
    BY <1>2, <1>6, <2>1 DEF MutualMatched, Mutual
  <2> QED
    BY <2>2, <2>3, <2>4
<1>11. NoBetter'
  <2> DEFINE m == fast'.m
             i == fast.i
  <2>1. m = Claims(fast.m, Where(New), Expected(Old), i)
    BY <1>2
  <2> HIDE DEF m
  <2>2. \A k \in DOMAIN New, j \in DOMAIN Old :
          /\ m.closest_ob[k] # 0 /\ Gap(k, j) < Gap(k, m.closest_ob[k]) =>
               m.closest_last_ob[j] # 0 /\ m.closest_last_ob_distsq[j] <= Gap(k, j)
          /\ m.closest_ob[k] = 0 /\ ~m.scan_again /\ k < i + 1 =>
               m.closest_last_ob[j] # 0 /\ m.closest_last_ob_distsq[j] <= Gap(k, j)
    BY <1>2, <1>3, <2>1, ClaimsNoBetter
  <2> QED
    BY <1>2, <1>6, <2>2 DEF NoBetter, Taken, m
<1>8. IdsHandedOn'
  BY <1>2, <1>6 DEF TracksInv, Matching, IdsHandedOn
<1>9. LabelsHandedOn'
  BY <1>2, <1>6, TornSays DEF TracksInv, Matching, LabelsHandedOn
<1>10. PosesKept'
  BY <1>2, TornSays DEF TracksInv, PosesKept
<1> QED
  BY <1>1, <1>2, <1>4, <1>5, <1>7, <1>8, <1>9, <1>10, <1>11 DEF TracksInv, Matching

-----------------------------------------------------------------------------
(***************************************************************************)
(* The copying.                                                            *)
(***************************************************************************)
\* A blob of its own has a new id; one with a match has not been copied twice.
LEMMA CopiedBlob ==
  ASSUME NEW to \in Blob, NEW from \in Blob
  PROVE  LET c == Copied(to, from)
         IN  /\ c \in Blob /\ c.blob_id = from.blob_id /\ c.label = from.label
             /\ c.light = to.light /\ c.at = to.at
<1>1. to.at \in Int /\ from.at \in Int
  <2>1. \A p \in Places : p \in Int
    BY TracksAssumption
  <2>2. to.at \in Places /\ from.at \in Places
    BY DEF Blob
  <2> QED
    BY <2>1, <2>2, Zenon
<1>2. to.at - from.at \in Int
  BY <1>1
<1> QED
  BY <1>2 DEF Copied, Blob

\* What a turn of the copying does: the blob i takes over id and label of its
\* match j.
LEMMA CopyBlobIs ==
  ASSUME TracksInv, CopyBlob, NEW j, j = fast.m.closest_ob[fast.i], j # 0
  PROVE  /\ fast.at = "copy" /\ fast.i \in DOMAIN New /\ j \in DOMAIN Old
         /\ blobs' \in [Observations -> Seq(Blob)]
         /\ \A p \in Observations \ {fast.ob} : blobs'[p] = blobs[p]
         /\ DOMAIN New' = DOMAIN New /\ Old' = Old
         /\ \A k \in DOMAIN New \ {fast.i} : New'[k] = New[k]
         /\ New'[fast.i] \in Blob
         /\ New'[fast.i].blob_id = Old[j].blob_id /\ New'[fast.i].label = Old[j].label
         /\ New'[fast.i].light = New[fast.i].light /\ New'[fast.i].at = New[fast.i].at
         /\ strayed' = IF New[fast.i].light = Old[j].light THEN strayed
                       ELSE strayed \cup {Old[j].blob_id}
         /\ fast' = [fast EXCEPT !.i = fast.i + 1] /\ last' = last
<1>1. fast.at = "copy" /\ fast.i <= Len(blobs[fast.ob]) /\ fast.i \in Nat \ {0}
      /\ fast' = [fast EXCEPT !.i = fast.i + 1] /\ last' = last
      /\ blobs' = [blobs EXCEPT ![fast.ob][fast.i] = Copied(New[fast.i], Old[j])]
      /\ strayed' = IF New[fast.i].light = Old[j].light THEN strayed
                    ELSE strayed \cup {Old[j].blob_id}
  BY DEF CopyBlob, TracksInv, TracksTypes, New, Old
<1>2. /\ fast.ob \in Observations /\ last \in Observations /\ fast.ob # last
      /\ New \in Seq(Blob) /\ Old \in Seq(Blob) /\ DOMAIN Old \subseteq Nat \ {0}
  BY <1>1, MatchingAt
<1>3. fast.i \in DOMAIN New
  BY <1>1, <1>2 DEF New
<1>4. j \in DOMAIN Old
  BY <1>1, <1>3 DEF TracksInv, Matching, MatchTypes
<1> DEFINE c == Copied(New[fast.i], Old[j])
           new == [New EXCEPT ![fast.i] = c]
<1>5. New[fast.i] \in Blob /\ Old[j] \in Blob
  BY <1>2, <1>3, <1>4
<1>6. /\ c \in Blob /\ c.blob_id = Old[j].blob_id /\ c.label = Old[j].label
      /\ c.light = New[fast.i].light /\ c.at = New[fast.i].at
  BY <1>5, CopiedBlob
<1> HIDE DEF c
<1>7. new \in Seq(Blob) /\ DOMAIN new = DOMAIN New /\ new[fast.i] = c
      /\ \A k \in DOMAIN New \ {fast.i} : new[k] = New[k]
  BY <1>2, <1>3, <1>6
<1>8. blobs' = [blobs EXCEPT ![fast.ob] = new]
  BY <1>1 DEF New, c
<1> HIDE DEF new
<1>9. blobs \in [Observations -> Seq(Blob)]
  BY DEF TracksInv, TracksTypes
<1>10. blobs' \in [Observations -> Seq(Blob)] /\ blobs'[fast.ob] = new
       /\ \A p \in Observations \ {fast.ob} : blobs'[p] = blobs[p]
  BY <1>2, <1>7, <1>8, <1>9
<1>11. fast'.ob = fast.ob
  BY <1>1 DEF TracksInv, TracksTypes
<1>12. New' = new /\ Old' = Old
  BY <1>1, <1>2, <1>10, <1>11 DEF New, Old
<1> QED
  BY <1>1, <1>3, <1>4, <1>6, <1>7, <1>10, <1>12

LEMMA CopyBlobKeeps ==
  ASSUME TracksInv, Tears, CopyBlob
  PROVE  TracksInv'
<1> DEFINE i == fast.i
           j == fast.m.closest_ob[i]
<1>1. /\ fast.at = "copy" /\ i \in Nat \ {0} /\ i <= Len(blobs[fast.ob])
      /\ fast'.at = "copy" /\ fast'.ob = fast.ob /\ fast'.m = fast.m /\ fast'.i = i + 1
      /\ fast' = [at |-> fast'.at, ob |-> fast'.ob, m |-> fast'.m, i |-> fast'.i, pose |-> fast'.pose]
      /\ UNCHANGED <<observation_q, last, next_blob_id, long, marks>>
      /\ j = 0 => UNCHANGED <<blobs, strayed>>
  BY DEF CopyBlob, TracksInv, TracksTypes
<1>2. /\ fast.ob \in Observations /\ last \in Observations /\ fast.ob # last
      /\ New \in Seq(Blob) /\ Old \in Seq(Blob)
      /\ DOMAIN New \subseteq Nat \ {0} /\ DOMAIN Old \subseteq Nat \ {0}
  BY <1>1, MatchingAt
<1>3. i \in DOMAIN New
  BY <1>1, <1>2 DEF New
<1>4. MatchTypes /\ Paired /\ MutualMatched /\ NoBetter /\ IdsHandedOn /\ LabelsHandedOn
  BY <1>1 DEF TracksInv, Matching
<1>5. PoolKept' /\ LastPlaced'
  BY <1>1 DEF TracksInv, PoolKept, LastPlaced
<1>6. CASE j = 0
  <2>1. IdsBelow' /\ IdsUnique' /\ IdsOfOneLight' /\ LabelOnItsLight'
    BY <1>1, <1>6, BlobsStay
  <2>2. TracksTypes'
    BY <1>1, <1>6, TornSays DEF TracksInv, TracksTypes, FastPlaces
  <2>3. New' = New /\ Old' = Old /\ \A a, b : Gap(a, b)' = Gap(a, b)
    BY <1>1, <1>6 DEF New, Old, Gap
  <2>4. MatchTypes' /\ Paired' /\ MutualMatched' /\ NoBetter'
    BY <1>1, <1>4, <2>3 DEF MatchTypes, Paired, MutualMatched, Mutual, NoBetter, Taken
  <2>5. IdsHandedOn'
    <3>1. \A k \in DOMAIN New : k < i + 1 /\ fast.m.closest_ob[k] # 0 => k < i
      BY <1>2, <1>1, <1>6
    <3>2. \A k \in DOMAIN New : k < i => k < i + 1
      BY <1>2, <1>1
    <3> QED
      BY <1>1, <1>4, <2>3, <3>1, <3>2 DEF IdsHandedOn
  <2>6. LabelsHandedOn'
    BY <1>1, <1>4, <2>3, TornSays DEF LabelsHandedOn
  <2>7. PosesKept'
    BY <1>1, <1>6, TornSays DEF TracksInv, PosesKept
  <2> QED
    BY <1>5, <2>1, <2>2, <2>4, <2>5, <2>6, <2>7 DEF TracksInv, Matching
<1>7. CASE j # 0
  <2>1. /\ j \in DOMAIN Old /\ blobs' \in [Observations -> Seq(Blob)]
        /\ \A p \in Observations \ {fast.ob} : blobs'[p] = blobs[p]
        /\ DOMAIN New' = DOMAIN New /\ Old' = Old
        /\ \A k \in DOMAIN New \ {i} : New'[k] = New[k]
        /\ New'[i] \in Blob
        /\ New'[i].blob_id = Old[j].blob_id /\ New'[i].label = Old[j].label
        /\ New'[i].light = New[i].light /\ New'[i].at = New[i].at
        /\ strayed' = IF New[i].light = Old[j].light THEN strayed
                      ELSE strayed \cup {Old[j].blob_id}
    BY <1>7, CopyBlobIs
  <2> HIDE DEF i, j
  <2>2. New' = blobs'[fast.ob] /\ New = blobs[fast.ob] /\ Old = blobs[last]
    BY <1>1 DEF New, Old
  <2>3. Old[j] \in Blob /\ Old[j].blob_id \in Nat /\ strayed \subseteq strayed'
        /\ Old[j].blob_id < next_blob_id
    <3>1. Old[j] \in Blob
      BY <1>2, <2>1
    <3>2. Old[j].blob_id \in Nat
      BY <3>1 DEF Blob
    <3>3. Old[j].blob_id < next_blob_id
      BY <1>2, <2>1, <2>2 DEF TracksInv, IdsBelow
    <3> QED
      BY <2>1, <3>1, <3>2, <3>3
  <2>4. TracksTypes'
    <3>1. strayed' \subseteq Nat
      BY <2>1, <2>3 DEF TracksInv, TracksTypes
    <3>2. blobs' \in [Observations -> Seq(Blob)]
      BY <2>1
    <3>3. /\ fast' = [at |-> fast'.at, ob |-> fast'.ob, m |-> fast'.m, i |-> fast'.i,
                      pose |-> fast'.pose]
          /\ fast'.at = "copy" /\ fast'.i \in Nat \ {0} /\ fast'.ob \in Observations
      BY <1>1, <1>2
    <3>4. UNCHANGED <<observation_q, last, next_blob_id, long, marks>> /\ torn' \in BOOLEAN
      BY <1>1, TornSays
    <3> QED
      BY <3>1, <3>2, <3>3, <3>4 DEF TracksInv, TracksTypes, FastPlaces
  <2>5. IdsBelow'
    <3> SUFFICES ASSUME NEW o \in Observations, NEW a \in DOMAIN blobs'[o]
                 PROVE  blobs'[o][a].blob_id < next_blob_id
      BY <1>1 DEF IdsBelow
    <3>1. CASE o # fast.ob
      BY <2>1, <3>1 DEF TracksInv, IdsBelow
    <3>2. CASE o = fast.ob
      BY <1>2, <2>1, <2>2, <2>3, <3>2 DEF TracksInv, IdsBelow
    <3> QED
      BY <3>1, <3>2
  <2>6. ASSUME NEW b \in DOMAIN New, b # i  PROVE New[b].blob_id # Old[j].blob_id
    <3>1. CASE b < i /\ fast.m.closest_ob[b] # 0
      <4> DEFINE k == fast.m.closest_ob[b]
      <4>1. k \in DOMAIN Old /\ New[b].blob_id = Old[k].blob_id
        BY <1>1, <1>4, <3>1 DEF MatchTypes, IdsHandedOn, i
      <4>2. fast.m.closest_last_ob[k] = b /\ fast.m.closest_last_ob[j] = i
        BY <1>3, <1>4, <1>7, <2>6, <3>1 DEF Paired, j
      <4>3. k # j
        BY <2>6, <4>2
      <4> QED
        BY <1>2, <2>1, <2>2, <4>1, <4>3 DEF TracksInv, IdsUnique
    <3>2. CASE ~(b < i /\ fast.m.closest_ob[b] # 0)
      <4>1. Old[j].blob_id < New[b].blob_id
        BY <1>1, <1>4, <2>1, <3>2 DEF IdsHandedOn, i
      <4>2. New[b] \in Blob
        BY <1>2
      <4> QED
        BY <2>3, <4>1, <4>2 DEF Blob
    <3> QED
      BY <3>1, <3>2
  <2>7. IdsUnique'
    <3> SUFFICES ASSUME NEW o \in Observations, NEW a \in DOMAIN blobs'[o], NEW b \in DOMAIN blobs'[o],
                        a # b
                 PROVE  blobs'[o][a].blob_id # blobs'[o][b].blob_id
      BY DEF IdsUnique
    <3>1. CASE o # fast.ob
      BY <2>1, <3>1 DEF TracksInv, IdsUnique
    <3>2. CASE o = fast.ob /\ a # i /\ b # i
      BY <1>2, <2>1, <2>2, <3>2 DEF TracksInv, IdsUnique
    <3>3. CASE o = fast.ob /\ a = i
      BY <2>1, <2>2, <2>6, <3>3
    <3>4. CASE o = fast.ob /\ b = i
      BY <2>1, <2>2, <2>6, <3>4
    <3> QED
      BY <3>1, <3>2, <3>3, <3>4
  <2>8. \A o \in Observations : \A a \in DOMAIN blobs'[o] :
          /\ a \in DOMAIN blobs[o]
          /\ ~(o = fast.ob /\ a = i) => blobs'[o][a] = blobs[o][a]
    BY <2>1, <2>2
  <2>9. ASSUME Old[j].blob_id \notin strayed'
        PROVE  New[i].light = Old[j].light /\ Old[j].blob_id \notin strayed
    BY <2>1, <2>9
  <2>10. IdsOfOneLight'
    <3>1. ASSUME NEW p \in Observations, NEW b \in DOMAIN blobs'[p],
                 ~(p = fast.ob /\ b = i),
                 blobs'[p][b].blob_id = Old[j].blob_id, Old[j].blob_id \notin strayed'
          PROVE  blobs'[p][b].light = New[i].light
      <4>1. blobs'[p][b] = blobs[p][b] /\ b \in DOMAIN blobs[p]
        BY <2>8, <3>1
      <4>2. blobs[p][b].light = Old[j].light
        <5>1. Old[j].blob_id \notin strayed /\ blobs[p][b].blob_id = Old[j].blob_id
          BY <2>9, <3>1, <4>1
        <5>2. IdsOfOneLight /\ j \in DOMAIN blobs[last] /\ Old[j] = blobs[last][j]
          BY <2>1, <2>2 DEF TracksInv
        <5> QED
          BY <1>2, <4>1, <5>1, <5>2 DEF IdsOfOneLight
      <4> QED
        BY <2>9, <3>1, <4>1, <4>2
    <3> SUFFICES ASSUME NEW o \in Observations, NEW p \in Observations,
                        NEW a \in DOMAIN blobs'[o], NEW b \in DOMAIN blobs'[p],
                        blobs'[o][a].blob_id = blobs'[p][b].blob_id,
                        blobs'[o][a].blob_id \notin strayed'
                 PROVE  blobs'[o][a].light = blobs'[p][b].light
      BY DEF IdsOfOneLight
    <3>2. CASE o = fast.ob /\ a = i /\ p = fast.ob /\ b = i
      BY <3>2
    <3>3. CASE o = fast.ob /\ a = i /\ ~(p = fast.ob /\ b = i)
      BY <2>1, <2>2, <3>1, <3>3
    <3>4. CASE ~(o = fast.ob /\ a = i) /\ p = fast.ob /\ b = i
      BY <2>1, <2>2, <3>1, <3>4
    <3>5. CASE ~(o = fast.ob /\ a = i) /\ ~(p = fast.ob /\ b = i)
      BY <2>3, <2>8, <3>5 DEF TracksInv, IdsOfOneLight
    <3> QED
      BY <3>2, <3>3, <3>4, <3>5
  <2>11. LabelOnItsLight'
    <3> SUFFICES ASSUME NEW o \in Observations, NEW a \in DOMAIN blobs'[o],
                        blobs'[o][a].label # NoLabel, blobs'[o][a].blob_id \notin strayed'
                 PROVE  blobs'[o][a].label.light = blobs'[o][a].light
      BY DEF LabelOnItsLight
    <3>1. CASE ~(o = fast.ob /\ a = i)
      BY <2>3, <2>8, <3>1 DEF TracksInv, LabelOnItsLight
    <3>2. CASE o = fast.ob /\ a = i
      <4>1. blobs'[o][a].label = Old[j].label /\ blobs'[o][a].light = New[i].light
            /\ blobs'[o][a].blob_id = Old[j].blob_id
        BY <2>1, <2>2, <3>2
      <4>2. New[i].light = Old[j].light /\ Old[j].blob_id \notin strayed
        BY <2>9, <4>1
      <4>3. Old[j].label.light = Old[j].light
        BY <1>2, <2>1, <2>2, <4>1, <4>2 DEF TracksInv, LabelOnItsLight
      <4> QED
        BY <4>1, <4>2, <4>3
    <3> QED
      BY <3>1, <3>2
  <2>12. Where(New)' = Where(New) /\ Expected(Old)' = Expected(Old)
    <3>1. \A k \in DOMAIN New : New'[k].at = New[k].at
      BY <2>1
    <3> QED
      BY <2>1, <3>1 DEF Where, Expected
  <2>13. \A a, b : Gap(a, b)' = Gap(a, b)
    BY <2>12 DEF Gap, distsq
  <2>14. MatchTypes' /\ Paired' /\ MutualMatched' /\ NoBetter'
    <3>1. MatchTypes' /\ Paired' /\ MutualMatched'
      <4>1. MatchTypes'
        BY <1>1, <1>4, <2>1 DEF MatchTypes
      <4>2. Paired'
        BY <1>1, <1>4, <2>1, <2>13 DEF Paired
      <4>3. \A a, b : Mutual(a, b)' <=> Mutual(a, b)
        BY <2>1, <2>13 DEF Mutual
      <4>4. MutualMatched'
        BY <1>1, <1>4, <2>1, <4>3 DEF MutualMatched
      <4> QED
        BY <4>1, <4>2, <4>4
    <3>2. \A a, b : Taken(a, b)' <=> Taken(a, b)
      BY <1>1, <2>13 DEF Taken
    <3>3. NoBetter'
      BY <1>1, <1>4, <2>1, <2>13, <3>2 DEF NoBetter
    <3> QED
      BY <3>1, <3>3
  <2>15. IdsHandedOn'
    <3> SUFFICES ASSUME NEW k \in DOMAIN New
                 PROVE  IF k < i + 1 /\ fast.m.closest_ob[k] # 0
                        THEN New'[k].blob_id = Old[fast.m.closest_ob[k]].blob_id
                        ELSE \A l \in DOMAIN Old : Old[l].blob_id < New'[k].blob_id
      BY <1>1, <2>1 DEF IdsHandedOn
    <3>1. CASE k = i
      BY <1>1, <1>7, <2>1, <3>1 DEF j
    <3>2. CASE k # i
      <4>1. k < i + 1 <=> k < i
        BY <1>1, <1>2, <3>2 DEF i
      <4>2. IF k < i /\ fast.m.closest_ob[k] # 0
            THEN New[k].blob_id = Old[fast.m.closest_ob[k]].blob_id
            ELSE \A l \in DOMAIN Old : Old[l].blob_id < New[k].blob_id
        BY <1>1, <1>4 DEF IdsHandedOn, i
      <4> QED
        BY <2>1, <3>2, <4>1, <4>2
    <3> QED
      BY <3>1, <3>2
  <2>16. ASSUME ~torn', NEW k \in DOMAIN New
         PROVE  New'[k].label = NoLabel \/ \E l \in DOMAIN Old : New'[k].label = Old[l].label
    <3>1. CASE k = i
      BY <2>1, <3>1
    <3>2. CASE k # i
      BY <1>4, <2>1, <2>16, <3>2, TornSays DEF LabelsHandedOn
    <3> QED
      BY <3>1, <3>2
  <2>17. LabelsHandedOn'
    BY <1>1, <2>1, <2>16 DEF LabelsHandedOn
  <2>18. PosesKept'
    <3>1. FastUses' \cap LongUses' # {} => torn'
      BY TornSays
    <3> SUFFICES ASSUME ~torn'
                 PROVE  /\ \A o \in Observations : OnePose(blobs'[o])
                        /\ long.at = "mark" => NoneOf(blobs'[long.ob], long.pose.dev)
                        /\ long.at = "transfer" => NoneOf(blobs'[long.into], long.pose.dev)
      BY <1>1, <3>1 DEF PosesKept
    <3>2. ~torn
      BY TornSays
    <3>3. OnePose(Old)
      BY <1>2, <2>2, <3>2 DEF TracksInv, PosesKept
    <3>4. OnePose(New')
      <4> SUFFICES ASSUME NEW a \in DOMAIN New, NEW b \in DOMAIN New,
                          New'[a].label # NoLabel, New'[b].label # NoLabel,
                          New'[a].label.dev = New'[b].label.dev
                   PROVE  New'[a].label.mark = New'[b].label.mark
        BY <2>1 DEF OnePose
      <4>1. PICK k \in DOMAIN Old : New'[a].label = Old[k].label
        BY <2>16
      <4>2. PICK l \in DOMAIN Old : New'[b].label = Old[l].label
        BY <2>16
      <4> QED
        BY <3>3, <4>1, <4>2 DEF OnePose
    <3>5. \A o \in Observations : OnePose(blobs'[o])
      BY <2>1, <2>2, <3>2, <3>4 DEF TracksInv, PosesKept
    <3>6. long.at = "mark" => long.ob \in Observations /\ long.ob # fast.ob
      BY <1>1, LongAt
    <3>7. long.at = "transfer" => long.into = last
      BY <1>1 DEF TracksInv, LastPlaced
    <3> QED
      BY <1>2, <2>1, <3>2, <3>5, <3>6, <3>7 DEF TracksInv, PosesKept
  <2> QED
    BY <1>5, <2>4, <2>5, <2>7, <2>10, <2>11, <2>14, <2>15, <2>17, <2>18 DEF TracksInv, Matching
<1> QED
  BY <1>6, <1>7

-----------------------------------------------------------------------------
(***************************************************************************)
(* A new frame.                                                            *)
(***************************************************************************)
LEMMA ObservedBlobs ==
  ASSUME TracksInv, NEW scene \in Scenes
  PROVE  LET new == Observed(scene)
         IN  /\ new \in Seq(Blob) /\ Len(new) = Len(scene) /\ Len(scene) \in Nat
             /\ \A i \in DOMAIN new :
                  /\ new[i].blob_id = next_blob_id + i - 1 /\ new[i].label = NoLabel
                  /\ i \in 1 .. Len(scene)
<1>1. PICK n \in 0 .. Cardinality(Lights) : scene \in [1 .. n -> [light : Lights, at : Places]]
  BY DEF Scenes
<1>2. n \in Nat /\ next_blob_id \in Nat \ {0}
  BY DEF TracksInv, TracksTypes
<1>3. scene \in Seq([light : Lights, at : Places]) /\ Len(scene) = n /\ DOMAIN scene = 1 .. n
  BY <1>1, <1>2, SequenceOf
<1> DEFINE new == Observed(scene)
<1>4. new = [i \in 1 .. n |-> new[i]]
      /\ \A i \in 1 .. n : new[i] = NewBlob(next_blob_id + i - 1, scene[i].light, scene[i].at)
  BY <1>3 DEF Observed
<1> HIDE DEF new
<1>5. ASSUME NEW i \in 1 .. n
      PROVE  new[i] \in Blob /\ new[i].blob_id = next_blob_id + i - 1 /\ new[i].label = NoLabel
  <2>1. scene[i].light \in Lights /\ scene[i].at \in Places
    BY <1>1
  <2>2. next_blob_id + i - 1 \in Nat \ {0}
    BY <1>2
  <2>3. NoLabel \in BlobLabels
    BY DEF BlobLabels
  <2>4. new[i] = [blob_id |-> next_blob_id + i - 1, light |-> scene[i].light, at |-> scene[i].at,
                  v |-> 0, label |-> NoLabel]
    BY <1>4 DEF NewBlob
  <2> QED
    BY <2>1, <2>2, <2>3, <2>4 DEF Blob
<1>6. new \in [1 .. n -> Blob]
  BY <1>4, <1>5
<1>7. new \in Seq(Blob) /\ Len(new) = n /\ DOMAIN new = 1 .. n
  BY <1>2, <1>6, SequenceOf
<1> QED
  BY <1>2, <1>3, <1>5, <1>7 DEF new

LEMMA QueueLeaves ==
  ASSUME TracksInv, fast.at = "idle", observation_q # <<>>
  PROVE  LET o == Head(observation_q)
             q == Tail(observation_q)
         IN  /\ o \in Observations /\ o # long.ob /\ o # last /\ o # NoObs
             /\ o # long.into \/ long.at # "transfer"
             /\ q \in Seq(Observations) /\ IsInjective(q) /\ Len(q) = Len(observation_q) - 1
             /\ Len(observation_q) \in Nat
             /\ \A p \in ToSet(q) : p # o /\ p # long.ob
<1> DEFINE o == Head(observation_q)
           q == Tail(observation_q)
<1>1. /\ observation_q \in Seq(Observations) /\ Len(observation_q) \in Nat \ {0}
      /\ \A i \in 1 .. Len(observation_q) :
           /\ observation_q[i] # fast.ob /\ observation_q[i] # long.ob
           /\ observation_q[i] \in Observations
      /\ \A i, k \in 1 .. Len(observation_q) : observation_q[i] = observation_q[k] => i = k
  BY QueueHas
<1>2. o = observation_q[1] /\ q \in Seq(Observations) /\ Len(q) = Len(observation_q) - 1
      /\ DOMAIN q = 1 .. Len(q) /\ \A i \in 1 .. Len(q) : q[i] = observation_q[i + 1]
  BY <1>1
<1> HIDE DEF q
<1>3. o \in Observations /\ o # long.ob /\ o # NoObs
  BY <1>1, <1>2 DEF Observations, NoObs
<1>4. o # last
  BY <1>3 DEF TracksInv, LastPlaced
<1>5. o # long.into \/ long.at # "transfer"
  BY <1>4 DEF TracksInv, LastPlaced
<1>6. ASSUME NEW i \in 1 .. Len(q)  PROVE q[i] # o /\ q[i] # long.ob
  <2>1. i + 1 \in 1 .. Len(observation_q) /\ 1 \in 1 .. Len(observation_q) /\ i + 1 # 1
    BY <1>1, <1>2
  <2> QED
    BY <1>1, <1>2, <2>1
<1>7. IsInjective(q)
  <2>1. ASSUME NEW i \in 1 .. Len(q), NEW k \in 1 .. Len(q), q[i] = q[k]  PROVE i = k
    <3>1. i + 1 \in 1 .. Len(observation_q) /\ k + 1 \in 1 .. Len(observation_q)
      BY <1>1, <1>2
    <3>2. i + 1 = k + 1
      BY <1>1, <1>2, <2>1, <3>1
    <3> QED
      BY <3>2
  <2> QED
    BY <1>2, <2>1 DEF IsInjective
<1>8. \A p \in ToSet(q) : p # o /\ p # long.ob
  <2>1. ToSet(q) = {q[i] : i \in 1 .. Len(q)}
    BY <1>2 DEF ToSet
  <2> QED
    BY <1>6, <2>1
<1> QED
  BY <1>1, <1>2, <1>3, <1>4, <1>5, <1>7, <1>8 DEF q

LEMMA ProcessFrameKeeps ==
  ASSUME TracksInv, Tears, NEW scene \in Scenes, ProcessFrame(scene)
  PROVE  TracksInv'
<1> DEFINE o == Head(observation_q)
           new == Observed(scene)
           m == Unmatched(Where(new), Expected(blobs[last]))
<1>1. /\ fast.at = "idle" /\ observation_q # <<>> /\ blobs' = [blobs EXCEPT ![o] = new]
      /\ observation_q' = Tail(observation_q) /\ next_blob_id' = next_blob_id + Len(new)
      /\ UNCHANGED <<long, marks, strayed>>
  BY DEF ProcessFrame
<1>2. /\ fast'.ob = o /\ fast'.i = 1
      /\ fast' = [at |-> fast'.at, ob |-> fast'.ob, m |-> fast'.m, i |-> fast'.i, pose |-> fast'.pose]
      /\ last = NoObs => last' = o /\ fast'.at = "found"
      /\ last # NoObs => last' = last /\ fast'.at = "match" /\ fast'.m = m
  BY DEF ProcessFrame, Idle
<1>3. /\ new \in Seq(Blob) /\ Len(new) \in Nat
      /\ \A i \in DOMAIN new : /\ new[i].blob_id = next_blob_id + i - 1 /\ new[i].label = NoLabel
                               /\ i \in 1 .. Len(new)
  BY ObservedBlobs
<1>4. /\ o \in Observations /\ o # long.ob /\ o # last /\ o # NoObs
      /\ o # long.into \/ long.at # "transfer"
      /\ observation_q' \in Seq(Observations) /\ IsInjective(observation_q')
      /\ Len(observation_q') = Len(observation_q) - 1 /\ Len(observation_q) \in Nat
      /\ \A p \in ToSet(observation_q') : p # o /\ p # long.ob
  BY <1>1, QueueLeaves
<1> HIDE DEF o, new, m
<1>5. blobs \in [Observations -> Seq(Blob)] /\ next_blob_id \in Nat \ {0}
  BY DEF TracksInv, TracksTypes
<1>6. /\ blobs' \in [Observations -> Seq(Blob)] /\ blobs'[o] = new
      /\ \A p \in Observations \ {o} : blobs'[p] = blobs[p]
  BY <1>1, <1>3, <1>4, <1>5
<1>7. next_blob_id' \in Nat \ {0} /\ next_blob_id <= next_blob_id'
  BY <1>1, <1>3, <1>5
<1>8. \A p \in Observations : \A k \in DOMAIN blobs[p] :
        blobs[p][k].blob_id \in Nat /\ blobs[p][k].blob_id < next_blob_id
  <2>1. ASSUME NEW p \in Observations, NEW k \in DOMAIN blobs[p]
        PROVE  blobs[p][k].blob_id \in Nat /\ blobs[p][k].blob_id < next_blob_id
    <3>1. blobs[p][k] \in Blob
      BY <1>5
    <3> QED
      BY <3>1 DEF TracksInv, IdsBelow, Blob
  <2> QED
    BY <2>1
<1>9. ASSUME NEW i \in DOMAIN new
      PROVE  new[i].blob_id \in Nat /\ next_blob_id <= new[i].blob_id
             /\ new[i].blob_id < next_blob_id' /\ i \in Nat \ {0}
  BY <1>1, <1>3, <1>5
<1>10. TracksTypes'
  <2>1. /\ fast' = [at |-> fast'.at, ob |-> fast'.ob, m |-> fast'.m, i |-> fast'.i, pose |-> fast'.pose]
        /\ fast'.at \in {"found", "match"} /\ fast'.i \in Nat \ {0}
        /\ fast'.ob \in Observations /\ last' \in Observations \cup {NoObs}
    BY <1>2, <1>4 DEF TracksInv, TracksTypes
  <2>2. torn' \in BOOLEAN
    BY TornSays
  <2> QED
    BY <1>1, <1>4, <1>6, <1>7, <2>1, <2>2 DEF TracksInv, TracksTypes, FastPlaces
<1>11. PoolKept'
  <2>1. fast.ob = NoObs /\ fast'.at # "idle" /\ (long.ob = NoObs <=> long.at = "idle")
        /\ Len(observation_q) = 3 - (IF long.ob = NoObs THEN 0 ELSE 1)
    BY <1>1, <1>2 DEF TracksInv, PoolKept
  <2>2. Len(observation_q') = 3 - 1 - (IF long.ob = NoObs THEN 0 ELSE 1)
    BY <1>4, <2>1
  <2> QED
    BY <1>1, <1>2, <1>4, <2>1, <2>2 DEF PoolKept
<1>12. LastPlaced'
  BY <1>1, <1>2, <1>4 DEF TracksInv, LastPlaced
<1>13. IdsBelow'
  <2> SUFFICES ASSUME NEW p \in Observations, NEW k \in DOMAIN blobs'[p]
               PROVE  blobs'[p][k].blob_id < next_blob_id'
    BY DEF IdsBelow
  <2>1. CASE p = o
    BY <1>6, <1>9, <2>1
  <2>2. CASE p # o
    <3>1. blobs'[p] = blobs[p]
      BY <1>6, <2>2
    <3>2. blobs[p][k].blob_id \in Nat /\ blobs[p][k].blob_id < next_blob_id
      BY <1>8, <3>1
    <3> QED
      BY <1>5, <1>7, <3>1, <3>2
  <2> QED
    BY <2>1, <2>2
<1>14. \A i, k \in DOMAIN new : i # k => new[i].blob_id # new[k].blob_id
  BY <1>3, <1>5
<1>15. IdsUnique'
  BY <1>6, <1>14 DEF TracksInv, IdsUnique
<1>16. ASSUME NEW p \in Observations, NEW k \in DOMAIN blobs'[p], p # o, NEW i \in DOMAIN new
       PROVE  new[i].blob_id # blobs'[p][k].blob_id
  <2>1. blobs'[p] = blobs[p]
    BY <1>6, <1>16
  <2>2. blobs[p][k].blob_id \in Nat /\ blobs[p][k].blob_id < next_blob_id
    BY <1>8, <2>1
  <2> QED
    BY <1>5, <1>9, <2>1, <2>2
<1>17. IdsOfOneLight'
  <2> SUFFICES ASSUME NEW p \in Observations, NEW q \in Observations,
                      NEW i \in DOMAIN blobs'[p], NEW k \in DOMAIN blobs'[q],
                      blobs'[p][i].blob_id = blobs'[q][k].blob_id,
                      blobs'[p][i].blob_id \notin strayed
               PROVE  blobs'[p][i].light = blobs'[q][k].light
    BY <1>1 DEF IdsOfOneLight
  <2>1. CASE p = o /\ q = o
    <3>1. i = k
      BY <1>6, <1>14, <2>1
    <3> QED
      BY <2>1, <3>1
  <2>2. CASE p = o /\ q # o
    BY <1>6, <1>16, <2>2
  <2>3. CASE p # o /\ q = o
    BY <1>6, <1>16, <2>3
  <2>4. CASE p # o /\ q # o
    <3>1. blobs'[p] = blobs[p] /\ blobs'[q] = blobs[q]
      BY <1>6, <2>4
    <3>2. IdsOfOneLight
      BY DEF TracksInv
    <3> QED
      BY <3>1, <3>2 DEF IdsOfOneLight
  <2> QED
    BY <2>1, <2>2, <2>3, <2>4
<1>18. LabelOnItsLight'
  BY <1>1, <1>3, <1>6 DEF TracksInv, LabelOnItsLight
<1>19. ASSUME last # NoObs
       PROVE  MatchTypes' /\ Paired' /\ MutualMatched' /\ NoBetter' /\ IdsHandedOn' /\ LabelsHandedOn'
  <2>1. last \in Observations
    BY <1>19 DEF TracksInv, TracksTypes
  <2>2. New' = new /\ Old' = blobs[last] /\ fast'.at = "match" /\ fast'.m = m
    BY <1>2, <1>4, <1>6, <1>19, <2>1 DEF New, Old
  <2>3. /\ m = [closest_ob |-> m.closest_ob, closest_last_ob |-> m.closest_last_ob,
                closest_last_ob_distsq |-> m.closest_last_ob_distsq, scan_again |-> m.scan_again]
        /\ m.closest_ob = [i \in DOMAIN new |-> 0]
        /\ m.closest_last_ob = [j \in DOMAIN blobs[last] |-> 0]
        /\ m.closest_last_ob_distsq \in [DOMAIN blobs[last] -> Int]
        /\ m.scan_again = FALSE
    <3>1. DOMAIN Where(new) = DOMAIN new /\ DOMAIN Expected(blobs[last]) = DOMAIN blobs[last]
      BY DEF Where, Expected
    <3> QED
      BY <3>1, SMT DEF m, Unmatched
  <2>4. MatchTypes'
    BY <2>2, <2>3 DEF MatchTypes
  <2>5. Paired'
    BY <2>2, <2>3 DEF Paired
  <2>6. MutualMatched'
    <3>1. \A i \in DOMAIN new : ~(i < 1)
      BY <1>9
    <3> QED
      BY <1>2, <2>2, <2>3, <3>1 DEF MutualMatched
  <2>9. NoBetter'
    <3>1. \A i \in DOMAIN new : ~(i < 1) /\ m.closest_ob[i] = 0
      BY <1>9, <2>3
    <3> QED
      BY <1>2, <2>2, <3>1 DEF NoBetter
  <2>7. IdsHandedOn'
    <3>1. \A i \in DOMAIN new : \A j \in DOMAIN blobs[last] :
            blobs[last][j].blob_id < new[i].blob_id
      BY <1>5, <1>8, <1>9, <2>1
    <3> QED
      BY <2>2, <3>1 DEF IdsHandedOn
  <2>8. LabelsHandedOn'
    BY <1>3, <2>2 DEF LabelsHandedOn
  <2> QED
    BY <2>4, <2>5, <2>6, <2>7, <2>8, <2>9
<1>20. Matching'
  BY <1>2, <1>19 DEF Matching
<1>21. PosesKept'
  <2>1. FastUses' \cap LongUses' # {} => torn'
    BY TornSays
  <2> SUFFICES ASSUME ~torn'
               PROVE  /\ \A p \in Observations : OnePose(blobs'[p])
                      /\ long.at = "mark" => NoneOf(blobs'[long.ob], long.pose.dev)
                      /\ long.at = "transfer" => NoneOf(blobs'[long.into], long.pose.dev)
    BY <1>1, <1>2, <2>1 DEF PosesKept
  <2>2. ~torn
    BY TornSays
  <2>3. OnePose(new)
    BY <1>3 DEF OnePose
  <2>4. \A p \in Observations : OnePose(blobs'[p])
    BY <1>6, <2>2, <2>3 DEF TracksInv, PosesKept
  <2>5. long.at = "mark" => long.ob \in Observations
    BY DEF TracksInv, TracksTypes, PoolKept
  <2>6. long.at = "transfer" => long.into \in Observations
    BY DEF TracksInv, LastPlaced
  <2> QED
    BY <1>4, <1>6, <2>2, <2>4, <2>5, <2>6 DEF TracksInv, PosesKept
<1> QED
  BY <1>10, <1>11, <1>12, <1>13, <1>15, <1>17, <1>18, <1>20, <1>21 DEF TracksInv

-----------------------------------------------------------------------------
LEMMA TracksInitKeeps == TracksInit => TracksInv
<1> SUFFICES ASSUME TracksInit  PROVE TracksInv
  OBVIOUS
<1>1. /\ blobs = [o \in Observations |-> <<>>] /\ observation_q = <<1, 2, 3>> /\ last = NoObs
      /\ next_blob_id = 1 /\ marks = 0 /\ strayed = {} /\ torn = FALSE
      /\ fast = Idle /\ long = Rest
  BY DEF TracksInit
<1>2. /\ fast.at = "idle" /\ fast.ob = NoObs /\ fast.i = 1
      /\ fast = [at |-> fast.at, ob |-> fast.ob, m |-> fast.m, i |-> fast.i, pose |-> fast.pose]
      /\ long.at = "idle" /\ long.ob = NoObs
      /\ long = [at |-> long.at, ob |-> long.ob, into |-> long.into, pose |-> long.pose]
  BY <1>1 DEF Idle, Rest
<1>3. /\ observation_q \in Seq(Observations) /\ Len(observation_q) = 3
      /\ DOMAIN observation_q = 1 .. 3
      /\ observation_q[1] = 1 /\ observation_q[2] = 2 /\ observation_q[3] = 3
  BY <1>1 DEF Observations
<1>4. IsInjective(observation_q) /\ \A o \in ToSet(observation_q) : o # NoObs
  <2>1. ToSet(observation_q) = {observation_q[i] : i \in 1 .. 3}
    BY <1>3 DEF ToSet
  <2>2. \A i \in 1 .. 3 : observation_q[i] # NoObs
    BY <1>3 DEF NoObs
  <2> QED
    BY <1>3, <2>1, <2>2 DEF IsInjective
<1>5. \A o \in Observations : blobs[o] = <<>> /\ DOMAIN blobs[o] = {}
  BY <1>1
<1>6. blobs \in [Observations -> Seq(Blob)]
  <2>1. <<>> \in Seq(Blob)
    OBVIOUS
  <2> QED
    BY <1>1, <2>1
<1>7. TracksTypes
  <2>1. marks \in 0 .. MaxMarks
    BY <1>1, TracksAssumption
  <2>2. next_blob_id \in Nat \ {0} /\ strayed \subseteq Nat
    BY <1>1
  <2>3. torn \in BOOLEAN
    BY <1>1, Zenon
  <2> QED
    BY <1>1, <1>2, <1>3, <1>6, <2>1, <2>2, <2>3 DEF TracksTypes, FastPlaces, LongPlaces
<1>8. PoolKept /\ LastPlaced
  BY <1>1, <1>2, <1>3, <1>4 DEF PoolKept, LastPlaced
<1>9. IdsBelow /\ IdsUnique /\ IdsOfOneLight /\ LabelOnItsLight
  BY <1>5 DEF IdsBelow, IdsUnique, IdsOfOneLight, LabelOnItsLight
<1>10. Matching
  BY <1>2 DEF Matching
<1>11. PosesKept
  BY <1>2, <1>5 DEF PosesKept, FastUses, LongUses, OnePose
<1> QED
  BY <1>7, <1>8, <1>9, <1>10, <1>11 DEF TracksInv
LEMMA TracksStutters ==
  ASSUME TracksInv, UNCHANGED tracksVars
  PROVE  TracksInv'
<1>1. UNCHANGED <<blobs, observation_q, last, next_blob_id, fast, long, marks, strayed, torn>>
  BY DEF tracksVars
<1>2. TracksTypes'
  BY <1>1 DEF TracksInv, TracksTypes
<1>3. PoolKept' /\ LastPlaced'
  BY <1>1 DEF TracksInv, PoolKept, LastPlaced
<1>4. IdsBelow' /\ IdsUnique' /\ IdsOfOneLight' /\ LabelOnItsLight'
  BY <1>1, BlobsStay
<1>5. Matching'
  BY <1>1, MatchingUnmoved DEF TracksInv
<1>6. PosesKept'
  BY <1>1 DEF TracksInv, PosesKept, FastUses, LongUses
<1> QED
  BY <1>2, <1>3, <1>4, <1>5, <1>6 DEF TracksInv

LEMMA TracksNextKeeps ==
  ASSUME TracksInv, TracksNext
  PROVE  TracksInv'
<1>1. Tears /\ (Fast \/ Long)
  BY DEF TracksNext, Tears
<1>2. CASE Fast
  <2>1. CASE \E scene \in Scenes : ProcessFrame(scene)
    BY <1>1, <2>1, ProcessFrameKeeps
  <2>2. CASE MatchBlob
    BY <1>1, <2>2, MatchBlobKeeps
  <2>3. CASE ScanEnds
    BY <1>1, <2>3, ScanEndsKeeps
  <2>4. CASE CopyBlob
    BY <1>1, <2>4, CopyBlobKeeps
  <2>5. CASE ProcessEnds
    BY <1>1, <2>5, ProcessEndsKeeps
  <2>6. CASE \E dev \in Targets : FastClears(dev)
    BY <1>1, <2>6, FastClearsKeeps
  <2>7. CASE \E ps \in SUBSET Places : FastMarks(ps)
    BY <1>1, <2>7, FastMarksKeeps
  <2>8. CASE FastAccepted
    BY <1>1, <2>8, FastAcceptedKeeps
  <2>9. CASE FastRejected
    BY <1>1, <2>9, FastRejectedKeeps
  <2>10. CASE FastEnds
    BY <1>1, <2>10, FastEndsKeeps
  <2> QED
    BY <1>2, <2>1, <2>2, <2>3, <2>4, <2>5, <2>6, <2>7, <2>8, <2>9, <2>10 DEF Fast
<1>3. CASE Long
  <2>1. CASE \E dev \in Targets : LongClears(dev)
    BY <1>1, <2>1, LongClearsKeeps
  <2>2. CASE \E ps \in SUBSET Places : LongMarks(ps)
    BY <1>1, <2>2, LongMarksKeeps
  <2>3. CASE LongRejected
    BY <1>1, <2>3, LongRejectedKeeps
  <2>4. CASE UpdateClears
    BY <1>1, <2>4, UpdateClearsKeeps
  <2>5. CASE UpdateTransfers
    BY <1>1, <2>5, UpdateTransfersKeeps
  <2>6. CASE UpdateNothing
    BY <1>1, <2>6, UpdateNothingKeeps
  <2>7. CASE LongEnds
    BY <1>1, <2>7, LongEndsKeeps
  <2> QED
    BY <1>3, <2>1, <2>2, <2>3, <2>4, <2>5, <2>6, <2>7 DEF Long
<1> QED
  BY <1>1, <1>2, <1>3

\* The invariant holds of every behaviour, whatever the number of lights,
\* places, devices and blobs.
THEOREM TracksInductive == TracksSpec => []TracksInv
<1>1. TracksInit => TracksInv
  BY TracksInitKeeps
<1>2. TracksInv /\ [TracksNext]_tracksVars => TracksInv'
  BY TracksNextKeeps, TracksStutters
<1> QED
  BY <1>1, <1>2, PTL DEF TracksSpec
LEMMA TracksInvSays ==
  ASSUME TracksInv
  PROVE  LabelsRight
<1>1. TracksTypeOK
  <2>1. ASSUME NEW o \in Observations, NEW i \in DOMAIN blobs[o]
        PROVE  /\ blobs[o][i].blob_id \in 1 .. next_blob_id - 1
               /\ blobs[o][i].at \in Places /\ blobs[o][i].light \in Lights
               /\ blobs[o][i].label \in BlobLabels
    <3>1. blobs[o][i] \in Blob
      BY DEF TracksInv, TracksTypes
    <3>2. blobs[o][i].blob_id < next_blob_id /\ next_blob_id \in Nat
      BY DEF TracksInv, TracksTypes, IdsBelow
    <3> QED
      BY <3>1, <3>2 DEF Blob
  <2>2. ToSet(observation_q) \subseteq Observations
    <3>1. observation_q \in Seq(Observations)
      BY DEF TracksInv, TracksTypes
    <3>2. ToSet(observation_q) = {observation_q[i] : i \in DOMAIN observation_q}
      BY DEF ToSet
    <3> QED
      BY <3>1, <3>2
  <2> QED
    BY <2>1, <2>2 DEF TracksTypeOK, TracksInv, TracksTypes, PoolKept, FastPlaces, LongPlaces
<1>2. LastKept
  BY DEF TracksInv, LastPlaced, LastKept
<1>3. LabelsOfOnePose
  BY DEF TracksInv, TracksTypes, PosesKept, OnePose, LabelsOfOnePose
<1> QED
  BY <1>1, <1>2, <1>3 DEF TracksInv, LabelsRight

\* However the two threads interleave: ids are unique in an observation, the
\* last observation is not overwritten while it is matched with, and labels are
\* on the lights they were given for and of one pose.
THEOREM LabelsSafe == TracksSpec => []LabelsRight
  BY TracksInductive, TracksInvSays, PTL

LEMMA CopiedIdsFollow ==
  ASSUME TracksInv, TracksNext, fast.at = "copy", fast'.at = "found"
  PROVE  \A i \in DOMAIN New, j \in DOMAIN Old : Mutual(i, j) => New[i].blob_id = Old[j].blob_id
<1>1. ProcessEnds
  BY DEF TracksNext, Fast, Long, ProcessFrame, MatchBlob, ScanEnds, CopyBlob, FastClears, FastMarks,
     FastAccepted, FastRejected, FastEnds, LongClears, LongMarks, LongRejected, UpdateClears,
     UpdateTransfers, UpdateNothing, LongEnds, TracksInv, TracksTypes
<1>2. fast.i > Len(New) /\ fast.i \in Nat /\ New \in Seq(Blob) /\ DOMAIN Old \subseteq Nat \ {0}
  BY <1>1, MatchingAt DEF ProcessEnds, New, TracksInv, TracksTypes
<1>3. \A i \in DOMAIN New : i < fast.i
  BY <1>2
<1> QED
  BY <1>2, <1>3 DEF TracksInv, Matching, MutualMatched, IdsHandedOn

\* A light keeps its id from frame to frame whatever other lights do.
THEOREM IdsFollow == TracksSpec => IdsFollowLights
<1>1. TracksInv /\ [TracksNext]_tracksVars =>
        [fast.at = "copy" /\ fast'.at = "found" =>
           LET new == blobs[fast.ob]
               old == blobs[last]
               D(a, b) == distsq(Where(new), Expected(old), a, b)
           IN  \A i \in DOMAIN new, j \in DOMAIN old :
                 /\ new[i].light = old[j].light
                 /\ \A k \in DOMAIN new \ {i} : D(i, j) < D(k, j)
                 /\ \A k \in DOMAIN old \ {j} : D(i, j) < D(i, k)
                 => new[i].blob_id = old[j].blob_id]_fast
  BY CopiedIdsFollow DEF tracksVars, Mutual, Gap, New, Old
<1> QED
  BY <1>1, TracksInductive, PTL DEF TracksSpec, IdsFollowLights

\* When the scans are over the matches are pairs, and no two blobs that are not
\* matched would both be better off together.
THEOREM MatchesSafe == TracksSpec => []MatchesStand
<1>1. TracksInv => MatchesStand
  <2> SUFFICES ASSUME TracksInv, fast.at = "copy"
               PROVE  MatchesStand
    BY DEF MatchesStand
  <2> DEFINE m == fast.m
             ob == m.closest_ob
  <2>1. MatchTypes /\ Paired /\ NoBetter
    BY DEF TracksInv, Matching
  <2>2. /\ DOMAIN New \subseteq Nat \ {0} /\ DOMAIN Old \subseteq Nat \ {0}
        /\ \A i \in DOMAIN New, j \in DOMAIN Old : Gap(i, j) \in Nat
    BY MatchingAt
  <2>3. ob \in [DOMAIN New -> {0} \cup DOMAIN Old] /\ DOMAIN ob = DOMAIN New
        /\ m.closest_last_ob \in [DOMAIN Old -> {0} \cup DOMAIN New]
    BY <2>1 DEF MatchTypes
  <2>4. ~m.scan_again
    BY <2>1 DEF NoBetter
  <2>5. ASSUME NEW i \in DOMAIN New, NEW k \in DOMAIN New, i # k, ob[i] = ob[k]
        PROVE  ob[i] = 0
    BY <2>1, <2>5 DEF Paired
  <2>6. ASSUME NEW i \in DOMAIN New, NEW j \in DOMAIN Old,
               ob[i] # j, ob[i] = 0 \/ Gap(i, j) < Gap(i, ob[i]),
               \A k \in DOMAIN New : ob[k] = j => Gap(i, j) < Gap(k, j)
        PROVE  FALSE
    <3>1. Taken(i, j)
      BY <2>1, <2>4, <2>6 DEF NoBetter
    <3> DEFINE k == m.closest_last_ob[j]
    <3>2. k \in DOMAIN New /\ ob[k] = j /\ Gap(k, j) <= Gap(i, j)
      BY <2>1, <2>3, <3>1 DEF Taken, Paired
    <3>3. Gap(i, j) < Gap(k, j)
      BY <2>6, <3>2
    <3> QED
      BY <2>2, <3>2, <3>3
  <2> QED
    BY <2>3, <2>5, <2>6 DEF MatchesStand, Gap, New, Old
<1> QED
  BY <1>1, TracksInductive, PTL
=============================================================================
