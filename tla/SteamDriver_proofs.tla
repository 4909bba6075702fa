------------------------- MODULE SteamDriver_proofs -------------------------
(***************************************************************************)
(* Proofs about an OpenHMD context (OhmdContext), the SteamVR driver on    *)
(* top of it (SteamDriver), and the calibration of the height that the     *)
(* driver answers (HeightCalibration).                                     *)
(*                                                                         *)
(* Of the context: the list of open devices and the users of each headset  *)
(* are exact, and a pass of the update thread updates each headset once,   *)
(* for any devices and any way they share headsets.  Of the driver: it is  *)
(* a client of the context, gives each role to the first device that fits, *)
(* and publishes whole poses of open devices, for any list of devices.  Of *)
(* the calibration: the answer is whole, in time and to its own request,   *)
(* for any heights, windows and runs.                                      *)
(***************************************************************************)
EXTENDS SteamDriver, HeightCalibration, FiniteSetTheorems, SequenceTheorems, TLAPS

(***************************************************************************)
(* The context.                                                            *)
(***************************************************************************)
InList == {d \in Devices : \E i \in 1 .. Len(active) : active[i] = d}
OpenOf(h) == {d \in Devices : Headset(d) = h /\ opened[d]}
Closing == client.at \in {"closing", "destroyed"}
InPass == updater.at \in {"loop", "update"}

\* The devices before this place of the list are closed by now.
First == IF Closing THEN client.i ELSE 1

\* The devices the update thread updates, up to a place of the list.
Ours(k) == auto[active[k]] /\ Updates(active[k])
OursBefore(n) == {Headset(active[k]) : k \in {j \in 1 .. n - 1 : Ours(j)}}

-----------------------------------------------------------------------------
\* A device knows its place, so that none is listed twice, and the open ones
\* are those of the list that ohmd_ctx_destroy has not come to.
ListKept ==
  /\ \A i \in 1 .. Len(active) : index[active[i]] = i - 1
  /\ Len(active) = Cardinality(InList)
  /\ \A d \in Devices : opened[d] <=> \E j \in First .. Len(active) : active[j] = d

\* Where the client is.  While it is in ohmd_ctx_update nothing changes what
\* it has decided from: who updates a headset.
ClientPlaced ==
  /\ quit <=> Closing
  /\ Closing => client.i \in 1 .. Len(active) + 1
  /\ client.at = "idle" => client = Idle
  /\ client.at \in {"update", "snapshot"} => client.i \in 1 .. Len(active)
  /\ client.at = "update" => ~auto[active[client.i]] /\ Updates(active[client.i])

\* Where the update thread is: it has the mutex in a pass, and in a pass it
\* has updated what it had to of the devices before its place.
UpdaterPlaced ==
  /\ InPass <=> mutex = "updater"
  /\ updater.at = "none" <=> mutex = "none"
  /\ updater.at = "loop" => updater.i \in 1 .. Len(active) + 1
  /\ updater.at = "update" => updater.i \in 1 .. Len(active)
  /\ updater.at = "update" /\ ~quit => Ours(updater.i)
  /\ InPass /\ ~quit => updater.done = OursBefore(updater.i)

IInv == TypeOK /\ ListKept /\ UsersCounted /\ ClientPlaced /\ UpdaterPlaced
-----------------------------------------------------------------------------
(***************************************************************************)
(* Lemmas about the list and about the counts.                             *)
(***************************************************************************)
LEMMA RemoveFacts ==
  ASSUME NEW S, NEW q \in Seq(S), NEW i \in 1 .. Len(q)
  PROVE  /\ RemoveAt(q, i) \in Seq(S) /\ Len(RemoveAt(q, i)) = Len(q) - 1
         /\ \A j \in 1 .. Len(q) - 1 :
              RemoveAt(q, i)[j] = IF j < i THEN q[j] ELSE q[j + 1]
<1> DEFINE a == SubSeq(q, 1, i - 1)
           b == SubSeq(q, i + 1, Len(q))
<1>1. Len(q) \in Nat /\ \A j \in 1 .. Len(q) : q[j] \in S
  BY LenProperties, ElementOfSeq
<1>2. /\ a \in Seq(S) /\ Len(a) = i - 1
      /\ \A j \in 1 .. i - 1 : a[j] = q[j]
  <2>1. 1 \in Int /\ i - 1 \in Int /\ (\A j \in 1 .. i - 1 : q[j] \in S)
    BY <1>1
  <2>2. /\ a \in Seq(S)
        /\ Len(a) = IF 1 <= i - 1 THEN (i - 1) - 1 + 1 ELSE 0
        /\ \A j \in 1 .. (i - 1) - 1 + 1 : a[j] = q[1 + j - 1]
    BY <2>1, SubSeqProperties
  <2> HIDE DEF a
  <2> QED
    BY <2>2, <1>1
<1>3. /\ b \in Seq(S) /\ Len(b) = Len(q) - i
      /\ \A j \in 1 .. Len(q) - i : b[j] = q[i + j]
  <2>1. i + 1 \in Int /\ Len(q) \in Int /\ (\A j \in i + 1 .. Len(q) : q[j] \in S)
    BY <1>1
  <2>2. /\ b \in Seq(S)
        /\ Len(b) = IF i + 1 <= Len(q) THEN Len(q) - (i + 1) + 1 ELSE 0
        /\ \A j \in 1 .. Len(q) - (i + 1) + 1 : b[j] = q[(i + 1) + j - 1]
    BY <2>1, SubSeqProperties
  <2> HIDE DEF b
  <2> QED
    BY <2>2, <1>1
<1>4. RemoveAt(q, i) = a \o b
  BY DEF RemoveAt
<1> HIDE DEF a, b
<1>5. /\ a \o b \in Seq(S) /\ Len(a \o b) = Len(a) + Len(b)
      /\ \A j \in 1 .. Len(a) + Len(b) :
           (a \o b)[j] = IF j <= Len(a) THEN a[j] ELSE b[j - Len(a)]
  BY <1>2, <1>3, ConcatProperties
<1>6. Len(a) + Len(b) = Len(q) - 1
  BY <1>1, <1>2, <1>3
<1>7. ASSUME NEW j \in 1 .. Len(q) - 1
      PROVE  (a \o b)[j] = IF j < i THEN q[j] ELSE q[j + 1]
  <2>1. CASE j < i
    BY <1>1, <1>2, <1>5, <1>6, <2>1
  <2>2. CASE ~(j < i)
    <3>1. (a \o b)[j] = b[j - (i - 1)]
      BY <1>1, <1>2, <1>5, <1>6, <2>2
    <3>2. j - (i - 1) \in 1 .. Len(q) - i /\ i + (j - (i - 1)) = j + 1
      BY <1>1, <2>2
    <3> QED
      BY <1>3, <2>2, <3>1, <3>2
  <2> QED
    BY <2>1, <2>2
<1> QED
  BY <1>4, <1>5, <1>6, <1>7

\* The devices are finitely many, and so are those of any part of them.
LEMMA Parts ==
  ASSUME NEW T \in SUBSET Devices
  PROVE  /\ IsFiniteSet(T) /\ Cardinality(T) \in Nat
         /\ Cardinality(Devices) \in Nat /\ Cardinality(T) <= Cardinality(Devices)
BY ContextAssumption, FS_Subset, FS_CardinalityType DEF ContextAssumption

\* Places of the list are places of devices, each of another one.
LEMMA ListFacts ==
  ASSUME TypeOK, ListKept
  PROVE  /\ Len(active) \in Nat /\ DOMAIN active = 1 .. Len(active)
         /\ \A i \in 1 .. Len(active) : active[i] \in Devices
         /\ \A i, j \in 1 .. Len(active) : active[i] = active[j] => i = j
         /\ active = <<>> <=> Len(active) = 0
<1>1. active \in Seq(Devices)
  BY DEF TypeOK
<1>2. /\ Len(active) \in Nat /\ DOMAIN active = 1 .. Len(active)
      /\ \A i \in 1 .. Len(active) : active[i] \in Devices
  BY <1>1, LenProperties, ElementOfSeq
<1>3. active = <<>> <=> Len(active) = 0
  BY <1>1, EmptySeq
<1>4. \A i, j \in 1 .. Len(active) : active[i] = active[j] => i = j
  BY <1>2 DEF ListKept
<1> QED
  BY <1>2, <1>3, <1>4

\* A device that opens is one more user of its headset, and of no other.
LEMMA OneUserMore ==
  ASSUME TypeOK, UsersCounted, NEW d \in Devices, ~opened[d],
         opened' = [opened EXCEPT ![d] = TRUE], use' = Acquired(Headset(d))
  PROVE  UsersCounted' /\ use' \in [Headsets -> 0 .. Cardinality(Devices)]
<1>1. SUFFICES ASSUME NEW h \in Headsets
               PROVE  /\ use'[h] = Cardinality(OpenOf(h)')
                      /\ use'[h] \in 0 .. Cardinality(Devices)
  <2>1. use' = [h \in Headsets |-> use'[h]]
    BY DEF TypeOK, Acquired
  <2> QED
    BY <1>1, <2>1 DEF UsersCounted, OpenOf, Headsets, Headset
<1>2. use[h] = Cardinality(OpenOf(h)) /\ use[h] \in Nat
  BY DEF UsersCounted, OpenOf, TypeOK
<1>3. IsFiniteSet(OpenOf(h))
  BY Parts DEF OpenOf
<1>4. OpenOf(h)' \subseteq Devices
  BY DEF OpenOf
<1>5. CASE h = Headset(d)
  <2>1. OpenOf(h)' = OpenOf(h) \cup {d} /\ d \notin OpenOf(h)
    BY <1>5 DEF OpenOf, TypeOK
  <2>2. Cardinality(OpenOf(h)') = use[h] + 1
    BY <1>2, <1>3, <2>1, FS_AddElement
  <2>3. use'[h] = use[h] + 1
    BY <1>5 DEF Acquired, TypeOK
  <2> QED
    BY <1>2, <1>4, <2>2, <2>3, Parts
<1>6. CASE h # Headset(d)
  <2>1. OpenOf(h)' = OpenOf(h) /\ use'[h] = use[h]
    BY <1>6 DEF OpenOf, Acquired, TypeOK
  <2> QED
    BY <1>2, <1>4, <2>1, Parts
<1> QED
  BY <1>5, <1>6

\* A device that closes is one user less of its headset, and of no other, and
\* the last one frees it.
LEMMA OneUserLess ==
  ASSUME TypeOK, UsersCounted, NEW d \in Devices, opened[d],
         opened' = [opened EXCEPT ![d] = FALSE], use' = Released(Headset(d))
  PROVE  UsersCounted' /\ use' \in [Headsets -> 0 .. Cardinality(Devices)]
<1>1. SUFFICES ASSUME NEW h \in Headsets
               PROVE  /\ use'[h] = Cardinality(OpenOf(h)')
                      /\ use'[h] \in 0 .. Cardinality(Devices)
  <2>1. use' = [h \in Headsets |-> use'[h]]
    BY DEF TypeOK, Released
  <2> QED
    BY <1>1, <2>1 DEF UsersCounted, OpenOf, Headsets, Headset
<1>2. use[h] = Cardinality(OpenOf(h)) /\ use[h] \in Nat
  BY DEF UsersCounted, OpenOf, TypeOK
<1>3. IsFiniteSet(OpenOf(h))
  BY Parts DEF OpenOf
<1>4. OpenOf(h)' \subseteq Devices
  BY DEF OpenOf
<1>5. CASE h = Headset(d)
  <2>1. OpenOf(h)' = OpenOf(h) \ {d} /\ d \in OpenOf(h)
    BY <1>5 DEF OpenOf, TypeOK
  <2>2. Cardinality(OpenOf(h) \ {d}) = Cardinality(OpenOf(h)) - 1
    BY <1>3, <2>1, FS_RemoveElement
  <2>3. use[h] # 0
    BY <1>2, <1>3, <2>1, FS_EmptySet
  <2>4. use'[h] = use[h] - 1
    BY <1>2, <1>5, <2>3 DEF Released, TypeOK
  <2> QED
    BY <1>2, <1>4, <2>1, <2>2, <2>4, Parts
<1>6. CASE h # Headset(d)
  <2>1. OpenOf(h)' = OpenOf(h) /\ use'[h] = use[h]
    BY <1>6 DEF OpenOf, Released, TypeOK
  <2> QED
    BY <1>2, <1>4, <2>1, Parts
<1> QED
  BY <1>5, <1>6

-----------------------------------------------------------------------------
(***************************************************************************)
(* What stays while the list, the client or the update thread stays.       *)
(***************************************************************************)
LEMMA ListStays ==
  ASSUME ListKept, UsersCounted, UNCHANGED <<active, index, opened, use>>, First' = First
  PROVE  ListKept' /\ UsersCounted'
BY DEF ListKept, UsersCounted, InList

LEMMA ClientStays ==
  ASSUME ClientPlaced, UNCHANGED <<active, auto, opened, client, quit>>
  PROVE  ClientPlaced' /\ First' = First
BY DEF ClientPlaced, Closing, First, Updates

LEMMA UpdaterStays ==
  ASSUME UpdaterPlaced, UNCHANGED <<active, auto, opened, mutex, updater, quit>>
  PROVE  UpdaterPlaced'
BY DEF UpdaterPlaced, InPass, Ours, OursBefore, Updates

LEMMA AtDeviceFacts ==
  ASSUME TypeOK, ListKept, NEW i \in 1 .. Len(active) + 1
  PROVE  /\ AtDevice(i).at \in {"idle", "update", "snapshot"}
         /\ AtDevice(i) \in [at : {"idle", "update", "snapshot"},
                             i : 0 .. Cardinality(Devices) + 1]
         /\ AtDevice(i).at = "idle" => AtDevice(i) = Idle
         /\ AtDevice(i).at \in {"update", "snapshot"} =>
              AtDevice(i).i = i /\ i \in 1 .. Len(active)
         /\ AtDevice(i).at = "update" => ~auto[active[i]] /\ Updates(active[i])
<1>1. Len(active) \in Nat /\ Len(active) <= Cardinality(Devices)
  BY ListFacts DEF TypeOK
<1>2. Cardinality(Devices) \in Nat
  BY Parts
<1>3. CASE i > Len(active)
  BY <1>2, <1>3 DEF AtDevice, Idle
<1>4. CASE ~(i > Len(active))
  <2>1. i \in 1 .. Len(active) /\ i \in 0 .. Cardinality(Devices) + 1
    BY <1>1, <1>2, <1>4
  <2> QED
    BY <1>4, <2>1 DEF AtDevice
<1> QED
  BY <1>3, <1>4

-----------------------------------------------------------------------------
\* The invariant holds at first.
LEMMA InitKeeps == Init => IInv
<1> SUFFICES ASSUME Init PROVE IInv
  OBVIOUS
<1>1. Cardinality(Devices) \in Nat
  BY Parts
<1>2. active = <<>> /\ Len(active) = 0 /\ active \in Seq(Devices)
  BY EmptySeq DEF Init
<1>3. (\E d \in Devices : TRUE) => Cardinality(Devices) >= 1
  BY <1>1, ContextAssumption, FS_EmptySet DEF ContextAssumption
<1>4. TypeOK
  <2>1. index \in [Devices -> 0 .. Cardinality(Devices) - 1]
    BY <1>1, <1>3 DEF Init
  <2>2. use \in [Headsets -> 0 .. Cardinality(Devices)]
    BY <1>1 DEF Init
  <2>3. 0 \in 0 .. Cardinality(Devices) + 1 /\ Len(active) <= Cardinality(Devices)
    BY <1>1, <1>2
  <2>4. updater \in [at : {"none", "idle", "loop", "update", "ended"},
                    i : 0 .. Cardinality(Devices) + 1, done : SUBSET Headsets]
    BY <2>3 DEF Init
  <2>5. client \in [at : {"idle", "update", "snapshot", "closing", "destroyed"},
                   i : 0 .. Cardinality(Devices) + 1]
    BY <2>3 DEF Init, Idle
  <2>6. /\ auto \in [Devices -> BOOLEAN] /\ opened \in [Devices -> BOOLEAN]
        /\ mutex \in {"none", "free", "updater"} /\ quit \in BOOLEAN
    BY DEF Init
  <2>7. data \in [Headsets -> 0 .. 1]
    BY DEF Init
  <2>8. snapshot \in [Devices -> [pos : 0 .. 1, rot : 0 .. 1]]
    BY DEF Init
  <2> QED
    BY <1>2, <2>1, <2>2, <2>3, <2>4, <2>5, <2>6, <2>7, <2>8 DEF TypeOK
<1>5. ListKept
  <2>1. InList = {}
    BY <1>2 DEF InList
  <2>2. First = 1
    BY DEF Init, First, Closing, Idle
  <2> QED
    BY <1>2, <2>1, <2>2, FS_EmptySet DEF ListKept, Init
<1>6. UsersCounted
  <2>1. \A h \in Headsets : OpenOf(h) = {}
    BY DEF OpenOf, Init
  <2> QED
    BY <2>1, FS_EmptySet DEF UsersCounted, OpenOf, Init
<1>7. ClientPlaced
  BY DEF ClientPlaced, Closing, Init, Idle
<1>8. UpdaterPlaced
  BY DEF UpdaterPlaced, InPass, Init
<1> QED
  BY <1>4, <1>5, <1>6, <1>7, <1>8 DEF IInv

-----------------------------------------------------------------------------
(***************************************************************************)
(* The client opens and closes devices.                                    *)
(***************************************************************************)
LEMMA OpenDeviceKeeps ==
  ASSUME IInv, NEW d \in Devices, NEW a \in BOOLEAN, OpenDevice(d, a)
  PROVE  IInv'
<1> USE DEF IInv
<1>1. /\ client = Idle /\ client' = Idle /\ ~Closing /\ ~Closing' /\ First = 1 /\ First' = 1
      /\ ~quit /\ ~quit' /\ ~InPass /\ mutex # "updater"
  BY DEF OpenDevice, Idle, Closing, First, ClientPlaced, UpdaterPlaced
<1>2. /\ active' \in Seq(Devices) /\ Len(active') = Len(active) + 1
      /\ active'[Len(active) + 1] = d
      /\ \A i \in 1 .. Len(active) : active'[i] = active[i]
  <2>1. active \in Seq(Devices) /\ active' = Append(active, d)
    BY DEF OpenDevice, TypeOK
  <2> QED
    BY <2>1, AppendProperties
<1>3. /\ Len(active) \in Nat /\ Cardinality(Devices) \in Nat
      /\ \A i \in 1 .. Len(active) : active[i] \in Devices
  BY ListFacts, Parts
<1>4. \A i \in 1 .. Len(active) : active[i] # d
  BY <1>1 DEF OpenDevice, ListKept
<1>5. ListKept' /\ Len(active') <= Cardinality(Devices)
  <2>1. InList' = InList \cup {d} /\ d \notin InList
    <3>1. \A i \in 1 .. Len(active') : i \in 1 .. Len(active) \/ i = Len(active) + 1
      BY <1>2, <1>3
    <3>2. \A i \in 1 .. Len(active) + 1 : i \in 1 .. Len(active')
      BY <1>2, <1>3
    <3>3. Len(active) + 1 \in 1 .. Len(active) + 1
          /\ \A i \in 1 .. Len(active) : i \in 1 .. Len(active) + 1
      BY <1>3
    <3> QED
      BY <1>2, <1>4, <3>1, <3>2, <3>3 DEF InList
  <2>2. IsFiniteSet(InList) /\ InList' \subseteq Devices
    BY Parts DEF InList
  <2>3. Cardinality(InList \cup {d}) = Cardinality(InList) + 1
    BY <2>1, <2>2, FS_AddElement
  <2>4. Len(active') = Cardinality(InList')
    BY <1>2, <2>1, <2>3 DEF ListKept
  <2>5. Len(active') <= Cardinality(Devices)
    BY <2>2, <2>4, Parts
  <2>6. \A i \in 1 .. Len(active') : index'[active'[i]] = i - 1
    <3>1. index' = [index EXCEPT ![d] = Len(active)] /\ index \in [Devices -> Nat]
      BY <1>3 DEF OpenDevice, TypeOK
    <3>2. TAKE i \in 1 .. Len(active')
    <3>3. CASE i \in 1 .. Len(active)
      BY <1>2, <1>3, <1>4, <3>1, <3>3 DEF ListKept
    <3>4. CASE i = Len(active) + 1
      BY <1>2, <1>3, <3>1, <3>4
    <3> QED
      BY <1>2, <1>3, <3>3, <3>4
  <2>7. \A e \in Devices : opened'[e] <=> \E j \in 1 .. Len(active') : active'[j] = e
    <3>1. TAKE e \in Devices
    <3>2. opened' = [opened EXCEPT ![d] = TRUE] /\ opened \in [Devices -> BOOLEAN]
      BY DEF OpenDevice, TypeOK
    <3>3. opened[e] <=> \E j \in 1 .. Len(active) : active[j] = e
      BY <1>1 DEF ListKept
    <3>4. (\E j \in 1 .. Len(active') : active'[j] = e)
          <=> e = d \/ \E j \in 1 .. Len(active) : active[j] = e
      <4>1. 1 .. Len(active') = (1 .. Len(active)) \cup {Len(active) + 1}
        BY <1>2, <1>3
      <4> QED
        BY <1>2, <4>1
    <3> QED
      BY <3>2, <3>3, <3>4
  <2> QED
    BY <1>1, <2>4, <2>5, <2>6, <2>7 DEF ListKept
<1>6. UsersCounted' /\ use' \in [Headsets -> 0 .. Cardinality(Devices)]
  BY OneUserMore DEF OpenDevice
<1>7. TypeOK'
  <2>1. index' \in [Devices -> 0 .. Cardinality(Devices) - 1]
    <3>1. Len(active) \in 0 .. Cardinality(Devices) - 1
      BY <1>2, <1>3, <1>5
    <3> QED
      BY <3>1 DEF OpenDevice, TypeOK
  <2>2. auto' \in [Devices -> BOOLEAN] /\ opened' \in [Devices -> BOOLEAN]
    BY DEF OpenDevice, TypeOK
  <2>3. /\ mutex' \in {"none", "free", "updater"}
        /\ updater' \in [at : {"none", "idle", "loop", "update", "ended"},
                         i : 0 .. Cardinality(Devices) + 1, done : SUBSET Headsets]
    BY ZenonT(60) DEF OpenDevice, ThreadSetUp, TypeOK
  <2> QED
    BY <1>2, <1>5, <1>6, <2>1, <2>2, <2>3 DEF OpenDevice, TypeOK
<1>8. ClientPlaced'
  BY <1>1 DEF ClientPlaced, Closing, Idle
<1>9. UpdaterPlaced'
  BY <1>1 DEF UpdaterPlaced, InPass, OpenDevice, ThreadSetUp, TypeOK
<1> QED
  BY <1>5, <1>6, <1>7, <1>8, <1>9

LEMMA CloseDeviceKeeps ==
  ASSUME IInv, NEW d \in Devices, CloseDevice(d)
  PROVE  IInv'
<1> USE DEF IInv
<1>1. /\ client = Idle /\ client' = Idle /\ ~Closing /\ ~Closing' /\ First = 1 /\ First' = 1
      /\ ~quit /\ ~quit' /\ ~InPass /\ mutex # "updater"
  BY DEF CloseDevice, Idle, Closing, First, ClientPlaced, UpdaterPlaced
<1>2. /\ Len(active) \in Nat /\ Cardinality(Devices) \in Nat
      /\ \A i \in 1 .. Len(active) : active[i] \in Devices
      /\ \A i, j \in 1 .. Len(active) : active[i] = active[j] => i = j
  BY ListFacts, Parts
<1>3. PICK k \in 1 .. Len(active) : active[k] = d
  BY <1>1 DEF CloseDevice, ListKept
<1>4. index[d] + 1 = k
  BY <1>2, <1>3 DEF ListKept
<1>5. /\ active' \in Seq(Devices) /\ Len(active') = Len(active) - 1
      /\ \A j \in 1 .. Len(active) - 1 :
           active'[j] = IF j < k THEN active[j] ELSE active[j + 1]
  <2>1. active \in Seq(Devices) /\ active' = RemoveAt(active, k)
    BY <1>4 DEF CloseDevice, TypeOK
  <2> QED
    BY <2>1, RemoveFacts
<1>6. \A e \in Devices : (\E j \in 1 .. Len(active') : active'[j] = e)
                         <=> e # d /\ \E j \in 1 .. Len(active) : active[j] = e
  <2>1. TAKE e \in Devices
  <2>2. ASSUME NEW j \in 1 .. Len(active'), active'[j] = e
        PROVE  e # d /\ \E i \in 1 .. Len(active) : active[i] = e
    <3>1. CASE j < k
      <4>1. j \in 1 .. Len(active) /\ active[j] = e /\ j # k
        BY <1>2, <1>5, <2>2, <3>1
      <4> QED
        BY <1>2, <1>3, <4>1
    <3>2. CASE ~(j < k)
      <4>1. j + 1 \in 1 .. Len(active) /\ active[j + 1] = e /\ j + 1 # k
        BY <1>2, <1>5, <2>2, <3>2
      <4> QED
        BY <1>2, <1>3, <4>1
    <3> QED
      BY <3>1, <3>2
  <2>3. ASSUME NEW i \in 1 .. Len(active), active[i] = e, e # d
        PROVE  \E j \in 1 .. Len(active') : active'[j] = e
    <3>1. i # k
      BY <1>3, <2>3
    <3>2. CASE i < k
      <4>1. i \in 1 .. Len(active') /\ active'[i] = e
        BY <1>2, <1>5, <2>3, <3>2
      <4> QED
        BY <4>1
    <3>3. CASE i > k
      <4>1. i - 1 \in 1 .. Len(active') /\ ~(i - 1 < k) /\ (i - 1) + 1 = i
        BY <1>2, <1>5, <3>3
      <4>2. active'[i - 1] = e
        BY <1>2, <1>5, <2>3, <4>1
      <4> QED
        BY <4>1, <4>2
    <3> QED
      BY <1>2, <3>1, <3>2, <3>3
  <2> QED
    BY <2>2, <2>3
<1>7. \A j \in 1 .. Len(active') : index'[active'[j]] = j - 1
  <2>1. TAKE j \in 1 .. Len(active')
  <2>2. index' = [e \in Devices |->
                    IF \E i \in k + 1 .. Len(active) : active[i] = e
                    THEN index[e] - 1 ELSE index[e]]
    BY <1>4 DEF CloseDevice, Renumbered
  <2>3. CASE j < k
    <3>1. /\ j \in 1 .. Len(active) /\ active'[j] = active[j]
          /\ \A i \in k + 1 .. Len(active) : i \in 1 .. Len(active) /\ i # j
      BY <1>2, <1>5, <2>3
    <3>2. ~\E i \in k + 1 .. Len(active) : active[i] = active[j]
      BY <1>2, <3>1
    <3> QED
      BY <1>2, <2>2, <3>1, <3>2 DEF ListKept
  <2>4. CASE ~(j < k)
    <3>1. /\ j + 1 \in 1 .. Len(active) /\ active'[j] = active[j + 1]
          /\ j + 1 \in k + 1 .. Len(active)
      BY <1>2, <1>5, <2>4
    <3>2. index[active[j + 1]] = (j + 1) - 1 /\ active[j + 1] \in Devices
      BY <1>2, <3>1 DEF ListKept
    <3>3. index'[active[j + 1]] = index[active[j + 1]] - 1
      BY <2>2, <3>1, <3>2
    <3> QED
      BY <1>2, <1>5, <3>1, <3>2, <3>3
  <2> QED
    BY <2>3, <2>4
<1>8. ListKept'
  <2>1. InList' = InList \ {d} /\ d \in InList
    BY <1>3, <1>6 DEF InList
  <2>2. IsFiniteSet(InList)
    BY Parts DEF InList
  <2>3. Cardinality(InList \ {d}) = Cardinality(InList) - 1
    BY <2>1, <2>2, FS_RemoveElement
  <2>4. Len(active') = Cardinality(InList')
    BY <1>5, <2>1, <2>3 DEF ListKept
  <2>5. \A e \in Devices : opened'[e] <=> \E j \in 1 .. Len(active') : active'[j] = e
    <3>1. TAKE e \in Devices
    <3>2. opened' = [opened EXCEPT ![d] = FALSE] /\ opened \in [Devices -> BOOLEAN]
      BY DEF CloseDevice, TypeOK
    <3>3. opened[e] <=> \E j \in 1 .. Len(active) : active[j] = e
      BY <1>1 DEF ListKept
    <3> QED
      BY <1>6, <3>2, <3>3
  <2> QED
    BY <1>1, <1>7, <2>4, <2>5 DEF ListKept
<1>9. UsersCounted' /\ use' \in [Headsets -> 0 .. Cardinality(Devices)]
  BY OneUserLess DEF CloseDevice
<1>10. TypeOK'
  <2>1. index' \in [Devices -> 0 .. Cardinality(Devices) - 1]
    <3>1. index' = [e \in Devices |->
                      IF \E i \in k + 1 .. Len(active) : active[i] = e
                      THEN index[e] - 1 ELSE index[e]]
      BY <1>4 DEF CloseDevice, Renumbered
    <3>2. ASSUME NEW e \in Devices, NEW i \in k + 1 .. Len(active), active[i] = e
          PROVE  index[e] - 1 \in 0 .. Cardinality(Devices) - 1
      <4>1. i \in 1 .. Len(active) /\ i >= 2
        BY <1>2
      <4>2. index[e] = i - 1 /\ index[e] \in 0 .. Cardinality(Devices) - 1
        BY <3>2, <4>1 DEF ListKept, TypeOK
      <4> QED
        BY <1>2, <4>1, <4>2
    <3> QED
      BY <3>1, <3>2 DEF TypeOK
  <2>2. opened' \in [Devices -> BOOLEAN]
    BY DEF CloseDevice, TypeOK
  <2>3. Len(active') <= Cardinality(Devices)
    BY <1>2, <1>5 DEF TypeOK
  <2> QED
    BY <1>5, <1>9, <2>1, <2>2, <2>3 DEF CloseDevice, TypeOK
<1>11. ClientPlaced'
  BY <1>1 DEF ClientPlaced, Closing, Idle
<1>12. UpdaterPlaced'
  BY <1>1 DEF UpdaterPlaced, InPass, CloseDevice
<1> QED
  BY <1>8, <1>9, <1>10, <1>11, <1>12

-----------------------------------------------------------------------------
(***************************************************************************)
(* The update thread.                                                      *)
(***************************************************************************)
LEMMA UpdaterLocksKeeps ==
  ASSUME IInv, UpdaterLocks
  PROVE  IInv'
<1> USE DEF IInv
<1>1. Len(active) \in Nat /\ Cardinality(Devices) \in Nat
  BY ListFacts, Parts
<1>2. TypeOK'
  <2>1. updater' \in [at : {"none", "idle", "loop", "update", "ended"},
                      i : 0 .. Cardinality(Devices) + 1, done : SUBSET Headsets]
    BY <1>1 DEF UpdaterLocks
  <2> QED
    BY <2>1 DEF UpdaterLocks, TypeOK
<1>3. ListKept' /\ UsersCounted' /\ ClientPlaced'
  BY ListStays, ClientStays DEF UpdaterLocks
<1>4. UpdaterPlaced'
  <2>1. OursBefore(1) = {}
    BY DEF OursBefore
  <2>2. OursBefore(1)' = {}
    BY DEF OursBefore
  <2> QED
    BY <1>1, <2>2 DEF UpdaterPlaced, InPass, UpdaterLocks
<1> QED
  BY <1>2, <1>3, <1>4

\* The devices before the next place are those before this one and this one.
LEMMA OursStep ==
  ASSUME TypeOK, ListKept, NEW i \in 1 .. Len(active)
  PROVE  OursBefore(i + 1) = OursBefore(i) \cup (IF Ours(i) THEN {Headset(active[i])} ELSE {})
<1>1. Len(active) \in Nat
  BY ListFacts
<1>2. 1 .. (i + 1) - 1 = (1 .. i - 1) \cup {i}
  BY <1>1
<1> QED
  BY <1>2 DEF OursBefore

LEMMA OursStays ==
  ASSUME UNCHANGED <<active, auto, opened>>, NEW n \in Nat, updater'.i = n
  PROVE  /\ \A k : Ours(k)' <=> Ours(k)
         /\ OursBefore(updater.i)' = OursBefore(n)
BY DEF Ours, OursBefore, Updates

LEMMA UpdaterNextKeeps ==
  ASSUME IInv, UpdaterNext
  PROVE  IInv'
<1> USE DEF IInv
<1>1. Len(active) \in Nat /\ Cardinality(Devices) \in Nat /\ Len(active) <= Cardinality(Devices)
  BY ListFacts, Parts DEF TypeOK
<1>2. updater.i \in 1 .. Len(active)
  BY <1>1 DEF UpdaterNext, UpdaterPlaced
<1>3. /\ updater \in [at : {"none", "idle", "loop", "update", "ended"},
                      i : 0 .. Cardinality(Devices) + 1, done : SUBSET Headsets]
      /\ updater.at = "loop" /\ InPass /\ mutex = "updater"
      /\ UNCHANGED <<active, auto, opened, quit, mutex>>
  BY DEF UpdaterNext, TypeOK, UpdaterPlaced, InPass
<1>4. \/ Ours(updater.i) /\ updater' = [updater EXCEPT !.at = "update"]
      \/ ~Ours(updater.i) /\ updater' = [updater EXCEPT !.i = @ + 1]
  BY DEF UpdaterNext, Ours
<1>5. TypeOK'
  <2>1. updater' \in [at : {"none", "idle", "loop", "update", "ended"},
                      i : 0 .. Cardinality(Devices) + 1, done : SUBSET Headsets]
    BY <1>1, <1>2, <1>3, <1>4
  <2> QED
    BY <2>1 DEF UpdaterNext, TypeOK
<1>6. ListKept' /\ UsersCounted' /\ ClientPlaced'
  BY ListStays, ClientStays DEF UpdaterNext
<1>7. UpdaterPlaced'
  <2>1. updater.done = OursBefore(updater.i) \/ quit
    BY <1>3 DEF UpdaterPlaced
  <2>2. PICK n \in Nat : n = updater'.i
    BY <1>1, <1>2, <1>3, <1>4
  <2>3. CASE updater' = [updater EXCEPT !.at = "update"] /\ Ours(updater.i)
    <3>1. updater'.at = "update" /\ updater.i = n /\ updater'.done = updater.done
      BY <1>3, <2>2, <2>3
    <3>2. Ours(n)' /\ OursBefore(updater.i)' = OursBefore(n) /\ Ours(updater.i)'
      BY <1>3, <2>2, <2>3, <3>1, OursStays DEF Ours, Updates
    <3>3. updater'.i \in 1 .. Len(active')
      BY <1>2, <1>3, <2>2, <3>1
    <3> QED
      BY <1>3, <2>1, <3>1, <3>2, <3>3 DEF UpdaterPlaced, InPass
  <2>4. CASE updater' = [updater EXCEPT !.i = @ + 1] /\ ~Ours(updater.i)
    <3>1. updater'.at = "loop" /\ updater'.i = updater.i + 1 /\ updater'.done = updater.done
      BY <1>3, <2>4
    <3>2. OursBefore(n) = OursBefore(updater.i)
      BY <1>2, <2>2, <2>4, <3>1, OursStep
    <3>3. updater'.i \in 1 .. Len(active') + 1
      BY <1>1, <1>2, <1>3, <3>1
    <3>4. OursBefore(updater.i)' = OursBefore(n)
      BY <1>3, <2>2, OursStays
    <3> QED
      BY <1>3, <2>1, <3>1, <3>2, <3>3, <3>4 DEF UpdaterPlaced, InPass
  <2> QED
    BY <1>4, <2>3, <2>4
<1> QED
  BY <1>5, <1>6, <1>7

LEMMA UpdaterUpdatesKeeps ==
  ASSUME IInv, UpdaterUpdates
  PROVE  IInv'
<1> USE DEF IInv
<1>1. Len(active) \in Nat /\ Cardinality(Devices) \in Nat /\ Len(active) <= Cardinality(Devices)
  BY ListFacts, Parts DEF TypeOK
<1>2. updater.i \in 1 .. Len(active) /\ active[updater.i] \in Devices
  BY ListFacts DEF UpdaterUpdates, UpdaterPlaced
<1>3. /\ updater \in [at : {"none", "idle", "loop", "update", "ended"},
                      i : 0 .. Cardinality(Devices) + 1, done : SUBSET Headsets]
      /\ updater.at = "update" /\ InPass /\ mutex = "updater"
      /\ UNCHANGED <<active, auto, opened, quit, mutex>>
      /\ updater' = [at |-> "loop", i |-> updater.i + 1,
                     done |-> updater.done \cup {Headset(active[updater.i])}]
  BY DEF UpdaterUpdates, TypeOK, UpdaterPlaced, InPass
<1>4. Headset(active[updater.i]) \in Headsets
  BY <1>2 DEF Headsets
<1>5. TypeOK'
  <2>1. updater' \in [at : {"none", "idle", "loop", "update", "ended"},
                      i : 0 .. Cardinality(Devices) + 1, done : SUBSET Headsets]
    BY <1>1, <1>2, <1>3, <1>4
  <2>2. data' \in [Headsets -> 0 .. 1]
    <3>1. \A h \in Headsets : data[h] \in 0 .. 1 /\ 1 - data[h] \in 0 .. 1
      BY DEF TypeOK
    <3>2. data' = NewData(active[updater.i]) /\ data \in [Headsets -> 0 .. 1]
      BY DEF UpdaterUpdates, TypeOK
    <3> QED
      BY <1>4, <3>1, <3>2 DEF NewData
  <2> QED
    BY <2>1, <2>2 DEF UpdaterUpdates, TypeOK
<1>6. ListKept' /\ UsersCounted' /\ ClientPlaced'
  BY ListStays, ClientStays DEF UpdaterUpdates
<1>7. UpdaterPlaced'
  <2>1. PICK n \in Nat : n = updater'.i
    BY <1>1, <1>2, <1>3
  <2>2. ~quit => updater'.done = OursBefore(n)
    <3>1. ASSUME ~quit
          PROVE  Ours(updater.i) /\ updater.done = OursBefore(updater.i)
      BY <1>3, <3>1 DEF UpdaterPlaced
    <3>2. n = updater.i + 1
      BY <1>3, <2>1
    <3> QED
      BY <1>2, <1>3, <3>1, <3>2, OursStep
  <2>3. updater'.i \in 1 .. Len(active') + 1 /\ updater'.at = "loop"
    BY <1>1, <1>2, <1>3
  <2>4. OursBefore(updater.i)' = OursBefore(n)
    BY <1>3, <2>1, OursStays
  <2> QED
    BY <1>3, <2>2, <2>3, <2>4 DEF UpdaterPlaced, InPass
<1> QED
  BY <1>5, <1>6, <1>7

LEMMA UpdaterLeavesKeeps ==
  ASSUME IInv, UpdaterUnlocks \/ UpdaterQuits
  PROVE  IInv'
<1> USE DEF IInv
<1>1. TypeOK'
  BY DEF UpdaterUnlocks, UpdaterQuits, TypeOK
<1>2. ListKept' /\ UsersCounted' /\ ClientPlaced'
  BY ListStays, ClientStays DEF UpdaterUnlocks, UpdaterQuits
<1>3. updater'.at \in {"idle", "ended"} /\ mutex' \in {"none", "free"} /\ (mutex' = "none" <=> FALSE)
  BY DEF UpdaterUnlocks, UpdaterQuits, TypeOK, UpdaterPlaced, InPass
<1>4. UpdaterPlaced'
  BY <1>3 DEF UpdaterPlaced, InPass
<1> QED
  BY <1>1, <1>2, <1>4

-----------------------------------------------------------------------------
(***************************************************************************)
(* ohmd_ctx_update and ohmd_ctx_destroy.                                   *)
(***************************************************************************)
LEMMA CtxUpdateKeeps ==
  ASSUME IInv, CtxUpdate
  PROVE  IInv'
<1> USE DEF IInv
<1>1. Len(active) \in Nat /\ Cardinality(Devices) \in Nat /\ Len(active) <= Cardinality(Devices)
  BY ListFacts, Parts DEF TypeOK
<1>2. /\ UNCHANGED <<active, index, auto, opened, use, mutex, updater, quit>>
      /\ ~Closing /\ ~quit
  BY DEF CtxUpdate, CtxUpdateStarts, CtxUpdateUpdates, CtxUpdateReads, ClientPlaced,
         Closing, Idle
<1>3. /\ ~Closing'
      /\ client' \in [at : {"idle", "update", "snapshot"}, i : 0 .. Cardinality(Devices) + 1]
      /\ client'.at = "idle" => client' = Idle
      /\ client'.at \in {"update", "snapshot"} => client'.i \in 1 .. Len(active)
      /\ client'.at = "update" => ~auto[active[client'.i]] /\ Updates(active[client'.i])
  <2>1. CASE CtxUpdateStarts
    <3>1. client' = AtDevice(1) /\ 1 \in 1 .. Len(active) + 1
      BY <1>1, <2>1 DEF CtxUpdateStarts
    <3> QED
      BY <3>1, AtDeviceFacts DEF Closing
  <2>2. CASE CtxUpdateUpdates
    <3>1. client.at = "update" /\ client' = [client EXCEPT !.at = "snapshot"]
      BY <2>2 DEF CtxUpdateUpdates
    <3>2. client'.at = "snapshot" /\ client'.i = client.i /\ client.i \in 1 .. Len(active)
      BY <3>1 DEF ClientPlaced, TypeOK
    <3> QED
      BY <3>1, <3>2 DEF Closing, TypeOK
  <2>3. CASE CtxUpdateReads
    <3>1. client' = AtDevice(client.i + 1) /\ client.i \in 1 .. Len(active)
      BY <2>3 DEF CtxUpdateReads, ClientPlaced
    <3>2. client.i + 1 \in 1 .. Len(active) + 1
      BY <1>1, <3>1
    <3> QED
      BY <3>1, <3>2, AtDeviceFacts DEF Closing
  <2> QED
    BY <2>1, <2>2, <2>3 DEF CtxUpdate
<1>4. TypeOK'
  <2>1. data' \in [Headsets -> 0 .. 1]
    BY DEF CtxUpdate, CtxUpdateStarts, CtxUpdateUpdates, CtxUpdateReads, NewData, TypeOK
  <2>2. snapshot' \in [Devices -> [pos : 0 .. 1, rot : 0 .. 1]]
    <3>1. CASE CtxUpdateReads
      <4>1. active[client.i] \in Devices
        BY <3>1, ListFacts DEF CtxUpdateReads, ClientPlaced
      <4>2. data[Headset(active[client.i])] \in 0 .. 1
        BY <4>1 DEF TypeOK, Headsets
      <4> QED
        BY <3>1, <4>1, <4>2 DEF CtxUpdateReads, TypeOK
    <3> QED
      BY <3>1 DEF CtxUpdate, CtxUpdateStarts, CtxUpdateUpdates, TypeOK
  <2> QED
    BY <1>2, <1>3, <2>1, <2>2 DEF TypeOK
<1>5. ListKept' /\ UsersCounted'
  <2>1. First' = First
    BY <1>2, <1>3 DEF First
  <2> QED
    BY <1>2, <2>1, ListStays
<1>6. ClientPlaced'
  <2>1. \A d : Updates(d)' <=> Updates(d)
    BY <1>2 DEF Updates
  <2> QED
    BY <1>2, <1>3, <2>1 DEF ClientPlaced, Closing
<1>7. UpdaterPlaced'
  BY <1>2, UpdaterStays
<1> QED
  BY <1>4, <1>5, <1>6, <1>7

LEMMA DestroyStartsKeeps ==
  ASSUME IInv, DestroyStarts
  PROVE  IInv'
<1> USE DEF IInv
<1>1. Len(active) \in Nat /\ Cardinality(Devices) \in Nat
  BY ListFacts, Parts
<1>2. /\ client' = [at |-> "closing", i |-> 1] /\ quit' /\ ~Closing /\ Closing'
      /\ First = 1 /\ First' = 1
  BY DEF DestroyStarts, Closing, First, Idle
<1>3. TypeOK'
  <2>1. client' \in [at : {"idle", "update", "snapshot", "closing", "destroyed"},
                     i : 0 .. Cardinality(Devices) + 1]
    BY <1>1, <1>2
  <2> QED
    BY <2>1 DEF DestroyStarts, TypeOK
<1>4. ListKept' /\ UsersCounted'
  BY <1>2, ListStays DEF DestroyStarts
<1>5. ClientPlaced'
  BY <1>1, <1>2 DEF ClientPlaced, DestroyStarts
<1>6. UpdaterPlaced'
  BY <1>2 DEF UpdaterPlaced, InPass, DestroyStarts
<1> QED
  BY <1>3, <1>4, <1>5, <1>6

LEMMA DestroyClosesKeeps ==
  ASSUME IInv, DestroyCloses
  PROVE  IInv'
<1> USE DEF IInv
<1>1. /\ Len(active) \in Nat /\ Cardinality(Devices) \in Nat
      /\ Len(active) <= Cardinality(Devices)
      /\ \A i, j \in 1 .. Len(active) : active[i] = active[j] => i = j
  BY ListFacts, Parts DEF TypeOK
<1>2. /\ client.at = "closing" /\ client.i \in 1 .. Len(active) /\ Closing /\ quit
      /\ active[client.i] \in Devices
  <2>1. client.at = "closing" /\ client.i <= Len(active) /\ Closing
    BY DEF DestroyCloses, Closing
  <2>2. client.i \in 1 .. Len(active) + 1 /\ quit
    BY <2>1 DEF ClientPlaced
  <2>3. client.i \in 1 .. Len(active)
    BY <1>1, <2>1, <2>2
  <2> QED
    BY <2>1, <2>2, <2>3, ListFacts
<1> DEFINE i == client.i
           d == active[i]
<1>3. /\ client' = [client EXCEPT !.i = @ + 1]
      /\ opened' = [opened EXCEPT ![d] = FALSE] /\ use' = Released(Headset(d))
      /\ UNCHANGED <<active, index, auto, mutex, updater, quit, data, snapshot>>
  BY DEF DestroyCloses
<1>4. client'.at = "closing" /\ client'.i = i + 1 /\ Closing' /\ First = i /\ First' = i + 1
  BY <1>2, <1>3 DEF TypeOK, Closing, First
<1>5. opened[d]
  BY <1>1, <1>2, <1>4 DEF ListKept
<1>6. UsersCounted' /\ use' \in [Headsets -> 0 .. Cardinality(Devices)]
  BY <1>2, <1>3, <1>5, OneUserLess
<1>7. TypeOK'
  <2>1. client' \in [at : {"idle", "update", "snapshot", "closing", "destroyed"},
                     i : 0 .. Cardinality(Devices) + 1]
    <3>1. i + 1 \in 0 .. Cardinality(Devices) + 1
      BY <1>1, <1>2
    <3>2. client \in [at : {"idle", "update", "snapshot", "closing", "destroyed"},
                      i : 0 .. Cardinality(Devices) + 1]
      BY DEF TypeOK
    <3> QED
      BY <1>3, <3>1, <3>2
  <2>2. opened' \in [Devices -> BOOLEAN]
    BY <1>3 DEF TypeOK
  <2> QED
    BY <1>3, <1>6, <2>1, <2>2 DEF TypeOK
<1>8. ListKept'
  <2>1. ASSUME NEW e \in Devices
        PROVE  opened'[e] <=> \E j \in i + 1 .. Len(active) : active[j] = e
    <3>1. opened[e] <=> \E j \in i .. Len(active) : active[j] = e
      BY <1>4 DEF ListKept
    <3>2. i .. Len(active) = {i} \cup (i + 1 .. Len(active))
      BY <1>1, <1>2
    <3>3. ~\E j \in i + 1 .. Len(active) : active[j] = d
      <4>1. \A j \in i + 1 .. Len(active) : j \in 1 .. Len(active) /\ j # i
        BY <1>1, <1>2
      <4> QED
        BY <1>1, <1>2, <4>1
    <3>4. opened'[e] <=> opened[e] /\ e # d
      BY <1>3 DEF TypeOK
    <3> QED
      BY <3>1, <3>2, <3>3, <3>4
  <2>2. InList' = InList
    BY <1>3 DEF InList
  <2> HIDE DEF i, d
  <2> QED
    BY <1>3, <1>4, <2>1, <2>2 DEF ListKept
<1>9. ClientPlaced'
  BY <1>1, <1>2, <1>3, <1>4 DEF ClientPlaced
<1>10. UpdaterPlaced'
  BY <1>2, <1>3 DEF UpdaterPlaced, InPass
<1> QED
  BY <1>6, <1>7, <1>8, <1>9, <1>10

LEMMA DestroyJoinsKeeps ==
  ASSUME IInv, DestroyJoins
  PROVE  IInv'
<1> USE DEF IInv
<1>1. /\ client' = [client EXCEPT !.at = "destroyed"] /\ client.at = "closing"
      /\ Closing /\ Closing' /\ First' = First /\ client'.i = client.i
      /\ UNCHANGED <<active, index, auto, opened, use, mutex, updater, quit, data, snapshot>>
      /\ client'.at = "destroyed"
  BY DEF DestroyJoins, Closing, First, TypeOK
<1>2. TypeOK'
  BY <1>1 DEF TypeOK
<1>3. ListKept' /\ UsersCounted'
  BY <1>1, ListStays
<1>4. ClientPlaced'
  BY <1>1 DEF ClientPlaced
<1>5. UpdaterPlaced'
  BY <1>1, UpdaterStays
<1> QED
  BY <1>2, <1>3, <1>4, <1>5

-----------------------------------------------------------------------------
LEMMA NextKeeps == IInv /\ [Next]_vars => IInv'
<1> SUFFICES ASSUME IInv, [Next]_vars PROVE IInv'
  OBVIOUS
<1>1. CASE \E d \in Devices : CloseDevice(d) \/ \E a \in {TRUE, ~ManualToo} : OpenDevice(d, a)
  <2>1. \A a \in {TRUE, ~ManualToo} : a \in BOOLEAN
    BY ContextAssumption DEF ContextAssumption
  <2> QED
    BY <1>1, <2>1, CloseDeviceKeeps, OpenDeviceKeeps
<1>2. CASE CtxUpdate
  BY <1>2, CtxUpdateKeeps
<1>3. CASE Destroy
  BY <1>3, DestroyStartsKeeps, DestroyClosesKeeps, DestroyJoinsKeeps DEF Destroy
<1>4. CASE Updater
  BY <1>4, UpdaterLocksKeeps, UpdaterNextKeeps, UpdaterUpdatesKeeps, UpdaterLeavesKeeps
     DEF Updater
<1>5. CASE UNCHANGED vars
  <2>1. ListKept' /\ UsersCounted' /\ ClientPlaced' /\ UpdaterPlaced'
    BY <1>5, ListStays, ClientStays, UpdaterStays DEF IInv, vars
  <2> QED
    BY <1>5, <2>1 DEF IInv, TypeOK, vars
<1> QED
  BY <1>1, <1>2, <1>3, <1>4, <1>5 DEF Next

\* The invariant holds in every behaviour of the context, for any devices.
THEOREM Inductive == Spec => []IInv
BY InitKeeps, NextKeeps, PTL DEF Spec

\* The device list holds every open device once, at the place the device
\* remembers, and a headset has as many users as open devices, so that the
\* last close and no other frees it and no thread updates a freed one.
THEOREM ListSafe == Spec => []ListAndUsersExact
<1>1. IInv => ListAndUsersExact
  <2> SUFFICES ASSUME IInv PROVE ListAndUsersExact
    OBVIOUS
  <2> USE DEF IInv
  <2>1. ListExact
    <3>1. SUFFICES ASSUME ~quit
                   PROVE  /\ ToSet(active) = {d \in Devices : opened[d]}
                          /\ \A i \in 1 .. Len(active) : index[active[i]] = i - 1
      BY DEF ListExact
    <3>2. First = 1
      BY <3>1 DEF First, ClientPlaced
    <3>3. \A d \in Devices : opened[d] <=> \E j \in 1 .. Len(active) : active[j] = d
      BY <3>2 DEF ListKept
    <3> QED
      BY <3>3, ListFacts DEF ToSet, ListKept
  <2>2. ASSUME ~quit, NEW i \in 1 .. Len(active)
        PROVE  i \in DOMAIN active /\ use[Headset(active[i])] > 0
    <3>1. active[i] \in Devices /\ opened[active[i]] /\ i \in DOMAIN active
      BY <2>1, <2>2, ListFacts DEF ListExact, ToSet
    <3>2. OpenOf(Headset(active[i])) # {} /\ Headset(active[i]) \in Headsets
      BY <3>1 DEF OpenOf, Headsets
    <3>3. use[Headset(active[i])] = Cardinality(OpenOf(Headset(active[i])))
      BY <3>2 DEF UsersCounted, OpenOf
    <3>4. /\ IsFiniteSet(OpenOf(Headset(active[i])))
          /\ Cardinality(OpenOf(Headset(active[i]))) \in Nat
      BY Parts DEF OpenOf
    <3> QED
      BY <3>1, <3>2, <3>3, <3>4, FS_EmptySet
  <2>3. UpdatesLive
    BY <2>2 DEF UpdatesLive, UpdaterPlaced, ClientPlaced
  <2> QED
    BY <2>1, <2>3 DEF ListAndUsersExact
<1> QED
  BY <1>1, Inductive, PTL

\* A pass of the update thread updates each headset once, through its lowest
\* open device, and the client never updates a headset at the same time.
THEOREM UpdatesSafe == Spec => []UpdatedOnce
<1>1. IInv => UpdatedOnce
  <2> SUFFICES ASSUME IInv PROVE UpdatedOnce
    OBVIOUS
  <2> USE DEF IInv
  <2>1. /\ Len(active) \in Nat /\ \A i \in 1 .. Len(active) : active[i] \in Devices
        /\ \A i, j \in 1 .. Len(active) : active[i] = active[j] => i = j
    BY ListFacts
  <2>2. ~quit => \A d \in Devices : opened[d] <=> \E j \in 1 .. Len(active) : active[j] = d
    BY DEF ListKept, First, ClientPlaced
  <2>3. ASSUME ~quit, NEW i \in 1 .. Len(active), NEW j \in 1 .. Len(active),
               Updates(active[i]), Updates(active[j]),
               Headset(active[i]) = Headset(active[j])
        PROVE  i = j
    <3>1. active[i] <= active[j] /\ active[j] <= active[i]
      BY <2>1, <2>2, <2>3 DEF Updates
    <3>2. active[i] \in Nat /\ active[j] \in Nat
      BY <2>1, ContextAssumption DEF ContextAssumption
    <3> QED
      BY <2>1, <3>1, <3>2
  <2>4. OneThreadUpdates
    <3>1. SUFFICES ASSUME updater.at = "update", client.at = "update",
                          Headset(active[updater.i]) = Headset(active[client.i])
                   PROVE  FALSE
      BY DEF OneThreadUpdates
    <3>2. ~quit /\ client.i \in 1 .. Len(active) /\ updater.i \in 1 .. Len(active)
      BY <3>1 DEF ClientPlaced, UpdaterPlaced, Closing
    <3>3. Ours(updater.i) /\ ~auto[active[client.i]] /\ Updates(active[client.i])
      BY <3>1, <3>2 DEF ClientPlaced, UpdaterPlaced
    <3> QED
      BY <2>3, <3>1, <3>2, <3>3 DEF Ours
  <2>5. EachOnce
    <3>1. SUFFICES ASSUME ~quit
                   PROVE  /\ updater.at = "update" =>
                               Headset(active[updater.i]) \notin updater.done
                          /\ updater.at = "loop" /\ updater.i > Len(active) =>
                               updater.done = {Headset(d) : d \in
                                 {e \in Devices : opened[e] /\ auto[e] /\ Updates(e)}}
      BY DEF EachOnce
    <3>2. ASSUME updater.at = "update", Headset(active[updater.i]) \in updater.done
          PROVE  FALSE
      <4>1. updater.i \in 1 .. Len(active) /\ Ours(updater.i)
            /\ updater.done = OursBefore(updater.i)
        BY <3>1, <3>2 DEF UpdaterPlaced, InPass
      <4>2. PICK k \in 1 .. updater.i - 1 : Ours(k) /\ Headset(active[k]) = Headset(active[updater.i])
        BY <3>2, <4>1 DEF OursBefore
      <4>3. k \in 1 .. Len(active) /\ k # updater.i
        BY <2>1, <4>1
      <4> QED
        BY <2>3, <3>1, <4>1, <4>2, <4>3 DEF Ours
    <3>3. ASSUME updater.at = "loop", updater.i > Len(active)
          PROVE  updater.done = {Headset(d) : d \in
                   {e \in Devices : opened[e] /\ auto[e] /\ Updates(e)}}
      <4>1. updater.i \in 1 .. Len(active) + 1 /\ updater.done = OursBefore(updater.i)
        BY <3>1, <3>3 DEF UpdaterPlaced, InPass
      <4>2. 1 .. updater.i - 1 = 1 .. Len(active)
        BY <2>1, <3>3, <4>1
      <4>3. updater.done = {Headset(active[k]) : k \in {j \in 1 .. Len(active) : Ours(j)}}
        BY <4>1, <4>2 DEF OursBefore
      <4>4. ASSUME NEW k \in 1 .. Len(active), Ours(k)
            PROVE  active[k] \in {e \in Devices : opened[e] /\ auto[e] /\ Updates(e)}
        BY <2>1, <2>2, <3>1, <4>4 DEF Ours
      <4>5. ASSUME NEW e \in Devices, opened[e], auto[e], Updates(e)
            PROVE  \E k \in {j \in 1 .. Len(active) : Ours(j)} : active[k] = e
        BY <2>2, <3>1, <4>5 DEF Ours
      <4> QED
        BY <4>3, <4>4, <4>5
    <3> QED
      BY <3>2, <3>3
  <2> QED
    BY <2>4, <2>5 DEF UpdatedOnce
<1> QED
  BY <1>1, Inductive, PTL

-----------------------------------------------------------------------------
(***************************************************************************)
(* The SteamVR driver.                                                     *)
(***************************************************************************)
\* The role r goes to the first of the first n entries that can play it.
FirstAmong(n, r) ==
  LET fits == {i \in 1 .. n : Takes(list[i], r)}
  IN  IF fits # {} THEN chosen[r] \in fits /\ \A i \in fits : chosen[r] <= i
      ELSE chosen[r] = Unset

\* Init looks at the entries in turn.
RolesGiven ==
  /\ \E s \in Setups : list = s.list /\ config = s.config
  /\ host = "choosing" =>
       \A r \in Roles :
         IF config[r] # Unset THEN chosen[r] = config[r] ELSE FirstAmong(looked, r)
  /\ FirstThatFits

\* The roles whose device Init has not come to.
ToCome(h) ==
  IF h \in {"choosing", "hmd"} THEN Roles
  ELSE IF h = "tracker" THEN {"tracker", "left", "right"}
  ELSE IF h = "left" THEN {"left", "right"}
  ELSE {h} \cap {"right"}

\* The devices of the driver objects are open until Cleanup has deleted them.
DevicesOpen ==
  /\ \A r \in Roles : device[r] # None => opened[device[r].dev]
  /\ \A r \in ToCome(host) : device[r] = None
  /\ \A r \in activated : device[r] # None
  /\ \A r \in flags : device[r] # None \/ host = "destroying"
  /\ host = "destroying" => pose.at = "ended" /\ \A r \in Roles : device[r] = None
  /\ quit => host = "destroying"

\* The pose thread is there from the end of Init to Cleanup, and is at an
\* object that has a device.
PosePlaced ==
  /\ pose.at = "none" <=> host \in Roles \cup {"choosing", "thread", "crashed"}
  /\ pose.at \in {"rot", "pos"} => device[Objects[pose.k]] # None

\* What it reads of a snapshot stays as it is until it has read all of it.
OneUpdate ==
  /\ \A d \in Devices : snapshot[d].pos = snapshot[d].rot
  /\ pose.at = "none" => published.pos = published.rot
  /\ pose.at = "pos" /\ ~Source(Objects[pose.k]).oculus =>
       pose.rot = snapshot[Source(Objects[pose.k]).dev].rot
  /\ OneUpdatePose

SteamInv ==
  /\ IInv /\ SteamTypeOK /\ RolesGiven
  /\ DevicesOpen /\ PosePlaced /\ OneUpdate /\ OffsetOnce
-----------------------------------------------------------------------------
(***************************************************************************)
(* The choice of the devices.                                              *)
(***************************************************************************)
SetupKept == \E s \in Setups : list = s.list /\ config = s.config

\* The entries of the list are devices, and an entry can play one role at most.
LEMMA ListEntries ==
  ASSUME SetupKept
  PROVE  /\ Len(list) \in Nat /\ DOMAIN list = 1 .. Len(list)
         /\ \A i \in 1 .. Len(list) :
              /\ list[i].dev \in Devices
              /\ list[i].class \in {"hmd", "controller", "tracker"}
              /\ list[i].positional \in BOOLEAN /\ list[i].oculus \in BOOLEAN
              /\ ~(list[i].left /\ list[i].right)
              /\ list[i] # None
         /\ Unset \notin 1 .. Len(list)
         /\ config \in [Roles -> 1 .. Len(list) \cup {Unset}]
<1> DEFINE T == [dev : Devices, class : {"hmd", "controller", "tracker"},
                 left : BOOLEAN, right : BOOLEAN, oculus : BOOLEAN, positional : BOOLEAN]
<1>1. /\ list \in Seq(T) /\ Unset \notin 1 .. Len(list)
      /\ \A i \in 1 .. Len(list) : ~(list[i].left /\ list[i].right)
      /\ config \in [Roles -> 1 .. Len(list) \cup {Unset}]
  BY SteamAssumption DEF SetupKept, SteamAssumption
<1>2. /\ Len(list) \in Nat /\ DOMAIN list = 1 .. Len(list)
      /\ \A i \in 1 .. Len(list) : list[i] \in T
  BY <1>1, LenProperties, ElementOfSeq
<1>3. None.class = "none"
  BY DEF None
<1>4. \A e \in T : e.class # "none"
  OBVIOUS
<1> QED
  BY <1>1, <1>2, <1>3, <1>4

LEMMA OneRole ==
  ASSUME NEW e, ~(e.left /\ e.right), NEW r \in Roles, NEW q \in Roles,
         Takes(e, r), Takes(e, q)
  PROVE  r = q
<1>1. Takes(e, "hmd") <=> e.class = "hmd"
  BY DEF Takes
<1>2. Takes(e, "tracker") <=> e.class = "tracker" /\ ~e.left /\ ~e.right
  BY DEF Takes
<1>3. Takes(e, "left") <=> e.class \in {"controller", "tracker"} /\ e.left
  BY DEF Takes
<1>4. Takes(e, "right") <=> e.class \in {"controller", "tracker"} /\ e.right
  BY DEF Takes
<1> QED
  BY <1>1, <1>2, <1>3, <1>4 DEF Roles

\* What an entry does to the roles.
LEMMA GivesFacts ==
  ASSUME SetupKept, NEW i \in 1 .. Len(list),
         chosen \in [Roles -> 1 .. Len(list) \cup {Unset}]
  PROVE  /\ Gives(chosen, i) \in [Roles -> 1 .. Len(list) \cup {Unset}]
         /\ \A r \in Roles :
              Gives(chosen, i)[r] = IF chosen[r] = Unset /\ Takes(list[i], r) THEN i
                                    ELSE chosen[r]
<1> DEFINE free == {r \in Roles : chosen[r] = Unset /\ Takes(list[i], r)}
           role == IF "left" \in free THEN "left" ELSE CHOOSE r \in free : TRUE
<1>1. Gives(chosen, i) = IF free = {} THEN chosen ELSE [chosen EXCEPT ![role] = i]
  BY DEF Gives
<1>2. \A r, q \in free : r = q
  BY ListEntries, OneRole
<1>3. free # {} => role \in free
  OBVIOUS
<1>4. free \subseteq Roles /\ \A r \in Roles : r \in free <=> chosen[r] = Unset /\ Takes(list[i], r)
  OBVIOUS
<1> HIDE DEF free, role
<1>5. CASE free = {}
  BY <1>1, <1>4, <1>5
<1>6. CASE free # {}
  BY <1>1, <1>2, <1>3, <1>4, <1>6
<1> QED
  BY <1>5, <1>6

\* A step of the loop: the roles are given up to one entry more.
LEMMA LooksKeeps ==
  ASSUME SetupKept, NEW n \in Nat, n < Len(list), NEW r \in Roles,
         chosen \in [Roles -> 1 .. Len(list) \cup {Unset}],
         chosen' = Gives(chosen, n + 1), UNCHANGED list, FirstAmong(n, r)
  PROVE  FirstAmong(n + 1, r)'
<1> DEFINE fits(k) == {i \in 1 .. k : Takes(list[i], r)}
<1>1. Len(list) \in Nat /\ n + 1 \in 1 .. Len(list) /\ Unset \notin 1 .. Len(list)
  BY ListEntries
<1>2. chosen'[r] = IF chosen[r] = Unset /\ Takes(list[n + 1], r) THEN n + 1 ELSE chosen[r]
  BY <1>1, GivesFacts
<1>3. fits(n + 1) = IF Takes(list[n + 1], r) THEN fits(n) \cup {n + 1} ELSE fits(n)
  OBVIOUS
<1>4. IF fits(n) # {} THEN chosen[r] \in fits(n) /\ \A i \in fits(n) : chosen[r] <= i
      ELSE chosen[r] = Unset
  BY DEF FirstAmong
<1>5. fits(n) \subseteq 1 .. n /\ Unset \notin fits(n)
  BY <1>1
<1>6. FirstAmong(n + 1, r)' <=>
        IF fits(n + 1) # {} THEN chosen'[r] \in fits(n + 1) /\ \A i \in fits(n + 1) : chosen'[r] <= i
        ELSE chosen'[r] = Unset
  BY DEF FirstAmong, Takes
<1> HIDE DEF fits
<1>7. CASE Takes(list[n + 1], r)
  <2>1. CASE fits(n) = {}
    BY <1>2, <1>3, <1>4, <1>6, <1>7, <2>1
  <2>2. CASE fits(n) # {}
    <3>1. chosen[r] \in 1 .. n /\ chosen[r] # Unset
      BY <1>4, <1>5, <2>2
    <3>2. chosen'[r] = chosen[r] /\ chosen[r] <= n + 1
      BY <1>2, <3>1
    <3> QED
      BY <1>3, <1>4, <1>6, <1>7, <2>2, <3>2
  <2> QED
    BY <2>1, <2>2
<1>8. CASE ~Takes(list[n + 1], r)
  BY <1>2, <1>3, <1>4, <1>6, <1>8
<1> QED
  BY <1>7, <1>8
-----------------------------------------------------------------------------
(***************************************************************************)
(* What stays while the parts of the state stay that it is about.          *)
(***************************************************************************)
LEMMA ObjectFacts ==
  /\ Len(Objects) = 3 /\ ToSet(Objects) = {"hmd", "left", "right"}
  /\ Objects[1] = "hmd" /\ Objects[2] = "left" /\ Objects[3] = "right"
  /\ \A k \in 1 .. 3 : Objects[k] \in ToSet(Objects) /\ Objects[k] \in Roles
  /\ Controllers \subseteq Roles
<1>1. Len(Objects) = 3 /\ Objects[1] = "hmd" /\ Objects[2] = "left" /\ Objects[3] = "right"
  BY DEF Objects
<1>2. DOMAIN Objects = 1 .. 3
  BY DEF Objects
<1>3. \A k \in 1 .. 3 : k = 1 \/ k = 2 \/ k = 3
  OBVIOUS
<1>4. ToSet(Objects) = {"hmd", "left", "right"}
  BY <1>1, <1>2, <1>3 DEF ToSet
<1> QED
  BY <1>1, <1>3, <1>4 DEF Roles, Controllers

\* An open device is one of the list.
LEMMA DeviceFacts ==
  ASSUME SteamTypeOK, SetupKept
  PROVE  /\ \A r \in Roles : device[r] # None =>
              /\ \E i \in 1 .. Len(list) : device[r] = list[i]
              /\ device[r].dev \in Devices
         /\ None.oculus = FALSE /\ None.positional = FALSE
         /\ \A r \in Roles : Source(r) \in {device[q] : q \in Roles}
         /\ \A r \in Controllers : Source(r) = device[r]
<1>1. device \in [Roles -> {list[i] : i \in 1 .. Len(list)} \cup {None}]
  BY ListEntries DEF SteamTypeOK, ToSet
<1>2. None.oculus = FALSE /\ None.positional = FALSE
  BY DEF None
<1>3. \A r \in Roles : device[r] # None => \E i \in 1 .. Len(list) : device[r] = list[i]
  BY <1>1
<1>4. \A r \in Roles : Source(r) = device["tracker"] \/ Source(r) = device[r]
  BY DEF Source
<1>5. \A r \in Controllers : Source(r) = device[r]
  BY DEF Source, Controllers
<1> QED
  BY <1>2, <1>3, <1>4, <1>5, ListEntries DEF Roles

LEMMA SourceOpen ==
  ASSUME SteamTypeOK, SetupKept, NEW r \in Roles, device[r] # None
  PROVE  \E q \in Roles : Source(r) = device[q] /\ device[q] # None
BY DEF Source, Roles

LEMMA RolesStay ==
  ASSUME RolesGiven, UNCHANGED setup, host' = "choosing" <=> host = "choosing"
  PROVE  RolesGiven'
<1>1. UNCHANGED <<list, config, chosen, looked>>
  BY DEF setup
<1>2. (\E s \in Setups : list = s.list /\ config = s.config)'
  BY <1>1 DEF RolesGiven
<1>3. (host = "choosing" =>
         \A r \in Roles :
           IF config[r] # Unset THEN chosen[r] = config[r] ELSE FirstAmong(looked, r))'
  BY <1>1 DEF RolesGiven, FirstAmong
<1>4. FirstThatFits'
  BY <1>1 DEF RolesGiven, FirstThatFits
<1> QED
  BY <1>2, <1>3, <1>4 DEF RolesGiven

LEMMA DevicesStay ==
  ASSUME DevicesOpen, UNCHANGED <<opened, quit, host, device, activated, flags>>,
         pose.at = "ended" => pose'.at = "ended"
  PROVE  DevicesOpen'
BY DEF DevicesOpen

LEMMA PoseStays ==
  ASSUME PosePlaced, UNCHANGED <<host, device, pose>>
  PROVE  PosePlaced'
BY DEF PosePlaced

LEMMA UpdateStays ==
  ASSUME OneUpdate, UNCHANGED <<device, pose, published, snapshot>>
  PROVE  OneUpdate'
BY DEF OneUpdate, OneUpdatePose, Source

LEMMA OffsetsStay ==
  ASSUME OffsetOnce, UNCHANGED <<device, flags, offsets>>
  PROVE  OffsetOnce'
BY DEF OffsetOnce, Source

\* The place of the pose thread is an object with a device.
LEMMA AtObjectFacts ==
  ASSUME DevicesOpen, NEW k \in 1 .. 4
  PROVE  /\ AtObject(k) \in [at : {"top", "rot"}, k : 1 .. Len(Objects), rot : 0 .. 1]
         /\ AtObject(k).at = "rot" => device[Objects[AtObject(k).k]] # None
<1> DEFINE rest == {j \in k .. Len(Objects) : HasPose(j)}
           j0 == CHOOSE j \in rest : \A i \in rest : j <= i
<1>1. AtObject(k) = IF rest = {} THEN [at |-> "top", k |-> 1, rot |-> 0]
                    ELSE [at |-> "rot", k |-> j0, rot |-> 0]
  BY DEF AtObject
<1>2. Len(Objects) = 3
  BY ObjectFacts
<1>3. rest \subseteq 1 .. 3 /\ \A j \in rest : HasPose(j)
  BY <1>2
<1>4. rest # {} => \E j \in rest : \A i \in rest : j <= i
  <2>1. \A j \in 1 .. 3 : j = 1 \/ j = 2 \/ j = 3
    OBVIOUS
  <2> HIDE DEF rest
  <2>2. CASE 1 \in rest
    BY <1>3, <2>1, <2>2
  <2>3. CASE 1 \notin rest /\ 2 \in rest
    <3>1. \A i \in rest : 2 <= i
      BY <1>3, <2>1, <2>3
    <3> QED
      BY <2>3, <3>1
  <2>4. CASE 1 \notin rest /\ 2 \notin rest
    <3>1. \A i \in rest : i = 3
      BY <1>3, <2>1, <2>4
    <3> QED
      BY <3>1
  <2> QED
    BY <2>2, <2>3, <2>4
<1>5. rest # {} => j0 \in rest
  BY <1>4
<1>6. \A j \in 1 .. 3 : HasPose(j) => device[Objects[j]] # None
  BY ObjectFacts DEF HasPose, DevicesOpen
<1> HIDE DEF rest, j0
<1>7. CASE rest = {}
  BY <1>1, <1>2, <1>7
<1>8. CASE rest # {}
  <2>1. AtObject(k) = [at |-> "rot", k |-> j0, rot |-> 0]
    BY <1>1, <1>8
  <2>2. j0 \in 1 .. 3 /\ device[Objects[j0]] # None
    BY <1>3, <1>5, <1>6, <1>8
  <2> QED
    BY <1>2, <2>1, <2>2
<1> QED
  BY <1>7, <1>8
-----------------------------------------------------------------------------
(***************************************************************************)
(* What the driver does with the context is what a client of it may do.    *)
(***************************************************************************)
LEMMA SteamNextIsNext ==
  ASSUME SteamInv, [SteamNext]_<<vars, steamVars>>
  PROVE  [Next]_vars
<1> USE DEF SteamInv
<1>1. SetupKept
  BY DEF RolesGiven, SetupKept
<1>2. ASSUME NEW r \in Roles, InitOpens(r) PROVE [Next]_vars
  <2>1. chosen[r] \in 1 .. Len(list)
    BY <1>2 DEF InitOpens, SteamTypeOK
  <2>2. Entry(r).dev \in Devices
    BY <1>1, <2>1, ListEntries DEF Entry
  <2> QED
    BY <1>2, <2>2 DEF InitOpens, Next
<1>3. CASE PoseThread
  <2>1. CASE PoseThreadLoops
    BY <2>1 DEF PoseThreadLoops, Next, CtxUpdate
  <2>2. CASE PoseThreadUpdates
    BY <2>2 DEF PoseThreadUpdates, Next, CtxUpdate
  <2>3. CASE PoseThreadUpdated \/ GetRotation \/ GetPosition
    BY <2>3 DEF PoseThreadUpdated, GetRotation, GetPosition
  <2> QED
    BY <1>3, <2>1, <2>2, <2>3 DEF PoseThread
<1>4. CASE InitLooks \/ InitChooses \/ StartPoseThread \/ StopPoseThread
  BY <1>4 DEF InitLooks, InitChooses, StartPoseThread, StopPoseThread
<1>5. CASE \E r \in Roles : InitSkips(r)
  BY <1>5 DEF InitSkips
<1>6. CASE \E r \in ToSet(Objects) : Activate(r) \/ Deactivate(r)
  BY <1>6 DEF Activate, Deactivate
<1>7. CASE Cleanup
  BY <1>7 DEF Cleanup, CleanupDeletes, CleanupDestroys, Next
<1>8. CASE UpdateThread
  BY <1>8 DEF UpdateThread, Next
<1>9. CASE UNCHANGED <<vars, steamVars>>
  BY <1>9
<1> QED
  BY <1>2, <1>3, <1>4, <1>5, <1>6, <1>7, <1>8, <1>9 DEF SteamNext

-----------------------------------------------------------------------------
(***************************************************************************)
(* The steps of Init.                                                      *)
(***************************************************************************)
LEMMA SteamInitKeeps == SteamInit => SteamInv
<1> SUFFICES ASSUME SteamInit PROVE SteamInv
  OBVIOUS
<1>1. SetupKept /\ IInv
  BY InitKeeps DEF SteamInit, SetupKept
<1>2. /\ chosen \in [Roles -> 1 .. Len(list) \cup {Unset}] /\ looked \in 0 .. Len(list)
  BY <1>1, ListEntries DEF SteamInit
<1>3. SteamTypeOK
  <2>1. pose \in [at : {"none", "top", "context", "rot", "pos", "ended"},
                  k : 1 .. Len(Objects), rot : 0 .. 1]
    BY ObjectFacts DEF SteamInit
  <2>2. offsets \in [Controllers -> 0 .. MaxDrift]
    BY SteamAssumption DEF SteamInit, SteamAssumption
  <2>3. published \in [of : ToSet(Objects), rot : 0 .. 1, pos : 0 .. 1]
    BY ObjectFacts DEF SteamInit
  <2>4. device \in [Roles -> ToSet(list) \cup {None}]
    BY DEF SteamInit
  <2>5. /\ host = "choosing" /\ activated = {} /\ flags = {} /\ poseExit = FALSE
    BY DEF SteamInit
  <2> QED
    BY <1>1, <1>2, <2>1, <2>2, <2>3, <2>4, <2>5 DEF SteamTypeOK, IInv
<1>4. RolesGiven
  <2>1. looked = 0 /\ chosen = config /\ host = "choosing"
    BY DEF SteamInit
  <2>2. \A r \in Roles :
          IF config[r] # Unset THEN chosen[r] = config[r] ELSE FirstAmong(looked, r)
    BY <2>1 DEF FirstAmong
  <2>3. \E s \in Setups : list = s.list /\ config = s.config
    BY DEF SteamInit
  <2> QED
    BY <2>1, <2>2, <2>3 DEF RolesGiven, FirstThatFits
<1>5. DevicesOpen
  BY DEF DevicesOpen, SteamInit, ToCome, Init
<1>6. PosePlaced
  BY DEF PosePlaced, SteamInit
<1>7. OneUpdate
  BY DEF OneUpdate, OneUpdatePose, SteamInit, Init
<1>8. OffsetOnce
  BY DEF OffsetOnce, SteamInit
<1> QED
  BY <1>1, <1>3, <1>4, <1>5, <1>6, <1>7, <1>8 DEF SteamInv

LEMMA InitLooksKeeps ==
  ASSUME SteamInv, IInv', InitLooks
  PROVE  SteamInv'
<1> USE DEF SteamInv
<1>0. /\ SetupKept /\ host = "choosing" /\ looked < Len(list) /\ looked \in Nat
      /\ chosen' = Gives(chosen, looked + 1) /\ looked' = looked + 1
      /\ chosen \in [Roles -> 1 .. Len(list) \cup {Unset}]
      /\ UNCHANGED <<list, config, host, device, activated, flags, poseExit, pose,
                     offsets, published>>
      /\ UNCHANGED <<opened, quit, snapshot>>
  BY DEF InitLooks, vars, RolesGiven, SetupKept, SteamTypeOK
<1>1. looked + 1 \in 1 .. Len(list) /\ Len(list) \in Nat
  BY <1>0, ListEntries
<1>2. /\ chosen' \in [Roles -> 1 .. Len(list) \cup {Unset}]
      /\ \A r \in Roles :
           chosen'[r] = IF chosen[r] = Unset /\ Takes(list[looked + 1], r) THEN looked + 1
                        ELSE chosen[r]
  BY <1>0, <1>1, GivesFacts
<1>3. SteamTypeOK'
  BY <1>0, <1>1, <1>2 DEF SteamTypeOK, IInv
<1>4. RolesGiven'
  <2>1. ASSUME NEW r \in Roles
        PROVE  (IF config[r] # Unset THEN chosen[r] = config[r] ELSE FirstAmong(looked, r))'
    <3>1. CASE config[r] # Unset
      <4>1. chosen[r] = config[r]
        BY <1>0, <3>1 DEF RolesGiven
      <4> QED
        BY <1>0, <1>2, <3>1, <4>1
    <3>2. CASE config[r] = Unset
      <4>1. FirstAmong(looked, r)
        BY <1>0, <3>2 DEF RolesGiven
      <4>2. PICK n \in Nat : n = looked
        BY <1>0
      <4>3. n < Len(list) /\ chosen' = Gives(chosen, n + 1) /\ UNCHANGED list /\ looked' = n + 1
        BY <1>0, <4>2
      <4>4. FirstAmong(n, r)
        BY <4>1, <4>2 DEF FirstAmong
      <4>5. FirstAmong(n + 1, r)'
        BY <1>0, <4>3, <4>4, LooksKeeps
      <4>6. FirstAmong(looked, r)'
        BY <4>3, <4>5 DEF FirstAmong
      <4> QED
        BY <1>0, <3>2, <4>6
    <3> QED
      BY <3>1, <3>2
  <2>2. (\E s \in Setups : list = s.list /\ config = s.config)'
    BY <1>0 DEF SetupKept
  <2> QED
    BY <1>0, <2>1, <2>2 DEF RolesGiven, FirstThatFits
<1> QED
  BY <1>0, <1>3, <1>4, DevicesStay, PoseStays, UpdateStays, OffsetsStay

LEMMA InitChoosesKeeps ==
  ASSUME SteamInv, IInv', InitChooses
  PROVE  SteamInv'
<1> USE DEF SteamInv
<1>0. /\ SetupKept /\ host = "choosing" /\ host' = "hmd" /\ looked = Len(list)
      /\ chosen' = [chosen EXCEPT !["tracker"] = IF @ = Unset THEN chosen["hmd"] ELSE @]
      /\ chosen \in [Roles -> 1 .. Len(list) \cup {Unset}]
      /\ UNCHANGED <<list, config, looked, device, activated, flags, poseExit, pose,
                     offsets, published>>
      /\ UNCHANGED <<opened, quit, snapshot>>
  BY DEF InitChooses, vars, RolesGiven, SetupKept, SteamTypeOK
<1>1. "hmd" \in Roles /\ "tracker" \in Roles
  BY DEF Roles
<1>2. /\ chosen' \in [Roles -> 1 .. Len(list) \cup {Unset}]
      /\ \A r \in Roles :
           chosen'[r] = IF r = "tracker" /\ chosen[r] = Unset THEN chosen["hmd"] ELSE chosen[r]
  BY <1>0, <1>1
<1>3. SteamTypeOK'
  BY <1>0, <1>1, <1>2 DEF SteamTypeOK, IInv
<1>4. RolesGiven'
  <2>1. ASSUME NEW r \in Roles
        PROVE  IF config[r] # Unset THEN chosen'[r] = config[r]
               ELSE LET fits == {i \in 1 .. Len(list) : Takes(list[i], r)}
                    IN  IF fits # {} THEN chosen'[r] \in fits /\ \A i \in fits : chosen'[r] <= i
                        ELSE chosen'[r] = IF r = "tracker" THEN chosen'["hmd"] ELSE Unset
    <3> DEFINE fits == {i \in 1 .. Len(list) : Takes(list[i], r)}
    <3>1. CASE config[r] # Unset
      BY <1>0, <1>2, <3>1 DEF RolesGiven
    <3>2. CASE config[r] = Unset
      <4>1. IF fits # {} THEN chosen[r] \in fits /\ \A i \in fits : chosen[r] <= i
            ELSE chosen[r] = Unset
        BY <1>0, <3>2 DEF RolesGiven, FirstAmong
      <4>2. Unset \notin fits
        BY <1>0, ListEntries
      <4>3. chosen'["hmd"] = chosen["hmd"]
        BY <1>1, <1>2
      <4> HIDE DEF fits
      <4>4. IF fits # {} THEN chosen'[r] \in fits /\ \A i \in fits : chosen'[r] <= i
            ELSE chosen'[r] = IF r = "tracker" THEN chosen'["hmd"] ELSE Unset
        BY <1>2, <4>1, <4>2, <4>3
      <4> QED
        BY <3>2, <4>4 DEF fits
    <3> QED
      BY <3>1, <3>2
  <2>2. FirstThatFits'
    BY <1>0, <2>1 DEF FirstThatFits
  <2>3. (\E s \in Setups : list = s.list /\ config = s.config)'
    BY <1>0 DEF SetupKept
  <2> QED
    BY <1>0, <2>2, <2>3 DEF RolesGiven
<1>5. DevicesOpen'
  BY <1>0 DEF DevicesOpen, ToCome
<1>6. PosePlaced'
  BY <1>0, <1>1 DEF PosePlaced
<1> QED
  BY <1>0, <1>3, <1>4, <1>5, <1>6, UpdateStays, OffsetsStay

LEMMA AfterFacts ==
  ASSUME NEW r \in Roles
  PROVE  /\ After(r) \in {"tracker", "left", "right", "thread"}
         /\ ToCome(After(r)) \subseteq ToCome(r) \ {r} /\ r \in ToCome(r)
<1>1. After("hmd") \in {"tracker", "left"}
  BY DEF After
<1>2. After("tracker") = "left"
  BY DEF After
<1>3. After("left") = "right"
  BY DEF After
<1>4. After("right") = "thread"
  BY DEF After
<1>5. /\ ToCome("hmd") = Roles /\ ToCome("tracker") = {"tracker", "left", "right"}
      /\ ToCome("left") = {"left", "right"} /\ ToCome("right") = {"right"}
      /\ ToCome("thread") = {}
  BY DEF ToCome
<1>6. r \in {"hmd", "tracker", "left", "right"}
  BY DEF Roles
<1>7. CASE r = "hmd"
  <2>1. CASE After("hmd") = "tracker"
    BY <1>5, <1>7, <2>1 DEF Roles
  <2>2. CASE After("hmd") = "left"
    BY <1>5, <1>7, <2>2 DEF Roles
  <2> QED
    BY <1>1, <2>1, <2>2
<1>8. CASE r = "tracker"
  BY <1>2, <1>5, <1>8
<1>9. CASE r = "left"
  BY <1>3, <1>5, <1>9
<1>10. CASE r = "right"
  BY <1>4, <1>5, <1>10
<1> QED
  BY <1>6, <1>7, <1>8, <1>9, <1>10

LEMMA InitOpensKeeps ==
  ASSUME SteamInv, IInv', NEW r \in Roles, InitOpens(r)
  PROVE  SteamInv'
<1> USE DEF SteamInv
<1> DEFINE e == list[chosen[r]]
<1>0. /\ SetupKept /\ host = r /\ host' = After(r)
      /\ device \in [Roles -> ToSet(list) \cup {None}]
      /\ device' = [device EXCEPT ![r] = e]
      /\ opened' = [opened EXCEPT ![e.dev] = TRUE] /\ opened \in [Devices -> BOOLEAN]
      /\ UNCHANGED <<list, config, chosen, looked, activated, flags, poseExit, pose,
                     offsets, published, quit, snapshot>>
  BY DEF InitOpens, OpenDevice, Entry, RolesGiven, SetupKept, SteamTypeOK, TypeOK, setup
<1>1. /\ e \in ToSet(list) /\ e.dev \in Devices /\ e # None
  <2>1. chosen[r] \in 1 .. Len(list)
    BY DEF InitOpens, SteamTypeOK
  <2> QED
    BY <1>0, <2>1, ListEntries DEF ToSet
<1>2. /\ host' \in {"tracker", "left", "right", "thread"}
      /\ ToCome(host') \subseteq ToCome(host) \ {r} /\ device[r] = None
  BY <1>0, AfterFacts DEF DevicesOpen
<1>3. host \in Roles /\ pose.at = "none" /\ ~quit
  BY <1>0 DEF PosePlaced, DevicesOpen, Roles
<1>4. \A q \in Roles : device'[q] = IF q = r THEN e ELSE device[q]
  BY <1>0
<1> HIDE DEF e
<1>5. SteamTypeOK'
  <2>1. device' \in [Roles -> ToSet(list) \cup {None}]
    BY <1>0, <1>1
  <2>2. host' \in Roles \cup {"choosing", "thread", "running", "joining", "destroying", "crashed"}
    BY <1>2 DEF Roles
  <2> QED
    BY <1>0, <2>1, <2>2 DEF SteamTypeOK, IInv
<1>6. RolesGiven'
  <2>1. host # "choosing" /\ host' # "choosing"
    BY <1>2, <1>3 DEF Roles
  <2>2. UNCHANGED setup
    BY <1>0 DEF setup
  <2> QED
    BY <2>1, <2>2, RolesStay
<1>7. DevicesOpen'
  <2>1. \A q \in Roles : device[q] # None => device[q].dev \in Devices /\ opened[device[q].dev]
    BY <1>0, DeviceFacts DEF DevicesOpen
  <2>2. \A q \in Roles : device'[q] # None => opened'[device'[q].dev]
    BY <1>0, <1>1, <1>4, <2>1
  <2>3. \A q \in ToCome(host') : device'[q] = None
    <3>1. ToCome(host) \subseteq Roles
      BY DEF ToCome, Roles
    <3> QED
      BY <1>2, <1>4, <3>1 DEF DevicesOpen
  <2>4. activated \subseteq Roles /\ flags \subseteq Roles
    BY ObjectFacts DEF SteamTypeOK, Roles
  <2>5. \A q \in activated' : device'[q] # None
    BY <1>0, <1>1, <1>4, <2>4 DEF DevicesOpen
  <2>6. \A q \in flags' : device'[q] # None \/ host' = "destroying"
    BY <1>0, <1>1, <1>3, <1>4, <2>4 DEF DevicesOpen, Roles
  <2>7. host' # "destroying" /\ ~quit'
    BY <1>0, <1>2, <1>3
  <2> QED
    BY <2>2, <2>3, <2>5, <2>6, <2>7 DEF DevicesOpen
<1>8. PosePlaced'
  BY <1>0, <1>2, <1>3 DEF PosePlaced, Roles
<1>9. OneUpdate'
  BY <1>0, <1>3 DEF OneUpdate, OneUpdatePose
<1>10. OffsetOnce'
  <2>1. \A q \in flags : device[q] # None
    BY <1>3 DEF DevicesOpen, Roles
  <2>2. \A q \in Controllers : Source(q)' = device'[q] /\ Source(q) = device[q]
    BY DEF Source, Controllers
  <2>3. Controllers \subseteq Roles
    BY DEF Controllers, Roles
  <2> QED
    BY <1>0, <1>2, <1>4, <2>1, <2>2, <2>3 DEF OffsetOnce
<1> QED
  BY <1>5, <1>6, <1>7, <1>8, <1>9, <1>10

LEMMA InitSkipsKeeps ==
  ASSUME SteamInv, IInv', NEW r \in Roles, InitSkips(r)
  PROVE  SteamInv'
<1> USE DEF SteamInv
<1>0. /\ host = r /\ host' = IF r = "hmd" THEN "crashed" ELSE After(r)
      /\ UNCHANGED <<device, activated, flags, poseExit, pose, offsets, published>>
      /\ UNCHANGED setup /\ UNCHANGED <<opened, quit, snapshot>>
  BY DEF InitSkips, vars
<1>1. /\ host' \in {"tracker", "left", "right", "thread", "crashed"}
      /\ ToCome(host') \subseteq ToCome(host)
  <2>1. ToCome("crashed") = {}
    BY DEF ToCome
  <2> QED
    BY <1>0, <2>1, AfterFacts
<1>2. host \in Roles /\ pose.at = "none" /\ ~quit /\ host # "choosing" /\ host # "destroying"
  BY <1>0 DEF PosePlaced, DevicesOpen, Roles
<1>3. SteamTypeOK'
  BY <1>0, <1>1 DEF SteamTypeOK, IInv, Roles, setup
<1>4. RolesGiven'
  BY <1>0, <1>1, <1>2, RolesStay
<1>5. DevicesOpen'
  BY <1>0, <1>1, <1>2 DEF DevicesOpen
<1>6. PosePlaced'
  BY <1>0, <1>1, <1>2 DEF PosePlaced, Roles
<1> QED
  BY <1>0, <1>3, <1>4, <1>5, <1>6, UpdateStays, OffsetsStay

LEMMA StartPoseThreadKeeps ==
  ASSUME SteamInv, IInv', StartPoseThread
  PROVE  SteamInv'
<1> USE DEF SteamInv
<1>0. /\ host = "thread" /\ host' = "running" /\ pose' = [pose EXCEPT !.at = "top"]
      /\ UNCHANGED <<device, activated, flags, poseExit, offsets, published>>
      /\ UNCHANGED setup /\ UNCHANGED <<opened, quit, snapshot>>
  BY DEF StartPoseThread, vars
<1>1. pose.at = "none" /\ pose'.at = "top" /\ ToCome("running") = {}
  BY <1>0 DEF PosePlaced, SteamTypeOK, ToCome
<1>2. SteamTypeOK'
  <2>1. pose' \in [at : {"none", "top", "context", "rot", "pos", "ended"},
                   k : 1 .. Len(Objects), rot : 0 .. 1]
    BY <1>0 DEF SteamTypeOK
  <2> QED
    BY <1>0, <2>1 DEF SteamTypeOK, IInv, setup
<1>3. RolesGiven'
  BY <1>0, RolesStay
<1>4. DevicesOpen'
  BY <1>0, <1>1 DEF DevicesOpen
<1>5. PosePlaced'
  BY <1>0, <1>1 DEF PosePlaced, Roles
<1>6. OneUpdate'
  BY <1>0, <1>1 DEF OneUpdate, OneUpdatePose
<1> QED
  BY <1>0, <1>2, <1>3, <1>4, <1>5, <1>6, OffsetsStay

-----------------------------------------------------------------------------
(***************************************************************************)
(* The other steps of SteamVR's thread.                                    *)
(***************************************************************************)
LEMMA ActivateKeeps ==
  ASSUME SteamInv, IInv', NEW r \in ToSet(Objects), Activate(r)
  PROVE  SteamInv'
<1> USE DEF SteamInv
<1>0. /\ device[r] # None /\ activated' = activated \cup {r} /\ flags' = flags \cup {r}
      /\ offsets' = [q \in Controllers |-> IF q = r THEN 0 ELSE offsets[q]]
      /\ UNCHANGED <<host, device, poseExit, pose, published>>
      /\ UNCHANGED setup /\ UNCHANGED <<opened, quit, snapshot>>
  BY DEF Activate, vars
<1>1. SteamTypeOK'
  <2>1. offsets' \in [Controllers -> 0 .. MaxDrift]
    BY <1>0, SteamAssumption DEF SteamTypeOK, SteamAssumption
  <2> QED
    BY <1>0, <2>1 DEF SteamTypeOK, IInv, setup
<1>2. RolesGiven'
  BY <1>0, RolesStay
<1>3. DevicesOpen'
  BY <1>0 DEF DevicesOpen
<1>4. OffsetOnce'
  BY <1>0 DEF OffsetOnce, Source, Controllers
<1> QED
  BY <1>0, <1>1, <1>2, <1>3, <1>4, PoseStays, UpdateStays

LEMMA DeactivateKeeps ==
  ASSUME SteamInv, IInv', NEW r \in ToSet(Objects), Deactivate(r)
  PROVE  SteamInv'
<1> USE DEF SteamInv
<1>0. /\ activated' = activated \ {r}
      /\ UNCHANGED <<host, device, flags, poseExit, pose, offsets, published>>
      /\ UNCHANGED setup /\ UNCHANGED <<opened, quit, snapshot>>
  BY DEF Deactivate, vars
<1>1. SteamTypeOK'
  BY <1>0 DEF SteamTypeOK, IInv, setup
<1>2. DevicesOpen'
  BY <1>0 DEF DevicesOpen
<1> QED
  BY <1>0, <1>1, <1>2, RolesStay, PoseStays, UpdateStays, OffsetsStay

LEMMA StopPoseThreadKeeps ==
  ASSUME SteamInv, IInv', StopPoseThread
  PROVE  SteamInv'
<1> USE DEF SteamInv
<1>0. /\ host = "running" /\ host' = "joining" /\ poseExit' = TRUE
      /\ UNCHANGED <<device, activated, flags, pose, offsets, published>>
      /\ UNCHANGED setup /\ UNCHANGED <<opened, quit, snapshot>>
  BY DEF StopPoseThread, vars
<1>1. SteamTypeOK'
  BY <1>0 DEF SteamTypeOK, IInv, setup
<1>2. RolesGiven'
  BY <1>0, RolesStay
<1>3. DevicesOpen'
  BY <1>0 DEF DevicesOpen, ToCome
<1>4. PosePlaced'
  BY <1>0 DEF PosePlaced, Roles
<1> QED
  BY <1>0, <1>1, <1>2, <1>3, <1>4, UpdateStays, OffsetsStay

LEMMA CleanupDeletesKeeps ==
  ASSUME SteamInv, IInv', CleanupDeletes
  PROVE  SteamInv'
<1> USE DEF SteamInv
<1>0. /\ host = "joining" /\ host' = "destroying" /\ pose.at = "ended"
      /\ device' = [r \in Roles |-> None] /\ activated' = {}
      /\ UNCHANGED <<flags, poseExit, pose, offsets, published>>
      /\ UNCHANGED setup /\ UNCHANGED <<opened, quit, snapshot>>
  BY DEF CleanupDeletes, vars
<1>1. SteamTypeOK'
  BY <1>0 DEF SteamTypeOK, IInv, setup
<1>2. RolesGiven'
  BY <1>0, RolesStay
<1>3. DevicesOpen'
  BY <1>0 DEF DevicesOpen, ToCome, Roles
<1>4. PosePlaced'
  BY <1>0 DEF PosePlaced, Roles
<1>5. \A r \in Roles : device'[r] = None
  BY <1>0
<1>6. OneUpdate'
  <2>1. published.of \in Roles
    BY ObjectFacts DEF SteamTypeOK, Roles
  <2> QED
    BY <1>0, <1>5, <2>1 DEF OneUpdate, OneUpdatePose
<1>7. OffsetOnce'
  <2>1. None.positional = FALSE
    BY DEF None
  <2>2. \A r \in Controllers : Source(r)' = device'[r] /\ r \in Roles
    BY DEF Source, Controllers, Roles
  <2> QED
    BY <1>5, <2>1, <2>2 DEF OffsetOnce
<1> QED
  BY <1>1, <1>2, <1>3, <1>4, <1>6, <1>7

LEMMA CleanupDestroysKeeps ==
  ASSUME SteamInv, IInv', CleanupDestroys
  PROVE  SteamInv'
<1> USE DEF SteamInv
<1>0. host = "destroying" /\ UNCHANGED steamVars /\ Destroy
  BY DEF CleanupDestroys
<1>1. UNCHANGED <<host, device, activated, flags, poseExit, pose, offsets, published>>
      /\ UNCHANGED setup
  BY <1>0 DEF steamVars
<1>2. UNCHANGED snapshot
  BY <1>0 DEF Destroy, DestroyStarts, DestroyCloses, DestroyJoins
<1>3. SteamTypeOK'
  BY <1>1 DEF SteamTypeOK, IInv, setup
<1>4. DevicesOpen'
  BY <1>0, <1>1 DEF DevicesOpen
<1> QED
  BY <1>1, <1>2, <1>3, <1>4, RolesStay, PoseStays, UpdateStays, OffsetsStay

-----------------------------------------------------------------------------
(***************************************************************************)
(* The pose thread and the update thread.                                  *)
(***************************************************************************)
\* The pose thread goes to a place where it has read nothing yet.
LEMMA PoseMoves ==
  ASSUME SteamInv, IInv',
         pose.at \notin {"none", "ended"},
         pose' \in [at : {"top", "context", "rot", "ended"}, k : 1 .. Len(Objects), rot : 0 .. 1],
         pose'.at = "rot" => device[Objects[pose'.k]] # None,
         UNCHANGED <<opened, quit, snapshot>>, UNCHANGED setup,
         UNCHANGED <<host, device, activated, flags, poseExit, offsets, published>>
  PROVE  SteamInv'
<1> USE DEF SteamInv
<1>1. pose'.at \in {"top", "context", "rot", "ended"}
  OBVIOUS
<1>2. SteamTypeOK'
  <2>1. pose' \in [at : {"none", "top", "context", "rot", "pos", "ended"},
                   k : 1 .. Len(Objects), rot : 0 .. 1]
    OBVIOUS
  <2> QED
    BY <2>1 DEF SteamTypeOK, IInv, setup
<1>3. DevicesOpen'
  BY DevicesStay
<1>4. PosePlaced'
  BY <1>1 DEF PosePlaced
<1>5. OneUpdate'
  BY <1>1 DEF OneUpdate, OneUpdatePose, Source
<1> QED
  BY <1>2, <1>3, <1>4, <1>5, RolesStay, OffsetsStay

LEMMA PoseThreadLoopsKeeps ==
  ASSUME SteamInv, IInv', PoseThreadLoops
  PROVE  SteamInv'
<1> USE DEF SteamInv
<1>0. /\ pose.at = "top"
      /\ UNCHANGED <<host, device, activated, flags, poseExit, offsets, published>>
      /\ UNCHANGED setup /\ UNCHANGED <<opened, quit, snapshot>>
  BY DEF PoseThreadLoops, CtxUpdateStarts, vars
<1>1. \/ pose' = [pose EXCEPT !.at = "ended"]
      \/ pose' = AtObject(1)
      \/ pose' = [pose EXCEPT !.at = "context"]
  BY DEF PoseThreadLoops
<1>2. CASE pose' = [pose EXCEPT !.at = "ended"]
  <2>1. pose' \in [at : {"top", "context", "rot", "ended"}, k : 1 .. Len(Objects), rot : 0 .. 1]
        /\ pose'.at = "ended"
    BY <1>2 DEF SteamTypeOK
  <2> QED
    BY <1>0, <2>1, PoseMoves
<1>3. CASE pose' = AtObject(1)
  BY <1>0, <1>3, AtObjectFacts, PoseMoves
<1>4. CASE pose' = [pose EXCEPT !.at = "context"]
  <2>1. pose' \in [at : {"top", "context", "rot", "ended"}, k : 1 .. Len(Objects), rot : 0 .. 1]
        /\ pose'.at = "context"
    BY <1>4 DEF SteamTypeOK
  <2> QED
    BY <1>0, <2>1, PoseMoves
<1> QED
  BY <1>1, <1>2, <1>3, <1>4

LEMMA PoseThreadUpdatesKeeps ==
  ASSUME SteamInv, IInv', PoseThreadUpdates
  PROVE  SteamInv'
<1> USE DEF SteamInv
<1>0. /\ pose.at = "context" /\ UNCHANGED steamVars
      /\ CtxUpdateUpdates \/ CtxUpdateReads
  BY DEF PoseThreadUpdates
<1>1. UNCHANGED <<host, device, activated, flags, poseExit, pose, offsets, published>>
      /\ UNCHANGED setup
  BY <1>0 DEF steamVars
<1>2. UNCHANGED <<opened, quit>>
  BY <1>0 DEF CtxUpdateUpdates, CtxUpdateReads
<1>3. \A d \in Devices : snapshot'[d].pos = snapshot'[d].rot
  <2>1. CASE CtxUpdateUpdates
    BY <2>1 DEF CtxUpdateUpdates, OneUpdate
  <2>2. CASE CtxUpdateReads
    <3> DEFINE now == data[Headset(active[client.i])]
    <3>1. snapshot' = [snapshot EXCEPT ![active[client.i]] = [pos |-> now, rot |-> now]]
      BY <2>2 DEF CtxUpdateReads
    <3>2. snapshot \in [Devices -> [pos : 0 .. 1, rot : 0 .. 1]]
      BY DEF SteamTypeOK, TypeOK
    <3> HIDE DEF now
    <3> QED
      BY <3>1, <3>2 DEF OneUpdate
  <2> QED
    BY <1>0, <2>1, <2>2
<1>4. SteamTypeOK'
  BY <1>1 DEF SteamTypeOK, IInv, setup
<1>5. DevicesOpen'
  BY <1>1, <1>2, DevicesStay
<1>6. OneUpdate'
  BY <1>0, <1>1, <1>3 DEF OneUpdate, OneUpdatePose, Source
<1> QED
  BY <1>1, <1>4, <1>5, <1>6, RolesStay, PoseStays, OffsetsStay

LEMMA PoseThreadUpdatedKeeps ==
  ASSUME SteamInv, IInv', PoseThreadUpdated
  PROVE  SteamInv'
<1> USE DEF SteamInv
<1>0. /\ pose.at = "context" /\ pose' = AtObject(1)
      /\ UNCHANGED <<host, device, activated, flags, poseExit, offsets, published>>
      /\ UNCHANGED setup /\ UNCHANGED <<opened, quit, snapshot>>
  BY DEF PoseThreadUpdated, vars
<1> QED
  BY <1>0, AtObjectFacts, PoseMoves

\* What is read of an open device.
LEMMA ValueFacts ==
  ASSUME SteamTypeOK, NEW e, e.dev \in Devices
  PROVE  /\ Value(e, "rot") \in 0 .. 1 /\ Value(e, "pos") \in 0 .. 1
         /\ ~e.oculus => Value(e, "rot") = snapshot[e.dev].rot /\ Value(e, "pos") = snapshot[e.dev].pos
<1>1. /\ data \in [Headsets -> 0 .. 1] /\ snapshot \in [Devices -> [pos : 0 .. 1, rot : 0 .. 1]]
  BY DEF SteamTypeOK, TypeOK
<1>2. data[Headset(e.dev)] \in 0 .. 1
  BY <1>1 DEF Headsets
<1>3. snapshot[e.dev].rot \in 0 .. 1 /\ snapshot[e.dev].pos \in 0 .. 1
  BY <1>1
<1>4. /\ Value(e, "rot") = IF e.oculus THEN data[Headset(e.dev)] ELSE snapshot[e.dev].rot
      /\ Value(e, "pos") = IF e.oculus THEN data[Headset(e.dev)] ELSE snapshot[e.dev].pos
  BY DEF Value
<1> QED
  BY <1>2, <1>3, <1>4

\* Where the pose thread reads there is an open device.
LEMMA ReadsOpen ==
  ASSUME SteamInv, pose.at \in {"rot", "pos"}
  PROVE  /\ pose.k \in 1 .. 3 /\ Objects[pose.k] \in Roles
         /\ device[Objects[pose.k]] # None
         /\ Source(Objects[pose.k]) # None /\ Source(Objects[pose.k]).dev \in Devices
         /\ opened[Source(Objects[pose.k]).dev]
<1> USE DEF SteamInv
<1>1. pose.k \in 1 .. 3 /\ Objects[pose.k] \in Roles /\ device[Objects[pose.k]] # None
  BY ObjectFacts DEF SteamTypeOK, PosePlaced
<1>2. PICK q \in Roles : Source(Objects[pose.k]) = device[q] /\ device[q] # None
  BY <1>1, SourceOpen DEF RolesGiven, SetupKept
<1>3. device[q].dev \in Devices /\ opened[device[q].dev]
  BY <1>2, DeviceFacts DEF RolesGiven, SetupKept, DevicesOpen
<1> QED
  BY <1>1, <1>2, <1>3

LEMMA GetRotationKeeps ==
  ASSUME SteamInv, IInv', GetRotation
  PROVE  SteamInv'
<1> USE DEF SteamInv
<1> DEFINE e == Source(Objects[pose.k])
<1>0. /\ pose.at = "rot" /\ pose' = [pose EXCEPT !.at = "pos", !.rot = Value(e, "rot")]
      /\ UNCHANGED <<host, device, activated, flags, poseExit, offsets, published>>
      /\ UNCHANGED setup /\ UNCHANGED <<opened, quit, snapshot>>
  BY DEF GetRotation, vars
<1>1. e.dev \in Devices /\ device[Objects[pose.k]] # None
  BY <1>0, ReadsOpen
<1>2. Value(e, "rot") \in 0 .. 1 /\ (~e.oculus => Value(e, "rot") = snapshot[e.dev].rot)
  BY <1>1, ValueFacts
<1>3. pose \in [at : {"none", "top", "context", "rot", "pos", "ended"},
                k : 1 .. Len(Objects), rot : 0 .. 1]
  BY DEF SteamTypeOK
<1>4. /\ pose'.k = pose.k /\ pose'.at = "pos" /\ pose'.rot = Value(e, "rot")
      /\ Source(Objects[pose.k])' = e
  <2>1. pose'.k = pose.k /\ pose'.at = "pos" /\ pose'.rot = Value(e, "rot")
    BY <1>0, <1>3
  <2>2. Source(Objects[pose.k])' = e
    BY <1>0, <2>1 DEF Source
  <2> QED
    BY <2>1, <2>2
<1> HIDE DEF e
<1>5. SteamTypeOK'
  <2>1. pose' \in [at : {"none", "top", "context", "rot", "pos", "ended"},
                   k : 1 .. Len(Objects), rot : 0 .. 1]
    BY <1>0, <1>2, <1>3
  <2> QED
    BY <1>0, <2>1 DEF SteamTypeOK, IInv, setup
<1>6. DevicesOpen'
  BY <1>0, DevicesStay
<1>7. PosePlaced'
  BY <1>0, <1>1, <1>4 DEF PosePlaced
<1>8. OneUpdate'
  <2>1. OneUpdatePose'
    BY <1>0 DEF OneUpdate, OneUpdatePose, Source
  <2> QED
    BY <1>0, <1>2, <1>4, <2>1 DEF OneUpdate
<1> QED
  BY <1>0, <1>5, <1>6, <1>7, <1>8, RolesStay, OffsetsStay

LEMMA GetPositionKeeps ==
  ASSUME SteamInv, IInv', GetPosition
  PROVE  SteamInv'
<1> USE DEF SteamInv
<1> DEFINE r == Objects[pose.k]
           e == Source(r)
<1>0. /\ pose.at = "pos" /\ pose' = AtObject(pose.k + 1)
      /\ published' = [of |-> r, rot |-> pose.rot, pos |-> Value(e, "pos")]
      /\ UNCHANGED <<host, device, activated, flags, poseExit>>
      /\ UNCHANGED setup /\ UNCHANGED <<opened, quit, snapshot>>
  BY DEF GetPosition, vars
<1>1. /\ e.dev \in Devices /\ device[r] # None /\ r \in ToSet(Objects)
      /\ pose.k \in 1 .. 3 /\ pose.k + 1 \in 1 .. 4
  BY <1>0, ReadsOpen, ObjectFacts
<1>2. Value(e, "pos") \in 0 .. 1 /\ (~e.oculus => Value(e, "pos") = snapshot[e.dev].pos)
  BY <1>1, ValueFacts
<1>3. \/ UNCHANGED offsets
      \/ /\ r \in Controllers
         /\ \E positional \in IF r \in flags THEN {e.positional} ELSE BOOLEAN :
              offsets' = [offsets EXCEPT ![r] = OffsetsAfter(r, positional)]
  BY <1>1, ObjectFacts DEF GetPosition, Controllers
<1>4. /\ pose' \in [at : {"top", "rot"}, k : 1 .. Len(Objects), rot : 0 .. 1]
      /\ pose'.at = "rot" => device[Objects[pose'.k]] # None
      /\ pose'.at \in {"top", "rot"}
  BY <1>0, <1>1, AtObjectFacts
<1>5. published' \in [of : ToSet(Objects), rot : 0 .. 1, pos : 0 .. 1]
  <2>1. pose.rot \in 0 .. 1
    BY DEF SteamTypeOK
  <2> QED
    BY <1>0, <1>1, <1>2, <2>1
<1>6. MaxDrift \in Nat /\ MaxDrift >= 1 /\ offsets \in [Controllers -> 0 .. MaxDrift]
  BY SteamAssumption DEF SteamAssumption, SteamTypeOK
<1>7. OneUpdate'
  <2>1. OneUpdatePose'
    <3>1. SUFFICES ASSUME ~e.oculus PROVE pose.rot = Value(e, "pos")
      BY <1>0 DEF OneUpdatePose, Source
    <3> QED
      BY <1>0, <1>1, <1>2, <3>1 DEF OneUpdate
  <2> QED
    BY <1>0, <1>4, <2>1 DEF OneUpdate
<1>8. r \in Controllers => e = device[r]
  BY DEF Source, Controllers
<1>9. \A q \in Controllers : Source(q)' = device[q] /\ Source(q) = device[q]
  BY <1>0 DEF Source, Controllers
<1> HIDE DEF r, e
<1>10. offsets' \in [Controllers -> 0 .. MaxDrift]
  BY <1>3, <1>6 DEF OffsetsAfter
<1>11. OffsetOnce'
  <2>1. CASE UNCHANGED offsets
    BY <1>0, <2>1, OffsetsStay
  <2>2. ASSUME r \in Controllers,
               NEW positional \in IF r \in flags THEN {e.positional} ELSE BOOLEAN,
               offsets' = [offsets EXCEPT ![r] = OffsetsAfter(r, positional)]
        PROVE  OffsetOnce'
    <3>1. ASSUME NEW q \in Controllers, q \in flags, device[q].positional
          PROVE  offsets'[q] <= 1
      <4>1. CASE q = r
        <5>1. positional = device[r].positional
          BY <1>8, <2>2, <3>1, <4>1
        <5>2. OffsetsAfter(r, positional) = 1
          BY <3>1, <4>1, <5>1 DEF OffsetsAfter
        <5> QED
          BY <1>6, <2>2, <4>1, <5>2
      <4>2. CASE q # r
        BY <1>6, <1>9, <2>2, <3>1, <4>2 DEF OffsetOnce
      <4> QED
        BY <4>1, <4>2
    <3> QED
      BY <1>0, <1>9, <3>1 DEF OffsetOnce
  <2> QED
    BY <1>3, <2>1, <2>2
<1>12. SteamTypeOK'
  <2>1. pose' \in [at : {"none", "top", "context", "rot", "pos", "ended"},
                   k : 1 .. Len(Objects), rot : 0 .. 1]
    BY <1>4
  <2> QED
    BY <1>0, <1>5, <1>10, <2>1 DEF SteamTypeOK, IInv, setup
<1>13. DevicesOpen'
  BY <1>0, DevicesStay
<1>14. PosePlaced'
  BY <1>0, <1>4 DEF PosePlaced
<1> QED
  BY <1>0, <1>7, <1>11, <1>12, <1>13, <1>14, RolesStay

LEMMA UpdateThreadKeeps ==
  ASSUME SteamInv, IInv', UpdateThread
  PROVE  SteamInv'
<1> USE DEF SteamInv
<1>0. /\ UNCHANGED <<host, device, activated, flags, poseExit, pose, offsets, published>>
      /\ UNCHANGED setup
  BY DEF UpdateThread, steamVars
<1>1. UNCHANGED <<opened, quit, snapshot>>
  BY DEF UpdateThread, Updater, UpdaterLocks, UpdaterNext, UpdaterUpdates, UpdaterUnlocks,
         UpdaterQuits
<1>2. SteamTypeOK'
  BY <1>0 DEF SteamTypeOK, IInv, setup
<1> QED
  BY <1>0, <1>1, <1>2, RolesStay, DevicesStay, PoseStays, UpdateStays, OffsetsStay

LEMMA SteamNextKeeps == SteamInv /\ [SteamNext]_<<vars, steamVars>> => SteamInv'
<1> SUFFICES ASSUME SteamInv, [SteamNext]_<<vars, steamVars>> PROVE SteamInv'
  OBVIOUS
<1>1. IInv'
  BY SteamNextIsNext, NextKeeps DEF SteamInv
<1>2. CASE InitLooks \/ InitChooses
  BY <1>1, <1>2, InitLooksKeeps, InitChoosesKeeps
<1>3. CASE \E r \in Roles : InitOpens(r) \/ InitSkips(r)
  BY <1>1, <1>3, InitOpensKeeps, InitSkipsKeeps
<1>4. CASE \E r \in ToSet(Objects) : Activate(r) \/ Deactivate(r)
  BY <1>1, <1>4, ActivateKeeps, DeactivateKeeps
<1>5. CASE StartPoseThread \/ StopPoseThread \/ Cleanup
  BY <1>1, <1>5, StartPoseThreadKeeps, StopPoseThreadKeeps, CleanupDeletesKeeps,
     CleanupDestroysKeeps DEF Cleanup
<1>6. CASE PoseThread
  BY <1>1, <1>6, PoseThreadLoopsKeeps, PoseThreadUpdatesKeeps, PoseThreadUpdatedKeeps,
     GetRotationKeeps, GetPositionKeeps DEF PoseThread
<1>7. CASE UpdateThread
  BY <1>1, <1>7, UpdateThreadKeeps
<1>8. CASE UNCHANGED <<vars, steamVars>>
  <2>1. /\ UNCHANGED <<host, device, activated, flags, poseExit, pose, offsets, published>>
        /\ UNCHANGED setup /\ UNCHANGED <<opened, quit, snapshot>>
    BY <1>8 DEF vars, steamVars
  <2>2. SteamTypeOK'
    BY <1>1, <2>1 DEF SteamInv, SteamTypeOK, IInv, setup
  <2> QED
    BY <1>1, <2>1, <2>2, RolesStay, DevicesStay, PoseStays, UpdateStays, OffsetsStay
       DEF SteamInv
<1> QED
  BY <1>2, <1>3, <1>4, <1>5, <1>6, <1>7, <1>8 DEF SteamNext

-----------------------------------------------------------------------------
\* The invariant holds in every behaviour of the driver, for any devices and
\* any lists of them.
THEOREM SteamInductive == SteamSpec => []SteamInv
BY SteamInitKeeps, SteamNextKeeps, PTL DEF SteamSpec

\* The driver is a client of the context as OhmdContext describes one: what is
\* proved of any client holds for SteamVR's threads.
THEOREM SteamIsClient == SteamSpec => Spec
<1>1. SteamInit => Init
  BY DEF SteamInit
<1>2. SteamInv /\ [SteamNext]_<<vars, steamVars>> => [Next]_vars
  BY SteamNextIsNext
<1> QED
  BY <1>1, <1>2, SteamInductive, PTL DEF SteamSpec, Spec

\* Each role is played by the first device of the list that can play it, or by
\* the one the configuration names, whatever else is in the list.
THEOREM RolesRight == SteamSpec => []FirstThatFits
<1>1. SteamInv => FirstThatFits
  BY DEF SteamInv, RolesGiven
<1> QED
  BY <1>1, SteamInductive, PTL

\* A pose that the driver publishes is of a device that is open, of one update
\* of it, and with the local offset of the controller once, however SteamVR's
\* calls, the pose thread and the update thread interleave.
THEOREM PosesSafe == SteamSpec => []PosesRight
<1>1. SteamInv => ReadsOpenDevices
  <2> SUFFICES ASSUME SteamInv, pose.at \in {"rot", "pos"}
               PROVE  LET e == Source(Objects[pose.k])
                      IN  e # None /\ opened[e.dev] /\ use[Headset(e.dev)] > 0
    BY DEF ReadsOpenDevices
  <2> DEFINE e == Source(Objects[pose.k])
  <2>1. e # None /\ e.dev \in Devices /\ opened[e.dev]
    BY ReadsOpen
  <2> HIDE DEF e
  <2>2. OpenOf(Headset(e.dev)) # {} /\ Headset(e.dev) \in Headsets
    BY <2>1 DEF OpenOf, Headsets
  <2>3. use[Headset(e.dev)] = Cardinality(OpenOf(Headset(e.dev)))
    BY <2>2 DEF SteamInv, IInv, UsersCounted, OpenOf
  <2>4. IsFiniteSet(OpenOf(Headset(e.dev))) /\ Cardinality(OpenOf(Headset(e.dev))) \in Nat
    BY Parts DEF OpenOf
  <2>5. use[Headset(e.dev)] > 0
    BY <2>2, <2>3, <2>4, FS_EmptySet
  <2> QED
    BY <2>1, <2>5 DEF e
<1>2. SteamInv => PosesRight
  BY <1>1 DEF SteamInv, PosesRight, OneUpdate
<1> QED
  BY <1>2, SteamInductive, PTL

-----------------------------------------------------------------------------
(***************************************************************************)
(* The calibration of the height.                                          *)
(***************************************************************************)
\* How long the script has waited, with the second that it has not looked at.
Asked == script.clock + (IF "script" \in due THEN 1 ELSE 0)
\* The seconds of samples, with the one the driver has not looked at.
Passed == driver.seconds + (IF "driver" \in due THEN 1 ELSE 0)

\* Nothing but what the headset showed at one place is in the window so far.
Undisturbed == driver.seen \cup head.been = {head.at}

\* The headset, and what the driver has seen of it: a window of one height is
\* of a headset that was still for all of it.
WindowKept ==
  /\ IsFiniteSet(driver.seen) /\ IsFiniteSet(head.been) /\ head.at \in head.been
  /\ driver.at = "sampling" =>
       /\ driver.seconds < Window
       /\ Undisturbed => head.still >= Passed
  /\ driver.at \in {"measured", "opened", "written"} =>
       /\ driver.seen # {} /\ driver.still >= Window
       /\ "driver" \notin due
  /\ driver.at = "written" => temporary.whole /\ temporary.still >= Window
  /\ driver.at \in {"published", "stopped"} => "driver" \notin due

\* The files, and who may take a result away.
FilesKept ==
  /\ result # NoFile => result.whole /\ result.still >= Window /\ result.published = bounds.runs
  /\ driver.at = "published" /\ result = NoFile =>
       script.at \in {"off", "prepare"} /\ "script" \notin due
  /\ script.at = "off" => "script" \notin due
  /\ script.at = "wait" /\ result = NoFile => request

\* How far the driver is with the answer.  A window that was disturbed before
\* the request may come to its end first.
AnswerComes ==
  script.at = "wait" /\ ~disturbed /\ result = NoFile =>
    /\ driver.at \in {"idle", "sampling", "measured", "opened", "written"}
    /\ driver.at = "idle" => Asked <= IF "driver" \in due THEN 1 ELSE 0
    /\ driver.at = "sampling" => Asked <= Passed + IF Undisturbed THEN Window ELSE 0
    /\ Asked <= 2 * Window

\* To whose request the answer is that is on its way.
OwnAnswer ==
  /\ driver.at \in {"opened", "written"} => temporary.run = driver.run
  /\ script.at # "off" /\ ~script.late =>
       /\ Active => driver.run = bounds.runs
       /\ result # NoFile => result.run = bounds.runs

HeightInv ==
  /\ HeightTypeOK /\ WindowKept /\ FilesKept /\ AnswerComes /\ OwnAnswer
  /\ ReadsOwnResult /\ EyesAtTarget
-----------------------------------------------------------------------------
DriverTypes ==
  [at : {"stopped", "idle", "sampling", "measured", "opened", "written", "published"},
   seconds : 0 .. Window, seen : SUBSET Heights, still : 0 .. Window, run : 0 .. MaxRuns,
   offset : Plausible \cup {0}]
ScriptTypes ==
  [at : {"off", "prepare", "wait", "read", "set"}, clock : 0 .. Prepare + Patience,
   read : FileTypes, late : BOOLEAN]

LEMMA Bounds ==
  /\ Window \in Nat /\ Window >= 1 /\ Prepare \in Nat /\ Patience \in Nat
  /\ MaxRuns \in Nat /\ MaxCrashes \in Nat /\ Standing \in Int /\ Target \in Int
  /\ Heights \subseteq Int
BY CalibrationAssumption DEF CalibrationAssumption

LEMMA Types ==
  HeightTypeOK <=>
    /\ request \in BOOLEAN /\ result \in FileTypes /\ temporary \in FileTypes
    /\ setting \in Plausible \cup {0}
    /\ driver \in DriverTypes /\ script \in ScriptTypes
    /\ head \in [at : Heights, been : SUBSET Heights, still : 0 .. Window]
    /\ due \subseteq {"driver", "script"}
    /\ bounds \in [runs : 0 .. MaxRuns, crashes : 0 .. MaxCrashes]
    /\ disturbed \in BOOLEAN
BY DEF HeightTypeOK, DriverTypes, ScriptTypes

LEMMA NoFileFacts == NoFile \in FileTypes /\ NoFile.whole = FALSE
BY Bounds DEF NoFile, FileTypes

\* A window is still if it was of one height.
LEMMA StillFacts ==
  ASSUME NEW S, IsFiniteSet(S)
  PROVE  Still(S) <=> \E h : S = {h}
BY FS_Singleton DEF Still

-----------------------------------------------------------------------------
(***************************************************************************)
(* What stays while the parts of the state stay that it is about.          *)
(***************************************************************************)
LEMMA WindowStays ==
  ASSUME WindowKept, UNCHANGED <<driver, head, temporary>>,
         "driver" \in due' <=> "driver" \in due
  PROVE  WindowKept'
BY DEF WindowKept, Undisturbed, Passed

LEMMA AnswerStays ==
  ASSUME AnswerComes, UNCHANGED <<driver, head, script, disturbed>>, UNCHANGED due,
         result' = NoFile => result = NoFile
  PROVE  AnswerComes'
BY DEF AnswerComes, Undisturbed, Passed, Asked

LEMMA ScriptStays ==
  ASSUME ReadsOwnResult, EyesAtTarget, UNCHANGED <<script, setting>>,
         bounds'.runs = bounds.runs
  PROVE  ReadsOwnResult' /\ EyesAtTarget'
BY DEF ReadsOwnResult, EyesAtTarget

LEMMA OwnStays ==
  ASSUME OwnAnswer, UNCHANGED <<driver, temporary, result, script>>, bounds'.runs = bounds.runs
  PROVE  OwnAnswer'
BY DEF OwnAnswer, Active

\* The script goes on, and the driver and the files stay.
LEMMA OwnGoesOn ==
  ASSUME OwnAnswer, UNCHANGED <<driver, temporary, result, bounds>>,
         script.at # "off", script'.late = script.late
  PROVE  OwnAnswer'
BY DEF OwnAnswer, Active

-----------------------------------------------------------------------------
LEMMA HeightInitKeeps == HeightInit => HeightInv
<1> SUFFICES ASSUME HeightInit PROVE HeightInv
  OBVIOUS
<1>1. PICK h \in Heights : head = [at |-> h, been |-> {h}, still |-> 0]
  BY DEF HeightInit
<1>2. HeightTypeOK
  <2>1. driver \in DriverTypes
    BY Bounds DEF HeightInit, Stopped, DriverTypes
  <2>2. script \in ScriptTypes
    BY Bounds, NoFileFacts DEF HeightInit, Off, ScriptTypes
  <2>3. head \in [at : Heights, been : SUBSET Heights, still : 0 .. Window]
    BY <1>1, Bounds
  <2>4. bounds \in [runs : 0 .. MaxRuns, crashes : 0 .. MaxCrashes]
    BY Bounds DEF HeightInit
  <2> QED
    BY <2>1, <2>2, <2>3, <2>4, NoFileFacts, Types DEF HeightInit
<1>3. WindowKept
  <2>1. IsFiniteSet({}) /\ IsFiniteSet({h})
    BY FS_EmptySet, FS_Singleton
  <2> QED
    BY <1>1, <2>1 DEF HeightInit, WindowKept, Stopped
<1>4. FilesKept
  BY DEF HeightInit, FilesKept, Stopped, Off
<1>5. AnswerComes /\ OwnAnswer /\ ReadsOwnResult /\ EyesAtTarget
  BY DEF HeightInit, AnswerComes, OwnAnswer, ReadsOwnResult, EyesAtTarget, Off, Stopped
<1> QED
  BY <1>2, <1>3, <1>4, <1>5 DEF HeightInv

-----------------------------------------------------------------------------
(***************************************************************************)
(* The world.                                                              *)
(***************************************************************************)
LEMMA TickKeeps ==
  ASSUME HeightInv, Tick
  PROVE  HeightInv'
<1> USE DEF HeightInv
<1>0. /\ due = {} /\ driver.at \in {"stopped", "idle", "sampling"}
      /\ due' = {"driver", "script"} \ ((IF driver.at = "stopped" THEN {"driver"} ELSE {})
                                        \cup (IF script.at = "off" THEN {"script"} ELSE {}))
      /\ head' = [head EXCEPT !.still = IF @ < Window THEN @ + 1 ELSE @]
      /\ UNCHANGED <<request, result, temporary, setting, driver, script, bounds, disturbed>>
  BY DEF Tick, files
<1>1. /\ "driver" \in due' <=> driver.at # "stopped"
      /\ "script" \in due' <=> script.at # "off"
      /\ "driver" \notin due /\ "script" \notin due
  BY <1>0
<1>2. /\ head'.at = head.at /\ head'.been = head.been
      /\ head'.still = IF head.still < Window THEN head.still + 1 ELSE head.still
      /\ head \in [at : Heights, been : SUBSET Heights, still : 0 .. Window]
      /\ head' \in [at : Heights, been : SUBSET Heights, still : 0 .. Window]
  BY <1>0, Types, Bounds
<1>3. driver \in DriverTypes /\ script \in ScriptTypes
  BY Types
<1>4. HeightTypeOK'
  BY <1>0, <1>1, <1>2 DEF HeightTypeOK
<1>5. WindowKept'
  <2>1. ASSUME driver.at = "sampling", Undisturbed'
        PROVE  head'.still >= Passed'
    <3>1. Undisturbed
      BY <1>0, <1>2, <2>1 DEF Undisturbed
    <3>2. driver.seconds \in Nat /\ head.still \in Nat /\ Window \in Nat
      BY <1>2, <1>3, Bounds DEF DriverTypes
    <3>3. head.still >= driver.seconds /\ driver.seconds < Window
      <4>1. Passed = driver.seconds
        BY <1>1, <3>2 DEF Passed
      <4> QED
        BY <2>1, <3>1, <4>1 DEF WindowKept
    <3>4. Passed' = driver.seconds + 1
      BY <1>0, <1>1, <2>1 DEF Passed
    <3> QED
      BY <1>2, <3>2, <3>3, <3>4
  <2> QED
    BY <1>0, <1>1, <1>2, <2>1 DEF WindowKept
<1>6. FilesKept'
  BY <1>0, <1>1 DEF FilesKept
<1>7. AnswerComes'
  <2> SUFFICES ASSUME script.at = "wait", ~disturbed, result = NoFile
               PROVE  AnswerComes'
    BY <1>0 DEF AnswerComes
  <2>1. /\ Asked' = Asked + 1 /\ Passed' = Passed + 1 /\ Undisturbed' = Undisturbed
        /\ Asked \in Nat /\ Passed \in Nat
    <3>1. driver.at # "stopped"
      BY DEF AnswerComes
    <3>2. script.clock \in Nat /\ driver.seconds \in Nat
      BY <1>3, Bounds DEF DriverTypes, ScriptTypes
    <3>3. Asked = script.clock /\ Passed = driver.seconds
      BY <1>1, <3>2 DEF Asked, Passed
    <3>4. Asked' = script.clock + 1 /\ Passed' = driver.seconds + 1
      BY <1>0, <1>1, <3>1 DEF Asked, Passed
    <3>5. Undisturbed' = Undisturbed
      BY <1>0, <1>2 DEF Undisturbed
    <3> QED
      BY <3>2, <3>3, <3>4, <3>5
  <2>2. CASE driver.at = "idle"
    <3>1. Asked <= 0
      BY <1>1, <2>2 DEF AnswerComes
    <3>2. Asked' <= 1 /\ 1 <= 2 * Window
      BY <2>1, <3>1, Bounds
    <3>3. "driver" \in due'
      BY <1>1, <2>2
    <3> QED
      BY <1>0, <2>2, <3>2, <3>3, Bounds, <2>1 DEF AnswerComes
  <2>3. CASE driver.at = "sampling"
    <3>1. Asked <= Passed + IF Undisturbed THEN Window ELSE 0
      BY <2>3 DEF AnswerComes
    <3>2. Asked' <= Passed' + IF Undisturbed' THEN Window ELSE 0
      BY <2>1, <3>1, Bounds
    <3>3. Passed' <= Window
      <4>1. driver.seconds < Window /\ driver.seconds \in Nat
        BY <1>3, <2>3 DEF WindowKept, DriverTypes
      <4> QED
        BY <1>0, <1>1, <2>3, <4>1, Bounds DEF Passed
    <3>4. Asked' <= 2 * Window
      BY <2>1, <3>2, <3>3, Bounds
    <3> QED
      BY <1>0, <2>3, <3>2, <3>4 DEF AnswerComes
  <2> QED
    BY <1>0, <2>2, <2>3 DEF AnswerComes
<1> QED
  BY <1>0, <1>4, <1>5, <1>6, <1>7, ScriptStays, OwnStays

LEMMA MoveKeeps ==
  ASSUME HeightInv, NEW h \in Heights, Move(h)
  PROVE  HeightInv'
<1> USE DEF HeightInv
<1>0. /\ h # head.at /\ disturbed' = TRUE
      /\ head' = [at |-> h, been |-> head.been \cup {h}, still |-> 0]
      /\ UNCHANGED <<request, result, temporary, setting, driver, script, due, bounds>>
  BY DEF Move, files
<1>1. HeightTypeOK'
  <2>1. head' \in [at : Heights, been : SUBSET Heights, still : 0 .. Window]
    BY <1>0, Types, Bounds
  <2> QED
    BY <1>0, <2>1 DEF HeightTypeOK
<1>2. WindowKept'
  <2>1. IsFiniteSet(head.been \cup {h})
    BY FS_AddElement DEF WindowKept
  <2>2. ~Undisturbed'
    BY <1>0 DEF Undisturbed, WindowKept
  <2> QED
    BY <1>0, <2>1, <2>2 DEF WindowKept
<1>3. FilesKept'
  BY <1>0 DEF FilesKept
<1>4. AnswerComes'
  BY <1>0 DEF AnswerComes
<1> QED
  BY <1>0, <1>1, <1>2, <1>3, <1>4, ScriptStays, OwnStays

-----------------------------------------------------------------------------
(***************************************************************************)
(* The driver.                                                             *)
(***************************************************************************)
LEMMA DriverStartsKeeps ==
  ASSUME HeightInv, DriverStarts
  PROVE  HeightInv'
<1> USE DEF HeightInv
<1>0. /\ driver.at = "stopped" /\ driver' = [Stopped EXCEPT !.at = "idle", !.offset = setting]
      /\ UNCHANGED <<request, result, temporary, setting, script, head, due, bounds, disturbed>>
  BY DEF DriverStarts, files
<1>1. /\ driver' \in DriverTypes /\ driver'.at = "idle" /\ driver'.seen = {}
  <2>1. setting \in Plausible \cup {0} /\ 0 \in 0 .. Window /\ 0 \in 0 .. MaxRuns
    BY Types, Bounds
  <2>2. driver' = [at |-> "idle", seconds |-> 0, seen |-> {}, still |-> 0, run |-> 0,
               offset |-> setting]
    BY <1>0 DEF Stopped
  <2> QED
    BY <2>1, <2>2 DEF DriverTypes
<1>2. HeightTypeOK'
  BY <1>0, <1>1 DEF HeightTypeOK, DriverTypes
<1>3. WindowKept'
  BY <1>0, <1>1, FS_EmptySet DEF WindowKept
<1>4. FilesKept'
  BY <1>0, <1>1 DEF FilesKept
<1>5. AnswerComes'
  BY <1>0 DEF AnswerComes
<1>6. OwnAnswer'
  BY <1>0, <1>1 DEF OwnAnswer, Active
<1> QED
  BY <1>0, <1>2, <1>3, <1>4, <1>5, <1>6, ScriptStays

LEMMA DriverEndsKeeps ==
  ASSUME HeightInv, DriverEnds
  PROVE  HeightInv'
<1> USE DEF HeightInv
<1>0. /\ driver' = Stopped /\ due' = due \ {"driver"} /\ disturbed' = TRUE
      /\ bounds.crashes < MaxCrashes /\ bounds' = [bounds EXCEPT !.crashes = @ + 1]
      /\ UNCHANGED <<request, result, temporary, setting, script, head>>
  BY DEF DriverEnds, files
<1>1. driver' \in DriverTypes /\ driver'.at = "stopped" /\ driver'.seen = {}
  BY <1>0, Bounds DEF Stopped, DriverTypes
<1>2. bounds' \in [runs : 0 .. MaxRuns, crashes : 0 .. MaxCrashes] /\ bounds'.runs = bounds.runs
  BY <1>0, Bounds, Types
<1>3. HeightTypeOK'
  BY <1>0, <1>1, <1>2 DEF HeightTypeOK, DriverTypes
<1>4. WindowKept'
  BY <1>0, <1>1, FS_EmptySet DEF WindowKept
<1>5. FilesKept'
  BY <1>0, <1>1, <1>2 DEF FilesKept
<1>6. AnswerComes'
  BY <1>0 DEF AnswerComes
<1>7. OwnAnswer'
  BY <1>0, <1>1, <1>2 DEF OwnAnswer, Active
<1> QED
  BY <1>0, <1>2, <1>3, <1>4, <1>5, <1>6, <1>7, ScriptStays

\* The samples begin anew.
LEMMA ResetFacts ==
  ASSUME HeightInv
  PROVE  /\ ResetSamples \in DriverTypes /\ ResetSamples.at = "sampling"
         /\ ResetSamples.seconds = 0 /\ ResetSamples.seen = {} /\ ResetSamples.run = driver.run
<1>1. driver \in DriverTypes /\ 0 \in 0 .. Window
  BY Types, Bounds DEF HeightInv
<1> QED
  BY <1>1 DEF ResetSamples, DriverTypes

LEMMA DriverFailsKeeps ==
  ASSUME HeightInv, DriverFails
  PROVE  HeightInv'
<1> USE DEF HeightInv
<1>0. /\ driver.at \in {"measured", "written"} /\ driver' = ResetSamples /\ disturbed' = TRUE
      /\ temporary' = IF driver.at = "written" THEN NoFile ELSE temporary
      /\ bounds.crashes < MaxCrashes /\ bounds' = [bounds EXCEPT !.crashes = @ + 1]
      /\ UNCHANGED <<request, result, setting, script, head, due>>
  BY DEF DriverFails
<1>1. /\ driver' \in DriverTypes /\ driver'.at = "sampling" /\ driver'.seconds = 0
      /\ driver'.seen = {} /\ driver'.run = driver.run
  BY <1>0, ResetFacts
<1>2. bounds' \in [runs : 0 .. MaxRuns, crashes : 0 .. MaxCrashes] /\ bounds'.runs = bounds.runs
  BY <1>0, Bounds, Types
<1>3. HeightTypeOK'
  BY <1>0, <1>1, <1>2, NoFileFacts DEF HeightTypeOK, DriverTypes
<1>4. WindowKept'
  <2>1. "driver" \notin due'
    BY <1>0 DEF WindowKept
  <2>2. Passed' = 0 /\ head'.still >= 0
    BY <1>0, <1>1, <2>1, Types DEF Passed
  <2> QED
    BY <1>0, <1>1, <2>2, Bounds, FS_EmptySet DEF WindowKept
<1>5. FilesKept'
  BY <1>0, <1>1, <1>2 DEF FilesKept
<1>6. AnswerComes'
  BY <1>0 DEF AnswerComes
<1>7. OwnAnswer'
  BY <1>0, <1>1, <1>2 DEF OwnAnswer, Active
<1> QED
  BY <1>0, <1>2, <1>3, <1>4, <1>5, <1>6, <1>7, ScriptStays

LEMMA DriverPollsKeeps ==
  ASSUME HeightInv, DriverPolls
  PROVE  HeightInv'
<1> USE DEF HeightInv
<1>0. /\ driver.at = "idle" /\ "driver" \in due
      /\ driver' = IF request THEN [ResetSamples EXCEPT !.seen = {head.at}, !.run = bounds.runs]
                   ELSE driver
      /\ due' = due \ {"driver"} /\ head' = [head EXCEPT !.been = {head.at}]
      /\ UNCHANGED <<request, result, temporary, setting, script, bounds, disturbed>>
  BY DEF DriverPolls, Looks, files
<1>1. /\ head' \in [at : Heights, been : SUBSET Heights, still : 0 .. Window]
      /\ head'.at = head.at /\ head'.been = {head.at} /\ head'.still = head.still
      /\ head.still \in Nat /\ head.at \in Heights
  BY <1>0, Types
<1>2. CASE request
  <2>1. /\ driver' \in DriverTypes /\ driver'.at = "sampling" /\ driver'.seconds = 0
        /\ driver'.seen = {head.at} /\ driver'.run = bounds.runs
    <3>1. bounds.runs \in 0 .. MaxRuns
      BY Types
    <3> QED
      BY <1>0, <1>1, <1>2, <3>1, ResetFacts DEF DriverTypes
  <2>2. HeightTypeOK'
    BY <1>0, <1>1, <2>1 DEF HeightTypeOK, DriverTypes
  <2>3. Passed' = 0 /\ Undisturbed'
    BY <1>0, <1>1, <2>1 DEF Passed, Undisturbed
  <2>4. WindowKept'
    <3>1. IsFiniteSet({head.at})
      BY FS_Singleton
    <3>2. "driver" \notin due' /\ temporary' = temporary
      BY <1>0
    <3> QED
      BY <1>1, <2>1, <2>3, <3>1, <3>2, Bounds DEF WindowKept
  <2>5. FilesKept'
    BY <1>0, <2>1 DEF FilesKept
  <2>6. AnswerComes'
    <3> SUFFICES ASSUME script.at = "wait", ~disturbed, result = NoFile PROVE AnswerComes'
      BY <1>0 DEF AnswerComes
    <3>1. Asked <= 1 /\ Asked' = Asked /\ Asked \in Nat
      BY <1>0, Types, Bounds DEF AnswerComes, Asked, ScriptTypes
    <3> QED
      BY <2>1, <2>3, <3>1, Bounds DEF AnswerComes
  <2>7. OwnAnswer'
    BY <1>0, <2>1 DEF OwnAnswer, Active
  <2> QED
    BY <1>0, <2>2, <2>4, <2>5, <2>6, <2>7, ScriptStays
<1>3. CASE ~request
  <2>1. UNCHANGED driver
    BY <1>0, <1>3
  <2>2. HeightTypeOK'
    BY <1>0, <1>1, <2>1 DEF HeightTypeOK
  <2>3. WindowKept'
    <3>1. IsFiniteSet({head.at})
      BY FS_Singleton
    <3> QED
      BY <1>0, <1>1, <2>1, <3>1 DEF WindowKept
  <2>4. FilesKept'
    BY <1>0, <2>1 DEF FilesKept
  <2>5. AnswerComes'
    BY <1>0, <1>3 DEF AnswerComes, FilesKept
  <2> QED
    BY <1>0, <2>1, <2>2, <2>3, <2>4, <2>5, ScriptStays, OwnStays
<1> QED
  BY <1>2, <1>3

LEMMA DriverSamplesKeeps ==
  ASSUME HeightInv, DriverSamples
  PROVE  HeightInv'
<1> USE DEF HeightInv
<1>0. /\ driver.at = "sampling" /\ "driver" \in due
      /\ driver' = IF Sampled.seconds < Window THEN Sampled
                   ELSE IF Still(Sampled.seen)
                        THEN [Sampled EXCEPT !.at = "measured", !.still = head.still]
                        ELSE ResetSamples
      /\ due' = due \ {"driver"} /\ head' = [head EXCEPT !.been = {head.at}]
      /\ UNCHANGED <<request, result, temporary, setting, script, bounds, disturbed>>
  BY DEF DriverSamples, Looks, files
<1>1. /\ head' \in [at : Heights, been : SUBSET Heights, still : 0 .. Window]
      /\ head'.at = head.at /\ head'.been = {head.at} /\ head'.still = head.still
      /\ head.still \in 0 .. Window /\ head.at \in Heights /\ head.been \subseteq Heights
      /\ head.at \in head.been
  BY <1>0, Types DEF WindowKept
<1>2. driver \in DriverTypes /\ driver.seconds \in Nat /\ driver.seconds < Window
  BY <1>0, Types DEF WindowKept, DriverTypes
<1>3. /\ Sampled \in DriverTypes /\ Sampled.at = "sampling"
      /\ Sampled.seconds = driver.seconds + 1 /\ Sampled.seen = driver.seen \cup head.been
      /\ Sampled.run = driver.run
  <2>1. driver.seconds + 1 \in 0 .. Window
    BY <1>2, Bounds
  <2>2. driver.seen \cup head.been \in SUBSET Heights
    BY <1>1, <1>2 DEF DriverTypes
  <2> QED
    BY <1>0, <1>2, <2>1, <2>2 DEF Sampled, DriverTypes
<1>4. Passed = driver.seconds + 1 /\ "driver" \notin due'
  BY <1>0, <1>2 DEF Passed
<1>5. IsFiniteSet(driver.seen \cup head.been)
  BY FS_Union DEF WindowKept
<1>6. Still(Sampled.seen) <=> Undisturbed
  <2>1. Still(driver.seen \cup head.been) <=> \E h : driver.seen \cup head.been = {h}
    BY <1>5, StillFacts
  <2>2. head.at \in driver.seen \cup head.been
    BY <1>1
  <2>3. (\E h : driver.seen \cup head.been = {h}) <=> driver.seen \cup head.been = {head.at}
    BY <2>2
  <2> QED
    BY <1>3, <2>1, <2>3 DEF Undisturbed
<1>7. Asked' = Asked /\ Asked \in Nat
  BY <1>0, Types, Bounds DEF Asked, ScriptTypes
<1>8. CASE Sampled.seconds < Window
  <2>1. driver' = Sampled
    BY <1>0, <1>8
  <2>2. Passed' = Passed /\ (Undisturbed' <=> Undisturbed)
    <3>1. Passed' = driver.seconds + 1
      BY <1>2, <1>3, <1>4, <2>1 DEF Passed
    <3>2. driver'.seen \cup head'.been = driver.seen \cup head.been
      BY <1>1, <1>3, <2>1
    <3> QED
      BY <1>1, <1>4, <3>1, <3>2 DEF Undisturbed
  <2>3. HeightTypeOK'
    BY <1>0, <1>1, <1>3, <2>1 DEF HeightTypeOK, DriverTypes
  <2>4. WindowKept'
    <3>1. IsFiniteSet({head.at}) /\ IsFiniteSet(driver.seen \cup head.been)
      BY <1>5, FS_Singleton
    <3>2. /\ driver'.at = "sampling" /\ driver'.seen = driver.seen \cup head.been
          /\ driver'.seconds < Window
      BY <1>3, <1>8, <2>1
    <3>3. Undisturbed' => head'.still >= Passed'
      BY <1>0, <1>1, <2>2 DEF WindowKept
    <3> QED
      BY <1>1, <3>1, <3>2, <3>3 DEF WindowKept
  <2>5. FilesKept'
    BY <1>0, <1>3, <2>1 DEF FilesKept
  <2>6. AnswerComes'
    BY <1>0, <1>3, <1>7, <2>1, <2>2 DEF AnswerComes
  <2>7. OwnAnswer'
    BY <1>0, <1>3, <2>1 DEF OwnAnswer, Active
  <2> QED
    BY <1>0, <2>3, <2>4, <2>5, <2>6, <2>7, ScriptStays
<1>9. CASE ~(Sampled.seconds < Window) /\ Undisturbed
  <2>1. driver' = [Sampled EXCEPT !.at = "measured", !.still = head.still]
    BY <1>0, <1>6, <1>9
  <2>2. /\ driver' \in DriverTypes /\ driver'.at = "measured" /\ driver'.still = head.still
        /\ driver'.seen = driver.seen \cup head.been /\ driver'.run = driver.run
    BY <1>1, <1>3, <2>1 DEF DriverTypes
  <2>3. head.still >= Window
    BY <1>0, <1>1, <1>2, <1>3, <1>4, <1>9, Bounds DEF WindowKept
  <2>4. HeightTypeOK'
    BY <1>0, <1>1, <2>2 DEF HeightTypeOK, DriverTypes
  <2>5. WindowKept'
    <3>1. IsFiniteSet({head.at})
      BY FS_Singleton
    <3>2. driver'.seen # {}
      BY <1>1, <2>2
    <3> QED
      BY <1>1, <1>4, <1>5, <2>2, <2>3, <3>1, <3>2 DEF WindowKept
  <2>6. FilesKept'
    BY <1>0, <2>2 DEF FilesKept
  <2>7. AnswerComes'
    BY <1>0, <1>7, <2>2 DEF AnswerComes
  <2>8. OwnAnswer'
    BY <1>0, <2>2 DEF OwnAnswer, Active
  <2> QED
    BY <1>0, <2>4, <2>5, <2>6, <2>7, <2>8, ScriptStays
<1>10. CASE ~(Sampled.seconds < Window) /\ ~Undisturbed
  <2>1. driver' = ResetSamples
    BY <1>0, <1>6, <1>10
  <2>2. /\ driver' \in DriverTypes /\ driver'.at = "sampling" /\ driver'.seconds = 0
        /\ driver'.seen = {} /\ driver'.run = driver.run
    BY <2>1, ResetFacts
  <2>3. Passed' = 0 /\ Undisturbed'
    BY <1>1, <1>4, <2>2 DEF Passed, Undisturbed
  <2>4. HeightTypeOK'
    BY <1>0, <1>1, <2>2 DEF HeightTypeOK, DriverTypes
  <2>5. WindowKept'
    <3>1. IsFiniteSet({head.at}) /\ IsFiniteSet({})
      BY FS_Singleton, FS_EmptySet
    <3>2. head'.still >= Passed' /\ driver'.seconds < Window
      BY <1>1, <2>2, <2>3, Bounds
    <3> QED
      BY <1>1, <2>2, <3>1, <3>2 DEF WindowKept
  <2>6. FilesKept'
    BY <1>0, <2>2 DEF FilesKept
  <2>7. AnswerComes'
    <3> SUFFICES ASSUME script.at = "wait", ~disturbed, result = NoFile PROVE AnswerComes'
      BY <1>0 DEF AnswerComes
    <3>1. Asked <= Passed
      BY <1>0, <1>2, <1>4, <1>7, <1>10 DEF AnswerComes
    <3>2. Asked <= Window
      BY <1>2, <1>4, <1>7, <3>1, Bounds
    <3> QED
      BY <1>7, <2>2, <2>3, <3>2, Bounds DEF AnswerComes
  <2>8. OwnAnswer'
    BY <1>0, <2>2 DEF OwnAnswer, Active
  <2> QED
    BY <1>0, <2>4, <2>5, <2>6, <2>7, <2>8, ScriptStays
<1> QED
  BY <1>8, <1>9, <1>10

\* The file that the driver writes.
LEMMA FileFacts ==
  ASSUME HeightInv, driver.at \in {"measured", "opened"}, NEW w \in BOOLEAN
  PROVE  /\ File(Average, w) \in FileTypes
         /\ File(Average, w).whole = w /\ File(Average, w).still = driver.still
         /\ File(Average, w).run = driver.run
<1>1. driver.seen # {} /\ driver \in DriverTypes
  BY Types DEF HeightInv, WindowKept
<1>2. Average \in driver.seen
  BY <1>1 DEF Average
<1>3. Average \in Heights
  BY <1>1, <1>2 DEF DriverTypes
<1>4. driver.run \in 0 .. MaxRuns /\ 0 \in 0 .. MaxRuns /\ driver.still \in 0 .. Window
  BY <1>1, Bounds DEF DriverTypes
<1> QED
  BY <1>3, <1>4 DEF File, FileTypes

LEMMA DriverOpensKeeps ==
  ASSUME HeightInv, DriverOpens
  PROVE  HeightInv'
<1> USE DEF HeightInv
<1>0. /\ driver.at = "measured" /\ driver' = [driver EXCEPT !.at = "opened"]
      /\ temporary' = File(Average, FALSE)
      /\ UNCHANGED <<request, result, setting, script, head, due, bounds, disturbed>>
  BY DEF DriverOpens
<1>1. /\ driver' \in DriverTypes /\ driver'.at = "opened" /\ driver'.seen = driver.seen
      /\ driver'.still = driver.still /\ driver'.run = driver.run
  BY <1>0, Types DEF DriverTypes
<1>2. temporary' \in FileTypes /\ temporary'.run = driver.run
  BY <1>0, FileFacts
<1>3. HeightTypeOK'
  BY <1>0, <1>1, <1>2 DEF HeightTypeOK, DriverTypes
<1>4. WindowKept'
  BY <1>0, <1>1 DEF WindowKept
<1>5. FilesKept'
  BY <1>0, <1>1 DEF FilesKept
<1>6. AnswerComes'
  BY <1>0, <1>1 DEF AnswerComes, Asked
<1>7. OwnAnswer'
  BY <1>0, <1>1, <1>2 DEF OwnAnswer, Active
<1> QED
  BY <1>0, <1>3, <1>4, <1>5, <1>6, <1>7, ScriptStays

LEMMA DriverWritesKeeps ==
  ASSUME HeightInv, DriverWrites
  PROVE  HeightInv'
<1> USE DEF HeightInv
<1>0. /\ driver.at = "opened" /\ driver' = [driver EXCEPT !.at = "written"]
      /\ temporary' = File(Average, TRUE)
      /\ UNCHANGED <<request, result, setting, script, head, due, bounds, disturbed>>
  BY DEF DriverWrites
<1>1. /\ driver' \in DriverTypes /\ driver'.at = "written" /\ driver'.seen = driver.seen
      /\ driver'.still = driver.still /\ driver'.run = driver.run
  BY <1>0, Types DEF DriverTypes
<1>2. /\ temporary' \in FileTypes /\ temporary'.whole /\ temporary'.still = driver.still
      /\ temporary'.run = driver.run
  BY <1>0, FileFacts
<1>3. HeightTypeOK'
  BY <1>0, <1>1, <1>2 DEF HeightTypeOK, DriverTypes
<1>4. WindowKept'
  BY <1>0, <1>1, <1>2 DEF WindowKept
<1>5. FilesKept'
  BY <1>0, <1>1 DEF FilesKept
<1>6. AnswerComes'
  BY <1>0, <1>1 DEF AnswerComes, Asked
<1>7. OwnAnswer'
  BY <1>0, <1>1, <1>2 DEF OwnAnswer, Active
<1> QED
  BY <1>0, <1>3, <1>4, <1>5, <1>6, <1>7, ScriptStays

LEMMA DriverRenamesKeeps ==
  ASSUME HeightInv, DriverRenames
  PROVE  HeightInv'
<1> USE DEF HeightInv
<1>0. /\ driver.at = "written" /\ driver' = [driver EXCEPT !.at = "published"]
      /\ result' = [temporary EXCEPT !.published = bounds.runs] /\ temporary' = NoFile
      /\ UNCHANGED <<request, setting, script, head, due, bounds, disturbed>>
  BY DEF DriverRenames
<1>1. driver' \in DriverTypes /\ driver'.at = "published" /\ driver'.seen = driver.seen
  BY <1>0, Types DEF DriverTypes
<1>2. /\ result' \in FileTypes /\ result'.published = bounds.runs
      /\ result'.run = temporary.run
      /\ result'.whole = temporary.whole /\ result'.still = temporary.still
  BY <1>0, Types DEF FileTypes
<1>3. result'.whole /\ result'.still >= Window /\ result' # NoFile
  BY <1>0, <1>2, NoFileFacts DEF WindowKept
<1>4. HeightTypeOK'
  BY <1>0, <1>1, <1>2, NoFileFacts DEF HeightTypeOK, DriverTypes
<1>5. WindowKept'
  BY <1>0, <1>1 DEF WindowKept
<1>6. FilesKept'
  BY <1>0, <1>1, <1>2, <1>3 DEF FilesKept, NoFile
<1>7. AnswerComes'
  BY <1>3 DEF AnswerComes, NoFile
<1>8. OwnAnswer'
  BY <1>0, <1>1, <1>2 DEF OwnAnswer, Active
<1> QED
  BY <1>0, <1>4, <1>5, <1>6, <1>7, <1>8, ScriptStays

LEMMA DriverRemovesKeeps ==
  ASSUME HeightInv, DriverRemoves
  PROVE  HeightInv'
<1> USE DEF HeightInv
<1>0. /\ driver.at = "published" /\ driver' = [driver EXCEPT !.at = "idle"] /\ request' = FALSE
      /\ UNCHANGED <<result, temporary, setting, script, head, due, bounds, disturbed>>
  BY DEF DriverRemoves
<1>1. driver' \in DriverTypes /\ driver'.at = "idle" /\ driver'.seen = driver.seen
  BY <1>0, Types DEF DriverTypes
<1>2. HeightTypeOK'
  BY <1>0, <1>1 DEF HeightTypeOK, DriverTypes
<1>3. WindowKept'
  BY <1>0, <1>1 DEF WindowKept
<1>4. FilesKept'
  BY <1>0, <1>1 DEF FilesKept
<1>5. AnswerComes'
  BY <1>0 DEF AnswerComes
<1>6. OwnAnswer'
  BY <1>0, <1>1 DEF OwnAnswer, Active
<1> QED
  BY <1>0, <1>2, <1>3, <1>4, <1>5, <1>6, ScriptStays

-----------------------------------------------------------------------------
(***************************************************************************)
(* The script.                                                             *)
(***************************************************************************)
LEMMA OffFacts == Off \in ScriptTypes /\ Off.at = "off"
BY Bounds, NoFileFacts DEF Off, ScriptTypes

\* The driver's part does not look at whose turn the script is.
LEMMA ScriptsTurn ==
  ASSUME due' \subseteq due, due \ {"script"} \subseteq due'
  PROVE  "driver" \in due' <=> "driver" \in due
OBVIOUS

\* With the script gone nobody waits, reads or sets.
LEMMA OffKeeps ==
  ASSUME script'.at \notin {"wait", "read", "set"}
  PROVE  AnswerComes' /\ ReadsOwnResult' /\ EyesAtTarget'
BY DEF AnswerComes, ReadsOwnResult, EyesAtTarget

\* Nor does anybody care for the answer.
LEMMA OffOwns ==
  ASSUME OwnAnswer, UNCHANGED <<driver, temporary>>, script'.at = "off"
  PROVE  OwnAnswer'
BY DEF OwnAnswer

LEMMA ScriptStartsKeeps ==
  ASSUME HeightInv, ScriptStarts
  PROVE  HeightInv'
<1> USE DEF HeightInv
<1>0. /\ script.at = "off" /\ bounds.runs < MaxRuns /\ request' = FALSE /\ result' = NoFile
      /\ script' = [Off EXCEPT !.at = "prepare", !.late = Active]
      /\ bounds' = [bounds EXCEPT !.runs = @ + 1]
      /\ UNCHANGED <<temporary, setting, driver, head, due, disturbed>>
  BY DEF ScriptStarts
<1>1. script' \in ScriptTypes /\ script'.at = "prepare" /\ script'.late = Active
  <2>1. Active \in BOOLEAN
    BY DEF Active
  <2> DEFINE measuring == Active
  <2> HIDE DEF measuring
  <2>2. script' = [Off EXCEPT !.at = "prepare", !.late = measuring] /\ measuring \in BOOLEAN
    BY <1>0, <2>1 DEF measuring
  <2>3. script' \in ScriptTypes /\ script'.at = "prepare" /\ script'.late = measuring
    BY <2>2, OffFacts DEF Off, ScriptTypes
  <2> QED
    BY <2>3 DEF measuring
<1>2. bounds' \in [runs : 0 .. MaxRuns, crashes : 0 .. MaxCrashes]
  BY <1>0, Bounds, Types
<1>3. HeightTypeOK'
  BY <1>0, <1>1, <1>2, NoFileFacts DEF HeightTypeOK, ScriptTypes
<1>4. WindowKept'
  BY <1>0, WindowStays
<1>5. FilesKept'
  BY <1>0, <1>1 DEF FilesKept
<1>6. OwnAnswer'
  BY <1>0, <1>1 DEF OwnAnswer, Active
<1> QED
  BY <1>1, <1>3, <1>4, <1>5, <1>6, OffKeeps

LEMMA ScriptEndsKeeps ==
  ASSUME HeightInv, ScriptEnds
  PROVE  HeightInv'
<1> USE DEF HeightInv
<1>0. /\ script' = Off /\ due' = due \ {"script"}
      /\ UNCHANGED <<request, result, temporary, setting, driver, head, bounds, disturbed>>
  BY DEF ScriptEnds, files
<1>1. script' \in ScriptTypes /\ script'.at = "off"
  BY <1>0, OffFacts
<1>2. HeightTypeOK'
  BY <1>0, <1>1 DEF HeightTypeOK, ScriptTypes
<1>3. WindowKept'
  BY <1>0, WindowStays
<1>4. FilesKept'
  BY <1>0, <1>1 DEF FilesKept
<1> QED
  BY <1>1, <1>2, <1>3, <1>4, OffKeeps, <1>0, OffOwns

LEMMA ScriptPreparesKeeps ==
  ASSUME HeightInv, ScriptPrepares
  PROVE  HeightInv'
<1> USE DEF HeightInv
<1>0. /\ script.at = "prepare" /\ "script" \in due /\ due' = due \ {"script"}
      /\ UNCHANGED <<result, temporary, setting, driver, head, bounds>>
  BY DEF ScriptPrepares
<1>1. script \in ScriptTypes /\ script.clock \in Nat
  BY Types, Bounds DEF ScriptTypes
<1>2. WindowKept'
  BY <1>0, WindowStays
<1>3. CASE script.clock < Prepare
  <2>1. script' = [script EXCEPT !.clock = @ + 1] /\ UNCHANGED <<request, disturbed>>
    BY <1>3 DEF ScriptPrepares
  <2>2. script' \in ScriptTypes /\ script'.at = "prepare" /\ script'.late = script.late
    <3>1. script.clock + 1 \in 0 .. Prepare + Patience
      BY <1>1, <1>3, Bounds
    <3> QED
      BY <1>0, <1>1, <2>1, <3>1 DEF ScriptTypes
  <2>3. HeightTypeOK'
    BY <1>0, <2>1, <2>2 DEF HeightTypeOK, ScriptTypes
  <2>4. FilesKept'
    BY <1>0, <2>1, <2>2 DEF FilesKept
  <2> QED
    BY <1>0, <1>2, <2>2, <2>3, <2>4, OffKeeps, OwnGoesOn
<1>4. CASE ~(script.clock < Prepare)
  <2>1. /\ request' = TRUE /\ script' = [script EXCEPT !.at = "wait", !.clock = 0]
        /\ disturbed' = (driver.at = "stopped")
    BY <1>4 DEF ScriptPrepares
  <2>2. /\ script' \in ScriptTypes /\ script'.at = "wait" /\ script'.clock = 0
        /\ script'.late = script.late
    <3>1. 0 \in 0 .. Prepare + Patience
      BY Bounds
    <3> QED
      BY <1>1, <2>1, <3>1 DEF ScriptTypes
  <2>3. disturbed' \in BOOLEAN /\ request' \in BOOLEAN
    BY <2>1
  <2>4. HeightTypeOK'
    BY <1>0, <2>2, <2>3 DEF HeightTypeOK, ScriptTypes
  <2>5. FilesKept'
    BY <1>0, <2>1, <2>2 DEF FilesKept
  <2>6. AnswerComes'
    <3> SUFFICES ASSUME driver.at # "stopped", result = NoFile
                 PROVE  AnswerComes'
      BY <1>0, <2>1 DEF AnswerComes
    <3>1. Asked' = 0
      BY <1>0, <2>2 DEF Asked
    <3>2. driver \in DriverTypes /\ driver.at # "published"
      BY <1>0, Types DEF FilesKept
    <3>3. driver.at \in {"idle", "sampling", "measured", "opened", "written"}
      BY <3>2 DEF DriverTypes
    <3>4. driver.seconds \in Nat /\ Window \in Nat
      BY <3>2, Bounds DEF DriverTypes
    <3>5. /\ 0 <= 2 * Window
          /\ Passed' = driver.seconds \/ Passed' = driver.seconds + 1
      BY <1>0, <3>4 DEF Passed
    <3>6. 0 <= Passed' + IF Undisturbed' THEN Window ELSE 0
      BY <3>4, <3>5
    <3> QED
      BY <1>0, <3>1, <3>3, <3>5, <3>6 DEF AnswerComes
  <2>7. ReadsOwnResult' /\ EyesAtTarget'
    BY <2>2 DEF ReadsOwnResult, EyesAtTarget
  <2> QED
    BY <1>0, <1>2, <2>2, <2>4, <2>5, <2>6, <2>7, OwnGoesOn
<1> QED
  BY <1>3, <1>4

LEMMA ScriptWaitsKeeps ==
  ASSUME HeightInv, ScriptWaits
  PROVE  HeightInv'
<1> USE DEF HeightInv
<1>0. /\ script.at = "wait" /\ "script" \in due /\ result = NoFile /\ due' = due \ {"script"}
      /\ UNCHANGED <<result, temporary, setting, driver, head, bounds, disturbed>>
  BY DEF ScriptWaits
<1>1. script \in ScriptTypes /\ script.clock \in Nat
  BY Types, Bounds DEF ScriptTypes
<1>2. WindowKept'
  BY <1>0, WindowStays
<1>3. CASE script.clock < Patience
  <2>1. script' = [script EXCEPT !.clock = @ + 1] /\ UNCHANGED request
    BY <1>3 DEF ScriptWaits
  <2>2. /\ script' \in ScriptTypes /\ script'.at = "wait" /\ script'.clock = script.clock + 1
        /\ script'.late = script.late
    <3>1. script.clock + 1 \in 0 .. Prepare + Patience
      BY <1>1, <1>3, Bounds
    <3> QED
      BY <1>0, <1>1, <2>1, <3>1 DEF ScriptTypes
  <2>3. HeightTypeOK'
    BY <1>0, <2>1, <2>2 DEF HeightTypeOK, ScriptTypes
  <2>4. FilesKept'
    BY <1>0, <2>1, <2>2 DEF FilesKept
  <2>5. AnswerComes'
    <3>1. Asked' = Asked
      BY <1>0, <1>1, <2>2 DEF Asked
    <3>2. Passed' = Passed /\ (Undisturbed' <=> Undisturbed)
      BY <1>0 DEF Passed, Undisturbed
    <3> QED
      BY <1>0, <2>2, <3>1, <3>2 DEF AnswerComes
  <2>6. ReadsOwnResult' /\ EyesAtTarget'
    BY <2>2 DEF ReadsOwnResult, EyesAtTarget
  <2> QED
    BY <1>0, <1>2, <2>2, <2>3, <2>4, <2>5, <2>6, OwnGoesOn
<1>4. CASE ~(script.clock < Patience)
  <2>1. script' = Off /\ request' = FALSE
    BY <1>4 DEF ScriptWaits
  <2>2. script' \in ScriptTypes /\ script'.at = "off"
    BY <2>1, OffFacts
  <2>3. HeightTypeOK'
    BY <1>0, <2>1, <2>2 DEF HeightTypeOK, ScriptTypes
  <2>4. FilesKept'
    BY <1>0, <2>1, <2>2 DEF FilesKept
  <2> QED
    BY <1>0, <1>2, <2>2, <2>3, <2>4, OffKeeps, OffOwns
<1> QED
  BY <1>3, <1>4

LEMMA ScriptReadsKeeps ==
  ASSUME HeightInv, ScriptReads
  PROVE  HeightInv'
<1> USE DEF HeightInv
<1>0. /\ script.at = "wait" /\ result # NoFile
      /\ script' = [script EXCEPT !.at = "read", !.read = result]
      /\ UNCHANGED <<request, result, temporary, setting, driver, head, due, bounds, disturbed>>
  BY DEF ScriptReads, files
<1>1. /\ script' \in ScriptTypes /\ script'.at = "read" /\ script'.read = result
      /\ script'.late = script.late
  BY <1>0, Types DEF ScriptTypes
<1>2. HeightTypeOK'
  BY <1>0, <1>1 DEF HeightTypeOK, ScriptTypes
<1>3. WindowKept'
  BY <1>0, WindowStays
<1>4. FilesKept'
  BY <1>0, <1>1 DEF FilesKept
<1>5. AnswerComes'
  BY <1>1 DEF AnswerComes
<1>6. ReadsOwnResult' /\ EyesAtTarget'
  BY <1>0, <1>1 DEF FilesKept, OwnAnswer, ReadsOwnResult, EyesAtTarget
<1> QED
  BY <1>0, <1>1, <1>2, <1>3, <1>4, <1>5, <1>6, OwnGoesOn

LEMMA ScriptSetsKeeps ==
  ASSUME HeightInv, ScriptSets
  PROVE  HeightInv'
<1> USE DEF HeightInv
<1> DEFINE ok == script.read.whole /\ NewOffset(script.read.height) \in Plausible
<1>0. /\ script.at = "read"
      /\ setting' = IF ok THEN NewOffset(script.read.height) ELSE setting
      /\ script' = IF ok THEN [script EXCEPT !.at = "set"] ELSE Off
      /\ due' = IF ok THEN due ELSE due \ {"script"}
      /\ UNCHANGED <<request, result, temporary, driver, head, bounds, disturbed>>
  BY DEF ScriptSets
<1>1. script \in ScriptTypes
  BY Types
<1>2. WindowKept'
  BY <1>0, WindowStays
<1>3. CASE ok
  <2>1. /\ setting' = NewOffset(script.read.height) /\ setting' \in Plausible
        /\ script' = [script EXCEPT !.at = "set"] /\ due' = due
    BY <1>0, <1>3
  <2>2. /\ script' \in ScriptTypes /\ script'.at = "set" /\ script'.read = script.read
        /\ script'.late = script.late
    BY <1>1, <2>1 DEF ScriptTypes
  <2>3. HeightTypeOK'
    BY <1>0, <2>1, <2>2 DEF HeightTypeOK, ScriptTypes
  <2>4. FilesKept'
    BY <1>0, <2>1, <2>2 DEF FilesKept
  <2>5. AnswerComes'
    BY <2>2 DEF AnswerComes
  <2>6. ReadsOwnResult'
    BY <1>0, <2>2 DEF ReadsOwnResult
  <2>7. EyesAtTarget'
    <3>1. script.read.height \in Int
      <4>1. script.read \in FileTypes
        BY <1>1 DEF ScriptTypes
      <4>2. script.read.height \in Heights \cup {0}
        BY <4>1 DEF FileTypes
      <4>3. Heights \cup {0} \subseteq Int
        BY Bounds
      <4> QED
        BY <4>2, <4>3
    <3> QED
      BY <2>1, <2>2, <3>1, Bounds DEF EyesAtTarget, NewOffset
  <2> QED
    BY <1>0, <1>2, <2>2, <2>3, <2>4, <2>5, <2>6, <2>7, OwnGoesOn
<1>4. CASE ~ok
  <2>1. setting' = setting /\ script' = Off /\ due' = due \ {"script"}
    BY <1>0, <1>4
  <2>2. script' \in ScriptTypes /\ script'.at = "off"
    BY <2>1, OffFacts
  <2>3. HeightTypeOK'
    BY <1>0, <2>1, <2>2 DEF HeightTypeOK, ScriptTypes
  <2>4. FilesKept'
    BY <1>0, <2>1, <2>2 DEF FilesKept
  <2> QED
    BY <1>0, <1>2, <2>2, <2>3, <2>4, OffKeeps, OffOwns
<1> QED
  BY <1>3, <1>4

LEMMA ScriptRemovesKeeps ==
  ASSUME HeightInv, ScriptRemoves
  PROVE  HeightInv'
<1> USE DEF HeightInv
<1>0. /\ script' = Off /\ due' = due \ {"script"} /\ result' = NoFile
      /\ UNCHANGED <<request, temporary, setting, driver, head, bounds, disturbed>>
  BY DEF ScriptRemoves
<1>1. script' \in ScriptTypes /\ script'.at = "off"
  BY <1>0, OffFacts
<1>2. HeightTypeOK'
  BY <1>0, <1>1, NoFileFacts DEF HeightTypeOK, ScriptTypes
<1>3. WindowKept'
  BY <1>0, WindowStays
<1>4. FilesKept'
  BY <1>0, <1>1 DEF FilesKept
<1> QED
  BY <1>1, <1>2, <1>3, <1>4, OffKeeps, <1>0, OffOwns

-----------------------------------------------------------------------------
LEMMA HeightNextKeeps == HeightInv /\ [HeightNext]_heightVars => HeightInv'
<1> SUFFICES ASSUME HeightInv, [HeightNext]_heightVars PROVE HeightInv'
  OBVIOUS
<1>1. CASE UNCHANGED heightVars
  BY <1>1 DEF HeightInv, HeightTypeOK, WindowKept, FilesKept, AnswerComes, OwnAnswer, Active,
              ReadsOwnResult, EyesAtTarget, Asked, Passed, Undisturbed, heightVars, files
<1>2. CASE Tick
  BY <1>2, TickKeeps
<1>3. CASE \E h \in Heights : Move(h)
  BY <1>3, MoveKeeps
<1>4. CASE DriverStarts \/ DriverEnds \/ DriverFails
  BY <1>4, DriverStartsKeeps, DriverEndsKeeps, DriverFailsKeeps
<1>5. CASE Driver
  BY <1>5, DriverPollsKeeps, DriverSamplesKeeps, DriverOpensKeeps, DriverWritesKeeps,
     DriverRenamesKeeps, DriverRemovesKeeps DEF Driver
<1>6. CASE ScriptStarts \/ ScriptEnds
  BY <1>6, ScriptStartsKeeps, ScriptEndsKeeps
<1>7. CASE Script
  BY <1>7, ScriptPreparesKeeps, ScriptWaitsKeeps, ScriptReadsKeeps, ScriptSetsKeeps,
     ScriptRemovesKeeps DEF Script
<1> QED
  BY <1>1, <1>2, <1>3, <1>4, <1>5, <1>6, <1>7 DEF HeightNext

LEMMA HeightInvGives == HeightInv => AnswerRight
<1> SUFFICES ASSUME HeightInv PROVE AnswerRight
  OBVIOUS
<1>1. ResultWholeAndStill
  BY DEF HeightInv, FilesKept, ResultWholeAndStill
<1>2. AnsweredInTime
  <2> SUFFICES ASSUME script.at = "wait", ~disturbed, script.clock > 2 * Window,
                      result = NoFile
               PROVE  FALSE
    BY DEF AnsweredInTime
  <2>1. Asked <= 2 * Window
    BY DEF HeightInv, AnswerComes
  <2>2. script.clock \in Nat
    BY Types, Bounds DEF HeightInv, ScriptTypes
  <2> QED
    BY <2>1, <2>2, Bounds DEF Asked
<1> QED
  BY <1>1, <1>2 DEF HeightInv, AnswerRight

\* The inductive invariant of the calibration: the files, the window of the
\* driver and the clock of the script fit together at every moment, whoever is
\* ended and whenever the wearer moves.
THEOREM HeightInductive == HeightSpec => []HeightInv
<1> QED
  BY HeightInitKeeps, HeightNextKeeps, PTL DEF HeightSpec

\* A result is a whole measurement of a headset that stood still; the script
\* reads one that was published since it began, and to its own request unless
\* the driver was still measuring for an earlier one then; it has it after two
\* windows at the latest if nothing interfered, and the eyes come out at the
\* target.
THEOREM AnswerSafe == HeightSpec => []AnswerRight
<1> QED
  BY HeightInductive, HeightInvGives, PTL
=============================================================================
