----------------------------- MODULE SampleClocks -----------------------------
(***************************************************************************)
(* How the drivers turn the clock of a device into the time steps of their *)
(* sensor fusion.  A device takes a sample in each tick and sends some of  *)
(* them in a packet, with a stamp that wraps; packets get lost.  Each      *)
(* driver has a way of its own to tell from the stamps how long ago the    *)
(* sample before was: rift.c for the headset and its controllers, the      *)
(* Rift S and its controllers, vive.c, psvr.c, wmr.c, deepoon.c, vrtek.c.  *)
(* Five of them decode into a structure that they keep: when a packet      *)
(* cannot be decoded, they log it and handle the packet before once more.  *)
(***************************************************************************)
EXTENDS Integers, SequencesExt, FiniteSetsExt

CONSTANTS
  Drivers,    \* those of AllDrivers that are looked at
  Wrap,       \* where the clock of a device starts over: 2^32, of a PSVR 2^24
  SeqWrap,    \* and its sample or message number: 256
  Starts,     \* stamps that a clock has when its device is opened
  MaxGap,     \* bound: samples that get lost in a row
  MaxTime     \* bound: samples a device takes

AllDrivers ==
  {"rift", "rift_dk1", "touch", "rift_s", "rift_s_controller", "vive", "psvr", "wmr", "deepoon",
   "vrtek"}

ClocksAssumption ==
  /\ Drivers \subseteq AllDrivers
  /\ Wrap \in Nat /\ SeqWrap \in Nat /\ Wrap % 2 = 0 /\ SeqWrap % 2 = 0
  /\ Starts \subseteq 0 .. Wrap - 1
  /\ MaxGap \in Nat /\ 2 * (MaxGap + 4) < Wrap /\ MaxGap + 1 < SeqWrap
  /\ MaxTime \in Nat

VARIABLES
  driver,
  phase,      \* what stamps and numbers start from
  now,        \* when the device took the last sample it sent
  last,       \* the stamp that the driver keeps
  known,      \* the driver's flag that it has one, where it has a flag
  seq,        \* the number that it keeps
  ready,      \* the controller's calibration is there
  latest,     \* when the last sample that was fused was taken; Never if there
              \* is none, or it is not known
  packet,     \* when the samples were taken that the kept structure holds
  decoded,    \* the last packet could be decoded
  handled,    \* the samples that the last packet gave to the fusion
  mistaken,   \* a stamp was taken for a missing one, a DK1's started over, or
              \* PSVR samples were lost
  lost        \* samples were lost, or could not be decoded

vars == <<driver, phase, now, last, known, seq, ready, latest, packet, decoded, handled,
          mistaken, lost>>

Never == 0

Stamp(t) == (phase.stamp + t) % Wrap
\* The stamp that a kept structure has for a sample; it starts with zeros.
Tick(t) == IF t = Never THEN 0 ELSE Stamp(t)
Number(t) == (phase.number + t) % SeqWrap

Init ==
  /\ driver \in Drivers
  /\ phase \in [stamp : Starts, number : IF driver = "vive" THEN 0 .. SeqWrap - 1 ELSE {0}]
  /\ now = 3                      \* the device runs when it is opened
  /\ last = IF driver \in {"rift", "rift_dk1", "rift_s"} THEN Wrap - 1 ELSE 0
  /\ seq = IF driver = "vrtek" THEN SeqWrap ELSE 0
  /\ known = FALSE
  /\ ready = (driver # "rift_s_controller")
  /\ latest = Never
  /\ packet = CASE driver = "psvr" -> <<Never, Never>>
              [] driver = "wmr" -> <<Never, Never, Never, Never>>
              [] driver \in {"deepoon", "vrtek"} -> <<Never>>
              [] OTHER -> <<>>
  /\ decoded = TRUE
  /\ handled = <<>>
  /\ mistaken = FALSE /\ lost = FALSE

-----------------------------------------------------------------------------
\* Unsigned and signed difference of two stamps.
Since(a, b) == (a - b) % Wrap
SinceSigned(a, b) == IF Since(a, b) >= Wrap \div 2 THEN Since(a, b) - Wrap ELSE Since(a, b)

\* calc_delta_and_handle_rollover, for a counter of width w in an integer that
\* is wider.
RolledOver(next, before, w) ==
  LET wider == 4 * w
      delta == (next - before) % wider
  IN  IF delta > w - 1 THEN (delta + w) % wider ELSE delta

Fused(t, dt) == [at |-> t, dt |-> dt]

\* The driver is given the samples ss, and remembers a stamp and a number.
Fuses(ss, stamp, number) ==
  /\ handled' = ss
  /\ latest' = IF ss = <<>> THEN latest ELSE Last(ss).at
  /\ last' = stamp /\ seq' = number
  /\ UNCHANGED <<driver, phase, ready>>

\* A packet of n samples reaches the host, after some that were lost, before
\* half of the clock has gone by (8 seconds of a PSVR, 33 of a DK1, 45 of a
\* Vive, half an hour and more of the others), of a VR-Tek half a second.
Sent(gap, n) ==
  /\ now + gap + n <= MaxTime
  /\ latest # Never =>
       now + gap + n - latest < IF driver = "vrtek" THEN SeqWrap ELSE Wrap \div 2
  /\ now' = now + gap + n

\* Drivers that drop a packet that they cannot decode: it is a lost one.
Decodes(gap) ==
  /\ decoded' = TRUE
  /\ lost' = (lost \/ gap > 0)
  /\ UNCHANGED packet

\* Drivers that keep what they decode, here the newest k samples: what cannot
\* be decoded leaves the packet before in place.
Keeps(gap, k) ==
  \/ /\ decoded' = TRUE
     /\ lost' = (lost \/ gap > 0)
     /\ packet' = [i \in 1 .. k |-> now' - k + i]
  \/ /\ decoded' = FALSE
     /\ lost' = TRUE
     /\ UNCHANGED packet
KeptStamp == IF packet' = <<>> THEN 0 ELSE Tick(Last(packet'))

\* A stamp of zero is taken for none.
Unset == latest # Never /\ last = 0

-----------------------------------------------------------------------------
\* rift.c, handle_tracker_sensor_msg: the stamp is that of the last sample; two
\* samples at most are in a packet, of a DK1 three, also if the device took
\* more.  The clock of a DK1 has 16 bits, the difference 32.
Rift(gap, n) ==
  /\ driver \in {"rift", "rift_dk1"} /\ Sent(gap, n)
  /\ Keeps(gap, Min({n, IF driver = "rift" THEN 2 ELSE 3}))
  /\ LET width == IF driver = "rift" THEN Wrap ELSE 4 * Wrap
         k == Len(packet')
         dt == IF known THEN (KeptStamp - last - (k - 1)) % width ELSE 1
     IN  Fuses([i \in 1 .. k |-> Fused(packet'[i], IF i = 1 THEN dt ELSE 1)], KeptStamp, seq)
  /\ known' = TRUE
  /\ mistaken' = (driver = "rift_dk1" /\ known /\ KeptStamp < last)

\* rift.c, handle_touch_controller_message
Touch(gap) ==
  /\ driver = "touch" /\ Sent(gap, 1) /\ Decodes(gap)
  /\ Fuses(<<Fused(now', IF known THEN SinceSigned(Stamp(now'), last) ELSE 1)>>, Stamp(now'), seq)
  /\ known' = TRUE
  /\ UNCHANGED mistaken

\* mutant: the time is kept as if all samples of the report were valid
RiftS_AllThree(gap, n) ==
  /\ driver = "rift_s" /\ Sent(gap, n) /\ Decodes(gap)
  /\ LET t == now' - n + 1
         dt == IF last # 0 THEN SinceSigned(Stamp(t), last) ELSE 1
     IN  Fuses([i \in 1 .. n |-> Fused(t + i - 1, IF i = 1 THEN dt ELSE 1)], Stamp(t + 2), seq)
  /\ mistaken' = (mistaken \/ Unset)
  /\ UNCHANGED known

\* rift-s.c, handle_hmd_report: the stamp is that of the first sample; of the
\* three in a report the first n are valid.
RiftS(gap, n) ==
  /\ driver = "rift_s" /\ Sent(gap, n) /\ Decodes(gap)
  /\ LET t == now' - n + 1
         dt == IF last # 0 THEN SinceSigned(Stamp(t), last) ELSE 1
         end_ts == IF last # 0 THEN last ELSE Stamp(t)
         total == (IF n = 0 THEN 0 ELSE dt + n - 1)
     IN  Fuses([i \in 1 .. n |-> Fused(t + i - 1, IF i = 1 THEN dt ELSE 1)],
               (end_ts + total) % Wrap, seq)
  /\ mistaken' = (mistaken \/ Unset)
  /\ UNCHANGED known

\* rift-s-controller.c, handle_imu_update
RiftSController(gap) ==
  /\ driver = "rift_s_controller" /\ Sent(gap, 1) /\ Decodes(gap)
  /\ LET delta == IF known THEN SinceSigned(Stamp(now'), last) ELSE 0
     IN  Fuses(IF ready THEN <<Fused(now', IF delta = 0 THEN 1 ELSE delta)>> ELSE <<>>,
               Stamp(now'), seq)
  /\ known' = TRUE
  /\ UNCHANGED mistaken

\* Its calibration and its configuration have been read.
ControllerReady ==
  /\ ~ready /\ ready' = TRUE
  /\ UNCHANGED <<driver, phase, now, last, known, seq, latest, packet, decoded, handled,
                 mistaken, lost>>

\* get_next_sample: of the samples at times ts the one that follows number s
\* most closely, or Never.
Follows(t, s) ==
  LET diff == Number(t) - s
  IN  IF diff < -(SeqWrap \div 2) THEN diff + SeqWrap ELSE diff
NextSample(ts, s) ==
  LET new == {t \in ts : Follows(t, s) > 0 /\ Follows(t, s) < SeqWrap \div 2}
  IN  IF new = {} THEN Never ELSE CHOOSE t \in new : \A u \in new : Follows(t, s) <= Follows(u, s)

\* A packet has three samples, and none is new after it was taken.
ViveLoop == <<1, 2, 3>>

\* vive.c, handle_imu_packet: each packet has the last three samples, n of them
\* for the first time.
Vive(gap, n) ==
  /\ driver = "vive" /\ Sent(gap, n) /\ Decodes(gap)
  /\ LET ts == now' - 2 .. now'
         Take(s, i) ==
           LET t == NextSample(ts, s.seq)
               ticks == IF s.last = 0 THEN Stamp(t) ELSE s.last
           IN  IF t = Never THEN s
               ELSE [seq |-> Number(t), last |-> Stamp(t),
                     mistaken |-> s.mistaken \/ (s.last = 0 /\ (latest # Never \/ s.out # <<>>)),
                     out |-> Append(s.out, Fused(t, Since(Stamp(t), ticks)))]
         first == [seq |-> seq, last |-> last, mistaken |-> mistaken, out |-> <<>>]
     IN  \E s \in {FoldLeft(Take, first, ViveLoop)} :
           /\ Fuses(s.out, s.last, s.seq)
           /\ mistaken' = s.mistaken
  /\ UNCHANGED known

\* A packet that cannot be decoded is not initialised: what was on the stack is
\* the packet before, or anything.  Of that one sample is taken for new, of a
\* time that nobody knows.
ViveUndecoded ==
  /\ driver = "vive" /\ Sent(0, 1)
  /\ decoded' = FALSE /\ lost' = TRUE
  /\ \/ Fuses(<<>>, last, seq)
     \/ \E ahead \in {1, SeqWrap \div 2 - 1}, stamp \in Starts :
          Fuses(<<Fused(Never, IF last = 0 THEN 0 ELSE Since(stamp, last))>>,
                stamp, (seq + ahead) % SeqWrap)
  /\ UNCHANGED <<known, packet, mistaken>>

\* psvr.c, handle_tracker_sensor_msg: two samples with a stamp each.  A time
\* that is not about a tick is taken for one.
Psvr(gap) ==
  /\ driver = "psvr" /\ Sent(gap, 2) /\ Keeps(gap, 2)
  /\ LET tick(i) == Tick(packet'[i])
         delta == RolledOver(tick(1), last, Wrap)
         dt == IF last > 0 /\ delta = 1 THEN delta ELSE 1
     IN  Fuses(<<Fused(packet'[1], dt), Fused(packet'[2], RolledOver(tick(2), tick(1), Wrap))>>,
               tick(2), seq)
  /\ mistaken' = (latest # Never /\ packet'[1] # latest + 1)
  /\ UNCHANGED known

\* wmr.c, handle_tracker_sensor_msg: four samples with a stamp each.
Wmr(gap) ==
  /\ driver = "wmr" /\ Sent(gap, 4) /\ Keeps(gap, 4)
  /\ LET tick(i) == IF i = 0 THEN last ELSE Tick(packet'[i])
     IN  Fuses([i \in 1 .. 4 |-> Fused(packet'[i], IF tick(i - 1) > 0
                                                  THEN Since(tick(i), tick(i - 1)) ELSE 1)],
               tick(4), seq)
  /\ mistaken' = (mistaken \/ Unset)
  /\ UNCHANGED known

\* deepoon.c, handle_tracker_sensor_msg: one sample of each packet is used.
Deepoon(gap) ==
  /\ driver = "deepoon" /\ Sent(gap, 1) /\ Keeps(gap, 1)
  /\ Fuses(<<Fused(packet'[1], IF last > 0 THEN Since(KeptStamp, last) ELSE 1)>>, KeptStamp, seq)
  /\ mistaken' = (mistaken \/ Unset)
  /\ UNCHANGED known

\* vrtek.c, handle_hmd_data_packet: only messages have a number, at first one
\* that no message has.
Vrtek(gap) ==
  /\ driver = "vrtek" /\ Sent(gap, 1) /\ Keeps(gap, 1)
  /\ LET number == IF packet' = <<Never>> THEN SeqWrap ELSE Number(packet'[1])
         dt == IF seq # SeqWrap THEN RolledOver(number, seq, SeqWrap) % SeqWrap ELSE 1
     IN  Fuses(<<Fused(packet'[1], dt)>>, last, number)
  /\ UNCHANGED <<known, mistaken>>

Next ==
  \/ \E gap \in 0 .. MaxGap :
       \/ \E n \in 1 .. 3 : Rift(gap, n)
       \/ \E n \in 0 .. 3 : RiftS(gap, n)
       \/ Touch(gap) \/ RiftSController(gap)
       \/ Psvr(gap) \/ Wmr(gap) \/ Deepoon(gap) \/ Vrtek(gap)
  \/ \E gap \in 0 .. SeqWrap + 3, n \in 1 .. 3 : (gap > 0 => n = 1) /\ Vive(gap, n)
  \/ ViveUndecoded \/ ControllerReady

Spec == Init /\ [][Next]_vars

-----------------------------------------------------------------------------
TypeOK ==
  /\ driver \in Drivers
  /\ last \in 0 .. Wrap - 1 /\ seq \in 0 .. SeqWrap
  /\ latest \in 0 .. now
  /\ Len(handled) <= 4 /\ Len(packet) <= 4 /\ decoded \in BOOLEAN
  /\ known \in BOOLEAN /\ ready \in BOOLEAN /\ mistaken \in BOOLEAN /\ lost \in BOOLEAN

\* Every sample of a packet that can be decoded, but the first of all, is fused
\* with the time since the newest sample that was fused before it, however
\* stamps and numbers wrap, packets get lost, cannot be decoded or repeat
\* samples, and reports are not full: time neither runs backwards nor jumps,
\* and no sample of such a packet is used twice.
GapsExact ==
  [][handled' # handled /\ decoded' /\ ~mistaken' =>
       \A i \in DOMAIN handled' :
         LET before == IF i = 1 THEN latest ELSE handled'[i - 1].at
         IN  before # Never =>
               /\ handled'[i].at > before
               /\ handled'[i].dt = handled'[i].at - before]_vars

\* What cannot be decoded gives the fusion samples that it had before, and no
\* time, in a driver that takes one sample at a time; the next packet goes on
\* from where the last one that could be decoded ended.
NothingNew ==
  [][~decoded' /\ driver # "vive" =>
       /\ \A i \in DOMAIN handled' : handled'[i].at <= latest
       /\ Len(handled') = 1 /\ latest # Never /\ last # 0 => handled'[1].dt = 0
       /\ latest' = latest]_vars

\* As long as no sample is lost, a driver that has fused a sample has fused the
\* newest that was sent to it.
NothingMissed == ~lost /\ latest # Never => latest = now

\* Every sample of a packet that can be decoded is fused once, with its time;
\* one that cannot be decoded brings nothing new.
SamplesExact == []TypeOK /\ []NothingMissed /\ GapsExact /\ NothingNew
=============================================================================
