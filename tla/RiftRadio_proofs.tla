--------------------------- MODULE RiftRadio_proofs ---------------------------
(***************************************************************************)
(* Proofs about RiftRadio, for any number of blocks and vibrations and any *)
(* malformed calibrations: answers, blocks and calibrations stay with      *)
(* their controller, and each vibrates as it was last asked to.            *)
(***************************************************************************)
EXTENDS RiftRadio, TLAPS

RadioSet == [cmd : ReadCmds \cup {"none", "haptics"}, dev : Controllers \cup {NoDevice},
             pending : BOOLEAN, offset : 1 .. Blocks + 1]
HapticSet == [on : BOOLEAN, tone : Tones, dirty : BOOLEAN, busy : BOOLEAN, ends : BOOLEAN]

RadioInv == TypeOK /\ ReadInv /\ HapticInv

-----------------------------------------------------------------------------
\* Facts of the types.
LEMMA Ranges ==
  /\ Blocks \in Nat /\ Blocks >= 1 /\ MaxTone \in Nat
  /\ Controllers = {0, 1} /\ HashAt = -1 /\ HeaderAt = 0 /\ Off = 0 /\ NoDevice = -1
  /\ Off \in Tones /\ First = 0 /\ Reading = 2
BY RadioConstants DEF Controllers, HashAt, HeaderAt, Off, NoDevice, Tones, First, Reading

LEMMA Types ==
  TypeOK <=>
    /\ radio \in RadioSet /\ (radio.cmd = "blocks" => radio.offset <= Blocks)
    /\ hash \in Commands /\ air \in Commands /\ block \in [Parts -> Commands]
    /\ cache \in [Controllers -> Calibration] /\ calib \in [Controllers -> Calibration]
    /\ haptic \in [Controllers -> HapticSet] /\ motor \in [Controllers -> Tones]
    /\ lost \in [Controllers -> BOOLEAN] /\ turn \in First .. Reading
BY DEF TypeOK, RadioSet, HapticSet

LEMMA CommandTypes ==
  /\ NoCommand \in Commands
  /\ \A d \in Controllers, i \in HashAt .. Blocks : ReadCommand(d, i) \in Commands
  /\ \A d \in Controllers, t \in Tones : HapticsCommand(d, t) \in Commands
BY DEF Commands

LEMMA WantedType == \A h \in HapticSet : Wanted(h) \in Tones
BY Ranges DEF HapticSet, Wanted

LEMMA FlashTypes ==
  /\ NoBlob \in [Parts -> Commands]
  /\ \A d \in Controllers : Flash(d) \in [Parts -> Commands]
<1>1. Parts \subseteq HashAt .. Blocks
  BY Ranges DEF Parts
<1> QED
  BY <1>1, CommandTypes DEF NoBlob, Flash

-----------------------------------------------------------------------------
(* Reading a calibration.                                                  *)

\* A call that is not refused goes on with its own reading, or begins one.
LEMMA Reader ==
  ASSUME RadioInv, NEW d \in Controllers, ~Refused(d, ReadCmds)
  PROVE  /\ radio.cmd = "none" \/ (radio.cmd \in ReadCmds /\ radio.dev = d)
         /\ NextPart \in HashAt .. Blocks
         /\ \A i \in HashAt .. Blocks : Answered(d, i) = ReadCommand(d, i)
         /\ HashNow(d) = ReadCommand(d, HashAt)
         /\ \A i \in Parts : i < NextPart => block[i] = ReadCommand(d, i)
<1>1. radio.cmd = "none" \/ (radio.cmd \in ReadCmds /\ radio.dev = d)
  BY DEF Refused
<1>2. radio \in RadioSet /\ (radio.cmd = "blocks" => radio.offset <= Blocks)
  BY Types DEF RadioInv
<1>3. NextPart \in HashAt .. Blocks
  BY <1>1, <1>2, Ranges DEF NextPart, RadioSet, ReadCmds
<1>4. radio.pending => air = ReadCommand(d, NextPart)
  BY <1>1 DEF RadioInv, ReadInv, AnswerIsOwn, ReadCmds
<1>5. \A i \in HashAt .. Blocks : Answered(d, i) = ReadCommand(d, i)
  BY <1>4 DEF Answered
<1>6. HashNow(d) = ReadCommand(d, HashAt)
  <2>1. CASE NextPart = HashAt
    BY <1>5, <2>1, Ranges DEF HashNow
  <2>2. CASE NextPart # HashAt
    <3>1. radio.cmd \in {"header", "blocks"}
      BY <1>1, <2>2 DEF NextPart, ReadCmds
    <3> QED
      BY <1>1, <2>2, <3>1 DEF HashNow, RadioInv, ReadInv, BlocksOfOwner
  <2> QED
    BY <2>1, <2>2
<1>7. ASSUME NEW i \in Parts, i < NextPart PROVE block[i] = ReadCommand(d, i)
  <2>1. i \in 0 .. Blocks
    BY Ranges DEF Parts
  <2>2. radio.cmd = "blocks" /\ NextPart = radio.offset
    BY <1>7, <2>1, <1>1, Ranges DEF NextPart, ReadCmds
  <2> QED
    BY <1>1, <1>7, <2>2 DEF RadioInv, ReadInv, BlocksOfOwner
<1> QED
  BY <1>1, <1>3, <1>5, <1>6, <1>7

\* What is read so far is the controller's own.
LEMMA ReadOwn ==
  ASSUME RadioInv, NEW d \in Controllers, ~Refused(d, ReadCmds),
         NEW q \in NextPart .. Blocks + 1, ReadsTo(d, q)
  PROVE  /\ hash' \in Commands /\ block' \in [Parts -> Commands]
         /\ q > HashAt => hash' = ReadCommand(d, HashAt)
         /\ \A i \in Parts : i < q => block'[i] = ReadCommand(d, i)
<1>1. /\ hash \in Commands /\ block \in [Parts -> Commands]
      /\ Parts \subseteq HashAt .. Blocks /\ HashAt \in HashAt .. Blocks
  BY Types, Ranges DEF RadioInv, Parts
<1>2. hash' \in Commands /\ (q > HashAt => hash' = ReadCommand(d, HashAt))
  BY <1>1, Reader, CommandTypes DEF ReadsTo
<1>3. ASSUME NEW i \in Parts
      PROVE  /\ block'[i] = IF NextPart <= i /\ i < q THEN ReadCommand(d, i) ELSE block[i]
  BY <1>1, Reader DEF ReadsTo
<1>4. block' \in [Parts -> Commands]
  <2>1. \A i \in Parts : (IF NextPart <= i /\ i < q THEN Answered(d, i) ELSE block[i]) \in Commands
    BY <1>1, Reader, CommandTypes
  <2> QED
    BY <2>1 DEF ReadsTo
<1>5. ASSUME NEW i \in Parts, i < q PROVE block'[i] = ReadCommand(d, i)
  BY <1>3, <1>5, Reader, Ranges DEF Parts
<1> QED
  BY <1>2, <1>4, <1>5

\* A reading ends or stops without touching what concerns vibrations.
LEMMA ReadKeepsHaptics ==
  ASSUME RadioInv, radio.cmd # "haptics", radio'.cmd # "haptics", UNCHANGED <<haptic, motor, lost>>
  PROVE  HapticInv'
<1>1. \A d \in Controllers : ~haptic[d].busy
  BY DEF RadioInv, HapticInv, WaiterOwnsRadio
<1> QED
  BY <1>1 DEF RadioInv, HapticInv, WaiterOwnsRadio, MotorAsWanted, PulseHasEnd, SentAsWanted, Wanted

\* A call that ends with the radio free of reading, or with part q awaited.
LEMMA StopsStep ==
  ASSUME RadioInv, NEW d \in Controllers, ~Refused(d, ReadCmds), ReadStops(d),
         UNCHANGED <<haptic, motor, lost, turn>>
  PROVE  RadioInv'
<1>1. PICK q \in NextPart .. Blocks, busy \in BOOLEAN :
        /\ ReadsTo(d, q) /\ StopsAt(d, q, busy)
        /\ air' = IF busy THEN Answered(d, q) ELSE NoCommand
        /\ UNCHANGED <<cache, calib>>
  BY DEF ReadStops
<1>2. /\ q \in HashAt .. Blocks /\ q \in NextPart .. Blocks + 1
      /\ radio \in RadioSet /\ radio.offset \in 1 .. Blocks + 1
  BY Reader, Ranges, Types DEF RadioInv, RadioSet
<1>3. /\ radio'.cmd = IF busy \/ q = HashAt THEN CmdAt(q) ELSE "none"
      /\ radio'.dev = d /\ radio'.pending = busy
      /\ radio'.offset = IF q > HeaderAt THEN q ELSE radio.offset
  BY <1>1 DEF StopsAt
<1>4. CmdAt(q) = IF q = -1 THEN "hash" ELSE IF q = 0 THEN "header" ELSE "blocks"
  BY Ranges DEF CmdAt
<1>5. radio' \in RadioSet /\ (radio'.cmd = "blocks" => radio'.offset <= Blocks)
  <2>1. /\ (IF busy \/ q = HashAt THEN CmdAt(q) ELSE "none") \in ReadCmds \cup {"none", "haptics"}
        /\ d \in Controllers \cup {NoDevice}
        /\ (IF q > HeaderAt THEN q ELSE radio.offset) \in 1 .. Blocks + 1
    BY <1>2, <1>4, Ranges DEF ReadCmds
  <2>2. radio' \in RadioSet
    BY <1>1, <2>1 DEF StopsAt, RadioSet
  <2> QED
    BY <1>2, <1>3, <1>4, <2>2, Ranges
<1>6. air' \in Commands
  BY <1>1, <1>2, Reader, CommandTypes
<1>7. /\ hash' \in Commands /\ block' \in [Parts -> Commands]
      /\ q > HashAt => hash' = ReadCommand(d, HashAt)
      /\ \A i \in Parts : i < q => block'[i] = ReadCommand(d, i)
  BY <1>1, <1>2, ReadOwn
<1>8. TypeOK'
  BY <1>1, <1>5, <1>6, <1>7, Types DEF RadioInv, TypeOK, RadioSet
<1>9. AnswerIsOwn'
  <2>1. SUFFICES ASSUME busy PROVE radio'.cmd \in ReadCmds /\ air' = ReadCommand(d, NextPart')
    BY <1>3 DEF AnswerIsOwn
  <2>2. air' = ReadCommand(d, q)
    BY <1>1, <1>2, <2>1, Reader
  <2>3. radio'.cmd \in ReadCmds /\ NextPart' = q
    BY <1>2, <1>3, <1>4, <2>1, Ranges DEF NextPart, ReadCmds
  <2> QED
    BY <2>2, <2>3
<1>10. HapticsPending' /\ radio'.cmd # "haptics"
  BY <1>3, <1>4 DEF HapticsPending
<1>11. BlocksOfOwner'
  BY <1>2, <1>3, <1>4, <1>7, Ranges DEF BlocksOfOwner
<1>12. CalibrationIsOwn'
  BY <1>1 DEF RadioInv, ReadInv, CalibrationIsOwn
<1>13. radio.cmd # "haptics"
  BY Reader DEF ReadCmds
<1> QED
  BY <1>8, <1>9, <1>10, <1>11, <1>12, <1>13, ReadKeepsHaptics DEF RadioInv, ReadInv

\* A call that gets to the end: the calibration is learned, or not, and may be
\* written to its file.
LEMMA EndsStep ==
  ASSUME RadioInv, NEW d \in Controllers, ~Refused(d, ReadCmds),
         NEW dev \in Controllers \cup {NoDevice}, NEW offset \in 1 .. Blocks + 1,
         radio' = Ended(dev, offset), air' = NoCommand,
         hash' \in Commands, block' \in [Parts -> Commands],
         NEW b \in {Flash(d), NoBlob}, NEW c \in {Flash(d), NoBlob},
         calib' \in {calib, [calib EXCEPT ![d] = Have(b)]},
         cache' \in {cache, [cache EXCEPT ![d] = Have(c)]},
         UNCHANGED <<haptic, motor, lost, turn>>
  PROVE  RadioInv'
<1>1. radio'.cmd = "none" /\ ~radio'.pending
  BY DEF Ended
<1>2. radio' \in RadioSet
  BY DEF Ended, RadioSet
<1>3. \A x \in {Flash(d), NoBlob} : Have(x) \in Calibration /\ Have(x).blob = x
  BY FlashTypes DEF Have, Calibration
<1>4. /\ calib \in [Controllers -> Calibration] /\ cache \in [Controllers -> Calibration]
  BY Types DEF RadioInv
<1>5. TypeOK'
  <2>1. calib' \in [Controllers -> Calibration] /\ cache' \in [Controllers -> Calibration]
    BY <1>3, <1>4
  <2> QED
    BY <1>1, <1>2, <2>1, CommandTypes, Types DEF RadioInv, TypeOK, RadioSet
<1>6. CalibrationIsOwn'
  BY <1>3, <1>4 DEF RadioInv, ReadInv, CalibrationIsOwn, Flash, NoBlob
<1>7. AnswerIsOwn' /\ HapticsPending' /\ BlocksOfOwner'
  BY <1>1 DEF AnswerIsOwn, HapticsPending, BlocksOfOwner
<1>8. radio.cmd # "haptics"
  BY Reader DEF ReadCmds
<1> QED
  BY <1>1, <1>5, <1>6, <1>7, <1>8, ReadKeepsHaptics DEF RadioInv, ReadInv

\* The calibration a call learns from a blob.
LEMMA LearnsOwn ==
  ASSUME RadioInv, NEW d \in Controllers, NEW blob \in {Flash(d), NoBlob},
         NEW offset, Learns(d, blob, offset)
  PROVE  /\ \E dev \in Controllers \cup {NoDevice} : radio' = Ended(dev, offset)
         /\ \E b \in {Flash(d), NoBlob} : calib' = [calib EXCEPT ![d] = Have(b)]
BY DEF Learns

LEMMA FromCacheStep ==
  ASSUME RadioInv, NEW d \in Controllers, ~Refused(d, ReadCmds), FromCache(d),
         UNCHANGED <<haptic, motor, lost, turn>>
  PROVE  RadioInv'
<1>1. HashNow(d).dev = d /\ CacheFile(HashNow(d)) = d
  BY Reader DEF ReadCommand, Command, CacheFile
<1>2. cache[d].have /\ cache[d].blob \in {Flash(d), NoBlob} /\ HeaderAt \in NextPart .. Blocks + 1
  BY <1>1, Ranges DEF FromCache, CacheHit, RadioInv, ReadInv, CalibrationIsOwn
<1>3. hash' \in Commands /\ block' \in [Parts -> Commands]
  BY <1>2, ReadOwn DEF FromCache
<1>4. radio.offset \in 1 .. Blocks + 1
  BY Types DEF RadioInv, RadioSet
<1>5. Learns(d, cache[d].blob, radio.offset) /\ air' = NoCommand /\ cache' = cache
  BY <1>1 DEF FromCache
<1> QED
  BY <1>2, <1>3, <1>4, <1>5, LearnsOwn, EndsStep

LEMMA FromFlashStep ==
  ASSUME RadioInv, NEW d \in Controllers, ~Refused(d, ReadCmds), FromFlash(d),
         UNCHANGED <<haptic, motor, lost, turn>>
  PROVE  RadioInv'
<1>1. HashNow(d).dev = d /\ CacheFile(HashNow(d)) = d
  BY Reader DEF ReadCommand, Command, CacheFile
<1>2. Blocks + 1 \in NextPart .. Blocks + 1 /\ Blocks + 1 \in 1 .. Blocks + 1
  BY Reader, Ranges
<1>3. /\ hash' \in Commands /\ block' \in [Parts -> Commands]
      /\ \A i \in Parts : i < Blocks + 1 => block'[i] = ReadCommand(d, i)
  BY <1>2, ReadOwn DEF FromFlash
<1>4. block' = Flash(d)
  BY <1>3, Ranges DEF Flash, Parts
<1>5. air' = NoCommand
  BY DEF FromFlash
<1>6. CASE Learns(d, block', Blocks + 1) /\ (Stored(d, block') \/ UNCHANGED cache)
  <2>1. \E c \in {Flash(d), NoBlob} : cache' \in {cache, [cache EXCEPT ![d] = Have(c)]}
    BY <1>1, <1>4, <1>6 DEF Stored
  <2> QED
    BY <1>2, <1>3, <1>4, <1>5, <1>6, <2>1, LearnsOwn, EndsStep
<1>7. CASE radio' = Ended(d, Blocks + 1) /\ UNCHANGED <<cache, calib>>
  BY <1>2, <1>3, <1>5, <1>7, EndsStep
<1> QED
  BY <1>6, <1>7 DEF FromFlash

LEMMA CalibrationStep ==
  ASSUME RadioInv, NEW d \in Controllers, GetCalibration(d)
  PROVE  RadioInv'
BY StopsStep, FromCacheStep, FromFlashStep DEF GetCalibration

-----------------------------------------------------------------------------
(* Vibrations.                                                             *)

\* What the invariants say of one controller with the haptic state h.
Steady(d, h) ==
  ~h.dirty /\ ~h.busy /\ ~lost[d] => motor[d] = Wanted(h) /\ (h.on => h.ends)
Flying(d, h) == h.busy /\ ~h.dirty => air = HapticsCommand(d, Wanted(h))

LEMMA PerController ==
  HapticInv <=> /\ WaiterOwnsRadio
                /\ \A d \in Controllers : Steady(d, haptic[d]) /\ Flying(d, haptic[d])
BY DEF HapticInv, MotorAsWanted, PulseHasEnd, SentAsWanted, Steady, Flying

\* The reading is left alone when the radio is free of it before and after.
LEMMA HapticsKeepReading ==
  ASSUME RadioInv, UNCHANGED reading,
         \/ UNCHANGED <<radio, air>>
         \/ radio'.cmd = "none" /\ ~radio'.pending
         \/ /\ radio'.cmd = "haptics" /\ radio'.pending
            /\ \E t \in Tones : air' = HapticsCommand(radio'.dev, t)
  PROVE  ReadInv'
<1>1. BlocksOfOwner' /\ CalibrationIsOwn'
  BY DEF RadioInv, ReadInv, BlocksOfOwner, CalibrationIsOwn, reading
<1>2. HapticsPending'
  BY DEF RadioInv, ReadInv, HapticsPending
<1>3. AnswerIsOwn'
  BY DEF RadioInv, ReadInv, AnswerIsOwn, NextPart, reading, ReadCmds
<1> QED
  BY <1>1, <1>2, <1>3 DEF ReadInv

\* The application asks for a vibration, or for its end.
LEMMA RequestStep ==
  ASSUME RadioInv, NEW d \in Controllers,
         (\E tone \in Tones : SetHaptics(d, tone)) \/ SetHapticsOff(d)
  PROVE  RadioInv'
<1>1. UNCHANGED <<radio, air, reading, motor, lost, turn>>
  BY DEF SetHaptics, SetHapticsOff
<1>2. haptic \in [Controllers -> HapticSet] /\ haptic[d] \in HapticSet
  BY Types DEF RadioInv
<1>3. PICK h \in HapticSet :
        /\ haptic' = [haptic EXCEPT ![d] = h]
        /\ h.busy = haptic[d].busy
        /\ ~h.dirty => /\ ~haptic[d].dirty /\ Wanted(h) = Wanted(haptic[d])
                       /\ ~h.busy /\ h.on => h.ends
  <2>1. ASSUME NEW tone \in Tones, SetHaptics(d, tone)
        PROVE  \E h \in HapticSet :
                 /\ haptic' = [haptic EXCEPT ![d] = h]
                 /\ h.busy = haptic[d].busy
                 /\ ~h.dirty => /\ ~haptic[d].dirty /\ Wanted(h) = Wanted(haptic[d])
                                /\ ~h.busy /\ h.on => h.ends
    <3> DEFINE changed == ~haptic[d].on \/ haptic[d].tone # tone
               h == [on |-> TRUE, tone |-> tone, busy |-> haptic[d].busy,
                     dirty |-> haptic[d].dirty \/ changed,
                     ends |-> ~changed /\ (haptic[d].ends \/ ~haptic[d].busy)]
    <3>1. haptic' = [haptic EXCEPT ![d] = h]
      BY <2>1 DEF SetHaptics
    <3>2. h \in HapticSet
      BY <1>2 DEF HapticSet
    <3>3. h.on = TRUE /\ h.tone = tone /\ h.busy = haptic[d].busy
      OBVIOUS
    <3>4. h.dirty <=> haptic[d].dirty \/ changed
      OBVIOUS
    <3>5. h.ends <=> ~changed /\ (haptic[d].ends \/ ~haptic[d].busy)
      OBVIOUS
    <3> HIDE DEF h
    <3>6. ~h.dirty => /\ ~haptic[d].dirty /\ Wanted(h) = Wanted(haptic[d])
                      /\ ~h.busy /\ h.on => h.ends
      BY <3>3, <3>4, <3>5 DEF Wanted
    <3> QED
      BY <3>1, <3>2, <3>3, <3>6
  <2>2. ASSUME SetHapticsOff(d)
        PROVE  \E h \in HapticSet :
                 /\ haptic' = [haptic EXCEPT ![d] = h]
                 /\ h.busy = haptic[d].busy
                 /\ h.dirty
    <3> DEFINE h == [haptic[d] EXCEPT !.on = FALSE, !.dirty = TRUE]
    <3>1. h \in HapticSet /\ h.busy = haptic[d].busy /\ h.dirty
      BY <1>2 DEF HapticSet
    <3>2. haptic' = [haptic EXCEPT ![d] = h]
      BY <1>2, <2>2 DEF SetHapticsOff, HapticSet
    <3> QED
      BY <3>1, <3>2
  <2> QED
    BY <2>1, <2>2
<1>4. TypeOK'
  BY <1>1, <1>2, <1>3, Types DEF RadioInv, TypeOK, RadioSet, HapticSet, reading
<1>5. ReadInv'
  BY <1>1, HapticsKeepReading
<1>6. \A e \in Controllers : haptic'[e] = IF e = d THEN h ELSE haptic[e]
  BY <1>2, <1>3
<1>7. WaiterOwnsRadio'
  BY <1>1, <1>3, <1>6 DEF RadioInv, HapticInv, WaiterOwnsRadio
<1>8. ASSUME NEW e \in Controllers PROVE Steady(e, haptic[e])' /\ Flying(e, haptic[e])'
  BY <1>1, <1>3, <1>6, PerController DEF RadioInv, Steady, Flying
<1> QED
  BY <1>4, <1>5, <1>7, <1>8, PerController DEF RadioInv, HapticInv, MotorAsWanted, PulseHasEnd, SentAsWanted, Steady, Flying

\* What an update does for controller d when it leaves it in state g.
LEMMA UpdateStep ==
  ASSUME RadioInv, NEW d \in Controllers, NEW g \in HapticSet,
         haptic' = [haptic EXCEPT ![d] = g],
         UNCHANGED reading, turn' \in First .. Reading,
         radio' \in RadioSet, air' \in Commands,
         motor' \in [Controllers -> Tones], lost' \in [Controllers -> BOOLEAN],
         \A e \in Controllers \ {d} : motor'[e] = motor[e] /\ lost'[e] = lost[e],
         \/ UNCHANGED <<radio, air>> /\ g.busy = haptic[d].busy
         \/ /\ radio.cmd = "none" \/ (radio.cmd = "haptics" /\ radio.dev = d)
            /\ radio'.cmd = "none" /\ ~radio'.pending /\ ~g.busy
         \/ /\ radio.cmd = "none" \/ (radio.cmd = "haptics" /\ radio.dev = d)
            /\ radio'.cmd = "haptics" /\ radio'.dev = d /\ radio'.pending /\ g.busy
            /\ \E t \in Tones : air' = HapticsCommand(d, t),
         ~g.dirty /\ ~g.busy /\ ~lost'[d] => motor'[d] = Wanted(g) /\ (g.on => g.ends),
         g.busy /\ ~g.dirty => air' = HapticsCommand(d, Wanted(g))
  PROVE  RadioInv'
<1>1. haptic \in [Controllers -> HapticSet]
  BY Types DEF RadioInv
<1>2. \A e \in Controllers : haptic'[e] = IF e = d THEN g ELSE haptic[e]
  BY <1>1
<1>3. TypeOK'
  <2>1. haptic' \in [Controllers -> HapticSet]
    BY <1>1
  <2>2. radio'.cmd = "blocks" => radio'.offset <= Blocks
    BY Types DEF RadioInv
  <2> QED
    BY <2>1, <2>2, Types DEF RadioInv, TypeOK, RadioSet, HapticSet, reading
<1>4. ReadInv'
  BY HapticsKeepReading
<1>5. WaiterOwnsRadio'
  BY <1>2 DEF RadioInv, HapticInv, WaiterOwnsRadio
<1>6. ASSUME NEW e \in Controllers PROVE Steady(e, haptic[e])' /\ Flying(e, haptic[e])'
  <2>1. CASE e = d
    BY <1>2, <2>1 DEF Steady, Flying
  <2>2. CASE e # d
    <3>1. haptic'[e] = haptic[e] /\ motor'[e] = motor[e] /\ lost'[e] = lost[e]
      BY <1>2, <2>2
    <3>2. haptic[e].busy => air' = air
      BY <2>2 DEF RadioInv, HapticInv, WaiterOwnsRadio
    <3> QED
      BY <3>1, <3>2, PerController DEF RadioInv, Steady, Flying
  <2> QED
    BY <2>1, <2>2
<1> QED
  BY <1>3, <1>4, <1>5, <1>6, PerController DEF RadioInv, HapticInv, MotorAsWanted, PulseHasEnd, SentAsWanted, Steady, Flying

\* The state of a controller at its check, and what is known of the radio.
LEMMA AtCheck ==
  ASSUME RadioInv, NEW d \in Controllers, NEW over \in BOOLEAN, NEW h,
         h = IF over THEN PulseOver(haptic[d]) ELSE haptic[d],
         over => PulseEnds(haptic[d])
  PROVE  /\ h \in HapticSet /\ h.busy = haptic[d].busy
         /\ ~h.dirty => h = haptic[d]
         /\ h.busy => /\ radio.cmd = "haptics" /\ radio.dev = d /\ radio.pending
                      /\ \E t \in Tones : air = HapticsCommand(d, t)
         /\ ~h.busy /\ ~Refused(d, {"haptics"}) => radio.cmd = "none" /\ ~radio.pending
         /\ h.busy /\ ~h.dirty => air = HapticsCommand(d, Wanted(h))
         /\ radio \in RadioSet
<1>1. haptic[d] \in HapticSet /\ radio \in RadioSet
  BY Types DEF RadioInv
<1>2. h \in HapticSet /\ h.busy = haptic[d].busy /\ (~h.dirty => h = haptic[d])
  BY <1>1 DEF PulseOver, HapticSet
<1>3. h.busy => /\ radio.cmd = "haptics" /\ radio.dev = d /\ radio.pending
                /\ \E t \in Tones : air = HapticsCommand(d, t)
  <2>1. "haptics" \notin ReadCmds
    BY DEF ReadCmds
  <2> QED
    BY <1>2, <2>1 DEF RadioInv, HapticInv, ReadInv, WaiterOwnsRadio, HapticsPending, AnswerIsOwn
<1>4. ~h.busy /\ ~Refused(d, {"haptics"}) => radio.cmd = "none" /\ ~radio.pending
  BY <1>2 DEF RadioInv, HapticInv, ReadInv, WaiterOwnsRadio, AnswerIsOwn, Refused, ReadCmds
<1>5. h.busy /\ ~h.dirty => air = HapticsCommand(d, Wanted(h))
  BY <1>2 DEF RadioInv, HapticInv, SentAsWanted
<1> QED
  BY <1>1, <1>2, <1>3, <1>4, <1>5

\* The controller carries out a command of its own.
LEMMA PerformedOwn ==
  ASSUME TypeOK, NEW d \in Controllers, NEW t \in Tones
  PROVE  LET m == Performed(HapticsCommand(d, t))
         IN  /\ m \in [Controllers -> Tones] /\ m[d] = t
             /\ \A e \in Controllers \ {d} : m[e] = motor[e]
<1>1. Performed(HapticsCommand(d, t)) = [motor EXCEPT ![d] = t]
  BY DEF Performed, HapticsCommand, Command
<1> QED
  BY <1>1 DEF TypeOK

LEMMA FreeTypes ==
  ASSUME TypeOK PROVE Free \in RadioSet /\ Free.cmd = "none" /\ ~Free.pending
<1>1. radio.offset \in 1 .. Blocks + 1
  BY Types DEF RadioSet
<1> QED
  BY <1>1 DEF Free, Ended, RadioSet

\* A command is given up after its time.
LEMMA TimesOutStep ==
  ASSUME RadioInv, NEW d \in Controllers, NEW over \in BOOLEAN, NEW h,
         h = IF over THEN PulseOver(haptic[d]) ELSE haptic[d],
         over => PulseEnds(haptic[d]),
         TimesOut(d, h), UNCHANGED reading, turn' \in First .. Reading
  PROVE  RadioInv'
<1> DEFINE g == [h EXCEPT !.busy = FALSE, !.dirty = TRUE]
<1>1. /\ h \in HapticSet /\ h.busy = haptic[d].busy
      /\ h.busy => /\ radio.cmd = "haptics" /\ radio.dev = d
                   /\ \E t \in Tones : air = HapticsCommand(d, t)
  BY AtCheck
<1>2. /\ h.busy /\ radio' = Cancelled(d) /\ haptic' = [haptic EXCEPT ![d] = g]
      /\ motor' \in {motor, Performed(air)} /\ air' = NoCommand /\ lost' = lost
  BY DEF TimesOut
<1>3. g \in HapticSet /\ g.dirty /\ ~g.busy
  BY <1>1 DEF HapticSet
<1>4. radio' \in RadioSet /\ radio'.cmd = "none" /\ ~radio'.pending
  BY <1>1, <1>2, FreeTypes DEF Cancelled, RadioInv
<1>5. motor' \in [Controllers -> Tones] /\ \A e \in Controllers \ {d} : motor'[e] = motor[e]
  BY <1>1, <1>2, PerformedOwn, Types DEF RadioInv
<1>6. lost' \in [Controllers -> BOOLEAN] /\ air' \in Commands
  BY <1>2, CommandTypes, Types DEF RadioInv
<1> HIDE DEF g
<1> QED
  BY <1>1, <1>2, <1>3, <1>4, <1>5, <1>6, UpdateStep

\* What sending a command does, by its result.
LEMMA SendsStep ==
  ASSUME RadioInv, NEW d \in Controllers, NEW h \in HapticSet, NEW g \in HapticSet,
         NEW result \in {"ok", "busy", "error"},
         Sends(d, Wanted(h), result), UNCHANGED reading, turn' \in First .. Reading,
         haptic' = [haptic EXCEPT ![d] = g],
         g.on = h.on, g.tone = h.tone,
         NEW t \in Tones, HapticsOnAir(d, Wanted(h)) = HapticsCommand(d, t),
         ~g.dirty => t = Wanted(h),
         radio.cmd = "none" \/ (radio.cmd = "haptics" /\ radio.dev = d),
         g.busy <=> result = "busy",
         result = "ok" /\ g.on /\ ~g.dirty => g.ends
  PROVE  RadioInv'
<1>0. /\ Wanted(g) = Wanted(h) /\ radio \in RadioSet /\ lost \in [Controllers -> BOOLEAN]
      /\ motor \in [Controllers -> Tones] /\ air \in Commands
  BY Types DEF Wanted, RadioInv
<1>2. CASE result = "ok"
  <2>1. /\ radio' = Free /\ air' = NoCommand
        /\ motor' = Performed(HapticsCommand(d, t)) /\ lost' = [lost EXCEPT ![d] = FALSE]
    BY <1>2 DEF Sends
  <2>2. /\ motor' \in [Controllers -> Tones] /\ motor'[d] = t
        /\ \A e \in Controllers \ {d} : motor'[e] = motor[e]
    BY <2>1, PerformedOwn DEF RadioInv
  <2>3. radio' \in RadioSet /\ radio'.cmd = "none" /\ ~radio'.pending /\ air' \in Commands
    BY <2>1, FreeTypes, CommandTypes DEF RadioInv
  <2>4. lost' \in [Controllers -> BOOLEAN] /\ \A e \in Controllers \ {d} : lost'[e] = lost[e]
    BY <1>0, <2>1
  <2>5. ~g.busy
    BY <1>2
  <2> QED
    BY <1>0, <1>2, <2>2, <2>3, <2>4, <2>5, UpdateStep
<1>3. CASE result = "busy"
  <2>1. /\ radio' = [radio EXCEPT !.cmd = "haptics", !.dev = d, !.pending = TRUE]
        /\ air' = HapticsCommand(d, t) /\ UNCHANGED <<motor, lost>>
    BY <1>3 DEF Sends
  <2>2. radio' \in RadioSet /\ radio'.cmd = "haptics" /\ radio'.dev = d /\ radio'.pending
    BY <1>0, <2>1 DEF RadioSet
  <2>3. g.busy /\ air' \in Commands
    BY <1>3, <2>1, CommandTypes
  <2> QED
    BY <1>0, <1>3, <2>1, <2>2, <2>3, UpdateStep
<1>4. CASE result = "error"
  <2>1. /\ radio' = Free /\ air' = NoCommand
        /\ motor' \in {motor, Performed(HapticsCommand(d, t))} /\ lost' = [lost EXCEPT ![d] = TRUE]
    BY <1>4 DEF Sends
  <2>2. /\ motor' \in [Controllers -> Tones]
        /\ \A e \in Controllers \ {d} : motor'[e] = motor[e]
    BY <1>0, <2>1, PerformedOwn DEF RadioInv
  <2>3. radio' \in RadioSet /\ radio'.cmd = "none" /\ ~radio'.pending /\ air' \in Commands
    BY <2>1, FreeTypes, CommandTypes DEF RadioInv
  <2>4. /\ lost' \in [Controllers -> BOOLEAN] /\ \A e \in Controllers \ {d} : lost'[e] = lost[e]
        /\ lost'[d]
    BY <1>0, <2>1
  <2>5. ~g.busy
    BY <1>4
  <2> QED
    BY <1>0, <1>4, <2>2, <2>3, <2>4, <2>5, UpdateStep
<1> QED
  BY <1>2, <1>3, <1>4

\* The answer to a command in progress.
LEMMA CompletesStep ==
  ASSUME RadioInv, NEW d \in Controllers, NEW over \in BOOLEAN, NEW h,
         h = IF over THEN PulseOver(haptic[d]) ELSE haptic[d],
         over => PulseEnds(haptic[d]),
         Completes(d, h), UNCHANGED reading, turn' \in First .. Reading
  PROVE  RadioInv'
<1>1. PICK result \in Results :
        /\ h.busy /\ Sends(d, Wanted(h), result)
        /\ haptic' = [haptic EXCEPT ![d] =
                        [h EXCEPT !.busy = result \in {"busy", "taken"},
                                  !.ends = @ \/ (result = "ok" /\ ~h.dirty /\ h.on)]]
  BY DEF Completes
<1> DEFINE y == result \in {"busy", "taken"}
           z == h.ends \/ (result = "ok" /\ ~h.dirty /\ h.on)
           g == [h EXCEPT !.busy = y, !.ends = z]
<1>2. /\ h \in HapticSet /\ h.busy = haptic[d].busy
      /\ radio.cmd = "haptics" /\ radio.dev = d
      /\ \E t \in Tones : air = HapticsCommand(d, t)
      /\ ~h.dirty => air = HapticsCommand(d, Wanted(h))
  BY <1>1, AtCheck
<1>3. PICK t \in Tones : air = HapticsCommand(d, t)
  BY <1>2
<1>4. HapticsOnAir(d, Wanted(h)) = HapticsCommand(d, t)
  BY <1>2, <1>3 DEF HapticsOnAir
<1>5. ~h.dirty => t = Wanted(h)
  BY <1>2, <1>3 DEF HapticsCommand, Command
<1>6. /\ g \in HapticSet /\ g.on = h.on /\ g.tone = h.tone /\ g.dirty = h.dirty
      /\ g.busy = y /\ g.ends = z
  <2>1. y \in BOOLEAN /\ z \in BOOLEAN
    OBVIOUS
  <2> HIDE DEF y, z
  <2> QED
    BY <1>2, <2>1, ZenonT(60) DEF HapticSet
<1>7. ~Refused(d, {"haptics"}) /\ Refused(d, {"haptics"}) = FALSE
  BY <1>2 DEF Refused
<1>8. haptic' = [haptic EXCEPT ![d] = g]
  BY <1>1
<1>9. result # "taken"
  BY <1>1, <1>7 DEF Sends
<1>10. result \in {"ok", "busy", "error"} /\ (g.busy <=> result = "busy")
  BY <1>6, <1>9 DEF Results
<1>11. result = "ok" /\ g.on /\ ~g.dirty => g.ends
  BY <1>6
<1>13. ~g.dirty => t = Wanted(h)
  BY <1>5, <1>6
<1>12. Sends(d, Wanted(h), result)
  BY <1>1
<1> HIDE DEF g, y, z
<1>14. h \in HapticSet /\ g \in HapticSet /\ g.on = h.on /\ g.tone = h.tone /\ t \in Tones
  BY <1>2, <1>3, <1>6
<1>15. radio.cmd = "none" \/ (radio.cmd = "haptics" /\ radio.dev = d)
  BY <1>2
<1>16. result \in {"ok", "busy", "error"}
  BY <1>10
<1>17. g.busy <=> result = "busy"
  BY <1>10
<1> QED
  BY <1>4, <1>8, <1>11, <1>12, <1>13, <1>14, <1>15, <1>16, <1>17, SendsStep, ZenonT(60)

\* A new command.
LEMMA StartsStep ==
  ASSUME RadioInv, NEW d \in Controllers, NEW over \in BOOLEAN, NEW h,
         h = IF over THEN PulseOver(haptic[d]) ELSE haptic[d],
         over => PulseEnds(haptic[d]),
         Starts(d, h), UNCHANGED reading, turn' \in First .. Reading
  PROVE  RadioInv'
<1>1. PICK result \in Results :
        /\ ~h.busy /\ h.dirty /\ Sends(d, Wanted(h), result)
        /\ haptic' = [haptic EXCEPT ![d] =
                        [h EXCEPT !.dirty = result = "taken",
                                  !.busy = result = "busy",
                                  !.ends = @ \/ (result = "ok" /\ h.on)]]
  BY DEF Starts
<1> DEFINE x == (result = "taken")
           y == (result = "busy")
           z == h.ends \/ (result = "ok" /\ h.on)
           g == [h EXCEPT !.dirty = x, !.busy = y, !.ends = z]
<1>2. /\ h \in HapticSet /\ h.busy = haptic[d].busy
      /\ ~Refused(d, {"haptics"}) => radio.cmd = "none" /\ ~radio.pending
  BY <1>1, AtCheck
<1>3. /\ g \in HapticSet /\ g.on = h.on /\ g.tone = h.tone
      /\ g.dirty = x /\ g.busy = y /\ g.ends = z
  <2>1. x \in BOOLEAN /\ y \in BOOLEAN /\ z \in BOOLEAN
    OBVIOUS
  <2> HIDE DEF x, y, z
  <2> QED
    BY <1>2, <2>1, ZenonT(60) DEF HapticSet
<1>4. haptic' = [haptic EXCEPT ![d] = g]
  BY <1>1
<1>5. Wanted(h) \in Tones
  BY <1>2, WantedType
<1> HIDE DEF g
<1>6. CASE result = "taken"
  <2>1. UNCHANGED <<radio, air, motor, lost>>
    BY <1>1, <1>6 DEF Sends
  <2>2. g.busy = haptic[d].busy
    BY <1>1, <1>2, <1>3, <1>6 DEF HapticSet, RadioInv, TypeOK
  <2> QED
    BY <1>3, <1>4, <1>6, <2>1, <2>2, UpdateStep, Types DEF RadioInv
<1>7. CASE result # "taken"
  <2>1. ~Refused(d, {"haptics"})
    BY <1>1, <1>7 DEF Sends, Results
  <2>2. HapticsOnAir(d, Wanted(h)) = HapticsCommand(d, Wanted(h))
    BY <1>2, <2>1 DEF HapticsOnAir
  <2>3. result \in {"ok", "busy", "error"} /\ (g.busy <=> result = "busy")
    BY <1>3, <1>7 DEF Results
  <2>4. result = "ok" /\ g.on /\ ~g.dirty => g.ends
    BY <1>3
  <2>5. Sends(d, Wanted(h), result) /\ radio.cmd = "none"
    BY <1>1, <1>2, <2>1
  <2> QED
    BY <1>2, <1>3, <1>4, <1>5, <2>2, <2>3, <2>4, <2>5, SendsStep, ZenonT(60)
<1> QED
  BY <1>6, <1>7

LEMMA CheckStep ==
  ASSUME RadioInv, NEW d \in Controllers, CheckHaptics(d)
  PROVE  RadioInv'
<1>1. /\ turn' \in First .. Reading /\ UNCHANGED reading
      /\ \E over \in BOOLEAN :
           LET h == IF over THEN PulseOver(haptic[d]) ELSE haptic[d]
           IN  /\ over => PulseEnds(haptic[d])
               /\ TimesOut(d, h) \/ Completes(d, h) \/ Starts(d, h)
                                 \/ NothingToSend(d, h)
  BY Ranges DEF CheckHaptics
<1>2. PICK over \in BOOLEAN :
        LET h == IF over THEN PulseOver(haptic[d]) ELSE haptic[d]
        IN  /\ over => PulseEnds(haptic[d])
            /\ TimesOut(d, h) \/ Completes(d, h) \/ Starts(d, h)
                              \/ NothingToSend(d, h)
  BY <1>1
<1> DEFINE h == IF over THEN PulseOver(haptic[d]) ELSE haptic[d]
<1>3. CASE NothingToSend(d, h)
  <2>1. UNCHANGED <<radio, air, haptic, motor, lost>>
    BY <1>3 DEF NothingToSend
  <2>2. TypeOK'
    BY <1>1, <2>1, Types DEF RadioInv, TypeOK, reading
  <2>3. ReadInv'
    BY <1>1, <2>1, HapticsKeepReading
  <2>4. HapticInv'
    BY <2>1 DEF RadioInv, HapticInv, WaiterOwnsRadio, MotorAsWanted, PulseHasEnd, SentAsWanted, Wanted
  <2> QED
    BY <2>2, <2>3, <2>4 DEF RadioInv
<1> QED
  BY <1>1, <1>2, <1>3, TimesOutStep, CompletesStep, StartsStep

-----------------------------------------------------------------------------
LEMMA InitOK == Init => RadioInv
<1> SUFFICES ASSUME Init PROVE RadioInv
  OBVIOUS
<1>1. radio = [cmd |-> "none", dev |-> NoDevice, pending |-> FALSE, offset |-> 1]
  BY Ranges DEF Init, Ended
<1>2. Nothing \in Calibration /\ Nothing.have = FALSE
  BY FlashTypes DEF Nothing, Calibration
<1>3. NoHaptics \in HapticSet /\ ~NoHaptics.busy /\ ~NoHaptics.on /\ Wanted(NoHaptics) = Off
  BY Ranges DEF NoHaptics, HapticSet, Wanted
<1>4. TypeOK
  <2>1. radio \in RadioSet /\ radio.cmd # "blocks"
    BY <1>1, Ranges DEF RadioSet
  <2>2. /\ cache \in [Controllers -> Calibration] /\ calib \in [Controllers -> Calibration]
        /\ haptic \in [Controllers -> HapticSet] /\ motor \in [Controllers -> Tones]
        /\ lost \in [Controllers -> BOOLEAN] /\ turn \in First .. Reading
    BY <1>2, <1>3, Ranges DEF Init
  <2> QED
    BY <2>1, <2>2, CommandTypes, FlashTypes, Types DEF Init
<1>5. ReadInv
  BY <1>1, <1>2 DEF Init, ReadInv, AnswerIsOwn, HapticsPending, BlocksOfOwner, CalibrationIsOwn
<1>6. HapticInv
  BY <1>1, <1>3 DEF Init, HapticInv, WaiterOwnsRadio, MotorAsWanted, PulseHasEnd, SentAsWanted
<1> QED
  BY <1>4, <1>5, <1>6 DEF RadioInv

LEMMA RestartStep ==
  ASSUME RadioInv, Restart PROVE RadioInv'
<1>1. radio' = [cmd |-> "none", dev |-> NoDevice, pending |-> FALSE, offset |-> 1]
  BY Ranges DEF Restart, Ended
<1>2. Nothing \in Calibration /\ Nothing.have = FALSE
  BY FlashTypes DEF Nothing, Calibration
<1>3. NoHaptics \in HapticSet /\ ~NoHaptics.busy /\ ~NoHaptics.on /\ Wanted(NoHaptics) = Off
  BY Ranges DEF NoHaptics, HapticSet, Wanted
<1>4. TypeOK'
  <2>1. radio' \in RadioSet /\ radio'.cmd # "blocks"
    BY <1>1, Ranges DEF RadioSet
  <2>2. /\ hash' = NoCommand /\ block' = NoBlob /\ air' = NoCommand
        /\ calib' = [d \in Controllers |-> Nothing] /\ haptic' = [d \in Controllers |-> NoHaptics]
        /\ lost' = [d \in Controllers |-> motor[d] # Off] /\ turn' = First
        /\ UNCHANGED <<cache, motor>>
    BY DEF Restart
  <2> QED
    BY <1>2, <1>3, <2>1, <2>2, Ranges, CommandTypes, FlashTypes, Types DEF RadioInv, TypeOK, RadioSet, HapticSet
<1>5. ReadInv'
  BY <1>1, <1>2 DEF Restart, RadioInv, ReadInv, AnswerIsOwn, HapticsPending, BlocksOfOwner, CalibrationIsOwn
<1>6. HapticInv'
  <2>1. \A d \in Controllers :
          haptic'[d] = NoHaptics /\ lost'[d] = (motor[d] # Off) /\ motor'[d] = motor[d]
    BY DEF Restart
  <2>2. radio'.cmd = "none"
    BY <1>1
  <2> QED
    BY <1>3, <2>1, <2>2 DEF HapticInv, WaiterOwnsRadio, MotorAsWanted, PulseHasEnd, SentAsWanted
<1> QED
  BY <1>4, <1>5, <1>6 DEF RadioInv

LEMMA IdleStep ==
  ASSUME RadioInv, UpdateEnds \/ UNCHANGED vars PROVE RadioInv'
<1>1. UNCHANGED <<radio, air, reading, vibration>> /\ turn' \in First .. Reading
  BY Ranges, Types DEF UpdateEnds, vars, reading, vibration, RadioInv
<1>2. TypeOK'
  BY <1>1, Types DEF RadioInv, TypeOK, reading, vibration
<1>3. ReadInv'
  BY <1>1, HapticsKeepReading
<1>4. HapticInv'
  BY <1>1 DEF RadioInv, HapticInv, WaiterOwnsRadio, MotorAsWanted, PulseHasEnd, SentAsWanted, Wanted, vibration
<1> QED
  BY <1>2, <1>3, <1>4 DEF RadioInv

LEMMA Inductive == RadioInv /\ [Next]_vars => RadioInv'
<1> SUFFICES ASSUME RadioInv, [Next]_vars PROVE RadioInv'
  OBVIOUS
<1>1. Vibrating \subseteq Controllers
  BY RadioConstants
<1> QED
  BY <1>1, IdleStep, RestartStep, CalibrationStep, CheckStep, RequestStep DEF Next

LEMMA InvariantHolds == Spec => []RadioInv
BY InitOK, Inductive, PTL DEF Spec

\* Every variable keeps its type; the read buffer is never overrun.
THEOREM TypeCorrect == Spec => []TypeOK
<1>1. RadioInv => TypeOK
  BY DEF RadioInv
<1> QED
  BY <1>1, InvariantHolds, PTL

\* No call takes the answer to another one's command, what is read of a
\* calibration is of the controller that owns the radio, and a calibration in
\* use or in the cache is whole and the controller's own, of any number of
\* blocks and with any interruptions.
THEOREM ReadsOwn == Spec => []ReadInv
<1>1. RadioInv => ReadInv
  BY DEF RadioInv
<1> QED
  BY <1>1, InvariantHolds, PTL

\* The driver and the radio agree who waits for a vibration; with nothing left
\* to send, a controller vibrates as it was last asked to, and not for ever.
THEOREM VibratesAsAsked == Spec => []HapticInv
<1>1. RadioInv => HapticInv
  BY DEF RadioInv
<1> QED
  BY <1>1, InvariantHolds, PTL
=============================================================================
