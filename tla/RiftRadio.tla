----------------------------- MODULE RiftRadio -----------------------------
(***************************************************************************)
(* The radio that the two Touch controllers share (rift-hmd-radio.c), and  *)
(* the two uses the driver makes of it (rift.c): reading the calibration   *)
(* of a controller, and sending vibrations to it.                          *)
(*                                                                         *)
(* The radio has one command in progress at a time, and no call waits for  *)
(* its answer: a call that finds no answer yet returns, and the next call  *)
(* for the same controller goes on from there.  A calibration is read in   *)
(* several commands (a hash, a header, the blocks) and is kept on disk     *)
(* under its hash.                                                         *)
(*                                                                         *)
(* Everything runs under the update mutex of OpenHMD.  One update checks   *)
(* the vibrations of the controllers in turn, then handles the messages    *)
(* that arrived; the application asks for vibrations between two updates.  *)
(***************************************************************************)
EXTENDS Integers

CONSTANTS
  Blocks,     \* commands it takes to read a calibration after its header
  BadFlash,   \* controllers whose stored calibration does not parse
  MaxTone,    \* vibrations, frequency and amplitude, are 1 .. MaxTone
  Vibrating,  \* controllers the application lets vibrate
  Restarts    \* may the program be started again?

Controllers == {0, 1}   \* touch_dev[0] and touch_dev[1]

ASSUME RadioConstants ==
  /\ Blocks \in Nat \ {0}
  /\ MaxTone \in Nat
  /\ BadFlash \subseteq Controllers
  /\ Vibrating \subseteq Controllers
  /\ Restarts \in BOOLEAN

VARIABLES
  radio,    \* cur_read_cmd, device_in_progress, command_result_pending and
            \* read_data_offset, as the block to read next
  hash,     \* calibration_hash: the command that read it
  block,    \* read_block: the command that read each part of it
  air,      \* the command sent whose answer was not taken yet
  cache,    \* the calibration files on disk
  calib,    \* have_calibration, and the calibration that was parsed
  haptic,   \* haptic_state of each controller
  motor,    \* how each controller really vibrates
  lost,     \* history: the last vibration sent to it failed
  turn      \* what the update does next

reading == <<hash, block, cache, calib>>
vibration == <<haptic, motor, lost>>
vars == <<radio, hash, block, air, cache, calib, haptic, motor, lost, turn>>

-----------------------------------------------------------------------------
NoDevice == -1
Off      == 0
Tones    == Off .. MaxTone

First   == 0   \* no update is running; the next starts with controller 0
Reading == 2   \* the update handles messages

\* What is read of a calibration, in order.
HashAt   == -1
HeaderAt == 0
Parts    == HeaderAt .. Blocks

CmdAt(i) == IF i = HashAt THEN "hash"
            ELSE IF i = HeaderAt THEN "header" ELSE "blocks"

ReadCmds == {"hash", "header", "blocks"}

\* Commands on the air; what one reads is named by the command.
Command(cmd, d, arg)     == [cmd |-> cmd, dev |-> d, arg |-> arg]
NoCommand                == Command("none", NoDevice, 0)
ReadCommand(d, i)        == Command(CmdAt(i), d, i)
HapticsCommand(d, tone)  == Command("haptics", d, tone)

Flash(d) == [i \in Parts |-> ReadCommand(d, i)]
NoBlob   == [i \in Parts |-> NoCommand]

\* rift_touch_parse_calibration accepts a complete, well-formed blob only.
Parses(blob) ==
  \A i \in Parts : blob[i].cmd \in ReadCmds /\ blob[i].dev \notin BadFlash

Nothing == [have |-> FALSE, blob |-> NoBlob]
Have(blob) == [have |-> TRUE, blob |-> blob]

NoHaptics ==
  [on |-> FALSE, tone |-> Off, dirty |-> FALSE, busy |-> FALSE, ends |-> FALSE]

Ended(dev, offset) ==
  [cmd |-> "none", dev |-> dev, pending |-> FALSE, offset |-> offset]

Free == Ended(NoDevice, radio.offset)

Init ==
  /\ radio = Ended(NoDevice, HeaderAt + 1)
  /\ hash = NoCommand /\ block = NoBlob /\ air = NoCommand
  /\ cache = [d \in Controllers |-> Nothing]
  /\ calib = [d \in Controllers |-> Nothing]
  /\ haptic = [d \in Controllers |-> NoHaptics]
  /\ motor = [d \in Controllers |-> Off]
  /\ lost = [d \in Controllers |-> FALSE]
  /\ turn = First

-----------------------------------------------------------------------------
(***************************************************************************)
(* Use of the radio.  A call is refused (EBUSY) while another controller,  *)
(* or another kind of command, has it.                                     *)
(***************************************************************************)
Refused_KindOnly(d, cmds) == radio.cmd # "none" /\ radio.cmd \notin cmds

Refused(d, cmds) ==
  radio.cmd # "none" /\ (radio.dev # d \/ radio.cmd \notin cmds)

\* rift_touch_cancel_in_progress
Cancelled(d) ==
  IF radio.cmd # "none" /\ radio.dev # d THEN radio ELSE Free

-----------------------------------------------------------------------------
(***************************************************************************)
(* rift_touch_get_calibration for controller d, on the way of a message    *)
(* from d.  One call takes every answer that is there at once: it goes on  *)
(* from part NextPart and gets as far as the first answer that is not.     *)
(***************************************************************************)
NextPart ==
  IF radio.cmd \in {"none", "hash"} THEN HashAt
  ELSE IF radio.cmd = "header" THEN HeaderAt ELSE radio.offset

\* rift_radio_read_flash sends a command only if none is pending: the first
\* answer of a call is the answer of whatever is on the air.
Answered(d, i) ==
  IF i = NextPart /\ radio.pending THEN air ELSE ReadCommand(d, i)

HashNow(d) == IF NextPart = HashAt THEN Answered(d, HashAt) ELSE hash

\* make_calibration_hash_key: the file of a calibration is named by its hash.
CacheFile(h) == h.dev

\* The cache is looked up where the hash has just been read.
CacheHit(d) ==
  NextPart = HashAt /\ cache[CacheFile(HashNow(d))].have

\* The parts before q are read.
ReadsTo(d, q) ==
  /\ hash' = IF q > HashAt THEN HashNow(d) ELSE hash
  /\ block' = [i \in Parts |->
                 IF NextPart <= i /\ i < q THEN Answered(d, i) ELSE block[i]]

\* Part q has no answer yet, or fails to be read.
StopsAt(d, q, busy) ==
  radio' = [cmd     |-> IF busy \/ q = HashAt THEN CmdAt(q) ELSE "none",
            dev     |-> d,
            pending |-> busy,
            offset  |-> IF q > HeaderAt THEN q ELSE radio.offset]

ReadStops(d) ==
  \E q \in NextPart .. Blocks, busy \in BOOLEAN :
    /\ CacheHit(d) => q = HashAt
    /\ ReadsTo(d, q)
    /\ StopsAt(d, q, busy)
    /\ air' = IF busy THEN Answered(d, q) ELSE NoCommand
    /\ UNCHANGED <<cache, calib>>

\* A calibration that does not parse leaves the call with the result of its
\* last read, which is no error: the driver goes on without the calibration.
Learns_RadioKept(d, blob, offset) ==
  /\ calib' = [calib EXCEPT ![d] = Have(IF Parses(blob) THEN blob ELSE NoBlob)]
  /\ radio' = [Ended(NoDevice, offset) EXCEPT !.cmd = radio.cmd]

Learns(d, blob, offset) ==
  \/ /\ Parses(blob)
     /\ calib' = [calib EXCEPT ![d] = Have(blob)]
     /\ radio' = Ended(NoDevice, offset)
  \/ /\ ~Parses(blob)
     /\ calib' = [calib EXCEPT ![d] = Have(NoBlob)]
     /\ radio' = Ended(d, offset)

FromCache(d) ==
  /\ CacheHit(d)
  /\ ReadsTo(d, HeaderAt)
  /\ air' = NoCommand
  /\ Learns(d, cache[CacheFile(HashNow(d))].blob, radio.offset)
  /\ UNCHANGED cache

\* ohmd_set_config writes the file in place.  A write that fails, or a crash,
\* leaves it short or as it was, and is no error to the caller; only a
\* directory that cannot be made is.
Stored(d, blob) ==
  \/ \E written \in {blob, NoBlob} :
       cache' = [cache EXCEPT ![CacheFile(HashNow(d))] = Have(written)]
  \/ UNCHANGED cache

FromFlash(d) ==
  /\ ~CacheHit(d)
  /\ ReadsTo(d, Blocks + 1)
  /\ air' = NoCommand
  /\ \/ /\ Learns(d, block', Blocks + 1)
        /\ IF Parses(block') THEN Stored(d, block') ELSE UNCHANGED cache
     \/ /\ Parses(block')
        /\ radio' = Ended(d, Blocks + 1)
        /\ UNCHANGED <<cache, calib>>

\* A message of controller d whose calibration is not known yet, and the
\* radio is not refused.  Other messages use no radio.
GetCalibration(d) ==
  /\ turn = Reading
  /\ ~calib[d].have
  /\ ~Refused(d, ReadCmds)
  /\ ReadStops(d) \/ FromCache(d) \/ FromFlash(d)
  /\ UNCHANGED <<haptic, motor, lost, turn>>

-----------------------------------------------------------------------------
(***************************************************************************)
(* Vibrations: set_touch_haptics, called by the application, only notes    *)
(* what is wanted, and check_haptics_state, in every update, sends it.     *)
(***************************************************************************)
Wanted(h) == IF h.on THEN h.tone ELSE Off

\* The same vibration again only lasts longer; its end is set when it starts.
SetHaptics(d, tone) ==
  LET h == haptic[d]
      changed == ~h.on \/ h.tone # tone
  IN  /\ turn = First
      /\ haptic' = [haptic EXCEPT ![d] =
                      [on |-> TRUE, tone |-> tone, busy |-> h.busy,
                       dirty |-> h.dirty \/ changed,
                       ends |-> ~changed /\ (h.ends \/ ~h.busy)]]
      /\ UNCHANGED <<radio, air, reading, motor, lost, turn>>

SetHapticsOff(d) ==
  /\ turn = First
  /\ haptic[d].on
  /\ haptic' = [haptic EXCEPT ![d].on = FALSE, ![d].dirty = TRUE]
  /\ UNCHANGED <<radio, air, reading, motor, lost, turn>>

\* The time of the pulse is over.
PulseEnds(h) ==
  h.on /\ ~h.busy /\ ~h.dirty /\ h.ends

PulseOver(h) == [h EXCEPT !.on = FALSE, !.dirty = TRUE]

\* rift_touch_send_haptics: the command whose answer it takes.
HapticsOnAir(d, tone) ==
  IF radio.cmd = "haptics" \/ radio.pending THEN air ELSE HapticsCommand(d, tone)

\* The controller does what a command says.
Performed(cmd) ==
  IF cmd.cmd = "haptics" THEN [motor EXCEPT ![cmd.dev] = cmd.arg] ELSE motor

\* rift_touch_send_haptics answers 0, EINPROGRESS, EBUSY or another error; on
\* the last its caller cancels, and the controller may have got the command
\* or not.
Sends(d, tone, result) ==
  LET cmd == HapticsOnAir(d, tone)
  IN  \/ /\ result = "taken"
         /\ Refused(d, {"haptics"})
         /\ UNCHANGED <<radio, air, motor, lost>>
      \/ /\ result = "ok"
         /\ ~Refused(d, {"haptics"})
         /\ radio' = Free
         /\ air' = NoCommand
         /\ motor' = Performed(cmd)
         /\ lost' = [lost EXCEPT ![d] = FALSE]
      \/ /\ result = "busy"
         /\ ~Refused(d, {"haptics"})
         /\ radio' = [radio EXCEPT !.cmd = "haptics", !.dev = d, !.pending = TRUE]
         /\ air' = cmd
         /\ UNCHANGED <<motor, lost>>
      \/ /\ result = "error"
         /\ ~Refused(d, {"haptics"})
         /\ radio' = Free
         /\ air' = NoCommand
         /\ motor' \in {motor, Performed(cmd)}
         /\ lost' = [lost EXCEPT ![d] = TRUE]

Results == {"taken", "ok", "busy", "error"}

\* A command takes too long: it is given up and sent again.
TimesOut(d, h) ==
  /\ h.busy
  /\ radio' = Cancelled(d)
  /\ haptic' = [haptic EXCEPT ![d] = [h EXCEPT !.busy = FALSE, !.dirty = TRUE]]
  /\ motor' \in {motor, Performed(air)}
  /\ air' = NoCommand
  /\ UNCHANGED lost

\* The answer to the command in progress.
Completes(d, h) ==
  \E result \in Results :
    /\ h.busy
    /\ Sends(d, Wanted(h), result)
    /\ haptic' = [haptic EXCEPT ![d] =
                    [h EXCEPT !.busy = result \in {"busy", "taken"},
                              !.ends = @ \/ (result = "ok" /\ ~h.dirty /\ h.on)]]

\* A new command; refused, it is tried again in the next update.
Starts_ForgetsRefused(d, h) ==
  \E result \in Results :
    /\ ~h.busy /\ h.dirty
    /\ Sends(d, Wanted(h), result)
    /\ haptic' = [haptic EXCEPT ![d] =
                    [h EXCEPT !.dirty = FALSE, !.busy = result = "busy",
                              !.ends = @ \/ (result = "ok" /\ h.on)]]

Starts(d, h) ==
  \E result \in Results :
    /\ ~h.busy /\ h.dirty
    /\ Sends(d, Wanted(h), result)
    /\ haptic' = [haptic EXCEPT ![d] =
                    [h EXCEPT !.dirty = result = "taken",
                              !.busy = result = "busy",
                              !.ends = @ \/ (result = "ok" /\ h.on)]]

NothingToSend(d, h) ==
  /\ ~h.busy /\ ~h.dirty
  /\ UNCHANGED <<radio, air, haptic, motor, lost>>

CheckHaptics(d) ==
  /\ turn = d
  /\ turn' = d + 1
  /\ \E over \in BOOLEAN :
       LET h == IF over THEN PulseOver(haptic[d]) ELSE haptic[d]
       IN  /\ over => PulseEnds(haptic[d])
           /\ TimesOut(d, h) \/ Completes(d, h) \/ Starts(d, h)
                             \/ NothingToSend(d, h)
  /\ UNCHANGED reading

-----------------------------------------------------------------------------
UpdateEnds ==
  /\ turn = Reading
  /\ turn' = First
  /\ UNCHANGED <<radio, air, reading, vibration>>

\* The program ends or crashes and is started again; the disk stays, and the
\* controllers go on as they are.
Restart ==
  /\ Restarts
  /\ radio' = Ended(NoDevice, HeaderAt + 1)
  /\ hash' = NoCommand /\ block' = NoBlob /\ air' = NoCommand
  /\ calib' = [d \in Controllers |-> Nothing]
  /\ haptic' = [d \in Controllers |-> NoHaptics]
  /\ lost' = [d \in Controllers |-> motor[d] # Off]
  /\ turn' = First
  /\ UNCHANGED <<cache, motor>>

Next ==
  \/ UpdateEnds \/ Restart
  \/ \E d \in Controllers : GetCalibration(d) \/ CheckHaptics(d)
  \/ \E d \in Vibrating : SetHapticsOff(d) \/ \E tone \in Tones : SetHaptics(d, tone)

Spec == Init /\ [][Next]_vars

(***************************************************************************)
(* Fairness.  Updates keep coming (the update thread of OpenHMD runs), the *)
(* clock goes on, so that a vibration whose answer does not come times     *)
(* out, and both controllers stay in range: they keep sending messages,    *)
(* and now and then a read of their calibration gets all its answers.      *)
(***************************************************************************)
Calibrated(d) == GetCalibration(d) /\ calib'[d].have

Fairness ==
  /\ WF_vars(UpdateEnds)
  /\ \A d \in Controllers :
       /\ WF_vars(CheckHaptics(d))
       /\ SF_vars(CheckHaptics(d) /\ ~haptic'[d].busy)
       /\ SF_vars(Calibrated(d))

FairSpec == Spec /\ Fairness

-----------------------------------------------------------------------------
Commands ==
  {NoCommand} \cup {ReadCommand(d, i) : d \in Controllers, i \in HashAt .. Blocks}
              \cup {HapticsCommand(d, t) : d \in Controllers, t \in Tones}

Calibration == [have : BOOLEAN, blob : [Parts -> Commands]]

\* The types of the variables; the next block to read is never more than one
\* past the last, so the read buffer is never overrun.
TypeOK ==
  /\ radio \in [cmd : ReadCmds \cup {"none", "haptics"},
                dev : Controllers \cup {NoDevice},
                pending : BOOLEAN,
                offset : 1 .. Blocks + 1]
  /\ radio.cmd = "blocks" => radio.offset <= Blocks
  /\ hash \in Commands /\ air \in Commands
  /\ block \in [Parts -> Commands]
  /\ cache \in [Controllers -> Calibration]
  /\ calib \in [Controllers -> Calibration]
  /\ haptic \in [Controllers -> [on : BOOLEAN, tone : Tones, dirty : BOOLEAN,
                                 busy : BOOLEAN, ends : BOOLEAN]]
  /\ motor \in [Controllers -> Tones]
  /\ lost \in [Controllers -> BOOLEAN]
  /\ turn \in First .. Reading

\* An answer that is still awaited belongs to the command that the next call
\* of the owner goes on with, so that no call takes the answer to another
\* one's command (rift_radio_read_flash and rift_radio_write trust this: they
\* send nothing when command_result_pending).
AnswerIsOwn ==
  radio.pending =>
    \/ /\ radio.cmd \in ReadCmds
       /\ air = ReadCommand(radio.dev, NextPart)
    \/ /\ radio.cmd = "haptics"
       /\ \E t \in Tones : air = HapticsCommand(radio.dev, t)

\* A controller waits for the answer to a vibration exactly while the radio
\* is its own for that: the two flags, kept in rift.c and in
\* rift-hmd-radio.c, agree after every update step, whatever times out, fails
\* or is cancelled.
WaiterOwnsRadio ==
  \A d \in Controllers :
    haptic[d].busy <=> radio.cmd = "haptics" /\ radio.dev = d

\* A calibration in use, and a file of the cache, comes whole from the flash
\* of the controller it is for (or did not parse, or was left short), however
\* the reads of the two controllers are interrupted.
CalibrationIsOwn ==
  \A d \in Controllers :
    /\ calib[d].have => calib[d].blob \in {Flash(d), NoBlob}
    /\ cache[d].have => cache[d].blob \in {Flash(d), NoBlob}

\* The parts of a calibration read so far are those of the radio's owner, and
\* the hash under which it will be stored is its own.
BlocksOfOwner ==
  /\ radio.cmd = "blocks" =>
       \A i \in Parts : i < radio.offset => block[i] = ReadCommand(radio.dev, i)
  /\ radio.cmd \in {"header", "blocks"} => hash = ReadCommand(radio.dev, HashAt)

\* Once there is nothing left to send, a controller vibrates as wanted, unless
\* the last command to it failed.
MotorAsWanted ==
  \A d \in Controllers :
    LET h == haptic[d]
    IN  ~h.dirty /\ ~h.busy /\ ~lost[d] => motor[d] = Wanted(h)

\* A vibration that has been sent has an end, unless sending it failed.
PulseHasEnd ==
  \A d \in Controllers :
    LET h == haptic[d]
    IN  h.on /\ ~h.dirty /\ ~h.busy /\ ~lost[d] => h.ends

\* A vibration asked for is sent (or its end, if it is over by then): the
\* radio is never kept from a controller by the other one for ever.
RequestsSent == \A d \in Controllers : haptic[d].dirty ~> ~haptic[d].dirty

\* What the comment at the refusal says: "Another device is being read right
\* now" (rift_touch_get_calibration, rift_touch_send_haptics).
RefusedWhileReading == radio.cmd # "none" => radio.pending

\* What handle_touch_controller_message says: "We need calibration data to do
\* any more".
GoesOnCalibrated == \A d \in Controllers : calib[d].have => Parses(calib[d].blob)

\* What openhmd.h says of ohmd_device_set_haptics_off: "Immediately cancel and
\* turn off any haptics" - at the latest when nothing is left to be sent.
OffMeansOff ==
  \A d \in Controllers :
    LET h == haptic[d]
    IN  ~h.on /\ ~h.dirty /\ ~h.busy => motor[d] = Off

-----------------------------------------------------------------------------
\* A vibration has the radio only while its answer is awaited.
HapticsPending == radio.cmd = "haptics" => radio.pending

\* A command on the air whose answer a controller awaits, with nothing new to
\* be sent, is the one that is wanted.
SentAsWanted ==
  \A d \in Controllers :
    haptic[d].busy /\ ~haptic[d].dirty => air = HapticsCommand(d, Wanted(haptic[d]))

\* The radio is used by the call that owns it, and what is read by it is of the
\* controller that was asked.
ReadInv == AnswerIsOwn /\ HapticsPending /\ BlocksOfOwner /\ CalibrationIsOwn

\* Each controller waits for, vibrates with and stops what was asked of it.
HapticInv == WaiterOwnsRadio /\ MotorAsWanted /\ PulseHasEnd /\ SentAsWanted
=============================================================================
