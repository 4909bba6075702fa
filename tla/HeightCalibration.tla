--------------------------- MODULE HeightCalibration ---------------------------
(***************************************************************************)
(* Measuring the height of the worn headset: the script                    *)
(* calibrate-cv1-sensors.sh asks by a request file, the SteamVR driver     *)
(* (driver_openhmd.cpp: CaptureHeightCalibration) answers by a result      *)
(* file.  The two run at the same time, either may be ended at any moment, *)
(* and the wearer may move.                                                *)
(*                                                                         *)
(* Time passes in seconds.  In each the driver looks once, with the        *)
(* heights of all the samples since it last looked, and the script at most *)
(* once; writing the result takes the driver no time that counts.  Heights *)
(* are those that differ by more than the 3 cm the driver tolerates.       *)
(***************************************************************************)
EXTENDS Integers, FiniteSets

CONSTANTS
  Heights,      \* raw heights of the headset, in any unit
  Standing,     \* SteamVR's standing translation
  Target,       \* the eye height that is to come out
  Plausible,    \* the offsets that are not refused
  Window,       \* seconds of samples for a result (2)
  Prepare,      \* seconds before the request (5)
  Patience,     \* seconds the script waits for a result (20)
  MaxRuns,      \* bound: runs of the script
  MaxCrashes    \* bound: ends of the driver

ASSUME CalibrationAssumption ==
  /\ Heights \subseteq Int /\ Plausible \subseteq Int
  /\ Standing \in Int /\ Target \in Int
  /\ Window \in Nat \ {0} /\ Prepare \in Nat /\ Patience \in Nat
  /\ MaxRuns \in Nat /\ MaxCrashes \in Nat

VARIABLES
  request,      \* the request file exists
  result,       \* the result file, or NoFile
  temporary,    \* the driver's temporary file
  setting,      \* poseOffsetY in steamvr.vrsettings
  driver,       \* the driver: its place, seconds and heights sampled, how long the
                \* headset had been still, the run whose request it took up, and
                \* the offset it has loaded
  script,       \* the script: its place, its clock, what it has read, and if the
                \* driver was still measuring when this run began
  head,         \* where the headset is, where it was since the driver last
                \* looked, and the seconds it has been still
  due,          \* who has not looked yet in this second
  bounds,       \* runs of the script and ends of the driver so far
  disturbed     \* since the last request the wearer moved, the driver was not
                \* running or a file could not be written

files == <<request, result, temporary, setting>>
heightVars == <<files, driver, script, head, due, bounds, disturbed>>

\* A file that the driver writes is to the request of some run, and published
\* in that run or in a later one.
NoFile == [height |-> 0, whole |-> FALSE, run |-> 0, published |-> 0, still |-> 0]
File(h, whole) ==
  [height |-> h, whole |-> whole, run |-> driver.run, published |-> 0, still |-> driver.still]

Stopped == [at |-> "stopped", seconds |-> 0, seen |-> {}, still |-> 0, run |-> 0, offset |-> 0]
Off == [at |-> "off", clock |-> 0, read |-> NoFile, late |-> FALSE]

\* m_heightCalibrationActive, which stays when the request goes.
Active == driver.at \in {"sampling", "measured", "opened", "written"}

HeightInit ==
  /\ request = FALSE /\ result = NoFile /\ temporary = NoFile
  /\ setting = 0
  /\ driver = Stopped
  /\ script = Off
  /\ \E h \in Heights : head = [at |-> h, been |-> {h}, still |-> 0]
  /\ due = {}
  /\ bounds = [runs |-> 0, crashes |-> 0]
  /\ disturbed = TRUE

-----------------------------------------------------------------------------
(* The world: seconds pass once everybody has looked; the wearer moves.    *)

Tick ==
  /\ due = {} /\ driver.at \in {"stopped", "idle", "sampling"}
  /\ due' = {"driver", "script"} \ ((IF driver.at = "stopped" THEN {"driver"} ELSE {})
                                    \cup (IF script.at = "off" THEN {"script"} ELSE {}))
  /\ head' = [head EXCEPT !.still = IF @ < Window THEN @ + 1 ELSE @]
  /\ UNCHANGED <<files, driver, script, bounds, disturbed>>

Move(h) ==
  /\ h # head.at
  /\ head' = [at |-> h, been |-> head.been \cup {h}, still |-> 0]
  /\ disturbed' = TRUE
  /\ UNCHANGED <<files, driver, script, due, bounds>>

-----------------------------------------------------------------------------
(* The driver.                                                             *)

\* LoadPoseOffsets, at the start of the driver.
DriverStarts ==
  /\ driver.at = "stopped"
  /\ driver' = [Stopped EXCEPT !.at = "idle", !.offset = setting]
  /\ UNCHANGED <<files, script, head, due, bounds, disturbed>>

DriverEnds ==
  /\ driver.at # "stopped" /\ bounds.crashes < MaxCrashes
  /\ driver' = Stopped
  /\ due' = due \ {"driver"}
  /\ bounds' = [bounds EXCEPT !.crashes = @ + 1]
  /\ disturbed' = TRUE
  /\ UNCHANGED <<files, script, head>>

\* ResetHeightCalibrationSamples.
ResetSamples == [driver EXCEPT !.at = "sampling", !.seconds = 0, !.seen = {}]

Looks == due' = due \ {"driver"} /\ head' = [head EXCEPT !.been = {head.at}]

\* Without a request there is nothing to do; with one the driver begins, with
\* the sample it has at hand.
DriverPolls ==
  /\ driver.at = "idle" /\ "driver" \in due
  /\ driver' = IF request THEN [ResetSamples EXCEPT !.seen = {head.at}, !.run = bounds.runs]
               ELSE driver
  /\ Looks
  /\ UNCHANGED <<files, script, bounds, disturbed>>

\* The range of the samples is within 3 cm.
Still(seen) == Cardinality(seen) = 1

Sampled == [driver EXCEPT !.seconds = @ + 1, !.seen = @ \cup head.been]

DriverSamples ==
  /\ driver.at = "sampling" /\ "driver" \in due
  /\ driver' = IF Sampled.seconds < Window THEN Sampled
               ELSE IF Still(Sampled.seen) THEN [Sampled EXCEPT !.at = "measured", !.still = head.still]
               ELSE ResetSamples
  /\ Looks
  /\ UNCHANGED <<files, script, bounds, disturbed>>

Average == CHOOSE h \in driver.seen : TRUE

DriverOpens ==
  /\ driver.at = "measured"
  /\ temporary' = File(Average, FALSE)
  /\ driver' = [driver EXCEPT !.at = "opened"]
  /\ UNCHANGED <<request, result, setting, script, head, due, bounds, disturbed>>

DriverWrites ==
  /\ driver.at = "opened"
  /\ temporary' = File(Average, TRUE)
  /\ driver' = [driver EXCEPT !.at = "written"]
  /\ UNCHANGED <<request, result, setting, script, head, due, bounds, disturbed>>

\* mutant: the request stays.
DriverRemoves_Nothing ==
  /\ driver.at = "published"
  /\ driver' = [driver EXCEPT !.at = "idle"]
  /\ UNCHANGED <<files, script, head, due, bounds, disturbed>>

DriverRenames ==
  /\ driver.at = "written"
  /\ result' = [temporary EXCEPT !.published = bounds.runs] /\ temporary' = NoFile
  /\ driver' = [driver EXCEPT !.at = "published"]
  /\ UNCHANGED <<request, setting, script, head, due, bounds, disturbed>>

DriverRemoves ==
  /\ driver.at = "published"
  /\ request' = FALSE
  /\ driver' = [driver EXCEPT !.at = "idle"]
  /\ UNCHANGED <<result, temporary, setting, script, head, due, bounds, disturbed>>

\* The temporary file cannot be opened, or not be renamed: it samples again.
DriverFails ==
  /\ driver.at \in {"measured", "written"} /\ bounds.crashes < MaxCrashes
  /\ temporary' = IF driver.at = "written" THEN NoFile ELSE temporary
  /\ driver' = ResetSamples
  /\ bounds' = [bounds EXCEPT !.crashes = @ + 1]
  /\ disturbed' = TRUE
  /\ UNCHANGED <<request, result, setting, script, head, due>>

Driver ==
  \/ DriverPolls \/ DriverSamples
  \/ DriverOpens \/ DriverWrites \/ DriverRenames \/ DriverRemoves

-----------------------------------------------------------------------------
(* calibrate_height                                                        *)

\* mutant: an old result stays.
ScriptStarts_KeepsResult ==
  /\ script.at = "off" /\ bounds.runs < MaxRuns
  /\ request' = FALSE
  /\ script' = [Off EXCEPT !.at = "prepare", !.late = Active]
  /\ bounds' = [bounds EXCEPT !.runs = @ + 1]
  /\ UNCHANGED <<result, temporary, setting, driver, head, due, disturbed>>

ScriptStarts ==
  /\ script.at = "off" /\ bounds.runs < MaxRuns
  /\ request' = FALSE /\ result' = NoFile
  /\ script' = [Off EXCEPT !.at = "prepare", !.late = Active]
  /\ bounds' = [bounds EXCEPT !.runs = @ + 1]
  /\ UNCHANGED <<temporary, setting, driver, head, due, disturbed>>

ScriptPrepares ==
  /\ script.at = "prepare" /\ "script" \in due
  /\ due' = due \ {"script"}
  /\ IF script.clock < Prepare
     THEN /\ script' = [script EXCEPT !.clock = @ + 1]
          /\ UNCHANGED <<request, disturbed>>
     ELSE /\ request' = TRUE
          /\ script' = [script EXCEPT !.at = "wait", !.clock = 0]
          /\ disturbed' = (driver.at = "stopped")
  /\ UNCHANGED <<result, temporary, setting, driver, head, bounds>>

\* No result yet: wait a second, and give up in the end.
ScriptWaits ==
  /\ script.at = "wait" /\ "script" \in due
  /\ result = NoFile
  /\ due' = due \ {"script"}
  /\ IF script.clock < Patience
     THEN script' = [script EXCEPT !.clock = @ + 1] /\ UNCHANGED request
     ELSE script' = Off /\ request' = FALSE
  /\ UNCHANGED <<result, temporary, setting, driver, head, bounds, disturbed>>

ScriptReads ==
  /\ script.at = "wait" /\ "script" \in due
  /\ result # NoFile
  /\ script' = [script EXCEPT !.at = "read", !.read = result]
  /\ UNCHANGED <<files, driver, head, due, bounds, disturbed>>

NewOffset(h) == Target - h - Standing

\* An offset that is not plausible is refused; set-pose-offset.sh saves any
\* other.  A result that is not a number is refused, too.
ScriptSets ==
  /\ script.at = "read"
  /\ LET ok == script.read.whole /\ NewOffset(script.read.height) \in Plausible
     IN  /\ setting' = IF ok THEN NewOffset(script.read.height) ELSE setting
         /\ script' = IF ok THEN [script EXCEPT !.at = "set"] ELSE Off
         /\ due' = IF ok THEN due ELSE due \ {"script"}
  /\ UNCHANGED <<request, result, temporary, driver, head, bounds, disturbed>>

ScriptRemoves ==
  /\ script.at = "set"
  /\ result' = NoFile
  /\ script' = Off
  /\ due' = due \ {"script"}
  /\ UNCHANGED <<request, temporary, setting, driver, head, bounds, disturbed>>

\* The user interrupts it.
ScriptEnds ==
  /\ script.at # "off"
  /\ script' = Off
  /\ due' = due \ {"script"}
  /\ UNCHANGED <<files, driver, head, bounds, disturbed>>

Script == ScriptPrepares \/ ScriptWaits \/ ScriptReads \/ ScriptSets \/ ScriptRemoves

-----------------------------------------------------------------------------
HeightNext ==
  \/ Tick \/ \E h \in Heights : Move(h)
  \/ DriverStarts \/ DriverEnds \/ DriverFails \/ Driver
  \/ ScriptStarts \/ ScriptEnds \/ Script

HeightSpec == HeightInit /\ [][HeightNext]_heightVars

\* Time passes, and the driver and the script run while they run.
HeightFairSpec == HeightSpec /\ WF_heightVars(Tick) /\ WF_heightVars(Driver) /\ WF_heightVars(Script)

-----------------------------------------------------------------------------
FileTypes ==
  [height : Heights \cup {0}, whole : BOOLEAN, run : 0 .. MaxRuns, published : 0 .. MaxRuns,
   still : 0 .. Window]

HeightTypeOK ==
  /\ request \in BOOLEAN
  /\ result \in FileTypes /\ temporary \in FileTypes
  /\ setting \in Plausible \cup {0}
  /\ driver \in [at : {"stopped", "idle", "sampling", "measured", "opened", "written",
                       "published"},
                 seconds : 0 .. Window, seen : SUBSET Heights, still : 0 .. Window,
                 run : 0 .. MaxRuns, offset : Plausible \cup {0}]
  /\ script \in [at : {"off", "prepare", "wait", "read", "set"},
                 clock : 0 .. Prepare + Patience, read : FileTypes, late : BOOLEAN]
  /\ head \in [at : Heights, been : SUBSET Heights, still : 0 .. Window]
  /\ due \subseteq {"driver", "script"}
  /\ bounds \in [runs : 0 .. MaxRuns, crashes : 0 .. MaxCrashes]
  /\ disturbed \in BOOLEAN

\* Wherever the driver is ended, the result file holds a whole measurement,
\* of a headset that was still for the whole of the window, or is not there.
ResultWholeAndStill ==
  result # NoFile => result.whole /\ result.still >= Window

\* What the script reads was published after it began, never by an earlier run
\* that was interrupted or gave up; and it is the answer to its own request,
\* unless the driver was still measuring for an earlier one when it began: that
\* measurement goes on and answers both.
ReadsOwnResult ==
  script.at \in {"read", "set"} =>
    /\ script.read.published = bounds.runs
    /\ script.read.run = bounds.runs \/ script.late

\* The script does not wait in vain: if since its request the wearer stood
\* still and nothing failed, the answer is there after two windows - one that
\* may have been disturbed before the request, and a whole one - and so before
\* its patience ends.
AnsweredInTime ==
  script.at = "wait" /\ ~disturbed /\ script.clock > 2 * Window => result # NoFile

\* Measured once or several times, before or after a restart of SteamVR with
\* the new offset: a wearer at the height that was measured has the eyes at
\* the target.
EyesAtTarget ==
  script.at = "set" => script.read.height + setting + Standing = Target

\* The script ends, whatever the driver does.
ScriptReturns == script.at # "off" ~> script.at = "off"

\* A request is taken back or answered and removed in the end; only an end of
\* the script or of the driver at the wrong moment leaves it for the next.
RequestGoes == request ~> (~request \/ driver.at = "stopped" \/ disturbed)

-----------------------------------------------------------------------------
\* The answer is in time, whole, of this run, and sets the eyes right.
AnswerRight ==
  HeightTypeOK /\ ResultWholeAndStill /\ ReadsOwnResult /\ AnsweredInTime /\ EyesAtTarget

\* Neither side waits for ever for the other.
BothReturn == ScriptReturns /\ RequestGoes
=============================================================================
