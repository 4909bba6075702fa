-------------------------------- MODULE MCTime --------------------------------
(***************************************************************************)
(* The times that the tracker works with: those of the exposures, by which *)
(* its slots are found (DelaySlots), and those of the IMU samples          *)
(* (SampleClocks), with clocks that wrap after 32 samples and numbers that *)
(* wrap after 8.  A behaviour is one of either.                            *)
(***************************************************************************)
EXTENDS DelaySlots, TLC

CONSTANTS Wrap, SeqWrap, Starts, MaxGap, MaxTime

VARIABLES subject, driver, phase, now, last, known, seq, ready, latest,
          packet, decoded, handled, mistaken, lost

EveryDriver ==
  {"rift", "rift_dk1", "touch", "rift_s", "rift_s_controller", "vive", "psvr", "wmr", "deepoon",
   "vrtek"}

C == INSTANCE SampleClocks WITH Drivers <- EveryDriver

ASSUME ClocksFit == C!ClocksAssumption

clockVars == <<driver, phase, now, last, known, seq, ready, latest, packet, decoded, handled,
               mistaken, lost>>

OfSlots(step) == subject = "exposures" /\ step /\ UNCHANGED <<subject, clockVars>>
OfClocks(step) == subject = "samples" /\ step /\ UNCHANGED <<subject, vars>>

\* Which driver there is does not matter to the slots.
TimeInit ==
  /\ subject \in {"exposures", "samples"} /\ Init /\ C!Init
  /\ subject = "exposures" =>
       driver = "rift" /\ phase = [stamp |-> CHOOSE s \in Starts : TRUE, number |-> 0]

TimeSpec ==
  TimeInit /\ [][OfSlots(Next) \/ OfClocks(C!Next)]_<<subject, vars, clockVars>>

\* Every sample of a packet that can be decoded is fused once, with its time;
\* one that cannot be decoded brings nothing new (SampleClocks).
SamplesExact == C!SamplesExact

\* Cameras and analysis frames are interchangeable.
Symmetry == Permutations(Sensors) \cup Permutations(Buffers)
=============================================================================
