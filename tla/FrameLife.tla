------------------------------ MODULE FrameLife ------------------------------
(***************************************************************************)
(* What the frame queues of a camera promise (rift-sensor.c), without the  *)
(* queues: a buffer only moves forward through the stages of the analysis, *)
(* each analysis thread works on one frame at a time, and the slow search  *)
(* never has a backlog.  Any number of buffers may move in one step.       *)
(***************************************************************************)
CONSTANT Buffers   \* the frame buffers of the camera

VARIABLE stage     \* where each buffer is

Stages == {"free", "queued", "fast", "pending", "long"}

\* The moves the protocol allows. A queued or a pending buffer may be taken
\* back for a newer frame; a frame being analysed may not.
Moves ==
  {<<"free", "queued">>, <<"queued", "fast">>, <<"fast", "free">>,
   <<"fast", "pending">>, <<"pending", "long">>, <<"pending", "free">>,
   <<"pending", "queued">>, <<"long", "free">>}

In(st, S) == {b \in Buffers : st[b] \in S}

\* One frame in fast analysis; one in or waiting for long analysis.
OneAtATime(st) ==
  /\ \A b, c \in In(st, {"fast"}) : b = c
  /\ \A b, c \in In(st, {"pending", "long"}) : b = c

Init == stage = [b \in Buffers |-> "free"]

Next ==
  /\ stage' \in [Buffers -> Stages]
  /\ \A b \in Buffers :
       stage'[b] = stage[b] \/ <<stage[b], stage'[b]>> \in Moves
  /\ OneAtATime(stage')

Spec == Init /\ [][Next]_stage
=============================================================================
