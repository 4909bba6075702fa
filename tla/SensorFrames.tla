---------------------------- MODULE SensorFrames ----------------------------
(***************************************************************************)
(* The frame pipeline of one camera (rift-sensor.c), with the pools it     *)
(* draws on: the video frames of the UVC stream (uvc.c), those of the JPEG *)
(* decoder (ohmd-jpeg.c) and the observations of the blob watcher          *)
(* (rift-sensor-blobwatch.c).                                              *)
(*                                                                         *)
(* The USB thread attaches each captured video frame to one of a few       *)
(* buffers and queues it.  The fast thread extracts blobs and looks for    *)
(* the devices near their predicted poses; a frame in which it misses one  *)
(* goes to the long thread for a full search, unless that is busy.  When   *)
(* no buffer is left, the newest frame still waiting is given up.  The     *)
(* main thread starts the stream and tears everything down.                *)
(*                                                                         *)
(* sensor_lock protects the queues; an action that touches them is one of  *)
(* its critical sections, from taking the lock to giving it up or waiting  *)
(* on a condition.  The other actions run without the lock.                *)
(***************************************************************************)
EXTENDS Integers, FiniteSets, Sequences

CONSTANTS
  Buffers,      \* the NUM_CAPTURE_BUFFERS frame buffers
  Obs,          \* the NUM_FRAMES_HISTORY observations of the blob watcher
  None,         \* neither
  MaxDecoded,   \* MAX_QUEUE_FRAMES, the frames of the JPEG decoder
  Jpeg          \* the stream carries JPEG, not grey pixels

NumBuffers == Cardinality(Buffers)
NumObs     == Cardinality(Obs)
NumVFrames == NumBuffers + 1   \* what rift_sensor_start asks the stream for

ASSUME PipelineConstants ==
  /\ IsFiniteSet(Buffers) /\ Buffers # {}
  /\ IsFiniteSet(Obs) /\ NumObs >= 3
  /\ None \notin Buffers \cup Obs
  /\ MaxDecoded \in Nat /\ MaxDecoded >= 2
  /\ Jpeg \in BOOLEAN

VARIABLES
  captureQ,  \* capture_frame_q: buffers free for the next frame
  fastQ,     \* fast_analysis_q
  longQ,     \* long_analysis_q
  longBusy,  \* long_analysis_busy
  shutdown,  \* shutdown
  buf,       \* vframe, bwobs and need_long_analysis of every buffer
  uvc,       \* the stream: n_free_frames, and is there a cur_frame?
  decoder,   \* the decoder: n_free_frames, n_alloced_frames
  obsQ,      \* observation_q of the blob watcher
  lastObs,   \* last_observation
  camera,    \* have_camera_pose, pose_saved_to_cache, was a save tried?
  fast,      \* fast analysis thread: where it is, its frame, had_camera_pose
  long,      \* long analysis thread, the same
  main,      \* progress of rift_sensor_new / _start / _free
  earlier    \* history, per buffer in use: those in use that were captured before

queues  == <<captureQ, fastQ, longQ, earlier>>
control == <<longBusy, shutdown, main>>
pools   == <<uvc, decoder, obsQ, lastObs>>
vars == <<captureQ, fastQ, longQ, longBusy, shutdown, buf, uvc, decoder,
          obsQ, lastObs, camera, fast, long, main, earlier>>

-----------------------------------------------------------------------------
EmptyBuf == [vframe |-> "none", obs |-> None, need |-> FALSE]

Thread(pc, b, had) == [pc |-> pc, frame |-> b, had |-> had]
Woken   == Thread("woken", None, FALSE)
Waiting == Thread("wait", None, FALSE)
Done    == Thread("done", None, FALSE)

\* ohmd_cond_signal: a waiting thread gets to run again.
Signalled(t) == IF t.pc = "wait" THEN Woken ELSE t

Oldest(q) == q[1]
Newest(q) == q[Len(q)]
Older(q)  == SubSeq(q, 1, Len(q) - 1)

\* All the elements of S in some order: names mean nothing.
Arrangements(S) ==
  {q \in [1 .. Cardinality(S) -> S] : \A x \in S : \E i \in DOMAIN q : q[i] = x}

Init ==
  /\ captureQ \in Arrangements(Buffers)
  /\ fastQ = <<>> /\ longQ = <<>>
  /\ longBusy = FALSE /\ shutdown = FALSE
  /\ buf = [b \in Buffers |-> EmptyBuf]
  /\ uvc = [free |-> 0, cur |-> FALSE]
  /\ decoder = [free |-> 0, alloced |-> 0]
  /\ obsQ \in Arrangements(Obs) /\ lastObs = None
  /\ \E have \in BOOLEAN :   \* load_sensor_pose_cache
       camera = [have |-> have, saved |-> have, tried |-> have]
  /\ fast = Woken /\ long = Woken
  /\ main = "new"
  /\ earlier = [b \in Buffers |-> {}]

-----------------------------------------------------------------------------
(***************************************************************************)
(* release_capture_frame, for the buffers of the sequence R in turn: the   *)
(* observation goes back to the blob watcher, the video frame to the pool  *)
(* it came from, the buffer to the capture queue.                          *)
(***************************************************************************)
InSeq(R) == {R[i] : i \in DOMAIN R}

HoldsObs(b) == buf[b].obs # None

\* The k-th number of a set.
Nth(S, k) == CHOOSE i \in S : Cardinality({j \in S : j <= i}) = k

ObsReturned(R) ==
  LET held == {i \in DOMAIN R : HoldsObs(R[i])}
  IN  [k \in 1 .. Cardinality(held) |-> buf[R[Nth(held, k)]].obs]

InUse == {b \in Buffers : buf[b].vframe # "none"}

NumHolding(R, kind) ==
  Cardinality({b \in InSeq(R) : buf[b].vframe = kind})

\* What is left of the order of capture.
EarlierWithout(R) ==
  [b \in Buffers |-> IF b \in InSeq(R) THEN {} ELSE earlier[b] \ InSeq(R)]

Cleared_ObsKept(R) ==
  [b \in Buffers |-> IF b \in InSeq(R) THEN [buf[b] EXCEPT !.vframe = "none"]
                                       ELSE buf[b]]

Cleared(R) ==
  [b \in Buffers |->
     IF b \in InSeq(R) THEN [buf[b] EXCEPT !.vframe = "none", !.obs = None]
                       ELSE buf[b]]

ReleasesPools(R) ==
  /\ obsQ' = obsQ \o ObsReturned(R)
  /\ uvc' = [uvc EXCEPT !.free = @ + NumHolding(R, "uvc")]
  /\ decoder' = [decoder EXCEPT !.free = @ + NumHolding(R, "jpeg")]

Releases(R) ==
  /\ captureQ' = captureQ \o R
  /\ buf' = Cleared(R)
  /\ earlier' = EarlierWithout(R)
  /\ ReleasesPools(R)

-----------------------------------------------------------------------------
(***************************************************************************)
(* The USB thread.                                                         *)
(***************************************************************************)

\* process_payload, a new frame starts: take a free video frame, unless the
\* last one was cut short and is still there. Without any the frame is skipped.
FrameStart ==
  /\ main = "running"
  /\ ~uvc.cur
  /\ uvc.free > 0
  /\ uvc' = [free |-> uvc.free - 1, cur |-> TRUE]
  /\ UNCHANGED <<queues, control, buf, decoder, obsQ, lastObs, camera, fast,
                 long>>

SignalsFast_Lost == UNCHANGED fast

SignalsFast == fast' = Signalled(fast)

\* The video frame is attached to buffer b, which joins the fast queue q, and
\* the fast thread is signalled. R is what was released to get b.
Attaches(b, R, q) ==
  /\ buf' = [Cleared(R) EXCEPT ![b].vframe = "uvc", ![b].obs = None]
  /\ fastQ' = Append(q, b)
  /\ earlier' = [EarlierWithout(R) EXCEPT ![b] = InUse \ {b}]
  /\ obsQ' = obsQ \o ObsReturned(R)
  /\ uvc' = [free |-> uvc.free + NumHolding(R, "uvc"), cur |-> FALSE]
  /\ decoder' = [decoder EXCEPT !.free = @ + NumHolding(R, "jpeg")]
  /\ SignalsFast

\* frame_captured_cb with a buffer on the capture queue.
Captured ==
  /\ captureQ # <<>>
  /\ captureQ' = Tail(captureQ)
  /\ Attaches(Oldest(captureQ), <<>>, fastQ)
  /\ UNCHANGED longQ

\* Without one, the newest frame waiting for fast analysis is given up ...
CapturedReclaimingFast ==
  /\ captureQ = <<>> /\ fastQ # <<>>
  /\ Attaches(Newest(fastQ), <<Newest(fastQ)>>, Older(fastQ))
  /\ UNCHANGED <<captureQ, longQ>>

\* ... or else the one waiting for long analysis ...
CapturedReclaimingLong ==
  /\ captureQ = <<>> /\ fastQ = <<>> /\ longQ # <<>>
  /\ longQ' = Older(longQ)
  /\ Attaches(Newest(longQ), <<Newest(longQ)>>, fastQ)
  /\ UNCHANGED captureQ

\* ... or else the new frame is.
CaptureDropped ==
  /\ captureQ = <<>> /\ fastQ = <<>> /\ longQ = <<>>
  /\ uvc' = [free |-> uvc.free + 1, cur |-> FALSE]
  /\ UNCHANGED <<queues, buf, decoder, obsQ, fast>>

FrameCapturedCb ==
  /\ main = "running"
  /\ uvc.cur
  /\ \/ Captured
     \/ CapturedReclaimingFast
     \/ CapturedReclaimingLong
     \/ CaptureDropped
  /\ UNCHANGED <<control, lastObs, camera, long>>

-----------------------------------------------------------------------------
(***************************************************************************)
(* The fast analysis thread.                                               *)
(***************************************************************************)

\* With the lock held and no frame in hand: stop, take the next frame, or wait.
FastNext ==
  IF shutdown THEN Done
  ELSE IF fastQ = <<>> THEN Waiting
  ELSE Thread("decode", Oldest(fastQ), FALSE)

FastFetches ==
  /\ fast' = FastNext
  /\ fastQ' = IF FastNext.frame = None THEN fastQ ELSE Tail(fastQ)

FastResume ==
  /\ fast.pc = "woken"
  /\ FastFetches
  /\ UNCHANGED <<captureQ, longQ, earlier, control, buf, pools, camera, long>>

\* init_frame_analyse clears what the last use of the buffer asked for.
StartsUnmarked(b) == [buf[b] EXCEPT !.need = FALSE]

\* decode_frame: grey pixels need no decoding.
FastStartGrey ==
  /\ fast.pc = "decode" /\ ~Jpeg
  /\ buf' = [buf EXCEPT ![fast.frame] = StartsUnmarked(fast.frame)]
  /\ fast' = Thread("blobs", fast.frame, camera.have)
  /\ UNCHANGED <<queues, control, pools, camera, long>>

\* get_output_frame: a free frame of the decoder, or a new one.
DecoderLent ==
  IF decoder.free > 0 THEN [decoder EXCEPT !.free = @ - 1]
                      ELSE [decoder EXCEPT !.alloced = @ + 1]

\* A decoded frame replaces the video frame, which goes back to the stream.
FastDecoded ==
  /\ fast.pc = "decode" /\ Jpeg
  /\ decoder' = DecoderLent
  /\ uvc' = [uvc EXCEPT !.free = @ + 1]
  /\ buf' = [buf EXCEPT ![fast.frame] =
               [StartsUnmarked(fast.frame) EXCEPT !.vframe = "jpeg"]]
  /\ fast' = Thread("blobs", fast.frame, camera.have)
  /\ UNCHANGED <<queues, control, obsQ, lastObs, camera, long>>

\* A corrupt frame is not analysed, whether the decoder gives up before or
\* after it took an output frame, which it gives back.
FastDecodeFailed ==
  /\ fast.pc = "decode" /\ Jpeg
  /\ \/ decoder' = decoder
     \/ decoder' = [DecoderLent EXCEPT !.free = @ + 1]
  /\ buf' = [buf EXCEPT ![fast.frame] = StartsUnmarked(fast.frame)]
  /\ fast' = [fast EXCEPT !.pc = "route"]
  /\ UNCHANGED <<queues, control, uvc, obsQ, lastObs, camera, long>>

\* blobwatch_process: the oldest free observation is filled from the frame and
\* compared with the last one, whose place it takes.
FastBlobs ==
  /\ fast.pc = "blobs"
  /\ obsQ # <<>>
  /\ buf' = [buf EXCEPT ![fast.frame].obs = Oldest(obsQ)]
  /\ obsQ' = Tail(obsQ)
  /\ lastObs' = Oldest(obsQ)
  /\ fast' = [fast EXCEPT !.pc = "search"]
  /\ UNCHANGED <<queues, control, uvc, decoder, camera, long>>

\* rift_pose_finder_process_blobs_fast, or nothing when there are no blobs:
\* without a camera pose the frame needs a long search, with one it may.
FastSearch ==
  /\ fast.pc = "search"
  /\ \E blobs, missed \in BOOLEAN :
       buf' = [buf EXCEPT ![fast.frame].need =
                 @ \/ (blobs /\ (missed \/ ~camera.have))]
  /\ fast' = [fast EXCEPT !.pc = "save"]
  /\ UNCHANGED <<queues, control, pools, camera, long>>

\* save_sensor_pose_cache: the write may fail.
SavesPose(t) ==
  IF ~t.had /\ camera.have /\ ~camera.saved
  THEN \E ok \in BOOLEAN :
         camera' = [camera EXCEPT !.saved = ok, !.tried = TRUE]
  ELSE UNCHANGED camera

FastSave ==
  /\ fast.pc = "save"
  /\ SavesPose(fast)
  /\ fast' = [fast EXCEPT !.pc = "route"]
  /\ UNCHANGED <<queues, control, buf, pools, long>>

WantsLong_EvenIfBusy(b) == buf[b].need

WantsLong(b) == buf[b].need /\ ~longBusy

\* The frame replaces the one waiting for long analysis, if any.
FastQueuesLong ==
  /\ fast.pc = "route"
  /\ WantsLong(fast.frame)
  /\ LET stolen == IF longQ = <<>> THEN <<>> ELSE <<Newest(longQ)>>
         kept   == IF longQ = <<>> THEN <<>> ELSE Older(longQ)
     IN  /\ longQ' = Append(kept, fast.frame)
         /\ Releases(stolen)
  /\ FastFetches
  /\ long' = Signalled(long)
  /\ UNCHANGED <<control, lastObs, camera>>

\* No long analysis is needed, or the long thread is busy.
FastReleases ==
  /\ fast.pc = "route"
  /\ ~WantsLong(fast.frame)
  /\ Releases(<<fast.frame>>)
  /\ FastFetches
  /\ UNCHANGED <<longQ, control, lastObs, camera, long>>

FastThread ==
  \/ FastResume
  \/ FastStartGrey
  \/ FastDecoded
  \/ FastDecodeFailed
  \/ FastBlobs
  \/ FastSearch
  \/ FastSave
  \/ FastQueuesLong
  \/ FastReleases

-----------------------------------------------------------------------------
(***************************************************************************)
(* The long analysis thread.                                               *)
(***************************************************************************)

\* get_latest_long_analysis_frame after the frames of R were released: all but
\* the newest waiting frame are given back, and that one is taken.
LongFetches(R) ==
  IF shutdown \/ longQ = <<>>
  THEN /\ long' = IF shutdown THEN Done ELSE Waiting
       /\ longBusy' = FALSE
       /\ UNCHANGED longQ
       /\ Releases(R)
  ELSE /\ long' = Thread("search", Newest(longQ), camera.have)
       /\ longBusy' = TRUE
       /\ longQ' = <<>>
       /\ Releases(R \o Older(longQ))

LongResume ==
  /\ long.pc = "woken"
  /\ LongFetches(<<>>)
  /\ UNCHANGED <<fastQ, lastObs, shutdown, main, camera, fast>>

LongSearch_LateSnapshot ==
  /\ long.pc = "search"
  /\ \E have \in {camera.have, TRUE} :
       /\ camera' = [camera EXCEPT !.have = have]
       /\ long' = Thread("save", long.frame, have)
  /\ UNCHANGED <<queues, control, buf, pools, fast>>

\* rift_pose_finder_process_blobs_long: a search without a camera pose may find
\* the HMD and with it the camera pose.
LongSearch ==
  /\ long.pc = "search"
  /\ \E have \in {camera.have, TRUE} :
       camera' = [camera EXCEPT !.have = have]
  /\ long' = [long EXCEPT !.pc = "save"]
  /\ UNCHANGED <<queues, control, buf, pools, fast>>

LongSave ==
  /\ long.pc = "save"
  /\ SavesPose(long)
  /\ long' = [long EXCEPT !.pc = "finish"]
  /\ UNCHANGED <<queues, control, buf, pools, fast>>

LongFinish ==
  /\ long.pc = "finish"
  /\ LongFetches(<<long.frame>>)
  /\ UNCHANGED <<fastQ, lastObs, shutdown, main, camera, fast>>

LongThread == LongResume \/ LongSearch \/ LongSave \/ LongFinish

\* A wait on a condition may end without a signal.
SpuriousWakeup ==
  /\ \/ fast.pc = "wait" /\ fast' = Woken /\ UNCHANGED long
     \/ long.pc = "wait" /\ long' = Woken /\ UNCHANGED fast
  /\ UNCHANGED <<queues, control, buf, pools, camera>>

-----------------------------------------------------------------------------
(***************************************************************************)
(* The main thread.                                                        *)
(***************************************************************************)
MainMoves(from, to) == main = from /\ main' = to

\* rift_sensor_start: the stream gets its video frames.
Start ==
  /\ MainMoves("new", "running")
  /\ uvc' = [free |-> NumVFrames, cur |-> FALSE]
  /\ UNCHANGED <<queues, longBusy, shutdown, buf, decoder, obsQ, lastObs,
                 camera, fast, long>>

\* rift_sensor_free: the stream stops and frees its video frames ...
StopVideo ==
  /\ MainMoves("running", "stopped")
  /\ UNCHANGED <<queues, longBusy, shutdown, buf, pools, camera, fast, long>>

WakesAll_FastOnly == fast' = Signalled(fast) /\ UNCHANGED long

WakesAll == fast' = Signalled(fast) /\ long' = Signalled(long)

\* ... then the analysis threads are told to end ...
Shutdown ==
  /\ MainMoves("stopped", "joining")
  /\ shutdown' = TRUE
  /\ WakesAll
  /\ UNCHANGED <<queues, longBusy, buf, pools, camera>>

\* ... and are waited for before the rest is freed.
Join ==
  /\ MainMoves("joining", "freed")
  /\ fast.pc = "done" /\ long.pc = "done"
  /\ UNCHANGED <<queues, longBusy, shutdown, buf, pools, camera, fast, long>>

-----------------------------------------------------------------------------
UsbThread == FrameStart \/ FrameCapturedCb
TearDown  == Shutdown \/ Join

Next ==
  \/ FrameStart
  \/ FrameCapturedCb
  \/ FastThread
  \/ LongThread
  \/ SpuriousWakeup
  \/ Start
  \/ StopVideo
  \/ Shutdown
  \/ Join

\* The analysis threads run whenever they can, and a teardown goes on once it
\* began; cameras and applications do as they like.
Fairness == WF_vars(FastThread) /\ WF_vars(LongThread) /\ WF_vars(TearDown)

Spec     == Init /\ [][Next]_vars
FairSpec == Spec /\ Fairness

-----------------------------------------------------------------------------
(***************************************************************************)
(* Properties.                                                             *)
(***************************************************************************)
ThreadState(pcs) ==
  [pc : pcs, frame : Buffers \cup {None}, had : BOOLEAN]

TypeOK ==
  /\ captureQ \in Seq(Buffers) /\ fastQ \in Seq(Buffers)
  /\ longQ \in Seq(Buffers) /\ earlier \in [Buffers -> SUBSET Buffers]
  /\ longBusy \in BOOLEAN /\ shutdown \in BOOLEAN
  /\ buf \in [Buffers -> [vframe : {"none", "uvc", "jpeg"},
                         obs : Obs \cup {None}, need : BOOLEAN]]
  /\ uvc \in [free : 0 .. NumVFrames, cur : BOOLEAN]
  /\ decoder \in [free : 0 .. MaxDecoded, alloced : 0 .. MaxDecoded]
  /\ obsQ \in Seq(Obs) /\ lastObs \in Obs \cup {None}
  /\ camera \in [have : BOOLEAN, saved : BOOLEAN, tried : BOOLEAN]
  /\ fast \in ThreadState({"woken", "wait", "decode", "blobs", "search",
                           "save", "route", "done"})
  /\ long \in ThreadState({"woken", "wait", "search", "save", "finish",
                           "done"})
  /\ main \in {"new", "running", "stopped", "joining", "freed"}

InHand(t) == IF t.frame = None THEN <<>> ELSE <<t.frame>>

\* The buffers in use, from the one that got furthest to the newest.
Pipeline == InHand(long) \o longQ \o InHand(fast) \o fastQ

\* Frames move through the pipeline in the order they were captured, whatever
\* is stolen, skipped or reclaimed on the way, and every buffer is in it or on
\* the capture queue, once.
PipelineInOrder ==
  /\ \A i, j \in DOMAIN Pipeline : Pipeline[i] \in earlier[Pipeline[j]] <=> i < j
  /\ Len(Pipeline) + Len(captureQ) = NumBuffers
  /\ InSeq(Pipeline) \cup InSeq(captureQ) = Buffers

NumWith(kind) == Cardinality({b \in Buffers : buf[b].vframe = kind})

\* No video frame is lost or returned twice: each is free, being filled, or
\* attached to one buffer in use; and the decoder's limit on its own frames,
\* which get_output_frame asserts, is never met.
VideoFramesConserved ==
  /\ main # "new" => uvc.free + NumWith("uvc") + (IF uvc.cur THEN 1 ELSE 0)
                       = NumVFrames
  /\ decoder.free + NumWith("jpeg") = decoder.alloced
  /\ decoder.free = 0 /\ fast.pc = "decode" /\ Jpeg
       => decoder.alloced < MaxDecoded
  /\ \A b \in Buffers : buf[b].vframe = "none" <=> b \in InSeq(captureQ)

\* An observation is either on the blob watcher's queue or held by one buffer,
\* which is past the extraction of its blobs.
ObservationsConserved ==
  /\ Len(obsQ) + Cardinality({b \in Buffers : HoldsObs(b)}) = NumObs
  /\ InSeq(obsQ) \cup {buf[b].obs : b \in {c \in Buffers : HoldsObs(c)}} = Obs
  /\ \A b \in InSeq(captureQ) \cup InSeq(fastQ) : ~HoldsObs(b)

\* The extraction has "still 2 left to ping-pong between"
\* (rift-sensor-blobwatch.c:24) however the analysis threads hold on to theirs:
\* it never runs dry and never overwrites the observation it compares with.
PingPong ==
  fast.pc = "blobs" => Len(obsQ) >= 2 /\ Oldest(obsQ) # lastObs

\* A frame the long thread gets was marked by this pass of the fast thread, so
\* it has the observation the search reads.
LongHasBlobs ==
  \A b \in InSeq(longQ \o InHand(long)) : buf[b].need /\ HoldsObs(b)

\* Only two buffers are ever kept from the camera by the analysis threads: with
\* four, a captured frame finds one free or waiting, and none is dropped.
SpareBuffers == Len(captureQ) + Len(fastQ) >= NumBuffers - 2

\* The camera pose is written to the cache, or a write was tried, once the
\* search that learned it ended, although both threads test the flags unlocked.
LearnedPoseSaved ==
  camera.have /\ long.pc # "save" => camera.tried

IsOldest(b) == b \in InUse /\ earlier[b] = {}

\* While the stream runs, the oldest frame in use is always given back in the
\* end, and so is each in its turn: no signal is lost, no thread sits on a frame
\* and the long thread is not passed over for ever.
OldestReturns ==
  \A b \in Buffers : IsOldest(b) ~> (~IsOldest(b) \/ main # "running")

\* Once video is stopped, rift_sensor_free returns: both threads notice.
TearDownEnds == main = "stopped" ~> main = "freed"

-----------------------------------------------------------------------------
(***************************************************************************)
(* The pipeline implements FrameLife.                                      *)
(***************************************************************************)
StageOf(b) ==
  IF b \in InSeq(InHand(long)) THEN "long"
  ELSE IF b \in InSeq(longQ) THEN "pending"
  ELSE IF b \in InSeq(InHand(fast)) THEN "fast"
  ELSE IF b \in InSeq(fastQ) THEN "queued"
  ELSE "free"

Life == INSTANCE FrameLife WITH stage <- [b \in Buffers |-> StageOf(b)]

ImplementsLife == Life!Spec

\* A thread only works on video frames of a stream that is alive: the stream
\* asserts of each frame it gets back "frame->owner == stream" (uvc.c:616), and
\* rift_sensor_free stops the stream, which frees them, before the threads.
AnalysedFramesLive ==
  \A b \in InSeq(InHand(fast) \o InHand(long)) :
    buf[b].vframe = "uvc" => main = "running"

-----------------------------------------------------------------------------
\* Nothing the pipeline uses is lost, used twice or out of its order.
FramesConserved ==
  /\ TypeOK
  /\ PipelineInOrder /\ VideoFramesConserved /\ ObservationsConserved /\ SpareBuffers

\* What one thread leaves to the other is there, and is taken up.
HandedOver == PingPong /\ LongHasBlobs /\ LearnedPoseSaved
=============================================================================
