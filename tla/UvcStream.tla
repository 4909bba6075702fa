------------------------------ MODULE UvcStream ------------------------------
(***************************************************************************)
(* The video stream of one camera (sensor/uvc.c): USB transfers that their *)
(* callback submits again, the frames assembled from their packets, and    *)
(* the start and stop of the stream by another thread.                     *)
(*                                                                         *)
(* The callbacks run in the USB thread of the tracker (uvc_handle_events), *)
(* one at a time, while the starting or stopping thread goes on.  A        *)
(* transfer carries one packet here, a frame a fixed number of packets.    *)
(***************************************************************************)
EXTENDS Integers, FiniteSets, SequencesExt

CONSTANTS
  Transfers,    \* the transfers are 1 .. Transfers
  Parts,        \* packets of a frame; together they have stream->frame_size
  Frames,       \* min_frames, the video frames of the stream
  MaxTries      \* attempts to submit a transfer again (5)

ASSUME StreamAssumption ==
  /\ Transfers \in Nat \ {0} /\ Parts \in Nat \ {0}
  /\ Frames \in Nat \ {0} /\ MaxTries \in Nat \ {0}

VARIABLES
  format,       \* stream->format, "grey" or, if the last packet of a frame shows
                \* that it is, "marked"
  transfer,     \* where each transfer is: with us, under way, ended or in its
                \* callback
  active,       \* stream->active_transfers
  running,      \* stream->video_running
  main,         \* the thread that starts and stops the stream: its place and
                \* the transfer it submits next
  callback,     \* the USB thread: its place, transfer and failed attempts
  waiters,      \* libusb's event waiters lock
  uncounted,    \* transfers that ended before start had counted them
  camera,       \* the next packet of the camera, and the packets of its
                \* frame that have arrived
  assembly,     \* stream->frame_id, cur_frame, skip_frame and frame_collected,
                \* which is what has been copied to the frame
  free,         \* stream->n_free_frames
  delivered     \* what frame_cb was given for the last packet, if it was called

usbVars == <<transfer, active, uncounted>>
frameVars == <<camera, assembly, free, delivered>>
vars == <<format, usbVars, running, main, callback, waiters, frameVars>>

Numbers == 0 .. 3    \* frames of the camera, counted modulo 4
\* A JPEG image ends with a marker of its own, and a camera may set the
\* end-of-frame bit in either format.
Formats == {"grey", "marked"}

Init ==
  /\ format \in Formats
  /\ transfer = [t \in 1 .. Transfers |-> "ours"]
  /\ active = 0 /\ uncounted = 0
  /\ running = FALSE
  /\ main = [at |-> "new", next |-> 1]
  /\ callback = [at |-> "none", t |-> 1, tries |-> 0]
  /\ waiters = "free"
  /\ camera \in [frame : Numbers, part : 1 .. Parts, arrived : {0}]
  /\ assembly = [id |-> 0, cur |-> FALSE, skip |-> TRUE, got |-> <<>>]
  /\ free = 0
  /\ delivered = <<>>

-----------------------------------------------------------------------------
(* rift_sensor_uvc_stream_start                                            *)

StartRuns ==
  /\ main.at = "new"
  /\ running' = TRUE
  /\ free' = Frames
  /\ main' = [main EXCEPT !.at = "submitting"]
  /\ UNCHANGED <<format, usbVars, callback, waiters, camera, assembly, delivered>>

StartSubmits ==
  /\ main.at = "submitting" /\ main.next <= Transfers
  /\ transfer' = [transfer EXCEPT ![main.next] = "flying"]
  /\ main' = [main EXCEPT !.next = @ + 1]
  /\ UNCHANGED <<format, active, uncounted, running, callback, waiters, frameVars>>

\* A transfer cannot be submitted: stop those that were.
StartFails ==
  /\ main.at = "submitting" /\ main.next <= Transfers
  /\ active' = main.next - 1
  /\ main' = [main EXCEPT !.at = "stopping"]
  /\ UNCHANGED <<format, transfer, uncounted, running, callback, waiters, frameVars>>

StartCounts ==
  /\ main.at = "submitting" /\ main.next > Transfers
  /\ active' = Transfers
  /\ main' = [main EXCEPT !.at = "running"]
  /\ UNCHANGED <<format, transfer, uncounted, running, callback, waiters, frameVars>>

-----------------------------------------------------------------------------
(* rift_sensor_uvc_stream_stop                                             *)

Stop ==
  /\ main.at = "running"
  /\ main' = [main EXCEPT !.at = "stopping"]
  /\ UNCHANGED <<format, usbVars, running, callback, waiters, frameVars>>

\* mutant: without the lock of the waiters.
StopLocks_Not ==
  /\ main.at = "stopping"
  /\ running' = FALSE
  /\ main' = [main EXCEPT !.at = "checking"]
  /\ UNCHANGED <<format, usbVars, callback, waiters, frameVars>>

StopLocks ==
  /\ main.at = "stopping"
  /\ waiters = "free" /\ waiters' = "main"
  /\ running' = FALSE
  /\ main' = [main EXCEPT !.at = "checking"]
  /\ UNCHANGED <<format, usbVars, callback, frameVars>>

StopChecks ==
  /\ main.at = "checking" /\ active > 0
  /\ main' = [main EXCEPT !.at = "waiting"]
  /\ UNCHANGED <<format, usbVars, running, callback, waiters, frameVars>>

\* libusb_wait_for_event gives up the lock and waits for the USB thread to
\* have handled an event.
StopWaits ==
  /\ main.at = "waiting"
  /\ waiters' = "free"
  /\ main' = [main EXCEPT !.at = "asleep"]
  /\ UNCHANGED <<format, usbVars, running, callback, frameVars>>

\* mutant: one event is waited for.
StopFrees_AfterOne ==
  /\ main.at = "checking" /\ active < Transfers
  /\ waiters' = "free"
  /\ free' = 0
  /\ main' = [main EXCEPT !.at = "stopped"]
  /\ UNCHANGED <<format, usbVars, running, callback, camera, assembly, delivered>>

\* All transfers have ended: free the frames.
StopFrees ==
  /\ main.at = "checking" /\ active <= 0
  /\ waiters' = "free"
  /\ free' = 0
  /\ main' = [main EXCEPT !.at = "stopped"]
  /\ UNCHANGED <<format, usbVars, running, callback, camera, assembly, delivered>>

-----------------------------------------------------------------------------
(* The USB bus and its thread.                                             *)

\* A transfer ends, with a packet or in error (a time-out, a stall, or because
\* the interface was reset).
TransferEnds(t) ==
  /\ transfer[t] = "flying"
  /\ \E end \in {"completed", "failed"} : transfer' = [transfer EXCEPT ![t] = end]
  /\ UNCHANGED <<format, active, uncounted, running, main, callback, waiters, frameVars>>

\* The callback ends and does not submit the transfer again.
Retired(t) ==
  /\ transfer' = [transfer EXCEPT ![t] = "ours"]
  /\ active' = active - 1
  /\ uncounted' = uncounted + (IF main.at = "submitting" THEN 1 ELSE 0)
  /\ callback' = [callback EXCEPT !.at = "waking"]

\* iso_transfer_cb
CallbackBegins(t) ==
  /\ callback.at = "none"
  /\ transfer[t] \in {"completed", "failed"}
  /\ IF transfer[t] = "completed" /\ running
     THEN /\ transfer' = [transfer EXCEPT ![t] = "callback"]
          /\ callback' = [at |-> "packet", t |-> t, tries |-> 0]
          /\ UNCHANGED <<active, uncounted>>
     ELSE Retired(t)
  /\ UNCHANGED <<format, running, main, waiters, frameVars>>

\* Submitted again - unless the stream was stopped meanwhile.
CallbackSubmits ==
  /\ callback.at = "submit"
  /\ IF running
     THEN /\ transfer' = [transfer EXCEPT ![callback.t] = "flying"]
          /\ callback' = [callback EXCEPT !.at = "waking"]
          /\ UNCHANGED <<active, uncounted>>
     ELSE Retired(callback.t)
  /\ UNCHANGED <<format, running, main, waiters, frameVars>>

\* An attempt fails; the last one gives the transfer up.
CallbackRetries ==
  /\ callback.at = "submit" /\ running
  /\ IF callback.tries + 1 < MaxTries
     THEN callback' = [callback EXCEPT !.tries = @ + 1] /\ UNCHANGED usbVars
     ELSE Retired(callback.t)
  /\ UNCHANGED <<format, running, main, waiters, frameVars>>

\* libusb, having handled an event, wakes those that wait for one.
CallbackWakes ==
  /\ callback.at = "waking"
  /\ waiters = "free"
  /\ callback' = [at |-> "none", t |-> 1, tries |-> 0]
  /\ IF main.at = "asleep"
     THEN main' = [main EXCEPT !.at = "checking"] /\ waiters' = "main"
     ELSE UNCHANGED <<main, waiters>>
  /\ UNCHANGED <<format, usbVars, running, frameVars>>

-----------------------------------------------------------------------------
(* process_payload                                                         *)

Packet == [frame |-> camera.frame, part |-> camera.part]

\* The camera goes on to its next packet.
CameraAfter(arrived) ==
  IF camera.part < Parts THEN [camera EXCEPT !.part = @ + 1, !.arrived = @ + arrived]
  ELSE [frame |-> (camera.frame + 1) % 4, part |-> 1, arrived |-> 0]

\* mutant: the bytes collected before stay.
Assembly_Goes(a, p) ==
  IF p.frame % 2 = a.id THEN a
  ELSE [a EXCEPT !.id = p.frame % 2, !.cur = a.cur \/ free > 0, !.skip = ~(a.cur \/ free > 0)]

\* The frame id changes: a new frame begins in cur_frame, if there is one
\* still or a free one.
Assembly(a, p) ==
  IF p.frame % 2 = a.id THEN a
  ELSE [id |-> p.frame % 2, cur |-> a.cur \/ free > 0,
        skip |-> ~(a.cur \/ free > 0), got |-> <<>>]

\* The frame is full, or its last packet has the end-of-frame bit or ends with
\* the marker of a JPEG image.
Complete(a) ==
  Len(a.got) = Parts \/ (format # "grey" /\ a.got # <<>> /\ Last(a.got).part = Parts)

\* A packet that is lost, or has the error flag, changes nothing.  The two
\* frame ids cannot tell a frame from the next but one: no frame is lost with
\* all of its packets.
PacketLost ==
  /\ callback.at = "packet"
  /\ camera.part < Parts \/ camera.arrived > 0
  /\ camera' = CameraAfter(0)
  /\ delivered' = <<>>
  /\ callback' = [callback EXCEPT !.at = "submit"]
  /\ UNCHANGED <<format, usbVars, running, main, waiters, assembly, free>>

PacketArrives ==
  /\ callback.at = "packet"
  /\ LET a == Assembly(assembly, Packet)
         copied == a.cur /\ ~a.skip /\ Len(a.got) < Parts
         b == IF copied THEN [a EXCEPT !.got = Append(@, Packet)] ELSE a
     IN  /\ IF copied /\ Complete(b)
            THEN /\ delivered' = b.got
                 /\ assembly' = [b EXCEPT !.cur = FALSE, !.got = <<>>]
            ELSE assembly' = b /\ delivered' = <<>>
         /\ free' = free - (IF a.cur /\ ~assembly.cur THEN 1 ELSE 0)
  /\ camera' = CameraAfter(1)
  /\ callback' = [callback EXCEPT !.at = "submit"]
  /\ UNCHANGED <<format, usbVars, running, main, waiters>>

\* rift_sensor_uvc_stream_release_frame, by whoever is done with a frame.
ReleaseFrame ==
  /\ main.at \in {"submitting", "running"}
  /\ free + (IF assembly.cur THEN 1 ELSE 0) < Frames
  /\ free' = free + 1
  /\ UNCHANGED <<format, usbVars, running, main, callback, waiters, camera, assembly, delivered>>

-----------------------------------------------------------------------------
Main == StartRuns \/ StartSubmits \/ StartFails \/ StartCounts
        \/ StopLocks \/ StopChecks \/ StopWaits \/ StopFrees

UsbThread ==
  \/ \E t \in 1 .. Transfers : CallbackBegins(t)
  \/ CallbackSubmits \/ CallbackRetries \/ CallbackWakes
  \/ PacketLost \/ PacketArrives

Next ==
  \/ Main \/ Stop \/ UsbThread \/ ReleaseFrame
  \/ \E t \in 1 .. Transfers : TransferEnds(t)

Spec == Init /\ [][Next]_vars

\* Both threads run, and the USB host ends every transfer, at the latest after
\* its time-out of a second; every transfer that has ended gets its callback.
Fairness ==
  /\ WF_vars(Main) /\ WF_vars(UsbThread)
  /\ \A t \in 1 .. Transfers : WF_vars(TransferEnds(t)) /\ SF_vars(CallbackBegins(t))

FairSpec == Spec /\ Fairness

-----------------------------------------------------------------------------
Packets == [frame : Numbers, part : 1 .. Parts]

TypeOK ==
  /\ format \in Formats
  /\ transfer \in [1 .. Transfers ->
                     {"ours", "flying", "completed", "failed", "callback"}]
  /\ active \in -Transfers .. Transfers /\ uncounted \in 0 .. Transfers
  /\ running \in BOOLEAN
  /\ main \in [at : {"new", "submitting", "running", "stopping", "checking", "waiting",
                      "asleep", "stopped"},
               next : 1 .. Transfers + 1]
  /\ callback \in [at : {"none", "packet", "submit", "waking"},
                   t : 1 .. Transfers, tries : 0 .. MaxTries - 1]
  /\ waiters \in {"free", "main"}
  /\ camera \in [frame : Numbers, part : 1 .. Parts, arrived : 0 .. Parts]
  /\ assembly \in [id : 0 .. 1, cur : BOOLEAN, skip : BOOLEAN, got : Seq(Packets)]
  /\ free \in 0 .. Frames
  /\ delivered \in Seq(Packets)

Busy == {t \in 1 .. Transfers : transfer[t] # "ours"}

\* Once the stream was started, active_transfers is the number of transfers
\* that are still to end, however they end; those that ended before start
\* counted them stay counted.
ActiveExact ==
  main.at \notin {"new", "submitting"} => active = Cardinality(Busy) + uncounted

\* When stop frees the frames, no callback is writing to one or will be.
QuietWhenFreed == main.at = "stopped" => Busy = {}

\* What is delivered, as far as its data_size goes, is of one image: packets in
\* their order, with the last one at the end; all of them, if nothing marks the
\* last one.  (With the end-of-frame bit a grey frame may be short, and its buffer
\* ends with what an older image left there.)
FrameOfOneImage ==
  delivered # <<>> =>
    /\ \A i \in 1 .. Len(delivered) - 1 :
         /\ delivered[i].frame = delivered[i + 1].frame
         /\ delivered[i].part < delivered[i + 1].part
    /\ Last(delivered).part = Parts
    /\ format = "grey" => Len(delivered) = Parts

\* A stop returns - the wake-up of the last event is not missed - unless a
\* transfer had ended before start counted it.
StopReturns == main.at = "stopping" ~> main.at = "stopped" \/ uncounted > 0

\* The transfers are counted, so that none is left when the frames are freed.
TransfersCounted == TypeOK /\ ActiveExact /\ QuietWhenFreed
=============================================================================
