------------------------------ MODULE HidReader ------------------------------
(***************************************************************************)
(* The HID library on Linux (hidapi/libusb/hid.c): every device that is    *)
(* open has a thread that handles the events of the one libusb context of  *)
(* all of them, so that one device's thread also runs the callbacks of the *)
(* others.  A callback queues a report and submits the transfer again; a   *)
(* client reads from the queue and closes.                                 *)
(*                                                                         *)
(* Abstracted: the content of reports (they are numbered), writes and      *)
(* feature reports (they neither use the queue nor the thread), the search *)
(* for the path, and opens that fail, which change nothing.  libusb is     *)
(* external: one thread at a time handles events, any thread may stop      *)
(* waiting for them, and a transfer that is cancelled while it is in       *)
(* flight ends as cancelled.  A round of events that ends several          *)
(* transfers is taken as several rounds.                                   *)
(***************************************************************************)
EXTENDS Naturals, Sequences, SequencesExt

CONSTANTS Devices,
          MaxQueued,    \* 30: how many queued reports make the next one drop the oldest
          MaxReports    \* bounds the reports of all devices

ASSUME HidAssumption == MaxQueued \in Nat /\ MaxReports \in Nat \ {0}

VARIABLES
  plugged,    \* device -> whether it is there
  handle,     \* device -> "new", "open" or "closed", when it has been freed
  thread,     \* device -> where its read_thread is
  transfer,   \* device -> its one transfer
  shutdown,   \* device -> shutdown_thread
  cancelled,  \* device -> cancelled
  queue,      \* device -> input_reports
  received,   \* device -> the number of reports it has sent
  last,       \* device -> the last report that was read
  handler,    \* the thread that handles events, whose callback it runs, and where
  client      \* where the client is, and with which device

usbVars == <<thread, transfer, shutdown, cancelled, handler>>
dataVars == <<queue, received, last>>
vars == <<plugged, handle, usbVars, dataVars, client>>

NoHandler == [at |-> "none"]
Idle == [at |-> "idle"]

Init ==
  /\ plugged = [d \in Devices |-> TRUE]
  /\ handle = [d \in Devices |-> "new"]
  /\ thread = [d \in Devices |-> "none"]
  /\ transfer = [d \in Devices |-> "none"]
  /\ shutdown = [d \in Devices |-> FALSE]
  /\ cancelled = [d \in Devices |-> FALSE]
  /\ queue = [d \in Devices |-> <<>>]
  /\ received = [d \in Devices |-> 0]
  /\ last = [d \in Devices |-> 0]
  /\ handler = NoHandler
  /\ client = Idle

\* A device that is open is taken away.
Unplug(d) ==
  /\ handle[d] = "open" /\ plugged[d]
  /\ plugged' = [plugged EXCEPT ![d] = FALSE]
  /\ UNCHANGED <<handle, usbVars, dataVars, client>>

\* libusb_cancel_transfer: does nothing to a transfer that is not in flight.
Cancelled(d) ==
  [transfer EXCEPT ![d] = IF @ = "flying" THEN "cancelling" ELSE @]

-----------------------------------------------------------------------------
(* The client.                                                             *)

OpenDevice(d) ==
  /\ client = Idle /\ handle[d] = "new" /\ plugged[d]
  /\ handle' = [handle EXCEPT ![d] = "open"]
  /\ thread' = [thread EXCEPT ![d] = "start"]
  /\ client' = [at |-> "barrier", dev |-> d]
  /\ UNCHANGED <<plugged, transfer, shutdown, cancelled, handler, dataVars>>

\* return_data.
Returns(d) ==
  /\ last' = [last EXCEPT ![d] = Head(queue[d])]
  /\ queue' = [queue EXCEPT ![d] = Tail(@)]
  /\ UNCHANGED received

\* hid_read_timeout, which waits for ever, for a time, or not at all; it holds
\* the mutex until it sleeps.
Read(d, mode) ==
  /\ client = Idle /\ handle[d] = "open"
  /\ IF queue[d] # <<>> \/ shutdown[d] \/ mode = "poll"
     THEN client' = Idle
     ELSE client' = [at |-> "asleep", dev |-> d, mode |-> mode]
  /\ IF queue[d] # <<>> THEN Returns(d) ELSE UNCHANGED dataVars
  /\ UNCHANGED <<plugged, handle, usbVars>>

ReadWakes ==
  /\ client.at = "awake"
  /\ LET d == client.dev
     IN  /\ IF queue[d] # <<>> THEN Returns(d) ELSE UNCHANGED dataVars
         /\ client' = IF queue[d] # <<>> \/ shutdown[d] THEN Idle
                      ELSE [client EXCEPT !.at = "asleep"]
  /\ UNCHANGED <<plugged, handle, usbVars>>

\* A read that timed out returns 0, also if a report came in the meantime.
ReadTimesOut ==
  /\ client.at \in {"asleep", "awake"} /\ client.mode = "timed"
  /\ client' = Idle
  /\ UNCHANGED <<plugged, handle, usbVars, dataVars>>

CloseDevice(d) ==
  /\ client = Idle /\ handle[d] = "open"
  /\ shutdown' = [shutdown EXCEPT ![d] = TRUE]
  /\ client' = [at |-> "cancel", dev |-> d]
  /\ UNCHANGED <<plugged, handle, thread, transfer, cancelled, handler, dataVars>>

CloseCancels ==
  /\ client.at = "cancel"
  /\ transfer' = Cancelled(client.dev)
  /\ client' = [client EXCEPT !.at = "join"]
  /\ UNCHANGED <<plugged, handle, thread, shutdown, cancelled, handler, dataVars>>

\* The thread has ended: free the transfer, the reports and the device.
CloseFrees ==
  /\ client.at = "join" /\ thread[client.dev] = "ended"
  /\ handle' = [handle EXCEPT ![client.dev] = "closed"]
  /\ plugged' = [plugged EXCEPT ![client.dev] = FALSE]
  /\ queue' = [queue EXCEPT ![client.dev] = <<>>]
  /\ last' = [last EXCEPT ![client.dev] = 0]
  /\ client' = Idle
  /\ UNCHANGED <<usbVars, received>>

-----------------------------------------------------------------------------
(* A device's thread, read_thread.                                         *)

\* The result of the first submission is not looked at.
ThreadStarts(d) ==
  /\ thread[d] = "start"
  /\ transfer' = [transfer EXCEPT ![d] = IF plugged[d] THEN "flying" ELSE "failed"]
  /\ thread' = [thread EXCEPT ![d] = "loop"]
  /\ client' = Idle
  /\ UNCHANGED <<plugged, handle, shutdown, cancelled, handler, dataVars>>

ThreadChecks(d) ==
  /\ thread[d] = "loop"
  /\ thread' = [thread EXCEPT ![d] = IF shutdown[d] THEN "cancel" ELSE "events"]
  /\ UNCHANGED <<plugged, handle, transfer, shutdown, cancelled, handler, dataVars, client>>

Handling(d) == handler # NoHandler /\ handler.by = d

\* libusb_handle_events returns: another thread has handled events.
ThreadReturns(d) ==
  /\ thread[d] = "events" /\ ~Handling(d)
  /\ thread' = [thread EXCEPT ![d] = "loop"]
  /\ UNCHANGED <<plugged, handle, transfer, shutdown, cancelled, handler, dataVars, client>>

\* It returns with an error that ends the loop.
ThreadGivesUp(d) ==
  /\ thread[d] = "events" /\ ~Handling(d)
  /\ thread' = [thread EXCEPT ![d] = "cancel"]
  /\ UNCHANGED <<plugged, handle, transfer, shutdown, cancelled, handler, dataVars, client>>

ThreadCancels_Not(d) ==
  /\ thread[d] = "cancel"
  /\ thread' = [thread EXCEPT ![d] = "drain"]
  /\ UNCHANGED <<plugged, handle, transfer, shutdown, cancelled, handler, dataVars, client>>

ThreadCancels(d) ==
  /\ thread[d] = "cancel"
  /\ transfer' = Cancelled(d)
  /\ thread' = [thread EXCEPT ![d] = "drain"]
  /\ UNCHANGED <<plugged, handle, shutdown, cancelled, handler, dataVars, client>>

ThreadDrained_AtOnce(d) ==
  /\ thread[d] = "drain" /\ ~Handling(d)
  /\ thread' = [thread EXCEPT ![d] = "wake"]
  /\ UNCHANGED <<plugged, handle, transfer, shutdown, cancelled, handler, dataVars, client>>

ThreadDrained(d) ==
  /\ thread[d] = "drain" /\ cancelled[d] /\ ~Handling(d)
  /\ thread' = [thread EXCEPT ![d] = "wake"]
  /\ UNCHANGED <<plugged, handle, transfer, shutdown, cancelled, handler, dataVars, client>>

\* A reader of d that sleeps is woken.
Woken(d) ==
  IF client.at = "asleep" /\ client.dev = d THEN [client EXCEPT !.at = "awake"] ELSE client

ThreadWakes(d) ==
  /\ thread[d] = "wake"
  /\ client' = Woken(d)
  /\ thread' = [thread EXCEPT ![d] = "ended"]
  /\ UNCHANGED <<plugged, handle, transfer, shutdown, cancelled, handler, dataVars>>

-----------------------------------------------------------------------------
(* read_callback, run by the thread of device r for the transfer of d.     *)

\* libusb_handle_events returns after a round, the drain looks again.
RoundEnds(r) == [thread EXCEPT ![r] = IF @ = "events" THEN "loop" ELSE @]

MayHandle(r) ==
  /\ handler = NoHandler
  /\ thread[r] = "events" \/ (thread[r] = "drain" /\ ~cancelled[r])

MoreReports == FoldFunction(+, 0, received) < MaxReports

\* A report arrived.
CallbackData(r, d) ==
  /\ MayHandle(r)
  /\ transfer[d] = "flying" /\ plugged[d] /\ MoreReports
  /\ transfer' = [transfer EXCEPT ![d] = "callback"]
  /\ received' = [received EXCEPT ![d] = @ + 1]
  /\ handler' = [at |-> "append", by |-> r, of |-> d]
  /\ UNCHANGED <<plugged, handle, thread, shutdown, cancelled, queue, last, client>>

\* No report in 5 s, or an error.
CallbackTimeout(r, d) ==
  /\ MayHandle(r)
  /\ transfer[d] = "flying" /\ plugged[d]
  /\ transfer' = [transfer EXCEPT ![d] = "callback"]
  /\ handler' = [at |-> "submit", by |-> r, of |-> d]
  /\ UNCHANGED <<plugged, handle, thread, shutdown, cancelled, dataVars, client>>

\* The transfer was cancelled, or its device is gone.
CallbackEnds(r, d) ==
  /\ MayHandle(r)
  /\ transfer[d] = "cancelling" \/ (transfer[d] = "flying" /\ ~plugged[d])
  /\ transfer' = [transfer EXCEPT ![d] = "none"]
  /\ shutdown' = [shutdown EXCEPT ![d] = TRUE]
  /\ cancelled' = [cancelled EXCEPT ![d] = TRUE]
  /\ thread' = RoundEnds(r)
  /\ UNCHANGED <<plugged, handle, handler, dataVars, client>>

\* The report is queued; the oldest goes if there are too many.
Queued(q, n) ==
  IF q # <<>> /\ Len(q) - 1 > MaxQueued THEN Append(Tail(q), n) ELSE Append(q, n)

\* Only a report that comes into an empty queue wakes a reader.
CallbackAppends ==
  /\ handler # NoHandler /\ handler.at = "append"
  /\ LET d == handler.of
     IN  /\ queue' = [queue EXCEPT ![d] = Queued(@, received[d])]
         /\ client' = IF queue[d] = <<>> THEN Woken(d) ELSE client
  /\ handler' = [handler EXCEPT !.at = "submit"]
  /\ UNCHANGED <<plugged, handle, thread, transfer, shutdown, cancelled, received, last>>

CallbackSubmits ==
  /\ handler # NoHandler /\ handler.at = "submit"
  /\ LET d == handler.of
     IN  /\ transfer' = [transfer EXCEPT ![d] = IF plugged[d] THEN "flying" ELSE "none"]
         /\ shutdown' = [shutdown EXCEPT ![d] = @ \/ ~plugged[d]]
         /\ cancelled' = [cancelled EXCEPT ![d] = @ \/ ~plugged[d]]
  /\ thread' = RoundEnds(handler.by)
  /\ handler' = NoHandler
  /\ UNCHANGED <<plugged, handle, dataVars, client>>

-----------------------------------------------------------------------------
Client ==
  \/ \E d \in Devices : OpenDevice(d) \/ CloseDevice(d)
  \/ \E d \in Devices, mode \in {"poll", "timed", "block"} : Read(d, mode)
  \/ ReadTimesOut

ClientGoesOn == ReadWakes \/ CloseCancels \/ CloseFrees

Thread(d) ==
  \/ ThreadStarts(d) \/ ThreadChecks(d) \/ ThreadReturns(d)
  \/ ThreadCancels(d) \/ ThreadDrained(d) \/ ThreadWakes(d)

Callback == CallbackAppends \/ CallbackSubmits

Next ==
  \/ Client \/ ClientGoesOn \/ Callback
  \/ \E d \in Devices : Unplug(d) \/ Thread(d) \/ ThreadGivesUp(d)
  \/ \E r, d \in Devices : CallbackData(r, d) \/ CallbackTimeout(r, d) \/ CallbackEnds(r, d)

Spec == Init /\ [][Next]_vars

\* The operating system runs the threads and a client that has begun a call;
\* libusb calls back, at last, for a transfer that has been cancelled or whose
\* device is gone, however many others end before it.
Fairness ==
  /\ WF_vars(ClientGoesOn) /\ WF_vars(Callback)
  /\ \A d \in Devices : WF_vars(Thread(d))
  /\ SF_vars(\E r, d \in Devices : CallbackEnds(r, d))

FairSpec == Spec /\ Fairness

-----------------------------------------------------------------------------
TypeOK ==
  /\ plugged \in [Devices -> BOOLEAN]
  /\ handle \in [Devices -> {"new", "open", "closed"}]
  /\ thread \in [Devices -> {"none", "start", "loop", "events", "cancel", "drain", "wake", "ended"}]
  /\ transfer \in [Devices -> {"none", "failed", "flying", "cancelling", "callback"}]
  /\ shutdown \in [Devices -> BOOLEAN] /\ cancelled \in [Devices -> BOOLEAN]
  /\ queue \in [Devices -> Seq(Nat)]
  /\ \A d \in Devices : Len(queue[d]) <= MaxQueued + 2
  /\ received \in [Devices -> Nat] /\ last \in [Devices -> Nat]
  /\ handler \in {NoHandler} \cup [at : {"append", "submit"}, by : Devices, of : Devices]
  /\ client \in {Idle} \cup [at : {"barrier", "cancel", "join"}, dev : Devices]
                \cup [at : {"asleep", "awake"}, dev : Devices, mode : {"timed", "block"}]

\* When a close has freed a device, no thread is running or will run its
\* callback, and its own thread has ended - whichever thread it was that ran
\* the last callback.
FreedUnused ==
  \A d \in Devices : handle[d] = "closed" =>
    /\ transfer[d] = "none" /\ thread[d] = "ended"
    /\ handler # NoHandler => handler.of # d /\ handler.by # d

\* The newest report that is queued or was read.
Newest(d) == IF queue[d] = <<>> THEN last[d] ELSE Last(queue[d])

\* Reports are read in their order, and one is only missing when the queue is
\* full of newer ones.
NewestKept ==
  \A d \in Devices : handle[d] = "open" =>
    /\ \A i \in 1 .. Len(queue[d]) - 1 : queue[d][i + 1] = queue[d][i] + 1
    /\ Newest(d) = received[d] -
         (IF handler # NoHandler /\ handler.at = "append" /\ handler.of = d THEN 1 ELSE 0)
    /\ queue[d] # <<>> /\ Head(queue[d]) # last[d] + 1 => Len(queue[d]) = MaxQueued + 2

ReportsKept == TypeOK /\ FreedUnused /\ NewestKept

\* The transfer of a device may never be cancelled although its thread waits for
\* that: the first submission failed, or both the client and the thread tried
\* while the thread of another device ran the callback.
Missed(d) ==
  /\ thread[d] = "drain" /\ ~cancelled[d]
  /\ \/ transfer[d] = "failed"
     \/ transfer[d] \in {"flying", "callback"} /\ \E e \in Devices \ {d} : handle[e] # "new"

\* The client waits for the end of a thread, or for a report that is there or
\* an end that has come.
Waits ==
  \/ client.at = "join"
  \/ client.at = "asleep" /\ (queue[client.dev] # <<>> \/ shutdown[client.dev])

\* A close returns, and a read that sleeps is woken by a report or by the end
\* of the device, unless the device's transfer was missed.
ReadersEnd == Waits ~> ~Waits \/ Missed(client.dev)
=============================================================================
