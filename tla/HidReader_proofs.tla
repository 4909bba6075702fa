-------------------------- MODULE HidReader_proofs --------------------------
(***************************************************************************)
(* Proofs about HidReader: a device that is closed is used by no thread,   *)
(* whichever thread ran its last callback, and reports are read in their   *)
(* order, for any devices and any size of the queue.                       *)
(***************************************************************************)
EXTENDS HidReader, SequenceTheorems, TLAPS

\* Where a device's thread is says what its transfer may be.  cancelled comes
\* from the last callback, and the thread leaves its drain only for that: so a
\* thread that has ended has no transfer left.
ThreadPlaced ==
  \A d \in Devices :
    /\ handle[d] = "new" <=> thread[d] = "none"
    /\ handle[d] = "closed" => thread[d] = "ended"
    /\ thread[d] \in {"none", "start"} => transfer[d] = "none" /\ ~cancelled[d]
    /\ cancelled[d] => transfer[d] = "none"
    /\ thread[d] \in {"wake", "ended"} => cancelled[d]

\* A thread that runs a callback is inside of libusb, and the transfer of that
\* callback is not submitted.
HandlerPlaced ==
  handler # NoHandler =>
    /\ thread[handler.by] \in {"events", "drain"}
    /\ transfer[handler.of] = "callback"

\* The reports are numbered from 1 on.
Fresh ==
  \A d \in Devices : handle[d] = "new" =>
    queue[d] = <<>> /\ received[d] = 0 /\ last[d] = 0

\* A queue of reports behind the last one read, the newest of which is n.
Rising(q) == \A i \in 1 .. Len(q) - 1 : q[i + 1] = q[i] + 1
Kept(q, l, n) ==
  /\ Rising(q)
  /\ (IF q = <<>> THEN l ELSE Last(q)) = n
  /\ q # <<>> /\ Head(q) # l + 1 => Len(q) = MaxQueued + 2

\* The report that a callback has received and not queued yet.
Held(d) ==
  IF handler # NoHandler /\ handler.at = "append" /\ handler.of = d THEN 1 ELSE 0

QueueKept == \A d \in Devices : handle[d] = "open" => Kept(queue[d], last[d], received[d] - Held(d))

IInv == TypeOK /\ ThreadPlaced /\ HandlerPlaced /\ Fresh /\ QueueKept

-----------------------------------------------------------------------------
(***************************************************************************)
(* The queue.                                                              *)
(***************************************************************************)
\* return_data takes the oldest report, and the others stay behind it.
LEMMA Taken ==
  ASSUME NEW q \in Seq(Nat), q # <<>>, NEW l \in Nat, NEW n, Kept(q, l, n),
         Len(q) <= MaxQueued + 2
  PROVE  /\ Head(q) \in Nat /\ Tail(q) \in Seq(Nat) /\ Len(Tail(q)) <= MaxQueued + 2
         /\ Kept(Tail(q), Head(q), n)
<1> DEFINE t == Tail(q)
           k == Len(q)
<1>1. /\ k \in Nat /\ k >= 1 /\ t \in Seq(Nat) /\ Len(t) = k - 1 /\ Head(q) = q[1]
      /\ q[1] \in Nat /\ MaxQueued \in Nat
      /\ \A i \in 1 .. k - 1 : t[i] = q[i + 1]
  BY HidAssumption
<1>2. /\ \A i \in 1 .. k - 1 : q[i + 1] = q[i] + 1
      /\ q[k] = n
  BY <1>1 DEF Kept, Rising, Last
<1> HIDE DEF t
<1>3. Rising(t)
  <2> SUFFICES ASSUME NEW i \in 1 .. Len(t) - 1
               PROVE  t[i + 1] = t[i] + 1
    BY DEF Rising
  <2>1. i \in 1 .. k - 1 /\ i + 1 \in 1 .. k - 1
    BY <1>1
  <2> QED
    BY <1>1, <1>2, <2>1
<1>4. (IF t = <<>> THEN Head(q) ELSE Last(t)) = n
  <2>1. CASE k = 1
    BY <1>1, <1>2, <2>1
  <2>2. CASE k # 1
    <3>1. t # <<>> /\ k - 1 \in 1 .. k - 1 /\ (k - 1) + 1 = k
      BY <1>1, <2>2
    <3>2. Last(t) = t[k - 1] /\ t[k - 1] = q[k]
      BY <1>1, <3>1 DEF Last
    <3> QED
      BY <1>2, <3>1, <3>2
  <2> QED
    BY <2>1, <2>2
<1>5. t # <<>> => Head(t) = Head(q) + 1
  <2> SUFFICES ASSUME t # <<>> PROVE Head(t) = Head(q) + 1
    OBVIOUS
  <2>1. k - 1 >= 1 /\ Head(t) = t[1] /\ 1 \in 1 .. k - 1
    BY <1>1
  <2>2. t[1] = q[1 + 1] /\ q[1 + 1] = q[1] + 1
    BY <1>1, <1>2, <2>1
  <2> QED
    BY <1>1, <2>1, <2>2
<1>6. Kept(t, Head(q), n)
  BY <1>3, <1>4, <1>5 DEF Kept
<1> QED
  BY <1>1, <1>6 DEF t

\* A report is queued behind the others, and the oldest one goes if there are
\* as many as there may be.
LEMMA Added ==
  ASSUME NEW q \in Seq(Nat), NEW l \in Nat, NEW n \in Nat, Kept(q, l, n - 1),
         Len(q) <= MaxQueued + 2
  PROVE  /\ Queued(q, n) \in Seq(Nat) /\ Len(Queued(q, n)) <= MaxQueued + 2
         /\ Kept(Queued(q, n), l, n)
<1> DEFINE k == Len(q)
           full == q # <<>> /\ k - 1 > MaxQueued
           t == Tail(q)
           b == IF full THEN t ELSE q
           r == Append(b, n)
<1>1. /\ k \in Nat /\ MaxQueued \in Nat /\ (q = <<>> <=> k = 0)
      /\ \A i \in 1 .. k : q[i] \in Nat
      /\ \A i \in 1 .. k - 1 : q[i + 1] = q[i] + 1
      /\ q # <<>> => q[k] = n - 1
  BY HidAssumption DEF Kept, Rising, Last
<1>2. full => /\ t \in Seq(Nat) /\ Len(t) = k - 1 /\ Len(t) = MaxQueued + 1
              /\ \A i \in 1 .. k - 1 : t[i] = q[i + 1]
  BY <1>1
<1> HIDE DEF t
<1>3. /\ b \in Seq(Nat) /\ Len(b) \in Nat /\ Len(b) <= MaxQueued + 1 /\ Rising(b)
      /\ b # <<>> => b[Len(b)] = n - 1
      /\ b = <<>> => q = <<>>
  <2>1. CASE full
    <3>0. /\ b = t /\ t \in Seq(Nat) /\ Len(t) = k - 1 /\ Len(t) = MaxQueued + 1
          /\ \A i \in 1 .. k - 1 : t[i] = q[i + 1]
          /\ q # <<>>
      BY <1>2, <2>1
    <3> HIDE DEF k, full, b, r
    <3>1. Rising(t)
      <4> SUFFICES ASSUME NEW i \in 1 .. Len(t) - 1
                   PROVE  t[i + 1] = t[i] + 1
        BY DEF Rising
      <4>1. i \in 1 .. k - 1 /\ i + 1 \in 1 .. k - 1
        BY <1>1, <3>0
      <4> QED
        BY <1>1, <3>0, <4>1
    <3>2. k - 1 \in 1 .. k - 1 /\ (k - 1) + 1 = k
      BY <1>1, <3>0
    <3>3. t # <<>> /\ t[Len(t)] = n - 1
      BY <1>1, <3>0, <3>2
    <3> QED
      BY <1>1, <3>0, <3>1, <3>3
  <2>2. CASE ~full
    BY <1>1, <2>2 DEF Kept
  <2> QED
    BY <2>1, <2>2
<1> HIDE DEF b
<1>4. /\ r \in Seq(Nat) /\ r # <<>> /\ Len(r) = Len(b) + 1 /\ r[Len(b) + 1] = n
      /\ \A i \in 1 .. Len(b) : r[i] = b[i]
  BY <1>3, SMTT(30)
<1>5. Rising(r)
  <2> SUFFICES ASSUME NEW i \in 1 .. Len(r) - 1
               PROVE  r[i + 1] = r[i] + 1
    BY DEF Rising
  <2>1. CASE i = Len(b)
    <3>1. b # <<>> /\ r[i] = b[i] /\ r[i + 1] = n
      BY <1>3, <1>4, <2>1
    <3> QED
      BY <1>3, <2>1, <3>1
  <2>2. CASE i # Len(b)
    <3>1. i \in 1 .. Len(b) - 1 /\ i \in 1 .. Len(b) /\ i + 1 \in 1 .. Len(b)
      BY <1>3, <1>4, <2>2
    <3> QED
      BY <1>3, <1>4, <3>1 DEF Rising
  <2> QED
    BY <2>1, <2>2
<1>6. Last(r) = n
  BY <1>4 DEF Last
<1>7. Head(r) # l + 1 => Len(r) = MaxQueued + 2
  <2>1. CASE q = <<>>
    <3>1. b = q /\ l = n - 1
      BY <2>1 DEF b, Kept
    <3>2. Head(r) = n
      BY <1>4, <2>1, <3>1
    <3> QED
      BY <2>1, <3>1, <3>2
  <2>2. CASE q # <<>> /\ full
    BY <1>1, <1>2, <1>4, <2>2, SMTT(30) DEF b
  <2>3. CASE q # <<>> /\ ~full
    <3>1. b = q /\ k # 0 /\ 1 \in 1 .. Len(b)
      BY <1>1, <2>3 DEF b
    <3>2. Head(r) = r[1] /\ r[1] = q[1] /\ Head(q) = q[1]
      BY <1>4, <2>3, <3>1
    <3>3. k # MaxQueued + 2
      BY <1>1, <2>3
    <3> QED
      BY <2>3, <3>2, <3>3 DEF Kept
  <2> QED
    BY <2>1, <2>2, <2>3
<1>8. Queued(q, n) = r
  BY DEF Queued, b, t
<1> HIDE DEF r
<1>9. Kept(r, l, n)
  BY <1>4, <1>5, <1>6, <1>7 DEF Kept
<1> QED
  BY <1>1, <1>3, <1>4, <1>8, <1>9
-----------------------------------------------------------------------------
(***************************************************************************)
(* Every step keeps the types.                                             *)
(***************************************************************************)
ClientSet ==
  {Idle} \cup [at : {"barrier", "cancel", "join"}, dev : Devices]
         \cup [at : {"asleep", "awake"}, dev : Devices, mode : {"timed", "block"}]
HandlerSet == {NoHandler} \cup [at : {"append", "submit"}, by : Devices, of : Devices]

LEMMA ClientTypes ==
  ASSUME client \in ClientSet
  PROVE  /\ client.at \in {"barrier", "cancel", "join", "asleep", "awake"} => client.dev \in Devices
         /\ client.at = "cancel" => [client EXCEPT !.at = "join"] \in ClientSet
         /\ client.at \in {"asleep", "awake"} =>
              /\ [client EXCEPT !.at = "awake"] \in ClientSet
              /\ [client EXCEPT !.at = "asleep"] \in ClientSet
         /\ \A d \in Devices : Woken(d) \in ClientSet
         /\ Idle \in ClientSet
<1>1. CASE client = Idle
  BY <1>1 DEF ClientSet, Idle, Woken
<1>2. CASE client \in [at : {"barrier", "cancel", "join"}, dev : Devices]
  BY <1>2 DEF ClientSet, Idle, Woken
<1>3. CASE client \in [at : {"asleep", "awake"}, dev : Devices, mode : {"timed", "block"}]
  BY <1>3 DEF ClientSet, Idle, Woken
<1> QED
  BY <1>1, <1>2, <1>3 DEF ClientSet

LEMMA HandlerTypes ==
  ASSUME handler \in HandlerSet
  PROVE  /\ handler # NoHandler => /\ handler.of \in Devices /\ handler.by \in Devices
                                   /\ handler.at \in {"append", "submit"}
         /\ handler # NoHandler => /\ [handler EXCEPT !.at = "submit"] \in HandlerSet
                                   /\ [handler EXCEPT !.at = "submit"] # NoHandler
                                   /\ [handler EXCEPT !.at = "submit"].at = "submit"
                                   /\ [handler EXCEPT !.at = "submit"].by = handler.by
                                   /\ [handler EXCEPT !.at = "submit"].of = handler.of
         /\ NoHandler \in HandlerSet
         /\ \A r, d \in Devices, p \in {"append", "submit"} :
              /\ [at |-> p, by |-> r, of |-> d] \in HandlerSet
              /\ [at |-> p, by |-> r, of |-> d] # NoHandler
BY DEF HandlerSet, NoHandler

DataTypes ==
  /\ queue \in [Devices -> Seq(Nat)]
  /\ \A d \in Devices : Len(queue[d]) <= MaxQueued + 2
  /\ received \in [Devices -> Nat] /\ last \in [Devices -> Nat]
UsbTypes ==
  /\ plugged \in [Devices -> BOOLEAN]
  /\ handle \in [Devices -> {"new", "open", "closed"}]
  /\ thread \in [Devices -> {"none", "start", "loop", "events", "cancel", "drain", "wake", "ended"}]
  /\ transfer \in [Devices -> {"none", "failed", "flying", "cancelling", "callback"}]
  /\ shutdown \in [Devices -> BOOLEAN] /\ cancelled \in [Devices -> BOOLEAN]

LEMMA Typed == TypeOK <=> UsbTypes /\ DataTypes /\ handler \in HandlerSet /\ client \in ClientSet
BY DEF TypeOK, UsbTypes, DataTypes, HandlerSet, ClientSet

LEMMA CancelledType ==
  ASSUME UsbTypes, NEW d
  PROVE  Cancelled(d) \in [Devices -> {"none", "failed", "flying", "cancelling", "callback"}]
BY DEF UsbTypes, Cancelled

LEMMA ClientActionTypes ==
  ASSUME TypeOK, NEW d \in Devices, NEW mode \in {"poll", "timed", "block"},
         \/ OpenDevice(d) \/ CloseDevice(d) \/ CloseCancels \/ CloseFrees
         \/ Read(d, mode) \/ ReadWakes \/ ReadTimesOut
  PROVE  UsbTypes' /\ handler' \in HandlerSet /\ client' \in ClientSet
<1>0. UsbTypes /\ DataTypes /\ handler \in HandlerSet /\ client \in ClientSet
  BY Typed
<1>1. CASE OpenDevice(d)
  <2>1. [at |-> "barrier", dev |-> d] \in ClientSet
    BY DEF ClientSet
  <2> QED
    BY <1>0, <1>1, <2>1 DEF OpenDevice, UsbTypes
<1>2. CASE CloseDevice(d)
  <2>1. [at |-> "cancel", dev |-> d] \in ClientSet
    BY DEF ClientSet
  <2> QED
    BY <1>0, <1>2, <2>1 DEF CloseDevice, UsbTypes
<1>3. CASE CloseCancels
  <2>1. client' \in ClientSet
    BY <1>0, <1>3, ClientTypes DEF CloseCancels
  <2> QED
    BY <1>0, <1>3, <2>1, CancelledType DEF CloseCancels, UsbTypes
<1>4. CASE CloseFrees
  BY <1>0, <1>4, ClientTypes DEF CloseFrees, UsbTypes, usbVars
<1>5. CASE Read(d, mode)
  <2>1. mode # "poll" => [at |-> "asleep", dev |-> d, mode |-> mode] \in ClientSet
    BY DEF ClientSet
  <2> QED
    BY <1>0, <1>5, <2>1, ClientTypes DEF Read, UsbTypes, usbVars
<1>6. CASE ReadWakes
  <2>1. client' \in ClientSet
    BY <1>0, <1>6, ClientTypes DEF ReadWakes
  <2> QED
    BY <1>0, <1>6, <2>1 DEF ReadWakes, UsbTypes, usbVars
<1>7. CASE ReadTimesOut
  BY <1>0, <1>7, ClientTypes DEF ReadTimesOut, UsbTypes, usbVars
<1> QED
  BY <1>1, <1>2, <1>3, <1>4, <1>5, <1>6, <1>7

LEMMA ThreadActionTypes ==
  ASSUME TypeOK, NEW d \in Devices, Unplug(d) \/ Thread(d) \/ ThreadGivesUp(d)
  PROVE  UsbTypes' /\ handler' \in HandlerSet /\ client' \in ClientSet
<1>0. UsbTypes /\ DataTypes /\ handler \in HandlerSet /\ client \in ClientSet
  BY Typed
<1>1. CASE Unplug(d)
  BY <1>0, <1>1 DEF Unplug, UsbTypes, usbVars
<1>2. CASE ThreadStarts(d)
  BY <1>0, <1>2, ClientTypes DEF ThreadStarts, UsbTypes
<1>3. CASE ThreadChecks(d) \/ ThreadReturns(d) \/ ThreadGivesUp(d) \/ ThreadDrained(d)
  BY <1>0, <1>3 DEF ThreadChecks, ThreadReturns, ThreadGivesUp, ThreadDrained, UsbTypes
<1>4. CASE ThreadCancels(d)
  BY <1>0, <1>4, CancelledType DEF ThreadCancels, UsbTypes
<1>5. CASE ThreadWakes(d)
  BY <1>0, <1>5, ClientTypes DEF ThreadWakes, UsbTypes
<1> QED
  BY <1>1, <1>2, <1>3, <1>4, <1>5 DEF Thread

LEMMA CallbackActionTypes ==
  ASSUME TypeOK, NEW r \in Devices, NEW d \in Devices,
         \/ CallbackData(r, d) \/ CallbackTimeout(r, d) \/ CallbackEnds(r, d) \/ Callback
  PROVE  UsbTypes' /\ handler' \in HandlerSet /\ client' \in ClientSet
<1>0. UsbTypes /\ DataTypes /\ handler \in HandlerSet /\ client \in ClientSet
  BY Typed
<1>r. \A e \in Devices : RoundEnds(e) \in
        [Devices -> {"none", "start", "loop", "events", "cancel", "drain", "wake", "ended"}]
  BY <1>0 DEF RoundEnds, UsbTypes
<1>1. CASE CallbackData(r, d)
  BY <1>0, <1>1, HandlerTypes DEF CallbackData, UsbTypes
<1>2. CASE CallbackTimeout(r, d)
  BY <1>0, <1>2, HandlerTypes DEF CallbackTimeout, UsbTypes
<1>3. CASE CallbackEnds(r, d)
  BY <1>0, <1>r, <1>3 DEF CallbackEnds, UsbTypes
<1>4. CASE CallbackAppends
  <2>1. handler' \in HandlerSet /\ handler.of \in Devices
    BY <1>0, <1>4, HandlerTypes DEF CallbackAppends
  <2>2. client' \in ClientSet
    BY <1>0, <1>4, <2>1, ClientTypes DEF CallbackAppends
  <2> QED
    BY <1>0, <1>4, <2>1, <2>2 DEF CallbackAppends, UsbTypes
<1>5. CASE CallbackSubmits
  <2>1. handler.of \in Devices /\ handler.by \in Devices /\ handler' \in HandlerSet
    BY <1>0, <1>5, HandlerTypes DEF CallbackSubmits
  <2>2. /\ transfer' \in [Devices -> {"none", "failed", "flying", "cancelling", "callback"}]
        /\ shutdown' \in [Devices -> BOOLEAN] /\ cancelled' \in [Devices -> BOOLEAN]
    BY <1>0, <1>5, <2>1 DEF CallbackSubmits, UsbTypes
  <2> QED
    BY <1>0, <1>r, <1>5, <2>1, <2>2 DEF CallbackSubmits, UsbTypes
<1> QED
  BY <1>1, <1>2, <1>3, <1>4, <1>5 DEF Callback
-----------------------------------------------------------------------------
(***************************************************************************)
(* Every step keeps the threads and the callbacks in their places.         *)
(***************************************************************************)
Placed == ThreadPlaced /\ HandlerPlaced

LEMMA ClientKeepsPlaces ==
  ASSUME TypeOK, Placed, NEW d \in Devices, NEW mode \in {"poll", "timed", "block"},
         \/ OpenDevice(d) \/ CloseDevice(d) \/ CloseCancels \/ CloseFrees
         \/ Read(d, mode) \/ ReadWakes \/ ReadTimesOut
  PROVE  Placed'
<1>0. /\ UsbTypes /\ handler \in HandlerSet /\ client \in ClientSet
      /\ ThreadPlaced /\ HandlerPlaced
      /\ handler # NoHandler => handler.of \in Devices /\ handler.by \in Devices
  BY Typed, HandlerTypes DEF Placed
<1>1. CASE OpenDevice(d)
  <2>1. handle[d] = "new" /\ thread[d] = "none"
    BY <1>0, <1>1 DEF OpenDevice, ThreadPlaced
  <2>2. ThreadPlaced'
    BY <1>0, <1>1, <2>1 DEF OpenDevice, ThreadPlaced, UsbTypes
  <2>3. HandlerPlaced'
    BY <1>0, <1>1, <2>1 DEF OpenDevice, HandlerPlaced, UsbTypes
  <2> QED
    BY <2>2, <2>3 DEF Placed
<1>2. CASE CloseDevice(d)
  BY <1>0, <1>2 DEF CloseDevice, Placed, ThreadPlaced, HandlerPlaced
<1>3. CASE CloseCancels
  <2>1. client.dev \in Devices
    BY <1>0, <1>3, ClientTypes DEF CloseCancels
  <2>2. \A e \in Devices : /\ transfer[e] = "none" => transfer'[e] = "none"
                           /\ transfer[e] = "callback" => transfer'[e] = "callback"
    BY <1>0, <1>3, <2>1 DEF CloseCancels, Cancelled, UsbTypes
  <2>3. UNCHANGED <<handle, thread, cancelled, handler>>
    BY <1>3 DEF CloseCancels
  <2> QED
    BY <1>0, <2>2, <2>3 DEF Placed, ThreadPlaced, HandlerPlaced
<1>4. CASE CloseFrees
  <2>1. client.dev \in Devices
    BY <1>0, <1>4, ClientTypes DEF CloseFrees
  <2>2. ThreadPlaced'
    BY <1>0, <1>4, <2>1 DEF CloseFrees, ThreadPlaced, UsbTypes, usbVars
  <2>3. HandlerPlaced'
    BY <1>0, <1>4 DEF CloseFrees, HandlerPlaced, usbVars
  <2> QED
    BY <2>2, <2>3 DEF Placed
<1>5. CASE Read(d, mode) \/ ReadWakes \/ ReadTimesOut
  <2>1. UNCHANGED <<handle, usbVars>>
    BY <1>5 DEF Read, ReadWakes, ReadTimesOut
  <2> QED
    BY <1>0, <2>1 DEF Placed, ThreadPlaced, HandlerPlaced, usbVars
<1> QED
  BY <1>1, <1>2, <1>3, <1>4, <1>5

LEMMA ThreadKeepsPlaces ==
  ASSUME TypeOK, Placed, NEW d \in Devices, Unplug(d) \/ Thread(d) \/ ThreadGivesUp(d)
  PROVE  Placed'
<1>0. /\ UsbTypes /\ handler \in HandlerSet /\ client \in ClientSet
      /\ ThreadPlaced /\ HandlerPlaced
      /\ handler # NoHandler => handler.of \in Devices /\ handler.by \in Devices
  BY Typed, HandlerTypes DEF Placed
<1>1. CASE Unplug(d)
  BY <1>0, <1>1 DEF Unplug, usbVars, Placed, ThreadPlaced, HandlerPlaced
<1>2. CASE ThreadStarts(d)
  <2>1. thread[d] = "start" /\ transfer[d] = "none" /\ ~cancelled[d]
    BY <1>0, <1>2 DEF ThreadStarts, ThreadPlaced
  <2>2. ThreadPlaced'
    BY <1>0, <1>2, <2>1 DEF ThreadStarts, ThreadPlaced, UsbTypes
  <2>3. HandlerPlaced'
    BY <1>0, <1>2, <2>1 DEF ThreadStarts, HandlerPlaced, UsbTypes
  <2> QED
    BY <2>2, <2>3 DEF Placed
<1>3. CASE ThreadChecks(d) \/ ThreadReturns(d) \/ ThreadGivesUp(d) \/ ThreadDrained(d)
  <2>1. /\ UNCHANGED <<handle, transfer, cancelled, handler>>
        /\ \A e \in Devices \ {d} : thread'[e] = thread[e]
        /\ thread[d] \in {"loop", "events", "drain"}
        /\ handler # NoHandler => handler.by # d
        /\ thread'[d] \in {"cancel", "events", "loop", "wake"}
        /\ thread'[d] = "wake" => cancelled[d]
    <3>1. CASE ThreadChecks(d)
      BY <1>0, <3>1 DEF ThreadChecks, UsbTypes, HandlerPlaced
    <3>2. CASE ThreadReturns(d) \/ ThreadGivesUp(d)
      BY <1>0, <3>2 DEF ThreadReturns, ThreadGivesUp, UsbTypes, Handling
    <3>3. CASE ThreadDrained(d)
      BY <1>0, <3>3 DEF ThreadDrained, UsbTypes, Handling
    <3> QED
      BY <1>3, <3>1, <3>2, <3>3
  <2>2. ThreadPlaced'
    BY <1>0, <2>1 DEF ThreadPlaced
  <2>3. HandlerPlaced'
    BY <1>0, <2>1 DEF HandlerPlaced
  <2> QED
    BY <2>2, <2>3 DEF Placed
<1>4. CASE ThreadCancels(d)
  <2>1. /\ UNCHANGED <<handle, cancelled, handler>>
        /\ \A e \in Devices \ {d} : thread'[e] = thread[e]
        /\ thread[d] = "cancel" /\ thread'[d] = "drain"
        /\ \A e \in Devices : /\ transfer[e] = "none" => transfer'[e] = "none"
                              /\ transfer[e] = "callback" => transfer'[e] = "callback"
    BY <1>0, <1>4 DEF ThreadCancels, Cancelled, UsbTypes
  <2> QED
    BY <1>0, <2>1 DEF Placed, ThreadPlaced, HandlerPlaced
<1>5. CASE ThreadWakes(d)
  <2>1. /\ UNCHANGED <<handle, transfer, cancelled, handler>>
        /\ \A e \in Devices \ {d} : thread'[e] = thread[e]
        /\ thread[d] = "wake" /\ thread'[d] = "ended"
    BY <1>0, <1>5 DEF ThreadWakes, UsbTypes
  <2> QED
    BY <1>0, <2>1 DEF Placed, ThreadPlaced, HandlerPlaced
<1> QED
  BY <1>1, <1>2, <1>3, <1>4, <1>5 DEF Thread

LEMMA CallbackKeepsPlaces ==
  ASSUME TypeOK, Placed, NEW r \in Devices, NEW d \in Devices,
         \/ CallbackData(r, d) \/ CallbackTimeout(r, d) \/ CallbackEnds(r, d) \/ Callback
  PROVE  Placed'
<1>0. /\ UsbTypes /\ handler \in HandlerSet /\ client \in ClientSet
      /\ ThreadPlaced /\ HandlerPlaced
      /\ handler # NoHandler => handler.of \in Devices /\ handler.by \in Devices
  BY Typed, HandlerTypes DEF Placed
<1>r. \A e, f \in Devices : thread[e] \in {"events", "drain"} =>
        /\ RoundEnds(e)[f] = thread[f] \/ (f = e /\ RoundEnds(e)[f] = "loop")
        /\ RoundEnds(e)[e] \in {"loop", "drain"}
  BY <1>0 DEF RoundEnds, UsbTypes
<1>1. CASE CallbackData(r, d) \/ CallbackTimeout(r, d)
  <2>1. /\ UNCHANGED <<handle, thread, cancelled>>
        /\ \A e \in Devices \ {d} : transfer'[e] = transfer[e]
        /\ transfer[d] = "flying" /\ transfer'[d] = "callback"
        /\ thread[r] \in {"events", "drain"} /\ handler'.by = r /\ handler'.of = d
    BY <1>0, <1>1 DEF CallbackData, CallbackTimeout, MayHandle, UsbTypes
  <2> QED
    BY <1>0, <2>1 DEF Placed, ThreadPlaced, HandlerPlaced
<1>2. CASE CallbackEnds(r, d)
  <2>1. /\ UNCHANGED <<handle, handler>> /\ handler = NoHandler
        /\ thread' = RoundEnds(r) /\ thread[r] \in {"events", "drain"}
        /\ \A e \in Devices \ {d} : transfer'[e] = transfer[e] /\ cancelled'[e] = cancelled[e]
        /\ transfer[d] # "none" /\ transfer'[d] = "none" /\ cancelled'[d]
    BY <1>0, <1>2 DEF CallbackEnds, MayHandle, UsbTypes
  <2>2. ThreadPlaced'
    BY <1>0, <1>r, <2>1 DEF ThreadPlaced
  <2> QED
    BY <2>1, <2>2 DEF Placed, HandlerPlaced
<1>3. CASE CallbackAppends
  <2>1. /\ UNCHANGED <<handle, thread, transfer, cancelled>>
        /\ handler # NoHandler /\ handler'.by = handler.by /\ handler'.of = handler.of
    BY <1>0, <1>3, HandlerTypes DEF CallbackAppends
  <2> QED
    BY <1>0, <2>1 DEF Placed, ThreadPlaced, HandlerPlaced
<1>4. CASE CallbackSubmits
  <2> DEFINE b == handler.by
             o == handler.of
  <2>1. /\ b \in Devices /\ o \in Devices
        /\ thread[b] \in {"events", "drain"} /\ transfer[o] = "callback"
    BY <1>0, <1>4 DEF CallbackSubmits, HandlerPlaced
  <2>2. /\ UNCHANGED handle /\ handler' = NoHandler /\ thread' = RoundEnds(b)
        /\ \A e \in Devices \ {o} : transfer'[e] = transfer[e] /\ cancelled'[e] = cancelled[e]
        /\ transfer'[o] = (IF plugged[o] THEN "flying" ELSE "none")
        /\ cancelled'[o] = (cancelled[o] \/ ~plugged[o])
    BY <1>0, <1>4, <2>1 DEF CallbackSubmits, UsbTypes
  <2> HIDE DEF b, o
  <2>3. thread[o] \notin {"none", "start"} /\ ~cancelled[o]
    BY <1>0, <2>1 DEF ThreadPlaced
  <2>4. ASSUME NEW e \in Devices
        PROVE  /\ thread'[e] = thread[e] \/ (thread[e] \in {"events", "drain"} /\ thread'[e] = "loop")
               /\ cancelled'[e] => transfer'[e] = "none"
               /\ thread[e] \in {"none", "start"} => transfer'[e] = "none" /\ ~cancelled'[e]
               /\ cancelled[e] => cancelled'[e]
    <3>1. CASE e = o
      BY <1>0, <1>r, <2>1, <2>2, <2>3, <3>1
    <3>2. CASE e # o
      BY <1>0, <1>r, <2>1, <2>2, <3>2 DEF ThreadPlaced
    <3> QED
      BY <3>1, <3>2
  <2>5. ThreadPlaced'
    BY <1>0, <2>2, <2>4 DEF ThreadPlaced
  <2> QED
    BY <2>2, <2>5 DEF Placed, HandlerPlaced
<1> QED
  BY <1>1, <1>2, <1>3, <1>4 DEF Callback
-----------------------------------------------------------------------------
(***************************************************************************)
(* Every step keeps the reports.                                           *)
(***************************************************************************)
Data == DataTypes /\ Fresh /\ QueueKept

\* What return_data leaves.
LEMMA ReturnsKeeps ==
  ASSUME TypeOK, Data, NEW d \in Devices, queue[d] # <<>>, Returns(d),
         UNCHANGED <<handle, handler>>
  PROVE  Data'
<1>0. DataTypes /\ Fresh /\ QueueKept /\ queue[d] \in Seq(Nat) /\ last[d] \in Nat
  BY DEF Data, DataTypes
<1>1. /\ queue' = [queue EXCEPT ![d] = Tail(queue[d])]
      /\ last' = [last EXCEPT ![d] = Head(queue[d])] /\ received' = received
  BY DEF Returns
<1>2. Len(queue[d]) <= MaxQueued + 2 /\ MaxQueued \in Nat
  BY <1>0, HidAssumption DEF DataTypes
<1>3. /\ Head(queue[d]) \in Nat /\ Tail(queue[d]) \in Seq(Nat)
      /\ Len(Tail(queue[d])) <= MaxQueued + 2
      /\ handle[d] = "open" => Kept(Tail(queue[d]), Head(queue[d]), received[d] - Held(d))
  <2>1. /\ Head(queue[d]) \in Nat /\ Tail(queue[d]) \in Seq(Nat)
        /\ Len(Tail(queue[d])) <= MaxQueued + 2
    BY <1>0, <1>2
  <2>2. handle[d] = "open" => Kept(queue[d], last[d], received[d] - Held(d))
    BY <1>0 DEF QueueKept
  <2>3. handle[d] = "open" => Kept(Tail(queue[d]), Head(queue[d]), received[d] - Held(d))
    BY <1>0, <1>2, <2>2, Taken
  <2> QED
    BY <2>1, <2>3
<1>4. /\ queue'[d] = Tail(queue[d]) /\ last'[d] = Head(queue[d])
      /\ \A e \in Devices \ {d} : queue'[e] = queue[e] /\ last'[e] = last[e]
      /\ queue' \in [Devices -> Seq(Nat)] /\ last' \in [Devices -> Nat]
  BY <1>0, <1>1, <1>3 DEF DataTypes
<1>5. DataTypes'
  BY <1>0, <1>1, <1>3, <1>4 DEF DataTypes
<1>6. Fresh'
  BY <1>0, <1>1, <1>4 DEF Fresh
<1>7. \A e \in Devices : Held(e)' = Held(e)
  BY DEF Held
<1>8. ASSUME NEW e \in Devices, handle[e] = "open"
      PROVE  Kept(queue'[e], last'[e], received[e] - Held(e))
  BY <1>0, <1>3, <1>4, <1>8 DEF QueueKept
<1>9. QueueKept'
  BY <1>1, <1>7, <1>8 DEF QueueKept
<1> QED
  BY <1>5, <1>6, <1>9 DEF Data

\* A step that leaves the reports alone, and the callback that has one.
LEMMA NoReportMoves ==
  ASSUME TypeOK, Placed, Data, UNCHANGED dataVars,
         \A d \in Devices : Held(d)' = Held(d),
         \A d \in Devices : handle'[d] = handle[d]
                            \/ (handle[d] = "new" /\ handle'[d] = "open")
  PROVE  Data'
<1>0. DataTypes /\ Fresh /\ QueueKept /\ UNCHANGED <<queue, received, last>>
  BY DEF Data, dataVars
<1>1. DataTypes' /\ Fresh'
  BY <1>0 DEF DataTypes, Fresh
<1>2. ASSUME NEW d \in Devices, handle'[d] = "open"
      PROVE  Kept(queue[d], last[d], received[d] - Held(d))
  <2>1. CASE handle[d] = "open"
    BY <1>0, <2>1 DEF QueueKept
  <2>2. CASE handle[d] = "new"
    <3>1. queue[d] = <<>> /\ received[d] = 0 /\ last[d] = 0
      BY <1>0, <2>2 DEF Fresh
    <3>2. Held(d) = 0
      BY <2>2 DEF Held, Placed, ThreadPlaced, HandlerPlaced
    <3>3. Rising(<<>>)
      BY DEF Rising
    <3> QED
      BY <3>1, <3>2, <3>3 DEF Kept
  <2> QED
    BY <1>2, <2>1, <2>2
<1> QED
  BY <1>0, <1>1, <1>2 DEF QueueKept, Data

LEMMA ClientKeepsReports ==
  ASSUME TypeOK, Placed, Data, NEW d \in Devices, NEW mode \in {"poll", "timed", "block"},
         \/ OpenDevice(d) \/ CloseDevice(d) \/ CloseCancels \/ CloseFrees
         \/ Read(d, mode) \/ ReadWakes \/ ReadTimesOut
  PROVE  Data'
<1>0. /\ UsbTypes /\ DataTypes /\ handler \in HandlerSet /\ client \in ClientSet
  BY Typed
<1>1. CASE OpenDevice(d)
  <2>1. /\ UNCHANGED <<dataVars, handler>>
        /\ \A e \in Devices : handle'[e] = handle[e] \/ (handle[e] = "new" /\ handle'[e] = "open")
    BY <1>0, <1>1 DEF OpenDevice, UsbTypes
  <2> QED
    BY <2>1, NoReportMoves DEF Held
<1>2. CASE CloseDevice(d) \/ CloseCancels \/ ReadTimesOut
  <2>1. UNCHANGED <<dataVars, handler, handle>>
    BY <1>2 DEF CloseDevice, CloseCancels, ReadTimesOut, usbVars
  <2> QED
    BY <2>1, NoReportMoves DEF Held
<1>3. CASE CloseFrees
  <2> DEFINE e == client.dev
  <2>1. /\ e \in Devices /\ handle'[e] = "closed" /\ queue'[e] = <<>> /\ last'[e] = 0
        /\ \A f \in Devices \ {e} : handle'[f] = handle[f] /\ queue'[f] = queue[f] /\ last'[f] = last[f]
        /\ UNCHANGED <<received, handler>>
        /\ queue' \in [Devices -> Seq(Nat)] /\ last' \in [Devices -> Nat]
    <3>1. e \in Devices
      BY <1>0, <1>3, ClientTypes DEF CloseFrees
    <3>2. <<>> \in Seq(Nat)
      OBVIOUS
    <3> QED
      BY <1>0, <1>3, <3>1, <3>2 DEF CloseFrees, UsbTypes, DataTypes, usbVars
  <2> HIDE DEF e
  <2>2. DataTypes'
    <3>1. Len(<<>>) = 0 /\ 0 <= MaxQueued + 2
      BY HidAssumption
    <3>2. ASSUME NEW f \in Devices
          PROVE  Len(queue'[f]) <= MaxQueued + 2
      <4>1. CASE f = e
        BY <2>1, <3>1, <4>1
      <4>2. CASE f # e
        BY <1>0, <2>1, <4>2 DEF DataTypes
      <4> QED
        BY <4>1, <4>2
    <3> QED
      BY <1>0, <2>1, <3>2 DEF DataTypes
  <2>3. Fresh'
    BY <2>1 DEF Data, Fresh
  <2>4. \A f \in Devices : Held(f)' = Held(f)
    BY <2>1 DEF Held
  <2>5. QueueKept'
    BY <2>1, <2>4 DEF Data, QueueKept
  <2> QED
    BY <2>2, <2>3, <2>5 DEF Data
<1>4. CASE Read(d, mode) \/ ReadWakes
  <2>1. PICK e \in Devices : /\ IF queue[e] # <<>> THEN Returns(e) ELSE UNCHANGED dataVars
                             /\ UNCHANGED <<handle, handler>>
    <3>1. CASE Read(d, mode)
      BY <3>1 DEF Read, usbVars
    <3>2. CASE ReadWakes
      BY <1>0, <3>2, ClientTypes DEF ReadWakes, usbVars
    <3> QED
      BY <1>4, <3>1, <3>2
  <2>2. CASE queue[e] # <<>>
    BY <2>1, <2>2, ReturnsKeeps
  <2>3. CASE queue[e] = <<>>
    BY <2>1, <2>3, NoReportMoves DEF Held
  <2> QED
    BY <2>2, <2>3
<1> QED
  BY <1>1, <1>2, <1>3, <1>4

LEMMA ThreadKeepsReports ==
  ASSUME TypeOK, Placed, Data, NEW d \in Devices, Unplug(d) \/ Thread(d) \/ ThreadGivesUp(d)
  PROVE  Data'
<1>1. UNCHANGED <<dataVars, handler, handle>>
  BY DEF Unplug, Thread, ThreadGivesUp, ThreadStarts, ThreadChecks, ThreadReturns, ThreadCancels,
         ThreadDrained, ThreadWakes, usbVars
<1> QED
  BY <1>1, NoReportMoves DEF Held

LEMMA CallbackKeepsReports ==
  ASSUME TypeOK, Placed, Data, NEW r \in Devices, NEW d \in Devices,
         \/ CallbackData(r, d) \/ CallbackTimeout(r, d) \/ CallbackEnds(r, d) \/ Callback
  PROVE  Data'
<1>0. /\ UsbTypes /\ DataTypes /\ handler \in HandlerSet /\ Fresh /\ QueueKept
      /\ ThreadPlaced /\ HandlerPlaced
  BY Typed DEF Data, Placed
<1>1. CASE CallbackData(r, d)
  <2>1. /\ UNCHANGED <<queue, last, handle>> /\ transfer[d] = "flying"
        /\ handler = NoHandler /\ handler' = [at |-> "append", by |-> r, of |-> d]
        /\ received'[d] = received[d] + 1 /\ received' \in [Devices -> Nat]
        /\ \A e \in Devices \ {d} : received'[e] = received[e]
    BY <1>0, <1>1 DEF CallbackData, MayHandle, DataTypes
  <2>2. /\ \A e \in Devices : Held(e) = 0
        /\ \A e \in Devices \ {d} : Held(e)' = 0
        /\ Held(d)' = 1
    BY <2>1 DEF Held, NoHandler
  <2>3. handle[d] # "new"
    BY <1>0, <2>1 DEF ThreadPlaced
  <2>4. DataTypes' /\ Fresh'
    BY <1>0, <2>1, <2>3 DEF DataTypes, Fresh
  <2>5. ASSUME NEW e \in Devices
        PROVE  received'[e] - Held(e)' = received[e] - Held(e)
    <3>1. received[e] \in Nat
      BY <1>0 DEF DataTypes
    <3>2. CASE e = d
      BY <2>1, <2>2, <3>1, <3>2
    <3>3. CASE e # d
      BY <2>1, <2>2, <3>3
    <3> QED
      BY <3>2, <3>3
  <2>6. QueueKept'
    BY <1>0, <2>1, <2>5 DEF QueueKept
  <2> QED
    BY <2>4, <2>6 DEF Data
<1>2. CASE CallbackTimeout(r, d)
  <2>1. /\ UNCHANGED <<dataVars, handle>>
        /\ handler = NoHandler /\ handler' = [at |-> "submit", by |-> r, of |-> d]
    BY <1>2 DEF CallbackTimeout, MayHandle
  <2>2. \A e \in Devices : Held(e)' = Held(e)
    BY <2>1 DEF Held
  <2> QED
    BY <2>1, <2>2, NoReportMoves
<1>3. CASE CallbackEnds(r, d)
  <2>1. UNCHANGED <<dataVars, handle, handler>>
    BY <1>3 DEF CallbackEnds
  <2> QED
    BY <2>1, NoReportMoves DEF Held
<1>4. CASE CallbackSubmits
  <2>1. UNCHANGED <<dataVars, handle>> /\ handler' = NoHandler /\ handler.at = "submit"
    BY <1>4 DEF CallbackSubmits
  <2>2. \A e \in Devices : Held(e)' = Held(e)
    BY <2>1 DEF Held
  <2> QED
    BY <2>1, <2>2, NoReportMoves
<1>5. CASE CallbackAppends
  <2> DEFINE o == handler.of
             new == Queued(queue[o], received[o])
  <2>1. /\ handler # NoHandler /\ handler.at = "append" /\ o \in Devices /\ transfer[o] = "callback"
    BY <1>0, <1>5, HandlerTypes DEF CallbackAppends, HandlerPlaced
  <2>2. handle[o] = "open"
    BY <1>0, <2>1 DEF ThreadPlaced, UsbTypes
  <2>3. /\ queue' = [queue EXCEPT ![o] = new] /\ UNCHANGED <<received, last, handle>>
        /\ handler' # NoHandler /\ handler'.at = "submit"
    BY <1>0, <1>5, HandlerTypes DEF CallbackAppends
  <2>4. /\ queue[o] \in Seq(Nat) /\ Len(queue[o]) <= MaxQueued + 2
        /\ received[o] \in Nat /\ last[o] \in Nat
    BY <1>0, <2>1 DEF DataTypes
  <2>5. (\A e \in Devices : Held(e)' = 0) /\ Held(o) = 1 /\ \A e \in Devices \ {o} : Held(e) = 0
    BY <2>1, <2>3 DEF Held
  <2>6. Kept(queue[o], last[o], received[o] - 1)
    BY <1>0, <2>1, <2>2, <2>5 DEF QueueKept
  <2>7. new \in Seq(Nat) /\ Len(new) <= MaxQueued + 2 /\ Kept(new, last[o], received[o])
    BY <2>4, <2>6, Added
  <2> HIDE DEF new, o
  <2>8. /\ queue' \in [Devices -> Seq(Nat)] /\ queue'[o] = new
        /\ \A e \in Devices \ {o} : queue'[e] = queue[e]
    BY <1>0, <2>1, <2>3, <2>7 DEF DataTypes
  <2>9. DataTypes'
    BY <1>0, <2>1, <2>3, <2>7, <2>8 DEF DataTypes
  <2>10. Fresh'
    BY <1>0, <2>2, <2>3, <2>8 DEF Fresh
  <2>11. ASSUME NEW e \in Devices, handle[e] = "open"
         PROVE  Kept(queue'[e], last[e], received[e] - 0)
    <3>1. received[e] - 0 = received[e]
      BY <1>0 DEF DataTypes
    <3>2. CASE e = o
      BY <2>7, <2>8, <3>1, <3>2
    <3>3. CASE e # o
      BY <1>0, <2>5, <2>8, <2>11, <3>3 DEF QueueKept
    <3> QED
      BY <3>2, <3>3
  <2>12. QueueKept'
    BY <2>3, <2>5, <2>11 DEF QueueKept
  <2> QED
    BY <2>9, <2>10, <2>12 DEF Data
<1> QED
  BY <1>1, <1>2, <1>3, <1>4, <1>5 DEF Callback

-----------------------------------------------------------------------------
LEMMA Together ==
  ASSUME UsbTypes', handler' \in HandlerSet, client' \in ClientSet, Placed', Data'
  PROVE  IInv'
BY DEF IInv, TypeOK, UsbTypes, Placed, Data, DataTypes, HandlerSet, ClientSet

\* Every step keeps the invariant.
THEOREM Inductive == IInv /\ [Next]_vars => IInv'
<1> SUFFICES ASSUME IInv, [Next]_vars PROVE IInv'
  OBVIOUS
<1>0. TypeOK /\ Placed /\ Data
  BY Typed DEF IInv, Placed, Data
<1>1. CASE Client \/ ClientGoesOn
  <2>1. PICK d \in Devices, mode \in {"poll", "timed", "block"} :
          \/ OpenDevice(d) \/ CloseDevice(d) \/ CloseCancels \/ CloseFrees
          \/ Read(d, mode) \/ ReadWakes \/ ReadTimesOut
    <3>1. CASE \E d \in Devices : OpenDevice(d) \/ CloseDevice(d)
      BY <3>1
    <3>2. CASE \E d \in Devices, mode \in {"poll", "timed", "block"} : Read(d, mode)
      BY <3>2
    <3>3. CASE ReadTimesOut \/ ReadWakes \/ CloseCancels \/ CloseFrees
      <4>1. client.dev \in Devices
        BY <1>0, <3>3, Typed, ClientTypes DEF ReadTimesOut, ReadWakes, CloseCancels, CloseFrees
      <4> QED
        BY <3>3, <4>1
    <3> QED
      BY <1>1, <3>1, <3>2, <3>3 DEF Client, ClientGoesOn
  <2>2. UsbTypes' /\ handler' \in HandlerSet /\ client' \in ClientSet
    BY <1>0, <2>1, ClientActionTypes
  <2>3. Placed'
    BY <1>0, <2>1, ClientKeepsPlaces
  <2>4. Data'
    BY <1>0, <2>1, ClientKeepsReports
  <2> QED
    BY <2>2, <2>3, <2>4, Together
<1>2. CASE \E d \in Devices : Unplug(d) \/ Thread(d) \/ ThreadGivesUp(d)
  <2>1. UsbTypes' /\ handler' \in HandlerSet /\ client' \in ClientSet
    BY <1>0, <1>2, ThreadActionTypes
  <2>2. Placed'
    BY <1>0, <1>2, ThreadKeepsPlaces
  <2>3. Data'
    BY <1>0, <1>2, ThreadKeepsReports
  <2> QED
    BY <2>1, <2>2, <2>3, Together
<1>3. CASE Callback \/ \E r, d \in Devices : CallbackData(r, d) \/ CallbackTimeout(r, d) \/ CallbackEnds(r, d)
  <2>1. PICK r \in Devices, d \in Devices :
          \/ CallbackData(r, d) \/ CallbackTimeout(r, d) \/ CallbackEnds(r, d) \/ Callback
    <3>1. CASE Callback
      <4>1. handler.of \in Devices
        BY <1>0, <3>1, Typed, HandlerTypes DEF Callback, CallbackAppends, CallbackSubmits
      <4> QED
        BY <3>1, <4>1
    <3> QED
      BY <1>3, <3>1
  <2>2. UsbTypes' /\ handler' \in HandlerSet /\ client' \in ClientSet
    BY <1>0, <2>1, CallbackActionTypes
  <2>3. Placed'
    BY <1>0, <2>1, CallbackKeepsPlaces
  <2>4. Data'
    BY <1>0, <2>1, CallbackKeepsReports
  <2> QED
    BY <2>2, <2>3, <2>4, Together
<1>4. CASE UNCHANGED vars
  BY <1>0, <1>4 DEF IInv, TypeOK, Placed, ThreadPlaced, HandlerPlaced, Data, DataTypes, Fresh,
                    QueueKept, Held, vars, usbVars, dataVars
<1> QED
  BY <1>1, <1>2, <1>3, <1>4 DEF Next

LEMMA InitOK == Init => IInv
<1> SUFFICES ASSUME Init PROVE IInv
  OBVIOUS
<1>1. UsbTypes /\ handler \in HandlerSet /\ client \in ClientSet
  BY DEF Init, UsbTypes, HandlerSet, ClientSet
<1>2. DataTypes
  <2>1. <<>> \in Seq(Nat) /\ Len(<<>>) = 0 /\ 0 <= MaxQueued + 2
    BY HidAssumption
  <2> QED
    BY <2>1 DEF Init, DataTypes
<1>3. ThreadPlaced /\ HandlerPlaced /\ Fresh /\ QueueKept
  BY DEF Init, ThreadPlaced, HandlerPlaced, Fresh, QueueKept
<1> QED
  BY <1>1, <1>2, <1>3, Typed DEF IInv

\* Nothing uses a device that has been closed, and reports are read in their
\* order, none missing unless the queue overflowed: hid_close frees the device
\* when its own thread has ended, although read_callback may run in any thread.
THEOREM ReportsSafe == Spec => []ReportsKept
<1>1. IInv => ReportsKept
  <2> SUFFICES ASSUME IInv PROVE ReportsKept
    OBVIOUS
  <2>1. FreedUnused
    BY Typed, HandlerTypes DEF IInv, ThreadPlaced, HandlerPlaced, FreedUnused
  <2>2. NewestKept
    BY DEF IInv, QueueKept, Kept, Rising, Held, NewestKept, Newest
  <2> QED
    BY <2>1, <2>2 DEF IInv, ReportsKept
<1>2. Spec => []IInv
  BY InitOK, Inductive, PTL DEF Spec
<1> QED
  BY <1>1, <1>2, PTL
=============================================================================
