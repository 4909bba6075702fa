------------------------------- MODULE RiftS -------------------------------
(***************************************************************************)
(* The Oculus Rift S driver (drv_oculus_rift_s): up to three OpenHMD       *)
(* devices share one head unit that is polled by one of them, and the head *)
(* unit relays commands to its remotes one at a time.  Commands wait in a  *)
(* queue; the answer is polled until its busy flag is clear and its        *)
(* sequence number has changed, and the completion callback may queue the  *)
(* next command: this is how a remote's JSON calibration is read piece by  *)
(* piece.                                                                  *)
(*                                                                         *)
(* External: the head unit sets its busy flag when it accepts a command    *)
(* and a new command replaces an unfinished one.  Lengths and offsets are  *)
(* counted in units of half a piece.                                       *)
(***************************************************************************)
EXTENDS Integers, FiniteSets, SequencesExt

CONSTANTS
  Remotes,         \* the ids of the remotes that may report
  Lists,           \* the sets of remotes the devices list may name
  Hand,            \* Hand[r]: which hand the remote r is for
  MAX_CONTROLLERS, \* how many remotes the driver keeps
  BlockLen,        \* length of a remote's JSON block
  MaxFaults        \* bound: lost commands and odd replies

ASSUME RiftSAssumption ==
  /\ Hand \in [Remotes -> {"left", "right"}]
  /\ Lists \subseteq SUBSET Remotes
  /\ MAX_CONTROLLERS \in Nat \ {0}
  /\ BlockLen \in Nat \ {0}
  /\ MaxFaults \in Nat

VARIABLES
  opened,      \* ids of the open OpenHMD devices: 0 HMD, 1 left, 2 right
  use_count,   \* references to the head unit, 0: it is not open
  pc,          \* where update_hmd is
  controllers, \* the remotes known, in the order they were found
  touch,       \* device_num of the two touch devices, 0: none
  pending_commands, command_result_pending, last_radio_seqnum,
  unit,        \* the head unit's radio: busy, seqnum, command, answer
  faults,      \* how many commands were lost and replies were odd
  lostFirst,   \* this session's first command was lost
  odd          \* a reply of this session was short or malformed

radio == <<pending_commands, command_result_pending, last_radio_seqnum>>
vars == <<opened, use_count, pc, controllers, touch, pending_commands,
          command_result_pending, last_radio_seqnum, unit, faults, lostFirst, odd>>

Piece == 2                     \* 0x20 bytes: the most one reply carries
Hands == {"left", "right"}
Nobody == "nobody"
NoCommand == [to |-> Nobody, kind |-> "none", at |-> 0, len |-> 0]
Seqnums == 0 .. 1              \* an 8-bit counter, cut to two values

\* A reply: the command it answers and, of a JSON command, the units carried.
Reply(cmd, units) == [of |-> cmd, units |-> units]

NewController(r) ==
  [id |-> r, type |-> "unknown", config |-> NoCommand, calibration |-> <<>>,
   block_len |-> 0, cur_offset |-> 0, data |-> <<>>]

NoController == 0
Known(r) == \E i \in DOMAIN controllers : controllers[i].id = r
IndexOf(r) == CHOOSE i \in DOMAIN controllers : controllers[i].id = r

Init ==
  /\ opened = {} /\ use_count = 0
  /\ pc = "idle"
  /\ controllers = <<>>
  /\ touch = [h \in Hands |-> NoController]
  /\ pending_commands = <<>> /\ command_result_pending = FALSE
  /\ last_radio_seqnum = -1
  /\ unit = [busy |-> FALSE, seqnum |-> 0, cmd |-> NoCommand, reply |-> Reply(NoCommand, <<>>)]
  /\ faults = 0 /\ lostFirst = FALSE /\ odd = FALSE

(***************************************************************************)
(* Opening and closing: find_hmd, open_hmd, release_hmd, close_hmd.        *)
(***************************************************************************)
RadioStateInit ==
  /\ pending_commands' = <<>> /\ command_result_pending' = FALSE
  /\ last_radio_seqnum' = -1

\* ohmd_alloc clears the head unit: nothing of an earlier session survives.
OpenHmd ==
  /\ RadioStateInit
  /\ controllers' = <<>>
  /\ touch' = [h \in Hands |-> NoController]
  /\ lostFirst' = FALSE /\ odd' = FALSE

OpenDevice(id) ==
  /\ pc = "idle" /\ id \notin opened
  /\ \/ /\ use_count > 0
        /\ use_count' = use_count + 1
        /\ opened' = opened \cup {id}
        /\ UNCHANGED <<controllers, touch, radio, lostFirst, odd>>
     \/ /\ use_count = 0
        /\ OpenHmd
        /\ use_count' = 1
        /\ opened' = {id}
     \/ /\ use_count = 0         \* a handle, a block or the enabling failed
        /\ UNCHANGED <<opened, use_count, controllers, touch, radio, lostFirst, odd>>
  /\ UNCHANGED <<pc, unit, faults>>

\* rift_s_radio_state_clear: the commands left are told of their failure,
\* which their owners only note; the head unit is not stopped.
ReleaseHmd ==
  IF use_count > 1
  THEN /\ use_count' = use_count - 1
       /\ UNCHANGED <<controllers, touch, radio>>
  ELSE /\ use_count' = 0
       /\ controllers' = <<>>
       /\ touch' = [h \in Hands |-> NoController]
       /\ RadioStateInit

CloseDevice(id) ==
  /\ pc = "idle" /\ id \in opened
  /\ opened' = opened \ {id}
  /\ ReleaseHmd
  /\ UNCHANGED <<pc, unit, faults, lostFirst, odd>>

(***************************************************************************)
(* update_device: of the open devices only the one of lowest id polls.     *)
(***************************************************************************)
Polls(id) ==
  /\ id \in opened
  /\ id = 2 => opened \cap {0, 1} = {}
  /\ id = 1 => 0 \notin opened

UpdateDevice(id) ==
  /\ pc = "idle" /\ Polls(id)
  /\ pc' = "reports"
  /\ UNCHANGED <<opened, use_count, controllers, touch, radio, unit, faults, lostFirst, odd>>

(***************************************************************************)
(* Reports of remotes: rift_s_handle_controller_report.                    *)
(***************************************************************************)
\* update_device_types with the records listed for the remotes in `listed`:
\* a type is stored where it differs, and a touch device bound with it.
Typed(known, listed) ==
  [i \in DOMAIN known |->
     IF known[i].id \in listed
     THEN [known[i] EXCEPT !.type = Hand[known[i].id]] ELSE known[i]]

\* Of the records that are new for a hand the last one listed binds it.
NewFor(known, listed, h) ==
  {i \in DOMAIN known : known[i].id \in listed /\ Hand[known[i].id] = h /\ known[i].type # h}
\* mutant: the index in the list of records is taken for the controller's
Bound_Index(known, listed) ==
  {[h \in Hands |-> IF NewFor(known, listed, h) = {} THEN touch[h] ELSE 1]}

Bound(known, listed) ==
  {t \in [Hands -> 0 .. MAX_CONTROLLERS] :
     \A h \in Hands : IF NewFor(known, listed, h) = {}
                      THEN t[h] = touch[h] ELSE t[h] \in NewFor(known, listed, h)}

ConfigCommand(r) == [to |-> r, kind |-> "config", at |-> 0, len |-> 0]
JsonCommand(r, at, len) == [to |-> r, kind |-> "json", at |-> at, len |-> len]

\* get_controller_configuration: the configuration and the JSON header.
Wanted(r) == <<ConfigCommand(r), JsonCommand(r, 0, Piece)>>

\* `listed`: the remotes with a record in the devices list, {} also when
\* the list cannot be read, which happens while the head unit is starting.
\* A remote beyond MAX_CONTROLLERS is ignored: nothing changes.  The list read
\* once more for a remote that stays unknown is that of the next report.
HandleControllerReport(r, listed) ==
  /\ pc = "reports"
  /\ \/ /\ ~Known(r) /\ Len(controllers) < MAX_CONTROLLERS
        /\ LET added == Append(controllers, NewController(r))
           IN /\ controllers' = Typed(added, listed)
              /\ touch' \in Bound(added, listed)
        /\ pending_commands' = pending_commands \o Wanted(r)
     \/ /\ Known(r)
        /\ IF controllers[IndexOf(r)].type = "unknown"
           THEN /\ controllers' = Typed(controllers, listed)
                /\ touch' \in Bound(controllers, listed)
           ELSE UNCHANGED <<controllers, touch>>
        /\ UNCHANGED pending_commands
  /\ UNCHANGED <<opened, use_count, pc, command_result_pending, last_radio_seqnum,
                 unit, faults, lostFirst, odd>>

(***************************************************************************)
(* rift_s_radio_update: send the head of the queue, poll for the answer.   *)
(***************************************************************************)
\* Where the loop goes: poll for the answer awaited, send what is queued, or
\* leave, as there is nothing to do right now.
LoopTo(waiting, queue) ==
  IF waiting THEN "poll" ELSE IF queue = <<>> THEN "idle" ELSE "send"

ReportsEnd ==
  /\ pc = "reports"
  /\ pc' = LoopTo(command_result_pending, pending_commands)
  /\ UNCHANGED <<opened, use_count, controllers, touch, radio, unit, faults, lostFirst, odd>>

\* The result of hid_send_feature_report is not looked at.
SendCommand ==
  /\ pc = "send"
  /\ command_result_pending' = TRUE
  /\ pc' = "poll"
  /\ \/ /\ unit' = [unit EXCEPT !.busy = TRUE, !.cmd = Head(pending_commands)]
        /\ UNCHANGED <<faults, lostFirst>>
     \/ /\ faults < MaxFaults
        /\ faults' = faults + 1
        /\ lostFirst' = (lostFirst \/ last_radio_seqnum = -1)
        /\ UNCHANGED unit
  /\ UNCHANGED <<opened, use_count, controllers, touch, pending_commands,
                 last_radio_seqnum, odd>>

\* The answer is there when the busy flag is clear and the number is new.
Answered == ~unit.busy /\ unit.seqnum # last_radio_seqnum

PollInVain ==
  /\ pc = "poll"
  /\ pc' = "idle"
  /\ \/ UNCHANGED last_radio_seqnum             \* the HID read failed
     \/ /\ ~Answered
        /\ last_radio_seqnum' = IF unit.busy THEN unit.seqnum ELSE last_radio_seqnum
  /\ UNCHANGED <<opened, use_count, controllers, touch, pending_commands,
                 command_result_pending, unit, faults, lostFirst, odd>>

(***************************************************************************)
(* Completion callbacks: ctrl_config_cb, read_json_cb and ctrl_json_cb.    *)
(* Each returns the controller and the commands to be queued.              *)
(***************************************************************************)
\* A configuration of less than its 16 bytes is not stored.
ConfigDone(c, reply) ==
  [ctrl |-> IF Len(reply.units) < Piece THEN c ELSE [c EXCEPT !.config = reply.of],
   more |-> <<>>]

Smaller(a, b) == IF a < b THEN a ELSE b

\* mutant: the offset stays
NextPiece_Same(c) ==
  [ctrl |-> c,
   more |-> <<JsonCommand(c.id, c.cur_offset, Smaller(Piece, c.block_len - Len(c.data)))>>]

\* mutant: a whole piece is asked for, only the first time
NextPiece_Once(c) ==
  [ctrl |-> [c EXCEPT !.cur_offset = @ + Piece],
   more |-> IF Len(c.data) = 0 THEN <<JsonCommand(c.id, c.cur_offset, Piece)>> ELSE <<>>]

\* Ask for the rest of the block, a piece at most, at the current offset;
\* the offset moves on by what is asked for, however much will come.
NextPiece(c) ==
  LET len == Smaller(Piece, c.block_len - Len(c.data))
  IN [ctrl |-> [c EXCEPT !.cur_offset = @ + len],
      more |-> <<JsonCommand(c.id, c.cur_offset, len)>>]

\* The reading ends.  The JSON text is refused when it is empty; one of the
\* full length is taken to parse, the worse case when it has a hole.
BlockDone(c, data) ==
  [ctrl |-> [c EXCEPT !.data = <<>>, !.calibration = IF data = <<>> THEN @ ELSE data],
   more |-> <<>>]

\* The first reply is the header.  With a bad one the calibration is told
\* that it succeeded, and gets an empty text.
JsonHeader(c, reply) ==
  IF reply.of.kind = "json" /\ reply.of.at = 0 /\ Len(reply.units) = Piece
  THEN NextPiece([c EXCEPT !.block_len = BlockLen, !.cur_offset = 1])
  ELSE BlockDone(c, <<>>)

\* What a reply carries beyond the end of the block is cut off; one without
\* even its header ends the reading, with a text that does not parse.
JsonPiece(c, reply) ==
  LET remain == c.block_len - Len(c.data)
      data == c.data \o SubSeq(reply.units, 1, Smaller(Len(reply.units), remain))
  IN CASE reply.units = <<>> -> BlockDone(c, <<>>)
       [] reply.units # <<>> /\ Len(data) >= c.block_len -> BlockDone(c, data)
       [] OTHER -> NextPiece([c EXCEPT !.data = data])

Completed(c, cmd, reply) ==
  CASE cmd.kind = "config" -> ConfigDone(c, reply)
    [] cmd.kind = "json" /\ c.cur_offset = 0 -> JsonHeader(c, reply)
    [] OTHER -> JsonPiece(c, reply)

\* The head is taken off before its callback appends to the queue.
PollAnswered ==
  /\ pc = "poll" /\ Answered
  /\ LET cmd == Head(pending_commands)
         i == IndexOf(cmd.to)
         result == Completed(controllers[i], cmd, unit.reply)
     IN /\ controllers' = [controllers EXCEPT ![i] = result.ctrl]
        /\ pending_commands' = Tail(pending_commands) \o result.more
  /\ last_radio_seqnum' = unit.seqnum
  /\ command_result_pending' = FALSE
  /\ pc' = LoopTo(FALSE, pending_commands')
  /\ UNCHANGED <<opened, use_count, touch, unit, faults, lostFirst, odd>>

(***************************************************************************)
(* The head unit (external): it answers the last command it accepted.      *)
(***************************************************************************)
\* A JSON reply always carries a whole piece of the remote's storage.
Carried(cmd) ==
  [k \in 1 .. Piece |-> IF cmd.kind = "json" THEN <<cmd.to, cmd.at + k - 1>> ELSE <<cmd.to, 0>>]

UnitAnswers ==
  /\ unit.busy
  /\ \E n \in 0 .. Piece :
       /\ n < Piece => faults < MaxFaults
       /\ faults' = IF n < Piece THEN faults + 1 ELSE faults
       /\ odd' = (odd \/ n < Piece)
       /\ unit' = [unit EXCEPT !.busy = FALSE, !.cmd = NoCommand, !.seqnum = (@ + 1) % Cardinality(Seqnums),
                               !.reply = Reply(unit.cmd, SubSeq(Carried(unit.cmd), 1, n))]
  /\ UNCHANGED <<opened, use_count, pc, controllers, touch, radio, lostFirst>>

Next ==
  \/ \E id \in 0 .. 2 : OpenDevice(id) \/ CloseDevice(id) \/ UpdateDevice(id)
  \/ \E r \in Remotes, listed \in Lists : HandleControllerReport(r, listed)
  \/ ReportsEnd \/ SendCommand \/ PollInVain \/ PollAnswered
  \/ UnitAnswers

Spec == Init /\ [][Next]_vars

\* Fairness: the program keeps updating its devices (OhmdContext's thread
\* does), an HID read does not fail for ever, a remote that was heard keeps
\* reporting and is listed some time, and the head unit answers.
FairSpec ==
  /\ Spec
  /\ WF_vars(\E id \in 0 .. 2 : UpdateDevice(id))
  /\ WF_vars(ReportsEnd \/ SendCommand \/ PollInVain)
  /\ SF_vars(PollAnswered)
  /\ WF_vars(UnitAnswers)
  /\ \A r \in Remotes : 
       SF_vars(Known(r) /\ \E listed \in Lists : r \in listed /\ HandleControllerReport(r, listed))

(***************************************************************************)
(* Properties.                                                             *)
(***************************************************************************)
Asked ==
  {ConfigCommand(r) : r \in Remotes}
  \cup [to : Remotes, kind : {"json"}, at : Nat, len : 0 .. Piece]
Commands == {NoCommand} \cup Asked
Units == Remotes \X Nat
Controllers ==
  [id : Remotes, type : {"unknown"} \cup Hands, config : Commands, calibration : Seq(Units),
   block_len : {0, BlockLen}, cur_offset : Nat, data : Seq(Units)]

\* Type invariant: one reference per open device, at most one command
\* waiting for its answer, and every queued command is of a known remote.
TypeOK ==
  /\ opened \subseteq 0 .. 2 /\ use_count = Cardinality(opened)
  /\ pc \in {"idle", "reports", "send", "poll"}
  /\ pc # "idle" => use_count > 0
  /\ controllers \in Seq(Controllers) /\ Len(controllers) <= MAX_CONTROLLERS
  /\ touch \in [Hands -> 0 .. MAX_CONTROLLERS]
  /\ pending_commands \in Seq(Asked)
  /\ \A k \in DOMAIN pending_commands : Known(pending_commands[k].to)
  /\ command_result_pending \in BOOLEAN
  /\ command_result_pending => pending_commands # <<>>
  /\ pc = "poll" => command_result_pending
  /\ pc = "send" => ~command_result_pending /\ pending_commands # <<>>
  /\ last_radio_seqnum \in Seqnums \cup {-1}
  /\ unit \in [busy : BOOLEAN, seqnum : Seqnums, cmd : Commands,
               reply : [of : Commands, units : Seq(Units)]]
  /\ unit.busy => unit.cmd \in Asked
  /\ faults \in 0 .. MaxFaults
  /\ lostFirst \in BOOLEAN /\ odd \in BOOLEAN

\* Whichever devices are open and in whatever order they were closed, each
\* round of updates polls the head unit exactly once: never twice, which
\* would halve the time between samples, and never not at all.
PolledOnce == opened # {} => Cardinality({id \in 0 .. 2 : Polls(id)}) = 1

\* A touch device shows the state of a remote of its own hand, and each
\* remote whose type is known is shown, unless another of that hand is.
TouchOfItsHand ==
  \A h \in Hands :
    /\ touch[h] # NoController => controllers[touch[h]].type = h
    /\ (\E i \in DOMAIN controllers : controllers[i].type = h) => touch[h] # NoController

\* What a remote is calibrated with was sent by that remote in answer to
\* that request: the sequence number ties answers to commands across
\* remotes, failed reads and sessions.  Only when the very first command of
\* a session is lost is an older answer taken for its own.
AnswersAreOwn ==
  ~lostFirst => \A i \in DOMAIN controllers :
    LET c == controllers[i]
    IN /\ c.config \in {NoCommand, ConfigCommand(c.id)}
       /\ \A k \in DOMAIN c.calibration : c.calibration[k][1] = c.id

\* A calibration that is in use is the whole block, each unit once and in
\* its place, provided that no reply was shorter than asked for.
CalibrationWhole ==
  ~odd /\ ~lostFirst => \A i \in DOMAIN controllers :
    controllers[i].calibration # <<>> =>
      controllers[i].calibration = [k \in 1 .. BlockLen |-> <<controllers[i].id, k>>]

\* A remote that was heard gets its hand, its configuration and its
\* calibration, whatever else is queued, unless the devices are closed or
\* a command or a reply went wrong: those are not asked for again.
RemotesComeUp ==
  \A r \in Remotes : Known(r) ~>
    \/ faults > 0
    \/ use_count = 0
    \/ Known(r) /\ LET c == controllers[IndexOf(r)]
                   IN c.type = Hand[r] /\ c.config # NoCommand /\ c.calibration # <<>>

-----------------------------------------------------------------------------
\* A remote is calibrated with the whole of its own calibration.
CalibratedByOwn == TypeOK /\ AnswersAreOwn /\ CalibrationWhole

\* The devices share the head unit and its remotes rightly.
HeadUnitShared == PolledOnce /\ TouchOfItsHand
=============================================================================
