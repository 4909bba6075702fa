---------------------------- MODULE RiftS_proofs ----------------------------
(***************************************************************************)
(* Proofs about RiftS: the devices share the head unit rightly, and the    *)
(* answers, pieces and calibrations of the remotes are never mixed up, for *)
(* any remotes, any length of the calibration and any number of faults.    *)
(***************************************************************************)
EXTENDS RiftS, FiniteSetTheorems, SequenceTheorems, TLAPS

\* A remote is listed once, and its type is that of its hand once it is known;
\* a touch device shows a remote that is listed.
Listed ==
  /\ \A i, j \in DOMAIN controllers : controllers[i].id = controllers[j].id => i = j
  /\ \A i \in DOMAIN controllers : controllers[i].type \in {"unknown", Hand[controllers[i].id]}
  /\ \A h \in Hands : touch[h] \in 0 .. Len(controllers)

\* The header of a remote's block has not been read, or the block is not
\* complete yet.
Partial(c) ==
  \/ c.cur_offset = 0 /\ c.block_len = 0 /\ c.data = <<>>
  \/ c.cur_offset >= 1 /\ c.block_len = BlockLen /\ Len(c.data) < BlockLen

Reading == \A i \in DOMAIN controllers : Partial(controllers[i])

\* What the head unit answers to a command, whole unless a reply was odd.
Answers(cmd, reply) ==
  /\ reply.of = cmd
  /\ \E n \in 0 .. Piece : reply.units = SubSeq(Carried(cmd), 1, n) /\ (~odd => n = Piece)

\* The sequence number differs from the last one only by the answer to the
\* command at the head of the queue, unless a session's first command was lost.
RadioOwn ==
  ~lostFirst =>
    IF command_result_pending
    THEN \/ unit.busy /\ unit.cmd = Head(pending_commands)
            /\ last_radio_seqnum \in {-1, unit.seqnum}
         \/ ~unit.busy /\ last_radio_seqnum = unit.seqnum
         \/ ~unit.busy /\ last_radio_seqnum # unit.seqnum
            /\ Answers(Head(pending_commands), unit.reply)
    ELSE last_radio_seqnum = -1 \/ (~unit.busy /\ last_radio_seqnum = unit.seqnum)

\* What a remote has been given so far is its own.
Own(c) ==
  /\ c.config \in {NoCommand, ConfigCommand(c.id)}
  /\ \A k \in DOMAIN c.data : c.data[k][1] = c.id
  /\ \A k \in DOMAIN c.calibration : c.calibration[k][1] = c.id

AllOwn == ~lostFirst => \A i \in DOMAIN controllers : Own(controllers[i])

\* The positions in the queue of the commands that read a remote's block.
JsonOf(r) == {k \in DOMAIN pending_commands : pending_commands[k].to = r
                                              /\ pending_commands[k].kind = "json"}

\* The block that is being read has no hole: at most one piece is asked for at
\* a time, the one that comes next, and the offset is already that of the one
\* after it.
Asking(c, cmd) ==
  \/ c.cur_offset = 0 /\ cmd = JsonCommand(c.id, 0, Piece)
  \/ /\ c.cur_offset >= 1 /\ cmd.at = Len(c.data) + 1
     /\ c.cur_offset = cmd.at + Smaller(Piece, BlockLen - Len(c.data))

Whole(r) == [k \in 1 .. BlockLen |-> <<r, k>>]

NoHole(c) ==
  /\ \A k \in DOMAIN c.data : c.data[k] = <<c.id, k>>
  /\ c.calibration # <<>> => c.calibration = Whole(c.id)

InPieces(c) ==
  /\ NoHole(c)
  /\ \A k \in JsonOf(c.id) : Asking(c, pending_commands[k])
  /\ \A k, l \in JsonOf(c.id) : k = l

AllInPieces == ~odd /\ ~lostFirst => \A i \in DOMAIN controllers : InPieces(controllers[i])

IInv ==
  /\ TypeOK /\ Listed /\ Reading /\ RadioOwn /\ AllOwn /\ AllInPieces /\ TouchOfItsHand
-----------------------------------------------------------------------------
(***************************************************************************)
(* Sequences, and what the completion callbacks return.                    *)
(***************************************************************************)
LEMMA Prefix ==
  ASSUME NEW S, NEW q \in Seq(S), NEW m \in 0 .. Len(q)
  PROVE  /\ SubSeq(q, 1, m) \in Seq(S) /\ Len(SubSeq(q, 1, m)) = m
         /\ \A j \in 1 .. m : SubSeq(q, 1, m)[j] = q[j]
<1>1. Len(q) \in Nat /\ \A j \in 1 .. Len(q) : q[j] \in S
  BY LenProperties, ElementOfSeq
<1>2. 1 \in Int /\ m \in Int /\ \A j \in 1 .. m : q[j] \in S
  BY <1>1
<1>3. /\ SubSeq(q, 1, m) \in Seq(S)
      /\ Len(SubSeq(q, 1, m)) = IF 1 <= m THEN m - 1 + 1 ELSE 0
      /\ \A j \in 1 .. m - 1 + 1 : SubSeq(q, 1, m)[j] = q[1 + j - 1]
  BY <1>2, SubSeqProperties
<1> DEFINE p == SubSeq(q, 1, m)
<1> HIDE DEF p
<1>4. p \in Seq(S) /\ Len(p) = m /\ \A j \in 1 .. m : p[j] = q[j]
  BY <1>1, <1>3 DEF p
<1> QED
  BY <1>4 DEF p

\* A sequence and what is put behind it.
LEMMA Joined ==
  ASSUME NEW S, NEW q \in Seq(S), NEW p \in Seq(S)
  PROVE  /\ q \o p \in Seq(S) /\ Len(q \o p) = Len(q) + Len(p)
         /\ Len(q) \in Nat /\ Len(p) \in Nat
         /\ \A j \in 1 .. Len(q) : (q \o p)[j] = q[j]
         /\ \A j \in Len(q) + 1 .. Len(q) + Len(p) : (q \o p)[j] = p[j - Len(q)]
<1>1. Len(q) \in Nat /\ Len(p) \in Nat
  BY LenProperties
<1>2. /\ q \o p \in Seq(S) /\ Len(q \o p) = Len(q) + Len(p)
      /\ \A j \in 1 .. Len(q) + Len(p) :
           (q \o p)[j] = IF j <= Len(q) THEN q[j] ELSE p[j - Len(q)]
  BY ConcatProperties
<1> DEFINE r == q \o p
<1> HIDE DEF r
<1>3. /\ \A j \in 1 .. Len(q) : r[j] = q[j]
      /\ \A j \in Len(q) + 1 .. Len(q) + Len(p) : r[j] = p[j - Len(q)]
  BY <1>1, <1>2 DEF r
<1> QED
  BY <1>1, <1>2, <1>3 DEF r

\* The head of a queue, and the others.
LEMMA Shifted ==
  ASSUME NEW S, NEW q \in Seq(S), q # <<>>
  PROVE  /\ Head(q) = q[1] /\ Head(q) \in S /\ Tail(q) \in Seq(S)
         /\ Len(q) \in Nat /\ Len(q) >= 1 /\ Len(Tail(q)) = Len(q) - 1
         /\ \A j \in 1 .. Len(q) - 1 : Tail(q)[j] = q[j + 1]
BY HeadTailProperties, LenProperties, EmptySeq

LEMMA IndexFound ==
  ASSUME NEW r, Known(r)
  PROVE  IndexOf(r) \in DOMAIN controllers /\ controllers[IndexOf(r)].id = r
BY DEF Known, IndexOf

LEMMA AskedIs ==
  ASSUME NEW c \in Asked
  PROVE  /\ c.to \in Remotes /\ c.kind \in {"config", "json"}
         /\ c.kind = "config" => c = ConfigCommand(c.to)
         /\ c.kind = "json" => c.at \in Nat /\ c.len \in 0 .. Piece
         /\ c \in Commands
<1>1. CASE \E r \in Remotes : c = ConfigCommand(r)
  BY <1>1 DEF ConfigCommand, Commands, Asked
<1>2. CASE c \in [to : Remotes, kind : {"json"}, at : Nat, len : 0 .. Piece]
  BY <1>2 DEF Commands, Asked
<1> QED
  BY <1>1, <1>2 DEF Asked

\* The next piece, of a block that is not complete.
LEMMA NextPieceIs ==
  ASSUME NEW c \in Controllers, c.block_len = BlockLen, Len(c.data) < BlockLen
  PROVE  LET len == Smaller(Piece, BlockLen - Len(c.data))
             to == NextPiece(c).ctrl
         IN  /\ len \in 1 .. Piece
             /\ to \in Controllers /\ to.id = c.id /\ to.type = c.type /\ to.config = c.config
             /\ to.calibration = c.calibration /\ to.block_len = c.block_len /\ to.data = c.data
             /\ to.cur_offset = c.cur_offset + len
             /\ NextPiece(c).more = <<JsonCommand(c.id, c.cur_offset, len)>>
             /\ JsonCommand(c.id, c.cur_offset, len) \in Asked
<1> DEFINE len == Smaller(Piece, BlockLen - Len(c.data))
           to == [c EXCEPT !.cur_offset = @ + len]
<1>1. c.cur_offset \in Nat /\ c.id \in Remotes /\ Len(c.data) \in Nat /\ BlockLen \in Nat
  <2>1. c.data \in Seq(Units) /\ c.cur_offset \in Nat /\ c.id \in Remotes
    BY DEF Controllers
  <2> QED
    BY <2>1, LenProperties, RiftSAssumption
<1>2. len \in 1 .. Piece
  BY <1>1 DEF Smaller, Piece
<1>3. /\ NextPiece(c).ctrl = to
      /\ NextPiece(c).more = <<JsonCommand(c.id, c.cur_offset, len)>>
  BY DEF NextPiece
<1> HIDE DEF len
<1>4. c.cur_offset + len \in Nat
  BY <1>1, <1>2 DEF Piece
<1>5. /\ to \in Controllers /\ to.id = c.id /\ to.type = c.type /\ to.config = c.config
      /\ to.calibration = c.calibration /\ to.block_len = c.block_len /\ to.data = c.data
      /\ to.cur_offset = c.cur_offset + len
  BY <1>4 DEF Controllers
<1>6. JsonCommand(c.id, c.cur_offset, len) \in Asked
  BY <1>1, <1>2 DEF JsonCommand, Asked, Piece
<1> HIDE DEF to
<1> QED
  BY <1>2, <1>3, <1>5, <1>6 DEF len

\* The reading ends.
LEMMA BlockDoneIs ==
  ASSUME NEW c \in Controllers, NEW d \in Seq(Units)
  PROVE  LET to == BlockDone(c, d).ctrl
         IN  /\ to \in Controllers /\ to.id = c.id /\ to.type = c.type /\ to.config = c.config
             /\ to.block_len = c.block_len /\ to.cur_offset = c.cur_offset
             /\ to.data = <<>>
             /\ to.calibration = IF d = <<>> THEN c.calibration ELSE d
             /\ BlockDone(c, d).more = <<>>
<1>1. <<>> \in Seq(Units)
  OBVIOUS
<1> QED
  BY <1>1 DEF BlockDone, Controllers
-----------------------------------------------------------------------------
Replies == [of : Commands, units : Seq(Units)]
Headed(c) == [c EXCEPT !.block_len = BlockLen, !.cur_offset = 1]
Taken(c, reply) == Smaller(Len(reply.units), c.block_len - Len(c.data))
Grown(c, reply) == c.data \o SubSeq(reply.units, 1, Taken(c, reply))

\* A completion callback does one of five things.
LEMMA CompletedIs ==
  ASSUME NEW c \in Controllers, Partial(c), NEW cmd \in Asked, NEW reply \in Replies
  PROVE  LET r == Completed(c, cmd, reply)
         IN  \/ /\ cmd.kind = "config" /\ r.more = <<>>
                /\ r.ctrl = c \/ r.ctrl = [c EXCEPT !.config = reply.of]
             \/ /\ cmd.kind = "json" /\ c.cur_offset = 0
                /\ r = NextPiece(Headed(c))
             \/ /\ cmd.kind = "json" /\ r = BlockDone(c, <<>>)
             \/ /\ cmd.kind = "json" /\ c.cur_offset >= 1
                /\ r = BlockDone(c, Grown(c, reply))
                /\ Len(Grown(c, reply)) >= BlockLen
             \/ /\ cmd.kind = "json" /\ c.cur_offset >= 1
                /\ r = NextPiece([c EXCEPT !.data = Grown(c, reply)])
                /\ ~(Len(Grown(c, reply)) >= BlockLen)
<1>1. CASE cmd.kind = "config"
  BY <1>1 DEF Completed, ConfigDone
<1>2. CASE cmd.kind = "json" /\ c.cur_offset = 0
  BY <1>2 DEF Completed, JsonHeader, Headed
<1>3. CASE cmd.kind = "json" /\ c.cur_offset # 0
  <2>1. /\ c.cur_offset >= 1 /\ c.block_len = BlockLen
        /\ Completed(c, cmd, reply) = JsonPiece(c, reply)
    BY <1>3 DEF Completed, Partial
  <2> DEFINE d == Grown(c, reply)
  <2>2. /\ reply.units = <<>> => JsonPiece(c, reply) = BlockDone(c, <<>>)
        /\ reply.units # <<>> /\ Len(d) >= c.block_len => JsonPiece(c, reply) = BlockDone(c, d)
        /\ reply.units # <<>> /\ ~(Len(d) >= c.block_len) =>
             JsonPiece(c, reply) = NextPiece([c EXCEPT !.data = d])
    <3>1. CASE reply.units = <<>>
      BY <3>1 DEF JsonPiece, Grown, Taken
    <3>2. CASE reply.units # <<>> /\ Len(d) >= c.block_len
      BY <3>2 DEF JsonPiece, Grown, Taken
    <3>3. CASE reply.units # <<>> /\ ~(Len(d) >= c.block_len)
      BY <3>3 DEF JsonPiece, Grown, Taken
    <3> QED
      BY <3>1, <3>2, <3>3
  <2> HIDE DEF d
  <2>3. \/ Completed(c, cmd, reply) = BlockDone(c, <<>>)
        \/ Completed(c, cmd, reply) = BlockDone(c, d) /\ Len(d) >= BlockLen
        \/ /\ Completed(c, cmd, reply) = NextPiece([c EXCEPT !.data = d])
           /\ ~(Len(d) >= BlockLen)
    BY <2>1, <2>2
  <2> QED
    BY <1>3, <2>1, <2>3 DEF d
<1> QED
  BY <1>1, <1>2, <1>3, AskedIs

LEMMA FieldsOf ==
  ASSUME NEW c \in Controllers
  PROVE  /\ c.id \in Remotes /\ c.data \in Seq(Units) /\ c.calibration \in Seq(Units)
         /\ c.cur_offset \in Nat /\ c.config \in Commands /\ c.block_len \in {0, BlockLen}
         /\ Len(c.data) \in Nat /\ BlockLen \in Nat \ {0}
BY LenProperties, RiftSAssumption DEF Controllers

\* The units of a reply are put behind those there are, up to the whole block.
LEMMA GrownIs ==
  ASSUME NEW c \in Controllers, Partial(c), c.cur_offset >= 1, NEW reply \in Replies
  PROVE  LET m == Taken(c, reply)
             d == Grown(c, reply)
         IN  /\ m = Smaller(Len(reply.units), BlockLen - Len(c.data))
             /\ m \in 0 .. Len(reply.units) /\ Len(c.data) + m <= BlockLen
             /\ d \in Seq(Units) /\ Len(d) = Len(c.data) + m
             /\ \A j \in 1 .. Len(c.data) : d[j] = c.data[j]
             /\ \A j \in Len(c.data) + 1 .. Len(c.data) + m :
                  d[j] = reply.units[j - Len(c.data)]
<1> DEFINE m == Taken(c, reply)
           u == reply.units
           p == SubSeq(u, 1, m)
           n == Len(c.data)
<1>1. u \in Seq(Units) /\ Len(u) \in Nat
  BY LenProperties DEF Replies
<1>2. /\ c.block_len = BlockLen /\ n < BlockLen /\ n \in Nat /\ BlockLen \in Nat
      /\ c.data \in Seq(Units)
  BY FieldsOf DEF Partial
<1>3. m = Smaller(Len(u), BlockLen - n)
  BY <1>2 DEF Taken
<1> HIDE DEF u, m, n
<1>4. m \in 0 .. Len(u) /\ n + m <= BlockLen
  BY <1>1, <1>2, <1>3 DEF Smaller
<1>5. p \in Seq(Units) /\ Len(p) = m /\ \A j \in 1 .. m : p[j] = u[j]
  BY <1>1, <1>4, Prefix
<1> HIDE DEF p
<1>6. /\ c.data \o p \in Seq(Units) /\ Len(c.data \o p) = n + m
      /\ \A j \in 1 .. n : (c.data \o p)[j] = c.data[j]
      /\ \A j \in n + 1 .. n + m : (c.data \o p)[j] = p[j - n]
  <2>1. /\ Len(c.data \o p) = Len(c.data) + Len(p) /\ c.data \o p \in Seq(Units)
        /\ \A j \in 1 .. Len(c.data) : (c.data \o p)[j] = c.data[j]
        /\ \A j \in Len(c.data) + 1 .. Len(c.data) + Len(p) :
             (c.data \o p)[j] = p[j - Len(c.data)]
    <3> DEFINE e == c.data
    <3>1. e \in Seq(Units) /\ p \in Seq(Units)
      BY <1>2, <1>5
    <3> HIDE DEF e
    <3>2. /\ Len(e \o p) = Len(e) + Len(p) /\ e \o p \in Seq(Units)
          /\ \A j \in 1 .. Len(e) : (e \o p)[j] = e[j]
          /\ \A j \in Len(e) + 1 .. Len(e) + Len(p) : (e \o p)[j] = p[j - Len(e)]
      BY <3>1, Joined
    <3> QED
      BY <3>2 DEF e
  <2> QED
    BY <1>5, <2>1 DEF n
<1>7. Grown(c, reply) = c.data \o p
  BY DEF Grown, p, u, m
<1>8. \A j \in n + 1 .. n + m : (c.data \o p)[j] = u[j - n]
  <2>1. ASSUME NEW j \in n + 1 .. n + m PROVE j - n \in 1 .. m
    BY <1>2, <1>4, <1>1
  <2> QED
    BY <1>5, <1>6, <2>1
<1> QED
  BY <1>3, <1>4, <1>6, <1>7, <1>8 DEF u, m, n

\* The controller stays one, of the same remote, and only its next piece is
\* asked for.
Result(c, r) ==
  /\ r.ctrl \in Controllers /\ r.ctrl.id = c.id /\ r.ctrl.type = c.type
  /\ Partial(r.ctrl)
  /\ r.more \in Seq(Asked)
  /\ r.more = <<>> \/ \E a \in Asked : r.more = <<a>> /\ a.to = c.id

LEMMA CompletedKeeps ==
  ASSUME NEW c \in Controllers, Partial(c), NEW cmd \in Asked, cmd.to = c.id,
         NEW reply \in Replies
  PROVE  Result(c, Completed(c, cmd, reply))
<1> DEFINE r == Completed(c, cmd, reply)
           d == Grown(c, reply)
<1>0. <<>> \in Seq(Asked) /\ <<>> \in Seq(Units) /\ Len(<<>>) = 0
  OBVIOUS
<1>1. CASE r.more = <<>> /\ (r.ctrl = c \/ r.ctrl = [c EXCEPT !.config = reply.of])
  <2>1. /\ r.ctrl \in Controllers /\ r.ctrl.id = c.id /\ r.ctrl.type = c.type
        /\ r.ctrl.cur_offset = c.cur_offset /\ r.ctrl.block_len = c.block_len /\ r.ctrl.data = c.data
    BY <1>1 DEF Controllers, Replies
  <2> QED
    BY <1>0, <1>1, <2>1 DEF Partial, Result
<1>2. ASSUME NEW b \in Controllers, r = NextPiece(b), b.id = c.id, b.type = c.type,
             b.block_len = BlockLen, Len(b.data) < BlockLen, b.cur_offset >= 1
      PROVE  Result(c, r)
  <2> DEFINE len == Smaller(Piece, BlockLen - Len(b.data))
             a == JsonCommand(b.id, b.cur_offset, len)
  <2>1. /\ len \in 1 .. Piece /\ r.ctrl \in Controllers /\ r.ctrl.id = b.id /\ r.ctrl.type = b.type
        /\ r.ctrl.block_len = BlockLen /\ r.ctrl.data = b.data
        /\ r.ctrl.cur_offset = b.cur_offset + len /\ r.more = <<a>> /\ a \in Asked
    BY <1>2, NextPieceIs
  <2>2. a.to = c.id
    BY <1>2 DEF JsonCommand
  <2>3. b.cur_offset \in Nat
    BY FieldsOf
  <2> HIDE DEF len, a
  <2>4. b.cur_offset + len >= 1
    BY <1>2, <2>1, <2>3 DEF Piece
  <2>5. Partial(r.ctrl)
    BY <1>2, <2>1, <2>4 DEF Partial
  <2>6. r.more \in Seq(Asked)
    BY <2>1
  <2> HIDE DEF r
  <2> QED
    BY <1>2, <2>1, <2>2, <2>5, <2>6 DEF Result
<1>3. CASE c.cur_offset = 0 /\ r = NextPiece(Headed(c))
  <2>1. /\ Headed(c) \in Controllers /\ Headed(c).id = c.id /\ Headed(c).type = c.type
        /\ Headed(c).block_len = BlockLen /\ Headed(c).cur_offset = 1 /\ Headed(c).data = c.data
    BY RiftSAssumption DEF Headed, Controllers
  <2>2. Len(c.data) = 0
    BY <1>0, <1>3, RiftSAssumption DEF Partial
  <2>3. Len(Headed(c).data) < BlockLen /\ Headed(c).cur_offset >= 1
    BY <2>1, <2>2, RiftSAssumption
  <2> QED
    BY <1>2, <1>3, <2>1, <2>3
<1>4. ASSUME NEW e \in Seq(Units), r = BlockDone(c, e)
      PROVE  Result(c, r)
  <2>1. /\ r.ctrl \in Controllers /\ r.ctrl.id = c.id /\ r.ctrl.type = c.type
        /\ r.ctrl.block_len = c.block_len /\ r.ctrl.cur_offset = c.cur_offset /\ r.ctrl.data = <<>>
        /\ r.more = <<>>
    BY <1>4, BlockDoneIs
  <2> HIDE DEF r
  <2> QED
    BY <1>0, <2>1, RiftSAssumption DEF Partial, Result
<1>5. CASE c.cur_offset >= 1
  <2>1. d \in Seq(Units) /\ Len(d) \in Nat /\ c.block_len = BlockLen
    BY <1>5, GrownIs, LenProperties, FieldsOf DEF Partial
  <2> HIDE DEF d
  <2>2. LET b == [c EXCEPT !.data = d]
        IN  /\ b \in Controllers /\ b.id = c.id /\ b.type = c.type /\ b.data = d
            /\ b.block_len = BlockLen /\ b.cur_offset = c.cur_offset
    BY <2>1 DEF Controllers
  <2>3. CASE r = NextPiece([c EXCEPT !.data = d]) /\ ~(Len(d) >= BlockLen)
    <3>1. Len(d) < BlockLen
      BY <2>1, <2>3, RiftSAssumption
    <3> QED
      BY <1>2, <1>5, <2>2, <2>3, <3>1
  <2>4. CASE r = BlockDone(c, d)
    <3> QED
      BY <1>4, <2>1, <2>4
  <2>5. CASE r = BlockDone(c, <<>>)
    BY <1>0, <1>4, <2>5
  <2>6. \/ r.more = <<>> /\ (r.ctrl = c \/ r.ctrl = [c EXCEPT !.config = reply.of])
        \/ r = BlockDone(c, <<>>)
        \/ r = BlockDone(c, d)
        \/ r = NextPiece([c EXCEPT !.data = d]) /\ ~(Len(d) >= BlockLen)
    <3>1. ~(c.cur_offset = 0)
      BY <1>5
    <3> QED
      BY <3>1, CompletedIs DEF d
  <2> QED
    BY <1>1, <2>3, <2>4, <2>5, <2>6
<1>6. CASE c.cur_offset = 0
  <2>1. CASE r = BlockDone(c, <<>>)
    <3> QED
      BY <1>0, <1>4, <2>1
  <2>2. \/ r.more = <<>> /\ (r.ctrl = c \/ r.ctrl = [c EXCEPT !.config = reply.of])
        \/ r = NextPiece(Headed(c))
        \/ r = BlockDone(c, <<>>)
    <3>1. ~(c.cur_offset >= 1)
      BY <1>6
    <3> QED
      BY <3>1, CompletedIs
  <2> QED
    BY <1>1, <1>3, <1>6, <2>1, <2>2
<1> QED
  BY <1>5, <1>6 DEF Partial
-----------------------------------------------------------------------------
\* From an answer to its own command a controller gets what is its own.
LEMMA CompletedOwn ==
  ASSUME NEW c \in Controllers, Partial(c), Own(c), NEW cmd \in Asked, cmd.to = c.id,
         NEW reply \in Replies, reply.of = cmd,
         \A k \in 1 .. Len(reply.units) : reply.units[k][1] = c.id
  PROVE  Own(Completed(c, cmd, reply).ctrl)
<1> DEFINE r == Completed(c, cmd, reply)
           d == Grown(c, reply)
<1>1. CASE cmd.kind = "config" /\ (r.ctrl = c \/ r.ctrl = [c EXCEPT !.config = reply.of])
  <2>1. reply.of = ConfigCommand(c.id)
    BY <1>1, AskedIs
  <2>2. /\ r.ctrl.id = c.id /\ r.ctrl.data = c.data /\ r.ctrl.calibration = c.calibration
        /\ r.ctrl.config \in {c.config, ConfigCommand(c.id)}
    BY <1>1, <2>1 DEF Controllers
  <2> QED
    BY <2>2 DEF Own
<1>2. ASSUME NEW b \in Controllers, r = NextPiece(b), b.block_len = BlockLen,
             Len(b.data) < BlockLen, Own(b)
      PROVE  Own(r.ctrl)
  <2>1. /\ r.ctrl.id = b.id /\ r.ctrl.config = b.config /\ r.ctrl.data = b.data
        /\ r.ctrl.calibration = b.calibration
    BY <1>2, NextPieceIs
  <2> QED
    BY <1>2, <2>1 DEF Own
<1>3. ASSUME NEW e \in Seq(Units), r = BlockDone(c, e), \A k \in 1 .. Len(e) : e[k][1] = c.id
      PROVE  Own(r.ctrl)
  <2>1. /\ r.ctrl.id = c.id /\ r.ctrl.config = c.config /\ r.ctrl.data = <<>>
        /\ r.ctrl.calibration \in {c.calibration, e}
    BY <1>3, BlockDoneIs
  <2>2. DOMAIN <<>> = {} /\ DOMAIN e = 1 .. Len(e)
    OBVIOUS
  <2> QED
    BY <1>3, <2>1, <2>2 DEF Own
<1>4. <<>> \in Seq(Units) /\ Len(<<>>) = 0
  OBVIOUS
<1>5. CASE r = BlockDone(c, <<>>)
  <2>1. 1 .. Len(<<>>) = {}
    BY <1>4
  <2>2. \A k \in 1 .. Len(<<>>) : <<>>[k][1] = c.id
    BY <2>1
  <2> QED
    BY <1>3, <1>4, <1>5, <2>2
<1>6. CASE c.cur_offset = 0 /\ r = NextPiece(Headed(c))
  <2>1. /\ Headed(c) \in Controllers /\ Headed(c).id = c.id /\ Headed(c).config = c.config
        /\ Headed(c).block_len = BlockLen /\ Headed(c).data = c.data
        /\ Headed(c).calibration = c.calibration
    BY RiftSAssumption DEF Headed, Controllers
  <2>2. Own(Headed(c))
    BY <2>1 DEF Own
  <2>3. Len(Headed(c).data) < BlockLen
    BY <1>4, <1>6, <2>1, RiftSAssumption DEF Partial
  <2> QED
    BY <1>2, <1>6, <2>1, <2>2, <2>3
<1>7. CASE c.cur_offset >= 1
  <2>1. /\ d \in Seq(Units) /\ Len(d) \in Nat /\ Len(c.data) \in Nat /\ c.data \in Seq(Units)
        /\ Len(d) = Len(c.data) + Taken(c, reply)
        /\ Taken(c, reply) \in 0 .. Len(reply.units) /\ Len(reply.units) \in Nat
        /\ \A j \in 1 .. Len(c.data) : d[j] = c.data[j]
        /\ \A j \in Len(c.data) + 1 .. Len(c.data) + Taken(c, reply) :
             d[j] = reply.units[j - Len(c.data)]
    <3>1. Len(reply.units) \in Nat
      BY LenProperties DEF Replies
    <3> QED
      BY <1>7, <3>1, GrownIs, FieldsOf, LenProperties
  <2> HIDE DEF d
  <2>2. ASSUME NEW k \in 1 .. Len(d) PROVE d[k][1] = c.id
    <3>1. CASE k <= Len(c.data)
      <4>1. k \in 1 .. Len(c.data) /\ k \in DOMAIN c.data
        BY <2>1, <3>1
      <4> QED
        BY <2>1, <4>1 DEF Own
    <3>2. CASE ~(k <= Len(c.data))
      <4>1. /\ k \in Len(c.data) + 1 .. Len(c.data) + Taken(c, reply)
            /\ k - Len(c.data) \in 1 .. Len(reply.units)
        BY <2>1, <3>2
      <4> QED
        BY <2>1, <4>1
    <3> QED
      BY <3>1, <3>2
  <2>3. CASE r = BlockDone(c, d)
    BY <1>3, <2>1, <2>2, <2>3
  <2>4. CASE r = NextPiece([c EXCEPT !.data = d]) /\ ~(Len(d) >= BlockLen)
    <3> DEFINE b == [c EXCEPT !.data = d]
    <3>1. /\ b \in Controllers /\ b.id = c.id /\ b.config = c.config /\ b.data = d
          /\ b.block_len = c.block_len /\ b.calibration = c.calibration
      BY <2>1 DEF Controllers
    <3>2. c.block_len = BlockLen /\ Len(d) < BlockLen
      BY <1>7, <2>1, <2>4, RiftSAssumption DEF Partial
    <3> HIDE DEF b
    <3>3. Own(b)
      <4>1. DOMAIN d = 1 .. Len(d)
        BY <2>1
      <4> QED
        BY <2>2, <3>1, <4>1 DEF Own
    <3> QED
      BY <1>2, <2>4, <3>1, <3>2, <3>3 DEF b
  <2>5. \/ cmd.kind = "config" /\ (r.ctrl = c \/ r.ctrl = [c EXCEPT !.config = reply.of])
        \/ r = BlockDone(c, <<>>)
        \/ r = BlockDone(c, d)
        \/ r = NextPiece([c EXCEPT !.data = d]) /\ ~(Len(d) >= BlockLen)
    <3>1. ~(c.cur_offset = 0)
      BY <1>7
    <3> QED
      BY <3>1, CompletedIs DEF d
  <2> QED
    BY <1>1, <1>5, <2>3, <2>4, <2>5
<1>8. CASE c.cur_offset = 0
  <2>1. \/ cmd.kind = "config" /\ (r.ctrl = c \/ r.ctrl = [c EXCEPT !.config = reply.of])
        \/ r = NextPiece(Headed(c))
        \/ r = BlockDone(c, <<>>)
    <3>1. ~(c.cur_offset >= 1)
      BY <1>8
    <3> QED
      BY <3>1, CompletedIs
  <2> QED
    BY <1>1, <1>5, <1>6, <1>8, <2>1
<1> QED
  BY <1>7, <1>8 DEF Partial

\* Of a block that is read without a hole the next piece is asked for, until
\* it is whole.
LEMMA CompletedConfig ==
  ASSUME NEW c \in Controllers, Partial(c), NEW cmd \in Asked, cmd.kind = "config",
         NEW reply \in Replies
  PROVE  LET to == Completed(c, cmd, reply).ctrl
         IN  /\ to.id = c.id /\ to.data = c.data /\ to.calibration = c.calibration
             /\ to.cur_offset = c.cur_offset
             /\ Completed(c, cmd, reply).more = <<>>
<1> DEFINE r == Completed(c, cmd, reply)
<1>1. r.more = <<>> /\ (r.ctrl = c \/ r.ctrl = [c EXCEPT !.config = reply.of])
  BY CompletedIs, ZenonT(60)
<1> QED
  BY <1>1 DEF Controllers

LEMMA CompletedJson ==
  ASSUME NEW c \in Controllers, Partial(c), NoHole(c), NEW cmd \in Asked, cmd.kind = "json",
         cmd.to = c.id, Asking(c, cmd),
         NEW reply \in Replies, reply.units = Carried(cmd)
  PROVE  LET r == Completed(c, cmd, reply)
         IN  /\ NoHole(r.ctrl)
             /\ \A a \in Asked : r.more = <<a>> => Asking(r.ctrl, a)
<1> DEFINE r == Completed(c, cmd, reply)
           d == Grown(c, reply)
           Good(x) == NoHole(x.ctrl) /\ \A a \in Asked : x.more = <<a>> => Asking(x.ctrl, a)
<1>0. /\ <<>> \in Seq(Units) /\ Len(<<>>) = 0 /\ DOMAIN <<>> = {}
      /\ BlockLen \in Nat \ {0}
  BY RiftSAssumption
<1>1. ASSUME NEW b \in Controllers, r = NextPiece(b), b.block_len = BlockLen,
             Len(b.data) < BlockLen, NoHole(b), b.cur_offset = Len(b.data) + 1
      PROVE  Good(r)
  <2> DEFINE len == Smaller(Piece, BlockLen - Len(b.data))
             j == JsonCommand(b.id, b.cur_offset, len)
  <2>1. /\ len \in 1 .. Piece /\ r.ctrl.id = b.id /\ r.ctrl.data = b.data
        /\ r.ctrl.calibration = b.calibration
        /\ r.ctrl.cur_offset = b.cur_offset + len /\ r.more = <<j>>
    BY <1>1, NextPieceIs
  <2>2. Len(b.data) \in Nat
    BY FieldsOf
  <2>3. j.at = b.cur_offset
    BY DEF JsonCommand
  <2>4. NoHole(r.ctrl)
    BY <1>1, <2>1 DEF NoHole
  <2>5. r.ctrl.cur_offset >= 1 /\ j.at = Len(r.ctrl.data) + 1
        /\ r.ctrl.cur_offset = j.at + Smaller(Piece, BlockLen - Len(r.ctrl.data))
    BY <1>1, <2>1, <2>2, <2>3 DEF Piece
  <2>6. Asking(r.ctrl, j)
    BY <2>5 DEF Asking
  <2>7. ASSUME NEW a \in Asked, r.more = <<a>> PROVE a = j
    BY <2>1, <2>7
  <2> HIDE DEF j, r
  <2> QED
    BY <2>4, <2>6, <2>7
<1>2. ASSUME NEW e \in Seq(Units), r = BlockDone(c, e), e # <<>> => e = Whole(c.id)
      PROVE  Good(r)
  <2>1. /\ r.ctrl.id = c.id /\ r.ctrl.data = <<>> /\ r.more = <<>>
        /\ r.ctrl.calibration = IF e = <<>> THEN c.calibration ELSE e
    BY <1>2, BlockDoneIs
  <2>2. NoHole(r.ctrl)
    BY <1>0, <1>2, <2>1 DEF NoHole
  <2>3. \A a \in Asked : r.more # <<a>>
    BY <2>1
  <2> QED
    BY <2>2, <2>3
<1>3. CASE r = BlockDone(c, <<>>)
  BY <1>0, <1>2, <1>3
<1>4. CASE c.cur_offset = 0 /\ r = NextPiece(Headed(c))
  <2>1. /\ Headed(c) \in Controllers /\ Headed(c).id = c.id /\ Headed(c).cur_offset = 1
        /\ Headed(c).block_len = BlockLen /\ Headed(c).data = c.data
        /\ Headed(c).calibration = c.calibration
    BY RiftSAssumption DEF Headed, Controllers
  <2>2. NoHole(Headed(c))
    BY <2>1 DEF NoHole
  <2>3. Len(Headed(c).data) = 0
    BY <1>0, <1>4, <2>1 DEF Partial
  <2>4. Len(Headed(c).data) < BlockLen /\ Headed(c).cur_offset = Len(Headed(c).data) + 1
    BY <1>0, <2>1, <2>3
  <2> QED
    BY <1>1, <1>4, <2>1, <2>2, <2>4
<1>5. CASE c.cur_offset >= 1
  <2> DEFINE n == Len(c.data)
             m == Taken(c, reply)
  <2>1. /\ n \in Nat /\ n < BlockLen /\ c.data \in Seq(Units) /\ c.block_len = BlockLen
        /\ cmd.at = n + 1 /\ c.cur_offset = cmd.at + Smaller(Piece, BlockLen - n)
    BY <1>0, <1>5, FieldsOf DEF Partial, Asking
  <2>2. /\ Len(reply.units) = Piece
        /\ \A k \in 1 .. Piece : reply.units[k] = <<c.id, n + k>>
    <3>1. \A k \in 1 .. Piece : reply.units[k] = <<c.id, cmd.at + k - 1>>
      BY DEF Carried, Piece
    <3>2. \A k \in 1 .. Piece : cmd.at + k - 1 = n + k
      BY <2>1 DEF Piece
    <3>3. Len(Carried(cmd)) = Piece
      BY DEF Carried, Piece
    <3> QED
      BY <3>1, <3>2, <3>3
  <2>3. /\ m = Smaller(Piece, BlockLen - n) /\ m \in 0 .. Piece /\ n + m <= BlockLen
        /\ d \in Seq(Units) /\ Len(d) = n + m
        /\ \A j \in 1 .. n : d[j] = c.data[j]
        /\ \A j \in n + 1 .. n + m : d[j] = reply.units[j - n]
    BY <1>5, <2>2, GrownIs
  <2> HIDE DEF d, m, n
  <2>4. \A k \in 1 .. Len(d) : d[k] = <<c.id, k>>
    <3> SUFFICES ASSUME NEW k \in 1 .. Len(d) PROVE d[k] = <<c.id, k>>
      OBVIOUS
    <3>1. CASE k <= n
      <4>1. k \in 1 .. n /\ k \in DOMAIN c.data
        BY <2>1, <2>3, <3>1 DEF n
      <4> QED
        BY <2>3, <4>1 DEF NoHole
    <3>2. CASE ~(k <= n)
      <4>1. k \in n + 1 .. n + m /\ k - n \in 1 .. Piece /\ n + (k - n) = k
        BY <2>1, <2>3, <3>2 DEF Piece
      <4>2. reply.units[k - n] = <<c.id, n + (k - n)>>
        BY <2>2, <4>1
      <4> QED
        BY <2>3, <4>1, <4>2
    <3> QED
      BY <3>1, <3>2
  <2>5. CASE r = BlockDone(c, d) /\ Len(d) >= BlockLen
    <3>1. Len(d) = BlockLen
      BY <2>1, <2>3, <2>5, <1>0
    <3>2. d = Whole(c.id)
      <4>1. d = [k \in 1 .. Len(d) |-> d[k]]
        BY <2>3
      <4> QED
        BY <2>4, <3>1, <4>1 DEF Whole
    <3> QED
      BY <1>2, <2>3, <2>5, <3>2
  <2>6. CASE r = NextPiece([c EXCEPT !.data = d]) /\ ~(Len(d) >= BlockLen)
    <3> DEFINE b == [c EXCEPT !.data = d]
    <3>1. /\ b \in Controllers /\ b.id = c.id /\ b.data = d /\ b.block_len = BlockLen
          /\ b.calibration = c.calibration /\ b.cur_offset = c.cur_offset
      BY <2>1, <2>3 DEF Controllers
    <3> HIDE DEF b
    <3>2. Len(b.data) < BlockLen /\ b.cur_offset = Len(b.data) + 1
      BY <1>0, <2>1, <2>3, <2>6, <3>1 DEF Piece
    <3>3. NoHole(b)
      <4>1. DOMAIN d = 1 .. Len(d)
        BY <2>3
      <4> QED
        BY <2>4, <3>1, <4>1 DEF NoHole
    <3> QED
      BY <1>1, <2>6, <3>1, <3>2, <3>3 DEF b
  <2>7. \/ r = BlockDone(c, <<>>)
        \/ r = BlockDone(c, d) /\ Len(d) >= BlockLen
        \/ r = NextPiece([c EXCEPT !.data = d]) /\ ~(Len(d) >= BlockLen)
    <3>1. ~(c.cur_offset = 0)
      BY <1>5
    <3> QED
      BY <3>1, CompletedIs DEF d
  <2> QED
    BY <1>3, <2>5, <2>6, <2>7
<1>6. CASE c.cur_offset = 0
  <2>1. r = NextPiece(Headed(c)) \/ r = BlockDone(c, <<>>)
    <3>1. ~(c.cur_offset >= 1)
      BY <1>6
    <3> QED
      BY <3>1, CompletedIs
  <2> QED
    BY <1>3, <1>4, <1>6, <2>1
<1> QED
  BY <1>5, <1>6 DEF Partial
-----------------------------------------------------------------------------
(***************************************************************************)
(* Steps that leave the remotes alone.                                     *)
(***************************************************************************)
HmdTypes ==
  /\ opened \subseteq 0 .. 2 /\ use_count = Cardinality(opened)
  /\ pc \in {"idle", "reports", "send", "poll"}
  /\ pc # "idle" => use_count > 0
RemoteTypes ==
  /\ controllers \in Seq(Controllers) /\ Len(controllers) <= MAX_CONTROLLERS
  /\ touch \in [Hands -> 0 .. MAX_CONTROLLERS]
QueueTypes ==
  /\ pending_commands \in Seq(Asked)
  /\ \A k \in DOMAIN pending_commands : Known(pending_commands[k].to)
  /\ command_result_pending \in BOOLEAN
  /\ command_result_pending => pending_commands # <<>>
  /\ pc = "poll" => command_result_pending
  /\ pc = "send" => ~command_result_pending /\ pending_commands # <<>>
  /\ last_radio_seqnum \in Seqnums \cup {-1}
UnitTypes ==
  /\ unit \in [busy : BOOLEAN, seqnum : Seqnums, cmd : Commands,
               reply : [of : Commands, units : Seq(Units)]]
  /\ unit.busy => unit.cmd \in Asked
  /\ faults \in 0 .. MaxFaults
  /\ lostFirst \in BOOLEAN /\ odd \in BOOLEAN

LEMMA Typings == TypeOK => HmdTypes /\ RemoteTypes /\ QueueTypes /\ UnitTypes
BY DEF TypeOK, HmdTypes, RemoteTypes, QueueTypes, UnitTypes

LEMMA TypingsNext == HmdTypes' /\ RemoteTypes' /\ QueueTypes' /\ UnitTypes' => TypeOK'
BY DEF TypeOK, HmdTypes, RemoteTypes, QueueTypes, UnitTypes

RemotesRight == Listed /\ Reading /\ AllOwn /\ AllInPieces /\ TouchOfItsHand

LEMMA RemotesSame ==
  ASSUME RemotesRight, UNCHANGED <<controllers, touch, pending_commands>>,
         lostFirst => lostFirst', odd => odd'
  PROVE  RemotesRight'
<1>1. Listed' /\ Reading' /\ TouchOfItsHand'
  BY DEF RemotesRight, Listed, Reading, Partial, TouchOfItsHand
<1>2. AllOwn'
  BY DEF RemotesRight, AllOwn, Own
<1>3. AllInPieces'
  BY DEF RemotesRight, AllInPieces, InPieces, NoHole, Asking, JsonOf
<1> QED
  BY <1>1, <1>2, <1>3 DEF RemotesRight

\* Without remotes there is nothing that could be wrong.
LEMMA Emptied ==
  ASSUME controllers' = <<>>, touch' = [h \in Hands |-> NoController], RadioStateInit
  PROVE  RemotesRight' /\ RemoteTypes' /\ RadioOwn'
<1>1. /\ <<>> \in Seq(Controllers) /\ Len(<<>>) = 0 /\ DOMAIN <<>> = {}
      /\ MAX_CONTROLLERS \in Nat
  BY RiftSAssumption
<1>2. RemoteTypes'
  BY <1>1 DEF RemoteTypes, NoController
<1>3. Listed' /\ Reading' /\ AllOwn' /\ AllInPieces'
  BY <1>1 DEF Listed, Reading, AllOwn, AllInPieces, NoController
<1>4. TouchOfItsHand'
  BY <1>1 DEF TouchOfItsHand
<1>5. RadioOwn'
  BY DEF RadioOwn, RadioStateInit
<1> QED
  BY <1>2, <1>3, <1>4, <1>5 DEF RemotesRight

LEMMA Nothing == \* nothing waits in an empty queue
  ASSUME RadioStateInit, pc' = "idle"
  PROVE  QueueTypes'
<1>1. <<>> \in Seq(Asked) /\ DOMAIN <<>> = {}
  OBVIOUS
<1> QED
  BY <1>1 DEF QueueTypes, RadioStateInit

LEMMA QueueSame ==
  ASSUME QueueTypes, UNCHANGED <<controllers, radio>>,
         pc' \in {"idle", "reports"} \/ pc' = pc
  PROVE  QueueTypes'
BY DEF QueueTypes, Known, radio

LEMMA IdsFinite == IsFiniteSet(0 .. 2)
<1>1. 0 \in Int /\ 2 \in Int
  OBVIOUS
<1> QED
  BY <1>1, FS_Interval

LEMMA OpenKeeps ==
  ASSUME IInv, NEW id \in 0 .. 2, OpenDevice(id)
  PROVE  IInv'
<1>1. /\ HmdTypes /\ RemoteTypes /\ QueueTypes /\ UnitTypes /\ RemotesRight /\ RadioOwn
      /\ pc = "idle" /\ pc' = "idle" /\ UNCHANGED <<unit, faults>> /\ id \notin opened
  BY Typings DEF IInv, RemotesRight, OpenDevice
<1>2. IsFiniteSet(opened)
  <2>1. IsFiniteSet(0 .. 2) /\ opened \subseteq 0 .. 2
    BY <1>1, IdsFinite DEF HmdTypes
  <2> QED
    BY <2>1, FS_Subset
<1>3. CASE /\ use_count > 0 /\ use_count' = use_count + 1 /\ opened' = opened \cup {id}
           /\ UNCHANGED <<controllers, touch, radio, lostFirst, odd>>
  <2>1. Cardinality(opened \cup {id}) = Cardinality(opened) + 1
    BY <1>1, <1>2, FS_AddElement
  <2>2. HmdTypes' /\ QueueTypes' /\ RemoteTypes' /\ UnitTypes'
    BY <1>1, <1>3, <2>1, QueueSame DEF HmdTypes, RemoteTypes, UnitTypes
  <2>3. RemotesRight' /\ RadioOwn'
    BY <1>1, <1>3, RemotesSame DEF radio, RadioOwn, Answers
  <2> QED
    BY <2>2, <2>3, TypingsNext DEF IInv, RemotesRight
<1>4. CASE use_count = 0 /\ OpenHmd /\ use_count' = 1 /\ opened' = {id}
  <2>1. Cardinality({id}) = 1
    BY FS_Singleton
  <2>2. HmdTypes' /\ UnitTypes'
    BY <1>1, <1>4, <2>1 DEF HmdTypes, UnitTypes, OpenHmd
  <2>3. RemotesRight' /\ RemoteTypes' /\ RadioOwn' /\ QueueTypes'
    BY <1>1, <1>4, Emptied, Nothing DEF OpenHmd
  <2> QED
    BY <2>2, <2>3, TypingsNext DEF IInv, RemotesRight
<1>5. CASE UNCHANGED <<opened, use_count, controllers, touch, radio, lostFirst, odd>>
  <2>1. HmdTypes' /\ QueueTypes' /\ RemoteTypes' /\ UnitTypes'
    BY <1>1, <1>5, QueueSame DEF HmdTypes, RemoteTypes, UnitTypes
  <2>2. RemotesRight' /\ RadioOwn'
    BY <1>1, <1>5, RemotesSame DEF radio, RadioOwn, Answers
  <2> QED
    BY <2>1, <2>2, TypingsNext DEF IInv, RemotesRight
<1> QED
  BY <1>3, <1>4, <1>5 DEF OpenDevice

LEMMA CloseKeeps ==
  ASSUME IInv, NEW id \in 0 .. 2, CloseDevice(id)
  PROVE  IInv'
<1>1. /\ HmdTypes /\ RemoteTypes /\ QueueTypes /\ UnitTypes /\ RemotesRight /\ RadioOwn
      /\ pc = "idle" /\ pc' = "idle" /\ UNCHANGED <<unit, faults, lostFirst, odd>>
      /\ id \in opened /\ opened' = opened \ {id} /\ ReleaseHmd
  BY Typings DEF IInv, RemotesRight, CloseDevice
<1>2. /\ use_count \in Nat /\ use_count >= 1 /\ Cardinality(opened') = use_count - 1
      /\ opened' \subseteq 0 .. 2
  <2>1. IsFiniteSet(0 .. 2) /\ opened \subseteq 0 .. 2 /\ use_count = Cardinality(opened)
    BY <1>1, IdsFinite DEF HmdTypes
  <2>2. IsFiniteSet(opened)
    BY <2>1, FS_Subset
  <2>3. /\ IsFiniteSet(opened \ {id}) /\ Cardinality(opened \ {id}) = Cardinality(opened) - 1
        /\ Cardinality(opened) \in Nat /\ Cardinality(opened \ {id}) \in Nat
    BY <1>1, <2>2, FS_RemoveElement, FS_CardinalityType
  <2> QED
    BY <1>1, <2>1, <2>3
<1>3. UnitTypes'
  BY <1>1 DEF UnitTypes
<1>4. CASE use_count > 1
  <2>1. use_count' = use_count - 1 /\ UNCHANGED <<controllers, touch, radio>>
    BY <1>1, <1>4 DEF ReleaseHmd
  <2>2. HmdTypes' /\ QueueTypes' /\ RemoteTypes'
    BY <1>1, <1>2, <2>1, QueueSame DEF HmdTypes, RemoteTypes
  <2>3. RemotesRight' /\ RadioOwn'
    BY <1>1, <2>1, RemotesSame DEF radio, RadioOwn, Answers
  <2> QED
    BY <1>3, <2>2, <2>3, TypingsNext DEF IInv, RemotesRight
<1>5. CASE ~(use_count > 1)
  <2>1. /\ use_count' = 0 /\ use_count = 1
        /\ controllers' = <<>> /\ touch' = [h \in Hands |-> NoController] /\ RadioStateInit
    BY <1>1, <1>2, <1>5 DEF ReleaseHmd
  <2>2. HmdTypes'
    BY <1>1, <1>2, <2>1 DEF HmdTypes
  <2>3. RemotesRight' /\ RemoteTypes' /\ RadioOwn' /\ QueueTypes'
    BY <1>1, <2>1, Emptied, Nothing
  <2> QED
    BY <1>3, <2>2, <2>3, TypingsNext DEF IInv, RemotesRight
<1> QED
  BY <1>4, <1>5

LEMMA SmallStepsKeep ==
  ASSUME IInv, NEW id \in 0 .. 2,
         UpdateDevice(id) \/ ReportsEnd \/ SendCommand \/ PollInVain \/ UNCHANGED vars
  PROVE  IInv'
<1>1. HmdTypes /\ RemoteTypes /\ QueueTypes /\ UnitTypes /\ RemotesRight /\ RadioOwn
  BY Typings DEF IInv, RemotesRight
<1>2. CASE UpdateDevice(id)
  <2>1. use_count > 0
    <3>1. IsFiniteSet(0 .. 2) /\ opened \subseteq 0 .. 2 /\ id \in opened
      BY <1>1, <1>2, IdsFinite DEF HmdTypes, UpdateDevice, Polls
    <3>2. IsFiniteSet(opened)
      BY <3>1, FS_Subset
    <3>3. Cardinality(opened) \in Nat /\ Cardinality(opened) # 0
      BY <3>1, <3>2, FS_CardinalityType, FS_EmptySet
    <3> QED
      BY <1>1, <3>3 DEF HmdTypes
  <2>2. /\ pc' = "reports"
        /\ UNCHANGED <<opened, use_count, controllers, touch, radio, unit, faults, lostFirst, odd>>
    BY <1>2 DEF UpdateDevice
  <2>3. HmdTypes' /\ QueueTypes' /\ RemoteTypes' /\ UnitTypes'
    BY <1>1, <2>1, <2>2, QueueSame DEF HmdTypes, RemoteTypes, UnitTypes
  <2>4. RemotesRight' /\ RadioOwn'
    BY <1>1, <2>2, RemotesSame DEF radio, RadioOwn, Answers
  <2> QED
    BY <2>3, <2>4, TypingsNext DEF IInv, RemotesRight
<1>3. CASE ReportsEnd
  <2>1. /\ pc = "reports" /\ pc' = LoopTo(command_result_pending, pending_commands)
        /\ UNCHANGED <<opened, use_count, controllers, touch, radio, unit, faults, lostFirst, odd>>
    BY <1>3 DEF ReportsEnd
  <2>2. HmdTypes' /\ RemoteTypes' /\ UnitTypes'
    BY <1>1, <2>1 DEF HmdTypes, RemoteTypes, UnitTypes, LoopTo
  <2>3. QueueTypes'
    BY <1>1, <2>1 DEF QueueTypes, Known, radio, LoopTo
  <2>4. RemotesRight' /\ RadioOwn'
    BY <1>1, <2>1, RemotesSame DEF radio, RadioOwn, Answers
  <2> QED
    BY <2>2, <2>3, <2>4, TypingsNext DEF IInv, RemotesRight
<1>4. CASE SendCommand
  <2>1. /\ pc = "send" /\ pc' = "poll" /\ command_result_pending' = TRUE
        /\ ~command_result_pending /\ pending_commands # <<>>
        /\ UNCHANGED <<opened, use_count, controllers, touch, pending_commands,
                       last_radio_seqnum, odd>>
    BY <1>1, <1>4 DEF SendCommand, QueueTypes
  <2>2. Head(pending_commands) \in Asked /\ Head(pending_commands) \in Commands
    BY <1>1, <2>1, AskedIs, Shifted DEF QueueTypes
  <2>3. HmdTypes' /\ RemoteTypes'
    BY <1>1, <2>1 DEF HmdTypes, RemoteTypes
  <2>4. QueueTypes'
    BY <1>1, <2>1 DEF QueueTypes, Known
  <2>5. CASE unit' = [unit EXCEPT !.busy = TRUE, !.cmd = Head(pending_commands)]
             /\ UNCHANGED <<faults, lostFirst>>
    <3>1. /\ UnitTypes' /\ unit'.busy /\ unit'.cmd = Head(pending_commands)
          /\ unit'.seqnum = unit.seqnum
      BY <1>1, <2>1, <2>2, <2>5 DEF UnitTypes
    <3>2. RadioOwn'
      BY <1>1, <2>1, <2>5, <3>1 DEF RadioOwn
    <3>3. RemotesRight'
      BY <1>1, <2>1, <2>5, RemotesSame
    <3> QED
      BY <2>3, <2>4, <3>1, <3>2, <3>3, TypingsNext DEF IInv, RemotesRight
  <2>6. CASE /\ faults < MaxFaults /\ faults' = faults + 1 /\ UNCHANGED unit
             /\ lostFirst' = (lostFirst \/ last_radio_seqnum = -1)
    <3>1. UnitTypes'
      BY <1>1, <2>1, <2>6, RiftSAssumption DEF UnitTypes
    <3>2. RadioOwn'
      BY <1>1, <2>1, <2>6 DEF RadioOwn
    <3>3. RemotesRight'
      BY <1>1, <2>1, <2>6, RemotesSame
    <3> QED
      BY <2>3, <2>4, <3>1, <3>2, <3>3, TypingsNext DEF IInv, RemotesRight
  <2> QED
    BY <1>4, <2>5, <2>6 DEF SendCommand
<1>5. CASE PollInVain
  <2>1. /\ pc = "poll" /\ pc' = "idle"
        /\ UNCHANGED <<opened, use_count, controllers, touch, pending_commands,
                       command_result_pending, unit, faults, lostFirst, odd>>
        /\ \/ last_radio_seqnum' = last_radio_seqnum
           \/ unit.busy /\ last_radio_seqnum' = unit.seqnum
    BY <1>5 DEF PollInVain
  <2>2. HmdTypes' /\ RemoteTypes' /\ UnitTypes'
    BY <1>1, <2>1 DEF HmdTypes, RemoteTypes, UnitTypes
  <2>3. QueueTypes'
    BY <1>1, <2>1 DEF QueueTypes, Known, UnitTypes
  <2>4. RemotesRight'
    BY <1>1, <2>1, RemotesSame
  <2>5. command_result_pending
    BY <1>1, <2>1 DEF QueueTypes
  <2>6. RadioOwn'
    BY <1>1, <2>1, <2>5 DEF RadioOwn, Answers
  <2> QED
    BY <2>2, <2>3, <2>4, <2>6, TypingsNext DEF IInv, RemotesRight
<1>6. CASE UNCHANGED vars
  <2>1. HmdTypes' /\ QueueTypes' /\ RemoteTypes' /\ UnitTypes'
    BY <1>1, <1>6, QueueSame DEF HmdTypes, RemoteTypes, UnitTypes, vars, radio
  <2>2. RemotesRight' /\ RadioOwn'
    BY <1>1, <1>6, RemotesSame DEF vars, RadioOwn, Answers
  <2> QED
    BY <2>1, <2>2, TypingsNext DEF IInv, RemotesRight
<1> QED
  BY <1>2, <1>3, <1>4, <1>5, <1>6
-----------------------------------------------------------------------------
(***************************************************************************)
(* The head unit answers, and the answer is taken.                         *)
(***************************************************************************)
LEMMA CarriedIs ==
  ASSUME NEW cmd \in Commands, cmd.to \in Remotes
  PROVE  /\ Carried(cmd) \in Seq(Units) /\ Len(Carried(cmd)) = Piece
         /\ \A k \in 1 .. Piece : Carried(cmd)[k][1] = cmd.to
<1>1. cmd.kind = "json" => cmd.at \in Nat
  BY DEF Commands, Asked, NoCommand, ConfigCommand
<1>2. \A k \in 1 .. Piece : cmd.kind = "json" => cmd.at + k - 1 \in Nat
  BY <1>1 DEF Piece
<1>3. \A k \in 1 .. Piece : Carried(cmd)[k] \in Units /\ Carried(cmd)[k][1] = cmd.to
  BY <1>2 DEF Carried, Units
<1>4. Carried(cmd) = [k \in 1 .. Piece |-> Carried(cmd)[k]]
  BY DEF Carried
<1>5. Piece \in Nat
  BY DEF Piece
<1> DEFINE q == Carried(cmd)
<1> HIDE DEF q
<1>6. q \in Seq(Units) /\ Len(q) = Piece
  <2>1. q = [k \in 1 .. Piece |-> q[k]] /\ \A k \in 1 .. Piece : q[k] \in Units
    BY <1>3, <1>4 DEF q
  <2> QED
    BY <1>5, <2>1
<1> QED
  BY <1>3, <1>6 DEF q

LEMMA AnswersAre ==
  ASSUME NEW cmd \in Asked, NEW reply \in Replies, Answers(cmd, reply)
  PROVE  /\ reply.of = cmd
         /\ \A k \in 1 .. Len(reply.units) : reply.units[k][1] = cmd.to
         /\ ~odd => reply.units = Carried(cmd)
<1> DEFINE q == Carried(cmd)
<1>1. /\ q \in Seq(Units) /\ Len(q) = Piece
      /\ \A k \in 1 .. Piece : q[k][1] = cmd.to
  BY CarriedIs, AskedIs
<1> HIDE DEF q
<1>2. PICK n \in 0 .. Piece : reply.units = SubSeq(q, 1, n) /\ (~odd => n = Piece)
  BY DEF Answers, q
<1>3. /\ SubSeq(q, 1, n) \in Seq(Units) /\ Len(SubSeq(q, 1, n)) = n
      /\ \A j \in 1 .. n : SubSeq(q, 1, n)[j] = q[j]
  BY <1>1, Prefix
<1> DEFINE u == SubSeq(q, 1, n)
<1> HIDE DEF u
<1>4. u \in Seq(Units) /\ Len(u) = n /\ reply.units = u /\ \A j \in 1 .. n : u[j] = q[j]
  BY <1>2, <1>3 DEF u
<1>5. \A k \in 1 .. Len(reply.units) : reply.units[k][1] = cmd.to
  BY <1>1, <1>4 DEF Piece
<1>6. ASSUME n = Piece PROVE u = q
  <2>1. u = [j \in 1 .. Piece |-> u[j]] /\ q = [j \in 1 .. Piece |-> q[j]]
    BY <1>1, <1>4, <1>6
  <2>2. \A j \in 1 .. Piece : u[j] = q[j]
    BY <1>4, <1>6
  <2> QED
    BY <2>1, <2>2
<1> QED
  BY <1>2, <1>4, <1>5, <1>6 DEF Answers, q

LEMMA UnitKeeps ==
  ASSUME IInv, UnitAnswers
  PROVE  IInv'
<1>1. HmdTypes /\ RemoteTypes /\ QueueTypes /\ UnitTypes /\ RemotesRight /\ RadioOwn
  BY Typings DEF IInv, RemotesRight
<1>2. PICK n \in 0 .. Piece :
        /\ n < Piece => faults < MaxFaults
        /\ faults' = IF n < Piece THEN faults + 1 ELSE faults
        /\ odd' = (odd \/ n < Piece)
        /\ unit' = [unit EXCEPT !.busy = FALSE, !.cmd = NoCommand,
                      !.seqnum = (@ + 1) % Cardinality(Seqnums),
                      !.reply = Reply(unit.cmd, SubSeq(Carried(unit.cmd), 1, n))]
  BY DEF UnitAnswers
<1>3. /\ unit.busy
      /\ UNCHANGED <<opened, use_count, pc, controllers, touch, radio, lostFirst>>
  BY DEF UnitAnswers
<1>4. Cardinality(Seqnums) = 2
  <2>1. Seqnums = {0, 1}
    BY DEF Seqnums
  <2>2. IsFiniteSet({0}) /\ Cardinality({0}) = 1
    BY FS_Singleton
  <2>3. Cardinality({0} \cup {1}) = 2
    BY <2>2, FS_AddElement
  <2>4. {0} \cup {1} = {0, 1}
    OBVIOUS
  <2> QED
    BY <2>1, <2>3, <2>4
<1>5. /\ unit.cmd \in Asked /\ unit.cmd \in Commands /\ unit.seqnum \in 0 .. 1
      /\ unit'.seqnum \in 0 .. 1 /\ unit'.seqnum # unit.seqnum
  <2>1. unit.cmd \in Asked /\ unit.seqnum \in 0 .. 1
    BY <1>1, <1>3 DEF UnitTypes, Seqnums
  <2>2. unit'.seqnum = (unit.seqnum + 1) % 2
    BY <1>1, <1>2, <1>4 DEF UnitTypes
  <2> QED
    BY <2>1, <2>2, AskedIs
<1>6. /\ SubSeq(Carried(unit.cmd), 1, n) \in Seq(Units)
  <2>1. Carried(unit.cmd) \in Seq(Units) /\ Len(Carried(unit.cmd)) = Piece
    BY <1>5, AskedIs, CarriedIs
  <2> QED
    BY <2>1, Prefix
<1>7. /\ ~unit'.busy /\ unit'.reply.of = unit.cmd
      /\ unit'.reply.units = SubSeq(Carried(unit.cmd), 1, n)
  BY <1>1, <1>2 DEF UnitTypes, Reply
<1>8. UnitTypes'
  <2>1. Reply(unit.cmd, SubSeq(Carried(unit.cmd), 1, n)) \in [of : Commands, units : Seq(Units)]
    BY <1>5, <1>6 DEF Reply
  <2>2. NoCommand \in Commands
    BY DEF Commands
  <2>3. unit' \in [busy : BOOLEAN, seqnum : Seqnums, cmd : Commands,
                   reply : [of : Commands, units : Seq(Units)]]
    <3>1. (unit.seqnum + 1) % Cardinality(Seqnums) \in Seqnums
      BY <1>4, <1>5 DEF Seqnums
    <3> HIDE DEF Reply, Carried
    <3> QED
      BY <1>1, <1>2, <2>1, <2>2, <3>1 DEF UnitTypes
  <2>4. faults' \in 0 .. MaxFaults /\ odd' \in BOOLEAN /\ lostFirst' \in BOOLEAN
    BY <1>1, <1>2, <1>3, RiftSAssumption DEF UnitTypes
  <2> QED
    BY <1>7, <2>3, <2>4 DEF UnitTypes
<1>9. HmdTypes' /\ RemoteTypes' /\ QueueTypes'
  BY <1>1, <1>3, QueueSame DEF HmdTypes, RemoteTypes
<1>10. RemotesRight'
  BY <1>1, <1>2, <1>3, RemotesSame DEF radio
<1>11. RadioOwn'
  <2> SUFFICES ASSUME ~lostFirst'
               PROVE  IF command_result_pending
                      THEN last_radio_seqnum # unit'.seqnum
                           /\ Answers(Head(pending_commands), unit.reply)'
                      ELSE last_radio_seqnum = -1
    BY <1>3, <1>7 DEF RadioOwn, radio, Answers
  <2>1. CASE command_result_pending
    <3>1. unit.cmd = Head(pending_commands) /\ last_radio_seqnum \in {-1, unit.seqnum}
      BY <1>1, <1>3, <2>1 DEF RadioOwn
    <3>2. last_radio_seqnum # unit'.seqnum
      BY <1>5, <3>1
    <3>3. ~odd' => n = Piece
      <4>1. n # Piece => n < Piece
        BY DEF Piece
      <4> QED
        BY <1>2, <4>1
    <3> QED
      BY <1>3, <1>7, <2>1, <3>1, <3>2, <3>3 DEF Answers, radio
  <2>2. CASE ~command_result_pending
    BY <1>1, <1>3, <2>2 DEF RadioOwn
  <2> QED
    BY <2>1, <2>2
<1> QED
  BY <1>8, <1>9, <1>10, <1>11, TypingsNext DEF IInv, RemotesRight

\* The queue after an answer: the commands behind the head, and the next one.
LEMMA QueueMoves ==
  ASSUME NEW q \in Seq(Asked), q # <<>>, NEW more \in Seq(Asked),
         more = <<>> \/ \E a \in Asked : more = <<a>>
  PROVE  LET t == Tail(q) \o more
         IN  /\ t \in Seq(Asked)
             /\ \A k \in DOMAIN t :
                  \/ k + 1 \in DOMAIN q /\ t[k] = q[k + 1]
                  \/ k = Len(q) /\ more = <<t[k]>>
<1> DEFINE p == Tail(q)
           n == Len(q)
<1>1. /\ p \in Seq(Asked) /\ n \in Nat /\ n >= 1 /\ Len(p) = n - 1 /\ DOMAIN q = 1 .. n
      /\ \A j \in 1 .. n - 1 : p[j] = q[j + 1]
  BY Shifted
<1> HIDE DEF p, n
<1> DEFINE t == p \o more
<1>2. /\ t \in Seq(Asked) /\ Len(t) = Len(p) + Len(more) /\ Len(more) \in Nat
      /\ \A j \in 1 .. Len(p) : t[j] = p[j]
      /\ \A j \in Len(p) + 1 .. Len(p) + Len(more) : t[j] = more[j - Len(p)]
  BY <1>1, Joined, ZenonT(60)
<1>3. DOMAIN t = 1 .. Len(t)
  BY <1>2
<1>4. Len(more) \in {0, 1} /\ (Len(more) = 1 => more = <<more[1]>>)
  OBVIOUS
<1> HIDE DEF t
<1>5. ASSUME NEW k \in DOMAIN t
      PROVE  \/ k + 1 \in DOMAIN q /\ t[k] = q[k + 1]
             \/ k = n /\ more = <<t[k]>>
  <2>1. CASE k <= n - 1
    <3>1. k \in 1 .. Len(p) /\ k \in 1 .. n - 1 /\ k + 1 \in 1 .. n
      BY <1>1, <1>2, <1>3, <1>4, <2>1, SMTT(30)
    <3> QED
      BY <1>1, <1>2, <3>1
  <2>2. CASE ~(k <= n - 1)
    <3>0. k \in 1 .. n - 1 + Len(more) /\ Len(more) \in {0, 1} /\ n \in Nat /\ Len(p) = n - 1
      BY <1>1, <1>2, <1>3, <1>4
    <3> DEFINE m == Len(more)
    <3>a. k \in Nat /\ k <= n - 1 + m /\ m \in {0, 1} /\ n \in Nat
      BY <3>0
    <3> HIDE DEF m
    <3>b. m = 1 /\ k = n
      BY <2>2, <3>a
    <3>1. Len(more) = 1 /\ k = n /\ k \in Len(p) + 1 .. Len(p) + Len(more) /\ k - Len(p) = 1
      BY <3>0, <3>b DEF m
    <3> QED
      BY <1>2, <1>4, <3>1
  <2> QED
    BY <2>1, <2>2
<1> QED
  BY <1>2, <1>5 DEF t, p, n

LEMMA AnsweredKeeps ==
  ASSUME IInv, PollAnswered
  PROVE  IInv'
<1> DEFINE cmd == Head(pending_commands)
           i == IndexOf(cmd.to)
           c == controllers[i]
           reply == unit.reply
           result == Completed(c, cmd, reply)
<1>1. HmdTypes /\ RemoteTypes /\ QueueTypes /\ UnitTypes /\ RemotesRight /\ RadioOwn
  BY Typings DEF IInv, RemotesRight
<1>2. /\ pc = "poll" /\ Answered /\ command_result_pending
      /\ controllers' = [controllers EXCEPT ![i] = result.ctrl]
      /\ pending_commands' = Tail(pending_commands) \o result.more
      /\ last_radio_seqnum' = unit.seqnum /\ command_result_pending' = FALSE
      /\ pc' = LoopTo(FALSE, pending_commands')
      /\ UNCHANGED <<opened, use_count, touch, unit, faults, lostFirst, odd>>
  BY <1>1 DEF PollAnswered, QueueTypes
<1>3. /\ pending_commands \in Seq(Asked) /\ pending_commands # <<>>
      /\ cmd = pending_commands[1] /\ cmd \in Asked /\ 1 \in DOMAIN pending_commands
  <2>1. pending_commands \in Seq(Asked) /\ pending_commands # <<>>
    BY <1>1, <1>2 DEF QueueTypes
  <2> QED
    BY <2>1, Shifted
<1>4. /\ i \in DOMAIN controllers /\ c.id = cmd.to /\ c \in Controllers
      /\ DOMAIN controllers = 1 .. Len(controllers) /\ Len(controllers) \in Nat
  <2>1. Known(cmd.to)
    BY <1>1, <1>3 DEF QueueTypes
  <2>2. controllers \in Seq(Controllers)
    BY <1>1 DEF RemoteTypes
  <2> QED
    BY <2>1, <2>2, IndexFound
<1>5. Partial(c) /\ reply \in Replies
  BY <1>1, <1>4 DEF RemotesRight, Reading, UnitTypes, Replies
<1> HIDE DEF cmd, i
<1>6. Result(c, result)
  BY <1>3, <1>4, <1>5, CompletedKeeps
<1>7. ~lostFirst => /\ reply.of = cmd
                    /\ \A k \in 1 .. Len(reply.units) : reply.units[k][1] = cmd.to
                    /\ ~odd => reply.units = Carried(cmd)
  <2> SUFFICES ASSUME ~lostFirst PROVE Answers(cmd, reply)
    BY <1>3, <1>5, AnswersAre
  <2> QED
    BY <1>1, <1>2 DEF RadioOwn, Answered, cmd
<1>8. ~lostFirst => Own(result.ctrl)
  <2>1. ~lostFirst => Own(c)
    BY <1>1, <1>4 DEF RemotesRight, AllOwn
  <2> QED
    BY <1>3, <1>4, <1>5, <1>7, <2>1, CompletedOwn
<1>9. ASSUME ~odd, ~lostFirst
      PROVE  /\ NoHole(c) /\ NoHole(result.ctrl)
             /\ cmd.kind = "json" => \A a \in Asked : result.more = <<a>> => Asking(result.ctrl, a)
             /\ cmd.kind = "config" =>
                  /\ result.ctrl.data = c.data /\ result.ctrl.cur_offset = c.cur_offset
                  /\ result.more = <<>>
  <2>1. NoHole(c) /\ (cmd.kind = "json" => Asking(c, cmd))
    <3>1. InPieces(c)
      BY <1>1, <1>4, <1>9 DEF RemotesRight, AllInPieces
    <3>2. cmd.kind = "json" => 1 \in JsonOf(c.id)
      BY <1>3, <1>4 DEF JsonOf
    <3> QED
      BY <1>3, <3>1, <3>2 DEF InPieces
  <2>2. CASE cmd.kind = "json"
    BY <1>3, <1>4, <1>5, <1>7, <1>9, <2>1, <2>2, CompletedJson
  <2>3. CASE cmd.kind = "config"
    <3>1. /\ result.ctrl.id = c.id /\ result.ctrl.data = c.data
          /\ result.ctrl.calibration = c.calibration
          /\ result.ctrl.cur_offset = c.cur_offset /\ result.more = <<>>
      BY <1>3, <1>5, <1>4, <2>3, CompletedConfig
    <3> QED
      BY <2>1, <2>3, <3>1 DEF NoHole
  <2> QED
    BY <1>3, <2>1, <2>2, <2>3, AskedIs
<1> HIDE DEF result, c, reply
<1>10. /\ controllers' \in Seq(Controllers) /\ Len(controllers') = Len(controllers)
       /\ DOMAIN controllers' = DOMAIN controllers
       /\ controllers'[i] = result.ctrl
       /\ \A j \in DOMAIN controllers \ {i} : controllers'[j] = controllers[j]
       /\ \A j \in DOMAIN controllers : /\ controllers'[j].id = controllers[j].id
                                        /\ controllers'[j].type = controllers[j].type
  BY <1>1, <1>2, <1>4, <1>6 DEF RemoteTypes, Result, c
<1>12. /\ pending_commands' \in Seq(Asked)
       /\ \A k \in DOMAIN pending_commands' :
            \/ k + 1 \in DOMAIN pending_commands /\ pending_commands'[k] = pending_commands[k + 1]
            \/ k = Len(pending_commands) /\ result.more = <<pending_commands'[k]>>
  BY <1>2, <1>3, <1>6, QueueMoves DEF Result
<1>13. \A a : result.more = <<a>> => a.to = cmd.to
  BY <1>4, <1>6 DEF Result
<1>14. HmdTypes' /\ RemoteTypes' /\ UnitTypes'
  BY <1>1, <1>2, <1>10 DEF HmdTypes, RemoteTypes, UnitTypes, LoopTo
<1>15. QueueTypes'
  <2>1. ASSUME NEW k \in DOMAIN pending_commands'
        PROVE  \E j \in DOMAIN controllers' : controllers'[j].id = pending_commands'[k].to
    <3>1. Known(pending_commands'[k].to)
      BY <1>1, <1>3, <1>12, <1>13 DEF QueueTypes
    <3> QED
      BY <1>10, <3>1 DEF Known
  <2>2. \A k \in DOMAIN pending_commands' : Known(pending_commands[k].to)'
    BY <2>1 DEF Known
  <2>3. last_radio_seqnum' \in Seqnums \cup {-1}
    BY <1>1, <1>2 DEF UnitTypes
  <2> QED
    BY <1>2, <1>12, <2>2, <2>3 DEF QueueTypes, LoopTo
<1>16. RadioOwn'
  BY <1>2 DEF RadioOwn, Answered
<1>17. Listed' /\ TouchOfItsHand'
  BY <1>1, <1>2, <1>10 DEF RemotesRight, Listed, TouchOfItsHand, NoController
<1>18. Reading'
  BY <1>1, <1>6, <1>10 DEF RemotesRight, Reading, Result
<1>19. AllOwn'
  BY <1>1, <1>2, <1>8, <1>10 DEF RemotesRight, AllOwn
<1>20. ASSUME ~odd, ~lostFirst, NEW j \in DOMAIN controllers
       PROVE  InPieces(controllers[j])'
  <2> DEFINE r == controllers[j].id
             next == pending_commands'
  <2>0. /\ controllers'[j].id = r
        /\ DOMAIN next = 1 .. Len(next) /\ Len(next) \in Nat
        /\ DOMAIN pending_commands = 1 .. Len(pending_commands)
    BY <1>3, <1>10, <1>12, LenProperties
  <2>1. ASSUME NEW k \in DOMAIN next, next[k].to = r, next[k].kind = "json"
        PROVE  \/ k + 1 \in JsonOf(r) /\ next[k] = pending_commands[k + 1]
               \/ j = i /\ cmd.kind = "json" /\ k = Len(pending_commands)
                  /\ result.more = <<next[k]>>
    <3>1. CASE k + 1 \in DOMAIN pending_commands /\ next[k] = pending_commands[k + 1]
      BY <2>1, <3>1 DEF JsonOf
    <3>2. CASE k = Len(pending_commands) /\ result.more = <<next[k]>>
      <4>1. j = i
        BY <1>1, <1>4, <1>13, <2>1, <3>2 DEF RemotesRight, Listed, c
      <4>2. cmd.kind = "json"
        BY <1>3, <1>9, <1>20, <3>2, AskedIs
      <4> QED
        BY <3>2, <4>1, <4>2
    <3> QED
      BY <1>12, <3>1, <3>2
  <2>2. InPieces(controllers[j])
    BY <1>1, <1>20 DEF RemotesRight, AllInPieces
  <2>3. CASE j # i \/ cmd.kind = "config"
    <3>1. /\ NoHole(controllers'[j])
          /\ controllers'[j].data = controllers[j].data
          /\ controllers'[j].cur_offset = controllers[j].cur_offset
      <4>1. CASE j # i
        BY <1>10, <2>2, <4>1 DEF InPieces
      <4>2. CASE j = i
        BY <1>9, <1>10, <1>20, <2>3, <4>2 DEF c
      <4> QED
        BY <4>1, <4>2
    <3>2. ASSUME NEW k \in DOMAIN next, next[k].to = r, next[k].kind = "json"
          PROVE  /\ k \in Nat /\ k + 1 \in JsonOf(r)
                 /\ Asking(controllers'[j], next[k])
      <4>1. k + 1 \in JsonOf(r) /\ next[k] = pending_commands[k + 1]
        BY <2>1, <2>3, <3>2
      <4>2. Asking(controllers[j], pending_commands[k + 1])
        BY <2>2, <4>1 DEF InPieces
      <4>3. k \in Nat
        BY <2>0
      <4> QED
        BY <2>0, <3>1, <4>1, <4>2, <4>3 DEF Asking
    <3>3. ASSUME NEW k \in DOMAIN next, next[k].to = r, next[k].kind = "json",
                 NEW l \in DOMAIN next, next[l].to = r, next[l].kind = "json"
          PROVE  k = l
      <4>1. k + 1 = l + 1
        BY <2>2, <3>2, <3>3 DEF InPieces
      <4> QED
        BY <2>0, <4>1
    <3> QED
      BY <2>0, <3>1, <3>2, <3>3 DEF InPieces, JsonOf, NoHole, Asking
  <2>4. CASE j = i /\ cmd.kind = "json"
    <3>1. controllers'[j] = result.ctrl /\ NoHole(result.ctrl)
      BY <1>9, <1>10, <1>20, <2>4
    <3>2. 1 \in JsonOf(r)
      BY <1>3, <1>4, <2>4 DEF JsonOf, c
    <3>3. ASSUME NEW k \in DOMAIN next, next[k].to = r, next[k].kind = "json"
          PROVE  k = Len(pending_commands) /\ Asking(controllers'[j], next[k])
      <4>1. ~(k + 1 \in JsonOf(r))
        <5> SUFFICES ASSUME k + 1 \in JsonOf(r) PROVE FALSE
          OBVIOUS
        <5>1. k + 1 = 1
          BY <2>2, <3>2 DEF InPieces
        <5> QED
          BY <2>0, <5>1
      <4>2. k = Len(pending_commands) /\ result.more = <<next[k]>>
        BY <2>1, <3>3, <4>1
      <4>3. next[k] \in Asked
        BY <1>12, <2>0, ElementOfSeq
      <4> QED
        BY <1>9, <1>20, <2>4, <3>1, <4>2, <4>3
    <3> QED
      BY <2>0, <3>1, <3>3 DEF InPieces, JsonOf, NoHole, Asking
  <2> QED
    BY <1>3, <2>3, <2>4, AskedIs
<1>21. AllInPieces'
  BY <1>2, <1>10, <1>20 DEF AllInPieces
<1> QED
  BY <1>14, <1>15, <1>16, <1>17, <1>18, <1>19, <1>21, TypingsNext DEF IInv
-----------------------------------------------------------------------------
(***************************************************************************)
(* A remote reports.                                                       *)
(***************************************************************************)
HandsShown(cs, t) ==
  \A h \in Hands : /\ t[h] \in 0 .. Len(cs)
                   /\ t[h] # NoController => cs[t[h]].type = h
                   /\ (\E k \in DOMAIN cs : cs[k].type = h) => t[h] # NoController

HandsKnown(cs) == \A k \in DOMAIN cs : cs[k].type \in {"unknown", Hand[cs[k].id]}

\* Two lists of controllers that differ in the types only.
SameBut(cs, ds) ==
  /\ Len(ds) = Len(cs)
  /\ \A k \in 1 .. Len(cs) :
       /\ ds[k].id = cs[k].id /\ ds[k].config = cs[k].config
       /\ ds[k].calibration = cs[k].calibration /\ ds[k].block_len = cs[k].block_len
       /\ ds[k].cur_offset = cs[k].cur_offset /\ ds[k].data = cs[k].data

\* update_device_types keeps hands and touch devices together.
LEMMA TypedKeeps ==
  ASSUME NEW cs \in Seq(Controllers), Len(cs) <= MAX_CONTROLLERS, HandsKnown(cs),
         HandsShown(cs, touch), NEW listed \in SUBSET Remotes,
         NEW t \in Bound(cs, listed)
  PROVE  /\ Typed(cs, listed) \in Seq(Controllers) /\ SameBut(cs, Typed(cs, listed))
         /\ HandsKnown(Typed(cs, listed)) /\ HandsShown(Typed(cs, listed), t)
         /\ t \in [Hands -> 0 .. MAX_CONTROLLERS]
<1> DEFINE ds == Typed(cs, listed)
<1>1. /\ Len(cs) \in Nat /\ DOMAIN cs = 1 .. Len(cs)
      /\ \A k \in 1 .. Len(cs) : cs[k] \in Controllers
  BY LenProperties, ElementOfSeq
<1>2. \A r \in Remotes : Hand[r] \in Hands /\ Hand[r] # "unknown"
  BY RiftSAssumption DEF Hands
<1>3. ds = [k \in 1 .. Len(cs) |->
              IF cs[k].id \in listed THEN [cs[k] EXCEPT !.type = Hand[cs[k].id]] ELSE cs[k]]
  BY <1>1 DEF Typed
<1> HIDE DEF ds
<1>4. ASSUME NEW k \in 1 .. Len(cs)
      PROVE  /\ ds[k] \in Controllers
             /\ ds[k].id = cs[k].id /\ ds[k].config = cs[k].config
             /\ ds[k].calibration = cs[k].calibration /\ ds[k].block_len = cs[k].block_len
             /\ ds[k].cur_offset = cs[k].cur_offset /\ ds[k].data = cs[k].data
             /\ ds[k].type = IF cs[k].id \in listed THEN Hand[cs[k].id] ELSE cs[k].type
  <2>1. cs[k] \in Controllers /\ Hand[cs[k].id] \in Hands
    BY <1>1, <1>2 DEF Controllers
  <2>2. CASE cs[k].id \in listed
    <3>1. ds[k] = [cs[k] EXCEPT !.type = Hand[cs[k].id]]
      BY <1>3, <2>2
    <3> QED
      BY <2>1, <2>2, <3>1 DEF Controllers
  <2>3. CASE cs[k].id \notin listed
    <3>1. ds[k] = cs[k]
      BY <1>3, <2>3
    <3> QED
      BY <2>1, <2>3, <3>1
  <2> QED
    BY <2>2, <2>3
<1>5. ds \in Seq(Controllers) /\ Len(ds) = Len(cs) /\ DOMAIN ds = 1 .. Len(cs)
  <2>1. ds = [k \in 1 .. Len(cs) |-> ds[k]] /\ \A k \in 1 .. Len(cs) : ds[k] \in Controllers
    BY <1>3, <1>4
  <2> QED
    BY <1>1, <2>1
<1>6. SameBut(cs, ds)
  BY <1>4, <1>5 DEF SameBut
<1>7. HandsKnown(ds)
  BY <1>1, <1>4, <1>5 DEF HandsKnown
<1>8. /\ t \in [Hands -> 0 .. MAX_CONTROLLERS]
      /\ \A h \in Hands : IF NewFor(cs, listed, h) = {} THEN t[h] = touch[h]
                          ELSE t[h] \in NewFor(cs, listed, h)
  BY DEF Bound
<1>9. ASSUME NEW h \in Hands
      PROVE  /\ t[h] \in 0 .. Len(ds)
             /\ t[h] # NoController => ds[t[h]].type = h
             /\ (\E k \in DOMAIN ds : ds[k].type = h) => t[h] # NoController
  <2>1. CASE NewFor(cs, listed, h) = {}
    <3>1. t[h] = touch[h] /\ touch[h] \in 0 .. Len(cs)
      BY <1>8, <2>1 DEF HandsShown
    <3>2. ASSUME t[h] # NoController PROVE ds[t[h]].type = h
      <4>1. t[h] \in 1 .. Len(cs) /\ cs[t[h]].type = h
        BY <1>1, <3>1, <3>2 DEF HandsShown, NoController
      <4>2. Hand[cs[t[h]].id] = h
        BY <1>1, <4>1 DEF HandsKnown, Hands
      <4> QED
        BY <1>4, <4>1, <4>2
    <3>3. ASSUME NEW k \in DOMAIN ds, ds[k].type = h PROVE t[h] # NoController
      <4>1. k \in 1 .. Len(cs)
        BY <1>5
      <4>2. cs[k].type = h
        BY <1>1, <1>4, <2>1, <3>3, <4>1 DEF NewFor
      <4> QED
        BY <1>1, <3>1, <4>1, <4>2 DEF HandsShown
    <3> QED
      BY <1>5, <3>1, <3>2, <3>3
  <2>2. CASE NewFor(cs, listed, h) # {}
    <3>1. t[h] \in 1 .. Len(cs) /\ cs[t[h]].id \in listed /\ Hand[cs[t[h]].id] = h
      BY <1>1, <1>8, <2>2 DEF NewFor
    <3>2. ds[t[h]].type = h
      BY <1>4, <3>1
    <3>3. t[h] \in 0 .. Len(ds) /\ t[h] # NoController
      BY <1>1, <1>5, <3>1 DEF NoController
    <3> QED
      BY <3>2, <3>3
  <2> QED
    BY <2>1, <2>2
<1>10. HandsShown(ds, t)
  BY <1>9 DEF HandsShown
<1> QED
  BY <1>5, <1>6, <1>7, <1>8, <1>10 DEF ds

\* A remote that is known gets its type, or nothing changes.
LEMMA KnownReportKeeps ==
  ASSUME IInv, NEW listed \in SUBSET Remotes,
         UNCHANGED <<opened, use_count, pc, pending_commands, command_result_pending,
                     last_radio_seqnum, unit, faults, lostFirst, odd>>,
         controllers' = Typed(controllers, listed), touch' \in Bound(controllers, listed)
  PROVE  IInv'
<1>1. HmdTypes /\ RemoteTypes /\ QueueTypes /\ UnitTypes /\ RemotesRight /\ RadioOwn
  BY Typings DEF IInv, RemotesRight
<1>2. /\ controllers \in Seq(Controllers) /\ Len(controllers) <= MAX_CONTROLLERS
      /\ HandsKnown(controllers) /\ HandsShown(controllers, touch)
  BY <1>1 DEF RemoteTypes, RemotesRight, Listed, TouchOfItsHand, HandsKnown, HandsShown
<1> DEFINE cs == controllers
           ds == controllers'
<1>3. /\ ds \in Seq(Controllers) /\ SameBut(cs, ds) /\ HandsKnown(ds) /\ HandsShown(ds, touch')
      /\ touch' \in [Hands -> 0 .. MAX_CONTROLLERS]
  BY <1>2, TypedKeeps
<1>4. /\ DOMAIN ds = DOMAIN cs /\ Len(ds) = Len(cs) /\ DOMAIN cs = 1 .. Len(cs)
      /\ \A k \in DOMAIN cs :
           /\ ds[k].id = cs[k].id /\ ds[k].config = cs[k].config
           /\ ds[k].calibration = cs[k].calibration /\ ds[k].block_len = cs[k].block_len
           /\ ds[k].cur_offset = cs[k].cur_offset /\ ds[k].data = cs[k].data
  BY <1>2, <1>3 DEF SameBut
<1>5. HmdTypes' /\ RemoteTypes' /\ UnitTypes'
  BY <1>1, <1>2, <1>3, <1>4 DEF HmdTypes, RemoteTypes, UnitTypes
<1>6. QueueTypes'
  BY <1>1, <1>4 DEF QueueTypes, Known
<1>7. RadioOwn'
  BY <1>1 DEF RadioOwn, Answers
<1>8. Listed' /\ TouchOfItsHand'
  BY <1>1, <1>3, <1>4 DEF RemotesRight, Listed, TouchOfItsHand, HandsKnown, HandsShown
<1>9. Reading' /\ AllOwn'
  BY <1>1, <1>4 DEF RemotesRight, Reading, Partial, AllOwn, Own
<1>10. AllInPieces'
  BY <1>1, <1>4 DEF RemotesRight, AllInPieces, InPieces, NoHole, JsonOf, Asking
<1> QED
  BY <1>5, <1>6, <1>7, <1>8, <1>9, <1>10, TypingsNext DEF IInv

\* A new remote: its configuration and the header of its block are asked for.
LEMMA NewReportKeeps ==
  ASSUME IInv, NEW r \in Remotes, NEW listed \in SUBSET Remotes,
         ~Known(r), Len(controllers) < MAX_CONTROLLERS,
         UNCHANGED <<opened, use_count, pc, command_result_pending,
                     last_radio_seqnum, unit, faults, lostFirst, odd>>,
         pc = "reports",
         controllers' = Typed(Append(controllers, NewController(r)), listed),
         touch' \in Bound(Append(controllers, NewController(r)), listed),
         pending_commands' = pending_commands \o Wanted(r)
  PROVE  IInv'
<1> DEFINE cs == Append(controllers, NewController(r))
           ds == controllers'
           n == Len(controllers)
           q == pending_commands
           m == Len(pending_commands)
<1>1. HmdTypes /\ RemoteTypes /\ QueueTypes /\ UnitTypes /\ RemotesRight /\ RadioOwn
  BY Typings DEF IInv, RemotesRight
<1>2. /\ NewController(r) \in Controllers /\ NewController(r).type = "unknown"
      /\ NewController(r).id = r /\ NewController(r).config = NoCommand
      /\ NewController(r).calibration = <<>> /\ NewController(r).data = <<>>
      /\ NewController(r).block_len = 0 /\ NewController(r).cur_offset = 0
  <2>1. <<>> \in Seq(Units) /\ NoCommand \in Commands
    BY DEF Commands
  <2> QED
    BY <2>1 DEF NewController, Controllers
<1>3. /\ controllers \in Seq(Controllers) /\ n \in Nat /\ DOMAIN controllers = 1 .. n
      /\ q \in Seq(Asked) /\ m \in Nat /\ DOMAIN q = 1 .. m
      /\ \A k \in 1 .. m : Known(q[k].to)
  BY <1>1, LenProperties DEF RemoteTypes, QueueTypes
<1>4. /\ cs \in Seq(Controllers) /\ Len(cs) = n + 1 /\ cs[n + 1] = NewController(r)
      /\ \A k \in 1 .. n : cs[k] = controllers[k]
  BY <1>2, <1>3
<1> HIDE DEF cs
<1>5. /\ Len(cs) <= MAX_CONTROLLERS /\ DOMAIN cs = 1 .. n + 1
      /\ \A k \in 1 .. n + 1 : k \in 1 .. n \/ k = n + 1
  BY <1>3, <1>4, RiftSAssumption
<1>6. HandsKnown(cs)
  BY <1>1, <1>2, <1>3, <1>4, <1>5 DEF RemotesRight, Listed, HandsKnown
<1>7. HandsShown(cs, touch)
  <2> SUFFICES ASSUME NEW h \in Hands
               PROVE  /\ touch[h] \in 0 .. Len(cs)
                      /\ touch[h] # NoController => cs[touch[h]].type = h
                      /\ (\E k \in DOMAIN cs : cs[k].type = h) => touch[h] # NoController
    BY DEF HandsShown
  <2>1. touch[h] \in 0 .. n
    BY <1>1 DEF RemotesRight, Listed
  <2>2. ASSUME touch[h] # NoController PROVE cs[touch[h]].type = h
    <3>1. touch[h] \in 1 .. n
      BY <1>3, <2>1, <2>2 DEF NoController
    <3> QED
      BY <1>1, <1>4, <2>2, <3>1 DEF RemotesRight, TouchOfItsHand
  <2>3. ASSUME NEW k \in DOMAIN cs, cs[k].type = h PROVE touch[h] # NoController
    <3>1. k \in 1 .. n
      BY <1>2, <1>4, <1>5, <2>3 DEF Hands
    <3> QED
      BY <1>1, <1>3, <1>4, <2>3, <3>1 DEF RemotesRight, TouchOfItsHand
  <2> QED
    BY <1>3, <1>4, <2>1, <2>2, <2>3
<1>8. /\ ds \in Seq(Controllers) /\ SameBut(cs, ds) /\ HandsKnown(ds) /\ HandsShown(ds, touch')
      /\ touch' \in [Hands -> 0 .. MAX_CONTROLLERS]
  BY <1>4, <1>5, <1>6, <1>7, TypedKeeps DEF cs
<1>9. /\ DOMAIN ds = 1 .. n + 1 /\ Len(ds) = n + 1
      /\ \A k \in 1 .. n :
           /\ ds[k].id = controllers[k].id /\ ds[k].config = controllers[k].config
           /\ ds[k].calibration = controllers[k].calibration
           /\ ds[k].block_len = controllers[k].block_len
           /\ ds[k].cur_offset = controllers[k].cur_offset /\ ds[k].data = controllers[k].data
      /\ ds[n + 1].id = r /\ ds[n + 1].config = NoCommand /\ ds[n + 1].calibration = <<>>
      /\ ds[n + 1].block_len = 0 /\ ds[n + 1].cur_offset = 0 /\ ds[n + 1].data = <<>>
  <2>1. Len(ds) = n + 1 /\ DOMAIN ds = 1 .. n + 1
    BY <1>3, <1>4, <1>8 DEF SameBut
  <2>2. n + 1 \in 1 .. Len(cs) /\ \A k \in 1 .. n : k \in 1 .. Len(cs)
    BY <1>3, <1>4
  <2> QED
    BY <1>2, <1>4, <1>8, <2>1, <2>2 DEF SameBut
<1>10. \A k \in 1 .. n : controllers[k].id # r
  BY <1>3 DEF Known
<1>11. /\ pending_commands' \in Seq(Asked) /\ Len(pending_commands') = m + 2
       /\ DOMAIN pending_commands' = 1 .. m + 2
       /\ \A k \in 1 .. m : pending_commands'[k] = q[k]
       /\ pending_commands'[m + 1] = ConfigCommand(r)
       /\ pending_commands'[m + 2] = JsonCommand(r, 0, Piece)
  <2>1. ConfigCommand(r) \in Asked /\ JsonCommand(r, 0, Piece) \in Asked
    BY DEF Asked, JsonCommand, Piece
  <2>2. /\ Wanted(r) \in Seq(Asked) /\ Len(Wanted(r)) = 2
        /\ Wanted(r)[1] = ConfigCommand(r) /\ Wanted(r)[2] = JsonCommand(r, 0, Piece)
    BY <2>1 DEF Wanted
  <2> DEFINE w == Wanted(r)
  <2> HIDE DEF w
  <2>3. w \in Seq(Asked) /\ Len(w) = 2 /\ w[1] = ConfigCommand(r) /\ w[2] = JsonCommand(r, 0, Piece)
    BY <2>2 DEF w
  <2>4. /\ q \o w \in Seq(Asked) /\ Len(q \o w) = m + 2
        /\ \A j \in 1 .. m : (q \o w)[j] = q[j]
        /\ \A j \in m + 1 .. m + 2 : (q \o w)[j] = w[j - m]
    <3>1. m = Len(q)
      OBVIOUS
    <3> HIDE DEF m, q
    <3>2. /\ q \o w \in Seq(Asked) /\ Len(q \o w) = Len(q) + Len(w)
          /\ \A j \in 1 .. Len(q) : (q \o w)[j] = q[j]
          /\ \A j \in Len(q) + 1 .. Len(q) + Len(w) : (q \o w)[j] = w[j - Len(q)]
      BY <1>3, <2>3, Joined, ZenonT(60)
    <3> QED
      BY <2>3, <3>1, <3>2
  <2> DEFINE p == q \o w
  <2> HIDE DEF p
  <2>5. /\ p \in Seq(Asked) /\ Len(p) = m + 2
        /\ \A j \in 1 .. m : p[j] = q[j]
        /\ \A j \in m + 1 .. m + 2 : p[j] = w[j - m]
    BY <2>4 DEF p
  <2>6. /\ m + 1 \in m + 1 .. m + 2 /\ (m + 1) - m = 1
        /\ m + 2 \in m + 1 .. m + 2 /\ (m + 2) - m = 2
    BY <1>3
  <2>7. pending_commands' = p
    BY DEF p, w
  <2>8. DOMAIN p = 1 .. m + 2
    BY <2>5
  <2> QED
    BY <2>3, <2>5, <2>6, <2>7, <2>8
<1>12. \A k \in 1 .. m + 2 : k \in 1 .. m \/ k = m + 1 \/ k = m + 2
  <2>1. m \in Nat
    BY <1>3
  <2> HIDE DEF m
  <2> QED
    BY <2>1
<1>13. HmdTypes' /\ RemoteTypes' /\ UnitTypes'
  BY <1>1, <1>3, <1>5, <1>4, <1>8, <1>9 DEF HmdTypes, RemoteTypes, UnitTypes
<1>14. QueueTypes'
  <2>1. ASSUME NEW k \in DOMAIN pending_commands'
        PROVE  \E j \in DOMAIN ds : ds[j].id = pending_commands'[k].to
    <3>1. CASE k \in 1 .. m
      <4>1. PICK j \in 1 .. n : controllers[j].id = q[k].to
        BY <1>3, <3>1 DEF Known
      <4>2. j \in DOMAIN ds /\ ds[j].id = pending_commands'[k].to
        BY <1>3, <1>5, <1>9, <1>11, <3>1, <4>1
      <4> QED
        BY <4>2
    <3>2. CASE k \in {m + 1, m + 2}
      <4>1. pending_commands'[k].to = r /\ n + 1 \in DOMAIN ds
        BY <1>3, <1>9, <1>11, <3>2 DEF ConfigCommand, JsonCommand
      <4> QED
        BY <1>9, <4>1
    <3> QED
      BY <1>11, <1>12, <3>1, <3>2
  <2>2. \A k \in DOMAIN pending_commands' : Known(pending_commands[k].to)'
    BY <2>1 DEF Known
  <2>3. Len(<<>>) = 0 /\ m + 2 # 0
    BY <1>3
  <2>4. pending_commands' # <<>>
    BY <1>11, <2>3
  <2> QED
    BY <1>1, <1>11, <2>2, <2>4 DEF QueueTypes
<1>15. RadioOwn'
  <2>1. command_result_pending => Head(pending_commands') = Head(pending_commands)
    <3> SUFFICES ASSUME command_result_pending PROVE Head(pending_commands') = Head(pending_commands)
      OBVIOUS
    <3>1. q # <<>>
      BY <1>1 DEF QueueTypes
    <3>2. Head(q) = q[1] /\ m >= 1
      BY <1>3, <3>1, Shifted
    <3>3. pending_commands' # <<>> /\ pending_commands'[1] = q[1]
      BY <1>3, <1>11, <3>2
    <3> QED
      BY <1>11, <3>2, <3>3, Shifted
  <2> QED
    BY <1>1, <2>1 DEF RadioOwn, Answers
<1>16. Listed' /\ TouchOfItsHand'
  <2>1. ASSUME NEW j \in DOMAIN ds, NEW k \in DOMAIN ds, ds[j].id = ds[k].id
        PROVE  j = k
    <3>1. CASE j \in 1 .. n /\ k \in 1 .. n
      BY <1>1, <1>3, <1>9, <2>1, <3>1 DEF RemotesRight, Listed
    <3>2. CASE j = n + 1 \/ k = n + 1
      BY <1>5, <1>9, <1>10, <2>1, <3>2
    <3> QED
      BY <1>5, <1>9, <3>1, <3>2
  <2> QED
    BY <1>8, <2>1 DEF Listed, TouchOfItsHand, HandsKnown, HandsShown
<1>17. Reading'
  <2>1. \A k \in 1 .. n : Partial(controllers[k])
    BY <1>1, <1>3 DEF RemotesRight, Reading
  <2> QED
    BY <1>5, <1>9, <2>1 DEF Reading, Partial
<1>18. AllOwn'
  <2>1. DOMAIN <<>> = {}
    OBVIOUS
  <2>2. ~lostFirst => \A k \in 1 .. n : Own(controllers[k])
    BY <1>1, <1>3 DEF RemotesRight, AllOwn
  <2> QED
    BY <1>5, <1>9, <2>1, <2>2 DEF AllOwn, Own
<1>19. ASSUME ~odd, ~lostFirst, NEW j \in DOMAIN ds
       PROVE  InPieces(controllers[j])'
  <2>0. /\ \A k \in 1 .. m : q[k].to # r
        /\ ConfigCommand(r).kind = "config"
        /\ JsonCommand(r, 0, Piece).to = r /\ ConfigCommand(r).to = r
    BY <1>3 DEF ConfigCommand, JsonCommand
  <2>1. CASE j \in 1 .. n
    <3>1. InPieces(controllers[j]) /\ ds[j].id = controllers[j].id /\ ds[j].id # r
      BY <1>1, <1>3, <1>9, <1>10, <1>19, <2>1 DEF RemotesRight, AllInPieces
    <3>2. \A k \in DOMAIN pending_commands' :
            pending_commands'[k].to = ds[j].id => k \in DOMAIN q /\ pending_commands'[k] = q[k]
      BY <1>3, <1>11, <1>12, <2>0, <3>1
    <3> DEFINE c == controllers[j]
    <3>3. /\ ds[j].id = c.id /\ ds[j].calibration = c.calibration /\ ds[j].data = c.data
          /\ ds[j].cur_offset = c.cur_offset /\ ds[j].block_len = c.block_len
      BY <1>9, <2>1
    <3>4. NoHole(ds[j])
      BY <3>1, <3>3 DEF InPieces, NoHole
    <3> DEFINE ks == {k \in DOMAIN pending_commands' : pending_commands'[k].to = ds[j].id
                                                       /\ pending_commands'[k].kind = "json"}
    <3>5. \A k \in ks : k \in JsonOf(c.id) /\ pending_commands'[k] = q[k]
      BY <3>2, <3>3 DEF JsonOf
    <3>6. \A k \in ks : Asking(ds[j], pending_commands'[k])
      BY <3>1, <3>3, <3>5 DEF InPieces, Asking
    <3>7. \A k, l \in ks : k = l
      BY <3>1, <3>5 DEF InPieces
    <3> QED
      BY <3>4, <3>6, <3>7 DEF InPieces, NoHole, JsonOf, Asking
  <2>2. CASE j = n + 1
    <3>1. \A k \in DOMAIN pending_commands' :
            pending_commands'[k].to = r /\ pending_commands'[k].kind = "json" => k = m + 2
      BY <1>11, <1>12, <2>0
    <3>2. DOMAIN <<>> = {}
      OBVIOUS
    <3> QED
      BY <1>9, <1>11, <2>2, <3>1, <3>2 DEF InPieces, NoHole, JsonOf, Asking
  <2> QED
    BY <1>5, <1>9, <2>1, <2>2
<1>20. AllInPieces'
  BY <1>19 DEF AllInPieces
<1> QED
  BY <1>13, <1>14, <1>15, <1>16, <1>17, <1>18, <1>20, TypingsNext DEF IInv

LEMMA ReportKeeps ==
  ASSUME IInv, NEW r \in Remotes, NEW listed \in Lists, HandleControllerReport(r, listed)
  PROVE  IInv'
<1>1. listed \in SUBSET Remotes /\ pc = "reports"
  BY RiftSAssumption DEF HandleControllerReport
<1>2. CASE ~Known(r)
  BY <1>1, <1>2, NewReportKeeps DEF HandleControllerReport
<1>3. CASE Known(r) /\ UNCHANGED <<controllers, touch>>
  <2>1. UNCHANGED vars
    BY <1>3 DEF HandleControllerReport, vars
  <2> QED
    BY <2>1, SmallStepsKeep
<1>4. CASE Known(r) /\ ~UNCHANGED <<controllers, touch>>
  <2>1. /\ controllers' = Typed(controllers, listed) /\ touch' \in Bound(controllers, listed)
        /\ UNCHANGED pending_commands
    BY <1>4 DEF HandleControllerReport
  <2> QED
    BY <1>1, <1>4, <2>1, KnownReportKeeps DEF HandleControllerReport
<1> QED
  BY <1>2, <1>3, <1>4

-----------------------------------------------------------------------------
\* Every step keeps the invariant.
THEOREM Inductive == IInv /\ [Next]_vars => IInv'
<1> SUFFICES ASSUME IInv, [Next]_vars PROVE IInv'
  OBVIOUS
<1>1. CASE \E id \in 0 .. 2 : OpenDevice(id) \/ CloseDevice(id) \/ UpdateDevice(id)
  BY <1>1, OpenKeeps, CloseKeeps, SmallStepsKeep
<1>2. CASE \E r \in Remotes, listed \in Lists : HandleControllerReport(r, listed)
  BY <1>2, ReportKeeps
<1>3. CASE ReportsEnd \/ SendCommand \/ PollInVain \/ UNCHANGED vars
  <2>1. 0 \in 0 .. 2
    OBVIOUS
  <2> QED
    BY <1>3, <2>1, SmallStepsKeep
<1>4. CASE PollAnswered
  BY <1>4, AnsweredKeeps
<1>5. CASE UnitAnswers
  BY <1>5, UnitKeeps
<1> QED
  BY <1>1, <1>2, <1>3, <1>4, <1>5 DEF Next

LEMMA InvariantHolds == Spec => []IInv
<1>1. Init => IInv
  <2> SUFFICES ASSUME Init PROVE IInv
    OBVIOUS
  <2>1. /\ <<>> \in Seq(Controllers) /\ Len(<<>>) = 0 /\ DOMAIN <<>> = {}
        /\ <<>> \in Seq(Asked) /\ <<>> \in Seq(Units)
        /\ MAX_CONTROLLERS \in Nat /\ MaxFaults \in Nat
    BY RiftSAssumption
  <2>2. HmdTypes
    BY FS_EmptySet DEF Init, HmdTypes
  <2>3. RemoteTypes /\ QueueTypes
    <3>1. /\ controllers = <<>> /\ pending_commands = <<>> /\ command_result_pending = FALSE
          /\ pc = "idle" /\ last_radio_seqnum = -1 /\ touch = [h \in Hands |-> 0]
      BY DEF Init, NoController
    <3>2. 0 \in 0 .. MAX_CONTROLLERS
      BY <2>1
    <3>3. touch \in [Hands -> 0 .. MAX_CONTROLLERS]
      BY <3>1, <3>2
    <3>4. RemoteTypes
      BY <2>1, <3>1, <3>3 DEF RemoteTypes
    <3>5. \A k \in DOMAIN pending_commands : Known(pending_commands[k].to)
      BY <2>1, <3>1
    <3>6. pending_commands \in Seq(Asked)
      BY <2>1, <3>1
    <3> QED
      BY <3>1, <3>4, <3>5, <3>6 DEF QueueTypes
  <2>4. UnitTypes
    <3>1. NoCommand \in Commands
      BY DEF Commands
    <3>2. 0 \in Seqnums
      BY DEF Seqnums
    <3>3. Reply(NoCommand, <<>>) \in [of : Commands, units : Seq(Units)]
      BY <2>1, <3>1 DEF Reply
    <3>4. unit = [busy |-> FALSE, seqnum |-> 0, cmd |-> NoCommand, reply |-> Reply(NoCommand, <<>>)]
      BY DEF Init
    <3>5. /\ unit \in [busy : BOOLEAN, seqnum : Seqnums, cmd : Commands,
                       reply : [of : Commands, units : Seq(Units)]]
          /\ ~unit.busy
      BY <3>1, <3>2, <3>3, <3>4
    <3>6. faults \in 0 .. MaxFaults /\ lostFirst \in BOOLEAN /\ odd \in BOOLEAN
      <4>1. faults = 0 /\ lostFirst = FALSE /\ odd = FALSE
        BY DEF Init
      <4>2. 0 \in 0 .. MaxFaults
        BY <2>1
      <4>3. faults \in 0 .. MaxFaults
        BY <4>1, <4>2
      <4>4. lostFirst \in BOOLEAN /\ odd \in BOOLEAN
        BY <4>1, Zenon
      <4> QED
        BY <4>3, <4>4
    <3> QED
      BY <3>5, <3>6 DEF UnitTypes
  <2>5. Listed /\ Reading /\ AllOwn /\ AllInPieces /\ TouchOfItsHand
    BY <2>1 DEF Init, Listed, Reading, AllOwn, AllInPieces, TouchOfItsHand, NoController
  <2>6. RadioOwn
    BY DEF Init, RadioOwn
  <2>7. TypeOK
    BY <2>2, <2>3, <2>4 DEF TypeOK, HmdTypes, RemoteTypes, QueueTypes, UnitTypes
  <2> QED
    BY <2>5, <2>6, <2>7 DEF IInv
<1> QED
  BY <1>1, Inductive, PTL DEF Spec

\* Whichever devices are open, exactly one of them polls the head unit, and a
\* touch device shows a remote of its own hand (update_device, and
\* update_device_types of rift-s.c and rift-s-controller.c).
THEOREM SharedSafe == Spec => []HeadUnitShared
<1>1. IInv => HeadUnitShared
  <2> SUFFICES ASSUME IInv PROVE HeadUnitShared
    OBVIOUS
  <2>1. opened \subseteq 0 .. 2
    BY DEF IInv, TypeOK
  <2>2. ASSUME opened # {}
        PROVE  \E id \in 0 .. 2 : {j \in 0 .. 2 : Polls(j)} = {id}
    <3>1. CASE 0 \in opened
      <4>1. {j \in 0 .. 2 : Polls(j)} = {0}
        BY <3>1 DEF Polls
      <4> QED
        BY <4>1
    <3>2. CASE 0 \notin opened /\ 1 \in opened
      <4>1. {j \in 0 .. 2 : Polls(j)} = {1}
        BY <3>2 DEF Polls
      <4> QED
        BY <4>1
    <3>3. CASE 0 \notin opened /\ 1 \notin opened
      <4>1. opened = {2}
        <5>1. \A x \in 0 .. 2 : x = 0 \/ x = 1 \/ x = 2
          OBVIOUS
        <5>2. \A x \in opened : x = 2
          BY <2>1, <3>3, <5>1
        <5> QED
          BY <2>2, <5>2
      <4>2. {j \in 0 .. 2 : Polls(j)} = {2}
        BY <4>1 DEF Polls
      <4> QED
        BY <4>2
    <3> QED
      BY <3>1, <3>2, <3>3
  <2>3. PolledOnce
    BY <2>2, FS_Singleton DEF PolledOnce
  <2> QED
    BY <2>3 DEF IInv, HeadUnitShared
<1> QED
  BY <1>1, InvariantHolds, PTL

\* A remote is calibrated with what it sent itself in answer to that request,
\* and with the whole of it, each unit in its place - unless the first command
\* of the session was lost or a reply was short (rift-s-radio.c).
THEOREM CalibrationSafe == Spec => []CalibratedByOwn
<1>1. IInv => CalibratedByOwn
  <2> SUFFICES ASSUME IInv PROVE CalibratedByOwn
    OBVIOUS
  <2>1. AnswersAreOwn
    BY DEF IInv, AllOwn, Own, AnswersAreOwn
  <2>2. CalibrationWhole
    BY DEF IInv, AllInPieces, InPieces, NoHole, Whole, CalibrationWhole
  <2> QED
    BY <2>1, <2>2 DEF IInv, CalibratedByOwn
<1> QED
  BY <1>1, InvariantHolds, PTL
=============================================================================
