------------------------------ MODULE UdpStream ------------------------------
(***************************************************************************)
(* One file that transport/udp carries from one node to another: the       *)
(* stream on either side (udp_stream), the file with its registration at   *)
(* the gateway (udp_file_queue), and what the sessions do to both when     *)
(* they close (udp_session).  The network loses, repeats and reorders      *)
(* datagrams.                                                              *)
(*                                                                         *)
(* Time is not modelled: what waits for the rate, the round trip time or   *)
(* the number of missed acks may happen now or later.  A side times out    *)
(* when nothing can come from the other one.                               *)
(***************************************************************************)
EXTENDS Integers, FiniteSets, SequencesExt, FiniteSetsExt

CONSTANTS
  Size,       \* of the file, in blocks
  PerAck,     \* BLOCKS_PER_ACK; a file is read by as many blocks at once
  Buffer,     \* OUTPUT_BUFFER_SIZE in blocks
  MaxFlight,  \* bound: the timers do not fire with as many datagrams under way
  MaxFaults,  \* bound of lost and repeated datagrams
  MaxTroubles \* bound of what is worse

(* A file of one block is acknowledged but never taken for finished: the   *)
(* first block finds the stream in DOWNTIME, which does not ask isEOF.     *)
ASSUME SizeAssumption ==
  /\ Size \in Nat \ {0, 1} /\ PerAck \in Nat \ {0}
  /\ Buffer \in Nat /\ Buffer >= PerAck

VARIABLES
  out,       \* the sending stream with its OutboxFile
  in,        \* the receiving one with its InboxFile
  outTold,   \* the verdicts that the gateway of the sender was told
  inTold,    \* and that of the receiver
  sessions,  \* of "out" and "in": those that are CONNECTED
  renewed,   \* the receiver has a new session, or has started again
  net,       \* the datagrams under way
  cut,       \* all datagrams are lost at present
  troubles,  \* how many there were
  faults

vars == <<out, in, outTold, inTold, sessions, renewed, net, cut, troubles, faults>>

Block == 1..Size

Data(g) == {[kind |-> "data", block |-> k] : k \in g}
Ack(eof, blocks, pause) == [kind |-> "ack", eof |-> eof, acks |-> blocks, pause |-> pause]
ZeroAck == [kind |-> "zero"]

(* The network with more datagrams in place of d.                          *)
Sends(left, more) == net' = IF cut THEN left ELSE left \cup more

NewIn == [state |-> "DOWNTIME", blocks |-> {}, toAck |-> {}, file |-> <<>>, acked |-> FALSE,
          eof |-> FALSE, status |-> "none", reg |-> "asked", due |-> {}]
NoIn == [NewIn EXCEPT !.state = "NONE"]

Init ==
  /\ out = [state |-> "DOWNTIME", pushed |-> 0, blocks |-> {}, fresh |-> {}, delivered |-> 0,
            status |-> "none", cancelled |-> FALSE, reg |-> "asked", due |-> {}]
  /\ in = NoIn
  /\ outTold = <<>> /\ inTold = <<>> /\ sessions = {"out", "in"}
  /\ renewed = FALSE
  /\ net = {} /\ cut = FALSE /\ troubles = 0 /\ faults = 0

Fault == faults < MaxFaults /\ faults' = faults + 1 /\ UNCHANGED troubles
Trouble == troubles < MaxTroubles /\ troubles' = troubles + 1 /\ UNCHANGED faults
NoFault == UNCHANGED <<faults, troubles>>

-----------------------------------------------------------------------------
(* The file on either side, and the gateway.                               *)

(* Mutant: the stream is closed by the time the gateway answers.           *)
JudgedAtOnce(f, s) ==
  [f EXCEPT !.status = s, !.state = "COMPLETION", !.blocks = {}, !.due = @ \cup {"close"}]

(* on_..._file_done, on_timeout_...: the verdict is kept until the gateway *)
(* has answered the registration; with it the stream closes.               *)
Judged(f, s) ==
  [f EXCEPT !.status = s, !.state = "COMPLETION", !.blocks = {},
            !.due = IF f.reg = "asked" THEN @ ELSE @ \cup {"close"}]

Tell(f, told, s) == IF f.reg = "yes" THEN Append(told, s) ELSE told

(* Mutant: a stream that waits for the answer is not closed by it.         *)
AnsweredOnly(f, answer) == [f EXCEPT !.reg = answer]

(* on_..._file_registered.                                                 *)
Answered(f, answer) ==
  [f EXCEPT !.reg = answer, !.due = IF f.status = "none" THEN @ ELSE @ \cup {"close"}]

(* The gateway may answer None: its packet is gone (on_register_file_...), *)
(* or the call has failed (proxy_errback).  What comes of a transfer       *)
(* without a number it is never told.                                      *)
Answer == {"yes", "none"}
AnswerComes(answer) == IF answer = "yes" THEN NoFault ELSE Trouble

(* doClosePendingFiles and FileQueue.close.                                *)
Abandoned(f) ==
  IF f.state \in {"NONE", "CLOSED"} THEN f
  ELSE [f EXCEPT !.status = "failed", !.due = @ \cup {"close"}]

(* doDestroyMe.                                                            *)
Closed(f) == [f EXCEPT !.state = "CLOSED", !.blocks = {}, !.due = @ \ {"close"}]

-----------------------------------------------------------------------------
(* The sender.                                                             *)

Working == out.state \in {"SENDING", "PAUSE"}

(* Mutant: BufferOverflow is not raised.                                   *)
PushedAll(o) ==
  LET more == (o.pushed + 1)..Size IN
  [o EXCEPT !.pushed = Size, !.blocks = @ \cup more, !.fresh = @ \cup more]

(* OutboxFile.process and _push_blocks: read on until the buffer is full.  *)
Pushed(o) ==
  LET fits == {p \in o.pushed..Size : /\ p = Size \/ (p - o.pushed) % PerAck = 0
                                      /\ p - o.pushed + Cardinality(o.blocks) <= Buffer}
      last == IF fits = {} THEN o.pushed ELSE Max(fits)
      more == (o.pushed + 1)..last
  IN  [o EXCEPT !.pushed = last, !.blocks = @ \cup more, !.fresh = @ \cup more]

IsDone(o) == o.pushed = Size /\ o.delivered = Size

(* Mutant: a block that was sent once is not sent again.                   *)
GroupsOnce(o) == {{}, {k \in o.fresh : Cardinality({j \in o.fresh : j < k}) < PerAck}}

(* The groups of blocks that _resend_blocks may choose, or none: new ones  *)
(* by as many as an ack takes, unless they are the last; if there are not  *)
(* as many, old ones with them.  Only the first of a group of new ones may *)
(* go out, when the rate is too high (_send_blocks); one with old blocks   *)
(* goes out as a whole.                                                    *)
Groups(o) ==
  LET new == {k \in o.fresh : Cardinality({j \in o.fresh : j < k}) < PerAck}
      full == Cardinality(new) = PerAck
      finishing == new # {} /\ Size - o.delivered < PerAck
  IN  {{}} \cup
      IF full \/ finishing THEN {{k \in new : k <= last} : last \in new}
      ELSE {new \cup old : old \in {s \in SUBSET (o.blocks \ o.fresh) : Cardinality(s) <= PerAck - Cardinality(new)}}

(* 18 seconds without an ack are noticed by _resend_blocks.                *)
Silence ==
  /\ out.state = "SENDING" /\ out.blocks # {}
  /\ cut \/ "in" \notin sessions
  /\ \A d \in net : d.kind = "data"

ResendBlocks(o, left) ==
  \E g \in Groups(o) :
    out' = [o EXCEPT !.fresh = @ \ g] /\ Sends(left, Data(g))

(* process_outbox_files of a session that is CONNECTED; on_consume.        *)
ProcessFile ==
  LET o == Pushed(out) IN
  /\ "out" \in sessions
  /\ out.state = "DOWNTIME" \/ Working
  /\ o # out
  /\ IF out.state = "PAUSE" THEN out' = o /\ UNCHANGED net
     ELSE ResendBlocks([o EXCEPT !.state = "SENDING"], net)
  /\ UNCHANGED <<in, outTold, inTold, sessions, renewed, cut>> /\ NoFault

(* process_streams.                                                        *)
Iterate ==
  /\ out.state = "SENDING" /\ out.blocks # {} /\ Cardinality(net) < MaxFlight
  /\ ResendBlocks(out, net) /\ <<out, net>>' # <<out, net>>
  /\ UNCHANGED <<in, outTold, inTold, sessions, renewed, cut>> /\ NoFault

(* Mutant: an ack of the end is believed.                                  *)
SendDoneBelieved(o) ==
  /\ out' = Judged(o, "finished")
  /\ outTold' = Tell(o, outTold, "finished")

(* doReportSendDone, doCloseStream.                                        *)
SendDone(o) ==
  LET s == IF IsDone(o) THEN "finished" ELSE "failed" IN
  /\ out' = Judged(o, s)
  /\ outTold' = Tell(o, outTold, s)

(* on_ack_received, in SENDING and PAUSE.  An ack without anything in it   *)
(* comes from one who has closed the stream, or has never opened it.       *)
OnAck(d, left) ==
  LET acks == IF d.kind = "zero" THEN {} ELSE d.acks \cap out.blocks
      acked == [out EXCEPT !.blocks = @ \ acks, !.fresh = @ \ acks, !.delivered = @ + Cardinality(acks)]
      o == IF acks = {} \/ IsDone(acked) \/ out.cancelled THEN acked ELSE Pushed(acked)
      eof == d.kind = "zero" \/ d.eof \/ (acks # {} /\ (IsDone(acked) \/ out.cancelled))
  IN  IF eof THEN SendDone(o) /\ Sends(left, {})
      ELSE /\ IF out.state = "SENDING" /\ d.pause
              THEN out' = [o EXCEPT !.state = "PAUSE", !.due = @ \cup {"resume"}] /\ Sends(left, {})
              ELSE IF out.state = "SENDING" THEN ResendBlocks(o, left)
              ELSE out' = o /\ Sends(left, {})
           /\ UNCHANGED outTold

AckArrives(d, left) ==
  /\ d.kind \in {"ack", "zero"} /\ out.reg # "asked"
  /\ IF "out" \in sessions /\ Working THEN OnAck(d, left) ELSE Sends(left, {}) /\ UNCHANGED <<out, outTold>>
  /\ UNCHANGED <<in, inTold, sessions, renewed, cut>>

(* The pause is over; if it was a long one the acks are overdue.           *)
Resume ==
  /\ "resume" \in out.due
  /\ LET o == [out EXCEPT !.due = @ \ {"resume"}] IN
       IF out.state = "PAUSE"
       THEN \/ ResendBlocks([o EXCEPT !.state = "SENDING"], net)
            \/ /\ o.blocks # {}
               /\ out' = [o EXCEPT !.state = "SENDING", !.due = @ \cup {"timeout"}] /\ UNCHANGED net
       ELSE out' = o /\ UNCHANGED net
  /\ UNCHANGED <<in, outTold, inTold, sessions, renewed, cut>> /\ NoFault

OutTimeout ==
  /\ Silence \/ "timeout" \in out.due
  /\ LET o == [out EXCEPT !.due = @ \ {"timeout"}] IN
       IF Working
       THEN /\ out' = Judged(o, "failed")
            /\ outTold' = Tell(o, outTold, "failed")
       ELSE out' = o /\ UNCHANGED outTold
  /\ UNCHANGED <<in, inTold, sessions, renewed, net, cut>> /\ NoFault

OutClose ==
  /\ "close" \in out.due
  /\ out' = [Closed(out) EXCEPT !.fresh = {}, !.delivered = 0, !.cancelled = FALSE]
  /\ UNCHANGED <<in, outTold, inTold, sessions, renewed, net, cut>> /\ NoFault

(* The gateway answers the registration; the answer may come after the     *)
(* stream is gone, but not after an ack: there is no network between them. *)
OutRegistered ==
  /\ out.reg = "asked"
  /\ IF out.state = "CLOSED" THEN out' = [out EXCEPT !.reg = "late"] /\ UNCHANGED outTold /\ NoFault
     ELSE \E answer \in Answer : LET o == Answered(out, answer) IN
          /\ AnswerComes(answer)
          /\ out' = o
          /\ outTold' = IF o.status = "none" THEN outTold ELSE Tell(o, outTold, o.status)
  /\ UNCHANGED <<in, inTold, sessions, renewed, net, cut>>

(* cancel_file_sending.                                                    *)
Cancel ==
  /\ out.reg = "yes" /\ out.state # "CLOSED" /\ ~ out.cancelled /\ "out" \in sessions
  /\ Trouble
  /\ out' = [out EXCEPT !.cancelled = TRUE, !.status = "failed"]
  /\ UNCHANGED <<in, outTold, inTold, sessions, renewed, net, cut>>

OutSessionCloses ==
  /\ "out" \in sessions /\ Trouble
  /\ sessions' = sessions \ {"out"}
  /\ out' = Abandoned(out)
  /\ outTold' = IF out.state = "CLOSED" THEN outTold ELSE Tell(out, outTold, "failed")
  /\ UNCHANGED <<in, inTold, renewed, net, cut>>

-----------------------------------------------------------------------------
(* The receiver.                                                           *)

(* Mutant: blocks are written as they come.                                *)
ReceivedAnyhow(i, k) ==
  [i EXCEPT !.toAck = @ \cup {k}, !.file = Append(@, k), !.eof = Len(i.file) + 1 >= Size]

(* on_block_received: what follows without a gap is written to the file.   *)
Received(i, k) ==
  LET current == Len(i.file)
      stored == IF k < current THEN i.blocks ELSE i.blocks \cup {k}
      c == IF k # current + 1 THEN current
           ELSE Max({n \in k..Size : k..n \subseteq stored})
  IN  [i EXCEPT !.toAck = @ \cup {k}, !.file = [n \in 1..c |-> n],
                !.blocks = stored \ (current + 1)..c, !.eof = @ \/ c = Size]

AckSent(i, left, pause) ==
  /\ in' = [i EXCEPT !.toAck = {}, !.acked = TRUE]
  /\ Sends(left, {Ack(i.eof, i.toAck, pause)})

(* _resend_ack: the first block is acknowledged at once, later ones by     *)
(* groups, at the end, or after a while; more than the limit of what may   *)
(* be received in a second asks for a pause.                               *)
ResendAck(i, left) ==
  \/ ~ i.acked /\ AckSent(i, left, FALSE) /\ NoFault
  \/ /\ i.acked /\ (i.eof \/ i.toAck # {})
     /\ \/ AckSent(i, left, FALSE) /\ NoFault
        \/ AckSent(i, left, TRUE) /\ Trouble
  \/ /\ i.acked /\ ~ i.eof /\ Cardinality(i.toAck) < PerAck
     /\ in' = i /\ Sends(left, {}) /\ NoFault

(* doReportReceiveDone, doCloseStream.                                     *)
ReceiveDone(i) ==
  /\ in' = [Judged(i, "finished") EXCEPT !.toAck = {}]
  /\ inTold' = Tell(i, inTold, "finished")

(* on_received_data_packet: a block of a stream that is not there opens it *)
(* as that of a new file, but not if the stream has been closed before.    *)
(* More than 32 streams, or a peer whose greeting has not come, are        *)
(* answered as if the stream was closed.                                   *)
Refused(left) == Sends(left, {ZeroAck}) /\ UNCHANGED <<in, inTold>>

(* Mutant: closed streams are not remembered.                              *)
NotRemembered == in.state \in {"NONE", "CLOSED"}
(* A stream that was closed in this session is in dead_streams.            *)
NoStream == in.state = "NONE"

OnBlock(i, k, left) ==
  LET r == Received(i, k) IN
  CASE i.state = "DOWNTIME" ->
         /\ ResendAck([r EXCEPT !.state = "RECEIVING"], left)
         /\ UNCHANGED inTold
    [] i.state = "RECEIVING" /\ ~ r.eof -> ResendAck(r, left) /\ UNCHANGED inTold
    [] i.state = "RECEIVING" /\ r.eof ->
         /\ ReceiveDone(r) /\ NoFault
         /\ Sends(left, {Ack(TRUE, r.toAck, FALSE)})
    [] i.state = "COMPLETION" -> in' = r /\ Sends(left, {}) /\ UNCHANGED inTold /\ NoFault

BlockArrives(d, left) ==
  /\ d.kind = "data"
  /\ IF "in" \notin sessions THEN Sends(left, {}) /\ UNCHANGED <<in, inTold>> /\ NoFault
     ELSE IF NoStream
     THEN \/ OnBlock(NewIn, d.block, left)
          \/ Refused(left) /\ Trouble
     ELSE IF in.state = "CLOSED" THEN Refused(left) /\ NoFault
     ELSE OnBlock(in, d.block, left)
  /\ UNCHANGED <<out, outTold, sessions, renewed, cut>>

(* process_streams.                                                        *)
SendAcks ==
  /\ in.state = "RECEIVING" /\ in.toAck # {}
  /\ AckSent(in, net, FALSE) /\ NoFault
  /\ UNCHANGED <<out, outTold, inTold, sessions, renewed, cut>>

(* 18 seconds without a block.                                             *)
NoBlocks == /\ cut \/ "out" \notin sessions \/ out.state \in {"COMPLETION", "CLOSED"}
            /\ \A d \in net : d.kind # "data"

InTimeout ==
  /\ in.state = "RECEIVING" /\ NoBlocks
  /\ in' = [Judged(in, "failed") EXCEPT !.toAck = {}]
  /\ inTold' = Tell(in, inTold, "failed")
  /\ UNCHANGED <<out, outTold, sessions, renewed, net, cut>> /\ NoFault

InClose ==
  /\ "close" \in in.due
  /\ in' = [Closed(in) EXCEPT !.toAck = {}, !.acked = FALSE]
  /\ UNCHANGED <<out, outTold, inTold, sessions, renewed, net, cut>> /\ NoFault

InRegistered ==
  /\ in.reg = "asked" /\ in.state # "NONE"
  /\ IF in.state = "CLOSED" THEN in' = [in EXCEPT !.reg = "late"] /\ UNCHANGED inTold /\ NoFault
     ELSE \E answer \in Answer : LET i == Answered(in, answer) IN
          /\ AnswerComes(answer)
          /\ in' = i
          /\ inTold' = IF i.status = "none" THEN inTold ELSE Tell(i, inTold, i.status)
  /\ UNCHANGED <<out, outTold, sessions, renewed, net, cut>>

InSessionCloses ==
  /\ "in" \in sessions /\ Trouble
  /\ sessions' = sessions \ {"in"}
  /\ in' = Abandoned(in)
  /\ inTold' = IF in.state \in {"NONE", "CLOSED"} THEN inTold ELSE Tell(in, inTold, "failed")
  /\ UNCHANGED <<out, outTold, renewed, net, cut>>

Anew == sessions' = sessions \cup {"in"} /\ in' = NoIn /\ inTold' = <<>> /\ renewed' = TRUE

(* A new session has a new queue of files.                                 *)
InSessionOpens ==
  /\ "in" \notin sessions /\ (in.state = "NONE" \/ (in.state = "CLOSED" /\ in.reg # "asked"))
  /\ Anew
  /\ UNCHANGED <<out, outTold, net, cut>> /\ NoFault

(* The program of the receiver is started again, at the same address.      *)
InRestarts ==
  /\ in.state # "NONE" /\ Trouble
  /\ Anew
  /\ UNCHANGED <<out, outTold, net, cut>>

-----------------------------------------------------------------------------
(* The network.                                                            *)

Arrives(d, left) ==
  \/ BlockArrives(d, left)
  \/ AckArrives(d, left) /\ NoFault

Deliver == \E d \in net : Arrives(d, net \ {d})

Lose ==
  /\ Fault
  /\ \E d \in net : net' = net \ {d}
  /\ UNCHANGED <<out, in, outTold, inTold, sessions, renewed, cut>>

(* A block that was sent comes once more, however late (it may be under    *)
(* way until after the sender has closed).                                 *)
Repeat ==
  /\ ~ cut /\ Working /\ Fault
  /\ \E k \in (1..out.pushed) \ out.fresh : Data({k}) \cap net = {} /\ net' = net \cup Data({k})
  /\ UNCHANGED <<out, in, outTold, inTold, sessions, renewed, cut>>

(* Nothing gets through for a while.                                       *)
Cut ==
  /\ ~ cut /\ Trouble
  /\ cut' = TRUE /\ net' = {}
  /\ UNCHANGED <<out, in, outTold, inTold, sessions, renewed>>

Heal ==
  /\ cut /\ cut' = FALSE
  /\ UNCHANGED <<out, in, outTold, inTold, sessions, renewed, net>> /\ NoFault

-----------------------------------------------------------------------------
Next ==
  \/ ProcessFile \/ Iterate \/ Resume
  \/ OutTimeout \/ OutClose \/ OutRegistered \/ Cancel \/ OutSessionCloses
  \/ SendAcks \/ InTimeout \/ InClose \/ InRegistered \/ InSessionCloses \/ InSessionOpens \/ InRestarts
  \/ Deliver \/ Lose \/ Repeat \/ Cut \/ Heal

Spec == Init /\ [][Next]_vars

(* The loops of the sessions and streams go on ('alive' sends something    *)
(* every few seconds), timers fire, the gateway answers, and datagrams     *)
(* arrive or are lost.  What happens only a few times can share fairness.  *)
Timers ==
  \/ ProcessFile \/ Resume \/ OutTimeout \/ OutClose \/ OutRegistered
  \/ InTimeout \/ InClose \/ InRegistered

FairSpec ==
  /\ Spec
  /\ WF_vars(Timers) /\ WF_vars(Iterate) /\ WF_vars(SendAcks)
  /\ WF_vars(\E d \in net : BlockArrives(d, net \ {d}))
  /\ WF_vars(\E d \in net : AckArrives(d, net \ {d}) /\ NoFault)

-----------------------------------------------------------------------------
Datagram == Data(Block) \cup {ZeroAck} \cup
            [kind : {"ack"}, eof : BOOLEAN, acks : SUBSET Block, pause : BOOLEAN]

TypeOK ==
  /\ out.state \in {"DOWNTIME", "SENDING", "PAUSE", "COMPLETION", "CLOSED"}
  /\ out.pushed \in 0..Size /\ out.blocks \subseteq 1..out.pushed /\ out.fresh \subseteq 1..out.pushed
  /\ Cardinality(out.blocks) <= Buffer
  /\ Working => out.delivered = out.pushed - Cardinality(out.blocks)
  /\ in.state \in {"NONE", "DOWNTIME", "RECEIVING", "COMPLETION", "CLOSED"}
  /\ in.file \in BoundedSeq(Block, Size) /\ in.blocks \subseteq Block /\ in.toAck \subseteq Block
  /\ in.eof = (Len(in.file) = Size)
  /\ net \subseteq Datagram

(* Verdicts of success are true, and each transfer gets one: unless the    *)
(* receiver has a new session or was started again, and takes the rest of  *)
(* the stream for another file, either side says 'finished' only when the  *)
(* receiver has all blocks of the file in their order.  No stream is gone  *)
(* before the registration was answered, unless the session closes.  A     *)
(* gateway that has given a number to the transfer is told how it ended    *)
(* before the stream is gone, and never twice, unless the session closes:  *)
(* then it may be told of a failure after the end.                         *)
Verdicts ==
  /\ "finished" \in {out.status, in.status} /\ ~ renewed => in.file = [k \in Block |-> k]
  /\ out.state = "CLOSED" /\ out.reg = "yes" => outTold # <<>>
  /\ in.state = "CLOSED" /\ in.reg = "yes" => inTold # <<>>
  /\ out.state = "CLOSED" /\ "out" \in sessions => out.reg \in Answer
  /\ \A told \in {outTold, inTold} : Len(told) > 1 => told[2] = "failed"
  /\ "out" \in sessions => Len(outTold) <= 1
  /\ "in" \in sessions => Len(inTold) <= 1

(* No stream stays open for ever, whatever is lost or closed: sessions     *)
(* have place for 16 only.                                                 *)
Ends == <>[](out.state = "CLOSED" /\ in.state \in {"NONE", "CLOSED"})

(* When datagrams are only lost or repeated now and then the file arrives. *)
FileArrives == [](troubles = 0) => <>(inTold = <<"finished">>)
=============================================================================
