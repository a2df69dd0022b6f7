----------------------------- MODULE SendQueue -----------------------------
(***************************************************************************)
(* customer/io_throttle.py, the sending half of class SupplierQueue: the   *)
(* queue of the packets that go to one supplier, and the loop that sends   *)
(* them, a few at a time, and forgets those that were answered or failed.  *)
(*                                                                         *)
(* A queue is an object, here a record; each method is an operator from    *)
(* the queue before the call to the queue after it.  What becomes of a     *)
(* packet once it was given to gateway.outbox is the promise of module     *)
(* Delivery, which PacketOut implements.                                   *)
(***************************************************************************)
EXTENDS Lists, FiniteSets, SequencesExt

CONSTANTS
  Packet,     \* the packets: pieces of backups that belong to one supplier
  Big,        \* those of more than 10K
  MaxActive,  \* fileSendMaxLength
  MaxLoops    \* bound: more calls of SendingTask than that count as so many

ASSUME SendQueueAssumption ==
  /\ IsFiniteSet(Packet) /\ Big \subseteq Packet
  /\ MaxActive \in Nat \ {0} /\ MaxLoops \in Nat \ {0}

VARIABLE files  \* the packets whose file is on the local disk

(* The fields of a SupplierQueue, and those of its FileToSend objects:     *)
(*   queue      fileSendQueue, whose members are the keys of fileSendDict  *)
(*   sent       packets of the queue with a sendTime                       *)
(*   acked      packets of the queue with an ackTime                       *)
(*   late       packets of the queue whose sendTimeout has passed          *)
(*   failed     how many times a packet is in sendFailedPacketIDs          *)
(*   waiting    callbacks set to live outgoing packets, for each packet    *)
(*   calls      delayed calls of callOnAck (ok) and callOnFail             *)
(*   task       sendTask is not None                                       *)
(*   slow       sendTaskDelay > 1.0                                        *)
(*   scheduled  calls of SendingTask after sendTaskDelay                   *)
(*   instant    calls of SendingTask without delay                         *)
(*   later      calls of DoSend without delay                              *)
None == [p \in Packet |-> 0]

NewQueue ==
  [queue |-> <<>>, sent |-> {}, acked |-> {}, late |-> {}, failed |-> None,
   waiting |-> None, calls |-> <<>>, task |-> FALSE, slow |-> FALSE, scheduled |-> 0,
   instant |-> 0, later |-> 0]

Queued(q) == ToSet(q.queue)

Marked(q) == {p \in Queued(q) : q.failed[p] > 0}

More(n) == IF n < MaxLoops THEN n + 1 ELSE n

OkToSend(q) == Len(q.queue) < MaxActive

(* The callbacks of the packets in the sequence P are called.              *)
Report(q, P, ok) ==
  [q EXCEPT !.calls = @ \o [i \in DOMAIN P |-> [packet |-> P[i], ok |-> ok]]]

(* The packets in the set P leave the queue.                               *)
Drop(q, P) ==
  [q EXCEPT !.queue = Among(@, Packet \ P),
            !.sent = @ \ P, !.acked = @ \ P, !.late = @ \ P]

-----------------------------------------------------------------------------
(* RunSend.  The queue is walked in order; packetsSent counts the packets  *)
(* that were sent, before or now.  Big ones wait when there are too many.  *)
Sends(q, p, packetsSent) ==
  /\ p \notin Marked(q) \cup q.sent /\ p \in files
  /\ packetsSent <= MaxActive \/ p \notin Big

PacketsSent(q) ==
  LET count[i \in 0..Len(q.queue)] ==
        IF i = 0 THEN 0
        ELSE LET p == q.queue[i]
                 n == count[i - 1]
             IN  IF p \in q.sent \ Marked(q) \/ Sends(q, p, n) THEN n + 1 ELSE n
  IN  count

SentNow(q) ==
  LET count == PacketsSent(q)
  IN  {q.queue[i] : i \in {j \in DOMAIN q.queue : Sends(q, q.queue[j], count[j - 1])}}

(* Mutant of Failing: nobody looks at the time.                            *)
FailingOnly(q) == Marked(q) \cup (Queued(q) \ (q.sent \cup files))

(* A failure was reported, no answer came in time, or the file is gone.    *)
Failing(q) ==
  Marked(q) \cup (q.late \ q.acked) \cup (Queued(q) \ (q.sent \cup files))

Done(q) == (q.sent \cap q.acked) \ Marked(q)

Busy(q) == PacketsSent(q)[Len(q.queue)] > 0 \/ Failing(q) # {} \/ Done(q) # {}

(* Mutant of Failures: the failed packets are dropped without a word.      *)
FailuresSilent(q) == q

Failures(q) == Report(q, Among(q.queue, Failing(q)), FALSE)

RunSend(q) ==
  LET rest == Drop([Failures(q) EXCEPT !.sent = @ \cup SentNow(q)], Failing(q) \cup Done(q))
  IN  [rest EXCEPT
         !.failed = IF rest.queue = <<>> THEN None
                    ELSE [p \in Packet |-> IF p \in Marked(q) THEN @[p] - 1 ELSE @[p]],
         !.waiting = [p \in Packet |-> IF p \in SentNow(q) THEN @[p] + 1 ELSE @[p]]]

(* Run and schedule the next run.  When sendTask is None, the DoSend of    *)
(* the first failure has started a loop of its own in the meantime.        *)
SendingTask(q, tired) ==
  [RunSend(q) EXCEPT
     !.task = TRUE,
     !.slow = ~ Busy(q) /\ (@ \/ tired),
     !.scheduled = IF ~ q.task /\ Failing(q) # {} THEN More(More(@)) ELSE More(@)]

(* Mutant of DoSend: the next run is cancelled and not put forward.        *)
DoSendCancels(q, tired) ==
  IF ~ q.task THEN SendingTask(q, tired)
  ELSE IF q.slow THEN [q EXCEPT !.task = FALSE, !.scheduled = @ - 1]
  ELSE q

DoSend(q, tired) ==
  IF ~ q.task THEN SendingTask(q, tired)
  ELSE IF q.slow THEN [q EXCEPT !.task = FALSE, !.scheduled = @ - 1, !.instant = More(@)]
  ELSE q

-----------------------------------------------------------------------------
(* Mutant: a packet may be queued beyond the limit.                        *)
QueueSendFileAnyway(q, p, tired) ==
  IF p \in Queued(q) THEN q
  ELSE DoSend([q EXCEPT !.queue = Append(@, p)], tired)

(* Mutant: a packet that is in the queue is queued again.                  *)
QueueSendFileTwice(q, p, tired) ==
  IF ~ OkToSend(q) THEN q ELSE DoSend([q EXCEPT !.queue = Append(@, p)], tired)

(* The body of the loop in data_sender.doScanAndQueue, with the methods    *)
(* QueueSendFile and SupplierSendFile it comes to.                         *)
QueueSendFile(q, p, tired) ==
  IF p \in Queued(q) \/ ~ OkToSend(q) THEN q
  ELSE DoSend([q EXCEPT !.queue = Append(@, p)], tired)

(* Those of a sequence, one after the other.                               *)
QueueSendFiles(q, order, tired) ==
  LET after[n \in 0..Len(order)] ==
        IF n = 0 THEN q ELSE QueueSendFile(after[n - 1], order[n], tired)
  IN  after[Len(order)]

(* Called for an Ack (ok) and for a Fail alike.                            *)
OnFileSendAckReceived(q, p, ok, tired) ==
  IF p \notin Queued(q) THEN q
  ELSE DoSend(Report([q EXCEPT !.acked = @ \cup {p}], <<p>>, ok), tired)

(* Each of k callbacks is called.                                          *)
Acknowledged(q, p, ok, k, tired) ==
  LET after[n \in 0..k] == IF n = 0 THEN q ELSE OnFileSendAckReceived(after[n - 1], p, ok, tired)
  IN  after[k]

OutboxStatus(q, p, tired) ==
  IF p \notin Queued(q) THEN q ELSE DoSend([q EXCEPT !.failed[p] = @ + 1], tired)

(* The packets in B are failed one by one, which may run the queue and so  *)
(* shorten the list while it is walked, and are removed at the end.        *)
DeleteBackupSendings(q, B, tired) ==
  LET Removal(s, i) ==
        IF i > Len(s.q.queue) \/ s.q.queue[i] \notin B THEN s
        ELSE [q |-> DoSend(Report(s.q, <<s.q.queue[i]>>, FALSE), tired),
              packetsToRemove |-> s.packetsToRemove \cup {s.q.queue[i]}]
      after[n \in 0..Len(q.queue)] ==
        IF n = 0 THEN [q |-> q, packetsToRemove |-> {}] ELSE Removal(after[n - 1], n)
      end == after[Len(q.queue)]
      rest == Drop(end.q, end.packetsToRemove)
  IN  IF rest.queue = <<>> THEN rest ELSE [rest EXCEPT !.later = More(@)]
=============================================================================
