----------------------------- MODULE DataSender -----------------------------
(***************************************************************************)
(* customer/data_sender.py on top of SendQueue: the pieces of the backups  *)
(* that belong to one position in the list of suppliers are uploaded, and  *)
(* their local files removed once every supplier has what it should have.  *)
(*                                                                         *)
(* The supplier at that position may be replaced: fire_hire writes the new *)
(* list, and some time later backup_monitor tells io_throttle.  A queue is *)
(* an object kept alive by its delayed calls, so that of the old supplier  *)
(* may outlive its removal from the throttle.                              *)
(***************************************************************************)
EXTENDS SendQueue

CONSTANTS
  Supplier,   \* those who may hold the position, each for one time
  First,      \* the one who holds it at first
  Backup,     \* the sets of packets that are deleted together
  MaxFaults,  \* bound: packets not answered in time with an Ack
  MaxCalls    \* bound: callbacks delayed while more events are handled

ASSUME DataSenderAssumption ==
  /\ First \in Supplier
  /\ Backup \subseteq SUBSET Packet
  /\ MaxFaults \in Nat /\ MaxCalls \in Nat \ {0}

VARIABLES
  state,      \* the state of the data sender
  queues,     \* the queue of each supplier
  blocks,     \* the packets of the backups that are not deleted
  stored,     \* the remote matrix: packets taken for stored at the position
  stale,      \* those of them that a queue marked after its removal (auxiliary)
  current,    \* contactsdb.supplier() of the position
  known,      \* the same in backup_monitor.current_suppliers
  erased,     \* suppliers whose queue was removed from the throttle
  confirmed,  \* packets each supplier has answered with an Ack
  faults      \* packets that were late, refused, failed or not answered

matrix == <<files, blocks, stored, stale>>
suppliers == <<current, known, erased>>
vars == <<state, queues, matrix, suppliers, confirmed, faults>>

Init ==
  /\ state = "READY"
  /\ queues = [s \in Supplier |-> NewQueue]
  /\ files = Packet /\ blocks = Packet /\ stored = {} /\ stale = {}
  /\ current = First /\ known = First
  /\ erased = {}
  /\ confirmed = [s \in Supplier |-> {}]
  /\ faults = 0

Throttled == Supplier \ erased

IsSendingQueueEmpty == \A s \in Throttled : queues[s].queue = <<>>

(* A delayed callback is run by the reactor before many other events.      *)
Ready == \A s \in Supplier : Len(queues[s].calls) < MaxCalls

-----------------------------------------------------------------------------
(* The state machine of the data sender.                                   *)

(* doScanAndQueue, in READY at any time and in SENDING when the queues are *)
(* empty, a packet was answered or failed, or backup_monitor restarts the  *)
(* data sender, which it may do at any time.                               *)
ScanAndQueue ==
  /\ state \in {"READY", "SENDING"} /\ Ready
  /\ state' = "SCAN_BLOCKS"
  /\ \E order \in SetToSeqs(files \ stored), tired \in BOOLEAN :
       queues' = [queues EXCEPT ![current] = QueueSendFiles(@, order, tired)]
  /\ UNCHANGED <<matrix, suppliers, confirmed, faults>>

(* doRemoveUnusedFiles: of what the remote matrix shows as stored, any     *)
(* part, since the other positions decide about it too.                    *)
RemoveUnusedFiles == \E R \in SUBSET (files \cap stored) : files' = files \ R

ScanDone ==
  /\ state = "SCAN_BLOCKS"
  /\ IF IsSendingQueueEmpty
     THEN state' = "READY" /\ RemoveUnusedFiles
     ELSE state' = "SENDING" /\ UNCHANGED files
  /\ UNCHANGED <<queues, blocks, stored, stale, suppliers, confirmed, faults>>

(* Sets or clears the position in the remote matrix.                       *)
Marks(s, p, ok) ==
  /\ stored' = IF ok THEN stored \cup {p} ELSE stored \ {p}
  /\ stale' = IF ok /\ s \in erased THEN stale \cup {p} ELSE stale \ {p}

(* Mutant of Called: a failure is taken for a success.                     *)
CalledAlways(s) ==
  /\ queues[s].calls # <<>>
  /\ queues' = [queues EXCEPT ![s].calls = Tail(@)]
  /\ Marks(s, Head(queues[s].calls).packet, TRUE)
  /\ UNCHANGED <<state, files, blocks, suppliers, confirmed, faults>>

(* _packetAcked, _packetFailed: the position in the remote matrix is that  *)
(* of the packet, whoever has answered.                                    *)
Called(s) ==
  /\ queues[s].calls # <<>>
  /\ queues' = [queues EXCEPT ![s].calls = Tail(@)]
  /\ LET call == Head(queues[s].calls) IN Marks(s, call.packet, call.ok)
  /\ UNCHANGED <<state, files, blocks, suppliers, confirmed, faults>>

-----------------------------------------------------------------------------
(* The delayed calls of a queue.                                           *)

Calls(s, new) ==
  /\ queues' = [queues EXCEPT ![s] = new]
  /\ UNCHANGED <<state, matrix, suppliers, confirmed, faults>>

Scheduled(s) ==
  /\ queues[s].scheduled > 0
  /\ \E tired \in BOOLEAN :
       Calls(s, SendingTask([queues[s] EXCEPT !.scheduled = @ - 1], tired))

Instant(s) ==
  /\ queues[s].instant > 0
  /\ \E tired \in BOOLEAN :
       Calls(s, SendingTask([queues[s] EXCEPT !.instant = @ - 1], tired))

Later(s) ==
  /\ queues[s].later > 0
  /\ \E tired \in BOOLEAN :
       Calls(s, DoSend([queues[s] EXCEPT !.later = @ - 1], tired))

-----------------------------------------------------------------------------
(* What becomes of the packets that were sent.  An outgoing packet may     *)
(* have been joined by later ones with the same id, which end with it.     *)

Ended(s, p, k) == [queues EXCEPT ![s].waiting[p] = @ - k]

Fault == faults < MaxFaults /\ faults' = faults + 1

(* The supplier has answered, with Ack or with Fail: each callback runs.   *)
Answered(s, p, ok) ==
  /\ Ready
  /\ \E k \in 1..queues[s].waiting[p], tired \in BOOLEAN :
       queues' = [Ended(s, p, k) EXCEPT ![s] = Acknowledged(@, p, ok, k, tired)]
  /\ IF ok
     THEN confirmed' = [confirmed EXCEPT ![s] = @ \cup {p}] /\ UNCHANGED faults
     ELSE Fault /\ UNCHANGED confirmed
  /\ UNCHANGED <<state, matrix, suppliers>>

Unanswered(s, p) ==
  /\ Fault
  /\ \E k \in 1..queues[s].waiting[p] : queues' = Ended(s, p, k)
  /\ UNCHANGED <<state, matrix, suppliers, confirmed>>

(* Failed or cancelled: every queue of the throttle is told, also that of  *)
(* another supplier, who is sent the packet with the same id.              *)
NotSent(s, p) ==
  /\ Fault /\ Ready
  /\ \E k \in 1..queues[s].waiting[p], tired \in BOOLEAN :
       LET ended == Ended(s, p, k)
       IN  queues' = [t \in Supplier |->
                        IF t \in Throttled THEN OutboxStatus(ended[t], p, tired)
                        ELSE ended[t]]
  /\ UNCHANGED <<state, matrix, suppliers, confirmed>>

(* The sendTimeout passes, with or without an answer to come.              *)
Late(s, p) ==
  /\ p \in queues[s].sent \ (queues[s].acked \cup queues[s].late)
  /\ IF queues[s].waiting[p] > 0 THEN Fault ELSE UNCHANGED faults
  /\ queues' = [queues EXCEPT ![s].late = @ \cup {p}]
  /\ UNCHANGED <<state, matrix, suppliers, confirmed>>

-----------------------------------------------------------------------------
(* The other components.                                                   *)

(* backup_control.DeleteBackup, of a backup that is in the index and is    *)
(* not being made: otherwise it returns before anything is deleted.        *)
DeleteBackup(B) ==
  /\ B \subseteq blocks /\ Ready
  /\ blocks' = blocks \ B /\ files' = files \ B
  /\ stored' = stored \ B /\ stale' = stale \ B
  /\ \E tired \in BOOLEAN :
       queues' = [s \in Supplier |->
                    IF s \in Throttled THEN DeleteBackupSendings(queues[s], B, tired)
                    ELSE queues[s]]
  /\ UNCHANGED <<state, suppliers, confirmed, faults>>

(* fire_hire.doSubstituteSupplier.                                         *)
SubstituteSupplier(s) ==
  /\ current = known /\ s \notin erased \cup {current}
  /\ current' = s
  /\ UNCHANGED <<state, queues, matrix, known, erased, confirmed, faults>>

(* Mutant: what the old supplier has stored is not forgotten.              *)
UpdateNotCleared ==
  /\ current # known
  /\ erased' = erased \cup {known} /\ known' = current
  /\ UNCHANGED <<state, queues, matrix, current, confirmed, faults>>

(* backup_monitor.doUpdateSuppliers: the queue leaves the throttle, but    *)
(* RemoveSupplierWork stops nothing of it.                                 *)
UpdateSuppliers ==
  /\ current # known
  /\ erased' = erased \cup {known} /\ known' = current
  /\ stored' = {} /\ stale' = {}
  /\ UNCHANGED <<state, queues, files, blocks, current, confirmed, faults>>

-----------------------------------------------------------------------------
Loops(s) == Scheduled(s) \/ Instant(s) \/ Later(s) \/ Called(s)

Outcome(s, p) ==
  \/ \E ok \in BOOLEAN : Answered(s, p, ok)
  \/ Unanswered(s, p) \/ NotSent(s, p) \/ Late(s, p)

Next ==
  \/ ScanAndQueue \/ ScanDone
  \/ \E s \in Supplier : Loops(s) \/ (\E p \in Packet : Outcome(s, p))
  \/ \E B \in Backup : DeleteBackup(B)
  \/ \E s \in Supplier : SubstituteSupplier(s)
  \/ UpdateSuppliers

Spec == Init /\ [][Next]_vars

(* The reactor makes the delayed calls, the timers of the data sender scan *)
(* again in READY and when the queues are empty, sendTimeout passes, and a *)
(* supplier answers every packet but MaxFaults of them.                    *)
Fairness ==
  /\ WF_vars(ScanDone)
  /\ WF_vars(ScanAndQueue /\ (state = "READY" \/ IsSendingQueueEmpty))
  /\ \A s \in Supplier :
       /\ WF_vars(Scheduled(s) \/ Instant(s) \/ Later(s))
       /\ WF_vars(Called(s))
       /\ WF_vars(\E p \in Packet : Late(s, p))
       /\ WF_vars(\E p \in Packet : Answered(s, p, TRUE))

FairSpec == Spec /\ Fairness

-----------------------------------------------------------------------------
(* With a limit of its own: RunSend says "do not send too many packets,    *)
(* need to wait for ack" but counts with >, which would let one more than  *)
(* fileSendMaxLength through; no more are ever queued.                     *)
QueueOK(q) ==
  /\ q.queue \in Seq(Packet) /\ IsInjective(q.queue)
  /\ Cardinality(q.sent) <= MaxActive
  /\ q.sent \cup q.acked \cup q.late \subseteq Queued(q)
  /\ q.failed \in [Packet -> Nat] /\ q.waiting \in [Packet -> Nat]
  /\ q.calls \in Seq([packet : Packet, ok : BOOLEAN])
  /\ q.task \in BOOLEAN /\ q.slow \in BOOLEAN
  /\ q.scheduled \in Nat /\ q.instant \in Nat /\ q.later \in Nat

TypeOK ==
  /\ state \in {"READY", "SCAN_BLOCKS", "SENDING"}
  /\ \A s \in Supplier : QueueOK(queues[s])
  /\ blocks \subseteq Packet /\ files \subseteq blocks /\ stale \subseteq stored /\ stored \subseteq Packet
  /\ current \in Supplier /\ known \in Supplier
  /\ erased \subseteq Supplier \ {known}
  /\ confirmed \in [Supplier -> SUBSET Packet]
  /\ faults \in 0..MaxFaults

(* A queue with packets has a call of SendingTask to come, and sendTask is *)
(* one: DoSend, which cancels the next call to make it sooner, and the     *)
(* runs started by failures never lose the last one.                       *)
LoopAlive ==
  \A s \in Supplier : LET q == queues[s] IN
    /\ q.queue # <<>> => q.scheduled + q.instant > 0
    /\ q.task => q.scheduled > 0

(* A packet leaves a queue only when it was answered, or when the data     *)
(* sender is told that it failed: nothing it queued is forgotten.          *)
Told ==
  [][\A s \in Supplier : \A p \in Queued(queues[s]) \ Queued(queues'[s]) :
       \/ p \in queues[s].acked
       \/ [packet |-> p, ok |-> FALSE] \in ToSet(queues'[s].calls)]_vars

(* The local file of a piece is removed only after an Ack for the piece    *)
(* from a supplier whose queue is in the throttle: the present one, or the *)
(* one before him as long as backup_monitor has not noticed his            *)
(* replacement.  Late answers, refusals, retries and failures never count  *)
(* as one.  The exception is a position that a queue has marked after its  *)
(* removal: the Ack was that of a former supplier, the new one may have    *)
(* nothing, and the local file goes all the same.                          *)
KeepsCopy ==
  [][\A p \in (files \ files') \cap blocks' :
       p \in stale \/ \E s \in Throttled : p \in confirmed[s]]_vars

(* Every piece that is on the disk is taken for stored in the end, after   *)
(* failures, refusals and late answers.                                    *)
Uploads == <>[](files \subseteq stored)
=============================================================================
