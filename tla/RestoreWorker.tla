---------------------------- MODULE RestoreWorker ----------------------------
(***************************************************************************)
(* storage/restore_worker.py and restore_monitor.py over the requests of   *)
(* io_throttle, with customer/data_receiver.py and the incoming packets    *)
(* that open and close its streams: a backup is downloaded block by block. *)
(*                                                                         *)
(* The worker asks itself whether the pieces on hand are enough before it  *)
(* saves the one that has come, so it is told of the last piece only by    *)
(* the end of a later stream, which its pings bring about.                 *)
(***************************************************************************)
EXTENDS RaidCodes, RequestQueue

CONSTANTS
  MaxBlock,    \* the blocks of the backup are 0..MaxBlock
  Correctable, \* eccmap.GetCorrectableErrors
  Presence,    \* the sets of suppliers that may be online
  KeepsCopies, \* settings.getBackupsKeepLocalCopies, or the rebuilder has the backup
  MaxFaults,   \* bound of what goes wrong
  FaultBlock,  \* ... while this block is restored
  MaxStreams,  \* ... of the files that come at once
  MaxWaiting   \* ... of the calls that wait when something comes from outside

ASSUME RestoreAssumption ==
  /\ MaxBlock \in Nat /\ Correctable \in Nat /\ MaxFaults \in Nat /\ FaultBlock \in 0..MaxBlock
  /\ MaxStreams \in Nat \ {0} /\ MaxWaiting \in Nat
  /\ KeepsCopies \in BOOLEAN /\ Presence \subseteq SUBSET Number

VARIABLES
  job,       \* of restore_monitor
  workerState,
  block,     \* block_number
  hand,      \* OnHandData, OnHandParity
  fails,     \* the length of RequestFails
  attempts,  \* Attempts
  written,   \* the blocks written to the output
  reading,   \* the raid worker reads the block
  requests,  \* the request queue of each supplier
  outgoing,  \* the Retrieve packets that wait for an answer
  pinged,    \* the suppliers who will send an Ack
  streams,   \* what is being received
  counter,   \* StreamsCounter of the data receiver
  files,     \* the pieces on the disk
  calls,     \* that wait in the reactor
  online,    \* the suppliers that are not isOffline
  faults,    \* what went wrong
  troubled   \* what it does to the download: "no" harm, "failing", "stuck"

worker == <<workerState, block, hand, fails, attempts, written, reading>>
network == <<outgoing, pinged, streams>>
fate == <<faults, troubled>>
restoreVars == <<job, worker, requests, network, counter, files, calls, online, fate>>

Block == 0..MaxBlock
Piece == Block \X {"D", "P"} \X Number
Of(n) == {p \in Piece : p[1] = n}
NoPiece == <<>>

ToWorker(e, p) == [to |-> "worker", event |-> e, piece |-> p]
Data(p, new) == [to |-> "worker", event |-> "data-received", piece |-> p, new |-> new]
ToReceiver(e, m) == [to |-> "receiver", event |-> e, message |-> m]
Inbox(m) == [to |-> "inbox", message |-> m]

Post(ms) == calls' = Tail(calls) \o ms
FromOutside == Len(calls) <= MaxWaiting
Fault == FromOutside /\ block = FaultBlock /\ faults < MaxFaults /\ faults' = faults + 1

(* A piece that does not come is made up for by those of the other         *)
(* suppliers, if all of them are online and it is one of the few that may  *)
(* lack.  If not, the worker may fail, or wait for ever.                   *)
PieceLost == troubled' = IF online = Number /\ faults < Correctable THEN troubled ELSE "stuck"

Row(pieces, n) == [D |-> {s \in Number : <<n, "D", s>> \in pieces},
                   P |-> {s \in Number : <<n, "P", s>> \in pieces}]

(* isBlockFixable; it marks the data pieces that can be rebuilt.           *)
Reckoned == [hand EXCEPT !.D = Rounds(hand.D, hand.P)]
IsBlockFixable == Fixable(hand.D, hand.P)

(* Mutant: as many failures as may be are one too many.                    *)
FewerFails == fails < Correctable

IsStillCorrectable == fails <= Correctable

-----------------------------------------------------------------------------
(* Actions of the worker.                                                  *)

(* doScanExistingPackets, doRequestPackets.  A supplier who is offline is  *)
(* not asked; the request fails when there is nothing to ask for.          *)
Wanted(n) == {p \in Of(n) : p[3] \in online} \ files

DoRequestPackets(n) ==
  requests' = [s \in Number |->
    Asked(requests[s], Among(<<<<n, "D", s>>, <<n, "P", s>>>>, Wanted(n) \ requests[s].dict))]

ToRequested(n) ==
  /\ workerState' = "REQUESTED" /\ block' = n
  /\ hand' = Row(files, n)
  /\ DoRequestPackets(n)
  /\ Post((IF Wanted(n) = {} THEN <<ToWorker("request-failed", NoPiece)>> ELSE <<>>)
          \o (IF workerState # "REQUESTED" THEN <<ToWorker("instant", NoPiece)>> ELSE <<>>))

(* doSavePacket: the place of the piece in a block is marked, whatever the *)
(* block, and its file written if it has just come.                        *)
Saved(known, p) == IF p[2] = "D" THEN [known EXCEPT !.D = @ \cup {p[3]}]
                   ELSE [known EXCEPT !.P = @ \cup {p[3]}]

(* doRemoveTempFile.  It also keeps the files while backup_rebuilder works *)
(* on the same backup; that is taken to be so all the time or never.       *)
RemoveBlock == files' = IF KeepsCopies THEN files ELSE files \ Of(block)

(* doDeleteAllRequests.                                                    *)
DeleteBackupRequests ==
  /\ requests' = [s \in Number |-> DeleteRequests(requests[s], Piece)]
  /\ outgoing' = outgoing \ UNION {ToSet(requests[s].queue) : s \in Number}

(* Mutant: the requests are deleted only when the restore succeeds.        *)
FailKeepingRequests ==
  /\ workerState' = "FAILED" /\ job' = "failed"
  /\ Post(<<>>)
  /\ UNCHANGED <<block, hand, fails, attempts, written, reading, requests, outgoing,
                 pinged, streams, counter, online, fate>>

(* doDeleteAllRequests, doReportFailed, doDestroyMe.                       *)
FailNow ==
  /\ workerState' = "FAILED" /\ job' = "failed"
  /\ DeleteBackupRequests
  /\ Post(<<>>)
  /\ UNCHANGED <<block, hand, fails, attempts, written, reading, pinged, streams, counter,
                 online, fate>>

-----------------------------------------------------------------------------
(* The state machine.                                                      *)

Handles(e) == calls # <<>> /\ Head(calls).to = "worker" /\ Head(calls).event = e
Arg == Head(calls).piece

Begin ==
  /\ Handles("init") /\ workerState = "AT_STARTUP"
  /\ ToRequested(0)
  /\ fails' = 0 /\ attempts' = 1
  /\ UNCHANGED <<job, written, reading, network, counter, files, online, fate>>

(* While it waits, a piece that comes is judged first and saved then; what  *)
(* was already on the disk is not written again.                           *)
DataReceived ==
  /\ Handles("data-received") /\ workerState \in {"REQUESTED", "RECEIVING"}
  /\ hand' = Saved(Reckoned, Arg)
  /\ files' = IF Head(calls).new THEN files \cup {Arg} ELSE files
  /\ IF IsBlockFixable THEN workerState' = "RAID" /\ reading' = TRUE ELSE UNCHANGED <<workerState, reading>>
  /\ troubled' = IF Arg[1] = block THEN troubled ELSE "stuck"
  /\ Post(<<>>)
  /\ UNCHANGED <<job, block, fails, attempts, written, requests, network, counter, online, faults>>

Instant ==
  /\ Handles("instant") /\ workerState = "REQUESTED"
  /\ hand' = Reckoned
  /\ IF IsBlockFixable THEN workerState' = "RAID" /\ reading' = TRUE ELSE UNCHANGED <<workerState, reading>>
  /\ Post(<<>>)
  /\ UNCHANGED <<job, block, fails, attempts, written, requests, network, counter, files, online, fate>>

ReceivingStarted ==
  /\ Handles("data-receiving-started") /\ workerState = "REQUESTED"
  /\ workerState' = "RECEIVING"
  /\ Post(<<>>)
  /\ UNCHANGED <<job, block, hand, fails, attempts, written, reading, requests, network,
                 counter, files, online, fate>>

ReceivingStopped ==
  /\ Handles("data-receiving-stopped") /\ workerState = "RECEIVING" /\ IsStillCorrectable
  /\ ToRequested(block)
  /\ UNCHANGED <<job, fails, attempts, written, reading, network, counter, files, online, fate>>

(* Asked again, at most twice for a block.                                 *)
RequestFailed ==
  /\ Handles("request-failed") /\ workerState = "REQUESTED" /\ IsStillCorrectable /\ attempts < 3
  /\ ToRequested(block)
  /\ attempts' = attempts + 1
  /\ UNCHANGED <<job, fails, written, reading, network, counter, files, online, fate>>

(* Given up.  The local copies are removed when the argument of the event  *)
(* has a second element: that of 'raid-failed', and a string, which is the *)
(* id of a packet or the new state of the data receiver.                   *)
GivenUp ==
  /\ \/ Handles("request-failed") /\ workerState = "REQUESTED" /\ (~ IsStillCorrectable \/ attempts >= 3)
     \/ Handles("request-failed") /\ workerState = "RECEIVING" /\ ~ IsStillCorrectable
     \/ Handles("data-receiving-stopped") /\ workerState = "RECEIVING" /\ ~ IsStillCorrectable
     \/ Handles("raid-failed") /\ workerState = "RAID"
     \/ Handles("block-failed") /\ workerState = "BLOCK"
  /\ IF Handles("block-failed") \/ (Handles("request-failed") /\ Arg = NoPiece)
     THEN UNCHANGED files ELSE RemoveBlock
  /\ FailNow

(* doRestoreBlock.  A block read without all of its data does not become   *)
(* an object; without its first data the search for the length may raise.  *)
RaidDone ==
  /\ Handles("raid-done") /\ workerState = "RAID"
  /\ workerState' = "BLOCK"
  /\ LET read == Head(calls).read
     IN  IF read = Number THEN Post(<<ToWorker("block-restored", NoPiece)>>)
         ELSE \/ Post(<<ToWorker("block-failed", NoPiece)>>)
              \/ 0 \notin read /\ read # {} /\ Post(<<>>)
  /\ UNCHANGED <<job, block, hand, fails, attempts, written, reading, requests, network,
                 counter, files, online, fate>>

(* Mutant: blocks are counted from 1.                                      *)
LastBlockFromOne == block + 1 = MaxBlock

IsLastBlock == block = MaxBlock

NextBlock ==
  /\ Handles("block-restored") /\ workerState = "BLOCK" /\ ~ IsLastBlock
  /\ written' = Append(written, block)
  /\ RemoveBlock
  /\ ToRequested(block + 1)
  /\ fails' = 0 /\ attempts' = 1
  /\ UNCHANGED <<job, reading, network, counter, online, fate>>

(* doReportDone; restore_monitor.restore_done starts the extraction.       *)
AllRestored ==
  /\ Handles("block-restored") /\ workerState = "BLOCK" /\ IsLastBlock
  /\ workerState' = "DONE" /\ job' = "extracting"
  /\ written' = Append(written, block)
  /\ DeleteBackupRequests
  /\ RemoveBlock
  /\ Post(<<>>)
  /\ UNCHANGED <<block, hand, fails, attempts, reading, pinged, streams, counter, online, fate>>

(* What the machine does not handle, and what comes when it is destroyed.  *)
Ignored ==
  \/ workerState \in {"FAILED", "DONE"}
  \/ Handles("data-received") /\ workerState \in {"RAID", "BLOCK"}
  \/ Handles("instant") /\ workerState # "REQUESTED"
  \/ Handles("request-failed") /\ workerState \in {"RAID", "BLOCK"}
  \/ Handles("request-failed") /\ workerState = "RECEIVING" /\ IsStillCorrectable
  \/ Handles("data-receiving-started") /\ workerState # "REQUESTED"
  \/ Handles("data-receiving-stopped") /\ workerState # "RECEIVING"

Ignore ==
  /\ calls # <<>> /\ Head(calls).to = "worker" /\ Ignored
  /\ Post(<<>>)
  /\ UNCHANGED <<job, worker, requests, network, counter, files, online, fate>>

(* doReadRaid: the process rebuilds the data pieces it can.                *)
ReadEnds ==
  /\ FromOutside /\ reading
  /\ reading' = FALSE
  /\ LET row == Row(files, block)
         read == RaidRead(row.D, row.P)
     IN  /\ files' = files \cup {<<block, "D", s>> : s \in read}
         /\ calls' = Append(calls, [to |-> "worker", event |-> "raid-done", read |-> read])
  /\ UNCHANGED <<job, workerState, block, hand, fails, attempts, written, requests, network,
                 counter, online, fate>>

(* The raid worker was shut down.                                          *)
ReadFails ==
  /\ reading /\ Fault /\ troubled' = (IF troubled = "no" THEN "failing" ELSE troubled)
  /\ reading' = FALSE
  /\ calls' = Append(calls, ToWorker("raid-failed", NoPiece))
  /\ UNCHANGED <<job, workerState, block, hand, fails, attempts, written, requests, network,
                 counter, files, online>>

(* Mutant: nobody is pinged.                                               *)
NoPing == FALSE

(* timer-5sec: what was posted before has been handled, and the Acks of    *)
(* the ping before have come.                                              *)
PingTime ==
  /\ workerState = "REQUESTED" /\ attempts = 1
  /\ calls = <<>> /\ pinged = {} /\ \A m \in streams : m.what # "ack"

DoPingSuppliers ==
  /\ PingTime
  /\ pinged' = pinged \cup online
  /\ UNCHANGED <<job, worker, requests, outgoing, streams, counter, files, calls, online, fate>>

-----------------------------------------------------------------------------
(* The requests and their answers.                                         *)

(* _on_packet_request_result; a failure is counted in any state.           *)
Told(existing, failing) ==
  [i \in DOMAIN existing |-> Data(existing[i], FALSE)]
  \o [i \in DOMAIN failing |-> ToWorker("request-failed", failing[i])]

Runs(s) ==
  FromOutside /\ \E run \in {RunRequest(requests[s], files)} :
    /\ run.queue # requests[s]
    /\ requests' = [requests EXCEPT ![s] = run.queue]
    /\ outgoing' = outgoing \cup run.sent
    /\ calls' = calls \o Told(SetToSeq(run.exist), SetToSeq(run.failed))
    /\ fails' = IF workerState \in {"FAILED", "DONE"} THEN fails ELSE fails + Cardinality(run.failed)
    /\ UNCHANGED <<job, workerState, block, hand, attempts, written, reading, pinged, streams,
                   counter, files, online, fate>>

(* A file begins to come: an answer to a Retrieve, or an Ack of a ping.    *)
StreamOpens(m) ==
  /\ FromOutside /\ m \notin streams /\ Cardinality(streams) < MaxStreams
  /\ IF m.what = "ack" THEN pinged' = pinged \ {m.of[1]} ELSE UNCHANGED pinged
  /\ streams' = streams \cup {m}
  /\ calls' = Append(calls, ToReceiver("input-stream-opened", m))
  /\ UNCHANGED <<job, worker, requests, outgoing, counter, files, online>>

DataComes(p) ==
  /\ p \in outgoing /\ \A m \in streams : m.of # p
  /\ StreamOpens([what |-> "data", of |-> p])
  /\ UNCHANGED fate

AckComes(s) == s \in pinged /\ StreamOpens([what |-> "ack", of |-> <<s>>]) /\ UNCHANGED fate

(* The supplier refuses, or what he sends is not valid.                    *)
BadAnswer(p) ==
  /\ p \in outgoing /\ \A m \in streams : m.of # p
  /\ Fault /\ PieceLost
  /\ \E what \in {"fail", "broken"} : StreamOpens([what |-> what, of |-> p])

(* 'unregister-item' of the incoming packet, once its opening was handled. *)
StreamCloses(m) ==
  /\ FromOutside /\ m \in streams /\ ToReceiver("input-stream-opened", m) \notin ToSet(calls)
  /\ streams' = streams \ {m}
  /\ calls' = Append(calls, ToReceiver("input-stream-closed", m))
  /\ UNCHANGED <<job, worker, requests, outgoing, pinged, counter, files, online, fate>>

(* A transfer that fails is not reported as closed.                        *)
StreamFails(m) ==
  /\ m \in streams /\ ToReceiver("input-stream-opened", m) \notin ToSet(calls)
  /\ Fault /\ troubled' = "stuck"
  /\ streams' = streams \ {m}
  /\ outgoing' = outgoing \ {m.of}
  /\ UNCHANGED <<job, worker, requests, pinged, counter, files, calls, online>>

(* The data receiver; its changes of state are told to the worker.         *)
ReceiverHandles ==
  /\ calls # <<>> /\ Head(calls).to = "receiver"
  /\ IF Head(calls).event = "input-stream-opened"
     THEN /\ counter' = counter + 1
          /\ Post(IF counter = 0 THEN <<ToWorker("data-receiving-started", NoPiece)>> ELSE <<>>)
     ELSE /\ counter' = IF counter > 0 THEN counter - 1 ELSE 0
          /\ Post((IF counter = 1 THEN <<ToWorker("data-receiving-stopped", NoPiece)>> ELSE <<>>)
                  \o <<Inbox(Head(calls).message)>>)
  /\ UNCHANGED <<job, worker, requests, network, files, online, fate>>

(* An answer is taken only by the outgoing packet that waits for it.       *)
InboxHandles ==
  /\ calls # <<>> /\ Head(calls).to = "inbox"
  /\ LET what == Head(calls).message.what
         p == Head(calls).message.of
         waited == what # "ack" /\ p \in outgoing
         known == waited /\ Has(requests[p[3]], p)
     IN  /\ outgoing' = IF waited THEN outgoing \ {p} ELSE outgoing
         /\ requests' = IF waited THEN [requests EXCEPT ![p[3]] = OnDataReceived(@, p, what)]
                        ELSE requests
         /\ fails' = IF known /\ what = "fail" /\ workerState \notin {"FAILED", "DONE"}
                     THEN fails + 1 ELSE fails
         /\ Post(CASE known /\ what = "data" -> <<Data(p, TRUE)>>
                   [] known /\ what = "fail" -> <<ToWorker("request-failed", p)>>
                   [] OTHER -> <<>>)
  /\ UNCHANGED <<job, workerState, block, hand, attempts, written, reading, pinged, streams,
                 counter, files, online, fate>>

(* The Retrieve could not be sent: io_throttle.OutboxStatus.               *)
RetrieveFails(p) ==
  /\ p \in outgoing /\ \A m \in streams : m.of # p
  /\ Fault /\ PieceLost
  /\ outgoing' = outgoing \ {p}
  /\ requests' = [requests EXCEPT ![p[3]] = NotSent(@, p)]
  /\ UNCHANGED <<job, worker, pinged, streams, counter, files, calls, online>>

(* backup_rebuilder.doCloseThisBackup, which may work on the same backup.  *)
RebuilderCloses ==
  /\ Fault
  /\ DeleteBackupRequests
  /\ UNCHANGED <<job, worker, pinged, streams, counter, files, calls, online, troubled>>

-----------------------------------------------------------------------------
(* The user and restore_monitor.                                           *)

StartRestore ==
  /\ job = "none"
  /\ job' = "working" /\ workerState' = "AT_STARTUP"
  /\ calls' = Append(calls, ToWorker("init", NoPiece))
  /\ UNCHANGED <<block, hand, fails, attempts, written, reading, requests, network, counter,
                 files, online, fate>>

(* The exit code of tar is not looked at.                                  *)
ExtractDone ==
  /\ job = "extracting"
  /\ job' = "restore done"
  /\ UNCHANGED <<worker, requests, network, counter, files, calls, online, fate>>

-----------------------------------------------------------------------------
RestoreInit ==
  /\ job = "none" /\ workerState = "NONE" /\ block = 0
  /\ hand = [D |-> {}, P |-> {}] /\ fails = 0 /\ attempts = 0
  /\ written = <<>> /\ reading = FALSE
  /\ requests = [s \in Number |-> NewRequests(Piece)]
  /\ outgoing = {} /\ pinged = {} /\ streams = {} /\ counter = 0
  /\ files = {} /\ calls = <<>> /\ online \in Presence
  /\ faults = 0 /\ troubled = "no"

WorkerHandles ==
  \/ Begin \/ DataReceived \/ Instant \/ ReceivingStarted \/ ReceivingStopped
  \/ RequestFailed \/ GivenUp \/ RaidDone \/ NextBlock \/ AllRestored \/ Ignore

Reactor == WorkerHandles \/ ReceiverHandles \/ InboxHandles
Requests == \E s \in Number : Runs(s)
DataCome == \E p \in outgoing : DataComes(p)
AcksCome == \E s \in pinged : AckComes(s)
DataEnd == \E m \in streams : m.what # "ack" /\ StreamCloses(m)
AcksEnd == \E m \in streams : m.what = "ack" /\ StreamCloses(m)

RestoreNext ==
  \/ Reactor \/ Requests \/ ReadEnds \/ ReadFails \/ DoPingSuppliers
  \/ DataCome \/ AcksCome \/ DataEnd \/ AcksEnd
  \/ \E p \in outgoing : BadAnswer(p) \/ RetrieveFails(p)
  \/ \E m \in streams : StreamFails(m)
  \/ RebuilderCloses \/ StartRestore \/ ExtractDone

RestoreSpec == RestoreInit /\ [][RestoreNext]_restoreVars

(* The reactor, the loop of requests and the raid process run, the timer   *)
(* fires, suppliers answer, and what they send comes to an end, although   *)
(* it waits for the reactor while pings and their Acks come and go.        *)
FairRestoreSpec ==
  /\ RestoreSpec /\ WF_restoreVars(Reactor) /\ WF_restoreVars(StartRestore) /\ WF_restoreVars(ExtractDone) /\ WF_restoreVars(ReadEnds)
  /\ WF_restoreVars(DoPingSuppliers) /\ WF_restoreVars(AcksCome) /\ WF_restoreVars(AcksEnd)
  /\ SF_restoreVars(Requests) /\ SF_restoreVars(DataCome) /\ SF_restoreVars(DataEnd)

-----------------------------------------------------------------------------
(* The streams whose opening was handled, and whose closing was not.       *)
Receiving ==
  LET Waits(e) == Cardinality({i \in DOMAIN calls : calls[i].to = "receiver" /\ calls[i].event = e})
  IN  Cardinality(streams) - Waits("input-stream-opened") + Waits("input-stream-closed")

(* The variables of the worker, the queues of requests, whose packets have *)
(* a record in the dictionary, and the counter of the data receiver, which *)
(* a transfer that fails is never taken off.                               *)
RestoreTypeOK ==
  /\ job \in {"none", "working", "extracting", "restore done", "failed"}
  /\ workerState \in {"NONE", "AT_STARTUP", "REQUESTED", "RECEIVING", "RAID", "BLOCK", "DONE", "FAILED"}
  /\ block \in Block /\ hand.D \subseteq Number /\ hand.P \subseteq Number
  /\ fails \in Nat /\ attempts \in 0..3 /\ reading \in BOOLEAN
  /\ files \subseteq Piece /\ outgoing \subseteq Piece /\ pinged \subseteq Number
  /\ \A s \in Number : LET q == requests[s] IN
       /\ IsInjective(q.queue) /\ ToSet(q.queue) \subseteq q.dict /\ q.dict \subseteq Piece
       /\ q.asked \subseteq q.dict
  /\ counter - Receiving \in 0..MaxFaults

Ended == job \in {"extracting", "restore done", "failed"}

(* What is handed to tar is the backup: every block, once, in order.  A    *)
(* restore that has ended leaves nothing to be asked for.                  *)
Settled ==
  /\ job \in {"extracting", "restore done"} => written = [i \in 1..MaxBlock + 1 |-> i - 1]
  /\ Ended => \A s \in Number : requests[s].queue = <<>>

(* The download comes to its end, although the worker does not notice the  *)
(* last piece itself, and although the rebuilder may delete its requests;  *)
(* with all suppliers online also when as many requests as a block has     *)
(* spare pieces are refused, not sent, or answered by what is not valid;   *)
(* and it fails, but ends, when the raid worker is shut down.  Nothing is  *)
(* said of what leaves it waiting for ever (troubled is "stuck"): such a   *)
(* request with a supplier offline, a transfer that breaks off, a piece of *)
(* an earlier block that comes while the next one is waited for.           *)
Downloads ==
  [](troubled # "stuck") => <>(job = "restore done" \/ (job = "failed" /\ troubled = "failing"))
=============================================================================
