--------------------------- MODULE BackupRebuilder ---------------------------
(***************************************************************************)
(* storage/backup_rebuilder.py over raid/raid_worker.py: the pieces of a   *)
(* block which a supplier has lost are rebuilt from those on hand, and     *)
(* those on hand are first asked back from the suppliers.                  *)
(*                                                                         *)
(* Everything is called by the reactor, in the order of its queue: events  *)
(* of the rebuilder and of the worker, the chain of calls that goes over   *)
(* the blocks of a backup, and the callbacks of the worker.  Around them:  *)
(* the backup monitor, the lists of files sent by suppliers, the requests  *)
(* for pieces, the data sender, and a job of the user that keeps the       *)
(* worker busy.  The user keeps the local copies of his backups.           *)
(***************************************************************************)
EXTENDS RaidCodes, RaidWorker, Lists

CONSTANTS
  Newest,     \* the backups, newest first
  MaxBlock,   \* the blocks of a backup are 0..MaxBlock
  Stored,     \* the sets of pieces which the suppliers may have at first
  OnDisk,     \* the same for the local files
  Vacancies,  \* the sets of positions that may have no supplier
  MaxEvents,  \* bound of what comes from outside: stops, lists of files,
              \* jobs, failed requests and changes of presence
  MaxWaiting  \* ... and of the list of backups when a cycle begins

VARIABLES
  state,      \* of the rebuilder
  stopped,    \* _StoppedFlag
  waiting,    \* _BackupIDsQueue
  current,    \* currentBackupID
  working,    \* workingBlocksQueue
  index,      \* blockIndex
  succeed,    \* blocksSucceed
  rebuilt,    \* backupsWasRebuilt
  missing,    \* missingPackets > 0
  requests,   \* the pieces in the request queues of the suppliers
  remote,     \* the remote matrix: the pieces with a 1
  known,      \* ... and the blocks it has an entry for
  local,      \* the local matrix: the pieces with a 1
  files,      \* the files of pieces on the disk
  worker,     \* raid_worker
  queue,      \* of the reactor
  vacant,     \* the positions with no supplier
  online,     \* the suppliers that answer
  monitor,    \* what backup_monitor waits for
  job,        \* the running backup of the user
  budget,     \* how much may still come from outside
  troubled    \* a request has failed or a presence changed

rebuilder == <<state, stopped, waiting, current, working, index, succeed, rebuilt, missing>>
matrix == <<remote, known, local, files>>
outside == <<vacant, online, monitor, job, budget, troubled>>
vars == <<rebuilder, requests, matrix, worker, queue, outside>>

Backup == ToSet(Newest)
Block == 0..MaxBlock
Ascending == [i \in 1..MaxBlock + 1 |-> i - 1]
Piece == Backup \X Block \X {"D", "P"} \X Number
NoBackup == "none"

ASSUME RebuilderAssumption ==
  /\ Newest \in Seq(Backup) /\ MaxBlock \in Nat
  /\ Stored \subseteq SUBSET Piece /\ OnDisk \subseteq SUBSET Piece /\ Vacancies \subseteq SUBSET Number
  /\ MaxEvents \in Nat /\ MaxWaiting \in Nat

Active == online \ vacant

(* GetLocalMatrix, GetRemoteMatrix: the numbers of the pieces of a block.  *)
Row(pieces, b, n) == [D |-> {s \in Number : <<b, n, "D", s>> \in pieces},
                      P |-> {s \in Number : <<b, n, "P", s>> \in pieces}]
Pieces(b, n, D, P) == {<<b, n, "D", s>> : s \in D} \cup {<<b, n, "P", s>> : s \in P}

Rebuilder(e) == [to |-> "rebuilder", event |-> e]
Monitor(e) == [to |-> "monitor", event |-> e]
Chain(e) == [to |-> "chain", event |-> e]

Got(m) == queue # <<>> /\ Head(queue) = m
Post(ms) == queue' = Tail(queue) \o ms

(* state_changed runs after the actions.                                   *)
Entered(s) == CASE s \in {"NEXT_BACKUP", "REQUEST", "REBUILDING"} -> <<Rebuilder("instant")>>
                [] s \in {"DONE", "STOPPED"} -> <<Monitor(s)>>
                [] OTHER -> <<>>
Become(s, ms) == state' = s /\ Post(ms \o Entered(s))

(* Conditions.                                                             *)
ChanceWith(cs) == \E i \in DOMAIN working :
  LET row == Row(cs, current, working[i]) IN CanMakeProgress(row.D, row.P)
IsChanceToRebuild == ChanceWith(local)
IsRequestQueueEmpty == \A p \in requests : p[1] # current
IsMoreBlocks == working # <<>>
IsMoreBackups == waiting # <<>>

-----------------------------------------------------------------------------
(* Actions of the machine.                                                 *)

(* Mutant: the requests of the backup are left in the queues.              *)
CloseKeepingRequests ==
  /\ working' = <<>>
  /\ current' = NoBackup
  /\ UNCHANGED requests

DoCloseThisBackup ==
  /\ working' = <<>>
  /\ requests' = {p \in requests : p[1] # current}
  /\ current' = NoBackup

DoClearStoppedFlag == stopped' = FALSE /\ rebuilt' = FALSE

(* The blocks which an online supplier lacks a piece of, or which have no  *)
(* entry in the remote matrix.  For a backup with no remote entry at all   *)
(* one is made for each local block before the scan, and for each block    *)
(* there is after it.                                                      *)
BlocksOf(b) == {k \in Block : \E j \in k..MaxBlock :
                  <<b, j>> \in known \/ \E p \in local : p[1] = b /\ p[2] = j}

ScanMissingBlocks(b, entries) ==
  {n \in BlocksOf(b) : \/ <<b, n>> \notin entries
                       \/ \E s \in Active, k \in {"D", "P"} : <<b, n, k, s>> \notin remote}

DoScanBrokenBlocks(b) ==
  LET entries == known \cup ({b} \X BlocksOf(b))
  IN  /\ working' = Among(Ascending, ScanMissingBlocks(b, IF \E n \in Block : <<b, n>> \in known
                                                        THEN known ELSE entries))
      /\ known' = entries
      /\ requests' = {p \in requests : p[1] # b}

(* _request_files: with an empty place in the list of suppliers nothing is *)
(* asked for.                                                              *)
Lacking == {p \in Piece : p[1] = current /\ p[2] \in ToSet(working) /\ p \notin local}
Wanted == {p \in Lacking : p \in remote /\ p[4] \in Active /\ p \notin requests /\ p \notin files}

RequestFiles ==
  IF vacant # {}
  THEN missing' = FALSE /\ UNCHANGED requests /\ Become("REQUEST", <<Rebuilder("no-requests")>>)
  ELSE /\ missing' = ~ (Lacking \subseteq remote)
       /\ requests' = requests \cup Wanted
       /\ Become("REQUEST", <<Rebuilder(IF Wanted # {} THEN "requests-sent"
                                        ELSE IF missing' THEN "found-missing" ELSE "no-requests")>>)

-----------------------------------------------------------------------------
(* The state machine.                                                      *)

(* Mutant: blockIndex is taken for the number of blocks.                   *)
OneTooFar == Len(working) + 1

(* blockIndex is that of the last block, counted here from 1.              *)
LastBlock == Len(working)

RequestToRebuilding(e) ==
  /\ state = "REQUEST" /\ e \in {"timer-1sec", "inbox-data-packet", "requests-sent", "found-missing"}
  /\ IsChanceToRebuild /\ ~ stopped
  /\ succeed' = {}
  /\ index' = LastBlock  \* there is a block, or there were no chance
  /\ Become("REBUILDING", <<Chain("_start_one_block")>>)
  /\ UNCHANGED <<stopped, waiting, current, working, rebuilt, missing, requests, known>>

RequestToDone(e) ==
  /\ state = "REQUEST" /\ ~ stopped
  /\ \/ e = "found-missing" /\ ~ IsChanceToRebuild
     \/ e = "no-requests"  \* nothing lacks, or there is an empty place
     \/ /\ e \in {"timer-1sec", "inbox-data-packet"} /\ ~ IsChanceToRebuild
        /\ IsRequestQueueEmpty /\ ~ missing
  /\ DoCloseThisBackup
  /\ Become("DONE", <<>>)
  /\ UNCHANGED <<stopped, waiting, index, succeed, rebuilt, missing, known>>

RequestToStopped(e) ==
  /\ state = "REQUEST" /\ stopped
  /\ e \in {"instant", "timer-1sec", "requests-sent", "no-requests", "found-missing"}
  /\ DoCloseThisBackup
  /\ Become("STOPPED", <<>>)
  /\ UNCHANGED <<stopped, waiting, index, succeed, rebuilt, missing, known>>

Start(e) ==
  /\ \/ state = "STOPPED" /\ e = "start"
     \/ state = "DONE" /\ (e = "start" \/ (e = "instant" /\ rebuilt))
  /\ DoClearStoppedFlag
  /\ Become("NEXT_BACKUP", <<>>)
  /\ UNCHANGED <<waiting, current, working, index, succeed, missing, requests, known>>

NextToDone(e) ==
  /\ state = "NEXT_BACKUP" /\ e = "instant" /\ (stopped \/ ~ IsMoreBackups)
  /\ Become(IF stopped THEN "STOPPED" ELSE "DONE", <<>>)
  /\ UNCHANGED <<stopped, waiting, current, working, index, succeed, rebuilt, missing, requests, known>>

NextToPrepare(e) ==
  /\ state = "NEXT_BACKUP" /\ e = "instant" /\ ~ stopped /\ IsMoreBackups
  /\ current' = Head(waiting) /\ waiting' = Tail(waiting)
  /\ DoScanBrokenBlocks(Head(waiting))
  /\ Become("PREPARE", <<Rebuilder("backup-ready")>>)
  /\ UNCHANGED <<stopped, index, succeed, rebuilt, missing>>

PrepareToEnd(e) ==
  /\ state = "PREPARE"
  /\ \/ e = "backup-ready" /\ ~ IsMoreBackups /\ ~ IsMoreBlocks /\ Become("DONE", <<>>)
     \/ /\ e \in {"instant", "backup-ready"} /\ stopped
        /\ ~ (e = "backup-ready" /\ ~ IsMoreBackups /\ ~ IsMoreBlocks)
        /\ Become("STOPPED", <<>>)
     \/ e = "backup-ready" /\ ~ stopped /\ ~ IsMoreBlocks /\ IsMoreBackups /\ Become("NEXT_BACKUP", <<>>)
  /\ DoCloseThisBackup
  /\ UNCHANGED <<stopped, waiting, index, succeed, rebuilt, missing, known>>

PrepareToRequest(e) ==
  /\ state = "PREPARE" /\ e \in {"instant", "backup-ready"} /\ ~ stopped /\ IsMoreBlocks
  /\ RequestFiles
  /\ UNCHANGED <<stopped, waiting, current, working, index, succeed, rebuilt, known>>

RebuildingToPrepare(e) ==
  /\ state = "REBUILDING" /\ e = "rebuilding-finished" /\ ~ stopped /\ ~ IsMoreBlocks
  /\ DoScanBrokenBlocks(current)
  /\ Become("PREPARE", <<Rebuilder("backup-ready")>>)
  /\ UNCHANGED <<stopped, waiting, current, index, succeed, rebuilt, missing>>

RebuildingToStopped(e) ==
  /\ state = "REBUILDING" /\ e \in {"instant", "rebuilding-finished"} /\ stopped
  /\ DoCloseThisBackup
  /\ Become("STOPPED", <<ToWorker("shutdown", NoTask, NoResult)>>)
  /\ UNCHANGED <<stopped, waiting, index, succeed, rebuilt, missing, known>>

RebuildingToRequest(e) ==
  /\ state = "REBUILDING" /\ e = "rebuilding-finished" /\ ~ stopped /\ IsMoreBlocks
  /\ RequestFiles
  /\ UNCHANGED <<stopped, waiting, current, working, index, succeed, rebuilt, known>>

Transition(e) ==
  \/ RequestToRebuilding(e) \/ RequestToDone(e) \/ RequestToStopped(e) \/ Start(e)
  \/ NextToDone(e) \/ NextToPrepare(e) \/ PrepareToEnd(e) \/ PrepareToRequest(e)
  \/ RebuildingToPrepare(e) \/ RebuildingToStopped(e) \/ RebuildingToRequest(e)

(* The events that do something.                                           *)
Acts(e) ==
  CASE state = "REQUEST" /\ stopped ->
         e \in {"instant", "timer-1sec", "requests-sent", "no-requests", "found-missing"}
    [] state = "REQUEST" /\ ~ stopped ->
         \/ e \in {"no-requests", "found-missing"}
         \/ e \in {"timer-1sec", "inbox-data-packet", "requests-sent"} /\ IsChanceToRebuild
         \/ e \in {"timer-1sec", "inbox-data-packet"} /\ IsRequestQueueEmpty /\ ~ missing
    [] state = "STOPPED" -> e = "start"
    [] state = "DONE" -> e = "start" \/ (e = "instant" /\ rebuilt)
    [] state = "NEXT_BACKUP" -> e = "instant"
    [] state = "PREPARE" -> e = "backup-ready" \/ (e = "instant" /\ (stopped \/ IsMoreBlocks))
    [] state = "REBUILDING" -> e = "rebuilding-finished" \/ (e = "instant" /\ stopped)

RebuilderHandles ==
  /\ queue # <<>> /\ Head(queue).to = "rebuilder"
  /\ \/ Transition(Head(queue).event) /\ UNCHANGED <<remote, local, files, worker, outside>>
     \/ /\ ~ Acts(Head(queue).event) /\ Post(<<>>)
        /\ UNCHANGED <<rebuilder, requests, matrix, worker, outside>>

-----------------------------------------------------------------------------
(* The chain of calls over the blocks, the last block first.               *)

(* Mutant: the chain goes past the first block.                            *)
ChainRunsOver == index < 0

ChainIsOver == index < 1

StartOneBlock ==
  /\ Got(Chain("_start_one_block"))
  /\ CASE ChainIsOver -> Post(<<Chain("_finish_rebuilding")>>)
       [] index \in DOMAIN working ->
            Post(<<ToWorker("new-task",
                    [kind |-> "rebuild", backup |-> current, block |-> working[index],
                     active |-> Active, remote |-> Row(remote, current, working[index]),
                     local |-> Row(local, current, working[index])], NoResult)>>)
       [] OTHER -> Post(<<>>)  \* IndexError: the list was emptied meanwhile
  /\ UNCHANGED <<rebuilder, requests, matrix, worker, outside>>

(* newData.                                                                *)
NewData(r) == r.newD # {} \/ r.newP # {}

(* The files are reported one by one: a 1 for each that is on the disk.    *)
BlockFinished ==
  /\ queue # <<>> /\ Head(queue).to = "user" /\ Head(queue).task.kind = "rebuild"
  /\ LET t == Head(queue).task
         r == Head(queue).result
     IN  IF ~ r.done
         THEN Post(<<Chain("_finish_rebuilding")>>) /\ UNCHANGED <<succeed, index, local>>
         ELSE /\ IF NewData(r)
                 THEN /\ local' = local \cup (Pieces(t.backup, t.block, r.newD, r.newP) \cap files)
                      /\ succeed' = succeed \cup {t.block}
                 ELSE UNCHANGED <<local, succeed>>
              /\ index' = index - 1
              /\ Post(<<Chain("_start_one_block")>>)
  /\ UNCHANGED <<state, stopped, waiting, current, working, rebuilt, missing,
                 requests, remote, known, files, worker, outside>>

FinishRebuilding ==
  /\ Got(Chain("_finish_rebuilding"))
  /\ working' = Among(working, Block \ succeed)
  /\ rebuilt' = (rebuilt \/ succeed # {})
  /\ succeed' = {}
  /\ Post(<<Rebuilder("rebuilding-finished")>>)
  /\ UNCHANGED <<state, stopped, waiting, current, index, missing, requests, matrix, worker, outside>>

-----------------------------------------------------------------------------
(* The worker, and the processes that do its tasks.                        *)

Outcome(t) == Rebuild(t.active, t.remote, t.local, Row(files, t.backup, t.block).D)
Written(t, r) == Pieces(t.backup, t.block, r.madeD, r.madeP)

(* A process that is killed has written some of its files, the last one    *)
(* perhaps only in part; it is a file like the others.                     *)
Killed ==
  \E done \in SUBSET UNION {Written(t, Outcome(t)) : t \in {u \in worker.running : u.kind = "rebuild"}} :
    files' = files \cup done

WorkerHandles ==
  /\ queue # <<>> /\ Head(queue).to = "worker"
  /\ worker' = Handled(worker, Head(queue)).worker
  /\ Post(Handled(worker, Head(queue)).posts)
  /\ IF Head(queue).event = "shutdown" THEN Killed ELSE UNCHANGED files
  /\ UNCHANGED <<rebuilder, requests, remote, known, local, outside>>

TaskEnds(t) ==
  /\ t \in worker.running
  /\ worker' = [worker EXCEPT !.running = @ \ {t}]
  /\ IF t.kind = "rebuild"
     THEN \E result \in {Outcome(t)} :
             /\ files' = files \cup Written(t, result)
             /\ queue' = Append(queue, ToWorker("task-done", t, result))
     ELSE queue' = Append(queue, ToWorker("task-done", t, [done |-> TRUE])) /\ UNCHANGED files
  /\ UNCHANGED <<rebuilder, requests, remote, known, local, outside>>

WorkerTimer ==
  /\ worker' = IF worker.state = "WORK" THEN TaskStarted(worker) ELSE Idle(worker)
  /\ worker' # worker
  /\ UNCHANGED <<rebuilder, requests, matrix, queue, outside>>

-----------------------------------------------------------------------------
(* What comes from outside.                                                *)

(* A piece arrives: one that is on the disk already is not reported.       *)
Received(p) ==
  /\ p \in requests /\ p[4] \in Active
  /\ requests' = requests \ {p}
  /\ files' = files \cup {p}
  /\ local' = IF p \in files THEN local ELSE local \cup {p}
  /\ queue' = Append(queue, Rebuilder("inbox-data-packet"))
  /\ UNCHANGED <<rebuilder, remote, known, worker, outside>>

RequestFailed(p) ==
  /\ p \in requests /\ budget > 0
  /\ requests' = requests \ {p}
  /\ budget' = budget - 1 /\ troubled' = TRUE
  /\ UNCHANGED <<rebuilder, matrix, worker, queue, vacant, online, monitor, job>>

(* A supplier goes offline or comes back.                                  *)
PresenceChanges(s) ==
  /\ s \notin vacant /\ budget > 0
  /\ online' = IF s \in online THEN online \ {s} ELSE online \cup {s}
  /\ budget' = budget - 1 /\ troubled' = TRUE
  /\ UNCHANGED <<rebuilder, requests, matrix, worker, queue, vacant, monitor, job>>

(* A second is long: what was posted before has been handled.              *)
Timer ==
  /\ state = "REQUEST" /\ queue = <<>>
  /\ queue' = Append(queue, Rebuilder("timer-1sec"))
  /\ UNCHANGED <<rebuilder, requests, matrix, worker, outside>>

(* The data sender brings a piece to an online supplier that lacks it.     *)
Uploaded(p) ==
  /\ p \in local \ remote /\ p[4] \in Active /\ vacant = {}
  /\ remote' = remote \cup {p}
  /\ known' = known \cup {<<p[1], p[2]>>}
  /\ UNCHANGED <<rebuilder, requests, local, files, worker, queue, outside>>

(* The list of a supplier: the backups of which he lacks something are     *)
(* added to the work.                                                      *)
ListFiles(s) ==
  LET missed == {b \in Backup : /\ \E n \in Block : <<b, n>> \in known
                                /\ \E n \in Block, k \in {"D", "P"} :
                                     <<b, n>> \in known /\ <<b, n, k, s>> \notin remote}
  IN  /\ s \in Active /\ budget > 0 /\ missed # {}
      /\ budget' = budget - 1
      /\ \E order \in SetToSeqs(missed) : waiting' = waiting \o order
      /\ queue' = Append(queue, Rebuilder("start"))
      /\ UNCHANGED <<state, stopped, current, working, index, succeed, rebuilt, missing,
                     requests, matrix, worker, vacant, online, monitor, job, troubled>>

(* The cycle of the monitor: the local files are read, the backups listed  *)
(* (none while a backup of the user runs) and the rebuilder started.       *)
ReadLocalFiles ==
  /\ monitor = "idle"
  /\ monitor' = "listing" /\ local' = files
  /\ UNCHANGED <<rebuilder, requests, remote, known, files, worker, queue, vacant, online, job, budget, troubled>>

MonitorStarts ==
  /\ monitor = "listing" /\ queue = <<>> /\ Len(waiting) < MaxWaiting
  /\ monitor' = "rebuilding"
  /\ waiting' = IF job = "running" THEN <<>>
                ELSE waiting \o Among(Newest, {b \in Backup : BlocksOf(b) # {}})
  /\ queue' = Append(queue, Rebuilder("start"))
  /\ UNCHANGED <<state, stopped, current, working, index, succeed, rebuilt, missing,
                 requests, matrix, worker, vacant, online, job, budget, troubled>>

(* Mutant: only the flag is set.                                           *)
FlagOnly(q) == q

(* SetStoppedFlag: the rebuilder is told at once.                          *)
SetStoppedFlag(q) == Append(q, Rebuilder("instant"))

MonitorStops ==
  /\ monitor = "rebuilding" /\ budget > 0
  /\ monitor' = "idle"
  /\ budget' = budget - 1
  /\ stopped' = TRUE
  /\ queue' = SetStoppedFlag(queue)
  /\ UNCHANGED <<state, waiting, current, working, index, succeed, rebuilt, missing,
                 requests, matrix, worker, vacant, online, job, troubled>>

MonitorHandles ==
  /\ queue # <<>> /\ Head(queue).to = "monitor"
  /\ monitor' = IF monitor = "rebuilding" THEN "idle" ELSE monitor
  /\ Post(<<>>)
  /\ UNCHANGED <<rebuilder, requests, matrix, worker, vacant, online, job, budget, troubled>>

(* A backup of the user gives the worker a block to make.                  *)
JobStarts ==
  /\ job # "running" /\ budget > 0
  /\ job' = "running"
  /\ budget' = budget - 1
  /\ queue' = Append(queue, ToWorker("new-task", [kind |-> "make"], NoResult))
  /\ UNCHANGED <<rebuilder, requests, matrix, worker, vacant, online, monitor, troubled>>

JobTold ==
  /\ queue # <<>> /\ Head(queue).to = "user" /\ Head(queue).task.kind = "make"
  /\ job' = IF ~ Head(queue).result.done THEN "failed" ELSE "done"
  /\ Post(<<>>)
  /\ UNCHANGED <<rebuilder, requests, matrix, worker, vacant, online, monitor, budget, troubled>>

-----------------------------------------------------------------------------
Init ==
  /\ state = "STOPPED" /\ stopped = FALSE  \* 'init' has been handled
  /\ waiting = <<>> /\ current = NoBackup /\ working = <<>>
  /\ index = 0 /\ succeed = {} /\ rebuilt = FALSE /\ missing = FALSE
  /\ requests = {} /\ remote \in Stored /\ files \in OnDisk /\ local = files
  /\ known = {e \in Backup \X Block : \E p \in remote : p[1] = e[1] /\ p[2] >= e[2]}
  /\ worker = NewWorker /\ queue = <<>>
  /\ vacant \in Vacancies /\ online = Number \ vacant /\ monitor = "idle" /\ job = "none"
  /\ budget = MaxEvents /\ troubled = FALSE

Reactor == \/ RebuilderHandles \/ WorkerHandles \/ MonitorHandles \/ JobTold
           \/ StartOneBlock \/ BlockFinished \/ FinishRebuilding
TaskEnd == \E t \in worker.running : TaskEnds(t)
Reply == \E p \in requests : Received(p) \/ RequestFailed(p)
Upload == \E p \in local : Uploaded(p)

Next ==
  \/ Reactor \/ TaskEnd \/ WorkerTimer \/ Reply \/ Timer \/ Upload
  \/ \E s \in Number : ListFiles(s) \/ PresenceChanges(s)
  \/ ReadLocalFiles \/ MonitorStarts \/ MonitorStops \/ JobStarts

Spec == Init /\ [][Next]_vars

(* The reactor runs, processes end, requests are answered, pieces are      *)
(* sent, timers fire, the monitor goes on with its cycle.                  *)
FairSpec ==
  /\ Spec /\ WF_vars(Reactor) /\ WF_vars(TaskEnd \/ WorkerTimer) /\ WF_vars(Reply)
  /\ WF_vars(Timer) /\ WF_vars(Upload) /\ WF_vars(ReadLocalFiles \/ MonitorStarts)

-----------------------------------------------------------------------------
States == {"STOPPED", "NEXT_BACKUP", "PREPARE", "REQUEST", "REBUILDING", "DONE"}
Busy == state \notin {"STOPPED", "DONE"}

TypeOK ==
  /\ state \in States /\ stopped \in BOOLEAN /\ rebuilt \in BOOLEAN /\ missing \in BOOLEAN
  /\ waiting \in Seq(Backup) /\ current \in Backup \cup {NoBackup}
  /\ working \in Seq(Block) /\ index \in 0..MaxBlock + 1 /\ succeed \subseteq Block
  /\ remote \subseteq Piece /\ requests \subseteq Piece /\ files \subseteq Piece
  /\ local \subseteq files /\ known \subseteq Backup \X Block
  /\ worker.state \in {"OFF", "READY", "WORK", "NONE"}
  /\ monitor \in {"idle", "listing", "rebuilding"} /\ job \in {"none", "running", "done", "failed"}

(* The books of the worker agree after every event.  A task that waits for *)
(* the processes to start, or whose process has answered, is taken up by   *)
(* an event to come, so that none is forgotten.  No request outlives the   *)
(* work it was made for: pieces are waited for only while the rebuilder    *)
(* works on their backup, so that the answers to the requests of one       *)
(* backup are never counted for another.                                   *)
Comes(q, e) == {m.task : m \in {n \in ToSet(q) : n.to = "worker" /\ n.event = e}}
Books ==
  /\ BooksAgree(worker)
  /\ worker.state = "OFF" /\ worker.tasks # <<>> => Comes(queue, "process-started") # {}
  /\ worker.active \subseteq worker.running \cup Comes(queue, "task-done")
  /\ requests # {} => state \in {"REQUEST", "REBUILDING"} /\ \A p \in requests : p[1] = current

(* Whatever the suppliers lose is brought back to them: with all of them   *)
(* online, no request that fails and a worker alive, every piece is in     *)
(* the end rebuilt, sent, and taken for stored.                            *)
Healed == [](worker.state # "NONE" /\ ~ troubled /\ vacant = {}) => <>[](Piece \subseteq remote)

(* A stop is heeded in every state: a rebuilder whose stop flag is set     *)
(* leaves the backup it works on, or the flag is cleared by a new start.   *)
StopWorks == (stopped /\ Busy) ~> ~ (stopped /\ Busy)
=============================================================================
