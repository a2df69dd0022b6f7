---------------------------- MODULE BackupMonitor ----------------------------
(***************************************************************************)
(* storage/backup_monitor.py, which repeats: hire suppliers (Hiring, what  *)
(* FireHire is shown to promise), list what they store                     *)
(* (customer/list_files_orator.py), rebuild what is lost; with the column  *)
(* that each supplier has in the matrix of remote files                    *)
(* (storage/backup_matrix.py).                                             *)
(*                                                                         *)
(* There is one backup with one piece for each position.  The machines     *)
(* post events to each other through the reactor, in order.                *)
(* backup_rebuilder is idle or working, and tells when it ends; it is      *)
(* BackupRebuilder that says how.                                          *)
(***************************************************************************)
EXTENDS Hiring, Integers

CONSTANTS
  MaxTrouble   \* bounds of how often suppliers "change" in a cycle, and of what
               \* "else" fails or is asked from outside

ASSUME TroubleAssumption == MaxTrouble \in [{"change", "else"} -> Nat]

VARIABLES
  state, restartAgain,
  currentSuppliers,     \* remembered
  orator,
  requested, received,  \* _RequestedListFilesPacketIDs, and whether any has come
  rebuilding,           \* backup_rebuilder works
  rebuilt,              \* a 'restart' is to come one second later
  column,               \* of remote_files(): column[i] = 1, supplier i stores it
  holds,                \* who really stores the piece of his position
  connected,            \* p2p_connector is CONNECTED
  queue,                \* of the reactor
  unlisted,             \* suppliers have changed since files were requested
  troubles

monitor == <<state, restartAgain, currentSuppliers>>
orating == <<orator, requested, received>>
matrix == <<column, holds>>
vars == <<hiring, monitor, orating, rebuilding, rebuilt, matrix, connected, queue, unlisted, troubles>>

Posts(q) == queue' = q
Quiet == queue = <<>> /\ reports = <<>>

-----------------------------------------------------------------------------
(* backup_matrix.                                                          *)

Zeros(n) == [i \in 1 .. n |-> 0]

(* SuppliersChangedNumbers, ClearSupplierRemoteInfo.                       *)
SupplierAt(i) == IF i \in DOMAIN suppliers THEN suppliers[i] ELSE None
SuppliersChangedNumbers ==
  {i \in DOMAIN currentSuppliers : currentSuppliers[i] # None /\ SupplierAt(i) # currentSuppliers[i]}
ClearSupplierRemoteInfo(S) == [i \in DOMAIN column |-> IF i \in S THEN 0 ELSE column[i]]

(* ReadRawListFiles, of a supplier who stores the backup or not.  It would *)
(* clear his column first, but gives the global id of the customer where   *)
(* an idurl is expected, and nothing is cleared.                           *)
ReadRawListFiles(u) ==
  [i \in DOMAIN column |-> IF u \in holds /\ SupplierAt(i) = u THEN 1 ELSE column[i]]

-----------------------------------------------------------------------------
(* backup_monitor.                                                         *)

RememberSuppliers == currentSuppliers' = suppliers
FireHireRestart == Ask
NoHiring == UNCHANGED hiring

(* READY posts 'instant'.                                                  *)
Ready(again, q) == state' = "READY" /\ restartAgain' = again /\ Posts(q \o <<"instant">>)

(* Mutant: the check-up only looks for empty positions.                    *)
EmptyFound == None \in ToSet(suppliers)

(* doOverallCheckUp restarts for these, for suppliers who are offline, and *)
(* in any case ten minutes later.  Checks in between change nothing.       *)
CheckUpRestarts == TRUE

InReady(e, q) ==
  /\ IF e \in {"restart", "suppliers-changed"} \/ (e = "instant" /\ restartAgain)
     THEN state' = "FIRE_HIRE" /\ restartAgain' = FALSE /\ RememberSuppliers /\ FireHireRestart
     ELSE UNCHANGED monitor /\ NoHiring
  /\ Posts(IF e = "timer-5sec" /\ CheckUpRestarts THEN q \o <<"restart">> ELSE q)
  /\ UNCHANGED <<matrix, rebuilt>>

RestartLater(q) == restartAgain' = TRUE /\ UNCHANGED <<state, currentSuppliers>> /\ Posts(q)

(* Mutant: only files that were seen end the wait for them.                *)
OnlySeen == {"SAW_FILES"}
EndsOfListing == {"NO_FILES", "SAW_FILES"}

InListFiles(e, q) ==
  /\ CASE e \in EndsOfListing /\ e = "NO_FILES" -> Ready(restartAgain, q) /\ UNCHANGED currentSuppliers
       [] e \in EndsOfListing /\ e = "SAW_FILES" ->
            /\ state' = "LIST_BACKUPS" /\ UNCHANGED <<restartAgain, currentSuppliers>>
            /\ Posts(q \o <<"list-backups-done">>)
       [] e = "restart" -> RestartLater(q)
       [] e = "suppliers-changed" -> Ready(TRUE, q) /\ UNCHANGED currentSuppliers
       [] OTHER -> Posts(q) /\ UNCHANGED monitor
  /\ NoHiring /\ UNCHANGED <<matrix, rebuilt>>

InListBackups(e, q) ==
  /\ CASE e = "list-backups-done" ->
            /\ state' = "REBUILDING" /\ UNCHANGED <<restartAgain, currentSuppliers>>
            /\ Posts(q \o <<"start">>)
       [] e = "restart" -> RestartLater(q)
       [] e = "suppliers-changed" -> Ready(TRUE, q) /\ UNCHANGED currentSuppliers
       [] OTHER -> Posts(q) /\ UNCHANGED monitor
  /\ NoHiring /\ UNCHANGED <<matrix, rebuilt>>

(* doCleanUpBackups asks for another cycle if something was rebuilt.       *)
InRebuilding(e, q) ==
  \/ /\ e \in {"restart", "suppliers-changed"}
     /\ state' = "FIRE_HIRE" /\ FireHireRestart
     /\ Posts(q) /\ UNCHANGED <<restartAgain, currentSuppliers, matrix, rebuilt>>
  \/ /\ e = "rebuilder-ended"
     /\ Ready(restartAgain, q) /\ rebuilt' \in {rebuilt, TRUE}
     /\ NoHiring /\ UNCHANGED <<currentSuppliers, matrix>>
  \/ /\ e \notin {"restart", "suppliers-changed", "rebuilder-ended"}
     /\ Posts(q) /\ NoHiring /\ UNCHANGED <<monitor, matrix, rebuilt>>

(* isSuppliersNumberChanged: doDeleteAllBackups.  The backup made next has *)
(* a piece for each position there is then.                                *)
UpdateSuppliers ==
  IF Len(suppliers) # Len(currentSuppliers)
  THEN column' = Zeros(Len(suppliers)) /\ holds' = {}
  ELSE column' = ClearSupplierRemoteInfo(SuppliersChangedNumbers) /\ UNCHANGED holds

EndsOfHiring == {"suppliers-changed", "fire-hire-finished"}

InFireHire(e, q) ==
  /\ IF e \in EndsOfHiring
     THEN /\ state' = "LIST_FILES" /\ UNCHANGED restartAgain /\ Posts(q \o <<"need-files">>)
          /\ IF e = "suppliers-changed" THEN UpdateSuppliers /\ RememberSuppliers
             ELSE UNCHANGED <<matrix, currentSuppliers>>
     ELSE /\ IF e = "restart" THEN RestartLater(q) ELSE Posts(q) /\ UNCHANGED monitor
          /\ UNCHANGED matrix
  /\ NoHiring /\ UNCHANGED rebuilt

MonitorEvent(e, q) ==
  /\ CASE state = "READY" -> InReady(e, q)
       [] state = "LIST_FILES" -> InListFiles(e, q)
       [] state = "LIST_BACKUPS" -> InListBackups(e, q)
       [] state = "REBUILDING" -> InRebuilding(e, q)
       [] state = "FIRE_HIRE" -> InFireHire(e, q)
  /\ UNCHANGED <<orating, rebuilding, connected, unlisted, troubles>>

TimerMonitor ==
  /\ Quiet /\ state = "READY" /\ Posts(<<"timer-5sec">>)
  /\ UNCHANGED <<hiring, monitor, orating, rebuilding, rebuilt, matrix, connected, unlisted, troubles>>

-----------------------------------------------------------------------------
(* list_files_orator.  Reading the local files takes no time.              *)

OratorRest == UNCHANGED <<hiring, monitor, rebuilding, rebuilt, matrix, connected, troubles>>

ReadsAgain == {"NO_FILES", "SAW_FILES"}

NeedFiles(q) ==
  /\ IF orator \in ReadsAgain
     THEN orator' = "LOCAL_FILES" /\ Posts(q \o <<"local-files-done">>)
     ELSE Posts(q) /\ UNCHANGED orator
  /\ OratorRest /\ UNCHANGED <<requested, received, unlisted>>

(* Mutant: empty positions are not left out.                               *)
OfEveryPosition == SUBSET ToSet(suppliers)

(* The suppliers who may be online.                                        *)
OfOnline == SUBSET (ToSet(suppliers) \ {None})

(* doRequestRemoteFiles.                                                   *)
LocalFilesDone(q) ==
  /\ OratorRest
  /\ IF connected
     THEN /\ orator' = "REMOTE_FILES" /\ received' = FALSE
          /\ requested' \in OfOnline
          /\ unlisted' = FALSE /\ Posts(q)
     ELSE orator' = "NO_FILES" /\ Posts(q \o <<"NO_FILES">>) /\ UNCHANGED <<requested, received, unlisted>>

InboxFiles(q) ==
  /\ IF orator = "REMOTE_FILES" /\ requested = {}
     THEN orator' = "SAW_FILES" /\ Posts(q \o <<"SAW_FILES">>)
     ELSE Posts(q) /\ UNCHANGED orator
  /\ OratorRest /\ UNCHANGED <<requested, received, unlisted>>

TimerOrator ==
  /\ Quiet /\ orator = "REMOTE_FILES"
  /\ orator' = (IF received THEN "SAW_FILES" ELSE "NO_FILES") /\ Posts(<<orator'>>)
  /\ OratorRest /\ UNCHANGED <<requested, received, unlisted>>

(* IncomingSupplierListFiles: a list of files comes, also one that was     *)
(* requested long ago or not at all, but of a supplier only.               *)
ListFilesCame(u) ==
  /\ Quiet /\ u \in ToSet(suppliers) \ {None}
  /\ column' = ReadRawListFiles(u)
  /\ requested' = requested \ {u} /\ received' = TRUE
  /\ Posts(<<"inbox-files">>)
  /\ UNCHANGED <<hiring, monitor, orator, rebuilding, rebuilt, holds, connected, unlisted, troubles>>

-----------------------------------------------------------------------------
(* backup_rebuilder and data_sender.                                       *)

Outside == UNCHANGED <<hiring, monitor, orating, unlisted>>

RebuilderStart(q) ==
  /\ rebuilding' = TRUE /\ Posts(q)
  /\ Outside /\ UNCHANGED <<rebuilt, matrix, connected, troubles>>

RebuilderEnded ==
  /\ Quiet /\ rebuilding /\ rebuilding' = FALSE /\ Posts(<<"rebuilder-ended">>)
  /\ Outside /\ UNCHANGED <<rebuilt, matrix, connected, troubles>>

RestartAfterRebuild ==
  /\ Quiet /\ rebuilt /\ rebuilt' = FALSE /\ Posts(<<"restart">>)
  /\ Outside /\ UNCHANGED <<rebuilding, matrix, connected, troubles>>

(* The piece is sent to a supplier who is not known to have it.            *)
PieceStored(i) ==
  /\ Quiet /\ SupplierAt(i) # None /\ column[i] = 0
  /\ column' = [column EXCEPT ![i] = 1] /\ holds' = holds \cup {suppliers[i]}
  /\ Outside /\ UNCHANGED <<rebuilding, rebuilt, connected, queue, troubles>>

-----------------------------------------------------------------------------
(* fire_hire, the network and the user.                                    *)

Trouble(what) == troubles[what] < MaxTrouble[what] /\ troubles' = [troubles EXCEPT ![what] = @ + 1]
NotHiring == UNCHANGED <<monitor, orating, rebuilding, rebuilt, matrix, connected>>

Hires ==
  /\ Quiet /\ NotHiring /\ UNCHANGED queue
  /\ \/ (Start \/ EndFinished \/ (UNCHANGED suppliers /\ EndChanged)) /\ UNCHANGED <<unlisted, troubles>>
     \/ Change /\ Trouble("change") /\ unlisted' = TRUE
     \/ (EndFailed \/ Ask) /\ Trouble("else") /\ UNCHANGED unlisted

MonitorHears == Take /\ Posts(Append(queue, Head(reports))) /\ NotHiring /\ UNCHANGED <<unlisted, troubles>>

RestartAsked ==
  /\ Quiet /\ Trouble("else") /\ Posts(<<"restart">>)
  /\ Outside /\ UNCHANGED <<rebuilding, rebuilt, matrix, connected>>

(* p2p_connector, which restarts both when it is CONNECTED again.          *)
Disconnected ==
  /\ Quiet /\ connected /\ connected' = FALSE /\ Trouble("else")
  /\ Outside /\ UNCHANGED <<rebuilding, rebuilt, matrix, queue>>

Reconnected ==
  /\ Quiet /\ ~ connected /\ connected' = TRUE
  /\ FireHireRestart /\ Posts(<<"restart">>)
  /\ UNCHANGED <<monitor, orating, rebuilding, rebuilt, matrix, unlisted, troubles>>

HandleEvent ==
  /\ queue # <<>> /\ reports = <<>>
  /\ LET e == Head(queue)  q == Tail(queue)
     IN  CASE e = "need-files" -> NeedFiles(q)
           [] e = "local-files-done" -> LocalFilesDone(q)
           [] e = "inbox-files" -> InboxFiles(q)
           [] e = "start" -> RebuilderStart(q)
           [] OTHER -> MonitorEvent(e, q)

Init ==
  /\ HiringInit /\ ~ asked
  /\ state = "READY" /\ restartAgain = FALSE /\ currentSuppliers = <<>>
  /\ orator = "NO_FILES" /\ requested = {} /\ received = FALSE
  /\ rebuilding = FALSE /\ rebuilt = FALSE
  /\ column = [i \in DOMAIN suppliers |-> IF suppliers[i] = None THEN 0 ELSE 1]
  /\ holds = ToSet(suppliers) \ {None}
  /\ connected = TRUE /\ queue = <<"restart">> /\ unlisted = TRUE
  /\ troubles = [what \in {"change", "else"} |-> 0]

Next ==
  \/ HandleEvent \/ TimerMonitor \/ TimerOrator \/ RebuilderEnded \/ RestartAfterRebuild
  \/ Hires \/ MonitorHears \/ RestartAsked \/ Disconnected \/ Reconnected
  \/ \E u \in ToSet(suppliers) : ListFilesCame(u)
  \/ \E i \in DOMAIN column : PieceStored(i)

Spec == Init /\ [][Next]_vars

(* Events are handled, cycles of fire_hire end, timers fire and the        *)
(* network comes back, although what comes from outside waits for the      *)
(* events that wait.  A rebuilding may last for ever, a supplier may never *)
(* answer.                                                                 *)
Fairness ==
  /\ WF_vars(HandleEvent) /\ WF_vars(MonitorHears)
  /\ SF_vars(TimerOrator) /\ SF_vars(TimerMonitor) /\ SF_vars(Reconnected)
  /\ SF_vars(Hires /\ (Start \/ EndChanged \/ EndFinished))

FairSpec == Spec /\ Fairness

-----------------------------------------------------------------------------
(* Those who may be suppliers some time.                                   *)
Users == (UNION {ToSet(l) : l \in Lists}) \ {None}

TypeOK ==
  /\ state \in {"READY", "FIRE_HIRE", "LIST_FILES", "LIST_BACKUPS", "REBUILDING"}
  /\ restartAgain \in BOOLEAN /\ currentSuppliers \in Lists \cup {<<>>}
  /\ orator \in {"NO_FILES", "LOCAL_FILES", "REMOTE_FILES", "SAW_FILES"}
  /\ requested \subseteq Users /\ received \in BOOLEAN
  /\ rebuilding \in BOOLEAN /\ rebuilt \in BOOLEAN /\ connected \in BOOLEAN /\ unlisted \in BOOLEAN
  /\ column \in Seq({0, 1}) /\ holds \subseteq Users
  /\ suppliers \in Lists /\ DOMAIN troubles = DOMAIN MaxTrouble

(* The monitor never waits for a machine that has nothing to tell it.      *)
Coming(events) == ToSet(queue) \cap events # {}
Awaits ==
  /\ state = "FIRE_HIRE" => busy \/ asked \/ reports # <<>> \/ Coming(EndsOfHiring)
  /\ state = "LIST_FILES" =>
       orator \in {"LOCAL_FILES", "REMOTE_FILES"} \/ Coming({"need-files", "NO_FILES", "SAW_FILES"})
  /\ state = "LIST_BACKUPS" => Coming({"list-backups-done"})
  /\ state = "REBUILDING" => rebuilding \/ Coming({"start", "rebuilder-ended"})

(* After fire_hire has changed suppliers, files are requested of those     *)
(* that are there, unless a rebuilding lasts for ever.                     *)
Relisted == [](unlisted => <>(~ unlisted \/ [](state = "REBUILDING")))
=============================================================================
