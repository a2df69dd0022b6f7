------------------------------ MODULE FireHire ------------------------------
(***************************************************************************)
(* customer/fire_hire.py, which fires and hires suppliers, with the search *)
(* for a new one (customer/supplier_finder.py), a connector for each user  *)
(* (ConnectorEvents) and the list of suppliers (contacts/contactsdb.py).   *)
(*                                                                         *)
(* Events that the machines post to each other go through the reactor, in  *)
(* order.  Answers of other users, lookups in the DHT and timers come at   *)
(* any time; timers of ten seconds and more only find the reactor idle.    *)
(* needed-space is not kept: a change of it makes the configuration differ *)
(* from the saved one.  service_backups is on.                             *)
(***************************************************************************)
EXTENDS ConnectorEvents, SupplierLists, FiniteSets

CONSTANTS
  User,               \* who is, was or may become a supplier
  Numbers,            \* suppliers-number: what the user may ask for
  CorrectableErrors,  \* of the error-correcting code for that number
  FirstSuppliers,     \* lists of suppliers at the start
  FirstNumber,        \* suppliers-number at the start
  MaxAttempts,        \* of the finder, 5 in the code
  MaxWaiting,         \* bound: events that wait when something comes from outside
  MaxTrouble          \* bound of what users, the API and the settings ask

ASSUME NumbersAssumption ==
  /\ IsFiniteSet(User) /\ None \notin User
  /\ Numbers \subseteq Nat \ {0} /\ CorrectableErrors \in [Numbers -> Nat]
  /\ FirstNumber \in Numbers /\ FirstSuppliers \subseteq Seq(User \cup {None})
  /\ MaxAttempts \in Nat \ {0} /\ MaxWaiting \in Nat /\ MaxTrouble \in Nat

VARIABLES
  state, needRestart, configs,  \* configs: the number saved, 0 if it must differ
  connectList,                  \* kept while it is read, in SUPPLIERS?
  dismissList,
  dismissResults,               \* its length, kept in FIRE_MANY
  restartTask,                  \* a restart is scheduled
  finder,                       \* [state, target, attempts]; AT_STARTUP: none
  sc,                           \* connectors: [state, leaving]; CLOSED: none
  listening,                    \* who has a callback in the connector
  suppliers, desired,
  toFire, toHire,               \* _SuppliersToFire, _SuppliersToHire
  queue,                        \* of the reactor
  reports,                      \* to backup_monitor
  changed,                      \* what this cycle has done to the list (auxiliary)
  troubles

lists == <<connectList, dismissList, dismissResults>>
asked == <<toFire, toHire, desired>>
vars == <<state, needRestart, configs, lists, restartTask, finder, sc, listening,
          suppliers, asked, queue, reports, changed, troubles>>

-----------------------------------------------------------------------------
(* Events.                                                                 *)

Hire(e, who) == [to |-> "fire_hire", event |-> e, who |-> who]
Find(e) == [to |-> "supplier_finder", event |-> e, who |-> <<>>]
Tell(u, e) == [to |-> "supplier_connector", event |-> e, who |-> <<u>>]

Restart == Hire("restart", <<>>)
Posts(q) == queue' = q
CanCome == Len(queue) <= MaxWaiting
Queued(e) == CanCome /\ queue' = Append(queue, e)

Mine == ToSet(suppliers) \ {None}
Exists(u) == sc[u].state # "CLOSED"
Existing == {u \in User : Exists(u)}

(* GoDisconnect is set again before it is read in another state.           *)
Connector(s, go) == [state |-> s, leaving |-> go /\ s \in {"REQUEST", "QUEUE?"}]
New == Connector("DISCONNECTED", FALSE)

(* supplier_connector.create for those who have none.                      *)
Created(S) == [u \in User |-> IF u \in S /\ ~ Exists(u) THEN New ELSE sc[u]]
Listening(S, who) == [u \in User |-> listening[u] \cup IF u \in S THEN {who} ELSE {}]

(* events posted to each of a list of users.                               *)
TellAll(list, e) == [i \in DOMAIN list |-> Tell(list[i], e)]

-----------------------------------------------------------------------------
(* supplier_connector.                                                     *)

(* What the callbacks of fire_hire and supplier_finder post.               *)
Counted(u) ==
  /\ "fire_hire" \in listening[u]
  /\ state = "FIRE_MANY" \/ (state = "SUPPLIERS?" /\ u \in connectList)

FindsOut(u) == "supplier_finder" \in listening[u] /\ finder.target = u

FoundOne(u, s) ==
  CASE FindsOut(u) /\ s # "CONNECTED" -> <<Find("supplier-not-connected")>>
    [] FindsOut(u) /\ s = "CONNECTED" /\ u \notin Mine -> <<Find("supplier-connected")>>
    [] OTHER -> <<>>

(* The connector of u handles e: its callbacks run when it reports, that   *)
(* of fire_hire only once.                                                 *)
ConnectorEvent(u, e, q) ==
  LET h == Handles(sc[u].state, sc[u].leaving, e)
  IN  /\ sc' = [sc EXCEPT ![u] = Connector(h.state, h.leaving)]
      /\ listening' = [listening EXCEPT ![u] =
           CASE h.state = "CLOSED" -> {} [] h.reports -> @ \ {"fire_hire"} [] OTHER -> @]
      /\ IF h.reports /\ Counted(u)
         THEN /\ connectList' = connectList \ (IF state = "SUPPLIERS?" THEN {u} ELSE {})
              /\ dismissResults' = dismissResults + (IF state = "FIRE_MANY" THEN 1 ELSE 0)
         ELSE UNCHANGED <<connectList, dismissResults>>
      /\ Posts(IF ~ h.reports THEN q
               ELSE q \o (IF Counted(u) THEN <<Hire("supplier-state-changed", <<u>>)>> ELSE <<>>)
                      \o FoundOne(u, h.state))
      /\ UNCHANGED <<state, needRestart, configs, dismissList, restartTask, finder, suppliers,
                     asked, reports>>

-----------------------------------------------------------------------------
(* fire_hire: conditions.                                                  *)

IsMoreNeeded(dismissed) ==
  None \in ToSet(suppliers) \/ Cardinality(Mine \ ToSet(dismissed)) < desired

FirstOnes == SubSeq(suppliers, 1, IF Len(suppliers) < desired THEN Len(suppliers) ELSE desired)

IsStillNeeded(u) ==
  LET empty == Cardinality({i \in DOMAIN FirstOnes : FirstOnes[i] = None})
  IN  u \in Mine \/ Cardinality((ToSet(FirstOnes) \cup {u}) \ ToSet(dismissList)) - empty < desired

IsConfigChanged == configs # desired

-----------------------------------------------------------------------------
(* fire_hire: actions.                                                     *)

(* doDecideToDismiss: the suppliers that may be dismissed when those are   *)
(* offline, and those are still asked whether they are online.             *)
Redundant == {suppliers[i] : i \in desired + 1 .. Len(suppliers)} \ {None}
InState(S) == {u \in Mine : sc[u].state \in S}

Decisions(offline, checking) ==
  LET known == Mine \cap Existing
  IN  CASE \/ None \in ToSet(suppliers) \/ InState({"CONNECTED"}) = {}
           \/ known \ (offline \cup checking) = {} \/ checking # {} -> {<<>>}
        [] OTHER ->
           CASE Redundant # {} -> SetToSeqs(Redundant)
             [] /\ Redundant = {} /\ InState({"NO_SERVICE"}) # {}
                /\ Cardinality(known) = desired
                /\ Cardinality(offline) <= CorrectableErrors[desired]
                  -> {<<u>> : u \in InState({"NO_SERVICE"})}
             [] OTHER -> {<<>>}

DecideToDismiss(q) ==
  /\ toFire' = {} /\ UNCHANGED <<toHire, desired>>
  /\ \E dismissed \in
       IF toFire # {} THEN SetToSeqs(toFire)
       ELSE UNION {Decisions(p[1], p[2]) :
              p \in {o \in (SUBSET (Mine \cap Existing)) \X (SUBSET (Mine \cap Existing)) :
                       o[1] \cap o[2] = {}}} :
       Posts(q \o <<Hire("made-decision", dismissed)>>)

ScheduleNextRestart == restartTask' = TRUE

(* doSubstituteSupplier: the first empty or dismissed position, or one     *)
(* more.                                                                   *)
Substituted(u) ==
  LET free == {i \in DOMAIN suppliers : suppliers[i] \in ToSet(dismissList) \cup {None}}
  IN  IF free = {} THEN Append(suppliers, u)
      ELSE [suppliers EXCEPT ![CHOOSE i \in free : \A j \in free : i <= j] = u]

(* Mutant: only what is beyond the number that is desired.                 *)
OnlyShortened(dismissed) == FirstOnes

(* doRemoveSuppliers, and what is beyond the number that is desired.       *)
Removed(dismissed) ==
  [i \in DOMAIN FirstOnes |-> IF FirstOnes[i] \in ToSet(dismissed) THEN None ELSE FirstOnes[i]]

(* doDisconnectSuppliers.                                                  *)
DisconnectSuppliers(dismissed, q) ==
  /\ dismissResults' = 0
  /\ listening' = Listening(ToSet(dismissed) \cap Existing, "fire_hire")
  /\ Posts(q \o TellAll(Among(dismissed, Existing), "disconnect"))

(* doCloseConnectors removes from the list that it goes through.           *)
EveryOther(list) == Among([i \in DOMAIN list |-> IF i % 2 = 1 THEN list[i] ELSE None], Existing)

(* doNotifySuppliersChanged, doNotifyFinished, and state_changed in READY. *)
Ready(report, q) ==
  /\ state' = "READY" /\ reports' = Append(reports, report) /\ dismissResults' = 0
  /\ Posts(q \o <<Hire("instant", <<>>)>>)

-----------------------------------------------------------------------------
(* fire_hire: events.                                                      *)

RestartInReady(q) ==
  /\ needRestart' = FALSE
  /\ IF IsConfigChanged /\ Mine # {}
     THEN /\ state' = "SUPPLIERS?" /\ configs' = desired
          /\ connectList' = Mine /\ sc' = Created(Mine) /\ listening' = Listening(Mine, "fire_hire")
          /\ Posts(q \o TellAll(Among(suppliers, Mine), "connect"))
          /\ UNCHANGED <<asked, dismissList, dismissResults>>
     ELSE /\ state' = "DECISION?" /\ DecideToDismiss(q)
          /\ UNCHANGED <<configs, lists, sc, listening>>
  /\ UNCHANGED <<restartTask, finder, suppliers, reports>>

(* Mutant: a restart in the middle of a cycle is forgotten.                *)
RestartForgotten(q) ==
  /\ Posts(q)
  /\ UNCHANGED <<state, needRestart, configs, lists, restartTask, finder, sc, listening, suppliers, asked, reports>>

RestartLater(q) ==
  /\ needRestart' = TRUE /\ Posts(q)
  /\ UNCHANGED <<state, configs, lists, restartTask, finder, sc, listening, suppliers, asked, reports>>

Ignored(q) ==
  /\ Posts(q)
  /\ UNCHANGED <<state, needRestart, configs, lists, restartTask, finder, sc, listening,
                 suppliers, asked, reports>>

MadeDecision(dismissed, q) ==
  /\ UNCHANGED <<needRestart, configs, connectList, restartTask, finder, sc, asked>>
  /\ IF IsMoreNeeded(dismissed)
     THEN /\ state' = "HIRE_ONE" /\ dismissList' = dismissed /\ Posts(q \o <<Find("start")>>)
          /\ UNCHANGED <<dismissResults, listening, suppliers, reports>>
     ELSE IF dismissed # <<>>
     THEN /\ state' = "FIRE_MANY" /\ dismissList' = dismissed
          /\ suppliers' = Removed(dismissed)
          /\ DisconnectSuppliers(dismissed, q)
          /\ UNCHANGED reports
     ELSE /\ Ready("fire-hire-finished", q)
          /\ UNCHANGED <<dismissList, listening, suppliers>>

(* A new supplier: "already supplier" is raised for one of the list.       *)
SupplierConnected(u, q) ==
  /\ u \notin Mine
  /\ suppliers' = Substituted(u)
  /\ UNCHANGED <<needRestart, configs, connectList, dismissList, restartTask, finder, sc, asked>>
  /\ IF IsStillNeeded(u)
     THEN Posts(q \o <<Find("start")>>) /\ UNCHANGED <<state, dismissResults, listening, reports>>
     ELSE IF dismissList # <<>>
     THEN /\ state' = "FIRE_MANY" /\ DisconnectSuppliers(dismissList, q)
          /\ UNCHANGED reports
     ELSE Ready("suppliers-changed", q) /\ UNCHANGED listening

SearchFailed(q) ==
  /\ ScheduleNextRestart
  /\ UNCHANGED <<needRestart, configs, connectList, dismissList, finder, sc, asked, reports>>
  /\ IF dismissList = <<>>
     THEN /\ state' = "READY" /\ Posts(q \o <<Hire("instant", <<>>)>>)
          /\ UNCHANGED <<dismissResults, listening, suppliers>>
     ELSE /\ state' = "FIRE_MANY" /\ suppliers' = Removed(dismissList)
          /\ DisconnectSuppliers(dismissList, q)

ClearDismissList == dismissList' = <<>>

(* doCloseConnector.  It would raise if there were no connector, but one   *)
(* that is closed reports nothing.                                         *)
DismissedReported(u, q) ==
  /\ UNCHANGED <<needRestart, configs, connectList, restartTask, finder, sc, listening, suppliers, asked>>
  /\ Exists(u)
  /\ IF Len(dismissList) = dismissResults
     THEN ClearDismissList /\ Ready("suppliers-changed", q \o <<Tell(u, "shutdown")>>)
     ELSE /\ dismissList' = Among(dismissList, User \ {u})
          /\ Posts(q \o <<Tell(u, "shutdown")>>)
          /\ UNCHANGED <<state, reports, dismissResults>>

(* A supplier of SUPPLIERS? has answered.                                  *)
ConnectReported(q) ==
  /\ IF connectList = {} THEN state' = "DECISION?" /\ DecideToDismiss(q)
     ELSE Posts(q) /\ UNCHANGED <<state, asked>>
  /\ UNCHANGED <<needRestart, configs, lists, restartTask, finder, sc, listening, suppliers, reports>>

(* fire_hire, event by event.                                              *)
FireHireEvent(e, who, q) ==
  CASE e = "restart" /\ state = "READY" -> RestartInReady(q)
    [] e = "instant" /\ state = "READY" /\ needRestart -> RestartInReady(q)
    [] e = "restart" /\ state # "READY" -> RestartLater(q)
    [] e = "made-decision" /\ state = "DECISION?" -> MadeDecision(who, q)
    [] e = "supplier-connected" /\ state = "HIRE_ONE" /\ who[1] \notin Mine -> SupplierConnected(who[1], q)
    [] e = "search-failed" /\ state = "HIRE_ONE" -> SearchFailed(q)
    [] e = "supplier-state-changed" /\ state = "FIRE_MANY" -> DismissedReported(who[1], q)
    [] e = "supplier-state-changed" /\ state = "SUPPLIERS?" -> ConnectReported(q)
    [] OTHER -> Ignored(q)

TimerFireHire ==
  /\ queue = <<>> /\ reports = <<>>
  /\ \/ /\ state = "FIRE_MANY"
        /\ ClearDismissList
        /\ Ready("suppliers-changed", TellAll(EveryOther(dismissList), "shutdown"))
        /\ changed' = "nothing" /\ UNCHANGED <<asked, connectList>>
     \/ /\ state = "SUPPLIERS?"
        /\ state' = "DECISION?" /\ connectList' = {} /\ DecideToDismiss(<<>>)
        /\ UNCHANGED <<dismissList, dismissResults, reports, changed>>
  /\ UNCHANGED <<needRestart, configs, restartTask, finder, sc, listening,
                 suppliers, troubles>>

-----------------------------------------------------------------------------
(* supplier_finder.                                                        *)

NoFinder == [state |-> "AT_STARTUP", target |-> None, attempts |-> 0]

(* Nobody listens to the connector of the target any more.                 *)
Forgets == [u \in User |-> IF u = finder.target THEN listening[u] \ {"supplier_finder"} ELSE listening[u]]

(* Mutant: nobody is told that the search is over.                         *)
FailedSilently(q) ==
  /\ finder' = NoFinder /\ listening' = Forgets
  /\ Posts(q)
  /\ UNCHANGED <<sc, toHire>>

Failed(q) ==
  /\ finder' = NoFinder /\ listening' = Forgets
  /\ Posts(q \o <<Hire("search-failed", <<>>)>>)
  /\ UNCHANGED <<sc, toHire>>

Finder(s) == finder' = [finder EXCEPT !.state = s]

FinderStart(q) ==
  /\ IF toHire = <<>>
     THEN finder' = [NoFinder EXCEPT !.state = "RANDOM_USER"] /\ UNCHANGED toHire
     ELSE /\ finder' = [state |-> "ACK?", target |-> Last(toHire), attempts |-> 1]
          /\ toHire' = Front(toHire)
  /\ Posts(q) /\ UNCHANGED <<sc, listening>>

(* Mutant: one attempt more.                                               *)
OneMoreAttempt(q) ==
  IF finder.attempts <= MaxAttempts
  THEN Finder("RANDOM_USER") /\ Posts(q) /\ UNCHANGED <<sc, listening, toHire>>
  ELSE Failed(q)

(* Five attempts at most, each with another user.                          *)
NextAttempt(q) ==
  IF finder.attempts < MaxAttempts
  THEN Finder("RANDOM_USER") /\ Posts(q) /\ UNCHANGED <<sc, listening, toHire>>
  ELSE Failed(q)

FinderEvent(e, q) ==
  /\ CASE e = "start" /\ finder.state = "AT_STARTUP" -> FinderStart(q)
       [] e = "supplier-connected" /\ finder.state = "SERVICE?" ->
            /\ finder' = NoFinder /\ listening' = Forgets
            /\ Posts(q \o <<Hire("supplier-connected", <<finder.target>>)>>)
            /\ UNCHANGED <<sc, toHire>>
       [] e = "supplier-not-connected" /\ finder.state = "SERVICE?" -> NextAttempt(q)
       [] OTHER -> Posts(q) /\ UNCHANGED <<finder, sc, listening, toHire>>
  /\ UNCHANGED <<state, needRestart, configs, lists, restartTask, suppliers, toFire, desired, reports>>

FinderRest == UNCHANGED <<state, needRestart, configs, lists, restartTask, suppliers, toFire, desired,
                          reports, changed, troubles>>

(* The DHT gives a user, who may be a supplier, or gives none.             *)
UserFound(u) ==
  /\ CanCome /\ finder.state = "RANDOM_USER"
  /\ finder' = [state |-> "ACK?", target |-> u, attempts |-> finder.attempts + 1]
  /\ listening' = Forgets
  /\ FinderRest /\ UNCHANGED <<sc, toHire, queue>>

UsersNotFound == CanCome /\ finder.state = "RANDOM_USER" /\ Failed(queue) /\ FinderRest

(* He acknowledges the identity: doSupplierConnect.                        *)
TargetAcked ==
  /\ finder.state = "ACK?"
  /\ Finder("SERVICE?")
  /\ sc' = Created({finder.target}) /\ listening' = Listening({finder.target}, "supplier_finder")
  /\ Queued(Tell(finder.target, "connect"))
  /\ FinderRest /\ UNCHANGED toHire

TimerFinder == queue = <<>> /\ finder.state \in {"ACK?", "SERVICE?"} /\ NextAttempt(<<>>) /\ FinderRest

-----------------------------------------------------------------------------
(* The reactor, and those outside.                                         *)

HandleEvent ==
  /\ queue # <<>> /\ reports = <<>>
  /\ LET e == Head(queue)  q == Tail(queue)
     IN  /\ CASE e.to = "fire_hire" -> FireHireEvent(e.event, e.who, q)
              [] e.to = "supplier_finder" -> FinderEvent(e.event, q)
              [] e.to = "supplier_connector" -> ConnectorEvent(e.who[1], e.event, q)
         /\ changed' = IF state' = "READY" THEN "nothing" ELSE Effect(suppliers, suppliers', changed)
  /\ UNCHANGED troubles

(* The answer to a request, or its timer.                                  *)
ConnectorAnswered(u) ==
  /\ \/ CanCome /\ sc[u].state \in {"REQUEST", "REFUSE", "QUEUE?"}
        /\ \E e \in {"accepted", "other", "fail"} : ConnectorEvent(u, e, queue)
     \/ queue = <<>> /\ sc[u].state \in {"REQUEST", "REFUSE", "QUEUE?"} /\ ConnectorEvent(u, "timer", <<>>)
  /\ UNCHANGED <<changed, troubles>>

ScheduledRestart ==
  /\ restartTask /\ restartTask' = FALSE /\ Queued(Restart)
  /\ UNCHANGED <<state, needRestart, configs, lists, finder, sc, listening, suppliers, asked, reports,
                 changed, troubles>>

Trouble ==
  /\ troubles < MaxTrouble /\ troubles' = troubles + 1
  /\ UNCHANGED <<state, needRestart, lists, restartTask, finder, suppliers, reports, changed>>

(* Someone comes online or goes offline, a file is refused.                *)
Unasked(u) ==
  /\ CanCome /\ sc[u].state \in {"CONNECTED", "DISCONNECTED", "NO_SERVICE"}
  /\ troubles < MaxTrouble /\ troubles' = troubles + 1
  /\ \E e \in {"connect", "fail"} : ConnectorEvent(u, e, queue)
  /\ UNCHANGED changed

(* backup_monitor, p2p_connector, a supplier that goes offline.            *)
RestartAsked == Trouble /\ Queued(Restart) /\ UNCHANGED <<configs, sc, listening, asked>>

(* service_employer: suppliers-number or needed-space was changed.         *)
ConfigModified(n) ==
  /\ Trouble /\ Queued(Restart)
  /\ desired' = n /\ configs' = (IF n = desired THEN 0 ELSE configs)
  /\ UNCHANGED <<sc, listening, toFire, toHire>>

(* api.supplier_replace for some suppliers, or api.supplier_change for     *)
(* one, with a user to take his place.                                     *)
SupplierReplace(S) ==
  /\ S # {} /\ S \subseteq Mine
  /\ Trouble /\ CanCome /\ Posts(queue \o [i \in 1 .. Cardinality(S) |-> Restart])
  /\ toFire' = toFire \cup S
  /\ \/ UNCHANGED toHire
     \/ Cardinality(S) = 1 /\ \E new \in User \ Mine : toHire' = Append(toHire, new)
  /\ UNCHANGED <<configs, sc, listening, desired>>

MonitorTakes ==
  /\ reports # <<>> /\ reports' = Tail(reports)
  /\ UNCHANGED <<state, needRestart, configs, lists, restartTask, finder, sc, listening, suppliers, asked,
                 queue, changed, troubles>>

Init ==
  /\ state = "READY" /\ needRestart = FALSE /\ configs = 0
  /\ connectList = {} /\ dismissList = <<>> /\ dismissResults = 0 /\ restartTask = FALSE
  /\ finder = NoFinder
  /\ suppliers \in FirstSuppliers
  /\ sc = [u \in User |-> IF u \in Mine THEN New ELSE Connector("CLOSED", FALSE)]
  /\ listening = [u \in User |-> {}]
  /\ desired = FirstNumber /\ toFire = {} /\ toHire = <<>>
  /\ queue = <<Restart>> /\ reports = <<>> /\ changed = "nothing" /\ troubles = 0

Next ==
  \/ HandleEvent \/ TimerFireHire \/ TimerFinder \/ UsersNotFound \/ TargetAcked
  \/ ScheduledRestart \/ RestartAsked \/ MonitorTakes
  \/ \E u \in User : ConnectorAnswered(u) \/ Unasked(u) \/ UserFound(u)
  \/ \E S \in SUBSET User : SupplierReplace(S)
  \/ \E n \in Numbers : ConfigModified(n)

Spec == Init /\ [][Next]_vars

-----------------------------------------------------------------------------
States == {"READY", "DECISION?", "HIRE_ONE", "FIRE_MANY", "SUPPLIERS?"}

TypeOK ==
  /\ state \in States /\ needRestart \in BOOLEAN /\ configs \in Numbers \cup {0}
  /\ connectList \subseteq User /\ dismissList \in Seq(User) /\ dismissResults \in Nat
  /\ restartTask \in BOOLEAN
  /\ finder \in [state : {"AT_STARTUP", "RANDOM_USER", "ACK?", "SERVICE?"},
                  target : User \cup {None}, attempts : 0 .. MaxAttempts]
  /\ sc \in [User -> [state : {"NO_SERVICE", "CONNECTED", "DISCONNECTED", "REQUEST", "REFUSE", "QUEUE?", "CLOSED"},
                      leaving : BOOLEAN]]
  /\ listening \in [User -> SUBSET {"fire_hire", "supplier_finder"}]
  /\ suppliers \in Seq(User \cup {None}) /\ desired \in Numbers
  /\ toFire \subseteq User /\ toHire \in Seq(User)
  /\ \A i \in DOMAIN queue : queue[i].to \in {"fire_hire", "supplier_finder", "supplier_connector"}
  /\ reports \in Seq({"suppliers-changed", "fire-hire-finished"}) /\ changed \in Effects

Abstract == INSTANCE Hiring WITH
  Lists <- Seq(User \cup {None}),
  busy <- state # "READY",
  asked <- restartTask \/ needRestart \/ (\E i \in DOMAIN queue : queue[i].event = "restart")

(* fire_hire keeps to Hiring, which is all that BackupMonitor knows of it: *)
(* suppliers change only in a cycle that a restart has asked for, a cycle  *)
(* that says 'fire-hire-finished' has changed nothing, and one that says   *)
(* nothing has taken nobody's place and is followed by another.            *)
Promise == Abstract!HiringSpec

(* Who has the search for one supplier in hand: the finder, from 'start'   *)
(* to his last answer, or an event between the two machines.               *)
Search(m) ==
  \/ m.to = "supplier_finder" /\ m.event = "start"
  \/ m.to = "fire_hire" /\ m.event \in {"supplier-connected", "search-failed"}

Deciding == \E i \in DOMAIN queue : queue[i].event = "made-decision"
Searching == finder.state # "AT_STARTUP" \/ \E i \in DOMAIN queue : Search(queue[i])

(* The event that fire_hire handles names a supplier it has: the finder    *)
(* took an answer of the user it asked before for that of the next one.    *)
NamesSupplier ==
  /\ queue # <<>> /\ Head(queue).to = "fire_hire"
  /\ Head(queue).event = "supplier-connected" /\ Head(queue).who[1] \in Mine

(* fire_hire does not come to wait for what cannot come: in DECISION? its  *)
(* decision is under way, in HIRE_ONE a search is, or its result; the      *)
(* other states have a timer.  There is one exception, and no other: the   *)
(* event that is handled names someone who is a supplier already.  Then    *)
(* doSubstituteSupplier raises, and nobody is told to search.              *)
Awaited ==
  [][/\ state' = "DECISION?" => Deciding'
     /\ state' = "HIRE_ONE" /\ ~ Searching' => NamesSupplier \/ (state = "HIRE_ONE" /\ ~ Searching)]_vars

(* Who is told that he is dismissed has no place in the list any more,     *)
(* unless there were more suppliers than are desired now.                  *)
Replaced ==
  [][state # "FIRE_MANY" /\ state' = "FIRE_MANY" /\ Len(suppliers') <= desired
       => ToSet(dismissList') \cap {suppliers'[i] : i \in DOMAIN suppliers'} = {}]_vars
=============================================================================
