------------------------- MODULE MonitorRestore_proofs -------------------------
(***************************************************************************)
(* Theorems about the maintenance cycle, for any lists of suppliers: the   *)
(* type invariant, and that backup_monitor never waits for a machine that  *)
(* has nothing to tell it.                                                 *)
(*                                                                         *)
(* Theorems about a restore, for any number of suppliers, map of parities, *)
(* number of blocks and bounds: the type invariant, with what the counter  *)
(* of the data receiver may be too high by, and what a restore that ends   *)
(* has written and leaves behind.                                          *)
(***************************************************************************)
EXTENDS BackupMonitor, RestoreWorker, FiniteSetTheorems, SequenceTheorems, WellFoundedInduction, TLAPS

Event == {"restart", "instant", "timer-5sec", "suppliers-changed", "fire-hire-finished",
          "NO_FILES", "SAW_FILES", "list-backups-done", "start", "rebuilder-ended",
          "need-files", "local-files-done", "inbox-files"}

(* What waits in the reactor and what fire_hire has to say.                *)
Events == queue \in Seq(Event) /\ reports \in Seq(EndsOfHiring)

MonitorInv == TypeOK /\ Awaits /\ Events

(* The first event is taken from the queue, and those of m are posted.     *)
LEMMA Consume ==
  ASSUME NEW q \in Seq(Event), q # <<>>, NEW m \in Seq(Event), NEW r, r = Tail(q) \o m
  PROVE  /\ r \in Seq(Event) /\ Head(q) \in Event
         /\ ToSet(r) = ToSet(Tail(q)) \cup ToSet(m)
         /\ ToSet(q) \subseteq ToSet(Tail(q)) \cup {Head(q)}
<1>1. /\ Tail(q) \in Seq(Event) /\ Len(Tail(q)) = Len(q) - 1 /\ Head(q) = q[1]
      /\ \A i \in 1..Len(Tail(q)) : Tail(q)[i] = q[i + 1]
  BY HeadTailProperties
<1>2. ToSet(r) = ToSet(Tail(q)) \cup ToSet(m)
  <2>1. r \in Seq(Event) /\ DOMAIN r = 1..(Len(Tail(q)) + Len(m)) /\ DOMAIN m = 1..Len(m)
    BY <1>1, ConcatProperties, LenProperties
  <2>2. \A i \in 1..Len(Tail(q)) : r[i] = Tail(q)[i]
    BY <1>1, ConcatProperties
  <2>3. \A i \in 1..Len(m) : r[Len(Tail(q)) + i] = m[i] /\ Len(Tail(q)) + i \in DOMAIN r
    BY <1>1, <2>1, ConcatProperties
  <2>4. \A i \in DOMAIN r : i \in 1..Len(Tail(q)) \/ (i - Len(Tail(q)) \in 1..Len(m) /\ r[i] = m[i - Len(Tail(q))])
    BY <1>1, <2>1, <2>3
  <2>5. DOMAIN Tail(q) = 1..Len(Tail(q)) /\ DOMAIN Tail(q) \subseteq DOMAIN r
    BY <1>1, <2>1, LenProperties
  <2>6. \A i \in DOMAIN r : r[i] \in ToSet(Tail(q)) \cup ToSet(m)
    BY <2>1, <2>2, <2>4, <2>5 DEF ToSet
  <2>7. \A i \in DOMAIN Tail(q) : Tail(q)[i] \in ToSet(r)
    BY <2>2, <2>5 DEF ToSet
  <2>8. \A i \in DOMAIN m : m[i] \in ToSet(r)
    BY <2>1, <2>3 DEF ToSet
  <2> HIDE DEF Event
  <2>9. ASSUME NEW x \in ToSet(r) PROVE x \in ToSet(Tail(q)) \cup ToSet(m)
    <3>1. \E i \in DOMAIN r : x = r[i]
      BY DEF ToSet
    <3> QED BY <2>6, <3>1
  <2>10. ASSUME NEW x \in ToSet(Tail(q)) PROVE x \in ToSet(r)
    <3>1. \E i \in DOMAIN Tail(q) : x = Tail(q)[i]
      BY DEF ToSet
    <3> QED BY <2>7, <3>1
  <2>11. ASSUME NEW x \in ToSet(m) PROVE x \in ToSet(r)
    <3>1. \E i \in DOMAIN m : x = m[i]
      BY DEF ToSet
    <3> QED BY <2>8, <3>1
  <2> QED BY <2>9, <2>10, <2>11
<1>3. ToSet(q) \subseteq ToSet(Tail(q)) \cup {Head(q)}
  <2>1. ASSUME NEW i \in 1..Len(q), i # 1 PROVE i - 1 \in 1..Len(Tail(q)) /\ Tail(q)[i - 1] = q[i]
    BY <1>1, <2>1
  <2>2. DOMAIN q = 1..Len(q) /\ DOMAIN Tail(q) = 1..Len(Tail(q))
    BY <1>1, LenProperties
  <2>3. ASSUME NEW i \in DOMAIN q PROVE q[i] = Head(q) \/ \E j \in DOMAIN Tail(q) : q[i] = Tail(q)[j]
    BY <1>1, <2>1, <2>2
  <2> QED BY <2>3 DEF ToSet
<1> QED BY <1>1, <1>2, <1>3

LEMMA PostedEvent ==
  ASSUME NEW S, NEW q \in Seq(S), NEW e \in S
  PROVE  /\ Append(q, e) \in Seq(S) /\ Append(q, e) # <<>>
         /\ ToSet(Append(q, e)) = ToSet(q) \cup {e}
<1>1. /\ Append(q, e) \in Seq(S) /\ Len(Append(q, e)) = Len(q) + 1
      /\ \A i \in 1..Len(q) : Append(q, e)[i] = q[i]
      /\ Append(q, e)[Len(q) + 1] = e
  BY AppendProperties
<1> QED BY <1>1 DEF ToSet

LEMMA OneEvent ==
  ASSUME NEW e \in Event
  PROVE  <<e>> \in Seq(Event) /\ ToSet(<<e>>) = {e} /\ <<e>> # <<>>
BY DEF ToSet

-----------------------------------------------------------------------------
(* Types.                                                                  *)

LEMMA InitType == Init => TypeOK /\ Events
<1> SUFFICES ASSUME Init PROVE TypeOK /\ Events
  OBVIOUS
<1>1. suppliers \in Lists /\ suppliers \in Seq(UNION {ToSet(l) : l \in Lists})
  BY ListsAssumption DEF Init, HiringInit
<1>2. column \in Seq({0, 1})
  <2>1. DOMAIN suppliers = 1..Len(suppliers) /\ Len(suppliers) \in Nat
    BY <1>1, LenProperties
  <2> QED BY <2>1 DEF Init
<1>3. queue \in Seq(Event) /\ reports \in Seq(EndsOfHiring)
  BY OneEvent, EmptySeq DEF Init, HiringInit, Event
<1>4. holds \subseteq Users
  BY <1>1 DEF Init, Users
<1> QED
  BY <1>1, <1>2, <1>3, <1>4, TroubleAssumption DEF Init, TypeOK, Events, HiringInit

(* The matrix and the lists stay well typed in each action that changes    *)
(* them.                                                                   *)
Column == column \in Seq({0, 1})

LEMMA ColumnTypes ==
  ASSUME TypeOK
  PROVE  /\ \A S : ClearSupplierRemoteInfo(S) \in Seq({0, 1})
         /\ \A u : ReadRawListFiles(u) \in Seq({0, 1})
         /\ \A i \in DOMAIN column : [column EXCEPT ![i] = 1] \in Seq({0, 1})
         /\ Zeros(Len(suppliers)) \in Seq({0, 1})
         /\ \A i : SupplierAt(i) # None => i \in DOMAIN suppliers /\ suppliers[i] \in Users
         /\ ToSet(suppliers) \ {None} \subseteq Users
<1>1. /\ column \in Seq({0, 1}) /\ DOMAIN column = 1..Len(column) /\ Len(column) \in Nat
      /\ \A i \in DOMAIN column : column[i] \in {0, 1}
  BY LenProperties DEF TypeOK
<1>2. suppliers \in Lists /\ suppliers \in Seq(UNION {ToSet(l) : l \in Lists}) /\ Len(suppliers) \in Nat
  BY ListsAssumption, LenProperties DEF TypeOK
<1>3. \A f : f \in [1..Len(column) -> {0, 1}] => f \in Seq({0, 1})
  BY <1>1
<1>4. /\ \A S : ClearSupplierRemoteInfo(S) \in [1..Len(column) -> {0, 1}]
      /\ \A u : ReadRawListFiles(u) \in [1..Len(column) -> {0, 1}]
      /\ \A i \in DOMAIN column : [column EXCEPT ![i] = 1] \in [1..Len(column) -> {0, 1}]
  BY <1>1 DEF ClearSupplierRemoteInfo, ReadRawListFiles
<1>5. Zeros(Len(suppliers)) \in Seq({0, 1})
  BY <1>2 DEF Zeros
<1>6. ToSet(suppliers) \ {None} \subseteq Users
  BY <1>2 DEF Users
<1>7. \A i \in DOMAIN suppliers : suppliers[i] \in ToSet(suppliers)
  BY DEF ToSet
<1> QED
  BY <1>3, <1>4, <1>5, <1>6, <1>7 DEF SupplierAt

LEMMA MonitorType ==
  ASSUME TypeOK, Events, queue # <<>>, reports = <<>>,
         MonitorEvent(Head(queue), Tail(queue))
  PROVE  TypeOK' /\ Events'
<1> DEFINE e == Head(queue)
           q == Tail(queue)
<1>1. \A r : r = q \/ (\E x \in Event : r = q \o <<x>>) => r \in Seq(Event)
  <2>1. q \in Seq(Event)
    BY HeadTailProperties DEF Events
  <2>2. \A x \in Event : q \o <<x>> \in Seq(Event)
    BY Consume, OneEvent DEF Events
  <2> QED BY <2>1, <2>2
<1>2. UNCHANGED <<orating, rebuilding, connected, unlisted, troubles>>
  BY DEF MonitorEvent
<1>3. /\ hiring' = hiring \/ Ask
      /\ UNCHANGED matrix \/ UpdateSuppliers
      /\ state' \in {"READY", "FIRE_HIRE", "LIST_FILES", "LIST_BACKUPS", "REBUILDING"}
      /\ restartAgain' \in BOOLEAN /\ rebuilt' \in BOOLEAN
      /\ currentSuppliers' \in {currentSuppliers, suppliers}
      /\ queue' = q \/ \E x \in Event : queue' = q \o <<x>>
  <2> HIDE DEF e, q
  <2>1. CASE state = "READY" /\ InReady(e, q)
    BY <2>1 DEF InReady, TypeOK, Posts, RememberSuppliers, FireHireRestart, NoHiring, monitor, matrix, Event, CheckUpRestarts
  <2>2. CASE state = "LIST_FILES" /\ InListFiles(e, q)
    BY <2>2 DEF InListFiles, TypeOK, Posts, Ready, RestartLater, NoHiring, monitor, matrix, Event, EndsOfListing
  <2>3. CASE state = "LIST_BACKUPS" /\ InListBackups(e, q)
    BY <2>3 DEF InListBackups, TypeOK, Posts, Ready, RestartLater, NoHiring, monitor, matrix, Event
  <2>4. CASE state = "REBUILDING" /\ InRebuilding(e, q)
    BY <2>4 DEF InRebuilding, TypeOK, Posts, Ready, FireHireRestart, NoHiring, monitor, matrix, Event
  <2>5. CASE state = "FIRE_HIRE" /\ InFireHire(e, q)
    BY <2>5 DEF InFireHire, TypeOK, Posts, RestartLater, RememberSuppliers, NoHiring, monitor, matrix, Event, EndsOfHiring
  <2> QED BY <2>1, <2>2, <2>3, <2>4, <2>5 DEF MonitorEvent, TypeOK, e, q
<1>4. queue' \in Seq(Event) /\ reports' = reports /\ suppliers' = suppliers
  BY <1>1, <1>3 DEF hiring, Ask
<1>5. column' \in Seq({0, 1}) /\ holds' \subseteq Users
  BY <1>3, ColumnTypes DEF UpdateSuppliers, matrix, TypeOK
<1>6. currentSuppliers' \in Lists \cup {<<>>}
  BY <1>3 DEF TypeOK
<1> QED
  BY <1>2, <1>3, <1>4, <1>5, <1>6 DEF TypeOK, Events, orating, Users

LEMMA HandleType ==
  ASSUME TypeOK, Events, HandleEvent
  PROVE  TypeOK' /\ Events'
<1> DEFINE e == Head(queue)
           q == Tail(queue)
<1>1. queue # <<>> /\ reports = <<>> /\ q \in Seq(Event)
  BY HeadTailProperties DEF HandleEvent, Events
<1>2. \A x \in {"local-files-done", "NO_FILES", "SAW_FILES"} : q \o <<x>> \in Seq(Event)
  <2>1. ASSUME NEW x \in Event PROVE q \o <<x>> \in Seq(Event)
    BY <1>1, Consume, OneEvent DEF Events
  <2> QED BY <2>1 DEF Event
<1>3. ToSet(suppliers) \ {None} \subseteq Users
  BY ColumnTypes
<1>4. CASE MonitorEvent(e, q)
  BY <1>1, <1>4, MonitorType
<1> HIDE DEF e, q
<1>5. CASE NeedFiles(q)
  <2>1. queue' \in Seq(Event)
    BY <1>1, <1>2, <1>5 DEF NeedFiles, Posts
  <2> QED
    BY <1>1, <1>5, <2>1 DEF NeedFiles, TypeOK, Events, OratorRest, hiring, monitor, matrix, Users
<1>6. CASE LocalFilesDone(q)
  <2>1. requested' \subseteq Users
    BY <1>3, <1>6 DEF LocalFilesDone, OfOnline, TypeOK
  <2>2. queue' \in Seq(Event)
    BY <1>1, <1>2, <1>6 DEF LocalFilesDone, Posts
  <2> QED
    BY <1>6, <2>1, <2>2 DEF LocalFilesDone, TypeOK, Events, OratorRest, hiring, monitor, matrix, Users
<1>7. CASE InboxFiles(q)
  <2>1. queue' \in Seq(Event)
    BY <1>1, <1>2, <1>7 DEF InboxFiles, Posts
  <2> QED
    BY <1>1, <1>7, <2>1 DEF InboxFiles, TypeOK, Events, OratorRest, hiring, monitor, matrix, Users
<1>8. CASE RebuilderStart(q)
  BY <1>1, <1>8 DEF RebuilderStart, TypeOK, Events, Posts, Outside, hiring, monitor, matrix, orating, Users
<1> QED
  BY <1>4, <1>5, <1>6, <1>7, <1>8 DEF HandleEvent, e, q

LEMMA OtherType ==
  ASSUME TypeOK, Events,
         \/ TimerMonitor \/ TimerOrator \/ RebuilderEnded \/ RestartAfterRebuild
         \/ MonitorHears \/ RestartAsked \/ Disconnected \/ Reconnected
         \/ \E u \in ToSet(suppliers) : ListFilesCame(u)
         \/ \E i \in DOMAIN column : PieceStored(i)
  PROVE  TypeOK' /\ Events'
<1>1. \A x \in Event : <<x>> \in Seq(Event)
  BY OneEvent
<1>2. CASE TimerMonitor
  BY <1>1, <1>2 DEF TimerMonitor, TypeOK, Events, Event, Posts, hiring, monitor, matrix, orating, Users
<1>3. CASE TimerOrator
  BY <1>1, <1>3 DEF TimerOrator, OratorRest, TypeOK, Events, Event, Posts, hiring, monitor, matrix, Users
<1>4. CASE RebuilderEnded
  BY <1>1, <1>4 DEF RebuilderEnded, Outside, TypeOK, Events, Event, Posts, hiring, monitor, matrix, orating, Users
<1>5. CASE RestartAfterRebuild
  BY <1>1, <1>5 DEF RestartAfterRebuild, Outside, TypeOK, Events, Event, Posts, hiring, monitor, matrix, orating, Users
<1>6. CASE MonitorHears
  <2>1. reports # <<>> /\ reports' = Tail(reports) /\ queue' = Append(queue, Head(reports))
    BY <1>6 DEF MonitorHears, Take, Posts
  <2>2. reports' \in Seq(EndsOfHiring) /\ Head(reports) \in Event
    BY <2>1, HeadTailProperties DEF Events, Event, EndsOfHiring
  <2>3. queue' \in Seq(Event)
    BY <2>1, <2>2, PostedEvent DEF Events
  <2> QED
    BY <1>6, <2>2, <2>3 DEF MonitorHears, Take, NotHiring, TypeOK, Events, monitor, matrix, orating, Users
<1>7. CASE RestartAsked
  BY <1>1, <1>7 DEF RestartAsked, Trouble, Outside, TypeOK, Events, Event, Posts, hiring, monitor, matrix, orating, Users
<1>8. CASE Disconnected
  BY <1>8 DEF Disconnected, Trouble, Outside, TypeOK, Events, hiring, monitor, matrix, orating, Users
<1>9. CASE Reconnected
  BY <1>1, <1>9 DEF Reconnected, FireHireRestart, Ask, TypeOK, Events, Event, Posts, monitor, matrix, orating, Users
<1>10. ASSUME NEW u \in ToSet(suppliers), ListFilesCame(u) PROVE TypeOK' /\ Events'
  <2>1. column' \in Seq({0, 1})
    BY <1>10, ColumnTypes DEF ListFilesCame
  <2> QED
    BY <1>1, <1>10, <2>1 DEF ListFilesCame, TypeOK, Events, Event, Posts, hiring, monitor, Users
<1>11. ASSUME NEW i \in DOMAIN column, PieceStored(i) PROVE TypeOK' /\ Events'
  <2>1. column' \in Seq({0, 1}) /\ holds' \subseteq Users
    BY <1>11, ColumnTypes DEF PieceStored, TypeOK
  <2> QED
    BY <1>11, <2>1 DEF PieceStored, Outside, TypeOK, Events, hiring, monitor, orating, Users
<1> QED
  BY <1>2, <1>3, <1>4, <1>5, <1>6, <1>7, <1>8, <1>9, <1>10, <1>11

(* A step of fire_hire, or one that this module does not see.              *)
LEMMA HiresType ==
  ASSUME TypeOK, Events, Hires
  PROVE  TypeOK' /\ Events'
<1>1. suppliers' \in Lists /\ queue' = queue
  BY DEF Hires, Start, EndFinished, EndChanged, Change, EndFailed, Ask, TypeOK
<1>2. reports' = reports \/ \E r \in EndsOfHiring : reports' = Append(reports, r)
  BY DEF Hires, Start, EndFinished, EndChanged, Change, EndFailed, Ask, Report, EndsOfHiring
<1>3. reports' \in Seq(EndsOfHiring)
  BY <1>2, PostedEvent DEF Events
<1>4. DOMAIN troubles' = DOMAIN troubles /\ unlisted' \in BOOLEAN
  BY DEF Hires, Trouble, TypeOK
<1> QED
  BY <1>1, <1>3, <1>4 DEF Hires, NotHiring, TypeOK, Events, monitor, matrix, orating, Users

LEMMA TypeStep ==
  ASSUME TypeOK, Events, [Next]_vars
  PROVE  TypeOK' /\ Events'
<1>1. CASE UNCHANGED vars
  BY <1>1 DEF vars, hiring, monitor, orating, matrix, TypeOK, Events, Users
<1> QED
  BY <1>1, HandleType, OtherType, HiresType DEF Next

-----------------------------------------------------------------------------
(* Waiting.                                                                *)

LEMMA AwaitsHandled ==
  ASSUME MonitorInv, HandleEvent
  PROVE  Awaits'
<1> DEFINE e == Head(queue)
           q == Tail(queue)
           Stays == \A E : Coming(E) /\ e \notin E => ToSet(queue') \cap E # {}
<1>1. queue # <<>> /\ reports = <<>> /\ q \in Seq(Event)
  BY HeadTailProperties DEF HandleEvent, MonitorInv, Events
<1>2. /\ queue' = q => Stays
      /\ \A x \in Event : queue' = q \o <<x>> => Stays /\ x \in ToSet(queue')
  <2>1. ToSet(queue) \subseteq ToSet(q) \cup {e}
    BY <1>1, Consume, EmptySeq, ConcatEmptySeq DEF MonitorInv, Events
  <2>2. ASSUME NEW x \in Event PROVE ToSet(q \o <<x>>) = ToSet(q) \cup {x}
    <3>1. <<x>> \in Seq(Event) /\ ToSet(<<x>>) = {x}
      BY OneEvent
    <3>2. \A m \in Seq(Event) : ToSet(q \o m) = ToSet(q) \cup ToSet(m)
      BY <1>1, Consume DEF MonitorInv, Events
    <3> QED BY <3>1, <3>2
  <2> QED BY <2>1, <2>2 DEF Coming
<1>3. \/ queue' = q
      \/ \E x \in Event : queue' = q \o <<x>>
  <2> HIDE DEF q, e
  <2>1. CASE MonitorEvent(e, q)
    BY <2>1 DEF MonitorEvent, InReady, InListFiles, InListBackups, InRebuilding, InFireHire, Posts,
                Ready, RestartLater, Event, CheckUpRestarts, MonitorInv, TypeOK
  <2>2. CASE NeedFiles(q) \/ LocalFilesDone(q) \/ InboxFiles(q) \/ RebuilderStart(q)
    BY <2>2 DEF NeedFiles, LocalFilesDone, InboxFiles, RebuilderStart, Posts, Event
  <2> QED BY <2>1, <2>2 DEF HandleEvent, q, e
<1>4. Stays
  BY <1>2, <1>3
<1>5. \A x \in Event : queue' = q \o <<x>> => x \in ToSet(queue')
  BY <1>2
<1>6. /\ Coming(EndsOfHiring) /\ e \notin EndsOfHiring => Coming(EndsOfHiring)'
      /\ LET E == {"need-files", "NO_FILES", "SAW_FILES"} IN Coming(E) /\ e \notin E => Coming(E)'
      /\ LET E == {"list-backups-done"} IN Coming(E) /\ e \notin E => Coming(E)'
      /\ LET E == {"start", "rebuilder-ended"} IN Coming(E) /\ e \notin E => Coming(E)'
  BY <1>4 DEF Coming, EndsOfHiring
<1>7. /\ queue' = q \o <<"need-files">> => Coming({"need-files", "NO_FILES", "SAW_FILES"})'
      /\ queue' = q \o <<"NO_FILES">> => Coming({"need-files", "NO_FILES", "SAW_FILES"})'
      /\ queue' = q \o <<"SAW_FILES">> => Coming({"need-files", "NO_FILES", "SAW_FILES"})'
      /\ queue' = q \o <<"list-backups-done">> => Coming({"list-backups-done"})'
      /\ queue' = q \o <<"start">> => Coming({"start", "rebuilder-ended"})'
  BY <1>5 DEF Coming, Event
<1> HIDE DEF Stays, e, q
<1>8. TypeOK /\ Awaits
  BY DEF MonitorInv
<1>9. CASE e = "need-files" /\ NeedFiles(q)
  BY <1>6, <1>8, <1>9 DEF NeedFiles, OratorRest, hiring, monitor, Awaits, TypeOK, ReadsAgain, EndsOfHiring
<1>10. CASE e = "local-files-done" /\ LocalFilesDone(q)
  BY <1>6, <1>7, <1>8, <1>10 DEF LocalFilesDone, Posts, OratorRest, hiring, monitor, Awaits, TypeOK, EndsOfHiring
<1>11. CASE e = "inbox-files" /\ InboxFiles(q)
  BY <1>6, <1>7, <1>8, <1>11 DEF InboxFiles, Posts, OratorRest, hiring, monitor, Awaits, TypeOK, EndsOfHiring
<1>12. CASE e = "start" /\ RebuilderStart(q)
  BY <1>6, <1>8, <1>12 DEF RebuilderStart, Outside, hiring, monitor, orating, Awaits, EndsOfHiring
<1>13. CASE MonitorEvent(e, q) /\ e \notin {"need-files", "local-files-done", "inbox-files", "start"}
  <2>1. UNCHANGED <<orating, rebuilding>>
    BY <1>13 DEF MonitorEvent
  <2>2. CASE state = "READY" /\ InReady(e, q)
    BY <1>6, <1>8, <2>1, <2>2 DEF InReady, FireHireRestart, Ask, monitor, NoHiring, Awaits
  <2>3. CASE state = "LIST_FILES" /\ InListFiles(e, q)
    BY <1>6, <1>7, <1>8, <2>1, <2>3, <1>13 DEF InListFiles, Ready, RestartLater, NoHiring, hiring, orating, monitor, Posts, Awaits, EndsOfListing
  <2>4. CASE state = "LIST_BACKUPS" /\ InListBackups(e, q)
    BY <1>6, <1>7, <1>8, <2>1, <2>4 DEF InListBackups, Ready, RestartLater, NoHiring, hiring, orating, monitor, Posts, Awaits
  <2>5. CASE state = "REBUILDING" /\ InRebuilding(e, q)
    BY <1>6, <1>8, <1>13, <2>1, <2>5 DEF InRebuilding, FireHireRestart, Ask, Ready, NoHiring, hiring, orating, monitor, Awaits
  <2>6. CASE state = "FIRE_HIRE" /\ InFireHire(e, q)
    BY <1>6, <1>7, <1>8, <2>1, <2>6 DEF InFireHire, RestartLater, NoHiring, hiring, orating, monitor, Posts, Awaits
  <2> QED BY <1>8, <1>13, <2>2, <2>3, <2>4, <2>5, <2>6 DEF MonitorEvent, TypeOK
<1> QED
  BY <1>9, <1>10, <1>11, <1>12, <1>13 DEF HandleEvent, e, q

LEMMA AwaitsElsewhere ==
  ASSUME MonitorInv, [Next]_vars, ~ HandleEvent
  PROVE  Awaits'
<1>1. TypeOK /\ Awaits
  BY DEF MonitorInv
<1>2. \A x \in Event : queue' = <<x>> => ToSet(queue') = {x}
  BY OneEvent
<1>3. queue = <<>> => \A E : ~ Coming(E)
  BY DEF Coming, ToSet
<1>4. CASE UNCHANGED vars
  BY <1>1, <1>4 DEF vars, hiring, monitor, orating, Awaits, Coming
<1>5. CASE TimerMonitor \/ RestartAsked \/ RestartAfterRebuild
  BY <1>1, <1>3, <1>5 DEF TimerMonitor, RestartAsked, RestartAfterRebuild, Quiet, Outside, hiring, monitor, orating, Awaits
<1>6. CASE TimerOrator
  <2>1. orator' \in Event /\ queue' = <<orator'>> /\ orator' \in {"NO_FILES", "SAW_FILES"}
    BY <1>6 DEF TimerOrator, Posts, Event
  <2>2. Coming({"need-files", "NO_FILES", "SAW_FILES"})'
    BY <1>2, <2>1 DEF Coming
  <2> QED
    BY <1>1, <1>3, <1>6, <2>2 DEF TimerOrator, Quiet, OratorRest, hiring, monitor, Awaits
<1>7. CASE RebuilderEnded
  <2>1. Coming({"start", "rebuilder-ended"})'
    BY <1>2, <1>7 DEF RebuilderEnded, Posts, Event, Coming
  <2> QED
    BY <1>1, <1>3, <1>7, <2>1 DEF RebuilderEnded, Quiet, Outside, hiring, monitor, orating, Awaits
<1>8. CASE Hires
  <2>1. queue' = queue /\ UNCHANGED <<monitor, orating, rebuilding>>
    BY <1>8 DEF Hires, NotHiring
  <2>2. busy \/ asked \/ reports # <<>> => busy' \/ asked' \/ reports' # <<>>
    <3>1. \A r \in EndsOfHiring : Append(reports, r) # <<>>
      BY PostedEvent DEF MonitorInv, Events
    <3>2. "suppliers-changed" \in EndsOfHiring /\ "fire-hire-finished" \in EndsOfHiring
      BY DEF EndsOfHiring
    <3> QED
      BY <1>8, <3>1, <3>2 DEF Hires, Start, EndFinished, EndChanged, Change, EndFailed, Ends, Report, Ask
  <2> QED
    BY <1>1, <2>1, <2>2 DEF monitor, orating, Awaits, Coming
<1>9. CASE MonitorHears
  <2>1. /\ reports # <<>> /\ queue' = Append(queue, Head(reports)) /\ Head(reports) \in EndsOfHiring
        /\ UNCHANGED <<monitor, orating, rebuilding>>
    BY <1>9, HeadTailProperties DEF MonitorHears, Take, Posts, NotHiring, MonitorInv, Events
  <2>2. ToSet(queue') = ToSet(queue) \cup {Head(reports)}
    BY <2>1, PostedEvent DEF MonitorInv, Events, Event, EndsOfHiring
  <2> QED
    BY <1>1, <2>1, <2>2 DEF monitor, orating, Awaits, Coming
<1>10. CASE Disconnected
  BY <1>1, <1>10 DEF Disconnected, Outside, hiring, monitor, orating, Awaits, Coming
<1>11. CASE Reconnected
  BY <1>1, <1>3, <1>11 DEF Reconnected, FireHireRestart, Ask, Quiet, monitor, orating, Awaits
<1>12. ASSUME NEW u \in ToSet(suppliers), ListFilesCame(u) PROVE Awaits'
  BY <1>1, <1>3, <1>12 DEF ListFilesCame, Quiet, hiring, monitor, Awaits
<1>13. ASSUME NEW i \in DOMAIN column, PieceStored(i) PROVE Awaits'
  BY <1>1, <1>13 DEF PieceStored, Outside, hiring, monitor, orating, Awaits, Coming
<1> QED
  BY <1>4, <1>5, <1>6, <1>7, <1>8, <1>9, <1>10, <1>11, <1>12, <1>13 DEF Next

LEMMA Invariance == Spec => []MonitorInv
<1>1. Init => MonitorInv
  <2>1. Init => Awaits
    BY DEF Init, Awaits
  <2> QED BY <2>1, InitType DEF MonitorInv
<1>2. MonitorInv /\ [Next]_vars => MonitorInv'
  BY TypeStep, AwaitsHandled, AwaitsElsewhere DEF MonitorInv
<1> QED
  BY <1>1, <1>2, PTL DEF Spec

(* backup_monitor, list_files_orator and the matrix keep their types: no   *)
(* list of files is requested of an empty position.                        *)
THEOREM CycleTypes == Spec => []TypeOK
BY Invariance, PTL DEF MonitorInv

(* backup_monitor never waits for a machine that has nothing to tell it,   *)
(* whatever changes, fails or is restarted in the middle of its cycle.     *)
THEOREM CycleAwaits == Spec => []Awaits
BY Invariance, PTL DEF MonitorInv

-----------------------------------------------------------------------------
(* A restore.                                                              *)

(* What comes from a supplier: an answer to a Retrieve, an Ack of a ping.  *)
Answer == [what : {"data", "fail", "broken"}, of : Piece]
Pong == [what : {"ack"}, of : {<<s>> : s \in Number}]
Transfer == Answer \cup Pong

(* The calls that wait in the reactor, by what they carry.                 *)
PlainEvent == {"init", "instant", "data-receiving-started", "data-receiving-stopped", "request-failed",
               "block-restored", "block-failed", "raid-failed"}
PlainCall == [to : {"worker"}, event : PlainEvent, piece : {NoPiece}]
FailCall == [to : {"worker"}, event : {"request-failed"}, piece : Piece]
DataCall == [to : {"worker"}, event : {"data-received"}, piece : Piece, new : BOOLEAN]
ReadCall == [to : {"worker"}, event : {"raid-done"}, read : SUBSET Number]
OtherCall == PlainCall \cup FailCall \cup DataCall \cup ReadCall \cup [to : {"inbox"}, message : Transfer]
Opening == "input-stream-opened"
Closing == "input-stream-closed"
Stream == {Opening, Closing}
Call == OtherCall \cup [to : {"receiver"}, event : Stream, message : Transfer]

(* A queue of requests.                                                    *)
QueueFields == [queue : Seq(Piece), dict : SUBSET Piece, asked : SUBSET Piece, failed : [Piece -> Nat]]
SoundQueue(q) ==
  /\ q \in QueueFields
  /\ IsInjective(q.queue) /\ ToSet(q.queue) \subseteq q.dict /\ q.asked \subseteq q.dict

WorkerTypes ==
  /\ job \in {"none", "working", "extracting", "restore done", "failed"}
  /\ workerState \in {"NONE", "AT_STARTUP", "REQUESTED", "RECEIVING", "RAID", "BLOCK", "DONE", "FAILED"}
  /\ block \in Block /\ hand \in [D : SUBSET Number, P : SUBSET Number]
  /\ fails \in Nat /\ attempts \in 0..3 /\ reading \in BOOLEAN

NetworkTypes ==
  /\ files \in SUBSET Piece /\ outgoing \in SUBSET Piece /\ pinged \in SUBSET Number
  /\ online \in SUBSET Number /\ calls \in Seq(Call)
  /\ streams \in SUBSET Transfer /\ IsFiniteSet(streams)

QueuesSound == requests \in [Number -> QueueFields] /\ \A s \in Number : SoundQueue(requests[s])

(* The calls that say that a stream was opened, or closed.                 *)
At(q, e) == {i \in DOMAIN q : q[i].to = "receiver" /\ q[i].event = e}
Waiting(q, e) == Cardinality(At(q, e))

(* Each opening that waits is of a stream of its own.                      *)
OpeningsOf(q, S) ==
  /\ \A i \in At(q, Opening) : q[i].message \in S
  /\ \A i, j \in At(q, Opening) : q[i].message = q[j].message => i = j

(* The counter is too high by the transfers that failed, and by no more.   *)
Excess(c, S, q) == c - ((Cardinality(S) - Waiting(q, Opening)) + Waiting(q, Closing))
Counted(c, S, q, f) == c \in Nat /\ OpeningsOf(q, S) /\ Excess(c, S, q) \in 0..f
Counting == faults \in 0..MaxFaults /\ Counted(counter, streams, calls, faults)

(* The blocks before the current one were written, and a restore that has  *)
(* ended left nothing to be asked for.                                     *)
BlocksDone == IF workerState = "DONE" THEN MaxBlock + 1 ELSE block
Written ==
  /\ job = "none" => workerState = "NONE"
  /\ workerState \in {"NONE", "AT_STARTUP"} => block = 0
  /\ job \in {"extracting", "restore done"} => workerState = "DONE"
  /\ job = "failed" => workerState = "FAILED"
  /\ written = [i \in 1..BlocksDone |-> i - 1]
Emptied == Ended => \A s \in Number : requests[s].queue = <<>>

RestoreInv == WorkerTypes /\ NetworkTypes /\ QueuesSound /\ Counting /\ Written /\ Emptied

LEMMA Least ==
  ASSUME NEW T \in SUBSET Nat, T # {}
  PROVE  \E i \in T : \A j \in T : i <= j
<1> DEFINE Less == OpToRel(<, Nat)
<1>1. \E i \in T : \A j \in T : ~ (<<j, i>> \in Less)
  BY NatLessThanWellFounded, WFMin
<1>2. \A i, j \in Nat : j < i => <<j, i>> \in Less
  BY Zenon DEF OpToRel
<1>3. PICK R : /\ \E i \in T : \A j \in T : ~ (<<j, i>> \in R)
              /\ \A i, j \in Nat : j < i => <<j, i>> \in R
  BY <1>1, <1>2, Zenon
<1>4. PICK i \in T : \A j \in T : ~ (<<j, i>> \in R)
  BY <1>3, Zenon
<1>5. \A j \in T : ~ (j < i)
  BY <1>3, <1>4, Zenon
<1> QED  BY <1>5

LEMMA AllNumbers ==
  ASSUME NEW T \in SUBSET Nat, 0 \in T, \A n \in T : n + 1 \in T
  PROVE  T = Nat
<1>1. SUFFICES ASSUME Nat \ T # {} PROVE FALSE
  OBVIOUS
<1>2. Nat \ T \in SUBSET Nat
  OBVIOUS
<1>3. PICK m \in Nat \ T : \A j \in Nat \ T : m <= j
  BY <1>1, <1>2, Least
<1>4. m - 1 \in Nat
  BY <1>3
<1>5. m - 1 \in T
  BY <1>3, <1>4
<1>6. (m - 1) + 1 = m
  BY <1>3
<1> QED  BY <1>3, <1>5, <1>6

(* What each step keeps is kept to the end.                                *)
LEMMA Kept ==
  ASSUME NEW X, NEW N \in Nat, NEW f, f[0] \in X,
         \A n \in 1..N : f[n - 1] \in X => f[n] \in X
  PROVE  \A n \in 0..N : f[n] \in X
<1> DEFINE T == {n \in Nat : n <= N => f[n] \in X}
<1>1. 0 \in T
  OBVIOUS
<1>2. \A n \in T : n + 1 \in T
  <2>1. SUFFICES ASSUME NEW n \in T, n + 1 <= N PROVE f[n + 1] \in X
    OBVIOUS
  <2>2. n + 1 \in 1..N /\ (n + 1) - 1 = n /\ f[n] \in X
    BY <2>1
  <2> QED  BY <2>2
<1>3. T \in SUBSET Nat
  OBVIOUS
<1> HIDE DEF T
<1>4. T = Nat
  BY <1>1, <1>2, <1>3, AllNumbers
<1> QED  BY <1>4 DEF T

Iterates(f, a, N, step) == f[0] = a /\ (\A n \in 1..N : f[n] = step[n][f[n - 1]])

(* Steps can be made one after the other.                                  *)
LEMMA Iteration ==
  ASSUME NEW X, NEW a \in X, NEW N \in Nat, NEW step \in [1..N -> [X -> X]]
  PROVE  \E f \in [0..N -> X] : Iterates(f, a, N, step)
<1> DEFINE T == {n \in Nat : n <= N => \E f \in [0..n -> X] : Iterates(f, a, n, step)}
<1>1. 0 \in T
  <2>1. [i \in 0..0 |-> a] \in [0..0 -> X] /\ Iterates([i \in 0..0 |-> a], a, 0, step)
    BY DEF Iterates
  <2> QED  BY <2>1
<1>2. \A n \in T : n + 1 \in T
  <2>1. SUFFICES ASSUME NEW n \in T, n + 1 <= N
                 PROVE  \E f \in [0..(n + 1) -> X] : Iterates(f, a, n + 1, step)
    OBVIOUS
  <2>2. n \in Nat /\ n <= N
    BY <2>1
  <2>3. PICK f \in [0..n -> X] : Iterates(f, a, n, step)
    BY <2>2
  <2> DEFINE g == [i \in 0..(n + 1) |-> IF i <= n THEN f[i] ELSE step[n + 1][f[n]]]
  <2>4. step[n + 1] \in [X -> X] /\ f[n] \in X
    BY <2>1, <2>2
  <2>5. step[n + 1][f[n]] \in X
    BY <2>4
  <2>6. g \in [0..(n + 1) -> X]
    BY <2>2, <2>5
  <2>7. g[0] = a
    BY <2>2, <2>3 DEF Iterates
  <2>8. ASSUME NEW i \in 1..(n + 1) PROVE g[i] = step[i][g[i - 1]]
    <3>1. CASE i <= n
      <4>1. i \in 1..n /\ i - 1 \in 0..n /\ i \in 0..n /\ i - 1 <= n
        BY <2>2, <3>1
      <4>2. f[i] = step[i][f[i - 1]]
        BY <2>3, <4>1 DEF Iterates
      <4>3. g[i] = f[i] /\ g[i - 1] = f[i - 1]
        BY <4>1, <2>2
      <4> QED  BY <4>2, <4>3
    <3>2. CASE i = n + 1
      <4>1. g[i] = step[n + 1][f[n]] /\ g[n] = f[n] /\ i - 1 = n
        BY <2>2, <3>2
      <4> HIDE DEF g
      <4> QED  BY <4>1, <3>2
    <3> QED  BY <3>1, <3>2, <2>2
  <2> HIDE DEF g
  <2>9. Iterates(g, a, n + 1, step)
    BY <2>7, <2>8 DEF Iterates
  <2> QED  BY <2>6, <2>9
<1>3. T \in SUBSET Nat
  OBVIOUS
<1> HIDE DEF T
<1>4. T = Nat
  BY <1>1, <1>2, <1>3, AllNumbers
<1> QED  BY <1>4 DEF T

Keep(s, G, f, n) == IF n = 0 THEN <<>> ELSE IF s[n] \in G THEN Append(f[n - 1], s[n]) ELSE f[n - 1]
IsKept(s, G, f) == f = [n \in 0..Len(s) |-> Keep(s, G, f, n)]


(* Among has a value, and is what it keeps of the sequence step by step.   *)
LEMMA AmongSteps ==
  ASSUME NEW S, NEW s \in Seq(S), NEW G
  PROVE  \E f : /\ Among(s, G) = f[Len(s)]
                /\ \A n \in 0..Len(s) : f[n] = Keep(s, G, f, n)
<1> DEFINE X == Seq(S)
           grow(n) == [q \in X |-> IF s[n] \in G THEN Append(q, s[n]) ELSE q]
           step == [n \in 1..Len(s) |-> grow(n)]
<1>1. Len(s) \in Nat /\ \A i \in 1..Len(s) : s[i] \in S
  BY LenProperties, ElementOfSeq
<1>2. <<>> \in X /\ \A q \in X : \A x \in S : Append(q, x) \in X
  BY AppendProperties
<1>3. step \in [1..Len(s) -> [X -> X]]
  <2> HIDE DEF X
  <2>1. \A n \in 1..Len(s) : grow(n) \in [X -> X]
    BY <1>1, <1>2
  <2> QED  BY <2>1
<1>4. PICK g \in [0..Len(s) -> X] : Iterates(g, <<>>, Len(s), step)
  <2> HIDE DEF X, step
  <2> QED  BY <1>1, <1>2, <1>3, Iteration
<1>5. ASSUME NEW n \in 0..Len(s) PROVE g[n] = Keep(s, G, g, n)
  <2> HIDE DEF X
  <2>1. CASE n = 0
    BY <1>4, <2>1 DEF Iterates, Keep
  <2>2. CASE n # 0
    <3>1. n \in 1..Len(s) /\ n - 1 \in 0..Len(s)
      BY <1>1, <2>2
    <3>2. g[n - 1] \in X /\ g[n] = step[n][g[n - 1]]
      BY <1>4, <3>1 DEF Iterates
    <3>3. step[n] = grow(n)
      BY <3>1
    <3>4. g[n] = grow(n)[g[n - 1]]
      BY <3>2, <3>3
    <3> QED  BY <2>2, <3>2, <3>4 DEF Keep
  <2> QED  BY <2>1, <2>2
<1>6. IsKept(s, G, g)
  <2>1. g = [n \in 0..Len(s) |-> g[n]]
    BY <1>4
  <2>2. [n \in 0..Len(s) |-> g[n]] = [n \in 0..Len(s) |-> Keep(s, G, g, n)]
    BY <1>5
  <2> QED  BY <2>1, <2>2 DEF IsKept
<1> DEFINE f == CHOOSE f : IsKept(s, G, f)
<1>7. IsKept(s, G, f)
  BY <1>6
<1>8. Among(s, G) = f[Len(s)]
  BY DEF Among, IsKept, Keep
<1> HIDE DEF f
<1>9. \A n \in 0..Len(s) : f[n] = Keep(s, G, f, n)
  BY <1>7 DEF IsKept
<1> QED  BY <1>8, <1>9

LEMMA Appended ==
  ASSUME NEW S, NEW q \in Seq(S), NEW x \in S
  PROVE  /\ Append(q, x) \in Seq(S)
         /\ Len(Append(q, x)) = Len(q) + 1
         /\ ToSet(Append(q, x)) = ToSet(q) \cup {x}
         /\ IsInjective(q) /\ x \notin ToSet(q) => IsInjective(Append(q, x))
<1> DEFINE r == Append(q, x)
<1>1. /\ r \in Seq(S) /\ Len(r) = Len(q) + 1
      /\ \A i \in 1..Len(q) : r[i] = q[i]
      /\ r[Len(q) + 1] = x
  BY AppendProperties
<1>2. Len(q) \in Nat /\ DOMAIN q = 1..Len(q) /\ DOMAIN r = 1..(Len(q) + 1)
  BY <1>1, LenProperties
<1> HIDE DEF r
<1>3. ToSet(r) = ToSet(q) \cup {x}
  <2>1. ASSUME NEW y \in ToSet(r) PROVE y \in ToSet(q) \cup {x}
    <3>1. PICK i \in 1..(Len(q) + 1) : r[i] = y
      BY <1>2, <2>1 DEF ToSet
    <3>2. i \in 1..Len(q) \/ i = Len(q) + 1
      BY <1>2
    <3> QED  BY <1>1, <1>2, <3>1, <3>2 DEF ToSet
  <2>2. x \in ToSet(r)
    <3>1. Len(q) + 1 \in DOMAIN r
      BY <1>2
    <3> QED  BY <1>1, <3>1 DEF ToSet
  <2>3. ASSUME NEW y \in ToSet(q) PROVE y \in ToSet(r)
    <3>1. PICK i \in 1..Len(q) : q[i] = y
      BY <1>2 DEF ToSet
    <3>2. i \in DOMAIN r /\ r[i] = y
      BY <1>1, <1>2, <3>1
    <3> QED  BY <3>2 DEF ToSet
  <2> QED  BY <2>1, <2>2, <2>3
<1>4. ASSUME IsInjective(q), x \notin ToSet(q) PROVE IsInjective(r)
  <2>1. \A i \in 1..Len(q) : q[i] # x
    BY <1>2, <1>4 DEF ToSet
  <2>2. \A a, b \in 1..Len(q) : q[a] = q[b] => a = b
    BY <1>2, <1>4 DEF IsInjective
  <2>3. \A a \in 1..(Len(q) + 1) : a \in 1..Len(q) \/ a = Len(q) + 1
    BY <1>2
  <2>4. \A a, b \in 1..(Len(q) + 1) : r[a] = r[b] => a = b
    BY <1>1, <2>1, <2>2, <2>3
  <2> QED  BY <1>2, <2>4 DEF IsInjective
<1> QED  BY <1>1, <1>3, <1>4 DEF r

(* The elements of a sequence that are in a set: those and no others, each *)
(* once if it was there once.                                              *)
LEMMA AmongType ==
  ASSUME NEW S, NEW s \in Seq(S), NEW G
  PROVE  /\ Among(s, G) \in Seq(S) /\ ToSet(Among(s, G)) = ToSet(s) \cap G
         /\ Len(Among(s, G)) <= Len(s)
         /\ IsInjective(s) => IsInjective(Among(s, G))
<1>1. Len(s) \in Nat /\ DOMAIN s = 1..Len(s) /\ \A i \in 1..Len(s) : s[i] \in S
  BY LenProperties, ElementOfSeq
<1>2. PICK f : /\ Among(s, G) = f[Len(s)]
               /\ \A n \in 0..Len(s) : f[n] = Keep(s, G, f, n)
  BY AmongSteps
<1> DEFINE Upto(n) == {s[i] : i \in 1..n}
           Good(n) == /\ f[n] \in Seq(S)
                      /\ ToSet(f[n]) = Upto(n) \cap G
                      /\ Len(f[n]) <= n
                      /\ IsInjective(s) => IsInjective(f[n])
           T == {n \in Nat : n <= Len(s) => Good(n)}
<1>3. 0 \in T
  <2>1. f[0] = <<>>
    BY <1>1, <1>2 DEF Keep
  <2>2. <<>> \in Seq(S) /\ Len(<<>>) = 0 /\ DOMAIN <<>> = {}
    BY EmptySeq
  <2>3. ToSet(<<>>) = {} /\ IsInjective(<<>>)
    BY <2>2 DEF ToSet, IsInjective
  <2>4. Upto(0) = {}
    OBVIOUS
  <2>5. ToSet(f[0]) = Upto(0) \cap G
    BY <2>1, <2>3, <2>4
  <2>6. f[0] \in Seq(S) /\ Len(f[0]) <= 0 /\ IsInjective(f[0])
    BY <2>1, <2>2, <2>3
  <2>7. Good(0)
    BY <2>5, <2>6
  <2> HIDE DEF Good
  <2> QED  BY <2>7
<1>4. \A n \in T : n + 1 \in T
  <2>1. SUFFICES ASSUME NEW n \in Nat, Good(n), n + 1 <= Len(s) PROVE Good(n + 1)
    <3>1. ASSUME NEW n \in T PROVE n \in Nat /\ (n <= Len(s) => Good(n))
      OBVIOUS
    <3>2. ASSUME NEW n \in Nat, n + 1 <= Len(s) => Good(n + 1) PROVE n + 1 \in T
      BY <3>2
    <3>3. \A n \in Nat : n + 1 <= Len(s) => n <= Len(s)
      BY <1>1
    <3> HIDE DEF T, Good
    <3> QED  BY <3>1, <3>2, <3>3
  <2> DEFINE x == s[n + 1]
  <2>2. n + 1 \in 1..Len(s) /\ n + 1 \in 0..Len(s) /\ (n + 1) - 1 = n /\ n + 1 # 0
    BY <2>1, <1>1
  <2>3. f[n + 1] = IF x \in G THEN Append(f[n], x) ELSE f[n]
    BY <1>2, <2>2 DEF Keep
  <2>4. x \in S
    BY <1>1, <2>2
  <2>5. Upto(n + 1) = Upto(n) \cup {x}
    <3>1. \A i \in 1..(n + 1) : i \in 1..n \/ i = n + 1
      BY <2>1
    <3>2. \A i \in 1..n : i \in 1..(n + 1)
      BY <2>1
    <3>3. n + 1 \in 1..(n + 1)
      BY <2>1
    <3> QED  BY <3>1, <3>2, <3>3
  <2>6. IsInjective(s) => x \notin Upto(n)
    <3>1. \A i \in 1..n : i \in 1..Len(s) /\ i # n + 1
      BY <2>1, <1>1
    <3> QED  BY <1>1, <2>2, <3>1 DEF IsInjective
  <2> HIDE DEF x, Upto
  <2>7. CASE x \in G
    <3>1. f[n + 1] = Append(f[n], x)
      BY <2>3, <2>7
    <3>2. /\ Append(f[n], x) \in Seq(S)
          /\ Len(Append(f[n], x)) = Len(f[n]) + 1
          /\ ToSet(Append(f[n], x)) = ToSet(f[n]) \cup {x}
          /\ IsInjective(f[n]) /\ x \notin ToSet(f[n]) => IsInjective(Append(f[n], x))
      BY <2>1, <2>4, Appended
    <3>3. Len(f[n]) \in Nat
      BY <2>1, LenProperties
    <3>4. Len(f[n + 1]) <= n + 1
      BY <2>1, <3>1, <3>2, <3>3
    <3>5. ToSet(f[n + 1]) = Upto(n + 1) \cap G
      BY <2>1, <2>5, <2>7, <3>1, <3>2
    <3>6. IsInjective(s) => IsInjective(f[n + 1])
      BY <2>1, <2>6, <3>1, <3>2
    <3> QED  BY <3>1, <3>2, <3>4, <3>5, <3>6
  <2>8. CASE x \notin G
    <3>1. f[n + 1] = f[n]
      BY <2>3, <2>8
    <3>2. Upto(n + 1) \cap G = Upto(n) \cap G
      BY <2>5, <2>8
    <3>3. Len(f[n]) \in Nat
      BY <2>1, LenProperties
    <3>4. Len(f[n]) <= n + 1
      BY <2>1, <3>3
    <3> QED  BY <2>1, <3>1, <3>2, <3>4
  <2> QED  BY <2>7, <2>8
<1>5. T \in SUBSET Nat
  OBVIOUS
<1>6. T = Nat
  <2> HIDE DEF T
  <2> QED  BY <1>3, <1>4, <1>5, AllNumbers
<1>7. Good(Len(s))
  <2>1. Len(s) \in T
    BY <1>1, <1>6, Zenon
  <2>2. Len(s) <= Len(s)
    BY <1>1
  <2> HIDE DEF Good
  <2> QED  BY <2>1, <2>2
<1>8. Upto(Len(s)) = ToSet(s)
  BY <1>1 DEF ToSet
<1> QED  BY <1>2, <1>7, <1>8

(* A finite set can be listed.                                             *)
LEMMA InOrder ==
  ASSUME NEW S, NEW T \in SUBSET S, IsFiniteSet(T)
  PROVE  SetToSeq(T) \in Seq(S)
<1> DEFINE n == Cardinality(T)
<1>1. n \in Nat
  BY FS_CardinalityType
<1>2. ExistsBijection(1..n, T)
  BY FS_CardinalityType
<1>3. PICK f \in [1..n -> T] : IsInjective(f)
  BY <1>2, Zenon DEF ExistsBijection, Bijection, Injection
<1>4. SetToSeq(T) \in [1..n -> T]
  BY <1>3 DEF SetToSeq
<1> QED  BY <1>1, <1>4, IsASeq

LEMMA Numbers ==
  /\ Total \in Nat /\ Number = 0..Total - 1
  /\ \A k \in 1..Total : k - 1 \in Number
  /\ \A p \in Number : p \in Nat /\ p + 1 \in 1..Total /\ (p + 1) - 1 = p
<1>1. Total \in Nat
  BY CodeAssumption, FS_CardinalityType DEF Total
<1>2. Number = 0..Total - 1
  BY CodeAssumption DEF Total
<1> QED  BY <1>1, <1>2

LEMMA Lacking ==
  ASSUME NEW p \in Number, NEW data
  PROVE  /\ Lacks(p, data) \subseteq Number /\ Lacks(p, data) \cap data = {}
         /\ LacksOne(p, data) <=> \E d : Lacks(p, data) = {d}
<1>1. Lacks(p, data) \subseteq Number /\ Lacks(p, data) \cap data = {}
  BY CodeAssumption DEF Lacks
<1>2. IsFiniteSet(Lacks(p, data))
  BY <1>1, CodeAssumption, FS_Subset
<1> QED  BY <1>1, <1>2, FS_Singleton DEF LacksOne

Tried(k, had, parity) ==
  IF k - 1 \in parity /\ LacksOne(k - 1, had) THEN had \cup Lacks(k - 1, had) ELSE had
IsRound(f, data, parity) ==
  f = [k \in 0..Total |-> IF k = 0 THEN data ELSE Tried(k, f[k - 1], parity)]


LEMMA TriedTypes ==
  ASSUME NEW k \in 1..Total, NEW had \in SUBSET Number, NEW parity
  PROVE  Tried(k, had, parity) \in SUBSET Number
<1>1. k - 1 \in Number
  BY Numbers
<1>2. Lacks(k - 1, had) \subseteq Number
  BY <1>1, Lacking
<1> QED  BY <1>2 DEF Tried

LEMMA RoundSteps ==
  ASSUME NEW data \in SUBSET Number, NEW parity \in SUBSET Number
  PROVE  \E f \in [0..Total -> SUBSET Number] :
            /\ Round(data, parity) = f[Total] /\ f[0] = data
            /\ \A k \in 1..Total : f[k] = Tried(k, f[k - 1], parity)
<1> DEFINE X == SUBSET Number
           try(k) == [had \in X |-> Tried(k, had, parity)]
           step == [k \in 1..Total |-> try(k)]
<1>1. \A k \in 1..Total : try(k) \in [X -> X]
  BY TriedTypes
<1>2. step \in [1..Total -> [X -> X]]
  <2> HIDE DEF try, X
  <2> QED  BY <1>1
<1>3. data \in X /\ Total \in Nat
  BY Numbers
<1>4. PICK g \in [0..Total -> X] : Iterates(g, data, Total, step)
  <2> HIDE DEF X, step
  <2> QED  BY <1>2, <1>3, Iteration
<1>5. ASSUME NEW k \in 0..Total
      PROVE  g[k] = IF k = 0 THEN data ELSE Tried(k, g[k - 1], parity)
  <2>1. CASE k = 0
    BY <1>4, <2>1 DEF Iterates
  <2>2. CASE k # 0
    <3>1. k \in 1..Total /\ k - 1 \in 0..Total
      BY <1>3, <2>2
    <3>2. g[k - 1] \in X /\ g[k] = step[k][g[k - 1]]
      <4> HIDE DEF X, step
      <4> QED  BY <1>4, <3>1 DEF Iterates
    <3>3. step[k] = try(k)
      BY <3>1
    <3> QED  BY <2>2, <3>2, <3>3
  <2> QED  BY <2>1, <2>2
<1>6. IsRound(g, data, parity)
  <2>1. g = [k \in 0..Total |-> g[k]]
    BY <1>4
  <2>2. [k \in 0..Total |-> g[k]] = [k \in 0..Total |-> IF k = 0 THEN data ELSE Tried(k, g[k - 1], parity)]
    BY <1>5
  <2> QED  BY <2>1, <2>2 DEF IsRound
<1> DEFINE f == CHOOSE f : IsRound(f, data, parity)
<1>7. IsRound(f, data, parity)
  BY <1>6
<1>8. Round(data, parity) = f[Total]
  BY DEF Round, IsRound, Tried
<1> HIDE DEF f
<1>9. f[0] = data /\ \A k \in 1..Total : f[k] = Tried(k, f[k - 1], parity)
  BY <1>3, <1>7 DEF IsRound
<1>10. \A k \in 0..Total : f[k] \in X
  <2> HIDE DEF X
  <2>1. f[0] \in X /\ \A k \in 1..Total : f[k - 1] \in X => f[k] \in X
    BY <1>3, <1>9, TriedTypes DEF X
  <2> QED  BY <1>3, <2>1, Kept
<1>11. f \in [0..Total -> X]
  <2>1. f = [k \in 0..Total |-> IF k = 0 THEN data ELSE Tried(k, f[k - 1], parity)]
    BY <1>7 DEF IsRound
  <2>2. \A k \in 0..Total : f[k] = IF k = 0 THEN data ELSE Tried(k, f[k - 1], parity)
    BY <1>9
  <2>3. DOMAIN f = 0..Total /\ f = [k \in DOMAIN f |-> f[k]]
    BY <2>1
  <2> HIDE DEF X
  <2> QED  BY <1>10, <2>3
<1> QED  BY <1>8, <1>9, <1>11

LEMMA RoundType ==
  ASSUME NEW data \in SUBSET Number, NEW parity \in SUBSET Number
  PROVE  Round(data, parity) \in SUBSET Number
BY RoundSteps, Numbers

IsRounds(f, data, parity) ==
  f = [k \in 0..Total |-> IF k = 0 THEN data ELSE Round(f[k - 1], parity)]


LEMMA RoundsSteps ==
  ASSUME NEW data \in SUBSET Number, NEW parity \in SUBSET Number
  PROVE  \E f \in [0..Total -> SUBSET Number] :
            /\ Rounds(data, parity) = f[Total] /\ f[0] = data
            /\ \A k \in 1..Total : f[k] = Round(f[k - 1], parity)
<1> DEFINE X == SUBSET Number
           try(k) == [had \in X |-> Round(had, parity)]
           step == [k \in 1..Total |-> try(k)]
<1>1. \A k \in 1..Total : try(k) \in [X -> X]
  BY RoundType
<1>2. step \in [1..Total -> [X -> X]]
  <2> HIDE DEF try, X
  <2> QED  BY <1>1
<1>3. data \in X /\ Total \in Nat
  BY Numbers
<1>4. PICK g \in [0..Total -> X] : Iterates(g, data, Total, step)
  <2> HIDE DEF X, step
  <2> QED  BY <1>2, <1>3, Iteration
<1>5. ASSUME NEW k \in 0..Total
      PROVE  g[k] = IF k = 0 THEN data ELSE Round(g[k - 1], parity)
  <2>1. CASE k = 0
    BY <1>4, <2>1 DEF Iterates
  <2>2. CASE k # 0
    <3>1. k \in 1..Total /\ k - 1 \in 0..Total
      BY <1>3, <2>2
    <3>2. g[k - 1] \in X /\ g[k] = step[k][g[k - 1]]
      <4> HIDE DEF X, step
      <4> QED  BY <1>4, <3>1 DEF Iterates
    <3>3. step[k] = try(k)
      BY <3>1
    <3> QED  BY <2>2, <3>2, <3>3
  <2> QED  BY <2>1, <2>2
<1>6. IsRounds(g, data, parity)
  <2>1. g = [k \in 0..Total |-> g[k]]
    BY <1>4
  <2>2. [k \in 0..Total |-> g[k]] = [k \in 0..Total |-> IF k = 0 THEN data ELSE Round(g[k - 1], parity)]
    BY <1>5
  <2> QED  BY <2>1, <2>2 DEF IsRounds
<1> DEFINE f == CHOOSE f : IsRounds(f, data, parity)
<1>7. IsRounds(f, data, parity)
  BY <1>6
<1>8. Rounds(data, parity) = f[Total]
  BY DEF Rounds, IsRounds
<1> HIDE DEF f
<1>9. f[0] = data /\ \A k \in 1..Total : f[k] = Round(f[k - 1], parity)
  BY <1>3, <1>7 DEF IsRounds
<1>10. \A k \in 0..Total : f[k] \in X
  <2> HIDE DEF X
  <2>1. f[0] \in X /\ \A k \in 1..Total : f[k - 1] \in X => f[k] \in X
    BY <1>3, <1>9, RoundType DEF X
  <2> QED  BY <1>3, <2>1, Kept
<1>11. f \in [0..Total -> X]
  <2>1. f = [k \in 0..Total |-> IF k = 0 THEN data ELSE Round(f[k - 1], parity)]
    BY <1>7 DEF IsRounds
  <2>2. \A k \in 0..Total : f[k] = IF k = 0 THEN data ELSE Round(f[k - 1], parity)
    BY <1>9
  <2>3. DOMAIN f = 0..Total /\ f = [k \in DOMAIN f |-> f[k]]
    BY <2>1
  <2> HIDE DEF X
  <2> QED  BY <1>10, <2>3
<1> QED  BY <1>8, <1>9, <1>11

(* What can be rebuilt of a block are pieces of it.                        *)
LEMMA RoundsType ==
  ASSUME NEW data \in SUBSET Number, NEW parity \in SUBSET Number
  PROVE  Rounds(data, parity) \in SUBSET Number
BY RoundsSteps, Numbers, CodeAssumption

-----------------------------------------------------------------------------
(* The calls, and the streams they tell of.                                *)

LEMMA CallKinds ==
  /\ \A c \in OtherCall : c \in Call /\ c.to # "receiver"
  /\ \A c \in Call : c.to = "receiver" => c.event \in Stream /\ c.message \in Transfer
  /\ \A c \in Call : c.to # "receiver" => c \in OtherCall
  /\ \A m \in Transfer, e \in Stream :
       /\ ToReceiver(e, m) \in Call /\ ToReceiver(e, m).to = "receiver"
       /\ ToReceiver(e, m).event = e /\ ToReceiver(e, m).message = m
<1>1. \A c \in OtherCall : c \in Call /\ c.to # "receiver"
  <2>1. \A c \in PlainCall : c.to # "receiver"
    BY DEF PlainCall
  <2>2. \A c \in FailCall : c.to # "receiver"
    BY DEF FailCall
  <2>3. \A c \in DataCall : c.to # "receiver"
    BY DEF DataCall
  <2>4. \A c \in ReadCall : c.to # "receiver"
    BY DEF ReadCall
  <2>5. \A c \in [to : {"inbox"}, message : Transfer] : c.to # "receiver"
    OBVIOUS
  <2>6. \A c \in OtherCall : c \in Call
    BY DEF Call
  <2> QED  BY <2>1, <2>2, <2>3, <2>4, <2>5, <2>6 DEF OtherCall
<1> DEFINE R == [to : {"receiver"}, event : Stream, message : Transfer]
<1>2. \A c \in R : c.to = "receiver" /\ c.event \in Stream /\ c.message \in Transfer
  OBVIOUS
<1>3. Call = OtherCall \cup R
  BY DEF Call
<1>4. \A m \in Transfer, e \in Stream : ToReceiver(e, m) \in R /\ ToReceiver(e, m).to = "receiver"
                                        /\ ToReceiver(e, m).event = e /\ ToReceiver(e, m).message = m
  BY DEF ToReceiver
<1> HIDE DEF R
<1> QED  BY <1>1, <1>2, <1>3, <1>4

LEMMA Ats ==
  ASSUME NEW q \in Seq(Call), NEW e
  PROVE  /\ At(q, e) \in SUBSET (1..Len(q)) /\ IsFiniteSet(At(q, e)) /\ Waiting(q, e) \in Nat
         /\ \A i \in 1..Len(q) : i \in At(q, e) <=> q[i].to = "receiver" /\ q[i].event = e
<1>1. Len(q) \in Nat /\ DOMAIN q = 1..Len(q)
  BY LenProperties
<1>2. At(q, e) \in SUBSET (1..Len(q))
  BY <1>1 DEF At
<1>3. IsFiniteSet(1..Len(q))
  BY <1>1, FS_Interval
<1>4. IsFiniteSet(At(q, e))
  BY <1>2, <1>3, FS_Subset
<1>5. Waiting(q, e) \in Nat
  BY <1>4, FS_CardinalityType DEF Waiting
<1> QED  BY <1>1, <1>2, <1>4, <1>5 DEF At

(* The first call is taken.                                                *)
LEMMA FirstCall ==
  ASSUME NEW q \in Seq(Call), q # <<>>
  PROVE  /\ Head(q) = q[1] /\ Head(q) \in Call /\ Tail(q) \in Seq(Call)
         /\ Len(q) \in Nat /\ Len(Tail(q)) \in Nat /\ Len(Tail(q)) + 1 = Len(q)
         /\ \A i \in 1..Len(Tail(q)) : Tail(q)[i] = q[i + 1] /\ i + 1 \in 1..Len(q) /\ i + 1 # 1
         /\ \A i \in 1..Len(q) : i # 1 => i - 1 \in 1..Len(Tail(q)) /\ Tail(q)[i - 1] = q[i] /\ (i - 1) + 1 = i
         /\ 1 \in 1..Len(q)
<1>1. /\ Head(q) = q[1] /\ Head(q) \in Call /\ Tail(q) \in Seq(Call) /\ Len(Tail(q)) = Len(q) - 1
      /\ \A i \in 1..Len(Tail(q)) : Tail(q)[i] = q[i + 1]
  BY HeadTailProperties
<1>2. Len(q) \in Nat /\ Len(q) # 0 /\ Len(Tail(q)) \in Nat
  BY <1>1, LenProperties, EmptySeq
<1> QED  BY <1>1, <1>2

LEMMA AtTail ==
  ASSUME NEW q \in Seq(Call), q # <<>>, NEW e
  PROVE  /\ \A i \in At(Tail(q), e) : i + 1 \in At(q, e) \ {1} /\ Tail(q)[i] = q[i + 1]
         /\ Waiting(Tail(q), e) =
              IF Head(q).to = "receiver" /\ Head(q).event = e THEN Waiting(q, e) - 1 ELSE Waiting(q, e)
<1> DEFINE t == Tail(q)
           A == At(t, e)
           B == At(q, e) \ {1}
           f == [i \in A |-> i + 1]
<1>1. /\ t \in Seq(Call) /\ Len(q) \in Nat /\ Len(t) \in Nat /\ Len(t) + 1 = Len(q)
      /\ Head(q) = q[1] /\ 1 \in 1..Len(q)
      /\ \A i \in 1..Len(t) : t[i] = q[i + 1] /\ i + 1 \in 1..Len(q) /\ i + 1 # 1
      /\ \A i \in 1..Len(q) : i # 1 => i - 1 \in 1..Len(t) /\ t[i - 1] = q[i] /\ (i - 1) + 1 = i
  BY FirstCall
<1> HIDE DEF t
<1>2. /\ A \in SUBSET (1..Len(t)) /\ IsFiniteSet(A)
      /\ \A i \in 1..Len(t) : i \in A <=> t[i].to = "receiver" /\ t[i].event = e
  BY <1>1, Ats
<1>3. /\ At(q, e) \in SUBSET (1..Len(q)) /\ IsFiniteSet(At(q, e))
      /\ \A i \in 1..Len(q) : i \in At(q, e) <=> q[i].to = "receiver" /\ q[i].event = e
  BY Ats
<1> HIDE DEF A
<1>4. \A i \in A : i + 1 \in B /\ t[i] = q[i + 1]
  BY <1>1, <1>2, <1>3
<1>5. ASSUME NEW j \in B PROVE j - 1 \in A /\ (j - 1) + 1 = j
  <2>1. j \in 1..Len(q) /\ j # 1 /\ q[j].to = "receiver" /\ q[j].event = e
    BY <1>3
  <2>2. j - 1 \in 1..Len(t) /\ t[j - 1] = q[j] /\ (j - 1) + 1 = j
    BY <1>1, <2>1
  <2> QED  BY <1>2, <2>1, <2>2
<1>6. f \in [A -> B]
  BY <1>4
<1>7. \A i, j \in A : f[i] = f[j] => i = j
  BY <1>2, <1>1
<1>8. \A j \in B : \E i \in A : f[i] = j
  BY <1>5
<1>9. ExistsBijection(A, B)
  <2> HIDE DEF f, B
  <2>1. f \in Bijection(A, B)
    BY <1>6, <1>7, <1>8 DEF Bijection, Injection, Surjection, IsInjective
  <2> QED  BY <2>1 DEF ExistsBijection
<1>10. Cardinality(A) = Cardinality(B)
  BY <1>2, <1>9, FS_Bijection
<1>11. CASE 1 \in At(q, e)
  <2>1. Cardinality(B) = Cardinality(At(q, e)) - 1
    BY <1>3, <1>11, FS_RemoveElement
  <2> QED  BY <1>1, <1>3, <1>4, <1>10, <1>11, <2>1 DEF Waiting, A, t
<1>12. CASE 1 \notin At(q, e)
  <2>1. B = At(q, e)
    BY <1>12
  <2> QED  BY <1>1, <1>3, <1>4, <1>10, <1>12, <2>1 DEF Waiting, A, t
<1> QED  BY <1>11, <1>12

(* Calls that are not of streams follow.                                   *)
LEMMA AtConcat ==
  ASSUME NEW q \in Seq(Call), NEW m \in Seq(OtherCall), NEW e
  PROVE  /\ q \o m \in Seq(Call) /\ At(q \o m, e) = At(q, e)
         /\ \A i \in At(q, e) : (q \o m)[i] = q[i]
<1> DEFINE r == q \o m
<1>1. m \in Seq(Call) /\ \A i \in 1..Len(m) : m[i] \in Call /\ m[i].to # "receiver"
  <2>1. Len(m) \in Nat /\ m \in [1..Len(m) -> OtherCall]
    BY LenProperties
  <2>2. \A i \in 1..Len(m) : m[i] \in Call /\ m[i].to # "receiver"
    BY <2>1, CallKinds
  <2>3. m \in [1..Len(m) -> Call]
    <3>1. m = [i \in 1..Len(m) |-> m[i]]
      BY <2>1
    <3> HIDE DEF Call
    <3> QED  BY <2>2, <3>1
  <2>4. m \in Seq(Call)
    BY <2>1, <2>3, IsASeq
  <2> QED  BY <2>2, <2>4
<1>2. /\ r \in Seq(Call) /\ Len(r) = Len(q) + Len(m)
      /\ \A i \in 1..Len(q) + Len(m) : r[i] = IF i <= Len(q) THEN q[i] ELSE m[i - Len(q)]
  BY <1>1, ConcatProperties
<1>3. Len(q) \in Nat /\ Len(m) \in Nat
  BY LenProperties
<1> HIDE DEF r
<1>4. \A i \in 1..Len(r) : i \in At(r, e) <=> r[i].to = "receiver" /\ r[i].event = e
  BY <1>2, Ats
<1>5. \A i \in 1..Len(q) : i \in At(q, e) <=> q[i].to = "receiver" /\ q[i].event = e
  BY Ats
<1>6. At(r, e) \in SUBSET (1..Len(r)) /\ At(q, e) \in SUBSET (1..Len(q))
  BY <1>2, Ats
<1>7. \A i \in 1..Len(q) : i \in 1..Len(r) /\ r[i] = q[i]
  BY <1>2, <1>3
<1>8. \A i \in 1..Len(r) : i \in 1..Len(q) \/ (i - Len(q) \in 1..Len(m) /\ r[i] = m[i - Len(q)])
  BY <1>2, <1>3
<1>9. \A i \in At(r, e) : i \in 1..Len(q)
  BY <1>1, <1>4, <1>6, <1>8
<1>10. At(r, e) = At(q, e)
  <2>1. ASSUME NEW i \in At(r, e) PROVE i \in At(q, e)
    BY <1>4, <1>5, <1>6, <1>7, <1>9
  <2>2. ASSUME NEW i \in At(q, e) PROVE i \in At(r, e)
    BY <1>4, <1>5, <1>6, <1>7
  <2> QED  BY <2>1, <2>2
<1> QED  BY <1>2, <1>6, <1>7, <1>10 DEF r

(* One call follows.                                                       *)
Appends(q, c, e) ==
  /\ Append(q, c) \in Seq(Call) /\ Append(q, c)[Len(q) + 1] = c /\ Len(q) + 1 \notin At(q, e)
  /\ \A i \in At(q, e) : Append(q, c)[i] = q[i]
  /\ At(Append(q, c), e) = IF c.to = "receiver" /\ c.event = e THEN At(q, e) \cup {Len(q) + 1} ELSE At(q, e)

LEMMA AtAppend ==
  ASSUME NEW q \in Seq(Call), NEW c \in Call, NEW e
  PROVE  Appends(q, c, e)
<1> DEFINE r == Append(q, c)
<1>1. /\ r \in Seq(Call) /\ Len(r) = Len(q) + 1 /\ r[Len(q) + 1] = c
      /\ \A i \in 1..Len(q) : r[i] = q[i]
  BY AppendProperties
<1>2. Len(q) \in Nat
  BY LenProperties
<1> HIDE DEF r
<1>3. \A i \in 1..Len(r) : i \in At(r, e) <=> r[i].to = "receiver" /\ r[i].event = e
  BY <1>1, Ats
<1>4. \A i \in 1..Len(q) : i \in At(q, e) <=> q[i].to = "receiver" /\ q[i].event = e
  BY Ats
<1>5. At(r, e) \in SUBSET (1..Len(r)) /\ At(q, e) \in SUBSET (1..Len(q))
  BY <1>1, Ats
<1>6. /\ \A i \in 1..Len(r) : i \in 1..Len(q) \/ i = Len(q) + 1
      /\ \A i \in 1..Len(q) : i \in 1..Len(r)
      /\ Len(q) + 1 \in 1..Len(r) /\ Len(q) + 1 \notin 1..Len(q)
  BY <1>1, <1>2
<1>7. CASE c.to = "receiver" /\ c.event = e
  <2>1. At(r, e) = At(q, e) \cup {Len(q) + 1}
    BY <1>1, <1>3, <1>4, <1>5, <1>6, <1>7
  <2> QED  BY <1>1, <1>5, <1>6, <1>7, <2>1 DEF Appends, r
<1>8. CASE ~ (c.to = "receiver" /\ c.event = e)
  <2>1. At(r, e) = At(q, e)
    <3>1. ASSUME NEW i \in At(r, e) PROVE i \in At(q, e)
      BY <1>1, <1>3, <1>4, <1>5, <1>6, <1>8
    <3>2. ASSUME NEW i \in At(q, e) PROVE i \in At(r, e)
      BY <1>1, <1>3, <1>4, <1>5, <1>6
    <3> QED  BY <3>1, <3>2
  <2> QED  BY <1>1, <1>5, <1>6, <1>8, <2>1 DEF Appends, r
<1> QED  BY <1>7, <1>8

-----------------------------------------------------------------------------
(* The counter of the data receiver.                                       *)

(* The openings that wait are no more than the streams.                    *)
LEMMA FewOpenings ==
  ASSUME NEW q \in Seq(Call), NEW S, IsFiniteSet(S), OpeningsOf(q, S)
  PROVE  Waiting(q, Opening) <= Cardinality(S)
<1> DEFINE A == At(q, Opening)
           f == [i \in A |-> q[i].message]
<1>1. /\ \A i \in A : q[i].message \in S
      /\ \A i, j \in A : q[i].message = q[j].message => i = j
  BY DEF OpeningsOf
<1> HIDE DEF A
<1>2. f \in Injection(A, S)
  BY <1>1 DEF Injection, IsInjective
<1>3. Cardinality(A) <= Cardinality(S)
  BY <1>2, FS_Injection
<1> QED  BY <1>3 DEF Waiting, A

(* The same openings and closings wait in r as in q.                       *)
SameStreams(q, r) ==
  /\ \A e \in Stream : Waiting(r, e) = Waiting(q, e)
  /\ \E d \in {0, 1} : \A i \in At(r, Opening) : i + d \in At(q, Opening) /\ r[i] = q[i + d]

LEMMA SameCounted ==
  ASSUME NEW q \in Seq(Call), NEW r \in Seq(Call), SameStreams(q, r),
         NEW c, NEW S, NEW f, Counted(c, S, q, f)
  PROVE  Counted(c, S, r, f)
<1>1. PICK d \in {0, 1} : \A i \in At(r, Opening) : i + d \in At(q, Opening) /\ r[i] = q[i + d]
  BY DEF SameStreams
<1>2. \A i \in At(r, Opening) : i \in Nat
  BY Ats
<1>3. OpeningsOf(r, S)
  <2>1. /\ \A i \in At(q, Opening) : q[i].message \in S
        /\ \A i, j \in At(q, Opening) : q[i].message = q[j].message => i = j
    BY DEF OpeningsOf, Counted
  <2>2. \A i \in At(r, Opening) : r[i].message \in S
    BY <1>1, <2>1
  <2>3. ASSUME NEW i \in At(r, Opening), NEW j \in At(r, Opening), r[i].message = r[j].message
        PROVE  i = j
    <3>1. i + d = j + d
      BY <1>1, <2>1, <2>3
    <3> QED  BY <1>2, <3>1
  <2> QED  BY <2>2, <2>3 DEF OpeningsOf
<1>4. Waiting(r, Opening) = Waiting(q, Opening) /\ Waiting(r, Closing) = Waiting(q, Closing)
  BY DEF SameStreams, Stream
<1>5. Excess(c, S, r) = Excess(c, S, q)
  BY <1>4 DEF Excess
<1> QED  BY <1>3, <1>5 DEF Counted

LEMMA QuietConcat ==
  ASSUME NEW q \in Seq(Call), NEW m \in Seq(OtherCall)
  PROVE  q \o m \in Seq(Call) /\ SameStreams(q, q \o m)
<1>1. \A e : At(q \o m, e) = At(q, e) /\ \A i \in At(q, e) : (q \o m)[i] = q[i]
  BY AtConcat
<1>2. \A i \in At(q, Opening) : i \in Nat /\ i + 0 = i
  BY Ats
<1>3. \A e : Waiting(q \o m, e) = Waiting(q, e)
  BY <1>1 DEF Waiting
<1>4. \A i \in At(q \o m, Opening) : i + 0 \in At(q, Opening) /\ (q \o m)[i] = q[i + 0]
  <2>1. At(q \o m, Opening) = At(q, Opening) /\ \A i \in At(q, Opening) : (q \o m)[i] = q[i]
    BY <1>1
  <2> HIDE DEF At
  <2> QED  BY <1>2, <2>1
<1>5. q \o m \in Seq(Call)
  BY AtConcat
<1> QED  BY <1>3, <1>4, <1>5 DEF SameStreams

LEMMA QuietTail ==
  ASSUME NEW q \in Seq(Call), q # <<>>, Head(q).to # "receiver"
  PROVE  Tail(q) \in Seq(Call) /\ SameStreams(q, Tail(q))
<1>1. \A e : Waiting(Tail(q), e) = Waiting(q, e)
  BY AtTail
<1>2. \A i \in At(Tail(q), Opening) : i + 1 \in At(q, Opening) /\ Tail(q)[i] = q[i + 1]
  BY AtTail
<1> QED  BY <1>1, <1>2, FirstCall DEF SameStreams

LEMMA QuietAppend ==
  ASSUME NEW q \in Seq(Call), NEW c \in OtherCall
  PROVE  Append(q, c) \in Seq(Call) /\ SameStreams(q, Append(q, c))
<1>1. c \in Call /\ c.to # "receiver"
  BY CallKinds
<1>2. ASSUME NEW e
      PROVE  /\ At(Append(q, c), e) = At(q, e) /\ Append(q, c) \in Seq(Call)
             /\ \A i \in At(q, e) : Append(q, c)[i] = q[i]
  <2>1. Appends(q, c, e)
    BY <1>1, AtAppend
  <2> QED  BY <1>1, <2>1 DEF Appends
<1>3. \A i \in At(q, Opening) : i \in Nat /\ i + 0 = i
  BY Ats
<1>4. \A e : Waiting(Append(q, c), e) = Waiting(q, e)
  BY <1>2 DEF Waiting
<1>5. \A i \in At(Append(q, c), Opening) : i + 0 \in At(q, Opening) /\ Append(q, c)[i] = q[i + 0]
  <2>1. At(Append(q, c), Opening) = At(q, Opening) /\ \A i \in At(q, Opening) : Append(q, c)[i] = q[i]
    BY <1>2
  <2> QED  BY <1>3, <2>1
<1> QED  BY <1>2, <1>4, <1>5 DEF SameStreams

(* An opening is handled: the counter goes up.                             *)
LEMMA OpeningHandled ==
  ASSUME NEW q \in Seq(Call), q # <<>>, Head(q).to = "receiver", Head(q).event = Opening,
         NEW c, NEW S, IsFiniteSet(S), NEW f \in Nat, Counted(c, S, q, f)
  PROVE  Counted(c + 1, S, Tail(q), f)
<1> DEFINE t == Tail(q)
<1>1. t \in Seq(Call) /\ Waiting(t, Opening) = Waiting(q, Opening) - 1 /\ Waiting(t, Closing) = Waiting(q, Closing)
  BY AtTail, FirstCall DEF Opening, Closing
<1>2. \A i \in At(t, Opening) : i + 1 \in At(q, Opening) /\ t[i] = q[i + 1] /\ i \in Nat
  <2>1. \A i \in At(t, Opening) : i + 1 \in At(q, Opening) /\ t[i] = q[i + 1]
    BY AtTail
  <2> HIDE DEF t
  <2>2. At(t, Opening) \in SUBSET (1..Len(t))
    BY <1>1, Ats
  <2> QED  BY <2>1, <2>2
<1> HIDE DEF t
<1>3. OpeningsOf(t, S)
  BY <1>2 DEF OpeningsOf, Counted
<1>4. Waiting(q, Opening) \in Nat /\ Waiting(q, Closing) \in Nat /\ Cardinality(S) \in Nat
  BY Ats, FS_CardinalityType
<1>5. Excess(c + 1, S, t) = Excess(c, S, q) /\ c + 1 \in Nat
  BY <1>1, <1>4 DEF Excess, Counted
<1> QED  BY <1>3, <1>5 DEF Counted, t

(* A closing is handled: it was counted, and the counter goes down.        *)
LEMMA ClosingHandled ==
  ASSUME NEW q \in Seq(Call), q # <<>>, Head(q).to = "receiver", Head(q).event = Closing,
         NEW c, NEW S, IsFiniteSet(S), NEW f \in Nat, Counted(c, S, q, f)
  PROVE  c > 0 /\ Counted(c - 1, S, Tail(q), f)
<1> DEFINE t == Tail(q)
<1>1. t \in Seq(Call) /\ Waiting(t, Opening) = Waiting(q, Opening) /\ Waiting(t, Closing) = Waiting(q, Closing) - 1
  BY AtTail, FirstCall DEF Opening, Closing
<1>2. \A i \in At(t, Opening) : i + 1 \in At(q, Opening) /\ t[i] = q[i + 1] /\ i \in Nat
  <2>1. \A i \in At(t, Opening) : i + 1 \in At(q, Opening) /\ t[i] = q[i + 1]
    BY AtTail
  <2> HIDE DEF t
  <2>2. At(t, Opening) \in SUBSET (1..Len(t))
    BY <1>1, Ats
  <2> QED  BY <2>1, <2>2
<1> HIDE DEF t
<1>3. OpeningsOf(t, S)
  BY <1>2 DEF OpeningsOf, Counted
<1>4. /\ Waiting(q, Opening) \in Nat /\ Waiting(t, Closing) \in Nat /\ Cardinality(S) \in Nat
      /\ Waiting(q, Closing) \in Nat
  BY <1>1, Ats, FS_CardinalityType
<1>5. Waiting(q, Opening) <= Cardinality(S)
  BY FewOpenings DEF Counted
<1>6. c \in Nat /\ Excess(c, S, q) \in 0..f
  BY DEF Counted
<1>7. c > 0
  BY <1>1, <1>4, <1>5, <1>6 DEF Excess
<1>8. Excess(c - 1, S, t) = Excess(c, S, q) /\ c - 1 \in Nat
  BY <1>1, <1>4, <1>6, <1>7 DEF Excess
<1> QED  BY <1>3, <1>6, <1>7, <1>8 DEF Counted, t

(* A stream opens.                                                         *)
LEMMA StreamOpened ==
  ASSUME NEW q \in Seq(Call), NEW S \in SUBSET Transfer, IsFiniteSet(S), NEW m \in Transfer, m \notin S,
         NEW c, NEW f \in Nat, Counted(c, S, q, f)
  PROVE  /\ Append(q, ToReceiver(Opening, m)) \in Seq(Call)
         /\ Counted(c, S \cup {m}, Append(q, ToReceiver(Opening, m)), f)
<1> DEFINE k == ToReceiver(Opening, m)
           r == Append(q, k)
<1>1. k \in Call /\ k.to = "receiver" /\ k.event = Opening /\ k.message = m
  BY CallKinds DEF Stream
<1>0. Opening # Closing
  BY DEF Opening, Closing
<1> HIDE DEF k
<1>2. /\ r \in Seq(Call) /\ r[Len(q) + 1] = k /\ Len(q) + 1 \notin At(q, Opening)
      /\ \A i \in At(q, Opening) : r[i] = q[i]
      /\ At(r, Opening) = At(q, Opening) \cup {Len(q) + 1}
      /\ At(r, Closing) = At(q, Closing)
  <2>1. Appends(q, k, Opening) /\ Appends(q, k, Closing)
    BY <1>1, AtAppend
  <2> QED  BY <1>0, <1>1, <2>1 DEF Appends
<1> HIDE DEF r
<1>3. \A i \in At(q, Opening) : q[i].message \in S
  BY DEF OpeningsOf, Counted
<1>4. \A i, j \in At(q, Opening) : q[i].message = q[j].message => i = j
  BY DEF OpeningsOf, Counted
<1>5. \A i \in At(r, Opening) :
        \/ i \in At(q, Opening) /\ r[i].message = q[i].message /\ r[i].message # m
        \/ i = Len(q) + 1 /\ r[i].message = m
  BY <1>1, <1>2, <1>3
<1>6. \A i \in At(r, Opening) : r[i].message \in S \cup {m}
  BY <1>3, <1>5
<1>7. \A i, j \in At(r, Opening) : r[i].message = r[j].message => i = j
  BY <1>4, <1>5
<1>8. OpeningsOf(r, S \cup {m})
  BY <1>6, <1>7 DEF OpeningsOf
<1>9. Cardinality(S \cup {m}) = Cardinality(S) + 1 /\ Cardinality(S) \in Nat
  BY FS_AddElement, FS_CardinalityType
<1>10. /\ Waiting(r, Opening) = Waiting(q, Opening) + 1 /\ Waiting(r, Closing) = Waiting(q, Closing)
       /\ Waiting(q, Opening) \in Nat /\ Waiting(q, Closing) \in Nat
  BY <1>2, Ats, FS_AddElement DEF Waiting
<1>11. Excess(c, S \cup {m}, r) = Excess(c, S, q)
  BY <1>9, <1>10 DEF Excess, Counted
<1> QED  BY <1>2, <1>8, <1>11 DEF Counted, k, r

(* The opening of m is not waiting: m may go.                              *)
LEMMA NotOpening ==
  ASSUME NEW q \in Seq(Call), NEW m \in Transfer, ToReceiver(Opening, m) \notin ToSet(q),
         NEW S, OpeningsOf(q, S)
  PROVE  OpeningsOf(q, S \ {m})
<1>1. ASSUME NEW i \in At(q, Opening), q[i].message = m PROVE FALSE
  <2>1. i \in 1..Len(q) /\ q[i].to = "receiver" /\ q[i].event = Opening
    BY Ats
  <2>2. q[i] \in Call /\ q[i] \in ToSet(q)
    BY <2>1, LenProperties, ElementOfSeq DEF ToSet
  <2>3. q[i] \in [to : {"receiver"}, event : Stream, message : Transfer]
    BY <2>1, <2>2, CallKinds DEF Call
  <2>4. q[i] = ToReceiver(Opening, m)
    BY <1>1, <2>1, <2>3 DEF ToReceiver
  <2> QED  BY <2>2, <2>4
<1> QED  BY <1>1 DEF OpeningsOf

(* A stream closes.                                                        *)
LEMMA StreamClosed ==
  ASSUME NEW q \in Seq(Call), NEW S \in SUBSET Transfer, IsFiniteSet(S), NEW m \in S,
         ToReceiver(Opening, m) \notin ToSet(q), NEW c, NEW f \in Nat, Counted(c, S, q, f)
  PROVE  /\ Append(q, ToReceiver(Closing, m)) \in Seq(Call)
         /\ Counted(c, S \ {m}, Append(q, ToReceiver(Closing, m)), f)
<1> DEFINE k == ToReceiver(Closing, m)
           r == Append(q, k)
<1>1. k \in Call /\ k.to = "receiver" /\ k.event = Closing
  BY CallKinds DEF Stream
<1>0. Opening # Closing
  BY DEF Opening, Closing
<1> HIDE DEF k
<1>2. /\ r \in Seq(Call) /\ Len(q) + 1 \notin At(q, Closing)
      /\ \A i \in At(q, Opening) : r[i] = q[i]
      /\ At(r, Closing) = At(q, Closing) \cup {Len(q) + 1}
      /\ At(r, Opening) = At(q, Opening)
  <2>1. Appends(q, k, Opening) /\ Appends(q, k, Closing)
    BY <1>1, AtAppend
  <2> QED  BY <1>0, <1>1, <2>1 DEF Appends
<1> HIDE DEF r
<1>3. OpeningsOf(q, S \ {m})
  BY NotOpening DEF Counted
<1>4. OpeningsOf(r, S \ {m})
  BY <1>2, <1>3 DEF OpeningsOf
<1>5. Cardinality(S \ {m}) = Cardinality(S) - 1 /\ Cardinality(S) \in Nat
  BY FS_RemoveElement, FS_CardinalityType
<1>6. /\ Waiting(r, Closing) = Waiting(q, Closing) + 1 /\ Waiting(r, Opening) = Waiting(q, Opening)
      /\ Waiting(q, Opening) \in Nat /\ Waiting(q, Closing) \in Nat
  BY <1>2, Ats, FS_AddElement DEF Waiting
<1>7. Excess(c, S \ {m}, r) = Excess(c, S, q)
  BY <1>5, <1>6 DEF Excess, Counted
<1> QED  BY <1>2, <1>4, <1>7 DEF Counted, k, r

(* A transfer fails, and is never taken off.                               *)
LEMMA StreamLost ==
  ASSUME NEW q \in Seq(Call), NEW S \in SUBSET Transfer, IsFiniteSet(S), NEW m \in S,
         ToReceiver(Opening, m) \notin ToSet(q), NEW c, NEW f \in Nat, Counted(c, S, q, f)
  PROVE  Counted(c, S \ {m}, q, f + 1)
<1>1. OpeningsOf(q, S \ {m})
  BY NotOpening DEF Counted
<1>2. Cardinality(S \ {m}) = Cardinality(S) - 1 /\ Cardinality(S) \in Nat
  BY FS_RemoveElement, FS_CardinalityType
<1>3. Waiting(q, Opening) \in Nat /\ Waiting(q, Closing) \in Nat
  BY Ats
<1>4. Excess(c, S \ {m}, q) = Excess(c, S, q) + 1
  BY <1>2, <1>3 DEF Excess, Counted
<1> QED  BY <1>1, <1>4 DEF Counted

LEMMA MoreExcess ==
  ASSUME NEW c, NEW S, NEW q, NEW f \in Nat, Counted(c, S, q, f)
  PROVE  Counted(c, S, q, f + 1)
BY DEF Counted

-----------------------------------------------------------------------------
(* What is posted.                                                         *)

LEMMA Pieces ==
  /\ \A p \in Piece : p[1] \in Block /\ p[2] \in {"D", "P"} /\ p[3] \in Number
  /\ \A n \in Block, s \in Number : <<n, "D", s>> \in Piece /\ <<n, "P", s>> \in Piece
BY DEF Piece

LEMMA PostedCalls ==
  /\ \A e \in PlainEvent : ToWorker(e, NoPiece) \in OtherCall
  /\ \A p \in Piece : ToWorker("request-failed", p) \in OtherCall
  /\ \A p \in Piece, new \in BOOLEAN : Data(p, new) \in OtherCall
  /\ \A m \in Transfer : Inbox(m) \in OtherCall
  /\ \A set \in SUBSET Number : [to |-> "worker", event |-> "raid-done", read |-> set] \in OtherCall
<1>1. \A e \in PlainEvent : ToWorker(e, NoPiece) \in PlainCall
  BY DEF ToWorker, PlainCall
<1>2. \A p \in Piece : ToWorker("request-failed", p) \in FailCall
  BY DEF ToWorker, FailCall
<1>3. \A p \in Piece, new \in BOOLEAN : Data(p, new) \in DataCall
  BY DEF Data, DataCall
<1>4. \A m \in Transfer : Inbox(m) \in [to : {"inbox"}, message : Transfer]
  BY DEF Inbox
<1>5. \A set \in SUBSET Number : [to |-> "worker", event |-> "raid-done", read |-> set] \in ReadCall
  BY DEF ReadCall
<1> QED  BY <1>1, <1>2, <1>3, <1>4, <1>5 DEF OtherCall

(* What a call that is handled carries.                                    *)
LEMMA Carries ==
  ASSUME NEW c \in Call
  PROVE  /\ c.to = "worker" /\ c.event = "data-received" => c.piece \in Piece
         /\ c.to \in {"receiver", "inbox"} => c.message \in Transfer
         /\ c.to = "receiver" => c.event \in {Opening, Closing}
<1>1. CASE c \in PlainCall
  BY <1>1 DEF PlainCall, PlainEvent
<1>2. CASE c \in FailCall
  BY <1>2 DEF FailCall
<1>3. CASE c \in DataCall
  BY <1>3 DEF DataCall
<1>4. CASE c \in ReadCall
  BY <1>4 DEF ReadCall
<1>5. CASE c \in [to : {"inbox"}, message : Transfer]
  BY <1>5
<1>6. CASE c \in [to : {"receiver"}, event : Stream, message : Transfer]
  BY <1>6 DEF Stream
<1> QED  BY <1>1, <1>2, <1>3, <1>4, <1>5, <1>6 DEF Call, OtherCall

LEMMA Transfers ==
  /\ \A m \in Transfer : m.what # "ack" => m.of \in Piece
  /\ \A p \in Piece, w \in {"data", "fail", "broken"} : [what |-> w, of |-> p] \in Transfer
  /\ \A s \in Number : [what |-> "ack", of |-> <<s>>] \in Transfer
<1>1. \A m \in Answer : m.of \in Piece
  BY DEF Answer
<1>2. \A m \in Pong : m.what = "ack"
  BY DEF Pong
<1>3. \A p \in Piece, w \in {"data", "fail", "broken"} : [what |-> w, of |-> p] \in Answer
  BY DEF Answer
<1>4. \A s \in Number : [what |-> "ack", of |-> <<s>>] \in Pong
  BY DEF Pong
<1> QED  BY <1>1, <1>2, <1>3, <1>4 DEF Transfer

LEMMA PostedLists ==
  /\ <<>> \in Seq(OtherCall)
  /\ \A c \in OtherCall : <<c>> \in Seq(OtherCall)
  /\ \A a, b \in Seq(OtherCall) : a \o b \in Seq(OtherCall)
BY EmptySeq, ConcatProperties

(* doRequestPackets and the requests tell of pieces.                       *)
LEMMA TellsPieces ==
  ASSUME NEW existing \in Seq(Piece), NEW failing \in Seq(Piece)
  PROVE  Told(existing, failing) \in Seq(OtherCall)
<1> DEFINE a == [i \in DOMAIN existing |-> Data(existing[i], FALSE)]
           b == [i \in DOMAIN failing |-> ToWorker("request-failed", failing[i])]
<1>1. /\ Len(existing) \in Nat /\ DOMAIN existing = 1..Len(existing)
      /\ Len(failing) \in Nat /\ DOMAIN failing = 1..Len(failing)
      /\ \A i \in 1..Len(existing) : existing[i] \in Piece
      /\ \A i \in 1..Len(failing) : failing[i] \in Piece
  BY LenProperties, ElementOfSeq
<1>2. \A i \in 1..Len(existing) : Data(existing[i], FALSE) \in OtherCall
  BY <1>1, PostedCalls
<1>3. \A i \in 1..Len(failing) : ToWorker("request-failed", failing[i]) \in OtherCall
  BY <1>1, PostedCalls
<1>4. a \in Seq(OtherCall)
  <2>1. a \in [1..Len(existing) -> OtherCall]
    BY <1>1, <1>2
  <2> HIDE DEF a
  <2> QED  BY <1>1, <2>1, IsASeq
<1>5. b \in Seq(OtherCall)
  <2>1. b \in [1..Len(failing) -> OtherCall]
    BY <1>1, <1>3
  <2> QED  BY <1>1, <2>1, IsASeq
<1>6. Told(existing, failing) = a \o b
  BY DEF Told
<1> HIDE DEF a, b
<1> QED  BY <1>4, <1>5, <1>6, PostedLists

-----------------------------------------------------------------------------
(* The queues of requests.                                                 *)

(* r is a queue that q may become, and nothing is asked for anew.          *)
Lessens(q, r) == SoundQueue(r) /\ (q.queue = <<>> => r.queue = <<>>)

LEMMA NothingIn ==
  ASSUME NEW S, NEW q \in Seq(S)
  PROVE  ToSet(q) = {} <=> q = <<>>
<1>1. Len(q) \in Nat /\ DOMAIN q = 1..Len(q) /\ (q = <<>> <=> Len(q) = 0)
  BY LenProperties, EmptySeq
<1>2. ASSUME q # <<>> PROVE ToSet(q) # {}
  <2>1. 1 \in DOMAIN q
    BY <1>1, <1>2
  <2> QED  BY <2>1 DEF ToSet
<1>3. ASSUME q = <<>> PROVE ToSet(q) = {}
  BY <1>1, <1>3 DEF ToSet
<1> QED  BY <1>2, <1>3

LEMMA Fields ==
  ASSUME NEW q, SoundQueue(q)
  PROVE  /\ q.queue \in Seq(Piece) /\ q.dict \in SUBSET Piece /\ q.asked \in SUBSET Piece
         /\ q.failed \in [Piece -> Nat]
         /\ IsInjective(q.queue) /\ ToSet(q.queue) \subseteq q.dict /\ q.asked \subseteq q.dict
         /\ q = [queue |-> q.queue, dict |-> q.dict, asked |-> q.asked, failed |-> q.failed]
BY DEF SoundQueue, QueueFields

LEMMA Record ==
  ASSUME NEW q, SoundQueue(q), NEW r, DOMAIN r = DOMAIN q, r = [x \in DOMAIN q |-> r[x]]
  PROVE  r = [queue |-> r.queue, dict |-> r.dict, asked |-> r.asked, failed |-> r.failed]
<1>1. DOMAIN q = {"queue", "dict", "asked", "failed"}
  BY DEF SoundQueue, QueueFields
<1> QED  BY <1>1

LEMMA QueueDictSet ==
  ASSUME NEW q, SoundQueue(q), NEW l, NEW d
  PROVE  [q EXCEPT !.queue = l, !.dict = d] = [queue |-> l, dict |-> d, asked |-> q.asked, failed |-> q.failed]
<1> DEFINE r == [q EXCEPT !.queue = l, !.dict = d]
<1>1. DOMAIN q = {"queue", "dict", "asked", "failed"} /\ q = [x \in DOMAIN q |-> q[x]]
  BY DEF SoundQueue, QueueFields
<1>2. DOMAIN r = DOMAIN q /\ r = [x \in DOMAIN q |-> r[x]]
  OBVIOUS
<1>3. r.queue = l /\ r.dict = d /\ r.asked = q.asked /\ r.failed = q.failed
  BY <1>1
<1> HIDE DEF r
<1>4. r = [queue |-> r.queue, dict |-> r.dict, asked |-> r.asked, failed |-> r.failed]
  BY <1>2, Record
<1> QED  BY <1>3, <1>4 DEF r

LEMMA ThreeSet ==
  ASSUME NEW q, SoundQueue(q), NEW l, NEW d, NEW a
  PROVE  [q EXCEPT !.queue = l, !.dict = d, !.asked = a] = [queue |-> l, dict |-> d, asked |-> a, failed |-> q.failed]
<1> DEFINE r == [q EXCEPT !.queue = l, !.dict = d, !.asked = a]
<1>1. DOMAIN q = {"queue", "dict", "asked", "failed"} /\ q = [x \in DOMAIN q |-> q[x]]
  BY DEF SoundQueue, QueueFields
<1>2. DOMAIN r = DOMAIN q /\ r = [x \in DOMAIN q |-> r[x]]
  OBVIOUS
<1>3. r.queue = l /\ r.dict = d /\ r.asked = a /\ r.failed = q.failed
  BY <1>1
<1> HIDE DEF r
<1>4. r = [queue |-> r.queue, dict |-> r.dict, asked |-> r.asked, failed |-> r.failed]
  BY <1>2, Record
<1> QED  BY <1>3, <1>4 DEF r

LEMMA AskedFailedSet ==
  ASSUME NEW q, SoundQueue(q), NEW a, NEW f
  PROVE  [q EXCEPT !.asked = a, !.failed = f] = [queue |-> q.queue, dict |-> q.dict, asked |-> a, failed |-> f]
<1> DEFINE r == [q EXCEPT !.asked = a, !.failed = f]
<1>1. DOMAIN q = {"queue", "dict", "asked", "failed"} /\ q = [x \in DOMAIN q |-> q[x]]
  BY DEF SoundQueue, QueueFields
<1>2. DOMAIN r = DOMAIN q /\ r = [x \in DOMAIN q |-> r[x]]
  OBVIOUS
<1>3. r.queue = q.queue /\ r.dict = q.dict /\ r.asked = a /\ r.failed = f
  BY <1>1
<1> HIDE DEF r
<1>4. r = [queue |-> r.queue, dict |-> r.dict, asked |-> r.asked, failed |-> r.failed]
  BY <1>2, Record
<1> QED  BY <1>3, <1>4 DEF r

LEMMA QueueSet ==
  ASSUME NEW q, SoundQueue(q), NEW l
  PROVE  [q EXCEPT !.queue = l] = [queue |-> l, dict |-> q.dict, asked |-> q.asked, failed |-> q.failed]
<1> DEFINE r == [q EXCEPT !.queue = l]
<1>1. DOMAIN q = {"queue", "dict", "asked", "failed"} /\ q = [x \in DOMAIN q |-> q[x]]
  BY DEF SoundQueue, QueueFields
<1>2. DOMAIN r = DOMAIN q /\ r = [x \in DOMAIN q |-> r[x]]
  OBVIOUS
<1>3. r.queue = l /\ r.dict = q.dict /\ r.asked = q.asked /\ r.failed = q.failed
  BY <1>1
<1> HIDE DEF r
<1>4. r = [queue |-> r.queue, dict |-> r.dict, asked |-> r.asked, failed |-> r.failed]
  BY <1>2, Record
<1> QED  BY <1>3, <1>4 DEF r

LEMMA FailedSet ==
  ASSUME NEW q, SoundQueue(q), NEW f
  PROVE  [q EXCEPT !.failed = f] = [queue |-> q.queue, dict |-> q.dict, asked |-> q.asked, failed |-> f]
<1> DEFINE r == [q EXCEPT !.failed = f]
<1>1. DOMAIN q = {"queue", "dict", "asked", "failed"} /\ q = [x \in DOMAIN q |-> q[x]]
  BY DEF SoundQueue, QueueFields
<1>2. DOMAIN r = DOMAIN q /\ r = [x \in DOMAIN q |-> r[x]]
  OBVIOUS
<1>3. r.queue = q.queue /\ r.dict = q.dict /\ r.asked = q.asked /\ r.failed = f
  BY <1>1
<1> HIDE DEF r
<1>4. r = [queue |-> r.queue, dict |-> r.dict, asked |-> r.asked, failed |-> r.failed]
  BY <1>2, Record
<1> QED  BY <1>3, <1>4 DEF r

LEMMA Sound ==
  ASSUME NEW l \in Seq(Piece), NEW d \in SUBSET Piece, NEW a \in SUBSET Piece, NEW f \in [Piece -> Nat],
         IsInjective(l), ToSet(l) \subseteq d, a \subseteq d,
         NEW q, q = [queue |-> l, dict |-> d, asked |-> a, failed |-> f]
  PROVE  SoundQueue(q) /\ q \in QueueFields
BY DEF SoundQueue, QueueFields

LEMMA NewSound == SoundQueue(NewRequests(Piece)) /\ NewRequests(Piece).queue = <<>>
<1>1. <<>> \in Seq(Piece) /\ IsInjective(<<>>) /\ ToSet(<<>>) = {}
  <2>1. <<>> \in Seq(Piece) /\ DOMAIN <<>> = {}
    BY EmptySeq
  <2> QED  BY <2>1 DEF IsInjective, ToSet
<1>2. [p \in Piece |-> 0] \in [Piece -> Nat]
  OBVIOUS
<1> QED  BY <1>1, <1>2, Sound DEF NewRequests

(* Among two packets those that are not known are asked for.               *)
LEMMA AskedSound ==
  ASSUME NEW q, SoundQueue(q), NEW ps \in Seq(Piece), IsInjective(ps), ToSet(ps) \cap q.dict = {}
  PROVE  SoundQueue(Asked(q, ps))
<1> DEFINE l == q.queue
           r == l \o ps
<1>1. /\ l \in Seq(Piece) /\ q.dict \in SUBSET Piece /\ q.asked \in SUBSET Piece
      /\ q.failed \in [Piece -> Nat] /\ IsInjective(l) /\ ToSet(l) \subseteq q.dict /\ q.asked \subseteq q.dict
      /\ q = [queue |-> l, dict |-> q.dict, asked |-> q.asked, failed |-> q.failed]
  BY Fields
<1> HIDE DEF l
<1>2. /\ r \in Seq(Piece) /\ Len(r) = Len(l) + Len(ps)
      /\ \A i \in 1..Len(l) + Len(ps) : r[i] = IF i <= Len(l) THEN l[i] ELSE ps[i - Len(l)]
  BY <1>1, ConcatProperties
<1>3. /\ Len(l) \in Nat /\ Len(ps) \in Nat /\ DOMAIN l = 1..Len(l) /\ DOMAIN ps = 1..Len(ps)
      /\ DOMAIN r = 1..Len(l) + Len(ps)
  BY <1>1, <1>2, LenProperties
<1> HIDE DEF r
<1>0. /\ \A i, j \in 1..Len(l) : l[i] = l[j] => i = j
      /\ \A i, j \in 1..Len(ps) : ps[i] = ps[j] => i = j
  BY <1>1, <1>3 DEF IsInjective
<1>4. ASSUME NEW i \in 1..Len(l) + Len(ps)
      PROVE  \/ i \in 1..Len(l) /\ r[i] = l[i] /\ r[i] \in ToSet(l)
             \/ i > Len(l) /\ i - Len(l) \in 1..Len(ps) /\ r[i] = ps[i - Len(l)] /\ r[i] \in ToSet(ps)
  BY <1>2, <1>3 DEF ToSet
<1>5. ToSet(r) \subseteq ToSet(l) \cup ToSet(ps)
  BY <1>3, <1>4 DEF ToSet
<1>6. IsInjective(r)
  <2>1. SUFFICES ASSUME NEW i \in 1..Len(l) + Len(ps), NEW j \in 1..Len(l) + Len(ps), r[i] = r[j]
                 PROVE  i = j
    BY <1>3 DEF IsInjective
  <2>2. CASE i \in 1..Len(l) /\ j \in 1..Len(l)
    BY <1>0, <1>3, <1>4, <2>1, <2>2
  <2>3. CASE i > Len(l) /\ j > Len(l)
    <3>1. /\ i - Len(l) \in 1..Len(ps) /\ j - Len(l) \in 1..Len(ps)
          /\ ps[i - Len(l)] = ps[j - Len(l)]
      <4>1. ~ (i \in 1..Len(l)) /\ ~ (j \in 1..Len(l))
        BY <1>3, <2>3
      <4> QED  BY <1>4, <2>1, <4>1
    <3>2. i - Len(l) = j - Len(l)
      BY <1>0, <3>1
    <3> QED  BY <1>3, <3>2
  <2>4. CASE i \in 1..Len(l) /\ j > Len(l)
    <3>1. r[i] \in ToSet(l) /\ r[j] \in ToSet(ps)
      BY <1>3, <1>4, <2>4
    <3> QED  BY <1>1, <2>1, <3>1
  <2>5. CASE i > Len(l) /\ j \in 1..Len(l)
    <3>1. r[i] \in ToSet(ps) /\ r[j] \in ToSet(l)
      BY <1>3, <1>4, <2>5
    <3> QED  BY <1>1, <2>1, <3>1
  <2> QED  BY <1>3, <2>2, <2>3, <2>4, <2>5
<1>7. ToSet(ps) \subseteq Piece
  BY <1>3, ElementOfSeq DEF ToSet
<1>8. Asked(q, ps) = [queue |-> r, dict |-> q.dict \cup ToSet(ps), asked |-> q.asked, failed |-> q.failed]
  <2>1. Asked(q, ps) = [q EXCEPT !.queue = q.queue \o ps, !.dict = q.dict \cup ToSet(ps)]
    BY DEF Asked
  <2> QED  BY <2>1, QueueDictSet DEF r, l
<1>9. /\ q.dict \cup ToSet(ps) \in SUBSET Piece
      /\ ToSet(r) \subseteq q.dict \cup ToSet(ps) /\ q.asked \subseteq q.dict \cup ToSet(ps)
  BY <1>1, <1>5, <1>7
<1> QED  BY <1>1, <1>2, <1>6, <1>8, <1>9, Sound

(* Packets are taken out of a queue.                                       *)
LEMMA WithoutSound ==
  ASSUME NEW q, SoundQueue(q), NEW R
  PROVE  /\ Lessens(q, Without(q, R))
         /\ Without(q, R) = [queue |-> Among(q.queue, ToSet(q.queue) \ R), dict |-> q.dict \ R,
                             asked |-> q.asked \ R, failed |-> q.failed]
         /\ ToSet(Without(q, R).queue) = ToSet(q.queue) \ R
<1> DEFINE l == Among(q.queue, ToSet(q.queue) \ R)
           r == Without(q, R)
<1>1. /\ q.queue \in Seq(Piece) /\ q.dict \in SUBSET Piece /\ q.asked \in SUBSET Piece
      /\ q.failed \in [Piece -> Nat] /\ IsInjective(q.queue)
      /\ ToSet(q.queue) \subseteq q.dict /\ q.asked \subseteq q.dict
  BY Fields
<1>2. l \in Seq(Piece) /\ ToSet(l) = ToSet(q.queue) \cap (ToSet(q.queue) \ R) /\ IsInjective(l)
  BY <1>1, AmongType
<1>3. r = [q EXCEPT !.queue = l, !.dict = q.dict \ R, !.asked = q.asked \ R]
  BY DEF Without
<1> HIDE DEF l, r
<1>4. r = [queue |-> l, dict |-> q.dict \ R, asked |-> q.asked \ R, failed |-> q.failed]
  BY <1>3, ThreeSet
<1>5. ToSet(l) = ToSet(q.queue) \ R
  BY <1>2
<1>6. ToSet(l) \subseteq q.dict \ R /\ q.asked \ R \subseteq q.dict \ R
  BY <1>1, <1>5
<1>7. q.dict \ R \in SUBSET Piece /\ q.asked \ R \in SUBSET Piece
  BY <1>1
<1>8. SoundQueue(r)
  BY <1>1, <1>2, <1>4, <1>6, <1>7, Sound
<1>9. r.queue = l
  BY <1>4
<1>10. q.queue = <<>> => l = <<>>
  <2>1. SUFFICES ASSUME q.queue = <<>> PROVE l = <<>>
    OBVIOUS
  <2>2. ToSet(q.queue) = {}
    BY <1>1, <2>1, NothingIn
  <2>3. ToSet(l) = {}
    BY <1>5, <2>2
  <2> QED  BY <1>2, <2>3, NothingIn
<1> QED  BY <1>4, <1>5, <1>8, <1>9, <1>10 DEF Lessens, l, r

(* Nothing of a backup is left.                                            *)
LEMMA DeletedSound ==
  ASSUME NEW q, SoundQueue(q)
  PROVE  Lessens(q, DeleteRequests(q, Piece)) /\ DeleteRequests(q, Piece).queue = <<>>
<1> DEFINE R == Piece \cap ToSet(q.queue)
           r == Without(q, R)
<1>1. Lessens(q, r) /\ ToSet(r.queue) = ToSet(q.queue) \ R
  BY WithoutSound
<1>2. q.queue \in Seq(Piece)
  BY Fields
<1>3. ToSet(q.queue) \subseteq Piece
  BY Fields
<1>4. ToSet(r.queue) = {}
  BY <1>1, <1>3
<1> HIDE DEF r
<1>5. r.queue \in Seq(Piece)
  BY <1>1, Fields DEF Lessens
<1>6. r.queue = <<>>
  BY <1>4, <1>5, NothingIn
<1> QED  BY <1>1, <1>6 DEF DeleteRequests, r

LEMMA ReceivedSound ==
  ASSUME NEW q, SoundQueue(q), NEW p, NEW what
  PROVE  Lessens(q, OnDataReceived(q, p, what))
<1>1. CASE what # "broken"
  BY <1>1, WithoutSound DEF OnDataReceived
<1>2. CASE what = "broken"
  <2> DEFINE l == Among(q.queue, ToSet(q.queue) \ {p})
             r == [q EXCEPT !.queue = l]
  <2>1. /\ q.queue \in Seq(Piece) /\ q.dict \in SUBSET Piece /\ q.asked \in SUBSET Piece
        /\ q.failed \in [Piece -> Nat] /\ IsInjective(q.queue)
        /\ ToSet(q.queue) \subseteq q.dict /\ q.asked \subseteq q.dict
    BY Fields
  <2>2. l \in Seq(Piece) /\ ToSet(l) = ToSet(q.queue) \cap (ToSet(q.queue) \ {p}) /\ IsInjective(l)
    BY <2>1, AmongType
  <2>3. OnDataReceived(q, p, what) = r
    BY <1>2 DEF OnDataReceived
  <2> HIDE DEF l
  <2>4. r = [queue |-> l, dict |-> q.dict, asked |-> q.asked, failed |-> q.failed]
    BY QueueSet
  <2>5. ToSet(l) \subseteq q.dict
    BY <2>1, <2>2
  <2> HIDE DEF r
  <2>6. SoundQueue(r) /\ r.queue = l
    BY <2>1, <2>2, <2>4, <2>5, Sound
  <2>7. q.queue = <<>> => l = <<>>
    <3>1. SUFFICES ASSUME q.queue = <<>> PROVE l = <<>>
      OBVIOUS
    <3>2. ToSet(q.queue) = {}
      BY <2>1, <3>1, NothingIn
    <3>3. ToSet(l) = {}
      BY <2>2, <3>2
    <3> QED  BY <2>2, <3>3, NothingIn
  <2> QED  BY <2>3, <2>6, <2>7 DEF Lessens
<1> QED  BY <1>1, <1>2

LEMMA NotSentSound ==
  ASSUME NEW q, SoundQueue(q), NEW p \in Piece
  PROVE  Lessens(q, NotSent(q, p))
<1>1. CASE p \notin ToSet(q.queue)
  BY <1>1 DEF NotSent, Lessens
<1>2. CASE p \in ToSet(q.queue)
  <2> DEFINE f == [q.failed EXCEPT ![p] = q.failed[p] + 1]
             r == [q EXCEPT !.failed = f]
  <2>1. /\ q.queue \in Seq(Piece) /\ q.dict \in SUBSET Piece /\ q.asked \in SUBSET Piece
        /\ q.failed \in [Piece -> Nat] /\ IsInjective(q.queue)
        /\ ToSet(q.queue) \subseteq q.dict /\ q.asked \subseteq q.dict
    BY Fields
  <2>2. f \in [Piece -> Nat]
    BY <2>1
  <2>3. NotSent(q, p) = r
    BY <1>2 DEF NotSent
  <2> HIDE DEF f
  <2>4. r = [queue |-> q.queue, dict |-> q.dict, asked |-> q.asked, failed |-> f]
    BY FailedSet
  <2> HIDE DEF r
  <2>5. SoundQueue(r) /\ r.queue = q.queue
    BY <2>1, <2>2, <2>4, Sound
  <2> QED  BY <2>3, <2>5 DEF Lessens
<1> QED  BY <1>1, <1>2

LEMMA ActiveFinite ==
  ASSUME NEW q, SoundQueue(q)
  PROVE  IsFiniteSet(ActiveRequests(q)) /\ ActiveRequests(q) \subseteq ToSet(q.queue)
<1> DEFINE n == IF Len(q.queue) < MaxRequests THEN Len(q.queue) ELSE MaxRequests
           f == [i \in 1..n |-> q.queue[i]]
<1>1. q.queue \in Seq(Piece)
  BY Fields
<1>2. Len(q.queue) \in Nat /\ DOMAIN q.queue = 1..Len(q.queue)
  BY <1>1, LenProperties
<1>3. n \in Nat /\ n <= Len(q.queue)
  BY <1>2, RequestsAssumption
<1>4. ActiveRequests(q) = {q.queue[i] : i \in 1..n}
  BY DEF ActiveRequests
<1> HIDE DEF n
<1>5. ActiveRequests(q) \subseteq ToSet(q.queue)
  BY <1>2, <1>3, <1>4 DEF ToSet
<1>6. f \in Surjection(1..n, ActiveRequests(q))
  BY <1>4 DEF Surjection
<1>7. IsFiniteSet(1..n)
  BY <1>3, FS_Interval
<1> HIDE DEF f
<1>8. IsFiniteSet(ActiveRequests(q))
  BY <1>6, <1>7, FS_Surjection
<1> QED  BY <1>5, <1>8

LEMMA ForgottenSound ==
  ASSUME NEW q, SoundQueue(q)
  PROVE  Lessens(q, Forgotten(q))
<1> DEFINE zero == [p \in DOMAIN q.failed |-> 0]
<1>1. q = [queue |-> q.queue, dict |-> q.dict, asked |-> q.asked, failed |-> q.failed]
  BY Fields
<1>2. Forgotten(q) = [queue |-> q.queue, dict |-> q.dict, asked |-> q.asked, failed |-> zero]
  BY <1>1 DEF Forgotten
<1>3. zero \in [Piece -> Nat]
  <2>1. DOMAIN q.failed = Piece
    BY Fields
  <2> HIDE DEF Piece
  <2> QED  BY <2>1
<1> HIDE DEF zero
<1>4. SoundQueue(Forgotten(q)) /\ Forgotten(q).queue = q.queue
  BY <1>2, <1>3, Fields, Sound
<1> QED  BY <1>4 DEF Lessens

(* What RunRequest leaves, sends, finds and gives up.                      *)
LEMMA RunSound ==
  ASSUME NEW q, SoundQueue(q), NEW found \in SUBSET Piece, NEW run, run = RunRequest(q, found)
  PROVE  /\ Lessens(q, run.queue) /\ run.sent \in SUBSET Piece
         /\ run.exist \in SUBSET Piece /\ IsFiniteSet(run.exist)
         /\ run.failed \in SUBSET Piece /\ IsFiniteSet(run.failed)
<1> DEFINE exist == Unsent(q) \cap found
           R == Failing(q) \cup exist
           w == Without(q, R)
           a == w.asked \cup (Unsent(q) \ found)
           f == [p \in DOMAIN w.failed |-> IF p \in Failing(q) THEN w.failed[p] - 1 ELSE w.failed[p]]
           r == [w EXCEPT !.asked = a, !.failed = f]
<1>1. /\ q.queue \in Seq(Piece) /\ q.dict \in SUBSET Piece /\ q.asked \in SUBSET Piece
      /\ q.failed \in [Piece -> Nat] /\ IsInjective(q.queue)
      /\ ToSet(q.queue) \subseteq q.dict /\ q.asked \subseteq q.dict
  BY Fields
<1>2. IsFiniteSet(ActiveRequests(q)) /\ ActiveRequests(q) \subseteq ToSet(q.queue)
  BY ActiveFinite
<1>3. /\ Failing(q) \subseteq ActiveRequests(q) /\ Unsent(q) \subseteq ActiveRequests(q)
      /\ Unsent(q) \cap Failing(q) = {}
  BY DEF Failing, Unsent
<1>4. q.queue # <<>> => run = [queue |-> r, sent |-> Unsent(q) \ found, exist |-> exist, failed |-> Failing(q)]
  BY DEF RunRequest
<1>5. /\ Lessens(q, w)
      /\ w = [queue |-> Among(q.queue, ToSet(q.queue) \ R), dict |-> q.dict \ R,
              asked |-> q.asked \ R, failed |-> q.failed]
      /\ ToSet(w.queue) = ToSet(q.queue) \ R
  BY WithoutSound
<1> DEFINE l == Among(q.queue, ToSet(q.queue) \ R)
<1>6. w.queue = l /\ w.dict = q.dict \ R /\ w.asked = q.asked \ R /\ w.failed = q.failed
  <2> HIDE DEF w, R
  <2> QED  BY <1>5
<1>7. SoundQueue(w) /\ w.queue \in Seq(Piece) /\ IsInjective(w.queue) /\ w.dict \in SUBSET Piece
      /\ ToSet(w.queue) \subseteq w.dict
  <2> HIDE DEF w
  <2> QED  BY <1>5, Fields DEF Lessens
<1>8. a \in SUBSET Piece /\ a \subseteq w.dict
  <2> HIDE DEF w, exist
  <2>1. \A p \in Unsent(q) \ found : p \in q.dict /\ p \notin R
    BY <1>1, <1>2, <1>3 DEF exist
  <2> HIDE DEF R
  <2> QED  BY <1>1, <1>6, <1>7, <2>1
<1>9. f \in [Piece -> Nat]
  <2> HIDE DEF w
  <2>1. DOMAIN w.failed = Piece /\ \A p \in Piece : w.failed[p] \in Nat
    BY <1>1, <1>6
  <2>2. \A p \in Failing(q) : w.failed[p] > 0
    BY <1>6 DEF Failing
  <2> HIDE DEF Piece
  <2> QED  BY <2>1, <2>2
<1> HIDE DEF w, a, f, exist
<1>10. r = [queue |-> w.queue, dict |-> w.dict, asked |-> a, failed |-> f]
  BY <1>7, AskedFailedSet DEF r
<1> HIDE DEF r
<1>11. SoundQueue(r) /\ r.queue = w.queue
  BY <1>7, <1>8, <1>9, <1>10, Sound
<1>12. Lessens(q, r)
  BY <1>5, <1>11 DEF Lessens
<1>13. Failing(q) \in SUBSET Piece /\ exist \in SUBSET Piece /\ Unsent(q) \ found \in SUBSET Piece
  BY <1>1, <1>2, <1>3 DEF exist
<1>14. IsFiniteSet(Failing(q)) /\ IsFiniteSet(exist)
  BY <1>2, <1>3, FS_Subset DEF exist
<1>15. CASE q.queue # <<>>
  BY <1>4, <1>12, <1>13, <1>14, <1>15
<1>16. CASE q.queue = <<>>
  <2>1. run = [queue |-> Forgotten(q), sent |-> {}, exist |-> {}, failed |-> {}]
    BY <1>16 DEF RunRequest
  <2>2. Lessens(q, Forgotten(q))
    BY ForgottenSound
  <2> QED  BY <2>1, <2>2, FS_EmptySet
<1> QED  BY <1>15, <1>16

-----------------------------------------------------------------------------
(* Steps of the calls and of the requests.                                 *)

LEMMA RestoreParts ==
  ASSUME RestoreInv
  PROVE  /\ WorkerTypes /\ NetworkTypes /\ QueuesSound /\ Counting /\ Written /\ Emptied
         /\ calls \in Seq(Call) /\ streams \in SUBSET Transfer /\ IsFiniteSet(streams)
         /\ faults \in Nat /\ faults \in 0..MaxFaults /\ Counted(counter, streams, calls, faults)
         /\ \A s \in Number : SoundQueue(requests[s])
         /\ requests = [s \in Number |-> requests[s]]
<1>1. WorkerTypes /\ NetworkTypes /\ QueuesSound /\ Counting /\ Written /\ Emptied
  BY DEF RestoreInv
<1>2. calls \in Seq(Call) /\ streams \in SUBSET Transfer /\ IsFiniteSet(streams)
  BY <1>1 DEF NetworkTypes
<1>3. faults \in Nat /\ faults \in 0..MaxFaults /\ Counted(counter, streams, calls, faults)
  BY <1>1, RestoreAssumption DEF Counting
<1>4. (\A s \in Number : SoundQueue(requests[s])) /\ requests = [s \in Number |-> requests[s]]
  BY <1>1 DEF QueuesSound
<1> QED  BY <1>1, <1>2, <1>3, <1>4

(* A call is handled, and calls that are not of streams are posted.        *)
LEMMA PostKeeps ==
  ASSUME RestoreInv, NEW m \in Seq(OtherCall), calls # <<>>, Head(calls).to # "receiver", Post(m),
         streams' = streams, counter' = counter, faults' = faults
  PROVE  calls' \in Seq(Call) /\ Counting'
<1>1. calls \in Seq(Call) /\ Counted(counter, streams, calls, faults) /\ faults \in 0..MaxFaults
  BY RestoreParts
<1> DEFINE t == Tail(calls)
           r == t \o m
<1>2. t \in Seq(Call) /\ SameStreams(calls, t)
  BY <1>1, QuietTail
<1>3. Counted(counter, streams, t, faults)
  BY <1>1, <1>2, SameCounted
<1> HIDE DEF t
<1>4. r \in Seq(Call) /\ SameStreams(t, r)
  BY <1>2, QuietConcat
<1> HIDE DEF r
<1>5. Counted(counter, streams, r, faults)
  BY <1>2, <1>3, <1>4, SameCounted
<1>6. calls' = r
  BY DEF Post, r, t
<1> QED  BY <1>1, <1>4, <1>5, <1>6 DEF Counting

LEMMA ConcatKeeps ==
  ASSUME RestoreInv, NEW m \in Seq(OtherCall), calls' = calls \o m,
         streams' = streams, counter' = counter, faults' = faults
  PROVE  calls' \in Seq(Call) /\ Counting'
<1>1. calls \in Seq(Call) /\ Counted(counter, streams, calls, faults) /\ faults \in 0..MaxFaults
  BY RestoreParts
<1> DEFINE r == calls \o m
<1>2. r \in Seq(Call) /\ SameStreams(calls, r)
  BY <1>1, QuietConcat
<1> HIDE DEF r
<1>3. Counted(counter, streams, r, faults)
  BY <1>1, <1>2, SameCounted
<1>4. calls' = r
  BY DEF r
<1> QED  BY <1>1, <1>2, <1>3, <1>4 DEF Counting

LEMMA FaultGives ==
  ASSUME RestoreInv, Fault
  PROVE  /\ faults \in Nat /\ faults' = faults + 1 /\ faults' \in 0..MaxFaults
         /\ Len(calls) <= MaxWaiting /\ block = FaultBlock
BY RestoreParts, RestoreAssumption DEF Fault, FromOutside

LEMMA AppendKeeps ==
  ASSUME RestoreInv, NEW c \in OtherCall, calls' = Append(calls, c),
         streams' = streams, counter' = counter, Fault \/ faults' = faults
  PROVE  calls' \in Seq(Call) /\ Counting'
<1>1. calls \in Seq(Call) /\ Counted(counter, streams, calls, faults) /\ faults \in 0..MaxFaults /\ faults \in Nat
  BY RestoreParts
<1> DEFINE r == Append(calls, c)
<1>2. r \in Seq(Call) /\ SameStreams(calls, r)
  BY <1>1, QuietAppend
<1> HIDE DEF r
<1>3. Counted(counter, streams, r, faults)
  BY <1>1, <1>2, SameCounted
<1>4. calls' = r
  BY DEF r
<1>5. CASE faults' = faults
  BY <1>1, <1>2, <1>3, <1>4, <1>5 DEF Counting
<1>6. CASE Fault
  <2>1. faults' = faults + 1 /\ faults' \in 0..MaxFaults
    BY <1>6, FaultGives
  <2>2. Counted(counter, streams, r, faults + 1)
    BY <1>1, <1>3, MoreExcess
  <2> QED  BY <1>2, <1>4, <2>1, <2>2 DEF Counting
<1> QED  BY <1>5, <1>6

LEMMA SameCallsKeep ==
  ASSUME RestoreInv, calls' = calls, streams' = streams, counter' = counter, Fault \/ faults' = faults
  PROVE  calls' \in Seq(Call) /\ Counting'
<1>1. calls \in Seq(Call) /\ Counted(counter, streams, calls, faults) /\ faults \in 0..MaxFaults /\ faults \in Nat
  BY RestoreParts
<1>2. CASE faults' = faults
  BY <1>1, <1>2 DEF Counting
<1>3. CASE Fault
  <2>1. faults' = faults + 1 /\ faults' \in 0..MaxFaults
    BY <1>3, FaultGives
  <2>2. Counted(counter, streams, calls, faults + 1)
    BY <1>1, MoreExcess
  <2> QED  BY <1>1, <2>1, <2>2 DEF Counting
<1> QED  BY <1>2, <1>3

(* Nothing is asked for anew.                                              *)
LEMMA LessensKeep ==
  ASSUME QueuesSound, requests' = [s \in Number |-> requests'[s]],
         \A s \in Number : Lessens(requests[s], requests'[s])
  PROVE  /\ QueuesSound'
         /\ (\A s \in Number : requests[s].queue = <<>>) => (\A s \in Number : requests'[s].queue = <<>>)
<1>1. \A s \in Number : SoundQueue(requests'[s]) /\ (requests[s].queue = <<>> => requests'[s].queue = <<>>)
  BY DEF Lessens
<1>2. \A s \in Number : requests'[s] \in QueueFields
  BY <1>1 DEF SoundQueue
<1>3. requests' \in [Number -> QueueFields]
  <2> HIDE DEF QueueFields
  <2> QED  BY <1>2
<1> QED  BY <1>1, <1>3 DEF QueuesSound

LEMMA OneLessensKeep ==
  ASSUME QueuesSound, NEW s \in Number, NEW r, Lessens(requests[s], r), requests' = [requests EXCEPT ![s] = r]
  PROVE  /\ QueuesSound'
         /\ (\A t \in Number : requests[t].queue = <<>>) => (\A t \in Number : requests'[t].queue = <<>>)
<1>1. requests = [t \in Number |-> requests[t]] /\ \A t \in Number : SoundQueue(requests[t])
  BY DEF QueuesSound
<1>2. \A t \in Number : requests'[t] = IF t = s THEN r ELSE requests[t]
  BY <1>1
<1>3. requests' = [t \in Number |-> requests'[t]]
  BY <1>1
<1>4. \A t \in Number : Lessens(requests[t], requests'[t])
  BY <1>1, <1>2 DEF Lessens
<1> QED  BY <1>3, <1>4, LessensKeep

LEMMA SameRequestsKeep ==
  ASSUME QueuesSound, requests' = requests
  PROVE  QueuesSound'
BY DEF QueuesSound

LEMMA DeletedKeeps ==
  ASSUME RestoreInv, DeleteBackupRequests
  PROVE  /\ QueuesSound' /\ \A s \in Number : requests'[s].queue = <<>>
         /\ outgoing' \subseteq outgoing
<1>1. QueuesSound /\ \A s \in Number : SoundQueue(requests[s])
  BY RestoreParts
<1>2. requests' = [s \in Number |-> DeleteRequests(requests[s], Piece)]
  BY DEF DeleteBackupRequests
<1>3. \A s \in Number : requests'[s] = DeleteRequests(requests[s], Piece)
  BY <1>2
<1>4. \A s \in Number : Lessens(requests[s], requests'[s]) /\ requests'[s].queue = <<>>
  BY <1>1, <1>3, DeletedSound
<1>5. requests' = [s \in Number |-> requests'[s]]
  BY <1>2
<1>6. outgoing' \subseteq outgoing
  BY DEF DeleteBackupRequests
<1> QED  BY <1>1, <1>4, <1>5, <1>6, LessensKeep

(* A restore that goes on has not ended.                                   *)
LEMMA GoesOn ==
  ASSUME RestoreInv, workerState \notin {"FAILED", "DONE"}
  PROVE  job \in {"none", "working"} /\ ~ Ended /\ (workerState # "NONE" => job = "working")
<1>1. WorkerTypes /\ Written
  BY RestoreParts
<1> QED  BY <1>1 DEF WorkerTypes, Written, Ended

-----------------------------------------------------------------------------
(* The worker.                                                             *)

RowType == [D : SUBSET Number, P : SUBSET Number]

(* Two packets of a supplier at most are asked for, which were not known.  *)
LEMMA AskSound ==
  ASSUME NEW q, SoundQueue(q), NEW n \in Block, NEW s \in Number, NEW wanted
  PROVE  SoundQueue(Asked(q, Among(<<<<n, "D", s>>, <<n, "P", s>>>>, wanted \ q.dict)))
<1> DEFINE two == <<<<n, "D", s>>, <<n, "P", s>>>>
           ps == Among(two, wanted \ q.dict)
<1>1. <<n, "D", s>> \in Piece /\ <<n, "P", s>> \in Piece /\ <<n, "D", s>> # <<n, "P", s>>
  BY Pieces
<1>2. two \in Seq(Piece) /\ DOMAIN two = 1..2 /\ two[1] = <<n, "D", s>> /\ two[2] = <<n, "P", s>>
  <2> HIDE DEF Piece
  <2> QED  BY <1>1
<1> HIDE DEF two
<1>3. IsInjective(two)
  BY <1>1, <1>2 DEF IsInjective
<1>4. ps \in Seq(Piece) /\ ToSet(ps) = ToSet(two) \cap (wanted \ q.dict) /\ IsInjective(ps)
  BY <1>2, <1>3, AmongType
<1> HIDE DEF ps
<1>5. ToSet(ps) \cap q.dict = {}
  BY <1>4
<1>6. SoundQueue(Asked(q, ps))
  BY <1>4, <1>5, AskedSound
<1> QED  BY <1>6 DEF ps, two

LEMMA RequestedKeeps ==
  ASSUME RestoreInv, NEW n \in Block, ToRequested(n), calls # <<>>, Head(calls).to # "receiver",
         streams' = streams, counter' = counter, faults' = faults
  PROVE  /\ calls' \in Seq(Call) /\ Counting' /\ QueuesSound'
         /\ hand' \in RowType /\ block' = n /\ workerState' = "REQUESTED"
<1>1. QueuesSound /\ \A s \in Number : SoundQueue(requests[s])
  BY RestoreParts
<1>2. requests' = [s \in Number |->
         Asked(requests[s], Among(<<<<n, "D", s>>, <<n, "P", s>>>>, Wanted(n) \ requests[s].dict))]
  BY DEF ToRequested, DoRequestPackets
<1>3. ASSUME NEW s \in Number PROVE SoundQueue(requests'[s])
  <2>1. requests'[s] = Asked(requests[s], Among(<<<<n, "D", s>>, <<n, "P", s>>>>, Wanted(n) \ requests[s].dict))
    BY <1>2
  <2>2. SoundQueue(requests[s])
    BY <1>1
  <2> QED  BY <2>1, <2>2, AskSound
<1>4. requests' \in [Number -> QueueFields]
  <2> HIDE DEF QueueFields
  <2>1. \A s \in Number : requests'[s] \in QueueFields
    BY <1>3 DEF SoundQueue
  <2>2. requests' = [s \in Number |-> requests'[s]]
    BY <1>2
  <2> QED  BY <2>1, <2>2
<1>5. QueuesSound'
  BY <1>3, <1>4 DEF QueuesSound
<1> DEFINE a == IF Wanted(n) = {} THEN <<ToWorker("request-failed", NoPiece)>> ELSE <<>>
           b == IF workerState # "REQUESTED" THEN <<ToWorker("instant", NoPiece)>> ELSE <<>>
<1>6. a \in Seq(OtherCall) /\ b \in Seq(OtherCall)
  <2>1. ToWorker("request-failed", NoPiece) \in OtherCall /\ ToWorker("instant", NoPiece) \in OtherCall
    BY PostedCalls DEF PlainEvent
  <2>2. <<ToWorker("request-failed", NoPiece)>> \in Seq(OtherCall) /\ <<ToWorker("instant", NoPiece)>> \in Seq(OtherCall)
    BY <2>1, PostedLists
  <2> QED  BY <2>2, PostedLists
<1>7. Post(a \o b)
  BY DEF ToRequested
<1> HIDE DEF a, b
<1>8. a \o b \in Seq(OtherCall)
  BY <1>6, PostedLists
<1>9. calls' \in Seq(Call) /\ Counting'
  BY <1>7, <1>8, PostKeeps
<1>10. hand' \in RowType
  BY DEF ToRequested, Row, RowType
<1>11. block' = n /\ workerState' = "REQUESTED"
  BY DEF ToRequested
<1> QED  BY <1>5, <1>9, <1>10, <1>11

LEMMA HandTypes ==
  ASSUME RestoreInv
  PROVE  /\ hand \in RowType /\ Reckoned \in RowType
         /\ \A p \in Piece : Saved(Reckoned, p) \in RowType
<1>1. hand \in RowType
  BY RestoreParts DEF WorkerTypes, RowType
<1>2. hand.D \in SUBSET Number /\ hand.P \in SUBSET Number
  BY <1>1 DEF RowType
<1>3. Rounds(hand.D, hand.P) \in SUBSET Number
  BY <1>2, RoundsType
<1>4. Reckoned \in RowType
  BY <1>1, <1>3 DEF Reckoned, RowType
<1>5. ASSUME NEW p \in Piece PROVE Saved(Reckoned, p) \in RowType
  <2>1. p[3] \in Number
    BY Pieces
  <2> QED  BY <1>4, <2>1 DEF Saved, RowType
<1> QED  BY <1>1, <1>4, <1>5

LEMMA NoCall == <<>> \in Seq(OtherCall)
BY PostedLists

(* The blocks before the current one, with it, in their order.             *)
LEMMA OneMore ==
  ASSUME NEW n \in Nat, written = [i \in 1..n |-> i - 1]
  PROVE  Append(written, n) = [i \in 1..n + 1 |-> i - 1]
<1> DEFINE w == [i \in 1..n |-> i - 1]
           r == Append(w, n)
<1>1. w \in Seq(Int) /\ Len(w) = n
  <2>1. w \in [1..n -> Int]
    OBVIOUS
  <2>2. w \in Seq(Int)
    BY <2>1, IsASeq
  <2> HIDE DEF w
  <2>3. DOMAIN w = 1..n /\ DOMAIN w = 1..Len(w) /\ Len(w) \in Nat
    BY <2>1, <2>2, LenProperties
  <2> QED  BY <2>2, <2>3
<1>2. /\ r \in Seq(Int) /\ Len(r) = n + 1 /\ r[n + 1] = n
      /\ \A i \in 1..n : r[i] = w[i]
  <2> HIDE DEF w
  <2> QED  BY <1>1, AppendProperties
<1>3. r \in [1..n + 1 -> Int]
  <2> HIDE DEF r
  <2> QED  BY <1>2, LenProperties
<1>4. ASSUME NEW i \in 1..n + 1 PROVE r[i] = i - 1
  <2>1. i \in 1..n \/ i = n + 1
    OBVIOUS
  <2> HIDE DEF r
  <2> QED  BY <1>2, <2>1
<1>5. r = [i \in 1..n + 1 |-> i - 1]
  <2> HIDE DEF r
  <2>1. r = [i \in 1..n + 1 |-> r[i]]
    BY <1>3
  <2> QED  BY <1>4, <2>1
<1> QED  BY <1>5

(* A handled call of the worker.                                           *)
LEMMA Taken ==
  ASSUME RestoreInv, NEW e, Handles(e)
  PROVE  calls # <<>> /\ Head(calls).to # "receiver" /\ Head(calls) \in Call
         /\ (e = "data-received" => Arg \in Piece)
<1>1. calls # <<>> /\ Head(calls).to = "worker" /\ Head(calls).event = e
  BY DEF Handles
<1>2. calls \in Seq(Call)
  BY RestoreParts
<1>3. Head(calls) \in Call
  BY <1>1, <1>2, FirstCall
<1> QED  BY <1>1, <1>3, Carries DEF Arg

(* The worker stays where it is, or waits for something else.              *)
LEMMA PlainKeeps ==
  ASSUME RestoreInv, NEW m \in Seq(OtherCall), calls # <<>>, Head(calls).to # "receiver", Post(m),
         \/ workerState' = workerState
         \/ workerState \notin {"NONE", "FAILED", "DONE"} /\ workerState' \in {"RECEIVING", "RAID", "BLOCK"},
         hand' \in RowType, reading' \in BOOLEAN, files' \in SUBSET Piece,
         UNCHANGED <<job, block, fails, attempts, written, requests, outgoing, pinged, streams, counter,
                     online, faults>>
  PROVE  RestoreInv'
<1>0. /\ job' = job /\ block' = block /\ fails' = fails /\ attempts' = attempts /\ written' = written
      /\ requests' = requests /\ outgoing' = outgoing /\ pinged' = pinged /\ streams' = streams
      /\ counter' = counter /\ online' = online /\ faults' = faults
  OBVIOUS
<1>1. WorkerTypes /\ NetworkTypes /\ QueuesSound /\ Written /\ Emptied
  BY RestoreParts
<1>2. calls' \in Seq(Call) /\ Counting'
  BY <1>0, PostKeeps
<1>3. WorkerTypes'
  <2>1. workerState' \in {"NONE", "AT_STARTUP", "REQUESTED", "RECEIVING", "RAID", "BLOCK", "DONE", "FAILED"}
    BY <1>1 DEF WorkerTypes
  <2> QED  BY <1>0, <1>1, <2>1 DEF WorkerTypes, RowType
<1>4. NetworkTypes'
  BY <1>0, <1>1, <1>2 DEF NetworkTypes
<1>5. QueuesSound'
  BY <1>0, <1>1, SameRequestsKeep
<1>6. Written'
  <2>1. BlocksDone' = BlocksDone
    BY <1>0 DEF BlocksDone
  <2>2. CASE workerState' = workerState
    BY <1>0, <1>1, <2>1, <2>2 DEF Written
  <2>3. CASE workerState \notin {"NONE", "FAILED", "DONE"} /\ workerState' \in {"RECEIVING", "RAID", "BLOCK"}
    BY <1>0, <1>1, <2>1, <2>3 DEF Written
  <2> QED  BY <2>2, <2>3
<1>7. Emptied'
  BY <1>0, <1>1 DEF Emptied, Ended
<1> QED  BY <1>2, <1>3, <1>4, <1>5, <1>6, <1>7 DEF RestoreInv

(* The worker asks for a block, and those before it have been written.     *)
LEMMA AskingKeeps ==
  ASSUME RestoreInv, NEW n \in Block, ToRequested(n), calls # <<>>, Head(calls).to # "receiver",
         workerState \notin {"NONE", "FAILED", "DONE"},
         fails' \in Nat, attempts' \in 0..3, files' \in SUBSET Piece,
         written' = [i \in 1..n |-> i - 1],
         UNCHANGED <<job, reading, outgoing, pinged, streams, counter, online, faults>>
  PROVE  RestoreInv'
<1>0. /\ job' = job /\ reading' = reading /\ outgoing' = outgoing /\ pinged' = pinged /\ streams' = streams
      /\ counter' = counter /\ online' = online /\ faults' = faults
  OBVIOUS
<1>1. WorkerTypes /\ NetworkTypes /\ Written
  BY RestoreParts
<1>2. /\ calls' \in Seq(Call) /\ Counting' /\ QueuesSound'
      /\ hand' \in RowType /\ block' = n /\ workerState' = "REQUESTED"
  BY <1>0, RequestedKeeps
<1>3. WorkerTypes'
  BY <1>0, <1>1, <1>2 DEF WorkerTypes, RowType
<1>4. NetworkTypes'
  BY <1>0, <1>1, <1>2 DEF NetworkTypes
<1>5. job' = "working"
  BY <1>0, GoesOn
<1>6. Written'
  <2>1. BlocksDone' = n
    BY <1>2 DEF BlocksDone
  <2>2. written' = [i \in 1..BlocksDone' |-> i - 1]
    BY <2>1
  <2> QED  BY <1>2, <1>5, <2>2 DEF Written
<1>7. Emptied'
  BY <1>5 DEF Emptied, Ended
<1> QED  BY <1>2, <1>3, <1>4, <1>6, <1>7 DEF RestoreInv

LEMMA BeginKeeps ==
  ASSUME RestoreInv, Begin
  PROVE  RestoreInv'
<1>1. /\ Handles("init") /\ workerState = "AT_STARTUP" /\ ToRequested(0) /\ fails' = 0 /\ attempts' = 1
      /\ UNCHANGED <<job, reading, outgoing, pinged, streams, counter, online, faults>>
      /\ written' = written /\ files' = files
  BY DEF Begin, network, fate
<1>2. calls # <<>> /\ Head(calls).to # "receiver"
  BY <1>1, Taken
<1>3. WorkerTypes /\ NetworkTypes /\ Written
  BY RestoreParts
<1>4. 0 \in Block /\ files' \in SUBSET Piece
  BY <1>1, <1>3, RestoreAssumption DEF Block, NetworkTypes
<1>5. written' = [i \in 1..0 |-> i - 1]
  BY <1>1, <1>3 DEF Written, BlocksDone
<1> QED  BY <1>1, <1>2, <1>4, <1>5, AskingKeeps

LEMMA AskedAgain ==
  ASSUME RestoreInv, workerState \in {"REQUESTED", "RECEIVING", "RAID", "BLOCK"}
  PROVE  /\ block \in Block /\ block \in Nat /\ written = [i \in 1..block |-> i - 1]
         /\ fails \in Nat /\ attempts \in 0..3 /\ files \in SUBSET Piece
<1>1. WorkerTypes /\ NetworkTypes /\ Written
  BY RestoreParts
<1>2. block \in Block /\ fails \in Nat /\ attempts \in 0..3
  BY <1>1 DEF WorkerTypes
<1>3. files \in SUBSET Piece
  BY <1>1 DEF NetworkTypes
<1>4. block \in Nat
  BY <1>2, RestoreAssumption DEF Block
<1>5. BlocksDone = block
  BY DEF BlocksDone
<1>6. written = [i \in 1..BlocksDone |-> i - 1]
  BY <1>1 DEF Written
<1>7. written = [i \in 1..block |-> i - 1]
  BY <1>5, <1>6
<1> QED  BY <1>2, <1>3, <1>4, <1>7

LEMMA ReceivingStoppedKeeps ==
  ASSUME RestoreInv, ReceivingStopped
  PROVE  RestoreInv'
<1>1. /\ Handles("data-receiving-stopped") /\ workerState = "RECEIVING" /\ ToRequested(block)
      /\ UNCHANGED <<job, reading, outgoing, pinged, streams, counter, online, faults>>
      /\ fails' = fails /\ attempts' = attempts /\ written' = written /\ files' = files
  BY DEF ReceivingStopped, network, fate
<1>2. calls # <<>> /\ Head(calls).to # "receiver"
  BY <1>1, Taken
<1>3. /\ block \in Block /\ written = [i \in 1..block |-> i - 1]
      /\ fails \in Nat /\ attempts \in 0..3 /\ files \in SUBSET Piece
  BY <1>1, AskedAgain
<1>4. fails' \in Nat /\ attempts' \in 0..3 /\ files' \in SUBSET Piece /\ written' = [i \in 1..block |-> i - 1]
  BY <1>1, <1>3
<1> QED  BY <1>1, <1>2, <1>3, <1>4, AskingKeeps

LEMMA RequestFailedKeeps ==
  ASSUME RestoreInv, RequestFailed
  PROVE  RestoreInv'
<1>1. /\ Handles("request-failed") /\ workerState = "REQUESTED" /\ attempts < 3 /\ ToRequested(block)
      /\ UNCHANGED <<job, reading, outgoing, pinged, streams, counter, online, faults>>
      /\ fails' = fails /\ attempts' = attempts + 1 /\ written' = written /\ files' = files
  BY DEF RequestFailed, network, fate
<1>2. calls # <<>> /\ Head(calls).to # "receiver"
  BY <1>1, Taken
<1>3. /\ block \in Block /\ written = [i \in 1..block |-> i - 1]
      /\ fails \in Nat /\ attempts \in 0..3 /\ files \in SUBSET Piece
  BY <1>1, AskedAgain
<1>4. fails' \in Nat /\ attempts' \in 0..3 /\ files' \in SUBSET Piece /\ written' = [i \in 1..block |-> i - 1]
  BY <1>1, <1>3
<1> QED  BY <1>1, <1>2, <1>3, <1>4, AskingKeeps

LEMMA Removed ==
  ASSUME RestoreInv, RemoveBlock
  PROVE  files' \in SUBSET Piece
<1>1. files \in SUBSET Piece
  BY RestoreParts DEF NetworkTypes
<1> QED  BY <1>1 DEF RemoveBlock

LEMMA NextBlockKeeps ==
  ASSUME RestoreInv, NextBlock
  PROVE  RestoreInv'
<1>1. /\ Handles("block-restored") /\ workerState = "BLOCK" /\ ~ IsLastBlock
      /\ written' = Append(written, block) /\ RemoveBlock /\ ToRequested(block + 1)
      /\ UNCHANGED <<job, reading, outgoing, pinged, streams, counter, online, faults>>
      /\ fails' = 0 /\ attempts' = 1
  BY DEF NextBlock, network, fate
<1>2. calls # <<>> /\ Head(calls).to # "receiver"
  BY <1>1, Taken
<1>3. block \in Block /\ block \in Nat /\ written = [i \in 1..block |-> i - 1]
  BY <1>1, AskedAgain
<1>4. block + 1 \in Block
  BY <1>1, <1>3, RestoreAssumption DEF Block, IsLastBlock
<1>5. written' = [i \in 1..block + 1 |-> i - 1]
  BY <1>1, <1>3, OneMore
<1>6. files' \in SUBSET Piece
  BY <1>1, Removed
<1> QED  BY <1>1, <1>2, <1>4, <1>5, <1>6, AskingKeeps

LEMMA DataReceivedKeeps ==
  ASSUME RestoreInv, DataReceived
  PROVE  RestoreInv'
<1>1. /\ Handles("data-received") /\ workerState \in {"REQUESTED", "RECEIVING"}
      /\ hand' = Saved(Reckoned, Arg)
      /\ files' = IF Head(calls).new THEN files \cup {Arg} ELSE files
      /\ IF IsBlockFixable THEN workerState' = "RAID" /\ reading' = TRUE ELSE UNCHANGED <<workerState, reading>>
      /\ Post(<<>>)
      /\ UNCHANGED <<job, block, fails, attempts, written, requests, outgoing, pinged, streams, counter,
                     online, faults>>
  BY DEF DataReceived, network
<1>2. calls # <<>> /\ Head(calls).to # "receiver" /\ Arg \in Piece
  BY <1>1, Taken
<1>3. hand' \in RowType
  BY <1>1, <1>2, HandTypes
<1>4. files \in SUBSET Piece /\ reading \in BOOLEAN
  BY RestoreParts DEF NetworkTypes, WorkerTypes
<1>5. files' \in SUBSET Piece /\ reading' \in BOOLEAN
  BY <1>1, <1>2, <1>4
<1>6. workerState' = workerState \/ workerState' = "RAID"
  BY <1>1
<1> QED  BY <1>1, <1>2, <1>3, <1>5, <1>6, NoCall, PlainKeeps

LEMMA InstantKeeps ==
  ASSUME RestoreInv, Instant
  PROVE  RestoreInv'
<1>1. /\ Handles("instant") /\ workerState = "REQUESTED" /\ hand' = Reckoned /\ files' = files
      /\ IF IsBlockFixable THEN workerState' = "RAID" /\ reading' = TRUE ELSE UNCHANGED <<workerState, reading>>
      /\ Post(<<>>)
      /\ UNCHANGED <<job, block, fails, attempts, written, requests, outgoing, pinged, streams, counter,
                     online, faults>>
  BY DEF Instant, network, fate
<1>2. calls # <<>> /\ Head(calls).to # "receiver"
  BY <1>1, Taken
<1>3. hand' \in RowType
  BY <1>1, HandTypes
<1>4. files \in SUBSET Piece /\ reading \in BOOLEAN
  BY RestoreParts DEF NetworkTypes, WorkerTypes
<1>5. files' \in SUBSET Piece /\ reading' \in BOOLEAN
  BY <1>1, <1>4
<1>6. workerState' = workerState \/ workerState' = "RAID"
  BY <1>1
<1> QED  BY <1>1, <1>2, <1>3, <1>5, <1>6, NoCall, PlainKeeps

LEMMA ReceivingStartedKeeps ==
  ASSUME RestoreInv, ReceivingStarted
  PROVE  RestoreInv'
<1>1. /\ Handles("data-receiving-started") /\ workerState = "REQUESTED" /\ workerState' = "RECEIVING"
      /\ Post(<<>>) /\ hand' = hand /\ files' = files /\ reading' = reading
      /\ UNCHANGED <<job, block, fails, attempts, written, requests, outgoing, pinged, streams, counter,
                     online, faults>>
  BY DEF ReceivingStarted, network, fate
<1>2. calls # <<>> /\ Head(calls).to # "receiver"
  BY <1>1, Taken
<1>3. hand' \in RowType
  BY <1>1, HandTypes
<1>4. files' \in SUBSET Piece /\ reading' \in BOOLEAN
  BY <1>1, RestoreParts DEF NetworkTypes, WorkerTypes
<1> QED  BY <1>1, <1>2, <1>3, <1>4, NoCall, PlainKeeps

LEMMA RaidDoneKeeps ==
  ASSUME RestoreInv, RaidDone
  PROVE  RestoreInv'
<1>1. /\ Handles("raid-done") /\ workerState = "RAID" /\ workerState' = "BLOCK"
      /\ hand' = hand /\ files' = files /\ reading' = reading
      /\ UNCHANGED <<job, block, fails, attempts, written, requests, outgoing, pinged, streams, counter,
                     online, faults>>
  BY DEF RaidDone, network, fate
<1>2. calls # <<>> /\ Head(calls).to # "receiver"
  BY <1>1, Taken
<1>3. hand' \in RowType
  BY <1>1, HandTypes
<1>4. files' \in SUBSET Piece /\ reading' \in BOOLEAN
  BY <1>1, RestoreParts DEF NetworkTypes, WorkerTypes
<1>5. /\ <<ToWorker("block-restored", NoPiece)>> \in Seq(OtherCall)
      /\ <<ToWorker("block-failed", NoPiece)>> \in Seq(OtherCall)
  <2>1. ToWorker("block-restored", NoPiece) \in OtherCall /\ ToWorker("block-failed", NoPiece) \in OtherCall
    BY PostedCalls DEF PlainEvent
  <2> QED  BY <2>1, PostedLists
<1>6. PICK m \in Seq(OtherCall) : Post(m)
  <2>1. \/ Post(<<ToWorker("block-restored", NoPiece)>>)
        \/ Post(<<ToWorker("block-failed", NoPiece)>>)
        \/ Post(<<>>)
    BY DEF RaidDone
  <2> QED  BY <1>5, <2>1, NoCall
<1> QED  BY <1>1, <1>2, <1>3, <1>4, <1>6, PlainKeeps

LEMMA IgnoreKeeps ==
  ASSUME RestoreInv, Ignore
  PROVE  RestoreInv'
<1>1. /\ calls # <<>> /\ Head(calls).to # "receiver" /\ workerState' = workerState
      /\ Post(<<>>) /\ hand' = hand /\ files' = files /\ reading' = reading
      /\ UNCHANGED <<job, block, fails, attempts, written, requests, outgoing, pinged, streams, counter,
                     online, faults>>
  BY DEF Ignore, worker, network, fate
<1>2. hand' \in RowType
  BY <1>1, HandTypes
<1>3. files' \in SUBSET Piece /\ reading' \in BOOLEAN
  BY <1>1, RestoreParts DEF NetworkTypes, WorkerTypes
<1> QED  BY <1>1, <1>2, <1>3, NoCall, PlainKeeps

(* Something else happens than a step of the worker.                       *)
LEMMA AroundKeeps ==
  ASSUME RestoreInv,
         job' = job /\ workerState' = workerState /\ block' = block /\ hand' = hand /\ attempts' = attempts
         /\ written' = written /\ online' = online,
         fails' \in Nat, reading' \in BOOLEAN, files' \in SUBSET Piece, outgoing' \in SUBSET Piece,
         pinged' \in SUBSET Number, streams' \in SUBSET Transfer, IsFiniteSet(streams)',
         calls' \in Seq(Call), Counting', QueuesSound',
         (\A s \in Number : requests[s].queue = <<>>) => (\A s \in Number : requests'[s].queue = <<>>)
  PROVE  RestoreInv'
<1>1. WorkerTypes /\ NetworkTypes /\ Written /\ Emptied
  BY RestoreParts
<1>2. WorkerTypes'
  BY <1>1 DEF WorkerTypes
<1>3. NetworkTypes'
  BY <1>1 DEF NetworkTypes
<1>4. Written'
  <2>1. BlocksDone' = BlocksDone
    BY DEF BlocksDone
  <2> QED  BY <1>1, <2>1 DEF Written
<1>5. Emptied'
  BY <1>1 DEF Emptied, Ended
<1> QED  BY <1>2, <1>3, <1>4, <1>5 DEF RestoreInv

(* What such a step leaves as it was has its type.                         *)
LEMMA Still ==
  ASSUME RestoreInv
  PROVE  /\ fails \in Nat /\ reading \in BOOLEAN /\ files \in SUBSET Piece /\ outgoing \in SUBSET Piece
         /\ pinged \in SUBSET Number /\ online \in SUBSET Number /\ block \in Block
         /\ streams \in SUBSET Transfer /\ IsFiniteSet(streams) /\ calls \in Seq(Call)
         /\ (requests' = requests => QueuesSound')
BY RestoreParts, SameRequestsKeep DEF WorkerTypes, NetworkTypes

LEMMA ReadEndsKeeps ==
  ASSUME RestoreInv, ReadEnds
  PROVE  RestoreInv'
<1> DEFINE row == Row(files, block)
           read == RaidRead(row.D, row.P)
           call == [to |-> "worker", event |-> "raid-done", read |-> read]
<1>1. /\ reading' = FALSE /\ files' = files \cup {<<block, "D", s>> : s \in read} /\ calls' = Append(calls, call)
      /\ job' = job /\ workerState' = workerState /\ block' = block /\ hand' = hand /\ fails' = fails
      /\ attempts' = attempts /\ written' = written /\ requests' = requests /\ outgoing' = outgoing
      /\ pinged' = pinged /\ streams' = streams /\ counter' = counter /\ online' = online /\ faults' = faults
  BY DEF ReadEnds, network, fate
<1>2. read \in SUBSET Number
  <2>1. row.D \in SUBSET Number /\ row.P \in SUBSET Number
    BY DEF Row
  <2> QED  BY <2>1, RoundsType DEF RaidRead
<1> HIDE DEF read
<1>3. files' \in SUBSET Piece
  <2>1. \A s \in read : <<block, "D", s>> \in Piece
    BY <1>2, Still, Pieces
  <2> QED  BY <1>1, <2>1, Still
<1>4. call \in OtherCall
  BY <1>2, PostedCalls
<1>5. calls' \in Seq(Call) /\ Counting'
  BY <1>1, <1>4, AppendKeeps
<1> QED  BY <1>1, <1>3, <1>5, Still, AroundKeeps

LEMMA ReadFailsKeeps ==
  ASSUME RestoreInv, ReadFails
  PROVE  RestoreInv'
<1>1. /\ Fault /\ reading' = FALSE /\ calls' = Append(calls, ToWorker("raid-failed", NoPiece))
      /\ job' = job /\ workerState' = workerState /\ block' = block /\ hand' = hand /\ fails' = fails
      /\ attempts' = attempts /\ written' = written /\ requests' = requests /\ outgoing' = outgoing
      /\ pinged' = pinged /\ streams' = streams /\ counter' = counter /\ online' = online /\ files' = files
  BY DEF ReadFails, network
<1>2. ToWorker("raid-failed", NoPiece) \in OtherCall
  BY PostedCalls DEF PlainEvent
<1>3. calls' \in Seq(Call) /\ Counting'
  BY <1>1, <1>2, AppendKeeps
<1> QED  BY <1>1, <1>3, Still, AroundKeeps

LEMMA DoPingSuppliersKeeps ==
  ASSUME RestoreInv, DoPingSuppliers
  PROVE  RestoreInv'
<1>1. /\ pinged' = pinged \cup online /\ calls' = calls
      /\ job' = job /\ workerState' = workerState /\ block' = block /\ hand' = hand /\ fails' = fails
      /\ attempts' = attempts /\ written' = written /\ reading' = reading /\ requests' = requests
      /\ outgoing' = outgoing /\ streams' = streams /\ counter' = counter /\ online' = online /\ files' = files
      /\ faults' = faults
  BY DEF DoPingSuppliers, worker, fate
<1>2. pinged' \in SUBSET Number
  BY <1>1, Still
<1>3. calls' \in Seq(Call) /\ Counting'
  BY <1>1, SameCallsKeep
<1> QED  BY <1>1, <1>2, <1>3, Still, AroundKeeps

LEMMA RunsKeeps ==
  ASSUME RestoreInv, NEW s \in Number, Runs(s)
  PROVE  RestoreInv'
<1> DEFINE run == RunRequest(requests[s], files)
           told == Told(SetToSeq(run.exist), SetToSeq(run.failed))
<1>1. /\ requests' = [requests EXCEPT ![s] = run.queue] /\ outgoing' = outgoing \cup run.sent
      /\ calls' = calls \o told
      /\ fails' = IF workerState \in {"FAILED", "DONE"} THEN fails ELSE fails + Cardinality(run.failed)
      /\ job' = job /\ workerState' = workerState /\ block' = block /\ hand' = hand
      /\ attempts' = attempts /\ written' = written /\ reading' = reading
      /\ pinged' = pinged /\ streams' = streams /\ counter' = counter /\ online' = online /\ files' = files
      /\ faults' = faults
  BY DEF Runs, fate
<1>2. QueuesSound /\ SoundQueue(requests[s]) /\ files \in SUBSET Piece
  BY RestoreParts, Still
<1>3. /\ Lessens(requests[s], run.queue) /\ run.sent \in SUBSET Piece
      /\ run.exist \in SUBSET Piece /\ IsFiniteSet(run.exist)
      /\ run.failed \in SUBSET Piece /\ IsFiniteSet(run.failed)
  BY <1>2, RunSound
<1> HIDE DEF run
<1>4. told \in Seq(OtherCall)
  <2>1. SetToSeq(run.exist) \in Seq(Piece) /\ SetToSeq(run.failed) \in Seq(Piece)
    BY <1>3, InOrder
  <2> QED  BY <2>1, TellsPieces
<1>5. calls' \in Seq(Call) /\ Counting'
  BY <1>1, <1>4, ConcatKeeps
<1>6. QueuesSound' /\ ((\A t \in Number : requests[t].queue = <<>>) => (\A t \in Number : requests'[t].queue = <<>>))
  BY <1>1, <1>2, <1>3, OneLessensKeep
<1>7. fails' \in Nat
  BY <1>1, <1>3, Still, FS_CardinalityType
<1>8. outgoing' \in SUBSET Piece
  BY <1>1, <1>3, Still
<1> QED  BY <1>1, <1>5, <1>6, <1>7, <1>8, Still, AroundKeeps

(* A stream opens, by a fault or not.                                      *)
LEMMA StreamOpensKeeps ==
  ASSUME RestoreInv, NEW m \in Transfer, StreamOpens(m), Fault \/ faults' = faults
  PROVE  RestoreInv'
<1>1. /\ m \notin streams /\ pinged' \subseteq pinged /\ streams' = streams \cup {m}
      /\ calls' = Append(calls, ToReceiver(Opening, m))
      /\ job' = job /\ workerState' = workerState /\ block' = block /\ hand' = hand /\ fails' = fails
      /\ attempts' = attempts /\ written' = written /\ reading' = reading /\ requests' = requests
      /\ outgoing' = outgoing /\ counter' = counter /\ online' = online /\ files' = files
  BY DEF StreamOpens, worker, Opening
<1>2. /\ faults \in Nat /\ Counted(counter, streams, calls, faults) /\ faults \in 0..MaxFaults
      /\ (Fault => faults' = faults + 1 /\ faults' \in 0..MaxFaults)
  BY RestoreParts, FaultGives
<1>3. calls' \in Seq(Call) /\ Counted(counter, streams', calls', faults)
  BY <1>1, <1>2, Still, StreamOpened
<1>4. Counting'
  <2>1. Counted(counter, streams', calls', faults')
    <3>1. CASE faults' = faults
      BY <1>3, <3>1
    <3>2. CASE Fault
      BY <1>2, <1>3, <3>2, MoreExcess
    <3> QED  BY <3>1, <3>2
  <2> QED  BY <1>1, <1>2, <2>1 DEF Counting
<1>5. streams' \in SUBSET Transfer /\ IsFiniteSet(streams)'
  BY <1>1, Still, FS_AddElement
<1>6. pinged' \in SUBSET Number
  BY <1>1, Still
<1>7. (\A s \in Number : requests[s].queue = <<>>) => (\A s \in Number : requests'[s].queue = <<>>)
  BY <1>1
<1> QED  BY <1>1, <1>3, <1>4, <1>5, <1>6, <1>7, Still, AroundKeeps

LEMMA DataComesKeeps ==
  ASSUME RestoreInv, NEW p \in outgoing, DataComes(p)
  PROVE  RestoreInv'
<1>1. StreamOpens([what |-> "data", of |-> p]) /\ faults' = faults
  BY DEF DataComes, fate
<1>2. [what |-> "data", of |-> p] \in Transfer
  BY Still, Transfers
<1> QED  BY <1>1, <1>2, StreamOpensKeeps

LEMMA AckComesKeeps ==
  ASSUME RestoreInv, NEW s \in pinged, AckComes(s)
  PROVE  RestoreInv'
<1>1. StreamOpens([what |-> "ack", of |-> <<s>>]) /\ faults' = faults
  BY DEF AckComes, fate
<1>2. [what |-> "ack", of |-> <<s>>] \in Transfer
  BY Still, Transfers
<1> QED  BY <1>1, <1>2, StreamOpensKeeps

LEMMA BadAnswerKeeps ==
  ASSUME RestoreInv, NEW p \in outgoing, BadAnswer(p)
  PROVE  RestoreInv'
<1>1. PICK what \in {"fail", "broken"} : Fault /\ StreamOpens([what |-> what, of |-> p])
  BY DEF BadAnswer
<1>2. [what |-> what, of |-> p] \in Transfer
  BY Still, Transfers
<1> QED  BY <1>1, <1>2, StreamOpensKeeps

LEMMA StreamClosesKeeps ==
  ASSUME RestoreInv, NEW m \in streams, StreamCloses(m)
  PROVE  RestoreInv'
<1>1. /\ ToReceiver(Opening, m) \notin ToSet(calls) /\ streams' = streams \ {m}
      /\ calls' = Append(calls, ToReceiver(Closing, m))
      /\ job' = job /\ workerState' = workerState /\ block' = block /\ hand' = hand /\ fails' = fails
      /\ attempts' = attempts /\ written' = written /\ reading' = reading /\ requests' = requests
      /\ outgoing' = outgoing /\ pinged' = pinged /\ counter' = counter /\ online' = online /\ files' = files
      /\ faults' = faults
  BY DEF StreamCloses, worker, fate, Opening, Closing
<1>2. faults \in Nat /\ Counted(counter, streams, calls, faults) /\ faults \in 0..MaxFaults
  BY RestoreParts
<1>3. calls' \in Seq(Call) /\ Counted(counter, streams', calls', faults)
  BY <1>1, <1>2, Still, StreamClosed
<1>4. Counting'
  BY <1>1, <1>2, <1>3 DEF Counting
<1>5. streams' \in SUBSET Transfer /\ IsFiniteSet(streams)'
  BY <1>1, Still, FS_RemoveElement
<1>6. (\A s \in Number : requests[s].queue = <<>>) => (\A s \in Number : requests'[s].queue = <<>>)
  BY <1>1
<1> QED  BY <1>1, <1>3, <1>4, <1>5, <1>6, Still, AroundKeeps

LEMMA StreamFailsKeeps ==
  ASSUME RestoreInv, NEW m \in streams, StreamFails(m)
  PROVE  RestoreInv'
<1>1. /\ ToReceiver(Opening, m) \notin ToSet(calls) /\ Fault
      /\ streams' = streams \ {m} /\ outgoing' = outgoing \ {m.of}
      /\ job' = job /\ workerState' = workerState /\ block' = block /\ hand' = hand /\ fails' = fails
      /\ attempts' = attempts /\ written' = written /\ reading' = reading /\ requests' = requests
      /\ pinged' = pinged /\ counter' = counter /\ online' = online /\ files' = files /\ calls' = calls
  BY DEF StreamFails, worker, Opening
<1>2. /\ faults \in Nat /\ Counted(counter, streams, calls, faults)
      /\ faults' = faults + 1 /\ faults' \in 0..MaxFaults
  BY <1>1, RestoreParts, FaultGives
<1>3. Counted(counter, streams', calls, faults + 1)
  BY <1>1, <1>2, Still, StreamLost
<1>4. Counting'
  BY <1>1, <1>2, <1>3 DEF Counting
<1>5. streams' \in SUBSET Transfer /\ IsFiniteSet(streams)' /\ outgoing' \in SUBSET Piece
  BY <1>1, Still, FS_RemoveElement
<1>6. (\A s \in Number : requests[s].queue = <<>>) => (\A s \in Number : requests'[s].queue = <<>>)
  BY <1>1
<1>7. calls' \in Seq(Call)
  BY <1>1, Still
<1> QED  BY <1>1, <1>4, <1>5, <1>6, <1>7, Still, AroundKeeps

LEMMA ReceiverHandlesKeeps ==
  ASSUME RestoreInv, ReceiverHandles
  PROVE  RestoreInv'
<1> DEFINE c == Head(calls)
           closed == <<Inbox(c.message)>>
<1>1. /\ calls # <<>> /\ c.to = "receiver"
      /\ IF c.event = Opening
         THEN /\ counter' = counter + 1
              /\ Post(IF counter = 0 THEN <<ToWorker("data-receiving-started", NoPiece)>> ELSE <<>>)
         ELSE /\ counter' = IF counter > 0 THEN counter - 1 ELSE 0
              /\ Post((IF counter = 1 THEN <<ToWorker("data-receiving-stopped", NoPiece)>> ELSE <<>>) \o closed)
      /\ job' = job /\ workerState' = workerState /\ block' = block /\ hand' = hand /\ fails' = fails
      /\ attempts' = attempts /\ written' = written /\ reading' = reading /\ requests' = requests
      /\ outgoing' = outgoing /\ pinged' = pinged /\ streams' = streams /\ online' = online /\ files' = files
      /\ faults' = faults
  BY DEF ReceiverHandles, worker, network, fate, Opening
<1>2. /\ faults \in Nat /\ Counted(counter, streams, calls, faults) /\ faults \in 0..MaxFaults
      /\ calls \in Seq(Call) /\ IsFiniteSet(streams)
  BY RestoreParts
<1>3. Tail(calls) \in Seq(Call) /\ c \in Call
  BY <1>1, <1>2, FirstCall
<1>4. c.message \in Transfer /\ c.event \in {Opening, Closing}
  BY <1>1, <1>3, Carries
<1>5. /\ <<ToWorker("data-receiving-started", NoPiece)>> \in Seq(OtherCall)
      /\ <<ToWorker("data-receiving-stopped", NoPiece)>> \in Seq(OtherCall)
      /\ closed \in Seq(OtherCall)
  <2>1. /\ ToWorker("data-receiving-started", NoPiece) \in OtherCall
        /\ ToWorker("data-receiving-stopped", NoPiece) \in OtherCall
        /\ Inbox(c.message) \in OtherCall
    BY <1>4, PostedCalls DEF PlainEvent
  <2> QED  BY <2>1, PostedLists
<1> HIDE DEF c, closed
<1>6. PICK m \in Seq(OtherCall) : Post(m) /\ Counted(counter', streams, Tail(calls), faults)
  <2>1. CASE c.event = Opening
    <3>1. Counted(counter + 1, streams, Tail(calls), faults)
      BY <1>1, <1>2, <2>1, OpeningHandled DEF c
    <3> QED  BY <1>1, <1>5, <2>1, <3>1, NoCall
  <2>2. CASE c.event = Closing
    <3>1. counter > 0 /\ Counted(counter - 1, streams, Tail(calls), faults)
      BY <1>1, <1>2, <2>2, ClosingHandled DEF c
    <3>2. counter' = counter - 1
      BY <1>1, <2>2, <3>1 DEF Opening, Closing
    <3>3. \E m \in Seq(OtherCall) : Post(m)
      <4>1. PICK a \in Seq(OtherCall) : Post(a \o closed)
        BY <1>1, <1>5, <2>2, NoCall DEF Opening, Closing
      <4>2. a \o closed \in Seq(OtherCall)
        BY <1>5, PostedLists
      <4> QED  BY <4>1, <4>2
    <3> QED  BY <3>1, <3>2, <3>3
  <2> QED  BY <1>4, <2>1, <2>2
<1>7. calls' \in Seq(Call) /\ Counted(counter', streams, calls', faults)
  <2>1. calls' = Tail(calls) \o m
    BY <1>6 DEF Post
  <2>2. calls' \in Seq(Call) /\ SameStreams(Tail(calls), calls')
    BY <1>3, <2>1, QuietConcat
  <2> QED  BY <1>3, <1>6, <2>2, SameCounted
<1>8. Counting'
  BY <1>1, <1>2, <1>7 DEF Counting
<1>9. (\A s \in Number : requests[s].queue = <<>>) => (\A s \in Number : requests'[s].queue = <<>>)
  BY <1>1
<1>10. IsFiniteSet(streams)'
  BY <1>1, <1>2
<1> QED  BY <1>1, <1>7, <1>8, <1>9, <1>10, Still, AroundKeeps

LEMMA InboxHandlesKeeps ==
  ASSUME RestoreInv, InboxHandles
  PROVE  RestoreInv'
<1> DEFINE m == Head(calls).message
           what == m.what
           p == m.of
           waited == what # "ack" /\ p \in outgoing
           known == waited /\ Has(requests[p[3]], p)
<1>1. /\ calls # <<>> /\ Head(calls).to = "inbox"
      /\ outgoing' = IF waited THEN outgoing \ {p} ELSE outgoing
      /\ requests' = IF waited THEN [requests EXCEPT ![p[3]] = OnDataReceived(@, p, what)] ELSE requests
      /\ fails' = IF known /\ what = "fail" /\ workerState \notin {"FAILED", "DONE"} THEN fails + 1 ELSE fails
      /\ Post(CASE known /\ what = "data" -> <<Data(p, TRUE)>>
                [] known /\ what = "fail" -> <<ToWorker("request-failed", p)>>
                [] OTHER -> <<>>)
      /\ job' = job /\ workerState' = workerState /\ block' = block /\ hand' = hand
      /\ attempts' = attempts /\ written' = written /\ reading' = reading
      /\ pinged' = pinged /\ streams' = streams /\ counter' = counter /\ online' = online /\ files' = files
      /\ faults' = faults
  BY DEF InboxHandles, fate
<1>2. calls \in Seq(Call)
  BY RestoreParts
<1>3. m \in Transfer
  <2>1. Head(calls) \in Call
    BY <1>1, <1>2, FirstCall
  <2> QED  BY <1>1, <2>1, Carries
<1>4. waited => p \in Piece /\ p[3] \in Number
  BY <1>3, Transfers, Pieces
<1> HIDE DEF m, what, p
<1>5. PICK l \in Seq(OtherCall) : Post(l)
  <2>1. CASE known /\ what = "data"
    <3>1. <<Data(p, TRUE)>> \in Seq(OtherCall)
      BY <1>4, <2>1, PostedCalls, PostedLists
    <3>2. Post(<<Data(p, TRUE)>>)
      BY <1>1, <2>1
    <3> QED  BY <3>1, <3>2
  <2>2. CASE known /\ what = "fail"
    <3>1. <<ToWorker("request-failed", p)>> \in Seq(OtherCall)
      BY <1>4, <2>2, PostedCalls, PostedLists
    <3>2. Post(<<ToWorker("request-failed", p)>>)
      BY <1>1, <2>2
    <3> QED  BY <3>1, <3>2
  <2>3. CASE ~ (known /\ what = "data") /\ ~ (known /\ what = "fail")
    <3>1. Post(<<>>)
      BY <1>1, <2>3
    <3> QED  BY <3>1, NoCall
  <2> QED  BY <2>1, <2>2, <2>3
<1>6. calls' \in Seq(Call) /\ Counting'
  <2>1. Head(calls).to # "receiver"
    BY <1>1
  <2> QED  BY <1>1, <1>5, <2>1, PostKeeps
<1>7. QueuesSound' /\ ((\A t \in Number : requests[t].queue = <<>>) => (\A t \in Number : requests'[t].queue = <<>>))
  <2>1. QueuesSound
    BY RestoreParts
  <2>2. CASE waited
    <3>1. SoundQueue(requests[p[3]])
      BY <1>4, <2>2, RestoreParts
    <3>2. Lessens(requests[p[3]], OnDataReceived(requests[p[3]], p, what))
      BY <3>1, ReceivedSound
    <3>3. requests' = [requests EXCEPT ![p[3]] = OnDataReceived(requests[p[3]], p, what)]
      BY <1>1, <2>2
    <3> QED  BY <1>4, <2>1, <2>2, <3>2, <3>3, OneLessensKeep
  <2>3. CASE ~ waited
    BY <1>1, <2>1, <2>3, SameRequestsKeep
  <2> QED  BY <2>2, <2>3
<1>8. fails' \in Nat
  BY <1>1, Still
<1>9. outgoing' \in SUBSET Piece
  BY <1>1, Still
<1> QED  BY <1>1, <1>6, <1>7, <1>8, <1>9, Still, AroundKeeps

LEMMA RetrieveFailsKeeps ==
  ASSUME RestoreInv, NEW p \in outgoing, RetrieveFails(p)
  PROVE  RestoreInv'
<1>1. /\ Fault /\ outgoing' = outgoing \ {p}
      /\ requests' = [requests EXCEPT ![p[3]] = NotSent(@, p)]
      /\ job' = job /\ workerState' = workerState /\ block' = block /\ hand' = hand /\ fails' = fails
      /\ attempts' = attempts /\ written' = written /\ reading' = reading /\ calls' = calls
      /\ pinged' = pinged /\ streams' = streams /\ counter' = counter /\ online' = online /\ files' = files
  BY DEF RetrieveFails, worker
<1>2. p \in Piece /\ p[3] \in Number
  BY Still, Pieces
<1>3. QueuesSound' /\ ((\A t \in Number : requests[t].queue = <<>>) => (\A t \in Number : requests'[t].queue = <<>>))
  <2>1. QueuesSound /\ SoundQueue(requests[p[3]])
    BY <1>2, RestoreParts
  <2>2. Lessens(requests[p[3]], NotSent(requests[p[3]], p))
    BY <1>2, <2>1, NotSentSound
  <2> QED  BY <1>1, <1>2, <2>1, <2>2, OneLessensKeep
<1>4. calls' \in Seq(Call) /\ Counting'
  BY <1>1, SameCallsKeep
<1>5. outgoing' \in SUBSET Piece
  BY <1>1, Still
<1> QED  BY <1>1, <1>3, <1>4, <1>5, Still, AroundKeeps

LEMMA RebuilderClosesKeeps ==
  ASSUME RestoreInv, RebuilderCloses
  PROVE  RestoreInv'
<1>1. /\ Fault /\ DeleteBackupRequests
      /\ job' = job /\ workerState' = workerState /\ block' = block /\ hand' = hand /\ fails' = fails
      /\ attempts' = attempts /\ written' = written /\ reading' = reading /\ calls' = calls
      /\ pinged' = pinged /\ streams' = streams /\ counter' = counter /\ online' = online /\ files' = files
  BY DEF RebuilderCloses, worker
<1>2. QueuesSound' /\ (\A s \in Number : requests'[s].queue = <<>>) /\ outgoing' \subseteq outgoing
  BY <1>1, DeletedKeeps
<1>3. calls' \in Seq(Call) /\ Counting'
  BY <1>1, SameCallsKeep
<1>4. outgoing' \in SUBSET Piece
  BY <1>2, Still
<1> QED  BY <1>1, <1>2, <1>3, <1>4, Still, AroundKeeps

(* The worker is destroyed, and deletes what it still asks for.            *)
LEMMA EndingKeeps ==
  ASSUME RestoreInv, calls # <<>>, Head(calls).to # "receiver", Post(<<>>), DeleteBackupRequests, files' \in SUBSET Piece,
         \/ workerState' = "FAILED" /\ job' = "failed" /\ written' = [i \in 1..block |-> i - 1]
         \/ workerState' = "DONE" /\ job' = "extracting" /\ written' = [i \in 1..MaxBlock + 1 |-> i - 1],
         block' = block /\ hand' = hand /\ fails' = fails /\ attempts' = attempts /\ reading' = reading
         /\ pinged' = pinged /\ streams' = streams /\ counter' = counter /\ online' = online /\ faults' = faults
  PROVE  RestoreInv'
<1>1. WorkerTypes /\ NetworkTypes
  BY RestoreParts
<1>2. QueuesSound' /\ (\A s \in Number : requests'[s].queue = <<>>) /\ outgoing' \subseteq outgoing
  BY DeletedKeeps
<1>3. calls' \in Seq(Call) /\ Counting'
  BY NoCall, PostKeeps
<1>4. WorkerTypes'
  BY <1>1 DEF WorkerTypes
<1>5. NetworkTypes'
  <2>1. outgoing' \in SUBSET Piece
    BY <1>1, <1>2 DEF NetworkTypes
  <2> QED  BY <1>1, <1>3, <2>1 DEF NetworkTypes
<1>6. Written'
  <2>1. BlocksDone' = IF workerState' = "DONE" THEN MaxBlock + 1 ELSE block
    BY DEF BlocksDone
  <2>2. CASE workerState' = "FAILED" /\ job' = "failed" /\ written' = [i \in 1..block |-> i - 1]
    BY <2>1, <2>2 DEF Written
  <2>3. CASE workerState' = "DONE" /\ job' = "extracting" /\ written' = [i \in 1..MaxBlock + 1 |-> i - 1]
    BY <2>1, <2>3 DEF Written
  <2> QED  BY <2>2, <2>3
<1>7. Emptied'
  BY <1>2 DEF Emptied
<1> QED  BY <1>2, <1>3, <1>4, <1>5, <1>6, <1>7 DEF RestoreInv

LEMMA GivenUpKeeps ==
  ASSUME RestoreInv, GivenUp
  PROVE  RestoreInv'
<1>1. /\ RemoveBlock \/ files' = files
      /\ workerState' = "FAILED" /\ job' = "failed" /\ written' = written
      /\ DeleteBackupRequests /\ Post(<<>>)
      /\ block' = block /\ hand' = hand /\ fails' = fails /\ attempts' = attempts /\ reading' = reading
      /\ pinged' = pinged /\ streams' = streams /\ counter' = counter /\ online' = online /\ faults' = faults
  BY DEF GivenUp, FailNow, fate
<1>2. /\ calls # <<>> /\ Head(calls).to # "receiver"
      /\ workerState \in {"REQUESTED", "RECEIVING", "RAID", "BLOCK"}
  <2>1. \/ Handles("request-failed") /\ workerState = "REQUESTED"
        \/ Handles("request-failed") /\ workerState = "RECEIVING"
        \/ Handles("data-receiving-stopped") /\ workerState = "RECEIVING"
        \/ Handles("raid-failed") /\ workerState = "RAID"
        \/ Handles("block-failed") /\ workerState = "BLOCK"
    BY DEF GivenUp
  <2> QED  BY <2>1, Taken
<1>3. written' = [i \in 1..block |-> i - 1]
  BY <1>1, <1>2, AskedAgain
<1>4. files' \in SUBSET Piece
  BY <1>1, Removed, Still
<1> QED  BY <1>1, <1>2, <1>3, <1>4, EndingKeeps

LEMMA AllRestoredKeeps ==
  ASSUME RestoreInv, AllRestored
  PROVE  RestoreInv'
<1>1. /\ Handles("block-restored") /\ workerState = "BLOCK" /\ IsLastBlock /\ RemoveBlock
      /\ workerState' = "DONE" /\ job' = "extracting" /\ written' = Append(written, block)
      /\ DeleteBackupRequests /\ Post(<<>>)
      /\ block' = block /\ hand' = hand /\ fails' = fails /\ attempts' = attempts /\ reading' = reading
      /\ pinged' = pinged /\ streams' = streams /\ counter' = counter /\ online' = online /\ faults' = faults
  BY DEF AllRestored, fate
<1>2. calls # <<>> /\ Head(calls).to # "receiver"
  BY <1>1, Taken
<1>3. block \in Nat /\ written = [i \in 1..block |-> i - 1]
  BY <1>1, AskedAgain
<1>4. written' = [i \in 1..MaxBlock + 1 |-> i - 1]
  <2>1. written' = [i \in 1..block + 1 |-> i - 1]
    BY <1>1, <1>3, OneMore
  <2> QED  BY <1>1, <2>1 DEF IsLastBlock
<1>5. files' \in SUBSET Piece
  BY <1>1, Removed
<1> QED  BY <1>1, <1>2, <1>4, <1>5, EndingKeeps

LEMMA StartRestoreKeeps ==
  ASSUME RestoreInv, StartRestore
  PROVE  RestoreInv'
<1>1. /\ job = "none" /\ job' = "working" /\ workerState' = "AT_STARTUP"
      /\ calls' = Append(calls, ToWorker("init", NoPiece))
      /\ block' = block /\ hand' = hand /\ fails' = fails /\ attempts' = attempts /\ written' = written
      /\ reading' = reading /\ requests' = requests /\ outgoing' = outgoing /\ pinged' = pinged
      /\ streams' = streams /\ counter' = counter /\ files' = files /\ online' = online /\ faults' = faults
  BY DEF StartRestore, network, fate
<1>2. WorkerTypes /\ NetworkTypes /\ QueuesSound /\ Written
  BY RestoreParts
<1>3. ToWorker("init", NoPiece) \in OtherCall
  BY PostedCalls DEF PlainEvent
<1>4. calls' \in Seq(Call) /\ Counting'
  BY <1>1, <1>3, AppendKeeps
<1>5. WorkerTypes'
  BY <1>1, <1>2 DEF WorkerTypes
<1>6. NetworkTypes'
  BY <1>1, <1>2, <1>4 DEF NetworkTypes
<1>7. QueuesSound'
  BY <1>1, <1>2, SameRequestsKeep
<1>8. Written'
  <2>1. workerState = "NONE" /\ block = 0
    BY <1>1, <1>2 DEF Written
  <2>2. BlocksDone = block /\ BlocksDone' = block
    BY <1>1, <2>1 DEF BlocksDone
  <2> QED  BY <1>1, <1>2, <2>1, <2>2 DEF Written
<1>9. Emptied'
  BY <1>1 DEF Emptied, Ended
<1> QED  BY <1>4, <1>5, <1>6, <1>7, <1>8, <1>9 DEF RestoreInv

LEMMA ExtractDoneKeeps ==
  ASSUME RestoreInv, ExtractDone
  PROVE  RestoreInv'
<1>1. /\ job = "extracting" /\ job' = "restore done" /\ workerState' = workerState
      /\ calls' = calls
      /\ block' = block /\ hand' = hand /\ fails' = fails /\ attempts' = attempts /\ written' = written
      /\ reading' = reading /\ requests' = requests /\ outgoing' = outgoing /\ pinged' = pinged
      /\ streams' = streams /\ counter' = counter /\ files' = files /\ online' = online /\ faults' = faults
  BY DEF ExtractDone, worker, network, fate
<1>2. WorkerTypes /\ NetworkTypes /\ QueuesSound /\ Written /\ Emptied
  BY RestoreParts
<1>3. calls' \in Seq(Call) /\ Counting'
  BY <1>1, SameCallsKeep
<1>4. WorkerTypes'
  BY <1>1, <1>2 DEF WorkerTypes
<1>5. NetworkTypes'
  BY <1>1, <1>2, <1>3 DEF NetworkTypes
<1>6. QueuesSound'
  BY <1>1, <1>2, SameRequestsKeep
<1>7. Written'
  <2>1. BlocksDone' = BlocksDone
    BY <1>1 DEF BlocksDone
  <2> QED  BY <1>1, <1>2, <2>1 DEF Written
<1>8. Emptied'
  BY <1>1, <1>2 DEF Emptied, Ended
<1> QED  BY <1>3, <1>4, <1>5, <1>6, <1>7, <1>8 DEF RestoreInv

-----------------------------------------------------------------------------
LEMMA RestoreBegins == RestoreInit => RestoreInv
<1> SUFFICES ASSUME RestoreInit PROVE RestoreInv
  OBVIOUS
<1>1. /\ job = "none" /\ workerState = "NONE" /\ block = 0
      /\ hand = [D |-> {}, P |-> {}] /\ fails = 0 /\ attempts = 0 /\ written = <<>> /\ reading = FALSE
      /\ requests = [s \in Number |-> NewRequests(Piece)]
      /\ outgoing = {} /\ pinged = {} /\ streams = {} /\ counter = 0
      /\ files = {} /\ calls = <<>> /\ online \in Presence /\ faults = 0
  BY DEF RestoreInit
<1>2. MaxBlock \in Nat /\ MaxFaults \in Nat /\ Presence \subseteq SUBSET Number
  BY RestoreAssumption
<1>3. WorkerTypes
  <2>1. block \in Block /\ fails \in Nat /\ attempts \in 0..3
    BY <1>1, <1>2 DEF Block
  <2>2. hand \in [D : SUBSET Number, P : SUBSET Number]
    BY <1>1
  <2>3. reading \in BOOLEAN
    BY <1>1
  <2> QED  BY <1>1, <2>1, <2>2, <2>3 DEF WorkerTypes
<1>4. NetworkTypes
  BY <1>1, <1>2, FS_EmptySet DEF NetworkTypes
<1>5. QueuesSound
  BY <1>1, NewSound DEF QueuesSound, SoundQueue
<1>6. Counting
  <2>1. \A e : At(calls, e) = {} /\ Waiting(calls, e) = 0
    BY <1>1, FS_EmptySet DEF At, Waiting
  <2>2. Cardinality(streams) = 0
    BY <1>1, FS_EmptySet
  <2>3. OpeningsOf(calls, streams)
    BY <2>1 DEF OpeningsOf
  <2>4. Excess(counter, streams, calls) = 0
    BY <1>1, <2>1, <2>2 DEF Excess
  <2> QED  BY <1>1, <1>2, <2>3, <2>4 DEF Counting, Counted
<1>7. Written
  <2>1. BlocksDone = 0
    BY <1>1 DEF BlocksDone
  <2>2. [i \in 1..0 |-> i - 1] = <<>>
    OBVIOUS
  <2> QED  BY <1>1, <2>1, <2>2 DEF Written
<1>8. Emptied
  BY <1>1 DEF Emptied, Ended
<1> QED  BY <1>3, <1>4, <1>5, <1>6, <1>7, <1>8 DEF RestoreInv

LEMMA RestoreStep ==
  ASSUME RestoreInv, [RestoreNext]_restoreVars
  PROVE  RestoreInv'
<1>1. CASE Reactor
  BY <1>1, BeginKeeps, DataReceivedKeeps, InstantKeeps, ReceivingStartedKeeps, ReceivingStoppedKeeps,
     RequestFailedKeeps, GivenUpKeeps, RaidDoneKeeps, NextBlockKeeps, AllRestoredKeeps, IgnoreKeeps,
     ReceiverHandlesKeeps, InboxHandlesKeeps DEF Reactor, WorkerHandles
<1>2. CASE Requests
  BY <1>2, RunsKeeps DEF Requests
<1>3. CASE DataCome \/ AcksCome
  BY <1>3, DataComesKeeps, AckComesKeeps DEF DataCome, AcksCome
<1>4. CASE DataEnd \/ AcksEnd
  BY <1>4, StreamClosesKeeps DEF DataEnd, AcksEnd
<1>5. CASE \E p \in outgoing : BadAnswer(p) \/ RetrieveFails(p)
  BY <1>5, BadAnswerKeeps, RetrieveFailsKeeps
<1>6. CASE \E m \in streams : StreamFails(m)
  BY <1>6, StreamFailsKeeps
<1>7. CASE \/ ReadEnds \/ ReadFails \/ DoPingSuppliers \/ RebuilderCloses \/ StartRestore \/ ExtractDone
  BY <1>7, ReadEndsKeeps, ReadFailsKeeps, DoPingSuppliersKeeps, RebuilderClosesKeeps, StartRestoreKeeps,
     ExtractDoneKeeps
<1>8. CASE UNCHANGED restoreVars
  <2>1. /\ job' = job /\ workerState' = workerState /\ block' = block /\ hand' = hand /\ fails' = fails
        /\ attempts' = attempts /\ written' = written /\ reading' = reading /\ requests' = requests
        /\ outgoing' = outgoing /\ pinged' = pinged /\ streams' = streams /\ counter' = counter
        /\ files' = files /\ calls' = calls /\ online' = online /\ faults' = faults
    BY <1>8 DEF restoreVars, worker, network, fate
  <2>2. calls' \in Seq(Call) /\ Counting'
    BY <2>1, SameCallsKeep
  <2>3. IsFiniteSet(streams)'
    BY <2>1, Still
  <2>4. (\A s \in Number : requests[s].queue = <<>>) => (\A s \in Number : requests'[s].queue = <<>>)
    BY <2>1
  <2> QED  BY <2>1, <2>2, <2>3, <2>4, Still, AroundKeeps
<1> QED  BY <1>1, <1>2, <1>3, <1>4, <1>5, <1>6, <1>7, <1>8 DEF RestoreNext

(* The counter of the data receiver never falls behind the streams whose   *)
(* opening it has handled, and gets ahead of them only by the transfers    *)
(* that failed and were never reported as closed.                          *)
LEMMA RestoreTyped == RestoreInv => RestoreTypeOK
<1> SUFFICES ASSUME RestoreInv PROVE RestoreTypeOK
  OBVIOUS
<1>1. WorkerTypes /\ NetworkTypes /\ QueuesSound /\ Counting
  BY RestoreParts
<1>2. /\ job \in {"none", "working", "extracting", "restore done", "failed"}
      /\ workerState \in {"NONE", "AT_STARTUP", "REQUESTED", "RECEIVING", "RAID", "BLOCK", "DONE", "FAILED"}
      /\ block \in Block /\ hand.D \subseteq Number /\ hand.P \subseteq Number
      /\ fails \in Nat /\ attempts \in 0..3 /\ reading \in BOOLEAN
  BY <1>1 DEF WorkerTypes
<1>3. files \subseteq Piece /\ outgoing \subseteq Piece /\ pinged \subseteq Number
  BY <1>1 DEF NetworkTypes
<1>4. \A s \in Number : LET q == requests[s] IN
        /\ IsInjective(q.queue) /\ ToSet(q.queue) \subseteq q.dict /\ q.dict \subseteq Piece
        /\ q.asked \subseteq q.dict
  <2> SUFFICES ASSUME NEW s \in Number, NEW q, q = requests[s]
               PROVE  /\ IsInjective(q.queue) /\ ToSet(q.queue) \subseteq q.dict /\ q.dict \subseteq Piece
                      /\ q.asked \subseteq q.dict
    OBVIOUS
  <2>1. SoundQueue(q)
    BY RestoreParts
  <2> QED  BY <2>1, Fields
<1>5. counter - Receiving \in 0..MaxFaults
  <2>1. /\ faults \in 0..MaxFaults /\ counter \in Nat /\ calls \in Seq(Call) /\ IsFiniteSet(streams)
        /\ Excess(counter, streams, calls) \in 0..faults
    BY RestoreParts DEF Counted
  <2>2. Receiving = Cardinality(streams) - Waiting(calls, Opening) + Waiting(calls, Closing)
    BY DEF Receiving, Waiting, At, Opening, Closing
  <2>3. Cardinality(streams) \in Nat /\ Waiting(calls, Opening) \in Nat /\ Waiting(calls, Closing) \in Nat
    BY <2>1, Ats, FS_CardinalityType
  <2> QED  BY <2>1, <2>2, <2>3, RestoreAssumption DEF Excess
<1> QED  BY <1>2, <1>3, <1>4, <1>5 DEF RestoreTypeOK

LEMMA RestoreSettles == RestoreInv => Settled
<1> SUFFICES ASSUME RestoreInv PROVE Settled
  OBVIOUS
<1>1. Written /\ Emptied
  BY RestoreParts
<1>2. ASSUME job \in {"extracting", "restore done"} PROVE written = [i \in 1..MaxBlock + 1 |-> i - 1]
  <2>1. BlocksDone = MaxBlock + 1
    BY <1>1, <1>2 DEF Written, BlocksDone
  <2> QED  BY <1>1, <2>1 DEF Written
<1> QED  BY <1>1, <1>2 DEF Settled, Emptied

LEMMA RestoreInvariant == RestoreSpec => []RestoreInv
<1>1. RestoreInv /\ [RestoreNext]_restoreVars => RestoreInv'
  BY RestoreStep
<1> QED  BY <1>1, RestoreBegins, PTL DEF RestoreSpec

(* In every state of a restore the queues of requests hold a piece once,   *)
(* each with its record, whatever the answers, failures and deletions      *)
(* (io_throttle.SupplierQueue), and the StreamsCounter of the data         *)
(* receiver is too high by at most the transfers that failed.              *)
THEOREM RestoreTypes == RestoreSpec => []RestoreTypeOK
<1> QED  BY RestoreInvariant, RestoreTyped, PTL

(* What is handed to tar is every block, once and in order, however often  *)
(* a block was asked for again; and a restore that has ended, done or      *)
(* failed, has left nothing in any queue (restore_worker.doDeleteAllRequests). *)
THEOREM RestoreSettled == RestoreSpec => []Settled
<1> QED  BY RestoreInvariant, RestoreSettles, PTL
=============================================================================
