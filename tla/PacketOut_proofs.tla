-------------------------- MODULE PacketOut_proofs --------------------------
(***************************************************************************)
(* Proofs about PacketOut: its types, that a packet reports exactly one    *)
(* status, and that it keeps the promise of Delivery.                      *)
(*                                                                         *)
(* Seen from outside, a step of a packet does one of three things: nothing *)
(* (Quiet), a new caller joins (Joined), or the packet ends (Ended).  That *)
(* is shown once, in StepForms, and both OneStatus and the refinement      *)
(* follow from it.                                                         *)
(***************************************************************************)
EXTENDS PacketOut, SequenceTheorems, TLAPS

(* What the handlers rely on without saying so: a packet has no transfer   *)
(* before its file was pushed, and waits for a reply only if one of its    *)
(* callbacks is for Ack or Fail.                                           *)
Before ==
  /\ state \in {"AT_STARTUP", "CACHING"} => transfer = {}
  /\ state = "RESPONSE?" => isAckNeeded

IInv == TypeOK /\ OneStatus /\ Before

Quiet ==
  /\ state' = "NOT_EXIST" <=> state = "NOT_EXIST"
  /\ UNCHANGED <<callers, told, reports>>

Joined ==
  /\ state # "NOT_EXIST" /\ state' = state
  /\ \E c \in Caller : c \notin callers /\ callers' = callers \cup {c}
  /\ UNCHANGED <<told, reports>>

Ended ==
  /\ state # "NOT_EXIST" /\ state' = "NOT_EXIST"
  /\ UNCHANGED callers
  /\ \/ reports' = Append(reports, "answered") /\ Tell(callers)
     \/ /\ reports' = Append(reports, "unanswered")
        /\ Tell(IF "timeout" \in Wanted /\ isAckNeeded THEN callers ELSE {})
     \/ reports' = Append(reports, "failed") /\ UNCHANGED told
     \/ reports' = Append(reports, "cancelled") /\ UNCHANGED told

-----------------------------------------------------------------------------
(* The queue of events keeps its type.                                     *)
LEMMA EventTypes ==
  ASSUME NEW es \in Seq(Event)
  PROVE  /\ es # <<>> => Tail(es) \in Seq(Event) /\ Head(es) \in Event
         /\ \A e \in EventName, a \in Proto \cup Command \cup {NoArg} :
              /\ Posted(e, a) \in Event
              /\ Append(es, Posted(e, a)) \in Seq(Event)
              /\ <<Posted(e, a)>> \in Seq(Event)
         /\ \A fs \in Seq(Event) : es \o fs \in Seq(Event)
<1>1. es # <<>> => Tail(es) \in Seq(Event) /\ Head(es) \in Event
  BY HeadTailProperties
<1>2. ASSUME NEW e \in EventName, NEW a \in Proto \cup Command \cup {NoArg}
      PROVE  /\ Posted(e, a) \in Event
             /\ Append(es, Posted(e, a)) \in Seq(Event)
             /\ <<Posted(e, a)>> \in Seq(Event)
  <2>1. Posted(e, a) \in Event
    BY DEF Posted, Event
  <2> QED
    BY <2>1, AppendProperties
<1>3. \A fs \in Seq(Event) : es \o fs \in Seq(Event)
  BY ConcatProperties
<1> QED
  BY <1>1, <1>2, <1>3

(* Told stays a count for every caller.                                    *)
LEMMA TellType ==
  ASSUME told \in [Caller -> Nat], NEW C, Tell(C)
  PROVE  told' \in [Caller -> Nat]
BY DEF Tell

(* A push makes the file known to some transports and posts one or two     *)
(* events.                                                                 *)
LEMMA PushType ==
  ASSUME TypeOK, events # <<>>, transfer = {}, Push
  PROVE  TypeOK' /\ state' = "ITEMS?" /\ UNCHANGED outside
<1> DEFINE N == {"write-error", "nothing-to-send", "items-sent"}
<1>1. PICK written \in BOOLEAN, S \in SUBSET Proto :
        /\ items' = S /\ given' = S
        /\ events' = Tail(events)
                 \o (IF written THEN <<>> ELSE <<Posted("write-error", NoArg)>>)
                 \o <<Posted(IF S = {} THEN "nothing-to-send" ELSE "items-sent", NoArg)>>
  BY DEF Push
<1>2. Tail(events) \in Seq(Event)
  BY EventTypes DEF TypeOK
<1>3. \A e \in N : <<Posted(e, NoArg)>> \in Seq(Event)
  BY <1>2, EventTypes DEF EventName
<1>4. (IF written THEN <<>> ELSE <<Posted("write-error", NoArg)>>) \in Seq(Event)
  BY <1>3
<1>5. <<Posted(IF S = {} THEN "nothing-to-send" ELSE "items-sent", NoArg)>> \in Seq(Event)
  BY <1>3
<1>6. Tail(events) \o (IF written THEN <<>> ELSE <<Posted("write-error", NoArg)>>) \in Seq(Event)
  BY <1>2, <1>4, EventTypes
<1>7. events' \in Seq(Event)
  BY <1>1, <1>5, <1>6, EventTypes
<1> QED
  BY <1>1, <1>7 DEF Push, TypeOK, State, outside, inbox

(* The end of a packet, whatever the status.                               *)
LEMMA FinishType ==
  ASSUME TypeOK, NEW s \in Status, Finish(s)
  PROVE  state' \in State /\ reports' \in Seq(Status) /\ caching' \in BOOLEAN
BY AppendProperties DEF TypeOK, Finish, State

-----------------------------------------------------------------------------
(* A packet that ends in CACHING, ITEMS?, IN_QUEUE, SENDING or RESPONSE?   *)
(* ends once.                                                              *)
LEMMA CancellingForms ==
  ASSUME NEW rest, Cancelling(rest)
  PROVE  Quiet \/ Ended
<1>1. CASE state = "ITEMS?" /\ UNCHANGED <<state, reports>>
  BY <1>1 DEF Cancelling, Quiet
<1>2. CASE state \in {"CACHING", "IN_QUEUE", "SENDING", "RESPONSE?"} /\ Finish("cancelled")
  BY <1>2 DEF Cancelling, Finish, Ended
<1> QED
  BY <1>1, <1>2 DEF Cancelling

(* Every step is quiet, or another caller joins, or the packet ends.       *)
LEMMA StepForms ==
  ASSUME IInv, [Next]_vars
  PROVE  Quiet \/ Joined \/ Ended
<1> USE DEF IInv, outside, machine, transports, inbox
<1>1. CASE Run
  BY <1>1 DEF Run, Push, Quiet
<1>2. CASE IdentityOnHand
  BY <1>2 DEF IdentityOnHand, Push, Quiet
<1>3. CASE NotSent
  BY <1>3 DEF NotSent, Finish, Ended
<1>4. CASE ItemsSent
  <2>1. CASE cancelled
    BY <1>4, <2>1 DEF ItemsSent, Finish, Ended
  <2>2. CASE ~ cancelled
    BY <1>4, <2>2 DEF ItemsSent, Quiet
  <2> QED BY <2>1, <2>2
<1>5. CASE Cancel
  BY <1>5, CancellingForms DEF Cancel
<1>6. CASE RegisterItem
  BY <1>6 DEF RegisterItem, Quiet
<1>7. CASE ItemCancelled
  <2>1. CASE Finish("failed")
    BY <1>7, <2>1 DEF ItemCancelled, Finish, Ended
  <2>2. CASE UNCHANGED reports /\ state' \in {state, "FAILED"}
    BY <1>7, <2>2 DEF ItemCancelled, Quiet
  <2> QED BY <1>7, <2>1, <2>2 DEF ItemCancelled
<1>8. CASE UnregisterItem
  <2>1. CASE isAckNeeded /\ state' = "RESPONSE?" /\ UNCHANGED reports
    BY <1>8, <2>1 DEF UnregisterItem, Quiet
  <2>2. CASE ~ isAckNeeded /\ Finish("unanswered")
    <3>1. Tell({})
      BY <1>8, Zenon DEF UnregisterItem, Tell, TypeOK
    <3> QED BY <1>8, <2>2, <3>1 DEF UnregisterItem, Finish, Ended
  <2> QED BY <1>8, <2>1, <2>2 DEF UnregisterItem
<1>9. CASE LateItem
  BY <1>9 DEF LateItem, Quiet
<1>10. CASE Response
  BY <1>10 DEF Response, Finish, Ended
<1>11. CASE ResponseTimeout
  BY <1>11 DEF ResponseTimeout, Finish, Ended, Before
<1>12. CASE Ignore
  BY <1>12 DEF Ignore, Quiet
<1>13. CASE Cached
  BY <1>13 DEF Cached, Quiet
<1>14. CASE Transports
  BY <1>14 DEF Transports, RegisterFile, UnregisterFile, CancelledFile, Quiet
<1>15. CASE \E c \in Reply : Inbox(c)
  BY <1>15 DEF Inbox, Quiet
<1>16. CASE TimeoutLoop \/ Abort \/ Timer
  BY <1>16 DEF TimeoutLoop, Abort, Timer, Quiet
<1>17. CASE Shutdown
  BY <1>17, CancellingForms DEF Shutdown
<1>18. CASE \E c \in Caller : Merge(c)
  BY <1>18 DEF Merge, Joined
<1>19. CASE UNCHANGED vars
  BY <1>19 DEF vars, Quiet
<1> QED
  BY <1>1, <1>2, <1>3, <1>4, <1>5, <1>6, <1>7, <1>8, <1>9, <1>10, <1>11, <1>12,
     <1>13, <1>14, <1>15, <1>16, <1>17, <1>18, <1>19 DEF Next, Handle

(* A step keeps what the handlers rely on.                                 *)
LEMMA BeforeStep ==
  ASSUME IInv, [Next]_vars
  PROVE  Before'
<1> USE DEF IInv, TypeOK, Before, isAckNeeded, machine, transports, outside, inbox
<1>1. CASE Run \/ IdentityOnHand
  BY <1>1 DEF Run, IdentityOnHand, Push
<1>2. CASE NotSent \/ Response \/ ResponseTimeout
  BY <1>2 DEF NotSent, Response, ResponseTimeout, Finish
<1>3. CASE ItemsSent
  BY <1>3 DEF ItemsSent, Finish
<1>4. CASE Cancel \/ Shutdown
  BY <1>4 DEF Cancel, Shutdown, Cancelling, Finish
<1>5. CASE RegisterItem
  BY <1>5 DEF RegisterItem
<1>6. CASE ItemCancelled
  BY <1>6 DEF ItemCancelled, Finish
<1>7. CASE UnregisterItem
  BY <1>7 DEF UnregisterItem, Finish
<1>8. CASE LateItem
  BY <1>8 DEF LateItem
<1>9. CASE Ignore \/ Cached \/ Transports \/ TimeoutLoop \/ Abort \/ Timer
  BY <1>9 DEF Ignore, Cached, Transports, RegisterFile, UnregisterFile, CancelledFile,
     TimeoutLoop, Abort, Timer
<1>10. CASE (\E c \in Reply : Inbox(c)) \/ (\E c \in Caller : Merge(c))
  BY <1>10 DEF Inbox, Merge
<1>11. CASE UNCHANGED vars
  BY <1>11 DEF vars
<1> QED
  BY <1>1, <1>2, <1>3, <1>4, <1>5, <1>6, <1>7, <1>8, <1>9, <1>10, <1>11 DEF Next, Handle

-----------------------------------------------------------------------------
(* A handler that takes its event from the queue leaves a queue of events. *)
LEMMA HandledType ==
  ASSUME TypeOK, events # <<>>, events' = Tail(events)
  PROVE  events' \in Seq(Event)
BY EventTypes DEF TypeOK

(* An event posted with one of the known names leaves a queue of events.   *)
LEMMA PostType ==
  ASSUME TypeOK, NEW e \in EventName, NEW a \in Proto \cup Command \cup {NoArg}, Post(e, a)
  PROVE  events' \in Seq(Event)
BY EventTypes DEF TypeOK, Post

(* Every step keeps the types.                                             *)
LEMMA TypeStep ==
  ASSUME IInv, [Next]_vars
  PROVE  TypeOK'
<1>0. TypeOK /\ Before
  BY DEF IInv
<1> USE DEF machine, transports, outside, inbox, Got
<1>1. CASE Run
  <2>1. CASE Push
    BY <1>0, <1>1, <2>1, PushType DEF Run, Before
  <2>2. CASE state' = "CACHING"
    <3>1. events' \in Seq(Event)
      BY <1>0, <1>1, <2>2, HandledType DEF Run, Push
    <3> QED BY <1>0, <1>1, <2>2, <3>1 DEF Run, Push, TypeOK, State
  <2> QED BY <1>1, <2>1, <2>2 DEF Run
<1>2. CASE IdentityOnHand
  BY <1>0, <1>2, PushType DEF IdentityOnHand, Before
<1>3. CASE NotSent
  <2>1. events' \in Seq(Event)
    BY <1>0, <1>3, HandledType DEF NotSent
  <2>2. state' \in State /\ reports' \in Seq(Status) /\ caching' \in BOOLEAN
    BY <1>0, <1>3, FinishType DEF NotSent, Status
  <2> QED BY <1>0, <1>3, <2>1, <2>2 DEF NotSent, TypeOK
<1>4. CASE ItemsSent
  <2>1. events' \in Seq(Event)
    BY <1>0, <1>4, HandledType DEF ItemsSent
  <2>2. CASE cancelled
    <3>1. state' \in State /\ reports' \in Seq(Status) /\ caching' \in BOOLEAN
      BY <1>0, <1>4, <2>2, FinishType DEF ItemsSent, Status
    <3> QED BY <1>0, <1>4, <2>1, <2>2, <3>1 DEF ItemsSent, TypeOK
  <2>3. CASE ~ cancelled
    BY <1>0, <1>4, <2>1, <2>3 DEF ItemsSent, TypeOK, State
  <2> QED BY <2>2, <2>3
<1>5. ASSUME NEW rest \in Seq(Event), Cancelling(rest)
      PROVE  TypeOK'
  <2>1. CASE state = "ITEMS?" /\ UNCHANGED <<state, reports>>
    BY <1>0, <1>5, <2>1 DEF Cancelling, TypeOK
  <2>2. CASE Finish("cancelled")
    <3>1. state' \in State /\ reports' \in Seq(Status) /\ caching' \in BOOLEAN
      BY <1>0, <2>2, FinishType DEF Status
    <3> QED BY <1>0, <1>5, <2>2, <3>1 DEF Cancelling, TypeOK
  <2> QED BY <1>5, <2>1, <2>2 DEF Cancelling
<1>6. CASE Cancel
  BY <1>0, <1>5, <1>6, EventTypes DEF Cancel, TypeOK
<1>7. CASE Shutdown
  BY <1>0, <1>5, <1>7 DEF Shutdown, TypeOK
<1>8. CASE RegisterItem
  <2>1. events' \in Seq(Event)
    BY <1>0, <1>8, HandledType DEF RegisterItem
  <2> QED BY <1>0, <1>8, <2>1 DEF RegisterItem, TypeOK, State
<1>9. CASE ItemCancelled
  <2>1. events' \in Seq(Event)
    BY <1>0, <1>9, HandledType DEF ItemCancelled
  <2>2. CASE Finish("failed")
    <3>1. state' \in State /\ reports' \in Seq(Status) /\ caching' \in BOOLEAN
      BY <1>0, <2>2, FinishType DEF Status
    <3> QED BY <1>0, <1>9, <2>1, <2>2, <3>1 DEF ItemCancelled, Pop, TypeOK
  <2>3. CASE UNCHANGED <<reports, caching>> /\ state' \in {state, "FAILED"}
    BY <1>0, <1>9, <2>1, <2>3 DEF ItemCancelled, Pop, TypeOK, State
  <2> QED BY <1>9, <2>2, <2>3 DEF ItemCancelled
<1>10. CASE UnregisterItem
  <2>1. events' \in Seq(Event)
    BY <1>0, <1>10, HandledType DEF UnregisterItem
  <2>2. CASE Finish("unanswered")
    <3>1. state' \in State /\ reports' \in Seq(Status) /\ caching' \in BOOLEAN
      BY <1>0, <2>2, FinishType DEF Status
    <3> QED BY <1>0, <1>10, <2>1, <2>2, <3>1 DEF UnregisterItem, Pop, TypeOK
  <2>3. CASE UNCHANGED <<reports, caching>> /\ state' = "RESPONSE?"
    BY <1>0, <1>10, <2>1, <2>3 DEF UnregisterItem, Pop, TypeOK, State
  <2> QED BY <1>10, <2>2, <2>3 DEF UnregisterItem
<1>11. CASE LateItem
  <2>1. events' \in Seq(Event)
    BY <1>0, <1>11, HandledType DEF LateItem
  <2> QED BY <1>0, <1>11, <2>1 DEF LateItem, Pop, TypeOK
<1>12. CASE Response
  <2>1. events' \in Seq(Event)
    BY <1>0, <1>12, HandledType DEF Response
  <2>2. state' \in State /\ reports' \in Seq(Status) /\ caching' \in BOOLEAN
    BY <1>0, <1>12, FinishType DEF Response, Status
  <2>3. told' \in [Caller -> Nat]
    BY <1>0, <1>12, TellType DEF Response, TypeOK
  <2> QED BY <1>0, <1>12, <2>1, <2>2, <2>3 DEF Response, TypeOK
<1>13. CASE ResponseTimeout
  <2>1. events' \in Seq(Event)
    BY <1>0, <1>13, HandledType DEF ResponseTimeout
  <2>2. state' \in State /\ reports' \in Seq(Status) /\ caching' \in BOOLEAN
    BY <1>0, <1>13, FinishType DEF ResponseTimeout, Status
  <2>3. told' \in [Caller -> Nat]
    BY <1>0, <1>13, TellType DEF ResponseTimeout, TypeOK
  <2> QED BY <1>0, <1>13, <2>1, <2>2, <2>3 DEF ResponseTimeout, TypeOK
<1>14. CASE Ignore
  <2>1. events' \in Seq(Event)
    BY <1>0, <1>14, HandledType DEF Ignore
  <2> QED BY <1>0, <1>14, <2>1 DEF Ignore, TypeOK
<1>15. CASE Cached
  <2>1. events' \in Seq(Event)
    BY <1>0, <1>15, PostType DEF Cached, EventName
  <2> QED BY <1>0, <1>15, <2>1 DEF Cached, TypeOK
<1>16. CASE Transports
  <2>1. PICK p \in Proto : RegisterFile(p) \/ UnregisterFile(p) \/ CancelledFile(p)
    BY <1>16 DEF Transports
  <2>2. events' \in Seq(Event)
    BY <1>0, <2>1, PostType DEF RegisterFile, UnregisterFile, CancelledFile, EventName
  <2> QED BY <1>0, <2>1, <2>2 DEF RegisterFile, UnregisterFile, CancelledFile, TypeOK
<1>17. ASSUME NEW c \in Reply, Inbox(c)
       PROVE  TypeOK'
  <2>1. c \in Command
    BY PacketAssumption
  <2>2. events' \in Seq(Event)
    BY <1>0, <1>17, <2>1, PostType DEF Inbox, EventName
  <2> QED BY <1>0, <1>17, <2>1, <2>2 DEF Inbox, TypeOK
<1>18. CASE TimeoutLoop \/ Abort \/ Timer
  <2>1. events' \in Seq(Event)
    BY <1>0, <1>18, PostType DEF TimeoutLoop, Abort, Timer, EventName
  <2> QED BY <1>0, <1>18, <2>1 DEF TimeoutLoop, Abort, Timer, TypeOK
<1>19. CASE \E c \in Caller : Merge(c)
  BY <1>0, <1>19 DEF Merge, TypeOK
<1>20. CASE UNCHANGED vars
  BY <1>0, <1>20 DEF vars, TypeOK
<1> QED
  BY <1>1, <1>2, <1>3, <1>4, <1>6, <1>7, <1>8, <1>9, <1>10, <1>11, <1>12, <1>13,
     <1>14, <1>15, <1>16, <1>17, <1>18, <1>19, <1>20 DEF Next, Handle

-----------------------------------------------------------------------------
(* While a packet is alive nothing was reported and nobody was told.       *)
LEMMA Alive ==
  ASSUME IInv, state # "NOT_EXIST"
  PROVE  reports = <<>> /\ told = [c \in Caller |-> 0]
<1>1. reports \in Seq(Status) /\ Len(reports) = 0
  BY DEF IInv, OneStatus, TypeOK
<1>2. reports = <<>>
  BY <1>1, EmptySeq
<1>3. \A c \in Caller : told[c] = 0
  BY <1>2 DEF IInv, OneStatus
<1> QED
  BY <1>2, <1>3 DEF IInv, TypeOK

(* An ended packet has one status, and told those it should have told.     *)
LEMMA OneStatusStep ==
  ASSUME IInv, [Next]_vars
  PROVE  OneStatus'
<1>1. CASE Quiet
  BY <1>1 DEF Quiet, IInv, OneStatus, isAckNeeded
<1>2. CASE Joined
  BY <1>2, Alive DEF Joined, IInv, OneStatus, isAckNeeded
<1>3. CASE Ended
  <2>1. reports = <<>> /\ told = [c \in Caller |-> 0]
    BY <1>3, Alive DEF Ended
  <2> DEFINE ended(s) == reports' = <<s>>
  <2>2. \A s \in Status : reports' = Append(reports, s) => ended(s) /\ Len(reports') = 1
    BY <2>1
  <2> HIDE DEF ended
  <2>3. CASE reports' = Append(reports, "answered") /\ Tell(callers)
    <3>1. reports' = <<"answered">> /\ Len(reports') = 1
      BY <2>2, <2>3 DEF Status, ended
    <3> QED BY <1>3, <2>1, <2>3, <3>1 DEF Ended, OneStatus, Tell
  <2>4. CASE /\ reports' = Append(reports, "unanswered")
             /\ Tell(IF "timeout" \in Wanted /\ isAckNeeded THEN callers ELSE {})
    <3>1. reports' = <<"unanswered">> /\ Len(reports') = 1
      BY <2>2, <2>4 DEF Status, ended
    <3>2. reports' # <<"answered">>
      BY <3>1
    <3> QED BY <1>3, <2>1, <2>4, <3>1, <3>2 DEF Ended, OneStatus, Tell, isAckNeeded
  <2>5. CASE /\ reports' = Append(reports, "failed") \/ reports' = Append(reports, "cancelled")
             /\ UNCHANGED told
    <3>1. reports' \in {<<"failed">>, <<"cancelled">>} /\ Len(reports') = 1
      BY <2>2, <2>5 DEF Status, ended
    <3>2. reports' # <<"answered">> /\ reports' # <<"unanswered">>
      BY <3>1
    <3> QED BY <1>3, <2>1, <2>5, <3>1, <3>2 DEF Ended, OneStatus
  <2> QED BY <1>3, <2>3, <2>4, <2>5 DEF Ended
<1> QED
  BY <1>1, <1>2, <1>3, StepForms

LEMMA InitInv == Init => IInv
<1> SUFFICES ASSUME Init PROVE IInv
  OBVIOUS
<1>1. PICK c \in Caller : callers = {c}
  BY DEF Init
<1>2. events \in Seq(Event)
  BY DEF Init, Posted, Event, EventName
<1>3. TypeOK
  <2>1. told \in [Caller -> Nat]
    BY DEF Init
  <2>2. reports \in Seq(Status)
    BY EmptySeq DEF Init
  <2> QED BY <1>1, <1>2, <2>1, <2>2 DEF Init, TypeOK, State
<1>4. OneStatus
  BY DEF Init, OneStatus
<1>5. Before
  BY DEF Init, Before
<1> QED
  BY <1>3, <1>4, <1>5 DEF IInv

LEMMA Invariance == Spec => []IInv
<1>1. IInv /\ [Next]_vars => IInv'
  BY TypeStep, OneStatusStep, BeforeStep DEF IInv
<1> QED
  BY InitInv, <1>1, PTL DEF Spec

(* packet_out keeps the types of its state.                                *)
THEOREM PacketTypes == Spec => []TypeOK
BY Invariance, PTL DEF IInv

(* packet_out: every packet reports one status, at its end, and runs the   *)
(* callbacks of its callers once if it was answered, never if it failed or *)
(* was cancelled.                                                          *)
THEOREM PacketStatus == Spec => []OneStatus
BY Invariance, PTL DEF IInv

-----------------------------------------------------------------------------
(* Those whose callbacks have run, as the mapping of Promise says it.      *)
Informed == {c \in Caller : told[c] > 0}

LEMMA PromiseInit == Init => Promise!Init
BY DEF Init, Promise!Init

(* A quiet step is a stutter, a caller joins, an ended packet was answered *)
(* or not or was given up.                                                 *)
LEMMA PromiseStep ==
  ASSUME IInv, [Next]_vars
  PROVE  [Promise!Next]_(Promise!vars)
<1>1. CASE Quiet
  BY <1>1 DEF Quiet, Promise!vars
<1>2. CASE Joined
  <2>1. reports = <<>>
    BY <1>2, Alive DEF Joined
  <2>2. PICK c \in Caller : c \notin callers /\ callers' = callers \cup {c}
    BY <1>2 DEF Joined
  <2>3. Promise!Join(c)
    BY <1>2, <2>1, <2>2 DEF Joined, Promise!Join
  <2> QED BY <2>3 DEF Promise!Next
<1>3. CASE Ended
  <2>1. reports = <<>> /\ told = [c \in Caller |-> 0] /\ callers \subseteq Caller
    BY <1>3, Alive DEF Ended, IInv, TypeOK
  <2>2. \A s \in Status : reports' = Append(reports, s) => reports' # <<>> /\ reports'[1] = s
    BY <2>1
  <2>3. Informed = {}
    BY <2>1 DEF Informed
  <2>4. \A C \in SUBSET Caller : Tell(C) => Informed' = C
    BY <2>1 DEF Informed, Tell
  <2>5. CASE reports' = Append(reports, "answered") /\ Tell(callers)
    <3>1. Promise!Answer
      BY <1>3, <2>1, <2>2, <2>4, <2>5 DEF Ended, Promise!Answer, Informed, Status
    <3> QED BY <3>1 DEF Promise!Next
  <2>6. CASE /\ reports' = Append(reports, "unanswered")
             /\ Tell(IF "timeout" \in Wanted /\ isAckNeeded THEN callers ELSE {})
    <3>1. Informed' \in {{}, callers}
      BY <2>1, <2>4, <2>6
    <3>2. Promise!NoAnswer
      BY <1>3, <2>1, <2>2, <2>6, <3>1 DEF Ended, Promise!NoAnswer, Informed, Status
    <3> QED BY <3>2 DEF Promise!Next
  <2>7. CASE /\ reports' = Append(reports, "failed") \/ reports' = Append(reports, "cancelled")
             /\ UNCHANGED told
    <3>1. Promise!GiveUp
      BY <1>3, <2>1, <2>2, <2>7 DEF Ended, Promise!GiveUp, Status
    <3> QED BY <3>1 DEF Promise!Next
  <2> QED BY <1>3, <2>5, <2>6, <2>7 DEF Ended
<1> QED
  BY <1>1, <1>2, <1>3, StepForms

(* packet_out implements the promise of gateway.outbox: one outcome for    *)
(* all who sent the packet.                                                *)
THEOREM PacketDelivers == Spec => Delivers
<1>1. IInv /\ [Next]_vars => [Promise!Next]_(Promise!vars)
  BY PromiseStep
<1> QED
  BY PromiseInit, <1>1, Invariance, PTL DEF Spec, Delivers, Promise!Spec

-----------------------------------------------------------------------------
(* Each item is spoken of once.                                            *)

ItemEvent == {"unregister-item", "item-cancelled"}

(* The items of which q speaks are in S, each spoken of once.              *)
SpeaksOf(q, S) ==
  /\ \A i \in DOMAIN q : q[i].event \in ItemEvent => q[i].arg \in S \cup {NoArg}
  /\ \A i, j \in DOMAIN q :
       /\ q[i].event \in ItemEvent /\ q[j].event \in ItemEvent
       /\ q[i].arg = q[j].arg /\ q[i].arg # NoArg
       => i = j

(* A transport has the file still to begin, or has begun with it, or has   *)
(* said that it is done with it: one of the three.  Until the file is      *)
(* pushed none of them has it.  In FAILED and after the end the items no   *)
(* longer matter.                                                          *)
OneSpeaker ==
  /\ state \in {"AT_STARTUP", "CACHING"} => items = {} /\ given = {} /\ sending = {}
  /\ state \notin {"NOT_EXIST", "FAILED"} =>
       given \cap sending = {} /\ SpeaksOf(events, items \ (given \cup sending))

LEMMA SpeakerPopped ==
  ASSUME TypeOK, OneSpeaker
  PROVE  PoppedItem
<1> SUFFICES ASSUME events # <<>>, Head(events).event \in ItemEvent,
                    state \in {"IN_QUEUE", "SENDING", "RESPONSE?"}
             PROVE  Head(events).arg \in items \cup {NoArg}
  BY DEF PoppedItem, Got, ItemEvent
<1>1. 1 \in DOMAIN events /\ Head(events) = events[1]
  BY DEF TypeOK
<1> QED  BY <1>1 DEF OneSpeaker, SpeaksOf

LEMMA SpeaksMore ==
  ASSUME NEW q, NEW S, NEW T, S \subseteq T, SpeaksOf(q, S)
  PROVE  SpeaksOf(q, T)
BY DEF SpeaksOf

(* The first event is taken; its item is not spoken of any more.           *)
LEMMA SpeaksTail ==
  ASSUME NEW q \in Seq(Event), q # <<>>, NEW S, SpeaksOf(q, S)
  PROVE  /\ SpeaksOf(Tail(q), S)
         /\ Head(q).event \in ItemEvent => SpeaksOf(Tail(q), S \ {Head(q).arg})
<1>1. /\ Len(q) \in Nat \ {0} /\ Len(Tail(q)) = Len(q) - 1 /\ Tail(q) \in Seq(Event)
      /\ DOMAIN q = 1..Len(q) /\ DOMAIN Tail(q) = 1..Len(Tail(q))
      /\ \A i \in 1..Len(Tail(q)) : Tail(q)[i] = q[i + 1]
      /\ Head(q) = q[1]
  BY HeadTailProperties, LenProperties, EmptySeq
<1> DEFINE r == Tail(q)
<1>2. \A i \in DOMAIN r : i + 1 \in DOMAIN q /\ i + 1 # 1 /\ r[i] = q[i + 1]
  BY <1>1
<1>3. \A i, j \in DOMAIN r : i + 1 = j + 1 => i = j
  BY <1>1
<1>4. 1 \in DOMAIN q
  BY <1>1
<1> HIDE DEF r
<1>5. SpeaksOf(r, S)
  BY <1>2, <1>3 DEF SpeaksOf
<1>6. ASSUME Head(q).event \in ItemEvent
      PROVE  SpeaksOf(r, S \ {Head(q).arg})
  <2>1. \A i \in DOMAIN r : r[i].event \in ItemEvent => r[i].arg = NoArg \/ r[i].arg # Head(q).arg
    BY <1>1, <1>2, <1>4, <1>6 DEF SpeaksOf
  <2> QED  BY <1>5, <2>1 DEF SpeaksOf
<1> QED  BY <1>5, <1>6 DEF r

(* What is posted about other things changes nothing; a transport may      *)
(* speak of an item of which nobody has spoken.                            *)
LEMMA SpeaksJoin ==
  ASSUME NEW q \in Seq(Event), NEW m \in Seq(Event), NEW S, NEW T,
         SpeaksOf(q, S), SpeaksOf(m, T), S \cap T = {}
  PROVE  SpeaksOf(q \o m, S \cup T)
<1> DEFINE r == q \o m
<1>1. /\ Len(q) \in Nat /\ Len(m) \in Nat
      /\ DOMAIN q = 1..Len(q) /\ DOMAIN m = 1..Len(m) /\ DOMAIN r = 1..(Len(q) + Len(m))
      /\ \A i \in DOMAIN r : r[i] = IF i <= Len(q) THEN q[i] ELSE m[i - Len(q)]
  BY ConcatProperties, LenProperties
<1>2. \A i \in DOMAIN r : \/ i \in DOMAIN q /\ r[i] = q[i]
                          \/ i - Len(q) \in DOMAIN m /\ r[i] = m[i - Len(q)]
  BY <1>1
<1>3. \A i, j \in DOMAIN r : i - Len(q) = j - Len(q) => i = j
  BY <1>1
<1> HIDE DEF r
<1>4. \A i \in DOMAIN r : r[i].event \in ItemEvent => r[i].arg \in (S \cup T) \cup {NoArg}
  BY <1>2 DEF SpeaksOf
<1>5. \A i, j \in DOMAIN r :
        /\ r[i].event \in ItemEvent /\ r[j].event \in ItemEvent
        /\ r[i].arg = r[j].arg /\ r[i].arg # NoArg
        => i = j
  BY <1>2, <1>3 DEF SpeaksOf
<1>6. SpeaksOf(r, S \cup T)
  BY <1>4, <1>5 DEF SpeaksOf
<1> QED  BY <1>6 DEF r

LEMMA SpeaksPosted ==
  ASSUME NEW q \in Seq(Event), NEW S, SpeaksOf(q, S),
         NEW e \in EventName, NEW a \in Proto \cup Command \cup {NoArg}
  PROVE  /\ e \notin ItemEvent \/ a = NoArg => SpeaksOf(Append(q, Posted(e, a)), S)
         /\ a \notin S => SpeaksOf(Append(q, Posted(e, a)), S \cup {a})
<1> DEFINE x == Posted(e, a)
           m == <<x>>
<1>1. /\ m \in Seq(Event) /\ DOMAIN m = {1} /\ m[1].event = e /\ m[1].arg = a
      /\ Append(q, x) = q \o m
  BY EventTypes DEF Posted
<1> HIDE DEF m
<1>2. e \notin ItemEvent \/ a = NoArg => SpeaksOf(m, {})
  BY <1>1 DEF SpeaksOf
<1>3. SpeaksOf(m, {a})
  BY <1>1 DEF SpeaksOf
<1>4. ASSUME SpeaksOf(m, {})
      PROVE  SpeaksOf(q \o m, S)
  <2>1. SpeaksOf(q \o m, S \cup {}) /\ S \cup {} = S
    BY <1>1, <1>4, SpeaksJoin
  <2> QED  BY <2>1
<1>5. a \notin S => SpeaksOf(q \o m, S \cup {a})
  BY <1>1, <1>3, SpeaksJoin
<1> QED  BY <1>1, <1>2, <1>4, <1>5

(* Nothing but the push itself is in the way of a new file.                *)
LEMMA PushSpeaker ==
  ASSUME TypeOK, OneSpeaker, events # <<>>, state \in {"AT_STARTUP", "CACHING"}, Push
  PROVE  OneSpeaker'
<1>1. PICK written \in BOOLEAN, S \in SUBSET Proto :
        /\ items' = S /\ given' = S
        /\ events' = Tail(events)
                 \o (IF written THEN <<>> ELSE <<Posted("write-error", NoArg)>>)
                 \o <<Posted(IF S = {} THEN "nothing-to-send" ELSE "items-sent", NoArg)>>
  BY DEF Push
<1>2. state' = "ITEMS?" /\ sending' = {}
  BY DEF Push, OneSpeaker
<1>3. Tail(events) \in Seq(Event) /\ SpeaksOf(Tail(events), {})
  <2>1. events \in Seq(Event) /\ SpeaksOf(events, {})
    BY DEF TypeOK, OneSpeaker
  <2> QED  BY <2>1, EventTypes, SpeaksTail
<1> DEFINE p == IF written THEN <<>> ELSE <<Posted("write-error", NoArg)>>
           x == Posted(IF S = {} THEN "nothing-to-send" ELSE "items-sent", NoArg)
           r == Tail(events) \o p
<1>a. \A e \in EventName : Posted(e, NoArg) \in Event /\ Posted(e, NoArg).event = e
  BY DEF Posted, Event
<1>b. x \in Event /\ x.event \notin ItemEvent
  BY <1>a DEF EventName, ItemEvent
<1>c. Posted("write-error", NoArg) \in Event /\ Posted("write-error", NoArg).event = "write-error"
  BY <1>a DEF EventName
<1>4. /\ p \in Seq(Event) /\ \A i \in DOMAIN p : p[i].event = "write-error"
      /\ x \in Event /\ x.event \notin ItemEvent
  <2>1. CASE ~ written
    BY <1>b, <1>c, <2>1
  <2>2. CASE written
    BY <1>b, <2>2, EmptySeq
  <2> QED  BY <2>1, <2>2
<1> HIDE DEF p
<1>5. SpeaksOf(p, {})
  BY <1>4 DEF SpeaksOf, ItemEvent
<1>6. r \in Seq(Event) /\ SpeaksOf(r, {})
  <2>1. SpeaksOf(r, {} \cup {}) /\ {} \cup {} = {}
    BY <1>3, <1>4, <1>5, SpeaksJoin
  <2> QED  BY <1>3, <1>4, <2>1, EventTypes
<1> HIDE DEF r, x
<1>7. <<x>> \in Seq(Event) /\ SpeaksOf(<<x>>, {})
  BY <1>4 DEF SpeaksOf
<1>8. SpeaksOf(r \o <<x>>, {})
  <2>1. SpeaksOf(r \o <<x>>, {} \cup {}) /\ {} \cup {} = {}
    BY <1>6, <1>7, SpeaksJoin
  <2> QED  BY <2>1
<1>9. events' = r \o <<x>>
  BY <1>1 DEF r, p, x
<1>10. SpeaksOf(events', items' \ (given' \cup sending'))
  BY <1>8, <1>9, SpeaksMore
<1> QED  BY <1>1, <1>2, <1>10 DEF OneSpeaker

(* Handlers that take their event and leave the items alone.               *)
LEMMA TakenSpeaker ==
  ASSUME TypeOK, OneSpeaker, events # <<>>, events' = Tail(events),
         UNCHANGED <<items, given, sending>>,
         state' \in {"AT_STARTUP", "CACHING"} => state \in {"AT_STARTUP", "CACHING"},
         state' \in {"NOT_EXIST", "FAILED"} \/ state \notin {"NOT_EXIST", "FAILED"}
  PROVE  OneSpeaker'
<1>1. events \in Seq(Event)
  BY DEF TypeOK
<1>2. CASE state' \in {"NOT_EXIST", "FAILED"}
  BY <1>2 DEF OneSpeaker
<1>3. CASE state \notin {"NOT_EXIST", "FAILED"}
  <2>1. SpeaksOf(Tail(events), items \ (given \cup sending))
    BY <1>1, <1>3, SpeaksTail DEF OneSpeaker
  <2> QED  BY <1>3, <2>1 DEF OneSpeaker
<1> QED  BY <1>2, <1>3

(* Handlers that pop the item of their event.                              *)
LEMMA PopSpeaker ==
  ASSUME TypeOK, OneSpeaker, events # <<>>, events' = Tail(events),
         Head(events).event \in ItemEvent, Pop(Head(events).arg),
         UNCHANGED <<given, sending>>,
         state \in {"IN_QUEUE", "SENDING", "RESPONSE?"},
         state' \notin {"AT_STARTUP", "CACHING"}
  PROVE  OneSpeaker'
<1> DEFINE a == Head(events).arg
<1>1. events \in Seq(Event) /\ SpeaksOf(events, items \ (given \cup sending))
  BY DEF TypeOK, OneSpeaker
<1>2. SpeaksOf(Tail(events), (items \ (given \cup sending)) \ {a})
  BY <1>1, SpeaksTail
<1>3. items' = items \ {a}
  BY DEF Pop
<1> HIDE DEF a
<1>4. (items \ (given \cup sending)) \ {a} = items' \ (given' \cup sending')
  BY <1>3
<1>5. SpeaksOf(events', items' \ (given' \cup sending')) /\ given' \cap sending' = {}
  BY <1>2, <1>4 DEF OneSpeaker
<1> QED  BY <1>5 DEF OneSpeaker

(* Those who post an event that is about no item.                          *)
LEMMA PostSpeaker ==
  ASSUME TypeOK, OneSpeaker, UNCHANGED <<state, items, given, sending>>,
         NEW e \in EventName \ ItemEvent, NEW a \in Proto \cup Command \cup {NoArg}, Post(e, a)
  PROVE  OneSpeaker'
<1>1. events \in Seq(Event) /\ events' = Append(events, Posted(e, a))
  BY DEF TypeOK, Post
<1>2. SpeaksOf(events, items \ (given \cup sending)) =>
        SpeaksOf(events', items \ (given \cup sending))
  BY <1>1, SpeaksPosted
<1> QED  BY <1>2 DEF OneSpeaker

(* A transport tells of an item that was given to it.                      *)
LEMMA TransportSpeaker ==
  ASSUME TypeOK, OneSpeaker, NEW p \in Proto,
         RegisterFile(p) \/ UnregisterFile(p) \/ CancelledFile(p)
  PROVE  OneSpeaker'
<1> DEFINE held == items \ (given \cup sending)
<1>1. UNCHANGED <<state, items>> /\ events \in Seq(Event)
  BY DEF RegisterFile, UnregisterFile, CancelledFile, machine, TypeOK
<1>2. state \in {"AT_STARTUP", "CACHING"} => FALSE
  BY DEF OneSpeaker, RegisterFile, UnregisterFile, CancelledFile
<1>3. CASE state \in {"NOT_EXIST", "FAILED"}
  BY <1>1, <1>3 DEF OneSpeaker
<1>4. CASE state \notin {"NOT_EXIST", "FAILED"}
  <2>1. given \cap sending = {} /\ SpeaksOf(events, held)
    BY <1>4 DEF OneSpeaker
  <2>2. p \in items /\ items \subseteq Proto
    BY DEF RegisterFile, UnregisterFile, CancelledFile, TypeOK
  <2>3. CASE RegisterFile(p)
    <3>1. /\ given' = given \ {p} /\ sending' = sending \cup {p} /\ p \in given
          /\ events' = Append(events, Posted("register-item", p))
      BY <2>3 DEF RegisterFile, Post
    <3>2. "register-item" \in EventName \ ItemEvent
      BY DEF EventName, ItemEvent
    <3>3. SpeaksOf(events', held)
      BY <1>1, <2>1, <3>1, <3>2, SpeaksPosted
    <3>4. held = items' \ (given' \cup sending') /\ given' \cap sending' = {}
      BY <1>1, <2>1, <3>1
    <3> QED  BY <1>1, <1>2, <3>3, <3>4 DEF OneSpeaker
  <2>4. CASE UnregisterFile(p)
    <3>1. /\ given' = given /\ sending' = sending \ {p} /\ p \in sending
          /\ events' = Append(events, Posted("unregister-item", p))
      BY <2>4 DEF UnregisterFile, Post
    <3>2. "unregister-item" \in EventName /\ p \notin held
      BY <3>1 DEF EventName
    <3>3. SpeaksOf(events', held \cup {p})
      BY <1>1, <2>1, <3>1, <3>2, SpeaksPosted
    <3>4. held \cup {p} = items' \ (given' \cup sending') /\ given' \cap sending' = {}
      BY <1>1, <2>1, <2>2, <3>1
    <3> QED  BY <1>1, <1>2, <3>3, <3>4 DEF OneSpeaker
  <2>5. CASE CancelledFile(p)
    <3>1. /\ given' = given \ {p} /\ sending' = sending /\ p \in given
          /\ \/ events' = Append(events, Posted("item-cancelled", p))
             \/ events' = Append(events, Posted("item-cancelled", NoArg))
      BY <2>5 DEF CancelledFile, Post, transports
    <3>2. "item-cancelled" \in EventName /\ p \notin held
      BY <3>1 DEF EventName
    <3>3. SpeaksOf(Append(events, Posted("item-cancelled", p)), held \cup {p})
      BY <1>1, <2>1, <3>2, SpeaksPosted
    <3>6. SpeaksOf(Append(events, Posted("item-cancelled", NoArg)), held)
      BY <1>1, <2>1, <3>2, SpeaksPosted
    <3>4. held \cup {p} = items' \ (given' \cup sending') /\ given' \cap sending' = {}
      BY <1>1, <2>1, <2>2, <3>1
    <3>5. SpeaksOf(events', items' \ (given' \cup sending'))
      <4> HIDE DEF held
      <4>1. SpeaksOf(Append(events, Posted("item-cancelled", NoArg)), held \cup {p})
        BY <3>6, SpeaksMore
      <4> QED  BY <3>1, <3>3, <3>4, <4>1
    <3> QED  BY <1>1, <1>2, <3>4, <3>5 DEF OneSpeaker
  <2> QED  BY <2>3, <2>4, <2>5
<1> QED  BY <1>3, <1>4

LEMMA CancellingSpeaker ==
  ASSUME TypeOK, OneSpeaker, NEW rest, Cancelling(rest),
         rest = events \/ (events # <<>> /\ rest = Tail(events))
  PROVE  OneSpeaker'
<1>1. CASE state' = "NOT_EXIST"
  BY <1>1 DEF OneSpeaker
<1>2. CASE state' # "NOT_EXIST"
  <2>1. state = "ITEMS?" /\ UNCHANGED <<state, items, given, sending>> /\ events' = rest
    BY <1>2 DEF Cancelling, Finish, transports
  <2>2. CASE rest = events
    BY <2>1, <2>2 DEF OneSpeaker
  <2>3. CASE rest # events
    BY <2>1, <2>3, TakenSpeaker
  <2> QED  BY <2>2, <2>3
<1> QED  BY <1>1, <1>2

LEMMA SpeakerStep ==
  ASSUME IInv, OneSpeaker, [Next]_vars
  PROVE  OneSpeaker'
<1>0. TypeOK
  BY DEF IInv
<1> USE DEF machine, transports, outside, inbox, Got
<1>1. CASE Run
  <2>1. CASE Push
    BY <1>0, <1>1, <2>1, PushSpeaker DEF Run
  <2>2. CASE ~ Push
    BY <1>0, <1>1, <2>2, TakenSpeaker DEF Run
  <2> QED  BY <2>1, <2>2
<1>2. CASE IdentityOnHand
  BY <1>0, <1>2, PushSpeaker DEF IdentityOnHand
<1>3. CASE NotSent \/ Response \/ ResponseTimeout
  <2>1. state' = "NOT_EXIST"
    BY <1>3 DEF NotSent, Response, ResponseTimeout, Finish
  <2> QED  BY <2>1 DEF OneSpeaker
<1>4. CASE ItemsSent
  <2>1. CASE state' = "NOT_EXIST"
    BY <2>1 DEF OneSpeaker
  <2>2. CASE state' # "NOT_EXIST"
    BY <1>0, <1>4, <2>2, TakenSpeaker DEF ItemsSent, Finish
  <2> QED  BY <2>1, <2>2
<1>5. CASE Cancel
  BY <1>0, <1>5, CancellingSpeaker DEF Cancel
<1>6. CASE RegisterItem
  BY <1>0, <1>6, TakenSpeaker DEF RegisterItem
<1>7. CASE ItemCancelled
  <2>1. state' \notin {"AT_STARTUP", "CACHING"}
    BY <1>7 DEF ItemCancelled, Finish
  <2> QED  BY <1>0, <1>7, <2>1, PopSpeaker DEF ItemCancelled, ItemEvent
<1>8. CASE UnregisterItem
  <2>1. state' \notin {"AT_STARTUP", "CACHING"}
    BY <1>8 DEF UnregisterItem, Finish
  <2> QED  BY <1>0, <1>8, <2>1, PopSpeaker DEF UnregisterItem, ItemEvent
<1>9. CASE LateItem
  BY <1>0, <1>9, PopSpeaker DEF LateItem, ItemEvent
<1>10. CASE Ignore
  <2>1. events # <<>> /\ events' = Tail(events) /\ UNCHANGED <<state, items, given, sending>>
    BY <1>10 DEF Ignore
  <2>2. CASE state \in {"NOT_EXIST", "FAILED"}
    BY <2>1, <2>2 DEF OneSpeaker
  <2>3. CASE state \notin {"NOT_EXIST", "FAILED"}
    BY <1>0, <2>1, <2>3, TakenSpeaker
  <2> QED  BY <2>2, <2>3
<1>11. CASE Cached \/ TimeoutLoop \/ Abort \/ Timer
  <2>1. UNCHANGED <<state, items, given, sending>>
    BY <1>11 DEF Cached, TimeoutLoop, Abort, Timer
  <2>2. \E e \in {"remote-identity-on-hand", "failed", "cancel", "timer-30sec"} : Post(e, NoArg)
    BY <1>11 DEF Cached, TimeoutLoop, Abort, Timer
  <2>3. {"remote-identity-on-hand", "failed", "cancel", "timer-30sec"} \subseteq EventName \ ItemEvent
    BY DEF EventName, ItemEvent
  <2> QED  BY <1>0, <2>1, <2>2, <2>3, PostSpeaker
<1>12. CASE \E c \in Reply : Inbox(c)
  <2>1. PICK c \in Reply : Inbox(c)
    BY <1>12
  <2>2. c \in Command /\ "inbox-packet" \in EventName \ ItemEvent
    BY PacketAssumption DEF EventName, ItemEvent
  <2> QED  BY <1>0, <2>1, <2>2, PostSpeaker DEF Inbox
<1>13. CASE Transports
  BY <1>0, <1>13, TransportSpeaker DEF Transports
<1>14. CASE Shutdown
  BY <1>0, <1>14, CancellingSpeaker DEF Shutdown
<1>15. CASE (\E c \in Caller : Merge(c)) \/ UNCHANGED vars
  BY <1>15 DEF Merge, vars, OneSpeaker
<1> QED
  BY <1>1, <1>2, <1>3, <1>4, <1>5, <1>6, <1>7, <1>8, <1>9, <1>10, <1>11, <1>12,
     <1>13, <1>14, <1>15 DEF Next, Handle

LEMMA InitSpeaker == Init => OneSpeaker
<1> SUFFICES ASSUME Init PROVE OneSpeaker
  OBVIOUS
<1>1. \A i \in DOMAIN events : events[i].event = "run"
  BY DEF Init, Posted
<1>2. SpeaksOf(events, items \ (given \cup sending))
  BY <1>1 DEF SpeaksOf, ItemEvent
<1> QED  BY <1>2 DEF Init, OneSpeaker

(* packet_out: when a transport says that it is done with a file, the item *)
(* it speaks of is one of the packet, or carries another host name: no     *)
(* item is popped twice, for any transports and any order of their events. *)
THEOREM PacketItems == Spec => []PoppedItem
<1>1. OneSpeaker /\ IInv /\ [Next]_vars => OneSpeaker'
  BY SpeakerStep
<1>2. IInv /\ OneSpeaker => PoppedItem
  BY SpeakerPopped DEF IInv
<1> QED  BY InitSpeaker, <1>1, <1>2, Invariance, PTL DEF Spec
=============================================================================
