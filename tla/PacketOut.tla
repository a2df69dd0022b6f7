----------------------------- MODULE PacketOut -----------------------------
(***************************************************************************)
(* transport/packet_out.py: the state machine of one outgoing packet,      *)
(* between its creation by gateway.on_outbox_packet and its removal from   *)
(* packet_out.queue(), with the parts of transport/gateway.py that post    *)
(* events to it.                                                           *)
(*                                                                         *)
(* The packet is written to a file that is given to one transport, or to   *)
(* all of them (wide).  A transport registers the file when it begins to   *)
(* send it and unregisters it at the end, or cancels a file it never       *)
(* began.  Every event is a delayed call, handled in the order of posting. *)
(***************************************************************************)
EXTENDS Naturals, Sequences, FiniteSets

CONSTANTS
  Proto,      \* the transports that can reach the recipient
  Caller,     \* those who send this packet: command, id and recipient
  Wide,       \* whether it goes to all contacts of the recipient
  Wanted,     \* the commands a caller has callbacks for, and "timeout" (None)
  Reply,      \* the commands that may answer it (commands.IsCommandAck)
  OtherHost,  \* transports that may cancel a file under another host name
  MaxReplies  \* bound: replies that arrive for the packet

Command == {"Ack", "Fail", "Data"}

NoArg == "none"

ASSUME PacketAssumption ==
  /\ NoArg \notin Proto
  /\ Wide \in BOOLEAN
  /\ Wanted \subseteq Command \cup {"timeout"} /\ Reply \subseteq Command
  /\ OtherHost \subseteq Proto
  /\ MaxReplies \in Nat

VARIABLES
  state,      \* the state of the state machine; NOT_EXIST once destroyed
  events,     \* events posted and not handled yet
  cancelled,  \* self.Cancelled
  caching,    \* the identity of the recipient is being fetched
  items,      \* the transports of self.items
  transfer,   \* those of them whose transfer_id is set
  given,      \* transports that were given the file and have not begun
  sending,    \* transports that have registered the file and send it
  callers,    \* those whose callbacks were set
  told,       \* how many times the callbacks of each caller have run
  reports,    \* statuses given to the queue item status callbacks
  replies     \* how many have arrived

machine == <<state, cancelled, items, transfer>>
transports == <<given, sending>>
outside == <<callers, told, reports>>
inbox == <<replies>>
vars == <<machine, events, caching, transports, outside, inbox>>

State == {"AT_STARTUP", "CACHING", "ITEMS?", "IN_QUEUE", "SENDING", "RESPONSE?",
          "SENT", "FAILED", "CANCEL", "NOT_EXIST"}

Status == {"answered", "unanswered", "failed", "cancelled"}

Posted(e, arg) == [event |-> e, arg |-> arg]

Post(e, arg) == events' = Append(events, Posted(e, arg))

Got(e) == events # <<>> /\ Head(events).event = e

Pending(e) == \E i \in DOMAIN events : events[i].event = e

Init ==
  /\ state = "AT_STARTUP"
  /\ events = <<Posted("run", NoArg)>>
  /\ cancelled = FALSE
  /\ caching = FALSE
  /\ items = {} /\ transfer = {} /\ given = {} /\ sending = {}
  /\ \E c \in Caller : callers = {c}
  /\ told = [c \in Caller |-> 0]
  /\ reports = <<>>
  /\ replies = 0

-----------------------------------------------------------------------------
(* Actions of the state machine.                                           *)

isAckNeeded == Wanted \cap {"Ack", "Fail"} # {}
isDataExpected == "Data" \in Wanted
isMoreItems == Cardinality(items) > 1

(* doReport...(status), doDestroyMe: a status is reported, the packet      *)
(* leaves the queue and handles no event any more.                         *)
Finish(status) ==
  /\ state' = "NOT_EXIST"
  /\ reports' = Append(reports, status)
  /\ caching' = FALSE

(* Mutant of Pop: the transfer of the item is not forgotten.               *)
PopKeeping(p) == items' = items \ {p} /\ UNCHANGED transfer

(* _pop: the item of the event leaves self.items.                          *)
Pop(p) == items' = items \ {p} /\ transfer' = transfer \ {p}

Tell(C) == told' = [c \in Caller |-> IF c \in C THEN told[c] + 1 ELSE told[c]]

(* doSerializeAndWrite, doPushItems: the file is given to a transport, or  *)
(* to every usable one when wide; there may be none.  When it could not be *)
(* written, 'write-error' is posted and it is pushed nevertheless.         *)
Push ==
  \E written \in BOOLEAN, S \in SUBSET Proto :
    /\ Wide \/ Cardinality(S) <= 1
    /\ state' = "ITEMS?"
    /\ cancelled' = FALSE
    /\ items' = S /\ given' = S
    /\ events' = Tail(events)
                 \o (IF written THEN <<>> ELSE <<Posted("write-error", NoArg)>>)
                 \o <<Posted(IF S = {} THEN "nothing-to-send" ELSE "items-sent", NoArg)>>
    /\ UNCHANGED <<transfer, sending, caching, outside, inbox>>

-----------------------------------------------------------------------------
(* The handlers A(event, arg).                                             *)

(* isRemoteIdentityKnown was decided when the machine was created.         *)
Run ==
  /\ state = "AT_STARTUP" /\ Got("run")
  /\ \/ Push
     \/ /\ state' = "CACHING" /\ caching' = TRUE
        /\ events' = Tail(events)
        /\ UNCHANGED <<cancelled, items, transfer, transports, outside, inbox>>

IdentityOnHand == state = "CACHING" /\ Got("remote-identity-on-hand") /\ Push

(* The packet can not be sent.                                             *)
NotSent ==
  /\ \/ state = "CACHING" /\ Got("failed")
     \/ state = "ITEMS?" /\ (Got("nothing-to-send") \/ Got("write-error"))
  /\ Finish("failed")
  /\ events' = Tail(events)
  /\ UNCHANGED <<cancelled, items, transfer, transports, callers, told, inbox>>

ItemsSent ==
  /\ state = "ITEMS?" /\ Got("items-sent")
  /\ events' = Tail(events)
  /\ IF cancelled
     THEN Finish("cancelled") /\ items' = {} /\ transfer' = {}
     ELSE state' = "IN_QUEUE" /\ UNCHANGED <<items, transfer, reports, caching>>
  /\ UNCHANGED <<cancelled, transports, callers, told, inbox>>

(* Event 'cancel', after which rest remains to be handled.                 *)
Cancelling(rest) ==
  /\ \/ /\ state = "ITEMS?"
        /\ cancelled' = TRUE
        /\ UNCHANGED <<state, items, transfer, reports, caching>>
     \/ /\ state \in {"IN_QUEUE", "SENDING"}
        /\ Finish("cancelled") /\ items' = {} /\ transfer' = {}
        /\ UNCHANGED cancelled
     \/ /\ state \in {"CACHING", "RESPONSE?"}
        /\ Finish("cancelled")
        /\ UNCHANGED <<cancelled, items, transfer>>
  /\ events' = rest
  /\ UNCHANGED <<transports, callers, told, inbox>>

Cancel == Got("cancel") /\ Cancelling(Tail(events))

RegisterItem ==
  /\ state \in {"IN_QUEUE", "SENDING"} /\ Got("register-item")
  /\ state' = "SENDING"
  /\ transfer' = transfer \cup ({Head(events).arg} \cap items)
  /\ events' = Tail(events)
  /\ UNCHANGED <<cancelled, items, caching, transports, outside, inbox>>

(* An item is cancelled.  When the host of the event is not that of the    *)
(* item nothing is popped, and the assertion of doReportItem ends the      *)
(* handler there: a packet with one item is then left in FAILED.           *)
ItemCancelled ==
  /\ state \in {"IN_QUEUE", "SENDING"} /\ Got("item-cancelled")
  /\ Pop(Head(events).arg)
  /\ \/ isMoreItems /\ UNCHANGED <<state, reports, caching>>
     \/ ~ isMoreItems /\ Head(events).arg \in items /\ Finish("failed")
     \/ /\ ~ isMoreItems /\ Head(events).arg \notin items
        /\ state' = "FAILED" /\ UNCHANGED <<reports, caching>>
  /\ events' = Tail(events)
  /\ UNCHANGED <<cancelled, transports, callers, told, inbox>>

(* A transport is done with the file, whether it was sent or not.          *)
UnregisterItem ==
  /\ state = "SENDING" /\ Got("unregister-item")
  /\ Pop(Head(events).arg)
  /\ \/ isAckNeeded /\ state' = "RESPONSE?" /\ UNCHANGED <<reports, caching>>
     \/ ~ isAckNeeded /\ Finish("unanswered")
  /\ events' = Tail(events)
  /\ UNCHANGED <<cancelled, transports, callers, told, inbox>>

LateItem ==
  /\ state = "RESPONSE?" /\ (Got("unregister-item") \/ Got("item-cancelled"))
  /\ Pop(Head(events).arg)
  /\ events' = Tail(events)
  /\ UNCHANGED <<state, cancelled, caching, transports, outside, inbox>>

(* Mutant of Response: the packet waits for more replies.                  *)
ResponseAgain ==
  /\ state = "RESPONSE?" /\ Got("inbox-packet") /\ Head(events).arg \in Wanted
  /\ Tell(callers)
  /\ events' = Tail(events)
  /\ UNCHANGED <<machine, caching, transports, callers, reports, inbox>>

Response ==
  /\ state = "RESPONSE?" /\ Got("inbox-packet") /\ Head(events).arg \in Wanted
  /\ Tell(callers)
  /\ Finish("answered")
  /\ events' = Tail(events)
  /\ UNCHANGED <<cancelled, items, transfer, transports, callers, inbox>>

ResponseTimeout ==
  /\ state = "RESPONSE?" /\ Got("timer-30sec") /\ ~ isDataExpected
  /\ Tell(IF "timeout" \in Wanted THEN callers ELSE {})
  /\ Finish("unanswered")
  /\ events' = Tail(events)
  /\ UNCHANGED <<cancelled, items, transfer, transports, callers, inbox>>

(* Every other event is dropped.                                           *)
Handled ==
  CASE state = "AT_STARTUP" -> {"run"}
    [] state = "CACHING" -> {"remote-identity-on-hand", "failed", "cancel"}
    [] state = "ITEMS?" -> {"nothing-to-send", "write-error", "items-sent", "cancel"}
    [] state = "IN_QUEUE" -> {"item-cancelled", "register-item", "cancel"}
    [] state = "SENDING" -> {"register-item", "cancel", "unregister-item", "item-cancelled"}
    [] state = "RESPONSE?" -> {"cancel", "unregister-item", "item-cancelled"}
         \cup (IF isDataExpected THEN {} ELSE {"timer-30sec"})
         \cup (IF Got("inbox-packet") /\ Head(events).arg \in Wanted THEN {"inbox-packet"} ELSE {})
    [] OTHER -> {}

Ignore ==
  /\ events # <<>> /\ Head(events).event \notin Handled
  /\ events' = Tail(events)
  /\ UNCHANGED <<machine, caching, transports, outside, inbox>>

-----------------------------------------------------------------------------
(* Those who post events.                                                  *)

(* _on_remote_identity_cached, _on_remote_identity_cache_failed.           *)
Cached ==
  /\ caching
  /\ caching' = FALSE
  /\ Post("remote-identity-on-hand", NoArg) \/ Post("failed", NoArg)
  /\ UNCHANGED <<machine, transports, outside, inbox>>

(* on_register_file_sending: the transport begins to send.                 *)
RegisterFile(p) ==
  /\ p \in given \cap items /\ state # "NOT_EXIST"
  /\ given' = given \ {p} /\ sending' = sending \cup {p}
  /\ Post("register-item", p)
  /\ UNCHANGED <<machine, caching, outside, inbox>>

(* Mutant of UnregisterFile: the transport may say it more than once.      *)
UnregisterFileAgain(p) ==
  /\ p \in sending \cap transfer /\ state # "NOT_EXIST"
  /\ Post("unregister-item", p)
  /\ UNCHANGED <<machine, caching, transports, outside, inbox>>

(* on_unregister_file_sending finds the packet by the transfer id only.    *)
UnregisterFile(p) ==
  /\ p \in sending \cap transfer /\ state # "NOT_EXIST"
  /\ sending' = sending \ {p}
  /\ Post("unregister-item", p)
  /\ UNCHANGED <<machine, caching, given, outside, inbox>>

(* on_cancelled_file_sending finds it whatever the host, _pop does not.    *)
CancelledFile(p) ==
  /\ p \in given \cap items /\ state # "NOT_EXIST"
  /\ given' = given \ {p}
  /\ \/ Post("item-cancelled", p)
     \/ p \in OtherHost /\ Post("item-cancelled", NoArg)
  /\ UNCHANGED <<machine, caching, sending, outside, inbox>>

(* packet_in.handle: a reply to this packet, or to an earlier one with the *)
(* same id, is posted to every packet in the queue that it matches.        *)
Inbox(c) ==
  /\ state # "NOT_EXIST" /\ replies < MaxReplies
  /\ replies' = replies + 1
  /\ Post("inbox-packet", c)
  /\ UNCHANGED <<machine, caching, transports, outside>>

(* Mutant of TimeoutLoop: a packet being sent is not timed out either.     *)
TimeoutLoopQueued ==
  /\ state \notin {"AT_STARTUP", "CACHING", "SENDING", "RESPONSE?", "NOT_EXIST"}
  /\ ~ Pending("write-error") /\ ~ Pending("cancel")
  /\ Post("cancel", NoArg)
  /\ UNCHANGED <<machine, caching, transports, outside, inbox>>

(* packets_timeout_loop: a packet is never timed out in RESPONSE?, nor     *)
(* before its file was written.                                            *)
TimeoutLoop ==
  /\ state \notin {"AT_STARTUP", "CACHING", "RESPONSE?", "NOT_EXIST"}
  /\ ~ Pending("write-error") /\ ~ Pending("cancel")
  /\ Post("cancel", NoArg)
  /\ UNCHANGED <<machine, caching, transports, outside, inbox>>

(* DeleteBackupRequests, cancel_outbox_file and the like.                  *)
Abort ==
  /\ state # "NOT_EXIST" /\ ~ Pending("cancel")
  /\ Post("cancel", NoArg)
  /\ UNCHANGED <<machine, caching, transports, outside, inbox>>

(* The timer of RESPONSE?, or that of response_timeout.                    *)
Timer ==
  /\ state = "RESPONSE?" /\ ~ Pending("timer-30sec")
  /\ Post("timer-30sec", NoArg)
  /\ UNCHANGED <<machine, caching, transports, outside, inbox>>

(* shutdown_all_outbox_packets calls event('cancel') without delay.        *)
Shutdown == Cancelling(events)

(* Mutant of Merge: a packet that is gone is still found.                  *)
MergeLate(c) ==
  /\ items # {} /\ c \notin callers
  /\ callers' = callers \cup {c}
  /\ UNCHANGED <<machine, events, caching, transports, told, reports, inbox>>

(* on_outbox_packet: another caller sends the same packet, while some item *)
(* of this one is left: his callbacks are added to it.  Otherwise he gets  *)
(* a packet of his own.                                                    *)
Merge(c) ==
  /\ state # "NOT_EXIST" /\ items # {} /\ c \notin callers
  /\ callers' = callers \cup {c}
  /\ UNCHANGED <<machine, events, caching, transports, told, reports, inbox>>

-----------------------------------------------------------------------------
Handle ==
  \/ Run \/ IdentityOnHand \/ NotSent \/ ItemsSent \/ Cancel
  \/ RegisterItem \/ ItemCancelled \/ UnregisterItem
  \/ LateItem \/ Response \/ ResponseTimeout \/ Ignore

Transports == \E p \in Proto : RegisterFile(p) \/ UnregisterFile(p) \/ CancelledFile(p)

Next ==
  \/ Handle \/ Cached \/ Transports
  \/ \E c \in Reply : Inbox(c)
  \/ TimeoutLoop \/ Abort \/ Timer \/ Shutdown
  \/ \E c \in Caller : Merge(c)

Spec == Init /\ [][Next]_vars

(* The reactor handles every event, the loop of the gateway and the timers *)
(* of the machine go on, and fetching an identity ends.  Nothing is asked  *)
(* of the transports: they may keep a file for ever.                       *)
Fairness == WF_vars(Handle) /\ WF_vars(Cached) /\ WF_vars(TimeoutLoop) /\ WF_vars(Timer)

FairSpec == Spec /\ Fairness

-----------------------------------------------------------------------------
EventName == {"run", "remote-identity-on-hand", "failed", "nothing-to-send", "write-error",
              "items-sent", "cancel", "register-item", "unregister-item", "item-cancelled",
              "inbox-packet", "timer-30sec"}

Event == [event : EventName, arg : Proto \cup Command \cup {NoArg}]

TypeOK ==
  /\ state \in State
  /\ events \in Seq(Event)
  /\ cancelled \in BOOLEAN /\ caching \in BOOLEAN
  /\ items \subseteq Proto /\ transfer \subseteq items
  /\ given \subseteq Proto /\ sending \subseteq Proto
  /\ callers \subseteq Caller
  /\ told \in [Caller -> Nat]
  /\ reports \in Seq(Status)
  /\ replies \in Nat

(* A packet reports one status, when it is destroyed, whatever cancels,    *)
(* replies, timers and transports do; the callbacks of a caller run at     *)
(* most once; when the packet was answered those of all callers have run,  *)
(* and when it failed or was cancelled none has.                           *)
OneStatus ==
  /\ Len(reports) = IF state = "NOT_EXIST" THEN 1 ELSE 0
  /\ \A c \in Caller :
       told[c] = IF /\ c \in callers
                    /\ \/ reports = <<"answered">>
                       \/ reports = <<"unanswered">> /\ "timeout" \in Wanted /\ isAckNeeded
                 THEN 1 ELSE 0

(* doReportItem: 'assert self.popped_item'.  The item of which a transport *)
(* speaks is still one of the packet, so that no handler breaks off        *)
(* between the change of state and the removal of the packet; unless a     *)
(* transport cancels the file under another host name.                     *)
PoppedItem ==
  \/ Got("unregister-item") /\ state \in {"SENDING", "RESPONSE?"}
  \/ Got("item-cancelled") /\ state \in {"IN_QUEUE", "SENDING", "RESPONSE?"}
  => Head(events).arg \in items \cup {NoArg}

(* The packet is answered, or given up: it leaves the queue, unless the    *)
(* assertion of doReportItem has left it in FAILED.                        *)
Finishes == <>(state \in {"NOT_EXIST", "FAILED"})

(* The machine keeps the promise of gateway.outbox.                        *)
Promise == INSTANCE Delivery WITH
  told <- {c \in Caller : told[c] > 0},
  outcome <- IF reports = <<>> THEN "none" ELSE reports[1]
Delivers == Promise!Spec
=============================================================================
