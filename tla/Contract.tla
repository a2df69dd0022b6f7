------------------------------ MODULE Contract ------------------------------
(***************************************************************************)
(* Customers and one supplier, over a network that loses and delays: the   *)
(* connectors of SupplierConnector ask and cancel, CustomerSpace accepts   *)
(* and refuses.                                                            *)
(***************************************************************************)
EXTENDS SupplierConnector, CustomerSpace

CONSTANTS
  MaxAsked,   \* bound of 'connect', 'disconnect' and 'shutdown' together
  MaxTrouble  \* bound of losses, answers to files, crashes and changes of space

VARIABLES asks, troubles  \* how many there were

vars == <<connector, space, asks, troubles>>

Asks == asks < MaxAsked /\ asks' = asks + 1 /\ UNCHANGED troubles
Troubles == troubles < MaxTrouble /\ troubles' = troubles + 1 /\ UNCHANGED asks

Init ==
  /\ state = [c \in Customer |-> "DISCONNECTED"]
  /\ leaving = [c \in Customer |-> FALSE] /\ packets = [c \in Customer |-> <<>>]
  /\ asked = [c \in Customer |-> FALSE] /\ smooth = [c \in Customer |-> TRUE]
  /\ SpaceInit
  /\ asks = 0 /\ troubles = 0

-----------------------------------------------------------------------------
(* fire_hire, supplier_finder and the presence of the supplier.            *)

Connect(c) ==
  /\ Matters(c, "connect") /\ Asks
  /\ Event(c, "connect", packets[c])
  /\ UNCHANGED <<smooth, space>>

Disconnect(c) ==
  /\ state[c] # "CLOSED" /\ Asks
  /\ Event(c, "disconnect", packets[c])
  /\ UNCHANGED <<smooth, space>>

Shutdown(c) ==
  /\ Matters(c, "shutdown") /\ Asks
  /\ Event(c, "shutdown", packets[c])
  /\ smooth' = [smooth EXCEPT ![c] = @ /\ packets[c] = <<>>]
  /\ UNCHANGED space

Create(c) ==
  /\ state[c] = "CLOSED"
  /\ Goto(c, "DISCONNECTED") /\ Leaving(c, FALSE)
  /\ UNCHANGED <<packets, asked, smooth, space, asks, troubles>>

(* The program of the customer is started again.                           *)
CustomerRestarts(c) ==
  /\ state[c] # "DISCONNECTED" \/ packets[c] # <<>>
  /\ Troubles
  /\ Goto(c, "DISCONNECTED") /\ Leaving(c, FALSE) /\ NotAsked(c)
  /\ packets' = [packets EXCEPT ![c] = [i \in DOMAIN @ |-> [@[i] EXCEPT !.heard = FALSE]]]
  /\ Rough(c)
  /\ UNCHANGED space

Timer(c) ==
  /\ state[c] \in TimerStates
  /\ Event(c, "timer", packets[c]) /\ Rough(c)
  /\ UNCHANGED <<space, asks, troubles>>

-----------------------------------------------------------------------------
(* The network.                                                            *)

Answer(c, i, a) ==
  packets' = [packets EXCEPT ![c] =
    IF @[i].heard THEN [@ EXCEPT ![i].answer = a] ELSE RemoveAt(@, i)]

Arrives(c, i) ==
  /\ packets[c][i].answer = "none"
  /\ \E a \in {"accepted", "deny", "fail", "items"} :
       /\ Answer(c, i, a)
       /\ CASE packets[c][i].kind = "request" -> Request(c, a)
            [] packets[c][i].kind = "cancel" -> Terminate(c, a)
            [] packets[c][i].kind = "queue" -> a = "items" /\ UNCHANGED space
  /\ UNCHANGED <<state, leaving, asked, smooth, asks, troubles>>

(* response.Command and isServiceAccepted.                                 *)
Means(a) == CASE a = "accepted" -> "accepted" [] a = "fail" -> "fail" [] OTHER -> "other"

Answered(c, i) ==
  /\ packets[c][i].answer # "none"
  /\ Event(c, Means(packets[c][i].answer), RemoveAt(packets[c], i))
  /\ UNCHANGED <<smooth, space, asks, troubles>>

(* A request times out, a packet or its answer is lost.                    *)
Lost(c, i) ==
  /\ Troubles /\ Rough(c)
  /\ packets' = [packets EXCEPT ![c] = RemoveAt(@, i)]
  /\ UNCHANGED <<state, leaving, asked, space>>

(* A file was sent: the supplier takes it, or has no space for it; he says *)
(* nothing to someone who is not his customer.                             *)
DataAnswered(c) ==
  /\ c \in customers /\ Troubles
  /\ \E e \in (IF c \in DOMAIN quotas THEN {"other", "fail"} ELSE {"fail"}) :
       Matters(c, e) /\ Event(c, e, packets[c])
  /\ Rough(c)
  /\ UNCHANGED space

-----------------------------------------------------------------------------
(* The supplier.                                                           *)

RejectorWorks ==
  /\ RejectorHandles
  /\ smooth' = [c \in Customer |-> smooth[c] /\ (customers' = customers /\ quotas' = quotas)]
  /\ UNCHANGED <<state, leaving, packets, asked, asks, troubles>>

SpaceChanges ==
  /\ Troubles
  /\ RestartRejector \/ \E d \in Donations : Donate(d)
  /\ UNCHANGED connector

SupplierCrashes ==
  /\ Troubles
  /\ \/ (Crash \/ CrashInOverflow) /\ UNCHANGED packets
     \/ \E c \in Customer : \E i \in DOMAIN packets[c] :
          /\ packets[c][i].answer = "none"
          /\ \/ packets[c][i].kind = "request" /\ CrashInRequest(c)
             \/ packets[c][i].kind = "cancel" /\ CrashInCancel(c)
          /\ packets' = [packets EXCEPT ![c] = RemoveAt(@, i)]
  /\ smooth' = [c \in Customer |-> FALSE]
  /\ UNCHANGED <<state, leaving, asked>>

Next ==
  \/ \E c \in Customer :
       \/ Connect(c) \/ Disconnect(c) \/ Shutdown(c) \/ Create(c) \/ CustomerRestarts(c)
       \/ Timer(c) \/ DataAnswered(c)
       \/ \E i \in DOMAIN packets[c] : Arrives(c, i) \/ Answered(c, i) \/ Lost(c, i)
  \/ RejectorWorks \/ SpaceChanges \/ SupplierCrashes

(* The timers of the connectors run.                                       *)
Spec == Init /\ [][Next]_vars
FairSpec == Spec /\ \A c \in Customer : WF_vars(Timer(c))

-----------------------------------------------------------------------------
States == {"NO_SERVICE", "CONNECTED", "DISCONNECTED", "REQUEST", "REFUSE", "QUEUE?", "CLOSED"}

TypeOK ==
  /\ state \in [Customer -> States]
  /\ leaving \in [Customer -> BOOLEAN] /\ asked \in [Customer -> BOOLEAN] /\ smooth \in [Customer -> BOOLEAN]
  /\ \A c \in Customer : packets[c] \in Seq([kind : {"request", "cancel", "queue"},
                                             answer : {"none", "accepted", "deny", "fail", "items"},
                                             heard : BOOLEAN])
  /\ customers \subseteq Customer /\ (shared \/ saved = customers)
  /\ DOMAIN quotas \subseteq Customer /\ \A c \in DOMAIN quotas : quotas[c] = Needed[c]
  /\ free \in Int /\ donated \in Donations
  /\ rejector \in {"READY", "CAPACITY?", "REJECT_GUYS"}

(* What is given and what is free add up to a value of donated-space, after *)
(* any requests, refusals, crashes and rejections in any order.            *)
SpaceConserved == free + Consumed(quotas) \in Donations

(* When nothing was lost or late, and nothing is under way any more, the   *)
(* customer and the supplier agree on whether there is a contract: also    *)
(* when the customer has changed his mind while he was asking.             *)
Agrees ==
  \A c \in Customer : smooth[c] /\ packets[c] = <<>> =>
    /\ state[c] = "CONNECTED" => c \in customers /\ c \in DOMAIN quotas
    /\ state[c] = "NO_SERVICE" => c \notin customers /\ c \notin DOMAIN quotas

(* fire_hire waits for it: a connector that is told to disconnect reports  *)
(* in the end, whatever is lost.                                           *)
Reported == \A c \in Customer : asked[c] ~> ~ asked[c]
=============================================================================
