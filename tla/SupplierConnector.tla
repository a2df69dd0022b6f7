-------------------------- MODULE SupplierConnector --------------------------
(***************************************************************************)
(* customer/supplier_connector.py, one for each customer of one supplier,  *)
(* and the packets it sends: requests of service_supplier, cancellations   *)
(* of it, and subscriptions to the queue of service_p2p_notifications.     *)
(*                                                                         *)
(* An answer is taken to the connector by the callbacks of the packet it   *)
(* answers.  The connector looks at the answer alone: whether it is an Ack *)
(* or a Fail, and whether an Ack says 'accepted'; not at what it answers.  *)
(* The answers to files that are sent come too (io_throttle).              *)
(*                                                                         *)
(* The file where the state is saved is never read back: the call of       *)
(* SupplierServiceFilename names an argument that it does not have, so     *)
(* that each connector begins in DISCONNECTED.  queue_subscribe is TRUE.   *)
(***************************************************************************)
EXTENDS ConnectorEvents

VARIABLES
  state,    \* of the connector; CLOSED when there is none
  leaving,  \* GoDisconnect
  packets,  \* its packets that still have an answer to come or to lose
  asked,    \* fire_hire waits for a report since its 'disconnect'
  smooth    \* no timer has fired, nothing was lost, and so on

connector == <<state, leaving, packets, asked, smooth>>

(* A packet: what it asks, the answer on its way back, and whether the     *)
(* connector that sent it is still there.                                  *)
Sent(kind) == [kind |-> kind, answer |-> "none", heard |-> TRUE]

Goto(c, s) == state' = [state EXCEPT ![c] = s]
Leaving(c, b) == leaving' = [leaving EXCEPT ![c] = b]
NotAsked(c) == asked' = [asked EXCEPT ![c] = FALSE]
Rough(c) == smooth' = [smooth EXCEPT ![c] = FALSE]

(* An event that does something.                                           *)
Matters(c, e) ==
  Handles(state[c], leaving[c], e) # To(state[c], leaving[c], <<>>, FALSE)

(* The event is handled, with these packets left of those sent before.     *)
(* A connector that is closed hears no more of its packets.                *)
Event(c, e, left) ==
  LET h == Handles(state[c], leaving[c], e)
  IN  /\ Goto(c, h.state)
      /\ Leaving(c, h.leaving)
      /\ packets' = [packets EXCEPT ![c] =
           IF h.state = "CLOSED" THEN [i \in DOMAIN left |-> [left[i] EXCEPT !.heard = FALSE]]
           ELSE left \o [i \in DOMAIN h.sends |-> Sent(h.sends[i])]]
      /\ asked' = [asked EXCEPT ![c] = (@ \/ (e = "disconnect" /\ state[c] # "CLOSED"))
                                       /\ ~ h.reports /\ h.state # "CLOSED"]
=============================================================================
