--------------------------- MODULE ConnectorEvents ---------------------------
(***************************************************************************)
(* What each event does to a supplier_connector, in each state: shared by  *)
(* the connectors of a network of customers (SupplierConnector) and those  *)
(* of the suppliers that one customer hires and fires (FireHire).          *)
(***************************************************************************)
EXTENDS Integers, Sequences, SequencesExt

(* What an event makes of the connector: its state, GoDisconnect, what it  *)
(* sends, and whether it reports to fire_hire and supplier_finder.         *)
To(s, go, kinds, told) == [state |-> s, leaving |-> go, sends |-> kinds, reports |-> told]

(* Mutant: a service accepted too late is not given back.                  *)
LeaveAtOnce(go) == To("NO_SERVICE", go, <<>>, TRUE)

(* The service is accepted although it is not wanted any more.             *)
AcceptedLeaving(go) == To("REFUSE", go, <<"cancel">>, FALSE)

(* timers: 10 and 20 seconds.                                              *)
TimerOfRequest == {"REQUEST"}
TimerStates == {"REQUEST", "REFUSE", "QUEUE?"}

Handles(s, go, e) ==
  LET stay == To(s, go, <<>>, FALSE)
      request == To("REQUEST", FALSE, <<"request">>, FALSE)
      refuse == To("REFUSE", go, <<"cancel">>, FALSE)
      noService == To("NO_SERVICE", go, <<>>, TRUE)
      connected == To("CONNECTED", go, <<>>, TRUE)
      closed == To("CLOSED", go, <<>>, FALSE)
  IN  CASE s = "NO_SERVICE" ->
             CASE e = "connect" -> request
               [] e = "accepted" -> connected
               [] e = "shutdown" -> closed
               [] e = "disconnect" -> noService
               [] OTHER -> stay
        [] s = "CONNECTED" ->
             CASE e = "disconnect" -> refuse
               [] e \in {"fail", "connect"} -> request
               [] OTHER -> stay
        [] s = "DISCONNECTED" ->
             CASE e = "accepted" -> connected
               [] e = "shutdown" -> closed
               [] e = "disconnect" -> refuse
               [] e = "connect" -> request
               [] e = "fail" -> noService
               [] OTHER -> stay
        [] s = "REQUEST" ->
             CASE e = "disconnect" -> To(s, TRUE, <<>>, FALSE)
               [] e = "shutdown" -> closed
               [] e = "accepted" /\ go -> AcceptedLeaving(go)
               [] e = "timer" -> To("DISCONNECTED", go, <<>>, TRUE)
               [] e = "fail" \/ (e = "other" /\ ~ go) -> noService
               [] e = "accepted" /\ ~ go -> To("QUEUE?", go, <<"queue">>, FALSE)
               [] OTHER -> stay
        [] s = "REFUSE" ->
             CASE e = "shutdown" -> closed
               [] e \in {"timer", "fail", "accepted"} -> noService
               [] OTHER -> stay
        [] s = "QUEUE?" ->
             CASE e = "disconnect" -> To(s, TRUE, <<>>, FALSE)
               [] e \in {"accepted", "other", "fail", "timer"} -> IF go THEN refuse ELSE connected
               [] OTHER -> stay
        [] s = "CLOSED" -> stay
=============================================================================
