------------------------------- MODULE Layers -------------------------------
(***************************************************************************)
(* What the services promise each other, without events, requests or       *)
(* batches: a service is brought up on top of services that run, and taken *)
(* down when nothing runs on top of it.                                    *)
(***************************************************************************)
CONSTANTS Service, DependsOn

VARIABLES
  up,       \* the services that run
  booting   \* the services whose start() was called and has not failed

vars == <<up, booting>>

Active == up \cup booting

NoneOnTop(s) == \A t \in Active : s \notin DependsOn[t]

Init == up = {} /\ booting = {}

Boot(s) ==
  /\ s \notin Active /\ DependsOn[s] \subseteq up
  /\ booting' = booting \cup {s}
  /\ UNCHANGED up

Finish(s) ==
  /\ s \in booting
  /\ booting' = booting \ {s}
  /\ up' = up \cup {s}

Fail(s) ==
  /\ s \in booting
  /\ booting' = booting \ {s}
  /\ UNCHANGED up

TakeDown(s) ==
  /\ s \in up /\ NoneOnTop(s)
  /\ up' = up \ {s}
  /\ UNCHANGED booting

(* Down and started again at once.                                         *)
Reboot(s) ==
  /\ s \in up /\ NoneOnTop(s) /\ DependsOn[s] \subseteq up
  /\ up' = up \ {s}
  /\ booting' = booting \cup {s}

(* The program ends: everything goes down together.                        *)
Close == up' = {} /\ booting' = {}

Next ==
  \/ \E s \in Service : Boot(s) \/ Finish(s) \/ Fail(s) \/ TakeDown(s) \/ Reboot(s)
  \/ Close

Spec == Init /\ [][Next]_vars
=============================================================================
