------------------------------ MODULE Delivery ------------------------------
(***************************************************************************)
(* What gateway.outbox promises to those who send a packet: it ends in one *)
(* of four ways, once, for all of them together, and their callbacks run   *)
(* only when it was answered or nobody answered in time.                   *)
(***************************************************************************)
CONSTANT Caller

VARIABLES
  callers,  \* those who have sent the packet
  told,     \* those whose callbacks have run
  outcome   \* how it ended, "none" so far

vars == <<callers, told, outcome>>

Init ==
  /\ \E c \in Caller : callers = {c}
  /\ told = {}
  /\ outcome = "none"

(* The same packet is sent again by another caller.                        *)
Join(c) ==
  /\ outcome = "none" /\ c \notin callers
  /\ callers' = callers \cup {c}
  /\ UNCHANGED <<told, outcome>>

Answer ==
  /\ outcome = "none"
  /\ outcome' = "answered" /\ told' = callers
  /\ UNCHANGED callers

NoAnswer ==
  /\ outcome = "none"
  /\ outcome' = "unanswered" /\ told' \in {{}, callers}
  /\ UNCHANGED callers

GiveUp ==
  /\ outcome = "none"
  /\ outcome' \in {"failed", "cancelled"}
  /\ UNCHANGED <<callers, told>>

Next == (\E c \in Caller : Join(c)) \/ Answer \/ NoAnswer \/ GiveUp

Spec == Init /\ [][Next]_vars
=============================================================================
