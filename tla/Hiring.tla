------------------------------- MODULE Hiring -------------------------------
(***************************************************************************)
(* What fire_hire promises to backup_monitor: it works in cycles, each one *)
(* asked for by a 'restart'; suppliers change in a cycle only; a cycle     *)
(* that says 'fire-hire-finished' has changed nothing; one that says       *)
(* nothing, because no user was found, has taken nobody's place away and   *)
(* will be followed by another one.                                        *)
(***************************************************************************)
EXTENDS SupplierLists

CONSTANTS
  Lists,          \* the lists of suppliers there may be
  FirstSuppliers

ASSUME ListsAssumption ==
  FirstSuppliers \subseteq Lists /\ Lists \subseteq Seq(UNION {ToSet(l) : l \in Lists})

VARIABLES
  suppliers,
  busy,      \* a cycle is under way
  changed,   \* what it has done to the list of suppliers
  asked,     \* another one is asked for
  reports    \* to backup_monitor

hiring == <<suppliers, busy, changed, asked, reports>>

HiringInit ==
  /\ suppliers \in FirstSuppliers
  /\ busy = FALSE /\ changed = "nothing" /\ asked \in BOOLEAN /\ reports = <<>>

Ask == asked' = TRUE /\ UNCHANGED <<suppliers, busy, changed, reports>>

Start ==
  /\ ~ busy /\ asked
  /\ busy' = TRUE /\ asked' \in BOOLEAN
  /\ UNCHANGED <<suppliers, changed, reports>>

Change ==
  /\ busy
  /\ suppliers' \in Lists /\ suppliers' # suppliers
  /\ changed' = Effect(suppliers, suppliers', changed)
  /\ asked' \in {asked, TRUE}
  /\ UNCHANGED <<busy, reports>>

Report(r) == reports' = Append(reports, r)
Ends == busy /\ busy' = FALSE /\ changed' = "nothing"

EndChanged == Ends /\ suppliers' \in Lists /\ Report("suppliers-changed") /\ UNCHANGED asked
EndFinished == Ends /\ changed = "nothing" /\ Report("fire-hire-finished") /\ UNCHANGED <<suppliers, asked>>
EndFailed == Ends /\ changed # "replaced" /\ asked' = TRUE /\ UNCHANGED <<suppliers, reports>>

End == EndChanged \/ EndFinished \/ EndFailed
Take == reports # <<>> /\ reports' = Tail(reports) /\ UNCHANGED <<suppliers, busy, changed, asked>>

HiringNext == Ask \/ Start \/ Change \/ End \/ Take

HiringSpec == HiringInit /\ [][HiringNext]_hiring
=============================================================================
