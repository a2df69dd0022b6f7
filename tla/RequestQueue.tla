---------------------------- MODULE RequestQueue ----------------------------
(***************************************************************************)
(* customer/io_throttle.py, the requesting half of a SupplierQueue: the    *)
(* packets asked back from one supplier.  Operators from a queue to a      *)
(* later one; the module that uses them owns the answers.                  *)
(*                                                                         *)
(* A queue is a record: the packets in their order, those with a record in *)
(* fileRequestDict, those whose Retrieve was sent, and how often each is   *)
(* in requestFailedPacketIDs.  RequestTask, once started, calls itself for *)
(* ever, so that RunRequest may come at any time.                          *)
(***************************************************************************)
EXTENDS Lists, SequencesExt

CONSTANT MaxRequests  \* fileRequestMaxLength

ASSUME RequestsAssumption == MaxRequests \in Nat \ {0}

NewRequests(P) == [queue |-> <<>>, dict |-> {}, asked |-> {}, failed |-> [p \in P |-> 0]]

(* HasPacketInRequestQueue looks in the dictionary.                        *)
Has(q, p) == p \in q.dict

(* SupplierRequestFile, of one packet after the other.                     *)
Asked(q, ps) == [q EXCEPT !.queue = @ \o ps, !.dict = @ \cup ToSet(ps)]

(* The active requests are the first ones.                                 *)
ActiveRequests(q) ==
  {q.queue[i] : i \in 1..(IF Len(q.queue) < MaxRequests THEN Len(q.queue) ELSE MaxRequests)}

(* Mutant: only the record is deleted.                                     *)
WithoutRecord(q, R) == [q EXCEPT !.dict = @ \ R, !.asked = @ \ R]

Without(q, R) == [q EXCEPT !.queue = Among(@, ToSet(@) \ R),
                           !.dict = @ \ R, !.asked = @ \ R]

(* RunRequest: what was not sent fails, what is on the disk is not asked   *)
(* for, the rest is.  No request times out.  If nothing is queued, what    *)
(* was not sent is forgotten.                                              *)
Failing(q) == {p \in ActiveRequests(q) : q.failed[p] > 0}
Unsent(q) == ActiveRequests(q) \ (q.asked \cup Failing(q))

Forgotten(q) == [q EXCEPT !.failed = [p \in DOMAIN @ |-> 0]]

RunRequest(q, files) ==
  LET failing == Failing(q)
      unsent == Unsent(q)
      exist == unsent \cap files
      run == [Without(q, failing \cup exist) EXCEPT
                !.asked = @ \cup (unsent \ files),
                !.failed = [p \in DOMAIN @ |-> IF p \in failing THEN @[p] - 1 ELSE @[p]]]
  IN  IF q.queue = <<>> THEN [queue |-> Forgotten(q), sent |-> {}, exist |-> {}, failed |-> {}]
      ELSE [queue |-> run, sent |-> unsent \ files, exist |-> exist, failed |-> failing]

(* OutboxStatus of a Retrieve that failed or was cancelled.                *)
NotSent(q, p) == IF p \in ToSet(q.queue) THEN [q EXCEPT !.failed[p] = @ + 1] ELSE q

(* OnDataReceived.  A Data packet that is not valid leaves the queue and   *)
(* stays in the dictionary: nobody is told, and it is not asked for again. *)
OnDataReceived(q, p, what) ==
  IF what = "broken" THEN [q EXCEPT !.queue = Among(@, ToSet(@) \ {p})]
  ELSE Without(q, {p})

(* DeleteBackupRequests for the packets R of a backup.                     *)
DeleteRequests(q, R) == Without(q, R \cap ToSet(q.queue))
=============================================================================
