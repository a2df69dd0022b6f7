---------------------------- MODULE CustomerSpace ----------------------------
(***************************************************************************)
(* A supplier: services/service_supplier.py, storage/accounting.py and     *)
(* supplier/customers_rejector.py.  He keeps the list of his customers, in *)
(* memory and in a file, and the space file: how much each has been given, *)
(* and what is free.  The two files are written one after the other.       *)
(*                                                                         *)
(* customers_rejector checks them when it is told to and posts what it has *)
(* decided to itself; requests may be handled before it comes to that.     *)
(* The list it has decided about is the very list of contactsdb until the  *)
(* next update_customers makes a new one.                                  *)
(***************************************************************************)
EXTENDS Integers, Sequences, FiniteSets, FiniteSetsExt, Functions

CONSTANTS
  Customer,
  Needed,     \* needed_bytes of each customer
  Donations,  \* the values of donated-space
  FreeBefore  \* 'free' in the space file when the program starts

(* The space file was written when there were no customers: what was       *)
(* donated then is free.                                                   *)
ASSUME SpaceAssumption ==
  /\ IsFiniteSet(Customer) /\ Needed \in [Customer -> Nat]
  /\ Donations \subseteq Nat /\ FreeBefore \in Donations

VARIABLES
  customers,  \* contactsdb.customers()
  saved,      \* the file of customers
  quotas,     \* the space file
  free,       \* 'free' in the space file
  donated,    \* settings.getDonatedBytes()
  rejector,   \* the state of customers_rejector
  events,     \* those posted to it
  shared      \* contactsdb still has the list it has decided about

space == <<customers, saved, quotas, free, donated, rejector, events, shared>>

Without(f, S) == [c \in DOMAIN f \ S |-> f[c]]
Consumed(q) == FoldFunction(LAMBDA x, y : x + y, 0, q)

-----------------------------------------------------------------------------
(* request() and cancel().                                                 *)

Broken(c) == (c \in customers) # (c \in DOMAIN quotas)
(* Mutant: what the customer has is not given back first.                  *)
AvailableNow(c) == free

(* What the customer has is given back before he is given anew.            *)
Available(c) == free + (IF c \in DOMAIN quotas THEN quotas[c] ELSE 0)

(* The lists are changed in place: the rejector's too, if it is the same.  *)
InPlace(add, drop) ==
  IF shared /\ events # <<>>
  THEN [i \in DOMAIN events |-> IF events[i].name = "space-overflow"
                                THEN [events[i] EXCEPT !.keep = (@ \ drop) \cup add] ELSE events[i]]
  ELSE events

(* Mutant: the file of customers is not written.                           *)
SaveNothing(list) == customers' = list /\ UNCHANGED saved

(* update_customers, save_customers.                                       *)
Save(list) == customers' = list /\ saved' = list

(* The file of customers is written, then the space file.                  *)
Accept(c) ==
  /\ ~ Broken(c) /\ Available(c) > Needed[c]
  /\ Save(customers \cup {c})
  /\ quotas' = [d \in DOMAIN quotas \cup {c} |-> IF d = c THEN Needed[c] ELSE quotas[d]]
  /\ free' = Available(c) - Needed[c]
  /\ events' = InPlace({c}, {}) /\ shared' = FALSE
  /\ UNCHANGED <<donated, rejector>>

Deny(c) ==
  /\ ~ Broken(c) /\ Available(c) <= Needed[c]
  /\ Save(customers \ {c})
  /\ quotas' = Without(quotas, {c})
  /\ free' = Available(c)
  /\ events' = InPlace({}, {c}) /\ shared' = FALSE
  /\ UNCHANGED <<donated, rejector>>

Cancel(c) ==
  /\ c \in customers /\ c \in DOMAIN quotas
  /\ Save(customers \ {c})
  /\ quotas' = Without(quotas, {c})
  /\ free' = Available(c)
  /\ shared' = FALSE
  /\ UNCHANGED <<events, donated, rejector>>

(* What each answers: Ack with 'accepted' or 'deny', or Fail.              *)
Request(c, answer) ==
  \/ Accept(c) /\ answer = "accepted"
  \/ Deny(c) /\ answer = "deny"
  \/ Broken(c) /\ answer = "fail" /\ UNCHANGED space

Terminate(c, answer) ==
  \/ Cancel(c) /\ answer = "accepted"
  \/ ~ (c \in customers /\ c \in DOMAIN quotas) /\ answer = "fail" /\ UNCHANGED space

-----------------------------------------------------------------------------
(* customers_rejector.                                                     *)

Ev(e) == [name |-> e]

(* The customers who are told to go: the last in the order of their used   *)
(* share, any order here, until the others fit.                            *)
Removable(q, of) ==
  {R \in SUBSET of :
     /\ Consumed(Without(q, R)) <= donated
     /\ R # {} => \E last \in R : Consumed(Without(q, R \ {last})) > donated}

(* doTestMyCapacity.  Customers with no quota are dropped and quotas with  *)
(* no customer; only if there is no such customer others are dropped.      *)
DoTestMyCapacity ==
  LET unknown == customers \ DOMAIN quotas
      known == Without(quotas, DOMAIN quotas \ customers)
  IN  IF Consumed(known) < donated /\ unknown = {}
      THEN /\ quotas' = known /\ free' = donated - Consumed(known)
           /\ events' = Append(Tail(events), Ev("space-enough"))
           /\ UNCHANGED <<customers, shared>>
      ELSE \E R \in (IF unknown # {} THEN {unknown} ELSE Removable(known, customers)) :
             /\ customers' = customers \ R
             /\ shared' = TRUE
             /\ LET q == Without(known, R)
                IN  events' = Append(Tail(events),
                                [name |-> "space-overflow", quotas |-> q, free |-> donated - Consumed(q),
                                 keep |-> customers \ R, removed |-> R])
             /\ UNCHANGED <<quotas, free>>

Restart ==
  /\ events # <<>> /\ Head(events).name = "restart" /\ rejector \in {"READY", "REJECT_GUYS"}
  /\ rejector' = "CAPACITY?"
  /\ DoTestMyCapacity
  /\ UNCHANGED <<saved, donated>>

SpaceEnough ==
  /\ events # <<>> /\ Head(events).name = "space-enough" /\ rejector = "CAPACITY?"
  /\ rejector' = "READY" /\ events' = Tail(events)
  /\ UNCHANGED <<customers, saved, quotas, free, donated, shared>>

(* doRemoveCustomers, doSendRejectService.                                 *)
SpaceOverflow ==
  /\ events # <<>> /\ Head(events).name = "space-overflow" /\ rejector = "CAPACITY?"
  /\ rejector' = "REJECT_GUYS"
  /\ LET e == Head(events)
     IN  Save(e.keep) /\ quotas' = e.quotas /\ free' = e.free
  /\ events' = Append(Tail(events), Ev("packets-sent")) /\ shared' = FALSE
  /\ UNCHANGED donated

PacketsSent ==
  /\ events # <<>> /\ Head(events).name = "packets-sent" /\ rejector = "REJECT_GUYS"
  /\ rejector' = "READY" /\ events' = Tail(events)
  /\ UNCHANGED <<customers, saved, quotas, free, donated, shared>>

(* Anything else is not handled.                                           *)
Unhandled ==
  /\ events # <<>>
  /\ LET e == Head(events).name
     IN  ~ \/ e = "restart" /\ rejector \in {"READY", "REJECT_GUYS"}
           \/ e \in {"space-enough", "space-overflow"} /\ rejector = "CAPACITY?"
           \/ e = "packets-sent" /\ rejector = "REJECT_GUYS"
  /\ events' = Tail(events)
  /\ UNCHANGED <<customers, saved, quotas, free, donated, rejector, shared>>

RejectorHandles == Restart \/ SpaceEnough \/ SpaceOverflow \/ PacketsSent \/ Unhandled

(* The user changes donated-space: the rejector is restarted.              *)
Donate(d) ==
  /\ d # donated
  /\ donated' = d
  /\ events' = Append(events, Ev("restart"))
  /\ UNCHANGED <<customers, saved, quotas, free, rejector, shared>>

(* p2p_connector, and service_customer_patrol when it starts.              *)
RestartRejector ==
  /\ events' = Append(events, Ev("restart"))
  /\ UNCHANGED <<customers, saved, quotas, free, donated, rejector, shared>>

(* The process dies and is started again with this file of customers.      *)
Rebooted(file) ==
  /\ Save(file)
  /\ rejector' = "READY" /\ events' = <<Ev("restart")>> /\ shared' = FALSE
  /\ UNCHANGED <<quotas, free, donated>>

Crash == Rebooted(saved)

(* ... between the writes of the two files.                                *)
CrashInRequest(c) ==
  /\ ~ Broken(c)
  /\ Rebooted(IF Available(c) > Needed[c] THEN customers \cup {c} ELSE customers \ {c})

CrashInCancel(c) ==
  /\ c \in customers /\ c \in DOMAIN quotas
  /\ Rebooted(customers \ {c})

CrashInOverflow ==
  /\ events # <<>> /\ Head(events).name = "space-overflow" /\ rejector = "CAPACITY?"
  /\ Rebooted(Head(events).keep)

SpaceInit ==
  /\ customers = {} /\ saved = {} /\ quotas = <<>>
  /\ donated \in Donations /\ free = FreeBefore
  /\ rejector = "READY" /\ events = <<Ev("restart")>> /\ shared = FALSE
=============================================================================
