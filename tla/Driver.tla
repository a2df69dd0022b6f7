------------------------------- MODULE Driver -------------------------------
(***************************************************************************)
(* services/driver.py: the registry of the services of a node, the         *)
(* batches started and stopped through it, restart() and the callbacks a   *)
(* service gives it when it has been started or stopped.                   *)
(*                                                                         *)
(* A service is a state machine (module LocalService).  Nothing calls it   *)
(* directly: an event is posted with reactor.callLater(0, ...) and handled *)
(* later, one event per turn of the reactor, in the order of posting; the  *)
(* variable queue is that list of delayed calls.                           *)
(***************************************************************************)
EXTENDS Naturals, Sequences, FiniteSets

CONSTANTS
  Service,       \* the services found in the directory services/
  DependsOn,     \* DependsOn[s]: the services named by s.dependent_on()
  MaxQueue,      \* bound: nobody posts from outside to a longer queue
  MaxRestarts    \* bound: restarts that wait for the same batch

ASSUME ServiceAssumption == IsFiniteSet(Service)

(* A service never depends on itself, directly or through others; only the *)
(* first is needed here.                                                   *)
ASSUME DependsOnAssumption ==
  /\ DependsOn \in [Service -> SUBSET Service]
  /\ \A s \in Service : s \notin DependsOn[s]

ASSUME BoundAssumption == MaxQueue \in Nat /\ MaxRestarts \in Nat

VARIABLES
  state,      \* svc.state of each service
  queue,      \* events posted to the services and not handled yet
  enabled,    \* the services whose config option is true
  loaded,     \* services() is filled: between driver.init() and shutdown()
  batch,      \* _StartingDeferred or _StopingDeferred set, or neither
  waiting,    \* services whose Deferred the batch still waits for
  restarts,   \* restart() calls chained to the Deferred of the batch
  timers      \* restart() calls that sleep until their wait_timeout

driverVars == <<enabled, loaded, batch, waiting, restarts, timers>>

State == {"OFF", "STARTING", "ON", "INFLUENCE", "STOPPING", "DEPENDS_OFF",
          "NOT_INSTALLED", "CLOSED"}

Event == {"start", "stop", "shutdown", "depend-service-stopped",
          "service-started", "service-failed", "service-stopped",
          "service-not-installed", "service-depend-off"}

(* What a service answers to whoever waits for it.                         *)
Result == {"started", "stopped", "failed", "not_installed", "depends_off"}

(* A delayed call of svc.event(event, arg); deferred says whether arg is   *)
(* a Deferred of the batch, to be fired with the answer of the service.    *)
Message == [to : Service, event : Event, deferred : BOOLEAN]

Post(s, e) == [to |-> s, event |-> e, deferred |-> FALSE]
PostDeferred(s, e) == [to |-> s, event |-> e, deferred |-> TRUE]

(* The orders in which a loop over services().values() may visit the       *)
(* services in S (the order of a dict is not defined), and the event e     *)
(* posted to each of them.                                                 *)
Orders(S) == {q \in [1..Cardinality(S) -> S] : \A s \in S : \E i \in DOMAIN q : q[i] = s}

PostAll(order, e) == [i \in DOMAIN order |-> Post(order[i], e)]

Dependents(s) == {t \in Service : s \in DependsOn[t]}

(* The states in which nothing of the service runs: driver.is_off(), and   *)
(* the test of LocalService.isAllDependsStopped().                         *)
Stopped == {"OFF", "DEPENDS_OFF", "NOT_INSTALLED"}

Transitional == {"INFLUENCE", "STARTING", "STOPPING"}

-----------------------------------------------------------------------------
(* The batch.  At most one of _StartingDeferred and _StopingDeferred is    *)
(* set; it is a DeferredList over the Deferreds posted with the events.    *)

(* What a batch leaves behind: its kind, whom it waits for, the restarts   *)
(* chained to it and the events it posts.                                  *)
Batch(kind, who, chain, posts) ==
  [batch |-> kind, waiting |-> who, restarts |-> chain, posts |-> posts]

NoBatch == Batch("none", {}, <<>>, <<>>)

(* start([s]) when no batch is in progress: a service that is not enabled  *)
(* or already ON is skipped, and an empty list succeeds at once.           *)
Startable(s, st) == s \in enabled /\ st[s] # "ON"

(* The Deferred of a starting batch fires: it is cleared, then the         *)
(* restarts that waited for it run _do_stop in turn.  The first one stops  *)
(* its service in a new batch and the others find that batch in progress.  *)
AfterStarting ==
  IF restarts = <<>> THEN NoBatch
  ELSE Batch("stopping", {Head(restarts)}, restarts,
             <<PostDeferred(Head(restarts), "stop")>>)

(* Mutant: the restarts are forgotten once their services have stopped.    *)
AfterStoppingForgotten(st) == NoBatch

(* The Deferred of a stopping batch fires: it is cleared, then the         *)
(* restarts chained to it run _do_start in turn.  The first service that   *)
(* can be started is, and the later ones only join its batch.              *)
AfterStopping(st) ==
  LET can == {i \in DOMAIN restarts : Startable(restarts[i], st)}
      first == restarts[CHOOSE i \in can : \A j \in can : i <= j]
  IN  IF can = {} THEN NoBatch
      ELSE Batch("starting", {first}, <<>>, <<PostDeferred(first, "start")>>)

(* The Deferreds of the services in S fire, in service states st.          *)
Fire(S, st) ==
  IF S = {} \/ waiting \ S # {}
  THEN Batch(batch, waiting \ S, restarts, <<>>)
  ELSE IF batch = "starting" THEN AfterStarting ELSE AfterStopping(st)

SetBatch(b) ==
  /\ batch' = b.batch
  /\ waiting' = b.waiting
  /\ restarts' = b.restarts

-----------------------------------------------------------------------------
(* Mutants: the dependents that were found DEPENDS_OFF are left out; the   *)
(* dependents are not told at all.                                         *)
ToldOffOnly(result, s) ==
  CASE result = "started" -> {t \in Dependents(s) \cap enabled : state[t] = "OFF"}
    [] result = "stopped" -> DependsOn[s]
    [] OTHER -> {}

ToldNobody(result, s) == IF result = "stopped" THEN DependsOn[s] ELSE {}

(* on_service_callback(result, s): 'started' posts 'start' to the enabled   *)
(* services that depend on s and are not ON; 'stopped' tells the services  *)
(* s depends on.                                                           *)
Told(result, s) ==
  CASE result = "started" -> {t \in Dependents(s) \cap enabled : state[t] # "ON"}
    [] result = "stopped" -> DependsOn[s]
    [] OTHER -> {}

OnServiceCallback(result, order) ==
  PostAll(order, IF result = "started" THEN "start" ELSE "depend-service-stopped")
=============================================================================
