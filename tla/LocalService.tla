---------------------------- MODULE LocalService ----------------------------
(***************************************************************************)
(* services/local_service.py: the state machine of one service, composed   *)
(* with the driver and with those who start and stop services: the         *)
(* initializer at boot, the config options services/.../enabled, the API   *)
(* call service_restart and the shutdowner.                                *)
(***************************************************************************)
EXTENDS Driver

CONSTANTS
  MayBeMissing,  \* services whose installed() may answer False
  MayFail,       \* services whose start() may fail
  AsyncStart,    \* services whose start() returns a Deferred
  AsyncStop,     \* services whose stop() returns a Deferred
  MaxStops       \* bound: unfinished stop() calls of one service

ASSUME KindAssumption ==
  /\ MayBeMissing \subseteq Service /\ MayFail \subseteq Service
  /\ AsyncStart \subseteq Service /\ AsyncStop \subseteq Service
  /\ MaxStops \in Nat

VARIABLES
  needStart,  \* services with NeedStart set
  needStop,   \* services with NeedStop set
  callback,   \* services whose result_deferred holds the Deferred of a batch
  starts,     \* services whose start() returned a Deferred that has not fired
  stops       \* stops[s]: Deferreds of s.stop() that have not fired

serviceVars == <<needStart, needStop, callback, starts, stops>>
vars == <<state, queue, driverVars, serviceVars>>

(* driver.init() and driver.start() have run: every enabled service has a  *)
(* 'start' posted to it, with a Deferred of the first batch.               *)
Init ==
  /\ state = [s \in Service |-> "OFF"]
  /\ enabled \in SUBSET Service
  /\ \E order \in Orders(enabled) :
       queue = [i \in DOMAIN order |-> PostDeferred(order[i], "start")]
  /\ loaded = TRUE
  /\ batch = IF enabled = {} THEN "none" ELSE "starting"
  /\ waiting = enabled
  /\ restarts = <<>>
  /\ timers = {}
  /\ needStart = {}
  /\ needStop = {}
  /\ callback = {}
  /\ starts = {}
  /\ stops = [s \in Service |-> 0]

-----------------------------------------------------------------------------
(* The condition and the actions of the state machine.                     *)

(* Mutant: a dependent that is only on its way down counts as stopped.     *)
isNoneOn(s) == \A t \in Dependents(s) : state[t] # "ON"

isAllDependsStopped(s) == \A t \in Dependents(s) : state[t] \in Stopped

Got(s, e) == queue # <<>> /\ Head(queue).to = s /\ Head(queue).event = e

Become(s, new) == state' = [state EXCEPT ![s] = new]

(* doSetCallback: the Deferred of the event, if any, waits for the answer. *)
WithCallback(s) == IF Head(queue).deferred THEN callback \cup {s} ELSE callback

(* Mutant: a dependency that is still starting or stopping is good enough. *)
StartOutcomesEarly(s) ==
  (IF s \in MayBeMissing THEN {"service-not-installed"} ELSE {}) \cup
  (IF \E d \in DependsOn[s] : state[d] \in Stopped THEN {"service-depend-off"}
   ELSE {IF s \in AsyncStart THEN "deferred" ELSE "service-started"} \cup
        (IF s \in MayFail THEN {"service-failed"} ELSE {}))

(* What doStartService may come to: the event it posts, or "deferred" when *)
(* start() returned a Deferred that will post it.                          *)
StartOutcomes(s) ==
  (IF s \in MayBeMissing THEN {"service-not-installed"} ELSE {}) \cup
  (IF \E d \in DependsOn[s] : state[d] # "ON" THEN {"service-depend-off"}
   ELSE {IF s \in AsyncStart THEN "deferred" ELSE "service-started"} \cup
        (IF s \in MayFail THEN {"service-failed"} ELSE {}))

(* doStopService: an exception in stop() counts as stopped.                *)
StopOutcomes(s) ==
  {"service-stopped"} \cup (IF s \in AsyncStop THEN {"deferred"} ELSE {})

(* Mutants: an exception in start(), or a stop() that is over at once, is  *)
(* not told to the state machine.                                          *)
PostedNoFailure(s, outcome) ==
  IF outcome \in {"deferred", "service-failed"} THEN <<>> ELSE <<Post(s, outcome)>>

PostedNoStop(s, outcome) ==
  IF outcome \in {"deferred", "service-stopped"} THEN <<>> ELSE <<Post(s, outcome)>>

Posted(s, outcome) == IF outcome = "deferred" THEN <<>> ELSE <<Post(s, outcome)>>

StartPending(s, outcome) ==
  starts' = IF outcome = "deferred" THEN starts \cup {s} ELSE starts

StopPending(s, outcome) ==
  stops' = IF outcome = "deferred" THEN [stops EXCEPT ![s] = @ + 1] ELSE stops

(* doStopDependentServices: with no dependents the service tells itself.   *)
StopDependents(s) ==
  \E order \in Orders(Dependents(s)) :
    queue' = Tail(queue) \o (IF Dependents(s) = {} THEN <<Post(s, "depend-service-stopped")>>
                             ELSE PostAll(order, "stop"))

(* Mutant: the Deferred is fired and kept.                                 *)
NotifyKeeping(s, result, waiters, before, after) ==
  \E order \in Orders(Told(result, s)) :
    LET fired == Fire(waiters \cap {s}, state')
        posts == OnServiceCallback(result, order)
    IN  /\ SetBatch(fired)
        /\ callback' = waiters
        /\ queue' = Tail(queue) \o (before \o fired.posts \o posts) \o after

(* doNotifyStarted, ...: the Deferreds in waiters fire with the answer of  *)
(* s, the driver continues what waited for them, and on_service_callback   *)
(* posts its events.  before and after are posted by the same handler.     *)
Notify(s, result, waiters, before, after) ==
  \E order \in Orders(Told(result, s)) :
    LET fired == Fire(waiters \cap {s}, state')
        posts == OnServiceCallback(result, order)
    IN  /\ SetBatch(fired)
        /\ callback' = waiters \ {s}
        /\ queue' = Tail(queue) \o (before \o fired.posts \o posts) \o after

-----------------------------------------------------------------------------
(* The handlers A(event, arg), one action for each state and event.        *)

(* The event changes nothing but who waits for the answer.                 *)
OnlyCallback(s) ==
  /\ queue' = Tail(queue)
  /\ callback' = WithCallback(s)
  /\ UNCHANGED <<state, driverVars, starts, stops>>

Answer(s, result) ==
  /\ UNCHANGED state
  /\ Notify(s, result, WithCallback(s), <<>>, <<>>)
  /\ UNCHANGED <<enabled, loaded, timers, needStart, needStop, starts, stops>>

StopWhenOn(s) ==
  /\ state[s] = "ON" /\ Got(s, "stop")
  /\ Become(s, "INFLUENCE")
  /\ callback' = WithCallback(s)
  /\ StopDependents(s)
  /\ UNCHANGED <<driverVars, needStart, needStop, starts, stops>>

StopWhenOff(s) ==
  /\ Got(s, "stop")
  /\ \/ state[s] = "OFF" /\ Answer(s, "stopped")
     \/ state[s] = "NOT_INSTALLED" /\ Answer(s, "not_installed")
     \/ state[s] = "DEPENDS_OFF" /\ Answer(s, "depends_off")

(* Mutant: a service that is being started can be started once more.       *)
StartAgain(s) ==
  /\ state[s] \in Stopped \cup {"STARTING"} /\ Got(s, "start")
  /\ Become(s, "STARTING")
  /\ callback' = WithCallback(s)
  /\ \E outcome \in StartOutcomes(s) :
       /\ queue' = Tail(queue) \o Posted(s, outcome)
       /\ StartPending(s, outcome)
  /\ UNCHANGED <<driverVars, needStart, needStop, stops>>

(* NeedStart and NeedStop are reset on the way out of OFF only.            *)
StartWhenOff(s) ==
  /\ state[s] \in Stopped /\ Got(s, "start")
  /\ Become(s, "STARTING")
  /\ IF state[s] = "OFF"
     THEN needStart' = needStart \ {s} /\ needStop' = needStop \ {s}
     ELSE UNCHANGED <<needStart, needStop>>
  /\ callback' = WithCallback(s)
  /\ \E outcome \in StartOutcomes(s) :
       /\ queue' = Tail(queue) \o Posted(s, outcome)
       /\ StartPending(s, outcome)
  /\ UNCHANGED <<driverVars, stops>>

RequestInInfluence(s) ==
  /\ state[s] = "INFLUENCE" /\ (Got(s, "start") \/ Got(s, "stop"))
  /\ OnlyCallback(s)
  /\ needStart' = IF Got(s, "start") THEN needStart \cup {s} ELSE needStart
  /\ UNCHANGED needStop

DependsStopped(s) ==
  /\ state[s] = "INFLUENCE" /\ Got(s, "depend-service-stopped")
  /\ isAllDependsStopped(s) /\ s \notin needStart
  /\ Become(s, "STOPPING")
  /\ \E outcome \in StopOutcomes(s) :
       /\ queue' = Tail(queue) \o Posted(s, outcome)
       /\ StopPending(s, outcome)
  /\ UNCHANGED <<driverVars, needStart, needStop, callback, starts>>

(* The service stops, answers 'stopped' and starts again in one handler.   *)
DependsStoppedNeedStart(s) ==
  /\ state[s] = "INFLUENCE" /\ Got(s, "depend-service-stopped")
  /\ isAllDependsStopped(s) /\ s \in needStart
  /\ Become(s, "STARTING")
  /\ needStart' = needStart \ {s}
  /\ \E down \in StopOutcomes(s), up \in StartOutcomes(s) :
       /\ Notify(s, "stopped", callback, Posted(s, down), Posted(s, up))
       /\ StopPending(s, down)
       /\ StartPending(s, up)
  /\ UNCHANGED <<enabled, loaded, timers, needStop>>

RequestInStarting(s) ==
  /\ state[s] = "STARTING" /\ (Got(s, "start") \/ Got(s, "stop"))
  /\ OnlyCallback(s)
  /\ needStop' = IF Got(s, "stop") THEN needStop \cup {s} ELSE needStop
  /\ UNCHANGED needStart

Started(s) ==
  /\ state[s] = "STARTING" /\ Got(s, "service-started") /\ s \notin needStop
  /\ Become(s, "ON")
  /\ Notify(s, "started", callback, <<>>, <<>>)
  /\ UNCHANGED <<enabled, loaded, timers, needStart, needStop, starts, stops>>

StartedNeedStop(s) ==
  /\ state[s] = "STARTING" /\ Got(s, "service-started") /\ s \in needStop
  /\ Become(s, "INFLUENCE")
  /\ needStop' = needStop \ {s}
  /\ StopDependents(s)
  /\ UNCHANGED <<driverVars, needStart, callback, starts, stops>>

NotStarted(s) ==
  /\ state[s] = "STARTING"
  /\ \/ /\ Got(s, "service-failed")
        /\ Become(s, "OFF") /\ Notify(s, "failed", callback, <<>>, <<>>)
     \/ /\ Got(s, "service-not-installed")
        /\ Become(s, "NOT_INSTALLED") /\ Notify(s, "not_installed", callback, <<>>, <<>>)
     \/ /\ Got(s, "service-depend-off")
        /\ Become(s, "DEPENDS_OFF") /\ Notify(s, "depends_off", callback, <<>>, <<>>)
  /\ UNCHANGED <<enabled, loaded, timers, needStart, needStop, starts, stops>>

StartInStopping(s) ==
  /\ state[s] = "STOPPING" /\ Got(s, "start")
  /\ OnlyCallback(s)
  /\ needStart' = needStart \cup {s}
  /\ UNCHANGED needStop

StoppedNow(s) ==
  /\ state[s] = "STOPPING" /\ Got(s, "service-stopped")
  /\ Become(s, "OFF")
  /\ Notify(s, "stopped", callback, <<>>, <<>>)
  /\ UNCHANGED <<enabled, loaded, timers, needStart, needStop, starts, stops>>

(* Every other event is dropped, with the Deferred it may carry.           *)
Handled(s) ==
  CASE state[s] = "ON" -> {"stop"}
    [] state[s] \in Stopped -> {"start", "stop"}
    [] state[s] = "INFLUENCE" -> {"start", "stop"} \cup
         (IF isAllDependsStopped(s) THEN {"depend-service-stopped"} ELSE {})
    [] state[s] = "STARTING" -> {"start", "stop", "service-started", "service-failed",
                                 "service-not-installed", "service-depend-off"}
    [] state[s] = "STOPPING" -> {"start", "service-stopped"}
    [] OTHER -> {}

Ignore(s) ==
  /\ queue # <<>> /\ Head(queue).to = s /\ Head(queue).event \notin Handled(s)
  /\ queue' = Tail(queue)
  /\ UNCHANGED <<state, driverVars, serviceVars>>

(* The Deferred returned by start() or stop() fires.                       *)
StartDone(s) ==
  /\ s \in starts
  /\ starts' = starts \ {s}
  /\ \/ queue' = Append(queue, Post(s, "service-started"))
     \/ s \in MayFail /\ queue' = Append(queue, Post(s, "service-failed"))
  /\ UNCHANGED <<state, driverVars, needStart, needStop, callback, stops>>

(* Mutant: 'service-stopped' comes although no stop() is pending.          *)
StopDoneAnyway(s) ==
  /\ loaded /\ Len(queue) < MaxQueue
  /\ stops' = [stops EXCEPT ![s] = @ - 1]
  /\ queue' = Append(queue, Post(s, "service-stopped"))
  /\ UNCHANGED <<state, driverVars, needStart, needStop, callback, starts>>

StopDone(s) ==
  /\ stops[s] > 0
  /\ stops' = [stops EXCEPT ![s] = @ - 1]
  /\ queue' = Append(queue, Post(s, "service-stopped"))
  /\ UNCHANGED <<state, driverVars, needStart, needStop, callback, starts>>

-----------------------------------------------------------------------------
(* Those who start and stop services.                                      *)

CanPost == loaded /\ Len(queue) < MaxQueue /\ \A s \in Service : stops[s] < MaxStops

(* on_service_enabled_disabled, called when the config option is written,  *)
(* by api.service_start, api.service_stop or any other writer.             *)
EnabledDisabled(s, newvalue) ==
  /\ CanPost
  /\ enabled' = IF newvalue THEN enabled \cup {s} ELSE enabled \ {s}
  /\ queue' = Append(queue, Post(s, IF newvalue THEN "start" ELSE "stop"))
  /\ UNCHANGED <<state, loaded, batch, waiting, restarts, timers, serviceVars>>

SomeTransitional == \E s \in Service : state[s] \in Transitional

(* _do_stop of restart(): stop([s]) joins a stopping batch, fails while    *)
(* one is starting, and opens a batch of its own otherwise.                *)
DoStop(s) ==
  \/ /\ batch = "none"
     /\ SetBatch(Batch("stopping", {s}, <<s>>, <<>>))
     /\ queue' = Append(queue, PostDeferred(s, "stop"))
  \/ /\ batch = "stopping"
     /\ restarts' = Append(restarts, s)
     /\ UNCHANGED <<batch, waiting, queue>>
  \/ batch = "starting" /\ UNCHANGED <<batch, waiting, restarts, queue>>

(* restart(s, wait_timeout).  While a stopping batch is in progress it     *)
(* puts None in the DeferredList and raises.                               *)
Restart(s, wait_timeout) ==
  /\ CanPost /\ batch # "stopping" /\ Len(restarts) < MaxRestarts
  /\ IF wait_timeout /\ SomeTransitional
     THEN timers' = timers \cup {s} /\ UNCHANGED <<batch, waiting, restarts, queue>>
     ELSE /\ UNCHANGED timers
          /\ IF batch = "starting"
             THEN restarts' = Append(restarts, s) /\ UNCHANGED <<batch, waiting, queue>>
             ELSE DoStop(s)
  /\ UNCHANGED <<state, enabled, loaded, serviceVars>>

(* _on_timeout: give up if a service is still changing, else _do_stop.     *)
Timeout(s) ==
  /\ loaded /\ s \in timers /\ Len(restarts) < MaxRestarts
  /\ timers' = timers \ {s}
  /\ IF SomeTransitional THEN UNCHANGED <<batch, waiting, restarts, queue>> ELSE DoStop(s)
  /\ UNCHANGED <<state, enabled, loaded, serviceVars>>

(* shutdowner.shutdown: driver.shutdown() forgets every service, and the   *)
(* event 'shutdown' reaches every state machine: each stops what it runs   *)
(* and destroys itself.  What is still posted, or posted later by the      *)
(* Deferreds of start() and stop(), finds a destroyed machine and is lost. *)
Shutdown ==
  /\ loaded
  /\ loaded' = FALSE
  /\ enabled' = {}
  /\ state' = [s \in Service |-> "CLOSED"]
  /\ queue' = <<>>
  /\ callback' = {}
  /\ starts' = {}
  /\ stops' = [s \in Service |-> 0]
  /\ UNCHANGED <<batch, waiting, restarts, timers, needStart, needStop>>

-----------------------------------------------------------------------------
Handle(s) ==
  \/ StopWhenOn(s) \/ StopWhenOff(s) \/ StartWhenOff(s)
  \/ RequestInInfluence(s) \/ DependsStopped(s) \/ DependsStoppedNeedStart(s)
  \/ RequestInStarting(s) \/ Started(s) \/ StartedNeedStop(s) \/ NotStarted(s)
  \/ StartInStopping(s) \/ StoppedNow(s) \/ Ignore(s)

Environment ==
  \/ \E s \in Service, v \in BOOLEAN : EnabledDisabled(s, v) \/ Restart(s, v)
  \/ Shutdown

Next ==
  \/ \E s \in Service : Handle(s) \/ StartDone(s) \/ StopDone(s) \/ Timeout(s)
  \/ Environment

Spec == Init /\ [][Next]_vars

(* The reactor handles every delayed call, and what the services wait for  *)
(* (a listener, a timeout of the network) comes to an end.                 *)
Fairness ==
  \A s \in Service : WF_vars(Handle(s)) /\ WF_vars(StartDone(s)) /\ WF_vars(StopDone(s))

FairSpec == Spec /\ Fairness

-----------------------------------------------------------------------------
TypeOK ==
  /\ state \in [Service -> State]
  /\ queue \in Seq(Message)
  /\ enabled \subseteq Service
  /\ loaded \in BOOLEAN
  /\ batch \in {"none", "starting", "stopping"}
  /\ waiting \subseteq Service
  /\ restarts \in Seq(Service)
  /\ timers \subseteq Service
  /\ needStart \subseteq Service /\ needStop \subseteq Service
  /\ callback \subseteq Service
  /\ starts \subseteq Service
  /\ stops \in [Service -> Nat]

Outcome == {"service-started", "service-failed", "service-not-installed",
            "service-depend-off"}

IsOutcome(i, s) == queue[i].to = s /\ queue[i].event \in Outcome

Up(s) == state[s] \in {"ON", "INFLUENCE"}

(* start() was called and has not failed so far.                           *)
Booting(s) ==
  /\ state[s] = "STARTING"
  /\ \/ s \in starts
     \/ \E i \in DOMAIN queue : queue[i].to = s /\ queue[i].event = "service-started"

(* Each doStartService comes to exactly one outcome, and only a STARTING   *)
(* service has one to come: no outcome of an earlier attempt to start is   *)
(* ever taken for that of the current one.                                 *)
OneOutcomeOf(s) ==
  /\ \A i, j \in DOMAIN queue : IsOutcome(i, s) /\ IsOutcome(j, s) => i = j
  /\ s \in starts => \A i \in DOMAIN queue : ~ IsOutcome(i, s)
  /\ state[s] = "STARTING" <=> s \in starts \/ \E i \in DOMAIN queue : IsOutcome(i, s)

OneOutcome == \A s \in Service : OneOutcomeOf(s)

(* A service runs, or is being started, only while every service it        *)
(* depends on runs: whatever the requests and their timing, the code of a  *)
(* service never works without the services below it.                      *)
DependenciesUp ==
  \A s \in Service : Up(s) \/ Booting(s) => \A d \in DependsOn[s] : Up(d)

(* An enabled service is not left in DEPENDS_OFF when all it depends on is *)
(* ON, unless a new 'start' is on its way (api.service_start: the enabled  *)
(* services that depend on the started one are started also).              *)
NotLeftBehind ==
  \A s \in enabled :
    state[s] = "DEPENDS_OFF" =>
      \/ \E d \in DependsOn[s] : state[d] # "ON"
      \/ \E i \in DOMAIN queue : queue[i].to = s /\ queue[i].event = "start"

(* The Deferred that a batch gave to a service is fired at most once: it   *)
(* is either on its way to the service or kept by it, never twice, and     *)
(* only while the batch waits for that service.                            *)
AnswerOnce ==
  /\ batch = "none" <=> waiting = {}
  /\ callback \subseteq waiting
  /\ \A i \in DOMAIN queue : queue[i].deferred =>
       /\ queue[i].to \in waiting \ callback
       /\ \A j \in DOMAIN queue : queue[j].deferred /\ queue[j].to = queue[i].to => i = j

(* Nothing is going on.                                                    *)
AtRest ==
  /\ loaded /\ queue = <<>> /\ starts = {} /\ batch = "none" /\ timers = {}
  /\ \A s \in Service : stops[s] = 0

(* A service is not left between two states for ever: what was started     *)
(* gets an outcome, what was stopped a confirmation.                       *)
Resolves ==
  \A s \in Service : \A between \in {"STARTING", "STOPPING"} : state[s] = between ~> state[s] # between

(* The services implement Layers: they go up and down one at a time, each  *)
(* on top of running services and never under a running one, except when   *)
(* the program ends.                                                       *)
Promise == INSTANCE Layers WITH up <- {s \in Service : Up(s)},
                                booting <- {s \in Service : Booting(s)}
KeepsPromise == Promise!Spec

AllOn == batch = "none" /\ \A s \in Service : state[s] = "ON"

(* initializer.doInitServices waits for the batch that starts every        *)
(* service: when none of them fails they all get to ON, although the batch *)
(* is answered by services that first find their dependencies off.  After  *)
(* api.service_restart, which stops a service and those that depend on it, *)
(* all of them are ON again.                                               *)
AllUpInTheEnd == []<>AllOn
=============================================================================
