----------------------------- MODULE RaidWorker -----------------------------
(***************************************************************************)
(* raid/raid_worker.py: a pool of processes that make, read and rebuild    *)
(* blocks.  Operators from the state of the worker to a later one; the     *)
(* module that uses them owns the queue of events of the reactor.          *)
(*                                                                         *)
(* A worker is a record: its state, the tasks that wait, the tasks given   *)
(* to a process, the processes that have not answered, and the tasks whose *)
(* callback it keeps.  "NONE" is the worker that was destroyed.  Each      *)
(* operator gives the worker and what it posts.                            *)
(***************************************************************************)
EXTENDS Integers, Sequences, SequencesExt, FiniteSets

CONSTANT Cpus  \* processor.get_ncpus()

ASSUME CpusAssumption == Cpus \in Nat \ {0}

NewWorker == [state |-> "OFF", tasks |-> <<>>, active |-> {}, running |-> {}, callbacks |-> {}]
NoWorker == [NewWorker EXCEPT !.state = "NONE"]

ToWorker(e, t, r) == [to |-> "worker", event |-> e, task |-> t, result |-> r]
CallBack(t, r) == [to |-> "user", event |-> "finished", task |-> t, result |-> r]

NoTask == [kind |-> "none"]
NoResult == [done |-> FALSE]

(* doStartTask: nothing when every process is busy.                        *)
StartTask(w) ==
  IF Cardinality(w.active) >= Cpus \/ w.tasks = <<>> THEN w
  ELSE [w EXCEPT !.tasks = Tail(@), !.active = @ \cup {Head(w.tasks)},
                 !.running = @ \cup {Head(w.tasks)}]

AddTask(w, t) == [w EXCEPT !.tasks = Append(@, t), !.callbacks = @ \cup {t}]

(* new-task.  In OFF the processes are started, and say so at once.        *)
NewTask(w, t) ==
  CASE w.state = "OFF" -> [worker |-> AddTask(w, t),
                           posts |-> <<ToWorker("process-started", NoTask, NoResult)>>]
    [] w.state \in {"READY", "WORK"} ->
         [worker |-> StartTask(AddTask([w EXCEPT !.state = "WORK"], t)), posts |-> <<>>]
    [] OTHER -> [worker |-> w, posts |-> <<>>]

ProcessStarted(w) ==
  IF w.state # "OFF" THEN w
  ELSE IF w.tasks = <<>> THEN [w EXCEPT !.state = "READY"]
  ELSE StartTask([w EXCEPT !.state = "WORK"])

(* The event 'task-started', 0.01 seconds after each start.                *)
TaskStarted(w) == IF w.state = "WORK" THEN StartTask(w) ELSE w

(* Mutant: the task stays among the active ones.                           *)
TaskDoneKept(w, t, r) ==
  IF w.state # "WORK" THEN [worker |-> w, posts |-> <<>>]
  ELSE LET told == [w EXCEPT !.callbacks = @ \ {t}]
           next == IF told.tasks # <<>> THEN StartTask(told) ELSE told
       IN  [worker |-> [next EXCEPT !.state = IF next.active = {} THEN "READY" ELSE "WORK"],
            posts |-> <<CallBack(t, r)>>]

(* task-done: the callback is called, the next task begins; the worker is  *)
(* READY when this was the last one.                                       *)
TaskDone(w, t, r) ==
  IF w.state # "WORK" THEN [worker |-> w, posts |-> <<>>]
  ELSE LET told == [w EXCEPT !.callbacks = @ \ {t}, !.active = @ \ {t}]
           next == StartTask(told)
       IN  [worker |-> [next EXCEPT !.state = IF next.active = {} THEN "READY" ELSE "WORK"],
            posts |-> <<CallBack(t, r)>>]

(* timer-1min: the processes are killed when there is nothing to do.       *)
Idle(w) == IF w.state = "READY" THEN [w EXCEPT !.state = "OFF"] ELSE w

(* shutdown: in WORK each task fails, in OFF those that wait are lost.     *)
(* Nothing starts a new worker but the start of service_rebuilding.        *)
Shutdown(w) ==
  [worker |-> NoWorker,
   posts |-> IF w.state # "WORK" THEN <<>>
             ELSE LET order == w.tasks \o SetToSeq(w.active)
                  IN  [i \in DOMAIN order |-> CallBack(order[i], NoResult)]]

-----------------------------------------------------------------------------
(* What one step of the reactor does to the worker.                        *)
Handled(w, m) ==
  CASE m.event = "new-task" -> NewTask(w, m.task)
    [] m.event = "process-started" -> [worker |-> ProcessStarted(w), posts |-> <<>>]
    [] m.event = "task-started" -> [worker |-> TaskStarted(w), posts |-> <<>>]
    [] m.event = "task-done" -> TaskDone(w, m.task, m.result)
    [] m.event = "timer-1min" -> [worker |-> Idle(w), posts |-> <<>>]
    [] m.event = "shutdown" -> Shutdown(w)

(* The books of the worker agree: a callback is kept for each task that    *)
(* waits or is worked on and for no other, no more tasks are worked on     *)
(* than there are processes, and the worker works as long as there is a    *)
(* task, until it is idle or the processes have yet to start.              *)
BooksAgree(w) ==
  /\ w.callbacks = ToSet(w.tasks) \cup w.active
  /\ w.running \subseteq w.active
  /\ Cardinality(w.active) <= Cpus
  /\ w.state = "WORK" <=> w.active # {}
  /\ w.state \in {"READY", "NONE"} => w.tasks = <<>>
=============================================================================
