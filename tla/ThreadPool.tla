----------------------------- MODULE ThreadPool -----------------------------
(***************************************************************************)
(* libsync::ThreadPool (pool.hpp): workers that take tasks from a queue     *)
(* under a mutex, sleep on a condition variable while it is empty, and are  *)
(* joined by the destructor after it has raised the stop flag.              *)
(*                                                                          *)
(* A section under queue_mutex is one action; the notify_one of enqueue,    *)
(* the notify_all of the destructor and the run of a task are steps of      *)
(* their own.  A task that is running may itself call enqueue, also while   *)
(* the destructor waits; other threads may not (the caller must not use the *)
(* pool while it destroys it).                                              *)
(***************************************************************************)
EXTENDS Integers, Sequences, FiniteSets, CondVar

CONSTANTS
  Workers,     \* the pool's threads
  Submitters,  \* other threads that call enqueue
  Tasks,       \* bound: the tasks that may ever be submitted, once each
  NoTask       \* an empty std::function

Threads == Workers \cup Submitters

ASSUME PoolAssumption ==
  /\ Workers # {}
  /\ IsFiniteSet(Workers)
  /\ Workers \cap Submitters = {}
  /\ IsFiniteSet(Submitters)
  /\ NoTask \notin Tasks

VARIABLES
  pc,      \* where each thread is
  tasks,   \* the queue
  task,    \* each worker's local task
  stop,
  dtor,    \* where the destructor is
  stage    \* history: what has become of each task

vars == <<pc, tasks, task, stop, dtor, stage>>

(* "run" and "runnotify" are inside a task, the latter between the push of  *)
(* a nested enqueue and its notify_one.                                     *)
WorkerPC == {"test", "wait", "woken", "run", "runnotify", "exit"}
SubmitterPC == {"idle", "notify"}

TypeOK ==
  /\ pc \in [Threads -> WorkerPC \cup SubmitterPC]
  /\ \A w \in Workers : pc[w] \in WorkerPC
  /\ \A s \in Submitters : pc[s] \in SubmitterPC
  /\ tasks \in Seq(Tasks)
  /\ task \in [Workers -> Tasks \cup {NoTask}]
  /\ stop \in BOOLEAN
  /\ dtor \in {"live", "notify", "join", "done"}
  /\ stage \in [Tasks -> {"new", "queued", "running", "done", "refused"}]

Init ==
  /\ pc = [t \in Threads |-> IF t \in Workers THEN "test" ELSE "idle"]
  /\ tasks = <<>>
  /\ task = [w \in Workers |-> NoTask]
  /\ stop = FALSE
  /\ dtor = "live"
  /\ stage = [t \in Tasks |-> "new"]

-----------------------------------------------------------------------------
(* enqueue                                                                  *)

MayEnqueue == ~stop

Emplace(t) == Append(tasks, t)

(* The section under the mutex: a new task is queued, or refused by an      *)
(* exception once stop is up.  from is the caller's place before, to the    *)
(* one from which it will notify.                                           *)
Enqueue(c, t, from, to) ==
  /\ pc[c] = from
  /\ stage[t] = "new"
  /\ \/ /\ MayEnqueue
        /\ tasks' = Emplace(t)
        /\ stage' = [stage EXCEPT ![t] = "queued"]
        /\ pc' = [pc EXCEPT ![c] = to]
     \/ /\ ~MayEnqueue
        /\ stage' = [stage EXCEPT ![t] = "refused"]
        /\ UNCHANGED <<tasks, pc>>
  /\ UNCHANGED <<task, stop, dtor>>

EnqueueWakes_None(p) == {p}
EnqueueWakes(p) == NotifyOne(p)
EnqueueNotify(c, from, to) ==
  /\ pc[c] = from
  /\ pc' \in EnqueueWakes([pc EXCEPT ![c] = to])
  /\ UNCHANGED <<tasks, task, stop, dtor, stage>>

Submit(s, t) == dtor = "live" /\ Enqueue(s, t, "idle", "notify")
SubmitNotify(s) == EnqueueNotify(s, "notify", "idle")
NestedSubmit(w, t) == Enqueue(w, t, "run", "runnotify")
NestedNotify(w) == EnqueueNotify(w, "runnotify", "run")

-----------------------------------------------------------------------------
(* The worker's loop                                                        *)

HasWork == stop \/ tasks # <<>>
MayExit == stop /\ tasks = <<>>

Pop == tasks' = Tail(tasks)

NextTask_Newest == tasks[Len(tasks)]
NextTask == Head(tasks)

(* The section under the mutex, on entry and after each wake-up.            *)
WorkerLocked(w) ==
  /\ pc[w] \in {"test", "woken"}
  /\ \/ /\ ~HasWork
        /\ pc' = [pc EXCEPT ![w] = "wait"]
        /\ UNCHANGED <<tasks, task, stage>>
     \/ /\ HasWork /\ MayExit
        /\ pc' = [pc EXCEPT ![w] = "exit"]
        /\ UNCHANGED <<tasks, task, stage>>
     \/ /\ HasWork /\ ~MayExit
        /\ task' = [task EXCEPT ![w] = NextTask]
        /\ stage' = [stage EXCEPT ![NextTask] = "running"]
        /\ Pop
        /\ pc' = [pc EXCEPT ![w] = "run"]
  /\ UNCHANGED <<stop, dtor>>

TaskReturns(w) ==
  /\ pc[w] = "run"
  /\ stage' = [stage EXCEPT ![task[w]] = "done"]
  /\ task' = [task EXCEPT ![w] = NoTask]
  /\ pc' = [pc EXCEPT ![w] = "test"]
  /\ UNCHANGED <<tasks, stop, dtor>>

SpuriousWake(w) ==
  /\ pc[w] = "wait"
  /\ pc' = [pc EXCEPT ![w] = "woken"]
  /\ UNCHANGED <<tasks, task, stop, dtor, stage>>

-----------------------------------------------------------------------------
(* The destructor                                                           *)

DestroyStop ==
  /\ dtor = "live"
  /\ \A s \in Submitters : pc[s] = "idle"
  /\ stop' = TRUE
  /\ dtor' = "notify"
  /\ UNCHANGED <<pc, tasks, task, stage>>

DestroyWakes_One(p) == NotifyOne(p)
DestroyWakes(p) == {NotifyAll(p)}
DestroyNotify ==
  /\ dtor = "notify"
  /\ pc' \in DestroyWakes(pc)
  /\ dtor' = "join"
  /\ UNCHANGED <<tasks, task, stop, stage>>

Joined == \A w \in Workers : pc[w] = "exit"
DestroyJoin ==
  /\ dtor = "join"
  /\ Joined
  /\ dtor' = "done"
  /\ UNCHANGED <<pc, tasks, task, stop, stage>>

-----------------------------------------------------------------------------
WorkerStep(w) == WorkerLocked(w) \/ TaskReturns(w) \/ NestedNotify(w)
DestroyStep == DestroyNotify \/ DestroyJoin

Next ==
  \/ \E s \in Submitters : SubmitNotify(s) \/ \E t \in Tasks : Submit(s, t)
  \/ \E w \in Workers :
       WorkerStep(w) \/ SpuriousWake(w) \/ \E t \in Tasks : NestedSubmit(w, t)
  \/ DestroyStop \/ DestroyStep

Spec == Init /\ [][Next]_vars

(* Fairness: a thread that can go on does, a task that has begun returns,   *)
(* and the destructor once called goes on.  Nobody is obliged to submit or  *)
(* to destroy, and no spurious wake-up is counted on.                       *)
FairSpec ==
  /\ Spec
  /\ \A s \in Submitters : WF_vars(SubmitNotify(s))
  /\ \A w \in Workers : WF_vars(WorkerStep(w))
  /\ WF_vars(DestroyStep)

-----------------------------------------------------------------------------
(* Properties                                                               *)

(* The pool implements the executor: FIFO start, no more at a time than it  *)
(* has workers, each task once, nothing accepted after stop, and gone only  *)
(* when all of it has run (pool.hpp:36-89).                                 *)
Exec == INSTANCE Executor WITH
          line <- tasks, Width <- Cardinality(Workers),
          shut <- stop, gone <- dtor = "done"
ImplementsExecutor == Exec!ExecSpec

(* When the destructor returns every accepted task has run to its end: no   *)
(* worker left while there was work, none is still inside a task (46-47,    *)
(* 87-88).                                                                  *)
DestroyedMeansDrained ==
  dtor = "done" =>
    /\ tasks = <<>>
    /\ \A t \in Tasks : stage[t] \in {"new", "refused", "done"}

(* No lost wake-up: while a worker sleeps, every queued task is matched by  *)
(* a worker on its way to the queue or by a notification still to come      *)
(* (44-45, 76), although notify_one is called without the mutex.            *)
OnTheirWay == {w \in Workers : pc[w] \in {"test", "woken"}}
Notifying == {t \in Threads : pc[t] \in {"notify", "runnotify"}}
NoLostWakeup ==
  Asleep(pc) # {} =>
    Len(tasks) <= Cardinality(OnTheirWay) + Cardinality(Notifying)

(* The destructor returns (86-88), and every accepted task is run to its    *)
(* end, whether the pool lives on or is destroyed.                          *)
DestroyReturns ==
  /\ dtor = "notify" ~> dtor = "done"
  /\ \A t \in Tasks : stage[t] = "queued" ~> stage[t] = "done"
=============================================================================
