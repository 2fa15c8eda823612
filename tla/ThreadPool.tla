----------------------------- MODULE ThreadPool -----------------------------
(***************************************************************************)
(* thread_pool (src/thread_pool.h): a queue of tasks, a fixed set of       *)
(* worker threads that run pool_main, and a counter of free workers that   *)
(* run_task takes from before it queues a task.                            *)
(*                                                                         *)
(* A critical section of _lock is one step: every shared field but one is  *)
(* only touched under the lock.  The exception is the loop condition       *)
(* while (_running), read without the lock, which is a step of its own.    *)
(*                                                                         *)
(* A worker's program counter:                                             *)
(*   "check"   about to evaluate while (_running), also before it starts   *)
(*   "enter"   about to take the lock and evaluate the wait predicate      *)
(*   "waiting" blocked in _condition.wait                                  *)
(*   "run"     inside task(), without the lock                             *)
(*   "finish"  task() returned or threw; about to lock and ++_available    *)
(*   "left"    left through the break after the wait                       *)
(*   "quit"    left through the loop condition                             *)
(***************************************************************************)
EXTENDS Naturals, Sequences, FiniteSets

CONSTANTS Worker,  \* the threads the constructor starts
          Task,    \* the callables handed to run_task, one per submission
          NoTask   \* the local "task" of a worker that holds none

\* The pool owns finitely many threads, and no callable is the empty one.
ASSUME PoolAssumption == IsFiniteSet(Worker) /\ NoTask \notin Task

_pool_size == Cardinality(Worker)

VARIABLES tasks,     \* _tasks
          available, \* _available
          running,   \* _running
          pc,        \* where each worker is in pool_main
          task,      \* the local variable task of each worker
          phase,     \* the owner: "alive", "joining" or "destroyed"
          answer,    \* what run_task last returned for each task
          runs       \* how often the body of each task was executed

pool == <<tasks, available, running>>
vars == <<tasks, available, running, pc, task, phase, answer, runs>>

PC == {"check", "enter", "waiting", "run", "finish", "left", "quit"}

At(l) == {w \in Worker : pc[w] \in l}

Goto(w, from, to) == /\ pc[w] = from
                     /\ pc' = [pc EXCEPT ![w] = to]
-----------------------------------------------------------------------------
Init == /\ tasks = <<>>
        /\ available = _pool_size
        /\ running = TRUE
        /\ pc = [w \in Worker |-> "check"]
        /\ task = [w \in Worker |-> NoTask]
        /\ phase = "alive"
        /\ answer = [t \in Task |-> "none"]
        /\ runs = [t \in Task |-> 0]

\* run_task is called by the owner's threads until the destructor starts, and
\* by tasks for as long as they run: the object outlives them, it joins them.
CanCall == phase = "alive" \/ At({"run"}) # {}

\* Mutant: notify only when the queue was empty before the push.
NotifyOneIfQueueWasEmpty ==
  IF At({"waiting"}) = {} \/ tasks # <<>>
  THEN UNCHANGED pc
  ELSE \E w \in At({"waiting"}) : pc' = [pc EXCEPT ![w] = "enter"]

\* Mutant: the wakeup is forgotten.
NotifyNobody == UNCHANGED pc

\* _condition.notify_one(): one blocked worker, if there is any, wakes up.
NotifyOne == IF At({"waiting"}) = {}
             THEN UNCHANGED pc
             ELSE \E w \in At({"waiting"}) : pc' = [pc EXCEPT ![w] = "enter"]

\* Mutant: the destructor wakes one worker only.
NotifyAnyone == IF At({"waiting"}) = {}
                THEN UNCHANGED pc
                ELSE \E w \in At({"waiting"}) : pc' = [pc EXCEPT ![w] = "enter"]

\* _condition.notify_all()
NotifyAll == pc' = [w \in Worker |-> IF pc[w] = "waiting" THEN "enter" ELSE pc[w]]

\* If no threads are available, then return.
Refuse(t) == /\ available = 0
             /\ answer' = [answer EXCEPT ![t] = "false"]
             /\ UNCHANGED <<pool, pc>>

Accept(t) == /\ available # 0
             /\ available' = available - 1
             /\ tasks' = Append(tasks, t)
             /\ NotifyOne
             /\ answer' = [answer EXCEPT ![t] = "true"]
             /\ UNCHANGED running

run_task(t) == /\ CanCall
               /\ answer[t] # "true"
               /\ Refuse(t) \/ Accept(t)
               /\ UNCHANGED <<task, phase, runs>>

\* The read of _running races with the destructor's write, so a worker may
\* still see the old value; the read under the lock in Leave decides.
CheckRunning(w) ==
  /\ \/ Goto(w, "check", "enter")
     \/ ~running /\ Goto(w, "check", "quit")
  /\ UNCHANGED <<pool, task, phase, answer, runs>>

\* The wait predicate is false: block and release the lock.
Park(w) ==
  /\ Goto(w, "enter", "waiting")
  /\ tasks = <<>> /\ running
  /\ UNCHANGED <<pool, task, phase, answer, runs>>

SpuriousWakeup(w) ==
  /\ Goto(w, "waiting", "enter")
  /\ UNCHANGED <<pool, task, phase, answer, runs>>

\* _condition.wait threw: Sleep(1000); continue.
WaitThrows(w) ==
  /\ Goto(w, "waiting", "check")
  /\ UNCHANGED <<pool, task, phase, answer, runs>>

\* The pool is no longer running: ++_available; break.
Leave(w) ==
  /\ Goto(w, "enter", "left")
  /\ ~running
  /\ available' = available + 1
  /\ UNCHANGED <<tasks, running, task, phase, answer, runs>>

\* Mutant: queued tasks are drained after the destructor has started.
TakeAlsoWhenStopped(w) ==
  /\ Goto(w, "enter", "run")
  /\ tasks # <<>>
  /\ task' = [task EXCEPT ![w] = Head(tasks)]
  /\ tasks' = Tail(tasks)
  /\ UNCHANGED <<available, running, phase, answer, runs>>

\* Mutant: the worker counts as free again as soon as it has popped the task.
TakeAndRelease(w) ==
  /\ Goto(w, "enter", "run")
  /\ running /\ tasks # <<>>
  /\ task' = [task EXCEPT ![w] = Head(tasks)]
  /\ tasks' = Tail(tasks)
  /\ available' = available + 1
  /\ UNCHANGED <<running, phase, answer, runs>>

Take(w) ==
  /\ Goto(w, "enter", "run")
  /\ running /\ tasks # <<>>
  /\ task' = [task EXCEPT ![w] = Head(tasks)]
  /\ tasks' = Tail(tasks)
  /\ UNCHANGED <<available, running, phase, answer, runs>>

\* task() returns, or throws and the exception is swallowed.
Execute(w) ==
  /\ Goto(w, "run", "finish")
  /\ runs' = [runs EXCEPT ![task[w]] = @ + 1]
  /\ UNCHANGED <<pool, task, phase, answer>>

\* Mutant: a task that threw does not give its worker back.
FinishUnlessThrown(w) ==
  /\ Goto(w, "finish", "check")
  /\ \/ available' = available + 1
     \/ available' = available
  /\ task' = [task EXCEPT ![w] = NoTask]
  /\ UNCHANGED <<tasks, running, phase, answer, runs>>

Finish(w) ==
  /\ Goto(w, "finish", "check")
  /\ available' = available + 1
  /\ task' = [task EXCEPT ![w] = NoTask]
  /\ UNCHANGED <<tasks, running, phase, answer, runs>>

\* ~thread_pool: the block that holds the lock.
Stop ==
  /\ phase = "alive"
  /\ phase' = "joining"
  /\ running' = FALSE
  /\ NotifyAll
  /\ UNCHANGED <<tasks, available, task, answer, runs>>

\* ~thread_pool: every t->join() has returned, the members are destroyed.
Join ==
  /\ phase = "joining"
  /\ At({"left", "quit"}) = Worker
  /\ phase' = "destroyed"
  /\ UNCHANGED <<pool, pc, task, answer, runs>>

\* Nothing is left to do: lets TLC report every other stop as a deadlock.
Destroyed == phase = "destroyed" /\ UNCHANGED vars

pool_main(w) == \/ CheckRunning(w) \/ Park(w)  \/ SpuriousWakeup(w) \/ WaitThrows(w)
                \/ Leave(w)        \/ Take(w)  \/ Execute(w)        \/ Finish(w)

Next == \/ \E t \in Task : run_task(t)
        \/ \E w \in Worker : pool_main(w)
        \/ Stop
        \/ Join
        \/ Destroyed

Spec == Init /\ [][Next]_vars

\* The operating system keeps scheduling a worker that can run and the mutex
\* is granted eventually; task bodies terminate; join is not abandoned.
\* Nobody has to call run_task or to destroy the pool, and neither spurious
\* wakeups nor exceptions of wait can be relied on.
Fairness == /\ \A w \in Worker : WF_vars(CheckRunning(w) \/ Park(w) \/ Leave(w)
                                           \/ Take(w) \/ Execute(w) \/ Finish(w))
            /\ WF_vars(Join)

FairSpec == Spec /\ Fairness
-----------------------------------------------------------------------------
Busy == At({"run", "finish"})

\* Every variable has its type; a worker holds a task exactly while it is busy.
TypeOK == /\ tasks \in Seq(Task)
          /\ available \in Nat
          /\ running \in BOOLEAN
          /\ pc \in [Worker -> PC]
          /\ task \in [Worker -> Task \union {NoTask}]
          /\ phase \in {"alive", "joining", "destroyed"}
          /\ answer \in [Task -> {"none", "true", "false"}]
          /\ runs \in [Task -> Nat]
          /\ running <=> phase = "alive"
          /\ \A w \in Worker : w \in Busy <=> task[w] # NoTask

\* _available, the queue and the busy workers always add up to _pool_size,
\* except that each worker that left through the break has added one more:
\* no path of pool_main loses or invents a free worker while the pool runs.
Accounting ==
  available + Len(tasks) + Cardinality(Busy)
    = _pool_size + Cardinality(At({"left"}))

\* While the pool runs there is, for every queued task, a worker of its own
\* that is awake and on its way to the queue: run_task's single notify_one
\* after each push is enough and no wakeup is lost.
NoLostWakeup == running => Len(tasks) <= Cardinality(At({"check", "enter"}))

\* is_idle(), evaluated under the lock.
is_idle == tasks = <<>> /\ available = _pool_size

\* When is_idle() answers true before the destructor, every task run_task ever
\* accepted has been executed, not merely taken from the queue.
IdleMeansDrained ==
  running /\ is_idle => \A t \in Task : answer[t] = "true" => runs[t] = 1

\* What became of a task, in the terms of the abstract executor.
StatusOf(t) ==
  CASE answer[t] = "none"                     -> "new"
    [] answer[t] = "false"                    -> "refused"
    [] \E i \in DOMAIN tasks : tasks[i] = t   -> "queued"
    [] \E w \in Worker : task[w] = t          -> "running"
    [] OTHER -> IF runs[t] = 1 THEN "finished" ELSE "lost"

AbstractPhase == CASE phase = "alive"     -> "open"
                   [] phase = "joining"   -> "closing"
                   [] phase = "destroyed" -> "closed"

Abstract == INSTANCE Executor WITH Size   <- _pool_size,
                                   status <- [t \in Task |-> StatusOf(t)],
                                   queue  <- tasks,
                                   phase  <- AbstractPhase

\* The pool implements the executor: first in first out, each accepted task run
\* at most once, a refusal only when _pool_size tasks are unfinished, nothing
\* started once the destructor holds _running = false, nothing running when the
\* members are destroyed.
ImplementsExecutor == Abstract!Spec

\* A task run_task accepted is executed, unless the pool is destroyed meanwhile.
AcceptedIsExecuted ==
  \A t \in Task : answer[t] = "true" ~> (runs[t] = 1 \/ ~running)

\* The destructor returns: no worker stays blocked in wait after notify_all.
DestructorReturns == phase = "joining" ~> phase = "destroyed"
=============================================================================
