---------------------------- MODULE ThreadProofs ----------------------------
(***************************************************************************)
(* Proofs about the two parts that own threads, each for itself: a         *)
(* SteadyTimer for any number of starts, ticks and stops, and a ThreadPool *)
(* for every finite set of workers and every set of tasks.                 *)
(*                                                                         *)
(* The timer: its ticks are one chain because start() and the handler arm  *)
(* it only when no wait is left, and no wait is left because the owner     *)
(* comes back to "idle" with _running unset only after the task has ended. *)
(* So its properties hold together or not at all: TimerInv is their        *)
(* conjunction with what each place of start() and stop() knows.           *)
(*                                                                         *)
(* The pool: types, accounting, wakeups, and then that it implements       *)
(* Executor and that is_idle() tells the truth.  The last two rest on      *)
(* where a task can be: an accepted one is in the queue once, or with one  *)
(* worker, or was executed, and nowhere else.                              *)
(***************************************************************************)
EXTENDS ThreadPool, SteadyTimer, FiniteSetTheorems, FunctionTheorems, TLAPS
-----------------------------------------------------------------------------
(* SteadyTimer *)

\* The background task does not exist, or it has ended.
NoTaskRuns == io \in {"none", "done", "faulted"}

\* From StartArms on, until start() has created the task, a wait is pending
\* that nobody is going to handle yet.
Quiet == NoTaskRuns /\ owner # "create" => armed = 0 /\ ready = <<>>

\* _running is set by the last step of start() and unset by the last but one of
\* stop(); while stop() is on its way there it is set.
RunningFollowsOwner ==
  /\ owner \in {"callback", "~callback", "unset", "~unset"} => _running
  /\ owner \in {"create", "flag", "wait", "~wait", "destroyed", "terminated"} => ~_running

\* Outside stop() a timer that is started has its callback, and none of its
\* waits was aborted.
Started == owner \in {"create", "flag"} \/ (owner = "idle" /\ _running)

StartedIsWhole == Started => callback = "set" /\ ready # <<"aborted">>

\* Waits, due handlers and the handler under way exclude one another: this is
\* OneChain without numbers.
OneTick == /\ armed = 1 => ready = <<>> /\ ~InHandler
           /\ InHandler => ready = <<>>

\* A timer goes on from the moment it is armed.
Ticks == armed = 1 \/ ready # <<>> \/ InHandler
StartedIsAlive == Started => Ticks \/ declined \/ early

\* No task before start() has created it, none after stop() has waited for it.
OwnerIsAlone ==
  (owner = "idle" /\ ~_running) \/ owner \in {"create", "destroyed"} => NoTaskRuns

TimerInv == /\ TimerTypeOK /\ OneTick /\ Quiet /\ RunningFollowsOwner
            /\ StartedIsWhole /\ StartedIsAlive /\ OwnerIsAlone
-----------------------------------------------------------------------------
\* What cancel and expires_from_now append when there is nothing to abort, and
\* when there is one wait.
LEMMA AbortedWaits ==
  ASSUME ready = <<>>, armed \in {0, 1}
  PROVE  ready \o Aborted(armed) = IF armed = 0 THEN <<>> ELSE <<"aborted">>
<1>1. CASE armed = 0
  <2>1. Aborted(armed) = <<>>
    BY <1>1 DEF Aborted
  <2> QED BY <1>1, <2>1
<1>2. CASE armed = 1
  <2>1. Aborted(armed) = <<"aborted">>
    BY <1>2 DEF Aborted
  <2> QED BY <1>2, <2>1
<1> QED BY <1>1, <1>2

\* What the invariant says without numbers is what the properties count.
LEMMA ChainOfTicks ==
  ASSUME TimerTypeOK
  PROVE  (OneChain <=> OneTick) /\ (OneTick => (Chain = 1 <=> Ticks))
<1>1. Len(<<>>) = 0 /\ \A e \in {"ok", "error", "aborted"} : Len(<<e>>) = 1
  OBVIOUS
<1>2. Len(ready) \in {0, 1} /\ (Len(ready) = 0 <=> ready = <<>>) /\ armed \in {0, 1}
  BY <1>1 DEF TimerTypeOK
<1>3. CASE InHandler
  <2>1. Chain = armed + Len(ready) + 1
    BY <1>3 DEF Chain
  <2> QED BY <1>2, <1>3, <2>1 DEF OneChain, OneTick, Ticks
<1>4. CASE ~InHandler
  <2>1. Chain = armed + Len(ready)
    BY <1>2, <1>4 DEF Chain
  <2>2. CASE ready = <<>>
    BY <1>2, <1>4, <2>1, <2>2 DEF OneChain, OneTick, Ticks
  <2>3. CASE ready # <<>>
    <3>1. Chain = armed + 1
      BY <1>2, <2>1, <2>3
    <3>2. OneTick <=> armed = 0
      BY <1>2, <1>4, <2>3 DEF OneTick
    <3> QED BY <1>2, <2>3, <3>1, <3>2 DEF OneChain, Ticks
  <2> QED BY <2>2, <2>3
<1> QED BY <1>3, <1>4

\* The three shapes of the queue of handlers, and what a handler takes from it.
LEMMA QueueShapes ==
  ASSUME TimerTypeOK
  PROVE  /\ ready # <<>> => ready = <<Head(ready)>> /\ Tail(ready) = <<>>
         /\ \A e \in {"ok", "error", "aborted"} :
              <<e>> # <<>> /\ Append(<<>>, e) = <<e>> /\ Head(<<e>>) = e
<1> DEFINE Error == {"ok", "error", "aborted"}
<1>1. \A e \in Error : <<e>> # <<>> /\ Append(<<>>, e) = <<e>>
  OBVIOUS
<1>2. \A e \in Error : Head(<<e>>) = e /\ Tail(<<e>>) = <<>>
  OBVIOUS
<1>3. ready = <<>> \/ \E e \in Error : ready = <<e>>
  BY DEF TimerTypeOK
<1>4. ready # <<>> => ready = <<Head(ready)>> /\ Tail(ready) = <<>>
  BY <1>2, <1>3
<1> QED BY <1>1, <1>2, <1>4
-----------------------------------------------------------------------------
LEMMA TimerInitInv == TimerInit => TimerInv
BY DEF TimerInit, TimerInv, TimerTypeOK, IO, Owner, OneTick, InHandler, Quiet, NoTaskRuns,
       RunningFollowsOwner, StartedIsWhole, StartedIsAlive, Started, Ticks, OwnerIsAlone

LEMMA TimerStepInv == TimerInv /\ [TimerNext]_timerVars => TimerInv'
<1> SUFFICES ASSUME TimerInv, [TimerNext]_timerVars PROVE TimerInv'
  OBVIOUS
<1> USE DEF TimerInv, OneTick, InHandler, Quiet, NoTaskRuns, RunningFollowsOwner,
            StartedIsWhole, StartedIsAlive, Started, Ticks, OwnerIsAlone,
            TimerTypeOK, IO, Owner, Becomes, timer, fields, notes
<1>1. CASE StartArms
  <2>1. owner = "idle" /\ ~_running /\ armed = 0 /\ ready = <<>> /\ NoTaskRuns
    BY <1>1 DEF StartArms
  <2>2. ready' = <<>> /\ armed' = 1
    BY <1>1, <2>1, AbortedWaits DEF StartArms, Arm
  <2> QED BY <1>1, <2>1, <2>2 DEF StartArms
<1>2. CASE StartCreatesTask
  BY <1>2 DEF StartCreatesTask
<1>3. CASE StartSetsRunning
  BY <1>3 DEF StartSetsRunning
<1>4. CASE StopCancels
  <2>1. armed' = 0 /\ ready' = IF armed = 1 THEN <<"aborted">> ELSE ready
    <3>1. CASE armed = 1
      BY <1>4, <3>1, AbortedWaits DEF StopCancels, Cancel
    <3>2. CASE armed = 0
      <4>1. Aborted(armed) = <<>>
        BY <3>2 DEF Aborted
      <4>2. ready \o <<>> = ready
        OBVIOUS
      <4> QED BY <1>4, <3>2, <4>1, <4>2 DEF StopCancels, Cancel
    <3> QED BY <3>1, <3>2
  <2> QED BY <1>4, <2>1, QueueShapes DEF StopCancels
<1>5. CASE StopEmptiesCallback
  BY <1>5 DEF StopEmptiesCallback
<1>6. CASE StopUnsetsRunning
  BY <1>6 DEF StopUnsetsRunning
<1>7. CASE StopReturns
  BY <1>7 DEF StopReturns
<1>8. CASE DestroyStopped
  BY <1>8 DEF DestroyStopped
<1>9. CASE WaitEnds
  <2>1. armed = 1 /\ armed' = 0 /\ ready = <<>>
    BY <1>9 DEF WaitEnds
  <2>2. ready' = <<"ok">> \/ ready' = <<"error">>
    BY <1>9, <2>1, QueueShapes DEF WaitEnds
  <2> QED BY <1>9, <2>1, <2>2, QueueShapes DEF WaitEnds
<1>10. CASE HandlerTicks
  BY <1>10, QueueShapes DEF HandlerTicks
<1>11. CASE HandlerAborted
  BY <1>11, QueueShapes DEF HandlerAborted
<1>12. CASE HandlerFails
  BY <1>12, QueueShapes DEF HandlerFails, TestRunningThenRearm
<1>13. CASE InvokeCallback
  BY <1>13 DEF InvokeCallback
<1>14. CASE CallbackReturnsTrue
  BY <1>14 DEF CallbackReturnsTrue
<1>15. CASE CallbackReturnsFalse
  <2>1. armed = 0 /\ ready = <<>>
    BY <1>15 DEF CallbackReturnsFalse
  <2>2. armed' = 0 /\ ready' = <<>>
    BY <1>15, <2>1, AbortedWaits DEF CallbackReturnsFalse, Cancel
  <2> QED BY <1>15, <2>1, <2>2 DEF CallbackReturnsFalse
<1>16. CASE TestRunning
  BY <1>16 DEF TestRunning, TestRunningThenRearm
<1>17. CASE Rearm
  <2>1. armed = 0 /\ ready = <<>>
    BY <1>17 DEF Rearm
  <2>2. armed' = 1 /\ ready' = <<>>
    BY <1>17, <2>1, AbortedWaits DEF Rearm, Arm
  <2> QED BY <1>17, <2>1, <2>2 DEF Rearm
<1>18. CASE RunReturns
  BY <1>18 DEF RunReturns
<1>19. CASE StartRefused \/ StopReturnsAtOnce \/ Gone \/ UNCHANGED timerVars
  BY <1>19 DEF StartRefused, StopReturnsAtOnce, Gone, timerVars
<1> QED
  BY <1>1, <1>2, <1>3, <1>4, <1>5, <1>6, <1>7, <1>8, <1>9, <1>10, <1>11, <1>12, <1>13,
     <1>14, <1>15, <1>16, <1>17, <1>18, <1>19 DEF TimerNext, StartStep, StopStep, BackgroundTask

LEMMA TimerInvAlways == TimerSpec => []TimerInv
BY TimerInitInv, TimerStepInv, PTL DEF TimerSpec
-----------------------------------------------------------------------------
\* No step leaves the values the members and the two threads can have: boost
\* never holds two waits or two due handlers of this timer.
THEOREM TimerTypeCorrect == TimerSpec => []TimerTypeOK
<1>1. TimerInv => TimerTypeOK
  BY DEF TimerInv
<1> QED BY <1>1, TimerInvAlways, PTL

\* One timer object never has two ticks under way, however start(), stop(),
\* errors and expired waits follow one another.
THEOREM TicksAreOneChain == TimerSpec => []OneChain
<1>1. TimerInv => OneChain
  BY ChainOfTicks DEF TimerInv
<1> QED BY <1>1, TimerInvAlways, PTL

\* After stop() or the destructor no callback runs and no wait is left.
THEOREM StoppedTimerIsQuiet == TimerSpec => []StoppedIsQuiet
<1>1. TimerInv => StoppedIsQuiet
  BY DEF TimerInv, Quiet, OwnerIsAlone, NoTaskRuns, StoppedIsQuiet
<1> QED BY <1>1, TimerInvAlways, PTL

\* A started timer goes on, unless its callback declined or a handler ran before
\* start() had set _running.
THEOREM RunningTimerIsAlive == TimerSpec => []RunningIsAlive
<1>1. TimerInv => RunningIsAlive
  BY ChainOfTicks DEF TimerInv, StartedIsAlive, Started, RunningIsAlive
<1> QED BY <1>1, TimerInvAlways, PTL
-----------------------------------------------------------------------------
(* thread_pool *)

USE DEF PC

\* The program counter of one worker changes: a set of workers defined by
\* their program counters gains or loses that worker and no other.
LEMMA MoveOne ==
  ASSUME NEW w \in Worker, NEW l, NEW to \in PC,
         pc \in [Worker -> PC], pc' = [pc EXCEPT ![w] = to]
  PROVE  /\ Cardinality(At(l)) \in Nat
         /\ Cardinality(At(l)') \in Nat
         /\ to \in l /\ pc[w] \in l => Cardinality(At(l)') = Cardinality(At(l))
         /\ to \notin l /\ pc[w] \notin l => Cardinality(At(l)') = Cardinality(At(l))
         /\ to \in l /\ pc[w] \notin l => Cardinality(At(l)') = Cardinality(At(l)) + 1
         /\ to \notin l /\ pc[w] \in l => Cardinality(At(l)) = Cardinality(At(l)') + 1
<1>1. IsFiniteSet(At(l)) /\ IsFiniteSet(At(l)')
  <2>1. At(l) \subseteq Worker /\ At(l)' \subseteq Worker
    BY DEF At
  <2> QED BY <2>1, FS_Subset, PoolAssumption
<1>2. Cardinality(At(l)) \in Nat /\ Cardinality(At(l)') \in Nat
  BY <1>1, FS_CardinalityType
<1>3. \/ to \in l /\ pc[w] \in l
      \/ to \notin l /\ pc[w] \notin l
      => At(l)' = At(l)
  BY DEF At
<1>4. ASSUME to \in l, pc[w] \notin l
      PROVE  Cardinality(At(l)') = Cardinality(At(l)) + 1
  <2>1. At(l)' = At(l) \union {w} /\ w \notin At(l)
    BY <1>4 DEF At
  <2> QED BY <2>1, <1>1, FS_AddElement
<1>5. ASSUME to \notin l, pc[w] \in l
      PROVE  Cardinality(At(l)) = Cardinality(At(l)') + 1
  <2>1. At(l) = At(l)' \union {w} /\ w \notin At(l)'
    BY <1>5 DEF At
  <2> QED BY <2>1, <1>1, FS_AddElement
<1> QED BY <1>2, <1>3, <1>4, <1>5
-----------------------------------------------------------------------------
\* The type invariant: in particular _available never goes below zero, and a
\* worker's local task is set exactly while the worker is busy.
THEOREM PoolTypeCorrect == Spec => []TypeOK
<1> USE PoolAssumption
<1>1. Init => TypeOK
  <2>1. _pool_size \in Nat
    BY FS_CardinalityType DEF _pool_size
  <2> QED BY <2>1 DEF Init, TypeOK, Busy, At
<1>2. TypeOK /\ [Next]_vars => TypeOK'
  <2> SUFFICES ASSUME TypeOK, [Next]_vars PROVE TypeOK'
    OBVIOUS
  <2>1. ASSUME NEW t \in Task, run_task(t) PROVE TypeOK'
    <3>1. task' = task /\ phase' = phase /\ runs' = runs
      BY <2>1 DEF run_task
    <3>2. CASE Refuse(t)
      BY <3>1, <3>2 DEF Refuse, pool, TypeOK, Busy, At
    <3>3. CASE Accept(t)
      <4>1. pc' \in [Worker -> PC] /\ Busy' = Busy
        BY <3>3 DEF Accept, NotifyOne, TypeOK, At, Busy
      <4>2. tasks' \in Seq(Task) /\ available' \in Nat
        BY <3>3 DEF Accept, TypeOK
      <4> QED BY <3>1, <3>3, <4>1, <4>2 DEF Accept, TypeOK
    <3> QED BY <2>1, <3>2, <3>3 DEF run_task
  <2> USE DEF TypeOK, Goto, pool, Busy, At
  <2>2. ASSUME NEW w \in Worker, CheckRunning(w) PROVE TypeOK'
    BY <2>2 DEF CheckRunning
  <2>3. ASSUME NEW w \in Worker, Park(w) PROVE TypeOK'
    BY <2>3 DEF Park
  <2>4. ASSUME NEW w \in Worker, SpuriousWakeup(w) PROVE TypeOK'
    BY <2>4 DEF SpuriousWakeup
  <2>5. ASSUME NEW w \in Worker, WaitThrows(w) PROVE TypeOK'
    BY <2>5 DEF WaitThrows
  <2>6. ASSUME NEW w \in Worker, Leave(w) PROVE TypeOK'
    BY <2>6 DEF Leave
  <2>7. ASSUME NEW w \in Worker, Take(w) PROVE TypeOK'
    <3>1. Head(tasks) \in Task /\ Tail(tasks) \in Seq(Task)
      BY <2>7 DEF Take
    <3> QED BY <2>7, <3>1 DEF Take
  <2>8. ASSUME NEW w \in Worker, Execute(w) PROVE TypeOK'
    BY <2>8 DEF Execute
  <2>9. ASSUME NEW w \in Worker, Finish(w) PROVE TypeOK'
    BY <2>9 DEF Finish
  <2>10. CASE Stop
    BY <2>10 DEF Stop, NotifyAll
  <2>11. CASE Join
    BY <2>11 DEF Join
  <2>12. CASE Destroyed \/ UNCHANGED vars
    BY <2>12 DEF Destroyed, vars
  <2> QED
    BY <2>1, <2>2, <2>3, <2>4, <2>5, <2>6, <2>7, <2>8, <2>9, <2>10, <2>11, <2>12
    DEF Next, pool_main
<1> QED BY <1>1, <1>2, PTL DEF Spec

\* No path through pool_main and run_task loses or invents a free worker.
THEOREM AccountingCorrect == Spec => []Accounting
<1>1. Init => Accounting
  <2> SUFFICES ASSUME Init PROVE Accounting
    OBVIOUS
  <2>1. Busy = {} /\ At({"left"}) = {}
    BY DEF Init, Busy, At
  <2>2. _pool_size \in Nat
    BY FS_CardinalityType, PoolAssumption DEF _pool_size
  <2> QED BY <2>1, <2>2, FS_EmptySet DEF Init, Accounting
<1>2. TypeOK /\ Accounting /\ [Next]_vars => Accounting'
  <2> SUFFICES ASSUME TypeOK, Accounting, [Next]_vars PROVE Accounting'
    OBVIOUS
  <2> USE DEF Accounting, Busy, Goto
  <2>1. _pool_size \in Nat /\ pc \in [Worker -> PC] /\ available \in Nat
        /\ tasks \in Seq(Task) /\ Len(tasks) \in Nat
        /\ _pool_size' = _pool_size
    BY FS_CardinalityType, PoolAssumption DEF _pool_size, TypeOK
  <2>2. ASSUME NEW t \in Task, run_task(t) PROVE Accounting'
    <3>1. CASE Refuse(t)
      BY <2>1, <3>1 DEF Refuse, pool, At
    <3>2. CASE Accept(t)
      <4>1. At({"run", "finish"})' = At({"run", "finish"}) /\ At({"left"})' = At({"left"})
        BY <2>1, <3>2 DEF Accept, NotifyOne, At
      <4>2. Len(tasks') = Len(tasks) + 1 /\ available' = available - 1
        BY <2>1, <3>2 DEF Accept
      <4> QED BY <2>1, <4>1, <4>2 DEF Accounting
    <3> QED BY <2>2, <3>1, <3>2 DEF run_task
  <2>3. ASSUME NEW w \in Worker, CheckRunning(w) PROVE Accounting'
    BY <2>1, <2>3, MoveOne DEF CheckRunning, pool
  <2>4. ASSUME NEW w \in Worker, Park(w) \/ SpuriousWakeup(w) \/ WaitThrows(w)
        PROVE  Accounting'
    BY <2>1, <2>4, MoveOne DEF Park, SpuriousWakeup, WaitThrows, pool
  <2>5. ASSUME NEW w \in Worker, Leave(w) PROVE Accounting'
    <3>1. Cardinality(At({"run", "finish"})) \in Nat /\ Cardinality(At({"left"})) \in Nat
      BY <2>1, <2>5, MoveOne DEF Leave
    <3>2. Cardinality(At({"run", "finish"})') = Cardinality(At({"run", "finish"}))
      BY <2>1, <2>5, MoveOne DEF Leave
    <3>3. Cardinality(At({"left"})') = Cardinality(At({"left"})) + 1
      BY <2>1, <2>5, MoveOne DEF Leave
    <3> QED BY <2>1, <2>5, <3>1, <3>2, <3>3 DEF Leave
  <2>6. ASSUME NEW w \in Worker, Take(w) PROVE Accounting'
    <3>1. Len(tasks) = Len(tasks') + 1
      BY <2>1, <2>6 DEF Take
    <3>2. Cardinality(At({"run", "finish"})) \in Nat /\ Cardinality(At({"left"})) \in Nat
      BY <2>1, <2>6, MoveOne DEF Take
    <3>3. Cardinality(At({"run", "finish"})') = Cardinality(At({"run", "finish"})) + 1
      BY <2>1, <2>6, MoveOne DEF Take
    <3>4. Cardinality(At({"left"})') = Cardinality(At({"left"}))
      BY <2>1, <2>6, MoveOne DEF Take
    <3>5. Len(tasks') \in Nat
      BY <2>1, <2>6 DEF Take
    <3> QED BY <2>1, <2>6, <3>1, <3>2, <3>3, <3>4, <3>5 DEF Take
  <2>7. ASSUME NEW w \in Worker, Execute(w) PROVE Accounting'
    BY <2>1, <2>7, MoveOne DEF Execute, pool
  <2>8. ASSUME NEW w \in Worker, Finish(w) PROVE Accounting'
    <3>1. /\ Cardinality(At({"run", "finish"})') \in Nat
          /\ Cardinality(At({"left"})) \in Nat
      BY <2>1, <2>8, MoveOne DEF Finish
    <3>2. Cardinality(At({"run", "finish"})) = Cardinality(At({"run", "finish"})') + 1
      BY <2>1, <2>8, MoveOne DEF Finish
    <3>3. Cardinality(At({"left"})') = Cardinality(At({"left"}))
      BY <2>1, <2>8, MoveOne DEF Finish
    <3> QED BY <2>1, <2>8, <3>1, <3>2, <3>3 DEF Finish
  <2>9. CASE Stop
    <3>1. At({"run", "finish"})' = At({"run", "finish"}) /\ At({"left"})' = At({"left"})
      BY <2>1, <2>9 DEF Stop, NotifyAll, At
    <3> QED BY <2>1, <2>9, <3>1 DEF Stop
  <2>10. CASE Join \/ Destroyed \/ UNCHANGED vars
    BY <2>1, <2>10 DEF Join, Destroyed, vars, pool, At
  <2> QED
    BY <2>2, <2>3, <2>4, <2>5, <2>6, <2>7, <2>8, <2>9, <2>10 DEF Next, pool_main
<1> QED BY <1>1, <1>2, PoolTypeCorrect, PTL DEF Spec
-----------------------------------------------------------------------------
\* NoLostWakeup is not inductive alone: that a push finds an idle worker when
\* nobody is blocked follows from Accounting, provided no worker has gone.
NoneGone == running => At({"left", "quit"}) = {}

WakeupInv == NoneGone /\ NoLostWakeup

\* With nobody blocked and nobody gone, the workers are the awake and the busy.
LEMMA AwakeOrBusy ==
  ASSUME TypeOK, At({"waiting", "left", "quit"}) = {}
  PROVE  /\ Cardinality(At({"check", "enter"})) \in Nat
         /\ Cardinality(Busy) \in Nat
         /\ _pool_size = Cardinality(At({"check", "enter"})) + Cardinality(Busy)
<1>1. At({"check", "enter"}) \union Busy = Worker
  BY DEF TypeOK, At, Busy
<1>2. At({"check", "enter"}) \intersect Busy = {}
  BY DEF At, Busy
<1>3. IsFiniteSet(At({"check", "enter"})) /\ IsFiniteSet(Busy)
  <2>1. At({"check", "enter"}) \subseteq Worker /\ Busy \subseteq Worker
    BY <1>1
  <2> QED BY <2>1, FS_Subset, PoolAssumption
<1>4. Cardinality({}) = 0
  BY FS_EmptySet
<1>5. Cardinality(At({"check", "enter"})) \in Nat /\ Cardinality(Busy) \in Nat
  BY <1>3, FS_CardinalityType
<1>6. Cardinality(At({"check", "enter"}) \union Busy)
        = Cardinality(At({"check", "enter"})) + Cardinality(Busy)
          - Cardinality(At({"check", "enter"}) \intersect Busy)
  BY <1>3, FS_Union
<1>7. Cardinality(Worker) = Cardinality(At({"check", "enter"})) + Cardinality(Busy) - 0
  BY <1>1, <1>2, <1>4, <1>6, Zenon
<1> QED BY <1>5, <1>7 DEF _pool_size

\* No worker goes while the pool runs, and one notify_one per push is enough.
LEMMA WakeupInvAlways == Spec => []WakeupInv
<1>1. Init => WakeupInv
  <2> SUFFICES ASSUME Init PROVE WakeupInv
    OBVIOUS
  <2>1. At({"check", "enter"}) = Worker /\ At({"left", "quit"}) = {}
    BY DEF Init, At
  <2>2. Cardinality(Worker) \in Nat /\ Len(tasks) = 0
    BY FS_CardinalityType, PoolAssumption DEF Init
  <2> QED BY <2>1, <2>2 DEF WakeupInv, NoneGone, NoLostWakeup
<1>2. TypeOK /\ Accounting /\ WakeupInv /\ [Next]_vars => WakeupInv'
  <2> SUFFICES ASSUME TypeOK, Accounting, WakeupInv, [Next]_vars PROVE WakeupInv'
    OBVIOUS
  <2> DEFINE Awake == At({"check", "enter"})
  <2>1. /\ pc \in [Worker -> PC] /\ tasks \in Seq(Task) /\ Len(tasks) \in Nat
        /\ available \in Nat /\ running \in BOOLEAN
    BY DEF TypeOK
  <2> USE DEF WakeupInv, NoneGone, NoLostWakeup, Goto
  <2>2. ASSUME NEW t \in Task, run_task(t) PROVE WakeupInv'
    <3>1. CASE Refuse(t)
      BY <2>1, <3>1 DEF Refuse, pool, At
    <3>2. CASE Accept(t)
      <4>1. Len(tasks') = Len(tasks) + 1 /\ running' = running
        BY <2>1, <3>2 DEF Accept
      <4>2. At({"left", "quit"})' = At({"left", "quit"})
        BY <2>1, <3>2 DEF Accept, NotifyOne, At
      <4>3. CASE At({"waiting"}) = {}
        <5>1. Awake' = Awake
          BY <3>2, <4>3 DEF Accept, NotifyOne, At
        <5>2. ASSUME running PROVE Len(tasks) + 1 <= Cardinality(Awake)
          <6>1. At({"waiting", "left", "quit"}) = {}
            BY <4>3, <5>2 DEF At
          <6>2. Cardinality(At({"left"})) = 0
            <7>1. At({"left"}) = {}
              BY <6>1 DEF At
            <7> QED BY <7>1, FS_EmptySet
          <6>3. available # 0
            BY <3>2 DEF Accept
          <6>4. available + Len(tasks) + Cardinality(Busy) = _pool_size
            BY <6>1, <6>2, AwakeOrBusy DEF Accounting
          <6> QED BY <2>1, <6>1, <6>3, <6>4, AwakeOrBusy
        <5> QED BY <4>1, <4>2, <5>1, <5>2
      <4>4. CASE At({"waiting"}) # {}
        <5>1. PICK w \in Worker : pc[w] = "waiting" /\ pc' = [pc EXCEPT ![w] = "enter"]
          BY <3>2, <4>4 DEF Accept, NotifyOne, At
        <5>2. /\ Cardinality(Awake) \in Nat
              /\ Cardinality(Awake') = Cardinality(Awake) + 1
          BY <2>1, <5>1, MoveOne
        <5> QED BY <2>1, <4>1, <4>2, <5>2
      <4> QED BY <4>3, <4>4
    <3> QED BY <2>2, <3>1, <3>2 DEF run_task
  <2>3. ASSUME NEW w \in Worker, CheckRunning(w) PROVE WakeupInv'
    <3>1. CASE Goto(w, "check", "enter")
      <4>1. Awake' = Awake /\ At({"left", "quit"})' = At({"left", "quit"})
        BY <2>1, <3>1 DEF At
      <4> QED BY <2>3, <4>1 DEF CheckRunning, pool
    <3>2. CASE ~running
      BY <2>3, <3>2 DEF CheckRunning, pool
    <3> QED BY <2>3, <3>1, <3>2 DEF CheckRunning
  <2>4. ASSUME NEW w \in Worker, Park(w) PROVE WakeupInv'
    <3>1. Len(tasks') = 0 /\ At({"left", "quit"})' = At({"left", "quit"})
      BY <2>1, <2>4 DEF Park, pool, At
    <3>2. Cardinality(Awake') \in Nat
      BY <2>1, <2>4, MoveOne DEF Park
    <3> QED BY <2>4, <3>1, <3>2 DEF Park, pool
  <2>5. ASSUME NEW w \in Worker, SpuriousWakeup(w) \/ WaitThrows(w) PROVE WakeupInv'
    <3>1. At({"left", "quit"})' = At({"left", "quit"})
      BY <2>1, <2>5 DEF SpuriousWakeup, WaitThrows, At
    <3>2. /\ Cardinality(Awake) \in Nat
          /\ Cardinality(Awake') = Cardinality(Awake) + 1
      BY <2>1, <2>5, MoveOne DEF SpuriousWakeup, WaitThrows
    <3> QED BY <2>1, <2>5, <3>1, <3>2 DEF SpuriousWakeup, WaitThrows, pool
  <2>6. ASSUME NEW w \in Worker, Leave(w) PROVE WakeupInv'
    BY <2>6 DEF Leave
  <2>7. ASSUME NEW w \in Worker, Take(w) PROVE WakeupInv'
    <3>1. Len(tasks) = Len(tasks') + 1 /\ Len(tasks') \in Nat
      BY <2>1, <2>7 DEF Take
    <3>2. At({"left", "quit"})' = At({"left", "quit"})
      BY <2>1, <2>7 DEF Take, At
    <3>3. /\ Cardinality(Awake') \in Nat
          /\ Cardinality(Awake) = Cardinality(Awake') + 1
      BY <2>1, <2>7, MoveOne DEF Take
    <3> QED BY <2>7, <3>1, <3>2, <3>3 DEF Take
  <2>8. ASSUME NEW w \in Worker, Execute(w) PROVE WakeupInv'
    <3>1. Awake' = Awake /\ At({"left", "quit"})' = At({"left", "quit"})
      BY <2>1, <2>8 DEF Execute, At
    <3> QED BY <2>8, <3>1 DEF Execute, pool
  <2>9. ASSUME NEW w \in Worker, Finish(w) PROVE WakeupInv'
    <3>1. At({"left", "quit"})' = At({"left", "quit"})
      BY <2>1, <2>9 DEF Finish, At
    <3>2. /\ Cardinality(Awake) \in Nat
          /\ Cardinality(Awake') = Cardinality(Awake) + 1
      BY <2>1, <2>9, MoveOne DEF Finish
    <3> QED BY <2>1, <2>9, <3>1, <3>2 DEF Finish
  <2>10. CASE Stop
    BY <2>10 DEF Stop
  <2>11. CASE Join \/ Destroyed \/ UNCHANGED vars
    <3>1. running' = running /\ tasks' = tasks /\ pc' = pc
      BY <2>11 DEF Join, Destroyed, vars, pool
    <3> QED BY <3>1 DEF At
  <2> QED
    BY <2>2, <2>3, <2>4, <2>5, <2>6, <2>7, <2>8, <2>9, <2>10, <2>11
    DEF Next, pool_main
<1> QED BY <1>1, <1>2, PoolTypeCorrect, AccountingCorrect, PTL DEF Spec

\* There is an awake worker for every queued task as long as the pool runs.
THEOREM NoWakeupIsLost == Spec => []NoLostWakeup
<1>1. WakeupInv => NoLostWakeup
  BY DEF WakeupInv
<1> QED BY <1>1, WakeupInvAlways, PTL
-----------------------------------------------------------------------------
Queued(t) == \E i \in 1..Len(tasks) : tasks[i] = t

Held(t) == \E w \in Worker : task[w] = t

\* No task is twice in the queue, with two workers, or in both places.
OnePlace ==
  /\ \A i, j \in 1..Len(tasks) : tasks[i] = tasks[j] => i = j
  /\ \A w, v \in Worker : task[w] = task[v] /\ task[w] # NoTask => w = v
  /\ \A w \in Worker : \A i \in 1..Len(tasks) : task[w] # tasks[i]

\* Its body is executed once, and between "run" and "finish".
RunsOnce ==
  /\ \A t \in Task : runs[t] \in {0, 1}
  /\ \A i \in 1..Len(tasks) : runs[tasks[i]] = 0
  /\ \A w \in Worker : /\ pc[w] = "run" => runs[task[w]] = 0
                       /\ pc[w] = "finish" => runs[task[w]] = 1

\* What run_task accepted is somewhere, and nothing else is anywhere.
AcceptedIsSomewhere ==
  \A t \in Task : answer[t] = "true" <=> Queued(t) \/ Held(t) \/ runs[t] = 1

TaskInv == OnePlace /\ RunsOnce /\ AcceptedIsSomewhere
-----------------------------------------------------------------------------
\* A step that leaves queue, tasks and answers alone, and does not move a worker
\* into or out of the task, changes none of this.
LEMMA OthersKeepTaskInv ==
  ASSUME TaskInv, UNCHANGED <<tasks, task, answer, runs>>,
         \A w \in Worker : pc'[w] \in {"run", "finish"} => pc'[w] = pc[w]
  PROVE  TaskInv'
BY DEF TaskInv, OnePlace, RunsOnce, AcceptedIsSomewhere, Queued, Held

LEMMA AcceptKeepsTaskInv ==
  ASSUME TypeOK, TaskInv, NEW t \in Task, run_task(t), Accept(t)
  PROVE  TaskInv'
<1>1. /\ answer[t] # "true" /\ task' = task /\ runs' = runs
      /\ tasks' = Append(tasks, t) /\ answer' = [answer EXCEPT ![t] = "true"]
      /\ \A w \in Worker : pc'[w] \in {"run", "finish"} => pc'[w] = pc[w]
  BY DEF run_task, Accept, NotifyOne, At, TypeOK
<1>2. /\ tasks \in Seq(Task) /\ answer \in [Task -> {"none", "true", "false"}]
      /\ NoTask \notin Task
  BY PoolAssumption DEF TypeOK
<1>3. /\ Len(tasks) \in Nat /\ Len(tasks') = Len(tasks) + 1
      /\ \A i \in 1..Len(tasks) : tasks'[i] = tasks[i]
      /\ tasks'[Len(tasks) + 1] = t
  BY <1>1, <1>2
<1>4. ~Queued(t) /\ ~Held(t) /\ runs[t] = 0
  BY <1>1 DEF TaskInv, AcceptedIsSomewhere, RunsOnce
<1>5. OnePlace'
  BY <1>1, <1>3, <1>4 DEF TaskInv, OnePlace, Queued, Held
<1>6. RunsOnce'
  BY <1>1, <1>3, <1>4 DEF TaskInv, RunsOnce
<1>7. Queued(t)' /\ \A u \in Task : u # t => (Queued(u)' <=> Queued(u))
  BY <1>3 DEF Queued
<1>8. \A u \in Task : Held(u)' <=> Held(u)
  BY <1>1 DEF Held
<1>9. AcceptedIsSomewhere'
  BY <1>1, <1>2, <1>7, <1>8 DEF TaskInv, AcceptedIsSomewhere
<1> QED BY <1>5, <1>6, <1>9 DEF TaskInv

LEMMA TakeKeepsTaskInv ==
  ASSUME TypeOK, TaskInv, NEW w \in Worker, Take(w)
  PROVE  TaskInv'
<1>1. /\ pc[w] = "enter" /\ pc' = [pc EXCEPT ![w] = "run"]
      /\ tasks # <<>> /\ tasks' = Tail(tasks)
      /\ task' = [task EXCEPT ![w] = Head(tasks)]
      /\ answer' = answer /\ runs' = runs
  BY DEF Take, Goto
<1>2. /\ tasks \in Seq(Task) /\ pc \in [Worker -> PC]
      /\ task \in [Worker -> Task \union {NoTask}] /\ task[w] = NoTask
  BY <1>1 DEF TypeOK, Busy, At
<1>3. /\ Len(tasks) \in Nat \ {0} /\ Head(tasks) = tasks[1] /\ tasks[1] \in Task
      /\ Len(tasks') = Len(tasks) - 1
      /\ \A i \in 1..Len(tasks') : i + 1 \in 1..Len(tasks) /\ tasks'[i] = tasks[i + 1]
  BY <1>1, <1>2
<1>4. task'[w] = tasks[1] /\ \A v \in Worker : v # w => task'[v] = task[v]
  BY <1>1, <1>2, <1>3
<1>5. OnePlace'
  <2>1. \A i, j \in 1..Len(tasks') : tasks'[i] = tasks'[j] => i = j
    BY <1>3 DEF TaskInv, OnePlace
  <2>2. \A u, v \in Worker : task'[u] = task'[v] /\ task'[u] # NoTask => u = v
    BY <1>3, <1>4 DEF TaskInv, OnePlace
  <2>3. \A v \in Worker : \A i \in 1..Len(tasks') : task'[v] # tasks'[i]
    <3>1. \A i \in 1..Len(tasks') : i + 1 # 1
      BY <1>3
    <3> QED BY <1>3, <1>4, <3>1 DEF TaskInv, OnePlace
  <2> QED BY <2>1, <2>2, <2>3 DEF OnePlace
<1>6. RunsOnce'
  BY <1>1, <1>2, <1>3, <1>4 DEF TaskInv, RunsOnce
<1>7. \A t \in Task : Queued(t)' \/ Held(t)' <=> Queued(t) \/ Held(t)
  <2> SUFFICES ASSUME NEW t \in Task
               PROVE  Queued(t)' \/ Held(t)' <=> Queued(t) \/ Held(t)
    OBVIOUS
  <2>1. Queued(t) => t = tasks[1] \/ Queued(t)'
    <3> SUFFICES ASSUME NEW i \in 1..Len(tasks), tasks[i] = t, i # 1
                 PROVE  \E j \in 1..Len(tasks') : tasks'[j] = t
      BY DEF Queued
    <3>1. i - 1 \in 1..Len(tasks') /\ (i - 1) + 1 = i
      BY <1>3
    <3> QED BY <1>3, <3>1
  <2>2. Queued(t)' => Queued(t)
    BY <1>3 DEF Queued
  <2>3. Held(t)' <=> Held(t) \/ t = tasks[1]
    BY <1>2, <1>4, PoolAssumption DEF Held
  <2>4. t = tasks[1] => Queued(t)
    BY <1>3 DEF Queued
  <2> QED BY <2>1, <2>2, <2>3, <2>4
<1>8. AcceptedIsSomewhere'
  BY <1>1, <1>7 DEF TaskInv, AcceptedIsSomewhere
<1> QED BY <1>5, <1>6, <1>8 DEF TaskInv

LEMMA ExecuteKeepsTaskInv ==
  ASSUME TypeOK, TaskInv, NEW w \in Worker, Execute(w)
  PROVE  TaskInv'
<1>1. /\ pc[w] = "run" /\ pc' = [pc EXCEPT ![w] = "finish"]
      /\ runs' = [runs EXCEPT ![task[w]] = @ + 1]
      /\ tasks' = tasks /\ task' = task /\ answer' = answer
  BY DEF Execute, Goto, pool
<1>2. /\ pc \in [Worker -> PC] /\ runs \in [Task -> Nat] /\ tasks \in Seq(Task)
      /\ task \in [Worker -> Task \union {NoTask}] /\ task[w] # NoTask /\ task[w] \in Task
  BY <1>1 DEF TypeOK, Busy, At
<1>3. runs[task[w]] = 0 /\ Held(task[w])
  BY <1>1 DEF TaskInv, RunsOnce, Held
<1>4. runs'[task[w]] = 1 /\ \A t \in Task : t # task[w] => runs'[t] = runs[t]
  BY <1>1, <1>2, <1>3
<1>5. OnePlace'
  BY <1>1 DEF TaskInv, OnePlace
<1>6. RunsOnce'
  <2>1. \A t \in Task : runs'[t] \in {0, 1}
    BY <1>4 DEF TaskInv, RunsOnce
  <2>2. \A i \in 1..Len(tasks') : runs'[tasks'[i]] = 0
    <3>1. \A i \in 1..Len(tasks) : tasks[i] \in Task /\ tasks[i] # task[w]
      BY <1>2 DEF TaskInv, OnePlace
    <3> QED BY <1>1, <1>4, <3>1 DEF TaskInv, RunsOnce
  <2>3. ASSUME NEW v \in Worker
        PROVE  /\ pc'[v] = "run" => runs'[task'[v]] = 0
               /\ pc'[v] = "finish" => runs'[task'[v]] = 1
    <3>1. CASE v = w
      BY <1>1, <1>2, <1>4, <3>1
    <3>2. CASE v # w /\ pc[v] \in {"run", "finish"}
      <4>1. task[v] \in Task /\ task[v] # task[w]
        BY <1>2, <3>2 DEF TypeOK, Busy, At, TaskInv, OnePlace
      <4> QED BY <1>1, <1>2, <1>4, <3>2, <4>1 DEF TaskInv, RunsOnce
    <3>3. CASE v # w /\ pc[v] \notin {"run", "finish"}
      BY <1>1, <1>2, <3>3
    <3> QED BY <3>1, <3>2, <3>3
  <2> QED BY <2>1, <2>2, <2>3 DEF RunsOnce
<1>7. \A t \in Task : (Queued(t)' <=> Queued(t)) /\ (Held(t)' <=> Held(t))
  BY <1>1 DEF Queued, Held
<1>8. AcceptedIsSomewhere'
  BY <1>1, <1>3, <1>4, <1>7 DEF TaskInv, AcceptedIsSomewhere
<1> QED BY <1>5, <1>6, <1>8 DEF TaskInv

LEMMA FinishKeepsTaskInv ==
  ASSUME TypeOK, TaskInv, NEW w \in Worker, Finish(w)
  PROVE  TaskInv'
<1>1. /\ pc[w] = "finish" /\ pc' = [pc EXCEPT ![w] = "check"]
      /\ task' = [task EXCEPT ![w] = NoTask]
      /\ tasks' = tasks /\ answer' = answer /\ runs' = runs
  BY DEF Finish, Goto
<1>2. /\ pc \in [Worker -> PC] /\ tasks \in Seq(Task) /\ NoTask \notin Task
      /\ task \in [Worker -> Task \union {NoTask}] /\ task[w] \in Task
  BY <1>1, PoolAssumption DEF TypeOK, Busy, At
<1>3. task'[w] = NoTask /\ \A v \in Worker : v # w => task'[v] = task[v]
  BY <1>1, <1>2
<1>4. runs[task[w]] = 1
  BY <1>1 DEF TaskInv, RunsOnce
<1>5. OnePlace'
  <2>1. \A i \in 1..Len(tasks) : tasks[i] # NoTask
    BY <1>2
  <2> QED BY <1>1, <1>3, <2>1 DEF TaskInv, OnePlace
<1>6. RunsOnce'
  BY <1>1, <1>2, <1>3 DEF TaskInv, RunsOnce
<1>7. \A t \in Task : /\ Queued(t)' <=> Queued(t)
                      /\ Held(t)' => Held(t)
                      /\ Held(t) => Held(t)' \/ t = task[w]
  BY <1>1, <1>2, <1>3 DEF Queued, Held
<1>8. AcceptedIsSomewhere'
  BY <1>1, <1>4, <1>7 DEF TaskInv, AcceptedIsSomewhere
<1> QED BY <1>5, <1>6, <1>8 DEF TaskInv

LEMMA TaskInvAlways == Spec => []TaskInv
<1>1. Init => TaskInv
  BY PoolAssumption DEF Init, TaskInv, OnePlace, RunsOnce, AcceptedIsSomewhere, Queued, Held
<1>2. TypeOK /\ TaskInv /\ [Next]_vars => TaskInv'
  <2> SUFFICES ASSUME TypeOK, TaskInv, [Next]_vars PROVE TaskInv'
    OBVIOUS
  <2>1. ASSUME NEW t \in Task, run_task(t) PROVE TaskInv'
    <3>1. CASE Refuse(t)
      <4>1. /\ tasks' = tasks /\ task' = task /\ runs' = runs /\ pc' = pc
            /\ answer[t] # "true" /\ answer' = [answer EXCEPT ![t] = "false"]
            /\ answer \in [Task -> {"none", "true", "false"}]
        BY <2>1, <3>1 DEF run_task, Refuse, pool, TypeOK
      <4>2. \A u \in Task : answer'[u] = "true" <=> answer[u] = "true"
        BY <4>1
      <4> QED BY <4>1, <4>2 DEF TaskInv, OnePlace, RunsOnce, AcceptedIsSomewhere, Queued, Held
    <3>2. CASE Accept(t)
      BY <2>1, <3>2, AcceptKeepsTaskInv
    <3> QED BY <2>1, <3>1, <3>2 DEF run_task
  <2>2. ASSUME NEW w \in Worker,
               CheckRunning(w) \/ Park(w) \/ SpuriousWakeup(w) \/ WaitThrows(w) \/ Leave(w)
        PROVE  TaskInv'
    <3>1. UNCHANGED <<tasks, task, answer, runs>>
      BY <2>2 DEF CheckRunning, Park, SpuriousWakeup, WaitThrows, Leave, pool
    <3>2. \A v \in Worker : pc'[v] \in {"run", "finish"} => pc'[v] = pc[v]
      BY <2>2 DEF CheckRunning, Park, SpuriousWakeup, WaitThrows, Leave, Goto, TypeOK
    <3> QED BY <3>1, <3>2, OthersKeepTaskInv
  <2>3. ASSUME NEW w \in Worker, Take(w) PROVE TaskInv'
    BY <2>3, TakeKeepsTaskInv
  <2>4. ASSUME NEW w \in Worker, Execute(w) PROVE TaskInv'
    BY <2>4, ExecuteKeepsTaskInv
  <2>5. ASSUME NEW w \in Worker, Finish(w) PROVE TaskInv'
    BY <2>5, FinishKeepsTaskInv
  <2>6. CASE Stop
    <3>1. UNCHANGED <<tasks, task, answer, runs>>
      BY <2>6 DEF Stop
    <3>2. \A v \in Worker : pc'[v] \in {"run", "finish"} => pc'[v] = pc[v]
      BY <2>6 DEF Stop, NotifyAll
    <3> QED BY <3>1, <3>2, OthersKeepTaskInv
  <2>7. CASE Join \/ Destroyed \/ UNCHANGED vars
    BY <2>7, OthersKeepTaskInv DEF Join, Destroyed, vars, pool
  <2> QED BY <2>1, <2>2, <2>3, <2>4, <2>5, <2>6, <2>7 DEF Next, pool_main
<1> QED BY <1>1, <1>2, PoolTypeCorrect, PTL DEF Spec
-----------------------------------------------------------------------------
\* When is_idle() is true nothing is queued and, the books being balanced,
\* nobody is busy: what was accepted can only have been executed.
THEOREM IdleIsDrained == Spec => []IdleMeansDrained
<1>1. TypeOK /\ Accounting /\ WakeupInv /\ TaskInv => IdleMeansDrained
  <2> SUFFICES ASSUME TypeOK, Accounting, WakeupInv, TaskInv, running, is_idle,
                      NEW t \in Task, answer[t] = "true"
               PROVE  runs[t] = 1
    BY DEF IdleMeansDrained
  <2>1. Cardinality(At({"left"})) = 0
    <3>1. At({"left"}) = {}
      BY DEF WakeupInv, NoneGone, At
    <3> QED BY <3>1, FS_EmptySet
  <2>2. IsFiniteSet(Busy) /\ Cardinality(Busy) \in Nat
    <3>1. Busy \subseteq Worker
      BY DEF Busy, At
    <3> QED BY <3>1, FS_Subset, FS_CardinalityType, PoolAssumption
  <2>3. _pool_size \in Nat /\ Len(tasks) = 0
    BY FS_CardinalityType, PoolAssumption DEF _pool_size, is_idle
  <2>4. Cardinality(Busy) = 0
    BY <2>1, <2>2, <2>3 DEF Accounting, is_idle
  <2>5. Busy = {}
    BY <2>2, <2>4, FS_EmptySet
  <2>6. ~Held(t) /\ ~Queued(t)
    BY <2>3, <2>5, PoolAssumption DEF Held, Queued, TypeOK
  <2> QED BY <2>6 DEF TaskInv, AcceptedIsSomewhere
<1> QED BY <1>1, PoolTypeCorrect, AccountingCorrect, WakeupInvAlways, TaskInvAlways, PTL
-----------------------------------------------------------------------------
\* The status of a task in the terms of its place.
StatusIsPlace ==
  \A t \in Task : /\ StatusOf(t) = "new" <=> answer[t] = "none"
                  /\ StatusOf(t) = "refused" <=> answer[t] = "false"
                  /\ StatusOf(t) = "queued" <=> Queued(t)
                  /\ StatusOf(t) = "running" <=> Held(t)
                  /\ StatusOf(t) \in Abstract!Status

LEMMA StatusIsPlaceNow == TypeOK /\ TaskInv => StatusIsPlace
<1> SUFFICES ASSUME TypeOK, TaskInv, NEW t \in Task
             PROVE  /\ StatusOf(t) = "new" <=> answer[t] = "none"
                    /\ StatusOf(t) = "refused" <=> answer[t] = "false"
                    /\ StatusOf(t) = "queued" <=> Queued(t)
                    /\ StatusOf(t) = "running" <=> Held(t)
                    /\ StatusOf(t) \in Abstract!Status
  BY DEF StatusIsPlace
<1>1. DOMAIN tasks = 1..Len(tasks)
  BY DEF TypeOK
<1>2. /\ answer[t] \in {"none", "true", "false"}
      /\ answer[t] = "true" <=> Queued(t) \/ Held(t) \/ runs[t] = 1
  BY DEF TypeOK, TaskInv, AcceptedIsSomewhere
<1>3. ~(Queued(t) /\ Held(t))
  BY DEF TaskInv, OnePlace, Queued, Held
<1>4. StatusOf(t) = IF answer[t] = "none" THEN "new"
                    ELSE IF answer[t] = "false" THEN "refused"
                    ELSE IF Queued(t) THEN "queued"
                    ELSE IF Held(t) THEN "running"
                    ELSE IF runs[t] = 1 THEN "finished" ELSE "lost"
  <2>1. CASE answer[t] = "none"
    BY <1>1, <1>2, <2>1 DEF StatusOf, Queued, Held
  <2>2. CASE answer[t] = "false"
    BY <1>1, <1>2, <2>2 DEF StatusOf, Queued, Held
  <2>3. CASE answer[t] = "true"
    BY <1>1, <1>3, <2>3 DEF StatusOf, Queued, Held
  <2> QED BY <1>2, <2>1, <2>2, <2>3
<1> QED BY <1>2, <1>3, <1>4 DEF Abstract!Status

LEMMA StatusIsPlaceNext == TypeOK' /\ TaskInv' => StatusIsPlace'
BY StatusIsPlaceNow, PTL

\* The executor counts as the pool does.
LEMMA SameCardinality == \A S : Abstract!Cardinality(S) = Cardinality(S)
BY DEF Abstract!Cardinality, Cardinality

\* As many tasks are unfinished as are in the queue and with busy workers.
LEMMA UnfinishedCount ==
  ASSUME TypeOK, TaskInv
  PROVE  Cardinality({t \in Task : Queued(t) \/ Held(t)}) = Len(tasks) + Cardinality(Busy)
<1> DEFINE Q == {t \in Task : Queued(t)}
           H == {t \in Task : Held(t)}
           f == [w \in Busy |-> task[w]]
<1>1. Len(tasks) \in Nat /\ tasks \in [1..Len(tasks) -> Q]
  BY DEF TypeOK, Queued
<1>2. tasks \in Bijection(1..Len(tasks), Q)
  <2>1. \A i, j \in 1..Len(tasks) : tasks[i] = tasks[j] => i = j
    BY DEF TaskInv, OnePlace
  <2>2. \A t \in Q : \E i \in 1..Len(tasks) : tasks[i] = t
    BY DEF Queued
  <2> QED BY <1>1, <2>1, <2>2, Fun_IsBij
<1>3. Cardinality(Q) = Len(tasks) /\ IsFiniteSet(Q)
  <2>1. ExistsBijection(1..Len(tasks), Q)
    BY <1>2, Fun_ExistsBij
  <2> QED BY <1>1, <2>1, FS_CountingElements, FS_NatBijection
<1>4. IsFiniteSet(Busy)
  <2>1. Busy \subseteq Worker
    BY DEF Busy, At
  <2> QED BY <2>1, FS_Subset, PoolAssumption
<1>5. f \in Bijection(Busy, H)
  <2>1. f \in [Busy -> H]
    BY PoolAssumption DEF TypeOK, Busy, At, Held
  <2>2. \A w, v \in Busy : f[w] = f[v] => w = v
    BY DEF TypeOK, TaskInv, OnePlace, Busy, At
  <2>3. \A t \in H : \E w \in Busy : f[w] = t
    BY PoolAssumption DEF TypeOK, Held
  <2> QED BY <2>1, <2>2, <2>3, Fun_IsBij
<1>6. IsFiniteSet(H) /\ Cardinality(H) = Cardinality(Busy)
  <2>1. ExistsBijection(Busy, H)
    BY <1>5, Fun_ExistsBij
  <2> QED BY <1>4, <2>1, FS_Bijection
<1>7. Q \intersect H = {} /\ Cardinality({}) = 0
  BY FS_EmptySet DEF TaskInv, OnePlace, Queued, Held
<1>8. {t \in Task : Queued(t) \/ Held(t)} = Q \union H
  OBVIOUS
<1>9. Cardinality(Busy) \in Nat
  BY <1>4, FS_CardinalityType
<1>10. Cardinality(Q \union H) = Cardinality(Q) + Cardinality(H) - Cardinality(Q \intersect H)
  BY <1>3, <1>6, FS_Union
<1>11. Cardinality({t \in Task : Queued(t) \/ Held(t)}) = Len(tasks) + Cardinality(Busy) - 0
  BY <1>3, <1>6, <1>7, <1>8, <1>10, Zenon
<1> QED BY <1>1, <1>9, <1>11

\* What the executor sees of the pool.
absStatus == [t \in Task |-> StatusOf(t)]

LEMMA SameStatus ==
  ASSUME StatusIsPlace, StatusIsPlace', NEW t \in Task,
         answer'[t] = answer[t], Queued(t)' <=> Queued(t), Held(t)' <=> Held(t)
  PROVE  StatusOf(t)' = StatusOf(t)
BY DEF StatusIsPlace, Abstract!Status

LEMMA OneStatusChanges ==
  ASSUME NEW t \in Task, NEW s, StatusOf(t)' = s,
         \A u \in Task : u # t => StatusOf(u)' = StatusOf(u)
  PROVE  absStatus' = [absStatus EXCEPT ![t] = s]
BY DEF absStatus

\* A step that moves no task is none of the executor's.
LEMMA StutterIfNoTaskMoves ==
  ASSUME StatusIsPlace, StatusIsPlace', UNCHANGED <<tasks, task, answer, phase>>
  PROVE  UNCHANGED Abstract!vars
<1>1. \A t \in Task : StatusOf(t)' = StatusOf(t)
  <2> SUFFICES ASSUME NEW t \in Task PROVE StatusOf(t)' = StatusOf(t)
    OBVIOUS
  <2>1. (Queued(t)' <=> Queued(t)) /\ (Held(t)' <=> Held(t)) /\ answer'[t] = answer[t]
    BY DEF Queued, Held
  <2> QED BY <2>1, SameStatus
<1>2. AbstractPhase' = AbstractPhase
  BY DEF AbstractPhase
<1> QED BY <1>1, <1>2 DEF Abstract!vars

\* Whoever may call run_task may call the executor.
LEMMA CallerOfExecutor ==
  ASSUME TypeOK, StatusIsPlace, CanCall
  PROVE  Abstract!CanCall
<1>1. CASE phase = "alive"
  BY <1>1 DEF AbstractPhase, Abstract!CanCall
<1>2. CASE At({"run"}) # {}
  <2>1. PICK w \in Worker : pc[w] = "run"
    BY <1>2 DEF At
  <2>2. task[w] \in Task /\ Held(task[w])
    BY <2>1 DEF TypeOK, Busy, At, Held
  <2>3. StatusOf(task[w]) = "running"
    BY <2>2 DEF StatusIsPlace
  <2> QED BY <2>2, <2>3 DEF Abstract!CanCall
<1> QED BY <1>1, <1>2 DEF CanCall

\* While the pool runs, the executor is as full as _available says.
LEMMA UnfinishedAndAvailable ==
  ASSUME TypeOK, Accounting, WakeupInv, TaskInv, StatusIsPlace, AbstractPhase = "open"
  PROVE  /\ Cardinality(Abstract!Unfinished) \in Nat
         /\ available + Cardinality(Abstract!Unfinished) = _pool_size
<1>1. running
  BY DEF AbstractPhase, TypeOK
<1>2. Cardinality(At({"left"})) = 0
  <2>1. At({"left"}) = {}
    BY <1>1 DEF WakeupInv, NoneGone, At
  <2> QED BY <2>1, FS_EmptySet
<1>3. Abstract!Unfinished = {t \in Task : Queued(t) \/ Held(t)}
  BY DEF Abstract!Unfinished, StatusIsPlace
<1>4. Cardinality(Abstract!Unfinished) = Len(tasks) + Cardinality(Busy)
  BY <1>3, UnfinishedCount
<1>5. Len(tasks) \in Nat /\ Cardinality(Busy) \in Nat /\ available \in Nat /\ _pool_size \in Nat
  <2>1. Busy \subseteq Worker
    BY DEF Busy, At
  <2>2. IsFiniteSet(Busy)
    BY <2>1, FS_Subset, PoolAssumption
  <2> QED BY <2>2, FS_CardinalityType, PoolAssumption DEF TypeOK, _pool_size
<1> QED BY <1>2, <1>4, <1>5 DEF Accounting

LEMMA RefuseImplements ==
  ASSUME TypeOK, Accounting, WakeupInv, TaskInv, StatusIsPlace, StatusIsPlace',
         NEW t \in Task, run_task(t), Refuse(t)
  PROVE  Abstract!Refuse(t)
<1>1. /\ CanCall /\ answer[t] \in {"none", "false"} /\ available = 0
      /\ tasks' = tasks /\ task' = task /\ phase' = phase
      /\ answer' = [answer EXCEPT ![t] = "false"]
      /\ answer \in [Task -> {"none", "true", "false"}]
  BY DEF run_task, Refuse, pool, TypeOK
<1>2. Abstract!CanCall
  BY <1>1, CallerOfExecutor
<1>3. Abstract!Offered(t)
  BY <1>1 DEF Abstract!Offered, StatusIsPlace
<1>4. AbstractPhase = "open" => Cardinality(Abstract!Unfinished) = _pool_size
  BY <1>1, UnfinishedAndAvailable
<1>5. StatusOf(t)' = "refused"
  BY <1>1 DEF StatusIsPlace
<1>6. \A u \in Task : u # t => StatusOf(u)' = StatusOf(u)
  <2> SUFFICES ASSUME NEW u \in Task, u # t PROVE StatusOf(u)' = StatusOf(u)
    OBVIOUS
  <2>1. (Queued(u)' <=> Queued(u)) /\ (Held(u)' <=> Held(u)) /\ answer'[u] = answer[u]
    BY <1>1 DEF Queued, Held
  <2> QED BY <2>1, SameStatus
<1>7. absStatus' = [absStatus EXCEPT ![t] = "refused"]
  BY <1>5, <1>6, OneStatusChanges
<1>8. AbstractPhase' = AbstractPhase
  BY <1>1 DEF AbstractPhase
<1> QED BY <1>1, <1>2, <1>3, <1>4, <1>7, <1>8, SameCardinality DEF Abstract!Refuse, absStatus

LEMMA AcceptImplements ==
  ASSUME TypeOK, Accounting, WakeupInv, TaskInv, StatusIsPlace, StatusIsPlace',
         NEW t \in Task, run_task(t), Accept(t)
  PROVE  Abstract!Accept(t)
<1>1. /\ CanCall /\ answer[t] \in {"none", "false"} /\ available # 0 /\ available \in Nat
      /\ tasks' = Append(tasks, t) /\ task' = task /\ phase' = phase
      /\ answer' = [answer EXCEPT ![t] = "true"]
      /\ answer \in [Task -> {"none", "true", "false"}]
  BY DEF run_task, Accept, TypeOK
<1>2. Abstract!CanCall
  BY <1>1, CallerOfExecutor
<1>3. Abstract!Offered(t)
  BY <1>1 DEF Abstract!Offered, StatusIsPlace
<1>4. AbstractPhase = "open" => Cardinality(Abstract!Unfinished) < _pool_size
  BY <1>1, UnfinishedAndAvailable
<1>5. /\ Len(tasks) \in Nat /\ Len(tasks') = Len(tasks) + 1 /\ tasks'[Len(tasks) + 1] = t
      /\ \A i \in 1..Len(tasks) : tasks'[i] = tasks[i]
  BY <1>1 DEF TypeOK
<1>6. Queued(t)' /\ \A u \in Task : u # t => (Queued(u)' <=> Queued(u))
  BY <1>5 DEF Queued
<1>7. StatusOf(t)' = "queued"
  BY <1>6 DEF StatusIsPlace
<1>8. \A u \in Task : u # t => StatusOf(u)' = StatusOf(u)
  <2> SUFFICES ASSUME NEW u \in Task, u # t PROVE StatusOf(u)' = StatusOf(u)
    OBVIOUS
  <2>1. (Held(u)' <=> Held(u)) /\ answer'[u] = answer[u]
    BY <1>1 DEF Held
  <2> QED BY <1>6, <2>1, SameStatus
<1>9. absStatus' = [absStatus EXCEPT ![t] = "queued"]
  BY <1>7, <1>8, OneStatusChanges
<1>10. AbstractPhase' = AbstractPhase
  BY <1>1 DEF AbstractPhase
<1> QED BY <1>1, <1>2, <1>3, <1>4, <1>9, <1>10, SameCardinality DEF Abstract!Accept, absStatus

LEMMA TakeImplements ==
  ASSUME TypeOK, TaskInv, StatusIsPlace, StatusIsPlace', NEW w \in Worker, Take(w)
  PROVE  Abstract!Start
<1>1. /\ running /\ tasks # <<>> /\ tasks \in Seq(Task)
      /\ pc[w] = "enter" /\ tasks' = Tail(tasks) /\ task' = [task EXCEPT ![w] = Head(tasks)]
      /\ phase' = phase /\ answer' = answer
      /\ task \in [Worker -> Task \union {NoTask}]
  BY DEF Take, Goto, TypeOK
<1>2. task[w] = NoTask /\ NoTask \notin Task
  BY <1>1, PoolAssumption DEF TypeOK, Busy, At
<1>3. PICK t \in Task : t = Head(tasks)
  BY <1>1
<1>4. /\ Len(tasks) \in Nat \ {0} /\ t = tasks[1]
      /\ Len(tasks') = Len(tasks) - 1
      /\ \A i \in 1..Len(tasks') : i + 1 \in 1..Len(tasks) /\ tasks'[i] = tasks[i + 1]
      /\ \A i \in 1..Len(tasks) : i # 1 => i - 1 \in 1..Len(tasks') /\ tasks'[i - 1] = tasks[i]
  <2>1. Len(tasks) \in Nat \ {0} /\ t = tasks[1] /\ Len(tasks') = Len(tasks) - 1
    BY <1>1, <1>3
  <2>2. \A i \in 1..Len(tasks') : i + 1 \in 1..Len(tasks) /\ tasks'[i] = tasks[i + 1]
    BY <1>1, <2>1
  <2>3. ASSUME NEW i \in 1..Len(tasks), i # 1
        PROVE  i - 1 \in 1..Len(tasks') /\ tasks'[i - 1] = tasks[i]
    <3>1. i - 1 \in 1..Len(tasks') /\ (i - 1) + 1 = i
      BY <2>1, <2>3
    <3> QED BY <2>2, <3>1
  <2> QED BY <2>1, <2>2, <2>3
<1>5. StatusOf(t)' = "running"
  <2>1. Held(t)'
    BY <1>1, <1>3 DEF Held
  <2> QED BY <2>1 DEF StatusIsPlace
<1>6. \A u \in Task : u # t => StatusOf(u)' = StatusOf(u)
  <2> SUFFICES ASSUME NEW u \in Task, u # t PROVE StatusOf(u)' = StatusOf(u)
    OBVIOUS
  <2>1. Queued(u)' <=> Queued(u)
    BY <1>4 DEF Queued
  <2>2. Held(u)' <=> Held(u)
    BY <1>1, <1>2, <1>3 DEF Held
  <2> QED BY <1>1, <2>1, <2>2, SameStatus
<1>7. absStatus' = [absStatus EXCEPT ![t] = "running"]
  BY <1>5, <1>6, OneStatusChanges
<1>8. AbstractPhase = "open" /\ AbstractPhase' = AbstractPhase
  BY <1>1 DEF AbstractPhase, TypeOK
<1> QED BY <1>1, <1>3, <1>7, <1>8 DEF Abstract!Start, absStatus

LEMMA FinishImplements ==
  ASSUME TypeOK, TaskInv, TaskInv', StatusIsPlace, StatusIsPlace',
         NEW w \in Worker, Finish(w)
  PROVE  \E t \in Task : Abstract!Finish(t)
<1>1. /\ pc[w] = "finish" /\ task' = [task EXCEPT ![w] = NoTask]
      /\ tasks' = tasks /\ phase' = phase /\ answer' = answer /\ runs' = runs
      /\ task \in [Worker -> Task \union {NoTask}]
  BY DEF Finish, Goto, TypeOK
<1>2. PICK t \in Task : t = task[w]
  BY <1>1 DEF TypeOK, Busy, At
<1>3. Held(t) /\ ~Held(t)' /\ ~Queued(t)' /\ answer'[t] = "true" /\ runs'[t] = 1
  <2>1. Held(t) /\ runs[t] = 1
    BY <1>1, <1>2 DEF Held, TaskInv, RunsOnce
  <2>2. ~Queued(t)
    BY <1>2 DEF TaskInv, OnePlace, Queued
  <2>3. ~Held(t)'
    BY <1>1, <1>2, PoolAssumption DEF TaskInv, OnePlace, Held
  <2>4. answer[t] = "true"
    BY <2>1 DEF TaskInv, AcceptedIsSomewhere
  <2> QED BY <1>1, <2>1, <2>2, <2>3, <2>4 DEF Queued
<1>4. StatusOf(t) = "running"
  BY <1>3 DEF StatusIsPlace
<1>5. StatusOf(t)' = "finished"
  BY <1>3 DEF StatusIsPlace, Abstract!Status
<1>6. \A u \in Task : u # t => StatusOf(u)' = StatusOf(u)
  <2> SUFFICES ASSUME NEW u \in Task, u # t PROVE StatusOf(u)' = StatusOf(u)
    OBVIOUS
  <2>1. Queued(u)' <=> Queued(u)
    BY <1>1 DEF Queued
  <2>2. Held(u)' <=> Held(u)
    BY <1>1, <1>2, PoolAssumption DEF Held
  <2> QED BY <1>1, <2>1, <2>2, SameStatus
<1>7. absStatus' = [absStatus EXCEPT ![t] = "finished"]
  BY <1>5, <1>6, OneStatusChanges
<1>8. AbstractPhase' = AbstractPhase
  BY <1>1 DEF AbstractPhase
<1>9. Abstract!Finish(t)
  BY <1>1, <1>4, <1>7, <1>8 DEF Abstract!Finish, absStatus
<1> QED BY <1>9

LEMMA StopImplements ==
  ASSUME StatusIsPlace, StatusIsPlace', Stop
  PROVE  Abstract!Close
<1>1. phase = "alive" /\ phase' = "joining" /\ UNCHANGED <<tasks, task, answer>>
  BY DEF Stop
<1>2. \A t \in Task : StatusOf(t)' = StatusOf(t)
  <2> SUFFICES ASSUME NEW t \in Task PROVE StatusOf(t)' = StatusOf(t)
    OBVIOUS
  <2>1. (Queued(t)' <=> Queued(t)) /\ (Held(t)' <=> Held(t)) /\ answer'[t] = answer[t]
    BY <1>1 DEF Queued, Held
  <2> QED BY <2>1, SameStatus
<1>3. AbstractPhase = "open" /\ AbstractPhase' = "closing"
  BY <1>1 DEF AbstractPhase
<1> QED BY <1>1, <1>2, <1>3 DEF Abstract!Close

LEMMA JoinImplements ==
  ASSUME TypeOK, StatusIsPlace, StatusIsPlace', Join
  PROVE  Abstract!Closed
<1>1. /\ phase = "joining" /\ phase' = "destroyed" /\ UNCHANGED <<tasks, task, answer>>
      /\ At({"left", "quit"}) = Worker
  BY DEF Join, pool
<1>2. \A t \in Task : StatusOf(t)' = StatusOf(t)
  <2> SUFFICES ASSUME NEW t \in Task PROVE StatusOf(t)' = StatusOf(t)
    OBVIOUS
  <2>1. (Queued(t)' <=> Queued(t)) /\ (Held(t)' <=> Held(t)) /\ answer'[t] = answer[t]
    BY <1>1 DEF Queued, Held
  <2> QED BY <2>1, SameStatus
<1>3. \A t \in Task : StatusOf(t) # "running"
  <2>1. \A w \in Worker : task[w] = NoTask
    BY <1>1 DEF TypeOK, Busy, At
  <2>2. \A t \in Task : ~Held(t)
    BY <2>1, PoolAssumption DEF Held
  <2> QED BY <2>2 DEF StatusIsPlace
<1>4. AbstractPhase = "closing" /\ AbstractPhase' = "closed"
  BY <1>1 DEF AbstractPhase
<1> QED BY <1>1, <1>2, <1>3, <1>4 DEF Abstract!Closed

\* The pool implements the executor, for every number of workers and of tasks:
\* in order, each task once, refusals only when full, nothing started once the
\* destructor has begun and nothing running when it ends.
THEOREM PoolIsExecutor == Spec => ImplementsExecutor
<1> DEFINE Known == TypeOK /\ Accounting /\ WakeupInv /\ TaskInv
<1>1. Init => Abstract!Init
  <2> SUFFICES ASSUME Init PROVE Abstract!Init
    OBVIOUS
  <2>1. tasks = <<>> /\ AbstractPhase = "open"
    BY DEF Init, AbstractPhase
  <2>2. \A t \in Task : StatusOf(t) = "new"
    BY PoolAssumption DEF Init, StatusOf
  <2> QED BY <2>1, <2>2 DEF Abstract!Init
<1>2. Known /\ Known' /\ [Next]_vars => [Abstract!Next]_(Abstract!vars)
  <2> SUFFICES ASSUME Known, Known', [Next]_vars PROVE [Abstract!Next]_(Abstract!vars)
    OBVIOUS
  <2>1. StatusIsPlace /\ StatusIsPlace'
    BY StatusIsPlaceNow, StatusIsPlaceNext
  <2>2. ASSUME NEW t \in Task, run_task(t) PROVE Abstract!Next
    <3>1. CASE Refuse(t)
      BY <2>1, <2>2, <3>1, RefuseImplements DEF Abstract!Next
    <3>2. CASE Accept(t)
      BY <2>1, <2>2, <3>2, AcceptImplements DEF Abstract!Next
    <3> QED BY <2>2, <3>1, <3>2 DEF run_task
  <2>3. ASSUME NEW w \in Worker,
               \/ CheckRunning(w) \/ Park(w) \/ SpuriousWakeup(w) \/ WaitThrows(w)
               \/ Leave(w) \/ Execute(w)
        PROVE  UNCHANGED Abstract!vars
    <3>1. UNCHANGED <<tasks, task, answer, phase>>
      BY <2>3 DEF CheckRunning, Park, SpuriousWakeup, WaitThrows, Leave, Execute, pool
    <3> QED BY <2>1, <3>1, StutterIfNoTaskMoves
  <2>4. ASSUME NEW w \in Worker, Take(w) PROVE Abstract!Next
    BY <2>1, <2>4, TakeImplements DEF Abstract!Next
  <2>5. ASSUME NEW w \in Worker, Finish(w) PROVE Abstract!Next
    BY <2>1, <2>5, FinishImplements DEF Abstract!Next
  <2>6. CASE Stop
    BY <2>1, <2>6, StopImplements DEF Abstract!Next
  <2>7. CASE Join
    BY <2>1, <2>7, JoinImplements DEF Abstract!Next
  <2>8. CASE Destroyed \/ UNCHANGED vars
    <3>1. UNCHANGED <<tasks, task, answer, phase>>
      BY <2>8 DEF Destroyed, vars
    <3> QED BY <2>1, <3>1, StutterIfNoTaskMoves
  <2> QED BY <2>2, <2>3, <2>4, <2>5, <2>6, <2>7, <2>8 DEF Next, pool_main
<1> QED
  BY <1>1, <1>2, PoolTypeCorrect, AccountingCorrect, WakeupInvAlways, TaskInvAlways, PTL
  DEF Spec, ImplementsExecutor, Abstract!Spec
=============================================================================
