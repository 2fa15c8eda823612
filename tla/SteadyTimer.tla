---------------------------- MODULE SteadyTimer -----------------------------
(***************************************************************************)
(* SteadyTimer (src/steady_timer.h): start() arms a boost::asio timer and  *)
(* runs the io_service on a background task; every tick calls the user's   *)
(* callback and re-arms the timer; stop() cancels it and waits for the     *)
(* task.  The owner and the task share the fields without any lock.        *)
(*                                                                         *)
(* Modelled: the order in which both threads touch _running, _callback and *)
(* the timer.  Abstracted: the interval and the tag (a wait may expire at  *)
(* any moment), so _interval and _tag are not variables.                   *)
(*                                                                         *)
(* The timer and the io_service are boost's, modelled from how they are    *)
(* used here: cancel and expires_from_now turn a wait that has not expired *)
(* into a handler call with operation_aborted, a wait that has expired is  *)
(* not affected, and run() returns once there is no wait and no handler.   *)
(***************************************************************************)
EXTENDS Naturals, Sequences

VARIABLES _running,
          callback,  \* _callback: "set" or "empty"
          armed,     \* waits of _timer that have not expired
          ready,     \* expired, failed or aborted waits whose handler is due
          io,        \* the background task
          owner,     \* the thread that owns the timer object
          early,     \* since start(): a handler tested _running before it was set
          declined   \* since start(): a callback returned false

timer == <<armed, ready>>
fields == <<_running, callback>>
notes == <<early, declined>>
timerVars == <<fields, timer, io, owner, notes>>

\* "none"    no task since the object was built
\* "run"     in io_service.run(), between two handlers
\* "invoke"  in internal_callback with error 0, before _callback(_tag)
\* "user"    in the user's callback
\* "again"   the callback returned true, before testing _running
\* "rearm"   _running was true, before expires_from_now and async_wait
\* "done"    run() has returned;  "faulted"  run() has thrown
IO == {"none", "run", "invoke", "user", "again", "rearm", "done", "faulted"}

\* "create", "flag": inside start();  "callback", "unset", "wait": inside
\* stop();  the same prefixed by "~": inside stop() called by the destructor.
Owner == {"idle", "create", "flag", "callback", "unset", "wait",
          "~callback", "~unset", "~wait", "destroyed", "terminated"}

Becomes(from, to) == owner = from /\ owner' = to

TimerInit == /\ _running = FALSE
             /\ callback = "empty"
             /\ armed = 0
             /\ ready = <<>>
             /\ io = "none"
             /\ owner = "idle"
             /\ early = FALSE
             /\ declined = FALSE
-----------------------------------------------------------------------------
(* boost::asio *)

Aborted(n) == [i \in 1..n |-> "aborted"]

\* timer.expires_from_now(..) followed by timer.async_wait(..)
Arm == /\ armed' = 1
       /\ ready' = ready \o Aborted(armed)

\* timer.cancel()
Cancel == /\ armed' = 0
          /\ ready' = ready \o Aborted(armed)

\* Time passes and a wait expires, or it ends with another error.
WaitEnds == /\ armed > 0
            /\ armed' = armed - 1
            /\ \E error \in {"ok", "error"} : ready' = Append(ready, error)
            /\ UNCHANGED <<fields, io, owner, notes>>
-----------------------------------------------------------------------------
(* start(), from the owner *)

\* "called twice": start() returns false.
StartRefused == /\ owner = "idle"
                /\ _running
                /\ UNCHANGED timerVars

\* Mutant: a running timer is started again.
StartArmsAgain == /\ Becomes("idle", "create")
                  /\ callback' = "set"
                  /\ Arm
                  /\ early' = FALSE /\ declined' = FALSE
                  /\ UNCHANGED <<_running, io>>

\* The fields are assigned and the timer is armed; no task exists yet.
StartArms == /\ Becomes("idle", "create")
             /\ ~_running
             /\ callback' = "set"
             /\ Arm
             /\ early' = FALSE /\ declined' = FALSE
             /\ UNCHANGED <<_running, io>>

\* Concurrency::create_task: _io_service.reset(); _io_service.run();
StartCreatesTask == /\ Becomes("create", "flag")
                    /\ io' = "run"
                    /\ UNCHANGED <<fields, timer, notes>>

StartSetsRunning == /\ Becomes("flag", "idle")
                    /\ _running' = TRUE
                    /\ UNCHANGED <<callback, timer, io, notes>>
-----------------------------------------------------------------------------
(* stop(), from the owner or from the destructor *)

StopReturnsAtOnce == /\ owner = "idle"
                     /\ ~_running
                     /\ UNCHANGED timerVars

StopCancels == /\ Becomes("idle", "callback") \/ Becomes("idle", "~callback")
               /\ _running
               /\ Cancel
               /\ UNCHANGED <<fields, io, notes>>

StopEmptiesCallback ==
  /\ Becomes("callback", "unset") \/ Becomes("~callback", "~unset")
  /\ callback' = "empty"
  /\ UNCHANGED <<_running, timer, io, notes>>

StopUnsetsRunning == /\ Becomes("unset", "wait") \/ Becomes("~unset", "~wait")
                     /\ _running' = FALSE
                     /\ UNCHANGED <<callback, timer, io, notes>>

\* Mutant: stop() does not wait for the background task.
StopReturnsUnjoined ==
  /\ Becomes("wait", "idle") \/ Becomes("~wait", "destroyed")
  /\ UNCHANGED <<fields, timer, io, notes>>

\* _timer_task.wait() returns, or rethrows what the task has thrown: to the
\* caller of stop(), but out of a destructor that ends the process.
StopReturns == /\ \/ io = "done"    /\ Becomes("wait", "idle")
                  \/ io = "done"    /\ Becomes("~wait", "destroyed")
                  \/ io = "faulted" /\ Becomes("wait", "idle")
                  \/ io = "faulted" /\ Becomes("~wait", "terminated")
               /\ UNCHANGED <<fields, timer, io, notes>>

\* ~SteadyTimer() when stop() has nothing to do.
DestroyStopped == /\ Becomes("idle", "destroyed")
                  /\ ~_running
                  /\ UNCHANGED <<fields, timer, io, notes>>
-----------------------------------------------------------------------------
(* io_service.run() on the background task *)

\* The next handler is internal_callback with the error of its wait.
HandlerTicks == /\ io = "run"
                /\ ready # <<>> /\ Head(ready) = "ok"
                /\ io' = "invoke"
                /\ ready' = Tail(ready)
                /\ UNCHANGED <<fields, armed, owner, notes>>

HandlerAborted == /\ io = "run"
                  /\ ready # <<>> /\ Head(ready) = "aborted"
                  /\ ready' = Tail(ready)
                  /\ UNCHANGED <<fields, armed, io, owner, notes>>

\* A handler that finds _running unset ends the timer; early notes that it
\* looked before start() came to set it.
TestRunningThenRearm ==
  /\ io' = IF _running THEN "rearm" ELSE "run"
  /\ early' = (early \/ (~_running /\ owner = "flag"))

\* Mutant: after an error the timer is not armed again.
HandlerGivesUp == /\ io = "run"
                  /\ ready # <<>> /\ Head(ready) = "error"
                  /\ ready' = Tail(ready)
                  /\ UNCHANGED <<fields, armed, io, owner, notes>>

\* Any other error: the timer goes on while _running is true.
HandlerFails == /\ io = "run"
                /\ ready # <<>> /\ Head(ready) = "error"
                /\ TestRunningThenRearm
                /\ ready' = Tail(ready)
                /\ UNCHANGED <<fields, armed, owner, declined>>

\* Mutant: a tick without a callback is skipped and the timer goes on.
SkipEmptyCallback == /\ io = "invoke"
                     /\ io' = IF callback = "set" THEN "user" ELSE "rearm"
                     /\ UNCHANGED <<fields, timer, owner, notes>>

\* _callback(_tag): an empty boost::function throws bad_function_call.
InvokeCallback == /\ io = "invoke"
                  /\ io' = IF callback = "set" THEN "user" ELSE "faulted"
                  /\ UNCHANGED <<fields, timer, owner, notes>>

CallbackReturnsTrue == /\ io = "user"
                       /\ io' = "again"
                       /\ UNCHANGED <<fields, timer, owner, notes>>

CallbackReturnsFalse == /\ io = "user"
                        /\ io' = "run"
                        /\ Cancel
                        /\ declined' = TRUE
                        /\ UNCHANGED <<fields, owner, early>>

TestRunning == /\ io = "again"
               /\ TestRunningThenRearm
               /\ UNCHANGED <<fields, timer, owner, declined>>

Rearm == /\ io = "rearm"
         /\ io' = "run"
         /\ Arm
         /\ UNCHANGED <<fields, owner, notes>>

RunReturns == /\ io = "run"
              /\ armed = 0 /\ ready = <<>>
              /\ io' = "done"
              /\ UNCHANGED <<fields, timer, owner, notes>>
-----------------------------------------------------------------------------
\* The object is gone (or the process is): nothing else happens.
Gone == owner \in {"destroyed", "terminated"} /\ UNCHANGED timerVars

StartStep == StartCreatesTask \/ StartSetsRunning
StopStep == StopEmptiesCallback \/ StopUnsetsRunning \/ StopReturns
BackgroundTask ==
  \/ HandlerTicks \/ HandlerAborted \/ HandlerFails \/ InvokeCallback
  \/ CallbackReturnsTrue \/ CallbackReturnsFalse \/ TestRunning
  \/ Rearm \/ RunReturns

TimerNext == \/ StartRefused \/ StartArms \/ StartStep
             \/ StopReturnsAtOnce \/ StopCancels \/ StopStep \/ DestroyStopped
             \/ WaitEnds
             \/ BackgroundTask
             \/ Gone

TimerSpec == TimerInit /\ [][TimerNext]_timerVars

\* Time passes, both threads are scheduled, the user's callback returns and a
\* thread inside start() or stop() carries on.  Nobody has to call them.
TimerFairness == /\ WF_timerVars(WaitEnds) /\ WF_timerVars(BackgroundTask)
                 /\ WF_timerVars(StartStep) /\ WF_timerVars(StopStep)

FairTimerSpec == TimerSpec /\ TimerFairness
-----------------------------------------------------------------------------
InHandler == io \in {"invoke", "user", "again", "rearm"}

\* Waits pending or due, and the handler under way.
Chain == armed + Len(ready) + (IF InHandler THEN 1 ELSE 0)

\* Every variable has its type.
TimerTypeOK == /\ _running \in BOOLEAN
               /\ callback \in {"set", "empty"}
               /\ armed \in {0, 1}
               /\ ready \in {<<>>} \union {<<e>> : e \in {"ok", "error", "aborted"}}
               /\ io \in IO
               /\ owner \in Owner
               /\ early \in BOOLEAN /\ declined \in BOOLEAN

\* Whatever stop(), start(), errors and expired waits do to each other, one
\* timer object never has two ticks under way: the callback is never called
\* twice for one period and never from two handlers.
OneChain == Chain <= 1

\* Once stop() or the destructor has returned, no callback is running and no
\* wait is left that could call one, even when stop() met a tick half-way.
StoppedIsQuiet ==
  (owner = "idle" /\ ~_running) \/ owner = "destroyed"
    => io \in {"none", "done", "faulted"} /\ armed = 0 /\ ready = <<>>

\* A started timer goes on ticking, errors included, unless its callback
\* returned false -- or a handler ran before start() had set _running, the one
\* way in which it dies without anybody having asked for it.
RunningIsAlive == _running /\ owner = "idle" => Chain = 1 \/ declined \/ early

\* stop() and the destructor return or throw: they never wait for a timer that
\* goes on ticking, although a tick under way may still arm it once more.
StopEnds == owner \in {"wait", "~wait"} ~> owner \in {"idle", "destroyed", "terminated"}

\* The assertion of internal_callback: the callback it is about to call has not
\* been emptied.
CallbackIsSet == io = "invoke" => callback = "set"
=============================================================================
