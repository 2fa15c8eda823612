------------------------------ MODULE Executor ------------------------------
(***************************************************************************)
(* What thread_pool promises its callers, with no threads, no lock and no  *)
(* condition variable.  While the executor is open it holds at most Size   *)
(* unfinished tasks, refuses a task only when it holds exactly that many,  *)
(* starts tasks in the order it accepted them and runs each one once.      *)
(* Once it is closing nothing is started any more; it is closed only when  *)
(* no task is running.  Tasks still queued then are never run.             *)
(***************************************************************************)
EXTENDS Naturals, Sequences, FiniteSets

CONSTANTS Task,   \* the callables handed to run_task
          Size    \* the most unfinished tasks an open executor holds

VARIABLES status, \* what became of each task
          queue,  \* the accepted tasks not yet started, oldest first
          phase   \* "open", "closing" or "closed"

vars == <<status, queue, phase>>

Status == {"new", "refused", "queued", "running", "finished"}

\* A task can be offered again after a refusal.
Offered(t) == status[t] \in {"new", "refused"}

Unfinished == {t \in Task : status[t] \in {"queued", "running"}}

\* Callers outside the executor stop calling it when it is being closed;
\* running tasks may still call it.
CanCall == phase = "open" \/ \E t \in Task : status[t] = "running"

Init == /\ status = [t \in Task |-> "new"]
        /\ queue = <<>>
        /\ phase = "open"

Accept(t) == /\ CanCall
             /\ Offered(t)
             /\ phase = "open" => Cardinality(Unfinished) < Size
             /\ status' = [status EXCEPT ![t] = "queued"]
             /\ queue' = Append(queue, t)
             /\ UNCHANGED phase

Refuse(t) == /\ CanCall
             /\ Offered(t)
             /\ phase = "open" => Cardinality(Unfinished) = Size
             /\ status' = [status EXCEPT ![t] = "refused"]
             /\ UNCHANGED <<queue, phase>>

Start == /\ phase = "open"
         /\ queue # <<>>
         /\ status' = [status EXCEPT ![Head(queue)] = "running"]
         /\ queue' = Tail(queue)
         /\ UNCHANGED phase

Finish(t) == /\ status[t] = "running"
             /\ status' = [status EXCEPT ![t] = "finished"]
             /\ UNCHANGED <<queue, phase>>

Close == /\ phase = "open"
         /\ phase' = "closing"
         /\ UNCHANGED <<status, queue>>

Closed == /\ phase = "closing"
          /\ \A t \in Task : status[t] # "running"
          /\ phase' = "closed"
          /\ UNCHANGED <<status, queue>>

Next == \/ \E t \in Task : Accept(t) \/ Refuse(t) \/ Finish(t)
        \/ Start
        \/ Close
        \/ Closed

Spec == Init /\ [][Next]_vars
=============================================================================
