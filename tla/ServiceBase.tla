---------------------------- MODULE ServiceBase -----------------------------
(***************************************************************************)
(* CServiceBase (src/ServiceBase.cpp): the process of a Windows service.   *)
(* ServiceMain runs on a thread of its own, the control handler on the     *)
(* dispatcher's thread, at the same time: every report says which controls *)
(* are accepted, START_PENDING too.  Both threads report to the service    *)
(* control manager (SCM) with SetServiceStatus, which is one step: what    *)
(* the SCM is told last is what m_status was set to last.                  *)
(*                                                                         *)
(* The SCM is Windows', modelled from how the code uses it: it starts the  *)
(* process, passes on one control at a time to a service that accepts      *)
(* controls, and records STOPPED when a process ends without having said   *)
(* so.  Check points, wait hints and exit codes are left out: nothing in   *)
(* the code reads them.                                                    *)
(***************************************************************************)
EXTENDS Naturals

VARIABLES state,    \* m_status.dwCurrentState, as last reported to the SCM
          process,  \* the process of the service is running
          main,     \* the thread of ServiceMain
          handler,  \* the control the dispatcher's thread handles
          doing,    \* what the derived class does: the outcome of its On.. methods
          crossed,  \* history: Start() has reported in the middle of a control
          idle_failure  \* history: the last PAUSE or CONTINUE was for a service that was
                        \* paused or running already, and has failed

history == <<crossed, idle_failure>>
service == <<state, process, main, handler, doing, history>>

State == {"STOPPED", "START_PENDING", "RUNNING", "PAUSE_PENDING", "PAUSED",
          "CONTINUE_PENDING", "STOP_PENDING"}
Main == {"none", "register", "announce", "OnStart", "started", "failed", "done"}
Control == {"stop", "pause", "continue", "shutdown"}

\* orig is dwOriginalState of Stop().
NoControl == [op |-> "none", step |-> "idle", orig |-> "STOPPED"]
Handler == {NoControl} \union
             [op : Control, step : {"read", "announce", "work", "succeeded", "threw"},
              orig : State]

InitService == /\ state = "STOPPED"
               /\ process = FALSE
               /\ main = "none"
               /\ handler = NoControl
               /\ doing = "nothing"
               /\ crossed = FALSE /\ idle_failure = FALSE
-----------------------------------------------------------------------------
(* The SCM *)

\* The process is started for a service that is to run.
Launch == /\ state = "STOPPED" /\ ~process
          /\ state' = "START_PENDING"
          /\ process' = TRUE
          /\ main' = "register"
          /\ UNCHANGED <<handler, doing, history>>

\* The first report tells the SCM which controls are accepted, in every state.
\* PAUSE and CONTINUE it keeps from a service that is still starting.
Accepts(c) == /\ process /\ main \notin {"register", "announce"}
              /\ handler = NoControl
              /\ state \notin {"STOPPED", "STOP_PENDING"}
              /\ c \in {"pause", "continue"} => state # "START_PENDING"

Deliver(c) == /\ Accepts(c)
              /\ handler' = [NoControl EXCEPT !.op = c,
                               !.step = IF c = "stop" THEN "read" ELSE "announce"]
              /\ UNCHANGED <<state, process, main, doing, history>>

\* The process is killed or dies of an exception that nobody catches.
Dies == /\ process
        /\ process' = FALSE
        /\ state' = "STOPPED"
        /\ main' = "none"
        /\ handler' = NoControl
        /\ doing' = "nothing"
        /\ crossed' = FALSE /\ idle_failure' = FALSE

\* StartServiceCtrlDispatcher returns once the service has reported STOPPED,
\* which ends the process, also in the middle of Start().
Exits == /\ state = "STOPPED" /\ handler = NoControl
         /\ Dies
-----------------------------------------------------------------------------
(* ServiceMain and Start; an exception of OnStart is Dies *)

RegisterHandler == /\ main = "register"
                   /\ main' = "announce"
                   /\ UNCHANGED <<state, process, handler, doing, history>>

AnnounceStart == /\ main = "announce"
                 /\ state' = "START_PENDING"
                 /\ main' = "OnStart"
                 /\ UNCHANGED <<process, handler, doing, history>>

OnStart == /\ main = "OnStart"
           /\ \/ main' = "started" /\ doing' = "working"
              \/ main' = "failed" /\ UNCHANGED doing
           /\ UNCHANGED <<state, process, handler, history>>

\* A control is under way, or has ended the service since OnStart() returned.
Crossing == \/ handler # NoControl
            \/ main = "started" /\ doing = "ended"

\* Mutant: a failed start is only logged.
ReportStartSilently ==
  /\ main \in {"started", "failed"}
  /\ state' = IF main = "started" THEN "RUNNING" ELSE state
  /\ main' = "done"
  /\ crossed' = Crossing
  /\ UNCHANGED <<process, handler, doing, idle_failure>>

ReportStart == /\ main \in {"started", "failed"}
               /\ state' = IF main = "started" THEN "RUNNING" ELSE "STOPPED"
               /\ main' = "done"
               /\ crossed' = Crossing
               /\ UNCHANGED <<process, handler, doing, idle_failure>>
-----------------------------------------------------------------------------
(* ServiceCtrlHandler: Stop, Pause, Continue and Shutdown *)

Pending(op) == CASE op = "stop"     -> "STOP_PENDING"
                 [] op = "pause"    -> "PAUSE_PENDING"
                 [] op = "continue" -> "CONTINUE_PENDING"

\* Stop() looks at m_status, which Start() may change before the next step.
ReadOriginalState == /\ handler.step = "read"
                     /\ handler' = [handler EXCEPT !.step = "announce", !.orig = state]
                     /\ UNCHANGED <<state, process, main, doing, history>>

\* Shutdown announces nothing.
Announce == /\ handler.step = "announce"
            /\ state' = IF handler.op = "shutdown" THEN state ELSE Pending(handler.op)
            /\ handler' = [handler EXCEPT !.step = "work"]
            /\ UNCHANGED <<process, main, doing, history>>

\* OnStop(), OnPause(), OnContinue(), OnShutdown(): return or throw.
Work == /\ handler.step = "work"
        /\ \/ /\ handler' = [handler EXCEPT !.step = "succeeded"]
              /\ doing' = CASE handler.op = "pause"    -> "paused"
                            [] handler.op = "continue" -> "working"
                            [] OTHER                   -> "ended"
           \/ /\ handler' = [handler EXCEPT !.step = "threw"]
              /\ UNCHANGED doing
        /\ UNCHANGED <<state, process, main, history>>

Reached(op) == CASE op = "pause"    -> "PAUSED"
                 [] op = "continue" -> "RUNNING"
                 [] OTHER           -> "STOPPED"

\* Mutant: a Stop() that failed reports the service as running.
ForgetOriginalState(h) == CASE h.op \in {"pause", "stop"} -> "RUNNING"
                            [] h.op = "continue"          -> "PAUSED"
                            [] OTHER                      -> state

\* What the catch blocks report.
Restored(h) == CASE h.op = "pause"    -> "RUNNING"
                 [] h.op = "continue" -> "PAUSED"
                 [] h.op = "stop"     -> h.orig
                 [] OTHER             -> state

\* What a PAUSE or CONTINUE that fails is for: the service does that already.
AlreadyThere(op) == \/ op = "pause" /\ doing = "paused"
                    \/ op = "continue" /\ doing = "working"

IdleFailure(h) == IF h.step = "threw" /\ h.op \notin {"pause", "continue"} THEN idle_failure
                  ELSE h.step = "threw" /\ AlreadyThere(h.op)

\* Mutant: the catch blocks log the error and leave the state.
ReportUnrestored ==
  /\ handler.step \in {"succeeded", "threw"}
  /\ state' = IF handler.step = "succeeded" THEN Reached(handler.op) ELSE state
  /\ handler' = NoControl
  /\ idle_failure' = IdleFailure(handler)
  /\ UNCHANGED <<process, main, doing, crossed>>

Report == /\ handler.step \in {"succeeded", "threw"}
          /\ state' = IF handler.step = "succeeded"
                      THEN Reached(handler.op) ELSE Restored(handler)
          /\ handler' = NoControl
          /\ idle_failure' = IdleFailure(handler)
          /\ UNCHANGED <<process, main, doing, crossed>>

ServiceMain == RegisterHandler \/ AnnounceStart \/ OnStart \/ ReportStart
ServiceCtrlHandler == ReadOriginalState \/ Announce \/ Work \/ Report
ServiceStep == ServiceMain \/ ServiceCtrlHandler \/ Exits
-----------------------------------------------------------------------------
ServiceTypeOK == /\ state \in State
                 /\ process \in BOOLEAN
                 /\ main \in Main
                 /\ handler \in Handler
                 /\ doing \in {"nothing", "working", "paused", "ended"}
                 /\ crossed \in BOOLEAN /\ idle_failure \in BOOLEAN
=============================================================================
