-------------------------- MODULE ScmContextProofs --------------------------
(***************************************************************************)
(* Proofs about ScmContext and the ServiceBase process it controls, for    *)
(* any number of programs, calls and failures.                             *)
(*                                                                         *)
(* The two threads of the process may report at the same time while the    *)
(* service starts; what remains then is that nobody else restores a state  *)
(* and that none of the three states a control announces is ever restored. *)
(* Once Start() has reported outside any control the handler reports       *)
(* alone, and what was said last is known at each of its steps.  In the    *)
(* database, whoever holds a handle keeps the entry from disappearing:     *)
(* that is why keys are written to a service that is still there.          *)
(***************************************************************************)
EXTENDS ScmContext, TLAPS

\* What the SCM was told when the service does this and nobody handles a control.
Told == CASE doing = "working" -> "RUNNING"
          [] doing = "paused"  -> "PAUSED"
          [] OTHER             -> "STOPPED"

\* The states that only a control announces.
Announced == {"PAUSE_PENDING", "CONTINUE_PENDING", "STOP_PENDING"}

\* A service that works or pauses is shown as one that does, as the one it is
\* unless a control that had nothing to do has failed.
Shown(s) == /\ s \in {"RUNNING", "PAUSED"} /\ doing \in {"working", "paused"}
            /\ idle_failure = FALSE => s = Told

\* ServiceMain, until the end of Start().
Starting ==
  /\ main \in {"register", "announce"} =>
       state = "START_PENDING" /\ handler = NoControl /\ doing = "nothing"
  /\ main \in {"OnStart", "failed"} => doing \in {"nothing", "ended"}
  /\ main = "started" => doing \in {"working", "ended"}
  /\ main # "done" => state \in {"START_PENDING", "STOPPED"} \union Announced
  /\ main # "done" /\ handler # NoControl =>
       /\ handler.op \in {"stop", "shutdown"}
       /\ handler.op = "stop" /\ handler.step # "read" =>
            handler.orig \in {"START_PENDING", "STOPPED"} \union Announced

\* What the catch blocks may restore.
Restorable ==
  /\ handler = NoControl \/ handler.op = "shutdown" \/ handler.step \in {"read", "announce"}
       => state \notin Announced
  /\ handler.op = "stop" /\ handler.step \in {"announce", "work", "threw"} =>
       /\ handler.orig \notin Announced
       /\ handler.orig = "START_PENDING" /\ main = "done" => crossed = TRUE
  /\ state = "START_PENDING" /\ main = "done" => crossed = TRUE

\* The control handler of a service that has started: what it would restore, and what
\* it has got the service to do.
Controlled ==
  /\ handler.step # "succeeded" =>
       /\ doing \in {"working", "paused"}
       /\ handler.op = "shutdown" \/ handler.step = "read" => Shown(state)
       /\ handler.op = "stop" /\ handler.step # "read" => Shown(handler.orig)
  /\ handler.step = "succeeded" =>
       doing = CASE handler.op = "pause"    -> "paused"
                 [] handler.op = "continue" -> "working"
                 [] OTHER                   -> "ended"

\* Start() has reported, and not in the middle of a control.
Reported == IF handler = NoControl THEN state = Told \/ (Shown(state) /\ idle_failure = TRUE)
            ELSE Controlled

\* A service without a process, or a driver, which has none.
Down == /\ main = "none" /\ handler = NoControl /\ doing = "nothing"
        /\ state \in IF kind = "filter" THEN {"STOPPED", "RUNNING", "STOP_PENDING"} ELSE {"STOPPED"}

Up == /\ kind = "win32" /\ main # "none"
      /\ Starting /\ Restorable
      /\ main = "done" /\ crossed = FALSE => Reported

ServiceInv == ServiceTypeOK /\ (process = TRUE => Up) /\ (process = FALSE => Down)

\* The service cannot disappear as long as somebody has it open.
HandlesHold == (\E a \in Admin : a \in Handles) => entry # "absent"

InCall == \A a \in Admin : pc[a] \notin Return => call[a] \in Function

DatabaseTypes == /\ entry \in {"absent", "present", "marked"}
                 /\ kind \in {"none", "win32", "filter"}
                 /\ entry = "absent" <=> kind = "none"
                 /\ keys \in {"none", "first", "all"}
                 /\ driver \in BOOLEAN /\ broken \in BOOLEAN
                 /\ call \in [Admin -> Function \union {"none"}]
                 /\ pc \in [Admin -> PC]
                 /\ waited \in [Admin -> 0..wait_for_n_secs]
                 /\ calls \in 0..MaxCalls

DatabaseInv == /\ DatabaseTypes /\ InCall /\ HandlesHold
               /\ InstalledIsComplete /\ NoOrphanKeys

IInv == ServiceInv /\ DatabaseInv
-----------------------------------------------------------------------------
(* The process of the service *)

LEMMA Unchanged ==
  ASSUME ServiceInv,
         UNCHANGED <<state, process, main, handler, doing, crossed, idle_failure, kind>>
  PROVE  ServiceInv'
BY DEF ServiceInv, ServiceTypeOK, Up, Down, Starting, Restorable, Reported, Controlled, Shown,
       Told

\* Without a control under way no step of the handler is possible.
LEMMA HandlerAtWork ==
  ASSUME ServiceTypeOK, handler.step # "idle"
  PROVE  /\ handler # NoControl
         /\ handler \in [op : Control, step : {"read", "announce", "work", "succeeded", "threw"},
                         orig : State]
BY DEF ServiceTypeOK, Handler, NoControl

LEMMA MainKeeps ==
  ASSUME ServiceInv, kind' = kind, RegisterHandler \/ AnnounceStart \/ OnStart \/ ReportStart
  PROVE  ServiceInv'
<1> USE DEF ServiceInv, ServiceTypeOK
<1>1. main \notin {"none", "done"} /\ process = TRUE /\ kind = "win32" /\ Starting /\ Restorable
  BY DEF RegisterHandler, AnnounceStart, OnStart, ReportStart, Up, Down
<1>2. UNCHANGED <<process, handler>>
  BY DEF RegisterHandler, AnnounceStart, OnStart, ReportStart
<1>3. CASE RegisterHandler \/ AnnounceStart
  <2>1. handler = NoControl /\ state' = "START_PENDING" /\ doing' = "nothing"
        /\ main' \in {"announce", "OnStart"} /\ UNCHANGED <<crossed, idle_failure>>
    BY <1>1, <1>3 DEF RegisterHandler, AnnounceStart, Starting, history
  <2> QED BY <1>1, <1>2, <2>1 DEF Up, Starting, Restorable, NoControl, Announced, State, Main
<1>4. CASE OnStart
  <2>1. /\ main = "OnStart" /\ UNCHANGED <<state, crossed, idle_failure>>
        /\ \/ main' = "started" /\ doing' = "working"
           \/ main' = "failed" /\ doing' = doing
    BY <1>4 DEF OnStart, history
  <2> QED BY <1>1, <1>2, <2>1 DEF Up, Starting, Restorable, Main
<1>5. CASE ReportStart
  <2>1. /\ main \in {"started", "failed"} /\ main' = "done" /\ doing' = doing
        /\ state' = IF main = "started" THEN "RUNNING" ELSE "STOPPED"
        /\ crossed' = Crossing /\ idle_failure' = idle_failure
    BY <1>5 DEF ReportStart
  <2>2. crossed' \in BOOLEAN /\ state' \in State /\ main' \in Main
    BY <2>1 DEF Crossing, State, Main
  <2>3. Starting'
    BY <2>1 DEF Starting
  <2>4. Restorable'
    <3>1. handler # NoControl => crossed' = TRUE
      BY <2>1 DEF Crossing
    <3>2. state' \notin Announced \union {"START_PENDING"}
      BY <2>1 DEF Announced
    <3>3. handler.op = "stop" => handler # NoControl
      BY DEF NoControl
    <3> QED BY <1>1, <1>2, <3>1, <3>2, <3>3 DEF Restorable
  <2>5. ASSUME crossed' = FALSE PROVE Reported'
    <3>1. handler' = NoControl /\ (main = "started" => doing # "ended")
      BY <1>2, <2>1, <2>5 DEF Crossing
    <3>2. state' = Told'
      BY <1>1, <2>1, <3>1 DEF Starting, Told
    <3> QED BY <3>1, <3>2 DEF Reported
  <2> QED BY <1>1, <1>2, <2>1, <2>2, <2>3, <2>4, <2>5 DEF Up
<1> QED BY <1>3, <1>4, <1>5

LEMMA HandlerKeeps ==
  ASSUME ServiceInv, kind' = kind, ServiceCtrlHandler
  PROVE  ServiceInv'
<1> USE DEF ServiceInv
<1>1. handler.step # "idle" /\ UNCHANGED <<process, main, crossed>>
  BY DEF ServiceCtrlHandler, ReadOriginalState, Announce, Work, Report, history
<1> DEFINE At == {"read", "announce", "work", "succeeded", "threw"}
<1>2. /\ handler # NoControl /\ handler.op \in Control /\ handler.step \in At
      /\ handler.orig \in State
      /\ handler \in [op : Control, step : At, orig : State]
  BY <1>1, HandlerAtWork
<1>3. /\ process = TRUE /\ kind = "win32" /\ main \notin {"none", "register", "announce"}
      /\ Starting /\ Restorable
      /\ main = "done" /\ crossed = FALSE => Controlled
  BY <1>2 DEF ServiceTypeOK, Up, Down, Starting, Reported
<1>4. ASSUME NEW at \in At, NEW orig \in State,
             handler' = [handler EXCEPT !.step = at, !.orig = orig]
      PROVE  /\ handler' \in Handler /\ handler' # NoControl
             /\ handler'.op = handler.op /\ handler'.orig = orig /\ handler'.step = at
  BY <1>2, <1>4 DEF Handler, NoControl
<1>5. ASSUME NEW at \in At, handler' = [handler EXCEPT !.step = at]
      PROVE  /\ handler' \in Handler /\ handler' # NoControl
             /\ handler'.op = handler.op /\ handler'.orig = handler.orig /\ handler'.step = at
  BY <1>2, <1>5 DEF Handler, NoControl
<1>6. CASE ReadOriginalState
  <2>1. /\ handler.step = "read" /\ handler' = [handler EXCEPT !.step = "announce", !.orig = state]
        /\ UNCHANGED <<state, doing, idle_failure>>
    BY <1>6 DEF ReadOriginalState, history
  <2>2. state \in State
    BY DEF ServiceTypeOK
  <2>3. /\ handler' \in Handler /\ handler' # NoControl
        /\ handler'.op = handler.op /\ handler'.orig = state /\ handler'.step = "announce"
    BY <1>4, <2>1, <2>2
  <2>4. Starting' /\ Restorable'
    BY <1>1, <1>2, <1>3, <2>1, <2>3 DEF Starting, Restorable, Announced
  <2>5. Controlled => Controlled'
    BY <1>1, <2>1, <2>3 DEF Controlled, Shown, Told
  <2> QED BY <1>1, <1>3, <2>1, <2>3, <2>4, <2>5 DEF ServiceTypeOK, Up, Reported
<1>7. CASE Announce
  <2>1. handler' = [handler EXCEPT !.step = "work"] /\ handler.step = "announce"
        /\ UNCHANGED <<doing, idle_failure>>
        /\ state' = IF handler.op = "shutdown" THEN state ELSE Pending(handler.op)
    BY <1>7 DEF Announce, history
  <2>2. /\ handler' \in Handler /\ handler' # NoControl
        /\ handler'.op = handler.op /\ handler'.orig = handler.orig /\ handler'.step = "work"
    BY <1>5, <2>1
  <2>3. state' \in State /\ (handler.op # "shutdown" => state' # "START_PENDING")
    BY <1>2, <2>1 DEF Pending, Control, State, ServiceTypeOK
  <2>4. Starting' /\ Restorable'
    BY <1>1, <1>2, <1>3, <2>1, <2>2, <2>3 DEF Starting, Restorable, Announced, Pending, Control
  <2>5. Controlled => Controlled'
    BY <1>1, <2>1, <2>2 DEF Controlled, Shown, Told
  <2> QED BY <1>1, <1>3, <2>1, <2>2, <2>3, <2>4, <2>5 DEF ServiceTypeOK, Up, Reported
<1>8. CASE Work
  <2>1. handler.step = "work" /\ UNCHANGED <<state, idle_failure>>
    BY <1>8 DEF Work, history
  <2>2. CASE handler' = [handler EXCEPT !.step = "succeeded"]
             /\ doing' = CASE handler.op = "pause"    -> "paused"
                           [] handler.op = "continue" -> "working"
                           [] OTHER                   -> "ended"
    <3>1. /\ handler' \in Handler /\ handler' # NoControl
          /\ handler'.op = handler.op /\ handler'.orig = handler.orig
          /\ handler'.step = "succeeded"
      BY <1>5, <2>2
    <3>2. doing' \in {"nothing", "working", "paused", "ended"} /\ Restorable' /\ Controlled'
      BY <1>1, <1>2, <1>3, <2>1, <2>2, <3>1 DEF Restorable, Controlled, Control
    <3>3. Starting'
      <4>1. main # "done" => handler.op \in {"stop", "shutdown"}
        BY <1>2, <1>3 DEF Starting
      <4> QED BY <1>1, <1>2, <1>3, <2>1, <2>2, <3>1, <4>1 DEF Starting, Control
    <3> QED BY <1>1, <1>3, <2>1, <3>1, <3>2, <3>3 DEF ServiceTypeOK, Up, Reported
  <2>3. CASE handler' = [handler EXCEPT !.step = "threw"] /\ doing' = doing
    <3>1. /\ handler' \in Handler /\ handler' # NoControl
          /\ handler'.op = handler.op /\ handler'.orig = handler.orig /\ handler'.step = "threw"
      BY <1>5, <2>3
    <3>2. Starting' /\ Restorable'
      BY <1>1, <1>2, <1>3, <2>1, <2>3, <3>1 DEF Starting, Restorable, Announced
    <3>3. Controlled => Controlled'
      BY <1>1, <2>1, <2>3, <3>1 DEF Controlled, Shown, Told
    <3> QED BY <1>1, <1>3, <2>1, <2>3, <3>1, <3>2, <3>3 DEF ServiceTypeOK, Up, Reported
  <2> QED BY <1>8, <2>2, <2>3 DEF Work
<1>9. CASE Report
  <2>1. /\ handler.step \in {"succeeded", "threw"} /\ handler' = NoControl /\ doing' = doing
        /\ state' = IF handler.step = "succeeded"
                    THEN Reached(handler.op) ELSE Restored(handler)
        /\ idle_failure' = IdleFailure(handler)
    BY <1>9 DEF Report
  <2>2. state' \in State /\ idle_failure' \in BOOLEAN /\ handler' \in Handler
    BY <1>2, <2>1 DEF Reached, Restored, IdleFailure, AlreadyThere, ServiceTypeOK, State,
                      Handler, Control
  <2>3. Starting'
    <3>1. CASE main = "done"
      BY <1>1, <1>3, <2>1, <3>1 DEF Starting
    <3>2. CASE main # "done"
      <4>1. /\ handler.op \in {"stop", "shutdown"}
            /\ handler.op = "stop" =>
                 handler.orig \in {"START_PENDING", "STOPPED"} \union Announced
            /\ state \in {"START_PENDING", "STOPPED"} \union Announced
        BY <1>2, <1>3, <2>1, <3>2 DEF Starting
      <4> QED BY <1>1, <1>3, <2>1, <3>2, <4>1 DEF Starting, Reached, Restored, Announced
    <3> QED BY <3>1, <3>2
  <2>4. Restorable'
    <3>1. state' \notin Announced
      BY <1>2, <1>3, <2>1 DEF Reached, Restored, Restorable, Announced, Control
    <3>2. state' = "START_PENDING" /\ main = "done" => crossed = TRUE
      BY <1>2, <1>3, <2>1 DEF Reached, Restored, Restorable, Control
    <3> QED BY <1>1, <2>1, <3>1, <3>2 DEF Restorable, NoControl
  <2>5. ASSUME Controlled PROVE Reported'
    <3>1. CASE handler.step = "succeeded"
      BY <1>2, <2>1, <2>5, <3>1 DEF Controlled, Reported, Reached, Told, Control
    <3>2. CASE handler.step = "threw" /\ handler.op \in {"stop", "shutdown"}
      <4>1. state' = Restored(handler) /\ idle_failure' = idle_failure
        BY <2>1, <3>2 DEF IdleFailure
      <4>2. Shown(state')
        BY <2>5, <3>2, <4>1 DEF Controlled, Restored
      <4> QED BY <2>1, <4>1, <4>2 DEF Shown, Reported, Told, ServiceTypeOK
    <3>3. CASE handler.step = "threw" /\ handler.op \in {"pause", "continue"}
      <4>1. /\ doing \in {"working", "paused"}
            /\ state' = IF handler.op = "pause" THEN "RUNNING" ELSE "PAUSED"
            /\ idle_failure' = FALSE => ~AlreadyThere(handler.op)
        BY <2>1, <2>5, <3>3 DEF Controlled, Restored, IdleFailure
      <4> QED BY <2>1, <2>2, <3>3, <4>1 DEF Shown, Reported, Told, AlreadyThere
    <3> QED BY <1>2, <2>1, <3>1, <3>2, <3>3 DEF Control
  <2> QED BY <1>1, <1>3, <2>1, <2>2, <2>3, <2>4, <2>5 DEF ServiceTypeOK, Up
<1> QED BY <1>6, <1>7, <1>8, <1>9 DEF ServiceCtrlHandler

LEMMA DeliverKeeps ==
  ASSUME ServiceInv, kind' = kind, NEW c \in Control, Deliver(c)
  PROVE  ServiceInv'
<1> USE DEF ServiceInv
<1>1. /\ process = TRUE /\ handler = NoControl /\ main \notin {"register", "announce"}
      /\ state \notin {"STOPPED", "STOP_PENDING"}
      /\ c \in {"pause", "continue"} => state # "START_PENDING"
      /\ UNCHANGED <<state, process, main, doing, crossed, idle_failure>>
  BY DEF Deliver, Accepts, ServiceTypeOK, history
<1>2. Up
  BY <1>1
<1>3. /\ handler' \in Handler /\ handler' # NoControl /\ handler'.op = c
      /\ handler'.step = IF c = "stop" THEN "read" ELSE "announce"
  BY DEF Deliver, Handler, NoControl, State, Control
<1>4. Starting'
  BY <1>1, <1>2, <1>3 DEF Up, Starting, Restorable, Control, Announced
<1>5. Restorable'
  BY <1>1, <1>2, <1>3 DEF Up, Restorable
<1>6. ASSUME main = "done", crossed = FALSE PROVE Controlled'
  <2>1. state # "START_PENDING" /\ state \notin Announced
    BY <1>1, <1>2, <1>6 DEF Up, Restorable
  <2>2. state = Told \/ Shown(state)
    BY <1>1, <1>2, <1>6 DEF Up, Reported
  <2>3. Shown(state)
    BY <1>1, <2>1, <2>2 DEF Shown, Told
  <2> QED BY <1>1, <1>3, <2>3 DEF Controlled, Shown, Told
<1> QED BY <1>1, <1>2, <1>3, <1>4, <1>5, <1>6 DEF ServiceTypeOK, Up, Reported

LEMMA ServiceKeeps ==
  ASSUME ServiceInv, kind' = kind, kind \in {"none", "win32", "filter"},
         ServiceNext
  PROVE  ServiceInv'
<1>1. CASE Dies \/ Exits
  <2>1. process = TRUE /\ process' = FALSE /\ state' = "STOPPED" /\ main' = "none"
        /\ handler' = NoControl /\ doing' = "nothing" /\ crossed' = FALSE /\ idle_failure' = FALSE
    BY <1>1 DEF Dies, Exits, ServiceInv, ServiceTypeOK
  <2> QED BY <2>1 DEF ServiceInv, ServiceTypeOK, State, Main, Handler, Down
<1>2. CASE DriverUnloads
  <2>1. process = FALSE
    BY <1>2 DEF DriverUnloads, ServiceInv, ServiceTypeOK, Up
  <2> QED BY <1>2, <2>1 DEF DriverUnloads, ServiceInv, ServiceTypeOK, State, Down, history
<1>3. {"pause", "continue", "shutdown"} \subseteq Control
  BY DEF Control
<1> QED BY <1>1, <1>2, <1>3, MainKeeps, HandlerKeeps, DeliverKeeps
        DEF ServiceNext, ServiceStep, ServiceMain

\* A service disappears only when it is down.
LEMMA ServicePurged == ASSUME ServiceInv, Purge PROVE ServiceInv'
<1>1. process = FALSE /\ state = "STOPPED"
      /\ UNCHANGED <<state, process, main, handler, doing, crossed, idle_failure>>
  BY DEF Purge, service, history, ServiceInv, ServiceTypeOK
<1> QED BY <1>1 DEF ServiceInv, ServiceTypeOK, Down

\* What scm_context does to the service: it starts one and sends it a stop.
LEMMA AdminKeepsService ==
  ASSUME IInv, NEW a \in Admin,
         Step(a) \/ CallFails(a) \/ (\E f \in Function : Call(a, f))
  PROVE  ServiceInv'
<1> USE DEF IInv, DatabaseInv, DatabaseTypes
<1>1. ASSUME UNCHANGED <<service, kind>> PROVE ServiceInv'
  <2>1. UNCHANGED <<state, process, main, handler, doing, crossed, idle_failure, kind>>
    BY <1>1 DEF service, history
  <2> QED BY <2>1, Unchanged
<1>2. ASSUME UNCHANGED service, kind = "none", process = FALSE
      PROVE  ServiceInv'
  BY <1>2 DEF service, history, ServiceInv, ServiceTypeOK, Down
<1>3. CASE StartService(a)
  <2>1. CASE UNCHANGED service
    BY <1>1, <1>3, <2>1 DEF StartService, database
  <2>2. CASE state = "STOPPED" /\ entry = "present" /\ ~process /\ kind = "win32" /\ Launch
    BY <1>3, <2>2 DEF StartService, database, Launch, history, ServiceInv, ServiceTypeOK, State,
                      Main, Up, Down, Starting, Restorable, NoControl, Announced
  <2>3. CASE /\ entry = "present" /\ ~process /\ kind # "win32"
             /\ state' = "RUNNING" /\ UNCHANGED <<process, main, handler, doing, history>>
    <3>1. process = FALSE /\ kind = "filter" /\ kind' = kind
      BY <1>3, <2>3 DEF StartService, database, ServiceInv, ServiceTypeOK
    <3> QED BY <2>3, <3>1 DEF ServiceInv, ServiceTypeOK, State, Down, history
  <2> QED BY <1>3, <2>1, <2>2, <2>3 DEF StartService
<1>4. CASE ControlService(a)
  <2>1. kind' = kind
    BY <1>4 DEF ControlService, database
  <2>2. CASE Deliver("stop")
    BY <2>1, <2>2, DeliverKeeps DEF Control
  <2>3. CASE /\ kind = "filter" /\ state' \in {"STOPPED", "STOP_PENDING"}
             /\ UNCHANGED <<process, main, handler, doing, history>>
    <3>1. process = FALSE
      BY <2>3 DEF ServiceInv, ServiceTypeOK, Up
    <3> QED BY <2>1, <2>3, <3>1 DEF ServiceInv, ServiceTypeOK, State, Down, history
  <2> QED BY <1>1, <1>4, <2>1, <2>2, <2>3 DEF ControlService
<1>5. CASE CreateService(a)
  <2>1. CASE entry = "absent"
    <3>1. kind = "none" /\ process = FALSE
      BY <2>1 DEF ServiceInv, ServiceTypeOK, Up
    <3> QED BY <1>2, <1>5, <3>1 DEF CreateService
  <2>2. CASE entry # "absent"
    BY <1>1, <1>5, <2>2 DEF CreateService
  <2> QED BY <2>1, <2>2
<1>6. CASE \/ service_installed(a) \/ service_started(a) \/ DeleteOldFile(a) \/ CopyDriver(a)
           \/ SetInstanceKey(a) \/ SetAltitudeKey(a) \/ OpenToStart(a) \/ QueryStarted(a)
           \/ stop_installed(a) \/ stop_started(a) \/ OpenToStop(a) \/ ControlReturns(a)
           \/ QueryStopped(a) \/ OpenToDelete(a) \/ DeleteService(a) \/ CallFails(a)
           \/ \E f \in Function : Call(a, f)
  <2>1. UNCHANGED <<service, kind>>
    BY <1>6 DEF service_installed, service_started, DeleteOldFile, CopyDriver, SetInstanceKey,
                SetAltitudeKey, OpenToStart, QueryStarted, stop_installed, stop_started,
                OpenToStop, ControlReturns, QueryStopped, OpenToDelete, DeleteService,
                CallFails, Call, Only, database
  <2> QED BY <1>1, <2>1
<1> QED BY <1>3, <1>4, <1>5, <1>6 DEF Step
-----------------------------------------------------------------------------
(* The database of the SCM *)

HandleAt == {"start", "query", "control", "controlling", "stop query", "delete",
             "first key", "second key"}
KeyAt == {"first key", "second key"}

\* Where the functions go on is a place of theirs; none of these holds a handle.
LEMMA Destinations ==
  ASSUME NEW a \in Admin, call[a] \in Function
  PROVE  /\ {IfInstalled(a), IfNotInstalled(a)} \subseteq PC \ HandleAt
         /\ {StopReturns(a, "true"), StopReturns(a, "false")} \subseteq PC \ HandleAt
<1>1. call[a] \in {"install_win32_service", "install_fs_filter", "uninstall_service",
                   "start_service", "stop_service"}
  BY DEF Function
<1>2. {IfInstalled(a), IfNotInstalled(a)} \subseteq PC \ HandleAt
  BY <1>1 DEF IfInstalled, IfNotInstalled, PC, Return, InStop, HandleAt
<1>3. {StopReturns(a, "true"), StopReturns(a, "false")} \subseteq PC \ HandleAt
  BY DEF StopReturns, PC, Return, InStop, HandleAt
<1> QED BY <1>2, <1>3

LEMMA Moves ==
  ASSUME DatabaseTypes, InCall, NEW a \in Admin, NEW from, from \notin Return,
         NEW to \in PC, Goto(a, from, to)
  PROVE  /\ pc' \in [Admin -> PC] /\ pc[a] = from /\ pc'[a] = to
         /\ call[a] \in Function
         /\ \A b \in Admin \ {a} : pc'[b] = pc[b]
BY DEF DatabaseTypes, InCall, Goto

\* A step that changes nothing in the database, takes no handle of an absent service
\* and leaves no work with the driver or the keys undone.
LEMMA OthersKeep ==
  ASSUME DatabaseInv, NEW a \in Admin, NEW from, from \notin Return \union KeyAt \union {"copy"},
         NEW to \in PC, Goto(a, from, to),
         to \in HandleAt => entry # "absent" \/ from \in HandleAt,
         UNCHANGED <<database, call, calls>>,
         waited' \in [Admin -> 0..wait_for_n_secs]
  PROVE  DatabaseInv'
<1> USE DEF DatabaseInv, DatabaseTypes
<1>1. /\ pc' \in [Admin -> PC] /\ pc[a] = from /\ pc'[a] = to /\ call[a] \in Function
      /\ \A b \in Admin \ {a} : pc'[b] = pc[b]
  BY Moves
<1>2. UNCHANGED <<entry, kind, keys, driver, broken, call, calls>>
  BY DEF database
<1>3. DatabaseTypes' /\ InCall'
  BY <1>1, <1>2 DEF InCall
<1>4. HandlesHold'
  BY <1>1, <1>2 DEF HandlesHold, Handles, HandleAt
<1>5. InstalledIsComplete'
  <2>1. \A b \in Admin : pc[b] \in KeyAt \union {"copy"} => pc'[b] = pc[b]
    BY <1>1
  <2> QED BY <1>2, <2>1 DEF InstalledIsComplete, KeyAt
<1>6. NoOrphanKeys'
  BY <1>2 DEF NoOrphanKeys
<1> QED BY <1>3, <1>4, <1>5, <1>6

LEMMA CallKeeps ==
  ASSUME DatabaseInv, NEW a \in Admin, NEW f \in Function, Call(a, f)
  PROVE  DatabaseInv'
<1> USE DEF DatabaseInv, DatabaseTypes
<1>1. /\ pc[a] \in Return /\ pc' = [pc EXCEPT ![a] = "installed?"]
      /\ call' = [call EXCEPT ![a] = f]
      /\ waited' = [waited EXCEPT ![a] = 0]
      /\ UNCHANGED <<entry, kind, keys, driver, broken>>
  BY DEF Call, database
<1>2. "installed?" \in PC \ HandleAt /\ 0 \in 0..wait_for_n_secs
      /\ Return \intersect (HandleAt \union {"copy"}) = {}
  <2>1. "installed?" \in PC \ HandleAt
    BY DEF PC, HandleAt
  <2>2. Return \intersect (HandleAt \union {"copy"}) = {}
    BY DEF HandleAt, Return
  <2> QED BY <2>1, <2>2, ScmAssumption
<1>3. DatabaseTypes' /\ InCall'
  <2>1. calls' \in 0..MaxCalls
    BY ScmAssumption DEF Call
  <2> QED BY <1>1, <1>2, <2>1 DEF InCall
<1>4. \A b \in Admin : pc[b] \in HandleAt \union {"copy"} => pc'[b] = pc[b]
  BY <1>1, <1>2
<1>5. HandlesHold'
  BY <1>1, <1>2 DEF HandlesHold, Handles, HandleAt
<1>6. InstalledIsComplete' /\ NoOrphanKeys'
  BY <1>1, <1>4 DEF InstalledIsComplete, NoOrphanKeys, HandleAt
<1> QED BY <1>3, <1>5, <1>6

\* The steps of install_win32_service and install_fs_filter, and their failures.
LEMMA InstallKeeps ==
  ASSUME DatabaseInv, NEW a \in Admin,
         \/ DeleteOldFile(a) \/ CopyDriver(a) \/ CreateService(a)
         \/ SetInstanceKey(a) \/ SetAltitudeKey(a)
         \/ pc[a] \in KeyAt \union {"copy"} /\ CallFails(a)
  PROVE  DatabaseInv'
<1> USE DEF DatabaseInv, DatabaseTypes
<1>1. PICK to \in {"false", "true", "copy", "create", "first key", "second key"} :
        Goto(a, pc[a], to)
  BY DEF DeleteOldFile, CopyDriver, CreateService, SetInstanceKey, SetAltitudeKey, CallFails,
         Goto, InStop, KeyAt
<1>2. pc[a] \notin Return /\ to \in PC
  BY <1>1 DEF DeleteOldFile, CopyDriver, CreateService, SetInstanceKey, SetAltitudeKey,
              Goto, Return, PC, KeyAt
<1>3. /\ pc' \in [Admin -> PC] /\ pc'[a] = to /\ call[a] \in Function
      /\ \A b \in Admin \ {a} : pc'[b] = pc[b]
      /\ UNCHANGED <<call, waited, calls>>
  BY <1>1, <1>2, Moves DEF DeleteOldFile, CopyDriver, CreateService, SetInstanceKey,
                           SetAltitudeKey, CallFails
<1>4. InCall'
  BY <1>3 DEF InCall
<1>5. CASE DeleteOldFile(a)
  <2>1. /\ pc[a] = "old file" /\ driver' \in BOOLEAN /\ UNCHANGED <<entry, kind, keys, broken>>
        /\ (driver' # driver => pc'[a] = "copy") /\ pc'[a] \in {"false", "copy", "create"}
    BY <1>5, <1>3 DEF DeleteOldFile, Goto
  <2>2. \A b \in Admin : pc[b] \in KeyAt \union {"copy"} => pc'[b] = pc[b]
    BY <1>3, <2>1 DEF KeyAt
  <2>3. InstalledIsComplete'
    <3>1. driver => driver' \/ pc'[a] = "copy"
      BY <2>1
    <3> QED BY <2>1, <2>2, <3>1 DEF InstalledIsComplete, KeyAt
  <2>4. HandlesHold'
    BY <1>3, <2>1 DEF HandlesHold, Handles
  <2> QED BY <1>3, <1>4, <2>1, <2>3, <2>4 DEF NoOrphanKeys
<1>6. CASE CopyDriver(a)
  <2>1. /\ pc[a] = "copy" /\ driver' = TRUE /\ UNCHANGED <<entry, kind, keys, broken>>
        /\ pc'[a] \in {"false", "create"}
    BY <1>6, <1>3 DEF CopyDriver, Goto
  <2>2. \A b \in Admin : pc[b] \in KeyAt => pc'[b] = pc[b]
    BY <1>3, <2>1 DEF KeyAt
  <2>3. InstalledIsComplete'
    BY <2>1, <2>2 DEF InstalledIsComplete, KeyAt
  <2>4. HandlesHold'
    BY <1>3, <2>1 DEF HandlesHold, Handles
  <2> QED BY <1>3, <1>4, <2>1, <2>3, <2>4 DEF NoOrphanKeys
<1>7. CASE CreateService(a)
  <2>1. pc[a] = "create" /\ UNCHANGED <<keys, driver>>
    BY <1>7 DEF CreateService, Goto
  <2>2. CASE entry = "absent" /\ entry' = "present" /\ kind' = "win32" /\ broken' = FALSE
             /\ Goto(a, "create", "true")
    BY <1>3, <1>4, <2>1, <2>2 DEF Goto, HandlesHold, Handles, InstalledIsComplete, NoOrphanKeys
  <2>3. CASE entry = "absent" /\ entry' = "present" /\ kind' = "filter" /\ broken' = ~driver
             /\ Goto(a, "create", "first key")
    <3>1. pc'[a] = "first key" /\ broken' \in BOOLEAN
      BY <2>3 DEF Goto
    <3> QED BY <1>3, <1>4, <2>1, <2>3, <3>1
            DEF HandlesHold, Handles, InstalledIsComplete, NoOrphanKeys
  <2>4. CASE entry # "absent" /\ Goto(a, "create", "false") /\ UNCHANGED <<entry, kind, broken>>
    <3>1. pc'[a] = "false"
      BY <2>4 DEF Goto
    <3> QED BY <1>3, <1>4, <2>1, <2>4, <3>1
            DEF HandlesHold, Handles, InstalledIsComplete, NoOrphanKeys
  <2> QED BY <1>7, <2>2, <2>3, <2>4 DEF CreateService
<1>8. CASE SetInstanceKey(a) \/ SetAltitudeKey(a)
  <2>1. /\ UNCHANGED <<entry, kind, driver, broken>> /\ pc[a] \in KeyAt
        /\ \/ keys' = "first" /\ pc'[a] = "second key"
           \/ keys' = "all" /\ pc'[a] = "true"
    BY <1>3, <1>8 DEF SetInstanceKey, SetAltitudeKey, Goto, KeyAt
  <2>2. entry # "absent"
    BY <2>1 DEF HandlesHold, Handles, KeyAt
  <2> QED BY <1>3, <1>4, <2>1, <2>2
          DEF HandlesHold, Handles, InstalledIsComplete, NoOrphanKeys, KeyAt
<1>9. CASE pc[a] \in KeyAt \union {"copy"} /\ CallFails(a)
  <2>1. broken' = TRUE /\ UNCHANGED <<entry, kind, keys, driver>> /\ pc'[a] = "false"
    BY <1>3, <1>9 DEF CallFails, Goto, KeyAt, InStop
  <2>2. DatabaseTypes' /\ NoOrphanKeys'
    BY <1>3, <2>1 DEF NoOrphanKeys
  <2>3. HandlesHold'
    BY <1>3, <2>1 DEF HandlesHold, Handles
  <2>4. InstalledIsComplete'
    BY <2>1 DEF InstalledIsComplete
  <2> QED BY <1>4, <2>2, <2>3, <2>4
<1> QED BY <1>5, <1>6, <1>7, <1>8, <1>9

\* The other steps of the functions: who opens the service has found it.
LEMMA UseKeeps ==
  ASSUME IInv, NEW a \in Admin,
         \/ service_installed(a) \/ service_started(a) \/ OpenToStart(a) \/ StartService(a)
         \/ QueryStarted(a) \/ stop_installed(a) \/ stop_started(a) \/ OpenToStop(a)
         \/ ControlService(a) \/ ControlReturns(a) \/ QueryStopped(a) \/ OpenToDelete(a)
         \/ pc[a] \notin KeyAt \union {"copy"} /\ CallFails(a)
  PROVE  DatabaseInv'
<1> USE DEF IInv
<1> DEFINE From == {"installed?", "started?", "open", "start", "query", "stop installed?",
                    "stop started?", "stop open", "control", "controlling", "stop query",
                    "delete open", "old file", "create", "delete"}
           To == {IfInstalled(a), IfNotInstalled(a), StopReturns(a, "true"),
                  StopReturns(a, "false"), "true", "false", "open", "start", "query",
                  "stop started?", "stop open", "control", "controlling", "stop query", "delete"}
<1>1. pc[a] \in From
  BY DEF service_installed, service_started, OpenToStart, StartService, QueryStarted,
         stop_installed, stop_started, OpenToStop, ControlService, ControlReturns,
         QueryStopped, OpenToDelete, CallFails, Goto, KeyAt, InStop
<1>2. From \intersect (Return \union KeyAt \union {"copy"}) = {}
  BY DEF Return, KeyAt
<1>3. call[a] \in Function
  BY <1>1, <1>2 DEF DatabaseInv, InCall
<1>4. To \subseteq PC
  BY <1>3, Destinations DEF PC, Return, InStop
<1>5. PICK to \in To : /\ Goto(a, pc[a], to)
                       /\ to \in HandleAt => entry # "absent" \/ pc[a] \in HandleAt
  <2>1. {IfInstalled(a), IfNotInstalled(a), StopReturns(a, "true"), StopReturns(a, "false"),
         "true", "false"} \intersect HandleAt = {}
    BY <1>3, Destinations DEF HandleAt
  <2>2. CASE service_installed(a)
    BY <2>1, <2>2 DEF service_installed, Goto
  <2>3. CASE service_started(a)
    BY <2>3 DEF service_started, Goto, HandleAt
  <2>4. CASE OpenToStart(a)
    BY <2>1, <2>4 DEF OpenToStart, Goto
  <2>5. CASE StartService(a) \/ QueryStarted(a)
    BY <2>5 DEF StartService, QueryStarted, Goto, HandleAt
  <2>6. CASE stop_installed(a)
    BY <2>1, <2>6 DEF stop_installed, Goto, HandleAt
  <2>7. CASE stop_started(a)
    BY <2>1, <2>7 DEF stop_started, Goto, HandleAt
  <2>8. CASE OpenToStop(a)
    BY <2>1, <2>8 DEF OpenToStop, Goto
  <2>9. CASE ControlService(a)
    BY <2>1, <2>9 DEF ControlService, Goto, HandleAt
  <2>10. CASE ControlReturns(a)
    BY <2>1, <2>10 DEF ControlReturns, Goto, HandleAt
  <2>11. CASE QueryStopped(a)
    <3>1. StopAnswer(a) \in {StopReturns(a, "true"), StopReturns(a, "false")}
      BY DEF StopAnswer
    <3> QED BY <2>1, <2>11, <3>1 DEF QueryStopped, Goto, HandleAt
  <2>12. CASE OpenToDelete(a)
    BY <2>1, <2>12 DEF OpenToDelete, Goto
  <2>13. CASE CallFails(a)
    BY <2>1, <2>13 DEF CallFails, Goto
  <2> QED BY <2>2, <2>3, <2>4, <2>5, <2>6, <2>7, <2>8, <2>9, <2>10, <2>11, <2>12, <2>13
<1> HIDE DEF From, To
<1>6. UNCHANGED <<database, call, calls>>
  BY DEF service_installed, service_started, OpenToStart, StartService, QueryStarted,
         stop_installed, stop_started, OpenToStop, ControlService, ControlReturns,
         QueryStopped, OpenToDelete, CallFails, Only, database, KeyAt, DatabaseInv, DatabaseTypes
<1>7. waited' \in [Admin -> 0..wait_for_n_secs]
  <2>1. CASE QueryStopped(a)
    <3>1. waited \in [Admin -> 0..wait_for_n_secs] /\ wait_for_n_secs \in Nat
      BY ScmAssumption DEF DatabaseInv, DatabaseTypes
    <3>2. \/ waited[a] < wait_for_n_secs /\ waited' = [waited EXCEPT ![a] = @ + 1]
          \/ waited' = waited
      BY <2>1 DEF QueryStopped
    <3>3. waited[a] \in 0..wait_for_n_secs
      BY <3>1, Zenon
    <3>4. \A w \in 0..wait_for_n_secs : w < wait_for_n_secs => w + 1 \in 0..wait_for_n_secs
      BY ScmAssumption
    <3> QED BY <3>1, <3>2, <3>3, <3>4
  <2>2. CASE ~QueryStopped(a)
    <3>1. waited' = waited
      BY <2>2 DEF service_installed, service_started, OpenToStart, StartService, QueryStarted,
                  stop_installed, stop_started, OpenToStop, ControlService, ControlReturns,
                  OpenToDelete, CallFails, Only
    <3> QED BY <3>1 DEF DatabaseInv, DatabaseTypes
  <2> QED BY <2>1, <2>2
<1> QED BY <1>1, <1>2, <1>4, <1>5, <1>6, <1>7, OthersKeep

\* DeleteService marks a service that is there, Purge removes one nobody has open.
LEMMA RemovalKeeps ==
  ASSUME DatabaseInv, (\E a \in Admin : DeleteService(a)) \/ Purge
  PROVE  DatabaseInv'
<1> USE DEF DatabaseInv, DatabaseTypes
<1>1. ASSUME NEW a \in Admin, DeleteService(a) PROVE DatabaseInv'
  <2>1. /\ Goto(a, "delete", "true") /\ entry' = "marked"
        /\ UNCHANGED <<kind, keys, driver, broken, call, waited, calls>>
    BY <1>1 DEF DeleteService
  <2>2. /\ pc' \in [Admin -> PC] /\ pc[a] = "delete" /\ pc'[a] = "true"
        /\ \A b \in Admin \ {a} : pc'[b] = pc[b]
    BY <2>1, Moves DEF Return, PC
  <2>3. entry # "absent"
    BY <2>2 DEF HandlesHold, Handles
  <2> QED BY <2>1, <2>2, <2>3 DEF InCall, Return, HandlesHold, InstalledIsComplete, NoOrphanKeys
<1>2. CASE Purge
  <2>1. Handles' = {} /\ entry' = "absent" /\ kind' = "none" /\ keys' = "none"
        /\ broken' = FALSE /\ UNCHANGED <<driver, call, pc, waited, calls>>
    BY <1>2 DEF Purge, Handles
  <2> QED BY <2>1 DEF InCall, HandlesHold, InstalledIsComplete, NoOrphanKeys
<1> QED BY <1>1, <1>2
-----------------------------------------------------------------------------
LEMMA InitEstablishesIInv == Init => IInv
<1> SUFFICES ASSUME Init PROVE IInv
  OBVIOUS
<1>1. ServiceInv
  BY DEF Init, InitService, ServiceInv, ServiceTypeOK, State, Main, Handler, Down
<1>2. DatabaseTypes
  <2>1. "true" \in PC /\ 0 \in 0..wait_for_n_secs /\ 0 \in 0..MaxCalls
    BY ScmAssumption DEF PC, Return
  <2> QED BY <2>1 DEF Init, DatabaseTypes
<1>3. InCall /\ HandlesHold /\ InstalledIsComplete /\ NoOrphanKeys
  BY DEF Init, InCall, Return, HandlesHold, Handles, InstalledIsComplete, NoOrphanKeys
<1> QED BY <1>1, <1>2, <1>3 DEF IInv, DatabaseInv

LEMMA StepKeepsIInv == IInv /\ [Next]_vars => IInv'
<1> SUFFICES ASSUME IInv, [Next]_vars PROVE IInv'
  OBVIOUS
<1>1. ASSUME Environment PROVE DatabaseInv' /\ kind' = kind
  <2>1. UNCHANGED <<entry, kind, keys, driver, broken, call, pc, waited, calls>>
    BY <1>1 DEF Environment, database
  <2> QED BY <2>1 DEF IInv, DatabaseInv, DatabaseTypes, InCall, HandlesHold, Handles,
                      InstalledIsComplete, NoOrphanKeys
<1>2. CASE ServiceNext /\ Environment
  BY <1>1, <1>2, ServiceKeeps DEF IInv, DatabaseInv, DatabaseTypes
<1>3. CASE UNCHANGED vars
  <2>1. /\ UNCHANGED <<state, process, main, handler, doing, crossed, idle_failure, kind>>
        /\ Environment
    BY <1>3 DEF vars, service, history, database, Environment
  <2>2. ServiceInv'
    BY <2>1, Unchanged DEF IInv
  <2> QED BY <1>1, <2>1, <2>2 DEF IInv
<1>4. ASSUME NEW a \in Admin, Step(a) \/ CallFails(a) \/ \E f \in Function : Call(a, f)
      PROVE  IInv'
  <2>1. ServiceInv'
    BY <1>4, AdminKeepsService
  <2>2. DatabaseInv'
    BY <1>4, CallKeeps, InstallKeeps, UseKeeps, RemovalKeeps DEF Step, IInv
  <2> QED BY <2>1, <2>2 DEF IInv
<1>5. CASE Purge
  BY <1>5, RemovalKeeps, ServicePurged DEF IInv
<1> QED BY <1>2, <1>3, <1>4, <1>5 DEF Next

LEMMA IInvAlways == Spec => []IInv
BY InitEstablishesIInv, StepKeepsIInv, PTL DEF Spec
-----------------------------------------------------------------------------
\* Every variable has its type, and stop_service never waits longer than told.
THEOREM ScmTypeCorrect == Spec => []TypeOK
<1>1. IInv => TypeOK
  BY DEF IInv, ServiceInv, DatabaseInv, DatabaseTypes, TypeOK
<1> QED BY <1>1, IInvAlways, PTL

\* While the SCM shows a CServiceBase service as starting, pausing, continuing or
\* stopping, one of its two threads is on its way to report how that ended: all but
\* the START_PENDING that a failing Stop() restores after Start() has reported in the
\* middle of it.
THEOREM PendingHasAnEnd == Spec => []PendingIsWorkedOn
<1>1. ASSUME IInv, kind = "win32"
      PROVE  /\ state = "START_PENDING" => main \notin {"none", "done"} \/ crossed
             /\ state \in {"PAUSE_PENDING", "CONTINUE_PENDING", "STOP_PENDING"} =>
                  handler # NoControl
  <2>1. CASE process = FALSE
    BY <1>1, <2>1 DEF IInv, ServiceInv, Down
  <2>2. CASE process = TRUE
    BY <1>1, <2>2 DEF IInv, ServiceInv, Up, Restorable, Announced
  <2> QED BY <1>1, <2>1, <2>2 DEF IInv, ServiceInv, ServiceTypeOK
<1>2. IInv /\ TypeOK => PendingIsWorkedOn
  BY <1>1 DEF PendingIsWorkedOn
<1> QED BY <1>2, IInvAlways, ScmTypeCorrect, PTL

\* When neither thread is about to report, the SCM shows what the service does,
\* whatever controls came, in whatever order, and whichever of them failed -- unless
\* Start() and a control have reported across each other, or the last PAUSE or CONTINUE
\* failed in a service that was paused or running already.
THEOREM ReportsAreTrue == Spec => []ReportIsTrue
<1>1. IInv => ReportIsTrue
  BY DEF IInv, ServiceInv, ServiceTypeOK, Up, Reported, Told, ReportIsTrue
<1> QED BY <1>1, IInvAlways, PTL

\* An installed filter has its driver and its keys, unless an installation is under
\* way or has failed half-way.
THEOREM FilterIsComplete == Spec => []InstalledIsComplete
<1>1. IInv => InstalledIsComplete
  BY DEF IInv, DatabaseInv
<1> QED BY <1>1, IInvAlways, PTL

\* A service that is gone has left no key behind, for any number of programs that
\* install and remove it at the same time.
THEOREM KeysGoWithTheService == Spec => []NoOrphanKeys
<1>1. IInv => NoOrphanKeys
  BY DEF IInv, DatabaseInv
<1> QED BY <1>1, IInvAlways, PTL
=============================================================================
