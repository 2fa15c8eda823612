----------------------------- MODULE ScmContext -----------------------------
(***************************************************************************)
(* The functions of scm_context (src/scm_context.cpp) with which programs  *)
(* install, start, stop and remove one named service, several of them at   *)
(* the same time.  Every call of the SCM, of the registry or of the file   *)
(* system is a step, and each one may fail.                                *)
(*                                                                         *)
(* The service is a process built on CServiceBase, or a file system filter *)
(* driver.  Argument checks and io_control/open_driver are left out.       *)
(***************************************************************************)
EXTENDS ServiceBase

CONSTANTS Admin,           \* the threads that call scm_context
          wait_for_n_secs, \* how often stop_service looks, a second apart
          MaxCalls         \* bound of the model: how many calls are made

ASSUME ScmAssumption == wait_for_n_secs \in Nat /\ MaxCalls \in Nat

VARIABLES entry,   \* the service in the SCM: "absent", "present" or "marked"
          kind,    \* what was installed: "none", "win32" or "filter"
          keys,    \* values of a filter's Instances keys: "none", "first", "all"
          driver,  \* the driver file in system32\drivers exists
          broken,  \* since the entry was created: an install_fs_filter failed half-way
          call,    \* the function each thread is in
          pc,      \* where it is there, or what it returned last
          waited,  \* wait_for_secs
          calls

database == <<entry, kind, keys, driver, broken>>
vars == <<service, database, call, pc, waited, calls>>

Function == {"install_win32_service", "install_fs_filter", "uninstall_service",
             "start_service", "stop_service"}

Return == {"true", "false"}

Goto(a, from, to) == pc[a] = from /\ pc' = [pc EXCEPT ![a] = to]

\* Most steps leave everything else alone.
Only(a) == UNCHANGED <<service, database, call, waited, calls>>

\* The service is not there, or has been installed before.
Init == /\ InitService
        /\ \/ /\ entry = "absent" /\ kind = "none" /\ keys = "none"
              /\ driver \in BOOLEAN
           \/ /\ entry = "present" /\ kind = "win32" /\ keys = "none"
              /\ driver = FALSE
           \/ /\ entry = "present" /\ kind = "filter" /\ keys = "all"
              /\ driver = TRUE
        /\ broken = FALSE
        /\ call = [a \in Admin |-> "none"]
        /\ pc = [a \in Admin |-> "true"]
        /\ waited = [a \in Admin |-> 0]
        /\ calls = 0

Call(a, f) == /\ pc[a] \in Return
              /\ calls < MaxCalls
              /\ calls' = calls + 1
              /\ call' = [call EXCEPT ![a] = f]
              /\ pc' = [pc EXCEPT ![a] = "installed?"]
              /\ waited' = [waited EXCEPT ![a] = 0]
              /\ UNCHANGED <<service, database>>

\* Whatever stop_service returns, uninstall_service carries on.
StopReturns(a, ok) == IF call[a] = "uninstall_service" THEN "delete open" ELSE ok

InStop == {"stop open", "control", "stop query"}

\* Any call of Windows may fail, which ends the function with false.  That of
\* service_installed and of service_started is taken for a no, and has its
\* place there.
CallFails(a) ==
  /\ pc[a] \in InStop \union {"old file", "copy", "create", "first key", "second key",
                             "open", "start", "query", "delete open", "delete"}
  /\ Goto(a, pc[a], IF pc[a] \in InStop THEN StopReturns(a, "false") ELSE "false")
  /\ broken' = (broken \/ pc[a] \in {"copy", "first key", "second key"})
  /\ UNCHANGED <<service, entry, kind, keys, driver, call, waited, calls>>
-----------------------------------------------------------------------------
(* service_installed and service_started *)

\* Where the functions go on when the service is, and is not, installed.
IfInstalled(a) == CASE call[a] \in {"install_win32_service", "install_fs_filter"} -> "true"
                    [] call[a] = "uninstall_service" -> "stop installed?"
                    [] call[a] = "start_service"     -> "started?"
                    [] call[a] = "stop_service"      -> "stop started?"

IfNotInstalled(a) == CASE call[a] = "install_win32_service" -> "create"
                       [] call[a] = "install_fs_filter"     -> "old file"
                       [] call[a] = "start_service"         -> "false"
                       [] OTHER                             -> "true"

service_installed(a) == /\ \/ entry # "absent" /\ Goto(a, "installed?", IfInstalled(a))
                           \/ Goto(a, "installed?", IfNotInstalled(a))
                        /\ Only(a)

service_started(a) == /\ \/ state = "RUNNING" /\ Goto(a, "started?", "true")
                         \/ Goto(a, "started?", "open")
                      /\ Only(a)
-----------------------------------------------------------------------------
(* install_win32_service and install_fs_filter *)

\* Either the path to install is that of the driver file itself, or the file of
\* an earlier version is deleted; a loaded one cannot be.
DeleteOldFile(a) ==
  /\ LET loaded == driver /\ kind = "filter" /\ state # "STOPPED"
     IN  \/ driver /\ Goto(a, "old file", "create") /\ UNCHANGED driver
         \/ /\ Goto(a, "old file", IF loaded THEN "false" ELSE "copy")
            /\ driver' = loaded
  /\ UNCHANGED <<service, entry, kind, keys, broken, call, waited, calls>>

\* CopyFile with bFailIfExists: another thread may have been faster.
CopyDriver(a) == /\ Goto(a, "copy", IF driver THEN "false" ELSE "create")
                 /\ driver' = TRUE
                 /\ UNCHANGED <<service, entry, kind, keys, broken, call, waited, calls>>

CreateService(a) ==
  /\ \/ /\ entry = "absent" /\ call[a] = "install_win32_service"
        /\ entry' = "present" /\ kind' = "win32" /\ broken' = FALSE
        /\ Goto(a, "create", "true")
     \/ /\ entry = "absent" /\ call[a] = "install_fs_filter"
        /\ entry' = "present" /\ kind' = "filter" /\ broken' = ~driver
        /\ Goto(a, "create", "first key")
     \/ /\ entry # "absent"
        /\ Goto(a, "create", "false")
        /\ UNCHANGED <<entry, kind, broken>>
  /\ UNCHANGED <<service, keys, driver, call, waited, calls>>

\* Mutant: the second pair of values is forgotten.
SetInstanceKeyOnly(a) ==
  /\ Goto(a, "first key", "true")
  /\ keys' = "first"
  /\ UNCHANGED <<service, entry, kind, driver, broken, call, waited, calls>>

\* RUCreateKey makes the key, or opens the one that is there.
SetInstanceKey(a) ==
  /\ Goto(a, "first key", "second key")
  /\ keys' = "first"
  /\ UNCHANGED <<service, entry, kind, driver, broken, call, waited, calls>>

SetAltitudeKey(a) ==
  /\ Goto(a, "second key", "true")
  /\ keys' = "all"
  /\ UNCHANGED <<service, entry, kind, driver, broken, call, waited, calls>>
-----------------------------------------------------------------------------
(* start_service *)

OpenToStart(a) == /\ Goto(a, "open", IF entry = "absent" THEN "false" ELSE "start")
                  /\ Only(a)

\* StartService refuses a marked service, one whose last process has not ended
\* and a driver without a file; a service that runs already is as good as started.
StartService(a) ==
  LET startable == entry = "present" /\ ~process /\ (kind = "filter" => driver)
  IN  /\ \/ /\ state = "STOPPED" /\ startable
            /\ IF kind = "win32" THEN Launch
               ELSE state' = "RUNNING" /\ UNCHANGED <<process, main, handler, doing, history>>
            /\ Goto(a, "start", "query")
         \/ state = "STOPPED" /\ ~startable /\ Goto(a, "start", "false") /\ UNCHANGED service
         \/ state # "STOPPED" /\ Goto(a, "start", "query") /\ UNCHANGED service
      /\ UNCHANGED <<database, call, waited, calls>>

\* while (START_PENDING) Sleep(1000): no bound on the wait.
QueryStarted(a) == /\ state # "START_PENDING"
                   /\ Goto(a, "query", IF state = "RUNNING" THEN "true" ELSE "false")
                   /\ Only(a)
-----------------------------------------------------------------------------
(* stop_service, called by itself or by uninstall_service *)

stop_installed(a) ==
  /\ \/ entry # "absent" /\ Goto(a, "stop installed?", "stop started?")
     \/ Goto(a, "stop installed?", StopReturns(a, "true"))
  /\ Only(a)

stop_started(a) ==
  /\ \/ state = "RUNNING" /\ Goto(a, "stop started?", "stop open")
     \/ Goto(a, "stop started?", StopReturns(a, "true"))
  /\ Only(a)

OpenToStop(a) ==
  /\ Goto(a, "stop open", IF entry = "absent" THEN StopReturns(a, "false") ELSE "control")
  /\ Only(a)

\* ControlService(SERVICE_CONTROL_STOP) reaches a service that accepts it and is
\* not busy with another control, START_PENDING or not; otherwise the SCM
\* refuses it, at once or when it has waited long enough.  A driver somebody
\* holds stays in STOP_PENDING.
ControlService(a) ==
  /\ \/ kind = "win32" /\ Deliver("stop") /\ Goto(a, "control", "controlling")
     \/ /\ kind = "filter" /\ state = "RUNNING"
        /\ state' \in {"STOPPED", "STOP_PENDING"}
        /\ UNCHANGED <<process, main, handler, doing, history>>
        /\ Goto(a, "control", "stop query")
     \/ /\ IF kind = "win32" THEN ~Accepts("stop") ELSE state # "RUNNING"
        /\ Goto(a, "control", StopReturns(a, "false"))
        /\ UNCHANGED service
  /\ UNCHANGED <<database, call, waited, calls>>

\* The handler has returned, or the process died, or the SCM gave up waiting.
ControlReturns(a) ==
  /\ \/ handler.op # "stop" /\ Goto(a, "controlling", "stop query")
     \/ Goto(a, "controlling", StopReturns(a, "false"))
  /\ Only(a)

StopAnswer(a) == StopReturns(a, IF state = "STOPPED" THEN "true" ELSE "false")

\* Sleep(1000) and look again, or stop waiting and tell what was seen last.
QueryStopped(a) ==
  /\ IF state = "STOP_PENDING" /\ waited[a] < wait_for_n_secs
     THEN /\ Goto(a, "stop query", "stop query")
          /\ waited' = [waited EXCEPT ![a] = @ + 1]
     ELSE /\ Goto(a, "stop query", StopAnswer(a))
          /\ UNCHANGED waited
  /\ UNCHANGED <<service, database, call, calls>>
-----------------------------------------------------------------------------
(* uninstall_service, after stop_service *)

OpenToDelete(a) ==
  /\ Goto(a, "delete open", IF entry = "absent" THEN "false" ELSE "delete")
  /\ Only(a)

\* ERROR_SERVICE_MARKED_FOR_DELETE counts as success.
DeleteService(a) == /\ entry' = "marked"
                    /\ Goto(a, "delete", "true")
                    /\ UNCHANGED <<service, kind, keys, driver, broken, call, waited, calls>>

\* Mutant: install_fs_filter closes its handle after CreateService.
HandlesWithoutInstall ==
  {a \in Admin : pc[a] \in {"start", "query", "control", "controlling",
                            "stop query", "delete"}}

\* The threads that hold a handle of the service: all handles are closed when
\* the function that has opened them returns.
Handles == {a \in Admin : pc[a] \in {"start", "query", "control", "controlling",
                                     "stop query", "delete", "first key", "second key"}}

\* A marked service disappears, its registry keys too, once it has stopped and
\* nobody holds a handle.
Purge == /\ entry = "marked" /\ state = "STOPPED" /\ ~process /\ Handles = {}
         /\ entry' = "absent" /\ kind' = "none" /\ keys' = "none"
         /\ broken' = FALSE
         /\ UNCHANGED <<service, driver, call, pc, waited, calls>>

\* The holder of a driver lets it go.
DriverUnloads == /\ kind = "filter" /\ state = "STOP_PENDING"
                 /\ state' = "STOPPED"
                 /\ UNCHANGED <<process, main, handler, doing, history>>
-----------------------------------------------------------------------------
Step(a) == \/ service_installed(a) \/ service_started(a)
           \/ DeleteOldFile(a) \/ CopyDriver(a) \/ CreateService(a)
           \/ SetInstanceKey(a) \/ SetAltitudeKey(a)
           \/ OpenToStart(a) \/ StartService(a) \/ QueryStarted(a)
           \/ stop_installed(a) \/ stop_started(a) \/ OpenToStop(a)
           \/ ControlService(a) \/ ControlReturns(a) \/ QueryStopped(a)
           \/ OpenToDelete(a) \/ DeleteService(a)

\* What the service does and what others do to it.
ServiceNext == \/ ServiceStep \/ Dies \/ DriverUnloads
               \/ \E c \in {"pause", "continue", "shutdown"} : Deliver(c)

Environment == UNCHANGED <<database, call, pc, waited, calls>>

Next == \/ \E a \in Admin : \/ \E f \in Function : Call(a, f)
                            \/ Step(a) \/ CallFails(a)
        \/ ServiceNext /\ Environment
        \/ Purge

Spec == Init /\ [][Next]_vars

\* The callers and the threads of the service are scheduled and the On..
\* methods come to an end.  Nothing fails because it has to, nobody has to kill
\* the service or to send it controls, and a driver may be held for ever.
Fairness == /\ \A a \in Admin : WF_vars(Step(a))
            /\ WF_vars(ServiceMain /\ Environment)
            /\ WF_vars(ServiceCtrlHandler /\ Environment)
            /\ WF_vars(Exits /\ Environment)

FairSpec == Spec /\ Fairness
-----------------------------------------------------------------------------
PC == Return \union InStop \union
      {"installed?", "started?", "old file", "copy", "create", "first key", "second key",
       "open", "start", "query", "stop installed?", "stop started?", "controlling",
       "delete open", "delete"}

\* Every variable has its type; stop_service never waits longer than it was told.
TypeOK == /\ ServiceTypeOK
          /\ entry \in {"absent", "present", "marked"}
          /\ kind \in {"none", "win32", "filter"}
          /\ keys \in {"none", "first", "all"}
          /\ driver \in BOOLEAN /\ broken \in BOOLEAN
          /\ call \in [Admin -> Function \union {"none"}]
          /\ pc \in [Admin -> PC]
          /\ waited \in [Admin -> 0..wait_for_n_secs]
          /\ calls \in 0..MaxCalls
          /\ entry = "absent" <=> kind = "none"

\* A pending state is one that somebody works on: as long as the SCM is told
\* that a CServiceBase service starts, pauses, continues or stops, a thread is
\* about to report the end of that, exceptions included.  Only a Stop() that
\* fails after Start() has reported in the middle of it restores START_PENDING
\* for good.
PendingIsWorkedOn ==
  /\ TypeOK
  /\ kind = "win32" =>
    /\ state = "START_PENDING" => main \notin {"none", "done"} \/ crossed
    /\ state \in {"PAUSE_PENDING", "CONTINUE_PENDING", "STOP_PENDING"} =>
         handler # NoControl

\* When no thread of the service is about to report anything, the SCM's picture
\* is what the service really does, whatever failed and in whatever order --
\* unless Start() and a control have reported across each other, or Continue()
\* has failed in a running service, or Pause() in a paused one: their catch
\* blocks take the state before for granted.
ReportIsTrue ==
  process /\ main = "done" /\ handler = NoControl /\ ~crossed /\ ~idle_failure =>
    CASE doing = "working" -> state = "RUNNING"
      [] doing = "paused"  -> state = "PAUSED"
      [] OTHER             -> state = "STOPPED"

\* An installed filter has its driver file and both keys, unless somebody is
\* still installing or an installation has failed half-way -- which later calls
\* of install_fs_filter do not repair.
InstalledIsComplete ==
  entry = "present" /\ kind = "filter" /\ ~broken =>
    /\ driver \/ \E a \in Admin : pc[a] = "copy"
    /\ keys = "all" \/ \E a \in Admin : pc[a] \in {"first key", "second key"}

\* A service that is gone has left no key in the registry: an installation
\* still under way keeps the service alive while it writes its keys.
NoOrphanKeys == entry = "absent" => keys = "none"

\* A Stop() has put START_PENDING back after Start() had reported.
StuckInStart == state = "START_PENDING" /\ crossed

\* Every function returns, also when the service is started, stopped, killed
\* and removed by others meanwhile.  The loop of start_service has no bound: it
\* ends because Start() always reports how OnStart ended, unless START_PENDING
\* is put back then and stays for ever.
CallsReturn == (<>[]StuckInStart) \/ \A a \in Admin : pc[a] \notin Return ~> pc[a] \in Return
=============================================================================
