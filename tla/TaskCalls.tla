----------------------------- MODULE TaskCalls -----------------------------
(***************************************************************************)
(* The clients of WMI and of the task scheduler, and the thread contexts:  *)
(* src/wmi_client.cpp, sched_client.cpp, ThreadManager.cpp.                *)
(*                                                                         *)
(* A client is an object with two or three members.  _initialized is true  *)
(* exactly while the client keeps the apartment it has entered with        *)
(* CoInitializeEx: both are the member "com" here.                         *)
(***************************************************************************)
EXTENDS CallSteps, TLC

\* CoInitializeSecurity refuses a second time, which is no error.
Entering(com, steps) == [begin    |-> Take(com, "security", "false"),
                         security |-> Call("create", "leave"),
                         leave    |-> Give(com, "false")] @@ steps

\* Each call that fails releases what the calls before it have made.
WmiInitialize ==
  Entering("wmi.com",
    [create  |-> Create("wmi._locator", "connect", "leave"),
     connect |-> Use("wmi._locator", "service", "release"),
     service |-> Create("wmi._svc", "blanket", "release"),
     blanket |-> Use("wmi._svc", "keep", "drop"),
     drop    |-> Drop("wmi._svc", "null"),
     null    |-> Null("wmi._svc", "release"),
     release |-> Drop("wmi._locator", "forget"),
     forget  |-> Null("wmi._locator", "leave"),
     keep    |-> Keep("wmi.com", "true")])

WmiFinalize ==
  [begin    |-> Test("wmi.com", "service", "true"),
   service  |-> Drop("wmi._svc", "locator"),
   locator  |-> Drop("wmi._locator", "null"),
   null     |-> Null("wmi._svc", "forget"),
   forget   |-> Null("wmi._locator", "leave"),
   leave    |-> Drop("wmi.com", "clear"),
   clear    |-> Null("wmi.com", "true")]

\* The enumerator is the caller's.
WmiQuery ==
  [begin |-> Test("wmi.com", "exec", "false"),
   exec  |-> Use("wmi._svc", "rows", "false"),
   rows  |-> Must(Take("enumerator", "hand", "false")),
   hand  |-> Hand("enumerator", "true")]
-----------------------------------------------------------------------------
(* The task scheduler *)

SchedEntering ==
  Entering("sched.com",
    [create  |-> Create("sched._svc", "connect", "leave"),
     connect |-> Use("sched._svc", "keep", "drop"),
     drop    |-> Drop("sched._svc", "null"),
     null    |-> Null("sched._svc", "leave"),
     keep    |-> Keep("sched.com", "true")])

\* Mutant: initialised twice, as WmiClient can be.
SchedInitializeAgain == SchedEntering

\* Nothing to do when it is initialised.
SchedInitialize ==
  [SchedEntering EXCEPT !.begin = Test("sched.com", "true", "enter")]
    @@ [enter |-> SchedEntering.begin]

SchedFinalize ==
  [begin |-> Test("sched.com", "service", "true"),
   service |-> Test("sched._svc", "drop", "leave"),
   drop  |-> Drop("sched._svc", "null"),
   null  |-> Null("sched._svc", "leave"),
   leave |-> Drop("sched.com", "clear"),
   clear |-> Null("sched.com", "true")]

\* Every public method; the do { } while (false) of the code ends at out, where what
\* has been got is released and ret is returned.
Initialized(steps) == [begin |-> Test("sched.com", "start", "false")] @@ steps

create_daily_task == Initialized(
  [start    |-> Do("get_folder_info", "task", "out"),
   task     |-> Use("sched._svc", "definition", "out"),
   definition |-> Take("definition", "registration", "out"),
   registration |-> Take("registration_info", "triggers", "out"),
   triggers |-> Take("trigger_collection", "trigger", "out"),
   trigger  |-> Do("make_daily_trigger", "actions", "out"),
   actions  |-> Do("make_actions", "register", "out"),
   register |-> Must(Take("registered_task", "out", "out")),
   out      |-> Free("folder", "out2"),
   out2     |-> Free("definition", "out3"),
   out3     |-> Free("registration_info", "out4"),
   out4     |-> Free("trigger_collection", "out5"),
   out5     |-> Free("registered_task", "ret")])

remove_task == Initialized(
  [start |-> Do("get_folder_info", "delete", "out"),
   delete |-> Deed("out", "out"),
   out   |-> Free("folder", "ret")])

change_task_status == Initialized(
  [start |-> Do("get_task_register_info", "enable", "out"),
   enable |-> Deed("out", "out"),
   out   |-> Free("registered_task", "ret")])

is_task_existW == Initialized(
  [start |-> Must(Do("get_task_register_info", "out", "false")),
   out   |-> Free("registered_task", "true")])

\* True when a path was read of any of the actions.
get_task_action_exec_programs == Initialized(
  [start |-> Do("get_task_register_info", "definition", "out"),
   definition |-> Take("definition", "actions", "out"),
   actions |-> Take("action_collection", "action", "out"),
   action |-> Either("item", "out"),
   item  |-> Take("action", "exec", "action"),
   exec  |-> Take("exec_action", "path", "skip"),
   path  |-> Must(Take("path", "string", "release")),
   string |-> Give("path", "release"),
   release |-> Give("exec_action", "skip"),
   skip  |-> Give("action", "action"),
   out   |-> Free("registered_task", "out2"),
   out2  |-> Free("definition", "out3"),
   out3  |-> Free("action_collection", "ret")])

make_daily_trigger == Initialized(
  [start |-> Take("trigger", "daily", "out"),
   daily |-> Take("daily_trigger", "boundary", "out"),
   boundary |-> Call("days", "out"),
   days  |-> Call("enabled", "out"),
   enabled |-> Call("repetition", "out"),
   repetition |-> Take("repetition", "duration", "out"),
   duration |-> Call("interval", "out"),
   interval |-> Deed("out", "out"),
   out   |-> Free("trigger", "out2"),
   out2  |-> Free("daily_trigger", "out3"),
   out3  |-> Free("repetition", "ret")])

make_actions == Initialized(
  [start |-> Take("action_collection", "create", "out"),
   create |-> Take("action", "exec", "out"),
   exec  |-> Take("exec_action", "path", "out"),
   path  |-> Call("arguments", "out"),
   arguments |-> Deed("out", "out"),
   out   |-> Free("action_collection", "out2"),
   out2  |-> Free("exec_action", "out3"),
   out3  |-> Free("action", "ret")])

\* These two do not ask whether the client is initialised: their callers have.
get_folder_info ==
  [begin |-> Use("sched._svc", "folder", "false"),
   folder |-> Must(Take("folder", "hand", "false")),
   hand  |-> Hand("folder", "true")]

get_task_register_info ==
  [begin |-> Do("get_folder_info", "task", "out"),
   task  |-> Must(Take("registered_task", "hand", "out")),
   hand  |-> Hand("registered_task", "out"),
   out   |-> Free("folder", "ret")]
-----------------------------------------------------------------------------
(* Thread contexts: the context, its kill event and its thread *)

\* Without the thread the event is not closed.
CreateThreadContext ==
  [begin |-> Take("ctx", "event", "false"),
   event |-> Take("KillEvent", "thread", "free"),
   thread |-> Must(Take("ThreadHandle", "handThread", "free")),
   free  |-> Give("ctx", "false"),
   handThread |-> Hand("ThreadHandle", "handEvent"),
   handEvent |-> Hand("KillEvent", "handCtx"),
   handCtx |-> Hand("ctx", "true")]

\* The thread itself may not end its context.  The thread is told, and waited for when
\* it is alive; its handle is not closed.
DestroyThreadContext ==
  [begin |-> Either("false", "ctx"),
   ctx   |-> Receive("ctx", "event"),
   event |-> Receive("KillEvent", "thread"),
   thread |-> Receive("ThreadHandle", "code"),
   code  |-> Call("alive", "close"),
   alive |-> Either("wait", "close"),
   wait  |-> Call("close", "close"),
   close |-> Give("KillEvent", "free"),
   free  |-> Give("ctx", "true")]
-----------------------------------------------------------------------------
TaskBodies ==
  [WmiInitialize |-> WmiInitialize, WmiFinalize |-> WmiFinalize, WmiQuery |-> WmiQuery,
   SchedInitialize |-> SchedInitialize, SchedFinalize |-> SchedFinalize,
   create_daily_task |-> create_daily_task, remove_task |-> remove_task,
   change_task_status |-> change_task_status, is_task_existW |-> is_task_existW,
   get_task_action_exec_programs |-> get_task_action_exec_programs,
   make_daily_trigger |-> make_daily_trigger, make_actions |-> make_actions,
   get_folder_info |-> get_folder_info, get_task_register_info |-> get_task_register_info,
   CreateThreadContext |-> CreateThreadContext, DestroyThreadContext |-> DestroyThreadContext]

\* The private methods of SchedClient.
PrivateTasks == {"make_daily_trigger", "make_actions", "get_folder_info", "get_task_register_info"}
=============================================================================
