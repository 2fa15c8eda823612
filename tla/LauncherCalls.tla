--------------------------- MODULE LauncherCalls ---------------------------
(***************************************************************************)
(* Starting a process in a session, with the rights asked for:             *)
(* src/ProcessLauncher.cpp.  A token is looked for in the processes of the *)
(* session, an environment is made for it, the process is created, with a  *)
(* fallback for most of the calls.  scoped_handle and scoped_environment   *)
(* are the guards.                                                         *)
(***************************************************************************)
EXTENDS CallSteps, TLC

validate_session_id ==
  [begin |-> Either("console", "enumerate"),
   console |-> Deed("true", "false"),
   enumerate |-> Take("session_info", "session", "false"),
   session |-> Deed("free", "none"),
   free  |-> Give("session_info", "true"),
   none  |-> Give("session_info", "false")]

is_token_in_admin_group ==
  [begin |-> Take("admin_group_sid", "check", "false"),
   check |-> Deed("free", "failed"),
   free  |-> Give("admin_group_sid", "true"),
   failed |-> Give("admin_group_sid", "false")]

has_linked_token ==
  [begin |-> Deed("kind", "false"),
   kind  |-> Either("linked", "true"),
   linked |-> Take("LinkedToken", "close", "true"),
   close |-> Give("LinkedToken", "true")]

create_user_environment_for_token ==
  [begin |-> Must(Take("env_block", "hand", "false")), hand |-> Hand("env_block", "true")]

create_user_environment_for_session ==
  [begin |-> Do("validate_session_id", "token", "false"),
   token |-> Do("get_token_from_session", "ward", "free"),
   free  |-> Free("out_token", "false"),
   ward  |-> Ward("out_token", "environment"),
   environment |-> Must(Relay("create_user_environment_for_token", "true", "false"))]

create_session_bound_system_token ==
  [begin |-> Do("validate_session_id", "current", "false"),
   current |-> Guard("current_token", "duplicate", "false"),
   duplicate |-> Guard("out_token", "session", "false"),
   session |-> Deed("release", "false"),
   release |-> Unguard("out_token", "hand"),
   hand  |-> Hand("out_token", "true")]

\* The callback for a process with the name looked for: "false" is to go on looking.
\* A token that cannot be bound to the session stays in the caller's variable, where
\* the next process overwrites it.
token_of_process ==
  [begin |-> Guard("proc_handle", "open", "false"),
   open  |-> Guard("proc_token", "level", "false"),
   level |-> Either("linked", "duplicate"),
   linked |-> Take("LinkedToken", "duplicateLinked", "false"),
   duplicateLinked |-> Must(Take("out_token", "closeLinked", "refused")),
   closeLinked |-> Give("LinkedToken", "hand"),
   refused |-> Give("LinkedToken", "false"),
   duplicate |-> Take("out_token", "session", "false"),
   session |-> Deed("hand", "left"),
   left  |-> Hand("out_token", "false"),
   hand  |-> Hand("out_token", "true")]

get_token_from_process_tree ==
  [begin |-> Either("process", "false"),
   process |-> Attempt(Relay("token_of_process", "true", "begin"))]

get_token_from_session ==
  [begin |-> Do("build_process_tree", "find", "false"),
   find  |-> Must(Relay("get_token_from_process_tree", "true", "false"))]

\* SYSTEM: its own token; otherwise one of explorer.exe, then of winlogon.exe.
acquire_execution_token ==
  [begin |-> Either("system", "tree"),
   system |-> Must(Relay("create_session_bound_system_token", "true", "false")),
   tree  |-> Do("build_process_tree", "explorer", "false"),
   explorer |-> Attempt(Relay("get_token_from_process_tree", "true", "winlogon")),
   winlogon |-> Attempt(Relay("get_token_from_process_tree", "true", "false"))]

\* With the environment, without it, and without the desktop too.
create_process_internal ==
  [begin |-> Attempt(Take("pi", "hand", "environment")),
   environment |-> Either("without", "bare"),
   without |-> Attempt(Take("pi", "hand", "bare")),
   bare  |-> Attempt(Take("pi", "hand", "false")),
   hand  |-> Hand("pi", "true")]

\* What cannot be found out about the user is left empty.
analyze_session_capabilities ==
  [begin |-> Do("validate_session_id", "token", "false"),
   token |-> Must(Do("get_token_from_session", "ward", "free")),
   free  |-> Free("out_token", "false"),
   ward  |-> Ward("out_token", "admin"),
   admin |-> Do("is_token_in_admin_group", "link", "link"),
   link  |-> Do("has_linked_token", "user", "user"),
   user  |-> Call("sid", "true"),
   sid   |-> Take("sid_string", "freeSid", "name"),
   freeSid |-> Give("sid_string", "name"),
   name  |-> Call("true", "true")]

\* Without an environment it goes on.  The wait is for ever; when it fails the handles
\* stay in the response, and the result is false.
launch_process ==
  [begin |-> Call("validate", "false"),
   validate |-> Do("validate_session_id", "token", "false"),
   token |-> Do("acquire_execution_token", "ward", "free"),
   free  |-> Free("out_token", "false"),
   ward  |-> Ward("out_token", "environment"),
   environment |-> Either("user_env", "create"),
   user_env |-> Do("create_user_environment_for_token", "wardEnv", "create"),
   wardEnv |-> Ward("env_block", "create"),
   create |-> Must(Relay("create_process_internal", "wait", "false")),
   wait  |-> Either("exited", "true"),
   exited |-> Call("code", "false"),
   code  |-> Call("true", "true")]

\* The two simple forms.  Without pi they close the handles, but only of a process
\* whose exit was waited for, or not to be waited for.
Launched == [begin |-> Must(Do("launch_process", "wanted", "false")),
             wanted |-> Either("hand", "close"),
             hand  |-> Hand("pi", "true"),
             close |-> Give("pi", "true")]

launch_process_simple == Launched
launch_process_ex == Launched

launch_process_local ==
  [begin |-> Guard("cmdline_buf", "copy", "false"),
   copy  |-> Call("create", "false"),
   create |-> Must(Take("process", "thread", "false")),
   thread |-> New("thread", "close"),
   close |-> Give("thread", "hand"),
   hand  |-> Hand("process", "true")]

\* On a timeout, or any other answer of the wait, the process is ended.
launch_process_local_and_wait ==
  [begin |-> Do("launch_process_local", "wait", "false"),
   wait  |-> Deed("code", "terminate"),
   terminate |-> Call("refused", "refused"),
   refused |-> Give("process", "false"),
   code  |-> Call("close", "close"),
   close |-> Give("process", "true")]
-----------------------------------------------------------------------------
LauncherBodies ==
  [validate_session_id |-> validate_session_id,
   is_token_in_admin_group |-> is_token_in_admin_group,
   has_linked_token |-> has_linked_token,
   create_user_environment_for_token |-> create_user_environment_for_token,
   create_user_environment_for_session |-> create_user_environment_for_session,
   create_session_bound_system_token |-> create_session_bound_system_token,
   token_of_process |-> token_of_process,
   get_token_from_process_tree |-> get_token_from_process_tree,
   get_token_from_session |-> get_token_from_session,
   acquire_execution_token |-> acquire_execution_token,
   create_process_internal |-> create_process_internal,
   analyze_session_capabilities |-> analyze_session_capabilities,
   launch_process |-> launch_process, launch_process_simple |-> launch_process_simple,
   launch_process_ex |-> launch_process_ex,
   launch_process_local |-> launch_process_local,
   launch_process_local_and_wait |-> launch_process_local_and_wait]
=============================================================================
