---------------------------- MODULE ProcessCalls ----------------------------
(* Processes, tokens and privileges: src/Win32Utils.cpp, Wow64Util.cpp,
   and the tree of processes: process_tree.cpp. *)
EXTENDS CallSteps, TLC

\* set_privilege(privilege, enable, auto_revert): in the token of the thread or, with
\* none, in one made for it; ok and failed are where the guard of that one goes on.
SetPrivilege(adjust(_, _), ok, failed) ==
  [begin       |-> HasToken("open", "impersonate"),
   open        |-> Guard("token", "lookup", "false"),
   lookup      |-> Call("adjust", "false"),
   adjust      |-> Must(adjust("true", "false")),
   impersonate |-> Impersonate("openOwn", "false"),
   openOwn     |-> Guard("token", "lookupOwn", "revert"),
   lookupOwn   |-> Call("adjustOwn", failed),
   adjustOwn   |-> Must(adjust(ok, failed)),
   revert      |-> Revert("false"),
   reverted    |-> Revert("true")]

\* Mutant: reverts also the token the thread had before.
set_privilege_from_any ==
  [SetPrivilege(Enable, "true", "false") EXCEPT !.lookup = Call("adjust", "revert")]

set_privilege           == SetPrivilege(Enable, "true", "false")
clear_privilege         == SetPrivilege(Disable, "true", "false")
set_privilege_reverting == SetPrivilege(Enable, "reverted", "revert")

\* The privilege is not given back: auto_revert is FALSE here.
execute_with_debug_privilege ==
  [begin |-> Do("set_privilege", "func", "func"),
   func  |-> Deed("true", "false")]

\* OpenProcess, and once more with SE_DEBUG_NAME.
Opened(act, again, steps) ==
  [begin |-> Take("process", act, "debug"),
   debug |-> Do("set_privilege", "again", "false"),
   again |-> again] @@ steps

suspend_process_by_handle == [begin |-> Call("suspend", "false"), suspend |-> Deed("true", "false")]
resume_process_by_handle == [begin |-> Call("resume", "false"), resume |-> Deed("true", "false")]
terminate_process_by_handle == [begin |-> Deed("true", "false")]

suspend_process_by_pid ==
  Opened("suspend", Take("process", "suspend", "false"),
    [suspend |-> Must(Do("suspend_process_by_handle", "close", "close")),
     close   |-> Give("process", "true")])

\* The privilege is taken away again, also when the caller had set it.
resume_process_by_pid ==
  Opened("resume", Take("process", "clear", "failed"),
    [clear  |-> Do("clear_privilege", "resume", "resume"),
     failed |-> Do("clear_privilege", "false", "false"),
     resume |-> Must(Do("resume_process_by_handle", "close", "close")),
     close  |-> Give("process", "true")])

\* Mutant: the handle is closed on success only.
terminate_without_close ==
  Opened("terminate", Take("process", "terminate", "false"),
    [terminate |-> Must(Do("terminate_process_by_handle", "close", "false")),
     close     |-> Give("process", "true")])

terminate_process_by_pid ==
  Opened("terminate", Take("process", "terminate", "false"),
    [terminate |-> Must(Do("terminate_process_by_handle", "close", "refused")),
     close     |-> Give("process", "true"),
     refused   |-> Give("process", "false")])

is_process_alive ==
  [begin |-> Either("debug", "open"),
   debug |-> Do("set_privilege", "open", "open"),
   open  |-> Guard("process", "code", "false"),
   code  |-> Call("active", "false"),
   active |-> Deed("true", "false")]

get_process_creation_time_of_handle == [begin |-> Deed("true", "false")]

get_process_creation_time ==
  Opened("ward", Take("process", "ward", "false"),
    [ward |-> Ward("process", "times"),
     times |-> Must(Do("get_process_creation_time_of_handle", "true", "false"))])

\* Three tries with a buffer twice as long; any other failure keeps the buffer, and
\* after the third try the name that was never written is the answer.
image_path_by_pid ==
  Opened("ward", Take("process", "ward", "false"),
    [ward   |-> Ward("process", "malloc"),
     malloc |-> Take("name", "query", "false"),
     query  |-> Try("free", "larger"),
     larger |-> Either("retry", "false"),
     retry  |-> Either("refree", "free"),
     refree |-> Give("name", "malloc"),
     free   |-> Give("name", "true")])

\* Mutant: the buffer just freed is freed again when there is no larger one.
image_full_path_freed_twice ==
  [begin  |-> Take("buf", "query", "false"),
   query  |-> Try("free", "larger"),
   larger |-> Either("refree", "failed"),
   refree |-> Give("buf", "remalloc"),
   remalloc |-> Take("buf", "retry", "failed"),
   retry  |-> Either("query", "failed"),
   failed |-> Give("buf", "false"),
   free   |-> Give("buf", "true")]

get_process_image_full_path ==
  [begin  |-> Take("buf", "query", "false"),
   query  |-> Try("free", "larger"),
   larger |-> Either("refree", "failed"),
   refree |-> Give("buf", "remalloc"),
   remalloc |-> Take("buf", "retry", "false"),
   retry  |-> Either("query", "failed"),
   failed |-> Give("buf", "false"),
   free   |-> Give("buf", "true")]

\* The privilege is asked for, and done without.  A process that is not opened, because
\* it has no image or because that fails, is in the tree all the same; with no first
\* process the tree is empty, and the result true.
build_process_tree ==
  [begin |-> Either("debug", "snapshot"),
   debug |-> Do("set_privilege", "snapshot", "snapshot"),
   snapshot |-> Take("snap", "first", "false"),
   first |-> Deed("open", "close"),
   open  |-> Take("process", "path", "next"),
   path  |-> Do("get_process_image_full_path", "times", "times"),
   times |-> Call("release", "release"),
   release |-> Give("process", "next"),
   next  |-> Either("open", "close"),
   close |-> Give("snap", "true")]
-----------------------------------------------------------------------------
(* What a token says *)

\* By pid: a process handle and its token, each under a guard.
OfProcess(f) ==
  [begin |-> Guard("process", "token", "false"),
   token |-> Guard("token", "query", "false"),
   query |-> Must(Relay(f, "true", "false"))]

\* By token: the size, a buffer of that size, the information.
Sized(steps) ==
  [begin |-> Call("malloc", "false"),
   malloc |-> Guard("ptr", "query", "false")] @@ steps

\* A name that cannot be looked up is not an error, its buffer is read all the same.
get_sid_info ==
  [begin   |-> Guard("sid_str", "sizes", "false"),
   sizes   |-> Either("name", "new"),
   name    |-> Take("name", "domain", "false"),
   domain  |-> Guard("domain", "ward", "ward"),
   ward    |-> Ward("name", "lookup"),
   lookup  |-> Deed("new", "new"),
   new     |-> Take("sid_info", "hand", "false"),
   hand    |-> Hand("sid_info", "true")]

get_process_user_of_token ==
  Sized([query |-> Deed("sid", "false"), sid |-> Relay("get_sid_info", "true", "false")])

get_process_user == OfProcess("get_process_user_of_token")

\* A group whose SID cannot be read is left out.
get_process_group_of_token ==
  Sized([query |-> Deed("group", "false"),
         group |-> Either("sid", "true"),
         sid   |-> Do("get_sid_info", "new", "group"),
         new   |-> Either("list", "delete"),
         delete |-> Give("sid_info", "group"),
         list  |-> Hand("sid_info", "group")])

get_process_group == OfProcess("get_process_group_of_token")

get_privilege_info ==
  [begin |-> Either("name", "lookup"),
   name  |-> Guard("name", "lookup", "false"),
   lookup |-> Deed("new", "false"),
   new   |-> Take("privilege_info", "hand", "false"),
   hand  |-> Hand("privilege_info", "true")]

get_process_privilege_of_token ==
  Sized([query |-> Deed("privilege", "false"),
         privilege |-> Either("info", "true"),
         info  |-> Do("get_privilege_info", "list", "privilege"),
         list  |-> Hand("privilege_info", "privilege")])

get_process_privilege == OfProcess("get_process_privilege_of_token")

get_process_integrity_level_of_token == Sized([query |-> Deed("true", "false")])
get_process_integrity_level == OfProcess("get_process_integrity_level_of_token")
get_process_token_elevation_type_of_token == [begin |-> Deed("true", "false")]
get_process_token_elevation_type == OfProcess("get_process_token_elevation_type_of_token")
get_process_token_elevated_of_token == [begin |-> Deed("true", "false")]
get_process_token_elevated == OfProcess("get_process_token_elevated_of_token")

get_file_owner ==
  Sized([query |-> Call("owner", "false"), owner |-> Deed("sid", "false"),
         sid |-> Relay("get_sid_info", "true", "false")])
-----------------------------------------------------------------------------
(* Sessions, descriptors, images, processors *)

get_active_window_pid == [begin |-> Call("pid", "false"), pid |-> Deed("true", "false")]
get_session_id_by_pid == [begin |-> Deed("true", "false")]
get_current_session_id == [begin |-> Deed("true", "false")]
process_in_console_session ==
  [begin |-> Must(Do("get_session_id_by_pid", "same", "false")), same |-> Either("true", "false")]

\* The descriptor is LocalAlloc'ed, the caller keeps it in sa.
SecurityAttributes == [begin |-> Take("descriptor", "hand", "false"),
                       hand |-> Hand("descriptor", "true")]
set_security_attributes_type1 == SecurityAttributes
set_security_attributes_type2 == SecurityAttributes

\* "false" is IT_UNKNOWN.
get_image_type_of_handle ==
  [begin |-> Call("section", "false"),
   section |-> Guard("section", "view", "false"),
   view  |-> Guard("view", "headers", "false"),
   headers |-> Deed("true", "false")]

get_image_type ==
  [begin |-> Call("open", "false"),
   open  |-> Guard("file", "type", "false"),
   type  |-> Must(Do("get_image_type_of_handle", "true", "false"))]

\* A failure other than a short buffer keeps the buffer of the turn before.
WUGetProcessorInfo ==
  [begin |-> Either("take", "false"),
   take  |-> Take("buf", "query", "false"),
   query |-> Try("free", "short"),
   short |-> Either("refree", "false"),
   refree |-> Give("buf", "take"),
   free  |-> Give("buf", "true")]

is_wow64_process == [begin |-> Call("query", "false"), query |-> Deed("true", "false")]

\* The handle is never closed.
is_wow64_process_by_pid ==
  [begin |-> Take("process", "query", "false"),
   query |-> Must(Do("is_wow64_process", "true", "false"))]
-----------------------------------------------------------------------------
ProcessBodies ==
  [set_privilege |-> set_privilege, clear_privilege |-> clear_privilege,
   build_process_tree |-> build_process_tree,
   set_privilege_reverting |-> set_privilege_reverting,
   execute_with_debug_privilege |-> execute_with_debug_privilege,
   suspend_process_by_handle |-> suspend_process_by_handle,
   resume_process_by_handle |-> resume_process_by_handle,
   terminate_process_by_handle |-> terminate_process_by_handle,
   suspend_process_by_pid |-> suspend_process_by_pid,
   resume_process_by_pid |-> resume_process_by_pid,
   terminate_process_by_pid |-> terminate_process_by_pid, is_process_alive |-> is_process_alive,
   get_process_creation_time_of_handle |-> get_process_creation_time_of_handle,
   get_process_creation_time |-> get_process_creation_time,
   image_path_by_pid |-> image_path_by_pid,
   get_process_image_full_path |-> get_process_image_full_path, get_sid_info |-> get_sid_info,
   get_process_user_of_token |-> get_process_user_of_token,
   get_process_user |-> get_process_user,
   get_process_group_of_token |-> get_process_group_of_token,
   get_process_group |-> get_process_group, get_privilege_info |-> get_privilege_info,
   get_process_privilege_of_token |-> get_process_privilege_of_token,
   get_process_privilege |-> get_process_privilege,
   get_process_integrity_level_of_token |-> get_process_integrity_level_of_token,
   get_process_integrity_level |-> get_process_integrity_level,
   get_process_token_elevation_type_of_token |-> get_process_token_elevation_type_of_token,
   get_process_token_elevation_type |-> get_process_token_elevation_type,
   get_process_token_elevated_of_token |-> get_process_token_elevated_of_token,
   get_process_token_elevated |-> get_process_token_elevated, get_file_owner |-> get_file_owner,
   get_active_window_pid |-> get_active_window_pid,
   get_session_id_by_pid |-> get_session_id_by_pid,
   get_current_session_id |-> get_current_session_id,
   process_in_console_session |-> process_in_console_session,
   set_security_attributes_type1 |-> set_security_attributes_type1,
   set_security_attributes_type2 |-> set_security_attributes_type2,
   get_image_type_of_handle |-> get_image_type_of_handle, get_image_type |-> get_image_type,
   WUGetProcessorInfo |-> WUGetProcessorInfo, is_wow64_process |-> is_wow64_process,
   is_wow64_process_by_pid |-> is_wow64_process_by_pid]
=============================================================================
