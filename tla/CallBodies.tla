----------------------------- MODULE CallBodies -----------------------------
(***************************************************************************)
(* All function bodies in one table, how a function goes on after a step,  *)
(* and what is known to go wrong in them.                                  *)
(***************************************************************************)
EXTENDS ProcessCalls, FileCalls, RegistryCalls, NetworkCalls, LauncherCalls, TaskCalls, Naturals

Bodies == ProcessBodies @@ FileBodies @@ RegistryBodies @@ NetworkBodies @@ LauncherBodies
            @@ TaskBodies
Functions == DOMAIN Bodies
Public == Functions \ PrivateTasks

\* The members of the two COM clients.
WmiMembers == {"wmi.com", "wmi._locator", "wmi._svc"}
SchedMembers == {"sched.com", "sched._svc"}
Members == WmiMembers \cup SchedMembers

\* A frame in which a step has succeeded, or failed.
Passed(frame, step) == [frame EXCEPT !.at = step.ok,
                          !.ret = @ \/ step.must,
                          !.failed = @ /\ ~step.again]
Missed(frame, step) == [frame EXCEPT !.at = step.or,
                          !.failed = @ \/ step.must]

Rounds == 30  \* enough for the longest body

\* The places f gets to from the one given before r is acquired again.
Onward(f, r, from) ==
  LET acquired(s) == s.what = r /\ s.do \in {"take", "new", "unguard"}
      next(at) == UNION {{Bodies[f][a].ok, Bodies[f][a].or} :
                           a \in {x \in {at} \cap DOMAIN Bodies[f] : ~acquired(Bodies[f][x])}}
      after[n \in 0 .. Rounds] == IF n = 0 THEN {from}
                                  ELSE UNION {{at} \cup next(at) : at \in after[n - 1]}
  IN  after[Rounds]

\* What f frees there, if the pointer is not null, it may have given away before: the
\* pointer still says that it is there.
GivenBefore(f, there) ==
  \E at \in DOMAIN Bodies[f] :
    /\ Bodies[f][at].what = Bodies[f][there].what
    /\ Bodies[f][at].do \in {"give", "free", "hand", "ward", "keep"}
    /\ there \in Onward(f, Bodies[f][there].what, Bodies[f][at].ok)

\* What is kept on some path, of which nobody knows.
Leaks ==
  {<<"image_path_by_pid", "name">>, <<"WUGetProcessorInfo", "buf">>,
   <<"is_wow64_process_by_pid", "process">>, <<"get_disk_volume_info", "layout_info">>,
   <<"reg_enum_key_values", "sub_key_name">>, <<"reg_enum_key_values", "class_name">>,
   <<"ip_to_dns", "dns_record">>, <<"dns_to_ip", "dns_record">>,
   <<"psid_to_wstr_sid", "sid_buf">>,
   <<"CreateThreadContext", "KillEvent">>, <<"DestroyThreadContext", "ThreadHandle">>,
   <<"launch_process_simple", "pi">>, <<"launch_process_ex", "pi">>}

\* What the caller finds in its variable although it was told false.
LeftBehind ==
  {<<f, "out_token">> : f \in {"token_of_process", "get_token_from_process_tree",
                               "get_token_from_session", "acquire_execution_token"}}
    \cup {<<"launch_process", "pi">>, <<"get_installed_programs", "program">>}

\* They say "true" although something they were called for has failed.
Careless == {"suspend_process_by_pid", "resume_process_by_pid", "image_path_by_pid",
             "get_sid_info", "dump_boot_area", "get_module_path", "get_temp_fileW",
             "get_installed_programs", "get_account_infos", "get_task_action_exec_programs",
             "build_process_tree"}

\* They release what they never got: a handle that is INVALID_HANDLE_VALUE.
Unheld == {<<"send_ping", "h_icmp">>}

\* They use what malloc has returned without a look at it.
Unchecked == {"dump_all_disk_drive_layout", "get_system_dir", "get_windows_dir",
              "WUGetCurrentDirectoryW"}
=============================================================================
