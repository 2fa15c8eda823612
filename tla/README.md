# _MyLib in TLA+

_MyLib is a C++ library of helpers for Windows programs: a thread pool, timers,
services, process trees, streams, HTTP requests, and some hundreds of small
functions. This directory holds TLA+ models of the parts that keep state over
several calls or are used by several threads, of the functions that acquire
resources of Windows, and of those that compute on texts, numbers and times; the
TLC runs that check them, and TLAPS proofs about most of those with state. All source paths are relative to `src/src/`.

## 1. The system

The library has no main program and no common state; a program links the parts
it needs. The parts that keep state are these.

| Part | State | Operations | Talks to |
|---|---|---|---|
| `thread_pool` (`thread_pool.h`) | `_tasks`, `_available`, `_running`, one lock, one condition variable, the worker threads | constructor, `run_task`, `pool_main`, `is_idle`, `get_task_count`, destructor | callables of the caller |
| `SteadyTimer` (`steady_timer.h`) | `_running`, `_callback`, a boost timer, a background task; no lock | `start`, `stop`, `internal_callback`, destructor | boost::asio, a callback of the user |
| `Singleton` (`Singleton.h`) | instance pointer and reference count, static | `GetInstancePointer`, `ReleaseInstance` | creates and deletes `NameConverter` |
| `NameConverter` (`nt_name_conv.*`) | the lists of drives and network providers, `_loaded`, a lock | `load`, the lookups, the `nc_*` functions around them | `Singleton`, the mount manager, the registry |
| `CServiceBase` (`ServiceBase.*`) | the status reported to the service control manager (SCM) | `ServiceMain`/`Start`, `Stop`, `Pause`, `Continue`, `Shutdown`, the control handler | SCM, `On...` methods of the derived class |
| `scm_context` (`scm_context.*`) | nothing between two calls; the SCM database, the registry and a driver file outside | install, start, stop and remove a service or a filter driver | SCM, registry, file system, hence `CServiceBase` |
| `cprocess_tree` (`process_tree.*`) | a map from pid to what a snapshot said of it, kill marks | `build_process_tree`, `get_parent`, the walks, `kill_process`, `kill_process_tree` | the processes of the system |
| `CMemoryStream` (`CStream.*`) | a block, its capacity, size and position, read-only or not | `Reserve`, `Write...`, `Read...`, `SetPos`, `ReleaseMemory`, `ClearStream` | `realloc`; used by `curl_client` |
| `curl_client` (`curl_client*`) | a libcurl handle with its options, header fields | the request functions, `append_header`, `enable_auth`, cancellation of a download | libcurl, `CMemoryStream`, another thread that cancels |
| `NTPClient` (`ntp_client.*`) | a socket, a resolver and a deadline timer on one `io_context` | one query: resolve, connect, send, receive, or time out | boost::asio |
| `ProcessLauncher` (`ProcessLauncher.*`) | the tokens and environment blocks of one launch | create a process in a session, with a fallback for every step | Windows security and process calls |
| `FileIoHelper` (`FileIoHelper*`) | file and mapping handles, the current view, who closes the handle | open, create, map, read, write, close | memory-mapped files |
| `CSchedClient`, `WmiClient` | COM pointers, `_initialized` | initialize, use, finalize | COM |
| `ThreadManager`, `AKSyncObjs` | a thread with its kill event; wrappers of locks | create, destroy; lock, unlock | Windows threads |

The rest keeps no state between calls, but acquires and releases what Windows
gives: `RegistryUtil`, `net_util`, `send_ping`, `account_info`, `machine_id`,
`AirCrypto`, most of `Win32Utils`; some functions of `Win32Utils` only compute. The
vendored code (strtk, hashes, ciphers, base64, glob matching) stands apart.

Where it is hard, and what makes each part correct:

* **thread_pool** - workers, callers and the destructor interleave at every
  lock. Correct means: no wakeup and no worker is lost, an accepted task is run
  once and in order, a refusal only when the pool is full, `is_idle` is true
  only if all work is done, the destructor returns.
* **SteadyTimer** - the owner and the background task share fields without a
  lock, and a wait that expired just before `cancel` still calls its handler.
  Correct means: one chain of ticks, nothing left after `stop`, a started timer
  lives, `stop` ends.
* **Singleton / NameConverter** - the singleton is four separate accesses; loads
  fail half-way; volume names are prefixes of one another. Correct means: exact
  reference counts, no use of a deleted object, no half table that counts as
  loaded, lookups that name the right drive.
* **CServiceBase / scm_context** - a service starts, is controlled (also while it
  starts) and dies while several programs install, stop and remove it, and every
  call may fail.
  Correct means: a pending state ends, the SCM is told the truth, what is
  installed is complete, what is removed leaves nothing, every call returns.
* **cprocess_tree** - pids are reused between the start of a process, the
  snapshot, and the kill; a process that cannot be opened has no time of its own.
  Correct means: the walks from the roots see every process once, a tree
  kill reaches all of the family and nobody else.
* **CMemoryStream** - growth is rounded and may fail, `realloc` may shrink.
  Correct means: no access outside the block, what was written is read again, a
  view is never written.
* **curl_client** - options stay on the handle until the reset, which early
  returns skip. Correct means: a request is its own, `true` is a complete
  answer, a cancelled download stops.
* **NTPClient** - the deadline races a handler that is already due, a cancel on a
  closed socket throws, 32-bit seconds wrap. Correct means: one operation at a
  time, a true difference of the clocks, `run()` ends.
* **FileIoHelper** - who closes the handle depends on how the file was opened, an
  open is four calls, views begin at a granularity. Correct means: closed once by
  who opened it, no section or view lost, a view holds what was asked for.
* **The functions on Windows** (`Win32Utils`, `RegistryUtil`, `net_util`,
  `ProcessLauncher`, COM clients) - any call in them may fail, with a fallback or
  a `goto` or a scope guard for each. Correct means: what was acquired is released
  or handed over on every path, once; `true` is not said of what failed; a thread
  that impersonates finds its token again; a client that counts as initialised is.
* **The functions on texts, numbers and times** - tokens overlap, replacements
  contain what they replace, numbers end at 16, 32 and 64 bits, a FILETIME is two
  words. Correct means: no part of a text is lost, answers agree with a definition
  written from what they are for, sums carry.

## 2. Modules

| Module | Models | Composes |
|---|---|---|
| `Executor` | what `thread_pool` promises: a bounded first-in-first-out executor, without threads or locks | - |
| `ThreadPool` | `thread_pool` | refines `Executor` (`INSTANCE ... WITH`) |
| `SteadyTimer` | `SteadyTimer` and the part of boost::asio it uses | - |
| `Singleton` | `Singleton<T>`, one shared access per step | - |
| `NameConverter` | `NameConverter` and the `nc_*` functions | EXTENDS `Singleton` |
| `ServiceBase` | the process of a service and the SCM's side of it | - |
| `ScmContext` | the functions of `scm_context`, called by several programs | EXTENDS `ServiceBase` |
| `ProcessTree` | `cprocess_tree` in a system whose processes come and go | - |
| `MemoryStream` | `CMemoryStream` | - |
| `CurlClient` | `curl_client` | - |
| `NTPClient` | `NTPClient`, `get_ntp_time_delta` and the part of boost::asio they use | - |
| `FileIoHelper` | `FileIoHelper` (the class) and the two `get_file_hash_...`, on another thread | - |
| `CallSteps` | the notation of the next six | - |
| `ProcessCalls`, `FileCalls`, `RegistryCalls`, `NetworkCalls`, `LauncherCalls`, `TaskCalls` | one table per source file or group: the body of every function that acquires, releases or may leave something | EXTEND `CallSteps` |
| `CallBodies` | the six tables as one, and what is known to go wrong in them | EXTENDS the six |
| `Win32Calls` | executes the tables: a stack of frames, Windows, the token of the thread, the members of the COM clients | EXTENDS `CallBodies` |
| `CallCases` | what each body promises, and the condition on the tables that TLC evaluates | EXTENDS `CallBodies` |
| `ClientCases` | the same for the members of the two COM clients | EXTENDS `CallCases` |
| `TextUtils` | the functions that compute, and a program that uses them in loops | - |
| `ThreadProofs` (of `ThreadPool` and `SteadyTimer`), `NameConverterProofs`, `ScmContextProofs`, `ProcessTreeProofs`, `FileStreamProofs` (of `FileIoHelper` and `MemoryStream`), `CurlClientProofs`, `TextTimeProofs` (of `NTPClient` and `TextUtils`), `Win32CallsProofs` | theorems | EXTEND their module and TLAPS |
| `MC...` | constants for TLC | EXTEND their module; `MCLibrary` extends `CurlClient`, `MemoryStream` and `TextUtils` |

How state and actions correspond to the code. Variables have the names of the
members they stand for, actions those of the function or of the piece of it
they are; `PROJECT.json` gives the lines of each. Three conventions hold
everywhere: a critical section of a lock is one step; an access to shared state
without a lock, and every call of Windows, boost or libcurl whose outcome
matters, is a step of its own; a definition whose comment begins with *Mutant*
is no part of any specification, it is a plausible bug that the runs must be
able to see.

* `ThreadPool`: `pc[w]` says where a worker is in `pool_main`. `run_task` is
  `Accept` or `Refuse`; `Park`, `SpuriousWakeup`, `WaitThrows` are the condition
  variable; `Leave` is the `break` after the wait and `CheckRunning` the
  unprotected read of `_running`, which may return a stale `true` and therefore
  has two outcomes after the destructor's write. `Stop` and `Join` are the
  destructor. A task that throws returns like any other: the exception is
  swallowed.
* `SteadyTimer`: `armed` and `ready` are boost's waits and due handlers; `io`
  follows the background task through `internal_callback`, `owner` the other
  thread through `start` and `stop`, assignment by assignment. `early` and
  `declined` are history. Interval and tag are left out: a wait expires at any
  moment.
* `Singleton`, `NameConverter`: a thread goes through get - new - increment -
  return, uses the object, and through release - decrement - compare - delete -
  clear. `load` is one step (it holds the lock) that may fail at any drive; `cut` is
  history, that a load of the loaded table has failed and none has succeeded since.
  A device `\Device\head\tail\` is its first component and the list of those behind
  it, since the comparisons stop at the third backslash (449-472, 221-238); the head
  of a volume is the sequence of its digits, which is what a comparison of a name with
  two backslashes tells apart. The lookups are operators, and `AnswersAreExact`
  evaluates every lookup in every state. The owner keeps to the rule in
  `nt_name_conv.h:121`: one initialisation before the first use.
* `ServiceBase`, `ScmContext`: `main` is the thread of `ServiceMain`, `handler`
  the control that the dispatcher handles, `doing` what the derived class
  really does. Every report accepts the controls, START_PENDING too
  (`ServiceBase.cpp:325-336, 642-652`), and the handler has no guard of its own
  (140-151), so that `Deliver` sends STOP and SHUTDOWN to a service that starts, and
  PAUSE or CONTINUE to one that is paused or running already; Windows keeps back only
  PAUSE and CONTINUE in START_PENDING, and any control before the first report and in
  STOP_PENDING. `Stop()` reads the old state and announces the new one in two steps,
  between which `Start()` may report. `crossed` (that `Start()` has reported in the middle of a control) and
  `idle_failure` (that the last PAUSE or CONTINUE was for nothing and failed) are history.
  `ScmContext` has a program counter per caller; `CallFails` is
  the error return of every Windows call. `Handles` is the set of open service
  handles, which keep a service marked for deletion alive.
* `ProcessTree`: `born` and `alive` are the system, `map` and `killed` the
  object. A snapshot, the look at each process, each kill is a step, and
  processes start and exit between any two. Any process may be one that cannot be
  opened or has no image and is given `now`, the time of the snapshot. Even times are
  creation times, odd ones the moments between. Two processes with the assumed time may be
  children of each other: a walk of such a ring (`OnRing`) calls itself until the stack is
  used up, which is `Overflow`.
* `MemoryStream`: a call is an operator from a stream to its outcomes, so that
  `WriteString` is written with `WriteInt` as in the code; `log` is history.
* `CurlClient`: an option is represented by the number of the request it was
  set for, which is all that "points to an object of a call that is over" needs.
* `NTPClient`: `op` is the outstanding operation, `ready` the handlers that are due,
  in any order (completions and timers come from different queues); `timer` is the
  deadline. The arithmetic of `on_receive` keeps its widths: `% DWORD` for unsigned
  seconds, truncation for the division, a rounding that only goes upwards.
* `FileIoHelper`: `sys` is Windows (who opened each handle, the size of the file,
  how many sections and views exist), `obj` the object of each of two threads. The
  thread `"user"` calls in any order, the thread `"hash"` computes a hash of the
  same file; any call of Windows may fail, and sizes change between two of them.
* `Win32Calls`: a body is a record whose fields are the places where something is
  acquired, released or may fail; every step names where the function goes on if
  the call succeeds and if it fails, which is the `if` around it in the code. `Give` is a
  release without a question, `Free` one behind a test of the pointer, which still must not
  be of what another path has given away (`GivenBefore`). The
  actions of `Win32Calls` interpret one step. A frame has what the function holds,
  what a scope guard or smart pointer will release for it, and what it hands to
  its caller. `Must` marks the call a function exists for. `build_process_tree` is one of the
  bodies: it takes the snapshot for two functions of the launcher and changes the token of the
  thread.
* `TextUtils`: texts are sequences over a few characters, positions count from 0 as
  in the code. A job is a loop over the functions (cut at every token, replace,
  dump, add to a time), or one question, one number that is read, one address. `BUF` is the
  size of the buffer of `device_name_from_nt_name`, which answers nothing for a longer one. An
  address is four octets; the words of `__reserved_net_and_masks` are written as octets.

## 3. Runs

| Run | Instance | Shows |
|---|---|---|
| `threadpool` | 3 workers, 4 tasks | three invariants, refinement of `Executor`, two liveness properties |
| `steady_timer` | one timer, unbounded starts and stops | `OneChain`, `StoppedIsQuiet`, `RunningIsAlive`, `StopEnds` |
| `steady_timer_assert` | the same | the assertion of `internal_callback` is false |
| `nameconv` | the owner and 2 clients, 2 objects, 2 drive tables with the volumes 1, 11 and 111 and 2 shares, 30 names | the counted object, whole tables, exact lookups |
| `nameconv_volumes` | the same | a volume passes for one with two digits less |
| `scm` | 2 programs, 3 calls on a service that is absent or installed, 1 s of waiting | service states, installation, removal, termination |
| `process_tree` | 3 pids, 3 processes, any of them not to be opened | walks, kills |
| `process_tree_family` | the same | a tree kill without failure leaves a child alive |
| `library` | a `curl_client`: 3 requests of 7 kinds, 2 chunks, any option refused; or a `CMemoryStream`: pages of 2 cells, 6 cells of memory, values 0 to 2; or texts: all of up to 4 of 3 or 4 characters and of up to 6 of two, 7 tokens, words of 4 bits, a buffer of 5, 3,432 addresses | what is sent, what `true` means, cancellation; memory safety, round trip; texts are kept, answers match, times add up |
| `ntp` | words of 4 bits, 4 ms to a second, 10 server times | one operation, the true difference, `run()` ends |
| `files` | 3 handles, sizes 0, 3, 10, five ranges, words of 3 bits | ownership of handles and views, contents of views, whole hashes |
| `calls` | all functions of the six tables, any call failing | balance of resources, `true`, the caller's token, the COM clients |

`library` holds three parts in one instance because they share no state and no
steps: a behaviour uses one of them (`part`) and leaves the other two in one fixed state,
so that its states are those of the parts side by side, not their product. The two
`nameconv` and the two `process_tree` runs differ in what they ask: the second of each asks what
a comment of the code promises, and finds it violated.

Why the bounds are enough:

* Three workers let one be busy, one be on its way back and one sleep, the
  case in which a notification could hit the wrong one; with four tasks the
  pool is full, one is refused and offered again. The invariants are also
  proved for any number.
* The timer needs no bound: its state is finite because there is one chain.
* Two clients and the owner are enough for each pair of singleton accesses to
  meet around a third thread's release; two objects are one deletion and one
  new start. The volume that is asked for, 1, stands behind 11 in one table and behind 111 in
  the other, which continue its name by one and by two digits, and names are asked with and
  without the backslash at their end; a removable drive changes into a fixed one; two shares have one redirector.
* Three calls, on top of a service, a filter or nothing that is there already, let two
  programs meet in any two functions and one of them come back.
  `wait_for_n_secs = 1` has both the wait and its end.
* Three processes are three generations, or a pid used twice with a third that
  names it as parent; two with pids that name one another are a ring, if neither can be opened. That
  something is below a ring takes a fourth; the theorem covers it.
* Two cells per page make a string with its length cross a page boundary;
  three pages are a growth that works and one that does not.
* Three requests: one that leaves something on the handle, one that may or may
  not reset it, one that meets it. One chunk comes before a cancel, one after.
* `ntp`: the server times lie on both sides of the point where seconds since 1900
  wrap a word, the local ones before and behind each, at every millisecond.
* `files`: three handles are the user's, the object's and the hash's; a view may
  lie inside the file, end with it, pass it, or overflow a word.
* `calls`: nothing is bounded but `MaxHeld` (a loop that keeps what it takes would
  go on for ever; two of a kind show that it does) and `MaxDepth` (only
  `FindSubDirectory` and the deletion of directories call themselves; 6 is deeper than any other chain).
* Texts: four characters hold two overlapping tokens of two, a path with directory,
  name, point and stream, and runs of CR and LF between others; six of a letter and the
  backslash reach the third backslash before and behind the end of a buffer of 5. `Bits = 4` and
  numbers from -20 to 260 put every border (16 values, 256 values, signed or not, and
  half a word) inside; `MaxAdded = 3` additions of up to 3 days of 10 units wrap both words.

Fairness, only where a property needs it:

* `ThreadPool`: a worker that can run is scheduled and gets the mutex, tasks
  return, the join is not abandoned. Spurious wakeups, exceptions of `wait`,
  callers, and the start of the destructor are not fair.
* `SteadyTimer`: time passes, both threads are scheduled, the callback returns.
  Nobody has to call `start` or `stop`.
* `NTPClient`: the deadline expires, due handlers run, operations other than
  `receive` complete. The server never has to answer.
* `ScmContext`: callers, `ServiceMain`, the handler and the exit of the process are scheduled,
  each by itself, and the `On...`
  methods end, which the code relies on (`start_service` polls without bound).
  Failures, deaths of the process, controls and the release of a driver are not fair.

`CHECK_DEADLOCK FALSE` is set where the system may stop: `scm` and the requests of `library` use up
their bounded number of calls, `ntp` is one query, a job on texts ends, and `files` stops
when the hash has read from a null pointer. Elsewhere TLC reports every state without a successor.

### What disagrees with its documentation

Three runs show one each:

* `steady_timer_assert`: `stop()` empties `_callback` while a
  wait that has expired is still going to call it; the assertion at
  `steady_timer.h:105` fails, and a release build throws `bad_function_call` out of the
  task, which `stop()` - or the destructor - rethrows.
* `nameconv_volumes`: `nt_name_conv.cpp:484` looks at the character after the next one, so a
  volume whose number is two digits longer passes for the one asked for, which the
  comment above it (478-480) excludes.
* `process_tree_family`: the comment at `process_tree.cpp:710` promises that the root and all
  its children are terminated. A root that could not be opened for its time (265-287) gets that of
  the snapshot, its children are older and pass for a stranger's, and the kill ends the root
  only; a root that was killed alone before (731) leaves its children as well.

The others were met while modelling; the properties are stated around them, by name:

* `nt_name_conv.cpp`: a share is taken for another one of the same redirector, since names are compared
  up to the third backslash, and `is_removable_drive` finds nothing for a name without the
  backslash at its end (`Mistaken`, `Overlooked`). A forced reload that fails leaves the front of a
  table in an object that counts as loaded (`cut` in `WholeTable`). A callback of
  `iterate_dos_devices` that calls an `nc_` function waits for its own lock.
* `ServiceBase.cpp:424-450`: a `Stop()` that read START_PENDING and whose `OnStop` throws restores
  it, also when `Start()` has reported meanwhile ("the original state", says the comment at 414);
  the service then shows START_PENDING for ever, and `start_service` polls for ever
  (`crossed`, `StuckInStart`). A PAUSE for a paused service that throws reports RUNNING, a CONTINUE
  for a running one PAUSED, which the comments (466, 516) do not consider (`idle_failure`).
* `scm_context.cpp:703`: `stop_service` answers "already stopped" (its comment)
  for a service that is starting or paused.
* `process_tree.cpp:448, 567`: two processes that cannot be opened get the same
  creation time and may count as each other's parents; the walks from the roots then miss them
  and what is below (against the count of `_test_process_tree.cpp:76`), and a walk from one of them does
  not end. `EveryProcessOnce` names these rings and says that only the assumed time makes them.
  `get_parent_pid` (467) returns the parent's parent; `print_process_tree(0)` visits pid 0 for ever.
* `curl_client.cpp:1275`: after a failed `http_file_upload` the handle is not reset,
  and the next `http_get` sends the form again (`leftover` in `OwnRequest`). The form request never sends header fields.
* `ntp_client.h:240`: the deadline's cancel misses an operation whose handler is due;
  the receive that follows has no deadline. `RunEnds` excepts exactly that.
* `FileIoHelperClass.cpp:90`: once opened with a path the object closes the caller's
  handle later (`stolen` in `HandlesOwned`); copies report bytes behind the end of
  the file as done; `Win32Utils.cpp:2717` reads a pointer that may be null.
* `Leaks`, `LeftBehind`, `Careless` and `Unchecked` (`CallBodies`) name each function
  that keeps something, leaves something with "false", says "true" of what failed,
  or uses what `malloc` has refused; `Unheld` names the release of what was never acquired:
  `send_ping.h:163` closes `h_icmp` also when `IcmpCreateFile` has failed. Among them: `reg_enum_key_values` keeps its two
  buffers when the callback ends it; `ip_to_dns` and `dns_to_ip` free the end of the
  list; `launch_process_simple` keeps the handles when the wait fails;
  `DestroyThreadContext` never closes the thread; `get_account_infos` returns true always;
  `build_process_tree` returns true for a snapshot without a first process.
  `ClientsAreValid` excepts a `WmiClient` that was initialised twice. A `set_privilege` that fails
  after `ImpersonateSelf` leaves the thread impersonating itself, and `resume_process_by_pid` takes
  away a privilege its caller had.
* `device_name_from_nt_name`: the header (`Win32Utils.h:359-364`) shows the answer without a backslash at
  its end, the comment at the definition (`Win32Utils.cpp:5148-5151`) with it, and so does the code, which
  `AnswersMatch` follows; the answer for a device of 256 characters or more is empty (5174-5184).
* `TextUtils`: `str_to_uint32(" -5")` is accepted, since the text is only trimmed on its right
  (comment at `Win32Utils.cpp:8661`); `file_name_from_file_pathw` without
  stream returns the stream (5206); `split_string` keeps a piece of spaces as an empty
  one; a replacement of the empty text never ends; a wide buffer of one character is
  overrun by `copy_wstring_to_buf_with_null` (4640, `CopyFits` excepts it); with `delete_token` nothing is
  deleted when there is no token; the point of a stream's name counts as an extension.
* `net_util.cpp:32`: the masks of `__reserved_net_and_masks` are in the wrong order of bytes
  except for the two blocks of 16 bits: the comments say 10.0.0.0/8, 172.16.0.0/12, 224.0.0.0/4,
  127.0.0.0/8, 100.64.0.0/10, 240.0.0.0/4, 0.0.0.0/8, the code takes /24, /20, /28, /24, /22,
  /28, /24. `_test_net_util.cpp:140` expects what the code does. `ReservedIsNamed` says what is right.

## 4. Proofs

TLC checks the instances above; these hold for all values of the constants.

**`ThreadProofs`**, `ThreadPool` (any finite set of workers, any set of tasks; assumption
`PoolAssumption`). The argument, bottom up:

1. `PoolTypeCorrect` - in particular a worker holds a task exactly while it is busy,
   and `_available` is never negative.
2. `AccountingCorrect` - free workers + queued tasks + busy workers = pool size
   + workers that left through the `break`. Inductive with `TypeOK`; the lemma
   `MoveOne` says what one moving program counter does to a set of workers.
3. `NoWakeupIsLost` - `NoLostWakeup` is not inductive: when nobody is blocked a
   push finds an awake worker only because of `Accounting`, and only if no
   worker has gone. The invariant is `WakeupInv == NoneGone /\ NoLostWakeup`.
4. `TaskInv` (`OnePlace`, `RunsOnce`, `AcceptedIsSomewhere`) - an accepted task
   is once in the queue, with one worker, or executed, and nothing else is
   anywhere. One lemma per action that moves a task.
5. `IdleIsDrained` - with 2, 3 and 4: if all workers are free and none has
   gone, none is busy, so an accepted task can only have been executed.
6. `PoolIsExecutor` - `Spec => ImplementsExecutor`. `StatusIsPlace` says that
   the abstract status of a task is its place; `UnfinishedCount` counts the
   unfinished tasks by bijections from the queue and the busy workers; then
   one lemma per action: `run_task` refuses or accepts, `Take` starts, `Finish`
   finishes, the destructor closes, and every other step is a stutter.

**`ThreadProofs`**, `SteadyTimer` (no constants; any number of starts, ticks, stops). The
timer's specification has names of its own (`TimerSpec`, `TimerNext`, `TimerTypeOK`), so that
both parts can stand in one module; neither uses anything of the other.
`OneChain`, `StoppedIsQuiet`, `RunningIsAlive` and `TypeOK` need one another:
`start` arms safely because the task has ended, the task has ended because
`stop` waited for it, and there was one wait to cancel because there is one
chain. `TimerInv` joins them with what each place of `start` and `stop` knows of
`_running`, the callback and the task, and `TimerStepInv` has one step per action.

**`NameConverterProofs`** (any finite set of threads, any number of rounds, any drive
tables; `NameConverterAssumption`). `SharingIsCounted`: `ObjectIsShared` speaks of the
threads that hold the object, so the invariant says for every place of `GetInstancePointer`
and `ReleaseInstance` what the counter still lacks, under the rule that the owner is
first and last; `MoveOne` counts the holders when one program counter moves.
`LoadedIsWhole`: a table is a drive table of the system or, after a load that failed, the
front of one; a front is in a loaded object only from a failed reload of the loaded table to
the next load that succeeds, and nobody looks up in an object that is not loaded.
`AnswersAreRight` has no hypothesis about the names: for any tables and any names a lookup answers
for a drive the name denotes and finds it if there is one, but for `Mistaken` and `Overlooked`, in
particular the volumes with two digits more or more of `nt_name_conv.cpp:484` (section 3).

**`ScmContextProofs`** (any callers, any number of calls and failures; `ScmAssumption`).
`PendingHasAnEnd`, `ReportsAreTrue`: the main thread and the handler of a service may
report across each other, because controls are accepted in START_PENDING too. `ServiceInv`
says of the thread of `ServiceMain` what it still has to report (`Starting`), of the handler what
its catch blocks may restore (`Restorable`: START_PENDING after `Start()` has reported only with
`crossed`), and of a service whose start was not crossed what the SCM was told last and what the service
does (`Reported`, `Controlled`).
`FilterIsComplete`, `KeysGoWithTheService`: who holds a handle keeps the entry from
disappearing, hence at each place of a caller the entry it works on is there; the other
callers, which move at the same time, disturb nothing but what the invariant allows.

**`FileStreamProofs`**, `MemoryStream` (any page size, amount of memory, cell values and strings;
`StreamAssumption`). `StreamTypeCorrect`, `NoAccessOutsideTheBlock`: `Good` is a
predicate on one stream, and for each call there is a lemma that takes a good stream to
good outcomes, so that the composed calls (`WriteString`, `ReadString`) follow from those
they are made of. `WrittenIsReadAgain`: `RoundTrip` says what a read would give, which no
step preserves by itself; `Remembered` says instead that the cells of every entry of the
log lie in the data and hold it, and a write is described by the cells it leaves and the
cells it sets. `ViewsAreLeftAlone` is the action property, from `Good`.

**`CurlClientProofs`** (any number of requests, chunks and refusable options;
`CurlAssumption`). A request sets the options of a list one by one, so the invariant says
of every option whether it is still in the list or already the request's own; the method
follows from the options (`MethodIsPromised`), as long as the requests before came to
their reset (`~leftover`). `TrueIsComplete` and `CancelIsSeen` follow the chunks.

**`TextTimeProofs`**, `NTPClient` (any width of words, any epoch and units, any times of server and
clock; `NTPAssumption`). `RequestIsOneChain` is inductive. `DifferenceIsComputed` needs
`OpenSince` - the deadline can throw only before the socket is open, and an answer comes
after - and arithmetic: what a multiplication by the units and the division back do to
seconds that wrap, and where the truncation rounds.

**`TextTimeProofs`**, `TextUtils` (texts, tokens and replacements of any length over any
characters, any start of a time, any number of additions, any length of a line;
`TextAssumption`, and `WordAssumption`, that the powers of two in it are positive numbers and half a
word is no wider than a word, which the provers do not know). `TimeAddsUp`: a FILETIME is the quotient and the remainder of a number by
the width of a word, and what is added modulo the square of it is added to the sum
(`AddedIsSum`); the two functions that take a difference see the size of what was added
as long as that is less than half of all there is. `TextStaysKept` has an invariant per job:

* `CutInv` - what was cut off in front, the text, and what was cut off behind it make the
  source; while splitting, what was cut off in front has been read into the pieces.
* `ReplaceInv` - the text is the fields that were read, with the replacement between them,
  and the rest of the source; the next position is that of the first token in the rest,
  wherever the replacement contains tokens (`FindBehind`).
* `DumpInv` - the lines written show the source up to where the next one begins.

The fields of a text are defined by reading it character by character (`ReadOn`), the code
looks for the next token. `ReadPiece` joins the two: if the text has been read up to some
place, the last field being empty, then it has been read up to behind the next token with one field
more, or to its end if there is none. By `ReadStep` no field ends earlier, for the
token would occur earlier. `RowsGrow` bounds the replacements. The
definitions by recursion are functions on numbers, which `Recursion` and `Induction` reach
(the same as in `ProcessTreeProofs`).

`AnswersAreRight` is about single calls. Its invariant, `AskInv`, says no more than that the
input is the one the program began with; the work is in a lemma for each function, for
inputs of any length:

* `SplitAnswers` - the loop of `split_string` follows `ReadPiece` from token to token.
* `PathAnswers` - `NameAnswers` joins directory, name and extension at the last separator and
  the last point; `DeviceAnswers` counts separators up to the third and characters up to the end of the buffer.
* `MatchAnswers` - the comparisons that run backwards over both texts (`BackwardRecursion`).
* `LineAnswers`, `CopyAnswers` - runs of new lines in `bin_to_stra`, a copy into a buffer and
  its null.
* `ReservedAnswers` - what each mask keeps of an address, octet by octet.
* `NumberAnswers` - `WrittenIs` says that the digits written for n have the value n,
  `ReadIs` that the library stops behind them, `AnswersAre` where each width refuses.

**`FileStreamProofs`**, `FileIoHelper` (any handles, sizes, ranges, width, page and granularity;
`FileAssumption`). The invariant says at each of the four places of an open which members
are set, so that a section and a view are counted exactly while an object knows them, and
to whom a handle belongs; the user's object and the hash's share the file and the counts.
`CountOfTwo` takes the sums over the threads apart. `EveryByteIsHashed`: what was seen is
a row of pieces of one length, and the next piece begins where the last one ended.

**`ProcessTreeProofs`** (any finite set of pids, any number of births, any number of
processes that cannot be opened; `PidAssumption`). The walks are functions of a number of
steps, and the library's induction theorems take operators, so `Least`, `Induction` and
`Recursion` say for sets of numbers and functions what the proofs need of them; `Reaches`
and `Kin` describe a walk after n steps. A walk ends after as many steps as the map has entries
because as long as it goes on each step finds one more (`VisitedIsClosed`). Who goes up from an entry, from
parent to parent, comes to one without a parent or onto a ring (`UpwardHasRing`); times do not decrease along
parent links, so a ring has one time, and different processes that were opened have different
ones: it is the assumed time (`RingsAreAssumed`, section 3). Neither theorem has a hypothesis about how many processes
could be opened. `KillsTheFamily` speaks of who was born by whom, the code of pids and times, so the
invariant `IInv` says of a snapshot that a process in it which names a pid and is younger than the
process of that pid is the child of that one (`Snapshots`), that a time in the map is the assumed one
or that of a process with the pid (`Times`), and of a kill under way that what it has
ended and will end is in every family of the root (`Inside`), and that it leaves nobody
of some family behind (`Covered`). One lemma per action.

**`Win32CallsProofs`** (any `MaxDepth` and `MaxHeld`; `CallsAssumption`,
`TablesAreSound` and, for the COM clients, `ClientsAreSound`). The run checks the program with these two bounds at small values; the
proof takes the argument apart. `CallCases` follows each body by itself through all its
paths. A *case* is a frame without counts: where it is, which resources it has, what it
has handed over, whether the thread impersonates and has the privilege. A call of another
function is replaced by what that one promises: `Handings` (what the caller gets with
"true" and with "false"), `Borrows` (what it takes from its caller), `ThreadAfter` (what it
does to the thread). `TablesAreSound` says that in every case of every body each step is
safe and each end keeps the promise. It is a statement about the finite tables, without
constants, which TLC evaluates (before the run `steady_timer`; in `calls` the mutants of
the tables would break it). The theorems need nothing else of the tables. `IInv` says that
the last frame of the stack is in one of the cases of its body, every other one in one when
what it has lent to the function it waits for is added, and that a token outlasts what was
entered with it. `Few`, a part of it, says that of a resource that is no leak there is
one at most: that is how a set in the case stands for the bag in the frame. There is one lemma per
action. `Returns` is the central one: the promise of the body that ends is what the case of the
caller goes on with. The four theorems read `NothingKept`, `ReleasedOnce`, `TrueIsComplete`
and `CallerKeepsItsToken` off the case of the last frame.

`ClientsStayValid` is the fifth and needs other cases, for the members of the clients outlive
a call, and a later one finds what an earlier one has left. In `ClientCases` a case is where a
function is and what the members of one client are; `ClientsAreSound`, evaluated with the first
assumption, says that a member is used and released only while it is live, and that a body begun
with all members live, or all null, ends so. `ClientInv` says that every frame of the stack
is in such a case with the members as they are *now*, the frames that wait included: a function
that another waits for changes no member (`OnlyAloneChanges`). Of a client that has lost a
member it says nothing (that is the `WmiClient` initialised twice, which the property
excepts), and it shows that the scheduler's client never loses one.

Only model-checked: all liveness (`AcceptedIsExecuted`, `DestructorReturns`, `StopEnds`,
`CallsReturn`, `RunEnds`), which the provers cannot do under fairness. Every other property
of a passing run is stated by a theorem; the two properties of `nameconv_volumes` and
`process_tree_family` are false. `MemoryStream`'s and `TextUtils`' specifications have names of their own
(`StreamSpec`, `TextSpec`, ...), as that of the timer, because they share a proof module and
the instance `MCLibrary`.

## 5. What is not modelled

* Vendored code: hashes, ciphers, encodings, matching, string tools (`strtk.hpp` and
  `arch.h` alone are a third of all lines).
* `AKSyncObjs`, `StopWatch`, `LeakWatcher`, `ResourceHelper`: wrappers without
  behaviour over time, unused by the rest.
* In `Win32Utils`, `net_util`, `account_info`: formatting of times and layouts, tables
  of account types and ports, icons, `hash_string`. In the six tables: what the answers of Windows say
  (a decision on them is a free choice), arguments refused on entry, logging.
* Inside modelled parts: a thread pool whose constructor fails half-way;
  `stop()` from the timer's own callback; the use of environment variables, MUP path
  splitting and callbacks of `NameConverter`; check points and session events of
  services; a service that stops itself; sessions and printing of process trees (their privileges
  and handles are in `ProcessCalls`); a second `initialize` of `curl_client`, response headers,
  the file hash; the request packet of `NTPClient`.

## 6. Plan

All parts of section 1 with behaviour are modelled, and every safety property a passing run
checks is stated by a theorem. What could be added: the parts of section 5 that are left out inside
modelled parts, first `stop()` from the timer's own callback, the one hazard no property covers, and
`Stop()` of a service by one of its threads.
