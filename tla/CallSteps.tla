----------------------------- MODULE CallSteps -----------------------------
(***************************************************************************)
(* The notation of the tables of function bodies (ProcessCalls, FileCalls, *)
(* RegistryCalls, NetworkCalls, LauncherCalls, TaskCalls), for Win32Calls. *)
(*                                                                         *)
(* A body is a record: its fields are the places of the function where     *)
(* something is acquired, released or may fail, the first one is "begin".  *)
(* A step names where the function goes on when the call succeeds (ok) and *)
(* when it fails (or).  "true" and "false" are the ways to return (a       *)
(* pointer, a HANDLE, a string: one, or none), "ret" returns the flag that *)
(* starts as false and is set after the last call of interest; "crash" is  *)
(* the use of a null pointer nobody has checked.  A decision on data the   *)
(* model does not carry is an Either.  Loops go back to an earlier place   *)
(* and may turn any number of times; arguments checked on entry, logging   *)
(* and the conversion of what Windows answers are left out.                *)
(***************************************************************************)

Step(do, what, ok, or) == [do |-> do, what |-> what, ok |-> ok, or |-> or,
                            must |-> FALSE, again |-> FALSE]

\* A step the function is called for: "true" claims that it has succeeded.
Must(step) == [step EXCEPT !.must = TRUE]

\* One that is tried again or in another way: a later one that succeeds makes up for it.
Attempt(step) == [step EXCEPT !.must = TRUE, !.again = TRUE]

(* Calls *)
Call(ok, or)      == Step("call", "", ok, or)     \* may fail, changes nothing here
Either(yes, no)   == Step("call", "", yes, no)    \* a condition
Deed(ok, or)      == Must(Call(ok, or))
Try(ok, or)       == Attempt(Call(ok, or))
Do(f, ok, or)     == Step("do", f, ok, or)        \* a function of the repository
Relay(f, ok, or)  == Step("relay", f, ok, or)     \* the same, on the caller's own out parameters

(* Resources *)
Take(r, ok, or)   == Step("take", r, ok, or)      \* acquire
Guard(r, ok, or)  == Step("guard", r, ok, or)     \* acquire under a scope guard
Ward(r, ok)       == Step("ward", r, ok, ok)      \* put what is held under a guard
New(r, ok)        == Step("new", r, ok, ok)       \* acquire what is never refused
Unguard(r, ok)    == Step("unguard", r, ok, ok)   \* guard.release()
Give(r, ok)       == Step("give", r, ok, ok)      \* close, free, release
Free(r, ok)       == Step("free", r, ok, ok)      \* the same, if the pointer is not null
Hand(r, ok)       == Step("hand", r, ok, ok)      \* to the caller, who has to give it back
Receive(r, ok)    == Step("receive", r, ok, ok)   \* from the caller, who had it

(* Members of objects that outlive the call *)
Test(m, yes, no)  == Step("test", m, yes, no)     \* m is there
Keep(m, ok)       == Step("keep", m, ok, ok)      \* m = what was taken under the same name
Create(m, ok, or) == Step("create", m, ok, or)    \* Create(&m), which clears m when it fails
Use(m, ok, or)    == Step("use", m, ok, or)       \* a call through m, which may fail
Drop(m, ok)       == Step("drop", m, ok, ok)      \* m->Release()
Null(m, ok)       == Step("null", m, ok, ok)      \* m = nullptr

(* The calling thread *)
HasToken(yes, no)    == Step("token", "", yes, no)      \* OpenThreadToken
Impersonate(ok, or)  == Step("impersonate", "", ok, or) \* ImpersonateSelf
Revert(ok)           == Step("revert", "", ok, ok)      \* RevertToSelf
Enable(ok, or)       == Step("enable", "", ok, or)      \* AdjustTokenPrivileges
Disable(ok, or)      == Step("disable", "", ok, or)
=============================================================================
