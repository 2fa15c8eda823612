----------------------------- MODULE Win32Calls -----------------------------
(***************************************************************************)
(* One thread calls the functions of the library one after the other, in   *)
(* any order; every call of Windows in them may fail.  The bodies are the  *)
(* tables of the modules extended here; this module executes them, with a  *)
(* frame for every function entered.  A frame has what the function holds  *)
(* itself, what a scope guard holds for it, and what it hands to its       *)
(* caller, to whom that passes on the return: also on one with "false",    *)
(* when the caller does not know.                                          *)
(***************************************************************************)
EXTENDS CallBodies, Bags, Sequences, Integers, FiniteSets

CONSTANTS MaxHeld,  \* how often a loop takes the same resource: a bound
          MaxDepth  \* how deep calls nest, in the two that call themselves: a bound

ASSUME CallsAssumption == {MaxHeld, MaxDepth} \subseteq Nat \ {0}

VARIABLES stack,   \* the functions entered, the last one innermost
          thread,  \* the impersonation token of the calling thread
          member,  \* the members of objects: "null", "live", or "stale"
          lost     \* members that were overwritten while they were live

vars == <<stack, thread, member, lost>>

Tokens == [token : {"none", "own", "client"}, debug : BOOLEAN]

Init == /\ stack = <<>>
        /\ thread \in {t \in Tokens : t.token # "own" /\ ~t.debug}
        /\ member = [m \in Members |-> "null"]
        /\ lost = {}
-----------------------------------------------------------------------------
Depth == Len(stack)
Top == stack[Depth]
Now == Bodies[Top.fn][Top.at]
Returned == Top.at \in {"true", "false", "ret"}
ReturnsTrue == Top.at = "true" \/ (Top.at = "ret" /\ Top.ret)

\* held and guarded: what the function has; handed: what its caller gets; ret: a step
\* it was called for has succeeded; failed: one of these has not, nor another attempt.
Frame(f) == [fn |-> f, at |-> "begin", held |-> EmptyBag, guarded |-> EmptyBag,
             handed |-> {}, ret |-> FALSE, failed |-> FALSE, entered |-> thread]

One(r) == SetToBag({r})
Copies(r, bag) == IF BagIn(r, bag) THEN bag[r] ELSE 0

At(do) == Depth > 0 /\ Top.at \in DOMAIN Bodies[Top.fn] /\ Now.do = do

Succeed(frame) == stack' = [stack EXCEPT ![Depth] = Passed(frame, Now)]
Fail == stack' = [stack EXCEPT ![Depth] = Missed(Top, Now)]

Enter(f) == /\ stack = <<>>
            /\ stack' = <<Frame(f)>>
            /\ UNCHANGED <<thread, member, lost>>

CallWindows == /\ At("call")
               /\ Succeed(Top) \/ Fail
               /\ UNCHANGED <<thread, member, lost>>

\* Beyond the bound the nested call fails.
CallFunction == /\ At("do") \/ At("relay")
                /\ IF Depth < MaxDepth THEN stack' = Append(stack, Frame(Now.what)) ELSE Fail
                /\ UNCHANGED <<thread, member, lost>>

Acquire == /\ \/ /\ At("take") \/ At("new")
                 /\ Copies(Now.what, Top.held) < MaxHeld
                 /\ Succeed([Top EXCEPT !.held = @ (+) One(Now.what)])
              \/ /\ At("guard")
                 /\ Copies(Now.what, Top.guarded) < MaxHeld
                 /\ Succeed([Top EXCEPT !.guarded = @ (+) One(Now.what)])
              \/ /\ At("take") \/ At("guard")
                 /\ Fail
           /\ UNCHANGED <<thread, member, lost>>

\* What one step does with what the function has.
Moved == LET r == Now.what
             without == [Top EXCEPT !.held = @ (-) One(r)]
         IN  [ward    |-> [without EXCEPT !.guarded = @ (+) One(r)],
              unguard |-> [Top EXCEPT !.guarded = @ (-) One(r), !.held = @ (+) One(r)],
              hand    |-> [without EXCEPT !.handed = @ \cup {r}],
              give    |-> without,
              free    |-> without]

Release == /\ \E do \in {"ward", "unguard", "hand", "give", "free"} : At(do) /\ Succeed(Moved[do])
           /\ UNCHANGED <<thread, member, lost>>

\* From the frame of the caller; what a program of its own passes it has had before.
ReceiveFromCaller ==
  /\ At("receive")
  /\ LET frame == Passed([Top EXCEPT !.held = @ (+) One(Now.what)], Now)
     IN  stack' = [i \in 1 .. Depth |->
                     IF i = Depth THEN frame
                     ELSE IF i = Depth - 1 THEN [stack[i] EXCEPT !.held = @ (-) One(Now.what)]
                     ELSE stack[i]]
  /\ UNCHANGED <<thread, member, lost>>
-----------------------------------------------------------------------------
(* Members of objects *)

TestMember == /\ At("test")
              /\ IF member[Now.what] = "null" THEN Fail ELSE Succeed(Top)
              /\ UNCHANGED <<thread, member, lost>>

\* The member becomes the new value; the old one, when it was live, is lost.
Assign(value) == /\ member' = [member EXCEPT ![Now.what] = value]
                 /\ lost' = lost \cup {m \in {Now.what} : member[m] = "live"}

KeepMember == /\ At("keep")
              /\ Succeed([Top EXCEPT !.held = @ (-) One(Now.what)])
              /\ Assign("live")
              /\ UNCHANGED thread

CreateMember == /\ At("create")
                /\ \/ Succeed(Top) /\ Assign("live")
                   \/ Fail /\ Assign("null")
                /\ UNCHANGED thread

ClearMember == /\ At("null")
               /\ Succeed(Top)
               /\ Assign("null")
               /\ UNCHANGED thread

UseMember == /\ At("use") /\ member[Now.what] = "live"
             /\ Succeed(Top) \/ Fail
             /\ UNCHANGED <<thread, member, lost>>

DropMember == /\ At("drop") /\ member[Now.what] = "live"
              /\ Succeed(Top)
              /\ member' = [member EXCEPT ![Now.what] = "stale"]
              /\ UNCHANGED <<thread, lost>>

\* A call through a pointer that is not valid ends the program.
Crashed == \/ Depth > 0 /\ Top.at = "crash"
           \/ (At("use") \/ At("drop")) /\ member[Now.what] # "live"

\* The program is started again.
Restart == /\ Crashed
           /\ stack' = <<>>
           /\ member' = [m \in Members |-> "null"]
           /\ lost' = {}
           /\ thread' = [token |-> "none", debug |-> FALSE]
-----------------------------------------------------------------------------
(* The calling thread *)

\* Whether OpenThreadToken finds one; opening it may fail for reasons of its own.
OpenThreadToken == /\ At("token")
                   /\ IF thread.token = "none" THEN Fail ELSE Succeed(Top)
                   /\ UNCHANGED <<thread, member, lost>>

ImpersonateSelf == /\ At("impersonate")
                   /\ \/ Succeed(Top) /\ thread' = [token |-> "own", debug |-> FALSE]
                      \/ Fail /\ UNCHANGED thread
                   /\ UNCHANGED <<member, lost>>

RevertToSelf == /\ At("revert")
                /\ Succeed(Top)
                /\ thread' = [token |-> "none", debug |-> FALSE]
                /\ UNCHANGED <<member, lost>>

AdjustTokenPrivileges ==
  /\ At("enable") \/ At("disable")
  /\ \/ Succeed(Top) /\ thread' = [thread EXCEPT !.debug = (Now.do = "enable")]
     \/ Fail /\ UNCHANGED thread
  /\ UNCHANGED <<member, lost>>
-----------------------------------------------------------------------------
\* The guards release what they hold; what is handed over goes to the caller, or on to
\* the caller of the caller.
Given(caller, step) == IF step.do = "relay"
                       THEN [caller EXCEPT !.handed = @ \cup Top.handed]
                       ELSE [caller EXCEPT !.held = @ (+) SetToBag(Top.handed)]

Return == /\ Depth > 0 /\ Returned
          /\ LET caller == stack[Depth - 1]
                 step == Bodies[caller.fn][caller.at]
             IN  stack' = IF Depth = 1 THEN <<>>
                          ELSE Append(SubSeq(stack, 1, Depth - 2),
                                 IF ReturnsTrue THEN Passed(Given(caller, step), step)
                                                ELSE Missed(Given(caller, step), step))
          /\ UNCHANGED <<thread, member, lost>>

Next == \/ \E f \in Public : Enter(f)
        \/ CallWindows \/ CallFunction \/ Acquire \/ Release \/ ReceiveFromCaller
        \/ TestMember \/ KeepMember \/ CreateMember \/ ClearMember \/ UseMember \/ DropMember
        \/ Restart
        \/ OpenThreadToken \/ ImpersonateSelf \/ RevertToSelf \/ AdjustTokenPrivileges
        \/ Return

Spec == Init /\ [][Next]_vars
-----------------------------------------------------------------------------
\* What a function has acquired it has released when it returns, or handed to its
\* caller with "true": no failing call on the way keeps anything.  Not so in Leaks and
\* LeftBehind.
NothingKept ==
  Depth > 0 /\ Returned =>
     /\ \A r \in BagToSet(Top.held) : <<Top.fn, r>> \in Leaks
     /\ ReturnsTrue \/ \A r \in Top.handed : <<Top.fn, r>> \in LeftBehind

\* Nothing is released, put under a guard, or passed on, that is not held, but for the
\* Unheld; and where only the pointer is asked whether there is something to release,
\* what it points to has not been given away before.
ReleasedOnce ==
  /\ At("give") \/ At("ward") \/ At("hand") \/ At("keep") =>
       BagIn(Now.what, Top.held) \/ <<Top.fn, Now.what>> \in Unheld
  /\ At("free") => ~GivenBefore(Top.fn, Top.at)
  /\ At("unguard") => BagIn(Now.what, Top.guarded)
  /\ At("receive") /\ Depth > 1 => BagIn(Now.what, stack[Depth - 1].held)

\* "true" is said of what has succeeded, at once or in another attempt: of a sequence
\* of steps none has failed.  Not so in Careless.
TrueIsComplete ==
  Depth > 0 /\ ReturnsTrue /\ Top.fn \notin Careless =>
     /\ ~Top.failed
     /\ Top.ret \/ \A at \in DOMAIN Bodies[Top.fn] : ~Bodies[Top.fn][at].must

\* A thread that impersonates keeps its token over every call, and its privilege, but
\* where the privilege is asked to be taken away.
CallerKeepsItsToken ==
  Depth > 0 =>
     /\ Top.entered.token # "none" => thread.token = Top.entered.token
     /\ Top.entered.debug /\ Returned =>
          thread.debug \/ Top.fn \in {"clear_privilege", "resume_process_by_pid"}

\* No sequence of calls makes a client call through a pointer it does not have, unless
\* WMI was initialised twice.
NothingCrashes ==
  Crashed => Top.fn \in Unchecked \/ WmiMembers \cap lost # {}

\* The task scheduler never loses its service or its apartment.
SchedulerKept == SchedMembers \cap lost = {}

\* The two COM clients, initialised, used and finalised in any order and number, each
\* call failing or not: what a client counts as its own is valid and released once.
ClientsAreValid == NothingCrashes /\ SchedulerKept
=============================================================================
