----------------------------- MODULE CallCases ------------------------------
(***************************************************************************)
(* What the tables of function bodies promise, body by body: each of them  *)
(* is followed through all its paths, with what its calls of functions of  *)
(* the library promise in place of what these do.                          *)
(*                                                                         *)
(* A case is what there is to know of a frame of Win32Calls while it runs: *)
(* where it is, which resources it has (a set: of some it may have several *)
(* only if they are in Leaks), whether it was entered, and is, with a      *)
(* token and with the privilege, and whether it is too deep to call.       *)
(*                                                                         *)
(* TLC evaluates TablesAreSound; Win32CallsProofs needs nothing else of    *)
(* the tables.                                                             *)
(***************************************************************************)
EXTENDS CallBodies, Naturals, FiniteSets

\* The thread impersonates; it has the privilege, which is one of its token.
ThreadCases == {t \in [token : BOOLEAN, debug : BOOLEAN] : t.debug => t.token}

FirstCase(deep, t) == [at |-> "begin", held |-> {}, guarded |-> {}, handed |-> {}, ret |-> FALSE,
                       failed |-> FALSE, deep |-> deep, entered |-> t, thread |-> t]

Ends(k) == k.at \in {"true", "false", "ret"}
Claims(k) == k.at = "true" \/ (k.at = "ret" /\ k.ret)

StepsOf(f) == {Bodies[f][at] : at \in DOMAIN Bodies[f]}
Named(f, do) == {s.what : s \in {x \in StepsOf(f) : x.do = do}}
-----------------------------------------------------------------------------
(* What a function promises *)

\* What it hands to its caller, itself or by the functions it relays to: three deep.
HandsItself(f) == Named(f, "hand")
HandsByOne(f) == HandsItself(f) \cup UNION {HandsItself(g) : g \in Named(f, "relay")}
HandsByTwo(f) == HandsItself(f) \cup UNION {HandsByOne(g) : g \in Named(f, "relay")}
Hands(f) == HandsItself(f) \cup UNION {HandsByTwo(g) : g \in Named(f, "relay")}

\* These hand over what they have found, or what they were asked for.
Perhaps == {"get_process_group_of_token", "get_process_group",
            "get_process_privilege_of_token", "get_process_privilege",
            "get_account_infos", "reg_enum_key_values", "sub_key_iterate_callback",
            "get_installed_programs", "launch_process_simple", "launch_process_ex"}

\* With "true" the caller gets all of it, with "false" nothing but what is in LeftBehind.
Handings(f, claimed) ==
  IF claimed THEN {H \in SUBSET Hands(f) : f \in Perhaps \/ H = Hands(f)}
             ELSE SUBSET {p[2] : p \in {x \in LeftBehind : x[1] = f}}

\* What it takes from its caller, with its first step.
Borrows(f) == {Bodies[f][at].what : at \in {a \in {"begin"} : Bodies[f][a].do = "receive"}}

\* These take away the privilege.
TakesPrivilege == {"clear_privilege", "resume_process_by_pid"}

\* A token stays, and the privilege of one that was there.
ThreadAfter(f, t) == {u \in ThreadCases : /\ t.token => u.token
                                          /\ t.debug => u.debug \/ f \in TakesPrivilege}
-----------------------------------------------------------------------------
(* The steps of a body *)

\* Without r; with it where there may have been several.
Without(f, k, r) == {[k EXCEPT !.held = @ \ {r}]} \cup {x \in {k} : <<f, r>> \in Leaks}
WithHeld(k, r) == [k EXCEPT !.held = @ \cup {r}]
WithGuard(k, r) == [k EXCEPT !.guarded = @ \cup {r}]
WithHanded(k, r) == [k EXCEPT !.handed = @ \cup {r}]
WithThread(k, t) == [k EXCEPT !.thread = t]

Takes == {"take", "new", "receive"}
Gives == {"give", "free", "keep"}
MayFail == {"call", "take", "guard", "test", "create", "use", "impersonate", "enable", "disable"}

\* The case before the program goes on, when the step has succeeded.
Done(f, k, s) ==
  CASE s.do \in Takes -> {WithHeld(k, s.what)}
    [] s.do = "guard" -> {WithGuard(k, s.what)}
    [] s.do = "ward"  -> {WithGuard(x, s.what) : x \in Without(f, k, s.what)}
    [] s.do = "unguard" -> {WithHeld(k, s.what),
                            WithHeld([k EXCEPT !.guarded = @ \ {s.what}], s.what)}
    [] s.do = "hand"  -> {WithHanded(x, s.what) : x \in Without(f, k, s.what)}
    [] s.do \in Gives -> Without(f, k, s.what)
    [] s.do = "token" -> {x \in {k} : k.thread.token}
    [] s.do = "impersonate" -> {WithThread(k, [token |-> TRUE, debug |-> FALSE])}
    [] s.do = "revert" -> {WithThread(k, [token |-> FALSE, debug |-> FALSE])}
    [] s.do \in {"enable", "disable"} ->
         {WithThread(k, [token |-> k.thread.token, debug |-> s.do = "enable"])}
    [] OTHER -> {k}

Fails(k, s) == s.do \in MayFail \/ (s.do = "token" /\ ~k.thread.token)

\* The caller when the function it has called is over: t is the thread now, H is what
\* was handed over.
Resumed(k, s, t, claimed, H) ==
  LET paid  == WithThread([k EXCEPT !.held = @ \ Borrows(s.what)], t)
      given == IF s.do = "relay" THEN [paid EXCEPT !.handed = @ \cup H]
                                 ELSE [paid EXCEPT !.held = @ \cup H]
  IN  IF claimed THEN Passed(given, s) ELSE Missed(given, s)

ResumedAny(k, s) ==
  UNION {{Resumed(k, s, t, claimed, H) : t \in ThreadAfter(s.what, k.thread),
                                         H \in Handings(s.what, claimed)} : claimed \in BOOLEAN}

Calls(s) == s.do \in {"do", "relay"}

StepFrom(f, k, s) ==
  IF Calls(s) THEN IF k.deep THEN {Missed(k, s)} ELSE ResumedAny(k, s)
  ELSE {Passed(x, s) : x \in Done(f, k, s)} \cup {Missed(x, s) : x \in {y \in {k} : Fails(k, s)}}

Following(f, k) == UNION {StepFrom(f, k, Bodies[f][at]) : at \in {k.at} \cap DOMAIN Bodies[f]}

Cases(f) ==
  LET after[n \in 0 .. Rounds] ==
        IF n = 0 THEN {FirstCase(deep, t) : deep \in BOOLEAN, t \in ThreadCases}
        ELSE UNION {{k} \cup Following(f, k) : k \in after[n - 1]}
  IN  after[Rounds]
-----------------------------------------------------------------------------
(* What is right in each case *)

\* It is borrowed from the caller with the first step, and only then.
BorrowsFirst(g) ==
  \A at \in DOMAIN Bodies[g] :
    /\ Bodies[g][at].do = "receive" => at = "begin"
    /\ Borrows(g) # {} => Bodies[g][at].ok # "begin" /\ Bodies[g][at].or # "begin"

\* A step gives, or puts under a guard, what there is, and takes nothing twice.
StepIsSafe(f, k, s) ==
  /\ s.do \in {"give", "ward", "hand", "keep"} => s.what \in k.held \/ <<f, s.what>> \in Unheld
  /\ s.do = "free" => ~GivenBefore(f, k.at)
  /\ s.do = "unguard" => s.what \in k.guarded
  /\ s.do \in Takes \cup {"unguard"} => s.what \notin k.held \/ <<f, s.what>> \in Leaks
  /\ s.do \in {"impersonate", "revert"} => ~k.entered.token

\* A function that is called finds with its caller what it borrows, and brings nothing
\* that the caller has already.
CallIsSafe(f, k, s) ==
  /\ s.what \in Functions /\ BorrowsFirst(s.what)
  /\ \A r \in Borrows(s.what) : r \in k.held /\ <<f, r>> \notin Leaks
  /\ s.do = "do" => \A claimed \in BOOLEAN : \A H \in Handings(s.what, claimed) :
                      \A r \in H \cap (k.held \ Borrows(s.what)) : <<f, r>> \in Leaks

\* In the end nothing is held, and the promises are kept.
EndIsSafe(f, k) ==
  /\ \A r \in k.held : <<f, r>> \in Leaks
  /\ k.handed \in Handings(f, Claims(k))
  /\ k.thread \in ThreadAfter(f, k.entered)
  /\ Claims(k) /\ f \notin Careless =>
       ~k.failed /\ (k.ret \/ \A s \in StepsOf(f) : ~s.must)

CaseIsSafe(f, k) ==
  /\ k.thread \in ThreadCases
  /\ \A at \in {k.at} \cap DOMAIN Bodies[f] :
       /\ StepIsSafe(f, k, Bodies[f][at])
       /\ Calls(Bodies[f][at]) => CallIsSafe(f, k, Bodies[f][at])
  /\ Ends(k) => EndIsSafe(f, k)

Names == STRING

StepSet == [do : Names, what : Names, ok : Names, or : Names, must : BOOLEAN, again : BOOLEAN]

BodyIsSound(f, cases) ==
  /\ "begin" \in DOMAIN Bodies[f] /\ DOMAIN Bodies[f] \subseteq Names
  /\ StepsOf(f) \subseteq StepSet
  /\ \A deep \in BOOLEAN, t \in ThreadCases : FirstCase(deep, t) \in cases
  /\ \A k \in cases : Following(f, k) \subseteq cases /\ CaseIsSafe(f, k)

ASSUME TablesAreSound == \A f \in Functions : BodyIsSound(f, Cases(f))
=============================================================================
