---------------------------- MODULE ClientCases -----------------------------
(***************************************************************************)
(* What the tables of function bodies say of the two COM clients, body by  *)
(* body, as CallCases says it of resources and of the thread: each body is *)
(* followed through all its paths with the members of one client.          *)
(*                                                                         *)
(* A case is where a function is and what the members are.  Between two    *)
(* calls all members of a client are live or all are null; only a function *)
(* that is called by no other, and calls none, changes them.  Where a live *)
(* member would be overwritten a path ends.                                *)
(*                                                                         *)
(* TLC evaluates ClientsAreSound; Win32CallsProofs needs nothing else of   *)
(* the tables for ClientsAreValid.                                         *)
(***************************************************************************)
EXTENDS CallCases

Clients == {WmiMembers, SchedMembers}
Values == {"null", "live", "stale"}

Settled(c) == {[m \in c |-> v] : v \in {"null", "live"}}

\* The private methods of CSchedClient rely on their callers.
Starts(f, c) == IF f \in PrivateTasks /\ c = SchedMembers THEN {[m \in c |-> "live"]}
                                                          ELSE Settled(c)

Changing == {"keep", "create", "null", "drop"}
Touching == Changing \cup {"test", "use"}

Assigned(mem, m, v) == {[x EXCEPT ![m] = v] : x \in {y \in {mem} : y[m] # "live"}}

\* The members of c after step s, when it has succeeded, and when it has failed.
After(s, mem, c) ==
  CASE s.do \notin Touching \/ s.what \notin c -> {mem}
    [] s.do \in {"keep", "create"} /\ s.what \in c -> Assigned(mem, s.what, "live")
    [] s.do = "null" /\ s.what \in c -> Assigned(mem, s.what, "null")
    [] s.do = "drop" /\ s.what \in c -> {[mem EXCEPT ![s.what] = "stale"]}
    [] s.do = "test" /\ s.what \in c -> {x \in {mem} : x[s.what] # "null"}
    [] s.do = "use" /\ s.what \in c -> {mem}

AfterFailure(s, mem, c) ==
  CASE s.do \notin Touching \/ s.what \notin c -> {mem}
    [] s.do = "create" /\ s.what \in c -> Assigned(mem, s.what, "null")
    [] s.do \in {"keep", "null", "drop"} /\ s.what \in c -> {}
    [] s.do = "test" /\ s.what \in c -> {x \in {mem} : x[s.what] = "null"}
    [] s.do = "use" /\ s.what \in c -> {mem}

ClientCase(at, mem) == [at |-> at, member |-> mem]

ClientFollowing(f, c, k) ==
  UNION {{ClientCase(s.ok, mem) : mem \in After(s, k.member, c)}
           \cup {ClientCase(s.or, mem) : mem \in AfterFailure(s, k.member, c)} :
         s \in {Bodies[f][at] : at \in {k.at} \cap DOMAIN Bodies[f]}}

ClientCases(f, c) ==
  LET after[n \in 0 .. Rounds] ==
        IF n = 0 THEN {ClientCase("begin", mem) : mem \in Starts(f, c)}
        ELSE UNION {{k} \cup ClientFollowing(f, c, k) : k \in after[n - 1]}
  IN  after[Rounds]
-----------------------------------------------------------------------------
\* A member is used and released while it is live, and no member of the scheduler is
\* overwritten while it is.  A function that is called finds the members as it needs them,
\* and leaves them alone.
ClientStepIsSafe(k, s, c) ==
  /\ s.do \in Touching => s.what \in Members
  /\ s.do \in {"use", "drop"} /\ s.what \in c => k.member[s.what] = "live"
  /\ s.do \in {"keep", "create", "null"} /\ s.what \in c /\ c = SchedMembers =>
       k.member[s.what] # "live"
  /\ Calls(s) => /\ k.member \in Starts(s.what, c)
                 /\ \A x \in StepsOf(s.what) : x.do \notin Changing

ClientCaseIsSafe(f, c, k) ==
  /\ \A at \in {k.at} \cap DOMAIN Bodies[f] : ClientStepIsSafe(k, Bodies[f][at], c)
  /\ Ends(k) => k.member \in Settled(c)
  /\ k.at = "crash" => f \in Unchecked

ClientBodyIsSound(f, c, cases) ==
  /\ \A mem \in Starts(f, c) : ClientCase("begin", mem) \in cases
  /\ \A k \in cases : ClientFollowing(f, c, k) \subseteq cases /\ ClientCaseIsSafe(f, c, k)

ASSUME ClientsAreSound ==
  \A f \in Functions : \A c \in Clients : ClientBodyIsSound(f, c, ClientCases(f, c))
=============================================================================
