-------------------------- MODULE Win32CallsProofs --------------------------
(***************************************************************************)
(* Proofs about the functions that acquire, release, call one another and  *)
(* change the token of the thread, for any depth of calls and any number   *)
(* of times a loop takes the same resource.                                *)
(*                                                                         *)
(* What they do is in the tables, and TablesAreSound (CallCases) is all    *)
(* that is used of these: every body, followed through all its paths with  *)
(* the promises of the functions it calls in place of these, keeps its own *)
(* promise.  TLC evaluates that.  What is proved here is that promises     *)
(* kept one by one hold of the whole: of a stack of any depth.             *)
(*                                                                         *)
(* The invariant IInv says of each frame of the stack that it is in one of *)
(* the cases of its body: the last one as it is (Runs), the others with    *)
(* what they have lent to the function they wait for (Waits).  There is a  *)
(* lemma for each kind of step, that the cases follow it; a return is the  *)
(* hard one: what was promised by the body that ends is what the caller's  *)
(* case goes on with.                                                      *)
(*                                                                         *)
(* The COM clients have cases of their own (ClientCases) and an invariant  *)
(* of their own: by ClientInv every frame of the stack is, for each client *)
(* none of whose members was lost, in a case of its body with the members  *)
(* as they are now, and between two calls all members are live or all are  *)
(* null.  It is inductive because no function changes a member while       *)
(* another waits for it.                                                   *)
(***************************************************************************)
EXTENDS Win32Calls, ClientCases, TLAPS

Holdings == UNION {[D -> Nat \ {0}] : D \in SUBSET Names}

Frames == [fn : Functions, at : Names, held : Holdings, guarded : Holdings,
           handed : SUBSET Names, ret : BOOLEAN, failed : BOOLEAN, entered : Tokens]

\* A token as a case has it.
Seen(t) == [token |-> t.token # "none", debug |-> t.debug]

\* What a frame is a case of; lent is what it has lent to the function it has called.
CaseOf(F, lent, deep, t) ==
  [at |-> F.at, held |-> BagToSet(F.held) \cup lent, guarded |-> BagToSet(F.guarded),
   handed |-> F.handed, ret |-> F.ret, failed |-> F.failed, deep |-> deep,
   entered |-> Seen(F.entered), thread |-> Seen(t)]

\* Of what is no leak there is one.
Few(F) == \A r \in BagToSet(F.held) : F.held[r] = 1 \/ <<F.fn, r>> \in Leaks
-----------------------------------------------------------------------------
(* What a frame holds *)

LEMMA AddedAt ==
  ASSUME NEW D, NEW S, NEW q \in D \cup S, NEW n, q \in D => n \in Nat \ {0},
         NEW m, m = (IF q \in D THEN n ELSE 0) + (IF q \in S THEN 1 ELSE 0)
  PROVE  /\ m \in Nat \ {0}
         /\ q \notin S => m = n
         /\ q \notin D => m = 1
<1>1. CASE q \in D /\ q \in S
  BY <1>1
<1>2. CASE q \in D /\ q \notin S
  BY <1>2
<1>3. CASE q \notin D /\ q \in S
  BY <1>3
<1> QED
  BY <1>1, <1>2, <1>3

LEMMA Added ==
  ASSUME NEW B \in Holdings, NEW S, S \subseteq Names
  PROVE  /\ B (+) SetToBag(S) \in Holdings
         /\ BagToSet(B (+) SetToBag(S)) = BagToSet(B) \cup S
         /\ \A q \in BagToSet(B) \ S : (B (+) SetToBag(S))[q] = B[q]
         /\ \A q \in S \ BagToSet(B) : (B (+) SetToBag(S))[q] = 1
<1>1. PICK D : D \subseteq Names /\ B \in [D -> Nat \ {0}]
  BY DEF Holdings
<1>2. DOMAIN B = D /\ \A q \in D : B[q] \in Nat \ {0}
  BY <1>1
<1>a. PICK sum : sum = [q \in D \cup S |-> (IF q \in D THEN B[q] ELSE 0) + (IF q \in S THEN 1 ELSE 0)]
  OBVIOUS
<1>3. B (+) SetToBag(S) = sum
  BY <1>a, <1>2 DEF (+), SetToBag
<1>4. \A q \in D \cup S : /\ sum[q] \in Nat \ {0}
                          /\ q \notin S => sum[q] = B[q]
                          /\ q \notin D => sum[q] = 1
  <2>1. ASSUME NEW q \in D \cup S
        PROVE  /\ sum[q] \in Nat \ {0}
               /\ q \notin S => sum[q] = B[q]
               /\ q \notin D => sum[q] = 1
    <3>1. sum[q] = (IF q \in D THEN B[q] ELSE 0) + (IF q \in S THEN 1 ELSE 0)
      BY <1>a
    <3>2. q \in D => B[q] \in Nat \ {0}
      BY <1>2
    <3>3. PICK n, m : n = B[q] /\ m = sum[q]
      OBVIOUS
    <3>4. /\ m = (IF q \in D THEN n ELSE 0) + (IF q \in S THEN 1 ELSE 0)
          /\ q \in D => n \in Nat \ {0}
      BY <3>1, <3>2, <3>3
    <3>5. /\ m \in Nat \ {0}
          /\ q \notin S => m = n
          /\ q \notin D => m = 1
      BY <3>4, AddedAt
    <3> QED
      BY <3>3, <3>5
  <2> QED
    BY <2>1
<1>5. DOMAIN sum = D \cup S /\ sum = [q \in D \cup S |-> sum[q]]
  BY <1>a
<1>6. sum \in [D \cup S -> Nat \ {0}]
  BY <1>4, <1>5
<1>7. sum \in Holdings
  BY <1>1, <1>6 DEF Holdings
<1> QED
  BY <1>2, <1>3, <1>4, <1>5, <1>7 DEF BagToSet

LEMMA RemovedAt ==
  ASSUME NEW q, NEW r, NEW n \in Nat \ {0}, NEW m, m = IF q = r THEN n - 1 ELSE n
  PROVE  /\ m > 0 => m \in Nat \ {0}
         /\ q # r => m = n /\ m > 0
         /\ q = r => (m > 0 <=> n # 1)
<1>1. CASE q = r
  BY <1>1
<1>2. CASE q # r
  BY <1>2
<1> QED
  BY <1>1, <1>2

LEMMA Removed ==
  ASSUME NEW B \in Holdings, NEW r \in Names
  PROVE  /\ B (-) One(r) \in Holdings
         /\ BagToSet(B (-) One(r)) \in {BagToSet(B), BagToSet(B) \ {r}}
         /\ r \in BagToSet(B) /\ B[r] = 1 => BagToSet(B (-) One(r)) = BagToSet(B) \ {r}
         /\ \A q \in BagToSet(B (-) One(r)) : q # r => (B (-) One(r))[q] = B[q]
<1>1. PICK D : D \subseteq Names /\ B \in [D -> Nat \ {0}]
  BY DEF Holdings
<1>2. DOMAIN B = D /\ \A q \in D : B[q] \in Nat \ {0}
  BY <1>1
<1>a. PICK less : less = [q \in D |-> IF q = r THEN B[q] - 1 ELSE B[q]]
  OBVIOUS
<1>b. PICK left : left = {q \in D : less[q] > 0}
  OBVIOUS
<1>3. B (-) One(r) = [q \in left |-> less[q]]
  <2>1. \A q \in D : q \in DOMAIN SetToBag({r}) <=> q = r
    BY DEF SetToBag
  <2>2. \A q \in D : q = r => SetToBag({r})[q] = 1
    BY DEF SetToBag
  <2>3. less = [q \in DOMAIN B |-> IF q \in DOMAIN SetToBag({r}) THEN B[q] - SetToBag({r})[q] ELSE B[q]]
    BY <1>a, <1>2, <2>1, <2>2
  <2> QED
    BY <1>a, <1>b, <1>2, <2>3 DEF (-), One
<1>4. \A q \in D : /\ less[q] > 0 => less[q] \in Nat \ {0}
                   /\ q # r => less[q] = B[q] /\ less[q] > 0
                   /\ q = r => (less[q] > 0 <=> B[q] # 1)
  <2>1. ASSUME NEW q \in D
        PROVE  /\ less[q] > 0 => less[q] \in Nat \ {0}
               /\ q # r => less[q] = B[q] /\ less[q] > 0
               /\ q = r => (less[q] > 0 <=> B[q] # 1)
    <3>1. less[q] = (IF q = r THEN B[q] - 1 ELSE B[q]) /\ B[q] \in Nat \ {0}
      BY <1>a, <1>2
    <3> QED
      BY <3>1, RemovedAt
  <2> QED
    BY <2>1
<1>5. left \subseteq D /\ \A q \in D : q \in left <=> less[q] > 0
  BY <1>b
<1>6. [q \in left |-> less[q]] \in [left -> Nat \ {0}]
  BY <1>4, <1>5
<1>7. B (-) One(r) \in Holdings
  BY <1>1, <1>3, <1>5, <1>6 DEF Holdings
<1>8. BagToSet(B (-) One(r)) = left /\ \A q \in left : (B (-) One(r))[q] = less[q]
  BY <1>3 DEF BagToSet
<1>9. BagToSet(B) = D
  BY <1>2 DEF BagToSet
<1>10. left \in {D, D \ {r}} /\ (r \in D /\ B[r] = 1 => left = D \ {r})
  BY <1>4, <1>5
<1> QED
  BY <1>2, <1>4, <1>5, <1>7, <1>8, <1>9, <1>10
-----------------------------------------------------------------------------
(* The inductive invariant *)

AtStep(F) == F.at \in DOMAIN Bodies[F.fn]
StepOf(F) == Bodies[F.fn][F.at]

\* What it has borrowed: its first step does that.
Borrowed(G) == IF G.at = "begin" THEN {} ELSE Borrows(G.fn)

\* F has called G; with what it lent to G it is a case of its function.
Waits(F, G) == /\ AtStep(F) /\ Calls(StepOf(F)) /\ StepOf(F).what = G.fn
               /\ Borrowed(G) \cap BagToSet(F.held) = {}
               /\ CaseOf(F, Borrowed(G), FALSE, G.entered) \in Cases(F.fn)

\* The n-th function entered is running.  Beyond the bound it cannot call.
TooDeep(n) == ~(n < MaxDepth)
Runs(F, n, t) == CaseOf(F, {}, TooDeep(n), t) \in Cases(F.fn)

\* A token the thread had when a function was entered it has still.
TokenStays(stk, t) ==
  \A i \in 1 .. Len(stk) : stk[i].entered.token # "none" =>
    /\ t.token = stk[i].entered.token
    /\ \A j \in i .. Len(stk) : stk[j].entered.token = stk[i].entered.token

Sound(stk, t) ==
  /\ stk \in Seq(Frames)
  /\ t \in Tokens /\ (t.debug => t.token # "none")
  /\ \A i \in 1 .. Len(stk) : Few(stk[i])
  /\ Len(stk) > 0 => Runs(stk[Len(stk)], Len(stk), t)
  /\ \A i \in 1 .. Len(stk) - 1 : i < MaxDepth /\ Waits(stk[i], stk[i + 1])
  /\ TokenStays(stk, t)

IInv == Sound(stack, thread)
-----------------------------------------------------------------------------
(* Frames and their cases *)

CaseSet == [at : Names, held : SUBSET Names, guarded : SUBSET Names, handed : SUBSET Names,
            ret : BOOLEAN, failed : BOOLEAN, deep : BOOLEAN,
            entered : [token : BOOLEAN, debug : BOOLEAN],
            thread : [token : BOOLEAN, debug : BOOLEAN]]

LEMMA SameCase ==
  ASSUME NEW j \in CaseSet, NEW k \in CaseSet, j.at = k.at, j.held = k.held,
         j.guarded = k.guarded, j.handed = k.handed, j.ret = k.ret, j.failed = k.failed,
         j.deep = k.deep, j.entered = k.entered, j.thread = k.thread
  PROVE  j = k
BY DEF CaseSet

LEMMA CaseOfFrame ==
  ASSUME NEW F \in Frames, NEW lent \in SUBSET Names, NEW deep \in BOOLEAN, NEW t \in Tokens
  PROVE  CaseOf(F, lent, deep, t) \in CaseSet
<1>1. /\ Seen(F.entered) \in [token : BOOLEAN, debug : BOOLEAN]
      /\ Seen(t) \in [token : BOOLEAN, debug : BOOLEAN]
  BY DEF Frames, Tokens, Seen
<1>2. \A B \in Holdings : BagToSet(B) \in SUBSET Names
  BY DEF Holdings, BagToSet
<1> QED
  BY <1>1, <1>2 DEF CaseOf, CaseSet, Frames

LEMMA FrameGoesOn ==
  ASSUME NEW F \in Frames, NEW s \in StepSet
  PROVE  LET P == Passed(F, s)
             M == Missed(F, s)
         IN  /\ P \in Frames /\ P.fn = F.fn /\ P.at = s.ok /\ P.held = F.held
             /\ P.guarded = F.guarded /\ P.handed = F.handed /\ P.entered = F.entered
             /\ P.ret = (F.ret \/ s.must)
             /\ P.failed = (F.failed /\ ~s.again)
             /\ M \in Frames /\ M.fn = F.fn /\ M.at = s.or /\ M.held = F.held
             /\ M.guarded = F.guarded /\ M.handed = F.handed /\ M.entered = F.entered
             /\ M.ret = F.ret
             /\ M.failed = (F.failed \/ s.must)
BY DEF Frames, StepSet, Passed, Missed

LEMMA CaseGoesOn ==
  ASSUME NEW k \in CaseSet, NEW s \in StepSet
  PROVE  LET P == Passed(k, s)
             M == Missed(k, s)
         IN  /\ P \in CaseSet /\ P.at = s.ok /\ P.held = k.held /\ P.guarded = k.guarded
             /\ P.handed = k.handed /\ P.entered = k.entered /\ P.thread = k.thread
             /\ P.deep = k.deep
             /\ P.ret = (k.ret \/ s.must)
             /\ P.failed = (k.failed /\ ~s.again)
             /\ M \in CaseSet /\ M.at = s.or /\ M.held = k.held /\ M.guarded = k.guarded
             /\ M.handed = k.handed /\ M.entered = k.entered /\ M.thread = k.thread
             /\ M.deep = k.deep
             /\ M.ret = k.ret
             /\ M.failed = (k.failed \/ s.must)
<1>1. /\ Passed(k, s) \in CaseSet /\ Missed(k, s) \in CaseSet
      /\ Passed(k, s).at = s.ok /\ Missed(k, s).at = s.or
  BY DEF CaseSet, StepSet, Passed, Missed
<1>2. /\ Passed(k, s).held = k.held /\ Passed(k, s).guarded = k.guarded
      /\ Passed(k, s).handed = k.handed
  BY DEF CaseSet, StepSet, Passed
<1>3. /\ Missed(k, s).held = k.held /\ Missed(k, s).guarded = k.guarded
      /\ Missed(k, s).handed = k.handed
  BY DEF CaseSet, StepSet, Missed
<1>4. /\ Passed(k, s).entered = k.entered /\ Passed(k, s).thread = k.thread
      /\ Passed(k, s).deep = k.deep
  BY DEF CaseSet, StepSet, Passed
<1>5. /\ Missed(k, s).entered = k.entered /\ Missed(k, s).thread = k.thread
      /\ Missed(k, s).deep = k.deep
  BY DEF CaseSet, StepSet, Missed
<1>6. Passed(k, s).ret = (k.ret \/ s.must)
  BY DEF CaseSet, StepSet, Passed
<1>7. Passed(k, s).failed = (k.failed /\ ~s.again)
  BY DEF CaseSet, StepSet, Passed
<1>8. Missed(k, s).ret = k.ret
  BY DEF CaseSet, StepSet, Missed
<1>9. Missed(k, s).failed = (k.failed \/ s.must)
  BY DEF CaseSet, StepSet, Missed
<1> QED
  BY <1>1, <1>2, <1>3, <1>4, <1>5, <1>6, <1>7, <1>8, <1>9

LEMMA Going ==
  ASSUME NEW F \in Frames, NEW lent \in SUBSET Names, NEW deep \in BOOLEAN, NEW t \in Tokens,
         NEW s \in StepSet
  PROVE  /\ CaseOf(Passed(F, s), lent, deep, t) = Passed(CaseOf(F, lent, deep, t), s)
         /\ CaseOf(Missed(F, s), lent, deep, t) = Missed(CaseOf(F, lent, deep, t), s)
<1>1. PICK k \in CaseSet : k = CaseOf(F, lent, deep, t)
  BY CaseOfFrame
<1>2. ASSUME NEW G \in Frames, NEW i \in CaseSet, G.held = F.held, G.guarded = F.guarded,
             G.handed = F.handed, G.entered = F.entered, G.at = i.at, G.ret = i.ret,
             G.failed = i.failed, i.held = k.held, i.guarded = k.guarded, i.handed = k.handed,
             i.entered = k.entered, i.thread = k.thread, i.deep = k.deep
      PROVE  CaseOf(G, lent, deep, t) = i
  <2>1. PICK j \in CaseSet : j = CaseOf(G, lent, deep, t)
    BY CaseOfFrame
  <2>2. /\ j.at = i.at /\ j.held = i.held /\ j.guarded = i.guarded /\ j.handed = i.handed
        /\ j.entered = i.entered /\ j.thread = i.thread
    BY <1>1, <1>2, <2>1 DEF CaseOf
  <2>3. j.deep = i.deep
    BY <1>1, <1>2, <2>1 DEF CaseOf
  <2>4. j.ret = i.ret
    BY <1>2, <2>1 DEF CaseOf
  <2>5. j.failed = i.failed
    BY <1>2, <2>1 DEF CaseOf
  <2> QED
    BY <2>1, <2>2, <2>3, <2>4, <2>5, SameCase
<1>3. k.ret = F.ret
  BY <1>1 DEF CaseOf
<1>4. k.failed = F.failed
  BY <1>1 DEF CaseOf
<1>5. CaseOf(Passed(F, s), lent, deep, t) = Passed(k, s)
  BY <1>2, <1>3, <1>4, FrameGoesOn, CaseGoesOn, SMTT(30)
<1>6. CaseOf(Missed(F, s), lent, deep, t) = Missed(k, s)
  BY <1>2, <1>3, <1>4, FrameGoesOn, CaseGoesOn, SMTT(30)
<1> QED
  BY <1>1, <1>5, <1>6

\* What a step does with one part of the frame it does with this part of the case.
LEMMA HeldCase ==
  ASSUME NEW F \in Frames, NEW deep \in BOOLEAN, NEW t \in Tokens, NEW H \in Holdings
  PROVE  LET G == [F EXCEPT !.held = H]
         IN  /\ G \in Frames /\ G.fn = F.fn /\ G.at = F.at /\ G.entered = F.entered
             /\ G.held = H /\ G.guarded = F.guarded /\ G.handed = F.handed
             /\ CaseOf(G, {}, deep, t) = [CaseOf(F, {}, deep, t) EXCEPT !.held = BagToSet(H)]
<1>1. PICK G \in Frames : G = [F EXCEPT !.held = H]
  BY DEF Frames
<1>2. /\ G.fn = F.fn /\ G.at = F.at /\ G.entered = F.entered /\ G.held = H
      /\ G.guarded = F.guarded /\ G.handed = F.handed /\ G.ret = F.ret /\ G.failed = F.failed
  BY <1>1 DEF Frames
<1>3. PICK k \in CaseSet : k = CaseOf(F, {}, deep, t)
  BY CaseOfFrame
<1>4. CaseOf(G, {}, deep, t) = [k EXCEPT !.held = BagToSet(H)]
  BY <1>2, <1>3 DEF CaseOf
<1> QED
  BY <1>1, <1>2, <1>3, <1>4

LEMMA GuardedCase ==
  ASSUME NEW F \in Frames, NEW deep \in BOOLEAN, NEW t \in Tokens, NEW H \in Holdings
  PROVE  LET G == [F EXCEPT !.guarded = H]
         IN  /\ G \in Frames /\ G.fn = F.fn /\ G.at = F.at /\ G.entered = F.entered
             /\ G.held = F.held /\ G.guarded = H /\ G.handed = F.handed
             /\ CaseOf(G, {}, deep, t) = [CaseOf(F, {}, deep, t) EXCEPT !.guarded = BagToSet(H)]
<1>1. PICK G \in Frames : G = [F EXCEPT !.guarded = H]
  BY DEF Frames
<1>2. /\ G.fn = F.fn /\ G.at = F.at /\ G.entered = F.entered /\ G.held = F.held
      /\ G.guarded = H /\ G.handed = F.handed /\ G.ret = F.ret /\ G.failed = F.failed
  BY <1>1 DEF Frames
<1>3. PICK k \in CaseSet : k = CaseOf(F, {}, deep, t)
  BY CaseOfFrame
<1>4. CaseOf(G, {}, deep, t) = [k EXCEPT !.guarded = BagToSet(H)]
  BY <1>2, <1>3 DEF CaseOf
<1> QED
  BY <1>1, <1>2, <1>3, <1>4

LEMMA HandedCase ==
  ASSUME NEW F \in Frames, NEW deep \in BOOLEAN, NEW t \in Tokens, NEW H \in SUBSET Names
  PROVE  LET G == [F EXCEPT !.handed = H]
         IN  /\ G \in Frames /\ G.fn = F.fn /\ G.at = F.at /\ G.entered = F.entered
             /\ G.held = F.held /\ G.guarded = F.guarded /\ G.handed = H
             /\ CaseOf(G, {}, deep, t) = [CaseOf(F, {}, deep, t) EXCEPT !.handed = H]
<1>1. PICK G \in Frames : G = [F EXCEPT !.handed = H]
  BY DEF Frames
<1>2. /\ G.fn = F.fn /\ G.at = F.at /\ G.entered = F.entered /\ G.held = F.held
      /\ G.guarded = F.guarded /\ G.handed = H /\ G.ret = F.ret /\ G.failed = F.failed
  BY <1>1 DEF Frames
<1>3. PICK k \in CaseSet : k = CaseOf(F, {}, deep, t)
  BY CaseOfFrame
<1>4. CaseOf(G, {}, deep, t) = [k EXCEPT !.handed = H]
  BY <1>2, <1>3 DEF CaseOf
<1> QED
  BY <1>1, <1>2, <1>3, <1>4

LEMMA ThreadCase ==
  ASSUME NEW F \in Frames, NEW deep \in BOOLEAN, NEW t \in Tokens, NEW u \in Tokens
  PROVE  CaseOf(F, {}, deep, u) = WithThread(CaseOf(F, {}, deep, t), Seen(u))
<1>1. PICK k \in CaseSet : k = CaseOf(F, {}, deep, t)
  BY CaseOfFrame
<1>2. CaseOf(F, {}, deep, u) = [k EXCEPT !.thread = Seen(u)]
  BY <1>1 DEF CaseOf
<1> QED
  BY <1>1, <1>2 DEF WithThread
-----------------------------------------------------------------------------
(* What the tables promise *)

LEMMA StepInTable ==
  ASSUME NEW f \in Functions, NEW k \in Cases(f), k.at \in DOMAIN Bodies[f],
         NEW s, s = Bodies[f][k.at]
  PROVE  /\ s \in StepSet /\ s \in StepsOf(f)
         /\ StepFrom(f, k, s) \subseteq Cases(f)
         /\ StepIsSafe(f, k, s)
         /\ Calls(s) => CallIsSafe(f, k, s)
<1>1. BodyIsSound(f, Cases(f))
  BY TablesAreSound
<1>2. s \in StepsOf(f) /\ s \in StepSet
  BY <1>1 DEF BodyIsSound, StepsOf
<1>3. Following(f, k) \subseteq Cases(f) /\ CaseIsSafe(f, k)
  BY <1>1 DEF BodyIsSound
<1>4. StepFrom(f, k, s) \subseteq Following(f, k)
  BY DEF Following
<1>5. StepIsSafe(f, k, s) /\ (Calls(s) => CallIsSafe(f, k, s))
  BY <1>3 DEF CaseIsSafe
<1> QED
  BY <1>2, <1>3, <1>4, <1>5

LEMMA CaseInTable ==
  ASSUME NEW f \in Functions, NEW k \in Cases(f)
  PROVE  k.thread \in ThreadCases /\ (Ends(k) => EndIsSafe(f, k))
BY TablesAreSound DEF BodyIsSound, CaseIsSafe

LEMMA FirstInTable ==
  ASSUME NEW f \in Functions
  PROVE  /\ \A deep \in BOOLEAN, t \in ThreadCases : FirstCase(deep, t) \in Cases(f)
         /\ "begin" \in Names
         /\ Borrows(f) \in SUBSET Names
<1>1. BodyIsSound(f, Cases(f))
  BY TablesAreSound
<1>2. "begin" \in Names
  BY <1>1 DEF BodyIsSound
<1>3. Borrows(f) \in SUBSET Names
  BY <1>1 DEF BodyIsSound, StepsOf, StepSet, Borrows
<1> QED
  BY <1>1, <1>2, <1>3 DEF BodyIsSound

\* What a caller and the function it waits for are to each other.
LEMMA Called ==
  ASSUME NEW F \in Frames, NEW G \in Frames, Waits(F, G)
  PROVE  /\ StepOf(F) \in StepSet
         /\ BorrowsFirst(G.fn)
         /\ \A r \in Borrows(G.fn) : r \in BagToSet(F.held) \cup Borrowed(G) /\ <<F.fn, r>> \notin Leaks
         /\ CallIsSafe(F.fn, CaseOf(F, Borrowed(G), FALSE, G.entered), StepOf(F))
         /\ StepFrom(F.fn, CaseOf(F, Borrowed(G), FALSE, G.entered), StepOf(F)) \subseteq Cases(F.fn)
<1>1. PICK k : k = CaseOf(F, Borrowed(G), FALSE, G.entered)
  OBVIOUS
<1>2. k.at = F.at /\ k.held = BagToSet(F.held) \cup Borrowed(G)
  BY <1>1 DEF CaseOf
<1>3. F.fn \in Functions
  BY DEF Frames
<1>4. /\ k \in Cases(F.fn) /\ k.at \in DOMAIN Bodies[F.fn] /\ StepOf(F) = Bodies[F.fn][k.at]
      /\ Calls(StepOf(F)) /\ StepOf(F).what = G.fn
  BY <1>1, <1>2 DEF Waits, AtStep, StepOf
<1>5. /\ StepOf(F) \in StepSet /\ CallIsSafe(F.fn, k, StepOf(F))
      /\ StepFrom(F.fn, k, StepOf(F)) \subseteq Cases(F.fn)
  BY <1>3, <1>4, StepInTable
<1>6. /\ BorrowsFirst(G.fn)
      /\ \A r \in Borrows(G.fn) : r \in k.held /\ <<F.fn, r>> \notin Leaks
  BY <1>4, <1>5 DEF CallIsSafe
<1> QED
  BY <1>1, <1>2, <1>5, <1>6

\* A step that takes nothing from the caller does not change what has been borrowed.
LEMMA SameBorrowed ==
  ASSUME NEW F \in Frames, AtStep(F), BorrowsFirst(F.fn), StepOf(F).do # "receive",
         NEW G \in Frames, G.fn = F.fn, G.at \in {StepOf(F).ok, StepOf(F).or}
  PROVE  Borrowed(G) = Borrowed(F)
<1>1. CASE Borrows(F.fn) = {}
  BY <1>1 DEF Borrowed
<1>2. CASE Borrows(F.fn) # {}
  <2>1. G.at # "begin"
    BY <1>2 DEF BorrowsFirst, AtStep, StepOf
  <2>2. F.at # "begin"
    <3>1. PICK at \in {a \in {"begin"} : Bodies[F.fn][a].do = "receive"} : TRUE
      BY <1>2 DEF Borrows
    <3> QED
      BY <3>1 DEF StepOf
  <2> QED
    BY <2>1, <2>2 DEF Borrowed
<1> QED
  BY <1>1, <1>2
-----------------------------------------------------------------------------
(* A function goes on *)

LEMMA TopIs ==
  ASSUME NEW stk, NEW t, Sound(stk, t), NEW n \in 1 .. Len(stk),
         NEW new \in Seq(Frames), Len(new) = n, \A i \in 1 .. n - 1 : new[i] = stk[i],
         new[n].fn = stk[n].fn, new[n].entered = stk[n].entered,
         n > 1 => Borrowed(new[n]) = Borrowed(stk[n]),
         Few(new[n]), NEW u \in Tokens, Runs(new[n], n, u),
         u.token = t.token \/ stk[n].entered.token = "none"
  PROVE  Sound(new, u)
<1>1. stk \in Seq(Frames) /\ Len(stk) \in Nat /\ n \in Nat
  BY DEF Sound
<1>2. \A i \in 1 .. n : new[i] \in Frames /\ Few(new[i])
  BY <1>1 DEF Sound
<1>3. u.debug => u.token # "none"
  <2>1. PICK k \in Cases(new[n].fn) : k = CaseOf(new[n], {}, TooDeep(n), u)
    BY DEF Runs
  <2>2. k.thread \in ThreadCases /\ k.thread = Seen(u)
    BY <1>2, <2>1, CaseInTable DEF CaseOf, Frames
  <2>3. Seen(u).debug => Seen(u).token
    BY <2>2 DEF ThreadCases
  <2> QED
    BY <2>3 DEF Seen
<1>4. ASSUME NEW i \in 1 .. n - 1
      PROVE  i < MaxDepth /\ Waits(new[i], new[i + 1])
  <2>1. i \in 1 .. Len(stk) - 1 /\ i \in 1 .. n - 1 /\ i + 1 \in 1 .. n
    BY <1>1
  <2>2. i < MaxDepth /\ Waits(stk[i], stk[i + 1]) /\ new[i] = stk[i]
    BY <2>1 DEF Sound
  <2>3. CASE i + 1 = n
    <3>1. /\ Borrowed(new[i + 1]) = Borrowed(stk[i + 1]) /\ new[i + 1].fn = stk[i + 1].fn
          /\ new[i + 1].entered = stk[i + 1].entered
      BY <1>1, <2>3
    <3> QED
      BY <2>2, <3>1 DEF Waits
  <2>4. CASE i + 1 # n
    <3>1. new[i + 1] = stk[i + 1]
      BY <1>1, <2>1, <2>4
    <3> QED
      BY <2>2, <3>1
  <2> QED
    BY <2>3, <2>4
<1>5. \A i \in 1 .. n : new[i].entered = stk[i].entered /\ i \in 1 .. Len(stk)
  BY <1>1
<1>6. TokenStays(new, u)
  <2>1. ASSUME NEW i \in 1 .. n, new[i].entered.token # "none"
        PROVE  /\ u.token = new[i].entered.token
               /\ \A j \in i .. n : new[j].entered.token = new[i].entered.token
    <3>1. /\ t.token = stk[i].entered.token
          /\ \A j \in i .. Len(stk) : stk[j].entered.token = stk[i].entered.token
      BY <1>5, <2>1 DEF Sound, TokenStays
    <3>2. \A j \in i .. n : j \in i .. Len(stk) /\ j \in 1 .. n
      BY <1>1
    <3>3. n \in i .. Len(stk)
      BY <1>1
    <3> QED
      BY <1>5, <2>1, <3>1, <3>2, <3>3
  <2> QED
    BY <2>1 DEF TokenStays
<1> QED
  BY <1>1, <1>2, <1>3, <1>4, <1>6 DEF Sound

\* What Top is about to do, and what follows for the rest of the stack.
LEMMA Goes ==
  ASSUME NEW stk, NEW t, Sound(stk, t), Len(stk) > 0, NEW F, F = stk[Len(stk)], AtStep(F),
         StepOf(F).do # "receive" \/ Len(stk) = 1,
         NEW G \in Frames, G.fn = F.fn, G.entered = F.entered, Few(G),
         G.at \in {StepOf(F).ok, StepOf(F).or},
         NEW u \in Tokens, u.token = t.token \/ F.entered.token = "none",
         CaseOf(G, {}, TooDeep(Len(stk)), u)
           \in StepFrom(F.fn, CaseOf(F, {}, TooDeep(Len(stk)), t), StepOf(F))
  PROVE  Sound([stk EXCEPT ![Len(stk)] = G], u)
<1>1. stk \in Seq(Frames) /\ Len(stk) \in Nat /\ Len(stk) \in 1 .. Len(stk)
  BY DEF Sound
<1>2. PICK n \in 1 .. Len(stk) : n = Len(stk)
  BY <1>1
<1>3. PICK new : new = [stk EXCEPT ![n] = G]
  OBVIOUS
<1>9. new \in Seq(Frames) /\ Len(new) = n
  BY <1>1, <1>2, <1>3
<1>10. new[n] = G /\ \A i \in 1 .. n - 1 : new[i] = stk[i]
  BY <1>1, <1>2, <1>3
<1>4. PICK k \in Cases(F.fn) : k = CaseOf(F, {}, TooDeep(n), t)
  BY <1>1, <1>2 DEF Sound, Runs
<1>11. F \in Frames
  BY <1>1
<1>5. F.fn \in Functions /\ k.at = F.at
  BY <1>4, <1>11 DEF Frames, CaseOf
<1>6. StepFrom(F.fn, k, StepOf(F)) \subseteq Cases(F.fn)
  BY <1>4, <1>5, StepInTable DEF AtStep, StepOf
<1>7. Runs(G, n, u)
  BY <1>2, <1>4, <1>6 DEF Runs
<1>8. ASSUME n > 1
      PROVE  Borrowed(G) = Borrowed(F)
  <2>1. n - 1 \in 1 .. Len(stk) - 1 /\ n - 1 + 1 = n /\ n - 1 \in 1 .. Len(stk)
    BY <1>1, <1>2, <1>8
  <2>2. Waits(stk[n - 1], stk[n - 1 + 1]) /\ stk[n - 1] \in Frames
    BY <1>1, <2>1 DEF Sound
  <2>3. BorrowsFirst(F.fn)
    BY <1>2, <1>11, <2>1, <2>2, Called
  <2> QED
    BY <1>2, <1>11, <1>8, <2>3, SameBorrowed
<1>12. /\ new[n].fn = stk[n].fn /\ new[n].entered = stk[n].entered /\ Few(new[n])
       /\ Runs(new[n], n, u) /\ (u.token = t.token \/ stk[n].entered.token = "none")
  BY <1>2, <1>7, <1>10
<1>13. n > 1 => Borrowed(new[n]) = Borrowed(stk[n])
  BY <1>2, <1>8, <1>10
<1>14. Sound(new, u)
  BY <1>9, <1>10, <1>12, <1>13, TopIs
<1> QED
  BY <1>2, <1>3, <1>14

LEMMA NextStep ==
  ASSUME NEW stk, NEW t, Sound(stk, t), Len(stk) > 0, NEW F, F = stk[Len(stk)]
  PROVE  /\ F \in Frames /\ F.fn \in Functions /\ t \in Tokens /\ Few(F)
         /\ CaseOf(F, {}, TooDeep(Len(stk)), t) \in Cases(F.fn)
         /\ AtStep(F) =>
              /\ StepOf(F) \in StepSet
              /\ StepIsSafe(F.fn, CaseOf(F, {}, TooDeep(Len(stk)), t), StepOf(F))
              /\ Calls(StepOf(F)) =>
                   CallIsSafe(F.fn, CaseOf(F, {}, TooDeep(Len(stk)), t), StepOf(F))
<1>1. stk \in Seq(Frames) /\ Len(stk) \in Nat /\ Len(stk) \in 1 .. Len(stk)
  BY DEF Sound
<1>2. F \in Frames /\ t \in Tokens /\ Few(F)
  BY <1>1 DEF Sound
<1>3. F.fn \in Functions
  BY <1>2 DEF Frames
<1>4. PICK k \in Cases(F.fn) : k = CaseOf(F, {}, TooDeep(Len(stk)), t)
  BY <1>1 DEF Sound, Runs
<1>5. k.at = F.at
  BY <1>4 DEF CaseOf
<1> QED
  BY <1>2, <1>3, <1>4, <1>5, StepInTable DEF AtStep, StepOf

LEMMA Succeeds ==
  ASSUME NEW stk, NEW t, Sound(stk, t), Len(stk) > 0, NEW F, F = stk[Len(stk)], AtStep(F),
         StepOf(F).do # "receive" \/ Len(stk) = 1, ~Calls(StepOf(F)),
         NEW G \in Frames, G.fn = F.fn, G.entered = F.entered, Few(G),
         NEW u \in Tokens, u.token = t.token \/ F.entered.token = "none",
         CaseOf(G, {}, TooDeep(Len(stk)), u)
           \in Done(F.fn, CaseOf(F, {}, TooDeep(Len(stk)), t), StepOf(F))
  PROVE  Sound([stk EXCEPT ![Len(stk)] = Passed(G, StepOf(F))], u)
<1>1. PICK s, P, deep, k :
        /\ s = StepOf(F) /\ P = Passed(G, s) /\ deep = TooDeep(Len(stk))
        /\ k = CaseOf(F, {}, deep, t)
  OBVIOUS
<1>2. s \in StepSet
  BY <1>1, NextStep
<1>3. deep \in BOOLEAN /\ {} \in SUBSET Names
  BY <1>1 DEF TooDeep
<1>4. /\ P \in Frames /\ P.fn = F.fn /\ P.entered = F.entered /\ P.held = G.held
      /\ P.at = s.ok
  BY <1>1, <1>2, FrameGoesOn
<1>5. CaseOf(P, {}, deep, u) = Passed(CaseOf(G, {}, deep, u), s)
  <2>1. CaseOf(Passed(G, s), {}, deep, u) = Passed(CaseOf(G, {}, deep, u), s)
    BY <1>2, <1>3, Going
  <2> QED
    BY <1>1, <2>1
<1>6. CaseOf(P, {}, deep, u) \in StepFrom(F.fn, k, s)
  BY <1>1, <1>5 DEF StepFrom
<1>7. Few(P)
  BY <1>4 DEF Few
<1> QED
  BY <1>1, <1>4, <1>6, <1>7, Goes

LEMMA Misses ==
  ASSUME NEW stk, NEW t, Sound(stk, t), Len(stk) > 0, NEW F, F = stk[Len(stk)], AtStep(F),
         StepOf(F).do # "receive",
         LET k == CaseOf(F, {}, TooDeep(Len(stk)), t)
         IN  IF Calls(StepOf(F)) THEN TooDeep(Len(stk)) ELSE Fails(k, StepOf(F))
  PROVE  Sound([stk EXCEPT ![Len(stk)] = Missed(F, StepOf(F))], t)
<1>1. PICK s, M, deep, k :
        /\ s = StepOf(F) /\ M = Missed(F, s) /\ deep = TooDeep(Len(stk))
        /\ k = CaseOf(F, {}, deep, t)
  OBVIOUS
<1>2. s \in StepSet /\ F \in Frames /\ t \in Tokens /\ Few(F)
  BY <1>1, NextStep
<1>3. deep \in BOOLEAN /\ {} \in SUBSET Names
  BY <1>1 DEF TooDeep
<1>4. /\ M \in Frames /\ M.fn = F.fn /\ M.entered = F.entered /\ M.held = F.held
      /\ M.at = s.or
  BY <1>1, <1>2, FrameGoesOn
<1>5. CaseOf(M, {}, deep, t) = Missed(k, s)
  <2>1. CaseOf(Missed(F, s), {}, deep, t) = Missed(CaseOf(F, {}, deep, t), s)
    BY <1>2, <1>3, Going
  <2> QED
    BY <1>1, <2>1
<1>6. CaseOf(M, {}, deep, t) \in StepFrom(F.fn, k, s)
  <2>1. CASE Calls(s)
    <3>1. deep /\ k.deep = deep
      BY <1>1, <2>1 DEF CaseOf
    <3> QED
      BY <1>5, <2>1, <3>1 DEF StepFrom
  <2>2. CASE ~Calls(s)
    BY <1>1, <1>5, <2>2 DEF StepFrom
  <2> QED
    BY <2>1, <2>2
<1>7. Few(M)
  BY <1>2, <1>4 DEF Few
<1> QED
  BY <1>1, <1>2, <1>4, <1>6, <1>7, Goes
-----------------------------------------------------------------------------
(* The actions of one function *)

\* The case Top is in.
TopCase == CaseOf(Top, {}, TooDeep(Depth), thread)

LEMMA AtTop ==
  ASSUME IInv, NEW do, At(do)
  PROVE  /\ Len(stack) > 0 /\ AtStep(Top) /\ Now = StepOf(Top) /\ Now.do = do
         /\ Top \in Frames /\ Top.fn \in Functions /\ thread \in Tokens /\ Few(Top)
         /\ Now \in StepSet /\ StepIsSafe(Top.fn, TopCase, Now)
         /\ Calls(Now) => CallIsSafe(Top.fn, TopCase, Now)
         /\ TopCase \in Cases(Top.fn)
         /\ TooDeep(Depth) \in BOOLEAN
         /\ (do \notin {"do", "relay"} => ~Calls(Now)) /\ (do \in {"do", "relay"} => Calls(Now))
<1>1. Len(stack) > 0 /\ AtStep(Top) /\ Now = StepOf(Top) /\ Now.do = do
  BY DEF At, Depth, AtStep, StepOf, Now
<1>2. Top = stack[Len(stack)] /\ Sound(stack, thread)
  BY DEF Top, Depth, IInv
<1>3. /\ Top \in Frames /\ Top.fn \in Functions /\ thread \in Tokens /\ Few(Top)
      /\ TopCase \in Cases(Top.fn)
      /\ StepOf(Top) \in StepSet /\ StepIsSafe(Top.fn, TopCase, StepOf(Top))
      /\ Calls(StepOf(Top)) => CallIsSafe(Top.fn, TopCase, StepOf(Top))
  BY <1>1, <1>2, NextStep DEF TopCase, Depth
<1>4. (do \notin {"do", "relay"} => ~Calls(Now)) /\ (do \in {"do", "relay"} => Calls(Now))
  BY <1>1 DEF Calls
<1>5. TooDeep(Depth) \in BOOLEAN
  BY DEF TooDeep
<1>6. /\ Now \in StepSet /\ StepIsSafe(Top.fn, TopCase, Now)
      /\ Calls(Now) => CallIsSafe(Top.fn, TopCase, Now)
  BY <1>1, <1>3
<1> QED
  BY <1>1, <1>3, <1>4, <1>5, <1>6

\* When a step changes G of the frame, the thread to u, and succeeds.
LEMMA TopSucceeds ==
  ASSUME IInv, NEW do, At(do), do \notin {"do", "relay"}, do # "receive" \/ Len(stack) = 1,
         NEW G \in Frames, G.fn = Top.fn, G.entered = Top.entered, Few(G), Succeed(G),
         thread' \in Tokens, thread'.token = thread.token \/ Top.entered.token = "none",
         CaseOf(G, {}, TooDeep(Depth), thread') \in Done(Top.fn, TopCase, Now)
  PROVE  IInv'
<1>1. Sound(stack, thread) /\ Top = stack[Len(stack)]
  BY DEF IInv, Top, Depth
<1>2. Sound([stack EXCEPT ![Len(stack)] = Passed(G, StepOf(Top))], thread')
  BY <1>1, AtTop, Succeeds DEF TopCase, Depth
<1> QED
  BY <1>2, AtTop DEF IInv, Succeed, Depth

LEMMA TopMisses ==
  ASSUME IInv, NEW do, At(do), Fail, thread' = thread, do # "receive",
         IF do \in {"do", "relay"} THEN TooDeep(Depth) ELSE Fails(TopCase, Now)
  PROVE  IInv'
<1>1. Sound(stack, thread) /\ Top = stack[Len(stack)]
  BY DEF IInv, Top, Depth
<1>2. IF Calls(StepOf(Top)) THEN TooDeep(Len(stack)) ELSE Fails(TopCase, StepOf(Top))
  BY AtTop DEF Depth
<1>3. Sound([stack EXCEPT ![Len(stack)] = Missed(Top, StepOf(Top))], thread)
  BY <1>1, <1>2, AtTop, Misses DEF TopCase, Depth
<1> QED
  BY <1>3, AtTop DEF IInv, Fail, Depth

LEMMA CallsWindows ==
  ASSUME IInv, CallWindows
  PROVE  IInv'
<1>1. At("call") /\ thread' = thread
  BY DEF CallWindows
<1>2. CASE Succeed(Top)
  <2>1. Now.do = "call"
    BY <1>1, AtTop
  <2>2. Done(Top.fn, TopCase, Now) = {TopCase}
    BY <2>1 DEF Done, Takes, Gives
  <2> QED
    BY <1>1, <1>2, <2>2, AtTop, TopSucceeds DEF TopCase
<1>3. CASE Fail
  <2>1. Fails(TopCase, Now)
    BY <1>1, AtTop DEF Fails, MayFail
  <2> QED
    BY <1>1, <1>3, <2>1, TopMisses
<1> QED
  BY <1>2, <1>3 DEF CallWindows

\* What a function takes twice is one of its leaks.
LEMMA FewMore ==
  ASSUME NEW F \in Frames, Few(F), NEW H \in SUBSET Names,
         \A r \in H \cap BagToSet(F.held) : <<F.fn, r>> \in Leaks,
         NEW G \in Frames, G.fn = F.fn, G.held = F.held (+) SetToBag(H)
  PROVE  Few(G) /\ BagToSet(G.held) = BagToSet(F.held) \cup H
<1>1. F.held \in Holdings
  BY DEF Frames
<1>2. PICK B : B = F.held (+) SetToBag(H)
  OBVIOUS
<1>3. /\ BagToSet(B) = BagToSet(F.held) \cup H
      /\ \A q \in BagToSet(F.held) \ H : B[q] = F.held[q]
      /\ \A q \in H \ BagToSet(F.held) : B[q] = 1
  BY <1>1, <1>2, Added
<1> QED
  BY <1>2, <1>3 DEF Few

LEMMA FewLess ==
  ASSUME NEW F \in Frames, Few(F), NEW r \in Names,
         NEW G \in Frames, G.fn = F.fn, G.held = F.held (-) One(r)
  PROVE  /\ Few(G)
         /\ BagToSet(G.held) = BagToSet(F.held) \ {r}
              \/ (BagToSet(G.held) = BagToSet(F.held) /\ <<F.fn, r>> \in Leaks)
<1>1. F.held \in Holdings
  BY DEF Frames
<1>2. PICK B : B = F.held (-) One(r)
  OBVIOUS
<1>3. /\ BagToSet(B) \in {BagToSet(F.held), BagToSet(F.held) \ {r}}
      /\ r \in BagToSet(F.held) /\ F.held[r] = 1 => BagToSet(B) = BagToSet(F.held) \ {r}
      /\ \A q \in BagToSet(B) : q # r => B[q] = F.held[q]
  BY <1>1, <1>2, Removed
<1>4. \/ BagToSet(B) = BagToSet(F.held) \ {r}
      \/ BagToSet(B) = BagToSet(F.held) /\ <<F.fn, r>> \in Leaks
  <2>1. CASE r \in BagToSet(F.held)
    BY <1>3, <2>1 DEF Few
  <2>2. CASE r \notin BagToSet(F.held)
    BY <1>3, <2>2
  <2> QED
    BY <2>1, <2>2
<1>5. Few(G)
  BY <1>2, <1>3, <1>4 DEF Few
<1> QED
  BY <1>2, <1>4, <1>5

\* It takes r, from Windows or, when there is no caller, from the program.
LEMMA TopTakes ==
  ASSUME IInv, NEW do \in Takes, At(do), do # "receive" \/ Len(stack) = 1,
         Succeed([Top EXCEPT !.held = @ (+) One(Now.what)]), thread' = thread
  PROVE  IInv'
<1>1. /\ Top \in Frames /\ thread \in Tokens /\ Now \in StepSet /\ Now.do = do /\ Few(Top)
      /\ StepIsSafe(Top.fn, TopCase, Now) /\ TooDeep(Depth) \in BOOLEAN
  BY AtTop
<1>2. Top.held \in Holdings /\ Now.what \in Names /\ {Now.what} \in SUBSET Names
  BY <1>1 DEF Frames, StepSet
<1>3. PICK H \in Holdings : H = Top.held (+) SetToBag({Now.what})
  BY <1>2, Added
<1>a. PICK G : G = [Top EXCEPT !.held = H]
  OBVIOUS
<1>4. /\ G \in Frames /\ G.fn = Top.fn /\ G.entered = Top.entered /\ G.held = H
      /\ CaseOf(G, {}, TooDeep(Depth), thread) = [TopCase EXCEPT !.held = BagToSet(H)]
  BY <1>1, <1>a, HeldCase DEF TopCase
<1>5. TopCase.held = BagToSet(Top.held)
  BY DEF TopCase, CaseOf
<1>6. \A r \in {Now.what} \cap BagToSet(Top.held) : <<Top.fn, r>> \in Leaks
  BY <1>1, <1>5 DEF StepIsSafe
<1>b. G.held = Top.held (+) SetToBag({Now.what})
  BY <1>3, <1>4
<1>7. Few(G) /\ BagToSet(H) = BagToSet(Top.held) \cup {Now.what}
  BY <1>1, <1>2, <1>4, <1>6, <1>b, FewMore
<1>8. CaseOf(G, {}, TooDeep(Depth), thread) = WithHeld(TopCase, Now.what)
  BY <1>4, <1>5, <1>7 DEF WithHeld
<1>9. Done(Top.fn, TopCase, Now) = {WithHeld(TopCase, Now.what)}
  BY <1>1 DEF Done, Takes, Gives
<1>10. Succeed(G)
  BY <1>3, <1>a DEF One
<1>11. do \notin {"do", "relay"}
  BY DEF Takes
<1> QED
  BY <1>1, <1>4, <1>7, <1>8, <1>9, <1>10, <1>11, TopSucceeds

LEMMA Acquires ==
  ASSUME IInv, Acquire
  PROVE  IInv'
<1>1. thread' = thread
  BY DEF Acquire
<1>2. CASE /\ At("take") \/ At("new")
           /\ Succeed([Top EXCEPT !.held = @ (+) One(Now.what)])
  BY <1>1, <1>2, TopTakes DEF Takes
<1>3. CASE At("guard") /\ Succeed([Top EXCEPT !.guarded = @ (+) One(Now.what)])
  <2>1. /\ Top \in Frames /\ thread \in Tokens /\ Now \in StepSet /\ Now.do = "guard"
        /\ Few(Top) /\ TooDeep(Depth) \in BOOLEAN
    BY <1>3, AtTop
  <2>2. Top.guarded \in Holdings /\ Now.what \in Names /\ {Now.what} \in SUBSET Names
    BY <2>1 DEF Frames, StepSet
  <2>3. PICK H \in Holdings : /\ H = Top.guarded (+) SetToBag({Now.what})
                              /\ BagToSet(H) = BagToSet(Top.guarded) \cup {Now.what}
    BY <2>2, Added
  <2>a. PICK G : G = [Top EXCEPT !.guarded = H]
    OBVIOUS
  <2>4. /\ G \in Frames /\ G.fn = Top.fn /\ G.entered = Top.entered /\ G.held = Top.held
        /\ CaseOf(G, {}, TooDeep(Depth), thread) = [TopCase EXCEPT !.guarded = BagToSet(H)]
    BY <2>1, <2>a, GuardedCase DEF TopCase
  <2>5. TopCase.guarded = BagToSet(Top.guarded)
    BY DEF TopCase, CaseOf
  <2>b. Done(Top.fn, TopCase, Now) = {WithGuard(TopCase, Now.what)}
    BY <2>1 DEF Done, Takes, Gives
  <2>6. CaseOf(G, {}, TooDeep(Depth), thread) = WithGuard(TopCase, Now.what)
    BY <2>3, <2>4, <2>5 DEF WithGuard
  <2>7. Succeed(G) /\ Few(G)
    BY <1>3, <2>1, <2>3, <2>4, <2>a DEF One, Few
  <2> QED
    BY <1>1, <1>3, <2>1, <2>4, <2>6, <2>7, <2>b, TopSucceeds
<1>4. CASE (At("take") \/ At("guard")) /\ Fail
  <2>1. PICK do \in {"take", "guard"} : At(do)
    BY <1>4
  <2>2. Fails(TopCase, Now)
    BY <2>1, AtTop DEF Fails, MayFail
  <2> QED
    BY <1>1, <1>4, <2>1, <2>2, TopMisses
<1> QED
  BY <1>2, <1>3, <1>4 DEF Acquire

\* It loses r.
LEMMA TopLoses ==
  ASSUME IInv, NEW do, At(do), NEW W, W = [Top EXCEPT !.held = @ (-) One(Now.what)]
  PROVE  /\ W \in Frames /\ W.fn = Top.fn /\ W.entered = Top.entered /\ Few(W)
         /\ W.handed = Top.handed /\ W.guarded = Top.guarded
         /\ CaseOf(W, {}, TooDeep(Depth), thread) \in Without(Top.fn, TopCase, Now.what)
<1>1. /\ Top \in Frames /\ thread \in Tokens /\ Now \in StepSet /\ Few(Top)
      /\ TooDeep(Depth) \in BOOLEAN
  BY AtTop
<1>2. Top.held \in Holdings /\ Now.what \in Names
  BY <1>1 DEF Frames, StepSet
<1>3. PICK H \in Holdings : H = Top.held (-) One(Now.what)
  BY <1>2, Removed
<1>4. W = [Top EXCEPT !.held = H]
  BY <1>3
<1>5. /\ W \in Frames /\ W.fn = Top.fn /\ W.entered = Top.entered /\ W.held = H
      /\ W.handed = Top.handed /\ W.guarded = Top.guarded
      /\ CaseOf(W, {}, TooDeep(Depth), thread) = [TopCase EXCEPT !.held = BagToSet(H)]
  <2>1. \A G : G = [Top EXCEPT !.held = H] =>
          /\ G \in Frames /\ G.fn = Top.fn /\ G.entered = Top.entered /\ G.held = H
          /\ G.handed = Top.handed /\ G.guarded = Top.guarded
          /\ CaseOf(G, {}, TooDeep(Depth), thread) = [TopCase EXCEPT !.held = BagToSet(H)]
    BY <1>1, HeldCase DEF TopCase
  <2> QED
    BY <1>4, <2>1
<1>6. W.held = Top.held (-) One(Now.what)
  BY <1>3, <1>5
<1>7. /\ Few(W)
      /\ \/ BagToSet(H) = BagToSet(Top.held) \ {Now.what}
         \/ BagToSet(H) = BagToSet(Top.held) /\ <<Top.fn, Now.what>> \in Leaks
  BY <1>1, <1>2, <1>5, <1>6, FewLess
<1>8. TopCase \in CaseSet /\ TopCase.held = BagToSet(Top.held)
  <2>1. TopCase \in CaseSet
    BY <1>1, CaseOfFrame DEF TopCase
  <2>2. TopCase.held = BagToSet(Top.held)
    BY DEF TopCase, CaseOf
  <2> QED
    BY <2>1, <2>2
<1>9. [TopCase EXCEPT !.held = BagToSet(Top.held)] = TopCase
  BY <1>8 DEF CaseSet
<1>10. CaseOf(W, {}, TooDeep(Depth), thread) \in Without(Top.fn, TopCase, Now.what)
  BY <1>5, <1>7, <1>8, <1>9 DEF Without
<1> QED
  BY <1>5, <1>7, <1>10

LEMMA Releases ==
  ASSUME IInv, Release
  PROVE  IInv'
<1>1. thread' = thread
  BY DEF Release
<1>2. PICK do \in {"ward", "unguard", "hand", "give", "free"} : At(do) /\ Succeed(Moved[do])
  BY DEF Release
<1>3. /\ Top \in Frames /\ thread \in Tokens /\ Now \in StepSet /\ Now.do = do /\ Few(Top)
      /\ StepIsSafe(Top.fn, TopCase, Now) /\ TooDeep(Depth) \in BOOLEAN
  BY <1>2, AtTop
<1>4. /\ Top.guarded \in Holdings /\ Top.held \in Holdings /\ Top.handed \in SUBSET Names
      /\ Now.what \in Names /\ {Now.what} \in SUBSET Names
  BY <1>3 DEF Frames, StepSet
<1>5. PICK W : W = [Top EXCEPT !.held = @ (-) One(Now.what)]
  OBVIOUS
<1>6. /\ W \in Frames /\ W.fn = Top.fn /\ W.entered = Top.entered /\ Few(W)
      /\ W.handed = Top.handed /\ W.guarded = Top.guarded
      /\ CaseOf(W, {}, TooDeep(Depth), thread) \in Without(Top.fn, TopCase, Now.what)
  BY <1>2, <1>5, TopLoses
<1>7. PICK x \in Without(Top.fn, TopCase, Now.what) : x = CaseOf(W, {}, TooDeep(Depth), thread)
  BY <1>6
<1>8. CASE do \in {"give", "free"}
  <2>1. Succeed(W)
    BY <1>2, <1>5, <1>8 DEF Moved
  <2>2. Done(Top.fn, TopCase, Now) = Without(Top.fn, TopCase, Now.what)
    BY <1>3, <1>8 DEF Done, Takes, Gives
  <2> QED
    BY <1>1, <1>2, <1>3, <1>6, <2>1, <2>2, TopSucceeds
<1>9. CASE do = "ward"
  <2>1. Succeed([W EXCEPT !.guarded = @ (+) One(Now.what)])
    BY <1>2, <1>5, <1>9 DEF Moved
  <2>2. PICK H \in Holdings : /\ H = Top.guarded (+) SetToBag({Now.what})
                              /\ BagToSet(H) = BagToSet(Top.guarded) \cup {Now.what}
    BY <1>4, Added
  <2>3. PICK G : G = [W EXCEPT !.guarded = H]
    OBVIOUS
  <2>4. /\ G \in Frames /\ G.fn = W.fn /\ G.entered = W.entered /\ G.held = W.held
        /\ CaseOf(G, {}, TooDeep(Depth), thread) = [x EXCEPT !.guarded = BagToSet(H)]
    BY <1>3, <1>6, <1>7, <2>3, GuardedCase
  <2>5. x.guarded = BagToSet(Top.guarded)
    BY <1>6, <1>7 DEF CaseOf
  <2>6. CaseOf(G, {}, TooDeep(Depth), thread) = WithGuard(x, Now.what)
    BY <2>2, <2>4, <2>5 DEF WithGuard
  <2>7. Done(Top.fn, TopCase, Now)
          = {WithGuard(y, Now.what) : y \in Without(Top.fn, TopCase, Now.what)}
    BY <1>3, <1>9 DEF Done, Takes, Gives
  <2>8. CaseOf(G, {}, TooDeep(Depth), thread) \in Done(Top.fn, TopCase, Now)
    BY <1>7, <2>6, <2>7
  <2>9. Succeed(G) /\ Few(G)
    BY <1>6, <2>1, <2>2, <2>3, <2>4 DEF One, Few
  <2> QED
    BY <1>1, <1>2, <1>3, <1>6, <1>9, <2>4, <2>8, <2>9, TopSucceeds
<1>10. CASE do = "hand"
  <2>1. Succeed([W EXCEPT !.handed = @ \cup {Now.what}])
    BY <1>2, <1>5, <1>10 DEF Moved
  <2>2. PICK H \in SUBSET Names : H = Top.handed \cup {Now.what}
    BY <1>4
  <2>3. PICK G : G = [W EXCEPT !.handed = H]
    OBVIOUS
  <2>4. /\ G \in Frames /\ G.fn = W.fn /\ G.entered = W.entered /\ G.held = W.held
        /\ CaseOf(G, {}, TooDeep(Depth), thread) = [x EXCEPT !.handed = H]
    BY <1>3, <1>6, <1>7, <2>3, HandedCase
  <2>5. x.handed = Top.handed
    BY <1>6, <1>7 DEF CaseOf
  <2>6. CaseOf(G, {}, TooDeep(Depth), thread) = WithHanded(x, Now.what)
    BY <2>2, <2>4, <2>5 DEF WithHanded
  <2>7. Done(Top.fn, TopCase, Now)
          = {WithHanded(y, Now.what) : y \in Without(Top.fn, TopCase, Now.what)}
    BY <1>3, <1>10 DEF Done, Takes, Gives
  <2>8. CaseOf(G, {}, TooDeep(Depth), thread) \in Done(Top.fn, TopCase, Now)
    BY <1>7, <2>6, <2>7
  <2>9. Succeed(G) /\ Few(G)
    BY <1>6, <2>1, <2>2, <2>3, <2>4 DEF Few
  <2> QED
    BY <1>1, <1>2, <1>3, <1>6, <1>10, <2>4, <2>8, <2>9, TopSucceeds
<1>11. CASE do = "unguard"
  <2>1. Succeed([Top EXCEPT !.guarded = @ (-) One(Now.what), !.held = @ (+) One(Now.what)])
    BY <1>2, <1>11 DEF Moved
  <2>2. PICK B \in Holdings : /\ B = Top.guarded (-) One(Now.what)
                              /\ BagToSet(B) \in {BagToSet(Top.guarded),
                                                  BagToSet(Top.guarded) \ {Now.what}}
    BY <1>4, Removed
  <2>3. PICK H \in Holdings : H = Top.held (+) SetToBag({Now.what})
    BY <1>4, Added
  <2>4. PICK V : V = [Top EXCEPT !.guarded = B]
    OBVIOUS
  <2>5. /\ V \in Frames /\ V.fn = Top.fn /\ V.entered = Top.entered /\ V.held = Top.held
        /\ CaseOf(V, {}, TooDeep(Depth), thread) = [TopCase EXCEPT !.guarded = BagToSet(B)]
    BY <1>3, <2>4, GuardedCase DEF TopCase
  <2>6. PICK G : G = [V EXCEPT !.held = H]
    OBVIOUS
  <2>7. /\ G \in Frames /\ G.fn = V.fn /\ G.entered = V.entered /\ G.held = H
        /\ CaseOf(G, {}, TooDeep(Depth), thread)
             = [CaseOf(V, {}, TooDeep(Depth), thread) EXCEPT !.held = BagToSet(H)]
    BY <1>3, <2>5, <2>6, HeldCase
  <2>8. TopCase \in CaseSet /\ TopCase.held = BagToSet(Top.held) /\ TopCase.guarded = BagToSet(Top.guarded)
    <3>1. TopCase \in CaseSet
      BY <1>3, CaseOfFrame DEF TopCase
    <3>2. TopCase.held = BagToSet(Top.held) /\ TopCase.guarded = BagToSet(Top.guarded)
      BY DEF TopCase, CaseOf
    <3> QED
      BY <3>1, <3>2
  <2>9. \A r \in {Now.what} \cap BagToSet(Top.held) : <<Top.fn, r>> \in Leaks
    BY <1>3, <1>11, <2>8 DEF StepIsSafe
  <2>10. Few(G) /\ BagToSet(H) = BagToSet(Top.held) \cup {Now.what}
    <3>1. G.held = Top.held (+) SetToBag({Now.what}) /\ G.fn = Top.fn
      BY <2>3, <2>5, <2>7
    <3> QED
      BY <1>3, <1>4, <2>3, <2>7, <2>9, <3>1, FewMore
  <2>11. CaseOf(V, {}, TooDeep(Depth), thread).held = TopCase.held
    BY <2>5, <2>8 DEF CaseOf
  <2>12. CaseOf(G, {}, TooDeep(Depth), thread)
           = WithHeld([TopCase EXCEPT !.guarded = BagToSet(B)], Now.what)
    BY <2>5, <2>7, <2>8, <2>10, <2>11 DEF WithHeld
  <2>13. [TopCase EXCEPT !.guarded = BagToSet(Top.guarded)] = TopCase
    BY <2>8 DEF CaseSet
  <2>14. Done(Top.fn, TopCase, Now)
           = {WithHeld(TopCase, Now.what),
              WithHeld([TopCase EXCEPT !.guarded = @ \ {Now.what}], Now.what)}
    BY <1>3, <1>11 DEF Done, Takes, Gives
  <2>15. CaseOf(G, {}, TooDeep(Depth), thread) \in Done(Top.fn, TopCase, Now)
    BY <2>2, <2>8, <2>12, <2>13, <2>14
  <2>16. G = [Top EXCEPT !.guarded = @ (-) One(Now.what), !.held = @ (+) One(Now.what)]
    BY <2>2, <2>3, <2>4, <2>6 DEF One
  <2> QED
    BY <1>1, <1>2, <1>3, <1>11, <2>1, <2>5, <2>7, <2>10, <2>15, <2>16, TopSucceeds
<1> QED
  BY <1>2, <1>8, <1>9, <1>10, <1>11

\* The caller has given something of its own to the function it waits for.
LEMMA CallerGives ==
  ASSUME NEW stk, NEW t, Sound(stk, t), NEW n \in Nat, n = Len(stk), n > 1,
         NEW new \in Seq(Frames), Len(new) = n, \A i \in 1 .. n - 2 : new[i] = stk[i],
         new[n - 1].fn = stk[n - 1].fn, new[n - 1].at = stk[n - 1].at,
         new[n - 1].entered = stk[n - 1].entered, Few(new[n - 1]),
         new[n].fn = stk[n].fn, new[n].entered = stk[n].entered, Few(new[n]),
         Waits(new[n - 1], new[n]), Runs(new[n], n, t)
  PROVE  Sound(new, t)
<1>1. stk \in Seq(Frames) /\ t \in Tokens /\ (t.debug => t.token # "none")
  BY DEF Sound
<1>2. \A i \in 1 .. n : i \in 1 .. n - 2 \/ i = n - 1 \/ i = n
  OBVIOUS
<1>3. \A i \in 1 .. n : new[i] \in Frames /\ Few(new[i])
  BY <1>1, <1>2 DEF Sound
<1>4. \A i \in 1 .. n : new[i].entered = stk[i].entered
  BY <1>2
<1>5. ASSUME NEW i \in 1 .. n - 1
      PROVE  i < MaxDepth /\ Waits(new[i], new[i + 1])
  <2>1. i < MaxDepth /\ Waits(stk[i], stk[i + 1]) /\ i + 1 \in 1 .. n
    BY DEF Sound
  <2>2. CASE i = n - 1
    BY <2>1, <2>2
  <2>3. CASE i = n - 2
    <3>1. new[i] = stk[i] /\ i + 1 = n - 1
      BY <2>3
    <3>2. /\ new[i + 1].fn = stk[i + 1].fn /\ new[i + 1].at = stk[i + 1].at
          /\ new[i + 1].entered = stk[i + 1].entered
      BY <3>1
    <3>3. Borrowed(new[i + 1]) = Borrowed(stk[i + 1])
      BY <3>2 DEF Borrowed
    <3> QED
      BY <2>1, <3>1, <3>2, <3>3 DEF Waits
  <2>4. CASE i < n - 2
    <3>1. new[i] = stk[i] /\ new[i + 1] = stk[i + 1]
      BY <2>4
    <3> QED
      BY <2>1, <3>1
  <2> QED
    BY <2>2, <2>3, <2>4
<1>6. TokenStays(new, t)
  <2>1. ASSUME NEW i \in 1 .. n, new[i].entered.token # "none"
        PROVE  /\ t.token = new[i].entered.token
               /\ \A j \in i .. n : new[j].entered.token = new[i].entered.token
    <3>1. /\ t.token = stk[i].entered.token
          /\ \A j \in i .. n : stk[j].entered.token = stk[i].entered.token
      BY <1>4, <2>1 DEF Sound, TokenStays
    <3>2. \A j \in i .. n : j \in 1 .. n
      OBVIOUS
    <3> QED
      BY <1>4, <2>1, <3>1, <3>2
  <2> QED
    BY <2>1 DEF TokenStays
<1> QED
  BY <1>1, <1>3, <1>5, <1>6 DEF Sound

LEMMA Receives ==
  ASSUME IInv, ReceiveFromCaller
  PROVE  IInv'
<1>1. thread' = thread /\ At("receive")
  BY DEF ReceiveFromCaller
<1>2. PICK w, n, T, G : w = Now.what /\ n = Depth /\ T = [Top EXCEPT !.held = @ (+) One(w)]
                        /\ G = Passed(T, Now)
  OBVIOUS
<1>3. stack' = [i \in 1 .. n |-> IF i = n THEN G
                                 ELSE IF i = n - 1 THEN [stack[i] EXCEPT !.held = @ (-) One(w)]
                                 ELSE stack[i]]
  BY <1>2 DEF ReceiveFromCaller
<1>4. /\ Sound(stack, thread) /\ stack \in Seq(Frames) /\ n \in Nat /\ n = Len(stack)
      /\ Top = stack[n] /\ n > 0
  BY <1>1, <1>2 DEF IInv, Sound, Depth, Top, At
<1>5. CASE n = 1
  <2>1. stack' = [stack EXCEPT ![n] = G]
    <3>1. stack' = [i \in 1 .. 1 |-> G]
      BY <1>3, <1>5
    <3>2. DOMAIN stack = 1 .. 1
      <4>1. DOMAIN stack = 1 .. Len(stack)
        BY <1>4
      <4> QED
        BY <1>4, <1>5, <4>1
    <3>3. [stack EXCEPT ![1] = G] = [i \in 1 .. 1 |-> G]
      <4>1. PICK q : q = [stack EXCEPT ![1] = G]
        OBVIOUS
      <4>2. DOMAIN q = 1 .. 1 /\ q = [i \in DOMAIN q |-> q[i]]
        BY <3>2, <4>1
      <4>3. \A i \in 1 .. 1 : i = 1
        OBVIOUS
      <4>4. \A i \in 1 .. 1 : q[i] = G
        BY <3>2, <4>1, <4>3
      <4> QED
        BY <4>1, <4>2, <4>4
    <3> QED
      BY <1>5, <3>1, <3>3
  <2>2. Succeed(T)
    BY <1>2, <2>1 DEF Succeed
  <2> QED
    BY <1>1, <1>2, <1>4, <1>5, <2>2, TopTakes DEF Takes
<1>6. CASE n > 1
  <2>1. PICK C, D : C = stack[n - 1] /\ D = [C EXCEPT !.held = @ (-) One(w)]
    OBVIOUS
  <2>2. /\ Top \in Frames /\ thread \in Tokens /\ Now \in StepSet /\ Now.do = "receive"
        /\ Few(Top) /\ StepIsSafe(Top.fn, TopCase, Now) /\ TooDeep(Depth) \in BOOLEAN
        /\ AtStep(Top) /\ Now = StepOf(Top) /\ TopCase \in Cases(Top.fn) /\ ~Calls(Now)
        /\ Top.fn \in Functions
    BY <1>1, AtTop
  <2>3. /\ C \in Frames /\ Few(C) /\ Waits(C, Top) /\ n - 1 \in 1 .. n - 1
    <3>1. n - 1 \in 1 .. Len(stack) - 1 /\ n - 1 + 1 = n /\ n - 1 \in 1 .. Len(stack)
      BY <1>4, <1>6
    <3>2. Waits(stack[n - 1], stack[n - 1 + 1]) /\ Few(stack[n - 1])
      BY <1>4, <3>1 DEF Sound
    <3> QED
      BY <1>4, <2>1, <3>1, <3>2
  <2>4. BorrowsFirst(Top.fn)
    BY <2>2, <2>3, Called
  <2>5. Top.at = "begin" /\ Borrows(Top.fn) = {w}
    BY <1>2, <2>2, <2>4 DEF BorrowsFirst, AtStep, StepOf, Borrows
  <2>6. Borrowed(Top) = {} /\ Now.ok # "begin"
    BY <2>2, <2>4, <2>5 DEF BorrowsFirst, AtStep, StepOf, Borrowed
  <2>7. w \in BagToSet(C.held) /\ <<C.fn, w>> \notin Leaks
    BY <2>2, <2>3, <2>5, <2>6, Called
  <2>8. /\ Top.held \in Holdings /\ C.held \in Holdings /\ w \in Names /\ {w} \in SUBSET Names
    BY <1>2, <2>2, <2>3 DEF Frames, StepSet
  <2>9. PICK H \in Holdings : H = C.held (-) One(w)
    BY <2>8, Removed
  <2>10. D = [C EXCEPT !.held = H]
    BY <2>1, <2>9
  <2>11. /\ D \in Frames /\ D.fn = C.fn /\ D.at = C.at /\ D.entered = C.entered /\ D.held = H
         /\ D.guarded = C.guarded /\ D.handed = C.handed /\ D.ret = C.ret /\ D.failed = C.failed
    BY <2>3, <2>10 DEF Frames
  <2>12. Few(D) /\ BagToSet(D.held) = BagToSet(C.held) \ {w}
    <3>1. D.held = C.held (-) One(w)
      BY <2>9, <2>11
    <3> QED
      BY <2>3, <2>7, <2>8, <2>11, <3>1, FewLess
  <2>13. PICK B \in Holdings : B = Top.held (+) SetToBag({w})
    BY <2>8, Added
  <2>14. T = [Top EXCEPT !.held = B]
    BY <1>2, <2>13 DEF One
  <2>15. /\ T \in Frames /\ T.fn = Top.fn /\ T.entered = Top.entered /\ T.held = B
         /\ CaseOf(T, {}, TooDeep(Depth), thread) = [TopCase EXCEPT !.held = BagToSet(B)]
    <3>1. \A V : V = [Top EXCEPT !.held = B] =>
            /\ V \in Frames /\ V.fn = Top.fn /\ V.entered = Top.entered /\ V.held = B
            /\ CaseOf(V, {}, TooDeep(Depth), thread) = [TopCase EXCEPT !.held = BagToSet(B)]
      BY <2>2, HeldCase DEF TopCase
    <3> QED
      BY <2>14, <3>1
  <2>16. TopCase.held = BagToSet(Top.held)
    BY DEF TopCase, CaseOf
  <2>17. Few(T) /\ BagToSet(B) = BagToSet(Top.held) \cup {w}
    <3>1. \A r \in {w} \cap BagToSet(Top.held) : <<Top.fn, r>> \in Leaks
      BY <1>2, <2>2, <2>16 DEF StepIsSafe, Takes
    <3>2. T.held = Top.held (+) SetToBag({w})
      BY <2>13, <2>15
    <3> QED
      BY <2>2, <2>8, <2>15, <3>1, <3>2, FewMore
  <2>18. CaseOf(T, {}, TooDeep(Depth), thread) \in Done(Top.fn, TopCase, Now)
    <3>1. Done(Top.fn, TopCase, Now) = {WithHeld(TopCase, w)}
      BY <1>2, <2>2 DEF Done, Takes, Gives
    <3> QED
      BY <2>15, <2>16, <2>17, <3>1 DEF WithHeld
  <2>19. /\ G \in Frames /\ G.fn = Top.fn /\ G.at = Now.ok /\ G.entered = Top.entered
         /\ G.held = T.held
    <3>1. /\ Passed(T, Now) \in Frames /\ Passed(T, Now).fn = T.fn /\ Passed(T, Now).at = Now.ok
          /\ Passed(T, Now).entered = T.entered /\ Passed(T, Now).held = T.held
      BY <2>2, <2>15, FrameGoesOn
    <3> QED
      BY <1>2, <2>15, <3>1
  <2>20. CaseOf(G, {}, TooDeep(Depth), thread) \in StepFrom(Top.fn, TopCase, Now)
    <3>1. {} \in SUBSET Names
      OBVIOUS
    <3>2. CaseOf(Passed(T, Now), {}, TooDeep(Depth), thread)
            = Passed(CaseOf(T, {}, TooDeep(Depth), thread), Now)
      BY <2>2, <2>15, <3>1, Going
    <3> QED
      BY <1>2, <2>2, <2>18, <3>2 DEF StepFrom
  <2>21. Few(G)
    BY <2>17, <2>15, <2>19 DEF Few
  <2>22. Runs(G, n, thread)
    <3>1. TopCase.at = Top.at
      BY DEF TopCase, CaseOf
    <3>2. StepFrom(Top.fn, TopCase, Now) \subseteq Cases(Top.fn)
      BY <2>2, <3>1, StepInTable DEF AtStep, StepOf
    <3> QED
      BY <1>2, <2>19, <2>20, <3>2 DEF Runs
  <2>23. Waits(D, G)
    <3>1. Borrowed(G) = {w}
      BY <2>5, <2>6, <2>19 DEF Borrowed
    <3>2. CaseOf(D, {w}, FALSE, G.entered) = CaseOf(C, {}, FALSE, Top.entered)
      BY <2>7, <2>11, <2>12, <2>19 DEF CaseOf
    <3> QED
      BY <2>3, <2>6, <2>11, <2>12, <2>19, <3>1, <3>2 DEF Waits, AtStep, StepOf
  <2>24. /\ stack' \in Seq(Frames) /\ Len(stack') = n /\ stack'[n] = G /\ stack'[n - 1] = D
         /\ \A i \in 1 .. n - 2 : stack'[i] = stack[i]
    <3>1. /\ stack'[n] = G /\ stack'[n - 1] = D /\ \A i \in 1 .. n - 2 : stack'[i] = stack[i]
      BY <1>3, <1>4, <1>6, <2>1, SMTT(30)
    <3>2. stack' = [i \in 1 .. n |-> stack'[i]]
      BY <1>3
    <3>3. \A i \in 1 .. n : stack'[i] \in Frames
      <4>1. \A i \in 1 .. n : i \in 1 .. n - 2 \/ i = n - 1 \/ i = n
        BY <1>4
      <4> QED
        BY <1>4, <2>11, <2>19, <3>1, <4>1
    <3> QED
      BY <1>4, <3>1, <3>2, <3>3
  <2>25. Sound(stack', thread)
    BY <1>4, <1>6, <2>1, <2>11, <2>12, <2>19, <2>21, <2>22, <2>23, <2>24, CallerGives, ZenonT(60)
  <2> QED
    BY <1>1, <2>25 DEF IInv
<1> QED
  BY <1>4, <1>5, <1>6
-----------------------------------------------------------------------------
(* Members and the thread *)

LEMMA TestsMember ==
  ASSUME IInv, TestMember
  PROVE  IInv'
<1>1. At("test") /\ thread' = thread
  BY DEF TestMember
<1>2. Now.do = "test"
  BY <1>1, AtTop
<1>3. CASE Succeed(Top)
  <2>1. Done(Top.fn, TopCase, Now) = {TopCase}
    BY <1>2 DEF Done, Takes, Gives
  <2> QED
    BY <1>1, <1>3, <2>1, AtTop, TopSucceeds DEF TopCase
<1>4. CASE Fail
  <2>1. Fails(TopCase, Now)
    BY <1>2 DEF Fails, MayFail
  <2> QED
    BY <1>1, <1>4, <2>1, TopMisses
<1> QED
  BY <1>3, <1>4 DEF TestMember

LEMMA KeepsMember ==
  ASSUME IInv, KeepMember
  PROVE  IInv'
<1>1. /\ At("keep") /\ thread' = thread
      /\ Succeed([Top EXCEPT !.held = @ (-) One(Now.what)])
  BY DEF KeepMember
<1>2. PICK W : W = [Top EXCEPT !.held = @ (-) One(Now.what)]
  OBVIOUS
<1>3. /\ W \in Frames /\ W.fn = Top.fn /\ W.entered = Top.entered /\ Few(W)
      /\ CaseOf(W, {}, TooDeep(Depth), thread) \in Without(Top.fn, TopCase, Now.what)
  BY <1>1, <1>2, TopLoses
<1>4. Now.do = "keep" /\ thread \in Tokens
  BY <1>1, AtTop
<1>5. Done(Top.fn, TopCase, Now) = Without(Top.fn, TopCase, Now.what)
  BY <1>4 DEF Done, Takes, Gives
<1> QED
  BY <1>1, <1>2, <1>3, <1>4, <1>5, TopSucceeds

LEMMA CreatesMember ==
  ASSUME IInv, CreateMember
  PROVE  IInv'
<1>1. At("create") /\ thread' = thread
  BY DEF CreateMember
<1>2. Now.do = "create"
  BY <1>1, AtTop
<1>3. CASE Succeed(Top)
  <2>1. Done(Top.fn, TopCase, Now) = {TopCase}
    BY <1>2 DEF Done, Takes, Gives
  <2> QED
    BY <1>1, <1>3, <2>1, AtTop, TopSucceeds DEF TopCase
<1>4. CASE Fail
  <2>1. Fails(TopCase, Now)
    BY <1>2 DEF Fails, MayFail
  <2> QED
    BY <1>1, <1>4, <2>1, TopMisses
<1> QED
  BY <1>3, <1>4 DEF CreateMember

LEMMA UsesMember ==
  ASSUME IInv, UseMember
  PROVE  IInv'
<1>1. At("use") /\ thread' = thread
  BY DEF UseMember
<1>2. Now.do = "use"
  BY <1>1, AtTop
<1>3. CASE Succeed(Top)
  <2>1. Done(Top.fn, TopCase, Now) = {TopCase}
    BY <1>2 DEF Done, Takes, Gives
  <2> QED
    BY <1>1, <1>3, <2>1, AtTop, TopSucceeds DEF TopCase
<1>4. CASE Fail
  <2>1. Fails(TopCase, Now)
    BY <1>2 DEF Fails, MayFail
  <2> QED
    BY <1>1, <1>4, <2>1, TopMisses
<1> QED
  BY <1>3, <1>4 DEF UseMember

LEMMA ClearsOrDropsMember ==
  ASSUME IInv, ClearMember \/ DropMember
  PROVE  IInv'
<1>1. PICK do \in {"null", "drop"} : At(do) /\ thread' = thread /\ Succeed(Top)
  BY DEF ClearMember, DropMember
<1>2. Now.do = do
  BY <1>1, AtTop
<1>3. Done(Top.fn, TopCase, Now) = {TopCase}
  BY <1>2 DEF Done, Takes, Gives
<1> QED
  BY <1>1, <1>3, AtTop, TopSucceeds DEF TopCase

LEMMA Restarts ==
  ASSUME Restart
  PROVE  IInv'
<1>1. stack' = <<>> /\ thread' = [token |-> "none", debug |-> FALSE]
  BY DEF Restart
<1>2. Sound(<<>>, [token |-> "none", debug |-> FALSE])
  BY DEF Sound, TokenStays, Tokens
<1> QED
  BY <1>1, <1>2 DEF IInv

LEMMA OpensThreadToken ==
  ASSUME IInv, OpenThreadToken
  PROVE  IInv'
<1>1. At("token") /\ thread' = thread
  BY DEF OpenThreadToken
<1>2. Now.do = "token" /\ Top \in Frames /\ thread \in Tokens
  BY <1>1, AtTop
<1>3. TopCase.thread = Seen(thread)
  BY DEF TopCase, CaseOf
<1>4. TopCase.thread.token = (thread.token # "none")
  BY <1>3 DEF Seen
<1>5. CASE thread.token # "none"
  <2>1. TopCase \in Done(Top.fn, TopCase, Now)
    BY <1>2, <1>4, <1>5 DEF Done, Takes, Gives
  <2>2. Succeed(Top)
    BY <1>5 DEF OpenThreadToken
  <2> QED
    BY <1>1, <2>1, <2>2, AtTop, TopSucceeds DEF TopCase
<1>6. CASE thread.token = "none"
  <2>1. Fails(TopCase, Now)
    BY <1>2, <1>4, <1>6 DEF Fails
  <2>2. Fail
    BY <1>6 DEF OpenThreadToken
  <2> QED
    BY <1>1, <2>1, <2>2, TopMisses
<1> QED
  BY <1>5, <1>6

\* The thread becomes u.
LEMMA ThreadChanges ==
  ASSUME IInv, NEW do \in {"impersonate", "revert", "enable", "disable"}, At(do), Succeed(Top),
         thread' \in Tokens, thread'.token = thread.token \/ Top.entered.token = "none",
         Done(Top.fn, TopCase, Now) = {WithThread(TopCase, Seen(thread'))}
  PROVE  IInv'
<1>1. /\ Top \in Frames /\ thread \in Tokens /\ Few(Top) /\ TooDeep(Depth) \in BOOLEAN
  BY AtTop
<1>2. CaseOf(Top, {}, TooDeep(Depth), thread') = WithThread(TopCase, Seen(thread'))
  BY <1>1, ThreadCase DEF TopCase
<1> QED
  BY <1>1, <1>2, TopSucceeds

LEMMA ImpersonatesSelf ==
  ASSUME IInv, ImpersonateSelf
  PROVE  IInv'
<1>1. At("impersonate")
  BY DEF ImpersonateSelf
<1>2. Now.do = "impersonate" /\ StepIsSafe(Top.fn, TopCase, Now)
  BY <1>1, AtTop
<1>3. CASE Succeed(Top) /\ thread' = [token |-> "own", debug |-> FALSE]
  <2>1. Seen(thread') = [token |-> TRUE, debug |-> FALSE]
    BY <1>3 DEF Seen
  <2>2. Done(Top.fn, TopCase, Now) = {WithThread(TopCase, Seen(thread'))}
    BY <1>2, <2>1 DEF Done, Takes, Gives
  <2>3. Top.entered.token = "none"
    BY <1>2 DEF StepIsSafe, TopCase, CaseOf, Seen
  <2>4. thread' \in Tokens
    BY <1>3 DEF Tokens
  <2> QED
    BY <1>1, <1>3, <2>2, <2>3, <2>4, ThreadChanges
<1>4. CASE Fail /\ UNCHANGED thread
  <2>1. Fails(TopCase, Now)
    BY <1>2 DEF Fails, MayFail
  <2> QED
    BY <1>1, <1>4, <2>1, TopMisses
<1> QED
  BY <1>3, <1>4 DEF ImpersonateSelf

LEMMA RevertsToSelf ==
  ASSUME IInv, RevertToSelf
  PROVE  IInv'
<1>1. At("revert") /\ Succeed(Top) /\ thread' = [token |-> "none", debug |-> FALSE]
  BY DEF RevertToSelf
<1>2. Now.do = "revert" /\ StepIsSafe(Top.fn, TopCase, Now)
  BY <1>1, AtTop
<1>3. Seen(thread') = [token |-> FALSE, debug |-> FALSE]
  BY <1>1 DEF Seen
<1>4. Done(Top.fn, TopCase, Now) = {WithThread(TopCase, Seen(thread'))}
  BY <1>2, <1>3 DEF Done, Takes, Gives
<1>5. Top.entered.token = "none"
  BY <1>2 DEF StepIsSafe, TopCase, CaseOf, Seen
<1>6. thread' \in Tokens
  BY <1>1 DEF Tokens
<1> QED
  BY <1>1, <1>4, <1>5, <1>6, ThreadChanges

LEMMA AdjustsTokenPrivileges ==
  ASSUME IInv, AdjustTokenPrivileges
  PROVE  IInv'
<1>1. PICK do \in {"enable", "disable"} : At(do)
  BY DEF AdjustTokenPrivileges
<1>2. Now.do = do /\ thread \in Tokens
  BY <1>1, AtTop
<1>3. CASE Succeed(Top) /\ thread' = [thread EXCEPT !.debug = (Now.do = "enable")]
  <2>1. thread' \in Tokens /\ thread'.token = thread.token /\ thread'.debug = (Now.do = "enable")
    BY <1>2, <1>3 DEF Tokens
  <2>2. TopCase.thread = Seen(thread)
    BY DEF TopCase, CaseOf
  <2>3. TopCase.thread.token = (thread.token # "none")
    BY <2>2 DEF Seen
  <2>4. Seen(thread') = [token |-> TopCase.thread.token, debug |-> Now.do = "enable"]
    BY <2>1, <2>3 DEF Seen
  <2>5. Done(Top.fn, TopCase, Now) = {WithThread(TopCase, Seen(thread'))}
    BY <1>2, <2>4 DEF Done, Takes, Gives
  <2> QED
    BY <1>1, <1>3, <2>1, <2>5, ThreadChanges
<1>4. CASE Fail /\ UNCHANGED thread
  <2>1. Fails(TopCase, Now)
    BY <1>2 DEF Fails, MayFail
  <2> QED
    BY <1>1, <1>4, <2>1, TopMisses
<1> QED
  BY <1>3, <1>4 DEF AdjustTokenPrivileges
-----------------------------------------------------------------------------
(* Functions are entered and return *)

LEMMA NewFrame ==
  ASSUME NEW f \in Functions, thread \in Tokens, thread.debug => thread.token # "none",
         NEW n \in Nat
  PROVE  /\ Frame(f) \in Frames /\ Frame(f).fn = f /\ Frame(f).at = "begin"
         /\ Frame(f).entered = thread /\ Few(Frame(f)) /\ Runs(Frame(f), n, thread)
<1>1. EmptyBag \in Holdings /\ BagToSet(EmptyBag) = {}
  <2>1. EmptyBag = [q \in {} |-> 1]
    BY DEF EmptyBag, SetToBag
  <2>2. [q \in {} |-> 1] \in [{} -> Nat \ {0}]
    OBVIOUS
  <2>3. EmptyBag \in Holdings
    BY <2>1, <2>2 DEF Holdings
  <2> QED
    BY <2>1, <2>3 DEF BagToSet
<1>2. "begin" \in Names
  BY FirstInTable
<1>3. PICK G : G = Frame(f)
  OBVIOUS
<1>4. /\ G.fn = f /\ G.at = "begin" /\ G.held = EmptyBag /\ G.guarded = EmptyBag
      /\ G.handed = {} /\ G.entered = thread
  BY <1>3 DEF Frame
<1>5. G.ret = FALSE
  BY <1>3 DEF Frame
<1>6. G.failed = FALSE
  BY <1>3 DEF Frame
<1>7. G \in Frames
  BY <1>1, <1>2, <1>3 DEF Frame, Frames
<1>8. Seen(thread) \in ThreadCases
  BY DEF Seen, ThreadCases, Tokens
<1>9. CaseOf(G, {}, TooDeep(n), thread) = FirstCase(TooDeep(n), Seen(thread))
  BY <1>1, <1>4, <1>5, <1>6 DEF CaseOf, FirstCase
<1>10. Runs(G, n, thread)
  BY <1>4, <1>8, <1>9, FirstInTable DEF Runs, TooDeep
<1>11. Few(G)
  BY <1>1, <1>4 DEF Few
<1> QED
  BY <1>3, <1>4, <1>7, <1>10, <1>11

LEMMA Enters ==
  ASSUME IInv, NEW f \in Public, Enter(f)
  PROVE  IInv'
<1>1. f \in Functions
  BY DEF Public
<1>2. thread' = thread /\ stack' = <<Frame(f)>> /\ thread \in Tokens
      /\ (thread.debug => thread.token # "none")
  BY DEF Enter, IInv, Sound
<1>3. PICK G : G = Frame(f)
  OBVIOUS
<1>4. G \in Frames /\ G.entered = thread /\ Few(G) /\ Runs(G, 1, thread)
  BY <1>1, <1>2, <1>3, NewFrame
<1>5. \A i \in 1 .. 1 : i = 1
  OBVIOUS
<1>6. Sound(<<G>>, thread)
  BY <1>2, <1>4, <1>5 DEF Sound, TokenStays
<1> QED
  BY <1>2, <1>3, <1>6 DEF IInv

LEMMA CallsFunction ==
  ASSUME IInv, CallFunction
  PROVE  IInv'
<1>1. PICK do \in {"do", "relay"} : At(do)
  BY DEF CallFunction
<1>2. thread' = thread
  BY DEF CallFunction
<1>3. /\ Top \in Frames /\ thread \in Tokens /\ Calls(Now) /\ CallIsSafe(Top.fn, TopCase, Now)
      /\ AtStep(Top) /\ Now = StepOf(Top) /\ TopCase \in Cases(Top.fn)
  BY <1>1, AtTop
<1>4. CASE ~(Depth < MaxDepth)
  <2>1. Fail
    BY <1>4 DEF CallFunction
  <2>2. TooDeep(Depth) /\ do # "receive"
    BY <1>4 DEF TooDeep
  <2> QED
    BY <1>1, <1>2, <2>1, <2>2, TopMisses
<1>5. CASE Depth < MaxDepth
  <2>1. PICK G, n : G = Frame(Now.what) /\ n = Depth
    OBVIOUS
  <2>2. /\ Sound(stack, thread) /\ stack \in Seq(Frames) /\ n \in Nat /\ n = Len(stack)
        /\ n > 0 /\ Top = stack[n] /\ (thread.debug => thread.token # "none")
    BY <1>1, <2>1 DEF IInv, Sound, Depth, Top, At
  <2>3. PICK new : new = Append(stack, G)
    OBVIOUS
  <2>4. stack' = new
    BY <1>5, <2>1, <2>3 DEF CallFunction
  <2>5. /\ G \in Frames /\ G.fn = Now.what /\ G.at = "begin" /\ G.entered = thread /\ Few(G)
        /\ Runs(G, n + 1, thread)
    <3>1. Now.what \in Functions /\ n + 1 \in Nat
      BY <1>3, <2>2 DEF CallIsSafe
    <3> QED
      BY <1>3, <2>1, <2>2, <3>1, NewFrame
  <2>6. /\ new \in Seq(Frames) /\ Len(new) = n + 1 /\ new[n + 1] = G
        /\ \A i \in 1 .. n : new[i] = stack[i]
    BY <2>2, <2>3, <2>5
  <2>7. Waits(Top, G)
    <3>1. Borrowed(G) = {}
      BY <2>5 DEF Borrowed
    <3>2. TooDeep(Depth) = FALSE
      BY <1>5 DEF TooDeep
    <3>3. CaseOf(Top, {}, FALSE, thread) \in Cases(Top.fn)
      BY <1>3, <3>2 DEF TopCase
    <3> QED
      BY <1>3, <2>5, <3>1, <3>3 DEF Waits
  <2>8. \A i \in 1 .. n + 1 : Few(new[i])
    <3>1. \A i \in 1 .. n + 1 : i \in 1 .. n \/ i = n + 1
      BY <2>2
    <3> QED
      BY <2>2, <2>5, <2>6, <3>1 DEF Sound
  <2>9. ASSUME NEW i \in 1 .. n
        PROVE  i < MaxDepth /\ Waits(new[i], new[i + 1])
    <3>1. CASE i = n
      BY <1>5, <2>1, <2>2, <2>6, <2>7, <3>1
    <3>2. CASE i # n
      <4>1. i \in 1 .. n - 1 /\ i + 1 \in 1 .. n
        BY <2>2, <3>2
      <4>2. i < MaxDepth /\ Waits(stack[i], stack[i + 1])
        BY <2>2, <4>1 DEF Sound
      <4> QED
        BY <2>6, <4>1, <4>2
    <3> QED
      BY <3>1, <3>2
  <2>10. TokenStays(new, thread)
    <3>1. ASSUME NEW i \in 1 .. n + 1, new[i].entered.token # "none"
          PROVE  /\ thread.token = new[i].entered.token
                 /\ \A j \in i .. n + 1 : new[j].entered.token = new[i].entered.token
      <4>1. CASE i = n + 1
        <5>1. \A j \in i .. n + 1 : j = i
          BY <2>2, <4>1
        <5> QED
          BY <2>5, <2>6, <4>1, <5>1
      <4>2. CASE i # n + 1
        <5>1. i \in 1 .. n /\ new[i] = stack[i]
          BY <2>2, <2>6, <4>2
        <5>2. /\ thread.token = stack[i].entered.token
              /\ \A j \in i .. n : stack[j].entered.token = stack[i].entered.token
          BY <2>2, <3>1, <5>1 DEF Sound, TokenStays
        <5>3. \A j \in i .. n + 1 : j = n + 1 \/ (j \in i .. n /\ j \in 1 .. n)
          BY <2>2, <5>1
        <5> QED
          BY <2>5, <2>6, <5>1, <5>2, <5>3
      <4> QED
        BY <4>1, <4>2
    <3> QED
      BY <2>6, <3>1 DEF TokenStays
  <2>11. Len(new) - 1 = n
    BY <2>2, <2>6
  <2>12. Sound(new, thread)
    BY <1>3, <2>2, <2>5, <2>6, <2>8, <2>9, <2>10, <2>11 DEF Sound
  <2> QED
    BY <1>2, <2>4, <2>12 DEF IInv
<1> QED
  BY <1>4, <1>5

\* The caller C with what G has handed to it; the caller as it goes on.
Enriched(C, G) == IF StepOf(C).do = "relay" THEN [C EXCEPT !.handed = @ \cup G.handed]
                  ELSE [C EXCEPT !.held = @ (+) SetToBag(G.handed)]
GoesOn(C, G, claimed) == IF claimed THEN Passed(Enriched(C, G), StepOf(C))
                                    ELSE Missed(Enriched(C, G), StepOf(C))

\* N is C, gone on after the call.
Resumes(N, C, t) == /\ N \in Frames /\ N.fn = C.fn /\ N.entered = C.entered /\ Few(N)
                    /\ N.at \in {StepOf(C).ok, StepOf(C).or}
                    /\ CaseOf(N, {}, FALSE, t) \in Cases(C.fn)

\* The caller C goes on when G has handed H to it: as a frame, and as a case.
LEMMA CallerGoesOn ==
  ASSUME NEW C \in Frames, NEW G \in Frames, Waits(C, G), Few(C), NEW t \in Tokens,
         G.at # "begin", NEW claimed \in BOOLEAN, G.handed \in Handings(G.fn, claimed),
         Seen(t) \in ThreadAfter(G.fn, Seen(G.entered)),
         NEW N, N = GoesOn(C, G, claimed)
  PROVE  Resumes(N, C, t)
<1>1. PICK s : s = StepOf(C)
  OBVIOUS
<1>a. PICK X : X = Enriched(C, G)
  OBVIOUS
<1>2. PICK k : k = CaseOf(C, Borrowed(G), FALSE, G.entered)
  OBVIOUS
<1>3. /\ s \in StepSet /\ Calls(s) /\ s.what = G.fn /\ CallIsSafe(C.fn, k, s)
      /\ StepFrom(C.fn, k, s) \subseteq Cases(C.fn)
      /\ Borrowed(G) \cap BagToSet(C.held) = {}
  BY <1>1, <1>2, Called DEF Waits
<1>4. /\ G.entered \in Tokens /\ G.fn \in Functions /\ G.handed \in SUBSET Names
      /\ C.held \in Holdings /\ C.handed \in SUBSET Names
  BY DEF Frames
<1>5. Borrowed(G) = Borrows(s.what) /\ Borrows(s.what) \in SUBSET Names
  BY <1>3, <1>4, FirstInTable DEF Borrowed
<1>b. PICK b \in BOOLEAN : b = FALSE
  OBVIOUS
<1>6. k \in CaseSet /\ FALSE \in BOOLEAN /\ {} \in SUBSET Names
  BY <1>2, <1>4, <1>5, CaseOfFrame
<1>7. k.deep = FALSE
  BY <1>2 DEF CaseOf
<1>8. k.held = BagToSet(C.held) \cup Borrows(s.what) /\ k.thread = Seen(G.entered)
  BY <1>2, <1>5 DEF CaseOf
<1>9. BagToSet(C.held) = k.held \ Borrows(s.what)
  BY <1>3, <1>5, <1>8
\* The caller as it is without what it had lent, on the thread as it is now.
<1>10. PICK paid : paid = WithThread([k EXCEPT !.held = @ \ Borrows(s.what)], Seen(t))
  OBVIOUS
<1>11. CaseOf(C, {}, FALSE, t) = paid
  <2>1. CaseOf(C, {}, FALSE, t) \in CaseSet
    BY <1>6, CaseOfFrame
  <2>2. PICK j \in CaseSet : j = CaseOf(C, {}, FALSE, t)
    BY <2>1
  <2>3. /\ j.at = k.at /\ j.held = k.held \ Borrows(s.what) /\ j.guarded = k.guarded
        /\ j.handed = k.handed /\ j.entered = k.entered /\ j.thread = Seen(t)
    BY <1>2, <1>9, <2>2 DEF CaseOf
  <2>4. j.deep = k.deep
    BY <1>7, <2>2 DEF CaseOf
  <2>5. j.ret = k.ret
    BY <1>2, <2>2 DEF CaseOf
  <2>6. j.failed = k.failed
    BY <1>2, <2>2 DEF CaseOf
  <2>7. Seen(t) \in [token : BOOLEAN, debug : BOOLEAN]
    BY DEF Seen, Tokens
  <2>8. /\ paid \in CaseSet /\ paid.at = k.at /\ paid.held = k.held \ Borrows(s.what)
        /\ paid.guarded = k.guarded /\ paid.handed = k.handed /\ paid.entered = k.entered
        /\ paid.thread = Seen(t)
    BY <1>6, <1>10, <2>7 DEF WithThread, CaseSet
  <2>9. paid.deep = k.deep
    BY <1>6, <1>10, <2>7 DEF WithThread, CaseSet
  <2>10. paid.ret = k.ret
    BY <1>6, <1>10, <2>7 DEF WithThread, CaseSet
  <2>11. paid.failed = k.failed
    BY <1>6, <1>10, <2>7 DEF WithThread, CaseSet
  <2> QED
    BY <2>2, <2>3, <2>4, <2>5, <2>6, <2>8, <2>9, <2>10, <2>11, SameCase
<1>12. PICK given : given = IF s.do = "relay" THEN [paid EXCEPT !.handed = @ \cup G.handed]
                            ELSE [paid EXCEPT !.held = @ \cup G.handed]
  OBVIOUS
<1>13. /\ X \in Frames /\ X.fn = C.fn /\ X.entered = C.entered /\ Few(X)
       /\ CaseOf(X, {}, FALSE, t) = given
  <2>1. CASE s.do = "relay"
    <3>1. PICK H \in SUBSET Names : H = C.handed \cup G.handed
      BY <1>4
    <3>2. X = [C EXCEPT !.handed = H]
      BY <1>1, <1>a, <2>1, <3>1 DEF Enriched
    <3>3. \A V : V = [C EXCEPT !.handed = H] =>
            /\ V \in Frames /\ V.fn = C.fn /\ V.entered = C.entered /\ V.held = C.held
            /\ CaseOf(V, {}, b, t) = [CaseOf(C, {}, b, t) EXCEPT !.handed = H]
      BY HandedCase
    <3>4. /\ X \in Frames /\ X.fn = C.fn /\ X.entered = C.entered /\ X.held = C.held
          /\ CaseOf(X, {}, FALSE, t) = [paid EXCEPT !.handed = H]
      BY <1>b, <1>11, <3>2, <3>3
    <3>5. paid.handed = C.handed
      BY <1>11 DEF CaseOf
    <3> QED
      BY <1>12, <2>1, <3>1, <3>4, <3>5 DEF Few
  <2>2. CASE s.do # "relay"
    <3>1. PICK H \in Holdings : H = C.held (+) SetToBag(G.handed)
      BY <1>4, Added
    <3>2. X = [C EXCEPT !.held = H]
      BY <1>1, <1>a, <2>2, <3>1 DEF Enriched
    <3>3. \A V : V = [C EXCEPT !.held = H] =>
            /\ V \in Frames /\ V.fn = C.fn /\ V.entered = C.entered /\ V.held = H
            /\ CaseOf(V, {}, b, t) = [CaseOf(C, {}, b, t) EXCEPT !.held = BagToSet(H)]
      BY HeldCase
    <3>4. /\ X \in Frames /\ X.fn = C.fn /\ X.entered = C.entered /\ X.held = H
          /\ CaseOf(X, {}, FALSE, t) = [paid EXCEPT !.held = BagToSet(H)]
      BY <1>b, <1>11, <3>2, <3>3
    <3>5. \A r \in G.handed \cap BagToSet(C.held) : <<C.fn, r>> \in Leaks
      <4>1. s.do = "do"
        BY <1>3, <2>2 DEF Calls
      <4> QED
        BY <1>3, <1>9, <4>1 DEF CallIsSafe
    <3>6. X.held = C.held (+) SetToBag(G.handed)
      BY <3>1, <3>4
    <3>7. Few(X) /\ BagToSet(H) = BagToSet(C.held) \cup G.handed
      <4>1. X \in Frames /\ X.fn = C.fn /\ G.handed \in SUBSET Names
        BY <1>4, <3>4
      <4>2. Few(X) /\ BagToSet(X.held) = BagToSet(C.held) \cup G.handed
        BY <3>5, <3>6, <4>1, FewMore
      <4> QED
        BY <3>4, <4>2
    <3>8. paid.held = BagToSet(C.held)
      BY <1>11 DEF CaseOf
    <3> QED
      BY <1>12, <2>2, <3>4, <3>7, <3>8
  <2> QED
    BY <2>1, <2>2
<1>14. /\ N \in Frames /\ N.fn = X.fn /\ N.entered = X.entered /\ N.held = X.held
       /\ N.at \in {s.ok, s.or}
       /\ CaseOf(N, {}, FALSE, t) = IF claimed THEN Passed(given, s) ELSE Missed(given, s)
  <2>1. /\ Passed(X, s) \in Frames /\ Passed(X, s).fn = X.fn /\ Passed(X, s).at = s.ok
        /\ Passed(X, s).entered = X.entered /\ Passed(X, s).held = X.held
        /\ Missed(X, s) \in Frames /\ Missed(X, s).fn = X.fn /\ Missed(X, s).at = s.or
        /\ Missed(X, s).entered = X.entered /\ Missed(X, s).held = X.held
    <3>1. X \in Frames /\ s \in StepSet
      BY <1>3, <1>13
    <3>2. /\ Passed(X, s) \in Frames /\ Passed(X, s).fn = X.fn /\ Passed(X, s).at = s.ok
          /\ Passed(X, s).entered = X.entered /\ Passed(X, s).held = X.held
      BY <3>1, FrameGoesOn
    <3>3. /\ Missed(X, s) \in Frames /\ Missed(X, s).fn = X.fn /\ Missed(X, s).at = s.or
          /\ Missed(X, s).entered = X.entered /\ Missed(X, s).held = X.held
      BY <3>1, FrameGoesOn
    <3> QED
      BY <3>2, <3>3
  <2>2. /\ CaseOf(Passed(X, s), {}, FALSE, t) = Passed(CaseOf(X, {}, FALSE, t), s)
        /\ CaseOf(Missed(X, s), {}, FALSE, t) = Missed(CaseOf(X, {}, FALSE, t), s)
    <3>1. X \in Frames /\ s \in StepSet
      BY <1>3, <1>13
    <3>2. /\ CaseOf(Passed(X, s), {}, b, t) = Passed(CaseOf(X, {}, b, t), s)
          /\ CaseOf(Missed(X, s), {}, b, t) = Missed(CaseOf(X, {}, b, t), s)
      BY <1>6, <3>1, Going
    <3> QED
      BY <1>b, <3>2
  <2>3. CASE claimed
    BY <1>1, <1>a, <1>13, <2>1, <2>2, <2>3 DEF GoesOn
  <2>4. CASE ~claimed
    BY <1>1, <1>a, <1>13, <2>1, <2>2, <2>4 DEF GoesOn
  <2> QED
    BY <2>3, <2>4
<1>15. Resumed(k, s, Seen(t), claimed, G.handed)
         = IF claimed THEN Passed(given, s) ELSE Missed(given, s)
  BY <1>10, <1>12 DEF Resumed
<1>16. Resumed(k, s, Seen(t), claimed, G.handed) \in ResumedAny(k, s)
  BY <1>3, <1>8 DEF ResumedAny
<1>17. ResumedAny(k, s) \subseteq Cases(C.fn)
  BY <1>3, <1>7 DEF StepFrom
<1>18. Few(N)
  BY <1>13, <1>14 DEF Few
<1> QED
  BY <1>1, <1>13, <1>14, <1>15, <1>16, <1>17, <1>18 DEF Resumes

\* What there is to say of a function that returns.
LEMMA TopEnds ==
  ASSUME IInv, Depth > 0, Returned
  PROVE  /\ Top \in Frames /\ Top.at # "begin" /\ ReturnsTrue \in BOOLEAN
         /\ \A r \in BagToSet(Top.held) : <<Top.fn, r>> \in Leaks
         /\ Top.handed \in Handings(Top.fn, ReturnsTrue)
         /\ Seen(thread) \in ThreadAfter(Top.fn, Seen(Top.entered))
         /\ ReturnsTrue /\ Top.fn \notin Careless =>
              ~Top.failed /\ (Top.ret \/ \A s \in StepsOf(Top.fn) : ~s.must)
<1>1. /\ Sound(stack, thread) /\ Top = stack[Len(stack)] /\ Len(stack) > 0
      /\ TopCase = CaseOf(Top, {}, TooDeep(Len(stack)), thread)
  BY DEF IInv, Top, Depth, TopCase
<1>2. Top \in Frames /\ Top.fn \in Functions /\ TopCase \in Cases(Top.fn)
  BY <1>1, NextStep
<1>3. /\ TopCase.at = Top.at /\ TopCase.held = BagToSet(Top.held) /\ TopCase.handed = Top.handed
      /\ TopCase.thread = Seen(thread) /\ TopCase.entered = Seen(Top.entered)
  BY DEF TopCase, CaseOf
<1>4. TopCase.ret = Top.ret
  BY DEF TopCase, CaseOf
<1>5. TopCase.failed = Top.failed
  BY DEF TopCase, CaseOf
<1>6. Ends(TopCase) /\ (Claims(TopCase) <=> ReturnsTrue)
  BY <1>3, <1>4 DEF Ends, Claims, Returned, ReturnsTrue
<1>7. EndIsSafe(Top.fn, TopCase)
  BY <1>2, <1>6, CaseInTable
<1>8. Top.at # "begin" /\ ReturnsTrue \in BOOLEAN
  BY DEF Returned, ReturnsTrue
<1>9. Claims(TopCase) = ReturnsTrue
  BY <1>6 DEF Claims, ReturnsTrue
<1>10. /\ \A r \in BagToSet(Top.held) : <<Top.fn, r>> \in Leaks
       /\ Top.handed \in Handings(Top.fn, ReturnsTrue)
       /\ Seen(thread) \in ThreadAfter(Top.fn, Seen(Top.entered))
  BY <1>3, <1>7, <1>9 DEF EndIsSafe
<1>11. ReturnsTrue /\ Top.fn \notin Careless =>
         ~Top.failed /\ (Top.ret \/ \A s \in StepsOf(Top.fn) : ~s.must)
  BY <1>4, <1>5, <1>6, <1>7 DEF EndIsSafe
<1> QED
  BY <1>2, <1>8, <1>10, <1>11

LEMMA Returns ==
  ASSUME IInv, Return
  PROVE  IInv'
<1>1. Depth > 0 /\ Returned /\ thread' = thread
  BY DEF Return
<1>2. PICK n, G : n = Depth /\ G = Top
  OBVIOUS
<1>a. PICK claimed \in BOOLEAN : claimed = ReturnsTrue
  BY <1>1, TopEnds
<1>3. /\ Sound(stack, thread) /\ stack \in Seq(Frames) /\ thread \in Tokens
      /\ (thread.debug => thread.token # "none")
      /\ n \in Nat /\ n = Len(stack) /\ n > 0 /\ G = stack[n]
  BY <1>1, <1>2 DEF IInv, Sound, Depth, Top
<1>4. CASE n = 1
  <2>1. stack' = <<>>
    BY <1>2, <1>4 DEF Return
  <2>2. Sound(<<>>, thread)
    BY <1>3 DEF Sound, TokenStays
  <2> QED
    BY <1>1, <2>1, <2>2 DEF IInv
<1>5. CASE n > 1
  <2>1. PICK m \in Nat : m = n - 1
    BY <1>3
  <2>2. PICK C : C = stack[m]
    OBVIOUS
  <2>3. /\ m \in 1 .. Len(stack) /\ m \in 1 .. Len(stack) - 1 /\ m + 1 = n
    BY <1>3, <1>5, <2>1
  <2>4. C \in Frames /\ G \in Frames /\ Few(C) /\ Waits(C, G) /\ m < MaxDepth
    <3>1. m < MaxDepth /\ Waits(stack[m], stack[m + 1]) /\ Few(stack[m])
      BY <1>3, <2>3 DEF Sound
    <3> QED
      BY <1>3, <2>2, <2>3, <3>1
  <2>6. PICK N : N = GoesOn(C, G, claimed)
    OBVIOUS
  <2>7. /\ G.at # "begin" /\ G.handed \in Handings(G.fn, claimed)
        /\ Seen(thread) \in ThreadAfter(G.fn, Seen(G.entered))
    BY <1>1, <1>2, <1>a, TopEnds
  <2>8. /\ N \in Frames /\ N.fn = C.fn /\ N.entered = C.entered /\ Few(N)
        /\ N.at \in {StepOf(C).ok, StepOf(C).or}
        /\ CaseOf(N, {}, FALSE, thread) \in Cases(C.fn)
    <3>1. Resumes(N, C, thread)
      BY <1>3, <2>4, <2>6, <2>7, CallerGoesOn
    <3> QED
      BY <3>1 DEF Resumes
  <2>9. stack' = Append(SubSeq(stack, 1, n - 2), N)
    <3>1. Given(C, StepOf(C)) = Enriched(C, G)
      BY <1>2 DEF Given, Enriched
    <3>2. C = stack[Depth - 1] /\ Depth # 1 /\ StepOf(C) = Bodies[C.fn][C.at]
      BY <1>2, <1>5, <2>1, <2>2 DEF StepOf
    <3>3. stack' = Append(SubSeq(stack, 1, Depth - 2),
                          IF ReturnsTrue THEN Passed(Given(C, StepOf(C)), StepOf(C))
                                         ELSE Missed(Given(C, StepOf(C)), StepOf(C)))
      BY <3>2 DEF Return
    <3> QED
      BY <1>2, <1>a, <2>6, <3>1, <3>3 DEF GoesOn
  <2>10. PICK new : new = Append(SubSeq(stack, 1, n - 2), N)
    OBVIOUS
  <2>11. /\ new \in Seq(Frames) /\ Len(new) = m /\ new[m] = N
         /\ \A i \in 1 .. m - 1 : new[i] = stack[i]
    <3>1. /\ SubSeq(stack, 1, n - 2) \in Seq(Frames) /\ Len(SubSeq(stack, 1, n - 2)) = m - 1
          /\ \A i \in 1 .. m - 1 : SubSeq(stack, 1, n - 2)[i] = stack[i]
      BY <1>3, <1>5, <2>1
    <3> QED
      BY <1>3, <1>5, <2>1, <2>8, <2>10, <3>1
  <2>12. Runs(N, m, thread)
    <3>1. TooDeep(m) = FALSE
      BY <2>4 DEF TooDeep
    <3> QED
      BY <2>8, <3>1 DEF Runs
  <2>13. ASSUME m > 1
         PROVE  Borrowed(N) = Borrowed(C)
    <3>1. m - 1 \in 1 .. Len(stack) - 1 /\ m - 1 + 1 = m /\ m - 1 \in 1 .. Len(stack)
      BY <1>3, <2>3, <2>13
    <3>2. Waits(stack[m - 1], stack[m - 1 + 1]) /\ stack[m - 1] \in Frames
      BY <1>3, <3>1 DEF Sound
    <3>3. BorrowsFirst(C.fn)
      BY <2>2, <2>4, <3>1, <3>2, Called
    <3>4. AtStep(C) /\ StepOf(C).do # "receive"
      BY <2>4 DEF Waits, Calls
    <3> QED
      BY <2>4, <2>8, <3>3, <3>4, SameBorrowed
  <2>14. Sound(new, thread)
    <3>1. /\ new[m].fn = stack[m].fn /\ new[m].entered = stack[m].entered /\ Few(new[m])
          /\ Runs(new[m], m, thread)
      BY <2>2, <2>8, <2>11, <2>12
    <3>2. m > 1 => Borrowed(new[m]) = Borrowed(stack[m])
      BY <2>2, <2>11, <2>13
    <3> QED
      BY <1>3, <2>3, <2>11, <3>1, <3>2, TopIs
  <2> QED
    BY <1>1, <2>9, <2>10, <2>14 DEF IInv
<1> QED
  BY <1>3, <1>4, <1>5
-----------------------------------------------------------------------------
(* The theorems *)

LEMMA IInvHolds == Spec => []IInv
<1>1. Init => IInv
  <2>1. ASSUME Init
        PROVE  stack = <<>> /\ thread \in Tokens /\ ~thread.debug
    BY <2>1 DEF Init
  <2>2. ASSUME NEW t \in Tokens, ~t.debug
        PROVE  Sound(<<>>, t)
    BY <2>2 DEF Sound, TokenStays
  <2> QED
    BY <2>1, <2>2 DEF IInv
<1>2. IInv /\ [Next]_vars => IInv'
  <2> SUFFICES ASSUME IInv, [Next]_vars
               PROVE  IInv'
    OBVIOUS
  <2>1. ASSUME NEW f \in Public, Enter(f) PROVE IInv'
    BY <2>1, Enters
  <2>2. CASE CallWindows
    BY <2>2, CallsWindows
  <2>3. CASE CallFunction
    BY <2>3, CallsFunction
  <2>4. CASE Acquire
    BY <2>4, Acquires
  <2>5. CASE Release
    BY <2>5, Releases
  <2>6. CASE ReceiveFromCaller
    BY <2>6, Receives
  <2>7. CASE TestMember
    BY <2>7, TestsMember
  <2>8. CASE KeepMember
    BY <2>8, KeepsMember
  <2>9. CASE CreateMember
    BY <2>9, CreatesMember
  <2>10. CASE ClearMember \/ DropMember
    BY <2>10, ClearsOrDropsMember
  <2>11. CASE UseMember
    BY <2>11, UsesMember
  <2>12. CASE Restart
    BY <2>12, Restarts
  <2>13. CASE OpenThreadToken
    BY <2>13, OpensThreadToken
  <2>14. CASE ImpersonateSelf
    BY <2>14, ImpersonatesSelf
  <2>15. CASE RevertToSelf
    BY <2>15, RevertsToSelf
  <2>16. CASE AdjustTokenPrivileges
    BY <2>16, AdjustsTokenPrivileges
  <2>17. CASE Return
    BY <2>17, Returns
  <2>18. CASE UNCHANGED vars
    BY <2>18 DEF vars, IInv
  <2> QED
    BY <2>1, <2>2, <2>3, <2>4, <2>5, <2>6, <2>7, <2>8, <2>9, <2>10, <2>11, <2>12, <2>13, <2>14,
       <2>15, <2>16, <2>17, <2>18 DEF Next
<1> QED
  BY <1>1, <1>2, PTL DEF Spec

\* However deep calls nest and however often a loop takes the same: what a function has
\* acquired it has released when it returns, or handed over (but for Leaks, LeftBehind).
THEOREM CallsKeepNothing == Spec => []NothingKept
<1>1. IInv => NothingKept
  <2> SUFFICES ASSUME IInv, Depth > 0, Returned
               PROVE  /\ \A r \in BagToSet(Top.held) : <<Top.fn, r>> \in Leaks
                      /\ ReturnsTrue \/ \A r \in Top.handed : <<Top.fn, r>> \in LeftBehind
    BY DEF NothingKept
  <2>1. /\ \A r \in BagToSet(Top.held) : <<Top.fn, r>> \in Leaks
        /\ Top.handed \in Handings(Top.fn, ReturnsTrue)
    BY TopEnds
  <2>2. ASSUME ~ReturnsTrue, NEW r \in Top.handed
        PROVE  <<Top.fn, r>> \in LeftBehind
    <3>1. r \in {p[2] : p \in {x \in LeftBehind : x[1] = Top.fn}}
      BY <2>1, <2>2 DEF Handings
    <3>2. PICK p \in LeftBehind : p[1] = Top.fn /\ p[2] = r
      BY <3>1
    <3>3. p = <<p[1], p[2]>>
      BY <3>2 DEF LeftBehind
    <3> QED
      BY <3>2, <3>3
  <2> QED
    BY <2>1, <2>2
<1> QED
  BY <1>1, IInvHolds, PTL

\* Nothing is released, put under a guard, or passed on, that is not held, but the one
\* handle of Unheld; what is released when its pointer is not null was not given away
\* before; and what a function takes from its caller is there.
THEOREM CallsReleaseWhatIsHeld == Spec => []ReleasedOnce
<1>1. IInv => ReleasedOnce
  <2> SUFFICES ASSUME IInv
               PROVE  ReleasedOnce
    OBVIOUS
  <2>1. TopCase.held = BagToSet(Top.held) /\ TopCase.guarded = BagToSet(Top.guarded)
    BY DEF TopCase, CaseOf
  <2>2. ASSUME NEW do \in {"give", "ward", "hand", "keep"}, At(do)
        PROVE  BagIn(Now.what, Top.held) \/ <<Top.fn, Now.what>> \in Unheld
    <3>1. Now.do = do /\ StepIsSafe(Top.fn, TopCase, Now)
      BY <2>2, AtTop
    <3> QED
      BY <2>1, <3>1 DEF StepIsSafe, BagIn
  <2>5. ASSUME At("free")
        PROVE  ~GivenBefore(Top.fn, Top.at)
    <3>1. Now.do = "free" /\ StepIsSafe(Top.fn, TopCase, Now)
      BY <2>5, AtTop
    <3>2. TopCase.at = Top.at
      BY DEF TopCase, CaseOf
    <3> QED
      BY <3>1, <3>2 DEF StepIsSafe
  <2>3. ASSUME At("unguard")
        PROVE  BagIn(Now.what, Top.guarded)
    <3>1. Now.do = "unguard" /\ StepIsSafe(Top.fn, TopCase, Now)
      BY <2>3, AtTop
    <3> QED
      BY <2>1, <3>1 DEF StepIsSafe, BagIn
  <2>4. ASSUME At("receive"), Depth > 1
        PROVE  BagIn(Now.what, stack[Depth - 1].held)
    <3>1. PICK n, C : n = Depth /\ C = stack[n - 1]
      OBVIOUS
    <3>2. /\ Sound(stack, thread) /\ stack \in Seq(Frames) /\ n \in Nat /\ n = Len(stack)
          /\ Top = stack[n] /\ n > 1
      BY <2>4, <3>1 DEF IInv, Sound, Depth, Top
    <3>3. n - 1 \in 1 .. Len(stack) - 1 /\ n - 1 + 1 = n /\ n - 1 \in 1 .. Len(stack)
      BY <3>2
    <3>4. Waits(stack[n - 1], stack[n - 1 + 1]) /\ stack[n - 1] \in Frames
      BY <3>2, <3>3 DEF Sound
    <3>5. Waits(C, Top) /\ C \in Frames
      BY <3>1, <3>2, <3>3, <3>4
    <3>6. Top \in Frames /\ AtStep(Top) /\ Now = StepOf(Top) /\ Now.do = "receive"
      BY <2>4, AtTop
    <3>7. /\ BorrowsFirst(Top.fn)
          /\ \A r \in Borrows(Top.fn) : r \in BagToSet(C.held) \cup Borrowed(Top)
      BY <3>5, <3>6, Called
    <3>8. Top.at = "begin" /\ Now.what \in Borrows(Top.fn)
      BY <3>6, <3>7 DEF BorrowsFirst, AtStep, StepOf, Borrows
    <3> QED
      BY <3>1, <3>7, <3>8 DEF Borrowed, BagIn
  <2> QED
    BY <2>2, <2>3, <2>4, <2>5 DEF ReleasedOnce
<1> QED
  BY <1>1, IInvHolds, PTL

\* A function that says "true" has had success with what it was called for (but for the
\* Careless): whatever the functions it calls have done, at any depth.
THEOREM CallsSayTrueWhenComplete == Spec => []TrueIsComplete
<1>1. IInv => TrueIsComplete
  <2> SUFFICES ASSUME IInv, Depth > 0, ReturnsTrue, Top.fn \notin Careless
               PROVE  /\ ~Top.failed
                      /\ Top.ret \/ \A at \in DOMAIN Bodies[Top.fn] : ~Bodies[Top.fn][at].must
    BY DEF TrueIsComplete
  <2>1. Returned
    BY DEF Returned, ReturnsTrue
  <2>2. ~Top.failed /\ (Top.ret \/ \A s \in StepsOf(Top.fn) : ~s.must)
    BY <2>1, TopEnds
  <2> QED
    BY <2>2 DEF StepsOf
<1> QED
  BY <1>1, IInvHolds, PTL

\* The token of the thread, and its privilege, outlast every call, at any depth.
THEOREM CallsKeepTheToken == Spec => []CallerKeepsItsToken
<1>1. IInv => CallerKeepsItsToken
  <2> SUFFICES ASSUME IInv, Depth > 0
               PROVE  /\ Top.entered.token # "none" => thread.token = Top.entered.token
                      /\ Top.entered.debug /\ Returned =>
                           thread.debug \/ Top.fn \in {"clear_privilege", "resume_process_by_pid"}
    BY DEF CallerKeepsItsToken
  <2>1. Top.entered.token # "none" => thread.token = Top.entered.token
    BY DEF IInv, Sound, TokenStays, Top, Depth
  <2>2. ASSUME Top.entered.debug, Returned
        PROVE  thread.debug \/ Top.fn \in {"clear_privilege", "resume_process_by_pid"}
    <3>1. Seen(thread) \in ThreadAfter(Top.fn, Seen(Top.entered))
      BY <2>2, TopEnds
    <3>2. Seen(Top.entered).debug
      BY <2>2 DEF Seen
    <3>3. Seen(thread).debug \/ Top.fn \in TakesPrivilege
      BY <3>1, <3>2 DEF ThreadAfter
    <3> QED
      BY <3>3 DEF Seen, TakesPrivilege
  <2> QED
    BY <2>1, <2>2
<1> QED
  BY <1>1, IInvHolds, PTL
-----------------------------------------------------------------------------
(* The COM clients *)

Part(mem, c) == [m \in c |-> mem[m]]

\* F is in a case of its body, with the members of client c.
Knows(F, mem, c) == ClientCase(F.at, Part(mem, c)) \in ClientCases(F.fn, c)

\* Nothing is said of WMI once one of its members has been lost.
ClientInv ==
  /\ member \in [Members -> Values] /\ lost \subseteq Members
  /\ SchedMembers \cap lost = {}
  /\ \A c \in Clients : c \cap lost = {} =>
       /\ \A i \in 1 .. Len(stack) : Knows(stack[i], member, c)
       /\ stack = <<>> => Part(member, c) \in Settled(c)

LEMMA ClientInTable ==
  ASSUME NEW f \in Functions, NEW c \in Clients, NEW at, NEW mem,
         ClientCase(at, mem) \in ClientCases(f, c)
  PROVE  /\ ClientCaseIsSafe(f, c, ClientCase(at, mem))
         /\ ClientFollowing(f, c, ClientCase(at, mem)) \subseteq ClientCases(f, c)
  BY ClientsAreSound DEF ClientBodyIsSound

LEMMA ClientStarts ==
  ASSUME NEW f \in Functions, NEW c \in Clients, NEW mem \in Starts(f, c)
  PROVE  ClientCase("begin", mem) \in ClientCases(f, c)
  BY ClientsAreSound DEF ClientBodyIsSound

LEMMA ClientStepInTable ==
  ASSUME NEW F, F.fn \in Functions, NEW c \in Clients, NEW mem, AtStep(F),
         ClientCase(F.at, mem) \in ClientCases(F.fn, c)
  PROVE  /\ ClientStepIsSafe(ClientCase(F.at, mem), StepOf(F), c)
         /\ \A x \in After(StepOf(F), mem, c) :
              ClientCase(StepOf(F).ok, x) \in ClientCases(F.fn, c)
         /\ \A x \in AfterFailure(StepOf(F), mem, c) :
              ClientCase(StepOf(F).or, x) \in ClientCases(F.fn, c)
<1>1. PICK k : k = ClientCase(F.at, mem)
  OBVIOUS
<1>2. k.at = F.at /\ k.member = mem
  BY <1>1 DEF ClientCase
<1>3. ClientCaseIsSafe(F.fn, c, k) /\ ClientFollowing(F.fn, c, k) \subseteq ClientCases(F.fn, c)
  BY <1>1, ClientInTable
<1>4. F.at \in {k.at} \cap DOMAIN Bodies[F.fn] /\ StepOf(F) = Bodies[F.fn][F.at]
  BY <1>2 DEF AtStep, StepOf
<1>5. ClientStepIsSafe(k, StepOf(F), c)
  BY <1>3, <1>4 DEF ClientCaseIsSafe
<1>6. StepOf(F) \in {Bodies[F.fn][at] : at \in {k.at} \cap DOMAIN Bodies[F.fn]}
  BY <1>4
<1>7. ASSUME NEW x \in After(StepOf(F), mem, c)
      PROVE  ClientCase(StepOf(F).ok, x) \in ClientFollowing(F.fn, c, k)
  BY <1>2, <1>6 DEF ClientFollowing
<1>8. ASSUME NEW x \in AfterFailure(StepOf(F), mem, c)
      PROVE  ClientCase(StepOf(F).or, x) \in ClientFollowing(F.fn, c, k)
  BY <1>2, <1>6 DEF ClientFollowing
<1> QED
  BY <1>1, <1>3, <1>5, <1>7, <1>8

\* Every frame is a record, and its function one of the tables.
LEMMA AllFrames ==
  ASSUME IInv
  PROVE  /\ stack \in Seq(Frames) /\ Len(stack) \in Nat
         /\ \A i \in 1 .. Len(stack) : stack[i] \in Frames /\ stack[i].fn \in Functions
<1>1. stack \in Seq(Frames)
  BY DEF IInv, Sound
<1>2. \A i \in 1 .. Len(stack) : stack[i] \in Frames
  BY <1>1
<1> QED
  BY <1>1, <1>2 DEF Frames

\* The last function goes on at p.
GoesTo(p) == /\ Len(stack') = Len(stack)
             /\ \A i \in 1 .. Len(stack) :
                  stack'[i].fn = stack[i].fn /\ stack'[i].at = IF i = Depth THEN p ELSE stack[i].at

LEMMA SucceedGoes ==
  ASSUME IInv, Depth > 0, NEW G, DOMAIN G = DOMAIN Top, G.fn = Top.fn, Succeed(G)
  PROVE  GoesTo(Now.ok)
<1>1. stack \in Seq(Frames) /\ Depth = Len(stack) /\ Depth \in 1 .. Len(stack) /\ Top \in Frames
  BY AllFrames DEF Depth, Top
<1>2. PICK P : P = Passed(G, Now)
  OBVIOUS
<1>3. P.fn = Top.fn /\ P.at = Now.ok
  <2>1. "fn" \in DOMAIN Top /\ "at" \in DOMAIN Top
    BY <1>1 DEF Frames
  <2> QED
    BY <1>2, <2>1 DEF Passed, Missed
<1>4. stack' = [stack EXCEPT ![Depth] = P]
  BY <1>2 DEF Succeed
<1>5. Len(stack') = Len(stack)
  BY <1>1, <1>4
<1>6. \A i \in 1 .. Len(stack) : stack'[i] = IF i = Depth THEN P ELSE stack[i]
  BY <1>1, <1>4
<1> QED
  BY <1>1, <1>3, <1>5, <1>6 DEF GoesTo, Top

LEMMA FailGoes ==
  ASSUME IInv, Depth > 0, Fail
  PROVE  GoesTo(Now.or)
<1>1. stack \in Seq(Frames) /\ Depth = Len(stack) /\ Depth \in 1 .. Len(stack) /\ Top \in Frames
  BY AllFrames DEF Depth, Top
<1>2. PICK P : P = Missed(Top, Now)
  OBVIOUS
<1>3. P.fn = Top.fn /\ P.at = Now.or
  <2>1. "fn" \in DOMAIN Top /\ "at" \in DOMAIN Top
    BY <1>1 DEF Frames
  <2> QED
    BY <1>2, <2>1 DEF Passed, Missed
<1>4. stack' = [stack EXCEPT ![Depth] = P]
  BY <1>2 DEF Fail
<1>5. Len(stack') = Len(stack)
  BY <1>1, <1>4
<1>6. \A i \in 1 .. Len(stack) : stack'[i] = IF i = Depth THEN P ELSE stack[i]
  BY <1>1, <1>4
<1> QED
  BY <1>1, <1>3, <1>5, <1>6 DEF GoesTo, Top

\* A function that others wait for changes no member.
LEMMA OnlyAloneChanges ==
  ASSUME IInv, ClientInv, Depth > 1, NEW do, At(do)
  PROVE  do \notin Changing
<1>1. /\ Sound(stack, thread) /\ stack \in Seq(Frames) /\ Len(stack) \in Nat
      /\ Depth = Len(stack) /\ Top = stack[Depth]
  BY AllFrames DEF IInv, Depth, Top
<1>2. /\ Depth - 1 \in 1 .. Len(stack) - 1 /\ Depth - 1 + 1 = Depth /\ Depth - 1 \in 1 .. Len(stack)
  BY <1>1
<1>3. PICK C : C = stack[Depth - 1]
  OBVIOUS
<1>4. Waits(C, Top) /\ C \in Frames /\ C.fn \in Functions
  <2>1. Waits(stack[Depth - 1], stack[Depth - 1 + 1])
    BY <1>1, <1>2 DEF Sound
  <2> QED
    BY <1>1, <1>2, <1>3, <2>1, AllFrames
<1>5. AtStep(C) /\ Calls(StepOf(C)) /\ StepOf(C).what = Top.fn
  BY <1>4 DEF Waits
<1>6. SchedMembers \in Clients /\ Knows(C, member, SchedMembers)
  BY <1>2, <1>3 DEF ClientInv, Clients
<1>7. ClientStepIsSafe(ClientCase(C.at, Part(member, SchedMembers)), StepOf(C), SchedMembers)
  BY <1>4, <1>5, <1>6, ClientStepInTable DEF Knows
<1>8. \A x \in StepsOf(Top.fn) : x.do \notin Changing
  BY <1>5, <1>7 DEF ClientStepIsSafe
<1>9. Now \in StepsOf(Top.fn) /\ Now.do = do
  BY DEF At, Now, StepsOf
<1> QED
  BY <1>8, <1>9

\* The case of the last function.
LEMMA TopKnows ==
  ASSUME IInv, ClientInv, NEW do, At(do), NEW c \in Clients, c \cap lost = {}
  PROVE  /\ ClientStepIsSafe(ClientCase(Top.at, Part(member, c)), Now, c)
         /\ \A x \in After(Now, Part(member, c), c) :
              ClientCase(Now.ok, x) \in ClientCases(Top.fn, c)
         /\ \A x \in AfterFailure(Now, Part(member, c), c) :
              ClientCase(Now.or, x) \in ClientCases(Top.fn, c)
<1>1. AtStep(Top) /\ Now = StepOf(Top) /\ Top.fn \in Functions /\ Len(stack) > 0
  BY AtTop
<1>2. Depth \in 1 .. Len(stack) /\ Top = stack[Depth]
  BY <1>1, AllFrames DEF Depth, Top
<1>3. Knows(Top, member, c)
  BY <1>2 DEF ClientInv
<1> QED
  BY <1>1, <1>3, ClientStepInTable DEF Knows

\* The last function takes a step, with the members as the tables have it.
LEMMA TopGoesOn ==
  ASSUME IInv, ClientInv, NEW do, At(do), NEW p, GoesTo(p),
         member' \in [Members -> Values], lost' \subseteq Members, lost \subseteq lost',
         SchedMembers \cap lost' = {}, do \notin Changing => member' = member,
         \A c \in Clients : c \cap lost' = {} =>
           \/ p = Now.ok /\ Part(member', c) \in After(Now, Part(member, c), c)
           \/ p = Now.or /\ Part(member', c) \in AfterFailure(Now, Part(member, c), c)
  PROVE  ClientInv'
<1>1. stack \in Seq(Frames) /\ Len(stack) \in Nat /\ Len(stack) > 0 /\ Depth = Len(stack)
  BY AllFrames, AtTop DEF Depth
<1>2. Len(stack') = Len(stack) /\ stack' # <<>>
  BY <1>1 DEF GoesTo
<1>3. ASSUME NEW c \in Clients, c \cap lost' = {}, NEW i \in 1 .. Len(stack)
      PROVE  Knows(stack'[i], member', c)
  <2>1. c \cap lost = {} /\ Knows(stack[i], member, c)
    BY <1>3 DEF ClientInv
  <2>2. CASE i = Depth
    <3>1. stack'[i].fn = Top.fn /\ stack'[i].at = p
      BY <2>2 DEF GoesTo, Top
    <3>2. ClientCase(p, Part(member', c)) \in ClientCases(Top.fn, c)
      BY <1>3, <2>1, TopKnows
    <3> QED
      BY <3>1, <3>2 DEF Knows
  <2>3. CASE i # Depth
    <3>1. Depth > 1
      BY <1>1, <2>3
    <3>2. member' = member
      BY <3>1, OnlyAloneChanges
    <3>3. stack'[i].fn = stack[i].fn /\ stack'[i].at = stack[i].at
      BY <2>3 DEF GoesTo
    <3> QED
      BY <2>1, <3>2, <3>3 DEF Knows
  <2> QED
    BY <2>2, <2>3
<1> QED
  BY <1>2, <1>3 DEF ClientInv

\* The step has nothing to do with the members.
LEMMA TopGoesOnAside ==
  ASSUME IInv, ClientInv, NEW do, At(do), do \notin Touching, UNCHANGED <<member, lost>>,
         GoesTo(Now.ok) \/ GoesTo(Now.or)
  PROVE  ClientInv'
<1>1. Now.do = do /\ do \notin Changing
  BY AtTop DEF Touching
<1>2. \A c : /\ After(Now, Part(member, c), c) = {Part(member, c)}
             /\ AfterFailure(Now, Part(member, c), c) = {Part(member, c)}
  <2>1. ASSUME NEW c
        PROVE  /\ After(Now, Part(member, c), c) = {Part(member, c)}
               /\ AfterFailure(Now, Part(member, c), c) = {Part(member, c)}
    <3>1. Now.do \notin Touching
      BY <1>1
    <3>2. /\ Now.do \notin {"keep", "create"} /\ Now.do # "null" /\ Now.do # "drop"
          /\ Now.do # "test" /\ Now.do # "use" /\ Now.do # "create"
          /\ Now.do \notin {"keep", "null", "drop"}
      BY <3>1 DEF Touching, Changing
    <3>3. After(Now, Part(member, c), c) = {Part(member, c)}
      BY <3>1, <3>2 DEF After
    <3>4. AfterFailure(Now, Part(member, c), c) = {Part(member, c)}
      BY <3>1, <3>2 DEF AfterFailure
    <3> QED
      BY <3>3, <3>4
  <2> QED
    BY <2>1
<1>3. \A c : Part(member', c) = Part(member, c)
  BY DEF Part
<1>4. PICK p \in {Now.ok, Now.or} : GoesTo(p)
  OBVIOUS
<1>5. /\ member' = member /\ lost' = lost /\ member \in [Members -> Values]
      /\ lost \subseteq Members /\ SchedMembers \cap lost = {}
  BY DEF ClientInv
<1> QED
  BY <1>1, <1>2, <1>3, <1>4, <1>5, TopGoesOn
-----------------------------------------------------------------------------
(* The actions and the clients *)

LEMMA WindowsKeepsClients ==
  ASSUME IInv, ClientInv, CallWindows
  PROVE  ClientInv'
<1>1. At("call") /\ UNCHANGED <<member, lost>> /\ Depth > 0
  BY DEF CallWindows, At
<1>2. GoesTo(Now.ok) \/ GoesTo(Now.or)
  BY <1>1, SucceedGoes, FailGoes DEF CallWindows
<1> QED
  BY <1>1, <1>2, TopGoesOnAside DEF Touching, Changing

\* Bags are put in and taken out of a frame, which is one still.
LEMMA FrameFields ==
  ASSUME NEW F \in Frames
  PROVE  /\ \A x : DOMAIN [F EXCEPT !.held = x] = DOMAIN F /\ [F EXCEPT !.held = x].fn = F.fn
         /\ \A x : DOMAIN [F EXCEPT !.guarded = x] = DOMAIN F /\ [F EXCEPT !.guarded = x].fn = F.fn
         /\ \A x : DOMAIN [F EXCEPT !.handed = x] = DOMAIN F /\ [F EXCEPT !.handed = x].fn = F.fn
  BY DEF Frames

LEMMA AcquireKeepsClients ==
  ASSUME IInv, ClientInv, Acquire
  PROVE  ClientInv'
<1>1. PICK do \in {"take", "new", "guard"} : At(do) /\ Depth > 0
  BY DEF Acquire, At
<1>2. Top \in Frames
  BY <1>1, AtTop
<1>3. GoesTo(Now.ok) \/ GoesTo(Now.or)
  <2>1. CASE Succeed([Top EXCEPT !.held = @ (+) One(Now.what)])
    <3>1. PICK G : G = [Top EXCEPT !.held = Top.held (+) One(Now.what)]
      OBVIOUS
    <3>2. DOMAIN G = DOMAIN Top /\ G.fn = Top.fn
      BY <1>2, <3>1, FrameFields
    <3> QED
      BY <1>1, <2>1, <3>1, <3>2, SucceedGoes
  <2>2. CASE Succeed([Top EXCEPT !.guarded = @ (+) One(Now.what)])
    <3>1. PICK G : G = [Top EXCEPT !.guarded = Top.guarded (+) One(Now.what)]
      OBVIOUS
    <3>2. DOMAIN G = DOMAIN Top /\ G.fn = Top.fn
      BY <1>2, <3>1, FrameFields
    <3> QED
      BY <1>1, <2>2, <3>1, <3>2, SucceedGoes
  <2>3. CASE Fail
    BY <1>1, <2>3, FailGoes
  <2> QED
    BY <2>1, <2>2, <2>3 DEF Acquire
<1>4. UNCHANGED <<member, lost>>
  BY DEF Acquire
<1> QED
  BY <1>1, <1>3, <1>4, TopGoesOnAside DEF Touching, Changing

LEMMA ReleaseKeepsClients ==
  ASSUME IInv, ClientInv, Release
  PROVE  ClientInv'
<1>1. PICK do \in {"ward", "unguard", "hand", "give", "free"} : At(do) /\ Succeed(Moved[do])
  BY DEF Release
<1>2. UNCHANGED <<member, lost>> /\ Depth > 0 /\ Top \in Frames
  BY <1>1, AtTop DEF Release, At
<1>3. PICK W : W = [Top EXCEPT !.held = Top.held (-) One(Now.what)]
  OBVIOUS
<1>4. DOMAIN W = DOMAIN Top /\ W.fn = Top.fn
  BY <1>2, <1>3, FrameFields
<1>5. /\ "guarded" \in DOMAIN Top /\ "handed" \in DOMAIN Top /\ "held" \in DOMAIN Top
      /\ "fn" \in DOMAIN Top
  BY <1>2 DEF Frames
<1>6. PICK A, B, C : /\ A = [W EXCEPT !.guarded = @ (+) One(Now.what)]
                     /\ B = [Top EXCEPT !.guarded = @ (-) One(Now.what), !.held = @ (+) One(Now.what)]
                     /\ C = [W EXCEPT !.handed = @ \cup {Now.what}]
  OBVIOUS
<1>7. /\ DOMAIN A = DOMAIN Top /\ A.fn = Top.fn
      /\ DOMAIN B = DOMAIN Top /\ B.fn = Top.fn
      /\ DOMAIN C = DOMAIN Top /\ C.fn = Top.fn
  <2>1. DOMAIN A = DOMAIN Top /\ A.fn = Top.fn
    BY <1>4, <1>5, <1>6
  <2>2. DOMAIN B = DOMAIN Top /\ B.fn = Top.fn
    BY <1>4, <1>5, <1>6
  <2>3. DOMAIN C = DOMAIN Top /\ C.fn = Top.fn
    BY <1>4, <1>5, <1>6
  <2> QED
    BY <2>1, <2>2, <2>3
<1>8. Moved = [ward |-> A, unguard |-> B, hand |-> C, give |-> W, free |-> W]
  BY <1>3, <1>6 DEF Moved
<1>9. PICK G \in {A, B, C, W} : Succeed(G)
  <2>1. Moved[do] \in {A, B, C, W}
    BY <1>1, <1>8
  <2> QED
    BY <1>1, <2>1
<1>10. DOMAIN G = DOMAIN Top /\ G.fn = Top.fn
  BY <1>4, <1>7
<1>11. GoesTo(Now.ok)
  BY <1>2, <1>9, <1>10, SucceedGoes
<1> QED
  BY <1>1, <1>2, <1>11, TopGoesOnAside DEF Touching, Changing

LEMMA ReceiveKeepsClients ==
  ASSUME IInv, ClientInv, ReceiveFromCaller
  PROVE  ClientInv'
<1>1. At("receive") /\ UNCHANGED <<member, lost>>
  BY DEF ReceiveFromCaller
<1>2. /\ stack \in Seq(Frames) /\ Len(stack) \in Nat /\ Depth = Len(stack) /\ Depth > 0
      /\ Top = stack[Depth] /\ Top \in Frames
  BY <1>1, AtTop, AllFrames DEF Depth, Top
<1>3. PICK T : T = [Top EXCEPT !.held = Top.held (+) One(Now.what)]
  OBVIOUS
<1>4. DOMAIN T = DOMAIN Top /\ T.fn = Top.fn
  BY <1>2, <1>3, FrameFields
<1>5. PICK P : P = Passed(T, Now)
  OBVIOUS
<1>6. P.fn = Top.fn /\ P.at = Now.ok
  <2>1. "fn" \in DOMAIN T /\ "at" \in DOMAIN T
    BY <1>2, <1>4 DEF Frames
  <2> QED
    BY <1>4, <1>5, <2>1 DEF Passed
<1>7. stack' = [i \in 1 .. Depth |->
                  IF i = Depth THEN P
                  ELSE IF i = Depth - 1 THEN [stack[i] EXCEPT !.held = stack[i].held (-) One(Now.what)]
                  ELSE stack[i]]
  BY <1>3, <1>5 DEF ReceiveFromCaller
<1>8. Len(stack') = Len(stack)
  BY <1>2, <1>7
<1>9. ASSUME NEW i \in 1 .. Len(stack)
      PROVE  stack'[i].fn = stack[i].fn /\ stack'[i].at = IF i = Depth THEN Now.ok ELSE stack[i].at
  <2>1. CASE i = Depth
    BY <1>2, <1>6, <1>7, <2>1
  <2>2. CASE i # Depth
    <3>1. stack'[i] \in {stack[i], [stack[i] EXCEPT !.held = stack[i].held (-) One(Now.what)]}
      BY <1>2, <1>7, <2>2
    <3>2. stack[i] \in Frames
      BY <1>2
    <3>3. \A x : /\ [stack[i] EXCEPT !.held = x].fn = stack[i].fn
                 /\ [stack[i] EXCEPT !.held = x].at = stack[i].at
      BY <3>2 DEF Frames
    <3> QED
      BY <2>2, <3>1, <3>3
  <2> QED
    BY <2>1, <2>2
<1>10. GoesTo(Now.ok)
  BY <1>8, <1>9 DEF GoesTo
<1> QED
  BY <1>1, <1>10, TopGoesOnAside DEF Touching, Changing

LEMMA ThreadKeepsClients ==
  ASSUME IInv, ClientInv,
         OpenThreadToken \/ ImpersonateSelf \/ RevertToSelf \/ AdjustTokenPrivileges
  PROVE  ClientInv'
<1>1. PICK do \in {"token", "impersonate", "revert", "enable", "disable"} :
        At(do) /\ (Succeed(Top) \/ Fail) /\ UNCHANGED <<member, lost>>
  BY DEF OpenThreadToken, ImpersonateSelf, RevertToSelf, AdjustTokenPrivileges
<1>2. GoesTo(Now.ok) \/ GoesTo(Now.or)
  BY <1>1, SucceedGoes, FailGoes DEF At
<1> QED
  BY <1>1, <1>2, TopGoesOnAside DEF Touching, Changing

LEMMA EnterKeepsClients ==
  ASSUME IInv, ClientInv, NEW f \in Public, Enter(f)
  PROVE  ClientInv'
<1>1. /\ stack = <<>> /\ stack' = <<Frame(f)>> /\ UNCHANGED <<member, lost>>
      /\ f \in Functions /\ f \notin PrivateTasks
  BY DEF Enter, Public
<1>2. Frame(f).fn = f /\ Frame(f).at = "begin"
  BY DEF Frame
<1>3. ASSUME NEW c \in Clients, c \cap lost' = {}
      PROVE  Knows(Frame(f), member', c)
  <2>1. Part(member, c) \in Starts(f, c)
    BY <1>1, <1>3 DEF ClientInv, Starts
  <2> QED
    BY <1>1, <1>2, <2>1, ClientStarts DEF Knows
<1>4. Len(stack') = 1 /\ stack' # <<>> /\ \A i \in 1 .. Len(stack') : stack'[i] = Frame(f)
  BY <1>1
<1> QED
  BY <1>1, <1>3, <1>4 DEF ClientInv

LEMMA CallKeepsClients ==
  ASSUME IInv, ClientInv, CallFunction
  PROVE  ClientInv'
<1>1. PICK do \in {"do", "relay"} : At(do) /\ UNCHANGED <<member, lost>>
  BY DEF CallFunction
<1>2. /\ stack \in Seq(Frames) /\ Len(stack) \in Nat /\ Depth = Len(stack) /\ Depth > 0
      /\ Calls(Now) /\ CallIsSafe(Top.fn, TopCase, Now)
  BY <1>1, AtTop, AllFrames DEF Depth
<1>3. CASE Fail
  BY <1>1, <1>2, <1>3, FailGoes, TopGoesOnAside DEF Touching, Changing
<1>4. CASE stack' = Append(stack, Frame(Now.what))
  <2>1. PICK G : G = Frame(Now.what)
    OBVIOUS
  <2>2. G.fn = Now.what /\ G.at = "begin" /\ Now.what \in Functions
    BY <1>2, <2>1 DEF Frame, CallIsSafe
  <2>3. ASSUME NEW c \in Clients, c \cap lost = {}
        PROVE  Knows(G, member, c)
    <3>1. ClientStepIsSafe(ClientCase(Top.at, Part(member, c)), Now, c)
      BY <1>1, <2>3, TopKnows
    <3>2. Part(member, c) \in Starts(Now.what, c)
      BY <1>2, <3>1 DEF ClientStepIsSafe, ClientCase
    <3> QED
      BY <2>2, <3>2, ClientStarts DEF Knows
  <2>4. /\ Len(stack') = Len(stack) + 1 /\ stack'[Len(stack) + 1] = G
        /\ \A i \in 1 .. Len(stack) : stack'[i] = stack[i]
    BY <1>2, <1>4, <2>1
  <2>5. \A i \in 1 .. Len(stack') : i \in 1 .. Len(stack) \/ i = Len(stack) + 1
    BY <1>2, <2>4
  <2>6. stack' # <<>>
    BY <1>2, <2>4
  <2>7. ASSUME NEW c \in Clients, c \cap lost = {}, NEW i \in 1 .. Len(stack')
        PROVE  Knows(stack'[i], member, c)
    <3>1. \A j \in 1 .. Len(stack) : Knows(stack[j], member, c)
      BY <2>7 DEF ClientInv
    <3> QED
      BY <2>3, <2>4, <2>5, <2>7, <3>1
  <2> QED
    BY <1>1, <2>6, <2>7 DEF ClientInv
<1> QED
  BY <1>3, <1>4 DEF CallFunction

LEMMA ReturnKeepsClients ==
  ASSUME IInv, ClientInv, Return
  PROVE  ClientInv'
<1>1. /\ Depth > 0 /\ Returned /\ UNCHANGED <<member, lost>>
      /\ stack \in Seq(Frames) /\ Len(stack) \in Nat /\ Depth = Len(stack) /\ Top = stack[Depth]
  BY AllFrames DEF Return, Depth, Top
<1>2. CASE Depth = 1
  <2>1. stack' = <<>> /\ Len(stack') = 0
    BY <1>2 DEF Return
  <2>2. ASSUME NEW c \in Clients, c \cap lost = {}
        PROVE  Part(member, c) \in Settled(c)
    <3>1. Knows(Top, member, c) /\ Top.fn \in Functions
      BY <1>1, <2>2, AllFrames DEF ClientInv
    <3>2. ClientCaseIsSafe(Top.fn, c, ClientCase(Top.at, Part(member, c)))
      BY <3>1, ClientInTable DEF Knows
    <3>3. Ends(ClientCase(Top.at, Part(member, c)))
      BY <1>1 DEF Ends, Returned, ClientCase
    <3> QED
      BY <3>2, <3>3 DEF ClientCaseIsSafe, ClientCase
  <2> QED
    BY <1>1, <2>1, <2>2 DEF ClientInv
<1>3. CASE Depth > 1
  <2>1. PICK m \in Nat : m = Depth - 1
    BY <1>1
  <2>2. /\ m \in 1 .. Len(stack) /\ m \in 1 .. Len(stack) - 1 /\ m + 1 = Depth
    BY <1>1, <1>3, <2>1
  <2>3. PICK C : C = stack[m]
    OBVIOUS
  <2>4. /\ C \in Frames /\ C.fn \in Functions /\ AtStep(C) /\ Calls(StepOf(C))
    <3>1. Waits(stack[m], stack[m + 1])
      BY <1>1, <2>2 DEF IInv, Sound
    <3> QED
      BY <2>2, <2>3, <3>1, AllFrames DEF Waits
  <2>5. PICK s, E : s = StepOf(C) /\ E = Given(C, s)
    OBVIOUS
  <2>6. DOMAIN E = DOMAIN C /\ E.fn = C.fn
    <3>1. PICK h, b : h = C.handed \cup Top.handed /\ b = C.held (+) SetToBag(Top.handed)
      OBVIOUS
    <3>2. E = [C EXCEPT !.handed = h] \/ E = [C EXCEPT !.held = b]
      BY <2>5, <3>1 DEF Given
    <3> QED
      BY <2>4, <3>2 DEF Frames
  <2>7. PICK N \in {Passed(E, s), Missed(E, s)} : stack' = Append(SubSeq(stack, 1, Depth - 2), N)
    <3>1. C = stack[Depth - 1] /\ s = Bodies[C.fn][C.at]
      BY <2>1, <2>3, <2>5 DEF StepOf
    <3>2. Depth # 1
      BY <1>3
    <3>3. PICK R : R = IF ReturnsTrue THEN Passed(E, s) ELSE Missed(E, s)
      OBVIOUS
    <3>4. stack' = Append(SubSeq(stack, 1, Depth - 2), R)
      BY <2>5, <3>1, <3>2, <3>3 DEF Return
    <3>5. R \in {Passed(E, s), Missed(E, s)}
      BY <3>3
    <3> QED
      BY <3>4, <3>5
  <2>8. N.fn = C.fn /\ N.at \in {s.ok, s.or}
    <3>1. "fn" \in DOMAIN E /\ "at" \in DOMAIN E
      BY <2>4, <2>6 DEF Frames
    <3> QED
      BY <2>6, <3>1 DEF Passed, Missed
  <2>9. ASSUME NEW c \in Clients, c \cap lost = {}
        PROVE  Knows(N, member, c)
    <3>1. Knows(C, member, c)
      BY <2>2, <2>3, <2>9 DEF ClientInv
    <3>2. /\ \A x \in After(s, Part(member, c), c) :
               ClientCase(s.ok, x) \in ClientCases(C.fn, c)
          /\ \A x \in AfterFailure(s, Part(member, c), c) :
               ClientCase(s.or, x) \in ClientCases(C.fn, c)
      BY <2>4, <2>5, <3>1, ClientStepInTable DEF Knows
    <3>3. s.do \in {"do", "relay"}
      BY <2>4, <2>5 DEF Calls
    <3>4. s.do \notin Touching
      BY <3>3 DEF Touching, Changing
    <3>5. /\ After(s, Part(member, c), c) = {Part(member, c)}
          /\ AfterFailure(s, Part(member, c), c) = {Part(member, c)}
      BY <3>3, <3>4 DEF After, AfterFailure
    <3> QED
      BY <2>8, <3>2, <3>5 DEF Knows
  <2>10. /\ Len(stack') = m /\ stack'[m] = N /\ stack' # <<>>
         /\ \A i \in 1 .. m - 1 : stack'[i] = stack[i]
    <3>1. PICK B : B = SubSeq(stack, 1, Depth - 2)
      OBVIOUS
    <3>2. /\ B \in Seq(Frames) /\ Len(B) = m - 1
          /\ \A i \in 1 .. m - 1 : B[i] = stack[i]
      BY <1>1, <1>3, <2>1, <3>1
    <3>3. PICK R : R = N
      OBVIOUS
    <3>4. stack' = Append(B, R)
      BY <2>7, <3>1, <3>3
    <3>5. Len(stack') = m /\ stack'[m] = R /\ \A i \in 1 .. m - 1 : stack'[i] = B[i]
      BY <3>2, <3>4
    <3> QED
      BY <3>2, <3>3, <3>5
  <2>11. \A i \in 1 .. m : i = m \/ (i \in 1 .. m - 1 /\ i \in 1 .. Len(stack))
    BY <1>1, <2>1
  <2>12. ASSUME NEW c \in Clients, c \cap lost = {}, NEW i \in 1 .. Len(stack')
        PROVE  Knows(stack'[i], member, c)
    <3>1. \A j \in 1 .. Len(stack) : Knows(stack[j], member, c)
      BY <2>12 DEF ClientInv
    <3> QED
      BY <2>9, <2>10, <2>11, <2>12, <3>1
  <2> QED
    BY <1>1, <2>10, <2>12 DEF ClientInv
<1> QED
  BY <1>1, <1>2, <1>3
\* How the members of a client change with one of them.
LEMMA PartAfter ==
  ASSUME NEW c \in Clients, member \in [Members -> Values], NEW w \in Members, NEW v,
         member' = [member EXCEPT ![w] = v]
  PROVE  /\ w \in c => Part(member', c) = [Part(member, c) EXCEPT ![w] = v]
         /\ w \notin c => Part(member', c) = Part(member, c)
<1>1. c \subseteq Members
  BY DEF Clients, Members
<1>2. ASSUME w \in c
      PROVE  Part(member', c) = [Part(member, c) EXCEPT ![w] = v]
  BY <1>1, <1>2 DEF Part
<1>3. ASSUME w \notin c
      PROVE  Part(member', c) = Part(member, c)
  BY <1>1, <1>3 DEF Part
<1> QED
  BY <1>2, <1>3

LEMMA Aside ==
  ASSUME NEW s, NEW c, NEW mem, s.what \notin c
  PROVE  After(s, mem, c) = {mem} /\ AfterFailure(s, mem, c) = {mem}
  BY DEF After, AfterFailure

\* A member is assigned a value: one that was live is lost, and none of the scheduler is.
LEMMA AssignKeepsClients ==
  ASSUME IInv, ClientInv, NEW do \in {"keep", "create", "null"}, At(do),
         NEW p \in {Now.ok, Now.or}, GoesTo(p), NEW v \in {"live", "null"}, Assign(v),
         \A c \in Clients : Now.what \in c =>
           \/ p = Now.ok /\ After(Now, Part(member, c), c) = Assigned(Part(member, c), Now.what, v)
           \/ p = Now.or
                /\ AfterFailure(Now, Part(member, c), c) = Assigned(Part(member, c), Now.what, v)
  PROVE  ClientInv'
<1>1. PICK w : w = Now.what
  OBVIOUS
<1>2. /\ member' = [member EXCEPT ![w] = v] /\ lost' = lost \cup {m \in {w} : member[m] = "live"}
      /\ member \in [Members -> Values] /\ lost \subseteq Members /\ SchedMembers \cap lost = {}
  BY <1>1 DEF Assign, ClientInv
<1>3. Now.do = do
  BY AtTop
<1>4. SchedMembers \in Clients
  BY DEF Clients
<1>5. ClientStepIsSafe(ClientCase(Top.at, Part(member, SchedMembers)), Now, SchedMembers)
  BY <1>2, <1>4, TopKnows
<1>6. w \in Members
  BY <1>1, <1>3, <1>5 DEF ClientStepIsSafe, Touching, Changing
<1>7. w \in SchedMembers => member[w] # "live"
  BY <1>1, <1>3, <1>5 DEF ClientStepIsSafe, ClientCase, Part
<1>8. /\ member' \in [Members -> Values] /\ lost' \subseteq Members /\ lost \subseteq lost'
      /\ SchedMembers \cap lost' = {}
  BY <1>2, <1>6, <1>7 DEF Values
<1>9. ASSUME NEW c \in Clients, c \cap lost' = {}
      PROVE  \/ p = Now.ok /\ Part(member', c) \in After(Now, Part(member, c), c)
             \/ p = Now.or /\ Part(member', c) \in AfterFailure(Now, Part(member, c), c)
  <2>1. CASE w \in c
    <3>1. member[w] # "live"
      BY <1>2, <1>9, <2>1
    <3>2. Part(member, c)[w] # "live"
      BY <2>1, <3>1 DEF Part
    <3>3. Part(member', c) = [Part(member, c) EXCEPT ![w] = v]
      BY <1>2, <1>6, <2>1, PartAfter
    <3>4. Part(member', c) \in Assigned(Part(member, c), w, v)
      BY <3>2, <3>3 DEF Assigned
    <3> QED
      BY <1>1, <2>1, <3>4
  <2>2. CASE w \notin c
    <3>1. Part(member', c) = Part(member, c)
      BY <1>2, <1>6, <2>2, PartAfter
    <3> QED
      BY <1>1, <2>2, <3>1, Aside
  <2> QED
    BY <2>1, <2>2
<1> QED
  BY <1>8, <1>9, TopGoesOn DEF Changing

LEMMA KeepKeepsClients ==
  ASSUME IInv, ClientInv, KeepMember
  PROVE  ClientInv'
<1>1. At("keep") /\ Assign("live") /\ Depth > 0
  BY DEF KeepMember, At
<1>2. Now.do = "keep" /\ Top \in Frames
  BY <1>1, AtTop
<1>3. GoesTo(Now.ok)
  <2>1. PICK G : G = [Top EXCEPT !.held = Top.held (-) One(Now.what)]
    OBVIOUS
  <2>2. DOMAIN G = DOMAIN Top /\ G.fn = Top.fn
    BY <1>2, <2>1, FrameFields
  <2>3. Succeed(G)
    BY <2>1 DEF KeepMember
  <2> QED
    BY <1>1, <2>2, <2>3, SucceedGoes
<1>4. ASSUME NEW c \in Clients, Now.what \in c
      PROVE  After(Now, Part(member, c), c) = Assigned(Part(member, c), Now.what, "live")
  BY <1>2, <1>4 DEF After, Touching, Changing
<1> QED
  BY <1>1, <1>3, <1>4, AssignKeepsClients

LEMMA CreateKeepsClients ==
  ASSUME IInv, ClientInv, CreateMember
  PROVE  ClientInv'
<1>1. At("create") /\ Depth > 0
  BY DEF CreateMember, At
<1>2. Now.do = "create"
  BY <1>1, AtTop
<1>3. CASE Succeed(Top) /\ Assign("live")
  <2>1. GoesTo(Now.ok)
    BY <1>1, <1>3, SucceedGoes
  <2>2. ASSUME NEW c \in Clients, Now.what \in c
        PROVE  After(Now, Part(member, c), c) = Assigned(Part(member, c), Now.what, "live")
    BY <1>2, <2>2 DEF After, Touching, Changing
  <2> QED
    BY <1>1, <1>3, <2>1, <2>2, AssignKeepsClients
<1>4. CASE Fail /\ Assign("null")
  <2>1. GoesTo(Now.or)
    BY <1>1, <1>4, FailGoes
  <2>2. ASSUME NEW c \in Clients, Now.what \in c
        PROVE  AfterFailure(Now, Part(member, c), c) = Assigned(Part(member, c), Now.what, "null")
    BY <1>2, <2>2 DEF AfterFailure, Touching, Changing
  <2> QED
    BY <1>1, <1>4, <2>1, <2>2, AssignKeepsClients
<1> QED
  BY <1>3, <1>4 DEF CreateMember

LEMMA ClearKeepsClients ==
  ASSUME IInv, ClientInv, ClearMember
  PROVE  ClientInv'
<1>1. At("null") /\ Depth > 0 /\ Succeed(Top) /\ Assign("null")
  BY DEF ClearMember, At
<1>2. Now.do = "null"
  BY <1>1, AtTop
<1>3. GoesTo(Now.ok)
  BY <1>1, SucceedGoes
<1>4. ASSUME NEW c \in Clients, Now.what \in c
      PROVE  After(Now, Part(member, c), c) = Assigned(Part(member, c), Now.what, "null")
  BY <1>2, <1>4 DEF After, Touching, Changing
<1> QED
  BY <1>1, <1>3, <1>4, AssignKeepsClients

LEMMA DropKeepsClients ==
  ASSUME IInv, ClientInv, DropMember
  PROVE  ClientInv'
<1>1. PICK w : w = Now.what
  OBVIOUS
<1>2. /\ At("drop") /\ Depth > 0 /\ Succeed(Top) /\ member' = [member EXCEPT ![w] = "stale"]
      /\ lost' = lost
  BY <1>1 DEF DropMember, At
<1>3. Now.do = "drop" /\ GoesTo(Now.ok)
  BY <1>2, AtTop, SucceedGoes
<1>4. /\ member \in [Members -> Values] /\ lost \subseteq Members /\ SchedMembers \cap lost = {}
      /\ SchedMembers \in Clients
  BY DEF ClientInv, Clients
<1>5. w \in Members
  <2>1. ClientStepIsSafe(ClientCase(Top.at, Part(member, SchedMembers)), Now, SchedMembers)
    BY <1>2, <1>4, TopKnows
  <2> QED
    BY <1>1, <1>3, <2>1 DEF ClientStepIsSafe, Touching, Changing
<1>6. member' \in [Members -> Values]
  BY <1>2, <1>4, <1>5 DEF Values
<1>7. ASSUME NEW c \in Clients
      PROVE  Part(member', c) \in After(Now, Part(member, c), c)
  <2>1. CASE w \in c
    <3>1. After(Now, Part(member, c), c) = {[Part(member, c) EXCEPT ![w] = "stale"]}
      BY <1>1, <1>3, <2>1 DEF After, Touching, Changing
    <3>2. Part(member', c) = [Part(member, c) EXCEPT ![w] = "stale"]
      BY <1>2, <1>4, <1>5, <2>1, PartAfter
    <3> QED
      BY <3>1, <3>2
  <2>2. CASE w \notin c
    <3>1. Part(member', c) = Part(member, c)
      BY <1>2, <1>4, <1>5, <2>2, PartAfter
    <3> QED
      BY <1>1, <2>2, <3>1, Aside
  <2> QED
    BY <2>1, <2>2
<1> QED
  BY <1>2, <1>3, <1>4, <1>6, <1>7, TopGoesOn DEF Changing

LEMMA TestKeepsClients ==
  ASSUME IInv, ClientInv, TestMember
  PROVE  ClientInv'
<1>1. PICK w : w = Now.what
  OBVIOUS
<1>2. At("test") /\ Depth > 0 /\ UNCHANGED <<member, lost>>
  BY DEF TestMember, At
<1>3. Now.do = "test"
  BY <1>2, AtTop
<1>4. PICK p : /\ GoesTo(p)
               /\ \/ p = Now.ok /\ member[w] # "null"
                  \/ p = Now.or /\ member[w] = "null"
  BY <1>1, <1>2, SucceedGoes, FailGoes DEF TestMember
<1>5. ASSUME NEW c \in Clients
      PROVE  \/ p = Now.ok /\ Part(member, c) \in After(Now, Part(member, c), c)
             \/ p = Now.or /\ Part(member, c) \in AfterFailure(Now, Part(member, c), c)
  <2>1. CASE w \in c
    <3>1. Part(member, c)[w] = member[w]
      BY <2>1 DEF Part
    <3>2. /\ After(Now, Part(member, c), c)
               = {x \in {Part(member, c)} : x[w] # "null"}
          /\ AfterFailure(Now, Part(member, c), c)
               = {x \in {Part(member, c)} : x[w] = "null"}
      BY <1>1, <1>3, <2>1 DEF After, AfterFailure, Touching, Changing
    <3> QED
      BY <1>4, <3>1, <3>2
  <2>2. CASE w \notin c
    BY <1>1, <1>4, <2>2, Aside
  <2> QED
    BY <2>1, <2>2
<1>6. \A c : Part(member', c) = Part(member, c)
  BY <1>2 DEF Part
<1>7. /\ member' = member /\ lost' = lost /\ member \in [Members -> Values]
      /\ lost \subseteq Members /\ SchedMembers \cap lost = {}
  BY <1>2 DEF ClientInv
<1> QED
  BY <1>2, <1>4, <1>5, <1>6, <1>7, TopGoesOn

LEMMA UseKeepsClients ==
  ASSUME IInv, ClientInv, UseMember
  PROVE  ClientInv'
<1>1. At("use") /\ Depth > 0 /\ UNCHANGED <<member, lost>>
  BY DEF UseMember, At
<1>2. Now.do = "use"
  BY <1>1, AtTop
<1>3. PICK p \in {Now.ok, Now.or} : GoesTo(p)
  BY <1>1, SucceedGoes, FailGoes DEF UseMember
<1>4. ASSUME NEW c \in Clients
      PROVE  /\ After(Now, Part(member, c), c) = {Part(member, c)}
             /\ AfterFailure(Now, Part(member, c), c) = {Part(member, c)}
  <2>1. CASE Now.what \in c
    BY <1>2, <2>1 DEF After, AfterFailure, Touching, Changing
  <2>2. CASE Now.what \notin c
    BY <2>2, Aside
  <2> QED
    BY <2>1, <2>2
<1>5. \A c : Part(member', c) = Part(member, c)
  BY <1>1 DEF Part
<1>6. /\ member' = member /\ lost' = lost /\ member \in [Members -> Values]
      /\ lost \subseteq Members /\ SchedMembers \cap lost = {}
  BY <1>1 DEF ClientInv
<1> QED
  BY <1>1, <1>3, <1>4, <1>5, <1>6, TopGoesOn

LEMMA RestartKeepsClients ==
  ASSUME Restart
  PROVE  ClientInv'
<1>1. stack' = <<>> /\ member' = [m \in Members |-> "null"] /\ lost' = {} /\ Len(stack') = 0
  BY DEF Restart
<1>2. ASSUME NEW c \in Clients
      PROVE  Part(member', c) \in Settled(c)
  <2>1. c \subseteq Members
    BY DEF Clients, Members
  <2>2. Part(member', c) = [m \in c |-> "null"]
    BY <1>1, <2>1 DEF Part
  <2> QED
    BY <2>2 DEF Settled
<1>3. member' \in [Members -> Values]
  BY <1>1 DEF Values
<1> QED
  BY <1>1, <1>2, <1>3 DEF ClientInv

LEMMA ClientInvHolds == Spec => []ClientInv
<1>1. Init => ClientInv
  <2> SUFFICES ASSUME Init
               PROVE  ClientInv
    OBVIOUS
  <2>1. stack = <<>> /\ member = [m \in Members |-> "null"] /\ lost = {} /\ Len(stack) = 0
    BY DEF Init
  <2>2. ASSUME NEW c \in Clients
        PROVE  Part(member, c) \in Settled(c)
    <3>1. c \subseteq Members
      BY DEF Clients, Members
    <3>2. Part(member, c) = [m \in c |-> "null"]
      BY <2>1, <3>1 DEF Part
    <3> QED
      BY <3>2 DEF Settled
  <2>3. member \in [Members -> Values]
    BY <2>1 DEF Values
  <2> QED
    BY <2>1, <2>2, <2>3 DEF ClientInv
<1>2. IInv /\ ClientInv /\ [Next]_vars => ClientInv'
  <2> SUFFICES ASSUME IInv, ClientInv, [Next]_vars
               PROVE  ClientInv'
    OBVIOUS
  <2>1. ASSUME NEW f \in Public, Enter(f) PROVE ClientInv'
    BY <2>1, EnterKeepsClients
  <2>2. CASE CallWindows
    BY <2>2, WindowsKeepsClients
  <2>3. CASE CallFunction
    BY <2>3, CallKeepsClients
  <2>4. CASE Acquire
    BY <2>4, AcquireKeepsClients
  <2>5. CASE Release
    BY <2>5, ReleaseKeepsClients
  <2>6. CASE ReceiveFromCaller
    BY <2>6, ReceiveKeepsClients
  <2>7. CASE TestMember
    BY <2>7, TestKeepsClients
  <2>8. CASE KeepMember
    BY <2>8, KeepKeepsClients
  <2>9. CASE CreateMember
    BY <2>9, CreateKeepsClients
  <2>10. CASE ClearMember
    BY <2>10, ClearKeepsClients
  <2>11. CASE UseMember
    BY <2>11, UseKeepsClients
  <2>12. CASE DropMember
    BY <2>12, DropKeepsClients
  <2>13. CASE Restart
    BY <2>13, RestartKeepsClients
  <2>14. CASE OpenThreadToken \/ ImpersonateSelf \/ RevertToSelf \/ AdjustTokenPrivileges
    BY <2>14, ThreadKeepsClients
  <2>15. CASE Return
    BY <2>15, ReturnKeepsClients
  <2>16. CASE UNCHANGED vars
    BY <2>16 DEF vars, ClientInv, Knows, Part
  <2> QED
    BY <2>1, <2>2, <2>3, <2>4, <2>5, <2>6, <2>7, <2>8, <2>9, <2>10, <2>11, <2>12, <2>13, <2>14,
       <2>15, <2>16 DEF Next
<1> QED
  BY <1>1, <1>2, IInvHolds, PTL DEF Spec

\* In whatever order the clients are initialised, used and finalised, with each call
\* failing or not: no call goes through a pointer that is null or released, unless WMI was
\* initialised twice, and the scheduler loses neither its service nor its apartment.
THEOREM ClientsStayValid == Spec => []ClientsAreValid
<1>1. IInv /\ ClientInv => ClientsAreValid
  <2> SUFFICES ASSUME IInv, ClientInv
               PROVE  ClientsAreValid
    OBVIOUS
  <2>1. SchedulerKept
    BY DEF ClientInv, SchedulerKept
  <2>2. ASSUME Crashed, WmiMembers \cap lost = {}
        PROVE  Top.fn \in Unchecked
    <3>1. SchedMembers \in Clients /\ WmiMembers \in Clients /\ Members = WmiMembers \cup SchedMembers
          /\ \A c \in Clients : c \cap lost = {}
      BY <2>2 DEF Clients, ClientInv, Members
    <3>2. CASE Depth > 0 /\ Top.at = "crash"
      <4>1. Top = stack[Depth] /\ Depth \in 1 .. Len(stack) /\ Top.fn \in Functions
        BY <3>2, AllFrames DEF Top, Depth
      <4>2. Knows(Top, member, SchedMembers)
        BY <3>1, <4>1 DEF ClientInv
      <4>3. ClientCaseIsSafe(Top.fn, SchedMembers, ClientCase(Top.at, Part(member, SchedMembers)))
        BY <3>1, <4>1, <4>2, ClientInTable DEF Knows
      <4> QED
        BY <3>2, <4>3 DEF ClientCaseIsSafe, ClientCase
    <3>3. CASE (At("use") \/ At("drop")) /\ member[Now.what] # "live"
      <4>1. PICK do \in {"use", "drop"} : At(do)
        BY <3>3
      <4>2. Now.do = do
        BY <4>1, AtTop
      <4>3. \A c \in Clients : ClientStepIsSafe(ClientCase(Top.at, Part(member, c)), Now, c)
        BY <3>1, <4>1, TopKnows
      <4>4. Now.what \in Members
        BY <3>1, <4>2, <4>3 DEF ClientStepIsSafe, Touching, Changing
      <4>5. PICK c \in Clients : Now.what \in c
        BY <3>1, <4>4
      <4>6. Part(member, c)[Now.what] = "live"
        BY <4>2, <4>3, <4>5 DEF ClientStepIsSafe, ClientCase
      <4> QED
        BY <3>3, <4>5, <4>6 DEF Part
    <3> QED
      BY <2>2, <3>2, <3>3 DEF Crashed
  <2> QED
    BY <2>1, <2>2 DEF ClientsAreValid, NothingCrashes
<1> QED
  BY <1>1, IInvHolds, ClientInvHolds, PTL
=============================================================================
