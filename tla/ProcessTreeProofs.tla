------------------------- MODULE ProcessTreeProofs --------------------------
(***************************************************************************)
(* Proofs about ProcessTree for any finite set of pids, any number of      *)
(* births and any number of processes that cannot be opened.               *)
(*                                                                         *)
(* The walks are functions of the number of steps.  What they reach is     *)
(* found by induction over the steps, with sets of numbers in place of     *)
(* predicates.  Who goes up from an entry, from parent to parent, comes to *)
(* one without parent or onto a ring.  Times do not decrease along parent  *)
(* links, so a ring has one time; different processes that could be opened *)
(* have different times, so it is the assumed one.                         *)
(*                                                                         *)
(* A tree kill is right because the snapshot knows the families: a process *)
(* in it that names a pid and is younger than the process of that pid is   *)
(* the child of that one, whatever has happened to the pid since.          *)
(***************************************************************************)
EXTENDS ProcessTree, TLAPS, FiniteSetTheorems
-----------------------------------------------------------------------------
(* Induction *)

\* A set of natural numbers has a least member: of the intervals below its
\* members one has no other inside it.
LEMMA Least ==
  ASSUME NEW S, S \subseteq Nat, S # {}
  PROVE  \E n \in S : \A m \in S : n <= m
<1> DEFINE T == {0..n - 1 : n \in S}
<1>1. T \subseteq FiniteSubsetsOf(Nat)
  <2> SUFFICES ASSUME NEW n \in S PROVE 0..n - 1 \in FiniteSubsetsOf(Nat)
    OBVIOUS
  <2>1. IsFiniteSet(0..n - 1) /\ 0..n - 1 \subseteq Nat
    BY FS_Interval
  <2> QED
    BY <2>1 DEF FiniteSubsetsOf
<1>2. \E x \in T : \A y \in T : ~(<<y, x>> \in StrictSubsetOrdering(Nat))
  <2>1. T # {}
    OBVIOUS
  <2> HIDE DEF T
  <2> QED
    BY <1>1, <2>1, FS_StrictSubsetOrderingWellFounded, WFMin
<1>3. PICK n \in S : \A y \in T : ~(<<y, 0..n - 1>> \in StrictSubsetOrdering(Nat))
  BY <1>2
<1>4. ASSUME NEW m \in S, m < n PROVE FALSE
  <2>1. 0..m - 1 \in T /\ n \in Nat /\ m \in Nat
    OBVIOUS
  <2>2. 0..m - 1 \subseteq 0..n - 1 /\ m \in 0..n - 1 /\ m \notin 0..m - 1
    BY <1>4, <2>1
  <2>3. <<0..m - 1, 0..n - 1>> \in StrictSubsetOrdering(Nat)
    BY <2>1, <2>2 DEF StrictSubsetOrdering
  <2> QED
    BY <1>3, <2>1, <2>3
<1> QED
  BY <1>4

\* Induction over the natural numbers, for a set instead of a predicate.
LEMMA Induction ==
  ASSUME NEW S, 0 \in S, \A n \in Nat : n \in S => n + 1 \in S
  PROVE  Nat \subseteq S
<1> SUFFICES ASSUME Nat \ S # {} PROVE FALSE
  OBVIOUS
<1>1. PICK n \in Nat \ S : \A m \in Nat \ S : n <= m
  BY Least
<1>2. n - 1 \in Nat
  BY <1>1
<1>3. n - 1 \in S
  BY <1>1, <1>2
<1> QED
  BY <1>1, <1>2, <1>3

\* A function is defined by its first value and a step from each value to the next.
Follows(f, a, step, k) == f[0] = a /\ \A n \in 1..k : f[n] = step[n][f[n - 1]]

LEMMA Recursion ==
  ASSUME NEW X, NEW a \in X, NEW step \in [Nat -> [X -> X]], NEW k \in Nat
  PROVE  \E f \in [0..k -> X] : Follows(f, a, step, k)
<1> DEFINE Fits(f, m) == Follows(f, a, step, m)
<1> DEFINE S == {m \in Nat : \E f \in [0..m -> X] : Fits(f, m)}
<1>1. 0 \in S
  <2> DEFINE f == [n \in 0..0 |-> a]
  <2>1. f \in [0..0 -> X] /\ f[0] = a /\ 1..0 = {}
    OBVIOUS
  <2> QED
    BY <2>1 DEF Follows
<1>2. ASSUME NEW m \in Nat, m \in S PROVE m + 1 \in S
  <2>1. PICK f \in [0..m -> X] : Fits(f, m)
    BY <1>2
  <2> DEFINE g == [n \in 0..m + 1 |-> IF n = m + 1 THEN step[m + 1][f[m]] ELSE f[n]]
  <2>2. f[m] \in X /\ step[m + 1][f[m]] \in X
    OBVIOUS
  <2>3. g \in [0..m + 1 -> X]
    BY <2>2
  <2>4. g[0] = a
    BY <2>1 DEF Follows
  <2>5. ASSUME NEW n \in 1..m + 1 PROVE g[n] = step[n][g[n - 1]]
    <3>1. CASE n = m + 1
      <4>1. n - 1 = m /\ g[m] = f[m]
        BY <3>1
      <4> QED
        BY <3>1, <4>1
    <3>2. CASE n \in 1..m
      <4>1. n - 1 \in 0..m /\ n # m + 1 /\ n - 1 # m + 1
        BY <3>2
      <4>2. g[n] = f[n] /\ g[n - 1] = f[n - 1]
        BY <4>1
      <4> QED
        BY <2>1, <3>2, <4>2 DEF Follows
    <3> QED
      BY <3>1, <3>2
  <2>6. Fits(g, m + 1)
    BY <2>4, <2>5 DEF Follows
  <2> HIDE DEF Fits, g
  <2> QED
    BY <2>3, <2>6
<1>3. k \in S
  <2> HIDE DEF S
  <2> QED
    BY <1>1, <1>2, Induction
<1> QED
  BY <1>3

-----------------------------------------------------------------------------
(* Sequences *)

LEMMA SetOfConcatenation ==
  ASSUME NEW X, NEW s \in Seq(X), NEW t \in Seq(X)
  PROVE  s \o t \in Seq(X) /\ ToSet(s \o t) = ToSet(s) \union ToSet(t)
<1>1. /\ s \o t \in Seq(X) /\ Len(s) \in Nat /\ Len(t) \in Nat
      /\ DOMAIN (s \o t) = 1..Len(s) + Len(t)
      /\ DOMAIN s = 1..Len(s) /\ DOMAIN t = 1..Len(t)
  OBVIOUS
<1>2. ASSUME NEW i \in DOMAIN (s \o t) PROVE (s \o t)[i] \in ToSet(s) \union ToSet(t)
  <2>1. CASE i <= Len(s)
    <3>1. (s \o t)[i] = s[i] /\ i \in DOMAIN s
      BY <1>1, <2>1
    <3> QED
      BY <3>1 DEF ToSet
  <2>2. CASE i > Len(s)
    <3>1. (s \o t)[i] = t[i - Len(s)] /\ i - Len(s) \in DOMAIN t
      BY <1>1, <2>2
    <3> QED
      BY <3>1 DEF ToSet
  <2> QED
    BY <1>1, <2>1, <2>2
<1>3. ASSUME NEW i \in DOMAIN s PROVE s[i] \in ToSet(s \o t)
  <2>1. (s \o t)[i] = s[i] /\ i \in DOMAIN (s \o t)
    BY <1>1
  <2> QED
    BY <2>1 DEF ToSet
<1>4. ASSUME NEW i \in DOMAIN t PROVE t[i] \in ToSet(s \o t)
  <2>1. (s \o t)[Len(s) + i] = t[i] /\ Len(s) + i \in DOMAIN (s \o t)
    BY <1>1
  <2> QED
    BY <2>1 DEF ToSet
<1>5. ToSet(s \o t) \subseteq ToSet(s) \union ToSet(t)
  <2> SUFFICES ASSUME NEW x \in ToSet(s \o t) PROVE x \in ToSet(s) \union ToSet(t)
    OBVIOUS
  <2>1. PICK i \in DOMAIN (s \o t) : x = (s \o t)[i]
    BY DEF ToSet
  <2> QED
    BY <1>2, <2>1
<1>6. ToSet(s) \subseteq ToSet(s \o t)
  BY <1>3 DEF ToSet
<1>7. ToSet(t) \subseteq ToSet(s \o t)
  BY <1>4 DEF ToSet
<1> QED
  BY <1>1, <1>5, <1>6, <1>7

LEMMA SetOfAppended ==
  ASSUME NEW X, NEW s \in Seq(X), NEW x \in X
  PROVE  Append(s, x) \in Seq(X) /\ ToSet(Append(s, x)) = ToSet(s) \union {x}
<1> DEFINE t == <<x>>
<1>1. t \in Seq(X) /\ ToSet(t) = {x}
  BY DEF ToSet
<1>2. Append(s, x) = s \o t
  OBVIOUS
<1> HIDE DEF t
<1>3. s \o t \in Seq(X) /\ ToSet(s \o t) = ToSet(s) \union ToSet(t)
  BY <1>1, SetOfConcatenation
<1> QED
  BY <1>1, <1>2, <1>3

\* The elements of a sequence of sequences are those of its members.
LEMMA SetOfFlattened ==
  ASSUME NEW X, NEW ss \in Seq(Seq(X))
  PROVE  /\ FlattenSeq(ss) \in Seq(X)
         /\ ToSet(FlattenSeq(ss)) = UNION {ToSet(ss[i]) : i \in 1..Len(ss)}
<1> DEFINE l == Len(ss)
<1>1. l \in Nat /\ \A i \in 1..l : ss[i] \in Seq(X)
  OBVIOUS
<1>2. CASE l = 0
  <2>1. ss = <<>> /\ ToSet(ss) = {} /\ 1..l = {}
    BY <1>2 DEF ToSet
  <2> QED
    BY <1>2, <2>1 DEF FlattenSeq
<1>3. CASE l # 0
  <2> DEFINE Fits(f) == f = [i \in 1..l |-> IF i = 1 THEN ss[i] ELSE f[i - 1] \o ss[i]]
  <2> DEFINE flatten == CHOOSE f : Fits(f)
  <2> DEFINE step == [n \in Nat |-> [s \in Seq(X) |-> IF n + 1 \in 1..l THEN s \o ss[n + 1] ELSE s]]
  <2>1. step \in [Nat -> [Seq(X) -> Seq(X)]]
    <3> SUFFICES ASSUME NEW n \in Nat, NEW s \in Seq(X), n + 1 \in 1..l
                 PROVE  s \o ss[n + 1] \in Seq(X)
      OBVIOUS
    <3> QED
      BY <1>1
  <2>2. l - 1 \in Nat /\ ss[1] \in Seq(X)
    BY <1>1, <1>3
  <2>3. PICK f \in [0..l - 1 -> Seq(X)] : Follows(f, ss[1], step, l - 1)
    <3> HIDE DEF step
    <3> QED
      BY <2>1, <2>2, Recursion
  <2>4. Fits([i \in 1..l |-> f[i - 1]])
    <3> DEFINE g == [i \in 1..l |-> f[i - 1]]
    <3>1. ASSUME NEW i \in 1..l PROVE g[i] = IF i = 1 THEN ss[i] ELSE g[i - 1] \o ss[i]
      <4>1. CASE i = 1
        BY <2>3, <4>1 DEF Follows
      <4>2. CASE i # 1
        <5>1. i - 1 \in 1..l - 1 /\ i - 1 \in 1..l /\ i - 1 - 1 \in 0..l - 1 /\ i - 1 \in Nat
          BY <1>1, <4>2
        <5>2. f[i - 1] = step[i - 1][f[i - 1 - 1]] /\ f[i - 1 - 1] \in Seq(X)
          BY <2>3, <5>1 DEF Follows
        <5>3. (i - 1) + 1 = i
          BY <5>1
        <5>4. step[i - 1][f[i - 1 - 1]] = f[i - 1 - 1] \o ss[i]
          BY <5>1, <5>2, <5>3
        <5> QED
          BY <4>2, <5>1, <5>2, <5>4
      <4> QED
        BY <4>1, <4>2
    <3> QED
      BY <3>1
  <2>5. \A i \in 1..l : flatten[i] = IF i = 1 THEN ss[i] ELSE flatten[i - 1] \o ss[i]
    <3>1. Fits(flatten)
      BY <2>4
    <3> HIDE DEF flatten
    <3> QED
      BY <3>1
  <2>6. FlattenSeq(ss) = flatten[l]
    BY <1>3 DEF FlattenSeq
  <2> HIDE DEF flatten
  <2> DEFINE Upto(n) == UNION {ToSet(ss[i]) : i \in 1..n}
  <2> DEFINE S == {n \in Nat : n \in 1..l =>
                      flatten[n] \in Seq(X) /\ ToSet(flatten[n]) = Upto(n)}
  <2>7. 0 \in S
    BY <1>1
  <2>8. ASSUME NEW n \in Nat, n \in S PROVE n + 1 \in S
    <3> SUFFICES ASSUME n + 1 \in 1..l
                 PROVE  flatten[n + 1] \in Seq(X) /\ ToSet(flatten[n + 1]) = Upto(n + 1)
      OBVIOUS
    <3>0. ss[n + 1] \in Seq(X)
      BY <1>1
    <3>1. Upto(n + 1) = Upto(n) \union ToSet(ss[n + 1])
      <4>1. 1..n + 1 = 1..n \union {n + 1}
        OBVIOUS
      <4> QED
        BY <4>1, Zenon
    <3>2. CASE n = 0
      <4>1. flatten[1] = ss[1]
        <5>1. 1 \in 1..l
          BY <3>2
        <5> QED
          BY <2>5, <5>1, Zenon
      <4>2. Upto(0) = {}
        <5>1. 1..0 = {}
          OBVIOUS
        <5> QED
          BY <5>1, Zenon
      <4>3. n + 1 = 1
        BY <3>2
      <4> HIDE DEF Upto
      <4> QED
        BY <3>0, <3>1, <3>2, <4>1, <4>2, <4>3
    <3>3. CASE n # 0
      <4>1. n \in 1..l /\ n + 1 # 1 /\ n + 1 - 1 = n
        BY <1>1, <3>3
      <4>2. flatten[n] \in Seq(X) /\ ToSet(flatten[n]) = Upto(n)
        BY <2>8, <4>1
      <4>3. flatten[n + 1] = flatten[n] \o ss[n + 1]
        <5>1. flatten[n + 1] = IF n + 1 = 1 THEN ss[n + 1] ELSE flatten[n + 1 - 1] \o ss[n + 1]
          <6> DEFINE i == n + 1
          <6>1. i \in 1..l
            OBVIOUS
          <6>2. flatten[i] = IF i = 1 THEN ss[i] ELSE flatten[i - 1] \o ss[i]
            <7> HIDE DEF i
            <7> QED
              BY <2>5, <6>1, Zenon
          <6> QED
            BY <6>2
        <5> QED
          BY <4>1, <5>1, Zenon
      <4> HIDE DEF Upto
      <4>4. /\ flatten[n] \o ss[n + 1] \in Seq(X)
            /\ ToSet(flatten[n] \o ss[n + 1]) = ToSet(flatten[n]) \union ToSet(ss[n + 1])
        BY <3>0, <4>2, SetOfConcatenation
      <4> QED
        BY <3>1, <4>2, <4>3, <4>4
    <3> QED
      BY <3>2, <3>3
  <2>9. l \in S
    <3> HIDE DEF S
    <3> QED
      BY <1>1, <2>7, <2>8, Induction
  <2>10. l \in 1..l
    BY <1>1, <1>3
  <2> QED
    BY <2>6, <2>9, <2>10
<1> QED
  BY <1>2, <1>3

\* Ascending lists a finite set of pids, each of them once.
LEMMA AscendingLists ==
  ASSUME NEW S \in SUBSET Nat, IsFiniteSet(S)
  PROVE  Ascending(S) \in Seq(S) /\ ToSet(Ascending(S)) = S
<1> DEFINE Sorted(n, s) == \A i, j \in 1..n : i < j => s[i] < s[j]
<1> DEFINE Sortable(n, U) == \E s \in [1..n -> U] : Sorted(n, s)
<1> DEFINE K == {n \in Nat : \A U \in SUBSET Nat :
                               IsFiniteSet(U) /\ Cardinality(U) = n => Sortable(n, U)}
<1>1. 0 \in K
  <2> SUFFICES ASSUME NEW U \in SUBSET Nat PROVE Sortable(0, U)
    OBVIOUS
  <2>1. <<>> \in [1..0 -> U] /\ Sorted(0, <<>>)
    OBVIOUS
  <2> QED
    BY <2>1
<1>2. ASSUME NEW n \in Nat, n \in K PROVE n + 1 \in K
  <2> SUFFICES ASSUME NEW U \in SUBSET Nat, IsFiniteSet(U), Cardinality(U) = n + 1
               PROVE  Sortable(n + 1, U)
    OBVIOUS
  <2>1. U # {}
    BY FS_EmptySet
  <2>2. PICK m \in U : \A x \in U : m <= x
    BY <2>1, Least
  <2>3. IsFiniteSet(U \ {m}) /\ Cardinality(U \ {m}) = n
    <3>1. IsFiniteSet(U \ {m}) /\ Cardinality(U \ {m}) = Cardinality(U) - 1
      BY FS_RemoveElement
    <3> QED
      BY <3>1
  <2>4. PICK s \in [1..n -> U \ {m}] : Sorted(n, s)
    BY <1>2, <2>3
  <2> DEFINE t == [i \in 1..n + 1 |-> IF i = 1 THEN m ELSE s[i - 1]]
  <2>5. \A i \in 1..n + 1 : i # 1 => i - 1 \in 1..n
    OBVIOUS
  <2>6. t \in [1..n + 1 -> U]
    BY <2>5
  <2>7. ASSUME NEW i \in 1..n + 1, NEW j \in 1..n + 1, i < j PROVE t[i] < t[j]
    <3>1. j # 1 /\ j - 1 \in 1..n /\ t[j] = s[j - 1]
      BY <2>5, <2>7
    <3>2. s[j - 1] \in U \ {m} /\ s[j - 1] \in Nat /\ m \in Nat
      BY <3>1
    <3>3. CASE i = 1
      BY <2>2, <3>1, <3>2, <3>3
    <3>4. CASE i # 1
      <4>1. i - 1 \in 1..n /\ i - 1 < j - 1 /\ t[i] = s[i - 1]
        BY <2>5, <2>7, <3>4
      <4> QED
        BY <2>4, <3>1, <4>1
    <3> QED
      BY <3>3, <3>4
  <2>8. Sorted(n + 1, t)
    BY <2>7
  <2> HIDE DEF t, Sorted
  <2> QED
    BY <2>6, <2>8
<1>3. Cardinality(S) \in Nat
  BY FS_CardinalityType
<1>4. Cardinality(S) \in K
  <2> HIDE DEF K
  <2> QED
    BY <1>1, <1>2, <1>3, Induction
<1> DEFINE n == Cardinality(S)
<1> DEFINE a == Ascending(S)
<1>5. a \in [1..n -> S] /\ Sorted(n, a)
  <2>1. \E s \in [1..n -> S] : Sorted(n, s)
    BY <1>4
  <2> QED
    BY <2>1 DEF Ascending
<1>6. a \in Seq(S) /\ DOMAIN a = 1..n
  BY <1>3, <1>5
<1>7. a \in Injection(1..n, S)
  <2>1. ASSUME NEW i \in 1..n, NEW j \in 1..n, a[i] = a[j] PROVE i = j
    <3>1. a[i] \in Nat /\ a[j] \in Nat
      BY <1>5
    <3> QED
      BY <1>3, <1>5, <2>1, <3>1
  <2> HIDE DEF a
  <2> QED
    BY <1>5, <2>1 DEF Injection, IsInjective
<1>8. a \in Surjection(1..n, S)
  <2>1. Cardinality(1..n) = n
    BY <1>3, FS_Interval
  <2> HIDE DEF a, n
  <2> QED
    BY <1>7, <2>1, FS_Injection DEF n
<1>9. ToSet(a) = S
  <2> HIDE DEF a
  <2> QED
    BY <1>5, <1>6, <1>8 DEF Surjection, ToSet
<1> QED
  BY <1>6, <1>9

LEMMA ListOfFew ==
  ASSUME NEW X, NEW Y, NEW s \in Seq(X), ToSet(s) \subseteq Y
  PROVE  s \in Seq(Y)
<1>1. Len(s) \in Nat /\ DOMAIN s = 1..Len(s) /\ s = [i \in 1..Len(s) |-> s[i]]
  OBVIOUS
<1>2. \A i \in 1..Len(s) : s[i] \in Y
  BY <1>1 DEF ToSet
<1> QED
  BY <1>1, <1>2
-----------------------------------------------------------------------------
(* The walks *)

Entries == DOMAIN map
Size == Cardinality(Entries)

\* The entries of the map are finitely many, and named by numbers.
Listed == Entries \subseteq Nat /\ IsFiniteSet(Entries)

LEMMA SizeIsNumber == Listed => Size \in Nat
  BY FS_CardinalityType DEF Listed, Size

\* r[n] is what is at most n generations below p.
Reaches(r, p) ==
  /\ r[0] = {p}
  /\ \A n \in 1..Size :
       r[n] = r[n - 1] \union UNION {Children(q) : q \in r[n - 1] \ {_pt_idle_proc_pid}}

LEMMA VisitedIsReached ==
  ASSUME Listed, NEW p \in Entries
  PROVE  \E r \in [0..Size -> SUBSET Entries] : Reaches(r, p) /\ Visited(p) = r[Size]
<1> DEFINE Below(S) == S \union UNION {Children(q) : q \in S \ {_pt_idle_proc_pid}}
<1> DEFINE X == SUBSET Entries
<1> DEFINE step == [n \in Nat |-> [S \in X |-> Below(S)]]
<1>1. Size \in Nat
  BY SizeIsNumber
<1>2. step \in [Nat -> [X -> X]]
  <2>1. ASSUME NEW S \in X PROVE Below(S) \in X
    BY DEF Children, Entries
  <2> HIDE DEF Below, X
  <2> QED
    BY <2>1
<1>3. PICK f \in [0..Size -> X] : Follows(f, {p}, step, Size)
  <2>1. {p} \in X
    OBVIOUS
  <2> HIDE DEF step, X
  <2> QED
    BY <1>1, <1>2, <2>1, Recursion
<1>4. f[0] = {p} /\ \A n \in 1..Size : f[n] = Below(f[n - 1])
  <2>1. ASSUME NEW n \in 1..Size PROVE f[n] = Below(f[n - 1])
    <3>1. n \in Nat /\ n - 1 \in 0..Size
      BY <1>1
    <3>2. f[n - 1] \in X /\ f[n] = step[n][f[n - 1]]
      BY <1>3, <3>1 DEF Follows
    <3> HIDE DEF Below, X
    <3> QED
      BY <3>1, <3>2
  <2> QED
    BY <1>3, <2>1 DEF Follows
<1> DEFINE Fits(g) == g = [n \in 0..Size |->
                             IF n = 0 THEN {p}
                             ELSE LET r == g[n - 1]
                                  IN  r \union UNION {Children(q) : q \in r \ {_pt_idle_proc_pid}}]
<1> DEFINE reach == CHOOSE g : Fits(g)
<1>5. Fits(f)
  <2>1. \A n \in 0..Size : f[n] = IF n = 0 THEN {p} ELSE Below(f[n - 1])
    BY <1>1, <1>4
  <2> QED
    BY <2>1
<1>6. Fits(reach)
  BY <1>5
<1>7. Visited(p) = reach[Size]
  BY DEF Visited, Size, Entries
<1>8. \A n \in 0..Size : reach[n] = IF n = 0 THEN {p} ELSE Below(reach[n - 1])
  <2> HIDE DEF reach
  <2> QED
    BY <1>6
<1> HIDE DEF reach
<1> DEFINE K == {n \in Nat : n \in 0..Size => reach[n] = f[n]}
<1>9. 0 \in K
  BY <1>1, <1>4, <1>8
<1>10. ASSUME NEW n \in Nat, n \in K PROVE n + 1 \in K
  <2> SUFFICES ASSUME n + 1 \in 0..Size PROVE reach[n + 1] = f[n + 1]
    OBVIOUS
  <2>1. n + 1 \in 1..Size /\ n \in 0..Size /\ n + 1 - 1 = n /\ n + 1 # 0
    BY <1>1
  <2> DEFINE m == n + 1
  <2>2. m \in 1..Size /\ m \in 0..Size /\ m - 1 = n /\ m # 0
    BY <2>1
  <2> HIDE DEF m, Below
  <2>3. reach[m] = Below(reach[m - 1]) /\ f[m] = Below(f[m - 1])
    BY <1>4, <1>8, <2>2
  <2>4. reach[n] = f[n]
    BY <1>10, <2>1
  <2> QED
    BY <2>2, <2>3, <2>4 DEF m
<1>11. Size \in K
  <2> HIDE DEF K
  <2> QED
    BY <1>1, <1>9, <1>10, Induction
<1>12. Visited(p) = f[Size]
  BY <1>1, <1>7, <1>11
<1>13. Reaches(f, p)
  BY <1>4 DEF Reaches
<1> QED
  BY <1>12, <1>13

\* t[n][q] is what is at most n generations below q.
Kin(t) ==
  /\ t[0] = [q \in Entries |-> {q}]
  /\ \A n \in 1..Size :
       t[n] = [q \in Entries |-> {q} \union UNION {t[n - 1][c] : c \in Children(q)}]

LEMMA ChildrenAreEntries ==
  ASSUME Listed, NEW q
  PROVE  /\ Children(q) \subseteq Entries /\ Children(q) \in SUBSET Nat
         /\ IsFiniteSet(Children(q))
<1>1. Children(q) \subseteq Entries
  BY DEF Children, Entries
<1> QED
  BY <1>1, FS_Subset DEF Listed

\* The list of q and what its children have listed has just these elements.
LEMMA ListOfFamily ==
  ASSUME Listed, NEW g \in [Entries -> Seq(Entries)], NEW q \in Entries,
         NEW l, l = Append(FlattenSeq([i \in DOMAIN Ascending(Children(q)) |->
                                          g[Ascending(Children(q))[i]]]), q)
  PROVE  /\ l \in Seq(Entries)
         /\ ToSet(l) = {q} \union UNION {ToSet(g[c]) : c \in Children(q)}
<1> DEFINE C == Children(q)
<1> DEFINE a == Ascending(C)
<1> DEFINE ss == [i \in DOMAIN a |-> g[a[i]]]
<1>1. C \subseteq Entries /\ a \in Seq(C) /\ ToSet(a) = C
  BY ChildrenAreEntries, AscendingLists
<1> HIDE DEF a, C
<1>2. \A i \in DOMAIN a : a[i] \in C /\ g[a[i]] \in Seq(Entries)
  BY <1>1
<1>3. ss \in Seq(Seq(Entries)) /\ Len(ss) = Len(a) /\ DOMAIN a = 1..Len(a)
  BY <1>1, <1>2, SMTT(30)
<1>4. UNION {ToSet(ss[i]) : i \in 1..Len(ss)} = UNION {ToSet(g[c]) : c \in C}
  <2>1. ASSUME NEW x, NEW i \in 1..Len(ss), x \in ToSet(ss[i])
        PROVE  \E c \in C : x \in ToSet(g[c])
    <3>1. i \in DOMAIN a /\ ss[i] = g[a[i]]
      BY <1>3
    <3> QED
      BY <1>2, <2>1, <3>1
  <2>2. ASSUME NEW x, NEW c \in C, x \in ToSet(g[c])
        PROVE  \E i \in 1..Len(ss) : x \in ToSet(ss[i])
    <3>1. PICK i \in DOMAIN a : a[i] = c
      BY <1>1 DEF ToSet
    <3>2. i \in 1..Len(ss) /\ ss[i] = g[c]
      BY <1>3, <3>1
    <3> QED
      BY <2>2, <3>2
  <2> HIDE DEF ss
  <2>3. \A x : (\E i \in 1..Len(ss) : x \in ToSet(ss[i])) <=> (\E c \in C : x \in ToSet(g[c]))
    BY <2>1, <2>2
  <2> QED
    BY <2>3
<1> HIDE DEF ss
<1>5. /\ FlattenSeq(ss) \in Seq(Entries)
      /\ ToSet(FlattenSeq(ss)) = UNION {ToSet(ss[i]) : i \in 1..Len(ss)}
  BY <1>3, SetOfFlattened
<1>6. l = Append(FlattenSeq(ss), q)
  BY DEF ss, a, C
<1>7. l \in Seq(Entries) /\ ToSet(l) = ToSet(FlattenSeq(ss)) \union {q}
  <2> DEFINE flat == FlattenSeq(ss)
  <2>1. flat \in Seq(Entries) /\ l = Append(flat, q)
    BY <1>5, <1>6
  <2> HIDE DEF flat
  <2>2. Append(flat, q) \in Seq(Entries) /\ ToSet(Append(flat, q)) = ToSet(flat) \union {q}
    BY <2>1, SetOfAppended
  <2> QED
    BY <2>1, <2>2 DEF flat
<1> QED
  BY <1>4, <1>5, <1>7 DEF C

LEMMA PostOrderIsKin ==
  ASSUME Listed, NEW p \in Entries
  PROVE  /\ PostOrder(p) \in Seq(Entries)
         /\ \E t \in [0..Size -> [Entries -> SUBSET Entries]] :
              Kin(t) /\ ToSet(PostOrder(p)) = t[Size][p]
<1> DEFINE Line(g, q) == Append(FlattenSeq([i \in DOMAIN Ascending(Children(q)) |->
                                              g[Ascending(Children(q))[i]]]), q)
<1> DEFINE X == [Entries -> Seq(Entries)]
<1> DEFINE Lines(g) == [q \in Entries |-> Line(g, q)]
<1> DEFINE step == [n \in Nat |-> [g \in X |-> Lines(g)]]
<1> DEFINE first == [q \in Entries |-> <<q>>]
<1>1. Size \in Nat
  BY SizeIsNumber
<1>2. ASSUME NEW g \in X, NEW q \in Entries
      PROVE  /\ Line(g, q) \in Seq(Entries)
             /\ ToSet(Line(g, q)) = {q} \union UNION {ToSet(g[c]) : c \in Children(q)}
  <2> DEFINE l == Line(g, q)
  <2>1. l = Line(g, q)
    OBVIOUS
  <2> HIDE DEF l
  <2>2. /\ l \in Seq(Entries)
        /\ ToSet(l) = {q} \union UNION {ToSet(g[c]) : c \in Children(q)}
    BY <2>1, ListOfFamily
  <2> QED
    BY <2>1, <2>2
<1>3. first \in X /\ step \in [Nat -> [X -> X]]
  <2>1. ASSUME NEW g \in X PROVE Lines(g) \in X
    <3> HIDE DEF Line
    <3> QED
      BY <1>2
  <2>2. first \in X
    OBVIOUS
  <2> HIDE DEF Lines, X
  <2> QED
    BY <2>1, <2>2
<1>4. PICK f \in [0..Size -> X] : Follows(f, first, step, Size)
  <2> HIDE DEF step, X, first
  <2> QED
    BY <1>1, <1>3, Recursion
<1>5. f[0] = first /\ \A n \in 1..Size : f[n - 1] \in X /\ f[n] = Lines(f[n - 1])
  <2>1. ASSUME NEW n \in 1..Size PROVE f[n - 1] \in X /\ f[n] = Lines(f[n - 1])
    <3>1. n \in Nat /\ n - 1 \in 0..Size
      BY <1>1
    <3>2. f[n - 1] \in X /\ f[n] = step[n][f[n - 1]]
      BY <1>4, <3>1 DEF Follows
    <3> HIDE DEF Lines, X
    <3> QED
      BY <3>1, <3>2
  <2> HIDE DEF Lines, X, first
  <2> QED
    BY <1>4, <2>1 DEF Follows
<1> DEFINE Fits(g) == g = [n \in 0..Size |->
                             IF n = 0 THEN first ELSE LET below == g[n - 1] IN Lines(below)]
<1> DEFINE order == CHOOSE g : Fits(g)
<1>6. PostOrder(p) = order[Size][p]
  BY DEF PostOrder, Size, Entries
<1>7. Fits(f)
  <2>1. \A n \in 0..Size : f[n] = IF n = 0 THEN first ELSE Lines(f[n - 1])
    <3> HIDE DEF Lines, first
    <3> QED
      BY <1>1, <1>5
  <2> HIDE DEF Lines, first
  <2> QED
    BY <2>1
<1>8. Fits(order)
  BY <1>7
<1>9. \A n \in 0..Size : order[n] = IF n = 0 THEN first ELSE Lines(order[n - 1])
  <2> HIDE DEF order, Lines, first
  <2> QED
    BY <1>8
<1> HIDE DEF order
<1> DEFINE K == {n \in Nat : n \in 0..Size => order[n] = f[n]}
<1>11. 0 \in K
  <2> HIDE DEF first
  <2> QED
    BY <1>1, <1>5, <1>9
<1>12. ASSUME NEW n \in Nat, n \in K PROVE n + 1 \in K
  <2> SUFFICES ASSUME n + 1 \in 0..Size PROVE order[n + 1] = f[n + 1]
    OBVIOUS
  <2> DEFINE m == n + 1
  <2>1. m \in 0..Size /\ m \in 1..Size /\ m - 1 = n /\ m # 0 /\ n \in 0..Size
    BY <1>1
  <2>2. order[n] = f[n]
    BY <1>12, <2>1
  <2> HIDE DEF m, Lines, first
  <2>3. order[m] = Lines(order[m - 1]) /\ f[m] = Lines(f[m - 1])
    BY <1>5, <1>9, <2>1
  <2> QED
    BY <2>1, <2>2, <2>3 DEF m
<1>13. Size \in K
  <2> HIDE DEF K
  <2> QED
    BY <1>1, <1>11, <1>12, Induction
<1>14. PostOrder(p) = f[Size][p] /\ f[Size] \in X
  BY <1>1, <1>6, <1>13
<1> DEFINE t == [n \in 0..Size |-> [q \in Entries |-> ToSet(f[n][q])]]
<1>15. ASSUME NEW n \in 0..Size, NEW q \in Entries PROVE ToSet(f[n][q]) \subseteq Entries
  <2>1. f[n][q] \in Seq(Entries)
    OBVIOUS
  <2> QED
    BY <2>1 DEF ToSet
<1>16. t \in [0..Size -> [Entries -> SUBSET Entries]]
  BY <1>15
<1>17. t[0] = [q \in Entries |-> {q}]
  <2>1. \A q \in Entries : ToSet(<<q>>) = {q}
    BY DEF ToSet
  <2>2. \A q \in Entries : f[0][q] = <<q>>
    BY <1>5
  <2> QED
    BY <1>1, <2>1, <2>2, SMTT(30)
<1>18. ASSUME NEW n \in 1..Size
       PROVE  t[n] = [q \in Entries |-> {q} \union UNION {t[n - 1][c] : c \in Children(q)}]
  <2>1. n \in 0..Size /\ n - 1 \in 0..Size
    BY <1>1
  <2>2. f[n - 1] \in X /\ f[n] = Lines(f[n - 1])
    BY <1>5
  <2>3. ASSUME NEW q \in Entries
        PROVE  t[n][q] = {q} \union UNION {t[n - 1][c] : c \in Children(q)}
    <3>1. f[n][q] = Line(f[n - 1], q)
      <4> HIDE DEF Line
      <4> QED
        BY <2>2
    <3>2. ToSet(f[n][q]) = {q} \union UNION {ToSet(f[n - 1][c]) : c \in Children(q)}
      <4> HIDE DEF Line, X
      <4> QED
        BY <1>2, <2>2, <3>1
    <3>3. t[n][q] = ToSet(f[n][q]) /\ \A c \in Children(q) : t[n - 1][c] = ToSet(f[n - 1][c])
      BY <2>1, ChildrenAreEntries
    <3> HIDE DEF t
    <3> QED
      BY <3>2, <3>3
  <2>4. t[n] = [q \in Entries |-> t[n][q]]
    BY <2>1
  <2> HIDE DEF t
  <2> QED
    BY <2>3, <2>4
<1>19. Kin(t)
  <2> HIDE DEF t
  <2> QED
    BY <1>17, <1>18 DEF Kin
<1>20. ToSet(PostOrder(p)) = t[Size][p]
  BY <1>1, <1>14
<1>21. PostOrder(p) \in Seq(Entries)
  BY <1>14
<1> HIDE DEF t
<1> QED
  BY <1>16, <1>19, <1>20, <1>21

\* What is listed is not outside a set that has the children of its members.
LEMMA ListedStaysInside ==
  ASSUME Listed, NEW D \in SUBSET Entries, \A q \in D : Children(q) \subseteq D, NEW p \in D
  PROVE  ToSet(PostOrder(p)) \subseteq D
<1>1. PICK t \in [0..Size -> [Entries -> SUBSET Entries]] :
        Kin(t) /\ ToSet(PostOrder(p)) = t[Size][p]
  BY PostOrderIsKin
<1>2. Size \in Nat
  BY SizeIsNumber
<1> DEFINE K == {n \in Nat : n \in 0..Size => \A q \in D : t[n][q] \subseteq D}
<1>3. 0 \in K
  BY <1>1 DEF Kin
<1>4. ASSUME NEW n \in Nat, n \in K PROVE n + 1 \in K
  <2> SUFFICES ASSUME n + 1 \in 0..Size, NEW q \in D PROVE t[n + 1][q] \subseteq D
    OBVIOUS
  <2> DEFINE m == n + 1
  <2>1. m \in 1..Size /\ m - 1 = n /\ n \in 0..Size
    BY <1>2
  <2>2. \A c \in D : t[n][c] \subseteq D
    BY <1>4, <2>1
  <2> HIDE DEF m
  <2>3. t[m] = [x \in Entries |-> {x} \union UNION {t[m - 1][c] : c \in Children(x)}]
    BY <1>1, <2>1 DEF Kin
  <2>4. t[m][q] = {q} \union UNION {t[m - 1][c] : c \in Children(q)}
    BY <2>3
  <2>5. Children(q) \subseteq D
    OBVIOUS
  <2> QED
    BY <2>1, <2>2, <2>4, <2>5 DEF m
<1>5. Size \in K
  <2> HIDE DEF K
  <2> QED
    BY <1>2, <1>3, <1>4, Induction
<1> QED
  BY <1>1, <1>2, <1>5

\* kill_process_tree gets to every process that iterate_process_tree visits.
LEMMA VisitedIsListed ==
  ASSUME Listed, NEW p \in Entries
  PROVE  Visited(p) \subseteq ToSet(PostOrder(p))
<1>1. PICK t \in [0..Size -> [Entries -> SUBSET Entries]] :
        Kin(t) /\ ToSet(PostOrder(p)) = t[Size][p]
  BY PostOrderIsKin
<1>2. PICK r \in [0..Size -> SUBSET Entries] : Reaches(r, p) /\ Visited(p) = r[Size]
  BY VisitedIsReached
<1>3. Size \in Nat
  BY SizeIsNumber
<1>4. /\ \A q \in Entries : t[0][q] = {q}
      /\ \A n \in 1..Size, q \in Entries : t[n][q] = {q} \union UNION {t[n - 1][c] : c \in Children(q)}
  <2>1. \A q \in Entries : t[0][q] = {q}
    BY <1>1 DEF Kin
  <2>2. ASSUME NEW n \in 1..Size, NEW q \in Entries
        PROVE  t[n][q] = {q} \union UNION {t[n - 1][c] : c \in Children(q)}
    <3>1. t[n] = [x \in Entries |-> {x} \union UNION {t[n - 1][c] : c \in Children(x)}]
      BY <1>1 DEF Kin
    <3> QED
      BY <3>1
  <2> QED
    BY <2>1, <2>2
<1>5. \A q \in Entries : Children(q) \subseteq Entries
  BY ChildrenAreEntries
\* The children of what is n generations below q are n + 1 below it.
<1> DEFINE K == {n \in Nat : n + 1 \in 0..Size =>
                    \A q \in Entries : \A c \in t[n][q] : {c} \union Children(c) \subseteq t[n + 1][q]}
<1>6. 0 \in K
  <2> SUFFICES ASSUME 1 \in 0..Size, NEW q \in Entries PROVE {q} \union Children(q) \subseteq t[1][q]
    BY <1>4
  <2>1. t[1][q] = {q} \union UNION {t[0][c] : c \in Children(q)}
    <3>1. 1 \in 1..Size /\ 1 - 1 = 0
      OBVIOUS
    <3> QED
      BY <1>4, <3>1, SMTT(30)
  <2> QED
    BY <1>4, <1>5, <2>1
<1>7. ASSUME NEW n \in Nat, n \in K PROVE n + 1 \in K
  <2> DEFINE m == n + 1
  <2> DEFINE l == m + 1
  <2> SUFFICES ASSUME l \in 0..Size, NEW q \in Entries, NEW c \in t[m][q]
               PROVE  {c} \union Children(c) \subseteq t[l][q]
    OBVIOUS
  <2>1. m \in 1..Size /\ l \in 1..Size /\ m - 1 = n /\ l - 1 = m /\ m \in 0..Size
    BY <1>3
  <2>2. \A x \in Entries : \A y \in t[n][x] : {y} \union Children(y) \subseteq t[m][x]
    BY <1>7, <2>1
  <2> HIDE DEF m, l
  <2>3. t[m][q] = {q} \union UNION {t[n][x] : x \in Children(q)}
    BY <1>4, <2>1
  <2>4. t[l][q] = {q} \union UNION {t[m][x] : x \in Children(q)}
    BY <1>4, <2>1
  <2>5. CASE c = q
    <3>1. \A x \in Children(q) : x \in t[m][x]
      <4>1. \A x \in Entries : t[m][x] = {x} \union UNION {t[n][y] : y \in Children(x)}
        BY <1>4, <2>1
      <4> QED
        BY <1>5, <4>1
    <3> QED
      BY <2>4, <2>5, <3>1
  <2>6. CASE c # q
    <3>1. PICK x \in Children(q) : c \in t[n][x]
      BY <2>3, <2>6
    <3>2. {c} \union Children(c) \subseteq t[m][x]
      BY <1>5, <2>2, <3>1
    <3> QED
      BY <2>4, <3>1, <3>2
  <2> QED
    BY <2>5, <2>6
<1>8. \A n \in Nat : n \in K
  <2> HIDE DEF K
  <2> QED
    BY <1>6, <1>7, Induction
<1> DEFINE L == {n \in Nat : n \in 0..Size => r[n] \subseteq t[n][p]}
<1>9. 0 \in L
  BY <1>2, <1>4 DEF Reaches
<1>10. ASSUME NEW n \in Nat, n \in L PROVE n + 1 \in L
  <2> DEFINE m == n + 1
  <2> SUFFICES ASSUME m \in 0..Size PROVE r[m] \subseteq t[m][p]
    OBVIOUS
  <2>1. m \in 1..Size /\ m - 1 = n /\ n \in 0..Size
    BY <1>3
  <2>2. \A c \in t[n][p] : {c} \union Children(c) \subseteq t[m][p]
    BY <1>8
  <2>3. r[n] \subseteq t[n][p]
    BY <1>10, <2>1
  <2> HIDE DEF m
  <2>4. r[m] = r[n] \union UNION {Children(q) : q \in r[n] \ {_pt_idle_proc_pid}}
    BY <1>2, <2>1 DEF Reaches
  <2> QED
    BY <2>2, <2>3, <2>4
<1>11. Size \in L
  <2> HIDE DEF L
  <2> QED
    BY <1>3, <1>9, <1>10, Induction
<1> QED
  BY <1>1, <1>2, <1>3, <1>11

Closed(S) == \A q \in S \ {_pt_idle_proc_pid} : Children(q) \subseteq S

\* The walk is over when it stops: in as many steps as there are entries nothing
\* more is found, or an entry was found in each of them.
LEMMA VisitedIsClosed ==
  ASSUME Listed, NEW p \in Entries
  PROVE  Visited(p) \subseteq Entries /\ p \in Visited(p) /\ Closed(Visited(p))
<1>1. PICK r \in [0..Size -> SUBSET Entries] : Reaches(r, p) /\ Visited(p) = r[Size]
  BY VisitedIsReached
<1>2. Size \in Nat
  BY SizeIsNumber
<1>3. \A S \in SUBSET Entries : IsFiniteSet(S) /\ Cardinality(S) \in Nat /\ Cardinality(S) <= Size
  BY FS_Subset, FS_CardinalityType DEF Listed, Size
<1> DEFINE K == {n \in Nat : n \in 0..Size =>
                    p \in r[n] /\ (Closed(r[n]) \/ Cardinality(r[n]) >= n + 1)}
<1>4. 0 \in K
  <2>1. r[0] = {p} /\ Cardinality({p}) = 1
    BY <1>1, FS_Singleton DEF Reaches
  <2> QED
    BY <2>1
<1>5. ASSUME NEW n \in Nat, n \in K PROVE n + 1 \in K
  <2> DEFINE m == n + 1
  <2> SUFFICES ASSUME m \in 0..Size
               PROVE  p \in r[m] /\ (Closed(r[m]) \/ Cardinality(r[m]) >= m + 1)
    OBVIOUS
  <2>1. m \in 1..Size /\ m - 1 = n /\ n \in 0..Size /\ m \in Nat
    BY <1>2
  <2>2. p \in r[n] /\ (Closed(r[n]) \/ Cardinality(r[n]) >= n + 1)
    BY <1>5, <2>1
  <2> HIDE DEF m
  <2>3. r[m] = r[n] \union UNION {Children(q) : q \in r[n] \ {_pt_idle_proc_pid}}
    BY <1>1, <2>1 DEF Reaches
  <2>4. CASE Closed(r[n])
    <3>1. r[m] = r[n]
      BY <2>3, <2>4 DEF Closed
    <3> QED
      BY <2>2, <2>4, <3>1
  <2>5. CASE ~Closed(r[n])
    <3>1. r[n] \subseteq r[m] /\ r[n] # r[m]
      BY <2>3, <2>5 DEF Closed
    <3>2. r[n] \in SUBSET Entries /\ r[m] \in SUBSET Entries
      BY <2>1
    <3>3. Cardinality(r[n]) <= Cardinality(r[m]) /\ Cardinality(r[n]) # Cardinality(r[m])
      <4>1. IsFiniteSet(r[m])
        BY <1>3, <3>2
      <4> QED
        BY <3>1, <4>1, FS_Subset
    <3>4. Cardinality(r[n]) \in Nat /\ Cardinality(r[m]) \in Nat
      BY <1>3, <3>2
    <3>5. Cardinality(r[n]) >= n + 1
      BY <2>2, <2>5
    <3>6. Cardinality(r[m]) >= m + 1
      BY <2>1, <3>3, <3>4, <3>5
    <3> QED
      BY <2>2, <2>3, <3>6
  <2> QED
    BY <2>4, <2>5
<1>6. Size \in K
  <2> HIDE DEF K
  <2> QED
    BY <1>2, <1>4, <1>5, Induction
<1>7. r[Size] \in SUBSET Entries /\ Cardinality(r[Size]) <= Size /\ Cardinality(r[Size]) \in Nat
  BY <1>2, <1>3
<1> QED
  BY <1>1, <1>2, <1>6, <1>7

\* What is visited below p was reached from another visited entry.
LEMMA VisitedBelow ==
  ASSUME Listed, NEW p \in Entries, NEW D,
         p \in D, \A q \in D \ {_pt_idle_proc_pid} : Children(q) \subseteq D
  PROVE  Visited(p) \subseteq D
<1>1. PICK r \in [0..Size -> SUBSET Entries] : Reaches(r, p) /\ Visited(p) = r[Size]
  BY VisitedIsReached
<1>2. Size \in Nat
  BY SizeIsNumber
<1> DEFINE K == {n \in Nat : n \in 0..Size => r[n] \subseteq D}
<1>3. 0 \in K
  BY <1>1 DEF Reaches
<1>4. ASSUME NEW n \in Nat, n \in K PROVE n + 1 \in K
  <2> DEFINE m == n + 1
  <2> SUFFICES ASSUME m \in 0..Size PROVE r[m] \subseteq D
    OBVIOUS
  <2>1. m \in 1..Size /\ m - 1 = n /\ n \in 0..Size
    BY <1>2
  <2>2. r[n] \subseteq D
    BY <1>4, <2>1
  <2> HIDE DEF m
  <2>3. r[m] = r[n] \union UNION {Children(q) : q \in r[n] \ {_pt_idle_proc_pid}}
    BY <1>1, <2>1 DEF Reaches
  <2> QED
    BY <2>2, <2>3
<1>5. Size \in K
  <2> HIDE DEF K
  <2> QED
    BY <1>2, <1>3, <1>4, Induction
<1> QED
  BY <1>1, <1>2, <1>5
-----------------------------------------------------------------------------
(* The invariant *)

\* Who was started: pids of processes, with a parent that has another pid.
Births ==
  /\ born \in Seq([pid : UserPid, ppid : UserPid \union {_pt_system_proc_pid}, parent : Nat])
  /\ Len(born) <= MaxBirths
  /\ \A i \in DOMAIN born :
       /\ born[i].ppid # born[i].pid
       /\ born[i].parent # 0 => /\ born[i].parent \in 1..i - 1
                                /\ born[born[i].parent].pid = born[i].ppid

\* The process that has a pid is the parent of the younger ones that name the pid.
Alive ==
  /\ alive \in [UserPid -> 0..Len(born)]
  /\ \A p \in UserPid : alive[p] # 0 =>
       /\ born[alive[p]].pid = p
       /\ \A j \in DOMAIN born : born[j].ppid = p /\ j > alive[p] => born[j].parent = alive[p]

\* In the snapshot the process with pid p was process i.
Seen(p, i) == \/ p \in Entries \intersect UserPid /\ map[p].who = i
              \/ \E e \in pending : e.pid = p /\ e.who = i

\* The same holds of the processes of a snapshot, dead or alive.
Snapshots ==
  /\ \A p \in UserPid : \A i : Seen(p, i) => i \in DOMAIN born /\ born[i].pid = p
  /\ \A p, c \in UserPid : \A i, j \in DOMAIN born :
       Seen(p, i) /\ Seen(c, j) /\ born[j].ppid = p /\ j > i => born[j].parent = i

\* They are older than it, and only younger processes take over their pids.
Later == \A p \in UserPid : \A i : Seen(p, i) =>
           TimeOf(i) < now /\ (alive[p] \in {0, i} \/ TimeOf(alive[p]) > now)

Entry == [ppid : Nat, time : Nat, who : Nat]

\* The time of an entry is the assumed one, that of its process or that of one
\* that has taken over the pid.
Times ==
  /\ now \in Nat /\ now <= 2 * Len(born) + 1
  /\ now = 0 \/ \E k \in Nat : now = 2 * k + 1
  /\ Entries \subseteq UserPid \union SystemPid
  /\ \A p \in Entries : map[p] \in Entry
  /\ \A p \in Entries \intersect UserPid :
       /\ map[p].ppid = born[map[p].who].ppid
       /\ \/ map[p].time = now
          \/ \E i \in DOMAIN born : /\ map[p].time = TimeOf(i) /\ born[i].pid = p
                                    /\ (i = map[p].who \/ TimeOf(i) > now)
  /\ \A p \in Entries \intersect SystemPid : map[p].ppid = 0 /\ map[p].time = now

Pending ==
  /\ pending \subseteq [pid : UserPid, who : Nat, ppid : Nat]
  /\ \A e \in pending : e.pid \notin Entries /\ e.ppid = born[e.who].ppid
  /\ \A d, e \in pending : d.pid = e.pid => d = e
  /\ op # "build" => pending = {}

Killing ==
  /\ killed \subseteq Entries \intersect UserPid
  /\ op \in {"none", "build", "kill_process", "kill_by_name", "kill_process_tree"}
  /\ op \in {"none", "build"} => todo = <<>>
  /\ todo \in Seq(UserPid) /\ ToSet(todo) \subseteq Entries

\* What is marked as killed is not the process of the snapshot.
Dead == \A p \in killed : alive[p] # map[p].who

\* D has all relatives of its members.
Family(D) == D \subseteq Entries /\ root \in D /\ \A q \in D : Children(q) \subseteq D

\* What a tree kill has ended and is going to end is inside every family of the root.
Inside == \A D \in SUBSET Entries : Family(D) =>
            ToSet(todo) \subseteq D /\ \A v \in victims : v.pid \in D

\* A process that it has left behind is not the one of the snapshot.
Over(p) == \/ p \in ToSet(todo) \/ failed \/ alive[p] # map[p].who
           \/ todo = <<>> /\ victims = {}

\* It leaves nobody of some family behind.
Covered == \E D \in SUBSET (Entries \intersect UserPid) : Family(D) /\ \A p \in D : Over(p)

\* It has ended processes of the snapshot and those that took over their pids.
Ended == \A v \in victims : /\ v.pid \in Entries \intersect UserPid
                            /\ (v.who = map[v.pid].who \/ TimeOf(v.who) > now)

TreeKill == op = "kill_process_tree" => Inside /\ Covered /\ Ended

IInv == /\ Births /\ Alive /\ Snapshots /\ Later /\ Times /\ Pending
        /\ Killing /\ Dead /\ TreeKill

LEMMA Appended ==
  ASSUME NEW X, NEW s \in Seq(X), NEW x \in X
  PROVE  /\ Append(s, x) \in Seq(X) /\ Len(Append(s, x)) = Len(s) + 1 /\ Len(s) \in Nat
         /\ DOMAIN s = 1..Len(s) /\ DOMAIN Append(s, x) = 1..Len(s) + 1
         /\ Append(s, x)[Len(s) + 1] = x /\ \A i \in DOMAIN s : Append(s, x)[i] = s[i]
  OBVIOUS

LEMMA BornAre ==
  ASSUME Births, NEW i \in 1..Len(born)
  PROVE  born[i].pid \in UserPid /\ born[i].ppid \in UserPid \union {_pt_system_proc_pid}
<1> DEFINE Process == [pid : UserPid, ppid : UserPid \union {_pt_system_proc_pid}, parent : Nat]
<1>1. born \in Seq(Process)
  BY DEF Births
<1>2. born[i] \in Process
  <2> HIDE DEF Process
  <2> QED
    BY <1>1
<1> QED
  BY <1>2

LEMMA UserPids == /\ UserPid \subseteq Nat /\ 0 \notin UserPid /\ 4 \notin UserPid
                  /\ SystemPid \intersect UserPid = {}
                  /\ _pt_idle_proc_pid = 0 /\ _pt_system_proc_pid = 4 /\ SystemPid = {0, 4}
  BY PidAssumption DEF SystemPid, _pt_idle_proc_pid, _pt_system_proc_pid

LEMMA TimesAreListed == Times => Listed
<1>1. IsFiniteSet(UserPid \union SystemPid) /\ UserPid \union SystemPid \subseteq Nat
  <2>1. IsFiniteSet(UserPid \union {0})
    BY PidAssumption, FS_AddElement
  <2>2. IsFiniteSet((UserPid \union {0}) \union {4})
    BY <2>1, FS_AddElement
  <2>3. UserPid \union SystemPid = (UserPid \union {0}) \union {4}
    BY UserPids
  <2> QED
    BY <2>2, <2>3, UserPids
<1> QED
  BY <1>1, FS_Subset DEF Times, Listed

\* The entries of the system are nobody's children but those of pid 0.
LEMMA ChildrenAreUsers ==
  ASSUME Times, NEW q \in Entries, q # 0
  PROVE  /\ Children(q) \subseteq Entries \intersect UserPid
         /\ \A c \in Children(q) : map[c].ppid = q /\ ~HasNoParent(c)
<1>1. ASSUME NEW c \in Children(q)
      PROVE  c \in Entries \intersect UserPid /\ map[c].ppid = q /\ ~HasNoParent(c)
  <2>1. c \in Entries /\ map[c].ppid = q /\ map[c].time >= map[q].time
    BY DEF Children, IsChild, Entries
  <2>2. c \in UserPid
    BY <2>1 DEF Times
  <2>3. map[c].time \in Nat /\ map[q].time \in Nat
    BY <2>1 DEF Times, Entry
  <2>4. c \notin SystemPid
    BY <2>2, UserPids
  <2> QED
    BY <2>1, <2>2, <2>3, <2>4 DEF HasNoParent, Entries
<1> QED
  BY <1>1

LEMMA UsersAreAFamily ==
  ASSUME Times, NEW q \in Entries \intersect UserPid
  PROVE  Children(q) \subseteq Entries \intersect UserPid
BY UserPids, ChildrenAreUsers

\* A kill of the tree lists a family, and nothing outside any other one.
LEMMA FamilyIsListed ==
  ASSUME Times, NEW p \in Entries \intersect UserPid
  PROVE  /\ PostOrder(p) \in Seq(UserPid)
         /\ \A D \in SUBSET Entries :
              p \in D /\ (\A q \in D : Children(q) \subseteq D) => ToSet(PostOrder(p)) \subseteq D
         /\ Visited(p) \in SUBSET (Entries \intersect UserPid) /\ p \in Visited(p)
         /\ \A q \in Visited(p) : Children(q) \subseteq Visited(p)
         /\ Visited(p) \subseteq ToSet(PostOrder(p))
<1>0. Listed
  BY TimesAreListed
<1> DEFINE s == PostOrder(p)
<1> DEFINE U == Entries \intersect UserPid
<1> DEFINE V == Visited(p)
<1>1. s \in Seq(Entries)
  BY <1>0, PostOrderIsKin
<1>2. ToSet(s) \subseteq U
  <2>1. U \in SUBSET Entries /\ p \in U
    OBVIOUS
  <2>2. \A q \in U : Children(q) \subseteq U
    BY UsersAreAFamily
  <2> HIDE DEF U, s
  <2> QED
    BY <1>0, <2>1, <2>2, ListedStaysInside DEF s
<1>3. s \in Seq(UserPid)
  <2> HIDE DEF s
  <2> QED
    BY <1>1, <1>2, ListOfFew
<1>4. \A D \in SUBSET Entries :
        p \in D /\ (\A q \in D : Children(q) \subseteq D) => ToSet(s) \subseteq D
  BY <1>0, ListedStaysInside
<1>5. V \subseteq ToSet(s)
  BY <1>0, VisitedIsListed
<1>6. V \subseteq Entries /\ p \in V /\ Closed(V)
  BY <1>0, VisitedIsClosed
<1>7. \A q \in V : Children(q) \subseteq V
  <2> HIDE DEF V
  <2> QED
    BY <1>2, <1>5, <1>6, UserPids DEF Closed
<1> QED
  BY <1>2, <1>3, <1>4, <1>5, <1>6, <1>7

-----------------------------------------------------------------------------
(* What a step leaves as it is *)

LEMMA FamilyStays ==
  ASSUME map' = map, root' = root
  PROVE  \A D : Family(D)' <=> Family(D)
<1>1. \A q : Children(q)' = Children(q)
  BY DEF Children, IsChild
<1>2. Entries' = Entries
  BY DEF Entries
<1> QED
  BY <1>1, <1>2 DEF Family

\* As long as the map and the kill stay, no dead process comes back.
LEMMA KillStays ==
  ASSUME TreeKill, UNCHANGED <<map, now, kill>>,
         \A p \in Entries \intersect UserPid : alive[p] # map[p].who => alive'[p] # map[p].who
  PROVE  TreeKill'
<1>1. Entries' = Entries /\ map' = map /\ op' = op /\ root' = root /\ todo' = todo
      /\ failed' = failed /\ victims' = victims
  BY DEF Entries, kill
<1>2. \A D : Family(D)' <=> Family(D)
  BY <1>1, FamilyStays
<1> SUFFICES ASSUME op = "kill_process_tree" PROVE Inside' /\ Covered' /\ Ended'
  BY <1>1 DEF TreeKill
<1>3. Inside'
  BY <1>1, <1>2 DEF TreeKill, Inside
<1>4. Covered'
  <2>1. PICK D \in SUBSET (Entries \intersect UserPid) : Family(D) /\ \A p \in D : Over(p)
    BY DEF TreeKill, Covered
  <2>2. \A p \in D : Over(p)'
    <3> SUFFICES ASSUME NEW p \in D PROVE Over(p)'
      OBVIOUS
    <3>1. Over(p) /\ p \in Entries \intersect UserPid
      BY <2>1
    <3> QED
      BY <1>1, <3>1 DEF Over
  <2> QED
    BY <1>1, <1>2, <2>1, <2>2 DEF Covered
<1>5. Ended'
  BY <1>1 DEF TreeKill, Ended, TimeOf
<1> QED
  BY <1>3, <1>4, <1>5

\* While nothing is started, no dead process comes back.
LEMMA DeadStay ==
  ASSUME IInv, UNCHANGED <<map, pending, now>>,
         \A p \in UserPid : alive'[p] \in {alive[p], 0}
  PROVE  /\ Later'
         /\ \A p \in Entries \intersect UserPid : alive[p] # map[p].who => alive'[p] # map[p].who
<1>1. \A p, i : Seen(p, i)' <=> Seen(p, i)
  BY DEF Seen, Entries
<1>2. Later'
  BY <1>1 DEF IInv, Later, TimeOf
<1>3. ASSUME NEW p \in Entries \intersect UserPid PROVE map[p].who # 0
  <2>1. map[p].who \in DOMAIN born
    BY DEF IInv, Snapshots, Seen
  <2>2. DOMAIN born = 1..Len(born)
    BY DEF IInv, Births
  <2> QED
    BY <2>1, <2>2
<1> QED
  BY <1>2, <1>3

LEMMA SnapshotsStay ==
  ASSUME Snapshots, UNCHANGED <<born, map, pending>>
  PROVE  Snapshots'
<1>1. \A p, i : Seen(p, i)' <=> Seen(p, i)
  BY DEF Seen, Entries
<1>2. born' = born
  OBVIOUS
<1> QED
  BY <1>1, <1>2 DEF Snapshots

LEMMA TimesStay == ASSUME Times, UNCHANGED <<born, map, now>> PROVE Times'
  BY DEF Times, Entries, TimeOf, Entry

\* A process that ends, by itself or killed.
LEMMA EndKeepsAlive ==
  ASSUME Births, Alive, UNCHANGED born, NEW p \in UserPid, alive' = [alive EXCEPT ![p] = 0]
  PROVE  Births' /\ Alive'
<1>1. Births'
  BY DEF Births
<1>2. Len(born) \in Nat /\ Len(born') = Len(born) /\ born' = born
  BY DEF Births
<1>3. alive' \in [UserPid -> 0..Len(born)]
  BY <1>2 DEF Alive
<1>4. \A q \in UserPid : alive'[q] # 0 => alive'[q] = alive[q]
  BY DEF Alive
<1>5. Alive'
  BY <1>2, <1>3, <1>4 DEF Alive
<1> QED
  BY <1>1, <1>5
-----------------------------------------------------------------------------
(* The system *)

LEMMA StartKeeps == ASSUME IInv, NEW p \in UserPid, Start(p) PROVE IInv'
<1> DEFINE n == Len(born)
<1> DEFINE New(q) == [pid |-> p, ppid |-> q,
                      parent |-> IF q \in UserPid THEN alive[q] ELSE 0]
<1> DEFINE Process == [pid : UserPid, ppid : UserPid \union {_pt_system_proc_pid}, parent : Nat]
<1>1. /\ alive[p] = 0 /\ n < MaxBirths /\ alive' = [alive EXCEPT ![p] = n + 1]
      /\ UNCHANGED <<map, pending, now, killed, op, root, todo, failed, victims>>
  BY DEF Start, tree, kill
<1>2. PICK q \in UserPid \union {_pt_system_proc_pid} :
        (q \in UserPid => alive[q] # 0) /\ born' = Append(born, New(q))
  BY DEF Start
<1>3. alive \in [UserPid -> 0..n] /\ born \in Seq(Process) /\ n \in Nat
  BY DEF IInv, Births, Alive
<1>4. New(q) \in Process
  BY <1>3
<1>5. /\ born' \in Seq(Process) /\ Len(born') = n + 1
      /\ DOMAIN born = 1..n /\ DOMAIN born' = 1..n + 1
      /\ born'[n + 1] = New(q) /\ \A i \in 1..n : born'[i] = born[i]
  <2> DEFINE x == New(q)
  <2>1. x \in Process /\ born' = Append(born, x)
    BY <1>2, <1>4
  <2> HIDE DEF x, Process
  <2>2. /\ Append(born, x) \in Seq(Process) /\ Len(Append(born, x)) = Len(born) + 1
        /\ DOMAIN born = 1..Len(born) /\ DOMAIN Append(born, x) = 1..Len(born) + 1
        /\ Append(born, x)[Len(born) + 1] = x
        /\ \A i \in DOMAIN born : Append(born, x)[i] = born[i]
    BY <1>3, <2>1, Appended
  <2> QED
    BY <2>1, <2>2 DEF x
<1>6. q # p /\ New(q).pid = p /\ New(q).ppid = q /\ (q \in UserPid => New(q).parent = alive[q])
  BY <1>1, <1>2, UserPids
<1> DEFINE new == New(q)
<1> HIDE DEF New
<1>7. \A i \in DOMAIN born' : i \in DOMAIN born \/ i = n + 1
  BY <1>3, <1>5
<1>8. Births'
  <2>1. Len(born') <= MaxBirths
    BY <1>1, <1>3, <1>5, PidAssumption
  <2>2. ASSUME NEW i \in DOMAIN born'
        PROVE  /\ born'[i].ppid # born'[i].pid
               /\ born'[i].parent # 0 =>
                    /\ born'[i].parent \in 1..i - 1
                    /\ born'[born'[i].parent].pid = born'[i].ppid
    <3>1. CASE i \in DOMAIN born
      <4>1. born'[i] = born[i] /\ i \in 1..n
        BY <1>5, <3>1
      <4>2. /\ born[i].ppid # born[i].pid
            /\ born[i].parent # 0 =>
                 born[i].parent \in 1..i - 1 /\ born[born[i].parent].pid = born[i].ppid
        BY <3>1 DEF IInv, Births
      <4>3. born[i].parent # 0 => born'[born[i].parent] = born[born[i].parent]
        <5>1. \A k \in 1..i - 1 : k \in 1..n
          BY <1>3, <4>1
        <5> QED
          BY <1>5, <4>2, <5>1
      <4> QED
        BY <4>1, <4>2, <4>3
    <3>2. CASE i = n + 1
      <4>1. born'[i] = new
        BY <1>5, <3>2
      <4>2. CASE q \in UserPid
        <5>1. new.parent = alive[q] /\ alive[q] \in 1..n
          BY <1>2, <1>3, <1>6, <4>2
        <5>2. born[alive[q]].pid = q /\ born'[alive[q]] = born[alive[q]]
          BY <1>2, <1>5, <4>2, <5>1 DEF IInv, Alive
        <5>3. i - 1 = n
          BY <1>3, <3>2
        <5> QED
          BY <1>6, <4>1, <5>1, <5>2, <5>3
      <4>3. CASE q \notin UserPid
        <5>1. new.parent = 0
          BY <4>3 DEF New
        <5> QED
          BY <1>6, <4>1, <5>1
      <4> QED
        BY <4>2, <4>3
    <3> QED
      BY <1>7, <3>1, <3>2
  <2> QED
    BY <1>5, <2>1, <2>2 DEF Births
<1>9. Alive'
  <2>1. alive' \in [UserPid -> 0..Len(born')]
    BY <1>1, <1>3, <1>5
  <2>2. ASSUME NEW x \in UserPid, alive'[x] # 0
        PROVE  /\ born'[alive'[x]].pid = x
               /\ \A j \in DOMAIN born' : born'[j].ppid = x /\ j > alive'[x]
                                            => born'[j].parent = alive'[x]
    <3>1. CASE x = p
      <4>1. alive'[x] = n + 1
        BY <1>1, <1>3, <3>1
      <4>2. \A j \in DOMAIN born' : ~(j > n + 1)
        BY <1>3, <1>5
      <4> QED
        BY <1>5, <1>6, <3>1, <4>1, <4>2
    <3>2. CASE x # p
      <4>1. alive'[x] = alive[x] /\ alive[x] \in 1..n
        BY <1>1, <1>3, <2>2, <3>2
      <4>2. born[alive[x]].pid = x
        BY <2>2, <4>1 DEF IInv, Alive
      <4>3. ASSUME NEW j \in DOMAIN born', born'[j].ppid = x, j > alive[x]
            PROVE  born'[j].parent = alive[x]
        <5>1. CASE j \in DOMAIN born
          BY <1>5, <2>2, <4>1, <4>3, <5>1 DEF IInv, Alive
        <5>2. CASE j = n + 1
          BY <1>5, <1>6, <4>3, <5>2
        <5> QED
          BY <1>7, <5>1, <5>2
      <4> QED
        BY <1>5, <4>1, <4>2, <4>3
    <3> QED
      BY <3>1, <3>2
  <2> QED
    BY <2>1, <2>2 DEF Alive
<1>10. Snapshots'
  <2>1. \A x, i : Seen(x, i)' <=> Seen(x, i)
    BY <1>1 DEF Seen, Entries
  <2>2. \A x \in UserPid : \A i : Seen(x, i) => i \in DOMAIN born /\ born[i].pid = x
    BY DEF IInv, Snapshots
  <2>3. \A i \in DOMAIN born : i \in DOMAIN born' /\ born'[i] = born[i]
    BY <1>3, <1>5
  <2>4. \A x, c \in UserPid : \A i, j \in DOMAIN born :
          Seen(x, i) /\ Seen(c, j) /\ born[j].ppid = x /\ j > i => born[j].parent = i
    BY DEF IInv, Snapshots
  <2>5. \A x \in UserPid : \A i : Seen(x, i)' => i \in DOMAIN born' /\ born'[i].pid = x
    BY <2>1, <2>2, <2>3
  <2>6. \A x, c \in UserPid : \A i, j \in DOMAIN born' :
          Seen(x, i)' /\ Seen(c, j)' /\ born'[j].ppid = x /\ j > i => born'[j].parent = i
    BY <2>1, <2>2, <2>3, <2>4
  <2> QED
    BY <2>5, <2>6 DEF Snapshots
<1>11. \A x \in Entries \intersect UserPid : map[x].who \in DOMAIN born
  BY DEF IInv, Snapshots, Seen
<1>12. Times'
  <2>1. Entries' = Entries /\ map' = map /\ now' = now
    BY <1>1 DEF Entries
  <2>2. now' \in Nat /\ now' <= 2 * Len(born') + 1 /\ (now' = 0 \/ \E k \in Nat : now' = 2 * k + 1)
    BY <1>3, <1>5, <2>1 DEF IInv, Times
  <2>3. ASSUME NEW x \in Entries \intersect UserPid
        PROVE  /\ map[x].ppid = born'[map[x].who].ppid
               /\ \/ map[x].time = now
                  \/ \E i \in DOMAIN born' : /\ map[x].time = TimeOf(i) /\ born'[i].pid = x
                                             /\ (i = map[x].who \/ TimeOf(i) > now)
    <3>1. map[x].ppid = born[map[x].who].ppid
      BY DEF IInv, Times
    <3>2. born'[map[x].who] = born[map[x].who]
      BY <1>5, <1>11
    <3>3. \/ map[x].time = now
          \/ \E i \in DOMAIN born : /\ map[x].time = TimeOf(i) /\ born[i].pid = x
                                    /\ (i = map[x].who \/ TimeOf(i) > now)
      BY DEF IInv, Times
    <3>4. \A i \in DOMAIN born : i \in DOMAIN born' /\ born'[i] = born[i]
      BY <1>3, <1>5
    <3> QED
      BY <3>1, <3>2, <3>3, <3>4
  <2>4. /\ Entries \subseteq UserPid \union SystemPid
        /\ \A x \in Entries : map[x] \in Entry
        /\ \A x \in Entries \intersect SystemPid : map[x].ppid = 0 /\ map[x].time = now
    BY DEF IInv, Times
  <2> QED
    BY <2>1, <2>2, <2>3, <2>4 DEF Times, Entry, TimeOf
<1>13. Pending'
  <2>1. \A e \in pending : e.who \in DOMAIN born
    <3> SUFFICES ASSUME NEW e \in pending PROVE e.who \in DOMAIN born
      OBVIOUS
    <3>1. e.pid \in UserPid /\ Seen(e.pid, e.who)
      BY DEF IInv, Pending, Seen
    <3> QED
      BY <3>1 DEF IInv, Snapshots
  <2>2. \A e \in pending : born'[e.who] = born[e.who]
    BY <1>5, <2>1
  <2> QED
    BY <1>1, <2>2 DEF IInv, Pending, Entries
<1>14. Later'
  <2>1. TimeOf(n + 1) > now
    BY <1>3 DEF IInv, Times, TimeOf
  <2>2. \A x \in UserPid : alive'[x] \in {alive[x], n + 1}
    BY <1>1, <1>3
  <2>3. \A x, i : Seen(x, i)' <=> Seen(x, i)
    BY <1>1 DEF Seen, Entries
  <2> QED
    BY <1>1, <2>1, <2>2, <2>3 DEF IInv, Later, TimeOf
<1>15. Killing'
  BY <1>1 DEF IInv, Killing, Entries
<1>16. Dead' /\ TreeKill'
  <2>1. ASSUME NEW x \in Entries \intersect UserPid, alive[x] # map[x].who
        PROVE  alive'[x] # map[x].who
    <3>1. map[x].who \in 1..n
      BY <1>5, <1>11
    <3> QED
      BY <1>1, <1>3, <2>1, <3>1
  <2>2. TreeKill'
    BY <1>1, <2>1, KillStays DEF IInv, kill
  <2>3. Dead'
    BY <1>1, <2>1 DEF IInv, Dead, Killing
  <2> QED
    BY <2>2, <2>3
<1> QED
  BY <1>8, <1>9, <1>10, <1>12, <1>13, <1>14, <1>15, <1>16 DEF IInv

LEMMA ExitKeeps == ASSUME IInv, NEW p \in UserPid, Exit(p) PROVE IInv'
<1>1. /\ alive[p] # 0 /\ alive' = [alive EXCEPT ![p] = 0]
      /\ UNCHANGED <<born, map, pending, now, killed, op, root, todo, failed, victims>>
  BY DEF Exit, tree, kill
<1>2. Births' /\ Alive'
  BY <1>1, EndKeepsAlive DEF IInv
<1>3. Snapshots' /\ Times'
  BY <1>1, SnapshotsStay, TimesStay DEF IInv
<1>4. Pending' /\ Killing'
  BY <1>1 DEF IInv, Pending, Killing, Entries
<1>5. alive \in [UserPid -> 0..Len(born)]
  BY DEF IInv, Alive
<1>6. \A x \in UserPid : alive'[x] \in {alive[x], 0}
  BY <1>1, <1>5
<1>7. /\ Later'
      /\ \A x \in Entries \intersect UserPid : alive[x] # map[x].who => alive'[x] # map[x].who
  BY <1>1, <1>6, DeadStay
<1>8. Dead'
  BY <1>1, <1>7 DEF IInv, Dead, Killing
<1>9. TreeKill'
  BY <1>1, <1>7, KillStays DEF IInv, kill
<1> QED
  BY <1>2, <1>3, <1>4, <1>7, <1>8, <1>9 DEF IInv
-----------------------------------------------------------------------------
(* build_process_tree *)

LEMMA SnapshotKeeps == ASSUME IInv, Snapshot PROVE IInv'
<1>1. /\ op = "none" /\ op' = "build" /\ now' = 2 * Len(born) + 1 /\ map' = SystemEntries
      /\ pending' = Running /\ killed' = {}
      /\ UNCHANGED <<born, alive, root, todo, failed, victims>>
  BY DEF Snapshot, system, Now
<1>2. Entries' = SystemPid /\ \A p \in SystemPid : map'[p] = [ppid |-> 0, time |-> now', who |-> 0]
  BY <1>1 DEF Entries, SystemEntries
<1>3. Len(born) \in Nat /\ DOMAIN born = 1..Len(born) /\ alive \in [UserPid -> 0..Len(born)]
  BY DEF IInv, Births, Alive
<1>4. ASSUME NEW e \in pending'
      PROVE  /\ e.pid \in UserPid /\ e.who = alive[e.pid] /\ e.who \in DOMAIN born
             /\ e.ppid = born[e.who].ppid
             /\ e = [pid |-> e.pid, who |-> alive[e.pid], ppid |-> born[alive[e.pid]].ppid]
  <2>1. PICK p \in UserPid : alive[p] # 0
          /\ e = [pid |-> p, who |-> alive[p], ppid |-> born[alive[p]].ppid]
    BY <1>1 DEF Running
  <2> QED
    BY <1>3, <2>1
<1>5. ASSUME NEW p, NEW i, Seen(p, i)' PROVE p \in UserPid /\ i = alive[p] /\ i \in DOMAIN born
  <2>1. \E e \in pending' : e.pid = p /\ e.who = i
    BY <1>2, <1>5, UserPids DEF Seen
  <2> QED
    BY <1>4, <2>1
<1>6. Births' /\ Alive'
  BY <1>1 DEF IInv, Births, Alive
<1>7. Snapshots'
  <2>1. \A p \in UserPid : alive[p] \in DOMAIN born =>
          /\ born[alive[p]].pid = p
          /\ \A j \in DOMAIN born : born[j].ppid = p /\ j > alive[p] => born[j].parent = alive[p]
    BY <1>3 DEF IInv, Alive
  <2>2. born' = born
    BY <1>1
  <2>3. \A p \in UserPid : \A i : Seen(p, i)' => i \in DOMAIN born' /\ born'[i].pid = p
    BY <1>5, <2>1, <2>2
  <2>4. \A p, c \in UserPid : \A i, j \in DOMAIN born' :
          Seen(p, i)' /\ Seen(c, j)' /\ born'[j].ppid = p /\ j > i => born'[j].parent = i
    BY <1>5, <2>1, <2>2
  <2> QED
    BY <2>3, <2>4 DEF Snapshots
<1>8. Times'
  <2>1. now' \in Nat /\ now' <= 2 * Len(born') + 1 /\ \E k \in Nat : now' = 2 * k + 1
    BY <1>1, <1>3
  <2>2. \A p \in SystemPid : map'[p] \in Entry /\ map'[p].ppid = 0 /\ map'[p].time = now'
    BY <1>2, <2>1 DEF Entry
  <2>3. Entries' \intersect UserPid = {}
    BY <1>2, UserPids
  <2> QED
    BY <1>2, <2>1, <2>2, <2>3 DEF Times, Entry
<1>9. Pending'
  <2>1. \A e \in pending' : e \in [pid : UserPid, who : Nat, ppid : Nat]
    <3> SUFFICES ASSUME NEW e \in pending'
                 PROVE  e \in [pid : UserPid, who : Nat, ppid : Nat]
      OBVIOUS
    <3>1. alive[e.pid] \in Nat /\ born[alive[e.pid]].ppid \in Nat
      <4>1. alive[e.pid] \in DOMAIN born
        BY <1>4
      <4>2. born[alive[e.pid]].ppid \in UserPid \union {_pt_system_proc_pid}
        <5> DEFINE i == alive[e.pid]
        <5>1. i \in 1..Len(born)
          BY <1>3, <4>1
        <5> HIDE DEF i
        <5> QED
          BY <5>1, BornAre DEF IInv, i
      <4>3. alive[e.pid] \in Nat
        BY <1>3, <4>1
      <4>4. UserPid \union {_pt_system_proc_pid} \subseteq Nat
        BY UserPids
      <4> QED
        BY <4>2, <4>3, <4>4
    <3> QED
      BY <1>4, <3>1
  <2>2. \A e \in pending' : e.pid \notin Entries' /\ e.ppid = born'[e.who].ppid
    BY <1>1, <1>2, <1>4, UserPids
  <2>3. \A d, e \in pending' : d.pid = e.pid => d = e
    BY <1>4
  <2> QED
    BY <1>1, <2>1, <2>2, <2>3 DEF Pending
<1>10. Later'
  <2>1. \A p \in UserPid : \A i : Seen(p, i)' => i = alive[p] /\ i \in 1..Len(born)
    BY <1>3, <1>5
  <2>2. \A i \in 1..Len(born) : TimeOf(i) < now'
    BY <1>1, <1>3 DEF TimeOf
  <2> QED
    BY <1>1, <2>1, <2>2 DEF Later, TimeOf
<1>11. Killing' /\ Dead' /\ TreeKill'
  BY <1>1 DEF IInv, Killing, Dead, TreeKill, ToSet
<1> QED
  BY <1>6, <1>7, <1>8, <1>9, <1>10, <1>11 DEF IInv

\* The map is lost: the snapshot could not be taken, or a walk has ended the program.
LEMMA MapLostKeeps == ASSUME IInv, SnapshotFails \/ Overflow PROVE IInv'
<1>1. /\ op = "none" /\ DOMAIN map' = {} /\ killed' = {} /\ pending = {}
      /\ UNCHANGED <<born, alive, pending, now, op, root, todo, failed, victims>>
  BY DEF SnapshotFails, Overflow, system, kill, NoEntries, IInv, Pending
<1>2. Entries' = {} /\ Entries' = DOMAIN map'
  BY <1>1 DEF Entries
<1>3. Births' /\ Alive'
  BY <1>1 DEF IInv, Births, Alive
<1>4. Snapshots' /\ Later'
  <2>1. \A p, i : ~Seen(p, i)'
    BY <1>1, <1>2 DEF Seen
  <2> QED
    BY <2>1 DEF Snapshots, Later
<1>5. Times'
  BY <1>1, <1>2 DEF IInv, Times
<1>6. Pending'
  BY <1>1, <1>2 DEF IInv, Pending
<1>7. Killing' /\ Dead' /\ TreeKill'
  BY <1>1 DEF IInv, Killing, Dead, TreeKill, ToSet
<1> QED
  BY <1>3, <1>4, <1>5, <1>6, <1>7 DEF IInv

\* One entry of the snapshot becomes one of the map.
LEMMA AddProcessKeeps == ASSUME IInv, add_process PROVE IInv'
<1> DEFINE e == CHOOSE x \in pending : \A y \in pending : x.pid <= y.pid
<1> DEFINE entry(t) == [ppid |-> e.ppid, time |-> t, who |-> e.who]
<1> DEFINE with(t) == [p \in DOMAIN map \union {e.pid} |-> IF p = e.pid THEN entry(t) ELSE map[p]]
<1>1. /\ op = "build" /\ pending # {} /\ pending' = pending \ {e}
      /\ UNCHANGED <<born, alive, now, killed, op, root, todo, failed, victims>>
  BY DEF add_process, system, kill
<1>2. PICK t : /\ map' = with(t)
               /\ \/ alive[e.pid] # 0 /\ t = TimeOf(alive[e.pid])
                  \/ t = now
  BY DEF add_process
<1>3. e \in pending
  <2>1. \A x \in pending : x.pid \in Nat
    BY UserPids DEF IInv, Pending
  <2>2. PICK m \in {x.pid : x \in pending} : \A k \in {x.pid : x \in pending} : m <= k
    <3>1. {x.pid : x \in pending} \subseteq Nat /\ {x.pid : x \in pending} # {}
      BY <1>1, <2>1
    <3> QED
      BY <3>1, Least
  <2>3. \E x \in pending : \A y \in pending : x.pid <= y.pid
    BY <2>2
  <2> QED
    BY <2>3
<1> HIDE DEF e
<1>4. /\ e.pid \in UserPid /\ e.who \in Nat /\ e.ppid \in Nat /\ e.pid \notin Entries
      /\ e.ppid = born[e.who].ppid /\ e.pid \notin SystemPid
  BY <1>3, UserPids DEF IInv, Pending
<1>5. /\ Entries' = Entries \union {e.pid}
      /\ \A p \in Entries : map'[p] = map[p]
      /\ map'[e.pid] = [ppid |-> e.ppid, time |-> t, who |-> e.who]
  BY <1>2, <1>4 DEF Entries
<1>6. Len(born) \in Nat /\ DOMAIN born = 1..Len(born) /\ alive \in [UserPid -> 0..Len(born)]
  BY DEF IInv, Births, Alive
<1>7. /\ alive[e.pid] # 0 => alive[e.pid] \in DOMAIN born /\ born[alive[e.pid]].pid = e.pid
      /\ TimeOf(alive[e.pid]) \in Nat /\ (alive[e.pid] # 0 => TimeOf(alive[e.pid]) # now)
  <2>1. alive[e.pid] \in Nat /\ (alive[e.pid] # 0 => alive[e.pid] \in 1..Len(born))
    BY <1>4, <1>6
  <2>2. now = 0 \/ \E k \in Nat : now = 2 * k + 1
    BY DEF IInv, Times
  <2>3. TimeOf(alive[e.pid]) \in Nat /\ (alive[e.pid] # 0 => TimeOf(alive[e.pid]) # now)
    BY <2>1, <2>2 DEF TimeOf
  <2> QED
    BY <1>4, <1>6, <2>1, <2>3 DEF IInv, Alive
<1>8. Births' /\ Alive'
  BY <1>1 DEF IInv, Births, Alive
<1>9. Snapshots' /\ Later'
  <2>1. \A p, i : Seen(p, i)' => Seen(p, i)
    BY <1>1, <1>3, <1>5 DEF Seen
  <2>2. born' = born /\ alive' = alive /\ now' = now
    BY <1>1
  <2>3. Snapshots'
    BY <2>1, <2>2 DEF IInv, Snapshots
  <2> QED
    BY <2>1, <2>2, <2>3 DEF IInv, Later, TimeOf
<1>10. Times'
  <2>1. now' = now /\ born' = born /\ now \in Nat
    BY <1>1 DEF IInv, Times
  <2>2. Entries' \subseteq UserPid \union SystemPid
    BY <1>4, <1>5 DEF IInv, Times
  <2>3. map'[e.pid] \in Entry
    BY <1>2, <1>4, <1>5, <1>7, <2>1 DEF Entry
  <2>4. \A p \in Entries' : map'[p] \in Entry
    BY <1>5, <2>3 DEF IInv, Times
  <2>5. /\ map'[e.pid].ppid = born'[map'[e.pid].who].ppid
        /\ \/ map'[e.pid].time = now'
           \/ \E i \in DOMAIN born' : /\ map'[e.pid].time = TimeOf(i) /\ born'[i].pid = e.pid
                                      /\ (i = map'[e.pid].who \/ TimeOf(i) > now')
    <3>1. alive[e.pid] \in {0, e.who} \/ TimeOf(alive[e.pid]) > now
      BY <1>3, <1>4 DEF IInv, Later, Seen
    <3> QED
      BY <1>2, <1>4, <1>5, <1>7, <2>1, <3>1
  <2>6. \A p \in Entries' \intersect UserPid :
          /\ map'[p].ppid = born'[map'[p].who].ppid
          /\ \/ map'[p].time = now'
             \/ \E i \in DOMAIN born' : /\ map'[p].time = TimeOf(i) /\ born'[i].pid = p
                                        /\ (i = map'[p].who \/ TimeOf(i) > now')
    BY <1>5, <2>1, <2>5 DEF IInv, Times
  <2>7. \A p \in Entries' \intersect SystemPid : map'[p].ppid = 0 /\ map'[p].time = now'
    BY <1>4, <1>5, <2>1 DEF IInv, Times
  <2>8. now' \in Nat /\ now' <= 2 * Len(born') + 1 /\ (now' = 0 \/ \E k \in Nat : now' = 2 * k + 1)
    BY <2>1 DEF IInv, Times
  <2> QED
    BY <2>2, <2>4, <2>6, <2>7, <2>8 DEF Times, TimeOf, Entry
<1>11. Pending'
  <2>1. \A d \in pending' : d \in pending /\ d.pid # e.pid
    BY <1>1, <1>3 DEF IInv, Pending
  <2> QED
    BY <1>1, <1>5, <2>1 DEF IInv, Pending
<1>12. Killing' /\ Dead' /\ TreeKill'
  BY <1>1, <1>5 DEF IInv, Killing, Dead, TreeKill
<1> QED
  BY <1>8, <1>9, <1>10, <1>11, <1>12 DEF IInv

LEMMA BuiltKeeps == ASSUME IInv, Built PROVE IInv'
<1>1. /\ op = "build" /\ pending = {} /\ op' = "none"
      /\ UNCHANGED <<born, alive, map, pending, now, killed, root, todo, failed, victims>>
  BY DEF Built, system, tree
<1>2. Births' /\ Alive'
  BY <1>1 DEF IInv, Births, Alive
<1>3. Snapshots' /\ Times'
  BY <1>1, SnapshotsStay, TimesStay DEF IInv
<1>4. Pending' /\ Killing' /\ TreeKill'
  BY <1>1 DEF IInv, Pending, Killing, TreeKill, Entries
<1>5. Later' /\ Dead'
  BY <1>1, DeadStay DEF IInv, Dead
<1> QED
  BY <1>2, <1>3, <1>4, <1>5 DEF IInv
-----------------------------------------------------------------------------
(* kill_process and kill_process_tree *)

LEMMA BeginKeeps ==
  ASSUME IInv, NEW name \in {"kill_process", "kill_by_name", "kill_process_tree"}, NEW p,
         NEW list \in Seq(UserPid), ToSet(list) \subseteq Entries,
         Begin(name, p, list), TreeKill'
  PROVE  IInv'
<1>1. /\ op = "none" /\ op' = name /\ todo' = list
      /\ UNCHANGED <<born, alive, map, pending, now, killed>>
  BY DEF Begin, system, tree
<1>2. Births' /\ Alive'
  BY <1>1 DEF IInv, Births, Alive
<1>3. Snapshots' /\ Times'
  BY <1>1, SnapshotsStay, TimesStay DEF IInv
<1>4. Pending' /\ Killing'
  BY <1>1 DEF IInv, Pending, Killing, Entries
<1>5. Later' /\ Dead'
  BY <1>1, DeadStay DEF IInv, Dead
<1> QED
  BY <1>2, <1>3, <1>4, <1>5 DEF IInv

LEMMA KillProcessKeeps == ASSUME IInv, NEW p \in UserPid, kill_process(p) PROVE IInv'
<1> DEFINE list == <<p>>
<1>1. Begin("kill_process", p, list) /\ p \in Entries
  BY DEF kill_process, Entries
<1>2. list \in Seq(UserPid) /\ ToSet(list) \subseteq Entries
  BY <1>1 DEF ToSet
<1>3. TreeKill'
  BY <1>1 DEF Begin, TreeKill
<1> HIDE DEF list
<1> QED
  BY <1>1, <1>2, <1>3, BeginKeeps

LEMMA KillByNameKeeps == ASSUME IInv, kill_process_by_name PROVE IInv'
<1>1. PICK S \in SUBSET (Entries \ SystemPid) : Begin("kill_by_name", 0, Ascending(S))
  BY DEF kill_process_by_name, Entries
<1> DEFINE list == Ascending(S)
<1>2. S \subseteq UserPid /\ S \in SUBSET Nat /\ IsFiniteSet(S)
  <2>1. S \subseteq UserPid
    BY DEF IInv, Times
  <2> QED
    BY <2>1, UserPids, PidAssumption, FS_Subset
<1>3. list \in Seq(S) /\ ToSet(list) = S
  BY <1>2, AscendingLists
<1>4. TreeKill'
  BY <1>1 DEF Begin, TreeKill
<1> HIDE DEF list
<1>5. list \in Seq(UserPid) /\ ToSet(list) \subseteq Entries
  BY <1>2, <1>3, ListOfFew
<1> QED
  BY <1>1, <1>4, <1>5, BeginKeeps DEF list

LEMMA KillTreeKeeps == ASSUME IInv, NEW p \in UserPid, kill_process_tree(p) PROVE IInv'
<1> DEFINE list == IF p \in killed THEN <<>> ELSE PostOrder(p)
<1>1. p \in Entries \intersect UserPid /\ Begin("kill_process_tree", p, list)
  BY DEF kill_process_tree, Entries
<1>2. /\ op' = "kill_process_tree" /\ root' = p /\ todo' = list /\ victims' = {}
      /\ map' = map /\ Entries' = Entries
  BY <1>1 DEF Begin, tree, Entries
<1>3. /\ PostOrder(p) \in Seq(UserPid)
      /\ \A D \in SUBSET Entries :
           p \in D /\ (\A q \in D : Children(q) \subseteq D) => ToSet(PostOrder(p)) \subseteq D
      /\ Visited(p) \in SUBSET (Entries \intersect UserPid) /\ p \in Visited(p)
      /\ \A q \in Visited(p) : Children(q) \subseteq Visited(p)
      /\ Visited(p) \subseteq ToSet(PostOrder(p))
  BY <1>1, FamilyIsListed DEF IInv
<1>4. /\ list \in Seq(UserPid) /\ ToSet(list) \subseteq ToSet(PostOrder(p))
      /\ p \notin killed => list = PostOrder(p)
      /\ p \in killed => list = <<>>
  BY <1>3 DEF ToSet
<1> HIDE DEF list
<1>5. ToSet(list) \subseteq Entries
  <2>1. Entries \in SUBSET Entries /\ p \in Entries /\ \A q \in Entries : Children(q) \subseteq Entries
    BY <1>1 DEF Children, Entries
  <2>2. ToSet(PostOrder(p)) \subseteq Entries
    BY <1>3, <2>1
  <2> QED
    BY <1>4, <2>2
<1>6. \A q : Children(q)' = Children(q)
  BY <1>2 DEF Children, IsChild
<1>7. Inside'
  <2>1. ASSUME NEW D \in SUBSET Entries, Family(D)' PROVE ToSet(list) \subseteq D
    <3>1. p \in D /\ \A q \in D : Children(q) \subseteq D
      BY <1>2, <1>6, <2>1 DEF Family
    <3> QED
      BY <1>3, <1>4, <3>1
  <2> QED
    BY <1>2, <2>1 DEF Inside
<1>8. Covered'
  <2>0. PICK D : D = Visited(p)
    OBVIOUS
  <2>1. D \in SUBSET (Entries \intersect UserPid) /\ p \in D /\ \A q \in D : Children(q) \subseteq D
    BY <1>3, <2>0
  <2>2. ASSUME NEW x \in D PROVE Over(x)'
    BY <1>2, <1>3, <1>4, <2>0 DEF Over
  <2>3. Family(D)'
    BY <1>2, <1>6, <2>1 DEF Family
  <2> QED
    BY <1>2, <2>1, <2>2, <2>3 DEF Covered
<1>9. TreeKill'
  BY <1>2, <1>7, <1>8 DEF TreeKill, Ended
<1> QED
  BY <1>1, <1>4, <1>5, <1>9, BeginKeeps

LEMMA FirstOfList ==
  ASSUME NEW X, NEW s \in Seq(X), s # <<>>
  PROVE  /\ Head(s) \in X /\ Head(s) \in ToSet(s) /\ Tail(s) \in Seq(X)
         /\ ToSet(Tail(s)) \subseteq ToSet(s) /\ ToSet(s) \subseteq ToSet(Tail(s)) \union {Head(s)}
<1>1. /\ Head(s) = s[1] /\ 1 \in DOMAIN s /\ Tail(s) \in Seq(X) /\ Head(s) \in X
      /\ Len(s) \in Nat /\ DOMAIN s = 1..Len(s) /\ DOMAIN Tail(s) = 1..Len(s) - 1
      /\ \A i \in 1..Len(s) - 1 : Tail(s)[i] = s[i + 1]
  OBVIOUS
<1>2. ASSUME NEW i \in DOMAIN Tail(s) PROVE Tail(s)[i] \in ToSet(s)
  <2>1. i + 1 \in DOMAIN s
    BY <1>1
  <2> QED
    BY <1>1, <2>1 DEF ToSet
<1>3. ASSUME NEW i \in DOMAIN s PROVE s[i] \in ToSet(Tail(s)) \union {Head(s)}
  <2>1. CASE i = 1
    BY <1>1, <2>1
  <2>2. CASE i # 1
    <3>1. i - 1 \in DOMAIN Tail(s) /\ Tail(s)[i - 1] = s[i]
      BY <1>1, <2>2
    <3> QED
      BY <3>1 DEF ToSet
  <2> QED
    BY <2>1, <2>2
<1> QED
  BY <1>1, <1>2, <1>3 DEF ToSet

LEMMA KillNextKeeps == ASSUME IInv, KillNext PROVE IInv'
<1> DEFINE p == Head(todo)
<1>1. /\ todo # <<>> /\ todo' = Tail(todo)
      /\ UNCHANGED <<born, map, pending, now, op, root>>
  BY DEF KillNext
<1>2. \/ p \in killed /\ UNCHANGED <<alive, killed, victims, failed>>
      \/ /\ p \notin killed /\ alive[p] # 0 /\ alive' = [alive EXCEPT ![p] = 0]
         /\ killed' = killed \union {p}
         /\ victims' = victims \union {[pid |-> p, who |-> alive[p]]} /\ failed' = failed
      \/ p \notin killed /\ failed' /\ UNCHANGED <<alive, killed, victims>>
  BY DEF KillNext
<1>3. todo \in Seq(UserPid) /\ ToSet(todo) \subseteq Entries /\ pending = {}
  BY <1>1 DEF IInv, Killing, Pending
<1>4. /\ p \in UserPid /\ p \in ToSet(todo) /\ p \in Entries /\ todo' \in Seq(UserPid)
      /\ ToSet(todo') \subseteq ToSet(todo) /\ ToSet(todo) \subseteq ToSet(todo') \union {p}
  BY <1>1, <1>3, FirstOfList
<1> HIDE DEF p
<1>5. Births' /\ Alive'
  <2>1. CASE alive' = [alive EXCEPT ![p] = 0]
    BY <1>1, <1>4, <2>1, EndKeepsAlive DEF IInv
  <2>2. CASE alive' = alive
    BY <1>1, <2>2 DEF IInv, Births, Alive
  <2> QED
    BY <1>2, <2>1, <2>2
<1>6. Snapshots' /\ Times'
  BY <1>1, SnapshotsStay, TimesStay DEF IInv
<1>7. Pending'
  BY <1>1 DEF IInv, Pending, Entries
<1>8. Entries' = Entries
  BY <1>1 DEF Entries
<1>9. Killing'
  <2>1. killed' \subseteq Entries \intersect UserPid
    BY <1>2, <1>4 DEF IInv, Killing
  <2>2. /\ op' \in {"none", "build", "kill_process", "kill_by_name", "kill_process_tree"}
        /\ op' \notin {"none", "build"}
    BY <1>1 DEF IInv, Killing
  <2>3. ToSet(todo') \subseteq Entries
    BY <1>3, <1>4
  <2> QED
    BY <1>4, <1>8, <2>1, <2>2, <2>3 DEF Killing
<1>10. /\ \A x \in UserPid : alive'[x] \in {alive[x], 0}
       /\ alive' = alive \/ alive'[p] = 0
       /\ \A x \in Entries \intersect UserPid : map[x].who # 0
  <2>1. alive \in [UserPid -> 0..Len(born)]
    BY DEF IInv, Alive
  <2>2. ASSUME NEW x \in Entries \intersect UserPid PROVE map[x].who # 0
    <3>1. map[x].who \in DOMAIN born
      BY DEF IInv, Snapshots, Seen
    <3>2. DOMAIN born = 1..Len(born)
      BY DEF IInv, Births
    <3> QED
      BY <3>1, <3>2
  <2> QED
    BY <1>2, <1>4, <2>1, <2>2
<1>12. /\ Later'
       /\ \A x \in Entries \intersect UserPid : alive[x] # map[x].who => alive'[x] # map[x].who
  BY <1>1, <1>10, DeadStay
<1>13. Dead'
  <2>1. ASSUME NEW x \in killed' PROVE alive'[x] # map[x].who
    <3>1. CASE x \in killed
      BY <1>12, <3>1 DEF IInv, Dead, Killing
    <3>2. CASE x \notin killed
      <4>1. x = p /\ alive'[p] = 0
        BY <1>2, <1>4, <3>2 DEF IInv, Alive
      <4> QED
        BY <1>4, <1>10, <4>1
    <3> QED
      BY <3>1, <3>2
  <2> QED
    BY <1>1, <2>1 DEF Dead
<1>11. TreeKill'
  <2> SUFFICES ASSUME op = "kill_process_tree" PROVE Inside' /\ Covered' /\ Ended'
    BY <1>1 DEF TreeKill
  <2>1. \A D : Family(D)' <=> Family(D)
    BY <1>1, FamilyStays
  <2>2. Inside'
    <3>1. ASSUME NEW D \in SUBSET Entries, Family(D)
          PROVE  ToSet(todo') \subseteq D /\ \A v \in victims' : v.pid \in D
      <4>1. ToSet(todo) \subseteq D /\ \A v \in victims : v.pid \in D
        BY <3>1 DEF IInv, TreeKill, Inside
      <4>2. p \in D
        BY <1>4, <4>1
      <4> QED
        BY <1>2, <1>4, <4>1, <4>2
    <3> QED
      BY <1>8, <2>1, <3>1 DEF Inside
  <2>3. Covered'
    <3>1. PICK D \in SUBSET (Entries \intersect UserPid) : Family(D) /\ \A x \in D : Over(x)
      BY DEF IInv, TreeKill, Covered
    <3>2. ASSUME NEW x \in D PROVE Over(x)'
      <4>1. Over(x) /\ x \in Entries \intersect UserPid
        BY <3>1
      <4>5. CASE x \in ToSet(todo)
        <5>1. x \in ToSet(todo') \/ x = p
          BY <1>4, <4>5
        <5>2. ASSUME x = p PROVE failed' \/ alive'[x] # map[x].who
          <6>1. CASE p \in killed
            BY <1>12, <4>1, <5>2, <6>1 DEF IInv, Dead
          <6>2. CASE p \notin killed /\ ~failed'
            <7>1. alive'[p] = 0
              BY <1>2, <1>4, <6>2 DEF IInv, Alive
            <7> QED
              BY <1>4, <1>10, <5>2, <7>1
          <6> QED
            BY <6>1, <6>2
        <5> QED
          BY <1>1, <5>1, <5>2 DEF Over
      <4>6. CASE failed
        BY <1>2, <4>6 DEF Over
      <4>7. CASE alive[x] # map[x].who
        BY <1>1, <1>12, <4>1, <4>7 DEF Over
      <4> QED
        BY <1>1, <4>1, <4>5, <4>6, <4>7 DEF Over
    <3> QED
      BY <1>8, <2>1, <3>1, <3>2 DEF Covered
  <2>4. Ended'
    <3>1. alive[p] # 0 => alive[p] = map[p].who \/ TimeOf(alive[p]) > now
      BY <1>4 DEF IInv, Later, Seen
    <3>2. Ended
      BY DEF IInv, TreeKill
    <3>3. ASSUME NEW v \in victims'
          PROVE  v.pid \in Entries \intersect UserPid /\ (v.who = map[v.pid].who \/ TimeOf(v.who) > now)
      <4>1. CASE v \in victims
        BY <3>2, <4>1 DEF Ended
      <4>2. CASE v \notin victims
        <5>1. v.pid = p /\ v.who = alive[p] /\ alive[p] # 0
          BY <1>2, <4>2
        <5> QED
          BY <1>4, <3>1, <5>1
      <4> QED
        BY <4>1, <4>2
    <3> QED
      BY <1>1, <1>8, <3>3 DEF Ended, TimeOf
  <2> QED
    BY <2>2, <2>3, <2>4
<1> QED
  BY <1>5, <1>6, <1>7, <1>9, <1>11, <1>12, <1>13 DEF IInv

LEMMA KillReturnsKeeps == ASSUME IInv, KillReturns PROVE IInv'
<1>1. /\ op # "build" /\ todo = <<>> /\ op' = "none"
      /\ UNCHANGED <<born, alive, map, pending, now, killed, todo>>
  BY DEF KillReturns, system, tree
<1>2. Births' /\ Alive'
  BY <1>1 DEF IInv, Births, Alive
<1>3. Snapshots' /\ Times'
  BY <1>1, SnapshotsStay, TimesStay DEF IInv
<1>4. Pending' /\ Killing' /\ TreeKill'
  BY <1>1 DEF IInv, Pending, Killing, TreeKill, Entries
<1>5. Later' /\ Dead'
  BY <1>1, DeadStay DEF IInv, Dead
<1> QED
  BY <1>2, <1>3, <1>4, <1>5 DEF IInv

LEMMA InitEstablishesIInv == Init => IInv
<1> SUFFICES ASSUME Init PROVE IInv
  OBVIOUS
<1>1. PICK p \in UserPid :
        /\ born = <<[pid |-> p, ppid |-> _pt_system_proc_pid, parent |-> 0]>>
        /\ alive = [q \in UserPid |-> IF q = p THEN 1 ELSE 0]
  BY DEF Init
<1>2. /\ DOMAIN map = {} /\ Entries = {} /\ pending = {} /\ now = 0 /\ killed = {} /\ op = "none"
      /\ todo = <<>>
  BY DEF Init, NoEntries, Entries
<1>3. Len(born) = 1 /\ DOMAIN born = {1} /\ born[1].pid = p /\ born[1].ppid = 4 /\ born[1].parent = 0
  BY <1>1, UserPids
<1>4. Births /\ Alive
  <2>1. Births
    <3>1. born \in Seq([pid : UserPid, ppid : UserPid \union {_pt_system_proc_pid}, parent : Nat])
      BY <1>1
    <3>2. Len(born) <= MaxBirths /\ 4 # p
      BY <1>3, UserPids, PidAssumption
    <3> QED
      BY <1>3, <3>1, <3>2 DEF Births
  <2>2. alive \in [UserPid -> 0..Len(born)]
    BY <1>1, <1>3
  <2>3. \A q \in UserPid : alive[q] # 0 => q = p /\ alive[q] = 1
    BY <1>1
  <2> QED
    BY <1>3, <2>1, <2>2, <2>3 DEF Alive
<1>5. Snapshots /\ Later /\ Pending /\ Killing /\ Dead /\ TreeKill
  BY <1>2 DEF Snapshots, Later, Seen, Pending, Killing, Dead, TreeKill, ToSet
<1>6. Times
  BY <1>2, <1>3 DEF Times
<1> QED
  BY <1>4, <1>5, <1>6 DEF IInv

LEMMA StepKeepsIInv == IInv /\ [Next]_vars => IInv'
<1> SUFFICES ASSUME IInv, [Next]_vars PROVE IInv'
  OBVIOUS
<1>1. CASE \E p \in UserPid : Start(p) \/ Exit(p)
  BY <1>1, StartKeeps, ExitKeeps
<1>2. CASE \E p \in UserPid : kill_process(p) \/ kill_process_tree(p)
  BY <1>2, KillProcessKeeps, KillTreeKeeps
<1>3. CASE Snapshot \/ SnapshotFails \/ Overflow \/ add_process \/ Built
  BY <1>3, SnapshotKeeps, MapLostKeeps, AddProcessKeeps, BuiltKeeps
<1>4. CASE kill_process_by_name \/ KillNext \/ KillReturns
  BY <1>4, KillByNameKeeps, KillNextKeeps, KillReturnsKeeps
<1>5. CASE UNCHANGED vars
  <2>1. UNCHANGED <<born, alive, map, pending, now, killed, op, root, todo, failed, victims>>
    BY <1>5 DEF vars, system, tree, kill
  <2>2. Births' /\ Alive'
    BY <2>1 DEF IInv, Births, Alive
  <2>3. Snapshots' /\ Times'
    BY <2>1, SnapshotsStay, TimesStay DEF IInv
  <2>4. Pending' /\ Killing'
    BY <2>1 DEF IInv, Pending, Killing, Entries
  <2>5. Later' /\ Dead'
    BY <2>1, DeadStay DEF IInv, Dead
  <2>6. TreeKill'
    BY <2>1, KillStays DEF IInv, kill
  <2> QED
    BY <2>2, <2>3, <2>4, <2>5, <2>6 DEF IInv
<1> QED
  BY <1>1, <1>2, <1>3, <1>4, <1>5 DEF Next

LEMMA IInvAlways == Spec => []IInv
  BY InitEstablishesIInv, StepKeepsIInv, PTL DEF Spec
-----------------------------------------------------------------------------
(* What the invariant is for *)

LEMMA Typed == IInv => TypeOK
<1> SUFFICES ASSUME IInv PROVE TypeOK
  OBVIOUS
<1>1. Len(born) \in Nat /\ Len(born) <= MaxBirths /\ MaxBirths \in Nat /\ DOMAIN born = 1..Len(born)
  BY PidAssumption DEF IInv, Births
<1>2. alive \in [UserPid -> 0..MaxBirths]
  <2>1. alive \in [UserPid -> 0..Len(born)] /\ 0..Len(born) \subseteq 0..MaxBirths
    BY <1>1 DEF IInv, Alive
  <2> QED
    BY <2>1
<1>3. ASSUME NEW p \in DOMAIN map PROVE map[p].time \in 0..(2 * MaxBirths + 1)
  <2>1. now \in Nat /\ now <= 2 * MaxBirths + 1
    BY <1>1 DEF IInv, Times
  <2>2. CASE p \in UserPid /\ map[p].time # now
    <3>1. PICK i \in DOMAIN born : map[p].time = 2 * i
      BY <2>2 DEF IInv, Times, TimeOf, Entries
    <3> QED
      BY <1>1, <3>1
  <2>3. CASE p \in SystemPid \/ map[p].time = now
    <3>1. map[p].time = now
      BY <2>3 DEF IInv, Times, Entries
    <3> QED
      BY <1>1, <2>1, <3>1
  <2> QED
    BY <2>2, <2>3 DEF IInv, Times, Entries
<1>4. DOMAIN map \subseteq UserPid \union SystemPid
  BY DEF IInv, Times, Entries
<1>5. \A p \in UserPid : alive[p] # 0 => born[alive[p]].pid = p
  BY DEF IInv, Alive
<1>6. /\ killed \subseteq DOMAIN map /\ ToSet(todo) \subseteq DOMAIN map
      /\ op \in {"none", "build", "kill_process", "kill_by_name", "kill_process_tree"}
  BY DEF IInv, Killing, Entries
<1>7. \A e \in pending : e.pid \notin DOMAIN map
  BY DEF IInv, Pending, Entries
<1> QED
  BY <1>1, <1>2, <1>3, <1>4, <1>5, <1>6, <1>7 DEF TypeOK

\* The snapshot knows the families: who names the pid of a process in it and is
\* younger was born to that process; and who was born to it names its pid.
LEMMA BornToParent ==
  ASSUME IInv, NEW q \in Entries \intersect UserPid, NEW c \in Entries \intersect UserPid
  PROVE  LET i == map[q].who
             j == map[c].who
         IN  /\ i \in DOMAIN born /\ j \in DOMAIN born /\ i \in Nat /\ j \in Nat
             /\ born[i].pid = q /\ born[j].pid = c
             /\ map[c].ppid = q /\ j >= i => born[j].parent = i
             /\ born[j].parent = i => map[c].ppid = q /\ i < j
<1> DEFINE i == map[q].who
<1> DEFINE j == map[c].who
<1>1. Seen(q, i) /\ Seen(c, j)
  BY DEF Seen
<1>2. i \in DOMAIN born /\ j \in DOMAIN born /\ born[i].pid = q /\ born[j].pid = c
  BY <1>1 DEF IInv, Snapshots
<1>3. DOMAIN born = 1..Len(born) /\ Len(born) \in Nat /\ i \in Nat /\ j \in Nat /\ i # 0
  BY <1>2 DEF IInv, Births
<1>4. born[j].ppid = map[c].ppid /\ born[j].ppid # c
  BY <1>2 DEF IInv, Births, Times
<1>5. ASSUME map[c].ppid = q, j >= i PROVE born[j].parent = i
  <2>1. j > i
    BY <1>2, <1>3, <1>4, <1>5
  <2> HIDE DEF i, j
  <2> QED
    BY <1>1, <1>2, <1>4, <1>5, <2>1 DEF IInv, Snapshots
<1>6. ASSUME born[j].parent = i PROVE map[c].ppid = q /\ i < j
  <2>1. born[j].parent \in 1..j - 1 /\ born[born[j].parent].pid = born[j].ppid
    <3> HIDE DEF i, j
    <3> QED
      BY <1>2, <1>3, <1>6 DEF IInv, Births
  <2> QED
    BY <1>2, <1>3, <1>4, <1>6, <2>1
<1> QED
  BY <1>2, <1>3, <1>5, <1>6

\* No time of the map is before the start of its process.
LEMMA TimesAreNotBefore ==
  ASSUME IInv, NEW q \in Entries \intersect UserPid
  PROVE  map[q].time \in Nat /\ now \in Nat /\ TimeOf(map[q].who) \in Nat
         /\ map[q].time >= TimeOf(map[q].who)
<1>1. map[q].time \in Nat /\ map[q].who \in Nat /\ now \in Nat
  BY DEF IInv, Times, Entry
<1>2. TimeOf(map[q].who) \in Nat /\ TimeOf(map[q].who) < now
  BY <1>1 DEF IInv, Later, Seen, TimeOf
<1>3. \/ map[q].time = now
      \/ \E i \in DOMAIN born : map[q].time = TimeOf(i) /\ (i = map[q].who \/ TimeOf(i) > now)
  BY DEF IInv, Times
<1> QED
  BY <1>1, <1>2, <1>3

LEMMA KillsFamilyOnly == IInv => KillsOnlyFamily
<1> SUFFICES ASSUME IInv, op = "kill_process_tree", NEW v \in victims
             PROVE  /\ v.who = map[v.pid].who \/ TimeOf(v.who) > now
                    /\ \/ Ancestor(map[root].who, map[v.pid].who)
                       \/ \E m \in Visited(root) \ {root} : Mistimed(m) /\ v.pid \in Visited(m)
  BY DEF KillsOnlyFamily
<1> DEFINE a == map[root].who
<1>1. Inside /\ Covered /\ Ended
  BY DEF IInv, TreeKill
<1>2. root \in Entries \intersect UserPid
  BY <1>1 DEF Covered, Family
<1>3. Listed /\ Times
  BY TimesAreListed DEF IInv
<1>4. PICK V : V = Visited(root)
  OBVIOUS
<1>5. /\ V \in SUBSET (Entries \intersect UserPid) /\ root \in V
      /\ \A q \in V : Children(q) \subseteq V
  BY <1>2, <1>3, <1>4, FamilyIsListed
<1> DEFINE Below(q) == \E m \in V \ {root} : Mistimed(m) /\ q \in Visited(m)
<1> DEFINE D == {q \in V : Ancestor(a, map[q].who) \/ Below(q)}
<1>6. Ancestor(a, a)
  BY DEF Ancestor
<1>7. ASSUME NEW q \in D, NEW c \in Children(q) PROVE c \in D
  <2>1. c \in V /\ c \in Entries \intersect UserPid /\ q \in Entries \intersect UserPid
    BY <1>5
  <2>2. CASE Below(q)
    <3>1. PICK m \in V \ {root} : Mistimed(m) /\ q \in Visited(m)
      BY <2>2
    <3>2. m \in Entries \intersect UserPid
      BY <1>5, <3>1
    <3>3. c \in Visited(m)
      BY <1>3, <3>1, <3>2, FamilyIsListed
    <3> QED
      BY <2>1, <3>1, <3>3
  <2>3. CASE Ancestor(a, map[q].who)
    <3>1. CASE c = root
      BY <1>5, <1>6, <3>1
    <3>2. CASE c # root /\ Mistimed(c)
      <4>1. c \in Visited(c)
        BY <1>3, <2>1, FamilyIsListed
      <4> QED
        BY <2>1, <3>2, <4>1
    <3>3. CASE ~Mistimed(c)
      <4>1. map[c].ppid = q /\ map[c].time >= map[q].time
        BY DEF Children, IsChild
      <4>2. map[c].time = TimeOf(map[c].who)
        BY <3>3 DEF Mistimed
      <4>3. map[c].who \in Nat /\ map[q].who \in Nat
        BY <2>1, BornToParent
      <4>4. map[c].who >= map[q].who
        BY <2>1, <4>1, <4>2, <4>3, TimesAreNotBefore DEF TimeOf
      <4>5. /\ map[c].who \in DOMAIN born /\ map[q].who \in DOMAIN born
            /\ born[map[c].who].parent = map[q].who
        BY <2>1, <4>1, <4>4, BornToParent
      <4>6. Ancestor(a, map[c].who)
        BY <2>3, <4>5 DEF Ancestor
      <4> QED
        BY <2>1, <4>6
    <3> QED
      BY <3>1, <3>2, <3>3
  <2> QED
    BY <2>2, <2>3
<1>8. Family(D)
  BY <1>5, <1>6, <1>7 DEF Family
<1>9. v.pid \in D
  <2>1. D \in SUBSET Entries
    BY <1>5
  <2> HIDE DEF D
  <2> QED
    BY <1>1, <1>8, <2>1 DEF Inside
<1>10. v.who = map[v.pid].who \/ TimeOf(v.who) > now
  BY <1>1 DEF Ended
<1> QED
  BY <1>4, <1>9, <1>10

LEMMA NobodySurvives == IInv => NoSurvivors
<1> SUFFICES ASSUME IInv, op = "kill_process_tree", todo = <<>>, ~failed, victims # {}
             PROVE  \E S \in SUBSET (DOMAIN map \intersect UserPid) :
                      root \in S /\ TrueFamily(S) /\ \A p \in S : alive[p] # map[p].who
  BY DEF NoSurvivors
<1>1. PICK D \in SUBSET (Entries \intersect UserPid) : Family(D) /\ \A x \in D : Over(x)
  BY DEF IInv, TreeKill, Covered
<1>2. root \in D /\ \A q \in D : Children(q) \subseteq D
  BY <1>1 DEF Family
<1>3. \A p \in D : alive[p] # map[p].who
  BY <1>1 DEF Over, ToSet
<1>4. TrueFamily(D)
  <2> SUFFICES ASSUME NEW p \in D, ~Mistimed(p), NEW c \in Entries \intersect UserPid,
                      born[map[c].who].parent = map[p].who
               PROVE  c \in D
    BY DEF TrueFamily, Entries
  <2>1. p \in Entries \intersect UserPid
    BY <1>1
  <2>2. /\ map[c].ppid = p /\ map[p].who < map[c].who
        /\ map[c].who \in Nat /\ map[p].who \in Nat
    BY <2>1, BornToParent
  <2>3. map[c].time >= map[p].time
    <3>1. map[p].time = TimeOf(map[p].who)
      BY DEF Mistimed
    <3>2. map[c].time \in Nat /\ map[c].time >= TimeOf(map[c].who)
      BY TimesAreNotBefore
    <3> QED
      BY <2>2, <3>1, <3>2 DEF TimeOf
  <2>4. c \in Children(p)
    BY <2>2, <2>3 DEF Children, IsChild, Entries
  <2> QED
    BY <1>2, <2>4
<1> QED
  BY <1>1, <1>2, <1>3, <1>4 DEF Entries
-----------------------------------------------------------------------------
(* Up from parent to parent *)

\* The parent of an entry that has one.
LEMMA ParentIsEntry ==
  ASSUME IInv, NEW c \in Entries, ~HasNoParent(c)
  PROVE  LET p == map[c].ppid
         IN  /\ p \in Entries /\ c \in Children(p) /\ c \in UserPid
             /\ p # c /\ p # 0 /\ (p \in UserPid \/ HasNoParent(p))
<1> DEFINE p == map[c].ppid
<1>1. c \notin SystemPid /\ p \in Entries /\ ~(map[p].time > map[c].time)
  BY DEF HasNoParent, Entries
<1>2. c \in UserPid /\ map[c].who \in DOMAIN born /\ born[map[c].who].pid = c
  BY <1>1 DEF IInv, Times, Snapshots, Seen
<1>3. map[p].time \in Nat /\ map[c].time \in Nat
  BY <1>1 DEF IInv, Times, Entry
<1>4. p = born[map[c].who].ppid
  BY <1>2 DEF IInv, Times
<1>5. p \in UserPid \union {4} /\ p # c
  <2>1. DOMAIN born = 1..Len(born)
    BY DEF IInv, Births
  <2>2. born[map[c].who].ppid \in UserPid \union {_pt_system_proc_pid}
    BY <1>2, <2>1, BornAre DEF IInv
  <2>3. p # c
    BY <1>2, <1>4 DEF IInv, Births
  <2> QED
    BY <1>4, <2>2, <2>3, UserPids
<1>6. c \in Children(p)
  BY <1>1, <1>3 DEF Children, IsChild, Entries
<1>7. p \in UserPid \/ HasNoParent(p)
  BY <1>5, UserPids DEF HasNoParent
<1> QED
  BY <1>1, <1>2, <1>5, <1>6, <1>7, UserPids

\* What is visited from a visited entry is visited.
LEMMA VisitedFromVisited ==
  ASSUME Listed, NEW p \in Entries, NEW q \in Visited(p)
  PROVE  q \in Entries /\ Visited(q) \subseteq Visited(p)
<1> DEFINE V == Visited(p)
<1>1. V \subseteq Entries /\ Closed(V)
  BY VisitedIsClosed
<1>2. q \in Entries /\ q \in V
  BY <1>1
<1> HIDE DEF V
<1>3. Visited(q) \subseteq V
  BY <1>1, <1>2, VisitedBelow DEF Closed
<1> QED
  BY <1>2, <1>3 DEF V

LEMMA ChildIsVisited ==
  ASSUME Listed, NEW p \in Entries, p # 0, NEW c \in Children(p)
  PROVE  c \in Visited(p) /\ Visited(c) \subseteq Visited(p)
<1>1. c \in Visited(p)
  BY VisitedIsClosed DEF Closed, _pt_idle_proc_pid
<1> QED
  BY <1>1, VisitedFromVisited

LEMMA VisitedHaveVisitedParents ==
  ASSUME Listed, NEW q \in Entries, NEW c \in Visited(q), c # q
  PROVE  map[c].ppid \in Visited(q) \ {_pt_idle_proc_pid} /\ c \in Children(map[c].ppid)
<1> DEFINE V == Visited(q)
<1> DEFINE D == {q} \union {x \in V : map[x].ppid \in V \ {_pt_idle_proc_pid}
                                         /\ x \in Children(map[x].ppid)}
<1>1. V \subseteq Entries /\ q \in V /\ Closed(V)
  BY VisitedIsClosed
<1>2. ASSUME NEW x \in D \ {_pt_idle_proc_pid}, NEW y \in Children(x) PROVE y \in D
  <2>1. x \in V /\ map[y].ppid = x
    BY <1>1 DEF Children, IsChild
  <2>2. y \in V
    BY <1>1, <2>1 DEF Closed
  <2> QED
    BY <2>1, <2>2
<1>3. V \subseteq D
  <2>1. q \in D /\ \A x \in D \ {_pt_idle_proc_pid} : Children(x) \subseteq D
    BY <1>2
  <2> HIDE DEF D
  <2> QED
    BY <2>1, VisitedBelow
<1> QED
  BY <1>3

\* On a ring there is one time, and only the assumed one can be that of two.
LEMMA RingsAreAssumed ==
  ASSUME IInv, NEW r \in Entries, OnRing(r)
  PROVE  r \in UserPid /\ map[r].time = now
<1>1. Listed /\ Times /\ r # 0
  BY TimesAreListed DEF IInv, OnRing, _pt_idle_proc_pid
<1>2. PICK c \in Children(r) : r \in Visited(c)
  BY DEF OnRing
<1>3. c \in Entries \intersect UserPid /\ map[c].ppid = r /\ map[c].time >= map[r].time
  <2>1. map[c].time >= map[r].time
    BY DEF Children, IsChild
  <2> QED
    BY <1>1, <2>1, ChildrenAreUsers
<1>4. r \in UserPid
  BY <1>1, <1>2, <1>3, FamilyIsListed
<1>5. map[r].time \in Nat /\ map[c].time \in Nat
  BY <1>1, <1>3 DEF Times, Entry
<1>6. map[r].time >= map[c].time
  <2> DEFINE D == {x \in Entries : map[x].time >= map[c].time}
  <2>1. c \in D
    BY <1>3, <1>5
  <2>2. \A x \in D : \A y \in Children(x) : y \in D
    <3> SUFFICES ASSUME NEW x \in D, NEW y \in Children(x) PROVE y \in D
      OBVIOUS
    <3>1. y \in Entries /\ map[y].time >= map[x].time /\ map[x].time >= map[c].time
      BY DEF Children, IsChild, Entries
    <3>2. map[x].time \in Nat /\ map[y].time \in Nat
      BY <1>1, <3>1 DEF Times, Entry
    <3> QED
      BY <1>5, <3>1, <3>2
  <2>3. Visited(c) \subseteq D
    <3> HIDE DEF D
    <3> QED
      BY <1>1, <1>3, <2>1, <2>2, VisitedBelow
  <2> QED
    BY <1>2, <2>3
<1>7. map[r].time = map[c].time
  BY <1>3, <1>5, <1>6
<1>8. c # r
  <2>1. map[c].who \in DOMAIN born /\ born[map[c].who].pid = c /\ map[c].ppid = born[map[c].who].ppid
    BY <1>3 DEF IInv, Snapshots, Seen, Times
  <2> QED
    BY <1>3, <2>1 DEF IInv, Births
<1>9. ASSUME map[r].time # now PROVE FALSE
  <2>1. PICK i \in DOMAIN born : map[r].time = TimeOf(i) /\ born[i].pid = r
    BY <1>4, <1>9 DEF IInv, Times
  <2>2. PICK j \in DOMAIN born : map[c].time = TimeOf(j) /\ born[j].pid = c
    BY <1>3, <1>7, <1>9 DEF IInv, Times
  <2>3. i \in Nat /\ j \in Nat
    <3>1. DOMAIN born = 1..Len(born)
      BY DEF IInv, Births
    <3> QED
      BY <3>1
  <2>4. i = j
    <3>1. 2 * i = 2 * j
      BY <1>7, <2>1, <2>2 DEF TimeOf
    <3> QED
      BY <2>3, <3>1
  <2> QED
    BY <1>8, <2>1, <2>2, <2>4
<1> QED
  BY <1>4, <1>9

\* A set that has with each member the parent of it.
Upward(A) == \A y \in A : y # 0 /\ map[y].ppid \in A /\ y \in Children(map[y].ppid)

\* Such a set has a ring that its members are below.
LEMMA UpwardHasRing ==
  ASSUME Listed, NEW M \in SUBSET Entries, Upward(M), NEW x \in M
  PROVE  \E r \in M : OnRing(r) /\ x \in Visited(r)
<1> DEFINE Ups == {A \in SUBSET Entries : A \subseteq {y \in M : x \in Visited(y)} /\ A # {} /\ Upward(A)}
<1>1. {y \in M : x \in Visited(y)} \in Ups
  <2> DEFINE B == {y \in M : x \in Visited(y)}
  <2>1. x \in B
    BY VisitedIsClosed
  <2>2. ASSUME NEW y \in B
        PROVE  y # 0 /\ map[y].ppid \in B /\ y \in Children(map[y].ppid)
    <3>1. y # 0 /\ map[y].ppid \in M /\ map[y].ppid # 0 /\ y \in Children(map[y].ppid)
      BY DEF Upward
    <3>2. Visited(y) \subseteq Visited(map[y].ppid)
      BY <3>1, ChildIsVisited
    <3> QED
      BY <3>1, <3>2
  <2>3. Upward(B)
    BY <2>2 DEF Upward
  <2> QED
    BY <2>1, <2>3
<1>2. PICK A \in Ups : \A C \in Ups : ~(<<C, A>> \in StrictSubsetOrdering(Entries))
  <2>1. Ups \subseteq FiniteSubsetsOf(Entries) /\ Ups # {}
    <3>1. \A C \in SUBSET Entries : IsFiniteSet(C)
      BY FS_Subset DEF Listed
    <3> QED
      BY <1>1, <3>1 DEF FiniteSubsetsOf
  <2> HIDE DEF Ups
  <2> QED
    BY <2>1, FS_StrictSubsetOrderingWellFounded, WFMin
<1>3. PICK r \in A : r \in M /\ x \in Visited(r)
  OBVIOUS
<1>4. Upward(A) /\ A \subseteq M /\ A \subseteq Entries
  OBVIOUS
<1> DEFINE C == {y \in A : \E c \in Children(y) : r \in Visited(c)}
<1>5. map[r].ppid \in C
  <2>1. r \in Visited(r) /\ map[r].ppid \in A /\ r \in Children(map[r].ppid)
    BY <1>4, VisitedIsClosed DEF Upward
  <2> QED
    BY <2>1
<1>6. Upward(C)
  <2> SUFFICES ASSUME NEW y \in C
               PROVE  y # 0 /\ map[y].ppid \in C /\ y \in Children(map[y].ppid)
    BY DEF Upward
  <2>1. y # 0 /\ map[y].ppid \in A /\ y \in Children(map[y].ppid)
    BY <1>4 DEF Upward
  <2>2. PICK c \in Children(y) : r \in Visited(c)
    OBVIOUS
  <2>3. r \in Visited(y)
    BY <1>4, <2>1, <2>2, ChildIsVisited
  <2> QED
    BY <2>1, <2>3
<1>7. C = A
  <2>1. C \in Ups
    BY <1>4, <1>5, <1>6
  <2>2. CASE C # A
    <3>1. <<C, A>> \in StrictSubsetOrdering(Entries)
      <4>1. C \subseteq A
        OBVIOUS
      <4> HIDE DEF C
      <4> QED
        BY <1>4, <2>2, <4>1 DEF StrictSubsetOrdering
    <3> HIDE DEF C, Ups
    <3> QED
      BY <1>2, <2>1, <3>1
  <2> QED
    BY <2>2
<1>8. OnRing(r)
  <2>1. r \in C /\ r # 0
    BY <1>4, <1>7 DEF Upward
  <2> QED
    BY <2>1 DEF OnRing, _pt_idle_proc_pid
<1> QED
  BY <1>3, <1>8

LEMMA VisitedOnce == IInv => EveryProcessOnce
<1> SUFFICES ASSUME IInv PROVE EveryProcessOnce
  OBVIOUS
<1> DEFINE tops == {p \in DOMAIN map : HasNoParent(p)}
<1> DEFINE rings == {p \in DOMAIN map : OnRing(p)}
<1>1. Listed /\ Times /\ tops \subseteq Entries /\ rings \subseteq Entries
  BY TimesAreListed DEF IInv, Entries
<1>2. \A p \in Entries : Visited(p) \subseteq Entries /\ p \in Visited(p) /\ Closed(Visited(p))
  BY <1>1, VisitedIsClosed
<1> DEFINE U == UNION {Visited(p) : p \in tops}
<1> DEFINE M == Entries \ U
<1>3. Upward(M)
  <2> SUFFICES ASSUME NEW c \in M
               PROVE  c # 0 /\ map[c].ppid \in M /\ c \in Children(map[c].ppid)
    BY DEF Upward
  <2>1. c \notin tops
    BY <1>2
  <2> DEFINE p == map[c].ppid
  <2>2. p \in Entries /\ c \in Children(p) /\ c \in UserPid /\ p # 0
    BY <2>1, ParentIsEntry DEF Entries
  <2>3. ASSUME p \in U PROVE FALSE
    <3>1. PICK q \in tops : p \in Visited(q)
      BY <2>3
    <3>2. c \in Visited(q)
      BY <1>1, <1>2, <2>2, <3>1 DEF Closed, _pt_idle_proc_pid
    <3> QED
      BY <3>1, <3>2
  <2> QED
    BY <2>2, <2>3, UserPids
<1>4. UNION {Visited(p) : p \in tops \union rings} = DOMAIN map
  <2>1. ASSUME NEW x \in Entries PROVE \E p \in tops \union rings : x \in Visited(p)
    <3>1. CASE x \in M
      <4>1. M \in SUBSET Entries
        OBVIOUS
      <4>2. \E r \in M : OnRing(r) /\ x \in Visited(r)
        <5> HIDE DEF M
        <5> QED
          BY <1>1, <1>3, <3>1, <4>1, UpwardHasRing
      <4> QED
        BY <4>2 DEF Entries
    <3>2. CASE x \in U
      BY <3>2
    <3> QED
      BY <3>1, <3>2
  <2> QED
    BY <1>1, <1>2, <2>1 DEF Entries
\* The parent of what is visited is visited, and that of an entry on a ring.
<1>5. ASSUME NEW q \in tops \union rings, NEW c \in Visited(q), c # q \/ q \in rings
      PROVE  ~HasNoParent(c) /\ map[c].ppid \in Visited(q)
  <2>1. q \in Entries /\ c \in Entries
    BY <1>1, <1>2
  <2>2. map[c].ppid \in Visited(q) \ {0} /\ c \in Children(map[c].ppid)
    <3>1. CASE c # q
      BY <1>1, <2>1, <3>1, VisitedHaveVisitedParents DEF _pt_idle_proc_pid
    <3>2. CASE c = q /\ q \in rings
      <4>1. PICK d \in Children(q) : q \in Visited(d)
        BY <3>2 DEF OnRing
      <4>2. q # 0 /\ q \in Entries
        BY <2>1, <3>2 DEF OnRing, _pt_idle_proc_pid
      <4>3. d \in Visited(q) /\ Visited(d) \subseteq Visited(q)
        BY <1>1, <4>1, <4>2, ChildIsVisited
      <4>4. CASE q = d
        <5>1. map[q].ppid = q
          BY <4>1, <4>4 DEF Children, IsChild
        <5> QED
          BY <1>2, <3>2, <4>1, <4>2, <4>4, <5>1
      <4>5. CASE q # d
        <5>1. d \in Entries
          BY <1>2, <4>2, <4>3
        <5>2. map[q].ppid \in Visited(d) \ {0} /\ q \in Children(map[q].ppid)
          BY <1>1, <4>1, <4>5, <5>1, VisitedHaveVisitedParents DEF _pt_idle_proc_pid
        <5> QED
          BY <3>2, <4>3, <5>2
      <4> QED
        BY <4>4, <4>5
    <3> QED
      BY <1>5, <3>1, <3>2
  <2>3. ~HasNoParent(c)
    BY <1>1, <1>2, <2>1, <2>2, ChildrenAreUsers
  <2> QED
    BY <2>2, <2>3
<1>6. ASSUME NEW p \in tops, NEW q \in tops \union rings, p # q
      PROVE  Visited(p) \intersect Visited(q) = {}
  <2> DEFINE D == {x \in Visited(p) : x \notin Visited(q)}
  <2>1. p \in D
    BY <1>1, <1>2, <1>5, <1>6
  <2>2. ASSUME NEW x \in D \ {_pt_idle_proc_pid}, NEW c \in Children(x) PROVE c \in D
    <3>1. c \in Visited(p)
      BY <1>1, <1>2 DEF Closed
    <3>2. x \in Entries /\ x # 0
      BY <1>1, <1>2 DEF _pt_idle_proc_pid
    <3>3. map[c].ppid = x /\ ~HasNoParent(c)
      BY <1>1, <3>2, ChildrenAreUsers
    <3>4. c # q \/ q \in rings
      BY <3>3
    <3>5. c \notin Visited(q)
      BY <1>5, <3>3, <3>4
    <3> QED
      BY <3>1, <3>5
  <2>3. Visited(p) \subseteq D
    <3>1. p \in Entries /\ \A x \in D \ {_pt_idle_proc_pid} : Children(x) \subseteq D
      BY <1>1, <2>2
    <3> HIDE DEF D
    <3> QED
      BY <1>1, <2>1, <3>1, VisitedBelow
  <2> QED
    BY <2>3
<1>7. \A r \in rings : map[r].time = now
  BY <1>1, RingsAreAssumed
<1>8. TypeOK
  BY Typed
<1> QED
  BY <1>4, <1>6, <1>7, <1>8 DEF EveryProcessOnce

\* The object and the processes of the system keep their types, and only entries
\* of the map are marked as killed, however processes come and go.
THEOREM TreeTypeCorrect == Spec => []TypeOK
  BY IInvAlways, Typed, PTL

\* kill_process_tree terminates the processes of the snapshot that descend from
\* the root, or those that took over their pids, and nobody else but below a child
\* of a wrong time; one that met no failure has left nobody alive whom parent links
\* without wrong times join to the root.
THEOREM TreeKillEndsTheFamily == Spec => []KillsTheFamily
<1>1. IInv => KillsTheFamily
  BY KillsFamilyOnly, NobodySurvives DEF KillsTheFamily
<1> QED
  BY <1>1, IInvAlways, PTL

\* iterate_process_tree from the processes without parent visits every process
\* once, except those below a ring, which is made of assumed times.
THEOREM EveryProcessIsVisited == Spec => []EveryProcessOnce
  BY IInvAlways, VisitedOnce, PTL
=============================================================================
