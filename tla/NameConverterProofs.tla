------------------------- MODULE NameConverterProofs -------------------------
(***************************************************************************)
(* Proofs about NameConverter: the reference counting of Singleton under   *)
(* the rule of nt_name_conv.h, and what a loaded table answers, for any    *)
(* finite set of threads and any drive tables.                             *)
(***************************************************************************)
EXTENDS NameConverter, FiniteSetTheorems, SequenceTheorems, TLAPS

PC == SingletonPC \union {"idle", "lookup"}

\* The places of Holders.
Held == {"return", "got", "lookup", "release", "decrement"}

LEMMA HoldersArePlaces ==
  ASSUME pc \in [Thread -> PC]
  PROVE  Holders = {t \in Thread : pc[t] \in Held}
BY DEF Holders, Held, PC, SingletonPC

\* One thread moves: Holders gains or loses that thread and no other.
LEMMA MoveOne ==
  ASSUME NEW t \in Thread, NEW to \in PC,
         pc \in [Thread -> PC], pc' = [pc EXCEPT ![t] = to]
  PROVE  /\ pc' \in [Thread -> PC]
         /\ Cardinality(Holders) \in Nat /\ Cardinality(Holders') \in Nat
         /\ to \in Held /\ pc[t] \in Held => Cardinality(Holders') = Cardinality(Holders)
         /\ to \notin Held /\ pc[t] \notin Held => Cardinality(Holders') = Cardinality(Holders)
         /\ to \in Held /\ pc[t] \notin Held => Cardinality(Holders') = Cardinality(Holders) + 1
         /\ to \notin Held /\ pc[t] \in Held => Cardinality(Holders') = Cardinality(Holders) - 1
<1>1. pc' \in [Thread -> PC]
  OBVIOUS
<1>2. /\ Holders = {u \in Thread : pc[u] \in Held}
      /\ Holders' = {u \in Thread : pc'[u] \in Held}
  BY <1>1 DEF Holders, Held, PC, SingletonPC
<1>3. IsFiniteSet(Holders) /\ IsFiniteSet(Holders')
  BY <1>2, FS_Subset, NameConverterAssumption
<1>4. Cardinality(Holders) \in Nat /\ Cardinality(Holders') \in Nat
  BY <1>3, FS_CardinalityType
<1>5. \/ to \in Held /\ pc[t] \in Held
      \/ to \notin Held /\ pc[t] \notin Held
      => Holders' = Holders
  BY <1>2
<1>6. ASSUME to \in Held, pc[t] \notin Held
      PROVE  Cardinality(Holders') = Cardinality(Holders) + 1
  <2>1. Holders' = Holders \union {t} /\ t \notin Holders
    BY <1>2, <1>6
  <2> QED BY <2>1, <1>3, FS_AddElement
<1>7. ASSUME to \notin Held, pc[t] \in Held
      PROVE  Cardinality(Holders') = Cardinality(Holders) - 1
  <2>1. Holders' = Holders \ {t} /\ t \in Holders
    BY <1>2, <1>7
  <2> QED BY <2>1, <1>3, FS_RemoveElement
<1> QED BY <1>1, <1>4, <1>5, <1>6, <1>7
-----------------------------------------------------------------------------
(* The object behind mInstance *)

\* Between nc_initialize and nc_finalize the object is there, whoever comes and
\* goes: the reference of the owner keeps the counter above zero.
Served ==
  open => /\ mInstance \in 1..objects /\ heap = {mInstance}
          /\ \A t \in Thread : /\ pc[t] \notin {"new", "delete", "clear"}
                               /\ pc[t] # "idle" => call[t] \in {"lookup", "reload"}

\* Otherwise the owner is alone, and where it is says whether there is an object.
Alone ==
  ~open => /\ \A t \in Thread \ {Owner} : pc[t] = "idle"
           /\ pc[Owner] # "lookup"
           /\ pc[Owner] \in {"get", "new", "increment", "return", "got"} =>
                call[Owner] = "initialize"
           /\ pc[Owner] \in {"get", "new"} => objects < MaxObjects
           /\ pc[Owner] \in {"idle", "get", "new", "released"} => mInstance = Null
           /\ pc[Owner] \in {"idle", "get", "new", "released", "clear"} => heap = {}
           /\ pc[Owner] \in {"increment", "return", "got", "release", "decrement",
                             "compare", "delete"} =>
                mInstance \in 1..objects /\ heap = {mInstance}

Counted == mRefCount = Cardinality(Holders) + (IF open THEN 1 ELSE 0)

\* A thread that uses the object has the pointer to the one there is.
Pointers == \A t \in Thread : pc[t] \in {"got", "lookup"} => ptr[t] = mInstance

SharingInv == Served /\ Alone /\ Counted /\ Pointers

\* The conjuncts of TypeOK about the singleton and the threads ...
ThreadTypes == /\ mInstance \in 1..MaxObjects \union {Null}
               /\ mRefCount \in Nat
               /\ objects \in 0..MaxObjects
               /\ heap \subseteq 1..objects
               /\ pc \in [Thread -> PC]
               /\ ptr \in [Thread -> 1..MaxObjects \union {Null}]
               /\ open \in BOOLEAN
               /\ call \in [Thread -> {"none", "initialize", "lookup", "reload", "finalize"}]

\* ... and those about the table.
TableTypes == /\ drives \in Systems
              /\ _loaded \in BOOLEAN /\ cut \in BOOLEAN
              /\ \E s \in Systems : IsPrefix(_dos_devices, s)
              /\ _mup_devices \subseteq Provider

IInv == ThreadTypes /\ SharingInv

\* Without clients the owner is the only holder there may be.
LEMMA AloneCount ==
  ASSUME ThreadTypes, Alone, ~open
  PROVE  Cardinality(Holders) = IF pc[Owner] \in Held THEN 1 ELSE 0
<1>1. Holders = {t \in Thread : pc[t] \in Held}
  BY HoldersArePlaces DEF ThreadTypes
<1>2. Holders = IF pc[Owner] \in Held THEN {Owner} ELSE {}
  BY <1>1, NameConverterAssumption DEF Alone, Held
<1> QED BY <1>2, FS_Singleton, FS_EmptySet

\* nc_initialize, nc_finalize and the other functions begin.
LEMMA BeginKeeps ==
  ASSUME IInv, NEW t \in Thread, nc_initialize(t) \/ nc_call(t) \/ nc_finalize(t)
  PROVE  IInv'
<1> USE DEF IInv, ThreadTypes, SharingInv
<1>1. CASE nc_initialize(t)
  <2>1. /\ t = Owner /\ ~open /\ open' = open /\ pc[t] = "idle"
        /\ pc' = [pc EXCEPT ![t] = "get"] /\ call' = [call EXCEPT ![t] = "initialize"]
        /\ UNCHANGED <<singleton, ptr>> /\ objects < MaxObjects
    BY <1>1 DEF nc_initialize, Begin, Goto
  <2>2. "get" \in PC /\ "get" \notin Held /\ "idle" \notin Held
    BY DEF PC, Held, SingletonPC
  <2>3. Cardinality(Holders') = Cardinality(Holders) /\ pc' \in [Thread -> PC]
    BY <2>1, <2>2, MoveOne
  <2>4. ThreadTypes' /\ Counted' /\ Pointers'
    BY <2>1, <2>3 DEF Counted, Pointers, singleton
  <2>5. Served' /\ Alone'
    BY <2>1, NameConverterAssumption DEF Served, Alone, singleton
  <2> QED BY <2>4, <2>5
<1>2. CASE nc_call(t)
  <2>1. PICK c \in {"lookup", "reload"} :
          /\ open /\ open' = open /\ pc[t] = "idle"
          /\ pc' = [pc EXCEPT ![t] = "get"] /\ call' = [call EXCEPT ![t] = c]
          /\ UNCHANGED <<singleton, ptr>>
    BY <1>2 DEF nc_call, Begin, Goto
  <2>2. "get" \in PC /\ "get" \notin Held /\ "idle" \notin Held
    BY DEF PC, Held, SingletonPC
  <2>3. Cardinality(Holders') = Cardinality(Holders) /\ pc' \in [Thread -> PC]
    BY <2>1, <2>2, MoveOne
  <2> QED BY <2>1, <2>3 DEF Served, Alone, Counted, Pointers, singleton
<1>3. CASE nc_finalize(t)
  <2>1. /\ t = Owner /\ open /\ open' = FALSE /\ \A u \in Thread : pc[u] = "idle"
        /\ pc' = [pc EXCEPT ![t] = "release"] /\ call' = [call EXCEPT ![t] = "finalize"]
        /\ UNCHANGED <<singleton, ptr>>
    BY <1>3 DEF nc_finalize, Begin, Goto
  <2>2. "release" \in PC /\ "release" \in Held /\ "idle" \notin Held
    BY DEF PC, Held, SingletonPC
  <2>3. /\ Cardinality(Holders') = Cardinality(Holders) + 1 /\ pc' \in [Thread -> PC]
        /\ Cardinality(Holders) \in Nat
    BY <2>1, <2>2, MoveOne
  <2>4. ThreadTypes'
    BY <2>1, <2>3 DEF singleton
  <2>5. Counted'
    BY <2>1, <2>3 DEF Counted, singleton
  <2>6. Served' /\ Alone' /\ Pointers'
    BY <2>1, NameConverterAssumption DEF Served, Alone, Pointers, singleton
  <2> QED BY <2>4, <2>5, <2>6
<1> QED BY <1>1, <1>2, <1>3

\* The steps of GetInstancePointer.
LEMMA GetKeeps ==
  ASSUME IInv, NEW t \in Thread, GetInstancePointer(t), UNCHANGED <<open, call>>
  PROVE  IInv'
<1> USE DEF IInv, ThreadTypes, SharingInv
<1>0. /\ {"new", "increment", "return", "got"} \subseteq PC
      /\ {"return", "got"} \subseteq Held
      /\ {"get", "new", "increment"} \cap Held = {}
  BY DEF PC, Held, SingletonPC
<1>a. open => \A u \in Thread : pc[u] = "idle" \/ call[u] \in {"lookup", "reload"}
  BY DEF Served
<1>1. CASE GetTest(t)
  <2> DEFINE to == IF mInstance = Null THEN "new" ELSE "increment"
  <2>1. pc[t] = "get" /\ pc' = [pc EXCEPT ![t] = to] /\ UNCHANGED <<singleton, ptr>>
    BY <1>1 DEF GetTest, Goto
  <2>2. Cardinality(Holders') = Cardinality(Holders) /\ pc' \in [Thread -> PC]
    BY <2>1, <1>0, MoveOne
  <2>3. open => mInstance # Null
    BY SingletonAssumption DEF Served
  <2>4. ~open => t = Owner /\ mInstance = Null
    BY <2>1 DEF Alone
  <2> QED BY <2>1, <2>2, <2>3, <2>4, NameConverterAssumption
          DEF Served, Alone, Counted, Pointers, singleton
<1>2. CASE GetNew(t)
  <2>1. /\ pc[t] = "new" /\ pc' = [pc EXCEPT ![t] = "increment"]
        /\ objects' = objects + 1 /\ heap' = heap \union {objects + 1}
        /\ mInstance' = objects + 1 /\ UNCHANGED <<mRefCount, ptr>>
    BY <1>2 DEF GetNew, Goto
  <2>2. Cardinality(Holders') = Cardinality(Holders) /\ pc' \in [Thread -> PC]
    BY <2>1, <1>0, MoveOne
  <2>3. ~open /\ t = Owner /\ heap = {} /\ objects < MaxObjects
    BY <2>1 DEF Served, Alone
  <2> QED BY <2>1, <2>2, <2>3, NameConverterAssumption
          DEF Served, Alone, Counted, Pointers
<1>3. CASE GetIncrement(t)
  <2>1. /\ pc[t] = "increment" /\ pc' = [pc EXCEPT ![t] = "return"]
        /\ mRefCount' = mRefCount + 1
        /\ UNCHANGED <<mInstance, objects, heap, ptr>>
    BY <1>3 DEF GetIncrement, Goto
  <2>2. /\ Cardinality(Holders') = Cardinality(Holders) + 1 /\ pc' \in [Thread -> PC]
        /\ Cardinality(Holders) \in Nat
    BY <2>1, <1>0, MoveOne
  <2>3. ~open => t = Owner
    BY <2>1 DEF Alone
  <2> QED BY <2>1, <2>2, <2>3, NameConverterAssumption
          DEF Served, Alone, Counted, Pointers
<1>4. CASE GetReturn(t)
  <2>1. /\ pc[t] = "return" /\ pc' = [pc EXCEPT ![t] = "got"]
        /\ ptr' = [ptr EXCEPT ![t] = mInstance] /\ UNCHANGED singleton
    BY <1>4 DEF GetReturn, Goto
  <2>2. Cardinality(Holders') = Cardinality(Holders) /\ pc' \in [Thread -> PC]
    BY <2>1, <1>0, MoveOne
  <2>3. ~open => t = Owner
    BY <2>1 DEF Alone
  <2> QED BY <2>1, <2>2, <2>3, NameConverterAssumption
          DEF Served, Alone, Counted, Pointers, singleton
<1> QED BY <1>1, <1>2, <1>3, <1>4 DEF GetInstancePointer

\* The steps of ReleaseInstance.
LEMMA ReleaseKeeps ==
  ASSUME IInv, NEW t \in Thread, ReleaseInstance(t), UNCHANGED <<open, call>>
  PROVE  IInv'
<1> USE DEF IInv, ThreadTypes, SharingInv
<1>0. /\ {"released", "decrement", "compare", "delete", "clear"} \subseteq PC
      /\ {"release", "decrement"} \subseteq Held
      /\ {"released", "compare", "delete", "clear"} \cap Held = {}
  BY DEF PC, Held, SingletonPC
<1>a. ~open => Cardinality(Holders) = IF pc[Owner] \in Held THEN 1 ELSE 0
  BY AloneCount
<1>1. CASE ReleaseTest(t)
  <2> DEFINE to == IF mRefCount = 0 THEN "released" ELSE "decrement"
  <2>1. pc[t] = "release" /\ pc' = [pc EXCEPT ![t] = to] /\ UNCHANGED <<singleton, ptr>>
    BY <1>1 DEF ReleaseTest, Goto
  <2>2. ~open => t = Owner
    BY <2>1 DEF Alone
  <2>3. Cardinality(Holders) \in Nat
    BY <2>1, <1>0, MoveOne
  <2>4. mRefCount # 0
    BY <2>1, <2>2, <2>3, <1>a, <1>0 DEF Counted
  <2>5. Cardinality(Holders') = Cardinality(Holders) /\ pc' \in [Thread -> PC]
    BY <2>1, <2>4, <1>0, MoveOne
  <2> QED BY <2>1, <2>2, <2>4, <2>5, NameConverterAssumption
          DEF Served, Alone, Counted, Pointers, singleton
<1>2. CASE ReleaseDecrement(t)
  <2>1. /\ pc[t] = "decrement" /\ pc' = [pc EXCEPT ![t] = "compare"]
        /\ mRefCount' = mRefCount - 1
        /\ UNCHANGED <<mInstance, objects, heap, ptr>>
    BY <1>2 DEF ReleaseDecrement, Goto
  <2>2. /\ Cardinality(Holders') = Cardinality(Holders) - 1 /\ pc' \in [Thread -> PC]
        /\ Cardinality(Holders) \in Nat /\ Cardinality(Holders') \in Nat
    BY <2>1, <1>0, MoveOne
  <2>3. ~open => t = Owner
    BY <2>1 DEF Alone
  <2> QED BY <2>1, <2>2, <2>3, NameConverterAssumption
          DEF Served, Alone, Counted, Pointers
<1>3. CASE ReleaseCompare(t)
  <2> DEFINE to == IF mRefCount = 0 THEN "delete" ELSE "released"
  <2>1. pc[t] = "compare" /\ pc' = [pc EXCEPT ![t] = to] /\ UNCHANGED <<singleton, ptr>>
    BY <1>3 DEF ReleaseCompare, Goto
  <2>2. /\ Cardinality(Holders') = Cardinality(Holders) /\ pc' \in [Thread -> PC]
        /\ Cardinality(Holders) \in Nat
    BY <2>1, <1>0, MoveOne
  <2>3. ~open => t = Owner /\ mRefCount = 0
    BY <2>1, <1>a DEF Alone, Counted, Held
  <2>4. open => mRefCount # 0
    BY <2>2 DEF Counted
  <2> QED BY <2>1, <2>2, <2>3, <2>4, NameConverterAssumption
          DEF Served, Alone, Counted, Pointers, singleton
<1>4. CASE ReleaseDelete(t)
  <2>1. /\ pc[t] = "delete" /\ pc' = [pc EXCEPT ![t] = "clear"]
        /\ heap' = heap \ {mInstance} /\ UNCHANGED <<mInstance, mRefCount, objects, ptr>>
    BY <1>4 DEF ReleaseDelete, Goto
  <2>2. Cardinality(Holders') = Cardinality(Holders) /\ pc' \in [Thread -> PC]
    BY <2>1, <1>0, MoveOne
  <2>3. ~open /\ t = Owner /\ heap = {mInstance}
    BY <2>1 DEF Served, Alone
  <2> QED BY <2>1, <2>2, <2>3, NameConverterAssumption
          DEF Served, Alone, Counted, Pointers
<1>5. CASE ReleaseClear(t)
  <2>1. /\ pc[t] = "clear" /\ pc' = [pc EXCEPT ![t] = "released"]
        /\ mInstance' = Null /\ UNCHANGED <<mRefCount, objects, heap, ptr>>
    BY <1>5 DEF ReleaseClear, Goto
  <2>2. Cardinality(Holders') = Cardinality(Holders) /\ pc' \in [Thread -> PC]
    BY <2>1, <1>0, MoveOne
  <2>3. ~open /\ t = Owner /\ heap = {}
    BY <2>1 DEF Served, Alone
  <2> QED BY <2>1, <2>2, <2>3, NameConverterAssumption
          DEF Served, Alone, Counted, Pointers
<1> QED BY <1>1, <1>2, <1>3, <1>4, <1>5 DEF ReleaseInstance

\* load(), the lookups and the return to the program.
LEMMA MethodsKeep ==
  ASSUME IInv, NEW t \in Thread, Load(t) \/ Lookup(t) \/ Return(t)
  PROVE  IInv'
<1> USE DEF IInv, ThreadTypes, SharingInv
<1>0. /\ {"idle", "lookup", "release"} \subseteq PC
      /\ {"got", "lookup", "release"} \subseteq Held
      /\ {"idle", "released"} \cap Held = {}
  BY DEF PC, Held, SingletonPC
<1>1. CASE Load(t)
  <2>1. pc[t] = "got" /\ UNCHANGED <<singleton, ptr, call>>
    BY <1>1 DEF Load, Goto
  <2>2. CASE call[t] = "initialize"
    <3>1. pc' = [pc EXCEPT ![t] = "idle"] /\ open' = TRUE
      BY <1>1, <2>2 DEF Load, Goto
    <3>2. ~open /\ t = Owner /\ heap = {mInstance} /\ mInstance \in 1..objects
      BY <2>1, <2>2 DEF Served, Alone
    <3>3. /\ Cardinality(Holders') = Cardinality(Holders) - 1 /\ pc' \in [Thread -> PC]
          /\ Cardinality(Holders) \in Nat
      BY <2>1, <3>1, <1>0, MoveOne
    <3> QED BY <2>1, <3>1, <3>2, <3>3
            DEF Served, Alone, Counted, Pointers, singleton
  <2>3. CASE call[t] # "initialize"
    <3>1. PICK to \in {"lookup", "release"} : pc' = [pc EXCEPT ![t] = to] /\ open' = open
      BY <1>1, <2>3 DEF Load, Goto
    <3>2. open
      BY <2>1, <2>3 DEF Alone
    <3>3. Cardinality(Holders') = Cardinality(Holders) /\ pc' \in [Thread -> PC]
      BY <2>1, <3>1, <1>0, MoveOne
    <3> QED BY <2>1, <3>1, <3>2, <3>3
            DEF Served, Alone, Counted, Pointers, singleton
  <2> QED BY <2>2, <2>3
<1>2. CASE Lookup(t)
  <2>1. /\ pc[t] = "lookup" /\ pc' = [pc EXCEPT ![t] = "release"]
        /\ UNCHANGED <<singleton, ptr, open, call>>
    BY <1>2 DEF Lookup, Goto
  <2>2. Cardinality(Holders') = Cardinality(Holders) /\ pc' \in [Thread -> PC]
    BY <2>1, <1>0, MoveOne
  <2>3. open
    BY <2>1 DEF Alone
  <2> QED BY <2>1, <2>2, <2>3 DEF Served, Alone, Counted, Pointers, singleton
<1>3. CASE Return(t)
  <2>1. /\ pc[t] = "released" /\ pc' = [pc EXCEPT ![t] = "idle"]
        /\ ptr' = [ptr EXCEPT ![t] = Null] /\ call' = [call EXCEPT ![t] = "none"]
        /\ UNCHANGED <<singleton, open>>
    BY <1>3 DEF Return, Goto
  <2>2. Cardinality(Holders') = Cardinality(Holders) /\ pc' \in [Thread -> PC]
    BY <2>1, <1>0, MoveOne
  <2>3. ~open => t = Owner
    BY <2>1 DEF Alone
  <2> QED BY <2>1, <2>2, <2>3, NameConverterAssumption
          DEF Served, Alone, Counted, Pointers, singleton
<1> QED BY <1>1, <1>2, <1>3

LEMMA SharingInit == Init => IInv
<1> SUFFICES ASSUME Init PROVE IInv
  OBVIOUS
<1>1. pc \in [Thread -> PC] /\ open = FALSE /\ \A t \in Thread : pc[t] = "idle"
  BY DEF Init, PC, SingletonPC
<1>2. Holders = {}
  BY <1>1 DEF Holders
<1>3. Cardinality(Holders) = 0
  BY <1>2, FS_EmptySet
<1>4. ThreadTypes
  <2>1. /\ ptr = [t \in Thread |-> Null] /\ call = [t \in Thread |-> "none"]
        /\ mInstance = Null /\ mRefCount = 0 /\ objects = 0 /\ heap = {}
    BY DEF Init, SingletonInit
  <2>2. /\ ptr \in [Thread -> 1..MaxObjects \union {Null}]
        /\ call \in [Thread -> {"none", "initialize", "lookup", "reload", "finalize"}]
    BY <2>1
  <2>3. /\ mInstance \in 1..MaxObjects \union {Null} /\ mRefCount \in Nat
        /\ objects \in 0..MaxObjects /\ heap \subseteq 1..objects
    BY <2>1, NameConverterAssumption
  <2> QED BY <1>1, <2>2, <2>3 DEF ThreadTypes
<1>5. Served /\ Alone
  BY <1>1, NameConverterAssumption DEF Init, SingletonInit, Served, Alone
<1>6. Counted
  BY <1>1, <1>3 DEF Init, SingletonInit, Counted
<1>7. Pointers
  BY <1>1 DEF Pointers
<1> QED BY <1>4, <1>5, <1>6, <1>7 DEF IInv, SharingInv

LEMMA SharingStep == IInv /\ [Next]_vars => IInv'
<1> SUFFICES ASSUME IInv, [Next]_vars PROVE IInv'
  OBVIOUS
<1>1. CASE SystemChanges \/ UNCHANGED vars
  <2>1. UNCHANGED <<mInstance, mRefCount, objects, heap, pc, ptr, open, call>>
    BY <1>1 DEF SystemChanges, vars, singleton
  <2>2. Holders' = Holders
    BY <2>1 DEF Holders
  <2> QED BY <2>1, <2>2 DEF IInv, ThreadTypes, SharingInv, Served, Alone, Counted, Pointers
<1>2. ASSUME NEW t \in Thread, SingletonStep(t)
      PROVE  IInv'
  BY <1>2, GetKeeps, ReleaseKeeps DEF SingletonStep
<1> QED BY <1>1, <1>2, BeginKeeps, MethodsKeep DEF Next
-----------------------------------------------------------------------------
(* The table *)

\* A table is a sequence of drives, and so is the front of one.
Drive == [letter : Letter, head : Seq(Nat), tail : Seq(Nat),
          type : {"fixed", "removable", "remote"}]

LEMMA FrontIsPrefix ==
  ASSUME NEW s \in Seq(Drive), NEW n \in 0..Len(s)
  PROVE  IsPrefix(SubSeq(s, 1, n), s) /\ SubSeq(s, 1, n) \in Seq(Drive)
<1>1. /\ SubSeq(s, 1, n) \in Seq(Drive) /\ Len(SubSeq(s, 1, n)) = n
  <2>1. \A i \in 1..n : s[i] \in Drive
    BY ElementOfSeq
  <2> QED BY <2>1, SubSeqProperties
<1>2. SubSeq(SubSeq(s, 1, n), 1, n) = SubSeq(s, 1, n)
  BY <1>1, SubSeqFull
<1> QED BY <1>1, <1>2 DEF IsPrefix

LEMMA SystemsAreTables ==
  /\ Systems \subseteq Seq(Drive)
  /\ \A s \in Systems : Len(s) \in Nat /\ IsPrefix(s, s) /\ IsPrefix(<<>>, s)
<1>1. Systems \subseteq Seq(Drive)
  BY NameConverterAssumption DEF Drive
<1>2. ASSUME NEW s \in Systems
      PROVE  Len(s) \in Nat /\ IsPrefix(s, s) /\ IsPrefix(<<>>, s)
  <2>1. s \in Seq(Drive) /\ Len(s) \in Nat
    BY <1>1, LenProperties
  <2>2. SubSeq(s, 1, Len(s)) = s /\ SubSeq(s, 1, 0) = <<>>
    BY <2>1, SubSeqFull, SubSeqEmpty
  <2>3. IsPrefix(SubSeq(s, 1, Len(s)), s) /\ IsPrefix(SubSeq(s, 1, 0), s)
    BY <2>1, FrontIsPrefix
  <2> QED BY <2>1, <2>2, <2>3
<1> QED BY <1>1, <1>2

\* What load(false) passes over is whole, but for the one exception.
Whole == _loaded /\ ~cut => _dos_devices \in Systems /\ Mup \in _mup_devices

TableInv == TableTypes /\ Whole /\ _dos_devices \in Seq(Drive)

LEMMA TableInit == Init => TableInv
BY SystemsAreTables, EmptySeq DEF Init, TableInv, TableTypes, Whole

\* Whatever happens to the lists, they come from one system, and only a load that
\* has failed leaves a loaded table cut.
LEMMA TableStep == TableInv /\ [Next]_vars => TableInv'
<1> SUFFICES ASSUME TableInv, [Next]_vars PROVE TableInv'
  OBVIOUS
<1> USE DEF TableInv, TableTypes, Whole
<1>1. CASE UNCHANGED <<drives, object>>
  BY <1>1 DEF object
<1>2. CASE SystemChanges
  BY <1>2 DEF SystemChanges, object
<1>3. ASSUME NEW t \in Thread, SingletonStep(t), objects' # objects
      PROVE  TableInv'
  <2>1. Construct /\ drives' = drives
    BY <1>3 DEF SingletonStep
  <2> QED BY <2>1, SystemsAreTables, EmptySeq DEF Construct
<1>4. ASSUME NEW force \in BOOLEAN, LoadSucceeds(force), drives' = drives
      PROVE  TableInv'
  <2>1. Mup \in _mup_devices' /\ _mup_devices' \subseteq Provider
    BY <1>4, NameConverterAssumption DEF LoadSucceeds, ReadProviders
  <2> QED BY <1>4, <2>1, SystemsAreTables DEF LoadSucceeds
<1>5. ASSUME NEW force \in BOOLEAN, LoadFails(force), drives' = drives
      PROVE  TableInv'
  <2>1. (\E s \in Systems : IsPrefix(_dos_devices', s)) /\ _dos_devices' \in Seq(Drive)
    <3>1. CASE DriveListFails
      <4>1. PICK n \in 0..(Len(drives) - 1) : _dos_devices' = SubSeq(drives, 1, n)
        BY <3>1 DEF DriveListFails
      <4>2. drives \in Seq(Drive) /\ n \in 0..Len(drives)
        BY SystemsAreTables
      <4> QED BY <4>1, <4>2, FrontIsPrefix
    <3>2. CASE ProviderListFails
      BY <3>2, SystemsAreTables DEF ProviderListFails
    <3> QED BY <1>5, <3>1, <3>2 DEF LoadFails
  <2>2. cut' = _loaded /\ _loaded' = _loaded /\ _mup_devices' \subseteq Provider
    BY <1>5 DEF LoadFails, DriveListFails, ProviderListFails
  <2> QED BY <1>5, <2>1, <2>2
<1>6. ASSUME NEW t \in Thread, Load(t)
      PROVE  TableInv'
  BY <1>6, <1>1, <1>4, <1>5 DEF Load, AlreadyLoaded
<1>7. ASSUME NEW t \in Thread, SingletonStep(t), objects' = objects
      PROVE  TableInv'
  BY <1>7, <1>1 DEF SingletonStep
<1>8. ASSUME NEW t \in Thread, nc_initialize(t) \/ nc_call(t) \/ nc_finalize(t)
                                 \/ Lookup(t) \/ Return(t)
      PROVE  TableInv'
  BY <1>8, <1>1 DEF nc_initialize, nc_call, nc_finalize, Begin, Lookup, Return
<1> QED BY <1>1, <1>2, <1>3, <1>6, <1>7, <1>8 DEF Next, vars

\* A lookup that has passed load(false) finds the object loaded when it has the lock.
Reading == \A t \in Thread : pc[t] = "lookup" => _loaded

\* Nobody looks anything up while the object is made anew: it is made by an owner that
\* is alone.
LEMMA ReadingStep == IInv /\ TableInv /\ Reading /\ [Next]_vars => Reading'
<1> SUFFICES ASSUME IInv, TableInv, Reading, [Next]_vars PROVE Reading'
  OBVIOUS
<1>0. pc \in [Thread -> PC] /\ _loaded \in BOOLEAN
  BY DEF IInv, ThreadTypes, TableInv, TableTypes
<1> USE <1>0 DEF Reading
<1>1. CASE SystemChanges \/ UNCHANGED vars
  BY <1>1 DEF SystemChanges, vars, object
<1>2. ASSUME NEW t \in Thread, nc_initialize(t) \/ nc_call(t) \/ nc_finalize(t)
                                 \/ Lookup(t) \/ Return(t)
      PROVE  Reading'
  BY <1>2 DEF nc_initialize, nc_call, nc_finalize, Begin, Lookup, Return, Goto, object
<1>3. ASSUME NEW t \in Thread, SingletonStep(t)
      PROVE  Reading'
  <2>1. /\ GetInstancePointer(t) \/ ReleaseInstance(t)
        /\ IF objects' = objects THEN UNCHANGED object ELSE Construct
    BY <1>3 DEF SingletonStep
  <2>2. \A u \in Thread : pc'[u] = "lookup" => pc[u] = "lookup"
    BY <2>1 DEF GetInstancePointer, GetTest, GetNew, GetIncrement, GetReturn,
                ReleaseInstance, ReleaseTest, ReleaseDecrement, ReleaseCompare,
                ReleaseDelete, ReleaseClear, Goto
  <2>3. CASE objects' = objects
    BY <2>1, <2>2, <2>3 DEF object
  <2>4. CASE objects' # objects
    <3>1. pc[t] = "new"
      BY <2>1, <2>4 DEF GetInstancePointer, GetTest, GetNew, GetIncrement, GetReturn,
                ReleaseInstance, ReleaseTest, ReleaseDecrement, ReleaseCompare,
                ReleaseDelete, ReleaseClear, Goto, singleton
    <3>2. ~open
      BY <3>1 DEF IInv, SharingInv, Served
    <3>3. \A u \in Thread : pc[u] # "lookup"
      BY <3>2 DEF IInv, SharingInv, Alone
    <3> QED BY <2>2, <3>3
  <2> QED BY <2>3, <2>4
<1>4. ASSUME NEW t \in Thread, Load(t)
      PROVE  Reading'
  <2>1. PICK force \in BOOLEAN : AlreadyLoaded(force) \/ LoadSucceeds(force) \/ LoadFails(force)
    BY <1>4 DEF Load
  <2>2. _loaded => _loaded'
    BY <2>1 DEF AlreadyLoaded, LoadSucceeds, LoadFails, object
  <2>3. \A u \in Thread : pc'[u] = "lookup" => pc[u] = "lookup" \/ _loaded'
    BY <1>4 DEF Load, Goto, AlreadyLoaded, LoadSucceeds, object
  <2> QED BY <2>2, <2>3
<1> QED BY <1>1, <1>2, <1>3, <1>4 DEF Next
-----------------------------------------------------------------------------
(* What a table answers *)

\* The loops find the first of the positions they look for.
LEMMA FirstIsOne ==
  ASSUME NEW d \in Seq(Drive), NEW hits \in SUBSET (DOMAIN d), hits # {}
  PROVE  \E i \in hits : FirstOf(d, hits) = d[i]
<1>1. hits \subseteq Nat
  BY LenProperties
<1> DEFINE Less == OpToRel(<, Nat)
<1>2. \A i, j \in Nat : j < i => <<j, i>> \in Less
  BY Zenon DEF OpToRel
<1>3. IsWellFoundedOn(Less, Nat)
  BY NatLessThanWellFounded
<1> HIDE DEF Less
<1>4. PICK i \in hits : \A j \in hits : <<j, i>> \notin Less
  BY <1>1, <1>3, WFMin
<1>5. ASSUME NEW j \in hits
      PROVE  i <= j
  <2>1. i \in Nat /\ j \in Nat
    BY <1>1
  <2>2. ~ (j < i)
    BY <1>2, <1>4, <2>1, Zenon
  <2> QED BY <2>1, <2>2
<1> QED BY <1>5 DEF FirstOf

\* A device whose head the name begins with has that head, or a longer one.
LEMMA HeadIsPrefix ==
  ASSUME NEW v \in Seq(Nat), NEW w \in Seq(Nat)
  PROVE  /\ IsPrefix(v, v) /\ Len(v) # Len(v) + 1
         /\ IsPrefix(v, w) /\ Len(w) # Len(v) + 1 => w = v \/ Len(w) > Len(v) + 1
<1>1. PICK m, n : m = Len(v) /\ n = Len(w)
  OBVIOUS
<1>2. m \in Nat /\ n \in Nat /\ SubSeq(v, 1, m) = v /\ SubSeq(w, 1, n) = w
  BY <1>1, LenProperties, SubSeqFull
<1>3. m <= m /\ m # m + 1
  BY <1>2
<1>4. ASSUME IsPrefix(v, w), n # m + 1
      PROVE  w = v \/ n > m + 1
  <2>1. m <= n /\ SubSeq(w, 1, m) = v
    BY <1>1, <1>2, <1>4 DEF IsPrefix
  <2>2. n = m \/ n > m + 1
    BY <1>2, <1>4, <2>1
  <2> QED BY <1>2, <2>1, <2>2
<1>5. IsPrefix(v, v)
  BY <1>1, <1>3 DEF IsPrefix
<1> QED BY <1>1, <1>3, <1>4, <1>5

LEMMA AnswersFromTable == ASSUME TableInv PROVE AnswersAreExact
<1> DEFINE d == _dos_devices
<1>0. d \in Seq(Drive) /\ \A i \in DOMAIN d : d[i] \in Drive
  BY LenProperties DEF TableInv
<1> SUFFICES ASSUME NEW c \in Lookups, c.op \in {"letter", "canon", "removable"}
             PROVE  LET found == Answer(c)
                        on == Denoted(d, c.name)
                    IN  IF found = NotFound \/ found[1] = "network"
                        THEN \A i \in on : Overlooked(d, c, d[i])
                        ELSE \E i \in DOMAIN d : /\ i \in on \/ Mistaken(c, d[i])
                                                 /\ RightFor(found, c.op, d[i])
  BY DEF AnswersAreExact
<1> DEFINE on == Denoted(d, c.name)
<1>1. c.name \in Name /\ c.name.head \in Seq(Nat) /\ c.name.slash \in BOOLEAN
  BY NameConverterAssumption DEF Lookups
<1>2. ASSUME NEW hits \in SUBSET (DOMAIN d)
      PROVE  /\ hits = {} => FirstOf(d, hits) = NoDrive
             /\ hits # {} => \E i \in hits : FirstOf(d, hits) = d[i] /\ d[i] # NoDrive
  <2>1. hits = {} => FirstOf(d, hits) = NoDrive
    BY DEF FirstOf
  <2>2. \A i \in DOMAIN d : d[i] # NoDrive
    BY <1>0, NameConverterAssumption DEF Drive, NoDrive
  <2> HIDE DEF d
  <2> QED BY <1>0, <2>1, <2>2, FirstIsOne
<1>3. \A i \in DOMAIN d : d[i].head \in Seq(Nat)
  BY <1>0 DEF Drive
<1>4. CASE c.op = "letter"
  <2> DEFINE hits == {i \in DOMAIN d : NameMatches(c.name, d[i])}
             x == FirstOf(d, hits)
  <2>1. Answer(c) = Found(x, <<"letter", x.letter>>)
    BY <1>4 DEF Answer, get_drive_letter_by_device_name
  <2>2. on \subseteq hits
    BY <1>1, <1>3, HeadIsPrefix DEF Denoted, NameMatches
  <2>3. \A i \in hits : Mistaken(c, d[i])
    BY <1>1, <1>3, <1>4, HeadIsPrefix DEF NameMatches, Mistaken, TwoDigitsMore, SameRedirector
  <2>4. CASE hits = {}
    <3>1. Answer(c) = NotFound
      BY <1>2, <2>1, <2>4 DEF Found
    <3> QED BY <2>2, <2>4, <3>1
  <2>5. CASE hits # {}
    <3>1. PICK i \in hits : x = d[i] /\ d[i] # NoDrive
      BY <1>2, <2>5
    <3>2. Answer(c) = <<"letter", d[i].letter>>
      BY <2>1, <3>1 DEF Found
    <3>3. RightFor(Answer(c), c.op, d[i])
      BY <1>4, <3>2 DEF RightFor
    <3> QED BY <2>3, <3>1, <3>2, <3>3 DEF NotFound
  <2> QED BY <2>4, <2>5
<1>5. CASE c.op = "canon"
  <2> DEFINE hits == {i \in DOMAIN d : BeginsWith(c.name, d[i])}
             x == FirstOf(d, hits)
  <2>1. Answer(c) = IF x = NoDrive THEN is_network_path(_mup_devices, c.name)
                    ELSE <<IF x.type = "remote" THEN "share" ELSE "letter", x.letter>>
    BY <1>5 DEF Answer, get_canon_name
  <2>2. CASE hits = {}
    <3>1. Answer(c) = NotFound \/ Answer(c) = <<"network", "mup">>
      BY <1>2, <2>1, <2>2 DEF is_network_path
    <3>2. \A i \in on : ~BeginsWith(c.name, d[i])
      BY <2>2 DEF Denoted
    <3>3. \A i \in on : Overlooked(d, c, d[i])
      BY <1>5, <3>2 DEF Denoted, BeginsWith, Overlooked
    <3> QED BY <3>1, <3>3
  <2>3. CASE hits # {}
    <3>1. PICK i \in hits : x = d[i] /\ d[i] # NoDrive
      BY <1>2, <2>3
    <3>2. Answer(c) = <<IF d[i].type = "remote" THEN "share" ELSE "letter", d[i].letter>>
      BY <2>1, <3>1
    <3>3. i \in on /\ i \in DOMAIN d
      BY <3>1 DEF BeginsWith, Denoted
    <3>4. RightFor(Answer(c), c.op, d[i])
      BY <1>5, <3>2 DEF RightFor
    <3> QED BY <3>2, <3>3, <3>4 DEF NotFound
  <2> QED BY <2>2, <2>3
<1>6. CASE c.op = "removable"
  <2> DEFINE hits == {i \in DOMAIN d : ThirdBackslash(c.name) /\ d[i].head = c.name.head}
             x == FirstOf(d, hits)
  <2>1. Answer(c) = IF x.type = "removable" THEN <<"removable", x.letter>> ELSE NotFound
    BY <1>6 DEF Answer, is_removable_drive
  <2>2. CASE hits = {}
    <3>1. Answer(c) = NotFound
      BY <1>2, <2>1, <2>2 DEF NoDrive
    <3>2. \A i \in on : ~ThirdBackslash(c.name)
      BY <2>2 DEF Denoted
    <3> QED BY <1>6, <3>1, <3>2 DEF Overlooked
  <2>3. CASE hits # {}
    <3>1. PICK i \in hits : x = d[i]
      BY <1>2, <2>3
    <3>2. CASE d[i].type = "removable"
      <4>1. Answer(c) = <<"removable", d[i].letter>>
        BY <2>1, <3>1, <3>2
      <4>2. RightFor(Answer(c), c.op, d[i])
        BY <1>6, <3>2, <4>1 DEF RightFor
      <4>3. Mistaken(c, d[i])
        BY <1>6, <3>1 DEF Mistaken, SameRedirector
      <4> QED BY <3>1, <4>1, <4>2, <4>3 DEF NotFound
    <3>3. CASE d[i].type # "removable"
      <4>1. Answer(c) = NotFound
        BY <2>1, <3>1, <3>3
      <4>2. \A j : Overlooked(d, c, d[j])
        BY <1>6, <3>1, <3>3 DEF Overlooked
      <4> QED BY <4>1, <4>2
    <3> QED BY <3>2, <3>3
  <2> QED BY <2>2, <2>3
<1> QED BY <1>4, <1>5, <1>6
-----------------------------------------------------------------------------
\* Every variable of the singleton, the threads and the table has its type.
THEOREM ConverterTypeCorrect == Spec => []TypeOK
<1>1. IInv /\ TableInv => TypeOK
  BY DEF IInv, TableInv, ThreadTypes, TableTypes, TypeOK, PC
<1> QED BY <1>1, SharingInit, SharingStep, TableInit, TableStep, PTL DEF Spec

\* Singleton counts the users of the object while the owner keeps to the rule: the
\* counter is exact, no thread uses a deleted object, and nothing is left after the
\* last release -- for any number of clients and of rounds.
THEOREM SharingIsCounted == Spec => []ObjectIsShared
<1>1. IInv => RefCountExact
  <2> SUFFICES ASSUME IInv PROVE RefCountExact
    OBVIOUS
  <2>1. mRefCount = Cardinality(Holders) + (IF open THEN 1 ELSE 0)
    BY DEF IInv, SharingInv, Counted
  <2>2. mRefCount # 0 => heap = {mInstance}
    <3>1. CASE open
      BY <3>1 DEF IInv, SharingInv, Served
    <3>2. CASE ~open
      <4>1. mRefCount = IF pc[Owner] \in Held THEN 1 ELSE 0
        BY <3>2, <2>1, AloneCount DEF IInv, SharingInv
      <4> QED BY <3>2, <4>1 DEF IInv, SharingInv, Alone, Held
    <3> QED BY <3>1, <3>2
  <2> QED BY <2>1, <2>2 DEF RefCountExact
<1>2. IInv => NoUseAfterFree
  <2> SUFFICES ASSUME IInv, NEW t \in Thread, pc[t] \in {"got", "lookup"}
               PROVE  ptr[t] \in heap
    BY DEF NoUseAfterFree
  <2> QED BY DEF IInv, SharingInv, Pointers, Served, Alone
<1>3. IInv => NothingLeft
  <2> SUFFICES ASSUME IInv, ~open, \A t \in Thread : pc[t] = "idle"
               PROVE  heap = {} /\ mInstance = Null /\ mRefCount = 0
    BY DEF NothingLeft
  <2>1. heap = {} /\ mInstance = Null
    BY NameConverterAssumption DEF IInv, SharingInv, Alone
  <2>2. mRefCount = 0
    BY AloneCount, NameConverterAssumption DEF IInv, SharingInv, Counted, Held
  <2> QED BY <2>1, <2>2
<1>4. IInv /\ TypeOK => ObjectIsShared
  BY <1>1, <1>2, <1>3 DEF ObjectIsShared
<1> QED BY <1>4, SharingInit, SharingStep, ConverterTypeCorrect, PTL DEF Spec

\* A lookup reads a loaded table, and a loaded table is whole unless a forced reload of
\* it has failed and none succeeded since: however threads load, reload, fail, look up,
\* release and make the object anew, and the system changes its drives.
THEOREM LoadedIsWhole == Spec => []WholeTable
<1>1. Init => Reading
  BY DEF Init, Reading
<1>2. TableInv /\ Reading => WholeTable
  BY DEF TableInv, Whole, Reading, WholeTable
<1> QED BY <1>1, <1>2, SharingInit, SharingStep, TableInit, TableStep, ReadingStep, PTL DEF Spec

\* A lookup answers for a drive the name denotes, and finds one that is denoted, but for
\* what is Mistaken and Overlooked: for all drive tables and all names, whatever reloads
\* and failures made the table it reads.
THEOREM AnswersAreRight == Spec => []AnswersAreExact
<1>1. TableInv => AnswersAreExact
  BY AnswersFromTable
<1> QED BY <1>1, TableInit, TableStep, PTL DEF Spec
=============================================================================
