----------------------------- MODULE Singleton ------------------------------
(***************************************************************************)
(* Singleton<T> (src/Singleton.h): a reference-counted object that is      *)
(* created by the first GetInstancePointer and deleted by the last         *)
(* ReleaseInstance.  Only the counter is changed atomically: the test of   *)
(* mInstance, its creation, the increment and the final read of mInstance  *)
(* are four steps, and so are the test of the counter, the decrement, the  *)
(* comparison with zero, the delete and the assignment of NULL.            *)
(***************************************************************************)
EXTENDS Integers

CONSTANTS Thread,
          Null     \* the null pointer

\* Objects are named by the numbers 1, 2, ... in the order of their creation.
ASSUME SingletonAssumption == Null \notin Nat

VARIABLES mInstance, mRefCount,
          objects,  \* how many objects were created so far
          heap,     \* the objects that have not been deleted
          pc,       \* where each thread is
          ptr       \* what GetInstancePointer returned to each thread

singleton == <<mInstance, mRefCount, objects, heap>>

\* Inside GetInstancePointer and ReleaseInstance; after them a thread is at
\* "got" and at "released".
SingletonPC == {"get", "new", "increment", "return", "got",
                "release", "decrement", "compare", "delete", "clear", "released"}

Goto(t, from, to) == pc[t] = from /\ pc' = [pc EXCEPT ![t] = to]

SingletonInit == /\ mInstance = Null
                 /\ mRefCount = 0
                 /\ objects = 0
                 /\ heap = {}

\* if (NULL == mInstance)
GetTest(t) == /\ Goto(t, "get", IF mInstance = Null THEN "new" ELSE "increment")
              /\ UNCHANGED <<singleton, ptr>>

\* mInstance = new T();
GetNew(t) == /\ Goto(t, "new", "increment")
             /\ objects' = objects + 1
             /\ heap' = heap \union {objects + 1}
             /\ mInstance' = objects + 1
             /\ UNCHANGED <<mRefCount, ptr>>

\* Mutant: the reference is not counted.
GetUncounted(t) == /\ Goto(t, "increment", "return")
                   /\ UNCHANGED <<singleton, ptr>>

\* MyInterlockedIncrement(&mRefCount)
GetIncrement(t) == /\ Goto(t, "increment", "return")
                   /\ mRefCount' = mRefCount + 1
                   /\ UNCHANGED <<mInstance, objects, heap, ptr>>

\* return mInstance;
GetReturn(t) == /\ Goto(t, "return", "got")
                /\ ptr' = [ptr EXCEPT ![t] = mInstance]
                /\ UNCHANGED singleton

GetInstancePointer(t) == GetTest(t) \/ GetNew(t) \/ GetIncrement(t) \/ GetReturn(t)

\* if (0 == mRefCount) return;
ReleaseTest(t) ==
  /\ Goto(t, "release", IF mRefCount = 0 THEN "released" ELSE "decrement")
  /\ UNCHANGED <<singleton, ptr>>

\* MyInterlockedDecrement(&mRefCount)
ReleaseDecrement(t) == /\ Goto(t, "decrement", "compare")
                       /\ mRefCount' = mRefCount - 1
                       /\ UNCHANGED <<mInstance, objects, heap, ptr>>

\* if (0 == MyInterlockedCompareExchange(&mRefCount, 0, 0))
ReleaseCompare(t) ==
  /\ Goto(t, "compare", IF mRefCount = 0 THEN "delete" ELSE "released")
  /\ UNCHANGED <<singleton, ptr>>

\* delete mInstance;
ReleaseDelete(t) == /\ Goto(t, "delete", "clear")
                    /\ heap' = heap \ {mInstance}
                    /\ UNCHANGED <<mInstance, mRefCount, objects, ptr>>

\* mInstance = NULL;
ReleaseClear(t) == /\ Goto(t, "clear", "released")
                   /\ mInstance' = Null
                   /\ UNCHANGED <<mRefCount, objects, heap, ptr>>

ReleaseInstance(t) == \/ ReleaseTest(t) \/ ReleaseDecrement(t) \/ ReleaseCompare(t)
                      \/ ReleaseDelete(t) \/ ReleaseClear(t)

\* The threads between their increment and their decrement.
Holders == {t \in Thread :
              pc[t] \notin {"idle", "get", "new", "increment", "compare",
                            "delete", "clear", "released"}}
=============================================================================
