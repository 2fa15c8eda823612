-------------------------- MODULE FileStreamProofs --------------------------
(***************************************************************************)
(* Proofs about FileIoHelper, for any handles, sizes and ranges, any width *)
(* of the DWORDs, and any page, granularity and block size; and, in the    *)
(* second part, about CMemoryStream, for any page size, any amount of      *)
(* memory, any bytes and any strings.  The parts need nothing of each      *)
(* other.                                                                  *)
(*                                                                         *)
(* FileIoHelper: the invariant says at which place of an open which part   *)
(* of the object is set, so that a section and a view are counted exactly  *)
(* while the object knows them, and to whom an open handle belongs, from   *)
(* the way it was opened.  Nothing is said of handles once the object has  *)
(* closed one that is not its own; everything else holds then too.         *)
(*                                                                         *)
(* MemoryStream: no call reaches outside the block or reads a cell nobody  *)
(* has written, what was written is read again, and the memory behind a    *)
(* view is left alone.  The calls are operators on the state of a stream,  *)
(* so the invariant is a predicate Good of such a state, and there is one  *)
(* lemma per call: it takes good states to good states.  The composed      *)
(* calls follow from the ones they make.  What a stream holds of what was  *)
(* written is a second predicate, Remembered, and a write is described by  *)
(* the cells it leaves and the cells it sets.                              *)
(***************************************************************************)
EXTENDS FileIoHelper, MemoryStream, FiniteSetTheorems, SequenceTheorems, TLAPS

Handle == Handles \union {INVALID}
Mapped == [from : Nat, len : Nat, offset : Nat, size : Nat]
Object == [_do_not_close_handle : BOOLEAN, _read_only : BOOLEAN, _file_handle : Handle,
           _file_size : Nat, _map_handle : Nat, _file_view : {nullptr} \union Mapped]
System == [table : [Handles -> {"free", "caller", "locked", "written", "hash"}], size : Nat,
           views : Nat, sections : Nat, wasPath : BOOLEAN, stolen : BOOLEAN,
           shrunk : BOOLEAN, refused : BOOLEAN]
Place == {"idle", "size", "map", "extend", "mapnew", "block", "crashed"}
Task == [at : Place, handle : Handle, own : BOOLEAN, size : Nat, write : BOOLEAN]

Types == /\ sys \in System /\ mine \in Handle
         /\ obj \in [Threads -> Object] /\ task \in [Threads -> Task]
         /\ seen \in Seq(Nat)

IsClosed(o) == o._file_handle = INVALID /\ o._map_handle = 0 /\ o._file_view = nullptr

\* The user's object: while it is being opened it is closed or half open.
UserPlaces ==
  LET o == obj["user"]
      k == task["user"]
  IN  /\ k.at \in {"idle", "size", "map", "extend", "mapnew"}
      /\ k.at = "idle" => (o._file_handle = INVALID <=> o._map_handle = 0)
      /\ k.at \in {"size", "map"} => IsClosed(o) /\ k.handle # INVALID
      /\ k.at \in {"extend", "mapnew"} =>
           /\ o._file_handle # INVALID /\ o._map_handle = 0 /\ o._file_view = nullptr
           /\ o._do_not_close_handle = FALSE
      /\ o._file_view # nullptr => o._map_handle # 0
      /\ k.own = TRUE => k.at \in {"size", "map"} /\ o._do_not_close_handle = FALSE

\* The object of the hash functions: it never has a view between two steps and is
\* never told to close the handle.
HashPlaces ==
  LET o == obj["hash"]
      k == task["hash"]
  IN  /\ k.at \in {"idle", "size", "map", "block", "crashed"}
      /\ o._file_view = nullptr /\ o._do_not_close_handle = TRUE
      /\ k.at \in {"idle", "size", "map"} => IsClosed(o)
      /\ k.at \in {"block", "crashed"} => o._file_handle = k.handle /\ o._map_handle # 0
      /\ IF k.at = "idle" THEN k.own = FALSE ELSE k.handle # INVALID

One(b) == IF b THEN 1 ELSE 0

Counted ==
  /\ sys.sections = One(obj["user"]._map_handle # 0) + One(obj["hash"]._map_handle # 0)
  /\ sys.views = One(obj["user"]._file_view # nullptr)

\* Only an object that has opened a file by its path closes handles.
PathsRemembered ==
  /\ sys.stolen = TRUE => sys.wasPath = TRUE
  /\ obj["user"]._do_not_close_handle = FALSE => sys.wasPath = TRUE
  /\ \A h \in Handles : sys.table[h] \in {"locked", "written"} => sys.wasPath = TRUE

\* Whose an open handle is, from the way it was opened ...
Belongs ==
  \A h \in Handles :
    /\ sys.table[h] = "caller" <=> h = mine
    /\ sys.table[h] = "hash" => h = task["hash"].handle /\ task["hash"].own = TRUE
    /\ sys.table[h] = "locked" =>
         \/ h = task["user"].handle /\ task["user"].own = TRUE
         \/ h = obj["user"]._file_handle /\ obj["user"]._do_not_close_handle = FALSE
    /\ sys.table[h] = "written" =>
         h = obj["user"]._file_handle /\ obj["user"]._do_not_close_handle = FALSE

\* ... and how the handle was opened that a thread works with.
Used ==
  /\ task["user"].at \in {"size", "map"} =>
       IF task["user"].own THEN sys.table[task["user"].handle] = "locked"
       ELSE task["user"].handle = mine
  /\ task["hash"].at # "idle" =>
       IF task["hash"].own THEN sys.table[task["hash"].handle] = "hash"
       ELSE task["hash"].handle = mine
  /\ obj["user"]._file_handle \notin {INVALID, mine} =>
       /\ sys.table[obj["user"]._file_handle] \in {"locked", "written"}
       /\ obj["user"]._do_not_close_handle = FALSE

HandlesKnown == sys.stolen = FALSE => Belongs /\ Used

\* The section of the hash has all of the file unless that was truncated.
Hashing == /\ seen = Bytes(0, Len(seen))
           /\ task["hash"].at \in {"size", "map"} => seen = <<>>
           /\ task["hash"].at = "block" =>
                /\ Len(seen) <= obj["hash"]._file_size
                /\ sys.shrunk = FALSE => obj["hash"]._file_size <= obj["hash"]._map_handle
           /\ task["hash"].at = "crashed" => sys.shrunk = TRUE \/ sys.refused = TRUE

\* What ViewsHoldWhatWasAsked says of the pointer.
ViewHolds ==
  LET o == obj["user"]
      v == o._file_view
      end == IF v.offset + v.size > o._file_size THEN o._file_size ELSE v.offset + v.size
      low == v.offset % AllocationGranularity
  IN  v # nullptr =>
        /\ v.from + v.len <= o._map_handle
        /\ low + (end - v.offset) < DWORD => v.from <= v.offset /\ end <= v.from + v.len

CopyHolds == copied.ok => copied.offset + copied.size <= Pages(copied.of)

IInv == /\ Types /\ UserPlaces /\ HashPlaces /\ Counted /\ PathsRemembered /\ HandlesKnown
        /\ Hashing /\ ViewHolds /\ CopyHolds
-----------------------------------------------------------------------------
\* A view is recognized by its fields, whatever its length.
LEMMA ViewsDiffer == /\ \A f, l : [from |-> f, len |-> l] # nullptr
                     /\ \A v \in Mapped : v # nullptr
<1>1. "from" \notin DOMAIN nullptr
  BY DEF nullptr
<1>2. \A f, l : "from" \in DOMAIN [from |-> f, len |-> l]
  OBVIOUS
<1>3. \A v \in Mapped : "from" \in DOMAIN v
  BY DEF Mapped
<1> QED BY <1>1, <1>2, <1>3

\* The sets NothingMappedIsLost counts have the two objects as members.
LEMMA CountOfTwo ==
  ASSUME NEW S \in SUBSET Threads
  PROVE  Cardinality(S) = One("user" \in S) + One("hash" \in S)
<1>1. Cardinality({}) = 0 /\ IsFiniteSet({})
  BY FS_EmptySet
<1>2. \A t : IsFiniteSet({t}) /\ Cardinality({t}) = 1
  BY FS_Singleton
<1>3. Cardinality({"user", "hash"}) = 2
  <2>1. Cardinality({"user"} \union {"hash"}) = Cardinality({"user"}) + 1
    BY <1>2, FS_AddElement
  <2>2. {"user"} \union {"hash"} = {"user", "hash"}
    OBVIOUS
  <2> QED BY <1>2, <2>1, <2>2
<1>4. S = {} \/ S = {"user"} \/ S = {"hash"} \/ S = {"user", "hash"}
  BY DEF Threads
<1>5. CASE S = {}
  BY <1>1, <1>5 DEF One
<1>6. CASE S = {"user"}
  <2>1. "user" \in S /\ ~("hash" \in S)
    BY <1>6
  <2>2. One("user" \in S) = 1 /\ One("hash" \in S) = 0
    BY <2>1 DEF One
  <2>3. Cardinality(S) = 1
    BY <1>2, <1>6
  <2> QED BY <2>2, <2>3
<1>7. CASE S = {"hash"}
  <2>1. "hash" \in S /\ ~("user" \in S)
    BY <1>7
  <2>2. One("user" \in S) = 0 /\ One("hash" \in S) = 1
    BY <2>1 DEF One
  <2>3. Cardinality(S) = 1
    BY <1>2, <1>7
  <2> QED BY <2>2, <2>3
<1>8. CASE S = {"user", "hash"}
  BY <1>3, <1>8 DEF One
<1> QED BY <1>4, <1>5, <1>6, <1>7, <1>8

\* What close() leaves of the user's object, and of the system.
LEMMA Closing ==
  ASSUME IInv, task["user"].at = "idle"
  PROVE  LET o == obj["user"]
             c == Closed(o)
             s == Close(o, sys)
         IN  /\ c \in Object /\ IsClosed(c) /\ c._do_not_close_handle = o._do_not_close_handle
             /\ s \in System /\ s.views = 0 /\ s.sections = One(obj["hash"]._map_handle # 0)
             /\ s.size = sys.size /\ s.wasPath = sys.wasPath
             /\ s.shrunk = sys.shrunk /\ s.refused = sys.refused
             /\ s.stolen = FALSE => sys.stolen = FALSE
             /\ s.stolen = TRUE => sys.wasPath = TRUE
             /\ \A h \in Handles : s.table[h] \in {"free", sys.table[h]}
             /\ s.stolen = FALSE =>
                  \A h \in Handles : /\ s.table[h] \notin {"locked", "written"}
                                     /\ sys.table[h] \in {"caller", "hash"} => s.table[h] = sys.table[h]
<1> DEFINE o == obj["user"]
<1>1. /\ o \in Object /\ sys \in System /\ obj["hash"] \in Object
      /\ o._file_handle \in Handle /\ o._do_not_close_handle \in BOOLEAN /\ o._map_handle \in Nat
  BY DEF IInv, Types, Threads, Object
<1>2. /\ o._file_handle = INVALID <=> o._map_handle = 0
      /\ o._file_view # nullptr => o._map_handle # 0
      /\ task["user"].own = FALSE
  BY DEF IInv, Types, Threads, Task, UserPlaces
<1>3. CASE o._file_handle = INVALID
  <2>1. Closed(o) = o /\ Close(o, sys) = sys /\ IsClosed(o)
    BY <1>2, <1>3 DEF Closed, Close, Initialized, IsClosed
  <2>2. o._map_handle = 0 /\ o._file_view = nullptr
    BY <1>2, <1>3
  <2>3. sys.views = 0 /\ sys.sections = One(obj["hash"]._map_handle # 0)
    BY <2>2 DEF IInv, Counted, One
  <2>4. sys.stolen = TRUE => sys.wasPath = TRUE
    BY DEF IInv, PathsRemembered
  <2>5. ASSUME sys.stolen = FALSE, NEW h \in Handles
        PROVE  sys.table[h] \notin {"locked", "written"}
    <3>1. h # INVALID
      BY FileAssumption DEF INVALID
    <3> QED BY <1>2, <1>3, <2>5, <3>1 DEF IInv, HandlesKnown, Belongs
  <2> QED BY <1>1, <2>1, <2>2, <2>3, <2>4, <2>5
<1>4. CASE o._file_handle # INVALID
  <2> DEFINE c == Closed(o)
             r == ReleaseFilePointer(o, sys)
             u == [r EXCEPT !.sections = @ - (IF o._map_handle = 0 THEN 0 ELSE 1)]
             s == Close(o, sys)
  <2>1. c \in Object /\ IsClosed(c) /\ c._do_not_close_handle = o._do_not_close_handle
    BY <1>1, <1>4 DEF Closed, Initialized, Released, IsClosed, Object, Handle
  <2>2. /\ u \in System /\ u.views = 0 /\ u.sections = One(obj["hash"]._map_handle # 0)
        /\ u.table = sys.table /\ u.size = sys.size /\ u.wasPath = sys.wasPath
        /\ u.shrunk = sys.shrunk /\ u.refused = sys.refused /\ u.stolen = sys.stolen
    <3>1. sys.sections = 1 + One(obj["hash"]._map_handle # 0) /\ o._map_handle # 0
      BY <1>2, <1>4 DEF IInv, Counted, One
    <3>2. sys.views = IF o._file_view = nullptr THEN 0 ELSE 1
      BY DEF IInv, Counted, One
    <3>3. r = IF o._file_view = nullptr THEN sys ELSE [sys EXCEPT !.views = @ - 1]
      BY DEF ReleaseFilePointer
    <3>4. r \in System /\ r.views = 0 /\ r.sections = sys.sections /\ r.table = sys.table
          /\ r.size = sys.size /\ r.wasPath = sys.wasPath /\ r.shrunk = sys.shrunk
          /\ r.refused = sys.refused /\ r.stolen = sys.stolen
      BY <1>1, <3>2, <3>3 DEF System
    <3> HIDE DEF r
    <3>5. One(obj["hash"]._map_handle # 0) \in Nat
      BY DEF One
    <3> QED BY <3>1, <3>4, <3>5 DEF System
  <2> HIDE DEF u
  <2>3. CASE o._do_not_close_handle = TRUE
    <3>1. s = u
      BY <1>4, <2>3 DEF Close, Initialized, u
    <3>2. ASSUME sys.stolen = FALSE, NEW h \in Handles
          PROVE  sys.table[h] \notin {"locked", "written"}
      BY <1>2, <2>3, <3>2 DEF IInv, HandlesKnown, Belongs
    <3>3. sys.stolen = TRUE => sys.wasPath = TRUE
      BY DEF IInv, PathsRemembered
    <3> HIDE DEF s, c
    <3> QED BY <2>1, <2>2, <3>1, <3>2, <3>3 DEF s, c
  <2>4. CASE o._do_not_close_handle = FALSE
    <3> DEFINE f == o._file_handle
    <3>1. s = [u EXCEPT !.table[f] = "free", !.stolen = @ \/ u.table[f] = "caller"]
      BY <1>4, <2>4 DEF Close, CloseHandle, Initialized, u
    <3>2. f \in Handles
      BY <1>1, <1>4 DEF Handle
    <3>3. sys.wasPath = TRUE
      BY <2>4 DEF IInv, PathsRemembered
    <3> HIDE DEF s, c
    <3>4. /\ s \in System /\ s.views = u.views /\ s.sections = u.sections
          /\ s.size = sys.size /\ s.wasPath = sys.wasPath
          /\ s.shrunk = sys.shrunk /\ s.refused = sys.refused
      BY <2>2, <3>1, <3>2 DEF System
    <3>5. s.table = [sys.table EXCEPT ![f] = "free"]
          /\ s.stolen = (sys.stolen \/ sys.table[f] = "caller")
      BY <2>2, <3>1, <3>2 DEF System
    <3>6. s.stolen = FALSE => sys.stolen = FALSE /\ sys.table[f] # "caller"
      BY <3>4, <3>5, <1>1 DEF System
    <3>7. ASSUME s.stolen = FALSE, NEW h \in Handles
          PROVE  /\ s.table[h] \notin {"locked", "written"}
                 /\ sys.table[h] \in {"caller", "hash"} => s.table[h] = sys.table[h]
      <4>1. Belongs /\ Used
        BY <3>6, <3>7 DEF IInv, HandlesKnown
      <4>2. f # mine => sys.table[f] \in {"locked", "written"}
        BY <1>4, <4>1 DEF Used
      <4>3. f # mine
        BY <3>2, <3>6, <3>7, <4>1 DEF Belongs
      <4> QED BY <1>1, <1>2, <3>2, <3>5, <4>1, <4>2, <4>3 DEF Belongs, System
    <3> QED BY <1>1, <2>1, <2>2, <3>2, <3>3, <3>4, <3>5, <3>6, <3>7 DEF System, c, s
  <2> QED BY <1>1, <2>3, <2>4
<1> QED BY <1>3, <1>4

\* A handle CreateFile returns was free.
LEMMA Created ==
  ASSUME NEW s \in System, NEW by \in {"caller", "locked", "written", "hash"},
         NEW c \in CreateFile(s, by)
  PROVE  /\ c.handle \in Handles /\ c.handle # INVALID /\ s.table[c.handle] = "free"
         /\ c.sys \in System
         /\ \A h \in Handles : c.sys.table[h] = IF h = c.handle THEN by ELSE s.table[h]
         /\ c.sys.size = s.size /\ c.sys.views = s.views /\ c.sys.sections = s.sections
         /\ c.sys.wasPath = s.wasPath /\ c.sys.stolen = s.stolen
         /\ c.sys.shrunk = s.shrunk /\ c.sys.refused = s.refused
<1>1. c \in {[handle |-> h, sys |-> [s EXCEPT !.table[h] = by]] : h \in Handles \ Open(s)}
  BY DEF CreateFile
<1>2. PICK h \in Handles \ Open(s) : c = [handle |-> h, sys |-> [s EXCEPT !.table[h] = by]]
  BY <1>1
<1>3. c.handle = h /\ c.sys = [s EXCEPT !.table[h] = by]
  BY <1>2
<1>4. h \in Handles /\ h # INVALID /\ s.table[h] = "free"
  BY <1>2, FileAssumption DEF Open, INVALID
<1> QED BY <1>3, <1>4 DEF System

\* Every step at whose end the user's object is closed: the task of the user goes
\* on with the user's own handle or not at all.
LEMMA ClosedStep ==
  ASSUME IInv, task["user"].at = "idle", NEW x \in Object, NEW k \in Task,
         IsClosed(x), x._do_not_close_handle = obj["user"]._do_not_close_handle,
         k = task["user"] \/ (k.at = "size" /\ k.own = FALSE /\ k.handle = mine /\ mine # INVALID),
         sys' = Close(obj["user"], sys), obj' = [obj EXCEPT !["user"] = x],
         task' = [task EXCEPT !["user"] = k], UNCHANGED <<mine, copied, seen>>
  PROVE  IInv'
<1>1. /\ sys' \in System /\ sys'.views = 0 /\ sys'.sections = One(obj["hash"]._map_handle # 0)
      /\ sys'.wasPath = sys.wasPath /\ sys'.shrunk = sys.shrunk /\ sys'.refused = sys.refused
      /\ sys'.stolen = FALSE => sys.stolen = FALSE
      /\ sys'.stolen = TRUE => sys.wasPath = TRUE
      /\ \A h \in Handles : sys'.table[h] \in {"free", sys.table[h]}
      /\ sys'.stolen = FALSE =>
           \A h \in Handles : /\ sys'.table[h] \notin {"locked", "written"}
                              /\ sys.table[h] \in {"caller", "hash"} => sys'.table[h] = sys.table[h]
  BY Closing
<1>2. /\ obj'["user"] = x /\ obj'["hash"] = obj["hash"] /\ obj' \in [Threads -> Object]
      /\ task'["user"] = k /\ task'["hash"] = task["hash"] /\ task' \in [Threads -> Task]
  BY DEF IInv, Types, Threads
<1>3. Types'
  BY <1>1, <1>2 DEF IInv, Types
<1>4. UserPlaces' /\ HashPlaces'
  BY <1>2 DEF IInv, UserPlaces, HashPlaces, IsClosed
<1>5. Counted'
  <2>1. One(x._map_handle # 0) = 0 /\ One(x._file_view # nullptr) = 0
    BY DEF IsClosed, One
  <2>2. One(obj["hash"]._map_handle # 0) \in Nat
    BY DEF One
  <2> QED BY <1>1, <1>2, <2>1, <2>2 DEF Counted
<1>6. PathsRemembered'
  BY <1>1, <1>2 DEF IInv, PathsRemembered
<1>7. HandlesKnown'
  <2> SUFFICES ASSUME sys'.stolen = FALSE PROVE Belongs' /\ Used'
    BY DEF HandlesKnown
  <2>1. Belongs /\ Used
    BY <1>1 DEF IInv, HandlesKnown
  <2>2. Belongs'
    BY <1>1, <1>2, <2>1 DEF Belongs
  <2>3. task["hash"].at # "idle" => task["hash"].handle \in Handles
    BY DEF IInv, Types, Threads, Task, Handle, HashPlaces
  <2>4. Used'
    BY <1>1, <1>2, <2>1, <2>3 DEF Used, IsClosed
  <2> QED BY <2>2, <2>4
<1>8. Hashing'
  BY <1>1, <1>2 DEF IInv, Hashing
<1>9. ViewHolds' /\ CopyHolds'
  BY <1>2 DEF IInv, ViewHolds, CopyHolds, IsClosed
<1> QED BY <1>3, <1>4, <1>5, <1>6, <1>7, <1>8, <1>9 DEF IInv

\* Every step at whose end the user's object has a file it has just opened.
LEMMA OpenedStep ==
  ASSUME IInv, task["user"].at = "idle", NEW x \in Object, NEW k \in Task,
         NEW by \in {"locked", "written"}, NEW c \in CreateFile(Close(obj["user"], sys), by),
         NEW n \in Nat, x._map_handle = 0, x._file_view = nullptr, x._do_not_close_handle = FALSE,
         \/ /\ by = "locked" /\ x._file_handle = INVALID
            /\ k.at = "size" /\ k.own = TRUE /\ k.handle = c.handle
         \/ /\ by = "written" /\ x._file_handle = c.handle
            /\ k.at = "extend" /\ k.own = FALSE,
         sys' = [c.sys EXCEPT !.size = n, !.wasPath = TRUE],
         obj' = [obj EXCEPT !["user"] = x], task' = [task EXCEPT !["user"] = k],
         UNCHANGED <<mine, copied, seen>>
  PROVE  IInv'
<1> DEFINE s == Close(obj["user"], sys)
<1>1. /\ s \in System /\ s.views = 0 /\ s.sections = One(obj["hash"]._map_handle # 0)
      /\ s.shrunk = sys.shrunk /\ s.refused = sys.refused
      /\ s.stolen = FALSE => sys.stolen = FALSE
      /\ \A h \in Handles : s.table[h] \in {"free", sys.table[h]}
      /\ s.stolen = FALSE =>
           \A h \in Handles : /\ s.table[h] \notin {"locked", "written"}
                              /\ sys.table[h] \in {"caller", "hash"} => s.table[h] = sys.table[h]
  BY Closing
<1>c. c \in CreateFile(s, by) /\ by \in {"caller", "locked", "written", "hash"}
  OBVIOUS
<1> HIDE DEF s
<1>2. /\ c.handle \in Handles /\ c.handle # INVALID /\ s.table[c.handle] = "free"
      /\ c.sys \in System
      /\ \A h \in Handles : c.sys.table[h] = IF h = c.handle THEN by ELSE s.table[h]
      /\ c.sys.views = s.views /\ c.sys.sections = s.sections
      /\ c.sys.stolen = s.stolen /\ c.sys.shrunk = s.shrunk /\ c.sys.refused = s.refused
  <2>1. s \in System
    BY <1>1
  <2> QED BY ONLY <2>1, <1>c, Created
<1>3. /\ sys' \in System
      /\ \A h \in Handles : sys'.table[h] = IF h = c.handle THEN by ELSE s.table[h]
      /\ sys'.views = 0 /\ sys'.sections = One(obj["hash"]._map_handle # 0)
      /\ sys'.stolen = s.stolen /\ sys'.wasPath = TRUE
      /\ sys'.shrunk = sys.shrunk /\ sys'.refused = sys.refused
  BY <1>1, <1>2 DEF System
<1>4. /\ obj'["user"] = x /\ obj'["hash"] = obj["hash"] /\ obj' \in [Threads -> Object]
      /\ task'["user"] = k /\ task'["hash"] = task["hash"] /\ task' \in [Threads -> Task]
  BY DEF IInv, Types, Threads
<1>5. Types'
  BY <1>3, <1>4 DEF IInv, Types
<1>6. UserPlaces' /\ HashPlaces'
  BY <1>2, <1>4 DEF IInv, UserPlaces, HashPlaces, IsClosed
<1>7. Counted'
  <2>1. One(x._map_handle # 0) = 0 /\ One(x._file_view # nullptr) = 0
    BY DEF One
  <2>2. One(obj["hash"]._map_handle # 0) \in Nat
    BY DEF One
  <2> QED BY <1>3, <1>4, <2>1, <2>2 DEF Counted
<1>8. PathsRemembered'
  BY <1>3 DEF PathsRemembered
<1>9. HandlesKnown'
  <2> SUFFICES ASSUME sys'.stolen = FALSE PROVE Belongs' /\ Used'
    BY DEF HandlesKnown
  <2>1. Belongs /\ Used /\ s.stolen = FALSE
    BY <1>1, <1>3 DEF IInv, HandlesKnown
  <2>3. mine # c.handle
    BY <1>1, <1>2, <2>1 DEF Belongs
  <2>4. ASSUME NEW h \in Handles
        PROVE  /\ sys'.table[h] = "caller" <=> h = mine
               /\ sys'.table[h] = "hash" => h = task["hash"].handle /\ task["hash"].own = TRUE
               /\ sys'.table[h] \in {"locked", "written"} => h = c.handle /\ sys'.table[h] = by
    BY <1>1, <1>2, <1>3, <2>1, <2>3 DEF Belongs
  <2>5. Belongs'
    BY <1>4, <2>4 DEF Belongs
  <2>6. task["hash"].at # "idle" => task["hash"].handle \in Handles
    BY DEF IInv, Types, Threads, Task, Handle, HashPlaces
  <2>7. task["hash"].at # "idle" =>
          IF task["hash"].own THEN sys'.table[task["hash"].handle] = "hash"
          ELSE task["hash"].handle = mine
    BY <1>1, <1>2, <1>3, <2>1, <2>6 DEF Used
  <2>8. sys'.table[c.handle] = by
    BY <1>2, <1>3
  <2> HIDE DEF Belongs
  <2>9. Used'
    BY <1>2, <1>4, <2>3, <2>7, <2>8 DEF Used
  <2> QED BY <2>5, <2>9
<1>10. Hashing'
  BY <1>3, <1>4 DEF IInv, Hashing
<1>11. ViewHolds' /\ CopyHolds'
  BY <1>4 DEF IInv, ViewHolds, CopyHolds
<1> QED BY <1>5, <1>6, <1>7, <1>8, <1>9, <1>10, <1>11 DEF IInv
-----------------------------------------------------------------------------

\* What the object changes when it closes a handle, and what the user changes.
ObjectClosed(c, s, h) ==
  /\ c \in System
  /\ \A g \in Handles : c.table[g] = IF g = h THEN "free" ELSE s.table[g]
  /\ c.stolen = TRUE <=> s.stolen = TRUE \/ s.table[h] = "caller"
  /\ c.size = s.size /\ c.views = s.views /\ c.sections = s.sections
  /\ c.wasPath = s.wasPath /\ c.shrunk = s.shrunk /\ c.refused = s.refused

CallerClosed(c, s, h) ==
  /\ c \in System
  /\ \A g \in Handles : c.table[g] = IF g = h THEN "free" ELSE s.table[g]
  /\ c.size = s.size /\ c.views = s.views /\ c.sections = s.sections
  /\ c.wasPath = s.wasPath /\ c.stolen = s.stolen
  /\ c.shrunk = s.shrunk /\ c.refused = s.refused

LEMMA HandleClosed ==
  ASSUME NEW s \in System, NEW h \in Handles, NEW c, c = CloseHandle(s, h, "object")
  PROVE  ObjectClosed(c, s, h)
<1> DEFINE b == s.table[h] = "caller"
<1>1. /\ s.table \in [Handles -> {"free", "caller", "locked", "written", "hash"}]
      /\ s.stolen \in BOOLEAN /\ b \in BOOLEAN
  BY DEF System
<1>2. /\ c.stolen = (s.stolen \/ b) /\ c.table = [s.table EXCEPT ![h] = "free"]
      /\ c.size = s.size /\ c.views = s.views /\ c.sections = s.sections
      /\ c.wasPath = s.wasPath /\ c.shrunk = s.shrunk /\ c.refused = s.refused
  BY DEF CloseHandle, System
<1>3. c.table \in [Handles -> {"free", "caller", "locked", "written", "hash"}]
  BY <1>1, <1>2
<1>4. (s.stolen \/ b) \in BOOLEAN
  BY <1>1
<1>5. c \in System
  BY <1>3, <1>4 DEF CloseHandle, System
<1>6. c.stolen = TRUE <=> s.stolen = TRUE \/ b = TRUE
  BY <1>1, <1>2
<1>7. b = TRUE <=> s.table[h] = "caller"
  OBVIOUS
<1>8. \A g \in Handles : c.table[g] = IF g = h THEN "free" ELSE s.table[g]
  BY <1>1, <1>2
<1> HIDE DEF b
<1> QED BY <1>2, <1>5, <1>6, <1>7, <1>8 DEF ObjectClosed

LEMMA CallerCloses ==
  ASSUME NEW s \in System, NEW h \in Handles, NEW c, c = CloseHandle(s, h, "caller")
  PROVE  CallerClosed(c, s, h)
<1>1. /\ s.table \in [Handles -> {"free", "caller", "locked", "written", "hash"}]
      /\ s.stolen \in BOOLEAN
  BY DEF System
<1>2. c.stolen = s.stolen /\ c.table = [s.table EXCEPT ![h] = "free"]
  BY <1>1 DEF CloseHandle, System
<1> QED BY <1>1, <1>2 DEF CloseHandle, System, CallerClosed

\* A thread that works with a handle has one.
LEMMA HandlesInUse ==
  ASSUME IInv
  PROVE  /\ task["user"].at \in {"size", "map"} => task["user"].handle \in Handles
         /\ task["hash"].at # "idle" => task["hash"].handle \in Handles
         /\ task["user"].at \in {"extend", "mapnew"} => obj["user"]._file_handle \in Handles
         /\ mine # INVALID => mine \in Handles
         /\ INVALID \notin Handles
BY FileAssumption DEF IInv, Types, Threads, Object, Task, Handle, UserPlaces, HashPlaces, INVALID

\* An open that fails gives back what it has opened itself.
LEMMA OpenFailsStep ==
  ASSUME IInv, NEW t \in Threads, OpenFails(t)
  PROVE  IInv'
<1>1. /\ task[t].at \in {"size", "map"} /\ task' = [task EXCEPT ![t] = Idle]
      /\ sys' = IF task[t].own THEN CloseHandle(sys, task[t].handle, "object") ELSE sys
      /\ UNCHANGED <<mine, obj, copied, seen>>
  BY DEF OpenFails, Goes
<1>2. t = "user" \/ t = "hash"
  BY DEF Threads
<1>3. Idle \in Task /\ Idle.at = "idle" /\ Idle.own = FALSE
  BY DEF Idle, Task, Place, Handle
<1>4. /\ task' \in [Threads -> Task] /\ task'[t].at = "idle" /\ task'[t].own = FALSE
      /\ \A u \in Threads \ {t} : task'[u] = task[u]
  BY <1>1, <1>3 DEF IInv, Types
<1>5. task[t].handle \in Handles /\ task[t].own \in BOOLEAN
  BY <1>1, <1>2, HandlesInUse DEF IInv, Types, Threads, Task
<1>6. /\ sys' \in System
      /\ \A g \in Handles : sys'.table[g] = IF task[t].own = TRUE /\ g = task[t].handle
                                            THEN "free" ELSE sys.table[g]
      /\ sys'.stolen = TRUE <=>
           sys.stolen = TRUE \/ (task[t].own = TRUE /\ sys.table[task[t].handle] = "caller")
      /\ sys'.views = sys.views /\ sys'.sections = sys.sections
      /\ sys'.wasPath = sys.wasPath /\ sys'.shrunk = sys.shrunk /\ sys'.refused = sys.refused
  <2>1. sys \in System
    BY DEF IInv, Types
  <2>2. CASE task[t].own = TRUE
    <3>1. sys' = CloseHandle(sys, task[t].handle, "object")
      BY <1>1, <2>2
    <3>2. ObjectClosed(sys', sys, task[t].handle)
      BY <1>5, <2>1, <3>1, HandleClosed
    <3> QED BY <2>2, <3>2 DEF ObjectClosed
  <2>3. CASE task[t].own = FALSE
    BY <1>1, <2>1, <2>3
  <2> QED BY <1>5, <2>2, <2>3
<1>7. Types'
  BY <1>1, <1>4, <1>6 DEF IInv, Types
<1>8. UserPlaces' /\ HashPlaces'
  BY <1>1, <1>2, <1>4 DEF IInv, Types, Threads, UserPlaces, HashPlaces, IsClosed
<1>9. Counted'
  BY <1>1, <1>6 DEF IInv, Counted
<1>10. sys'.stolen = TRUE => sys.stolen = TRUE
  <2> SUFFICES ASSUME sys.stolen = FALSE, task[t].own = TRUE
               PROVE  sys.table[task[t].handle] # "caller"
    BY <1>6 DEF IInv, Types, System
  <2> QED BY <1>1, <1>2 DEF IInv, HandlesKnown, Used
<1>11. PathsRemembered'
  BY <1>1, <1>6, <1>10 DEF IInv, PathsRemembered
<1>12. HandlesKnown'
  <2> SUFFICES ASSUME sys'.stolen = FALSE PROVE Belongs' /\ Used'
    BY DEF HandlesKnown
  <2>1. Belongs /\ Used
    <3>1. sys.stolen \in BOOLEAN /\ sys.stolen # TRUE
      BY <1>6 DEF IInv, Types, System
    <3> QED BY <3>1 DEF IInv, HandlesKnown
  <2>2. CASE task[t].own = FALSE
    <3>1. \A g \in Handles : sys'.table[g] = sys.table[g]
      BY <1>6, <2>2
    <3>2. obj["user"]._file_handle \in Handle /\ task["hash"].handle \in Handle
      BY DEF IInv, Types, Threads, Object, Task
    <3>3. Belongs'
      BY <1>1, <1>2, <1>4, <2>1, <2>2, <3>1 DEF Belongs, Threads
    <3> HIDE DEF Belongs
    <3>4. Used'
      BY <1>1, <1>2, <1>4, <2>1, <3>1, <3>2, HandlesInUse DEF Used, Threads, Handle
    <3> QED BY <3>3, <3>4
  <2>3. CASE task[t].own = TRUE /\ t = "user"
    <3>1. sys.table[task["user"].handle] = "locked" /\ obj["user"]._file_handle = INVALID
      BY <1>1, <2>1, <2>3 DEF Used, IInv, UserPlaces, IsClosed
    <3>2. Belongs'
      BY <1>1, <1>4, <1>6, <2>1, <2>3, <3>1 DEF Belongs, Threads
    <3>3. Used'
      BY <1>1, <1>4, <1>6, <2>1, <2>3, <3>1, HandlesInUse DEF Used, Threads
    <3> QED BY <3>2, <3>3
  <2>4. CASE task[t].own = TRUE /\ t = "hash"
    <3>1. sys.table[task["hash"].handle] = "hash"
      BY <1>1, <2>1, <2>4 DEF Used
    <3>2. Belongs'
      BY <1>1, <1>4, <1>6, <2>1, <2>4, <3>1 DEF Belongs, Threads
    <3>3. obj["user"]._file_handle \in Handle
      BY DEF IInv, Types, Threads, Object
    <3>4. Used'
      BY <1>1, <1>4, <1>6, <2>1, <2>4, <3>1, <3>3, HandlesInUse DEF Used, Threads, Handle
    <3> QED BY <3>2, <3>4
  <2> QED BY <1>2, <1>5, <2>2, <2>3, <2>4
<1>13. Hashing'
  BY <1>1, <1>2, <1>4, <1>6 DEF IInv, Hashing, Threads
<1>14. ViewHolds' /\ CopyHolds'
  BY <1>1 DEF IInv, ViewHolds, CopyHolds
<1> QED BY <1>7, <1>8, <1>9, <1>11, <1>12, <1>13, <1>14 DEF IInv

\* The size of the file is read: only the place of the thread changes.
LEMMA QuerySizeStep ==
  ASSUME IInv, NEW t \in Threads, QuerySize(t)
  PROVE  IInv'
<1>1. /\ task[t].at = "size" /\ UNCHANGED <<sys, mine, obj, copied, seen>>
      /\ task' = [task EXCEPT ![t] = [task[t] EXCEPT !.at = "map", !.size = sys.size]]
  BY DEF QuerySize, Goes, At
<1>2. t = "user" \/ t = "hash"
  BY DEF Threads
<1>3. /\ task' \in [Threads -> Task] /\ task'[t].at = "map" /\ task'[t].own = task[t].own
      /\ task'[t].handle = task[t].handle /\ \A u \in Threads \ {t} : task'[u] = task[u]
  BY <1>1 DEF IInv, Types, Task, Place, System
<1>4. Types'
  BY <1>1, <1>3 DEF IInv, Types
<1>5. UserPlaces' /\ HashPlaces'
  BY <1>1, <1>2, <1>3 DEF IInv, UserPlaces, HashPlaces, IsClosed, Threads
<1>6. Counted' /\ PathsRemembered'
  BY <1>1 DEF IInv, Counted, PathsRemembered
<1>7. HandlesKnown'
  BY <1>1, <1>2, <1>3 DEF IInv, HandlesKnown, Belongs, Used, Threads
<1>8. Hashing'
  BY <1>1, <1>2, <1>3 DEF IInv, Hashing, Threads
<1>9. ViewHolds' /\ CopyHolds'
  BY <1>1 DEF IInv, ViewHolds, CopyHolds
<1> QED BY <1>4, <1>5, <1>6, <1>7, <1>8, <1>9 DEF IInv

\* The object of the user gets a handle and a section.
LEMMA MappingOfUser ==
  ASSUME IInv, CreateMapping("user")
  PROVE  IInv'
<1> DEFINE k == task["user"]
<1>1. /\ k.at = "map" /\ sys.size > 0 /\ UNCHANGED <<mine, copied, seen>>
      /\ obj' = [obj EXCEPT !["user"]._read_only = ~k.write, !["user"]._file_size = k.size,
                            !["user"]._file_handle = k.handle, !["user"]._map_handle = sys.size]
      /\ sys' = [sys EXCEPT !.sections = @ + 1, !.shrunk = @ \/ sys.size < k.size]
      /\ task' = [task EXCEPT !["user"] = Idle]
  BY DEF CreateMapping, Goes, At
<1>2. Idle \in Task /\ Idle.at = "idle" /\ Idle.own = FALSE
  BY DEF Idle, Task, Place, Handle
<1>3. /\ obj["user"] \in Object /\ k \in Task /\ sys \in System
      /\ IsClosed(obj["user"]) /\ k.handle \in Handles
      /\ k.own = TRUE => obj["user"]._do_not_close_handle = FALSE
  BY <1>1, HandlesInUse DEF IInv, Types, Threads, UserPlaces
<1>4. /\ obj' \in [Threads -> Object] /\ obj'["hash"] = obj["hash"]
      /\ obj'["user"]._file_handle = k.handle /\ obj'["user"]._map_handle = sys.size
      /\ obj'["user"]._file_view = nullptr
      /\ obj'["user"]._do_not_close_handle = obj["user"]._do_not_close_handle
  BY <1>1, <1>3 DEF IInv, Types, Threads, Object, Task, System, IsClosed
<1>5. /\ task' \in [Threads -> Task] /\ task'["hash"] = task["hash"]
      /\ task'["user"].at = "idle" /\ task'["user"].own = FALSE
  BY <1>1, <1>2 DEF IInv, Types, Threads
<1>6. /\ sys' \in System /\ sys'.table = sys.table /\ sys'.stolen = sys.stolen
      /\ sys'.wasPath = sys.wasPath /\ sys'.refused = sys.refused
      /\ sys'.views = sys.views /\ sys'.sections = sys.sections + 1
      /\ sys'.shrunk = FALSE => sys.shrunk = FALSE
      /\ sys.shrunk = TRUE => sys'.shrunk = TRUE
  <2> DEFINE z == sys.size < k.size
  <2>1. sys'.shrunk = (sys.shrunk \/ z) /\ sys.shrunk \in BOOLEAN
    BY <1>1, <1>3 DEF System
  <2>2. z \in BOOLEAN /\ (z = FALSE => k.size <= sys.size) /\ sys.sections \in Nat
    BY <1>1, <1>3 DEF System, Task
  <2> DEFINE w == sys.shrunk \/ z
             n == sys.sections + 1
  <2>3. sys' = [sys EXCEPT !.sections = n, !.shrunk = w]
    BY <1>1
  <2> HIDE DEF z
  <2>4. w \in BOOLEAN /\ n \in Nat
    BY <2>1, <2>2
  <2>5. /\ sys'.shrunk = FALSE => sys.shrunk = FALSE /\ z = FALSE
        /\ sys.shrunk = TRUE => sys'.shrunk = TRUE
    BY <2>1, <2>2
  <2> HIDE DEF w, n
  <2>6. sys' \in System /\ sys'.sections = n
    BY <1>3, <2>3, <2>4 DEF System
  <2> QED BY <1>3, <2>2, <2>3, <2>5, <2>6 DEF System, n
<1>7. Types'
  BY <1>1, <1>4, <1>5, <1>6 DEF IInv, Types
<1>8. UserPlaces' /\ HashPlaces'
  <2>1. INVALID \notin Handles
    BY HandlesInUse
  <2>2. sys.size \in Nat
    BY <1>3 DEF System
  <2>3. UserPlaces'
    BY <1>1, <1>3, <1>4, <1>5, <2>1, <2>2 DEF UserPlaces
  <2>4. HashPlaces'
    BY <1>4, <1>5 DEF IInv, HashPlaces, IsClosed
  <2> QED BY <2>3, <2>4
<1>9. Counted'
  <2>1. One(obj'["user"]._map_handle # 0) = 1 /\ One(obj["user"]._map_handle # 0) = 0
        /\ One(obj'["user"]._file_view # nullptr) = 0 /\ One(obj["user"]._file_view # nullptr) = 0
    BY <1>1, <1>3, <1>4 DEF One, IsClosed, System
  <2>2. One(obj["hash"]._map_handle # 0) \in Nat
    BY DEF One
  <2> QED BY <1>4, <1>6, <2>1, <2>2 DEF IInv, Counted
<1>10. PathsRemembered'
  BY <1>4, <1>6 DEF IInv, PathsRemembered
<1>11. HandlesKnown'
  <2> SUFFICES ASSUME sys'.stolen = FALSE PROVE Belongs' /\ Used'
    BY DEF HandlesKnown
  <2>1. Belongs /\ Used
    BY <1>6 DEF IInv, HandlesKnown
  <2>2. Belongs'
    BY <1>1, <1>3, <1>4, <1>5, <1>6, <2>1, HandlesInUse DEF Belongs, IsClosed
  <2>3. Used'
    BY <1>1, <1>3, <1>4, <1>5, <1>6, <2>1 DEF Used
  <2> QED BY <2>2, <2>3
<1>12. Hashing'
  BY <1>1, <1>4, <1>5, <1>6 DEF IInv, Hashing
<1>13. ViewHolds' /\ CopyHolds'
  BY <1>1, <1>4 DEF IInv, ViewHolds, CopyHolds
<1> QED BY <1>7, <1>8, <1>9, <1>10, <1>11, <1>12, <1>13 DEF IInv

\* The object of the hash function: the section is as long as the file is by now.
LEMMA MappingOfHash ==
  ASSUME IInv, CreateMapping("hash")
  PROVE  IInv'
<1> DEFINE k == task["hash"]
<1>1. /\ k.at = "map" /\ sys.size > 0 /\ UNCHANGED <<mine, copied, seen>>
      /\ obj' = [obj EXCEPT !["hash"]._read_only = ~k.write, !["hash"]._file_size = k.size,
                            !["hash"]._file_handle = k.handle, !["hash"]._map_handle = sys.size]
      /\ sys' = [sys EXCEPT !.sections = @ + 1, !.shrunk = @ \/ sys.size < k.size]
      /\ task' = [task EXCEPT !["hash"] = [k EXCEPT !.at = "block"]]
  BY DEF CreateMapping, Goes, At
<1>2. /\ obj["hash"] \in Object /\ k \in Task /\ sys \in System
      /\ IsClosed(obj["hash"]) /\ k.handle \in Handles /\ obj["hash"]._do_not_close_handle = TRUE
  BY <1>1, HandlesInUse DEF IInv, Types, Threads, HashPlaces
<1>3. /\ obj' \in [Threads -> Object] /\ obj'["user"] = obj["user"]
      /\ obj'["hash"]._file_handle = k.handle /\ obj'["hash"]._map_handle = sys.size
      /\ obj'["hash"]._file_size = k.size /\ obj'["hash"]._file_view = nullptr
      /\ obj'["hash"]._do_not_close_handle = TRUE
  BY <1>1, <1>2 DEF IInv, Types, Threads, Object, Task, System, IsClosed
<1>4. /\ task' \in [Threads -> Task] /\ task'["user"] = task["user"]
      /\ task'["hash"].at = "block" /\ task'["hash"].own = k.own
      /\ task'["hash"].handle = k.handle
  BY <1>1, <1>2 DEF IInv, Types, Threads, Task, Place
<1>5. /\ sys' \in System /\ sys'.table = sys.table /\ sys'.stolen = sys.stolen
      /\ sys'.wasPath = sys.wasPath /\ sys'.refused = sys.refused
      /\ sys'.views = sys.views /\ sys'.sections = sys.sections + 1
      /\ sys'.shrunk = FALSE => k.size <= sys.size
  <2> DEFINE z == sys.size < k.size
  <2>1. sys'.shrunk = (sys.shrunk \/ z) /\ sys.shrunk \in BOOLEAN
        /\ sys.size \in Nat /\ k.size \in Nat
    BY <1>1, <1>2 DEF System, Task
  <2>2. z \in BOOLEAN /\ (z = FALSE => k.size <= sys.size) /\ sys.sections \in Nat
    BY <1>1, <1>2 DEF System, Task
  <2> DEFINE w == sys.shrunk \/ z
             n == sys.sections + 1
  <2>3. sys' = [sys EXCEPT !.sections = n, !.shrunk = w]
    BY <1>1
  <2> HIDE DEF z
  <2>4. w \in BOOLEAN /\ n \in Nat
    BY <2>1, <2>2
  <2>5. /\ sys'.shrunk = FALSE => sys.shrunk = FALSE /\ z = FALSE
        /\ sys.shrunk = TRUE => sys'.shrunk = TRUE
    BY <2>1, <2>2
  <2> HIDE DEF w, n
  <2>6. sys' \in System /\ sys'.sections = n
    BY <1>2, <2>3, <2>4 DEF System
  <2> QED BY <1>2, <2>2, <2>3, <2>5, <2>6 DEF System, n
<1>6. Types'
  BY <1>1, <1>3, <1>4, <1>5 DEF IInv, Types
<1>7. UserPlaces' /\ HashPlaces'
  <2>1. INVALID \notin Handles
    BY HandlesInUse
  <2> QED BY <1>1, <1>2, <1>3, <1>4, <2>1 DEF IInv, UserPlaces, HashPlaces, IsClosed
<1>8. Counted'
  <2>1. One(obj'["hash"]._map_handle # 0) = 1 /\ One(obj["hash"]._map_handle # 0) = 0
    BY <1>1, <1>2, <1>3 DEF One, IsClosed, System
  <2>2. One(obj["user"]._map_handle # 0) \in Nat
    BY DEF One
  <2> QED BY <1>3, <1>5, <2>1, <2>2 DEF IInv, Counted
<1>9. PathsRemembered'
  BY <1>3, <1>5 DEF IInv, PathsRemembered
<1>10. HandlesKnown'
  <2> SUFFICES ASSUME sys'.stolen = FALSE PROVE Belongs' /\ Used'
    BY DEF HandlesKnown
  <2>1. Belongs /\ Used
    BY <1>5 DEF IInv, HandlesKnown
  <2>2. Belongs'
    BY <1>1, <1>3, <1>4, <1>5, <2>1 DEF Belongs
  <2>3. Used'
    BY <1>1, <1>3, <1>4, <1>5, <2>1 DEF Used
  <2> QED BY <2>2, <2>3
<1>11. Hashing'
  <2>1. seen = <<>> /\ Len(seen) = 0 /\ k.size \in Nat
    BY <1>1, <1>2 DEF IInv, Hashing, Task
  <2> QED BY <1>1, <1>3, <1>4, <1>5, <2>1 DEF IInv, Hashing
<1>12. ViewHolds' /\ CopyHolds'
  BY <1>1, <1>3 DEF IInv, ViewHolds, CopyHolds
<1> QED BY <1>6, <1>7, <1>8, <1>9, <1>10, <1>11, <1>12 DEF IInv
-----------------------------------------------------------------------------

\* SetEndOfFile: the file gets the size the object has noted.
LEMMA ExtendStep ==
  ASSUME IInv, Extend
  PROVE  IInv'
<1>1. /\ task["user"].at = "extend" /\ UNCHANGED <<mine, obj, copied, seen>>
      /\ sys' = [sys EXCEPT !.size = obj["user"]._file_size]
      /\ task' = [task EXCEPT !["user"] = [Idle EXCEPT !.at = "mapnew"]]
  BY DEF Extend, Goes, At
<1>2. /\ sys' \in System /\ sys'.table = sys.table /\ sys'.stolen = sys.stolen
      /\ sys'.wasPath = sys.wasPath /\ sys'.refused = sys.refused
      /\ sys'.views = sys.views /\ sys'.sections = sys.sections /\ sys'.shrunk = sys.shrunk
  BY <1>1 DEF IInv, Types, Threads, Object, System
<1>3. [Idle EXCEPT !.at = "mapnew"] \in Task
  BY DEF Idle, Task, Place, Handle
<1>4. /\ task' \in [Threads -> Task] /\ task'["hash"] = task["hash"]
      /\ task'["user"].at = "mapnew" /\ task'["user"].own = FALSE
  BY <1>1, <1>3 DEF IInv, Types, Threads, Idle
<1>5. Types'
  BY <1>1, <1>2, <1>4 DEF IInv, Types
<1>6. UserPlaces' /\ HashPlaces'
  BY <1>1, <1>4 DEF IInv, UserPlaces, HashPlaces, IsClosed
<1>7. Counted' /\ PathsRemembered'
  BY <1>1, <1>2 DEF IInv, Counted, PathsRemembered
<1>8. HandlesKnown'
  <2> SUFFICES ASSUME sys'.stolen = FALSE PROVE Belongs' /\ Used'
    BY DEF HandlesKnown
  <2>1. Belongs /\ Used
    BY <1>2 DEF IInv, HandlesKnown
  <2>2. task["user"].own = FALSE
    BY <1>1 DEF IInv, Types, Threads, Task, UserPlaces
  <2>3. Belongs'
    BY <1>1, <1>2, <1>4, <2>1, <2>2 DEF Belongs
  <2>4. Used'
    BY <1>1, <1>2, <1>4, <2>1 DEF Used
  <2> QED BY <2>3, <2>4
<1>9. Hashing' /\ ViewHolds' /\ CopyHolds'
  BY <1>1, <1>2, <1>4 DEF IInv, Hashing, ViewHolds, CopyHolds
<1> QED BY <1>5, <1>6, <1>7, <1>8, <1>9 DEF IInv

\* The section of the new file.
LEMMA MapNewStep ==
  ASSUME IInv, MapNew
  PROVE  IInv'
<1>1. /\ task["user"].at = "mapnew" /\ sys.size > 0 /\ UNCHANGED <<mine, copied, seen>>
      /\ sys' = [sys EXCEPT !.sections = @ + 1]
      /\ obj' = [obj EXCEPT !["user"]._map_handle = sys.size]
      /\ task' = [task EXCEPT !["user"] = Idle]
  BY DEF MapNew, Goes, At
<1>2. Idle \in Task /\ Idle.at = "idle" /\ Idle.own = FALSE
  BY DEF Idle, Task, Place, Handle
<1>3. /\ obj["user"] \in Object /\ sys \in System /\ obj["user"]._map_handle = 0
      /\ obj["user"]._file_view = nullptr /\ obj["user"]._file_handle # INVALID
      /\ task["user"].own = FALSE
  BY <1>1 DEF IInv, Types, Threads, Task, UserPlaces
<1>4. /\ obj' \in [Threads -> Object] /\ obj'["hash"] = obj["hash"]
      /\ obj'["user"]._file_handle = obj["user"]._file_handle
      /\ obj'["user"]._map_handle = sys.size /\ obj'["user"]._file_view = nullptr
      /\ obj'["user"]._do_not_close_handle = obj["user"]._do_not_close_handle
  BY <1>1, <1>3 DEF IInv, Types, Threads, Object, System
<1>5. /\ task' \in [Threads -> Task] /\ task'["hash"] = task["hash"]
      /\ task'["user"].at = "idle" /\ task'["user"].own = FALSE
  BY <1>1, <1>2 DEF IInv, Types, Threads
<1>6. /\ sys' \in System /\ sys'.table = sys.table /\ sys'.stolen = sys.stolen
      /\ sys'.wasPath = sys.wasPath /\ sys'.refused = sys.refused /\ sys'.shrunk = sys.shrunk
      /\ sys'.views = sys.views /\ sys'.sections = sys.sections + 1
  BY <1>1, <1>3 DEF System
<1>7. Types'
  BY <1>1, <1>4, <1>5, <1>6 DEF IInv, Types
<1>8. UserPlaces' /\ HashPlaces'
  BY <1>1, <1>3, <1>4, <1>5 DEF IInv, UserPlaces, HashPlaces, IsClosed, System
<1>9. Counted'
  <2>1. One(obj'["user"]._map_handle # 0) = 1 /\ One(obj["user"]._map_handle # 0) = 0
        /\ One(obj'["user"]._file_view # nullptr) = 0 /\ One(obj["user"]._file_view # nullptr) = 0
    BY <1>1, <1>3, <1>4 DEF One, System
  <2>2. One(obj["hash"]._map_handle # 0) \in Nat
    BY DEF One
  <2> QED BY <1>4, <1>6, <2>1, <2>2 DEF IInv, Counted
<1>10. PathsRemembered'
  BY <1>4, <1>6 DEF IInv, PathsRemembered
<1>11. HandlesKnown'
  <2> SUFFICES ASSUME sys'.stolen = FALSE PROVE Belongs' /\ Used'
    BY DEF HandlesKnown
  <2>1. Belongs /\ Used
    BY <1>6 DEF IInv, HandlesKnown
  <2>2. Belongs'
    BY <1>1, <1>3, <1>4, <1>5, <1>6, <2>1 DEF Belongs
  <2>3. Used'
    BY <1>1, <1>4, <1>5, <1>6, <2>1 DEF Used
  <2> QED BY <2>2, <2>3
<1>12. Hashing'
  BY <1>1, <1>4, <1>5, <1>6 DEF IInv, Hashing
<1>13. ViewHolds' /\ CopyHolds'
  BY <1>1, <1>4 DEF IInv, ViewHolds, CopyHolds
<1> QED BY <1>7, <1>8, <1>9, <1>10, <1>11, <1>12, <1>13 DEF IInv

\* OpenForWrite gives up: the file it has created is closed.
LEMMA WriteFailsStep ==
  ASSUME IInv, WriteFails
  PROVE  IInv'
<1> DEFINE f == obj["user"]._file_handle
<1>1. /\ task["user"].at \in {"extend", "mapnew"} /\ UNCHANGED <<mine, copied, seen>>
      /\ sys' = CloseHandle(sys, f, "object")
      /\ obj' = [obj EXCEPT !["user"]._file_handle = INVALID]
      /\ task' = [task EXCEPT !["user"] = Idle]
  BY DEF WriteFails, Goes
<1>2. Idle \in Task /\ Idle.at = "idle" /\ Idle.own = FALSE
  BY DEF Idle, Task, Place, Handle
<1>3. /\ obj["user"] \in Object /\ sys \in System /\ obj["user"]._map_handle = 0
      /\ obj["user"]._file_view = nullptr /\ obj["user"]._do_not_close_handle = FALSE
      /\ f \in Handles /\ task["user"].own = FALSE
  BY <1>1, HandlesInUse DEF IInv, Types, Threads, Task, UserPlaces
<1>4. /\ obj' \in [Threads -> Object] /\ obj'["hash"] = obj["hash"]
      /\ obj'["user"]._file_handle = INVALID /\ obj'["user"]._map_handle = 0
      /\ obj'["user"]._file_view = nullptr /\ obj'["user"]._do_not_close_handle = FALSE
  BY <1>1, <1>3 DEF IInv, Types, Threads, Object, Handle
<1>5. /\ task' \in [Threads -> Task] /\ task'["hash"] = task["hash"]
      /\ task'["user"].at = "idle" /\ task'["user"].own = FALSE
  BY <1>1, <1>2 DEF IInv, Types, Threads
<1>6. ObjectClosed(sys', sys, f)
  BY <1>1, <1>3, HandleClosed
<1> HIDE DEF f
<1>7. Types'
  BY <1>1, <1>4, <1>5, <1>6 DEF IInv, Types, ObjectClosed
<1>8. UserPlaces' /\ HashPlaces'
  BY <1>1, <1>3, <1>4, <1>5 DEF IInv, UserPlaces, HashPlaces, IsClosed
<1>9. Counted'
  <2>1. One(obj'["user"]._map_handle # 0) = 0 /\ One(obj["user"]._map_handle # 0) = 0
        /\ One(obj'["user"]._file_view # nullptr) = 0 /\ One(obj["user"]._file_view # nullptr) = 0
    BY <1>3, <1>4 DEF One
  <2> QED BY <1>4, <1>6, <2>1 DEF IInv, Counted, ObjectClosed
<1>10. sys.wasPath = TRUE
  BY <1>3 DEF IInv, PathsRemembered
<1>11. PathsRemembered'
  BY <1>6, <1>10 DEF PathsRemembered, ObjectClosed
<1>12. HandlesKnown'
  <2> SUFFICES ASSUME sys'.stolen = FALSE PROVE Belongs' /\ Used'
    BY DEF HandlesKnown
  <2>1. sys.stolen = FALSE /\ sys.table[f] # "caller"
    <3>1. sys.stolen \in BOOLEAN /\ sys'.stolen # TRUE
      BY <1>3 DEF System
    <3> QED BY <1>6, <3>1 DEF ObjectClosed
  <2>2. Belongs /\ Used
    BY <2>1 DEF IInv, HandlesKnown
  <2>3. \A g \in Handles : sys'.table[g] = IF g = f THEN "free" ELSE sys.table[g]
    BY <1>6 DEF ObjectClosed
  <2>4. \A g \in Handles : sys.table[g] \in {"locked", "written"} => g = f
    BY <1>3, <2>2 DEF Belongs, f
  <2>5. Belongs'
    BY <1>1, <1>3, <1>5, <2>1, <2>2, <2>3, <2>4 DEF Belongs
  <2>6. task["hash"].at # "idle" /\ task["hash"].own => sys'.table[task["hash"].handle] = "hash"
    <3>1. SUFFICES ASSUME task["hash"].at # "idle", task["hash"].own
                   PROVE  sys'.table[task["hash"].handle] = "hash"
      OBVIOUS
    <3>2. sys.table[task["hash"].handle] = "hash" /\ task["hash"].handle \in Handles
      BY <2>2, <3>1, HandlesInUse DEF Used
    <3>3. f # task["hash"].handle
      <4>1. f = mine \/ sys.table[f] \in {"locked", "written"}
        BY <1>3, <2>2, HandlesInUse DEF Used, f
      <4>2. f # mine
        BY <1>3, <2>1, <2>2 DEF Belongs
      <4> QED BY <3>2, <4>1, <4>2
    <3> QED BY <2>3, <3>2, <3>3
  <2>7. Used'
    BY <1>1, <1>4, <1>5, <2>2, <2>6 DEF Used
  <2> QED BY <2>5, <2>7
<1>13. Hashing'
  BY <1>1, <1>4, <1>5, <1>6 DEF IInv, Hashing, ObjectClosed
<1>14. ViewHolds' /\ CopyHolds'
  BY <1>1, <1>4 DEF IInv, ViewHolds, CopyHolds
<1> QED BY <1>7, <1>8, <1>9, <1>11, <1>12, <1>13, <1>14 DEF IInv

\* The pointer is given back.
LEMMA ReleaseStep ==
  ASSUME IInv, Release
  PROVE  IInv'
<1>1. /\ task["user"].at = "idle" /\ obj["user"]._file_view # nullptr
      /\ UNCHANGED <<mine, task, copied, seen>>
      /\ sys' = [sys EXCEPT !.views = @ - 1]
      /\ obj' = [obj EXCEPT !["user"] = [obj["user"] EXCEPT !._file_view = nullptr]]
  BY DEF Release, At, ReleaseFilePointer, Released
<1>2. /\ obj["user"] \in Object /\ sys \in System /\ sys.views = 1
  BY <1>1 DEF IInv, Types, Threads, Counted, One
<1>3. /\ obj' \in [Threads -> Object] /\ obj'["hash"] = obj["hash"]
      /\ obj'["user"]._file_handle = obj["user"]._file_handle
      /\ obj'["user"]._map_handle = obj["user"]._map_handle
      /\ obj'["user"]._file_view = nullptr
      /\ obj'["user"]._do_not_close_handle = obj["user"]._do_not_close_handle
  BY <1>1, <1>2 DEF IInv, Types, Threads, Object
<1>4. /\ sys' \in System /\ sys'.table = sys.table /\ sys'.stolen = sys.stolen
      /\ sys'.wasPath = sys.wasPath /\ sys'.refused = sys.refused /\ sys'.shrunk = sys.shrunk
      /\ sys'.views = 0 /\ sys'.sections = sys.sections
  BY <1>1, <1>2 DEF System
<1>5. Types'
  BY <1>1, <1>3, <1>4 DEF IInv, Types
<1>6. UserPlaces' /\ HashPlaces'
  BY <1>1, <1>3 DEF IInv, UserPlaces, HashPlaces, IsClosed
<1>7. Counted' /\ PathsRemembered'
  BY <1>3, <1>4 DEF IInv, Counted, One, PathsRemembered
<1>8. HandlesKnown'
  <2> SUFFICES ASSUME sys'.stolen = FALSE PROVE Belongs' /\ Used'
    BY DEF HandlesKnown
  <2>1. Belongs /\ Used
    BY <1>4 DEF IInv, HandlesKnown
  <2>2. Belongs'
    BY <1>1, <1>3, <1>4, <2>1 DEF Belongs
  <2>3. Used'
    BY <1>1, <1>3, <1>4, <2>1 DEF Used
  <2> QED BY <2>2, <2>3
<1>9. Hashing' /\ ViewHolds' /\ CopyHolds'
  BY <1>1, <1>3, <1>4 DEF IInv, Hashing, ViewHolds, CopyHolds
<1> QED BY <1>5, <1>6, <1>7, <1>8, <1>9 DEF IInv
-----------------------------------------------------------------------------

\* The user opens its own handle ...
LEMMA OpenMineStep ==
  ASSUME IInv, OpenMine
  PROVE  IInv'
<1>1. /\ task["user"].at = "idle" /\ mine = INVALID /\ UNCHANGED <<obj, task, copied, seen>>
      /\ \E c \in CreateFile(sys, "caller") : sys' = c.sys /\ mine' = c.handle
  BY DEF OpenMine, At
<1>2. PICK c \in CreateFile(sys, "caller") : sys' = c.sys /\ mine' = c.handle
  BY <1>1
<1>3. sys \in System /\ "caller" \in {"caller", "locked", "written", "hash"}
  BY DEF IInv, Types
<1>4. /\ mine' \in Handles /\ mine' # INVALID /\ sys.table[mine'] = "free"
      /\ sys' \in System
      /\ \A h \in Handles : sys'.table[h] = IF h = mine' THEN "caller" ELSE sys.table[h]
      /\ sys'.views = sys.views /\ sys'.sections = sys.sections
      /\ sys'.wasPath = sys.wasPath /\ sys'.stolen = sys.stolen
      /\ sys'.shrunk = sys.shrunk /\ sys'.refused = sys.refused
  BY <1>2, <1>3, Created
<1>5. Types'
  BY <1>1, <1>4 DEF IInv, Types, Handle
<1>6. UserPlaces' /\ HashPlaces'
  BY <1>1 DEF IInv, UserPlaces, HashPlaces, IsClosed
<1>7. Counted' /\ PathsRemembered'
  BY <1>1, <1>4 DEF IInv, Counted, PathsRemembered
<1>8. HandlesKnown'
  <2> SUFFICES ASSUME sys'.stolen = FALSE PROVE Belongs' /\ Used'
    BY DEF HandlesKnown
  <2>1. Belongs /\ Used
    BY <1>4 DEF IInv, HandlesKnown
  <2>2. Belongs'
    BY <1>1, <1>4, <2>1, HandlesInUse DEF Belongs
  <2>3. obj["user"]._file_handle \in Handle
    BY DEF IInv, Types, Threads, Object
  <2>4. Used'
    BY <1>1, <1>4, <2>1, <2>3, HandlesInUse DEF Used, Handle
  <2> QED BY <2>2, <2>4
<1>9. Hashing' /\ ViewHolds' /\ CopyHolds'
  BY <1>1, <1>4 DEF IInv, Hashing, ViewHolds, CopyHolds
<1> QED BY <1>5, <1>6, <1>7, <1>8, <1>9 DEF IInv

\* ... and closes it when nobody works with it.
LEMMA CloseMineStep ==
  ASSUME IInv, CloseMine
  PROVE  IInv'
<1>1. /\ task["user"].at = "idle" /\ mine # INVALID /\ UNCHANGED <<obj, task, copied, seen>>
      /\ ~task["hash"].own => task["hash"].at = "idle"
      /\ obj["user"]._file_handle # mine
      /\ sys' = CloseHandle(sys, mine, "caller") /\ mine' = INVALID
  BY DEF CloseMine, At, Threads
<1>2. sys \in System /\ mine \in Handles
  BY <1>1, HandlesInUse DEF IInv, Types
<1>3. CallerClosed(sys', sys, mine)
  BY <1>1, <1>2, CallerCloses
<1>4. Types'
  BY <1>1, <1>3 DEF IInv, Types, Handle, CallerClosed
<1>5. UserPlaces' /\ HashPlaces'
  BY <1>1 DEF IInv, UserPlaces, HashPlaces, IsClosed
<1>6. Counted'
  BY <1>1, <1>3 DEF IInv, Counted, CallerClosed
<1>7. PathsRemembered'
  BY <1>1, <1>3 DEF IInv, PathsRemembered, CallerClosed
<1>8. HandlesKnown'
  <2> SUFFICES ASSUME sys'.stolen = FALSE PROVE Belongs' /\ Used'
    BY DEF HandlesKnown
  <2>1. Belongs /\ Used /\ sys.table[mine] = "caller"
    BY <1>2, <1>3 DEF IInv, HandlesKnown, CallerClosed, Belongs
  <2>2. /\ \A h \in Handles : sys'.table[h] = IF h = mine THEN "free" ELSE sys.table[h]
        /\ INVALID \notin Handles
    BY <1>3, HandlesInUse DEF CallerClosed
  <2>3. Belongs'
    BY <1>1, <1>2, <2>1, <2>2 DEF Belongs
  <2>4. obj["user"]._file_handle \in Handle /\ task["hash"].own \in BOOLEAN
    BY DEF IInv, Types, Threads, Object, Task
  <2>5. Used'
    BY <1>1, <1>2, <2>1, <2>2, <2>4, HandlesInUse DEF Used, Handle
  <2> QED BY <2>3, <2>5
<1>9. Hashing'
  BY <1>1, <1>3 DEF IInv, Hashing, CallerClosed
<1>10. ViewHolds' /\ CopyHolds'
  BY <1>1 DEF IInv, ViewHolds, CopyHolds
<1> QED BY <1>4, <1>5, <1>6, <1>7, <1>8, <1>9, <1>10 DEF IInv
-----------------------------------------------------------------------------
\* A hash function starts, with the user's handle or with one of its own.
LEMMA HashStarts ==
  ASSUME IInv, task["hash"].at = "idle", NEW k \in Task, k.at = "size", k.handle # INVALID,
         \/ k.own = FALSE /\ k.handle = mine /\ sys' = sys
         \/ /\ k.own = TRUE
            /\ \E c \in CreateFile(sys, "hash") : sys' = c.sys /\ k.handle = c.handle,
         obj' = [obj EXCEPT !["hash"] = NewObject], task' = [task EXCEPT !["hash"] = k],
         seen' = <<>>, UNCHANGED <<mine, copied>>
  PROVE  IInv'
<1>1. NewObject \in Object /\ IsClosed(NewObject) /\ NewObject._do_not_close_handle = TRUE
  BY DEF NewObject, FileIoHelper, Object, Handle, IsClosed
<1>2. /\ obj' \in [Threads -> Object] /\ obj'["user"] = obj["user"] /\ obj'["hash"] = NewObject
      /\ task' \in [Threads -> Task] /\ task'["user"] = task["user"] /\ task'["hash"] = k
  BY <1>1 DEF IInv, Types, Threads
<1> HIDE DEF NewObject
<1>3. sys \in System /\ "hash" \in {"caller", "locked", "written", "hash"}
  BY DEF IInv, Types
<1>4. /\ k.own \in BOOLEAN /\ k.own = FALSE => k.handle = mine
      /\ k.own = TRUE => k.handle \in Handles /\ sys.table[k.handle] = "free"
      /\ sys' \in System
      /\ \A h \in Handles : sys'.table[h] = IF k.own = TRUE /\ h = k.handle THEN "hash"
                                            ELSE sys.table[h]
      /\ sys'.views = sys.views /\ sys'.sections = sys.sections
      /\ sys'.wasPath = sys.wasPath /\ sys'.stolen = sys.stolen
      /\ sys'.shrunk = sys.shrunk /\ sys'.refused = sys.refused
  <2>1. CASE k.own = FALSE /\ k.handle = mine /\ sys' = sys
    BY <1>3, <2>1
  <2>2. CASE /\ k.own = TRUE
             /\ \E c \in CreateFile(sys, "hash") : sys' = c.sys /\ k.handle = c.handle
    <3> PICK c \in CreateFile(sys, "hash") : sys' = c.sys /\ k.handle = c.handle
      BY <2>2
    <3>1. /\ k.handle \in Handles /\ sys.table[k.handle] = "free" /\ sys' \in System
          /\ \A h \in Handles : sys'.table[h] = IF h = k.handle THEN "hash" ELSE sys.table[h]
          /\ sys'.views = sys.views /\ sys'.sections = sys.sections
          /\ sys'.wasPath = sys.wasPath /\ sys'.stolen = sys.stolen
          /\ sys'.shrunk = sys.shrunk /\ sys'.refused = sys.refused
      BY <1>3, <2>2, Created
    <3> QED BY <2>2, <3>1
  <2> QED BY <2>1, <2>2
<1>5. Types'
  <2>1. <<>> \in Seq(Nat)
    OBVIOUS
  <2> QED BY <1>2, <1>4, <2>1 DEF IInv, Types
<1>6. UserPlaces' /\ HashPlaces'
  BY <1>1, <1>2 DEF IInv, UserPlaces, HashPlaces, IsClosed
<1>7. Counted'
  <2>1. One(NewObject._map_handle # 0) = 0 /\ One(obj["hash"]._map_handle # 0) = 0
    BY <1>1 DEF IInv, HashPlaces, IsClosed, One
  <2> QED BY <1>2, <1>4, <2>1 DEF IInv, Counted
<1>8. PathsRemembered'
  BY <1>2, <1>4 DEF IInv, PathsRemembered
<1>9. HandlesKnown'
  <2> SUFFICES ASSUME sys'.stolen = FALSE PROVE Belongs' /\ Used'
    BY DEF HandlesKnown
  <2>1. Belongs /\ Used /\ task["hash"].own = FALSE
    BY <1>4 DEF IInv, HandlesKnown, HashPlaces
  <2>2. Belongs'
    BY <1>2, <1>4, <2>1 DEF Belongs
  <2>3. obj["user"]._file_handle \in Handle
    BY DEF IInv, Types, Threads, Object
  <2>4. Used'
    BY <1>2, <1>4, <2>1, <2>3, HandlesInUse DEF Used, Handle
  <2> QED BY <2>2, <2>4
<1>10. Hashing'
  <2>1. <<>> = Bytes(0, Len(<<>>))
    BY DEF Bytes
  <2> QED BY <1>2, <2>1 DEF Hashing
<1>11. ViewHolds' /\ CopyHolds'
  BY <1>2 DEF IInv, ViewHolds, CopyHolds
<1> QED BY <1>5, <1>6, <1>7, <1>8, <1>9, <1>10, <1>11 DEF IInv

\* A hash function returns: its object is destroyed before its handle is closed.
LEMMA HashReturnsStep ==
  ASSUME IInv, HashReturns
  PROVE  IInv'
<1> DEFINE o == obj["hash"]
           k == task["hash"]
           s == Close(o, sys)
<1>1. /\ k.at = "block" /\ UNCHANGED <<mine, copied, seen>>
      /\ sys' = IF k.own THEN CloseHandle(s, k.handle, "object") ELSE s
      /\ obj' = [obj EXCEPT !["hash"] = Closed(o)] /\ task' = [task EXCEPT !["hash"] = Idle]
  BY DEF HashReturns, Goes, At
<1>2. Idle \in Task /\ Idle.at = "idle" /\ Idle.own = FALSE
  BY DEF Idle, Task, Place, Handle
<1>3. /\ o \in Object /\ sys \in System /\ k.handle \in Handles /\ k.own \in BOOLEAN
      /\ o._file_handle = k.handle /\ o._map_handle # 0 /\ o._file_view = nullptr
      /\ o._do_not_close_handle = TRUE /\ o._file_handle # INVALID
  BY <1>1, HandlesInUse DEF IInv, Types, Threads, Task, HashPlaces
<1>4. Closed(o) \in Object /\ IsClosed(Closed(o)) /\ Closed(o)._do_not_close_handle = TRUE
  BY <1>3 DEF Closed, Initialized, Released, IsClosed, Object, Handle
<1>5. /\ obj' \in [Threads -> Object] /\ obj'["user"] = obj["user"] /\ obj'["hash"] = Closed(o)
      /\ task' \in [Threads -> Task] /\ task'["user"] = task["user"]
      /\ task'["hash"].at = "idle" /\ task'["hash"].own = FALSE
  BY <1>1, <1>2, <1>4 DEF IInv, Types, Threads
<1>6. /\ s \in System /\ s.table = sys.table /\ s.stolen = sys.stolen
      /\ s.wasPath = sys.wasPath /\ s.refused = sys.refused /\ s.shrunk = sys.shrunk
      /\ s.views = sys.views /\ s.sections = sys.sections - 1
  <2>1. s = [sys EXCEPT !.sections = @ - 1]
    BY <1>3 DEF Close, Initialized, ReleaseFilePointer
  <2>2. sys.sections - 1 \in Nat
    <3>1. One(o._map_handle # 0) = 1 /\ One(obj["user"]._map_handle # 0) \in Nat
      BY <1>3 DEF One
    <3> QED BY <3>1 DEF IInv, Counted
  <2> HIDE DEF s
  <2> QED BY <1>3, <2>1, <2>2 DEF System
<1> HIDE DEF s
<1>7. /\ sys' \in System
      /\ \A g \in Handles : sys'.table[g] = IF k.own = TRUE /\ g = k.handle THEN "free"
                                            ELSE sys.table[g]
      /\ sys'.views = sys.views /\ sys'.sections = sys.sections - 1
      /\ sys'.wasPath = sys.wasPath /\ sys'.shrunk = sys.shrunk /\ sys'.refused = sys.refused
      /\ k.own = FALSE => sys'.stolen = sys.stolen
      /\ k.own = TRUE => (sys'.stolen = TRUE <=> sys.stolen = TRUE \/ sys.table[k.handle] = "caller")
  <2>1. CASE k.own = TRUE
    <3>1. sys' = CloseHandle(s, k.handle, "object")
      BY <1>1, <2>1
    <3>2. ObjectClosed(sys', s, k.handle)
      BY <1>3, <1>6, <3>1, HandleClosed
    <3> QED BY <1>6, <2>1, <3>2 DEF ObjectClosed
  <2>2. CASE k.own = FALSE
    BY <1>1, <1>6, <2>2
  <2> QED BY <1>3, <2>1, <2>2
<1>8. Types'
  BY <1>1, <1>5, <1>7 DEF IInv, Types
<1>9. UserPlaces' /\ HashPlaces'
  BY <1>4, <1>5 DEF IInv, UserPlaces, HashPlaces, IsClosed
<1>10. Counted'
  <2>1. One(o._map_handle # 0) = 1 /\ One(Closed(o)._map_handle # 0) = 0
        /\ One(obj["user"]._map_handle # 0) \in Nat
    BY <1>3, <1>4 DEF One, IsClosed
  <2> QED BY <1>5, <1>7, <2>1 DEF IInv, Counted
<1>11. sys'.stolen = TRUE => sys.stolen = TRUE
  <2> SUFFICES ASSUME sys.stolen = FALSE, k.own = TRUE
               PROVE  sys.table[k.handle] # "caller"
    BY <1>3, <1>7 DEF System
  <2> QED BY <1>1 DEF IInv, HandlesKnown, Used
<1>12. PathsRemembered'
  BY <1>5, <1>7, <1>11 DEF IInv, PathsRemembered
<1>13. HandlesKnown'
  <2> SUFFICES ASSUME sys'.stolen = FALSE PROVE Belongs' /\ Used'
    BY DEF HandlesKnown
  <2>1. sys.stolen = FALSE
    <3>1. sys.stolen \in BOOLEAN /\ sys'.stolen # TRUE
      BY <1>3 DEF System
    <3> QED BY <1>3, <1>7, <3>1
  <2>2. Belongs /\ Used
    BY <2>1 DEF IInv, HandlesKnown
  <2>3. k.own = TRUE => sys.table[k.handle] = "hash"
    BY <1>1, <2>2 DEF Used
  <2>4. Belongs'
    BY <1>1, <1>3, <1>5, <1>7, <2>2, <2>3 DEF Belongs
  <2>5. obj["user"]._file_handle \in Handle
    BY DEF IInv, Types, Threads, Object
  <2>6. Used'
    BY <1>1, <1>3, <1>5, <1>7, <2>2, <2>3, <2>5, HandlesInUse DEF Used, Handle
  <2> QED BY <2>4, <2>6
<1>14. Hashing'
  BY <1>1, <1>5, <1>7 DEF IInv, Hashing
<1>15. ViewHolds' /\ CopyHolds'
  BY <1>1, <1>5 DEF IInv, ViewHolds, CopyHolds
<1> QED BY <1>8, <1>9, <1>10, <1>12, <1>13, <1>14, <1>15 DEF IInv
-----------------------------------------------------------------------------

\* A quotient and its remainder.
LEMMA Division ==
  ASSUME NEW a \in Nat, NEW w \in Nat \ {0}
  PROVE  /\ a \div w \in Nat /\ a % w \in 0 .. w - 1 /\ a % w <= a
         /\ a = w * (a \div w) + (a % w)
<1>1. a \div w \in Int /\ a % w \in 0 .. w - 1 /\ a = w * (a \div w) + (a % w)
  OBVIOUS
<1>2. a \div w >= 0
  <2>1. SUFFICES ASSUME a \div w <= -1 PROVE FALSE
    BY <1>1
  <2>2. w * (a \div w) = -w - w * (-(a \div w) - 1) /\ w * (-(a \div w) - 1) >= 0
    BY <1>1, <2>1
  <2> QED BY <1>1, <2>2
<1>3. w * (a \div w) >= 0
  BY <1>1, <1>2
<1> QED BY <1>1, <1>2, <1>3

\* What fits in the width of a DWORD is kept.
LEMMA SmallRemainder ==
  ASSUME NEW w \in Nat \ {0}, NEW a \in 0 .. w - 1
  PROVE  a % w = a
<1>1. a \div w \in Nat /\ a % w \in 0 .. w - 1 /\ a = w * (a \div w) + (a % w)
  <2>1. a \in Nat
    OBVIOUS
  <2> QED BY <2>1, Division
<1>2. a \div w = 0
  <2>1. SUFFICES ASSUME a \div w >= 1 PROVE FALSE
    BY <1>1
  <2>2. w * (a \div w) = w + w * (a \div w - 1) /\ w * (a \div w - 1) >= 0
    BY <1>1, <2>1
  <2> QED BY <1>1, <2>2
<1>3. w * (a \div w) = 0
  BY <1>1, <1>2
<1> QED BY <1>1, <1>3

\* Pages that begin at the begin of a page and end in what is there by its last page.
LEMMA PagesAbove ==
  ASSUME NEW from \in Nat, NEW k \in Nat, from = Page * k,
         NEW len \in Nat, NEW n \in Nat, from + len <= n
  PROVE  from + Pages(len) <= Pages(n)
<1>1. Page \in Nat \ {0}
  BY FileAssumption
<1> DEFINE q == (len + Page - 1) \div Page
           r == (len + Page - 1) % Page
           m == (n + Page - 1) \div Page
           s == (n + Page - 1) % Page
<1>2. q \in Nat /\ r \in 0 .. Page - 1 /\ len + Page - 1 = Page * q + r
  <2>1. len + Page - 1 \in Nat
    BY <1>1
  <2> QED BY <1>1, <2>1, Division
<1>3. m \in Nat /\ s \in 0 .. Page - 1 /\ n + Page - 1 = Page * m + s
  <2>1. n + Page - 1 \in Nat
    BY <1>1
  <2> QED BY <1>1, <2>1, Division
<1>4. Pages(len) = Page * q /\ Pages(n) = Page * m
  BY <1>1, <1>2, <1>3 DEF Pages
<1> HIDE DEF q, r, m, s
<1>5. Page * (k + q - m) = from + Page * q - Page * m
  BY <1>1, <1>2, <1>3
<1>6. Page * (k + q - m) < Page
  BY <1>1, <1>2, <1>3, <1>5
<1>7. k + q - m <= 0
  <2>1. SUFFICES ASSUME k + q - m >= 1 PROVE FALSE
    BY <1>2, <1>3
  <2> DEFINE z == k + q - m
  <2>2. z \in Nat /\ z >= 1
    BY <1>2, <1>3, <2>1
  <2>3. Page * z < Page
    BY <1>6
  <2> HIDE DEF z
  <2>4. Page * z = Page + Page * (z - 1) /\ Page * (z - 1) >= 0
    BY <1>1, <2>2
  <2> QED BY <1>1, <2>2, <2>3, <2>4
<1>8. Page * (k + q - m) <= 0
  <2> DEFINE z == k + q - m
  <2>1. z \in Int /\ z <= 0
    BY <1>2, <1>3, <1>7
  <2> HIDE DEF z
  <2>2. Page * z <= 0
    BY <1>1, <2>1
  <2> QED BY <2>2 DEF z
<1>9. from + Page * q <= Page * m
  BY <1>1, <1>2, <1>3, <1>5, <1>8
<1> QED BY <1>4, <1>9

\* What GetFilePointer maps, and when it can.
ViewIs(v, o, offset, size) ==
  LET end == IF offset + size > o._file_size THEN o._file_size ELSE offset + size
      low == offset % AllocationGranularity
  IN  /\ low \in Nat /\ low <= offset
      /\ v # nullptr =>
           /\ v.from = offset - low /\ v.len \in Nat /\ v.from + v.len <= o._map_handle
           /\ low + (end - offset) < DWORD => end <= v.from + v.len
      /\ o._file_size <= o._map_handle => v # nullptr

LEMMA Viewed ==
  ASSUME NEW o, o._file_size \in Nat, o._map_handle \in Nat, NEW offset \in Nat, NEW size \in Nat,
         offset < o._file_size, NEW v, v = View(o, offset, size)
  PROVE  ViewIs(v, o, offset, size)
<1> DEFINE end == IF offset + size > o._file_size THEN o._file_size ELSE offset + size
           low == offset % AllocationGranularity
           from == offset - low
           all == low + (end - offset)
           len == all % DWORD
           n == o._map_handle
           m == o._file_size
<1>1. AllocationGranularity \in Nat \ {0} /\ DWORD \in Nat \ {0}
  BY FileAssumption
<1>2. low \in Nat /\ low <= offset
  <2>1. low \in 0 .. AllocationGranularity - 1 /\ low <= offset
    BY <1>1, Division
  <2> QED BY <1>1, <2>1
<1>3. end \in Nat /\ offset <= end /\ end <= m
  OBVIOUS
<1>4. v = IF from + len > n THEN nullptr
          ELSE [from |-> from, len |-> IF len = 0 THEN n - from ELSE len]
  BY DEF View, MapViewOfFile
<1>5. ViewIs(v, o, offset, size) =
        /\ low \in Nat /\ low <= offset
        /\ v # nullptr =>
             /\ v.from = offset - low /\ v.len \in Nat /\ v.from + v.len <= n
             /\ all < DWORD => end <= v.from + v.len
        /\ m <= n => v # nullptr
  BY DEF ViewIs
<1>6. n \in Nat /\ m \in Nat
  OBVIOUS
<1> HIDE DEF n, m, low, end
<1>7. all \in Nat /\ from \in Nat /\ from + all = end
  BY <1>2, <1>3
<1> HIDE DEF all, from
<1>8. len \in Nat /\ len <= all /\ (all < DWORD => len = all)
  <2>1. len \in 0 .. DWORD - 1 /\ len <= all
    BY <1>1, <1>7, Division
  <2>2. all < DWORD => len = all
    BY <1>1, <1>7, SmallRemainder
  <2> QED BY <1>1, <2>1, <2>2
<1> HIDE DEF len
<1>9. CASE from + len > n
  <2>1. v = nullptr
    BY <1>4, <1>9
  <2>2. ~(m <= n)
    BY <1>3, <1>6, <1>7, <1>8, <1>9
  <2> QED BY <1>2, <1>5, <2>1, <2>2
<1>10. CASE ~(from + len > n)
  <2> DEFINE w == IF len = 0 THEN n - from ELSE len
  <2>1. v = [from |-> from, len |-> w]
    BY <1>4, <1>10
  <2>2. w \in Nat /\ from + w <= n /\ len <= w
    BY <1>6, <1>7, <1>8, <1>10
  <2> HIDE DEF w
  <2>3. v # nullptr /\ v.from = from /\ v.len = w
    BY <2>1, ViewsDiffer
  <2>4. all < DWORD => end <= from + w
    BY <1>3, <1>7, <1>8, <2>2
  <2>5. from = offset - low
    BY DEF from
  <2> QED BY <1>2, <1>5, <2>2, <2>3, <2>4, <2>5
<1> QED BY <1>9, <1>10
-----------------------------------------------------------------------------

\* A pointer is handed out: all it was asked for is there, as far as the file goes.
LEMMA GetFilePointerStep ==
  ASSUME IInv, NEW ro \in BOOLEAN, NEW offset \in Nat, NEW size \in Nat,
         GetFilePointer(ro, offset, size)
  PROVE  IInv'
<1> DEFINE o == obj["user"]
           v == View(o, offset, size)
           w == [from |-> v.from, len |-> v.len, offset |-> offset, size |-> size]
<1>1. /\ task["user"].at = "idle" /\ o._file_view = nullptr /\ o._file_handle # INVALID
      /\ offset < o._file_size /\ v # nullptr
      /\ obj' = [obj EXCEPT !["user"]._file_view = w] /\ sys' = [sys EXCEPT !.views = @ + 1]
      /\ UNCHANGED <<mine, task, copied, seen>>
  BY DEF GetFilePointer, At, MayMap, Initialized
<1>2. /\ o \in Object /\ o._file_size \in Nat /\ o._map_handle \in Nat /\ o._map_handle # 0
      /\ sys \in System
  BY <1>1 DEF IInv, Types, Threads, Object, UserPlaces
<1>3. ViewIs(v, o, offset, size)
  BY <1>1, <1>2, Viewed
<1> HIDE DEF v
<1>4. w \in Mapped /\ w # nullptr
  <2>1. v.from \in Nat /\ v.len \in Nat
    BY <1>1, <1>3 DEF ViewIs
  <2>2. w \in Mapped
    BY <2>1 DEF Mapped
  <2> QED BY <2>2, ViewsDiffer
<1>5. w.from = v.from /\ w.len = v.len /\ w.offset = offset /\ w.size = size
  OBVIOUS
<1> HIDE DEF w
<1>6. /\ obj' \in [Threads -> Object] /\ obj'["hash"] = obj["hash"]
      /\ obj'["user"]._file_handle = o._file_handle /\ obj'["user"]._map_handle = o._map_handle
      /\ obj'["user"]._file_view = w /\ obj'["user"]._file_size = o._file_size
      /\ obj'["user"]._do_not_close_handle = o._do_not_close_handle
  BY <1>1, <1>2, <1>4 DEF IInv, Types, Threads, Object
<1>7. /\ sys' \in System /\ sys'.table = sys.table /\ sys'.stolen = sys.stolen
      /\ sys'.wasPath = sys.wasPath /\ sys'.refused = sys.refused /\ sys'.shrunk = sys.shrunk
      /\ sys'.views = sys.views + 1 /\ sys'.sections = sys.sections
  BY <1>1, <1>2 DEF System
<1>8. Types'
  BY <1>1, <1>6, <1>7 DEF IInv, Types
<1>9. UserPlaces' /\ HashPlaces'
  BY <1>1, <1>2, <1>6 DEF IInv, UserPlaces, HashPlaces, IsClosed
<1>10. Counted'
  <2>1. One(o._file_view # nullptr) = 0 /\ One(obj'["user"]._file_view # nullptr) = 1
    BY <1>1, <1>4, <1>6 DEF One
  <2> QED BY <1>6, <1>7, <2>1 DEF IInv, Counted
<1>11. PathsRemembered'
  BY <1>6, <1>7 DEF IInv, PathsRemembered
<1>12. HandlesKnown'
  <2> SUFFICES ASSUME sys'.stolen = FALSE PROVE Belongs' /\ Used'
    BY DEF HandlesKnown
  <2>1. Belongs /\ Used
    BY <1>7 DEF IInv, HandlesKnown
  <2>2. Belongs'
    BY <1>1, <1>6, <1>7, <2>1 DEF Belongs
  <2>3. Used'
    BY <1>1, <1>6, <1>7, <2>1 DEF Used
  <2> QED BY <2>2, <2>3
<1>13. Hashing' /\ CopyHolds'
  BY <1>1, <1>6, <1>7 DEF IInv, Hashing, CopyHolds
<1>14. ViewHolds'
  <2> DEFINE end == IF offset + size > o._file_size THEN o._file_size ELSE offset + size
             low == offset % AllocationGranularity
  <2>1. /\ low \in Nat /\ low <= offset
        /\ v.from = offset - low /\ v.len \in Nat /\ v.from + v.len <= o._map_handle
        /\ low + (end - offset) < DWORD => end <= v.from + v.len
    BY <1>1, <1>3 DEF ViewIs
  <2>2. v.from <= offset
    BY <2>1
  <2>3. ViewHolds' =
          (w # nullptr =>
             /\ v.from + v.len <= o._map_handle
             /\ low + (end - offset) < DWORD => v.from <= offset /\ end <= v.from + v.len)
    BY <1>5, <1>6 DEF ViewHolds
  <2> HIDE DEF end, low
  <2> QED BY <2>1, <2>2, <2>3
<1> QED BY <1>8, <1>9, <1>10, <1>11, <1>12, <1>13, <1>14 DEF IInv

\* What is copied ends before the last page of the section does.
LEMMA CopyStep ==
  ASSUME IInv, NEW ro \in BOOLEAN, NEW offset \in Nat, NEW size \in Nat, Copy(ro, offset, size)
  PROVE  IInv'
<1> DEFINE o == obj["user"]
           v == View(o, offset, size)
           n == o._map_handle
<1>1. /\ offset < o._file_size /\ v # nullptr /\ UNCHANGED <<sys, mine, obj, task, seen>>
      /\ copied' = [ok |-> offset - v.from + size <= Pages(v.len),
                    offset |-> offset, size |-> size, of |-> n]
  BY DEF Copy, MayMap
<1>2. o._file_size \in Nat /\ n \in Nat
  BY DEF IInv, Types, Threads, Object
<1>3. ViewIs(v, o, offset, size)
  BY <1>1, <1>2, Viewed
<1>4. /\ copied'.ok = (offset - v.from + size <= Pages(v.len))
      /\ copied'.offset = offset /\ copied'.size = size /\ copied'.of = n
  BY <1>1
<1> HIDE DEF v
<1> DEFINE low == offset % AllocationGranularity
           k == (AllocationGranularity \div Page) * (offset \div AllocationGranularity)
<1>5. v.from = offset - low /\ v.from \in Nat /\ v.len \in Nat /\ v.from + v.len <= n
  BY <1>1, <1>3 DEF ViewIs
<1>6. /\ Page \in Nat \ {0} /\ AllocationGranularity \in Nat \ {0}
      /\ AllocationGranularity % Page = 0
  BY FileAssumption
<1>7. k \in Nat /\ v.from = Page * k
  <2> DEFINE a == AllocationGranularity \div Page
             b == offset \div AllocationGranularity
  <2>1. a \in Nat /\ AllocationGranularity = Page * a
    <3>1. a \in Nat /\ AllocationGranularity = Page * a + (AllocationGranularity % Page)
      BY <1>6, Division
    <3>2. Page * a \in Nat
      BY <1>6, <3>1
    <3> HIDE DEF a
    <3> QED BY <1>6, <3>1, <3>2
  <2>2. b \in Nat /\ low \in Nat /\ offset = AllocationGranularity * b + low
    <3>1. b \in Nat /\ low \in 0 .. AllocationGranularity - 1
          /\ offset = AllocationGranularity * b + low
      BY <1>6, Division
    <3> QED BY <1>6, <3>1
  <2> HIDE DEF a, b, low
  <2>3. (Page * a) * b = Page * (a * b) /\ (Page * a) * b = AllocationGranularity * b
    BY <1>6, <2>1, <2>2
  <2>4. v.from = AllocationGranularity * b
    <3>1. AllocationGranularity * b \in Nat
      BY <1>6, <2>2
    <3> QED BY <1>5, <2>2, <3>1
  <2> QED BY <2>1, <2>2, <2>3, <2>4 DEF a, b
<1> HIDE DEF k, low
<1>8. v.from + Pages(v.len) <= Pages(n)
  BY <1>2, <1>5, <1>7, PagesAbove
<1>9. Pages(v.len) \in Nat /\ Pages(n) \in Nat
  <2>1. \A i \in Nat : Pages(i) \in Nat
    <3> SUFFICES ASSUME NEW i \in Nat PROVE Pages(i) \in Nat
      OBVIOUS
    <3>1. i + Page - 1 \in Nat
      BY <1>6
    <3>2. (i + Page - 1) \div Page \in Nat
      BY <1>6, <3>1, Division
    <3> QED BY <1>6, <3>2 DEF Pages
  <2> QED BY <1>2, <1>5, <2>1
<1>10. copied'.ok => offset + size <= Pages(n)
  <2>1. offset - v.from + size <= Pages(v.len) => offset + size <= Pages(n)
    BY <1>2, <1>5, <1>8, <1>9
  <2> QED BY <1>4, <2>1
<1>11. CopyHolds'
  BY <1>4, <1>10 DEF CopyHolds
<1>12. Types' /\ UserPlaces' /\ HashPlaces' /\ Counted' /\ PathsRemembered'
  BY <1>1 DEF IInv, Types, UserPlaces, HashPlaces, IsClosed, Counted, PathsRemembered
<1>13. HandlesKnown' /\ Hashing' /\ ViewHolds'
  BY <1>1 DEF IInv, HandlesKnown, Belongs, Used, Hashing, ViewHolds
<1> QED BY <1>11, <1>12, <1>13 DEF IInv

\* A block is read: the bytes seen are longer by it.
LEMMA Appended ==
  ASSUME NEW n \in Nat, NEW m \in Nat
  PROVE  /\ Bytes(0, n) \in Seq(Nat) /\ Len(Bytes(0, n)) = n
         /\ Bytes(0, n) \o Bytes(n, m) = Bytes(0, n + m)
<1> DEFINE a == Bytes(0, n)
           b == Bytes(n, m)
           c == Bytes(0, n + m)
<1>1. a \in Seq(Nat) /\ Len(a) = n /\ \A i \in 1 .. n : a[i] = i - 1
  BY DEF Bytes
<1>2. b \in Seq(Nat) /\ Len(b) = m /\ \A i \in 1 .. m : b[i] = n + i - 1
  BY DEF Bytes
<1>3. c \in Seq(Nat) /\ Len(c) = n + m /\ \A i \in 1 .. n + m : c[i] = i - 1
  BY DEF Bytes
<1> HIDE DEF a, b, c
<1>4. /\ a \o b \in Seq(Nat) /\ Len(a \o b) = n + m
      /\ \A i \in 1 .. n + m : (a \o b)[i] = IF i <= n THEN a[i] ELSE b[i - n]
  BY <1>1, <1>2, ConcatProperties
<1>5. \A i \in 1 .. n + m : (a \o b)[i] = c[i]
  BY <1>1, <1>2, <1>3, <1>4
<1>6. a \o b = c
  BY <1>3, <1>4, <1>5, SeqEqual
<1> QED BY <1>1, <1>6 DEF a, b, c

LEMMA HashBlockStep ==
  ASSUME IInv, HashBlock
  PROVE  IInv'
<1> DEFINE o == obj["hash"]
           n == Len(seen)
           m == BlockSize(o, n)
<1>1. /\ task["hash"].at = "block" /\ n < o._file_size /\ seen' = seen \o Bytes(n, m)
      /\ UNCHANGED <<sys, mine, obj, task, copied>>
  BY DEF HashBlock, At
<1>2. seen \in Seq(Nat) /\ n \in Nat /\ o._file_size \in Nat /\ seen = Bytes(0, n)
  BY LenProperties DEF IInv, Types, Threads, Object, Hashing
<1>3. m \in Nat /\ n + m <= o._file_size
  <2>1. GetOptimizedBlockSize \in Nat
    BY FileAssumption DEF GetOptimizedBlockSize
  <2> HIDE DEF n
  <2> QED BY <1>1, <1>2, <2>1 DEF BlockSize
<1> HIDE DEF m
<1>4. seen' = Bytes(0, n + m) /\ seen' \in Seq(Nat) /\ Len(seen') = n + m
  <2> HIDE DEF n
  <2>1. seen' = Bytes(0, n + m)
    BY <1>1, <1>2, <1>3, Appended
  <2>2. n + m \in Nat
    BY <1>2, <1>3
  <2> QED BY <2>1, <2>2, Appended
<1>5. Types'
  BY <1>1, <1>4 DEF IInv, Types
<1>6. UserPlaces' /\ HashPlaces' /\ Counted' /\ PathsRemembered'
  BY <1>1 DEF IInv, UserPlaces, HashPlaces, IsClosed, Counted, PathsRemembered
<1>7. HandlesKnown' /\ ViewHolds' /\ CopyHolds'
  BY <1>1 DEF IInv, HandlesKnown, Belongs, Used, ViewHolds, CopyHolds
<1>8. Hashing'
  <2> HIDE DEF n
  <2> QED BY <1>1, <1>3, <1>4 DEF IInv, Hashing
<1> QED BY <1>5, <1>6, <1>7, <1>8 DEF IInv

\* The digest reads from null: then the section is too short, or none was to be had.
LEMMA HashCrashesStep ==
  ASSUME IInv, HashCrashes
  PROVE  IInv'
<1> DEFINE o == obj["hash"]
           n == Len(seen)
           m == BlockSize(o, n)
           v == View(o, n, m)
           k == task["hash"]
<1>1. /\ k.at = "block" /\ n < o._file_size /\ sys' = [sys EXCEPT !.refused = (v # nullptr)]
      /\ task' = [task EXCEPT !["hash"] = [k EXCEPT !.at = "crashed"]]
      /\ UNCHANGED <<mine, obj, copied, seen>>
  BY DEF HashCrashes, At, Goes
<1>2. /\ n \in Nat /\ o._file_size \in Nat /\ o._map_handle \in Nat /\ k \in Task
      /\ sys \in System
  BY LenProperties DEF IInv, Types, Threads, Object
<1>3. m \in Nat
  <2>1. GetOptimizedBlockSize \in Nat
    BY FileAssumption DEF GetOptimizedBlockSize
  <2> HIDE DEF n
  <2> QED BY <1>1, <1>2, <2>1 DEF BlockSize
<1> HIDE DEF m
<1>4. ViewIs(v, o, n, m)
  BY <1>1, <1>2, <1>3, Viewed
<1>5. sys.shrunk = TRUE \/ v # nullptr
  <2>1. sys.shrunk = FALSE => o._file_size <= o._map_handle
    BY <1>1 DEF IInv, Hashing
  <2>2. sys.shrunk \in BOOLEAN
    BY <1>2 DEF System
  <2>3. o._file_size <= o._map_handle => v # nullptr
    BY <1>4 DEF ViewIs
  <2> QED BY <2>1, <2>2, <2>3
<1> HIDE DEF v
<1>6. /\ sys' \in System /\ sys'.table = sys.table /\ sys'.stolen = sys.stolen
      /\ sys'.wasPath = sys.wasPath /\ sys'.shrunk = sys.shrunk
      /\ sys'.views = sys.views /\ sys'.sections = sys.sections
      /\ v # nullptr => sys'.refused = TRUE
  <2> DEFINE b == (v # nullptr)
  <2>1. b \in BOOLEAN /\ (v # nullptr => b = TRUE) /\ sys' = [sys EXCEPT !.refused = b]
    BY <1>1
  <2> HIDE DEF b
  <2> QED BY <1>2, <2>1 DEF System
<1>7. /\ task' \in [Threads -> Task] /\ task'["user"] = task["user"]
      /\ task'["hash"].at = "crashed" /\ task'["hash"].own = k.own
      /\ task'["hash"].handle = k.handle
  BY <1>1, <1>2 DEF IInv, Types, Threads, Task, Place
<1>8. Types'
  BY <1>1, <1>6, <1>7 DEF IInv, Types
<1>9. UserPlaces' /\ HashPlaces'
  BY <1>1, <1>7 DEF IInv, UserPlaces, HashPlaces, IsClosed
<1>10. Counted' /\ PathsRemembered'
  BY <1>1, <1>6 DEF IInv, Counted, PathsRemembered
<1>11. HandlesKnown'
  <2> SUFFICES ASSUME sys'.stolen = FALSE PROVE Belongs' /\ Used'
    BY DEF HandlesKnown
  <2>1. Belongs /\ Used
    BY <1>6 DEF IInv, HandlesKnown
  <2> QED BY <1>1, <1>6, <1>7, <2>1 DEF Belongs, Used
<1>12. Hashing'
  BY <1>1, <1>5, <1>6, <1>7 DEF IInv, Hashing
<1>13. ViewHolds' /\ CopyHolds'
  BY <1>1 DEF IInv, ViewHolds, CopyHolds
<1> QED BY <1>8, <1>9, <1>10, <1>11, <1>12, <1>13 DEF IInv
-----------------------------------------------------------------------------

LEMMA Initially == Init => IInv
<1> SUFFICES ASSUME Init PROVE IInv
  OBVIOUS
<1> PICK n \in Sizes :
      sys = [table |-> [h \in Handles |-> "free"], size |-> n, views |-> 0, sections |-> 0,
             wasPath |-> FALSE, stolen |-> FALSE, shrunk |-> FALSE, refused |-> FALSE]
  BY DEF Init
<1>1. n \in Nat
  BY FileAssumption
<1>2. NewObject \in Object /\ Idle \in Task /\ IsClosed(NewObject)
      /\ NewObject._do_not_close_handle = TRUE
  BY DEF NewObject, FileIoHelper, Object, Handle, Idle, Task, Place, IsClosed
<1>3. /\ obj["user"] = NewObject /\ obj["hash"] = NewObject /\ obj \in [Threads -> Object]
      /\ task["user"] = Idle /\ task["hash"] = Idle /\ task \in [Threads -> Task]
      /\ mine = INVALID /\ copied = [ok |-> FALSE] /\ seen = <<>>
  BY <1>2 DEF Init, Threads
<1>4. Idle.at = "idle" /\ Idle.own = FALSE
  BY DEF Idle
<1>5. sys \in System
  BY <1>1 DEF System
<1>6. /\ sys.table = [h \in Handles |-> "free"] /\ sys.views = 0 /\ sys.sections = 0
      /\ sys.wasPath = FALSE /\ sys.stolen = FALSE
  OBVIOUS
<1>7. INVALID \notin Handles
  BY FileAssumption DEF INVALID
<1> HIDE DEF NewObject, Idle
<1>8. Types
  BY <1>3, <1>5 DEF Types, Handle
<1>9. UserPlaces /\ HashPlaces
  BY <1>2, <1>3, <1>4 DEF UserPlaces, HashPlaces, IsClosed
<1>10. Counted /\ PathsRemembered
  BY <1>2, <1>3, <1>6 DEF Counted, One, PathsRemembered, IsClosed
<1>11. HandlesKnown
  BY <1>2, <1>3, <1>4, <1>6, <1>7 DEF HandlesKnown, Belongs, Used, IsClosed
<1>12. Hashing
  <2>1. <<>> = Bytes(0, Len(<<>>))
    BY DEF Bytes
  <2> QED BY <1>3, <1>4, <2>1 DEF Hashing
<1>13. ViewHolds /\ CopyHolds
  BY <1>2, <1>3 DEF ViewHolds, CopyHolds, IsClosed
<1> QED BY <1>8, <1>9, <1>10, <1>11, <1>12, <1>13 DEF IInv

\* The ways a method begins by closing the user's object.
LEMMA OpenSteps ==
  ASSUME IInv, task["user"].at = "idle",
         \/ \E write \in BOOLEAN : OpenByPath(write) \/ OpenByHandle(write)
         \/ \E n \in Sizes : OpenForWrite(n)
         \/ CloseObject
  PROVE  IInv'
<1> DEFINE s == Close(obj["user"], sys)
           c == Closed(obj["user"])
           k == task["user"]
<1>1. c \in Object /\ IsClosed(c) /\ c._do_not_close_handle = obj["user"]._do_not_close_handle
  BY Closing
<1>2. k \in Task /\ task = [task EXCEPT !["user"] = k]
  BY DEF IInv, Types, Threads
<1>3. s \in System
  BY Closing
<1> HIDE DEF c
<1>4. ASSUME NEW write \in BOOLEAN, OpenByPath(write)
      PROVE  IInv'
  <2>1. CASE sys' = s /\ obj' = [obj EXCEPT !["user"] = c] /\ UNCHANGED <<task, mine, copied, seen>>
    BY <1>1, <1>2, <2>1, ClosedStep
  <2>2. ASSUME NEW f \in CreateFile(s, "locked"), sys' = [f.sys EXCEPT !.wasPath = TRUE],
               obj' = [obj EXCEPT !["user"] = [c EXCEPT !._do_not_close_handle = FALSE]],
               task' = [task EXCEPT !["user"] = [Idle EXCEPT !.at = "size", !.handle = f.handle,
                                                             !.own = TRUE, !.write = write]],
               UNCHANGED <<mine, copied, seen>>
        PROVE  IInv'
    <3> DEFINE x == [c EXCEPT !._do_not_close_handle = FALSE]
               t == [Idle EXCEPT !.at = "size", !.handle = f.handle, !.own = TRUE, !.write = write]
    <3>1. f.handle \in Handles /\ f.sys \in System
      BY <1>3, Created
    <3>2. /\ x \in Object /\ x._map_handle = 0 /\ x._file_view = nullptr
          /\ x._do_not_close_handle = FALSE /\ x._file_handle = INVALID
      BY <1>1 DEF Object, IsClosed
    <3>3. t \in Task /\ t.at = "size" /\ t.own = TRUE /\ t.handle = f.handle
      BY <3>1 DEF Task, Idle, Place, Handle
    <3>4. PICK n \in Nat : sys' = [f.sys EXCEPT !.size = n, !.wasPath = TRUE]
      <4>1. f.sys.size \in Nat /\ sys' = [f.sys EXCEPT !.size = f.sys.size, !.wasPath = TRUE]
        BY <2>2, <3>1 DEF System
      <4> QED BY <4>1
    <3>5. obj' = [obj EXCEPT !["user"] = x] /\ task' = [task EXCEPT !["user"] = t]
      BY <2>2
    <3> HIDE DEF x, t, s
    <3>6. f \in CreateFile(Close(obj["user"], sys), "locked")
      BY DEF s
    <3>7. "locked" \in {"locked", "written"}
      OBVIOUS
    <3>8. UNCHANGED <<mine, copied, seen>>
      BY <2>2
    <3> QED BY <3>2, <3>3, <3>4, <3>5, <3>6, <3>7, <3>8, OpenedStep
  <2> QED BY <1>4, <2>1, <2>2 DEF OpenByPath, Goes, c
<1>5. ASSUME NEW write \in BOOLEAN, OpenByHandle(write)
      PROVE  IInv'
  <2> DEFINE t == [Idle EXCEPT !.at = "size", !.handle = mine, !.write = write]
  <2>1. /\ mine # INVALID /\ obj' = [obj EXCEPT !["user"] = c] /\ sys' = s
        /\ task' = [task EXCEPT !["user"] = t] /\ UNCHANGED <<mine, copied, seen>>
    BY <1>5 DEF OpenByHandle, Goes, c
  <2>2. t \in Task /\ t.at = "size" /\ t.own = FALSE /\ t.handle = mine
    BY DEF IInv, Types, Task, Idle, Place, Handle
  <2> HIDE DEF t
  <2> QED BY <1>1, <2>1, <2>2, ClosedStep
<1>6. ASSUME NEW n \in Sizes, OpenForWrite(n)
      PROVE  IInv'
  <2> DEFINE x == [c EXCEPT !._read_only = FALSE, !._file_size = n]
  <2>1. n \in Nat
    BY FileAssumption
  <2>2. x \in Object /\ IsClosed(x) /\ x._do_not_close_handle = obj["user"]._do_not_close_handle
    BY <1>1, <2>1 DEF Object, IsClosed
  <2>3. CASE sys' = s /\ obj' = [obj EXCEPT !["user"] = c] /\ UNCHANGED <<task, mine, copied, seen>>
    BY <1>1, <1>2, <2>3, ClosedStep
  <2>4. CASE sys' = s /\ obj' = [obj EXCEPT !["user"] = x] /\ UNCHANGED <<task, mine, copied, seen>>
    <3> HIDE DEF x
    <3> QED BY <1>2, <2>2, <2>4, ClosedStep
  <2>5. ASSUME NEW f \in CreateFile(s, "written"), sys' = [f.sys EXCEPT !.size = 0, !.wasPath = TRUE],
               obj' = [obj EXCEPT !["user"] = [x EXCEPT !._file_handle = f.handle,
                                                        !._do_not_close_handle = FALSE]],
               task' = [task EXCEPT !["user"] = [Idle EXCEPT !.at = "extend"]],
               UNCHANGED <<mine, copied, seen>>
        PROVE  IInv'
    <3> DEFINE y == [x EXCEPT !._file_handle = f.handle, !._do_not_close_handle = FALSE]
               t == [Idle EXCEPT !.at = "extend"]
    <3> HIDE DEF x
    <3>1. f.handle \in Handles
      BY <1>3, Created
    <3>2. /\ y \in Object /\ y._map_handle = 0 /\ y._file_view = nullptr
          /\ y._do_not_close_handle = FALSE /\ y._file_handle = f.handle
      BY <2>2, <3>1 DEF Object, IsClosed, Handle
    <3>3. t \in Task /\ t.at = "extend" /\ t.own = FALSE
      BY DEF Task, Idle, Place, Handle
    <3>4. obj' = [obj EXCEPT !["user"] = y] /\ task' = [task EXCEPT !["user"] = t]
      BY <2>5
    <3> HIDE DEF y, t, s
    <3>5. f \in CreateFile(Close(obj["user"], sys), "written")
      BY DEF s
    <3>6. "written" \in {"locked", "written"} /\ 0 \in Nat
      OBVIOUS
    <3> QED BY <2>5, <3>2, <3>3, <3>4, <3>5, <3>6, OpenedStep
  <2> QED BY <1>6, <2>3, <2>4, <2>5 DEF OpenForWrite, Goes, c
<1>7. ASSUME CloseObject PROVE IInv'
  <2>1. sys' = s /\ obj' = [obj EXCEPT !["user"] = c] /\ UNCHANGED <<task, mine, copied, seen>>
    BY <1>7 DEF CloseObject, c
  <2> QED BY <1>1, <1>2, <2>1, ClosedStep
<1> QED BY <1>4, <1>5, <1>6, <1>7

LEMMA HashStartsSteps ==
  ASSUME IInv, HashByHandle \/ HashByPath
  PROVE  IInv'
<1>1. ASSUME HashByHandle PROVE IInv'
  <2> DEFINE t == [Idle EXCEPT !.at = "size", !.handle = mine]
  <2>1. /\ task["hash"].at = "idle" /\ mine # INVALID /\ obj' = [obj EXCEPT !["hash"] = NewObject]
        /\ task' = [task EXCEPT !["hash"] = t] /\ seen' = <<>> /\ UNCHANGED <<sys, mine, copied>>
    BY <1>1 DEF HashByHandle, Goes, At
  <2>2. t \in Task /\ t.at = "size" /\ t.own = FALSE /\ t.handle = mine
    BY DEF IInv, Types, Task, Idle, Place, Handle
  <2> HIDE DEF t, NewObject
  <2> QED BY <2>1, <2>2, HashStarts
<1>2. ASSUME HashByPath PROVE IInv'
  <2>1. PICK c \in CreateFile(sys, "hash") :
          sys' = c.sys /\ task' = [task EXCEPT !["hash"] = [Idle EXCEPT !.at = "size",
                                                !.handle = c.handle, !.own = TRUE]]
    BY <1>2 DEF HashByPath, Goes
  <2> DEFINE t == [Idle EXCEPT !.at = "size", !.handle = c.handle, !.own = TRUE]
  <2>2. /\ task["hash"].at = "idle" /\ obj' = [obj EXCEPT !["hash"] = NewObject]
        /\ task' = [task EXCEPT !["hash"] = t] /\ seen' = <<>> /\ UNCHANGED <<mine, copied>>
    BY <1>2, <2>1 DEF HashByPath, At
  <2>3. c.handle \in Handles /\ c.handle # INVALID
    <3>1. sys \in System /\ "hash" \in {"caller", "locked", "written", "hash"}
      BY DEF IInv, Types
    <3> QED BY <3>1, Created
  <2>4. t \in Task /\ t.at = "size" /\ t.own = TRUE /\ t.handle = c.handle
    BY <2>3 DEF Task, Idle, Place, Handle
  <2> HIDE DEF t, NewObject
  <2> QED BY <2>1, <2>2, <2>3, <2>4, HashStarts
<1> QED BY <1>1, <1>2

LEMMA Step == IInv /\ [Next]_vars => IInv'
<1> SUFFICES ASSUME IInv, [Next]_vars PROVE IInv'
  OBVIOUS
<1>1. CASE UNCHANGED vars
  <2>1. Types' /\ UserPlaces' /\ HashPlaces' /\ Counted' /\ PathsRemembered'
    BY <1>1 DEF IInv, Types, UserPlaces, HashPlaces, IsClosed, Counted, PathsRemembered, vars
  <2>2. HandlesKnown' /\ Hashing' /\ ViewHolds' /\ CopyHolds'
    BY <1>1 DEF IInv, HandlesKnown, Belongs, Used, Hashing, ViewHolds, CopyHolds, vars
  <2> QED BY <2>1, <2>2 DEF IInv
<1>2. CASE User
  <2>1. ASSUME NEW t \in Threads, QuerySize(t) \/ OpenFails(t) PROVE IInv'
    BY <2>1, QuerySizeStep, OpenFailsStep
  <2>2. CASE \/ \E write \in BOOLEAN : OpenByPath(write) \/ OpenByHandle(write)
             \/ \E n \in Sizes : OpenForWrite(n)
             \/ CloseObject
    <3>1. task["user"].at = "idle"
      BY <2>2 DEF OpenByPath, OpenByHandle, OpenForWrite, CloseObject, At
    <3> QED BY <2>2, <3>1, OpenSteps
  <2>3. ASSUME NEW r \in Ranges, NEW ro \in BOOLEAN,
               GetFilePointer(ro, r[1], r[2]) \/ Copy(ro, r[1], r[2])
        PROVE  IInv'
    <3>1. r \in Nat \X (0 .. DWORD - 1)
      BY FileAssumption
    <3>2. r[1] \in Nat /\ r[2] \in Nat
      BY <3>1
    <3> QED BY <2>3, <3>2, GetFilePointerStep, CopyStep
  <2>4. "user" \in Threads
    BY DEF Threads
  <2> QED BY <1>2, <2>1, <2>2, <2>3, <2>4, OpenMineStep, CloseMineStep, ReleaseStep, ExtendStep,
             MapNewStep, WriteFailsStep, MappingOfUser DEF User
<1>3. CASE Hash
  <2>1. "hash" \in Threads
    BY DEF Threads
  <2> QED BY <1>3, <2>1, HashStartsSteps, QuerySizeStep, MappingOfHash, OpenFailsStep,
             HashBlockStep, HashCrashesStep, HashReturnsStep DEF Hash
<1> QED BY <1>1, <1>2, <1>3 DEF Next

LEMMA Always == Spec => []IInv
BY Initially, Step, PTL DEF Spec
-----------------------------------------------------------------------------
\* Every variable keeps the form the methods read it in: a handle is one CreateFile
\* returned, sizes and counts are natural numbers.
THEOREM FileTypeCorrect == Spec => []TypeOK
<1>1. IInv => TypeOK
  <2> SUFFICES ASSUME IInv PROVE TypeOK
    OBVIOUS
  <2>1. sys \in System /\ mine \in Handle
    BY DEF IInv, Types
  <2>2. \A t \in Threads : obj[t]._file_handle \in Handle /\ task[t].handle \in Handle
    BY DEF IInv, Types, Object, Task
  <2> QED BY <2>1, <2>2 DEF TypeOK, System, Handle
<1> QED BY <1>1, Always, PTL

\* Whose an open handle is, as HandlesOwned says it.
LEMMA Owned == IInv => HandlesOwned
<1> SUFFICES ASSUME IInv PROVE HandlesOwned
  OBVIOUS
<1>1. TypeOK
  <2>1. sys \in System /\ mine \in Handle
    BY DEF IInv, Types
  <2>2. \A t \in Threads : obj[t]._file_handle \in Handle /\ task[t].handle \in Handle
    BY DEF IInv, Types, Object, Task
  <2> QED BY <2>1, <2>2 DEF TypeOK, System, Handle
<1>2. /\ sys.stolen \in BOOLEAN /\ sys.wasPath \in BOOLEAN
      /\ sys.table \in [Handles -> {"free", "caller", "locked", "written", "hash"}]
      /\ sys.stolen = TRUE => sys.wasPath = TRUE
  BY DEF IInv, Types, System, PathsRemembered
<1>3. /\ obj["hash"]._do_not_close_handle = TRUE
      /\ task["user"].own \in BOOLEAN /\ task["hash"].own \in BOOLEAN
      /\ obj["user"]._do_not_close_handle \in BOOLEAN
  BY DEF IInv, Types, Threads, Task, Object, HashPlaces
<1>4. /\ task["user"].own = TRUE => task["user"].handle \in Owns("user")
      /\ task["hash"].own = TRUE => task["hash"].handle \in Owns("hash")
      /\ obj["user"]._do_not_close_handle = FALSE => obj["user"]._file_handle \in Owns("user")
  BY DEF Owns
<1>5. ASSUME sys.wasPath = FALSE
      PROVE  /\ \A h \in Handles : sys.table[h] = "caller" <=> h = mine
             /\ \A h \in Open(sys) : h = mine \/ h \in Owns("hash")
  <2>1. Belongs
    BY <1>2, <1>5 DEF IInv, HandlesKnown
  <2>2. \A h \in Handles : sys.table[h] \notin {"locked", "written"}
    BY <1>5 DEF IInv, PathsRemembered
  <2> QED BY <1>2, <1>4, <2>1, <2>2 DEF Belongs, Open
<1>6. ASSUME sys.stolen = FALSE
      PROVE  /\ \A h \in Open(sys) : h = mine \/ \E t \in Threads : h \in Owns(t)
             /\ \A t \in Threads : obj[t]._file_handle # INVALID =>
                                     sys.table[obj[t]._file_handle] # "free"
  <2>1. Belongs /\ Used
    BY <1>6 DEF IInv, HandlesKnown
  <2>2. ASSUME NEW h \in Open(sys) PROVE h = mine \/ h \in Owns("user") \/ h \in Owns("hash")
    BY <1>2, <1>4, <2>1 DEF Belongs, Open
  <2>3. mine # INVALID => sys.table[mine] = "caller"
    BY <2>1, HandlesInUse DEF Belongs
  <2>4. obj["user"]._file_handle # INVALID => sys.table[obj["user"]._file_handle] # "free"
    BY <2>1, <2>3 DEF Used
  <2>5. obj["hash"]._file_handle # INVALID => sys.table[obj["hash"]._file_handle] # "free"
    <3>1. SUFFICES ASSUME obj["hash"]._file_handle # INVALID
                   PROVE  sys.table[obj["hash"]._file_handle] # "free"
      OBVIOUS
    <3>2. task["hash"].at \in {"block", "crashed"} /\ obj["hash"]._file_handle = task["hash"].handle
      BY <3>1 DEF IInv, HashPlaces, IsClosed
    <3> QED BY <2>1, <2>3, <3>1, <3>2 DEF Used
  <2> QED BY <2>2, <2>4, <2>5 DEF Threads
<1> QED BY <1>1, <1>2, <1>5, <1>6 DEF HandlesOwned

LEMMA MappedOwned == IInv => NothingMappedIsLost
<1> SUFFICES ASSUME IInv PROVE NothingMappedIsLost
  OBVIOUS
<1> DEFINE M == {t \in Threads : obj[t]._map_handle # 0}
           V == {t \in Threads : obj[t]._file_view # nullptr}
<1>1. obj["hash"]._file_view = nullptr
  BY DEF IInv, HashPlaces
<1>2. /\ "user" \in M <=> obj["user"]._map_handle # 0
      /\ "hash" \in M <=> obj["hash"]._map_handle # 0
      /\ "user" \in V <=> obj["user"]._file_view # nullptr
      /\ "hash" \notin V
      /\ M \in SUBSET Threads /\ V \in SUBSET Threads
  BY <1>1 DEF Threads
<1> HIDE DEF M, V
<1>3. /\ Cardinality(M) = One("user" \in M) + One("hash" \in M)
      /\ Cardinality(V) = One("user" \in V) + One("hash" \in V)
  BY <1>2, CountOfTwo
<1>4. sys.sections = Cardinality(M)
  <2>1. /\ One("user" \in M) = One(obj["user"]._map_handle # 0)
        /\ One("hash" \in M) = One(obj["hash"]._map_handle # 0)
    BY <1>2 DEF One
  <2> QED BY <1>3, <2>1 DEF IInv, Counted
<1>5. sys.views = Cardinality(V)
  <2>1. One("user" \in V) = One(obj["user"]._file_view # nullptr) /\ One("hash" \in V) = 0
        /\ One(obj["user"]._file_view # nullptr) \in Nat
    BY <1>2 DEF One
  <2> QED BY <1>3, <2>1 DEF IInv, Counted
<1>6. obj["user"]._map_handle # 0 => obj["user"]._file_handle # INVALID
  BY DEF IInv, UserPlaces, IsClosed
<1>7. obj["hash"]._map_handle # 0 => obj["hash"]._file_handle # INVALID
  BY DEF IInv, HashPlaces, IsClosed
<1> QED BY <1>4, <1>5, <1>6, <1>7 DEF NothingMappedIsLost, M, V, Threads

\* close() and every failing open give back exactly what was opened: no handle, no
\* section and no view is lost or given back twice, whatever the other thread does,
\* until the object closes a handle that is not its own.
THEOREM NoHandleIsLost == Spec => []NothingIsLost
<1>1. IInv => NothingIsLost
  BY Owned, MappedOwned DEF NothingIsLost
<1> QED BY <1>1, Always, PTL

\* A pointer GetFilePointer returned, and a copy ReadFromFile and WriteToFile report,
\* lie in the section, and reach as far as was asked for when the sum fits a DWORD.
THEOREM ViewsAreWideEnough == Spec => []ViewsHoldWhatWasAsked
<1>1. IInv => ViewsHoldWhatWasAsked
  BY DEF IInv, ViewHolds, CopyHolds, ViewsHoldWhatWasAsked
<1> QED BY <1>1, Always, PTL

\* get_file_hash_by_filehandle gives every byte to the digests, once and in order.
THEOREM EveryByteIsHashed == Spec => []HashedWhole
<1>1. IInv => HashedWhole
  BY DEF IInv, Hashing, HashedWhole, At
<1> QED BY <1>1, Always, PTL
-----------------------------------------------------------------------------
(* CMemoryStream *)

Cell == Byte \union {Undefined}

\* The types of a stream and of its block.
Typed(s) ==
  /\ s \in [capacity : Nat, mem : [DOMAIN s.mem -> Cell], size : Nat, pos : Nat,
            read_only : BOOLEAN]
  /\ s.capacity <= MaxMemory
  /\ \E n \in 0..s.capacity : DOMAIN s.mem = 0..n - 1

\* The position is in the data, the data in the block, and all data written.
Good(s) ==
  /\ Typed(s)
  /\ s.pos <= s.size /\ s.size <= s.capacity
  /\ s.mem # Null => DOMAIN s.mem = 0..s.capacity - 1
  /\ Usable(s) => \A i \in 0..s.size - 1 : s.mem[i] \in Byte
-----------------------------------------------------------------------------
\* Rounding up to pages never gives less than was asked for.
LEMMA RoundUpIsEnough ==
  ASSUME NEW n \in Nat
  PROVE  RoundUp(n) \in Nat /\ RoundUp(n) >= n
<1>1. n % PageSize \in Nat /\ n % PageSize < PageSize
  BY StreamAssumption
<1>2. n % PageSize \in Int /\ PageSize \in Int
  BY <1>1, StreamAssumption
<1> QED
  BY <1>1, <1>2 DEF RoundUp

\* A block that was made to hold n cells holds them, and keeps the data.
LEMMA GrownIsGood ==
  ASSUME NEW s, Good(s), Usable(s), NEW n \in Nat, n > s.size, NEW t \in IncreseSize(s, n)
  PROVE  /\ Good(t) /\ Usable(t)
         /\ DOMAIN t.mem = 0..t.capacity - 1 /\ t.capacity >= n
         /\ t.pos = s.pos /\ t.size = s.size /\ t.read_only = s.read_only
<1> DEFINE c == RoundUp(n)
<1>1. c \in Nat /\ c >= n /\ c > 0
  BY RoundUpIsEnough DEF Good, Typed
<1>2. t = Grown(s, n) /\ c <= MaxMemory
  BY DEF IncreseSize, Good, Typed
<1>3. s.capacity \in Nat /\ s.size \in Nat /\ s.pos \in Nat /\ s.read_only \in BOOLEAN
  BY DEF Good, Typed
<1>4. t = [capacity |-> c,
           mem |-> [i \in 0..c - 1 |-> IF i \in DOMAIN s.mem THEN s.mem[i] ELSE Undefined],
           size |-> s.size, pos |-> s.pos, read_only |-> s.read_only]
  BY <1>2 DEF Grown, Good, Typed
<1>5. \A i \in DOMAIN s.mem : s.mem[i] \in Cell
  BY DEF Good, Typed
<1>6. t.mem \in [0..c - 1 -> Cell]
  BY <1>4, <1>5 DEF Cell
<1>7. Typed(t)
  BY <1>1, <1>2, <1>3, <1>4, <1>6 DEF Typed
<1>8. t.mem # Null
  BY <1>1, <1>4 DEF Null
<1>9. \A i \in 0..t.size - 1 : t.mem[i] \in Byte
  <2> SUFFICES ASSUME NEW i \in 0..s.size - 1 PROVE t.mem[i] \in Byte
    BY <1>4
  <2>1. s.mem[i] \in Byte /\ DOMAIN s.mem = 0..s.capacity - 1 /\ s.size <= s.capacity
    BY <1>3 DEF Good, Usable
  <2>2. i \in DOMAIN s.mem /\ i \in 0..c - 1
    BY <1>1, <1>3, <2>1
  <2> QED
    BY <1>4, <2>1, <2>2
<1> QED
  BY <1>1, <1>3, <1>4, <1>7, <1>8, <1>9 DEF Good, Usable

\* The block has room for n cells when a write begins to copy.
LEMMA RoomIsEnough ==
  ASSUME NEW s, Good(s), Usable(s), NEW n \in Nat \ {0}, NEW t \in Room(s, n)
  PROVE  /\ Good(t) /\ Usable(t)
         /\ DOMAIN t.mem = 0..t.capacity - 1 /\ t.capacity >= n
         /\ t.pos = s.pos /\ t.size = s.size /\ t.read_only = s.read_only
<1>1. CASE n > s.size
  BY <1>1, GrownIsGood DEF Room
<1>2. CASE ~(n > s.size)
  BY <1>2 DEF Room, Good, Typed, Usable
<1> QED
  BY <1>1, <1>2

\* Writing into a block with room leaves every cell of the data written.
LEMMA PutIsGood ==
  ASSUME NEW t, Good(t), Usable(t), DOMAIN t.mem = 0..t.capacity - 1,
         NEW b \in Seq(Byte), t.capacity >= t.pos + Len(b)
  PROVE  Good(Put(t, b)) /\ (b # <<>> => Usable(Put(t, b)))
<1> DEFINE e == t.pos + Len(b)
<1> DEFINE m == [i \in DOMAIN t.mem |-> IF i \in t.pos..e - 1 THEN b[i - t.pos + 1] ELSE t.mem[i]]
<1>1. t.capacity \in Nat /\ t.size \in Nat /\ t.pos \in Nat /\ t.read_only \in BOOLEAN
  BY DEF Good, Typed
<1>2. Len(b) \in Nat /\ e \in Nat
  BY <1>1
<1>3. Put(t, b) = [capacity |-> t.capacity, mem |-> m, size |-> e, pos |-> e,
                   read_only |-> t.read_only]
  <2>1. Put(t, b) = [t EXCEPT !.mem = m, !.pos = e, !.size = e]
    BY DEF Put
  <2> HIDE DEF e, m
  <2> QED
    BY <2>1 DEF Good, Typed
<1>4. \A i \in t.pos..e - 1 : b[i - t.pos + 1] \in Byte
  <2> SUFFICES ASSUME NEW i \in t.pos..e - 1 PROVE b[i - t.pos + 1] \in Byte
    OBVIOUS
  <2>1. i - t.pos + 1 \in 1..Len(b)
    BY <1>1, <1>2
  <2> QED
    BY <2>1
<1>5. \A i \in DOMAIN t.mem : t.mem[i] \in Cell
  BY DEF Good, Typed
<1>6. m \in [0..t.capacity - 1 -> Cell]
  BY <1>4, <1>5 DEF Cell
<1>7. Typed(Put(t, b))
  BY <1>1, <1>2, <1>3, <1>6 DEF Typed, Good
<1>8. b # <<>> => m # Null
  <2> SUFFICES ASSUME b # <<>> PROVE m # Null
    OBVIOUS
  <2>1. Len(b) > 0
    BY <1>2
  <2>2. 0 \in DOMAIN m
    BY <1>1, <1>2, <2>1
  <2> QED
    BY <2>2 DEF Null
<1>9. \A i \in 0..e - 1 : m[i] \in Byte
  <2> SUFFICES ASSUME NEW i \in 0..e - 1 PROVE m[i] \in Byte
    OBVIOUS
  <2>1. i \in DOMAIN t.mem
    BY <1>1, <1>2
  <2>2. CASE i \in t.pos..e - 1
    BY <1>4, <2>1, <2>2
  <2>3. CASE i \notin t.pos..e - 1
    <3>1. i \in 0..t.size - 1
      BY <1>1, <1>2, <2>3 DEF Good
    <3> QED
      BY <2>1, <2>3, <3>1 DEF Good
  <2> QED
    BY <2>2, <2>3
<1> QED
  BY <1>1, <1>2, <1>3, <1>7, <1>8, <1>9 DEF Good, Usable

\* Every outcome of a write is a good stream that can be used.
LEMMA WriteIsGood ==
  ASSUME NEW s, Good(s), Usable(s), NEW b \in Seq(Byte), NEW o \in WriteToStream(s, b)
  PROVE  Good(o.s) /\ Usable(o.s)
<1>1. CASE o = Denied(s)
  BY <1>1 DEF Denied
<1>2. CASE b # <<>> /\ \E t \in Room(s, s.pos + Len(b)) : o = [s |-> Put(t, b), ok |-> TRUE]
  <2>1. PICK t \in Room(s, s.pos + Len(b)) : o = [s |-> Put(t, b), ok |-> TRUE]
    BY <1>2
  <2>2. s.pos + Len(b) \in Nat \ {0}
    <3>1. Len(b) \in Nat /\ Len(b) # 0
      BY <1>2
    <3>2. s.pos \in Nat
      BY DEF Good, Typed
    <3> QED
      BY <3>1, <3>2
  <2> QED
    BY <1>2, <2>1, <2>2, RoomIsEnough, PutIsGood
<1> QED
  BY <1>1, <1>2 DEF WriteToStream

\* So is every outcome of writing a string, complete or not.
LEMMA WriteStringIsGood ==
  ASSUME NEW s, Good(s), Usable(s), NEW b \in String, NEW o \in WriteString(s, b)
  PROVE  Good(o.s)
<1>1. b \in Seq(Byte) /\ <<Len(b)>> \in Seq(Byte)
  BY StreamAssumption
<1>2. PICK p \in WriteToStream(s, <<Len(b)>>) :
        o \in IF p.ok /\ b # <<>> THEN WriteToStream(p.s, b) ELSE {p}
  BY DEF WriteString
<1>3. Good(p.s) /\ Usable(p.s)
  BY <1>1, WriteIsGood
<1> QED
  BY <1>1, <1>2, <1>3, WriteIsGood

\* A read moves the position, and not out of the data; what it returns are
\* cells that were written.
LEMMA ReadIsGood ==
  ASSUME NEW s, Good(s), Usable(s), NEW n \in Nat
  PROVE  /\ Good(ReadFromStream(s, n).s) /\ Usable(ReadFromStream(s, n).s)
         /\ ReadFromStream(s, n).b \in Seq(Byte)
<1> DEFINE r == ReadFromStream(s, n)
<1>1. s.capacity \in Nat /\ s.size \in Nat /\ s.pos \in Nat /\ s.read_only \in BOOLEAN
  BY DEF Good, Typed
<1>2. CASE r = [s |-> s, b |-> <<>>]
  BY <1>2
<1>3. CASE /\ n # 0 /\ n <= s.size - s.pos
           /\ r = [s |-> [s EXCEPT !.pos = s.pos + n], b |-> [i \in 1..n |-> s.mem[s.pos + i - 1]]]
  <2>0. r.s = [s EXCEPT !.pos = s.pos + n]
    BY <1>3
  <2>1. r.s = [capacity |-> s.capacity, mem |-> s.mem, size |-> s.size, pos |-> s.pos + n,
               read_only |-> s.read_only]
    BY <2>0 DEF Good, Typed
  <2>2. s.pos + n \in Nat /\ s.pos + n <= s.size
    BY <1>1, <1>3
  <2>3. Good(r.s) /\ Usable(r.s)
    <3> HIDE DEF r
    <3>1. /\ r.s.capacity = s.capacity /\ r.s.mem = s.mem /\ r.s.size = s.size
          /\ r.s.pos = s.pos + n /\ r.s.read_only = s.read_only
      BY <2>1
    <3>2. Typed(r.s)
      BY <2>1, <2>2, <3>1 DEF Good, Typed
    <3> QED
      BY <2>2, <3>1, <3>2 DEF Good, Usable
  <2>4. \A i \in 1..n : s.mem[s.pos + i - 1] \in Byte
    <3> SUFFICES ASSUME NEW i \in 1..n PROVE s.mem[s.pos + i - 1] \in Byte
      OBVIOUS
    <3>1. s.pos + i - 1 \in 0..s.size - 1
      BY <1>1, <2>2
    <3> QED
      BY <3>1 DEF Good
  <2>5. r.b \in Seq(Byte)
    BY <1>3, <2>4
  <2> QED
    BY <2>3, <2>5
<1> QED
  BY <1>1, <1>2, <1>3 DEF ReadFromStream

LEMMA ReadIntIsGood ==
  ASSUME NEW s, Good(s), Usable(s)
  PROVE  Good(ReadInt(s).s) /\ Usable(ReadInt(s).s) /\ ReadInt(s).v \in Byte
<1> DEFINE r == ReadFromStream(s, 1)
<1>1. Good(r.s) /\ Usable(r.s) /\ r.b \in Seq(Byte)
  BY ReadIsGood
<1>2. r.b # <<>> => r.b[1] \in Byte
  BY <1>1
<1> QED
  BY <1>1, <1>2, StreamAssumption DEF ReadInt

LEMMA ReadStringIsGood ==
  ASSUME NEW s, Good(s), Usable(s)
  PROVE  Good(ReadString(s).s) /\ Good(ReadWstring(s).s)
<1>1. Good(ReadInt(s).s) /\ Usable(ReadInt(s).s) /\ ReadInt(s).v \in Nat
  BY ReadIntIsGood, StreamAssumption
<1>2. Good(ReadFromStream(ReadInt(s).s, ReadInt(s).v).s)
  BY <1>1, ReadIsGood
<1> QED
  BY <1>1, <1>2 DEF ReadString, ReadWstring
-----------------------------------------------------------------------------
LEMMA EmptyIsGood == Good(Empty)
<1>1. Typed(Empty)
  BY StreamAssumption DEF Empty, Typed, Null
<1> QED
  BY <1>1 DEF Good, Empty, Null, Usable

LEMMA InitIsGood == StreamInit => Good(stream)
<1> SUFFICES ASSUME StreamInit PROVE Good(stream)
  OBVIOUS
<1>1. CASE stream = Empty
  BY <1>1, EmptyIsGood
<1>2. CASE \E n \in 1..MaxMemory : \E image \in [0..n - 1 -> Byte] : stream = ViewOf(n, image)
  <2>0. PICK n \in 1..MaxMemory : \E image \in [0..n - 1 -> Byte] : stream = ViewOf(n, image)
    BY <1>2
  <2>1. PICK image \in [0..n - 1 -> Byte] : stream = ViewOf(n, image)
    BY <2>0
  <2>2. n \in Nat /\ n <= MaxMemory /\ 0 \in 0..n - 1
    BY StreamAssumption
  <2>3. Typed(stream)
    BY <2>1, <2>2 DEF ViewOf, Typed, Cell
  <2>4. image # Null
    BY <2>2 DEF Null
  <2> QED
    BY <2>1, <2>2, <2>3, <2>4 DEF Good, ViewOf, Usable
<1> QED
  BY <1>1, <1>2 DEF StreamInit

\* Good is inductive: one step per call.
LEMMA StepIsGood == Good(stream) /\ [StreamNext]_streamVars => Good(stream')
<1> SUFFICES ASSUME Good(stream), [StreamNext]_streamVars PROVE Good(stream')
  OBVIOUS
<1>1. ASSUME NEW v \in Byte, WriteInt(v) PROVE Good(stream')
  <2>1. <<v>> \in Seq(Byte) /\ Usable(stream)
    BY <1>1 DEF WriteInt
  <2> QED
    BY <1>1, <2>1, WriteIsGood DEF WriteInt
<1>2. ASSUME NEW b \in String, Write(b) PROVE Good(stream')
  BY <1>2, WriteStringIsGood DEF Write
<1>3. ASSUME NEW p \in 0..MaxMemory, SetPos(p) PROVE Good(stream')
  <2>1. stream' = [capacity |-> stream.capacity, mem |-> stream.mem, size |-> stream.size,
                   pos |-> p, read_only |-> stream.read_only]
    BY <1>3 DEF SetPos, Good, Typed
  <2>2. p \in Nat /\ p <= stream.size
    BY <1>3, StreamAssumption DEF SetPos
  <2> QED
    BY <2>1, <2>2 DEF Good, Typed, Usable
<1>4. ASSUME NEW n \in 0..MaxMemory, Reserve(n) PROVE Good(stream')
  <2>1. Good(Empty) /\ Usable(Empty) /\ n \in Nat /\ Empty.size = 0
    BY EmptyIsGood, StreamAssumption DEF Usable, Empty
  <2>2. CASE n = 0
    BY <1>4, <2>1, <2>2 DEF Reserve, IncreseSize, Empty
  <2>3. CASE n > 0
    BY <1>4, <2>1, <2>3, GrownIsGood DEF Reserve
  <2> QED
    BY <2>1, <2>2, <2>3
<1>5. CASE Read
  BY <1>5, ReadIntIsGood, ReadStringIsGood DEF Read
<1>6. CASE ClearStream
  BY <1>6, EmptyIsGood DEF ClearStream
<1>7. CASE ReleaseMemory
  <2>1. stream' = [capacity |-> stream.capacity, mem |-> Null, size |-> stream.size,
                   pos |-> stream.pos, read_only |-> stream.read_only]
    BY <1>7 DEF ReleaseMemory, Good, Typed
  <2>2. Null \in [{} -> Cell] /\ DOMAIN Null = {} /\ 0..0 - 1 = {}
    BY DEF Null
  <2>3. Typed(stream')
    BY <2>1, <2>2, SMTT(30) DEF Good, Typed
  <2>4. Usable(stream') => stream.size = 0
    BY <2>1 DEF Usable, Good, Typed
  <2> QED
    BY <2>1, <2>3, <2>4 DEF Good
<1>8. CASE UNCHANGED streamVars
  BY <1>8 DEF streamVars
<1> QED
  BY <1>1, <1>2, <1>3, <1>4, <1>5, <1>6, <1>7, <1>8 DEF StreamNext

\* The inductive invariant.
StreamInv == Good(stream)

LEMMA AlwaysGood == StreamSpec => []StreamInv
<1>1. StreamInit => StreamInv
  BY InitIsGood DEF StreamInv
<1>2. StreamInv /\ [StreamNext]_streamVars => StreamInv'
  BY StepIsGood DEF StreamInv
<1> QED
  BY <1>1, <1>2, PTL DEF StreamSpec

LEMMA GoodIsTypedAndSafe == StreamInv => StreamTypeOK /\ SafeBlock
  BY DEF StreamInv, Good, Typed, StreamTypeOK, SafeBlock, Cell

\* The members of a stream keep their types, and its block never has more
\* cells than its capacity says.
THEOREM StreamTypeCorrect == StreamSpec => []StreamTypeOK
  BY AlwaysGood, GoodIsTypedAndSafe, PTL

\* No sequence of calls makes a stream access memory outside its block or
\* return a cell that was never written.
THEOREM NoAccessOutsideTheBlock == StreamSpec => []SafeBlock
  BY AlwaysGood, GoodIsTypedAndSafe, PTL
-----------------------------------------------------------------------------
(* What was written is read again.  The log says what must still be there,  *)
(* so the invariant relates it to the cells: every entry lies in the data,  *)
(* and its cells hold it.                                                   *)

\* The cells of stream s hold the entry e.
Holds(s, e) ==
  IF e.kind = "int" THEN s.mem[e.at] = e.v[1]
  ELSE /\ s.mem[e.at] = Len(e.v)
       /\ \A i \in 1..Len(e.v) : s.mem[e.at + i] = e.v[i]

\* An entry is an integer, of one cell, or a string with its length.
Entry(e) ==
  /\ e.at \in Nat /\ e.v \in Seq(Byte)
  /\ e.kind = "int" => Len(e.v) = 1

Kept(s, e) == /\ Entry(e)
              /\ e.at + Cells(e) <= s.size
              /\ Usable(s) /\ Holds(s, e)

Remembered(s, l) == \A e \in l : Kept(s, e)

\* The cells before the position, which a write leaves alone.
Before(s, t) == \A i \in 0..s.pos - 1 : t.mem[i] = s.mem[i]

\* Stream t is s with b written at its position.
Wrote(s, b, t) ==
  /\ t.pos = s.pos + Len(b) /\ t.size = s.pos + Len(b)
  /\ Before(s, t)
  /\ \A i \in 1..Len(b) : t.mem[s.pos + i - 1] = b[i]

\* Making room keeps the data before the position.
LEMMA RoomKeepsData ==
  ASSUME NEW s, Good(s), Usable(s), NEW n \in Nat \ {0}, NEW t \in Room(s, n)
  PROVE  Before(s, t)
<1>1. CASE n > s.size
  <2>1. /\ s.capacity \in Nat /\ s.size \in Nat /\ s.pos \in Nat
        /\ s.pos <= s.size /\ s.size <= s.capacity
    BY DEF Good, Typed
  <2>2. t = Grown(s, n) /\ RoundUp(n) \in Nat /\ RoundUp(n) >= n
    BY <1>1, <2>1, RoundUpIsEnough DEF Room, IncreseSize
  <2>3. t.mem = [i \in 0..RoundUp(n) - 1 |-> IF i \in DOMAIN s.mem THEN s.mem[i] ELSE Undefined]
    BY <2>2 DEF Grown, Good, Typed
  <2>4. ASSUME NEW i \in 0..s.pos - 1 PROVE t.mem[i] = s.mem[i]
    <3>1. s.size > 0 /\ DOMAIN s.mem = 0..s.capacity - 1
      BY <2>1 DEF Good, Usable
    <3>2. i \in 0..RoundUp(n) - 1 /\ i \in DOMAIN s.mem
      BY <1>1, <2>1, <2>2, <3>1
    <3> QED
      BY <2>3, <3>2
  <2> QED
    BY <2>4 DEF Before
<1>2. CASE ~(n > s.size)
  BY <1>2 DEF Room, Before
<1> QED
  BY <1>1, <1>2

\* Writing into a block with room does what it says.
LEMMA PutWrites ==
  ASSUME NEW t, Good(t), DOMAIN t.mem = 0..t.capacity - 1,
         NEW b \in Seq(Byte), t.capacity >= t.pos + Len(b)
  PROVE  Wrote(t, b, Put(t, b))
<1> DEFINE e == t.pos + Len(b)
<1> DEFINE m == [i \in DOMAIN t.mem |-> IF i \in t.pos..e - 1 THEN b[i - t.pos + 1] ELSE t.mem[i]]
<1> DEFINE p == Put(t, b)
<1>1. t.capacity \in Nat /\ t.pos \in Nat /\ Len(b) \in Nat /\ e \in Nat
  BY DEF Good, Typed
<1>2. p.mem = m /\ p.pos = e /\ p.size = e
  <2>1. p = [t EXCEPT !.mem = m, !.pos = e, !.size = e]
    BY DEF Put
  <2> HIDE DEF e, m, p
  <2> QED
    BY <2>1 DEF Good, Typed
<1>3. ASSUME NEW i \in 0..t.pos - 1 PROVE p.mem[i] = t.mem[i]
  <2>1. i \in DOMAIN t.mem /\ i \notin t.pos..e - 1
    BY <1>1
  <2> QED
    BY <1>2, <2>1
<1>4. ASSUME NEW i \in 1..Len(b) PROVE p.mem[t.pos + i - 1] = b[i]
  <2>1. /\ t.pos + i - 1 \in DOMAIN t.mem /\ t.pos + i - 1 \in t.pos..e - 1
        /\ (t.pos + i - 1) - t.pos + 1 = i
    BY <1>1
  <2>2. m[t.pos + i - 1] = b[(t.pos + i - 1) - t.pos + 1]
    BY <2>1
  <2> QED
    BY <1>2, <2>1, <2>2
<1> QED
  BY <1>2, <1>3, <1>4 DEF Wrote, Before

\* A write fails without a change, or writes.
LEMMA WriteWrites ==
  ASSUME NEW s, Good(s), Usable(s), NEW b \in Seq(Byte), NEW o \in WriteToStream(s, b)
  PROVE  \/ o = Denied(s)
         \/ o.ok = TRUE /\ b # <<>> /\ s.read_only = FALSE /\ Wrote(s, b, o.s)
<1>0. s.read_only \in BOOLEAN
  BY DEF Good, Typed
<1>1. \/ o = Denied(s)
      \/ /\ b # <<>> /\ s.read_only = FALSE
         /\ \E t \in Room(s, s.pos + Len(b)) : o = [s |-> Put(t, b), ok |-> TRUE]
  BY <1>0 DEF WriteToStream
<1> SUFFICES ASSUME b # <<>>, s.read_only = FALSE,
                    \E t \in Room(s, s.pos + Len(b)) : o = [s |-> Put(t, b), ok |-> TRUE]
             PROVE  o.ok = TRUE /\ Wrote(s, b, o.s)
  BY <1>1
<1>2. PICK t \in Room(s, s.pos + Len(b)) : o = [s |-> Put(t, b), ok |-> TRUE]
  OBVIOUS
<1>3. s.pos \in Nat /\ Len(b) \in Nat /\ s.pos + Len(b) \in Nat \ {0}
  <2>1. Len(b) \in Nat /\ Len(b) # 0
    OBVIOUS
  <2>2. s.pos \in Nat
    BY DEF Good, Typed
  <2> QED
    BY <2>1, <2>2
<1>4. /\ Good(t) /\ Usable(t) /\ DOMAIN t.mem = 0..t.capacity - 1
      /\ t.capacity >= s.pos + Len(b) /\ t.pos = s.pos
  BY <1>3, RoomIsEnough
<1>5. Before(s, t)
  BY <1>3, RoomKeepsData
<1>6. Wrote(t, b, o.s)
  BY <1>2, <1>4, PutWrites
<1> QED
  BY <1>2, <1>4, <1>5, <1>6 DEF Wrote, Before

\* What lies before the position is kept by whatever keeps those cells.
LEMMA KeptBefore ==
  ASSUME NEW s, NEW t, NEW e, Kept(s, e), s.pos \in Nat, t.size \in Nat,
         e.at + Cells(e) <= s.pos, s.pos <= t.size, Usable(t), Before(s, t)
  PROVE  Kept(t, e)
<1>1. e.at \in Nat /\ Len(e.v) \in Nat /\ Cells(e) \in Nat /\ Cells(e) > 0
  BY DEF Kept, Entry, Cells
<1>2. e.at \in 0..s.pos - 1
  BY <1>1
<1>3. ASSUME e.kind # "int", NEW i \in 1..Len(e.v) PROVE t.mem[e.at + i] = s.mem[e.at + i]
  <2>1. e.at + i \in 0..s.pos - 1
    BY <1>1, <1>3 DEF Cells
  <2> QED
    BY <2>1 DEF Before
<1>4. Holds(t, e)
  BY <1>2, <1>3 DEF Kept, Holds, Before
<1>5. e.at + Cells(e) <= t.size
  BY <1>1
<1> QED
  BY <1>4, <1>5 DEF Kept

\* A call that moves the position only keeps everything.
LEMMA KeptInPlace ==
  ASSUME NEW s, NEW t, NEW l, Remembered(s, l), t.mem = s.mem, t.size = s.size
  PROVE  Remembered(t, l)
  BY DEF Remembered, Kept, Holds, Usable

\* What a write adds to the log, and what it leaves in it.
LEMMA WriteIsRemembered ==
  ASSUME NEW s, Good(s), NEW t, Good(t), Usable(t), NEW b \in Seq(Byte), Wrote(s, b, t),
         NEW l, Remembered(s, l),
         NEW x, Entry(x), x.at = s.pos, Cells(x) = Len(b), Holds(t, x)
  PROVE  Remembered(t, {e \in l : e.at + Cells(e) <= s.pos} \union {x})
<1>1. s.pos \in Nat /\ t.size \in Nat /\ Len(b) \in Nat /\ t.size = s.pos + Len(b)
  BY DEF Good, Typed, Wrote
<1>2. ASSUME NEW e \in l, e.at + Cells(e) <= s.pos PROVE Kept(t, e)
  BY <1>1, <1>2, KeptBefore DEF Remembered, Wrote
<1>3. Kept(t, x)
  BY <1>1 DEF Kept
<1> QED
  BY <1>2, <1>3 DEF Remembered

\* The two writes of a string, one after the other.
LEMMA WriteStringWrites ==
  ASSUME NEW s, Good(s), Usable(s), NEW b \in String, NEW o \in WriteString(s, b)
  PROVE  \/ o = Denied(s)
         \/ o.ok = FALSE /\ s.read_only = FALSE /\ Good(o.s) /\ Usable(o.s) /\ Wrote(s, <<Len(b)>>, o.s)
         \/ /\ o.ok = TRUE /\ s.read_only = FALSE /\ Good(o.s) /\ Usable(o.s)
            /\ Wrote(s, <<Len(b)>> \o b, o.s)
<1> DEFINE n == <<Len(b)>>
<1>1. b \in Seq(Byte) /\ n \in Seq(Byte) /\ Len(n) = 1 /\ n[1] = Len(b) /\ Len(b) \in Nat
  BY StreamAssumption
<1>2. PICK p \in WriteToStream(s, n) :
        o \in IF p.ok /\ b # <<>> THEN WriteToStream(p.s, b) ELSE {p}
  BY DEF WriteString
<1>3. Good(p.s) /\ Usable(p.s)
  BY <1>1, WriteIsGood
<1>4. p = Denied(s) \/ (p.ok = TRUE /\ s.read_only = FALSE /\ Wrote(s, n, p.s))
  BY <1>1, WriteWrites
<1>5. CASE p = Denied(s)
  BY <1>2, <1>5 DEF Denied
<1>6. CASE p.ok = TRUE /\ s.read_only = FALSE /\ Wrote(s, n, p.s) /\ b = <<>>
  <2>1. n \o b = n
    BY <1>1, <1>6
  <2> QED
    BY <1>2, <1>3, <1>6, <2>1
<1>7. CASE p.ok = TRUE /\ s.read_only = FALSE /\ Wrote(s, n, p.s) /\ b # <<>>
  <2>1. o \in WriteToStream(p.s, b)
    BY <1>2, <1>7
  <2>2. Good(o.s) /\ Usable(o.s)
    BY <1>1, <1>3, <2>1, WriteIsGood
  <2>3. o = Denied(p.s) \/ (o.ok = TRUE /\ Wrote(p.s, b, o.s))
    BY <1>1, <1>3, <2>1, WriteWrites
  <2>4. CASE o = Denied(p.s)
    BY <1>3, <1>7, <2>4 DEF Denied
  <2>5. CASE o.ok = TRUE /\ Wrote(p.s, b, o.s)
    <3> DEFINE c == n \o b
    <3>1. s.pos \in Nat
      BY DEF Good, Typed
    <3>2. Len(c) = 1 + Len(b) /\ c[1] = Len(b)
      BY <1>1
    <3>3. \A i \in 2..Len(c) : i - 1 \in 1..Len(b) /\ c[i] = b[i - 1]
      BY <1>1, <3>2
    <3> HIDE DEF c, n
    <3>4. p.s.pos = s.pos + 1 /\ p.s.mem[s.pos] = n[1]
      <4>1. s.pos + 1 - 1 = s.pos /\ 1 \in 1..Len(n)
        BY <1>1, <3>1
      <4> QED
        BY <1>1, <1>7, <4>1 DEF Wrote
    <3>5. o.s.pos = s.pos + Len(c) /\ o.s.size = s.pos + Len(c)
      <4>1. o.s.pos = p.s.pos + Len(b) /\ o.s.size = p.s.pos + Len(b)
        BY <2>5 DEF Wrote
      <4>2. Len(b) \in Nat
        BY <1>1
      <4> QED
        <5>1. p.s.pos = s.pos + 1
          BY <3>4
        <5>2. Len(c) = 1 + Len(b)
          BY <3>2
        <5> QED
          BY <3>1, <4>1, <4>2, <5>1, <5>2
    <3>6. ASSUME NEW i \in 0..s.pos - 1 PROVE o.s.mem[i] = s.mem[i]
      <4>1. i \in 0..p.s.pos - 1
        BY <3>1, <3>4
      <4> QED
        BY <1>7, <2>5, <4>1 DEF Wrote, Before
    <3>7. ASSUME NEW i \in 1..Len(c) PROVE o.s.mem[s.pos + i - 1] = c[i]
      <4>1. CASE i = 1
        <5>1. s.pos \in 0..p.s.pos - 1 /\ s.pos + i - 1 = s.pos
          BY <3>1, <3>4, <4>1
        <5> QED
          BY <1>1, <2>5, <3>2, <3>4, <4>1, <5>1 DEF Wrote, Before
      <4>2. CASE i # 1
        <5>1. i \in 2..Len(c)
          BY <1>1, <3>2, <4>2
        <5>2. i - 1 \in 1..Len(b) /\ c[i] = b[i - 1]
          BY <3>3, <5>1
        <5>3. s.pos + i - 1 = p.s.pos + (i - 1) - 1
          BY <3>1, <3>4
        <5> QED
          BY <2>5, <5>2, <5>3 DEF Wrote
      <4> QED
        BY <4>1, <4>2
    <3>8. Wrote(s, c, o.s)
      BY <3>5, <3>6, <3>7 DEF Wrote, Before
    <3> QED
      BY <1>7, <2>2, <2>5, <3>8 DEF c, n
  <2> QED
    BY <2>3, <2>4, <2>5
<1> QED
  BY <1>4, <1>5, <1>6, <1>7

\* A read moves the position and nothing else.
LEMMA ReadMovesOnly ==
  ASSUME NEW s, Good(s), NEW n
  PROVE  ReadFromStream(s, n).s.mem = s.mem /\ ReadFromStream(s, n).s.size = s.size
  BY DEF ReadFromStream, Good, Typed

LEMMA ReadsMoveOnly ==
  ASSUME Good(stream), Usable(stream),
         NEW t \in {ReadInt(stream).s, ReadString(stream).s, ReadWstring(stream).s}
  PROVE  t.mem = stream.mem /\ t.size = stream.size
<1> DEFINE r == ReadInt(stream)
<1>1. r.s = ReadFromStream(stream, 1).s
  BY DEF ReadInt
<1>2. r.s.mem = stream.mem /\ r.s.size = stream.size
  BY <1>1, ReadMovesOnly
<1>3. Good(r.s)
  BY ReadIntIsGood
<1>4. t = r.s \/ t = ReadFromStream(r.s, r.v).s
  BY DEF ReadString, ReadWstring
<1> QED
  BY <1>2, <1>3, <1>4, ReadMovesOnly

\* One step: whatever is remembered before a call is remembered after it.
LEMMA StepRemembers ==
  StreamInv /\ Remembered(stream, log) /\ [StreamNext]_streamVars => Remembered(stream', log')
<1> SUFFICES ASSUME Good(stream), Remembered(stream, log), [StreamNext]_streamVars
             PROVE  Remembered(stream', log')
  BY DEF StreamInv
<1>0. Good(stream') /\ stream.pos \in Nat
  BY StepIsGood DEF Good, Typed
<1>1. ASSUME NEW v \in Byte, WriteInt(v) PROVE Remembered(stream', log')
  <2>1. Usable(stream) /\ <<v>> \in Seq(Byte) /\ Len(<<v>>) = 1 /\ <<v>>[1] = v
    BY <1>1 DEF WriteInt
  <2>2. PICK o \in WriteToStream(stream, <<v>>) :
          stream' = o.s /\ log' = IF o.ok THEN Logged("int", <<v>>) ELSE log
    BY <1>1 DEF WriteInt
  <2>3. Good(o.s) /\ Usable(o.s)
    BY <2>1, WriteIsGood
  <2>4. o = Denied(stream) \/ (o.ok = TRUE /\ Wrote(stream, <<v>>, o.s))
    BY <2>1, WriteWrites
  <2>5. CASE o = Denied(stream)
    BY <2>2, <2>5 DEF Denied
  <2>6. CASE o.ok = TRUE /\ Wrote(stream, <<v>>, o.s)
    <3> DEFINE x == [kind |-> "int", v |-> <<v>>, at |-> stream.pos]
    <3>1. Entry(x) /\ Cells(x) = 1
      BY <1>0, <2>1 DEF Entry, Cells
    <3>2. Holds(o.s, x)
      BY <1>0, <2>1, <2>6 DEF Holds, Wrote
    <3>3. log' = {e \in log : e.at + Cells(e) <= stream.pos} \union {x}
      BY <2>2, <2>6 DEF Logged
    <3>4. Cells(x) = Len(<<v>>) /\ x.at = stream.pos
      BY <2>1, <3>1
    <3> HIDE DEF x
    <3>5. Remembered(o.s, {e \in log : e.at + Cells(e) <= stream.pos} \union {x})
      BY <2>1, <2>3, <2>6, <3>1, <3>2, <3>4, WriteIsRemembered
    <3> QED
      BY <2>2, <3>3, <3>5
  <2> QED
    BY <2>4, <2>5, <2>6
<1>2. ASSUME NEW b \in String, Write(b) PROVE Remembered(stream', log')
  <2> DEFINE n == <<Len(b)>>
  <2>1. /\ Usable(stream) /\ b \in Seq(Byte) /\ n \in Seq(Byte) /\ Len(b) \in Nat
        /\ Len(n) = 1 /\ n[1] = Len(b)
    BY <1>2, StreamAssumption DEF Write
  <2>2. PICK o \in WriteString(stream, b) :
          /\ stream' = o.s
          /\ log' = IF o.ok THEN Logged("string", b)
                    ELSE IF o.s.pos > stream.pos THEN Logged("int", n)
                    ELSE log
    BY <1>2 DEF Write
  <2>3. CASE o = Denied(stream)
    <3>1. o.ok = FALSE /\ o.s = stream
      BY <2>3 DEF Denied
    <3> QED
      BY <1>0, <2>2, <3>1
  <2>4. CASE o.ok = FALSE /\ Usable(o.s) /\ Wrote(stream, n, o.s)
    <3> DEFINE x == [kind |-> "int", v |-> n, at |-> stream.pos]
    <3>1. Entry(x) /\ Cells(x) = 1 /\ x.at = stream.pos
      BY <1>0, <2>1 DEF Entry, Cells
    <3>2. o.s.mem[stream.pos] = n[1] /\ o.s.pos = stream.pos + 1
      <4>1. stream.pos + 1 - 1 = stream.pos /\ 1 \in 1..Len(n)
        BY <1>0, <2>1
      <4> QED
        BY <2>1, <2>4, <4>1 DEF Wrote
    <3>3. Holds(o.s, x)
      BY <3>2 DEF Holds
    <3>4. log' = {e \in log : e.at + Cells(e) <= stream.pos} \union {x}
      BY <1>0, <2>2, <2>4, <3>2 DEF Logged
    <3>5. Good(o.s) /\ Cells(x) = Len(n) /\ n \in Seq(Byte)
      BY <1>0, <2>1, <2>2, <3>1
    <3> HIDE DEF x, n
    <3>6. Remembered(o.s, {e \in log : e.at + Cells(e) <= stream.pos} \union {x})
      BY <2>4, <3>1, <3>3, <3>5, WriteIsRemembered
    <3> QED
      BY <2>2, <3>4, <3>6
  <2>5. CASE o.ok = TRUE /\ Usable(o.s) /\ Wrote(stream, n \o b, o.s)
    <3> DEFINE c == n \o b
    <3> DEFINE x == [kind |-> "string", v |-> b, at |-> stream.pos]
    <3>1. c \in Seq(Byte) /\ Len(c) = 1 + Len(b) /\ c[1] = Len(b)
      BY <2>1
    <3>2. \A i \in 1..Len(b) : i + 1 \in 1..Len(c) /\ c[i + 1] = b[i]
      BY <2>1, <3>1
    <3>3. Entry(x) /\ Cells(x) = Len(c) /\ x.at = stream.pos
      BY <1>0, <2>1, <3>1 DEF Entry, Cells
    <3>4. log' = {e \in log : e.at + Cells(e) <= stream.pos} \union {x}
      BY <2>2, <2>5 DEF Logged
    <3>5. Holds(o.s, x)
      <4> HIDE DEF c
      <4>1. o.s.mem[stream.pos] = Len(b)
        <5>1. stream.pos + 1 - 1 = stream.pos /\ 1 \in 1..Len(c)
          BY <1>0, <2>1, <3>1
        <5> QED
          BY <2>5, <3>1, <5>1 DEF Wrote, c
      <4>2. ASSUME NEW i \in 1..Len(b) PROVE o.s.mem[stream.pos + i] = b[i]
        <5>1. i + 1 \in 1..Len(c) /\ c[i + 1] = b[i]
          BY <3>2
        <5>2. stream.pos + (i + 1) - 1 = stream.pos + i
          BY <1>0
        <5>3. o.s.mem[stream.pos + (i + 1) - 1] = c[i + 1]
          BY <2>5, <5>1 DEF Wrote, c
        <5> QED
          BY <5>1, <5>2, <5>3
      <4> QED
        BY <4>1, <4>2 DEF Holds
    <3> HIDE DEF c, x
    <3>6. Wrote(stream, c, o.s)
      BY <2>5 DEF c
    <3> QED
      BY <1>0, <2>2, <2>5, <3>1, <3>3, <3>4, <3>5, <3>6, WriteIsRemembered
  <2>6. \/ o = Denied(stream)
        \/ o.ok = FALSE /\ Usable(o.s) /\ Wrote(stream, n, o.s)
        \/ o.ok = TRUE /\ Usable(o.s) /\ Wrote(stream, n \o b, o.s)
    BY <2>1, WriteStringWrites
  <2> QED
    BY <2>3, <2>4, <2>5, <2>6
<1>3. ASSUME NEW p \in 0..MaxMemory, SetPos(p) PROVE Remembered(stream', log')
  <2>1. stream'.mem = stream.mem /\ stream'.size = stream.size /\ log' = log
    BY <1>3 DEF SetPos, Good, Typed
  <2> QED
    BY <2>1, KeptInPlace
<1>4. ASSUME NEW n \in 0..MaxMemory, Reserve(n) PROVE Remembered(stream', log')
  <2>1. stream.size = 0 /\ log' = log
    BY <1>4 DEF Reserve, Empty
  <2>2. log = {}
    <3> SUFFICES ASSUME NEW e \in log PROVE FALSE
      OBVIOUS
    <3>1. Entry(e) /\ e.at + Cells(e) <= 0
      BY <2>1 DEF Remembered, Kept
    <3>2. e.at \in Nat /\ Len(e.v) \in Nat
      BY <3>1 DEF Entry
    <3> QED
      BY <3>1, <3>2 DEF Cells
  <2> QED
    BY <2>1, <2>2 DEF Remembered
<1>5. CASE Read
  <2>1. stream'.mem = stream.mem /\ stream'.size = stream.size /\ log' = log
    BY <1>5, ReadsMoveOnly DEF Read
  <2> QED
    BY <2>1, KeptInPlace
<1>6. CASE ClearStream
  BY <1>6 DEF ClearStream, Remembered
<1>7. CASE ReleaseMemory
  BY <1>7 DEF ReleaseMemory, Remembered
<1>8. CASE UNCHANGED streamVars
  BY <1>8 DEF streamVars
<1> QED
  BY <1>1, <1>2, <1>3, <1>4, <1>5, <1>6, <1>7, <1>8 DEF StreamNext

LEMMA AlwaysRemembered == StreamSpec => []Remembered(stream, log)
<1>1. StreamInit => Remembered(stream, log)
  BY DEF StreamInit, Remembered
<1>2. StreamInv /\ Remembered(stream, log) /\ [StreamNext]_streamVars => Remembered(stream, log)'
  BY StepRemembers
<1> QED
  BY <1>1, <1>2, AlwaysGood, PTL DEF StreamSpec

\* An entry that is remembered is read again at its place.
LEMMA RememberedIsRead ==
  ASSUME Good(stream), NEW e, Kept(stream, e), NEW s, s = [stream EXCEPT !.pos = e.at]
  PROVE  IF e.kind = "int" THEN <<ReadInt(s).v>> = e.v ELSE ReadString(s).b = e.v
<1>1. /\ s = [capacity |-> stream.capacity, mem |-> stream.mem, size |-> stream.size,
              pos |-> e.at, read_only |-> stream.read_only]
      /\ stream.size \in Nat /\ e.at \in Nat /\ e.v \in Seq(Byte) /\ Len(e.v) \in Nat
  BY DEF Good, Typed, Kept, Entry
<1>2. s.pos = e.at /\ s.size = stream.size /\ s.mem = stream.mem
  BY <1>1
<1>3. e.at + 1 <= s.size
  BY <1>1, <1>2 DEF Kept, Cells
<1> DEFINE r == ReadFromStream(s, 1)
<1> DEFINE t == [s EXCEPT !.pos = s.pos + 1]
<1>4. r = [s |-> t, b |-> [i \in 1..1 |-> s.mem[s.pos + i - 1]]]
  BY <1>1, <1>2, <1>3 DEF ReadFromStream
<1>5. r.b[1] = stream.mem[e.at] /\ r.b # <<>> /\ r.s = t
  <2>1. s.pos + 1 - 1 = e.at
    BY <1>1, <1>2
  <2> QED
    BY <1>2, <1>4, <2>1
<1>6. ReadInt(s).v = stream.mem[e.at] /\ ReadInt(s).s = t
  BY <1>5 DEF ReadInt
<1>7. t.pos = e.at + 1 /\ t.size = stream.size /\ t.mem = stream.mem
  BY <1>1, <1>2
<1> HIDE DEF r, t
<1>8. CASE e.kind = "int"
  <2>1. Len(e.v) = 1 /\ stream.mem[e.at] = e.v[1]
    BY <1>8 DEF Kept, Entry, Holds
  <2>2. e.v = <<e.v[1]>>
    BY <1>1, <2>1
  <2> QED
    BY <1>6, <1>8, <2>1, <2>2
<1>9. CASE e.kind # "int"
  <2> DEFINE n == Len(e.v)
  <2>1. stream.mem[e.at] = n /\ \A i \in 1..n : stream.mem[e.at + i] = e.v[i]
    BY <1>9 DEF Kept, Holds
  <2>2. ReadString(s) = ReadFromStream(t, n)
    BY <1>6, <2>1 DEF ReadString
  <2>3. e.at + (1 + n) <= stream.size
    BY <1>9 DEF Kept, Cells
  <2>4. CASE n = 0
    BY <1>1, <1>9, <2>2, <2>4 DEF ReadFromStream
  <2>5. CASE n # 0
    <3>1. ~(n = 0 \/ n > t.size \/ n > t.size - t.pos)
      BY <1>1, <1>7, <2>3, <2>5
    <3>2. ReadFromStream(t, n).b = [i \in 1..n |-> t.mem[t.pos + i - 1]]
      BY <3>1 DEF ReadFromStream
    <3>3. ASSUME NEW i \in 1..n PROVE t.mem[t.pos + i - 1] = e.v[i]
      <4>1. t.pos + i - 1 = e.at + i
        BY <1>1, <1>7
      <4> QED
        BY <1>7, <2>1, <4>1
    <3>4. e.v = [i \in 1..n |-> e.v[i]]
      BY <1>1
    <3> QED
      BY <1>9, <2>2, <3>2, <3>3, <3>4
  <2> QED
    BY <2>4, <2>5
<1> QED
  BY <1>8, <1>9

\* What was written, and neither overwritten nor cut off since, is read again
\* at its place as it was written, whatever calls were made in between.
THEOREM WrittenIsReadAgain == StreamSpec => []RoundTrip
<1>1. StreamInv /\ Remembered(stream, log) => RoundTrip
  BY RememberedIsRead DEF StreamInv, Remembered, RoundTrip
<1> QED
  BY <1>1, AlwaysGood, AlwaysRemembered, PTL
-----------------------------------------------------------------------------
\* A call on a view leaves the memory of the view as it is, or lets go of it.
LEMMA ViewStep == StreamInv /\ [StreamNext]_streamVars => (stream.read_only => stream'.mem \in {stream.mem, Null})
<1> SUFFICES ASSUME Good(stream), stream.read_only, [StreamNext]_streamVars
             PROVE  stream'.mem \in {stream.mem, Null}
  BY DEF StreamInv
<1>0. stream.read_only = TRUE
  BY DEF Good, Typed
<1>1. ASSUME NEW v \in Byte, WriteInt(v) PROVE stream' = stream
  <2>1. Usable(stream) /\ <<v>> \in Seq(Byte)
    BY <1>1 DEF WriteInt
  <2>2. PICK o \in WriteToStream(stream, <<v>>) : stream' = o.s
    BY <1>1 DEF WriteInt
  <2>3. o = Denied(stream)
    BY <1>0, <2>1, WriteWrites
  <2> QED
    BY <2>2, <2>3 DEF Denied
<1>2. ASSUME NEW b \in String, Write(b) PROVE stream' = stream
  <2>1. Usable(stream)
    BY <1>2 DEF Write
  <2>2. PICK o \in WriteString(stream, b) : stream' = o.s
    BY <1>2 DEF Write
  <2>3. o = Denied(stream)
    BY <1>0, <2>1, WriteStringWrites
  <2> QED
    BY <2>2, <2>3 DEF Denied
<1>3. ASSUME NEW p \in 0..MaxMemory, SetPos(p) PROVE stream'.mem = stream.mem
  BY <1>3 DEF SetPos, Good, Typed
<1>4. ASSUME NEW n \in 0..MaxMemory, Reserve(n) PROVE FALSE
  BY <1>0, <1>4 DEF Reserve, Empty
<1>5. CASE Read
  BY <1>5, ReadsMoveOnly DEF Read
<1>6. CASE ClearStream
  BY <1>6 DEF ClearStream, Empty
<1>7. CASE ReleaseMemory
  BY <1>7 DEF ReleaseMemory, Good, Typed
<1>8. CASE UNCHANGED streamVars
  BY <1>8 DEF streamVars
<1> QED
  BY <1>1, <1>2, <1>3, <1>4, <1>5, <1>6, <1>7, <1>8 DEF StreamNext

\* No call writes into the memory of a read-only view.
THEOREM ViewsAreLeftAlone == StreamSpec => ViewsAreNotWritten
<1>1. StreamInv /\ [StreamNext]_streamVars => [stream.read_only => stream'.mem \in {stream.mem, Null}]_streamVars
  BY ViewStep
<1> QED
  BY <1>1, AlwaysGood, PTL DEF StreamSpec, ViewsAreNotWritten
=============================================================================
