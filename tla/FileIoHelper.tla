---------------------------- MODULE FileIoHelper ----------------------------
(***************************************************************************)
(* The class FileIoHelper (src/FileIoHelperClass.cpp), a file mapped into  *)
(* memory with one view at a time, and the two hash functions of           *)
(* Win32Utils.cpp that walk over a file with an object of their own.       *)
(*                                                                         *)
(* Two threads, one file: "user" calls any method of its object at any     *)
(* time and also has a handle of the file of its own; "hash" computes      *)
(* hashes, of the user's handle or of the path.  Between the size query    *)
(* and the mapping of one thread the other may act.                        *)
(*                                                                         *)
(* Modelled: who closes which handle, sizes with the width of the DWORDs,  *)
(* the granularity of views, every failing call.  Abstracted: the contents *)
(* of the file, names, the digests.                                        *)
(***************************************************************************)
EXTENDS Integers, Sequences, FiniteSets

CONSTANTS Handles,      \* values CreateFile may return
          Sizes,        \* what OpenForWrite is asked for
          Ranges,       \* <<offset, size>> the other methods are asked for
          DWORD,        \* 2^32
          Page,         \* size of a page
          AllocationGranularity,
          BlockFactor   \* 8 in GetOptimizedBlockSize

ASSUME FileAssumption == /\ Handles \subseteq Nat \ {0}
                         /\ Sizes \subseteq Nat
                         /\ Ranges \subseteq Nat \X (0 .. DWORD - 1)
                         /\ {DWORD, Page, AllocationGranularity, BlockFactor} \subseteq Nat \ {0}
                         /\ AllocationGranularity % Page = 0

VARIABLES sys,    \* handles, views and sections that exist, the file's size
          mine,   \* the handle the user has opened itself
          obj,    \* the object of each thread
          task,   \* where each thread is, with its locals
          copied, \* the last ReadFromFile or WriteToFile that copied anything
          seen    \* bytes given to the hash, in order

vars == <<sys, mine, obj, task, copied, seen>>

Threads == {"user", "hash"}
INVALID == 0
nullptr == [len |-> 0]

\* The constructor: _map_handle is the size of the section, or 0.
FileIoHelper == [_do_not_close_handle |-> TRUE, _read_only |-> TRUE,
                 _file_handle |-> INVALID, _file_size |-> 0,
                 _map_handle |-> 0, _file_view |-> nullptr]

\* Mutant: the object closes what it is given, until told otherwise.
FileIoHelperOwning == [_do_not_close_handle |-> FALSE, _read_only |-> TRUE,
                       _file_handle |-> INVALID, _file_size |-> 0,
                       _map_handle |-> 0, _file_view |-> nullptr]

NewObject == FileIoHelper

Idle == [at |-> "idle", handle |-> INVALID, own |-> FALSE, size |-> 0, write |-> FALSE]

\* wasPath: the user's object has opened a file by its path.
Init == /\ \E n \in Sizes :
              sys = [table |-> [h \in Handles |-> "free"], size |-> n,
                     views |-> 0, sections |-> 0,
                     wasPath |-> FALSE, stolen |-> FALSE, shrunk |-> FALSE, refused |-> FALSE]
        /\ mine = INVALID
        /\ obj = [t \in Threads |-> NewObject]
        /\ task = [t \in Threads |-> Idle]
        /\ copied = [ok |-> FALSE]
        /\ seen = <<>>
-----------------------------------------------------------------------------
(* Windows *)

Open(s) == {h \in Handles : s.table[h] # "free"}

\* CreateFile with its share mode: "locked" shares nothing, "written" reading.
Shares(s, by) == CASE by = "locked" -> Open(s) = {}
                   [] by = "written" -> /\ \A h \in Open(s) : s.table[h] # "locked"
                                        /\ s.sections = 0
                   [] OTHER -> \A h \in Open(s) : s.table[h] # "locked"

CreateFile(s, by) == IF Shares(s, by)
                     THEN {[handle |-> h, sys |-> [s EXCEPT !.table[h] = by]] : h \in Handles \ Open(s)}
                     ELSE {}

CloseHandle(s, h, by) ==
    [s EXCEPT !.table[h] = "free",
              !.stolen = @ \/ (by # "caller" /\ s.table[h] = "caller")]

\* A view begins at a multiple of the granularity and ends inside the
\* section; a length of 0 asks for all of the rest.
MapViewOfFile(section, from, len) ==
    IF from + len > section THEN nullptr
    ELSE [from |-> from, len |-> IF len = 0 THEN section - from ELSE len]

\* What can be accessed are whole pages.
Pages(len) == ((len + Page - 1) \div Page) * Page
-----------------------------------------------------------------------------
(* Methods that other methods call *)

Initialized(o) == o._file_handle # INVALID

Released(o) == [o EXCEPT !._file_view = nullptr]
ReleaseFilePointer(o, s) == IF o._file_view = nullptr THEN s ELSE [s EXCEPT !.views = @ - 1]

Closed(o) == IF Initialized(o)
             THEN [Released(o) EXCEPT !._map_handle = 0, !._file_handle = INVALID]
             ELSE o

\* What close() does outside the object.
Close(o, s) ==
    IF ~Initialized(o) THEN s
    ELSE LET released == ReleaseFilePointer(o, s)
             unmapped == [released EXCEPT !.sections = @ - (IF o._map_handle = 0 THEN 0 ELSE 1)]
         IN IF o._do_not_close_handle THEN unmapped
            ELSE CloseHandle(unmapped, o._file_handle, "object")

\* Mutant: the part of the offset below the granularity is not added.
ViewNotWidened(o, offset, size) ==
    LET end == IF offset + size > o._file_size THEN o._file_size ELSE offset + size
        low == offset % AllocationGranularity
    IN MapViewOfFile(o._map_handle, offset - low, end - offset)

\* The view GetFilePointer maps: the size is computed in a DWORD.
View(o, offset, size) ==
    LET end == IF offset + size > o._file_size THEN o._file_size ELSE offset + size
        low == offset % AllocationGranularity
    IN MapViewOfFile(o._map_handle, offset - low, (low + (end - offset)) % DWORD)

\* Its early returns.
MayMap(o, read_only, offset) == /\ o._file_view = nullptr
                                /\ Initialized(o)
                                /\ o._read_only => read_only
                                /\ offset < o._file_size
-----------------------------------------------------------------------------
(* Opening.  A thread that has a handle goes on in two steps. *)

At(t, at) == task[t].at = at
Goes(t, r) == task' = [task EXCEPT ![t] = r]

\* OpenForRead and OpenForReadWrite with a path, up to CreateFile.
OpenByPath(write) ==
    /\ At("user", "idle")
    /\ LET closed == Close(obj["user"], sys)
           o == Closed(obj["user"])
       IN
       \/ /\ sys' = closed
          /\ obj' = [obj EXCEPT !["user"] = o]
          /\ UNCHANGED task
       \/ \E c \in CreateFile(closed, "locked") :
              /\ sys' = [c.sys EXCEPT !.wasPath = TRUE]
              /\ obj' = [obj EXCEPT !["user"] = [o EXCEPT !._do_not_close_handle = FALSE]]
              /\ Goes("user", [Idle EXCEPT !.at = "size", !.handle = c.handle, !.own = TRUE, !.write = write])
    /\ UNCHANGED <<mine, copied, seen>>

\* The same functions with a handle.
OpenByHandle(write) ==
    /\ At("user", "idle")
    /\ mine # INVALID
    /\ obj' = [obj EXCEPT !["user"] = Closed(@)]
    /\ sys' = Close(obj["user"], sys)
    /\ Goes("user", [Idle EXCEPT !.at = "size", !.handle = mine, !.write = write])
    /\ UNCHANGED <<mine, copied, seen>>

\* A handle that was opened here is closed again on failure.
OpenFails(t) ==
    /\ task[t].at \in {"size", "map"}
    /\ Goes(t, Idle)
    /\ sys' = IF task[t].own THEN CloseHandle(sys, task[t].handle, "object") ELSE sys
    /\ UNCHANGED <<mine, obj, copied, seen>>

\* GetFileSizeEx.
QuerySize(t) ==
    /\ At(t, "size")
    /\ sys.table[task[t].handle] # "free"
    /\ sys.size > 0
    /\ Goes(t, [task[t] EXCEPT !.at = "map", !.size = sys.size])
    /\ UNCHANGED <<sys, mine, obj, copied, seen>>

\* CreateFileMapping: the section has the size the file has by now.
CreateMapping(t) ==
    /\ At(t, "map")
    /\ sys.table[task[t].handle] # "free"
    /\ sys.size > 0
    /\ obj' = [obj EXCEPT ![t]._read_only = ~task[t].write,
                          ![t]._file_size = task[t].size,
                          ![t]._file_handle = task[t].handle,
                          ![t]._map_handle = sys.size]
    /\ sys' = [sys EXCEPT !.sections = @ + 1,
                          !.shrunk = @ \/ sys.size < task[t].size]
    /\ Goes(t, IF t = "hash" THEN [task[t] EXCEPT !.at = "block"] ELSE Idle)
    /\ UNCHANGED <<mine, copied, seen>>
-----------------------------------------------------------------------------
(* OpenForWrite: the file is created empty, extended, mapped. *)

OpenForWrite(file_size) ==
    /\ At("user", "idle")
    /\ LET closed == Close(obj["user"], sys)
           o == Closed(obj["user"])
           set == [o EXCEPT !._read_only = FALSE, !._file_size = file_size]
       IN \/ /\ file_size = 0
             /\ obj' = [obj EXCEPT !["user"] = o]
             /\ sys' = closed
             /\ UNCHANGED task
          \/ /\ file_size # 0
             /\ obj' = [obj EXCEPT !["user"] = set]
             /\ sys' = closed
             /\ UNCHANGED task
          \/ /\ file_size # 0
             /\ \E c \in CreateFile(closed, "written") :
                    /\ obj' = [obj EXCEPT !["user"] = [set EXCEPT !._file_handle = c.handle,
                                                                  !._do_not_close_handle = FALSE]]
                    /\ sys' = [c.sys EXCEPT !.size = 0, !.wasPath = TRUE]
             /\ Goes("user", [Idle EXCEPT !.at = "extend"])
    /\ UNCHANGED <<mine, copied, seen>>

\* SetFilePointerEx, SetEndOfFile: they need the handle.
Extend == /\ At("user", "extend")
          /\ sys.table[obj["user"]._file_handle] # "free"
          /\ sys' = [sys EXCEPT !.size = obj["user"]._file_size]
          /\ Goes("user", [Idle EXCEPT !.at = "mapnew"])
          /\ UNCHANGED <<mine, obj, copied, seen>>

MapNew == /\ At("user", "mapnew")
          /\ sys.size > 0
          /\ sys' = [sys EXCEPT !.sections = @ + 1]
          /\ obj' = [obj EXCEPT !["user"]._map_handle = sys.size]
          /\ Goes("user", Idle)
          /\ UNCHANGED <<mine, copied, seen>>

WriteFails == /\ task["user"].at \in {"extend", "mapnew"}
              /\ sys' = CloseHandle(sys, obj["user"]._file_handle, "object")
              /\ obj' = [obj EXCEPT !["user"]._file_handle = INVALID]
              /\ Goes("user", Idle)
              /\ UNCHANGED <<mine, copied, seen>>
-----------------------------------------------------------------------------
(* Using the file *)

GetFilePointer(read_only, offset, size) ==
    /\ At("user", "idle")
    /\ MayMap(obj["user"], read_only, offset)
    /\ LET v == View(obj["user"], offset, size)
       IN /\ v # nullptr
          /\ obj' = [obj EXCEPT !["user"]._file_view =
                        [from |-> v.from, len |-> v.len, offset |-> offset, size |-> size]]
          /\ sys' = [sys EXCEPT !.views = @ + 1]
    /\ UNCHANGED <<mine, task, copied, seen>>

Release == /\ At("user", "idle")
           /\ obj["user"]._file_view # nullptr
           /\ sys' = ReleaseFilePointer(obj["user"], sys)
           /\ obj' = [obj EXCEPT !["user"] = Released(@)]
           /\ UNCHANGED <<mine, task, copied, seen>>

\* ReadFromFile and WriteToFile map, copy all of Size from the pointer on, and
\* release; an access outside the pages of the view is caught.
Copy(read_only, offset, size) ==
    /\ At("user", "idle")
    /\ MayMap(obj["user"], read_only, offset)
    /\ read_only \/ size # 0
    /\ LET v == View(obj["user"], offset, size)
       IN /\ v # nullptr
          /\ copied' = [ok |-> offset - v.from + size <= Pages(v.len),
                        offset |-> offset, size |-> size, of |-> obj["user"]._map_handle]
    /\ UNCHANGED <<sys, mine, obj, task, seen>>

CloseObject == /\ At("user", "idle")
               /\ Initialized(obj["user"])
               /\ sys' = Close(obj["user"], sys)
               /\ obj' = [obj EXCEPT !["user"] = Closed(@)]
               /\ UNCHANGED <<mine, task, copied, seen>>

-----------------------------------------------------------------------------
(* get_file_hash_by_filehandle, get_file_hash_by_filepath *)

GetOptimizedBlockSize == AllocationGranularity * BlockFactor

HashByHandle == /\ At("hash", "idle")
                /\ mine # INVALID
                /\ obj' = [obj EXCEPT !["hash"] = NewObject]
                /\ Goes("hash", [Idle EXCEPT !.at = "size", !.handle = mine])
                /\ seen' = <<>>
                /\ UNCHANGED <<sys, mine, copied>>

HashByPath == /\ At("hash", "idle")
              /\ \E c \in CreateFile(sys, "hash") :
                     /\ sys' = c.sys
                     /\ Goes("hash", [Idle EXCEPT !.at = "size", !.handle = c.handle, !.own = TRUE])
              /\ obj' = [obj EXCEPT !["hash"] = NewObject]
              /\ seen' = <<>>
              /\ UNCHANGED <<mine, copied>>

\* Mutant: every block is as long as the others.
BlockOfFullSize(o, pos) == GetOptimizedBlockSize

BlockSize(o, pos) == IF GetOptimizedBlockSize < o._file_size - pos
                     THEN GetOptimizedBlockSize ELSE o._file_size - pos

Bytes(pos, size) == [i \in 1 .. size |-> pos + i - 1]

\* GetFilePointer, the update of the digests, ReleaseFilePointer, pos += size.
HashBlock ==
    /\ At("hash", "block")
    /\ Len(seen) < obj["hash"]._file_size
    /\ LET o == obj["hash"]
           pos == Len(seen)
           size == BlockSize(o, pos)
           v == View(o, pos, size)
       IN /\ MayMap(o, TRUE, pos)
          /\ v # nullptr
          /\ pos - v.from + size <= Pages(v.len)
          /\ seen' = seen \o Bytes(pos, size)
    /\ UNCHANGED <<sys, mine, obj, task, copied>>

\* Whether there is a pointer is not looked at: the digest reads from null,
\* because the section is too short, or as no address space is left.
HashCrashes ==
    /\ At("hash", "block")
    /\ Len(seen) < obj["hash"]._file_size
    /\ LET o == obj["hash"]
           v == View(o, Len(seen), BlockSize(o, Len(seen)))
       IN sys' = [sys EXCEPT !.refused = (v # nullptr)]
    /\ Goes("hash", [task["hash"] EXCEPT !.at = "crashed"])
    /\ UNCHANGED <<mine, obj, copied, seen>>

\* The object is destroyed, then the handle of get_file_hash_by_filepath.
HashReturns ==
    /\ At("hash", "block")
    /\ Len(seen) >= obj["hash"]._file_size
    /\ LET closed == Close(obj["hash"], sys)
       IN sys' = IF task["hash"].own THEN CloseHandle(closed, task["hash"].handle, "object") ELSE closed
    /\ obj' = [obj EXCEPT !["hash"] = Closed(@)]
    /\ Goes("hash", Idle)
    /\ UNCHANGED <<mine, copied, seen>>
-----------------------------------------------------------------------------
(* The user's own handle *)

OpenMine == /\ At("user", "idle")
            /\ mine = INVALID
            /\ \E c \in CreateFile(sys, "caller") : sys' = c.sys /\ mine' = c.handle
            /\ UNCHANGED <<obj, task, copied, seen>>

\* Not while somebody works with it.
CloseMine == /\ At("user", "idle")
             /\ mine # INVALID
             /\ ~task["hash"].own => At("hash", "idle")
             /\ \A t \in Threads : obj[t]._file_handle # mine
             /\ sys' = CloseHandle(sys, mine, "caller")
             /\ mine' = INVALID
             /\ UNCHANGED <<obj, task, copied, seen>>
-----------------------------------------------------------------------------
User == \/ OpenMine \/ CloseMine \/ CloseObject \/ Release
        \/ \E write \in BOOLEAN : OpenByPath(write) \/ OpenByHandle(write)
        \/ \E n \in Sizes : OpenForWrite(n)
        \/ Extend \/ MapNew \/ WriteFails
        \/ QuerySize("user") \/ CreateMapping("user") \/ OpenFails("user")
        \/ \E r \in Ranges, ro \in BOOLEAN :
               GetFilePointer(ro, r[1], r[2]) \/ Copy(ro, r[1], r[2])

Hash == \/ HashByHandle \/ HashByPath
        \/ QuerySize("hash") \/ CreateMapping("hash") \/ OpenFails("hash")
        \/ HashBlock \/ HashCrashes \/ HashReturns

Next == ~At("hash", "crashed") /\ (User \/ Hash)

Spec == Init /\ [][Next]_vars
-----------------------------------------------------------------------------
(* Properties *)

TypeOK ==
    /\ sys.table \in [Handles -> {"free", "caller", "locked", "written", "hash"}]
    /\ {sys.size, sys.views, sys.sections} \subseteq Nat
    /\ mine \in Handles \cup {INVALID}
    /\ \A t \in Threads : {obj[t]._file_handle, task[t].handle} \subseteq Handles \cup {INVALID}

\* The handles a thread has opened and has to close.
Owns(t) == (IF obj[t]._do_not_close_handle THEN {} ELSE {obj[t]._file_handle})
           \cup (IF task[t].own THEN {task[t].handle} ELSE {})

\* Every handle is closed once and by who opened it, on every path of every
\* open: what is open belongs to the user, to one object or to one call.  The
\* object closes a handle of the user only when it was used before for a file
\* it opened itself (_do_not_close_handle is never set again), and from then
\* on nothing is promised.
HandlesOwned ==
    /\ TypeOK
    /\ sys.stolen => sys.wasPath
    /\ ~sys.wasPath =>
           /\ \A h \in Handles : sys.table[h] = "caller" <=> h = mine
           /\ \A h \in Open(sys) : h = mine \/ h \in Owns("hash")
    /\ ~sys.stolen =>
           /\ \A h \in Open(sys) : h = mine \/ \E t \in Threads : h \in Owns(t)
           /\ \A t \in Threads : obj[t]._file_handle # INVALID => sys.table[obj[t]._file_handle] # "free"

\* No section and no view is lost, on any path: those that exist are the ones
\* the objects know.
NothingMappedIsLost ==
    /\ sys.sections = Cardinality({t \in Threads : obj[t]._map_handle # 0})
    /\ sys.views = Cardinality({t \in Threads : obj[t]._file_view # nullptr})
    /\ \A t \in Threads : obj[t]._map_handle # 0 => obj[t]._file_handle # INVALID

\* Files, sections and views: each is known to the one who has to give it back.
NothingIsLost == HandlesOwned /\ NothingMappedIsLost

\* The pointer the caller gets can be used for all it asked for that is in the
\* file, except when the DWORD of the view's size overflows.  What ReadFromFile
\* and WriteToFile report as done is in the file up to its last page; bytes
\* behind the end in that page come from nowhere and go nowhere.
ViewsHoldWhatWasAsked ==
    /\ LET v == obj["user"]._file_view
           end == IF v.offset + v.size > obj["user"]._file_size
                  THEN obj["user"]._file_size ELSE v.offset + v.size
           low == v.offset % AllocationGranularity
       IN v # nullptr =>
              /\ v.from + v.len <= obj["user"]._map_handle
              /\ low + (end - v.offset) < DWORD => v.from <= v.offset /\ end <= v.from + v.len
    /\ copied.ok => copied.offset + copied.size <= Pages(copied.of)

\* A hash is computed from every byte once and in order.  It reads from null
\* only when another thread truncated the file between the two looks at its
\* size, or when no view can be mapped at all.
HashedWhole ==
    /\ seen = Bytes(0, Len(seen))
    /\ At("hash", "block") => Len(seen) <= obj["hash"]._file_size
    /\ At("hash", "crashed") => sys.shrunk \/ sys.refused
=============================================================================
