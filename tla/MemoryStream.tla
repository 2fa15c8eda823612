---------------------------- MODULE MemoryStream ----------------------------
(***************************************************************************)
(* CMemoryStream (src/CStream.cpp): a buffer that grows by pages, with a   *)
(* position at which integers and length-prefixed strings are written and  *)
(* read, or a read-only view of memory of the caller.                      *)
(*                                                                         *)
(* A call is an operator from the state of the stream to its outcomes, so  *)
(* that the calls made of others are written as in the code.  An integer   *)
(* is one cell of memory, whatever its width, and so is a character; a     *)
(* wide string is a string of an even number of cells.                     *)
(***************************************************************************)
EXTENDS Integers, Sequences

CONSTANTS Byte,       \* the values of a cell
          String,     \* the strings written
          Undefined,  \* a cell nobody has written
          PageSize,
          MaxMemory   \* what realloc can give at most

ASSUME StreamAssumption == /\ Byte \subseteq Nat /\ 0 \in Byte /\ Undefined \notin Byte
                           /\ String \subseteq Seq(Byte)
                           /\ \A b \in String : Len(b) \in Byte
                           /\ PageSize \in Nat \ {0} /\ MaxMemory \in Nat

VARIABLES
  stream,  \* the object: _capacity, the cells of m_pMemory (none: null),
           \* m_size, m_pos and _read_only
  log      \* history: what was written, where, and is neither overwritten nor
           \* cut off since

streamVars == <<stream, log>>

Null == [i \in {} |-> 0]

Empty == [capacity |-> 0, mem |-> Null, size |-> 0, pos |-> 0, read_only |-> FALSE]

ViewOf(n, image) == [capacity |-> n, mem |-> image, size |-> n, pos |-> 0, read_only |-> TRUE]

StreamInit == /\ \/ stream = Empty
                 \/ \E n \in 1..MaxMemory : \E image \in [0..n - 1 -> Byte] : stream = ViewOf(n, image)
              /\ log = {}
-----------------------------------------------------------------------------
(* Growing *)

RoundUp(n) == IF n % PageSize = 0 THEN n ELSE n + (PageSize - (n % PageSize))

\* realloc keeps the cells that fit.
Grown(s, n) ==
  [s EXCEPT !.capacity = RoundUp(n),
            !.mem = [i \in 0..RoundUp(n) - 1 |-> IF i \in DOMAIN s.mem THEN s.mem[i]
                                                                       ELSE Undefined]]

\* The states in which IncreseSize succeeds; it fails without a change.
IncreseSize(s, n) ==
  IF s.read_only \/ s.pos > n THEN {}
  ELSE IF n = 0 THEN {Empty}
  ELSE {Grown(s, n) : m \in {RoundUp(n)} \intersect 0..MaxMemory}

Room(s, n) == IF n > s.size THEN IncreseSize(s, n) ELSE {s}
-----------------------------------------------------------------------------
(* Writing *)

Put(s, b) ==
  LET end == s.pos + Len(b)
  IN  [s EXCEPT !.mem = [i \in DOMAIN s.mem |-> IF i \in s.pos..end - 1 THEN b[i - s.pos + 1]
                                                                        ELSE s.mem[i]],
                !.pos = end,
                !.size = end]

Denied(s) == [s |-> s, ok |-> FALSE]

\* Mutants: views are written too; the position is forgotten when room is made.
WriteToAnyStream(s, b) ==
  IF b = <<>> THEN {Denied(s)}
  ELSE {[s |-> Put(t, b), ok |-> TRUE] : t \in Room(s, s.pos + Len(b))}
         \union {f \in {Denied(s)} : s.pos + Len(b) > s.size}

WriteToStreamSizeOnly(s, b) ==
  IF s.read_only \/ b = <<>> THEN {Denied(s)}
  ELSE {[s |-> Put(t, b), ok |-> TRUE] : t \in Room(s, Len(b))}
         \union {f \in {Denied(s)} : s.pos + Len(b) > s.size}

\* Memory may be exhausted whenever the data do not fit into the old size.
WriteToStream(s, b) ==
  IF s.read_only \/ b = <<>> THEN {Denied(s)}
  ELSE {[s |-> Put(t, b), ok |-> TRUE] : t \in Room(s, s.pos + Len(b))}
         \union {f \in {Denied(s)} : s.pos + Len(b) > s.size}

\* The length and then the characters.  When there is no room for the
\* characters the length stays.
WriteString(s, b) ==
  UNION {IF o.ok /\ b # <<>> THEN WriteToStream(o.s, b) ELSE {o} :
           o \in WriteToStream(s, <<Len(b)>>)}
-----------------------------------------------------------------------------
(* Reading *)

\* Mutant: the position is not taken off what can be read.
ReadFromStart(s, n) ==
  IF n = 0 \/ n > s.size THEN [s |-> s, b |-> <<>>]
  ELSE [s |-> [s EXCEPT !.pos = s.pos + n],
        b |-> [i \in 1..n |-> s.mem[i - 1]]]

\* ReadFromStream copies the cells, RefFromStream returns their place.
ReadFromStream(s, n) ==
  IF n = 0 \/ n > s.size \/ n > s.size - s.pos THEN [s |-> s, b |-> <<>>]
  ELSE [s |-> [s EXCEPT !.pos = s.pos + n],
        b |-> [i \in 1..n |-> s.mem[s.pos + i - 1]]]

\* 0 stands for an integer that cannot be read.
ReadInt(s) == LET r == ReadFromStream(s, 1)
              IN  [s |-> r.s, v |-> IF r.b = <<>> THEN 0 ELSE r.b[1]]

\* An empty string when there are fewer characters than the length says.
ReadString(s) == LET r == ReadInt(s) IN ReadFromStream(r.s, r.v)

\* A length that is not one of wide characters: only the length is consumed.
ReadWstring(s) == LET r == ReadInt(s)
                  IN  IF r.v % 2 # 0 THEN [s |-> r.s, b |-> <<>>] ELSE ReadFromStream(r.s, r.v)
-----------------------------------------------------------------------------
(* The calls *)

\* The rule for the caller: after ReleaseMemory the pointer is gone but the
\* size is not, and only ClearStream makes the object usable.
Usable(s) == s.size > 0 => s.mem # Null

\* The cells of an entry of the log.
Cells(e) == IF e.kind = "int" THEN 1 ELSE 1 + Len(e.v)

Logged(kind, v) == {e \in log : e.at + Cells(e) <= stream.pos}
                     \union {[kind |-> kind, v |-> v, at |-> stream.pos]}

WriteInt(v) == /\ Usable(stream)
               /\ \E o \in WriteToStream(stream, <<v>>) :
                    /\ stream' = o.s
                    /\ log' = IF o.ok THEN Logged("int", <<v>>) ELSE log

Write(b) == /\ Usable(stream)
            /\ \E o \in WriteString(stream, b) :
                 /\ stream' = o.s
                 /\ log' = IF o.ok THEN Logged("string", b)
                           ELSE IF o.s.pos > stream.pos THEN Logged("int", <<Len(b)>>)
                           ELSE log

Read == /\ Usable(stream)
        /\ stream' \in {ReadInt(stream).s, ReadString(stream).s, ReadWstring(stream).s}
        /\ UNCHANGED log

SetPos(p) == /\ Usable(stream)
             /\ stream.size > 0 /\ p <= stream.size
             /\ stream' = [stream EXCEPT !.pos = p]
             /\ UNCHANGED log

Reserve(n) == /\ stream = Empty
              /\ stream' \in IncreseSize(stream, n)
              /\ UNCHANGED log

ClearStream == stream' = Empty /\ log' = {}

ReleaseMemory == /\ stream' = [stream EXCEPT !.mem = Null]
                 /\ log' = {}

StreamNext == \/ \E v \in Byte : WriteInt(v)
              \/ \E b \in String : Write(b)
              \/ \E p \in 0..MaxMemory : SetPos(p) \/ Reserve(p)
              \/ Read \/ ClearStream \/ ReleaseMemory

StreamSpec == StreamInit /\ [][StreamNext]_streamVars
-----------------------------------------------------------------------------
\* The members have their types and the memory its cells.
StreamTypeOK ==
  /\ stream \in [capacity : Nat, mem : [DOMAIN stream.mem -> Byte \union {Undefined}],
                 size : Nat, pos : Nat, read_only : BOOLEAN]
  /\ stream.capacity <= MaxMemory
  /\ \E n \in 0..stream.capacity : DOMAIN stream.mem = 0..n - 1

\* No call reaches outside the block, and none reads a cell nobody has written,
\* whatever calls went before: realloc may shrink the block below what was
\* reserved, a write may cut the data off, a reservation may have failed.
SafeBlock ==
  /\ stream.pos <= stream.size /\ stream.size <= stream.capacity
  /\ stream.mem # Null => DOMAIN stream.mem = 0..stream.capacity - 1
  /\ Usable(stream) => \A i \in 0..stream.size - 1 : stream.mem[i] \in Byte

\* What was written is read again at its place, until it is overwritten or cut
\* off: strings whole, and a string whose characters did not fit as the length
\* it has left behind.
RoundTrip ==
  \A e \in log :
    LET s == [stream EXCEPT !.pos = e.at]
    IN  IF e.kind = "int" THEN <<ReadInt(s).v>> = e.v ELSE ReadString(s).b = e.v

\* The memory behind a view belongs to somebody else: it is never written.
ViewsAreNotWritten == [][stream.read_only => stream'.mem \in {stream.mem, Null}]_streamVars
=============================================================================
