----------------------------- MODULE TextUtils -----------------------------
(***************************************************************************)
(* The pure functions of src/Win32Utils.cpp on texts, paths, numbers and   *)
(* times, and a program that uses them step by step: it cuts a text at a   *)
(* token until there is none left, replaces, dumps a buffer line by line,  *)
(* adds to a time; or asks, or reads a number, which takes no step.        *)
(*                                                                         *)
(* A text is a sequence of characters, positions count from 0 as in the    *)
(* code.  The narrow and the wide form of a function are the same here.    *)
(***************************************************************************)
EXTENDS Integers, SequencesExt

CONSTANTS Texts,      \* what the functions are called with: bounds
          Tokens,
          Numbers,
          StartTimes, \* times to start from
          Addresses,  \* of IPv4, as four octets
          Bits,       \* of a 32 bit integer
          SECOND,     \* 100 ns units in a second
          DAY,        \* seconds in a day
          MaxAdded,   \* how often is added to a time: a bound
          HALF,       \* bytes in half a line of a dump: 8
          BUF         \* characters of the buffer for a device name: 256

ASSUME TextAssumption == /\ {Bits, SECOND, DAY, MaxAdded, HALF, BUF} \subseteq Nat \ {0}
                         /\ Numbers \subseteq Int /\ StartTimes \subseteq Nat
                         /\ Texts \cup Tokens \subseteq Seq(STRING)
                         /\ <<>> \notin Tokens /\ Addresses \subseteq [1 .. 4 -> 0 .. 255]
\* The provers know nothing of powers.
ASSUME WordAssumption == /\ {2 ^ Bits, 2 ^ (2 * Bits), 2 ^ (Bits \div 2), 2 ^ (Bits - 1)} \subseteq Nat \ {0}
                         /\ 2 ^ (Bits \div 2) <= 2 ^ Bits

VARIABLES job,     \* what the program does
          source,  \* the text it starts from, or an address, never changed
          token,
          spare,   \* what replaces the token
          number,  \* the number that is written in source, or the time to start from
          org,     \* the text the functions change
          left,    \* what has been cut off before org
          right,   \* what has been cut off behind it
          pieces,  \* the answers
          pos,     \* where the next token, or line, is
          count,   \* the replacements, or additions, made
          time,    \* a FILETIME
          elapsed  \* what has been added to it

inputs == <<source, token, spare, number>>
textVars == <<job, inputs, org, left, right, pieces, pos, count, time, elapsed>>
-----------------------------------------------------------------------------
(* std::string *)

npos == -1
Occurrences(s, t) == {p \in 0 .. Len(s) - Len(t) : SubSeq(s, p + 1, p + Len(t)) = t}
find(s, t, from) ==
  LET found == {p \in Occurrences(s, t) : p >= from} IN IF found = {} THEN npos ELSE Min(found)
rfind(s, t) == IF Occurrences(s, t) = {} THEN npos ELSE Max(Occurrences(s, t))
Before(s, p) == SubSeq(s, 1, p)
Since(s, p) == SubSeq(s, p + 1, Len(s))
-----------------------------------------------------------------------------
(* Tokens *)

\* Without the token nothing is deleted.
Extracted(s, t, p, forward, delete_token) ==
  IF p = npos THEN [out |-> s, org |-> s]
  ELSE LET before == Before(s, p)
           behind == Since(s, p + Len(t))
       IN  [out |-> IF forward THEN before ELSE behind,
            org |-> IF ~delete_token THEN s ELSE IF forward THEN behind ELSE before]

\* Mutant: the token stays in front of what is left.
extract_first_keeping_token(s, t, forward, delete_token) ==
  LET e == Extracted(s, t, find(s, t, 0), forward, delete_token)
  IN  IF delete_token /\ forward /\ find(s, t, 0) # npos
      THEN [e EXCEPT !.org = Since(s, find(s, t, 0))] ELSE e

extract_first_token(s, t, forward, delete_token) ==
  Extracted(s, t, find(s, t, 0), forward, delete_token)
extract_last_token(s, t, forward, delete_token) ==
  Extracted(s, t, rfind(s, t), forward, delete_token)
extract_first_tokenEx(s, t, forward) ==
  IF s = <<>> \/ t = <<>> THEN <<>> ELSE extract_first_token(s, t, forward, FALSE).out
extract_last_tokenEx(s, t, forward) == extract_last_token(s, t, forward, FALSE).out

Keepers(s, drop) == {i \in DOMAIN s : s[i] \notin drop}
rtrim(s, drop) == IF Keepers(s, drop) = {} THEN <<>> ELSE SubSeq(s, 1, Max(Keepers(s, drop)))
ltrim(s, drop) == IF Keepers(s, drop) = {} THEN <<>> ELSE SubSeq(s, Min(Keepers(s, drop)), Len(s))
\* The argument itself is only trimmed on the right.
trim(s, drop) == ltrim(rtrim(s, drop), drop)

\* An empty piece is left out; one of spaces is not, it is empty after the trim.
split_string(s, t, remove_space) ==
  LET piece(x) == IF remove_space /\ t # <<" ">> THEN trim(x, {" "}) ELSE x
      kept(x) == IF x = <<>> THEN <<>> ELSE <<piece(x)>>
      splitFrom[pos_s \in 0 .. Len(s)] ==
        LET pos_e == find(s, t, pos_s)
        IN  IF pos_e = npos THEN kept(Since(s, pos_s))
            ELSE kept(SubSeq(s, pos_s + 1, pos_e)) \o splitFrom[pos_e + Len(t)]
  IN  IF s = <<>> THEN <<>>
      ELSE IF t = <<>> \/ Len(s) <= Len(t) THEN <<s>>
      ELSE splitFrom[0]
-----------------------------------------------------------------------------
(* Paths *)

file_name_from_file_path(path, include_ext, include_ads) ==
  LET name == extract_last_tokenEx(path, <<"\\">>, FALSE)
  IN  IF ~include_ext THEN extract_last_tokenEx(name, <<".">>, TRUE)
      ELSE IF include_ads THEN name
      ELSE extract_last_tokenEx(name, <<":">>, FALSE)

directory_from_file_path(path) == extract_last_tokenEx(path, <<"\\">>, TRUE)

\* The extension, none being the empty set.
get_file_extension(path) ==
  LET name == extract_last_tokenEx(path, <<"\\">>, FALSE)
      dot == rfind(name, <<".">>)
      ext == Since(name, dot + 1)
      colon == find(ext, <<":">>, 0)
  IN  IF dot = npos THEN {} ELSE {IF colon = npos THEN ext ELSE Before(ext, colon)}

Slashes(s) == Cardinality({i \in DOMAIN s : s[i] = "\\"})

\* As far as the third \, which is part of it, or all of it with the null behind it,
\* where the buffer has room for that.
device_name_from_nt_name(name) ==
  LET third == {i \in DOMAIN name : Slashes(Before(name, i)) = 3}
      cmp_count == IF third = {} THEN Len(name) + 1 ELSE Min(third)
  IN  IF cmp_count >= BUF THEN <<>>
      ELSE IF third = {} THEN name ELSE Before(name, cmp_count)
-----------------------------------------------------------------------------
(* Comparisons *)

Lower(c) == IF c = "A" THEN "a" ELSE c
Alike(c, d, case_insensitive) == c = d \/ (case_insensitive /\ Lower(c) = Lower(d))

rstrnicmp(src, fnd, case_insensitive) ==
  Len(fnd) <= Len(src) /\
  \A i \in 0 .. Len(fnd) - 1 : Alike(fnd[Len(fnd) - i], src[Len(src) - i], case_insensitive)

\* strncmp and _strnicmp: as far as n, or the end of both.
AlikeFor(l, r, n, case_insensitive) ==
  \A i \in 1 .. n : i \in DOMAIN l \cup DOMAIN r =>
     i \in DOMAIN l \cap DOMAIN r /\ Alike(l[i], r[i], case_insensitive)

lstrnicmp(src, fnd, case_insensitive) == AlikeFor(src, fnd, Len(fnd), case_insensitive)
is_same_string(l, r, case_insensitive) ==
  AlikeFor(l, r, Max({Len(l), Len(r)}), case_insensitive)
-----------------------------------------------------------------------------
(* Numbers *)

Digits == <<"0", "1", "2", "3", "4", "5", "6", "7", "8", "9">>
Digit(c) == (CHOOSE i \in DOMAIN Digits : Digits[i] = c) - 1

\* The number that digits write.
Value(digits) ==
  LET value[n \in 0 .. Len(digits)] ==
        IF n = 0 THEN 0 ELSE 10 * value[n - 1] + Digit(digits[n])
  IN  value[Len(digits)]

\* strtol and strtoul: spaces, a minus sign, the digits as far as they go.
strtol(s) ==
  LET t == ltrim(s, {" "})
      minus == t # <<>> /\ t[1] = "-"
      rest == IF minus THEN Tail(t) ELSE t
      run == {n \in 0 .. Len(rest) : \A i \in 1 .. n : rest[i] \in Range(Digits)}
  IN  [minus |-> minus, size |-> Value(Before(rest, Max(run)))]

Failed == [ok |-> FALSE, val |-> 0]
strtoul(s, bits) ==
  LET r == strtol(s)
  IN  IF r.size >= 2 ^ bits THEN Failed
      ELSE [ok |-> TRUE, val |-> IF r.minus THEN (2 ^ bits - r.size) % 2 ^ bits ELSE r.size]

\* str_to_int64 is the same with twice the bits.
str_to_int(s, bits) ==
  LET r == strtol(s)
      v == IF r.minus THEN -r.size ELSE r.size
  IN  IF v \in -(2 ^ (bits - 1)) .. 2 ^ (bits - 1) - 1 THEN [ok |-> TRUE, val |-> v] ELSE Failed

\* Mutant: the sign is not looked at.
UnsignedOfAny(s, bits) == strtoul(rtrim(s, {" "}), bits)

\* trima leaves the spaces in front where they are.
Unsigned(s, bits) == LET str == rtrim(s, {" "})
                     IN  IF str # <<>> /\ str[1] = "-" THEN Failed ELSE strtoul(str, bits)

str_to_uint32(s) == Unsigned(s, Bits)
str_to_uint64(s) == Unsigned(s, 2 * Bits)

\* An empty text is refused, and what does not fit in half of the bits.
str_to_uint16(s) == LET u == Unsigned(s, Bits)
                    IN  IF rtrim(s, {" "}) = <<>> \/ u.val >= 2 ^ (Bits \div 2) THEN Failed ELSE u
-----------------------------------------------------------------------------
(* Buffers *)

Newlines == {"CR", "LF"}
Shown(c) == IF c = "NUL" THEN "." ELSE c

\* A run of CR and LF becomes one new line.
ByteShown(r, c) ==
  IF c \notin Newlines THEN [strm |-> Append(r.strm, Shown(c)), crlf_seen |-> FALSE]
  ELSE [strm |-> IF r.crlf_seen THEN r.strm ELSE Append(r.strm, "LF"), crlf_seen |-> TRUE]

BytesShown(buf) ==
  LET upto[n \in 0 .. Len(buf)] ==
        IF n = 0 THEN [strm |-> <<>>, crlf_seen |-> FALSE] ELSE ByteShown(upto[n - 1], buf[n])
  IN  upto[Len(buf)]

bin_to_stra(buf) == BytesShown(buf).strm

\* The line of a dump that begins at i.
DumpedLine(buf, i) ==
  LET part(from, n) == SubSeq(buf, from + 1, Min({from + n, Len(buf)}))
      ascii(c) == IF c \in Newlines THEN "." ELSE Shown(c)
      all == part(i, 2 * HALF)
  IN  [offset |-> i, first |-> part(i, HALF), last |-> part(i + HALF, HALF),
       ascii |-> [k \in DOMAIN all |-> ascii(all[k])]]

\* The characters copied to a buffer of cb bytes, for characters of size bytes: a size_t
\* that goes below 0 wraps.
copy_string_to_buf_with_null(src, cb, size) ==
  IF src = <<>> THEN <<>>
  ELSE Before(src, Min({Len(src), (cb \div size - size) % (2 ^ (2 * Bits))}))
-----------------------------------------------------------------------------
(* Addresses *)

\* __reserved_net_and_masks, with words in network order as four octets.
Network(private, ip, mask) == [private |-> private, ip |-> ip, mask |-> mask]
reserved_net_and_masks ==
  {Network(TRUE, <<10, 0, 0, 0>>, <<255, 255, 255, 0>>),
   Network(TRUE, <<192, 168, 0, 0>>, <<255, 255, 0, 0>>),
   Network(TRUE, <<172, 16, 0, 0>>, <<255, 255, 240, 0>>),
   Network(FALSE, <<224, 0, 0, 0>>, <<255, 255, 255, 240>>),
   Network(FALSE, <<127, 0, 0, 0>>, <<255, 255, 255, 0>>),
   Network(FALSE, <<169, 254, 0, 0>>, <<255, 255, 0, 0>>),
   Network(FALSE, <<100, 64, 0, 0>>, <<255, 255, 252, 0>>),
   Network(FALSE, <<240, 0, 0, 0>>, <<255, 255, 255, 240>>),
   Network(FALSE, <<0, 0, 0, 0>>, <<255, 255, 255, 0>>)}

\* ip & mask; a mask keeps the upper bits of an octet.
Masked(ip, mask) == [i \in 1 .. 4 |-> ip[i] - (ip[i] % (256 - mask[i]))]

is_reserved_ipv4(ip, include_private) ==
  \/ Range(ip) = {0} \/ Range(ip) = {255}
  \/ \E net \in reserved_net_and_masks :
        (include_private \/ ~net.private) /\ net.ip = Masked(ip, net.mask)
-----------------------------------------------------------------------------
(* Times *)

WORD == 2 ^ Bits

file_time_to_int(ft) == ft.high * WORD + ft.low
large_int_to_file_time(li) == [low |-> li % WORD, high |-> (li \div WORD) % WORD]
int_to_file_time(i) == large_int_to_file_time(i)
Added(ft, n, unit) == IF n = 0 THEN ft ELSE int_to_file_time(file_time_to_int(ft) + n * unit)
add_sec_to_file_time(ft, secs) == Added(ft, secs, SECOND)

\* Mutant: the high word is left as it was.
add_day_without_carry(ft, day) == [Added(ft, day, SECOND * DAY) EXCEPT !.high = ft.high]

add_day_to_file_time(ft, day) == Added(ft, day, SECOND * DAY)

\* The difference of two unsigned numbers, as a signed one.
Delta(l, r, unit) == LET d == (file_time_to_int(l) - file_time_to_int(r)) % (WORD * WORD)
                     IN  Min({d, WORD * WORD - d}) \div unit
file_time_delta_sec(l, r) == Delta(l, r, SECOND)
file_time_delta_day(l, r) == Delta(l, r, SECOND * DAY)
-----------------------------------------------------------------------------
\* The decimal digits of a number.
Written(n) ==
  LET size == IF n < 0 THEN -n ELSE n
      digits[m \in 0 .. size] == IF m < 10 THEN <<Digits[m + 1]>>
                                 ELSE Append(digits[m \div 10], Digits[(m % 10) + 1])
  IN  IF n < 0 THEN <<"-">> \o digits[size] ELSE digits[size]

\* What the program has in its hands for each job.
TextInit ==
        /\ \/ /\ job \in {"cut", "split", "replace", "dump", "ask"}
              /\ source \in Texts
              /\ token \in IF job = "dump" THEN {<<>>} ELSE Tokens
              /\ spare \in IF job = "replace" THEN Tokens \cup {<<>>} ELSE {<<>>}
              /\ number = 0
           \/ /\ job = "read"
              /\ number \in Numbers
              /\ \E lead, trail \in {<<>>, <<" ">>} : source = lead \o Written(number) \o trail
              /\ token = <<>> /\ spare = <<>>
           \/ /\ job = "time"
              /\ number \in StartTimes
              /\ source = <<>> /\ token = <<>> /\ spare = <<>>
           \/ /\ job = "address"
              /\ source \in Addresses
              /\ token = <<>> /\ spare = <<>> /\ number = 0
        /\ org = source
        /\ left = <<>> /\ right = <<>> /\ pieces = <<>>
        /\ pos = IF job = "replace" THEN find(source, token, 0) ELSE 0
        /\ count = 0 /\ elapsed = 0
        /\ time = int_to_file_time(number)

\* A loop that deletes what it extracts, as long as that changes the text.
Cut(extract(_, _, _, _), forward) ==
  /\ LET e == extract(org, token, forward, TRUE)
         found == e.org # org
     IN  /\ org' = e.org
         /\ pieces' = Append(pieces, e.out)
         /\ left' = IF found /\ forward THEN left \o e.out \o token ELSE left
         /\ right' = IF found /\ ~forward THEN token \o e.out \o right ELSE right
         /\ job' = IF found THEN job ELSE IF job = "split" THEN "fields" ELSE "done"
  /\ UNCHANGED <<inputs, pos, count, time, elapsed>>

CutFirst(forward) == job = "cut" /\ Cut(extract_first_token, forward)
CutLast(forward) == job = "cut" /\ Cut(extract_last_token, forward)
Split == job = "split" /\ Cut(extract_first_token, TRUE)

\* One turn of find_and_replace_string.
Replace ==
  /\ job = "replace" /\ pos # npos
  /\ org' = Before(org, pos) \o spare \o Since(org, pos + Len(token))
  /\ pos' = find(org', token, pos + Len(spare))
  /\ count' = count + 1
  /\ UNCHANGED <<job, inputs, left, right, pieces, time, elapsed>>

\* One turn of dump_memory.
DumpLine == /\ job = "dump" /\ pos < Len(source)
            /\ pieces' = Append(pieces, DumpedLine(source, pos))
            /\ pos' = pos + 2 * HALF
            /\ UNCHANGED <<job, inputs, org, left, right, count, time, elapsed>>

AddTime == /\ job = "time" /\ count < MaxAdded
           /\ \E n \in {-1, 0, 1, 3} :
                \/ /\ time' = add_sec_to_file_time(time, n)
                   /\ elapsed' = elapsed + n * SECOND
                \/ /\ time' = add_day_to_file_time(time, n)
                   /\ elapsed' = elapsed + n * SECOND * DAY
           /\ count' = count + 1
           /\ UNCHANGED <<job, inputs, org, left, right, pieces, pos>>

TextNext ==
        \/ \E forward \in BOOLEAN : CutFirst(forward) \/ CutLast(forward)
        \/ Split \/ Replace \/ DumpLine \/ AddTime

TextSpec == TextInit /\ [][TextNext]_textVars
-----------------------------------------------------------------------------
(* References *)

\* One more character is read: the last field grows, and ends if it ends with the token.
ReadOn(fields, c, t) ==
  LET last == Append(Last(fields), c)
  IN  IF IsSuffix(t, last) THEN Front(fields) \o <<Before(last, Len(last) - Len(t)), <<>>>>
                           ELSE Append(Front(fields), last)

\* A text cut at every token, from the left; where two overlap, at the first one.
Fields(s, t) ==
  LET fields[n \in 0 .. Len(s)] == IF n = 0 THEN <<<<>>>> ELSE ReadOn(fields[n - 1], s[n], t)
  IN  fields[Len(s)]

\* A sequence without the members of drop.
Without(s, drop) ==
  LET kept[n \in 0 .. Len(s)] ==
        IF n = 0 THEN <<>> ELSE IF s[n] \in drop THEN kept[n - 1] ELSE Append(kept[n - 1], s[n])
  IN  kept[Len(s)]

Filled(fields) == Without(fields, {<<>>})

Joined(fields, t) ==
  LET joined[n \in 0 .. Len(fields)] ==
        IF n = 0 THEN <<>>
        ELSE IF n = 1 THEN fields[1] ELSE joined[n - 1] \o t \o fields[n]
  IN  joined[Len(fields)]

\* What the lines of a dump show in their hexadecimal columns.
Dumped(lines) ==
  LET upto[n \in 0 .. Len(lines)] ==
        IF n = 0 THEN <<>> ELSE upto[n - 1] \o lines[n].first \o lines[n].last
  IN  upto[Len(lines)]

Folded(s) == [i \in DOMAIN s |-> Lower(s[i])]

\* Whatever is cut off, and from which end, what is left and what is cut off make the
\* text again; a loop of extract_first_token gives the fields of the text.
CutsRejoin == /\ job \in {"cut", "split", "done", "fields"} => left \o org \o right = source
              /\ job = "fields" => pieces = Fields(source, token)

\* find_and_replace_string comes to an end, with every field in its place.
ReplacedOnce == job = "replace" =>
                  /\ count < Len(Fields(source, token))
                  /\ pos = npos => org = Joined(Fields(source, token), spare)

\* Each line of a dump goes on where the one before has ended, in both columns.
DumpGoesOn ==
  job = "dump" =>
    /\ Dumped(pieces) = SubSeq(source, 1, Min({pos, Len(source)}))
    /\ \A i \in DOMAIN pieces :
          /\ pieces[i].offset = (i - 1) * 2 * HALF
          /\ Len(pieces[i].ascii) = Len(pieces[i].first \o pieces[i].last)

\* Nothing of a text is lost, doubled or put elsewhere by the loops over it.
TextIsKept == CutsRejoin /\ ReplacedOnce /\ DumpGoesOn
-----------------------------------------------------------------------------
\* The pieces of split_string are the fields that are not empty.
SplitIsExact ==
  Len(token) < Len(source) =>
    /\ split_string(source, token, FALSE) = Filled(Fields(source, token))
    /\ split_string(source, token, TRUE) =
         IF token = <<" ">> THEN Filled(Fields(source, token))
         ELSE [i \in DOMAIN Filled(Fields(source, token)) |->
                 trim(Filled(Fields(source, token))[i], {" "})]

\* A path is its directory and its name, a name what is before its extension and the
\* extension; where there is no stream and no directory that ends in a point.  A device
\* ends at the third \, if that is soon enough; a text without is a device itself.
PathsAreWhole ==
  LET dir == directory_from_file_path(source)
      name == file_name_from_file_path(source, TRUE, TRUE)
      stem == file_name_from_file_path(source, FALSE, TRUE)
      device == device_name_from_nt_name(source)
  IN  /\ IF Contains(source, "\\") THEN source = dir \o <<"\\">> \o name
                                   ELSE dir = source /\ name = source
      /\ ~Contains(source, ":") =>
         /\ file_name_from_file_path(source, TRUE, FALSE) = name
         /\ IF get_file_extension(source) = {} THEN stem = name
            ELSE \E ext \in get_file_extension(source) : name = stem \o <<".">> \o ext
      /\ IF Slashes(Before(source, Min({Len(source), BUF - 1}))) < 3
         THEN device = IF Len(source) < BUF - 1 THEN source ELSE <<>>
         ELSE IsPrefix(device, source) /\ Slashes(device) = 3 /\ Last(device) = "\\"

\* The beginning, the end and the whole of a text, with and without regard to case.
MatchesAreExact ==
  LET same(s, t) == Folded(s) = Folded(t)
  IN  /\ rstrnicmp(source, token, FALSE) = IsSuffix(token, source)
      /\ rstrnicmp(source, token, TRUE) = IsSuffix(Folded(token), Folded(source))
      /\ lstrnicmp(source, token, FALSE) = IsPrefix(token, source)
      /\ lstrnicmp(source, token, TRUE) = IsPrefix(Folded(token), Folded(source))
      /\ is_same_string(source, token, FALSE) = (source = token)
      /\ is_same_string(source, token, TRUE) = same(source, token)

\* Every run of CR and LF is one new line, every other byte one character.
LinesAreJoined ==
  LET text == bin_to_stra(source)
      other(s) == Without(s, Newlines)
  IN  /\ other(text) = [i \in DOMAIN other(source) |-> Shown(other(source)[i])]
      /\ \A i \in 1 .. Len(text) - 1 : ~(text[i] = "LF" /\ text[i + 1] = "LF")
      /\ "LF" \in Range(text) <=> Range(source) \cap Newlines # {}

\* A number that is written out is read as itself where it fits, and refused where it
\* does not; a number below 0 is refused by the unsigned ones, unless a space is in
\* front of it.
NumbersAreRead ==
  job = "read" =>
    LET fits(ok, answer) == answer.ok = ok /\ (ok => answer.val = number)
        below(n) == number >= 0 /\ number < n
    IN  /\ fits(number \in -(2 ^ (Bits - 1)) .. 2 ^ (Bits - 1) - 1, str_to_int(source, Bits))
        /\ number >= 0 \/ source[1] # " " =>
             /\ fits(below(2 ^ Bits), str_to_uint32(source))
             /\ fits(below(2 ^ (2 * Bits)), str_to_uint64(source))
             /\ fits(below(2 ^ (Bits \div 2)), str_to_uint16(source))

\* What is copied has room for the null behind it, unless a wide buffer is shorter than
\* two characters.
CopyFits ==
  \A cb \in 1 .. 2 * Len(source) + 4, size \in {1, 2} :
     LET copied == copy_string_to_buf_with_null(source, cb, size)
     IN  /\ IsPrefix(copied, source)
         /\ cb >= size * size /\ source # <<>> => Len(copied) + 1 <= cb \div size

\* The blocks as the comments of the table name them: how many bits count.
Block(private, ip, bits) == [private |-> private, ip |-> ip, bits |-> bits]
Named ==
  {Block(TRUE, <<10, 0, 0, 0>>, 8), Block(TRUE, <<192, 168, 0, 0>>, 16),
   Block(TRUE, <<172, 16, 0, 0>>, 12), Block(FALSE, <<224, 0, 0, 0>>, 4),
   Block(FALSE, <<127, 0, 0, 0>>, 8), Block(FALSE, <<169, 254, 0, 0>>, 16),
   Block(FALSE, <<100, 64, 0, 0>>, 10), Block(FALSE, <<240, 0, 0, 0>>, 4),
   Block(FALSE, <<0, 0, 0, 0>>, 8)}
In(block, a) ==
  LET value(ip) == ip[1] * 256 + ip[2]
      unit == 2 ^ (16 - block.bits)
  IN  value(a) \div unit = value(block.ip) \div unit

\* An address that is called reserved lies in a block the table is commented with, a
\* private one when these are asked for; of the blocks of 16 bits no address is left out.
\* The masks of the others leave most of their block out.
ReservedIsNamed ==
  job = "address" =>
    \A asked \in BOOLEAN :
      LET blocks == {b \in Named : In(b, source) /\ (asked \/ ~b.private)}
          reserved == is_reserved_ipv4(source, asked)
      IN  /\ reserved => blocks # {}
          /\ (\E b \in blocks : b.bits = 16) => reserved

\* What the functions answer is what they are called for.
AnswersMatch ==
  /\ job = "ask" => SplitIsExact /\ PathsAreWhole /\ MatchesAreExact /\ LinesAreJoined
                     /\ CopyFits
  /\ ReservedIsNamed
  /\ NumbersAreRead
-----------------------------------------------------------------------------
\* After any seconds and days the time is the sum, also over the border between the
\* two words of a FILETIME, and the difference to the start is what was added.
TimeIsSum ==
  job = "time" =>
    LET wraps == number + elapsed \notin 0 .. WORD * WORD - 1
        size == IF elapsed < 0 THEN -elapsed ELSE elapsed
        start == int_to_file_time(number)
    IN  /\ file_time_to_int(time) = (number + elapsed) % (WORD * WORD)
        /\ ~wraps /\ 2 * size < WORD * WORD =>
             /\ file_time_delta_sec(time, start) = size \div SECOND
             /\ file_time_delta_day(start, time) = size \div (SECOND * DAY)
=============================================================================
