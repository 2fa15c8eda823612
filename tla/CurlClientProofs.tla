-------------------------- MODULE CurlClientProofs --------------------------
(***************************************************************************)
(* Proofs about CurlClient, for any number of requests, any size of the    *)
(* responses and any options that libcurl may refuse to set.               *)
(*                                                                         *)
(* A request sets the options of its list one by one, so the invariant     *)
(* says of every option whether it is set already, from what is left of    *)
(* the list; the method follows from the options.  That holds as long as   *)
(* the requests before have come to their reset; how many forms there are  *)
(* and how far a download has come holds after the others as well.         *)
(***************************************************************************)
EXTENDS CurlClient, SequencesExt, SequenceTheorems, TLAPS

\* What a request sets, in any order.
Common == {"URL", "COMMON"}
Received == {"WRITEDATA", "WRITEFUNCTION"}
Wanted(k) ==
  CASE k = "http_get" -> Common \union Received
    [] k = "http_download_file" -> Common \union Received
    [] k = "http_post" -> Common \union Received \union {"POST", "POSTFIELDS"}
    [] k = "http_post_with_header" ->
         Common \union Received \union {"POST", "POSTFIELDS", "HEADERFUNCTION", "HEADERDATA"}
    [] k = "http_patch" -> Common \union Received \union {"CUSTOMREQUEST", "POSTFIELDS"}
    [] k = "http_patch_without_data" -> Common \union {"CUSTOMREQUEST"}
    [] k = "http_file_upload" -> Common \union Received \union {"TCP_KEEPALIVE", "MIMEPOST"}

Types ==
  /\ TypeOK /\ (pc # "idle" => req > 0)
  /\ todo \in Seq(Option) /\ IsInjective(todo)
  /\ answer \in [ok : BOOLEAN, code : 0..MaxRequests]

\* The method that options o have selected.
MethodOf(o) == IF o["POST"] # 0 \/ o["POSTFIELDS"] # 0 THEN "POST"
               ELSE IF o["MIMEPOST"] # 0 THEN "MIME" ELSE "GET"

Remaining == ToSet(todo)

\* Between two requests nothing is set but what is meant for the next one ...
Clean == /\ \A o \in Option \ {"AUTH"} : opt[o] = 0
         /\ opt["AUTH"] \in {0, req + 1} /\ fields \subseteq {req + 1}
         /\ method = "GET"

\* ... while one sets its options those are set that no longer remain to be ...
Halfway == /\ \A o \in Option \ {"AUTH"} :
                opt[o] = IF o \in Wanted(kind) \ Remaining THEN req ELSE 0
           /\ opt["AUTH"] \in {0, req} /\ fields \subseteq {req}
           /\ method = MethodOf(opt)

\* ... and what libcurl was asked to do stays what it is while it does it.
SentIsOwn == /\ sent.method = Promised(kind)
             /\ sent.headers \subseteq {req} /\ sent.auth \in {0, req}
             /\ \A o \in Option : sent.opt[o] \in {0, req}

Performing == pc \in {"transfer", "write", "aborted"}
OwnOptions == ~leftover => /\ pc = "idle" => Clean
                           /\ pc = "options" => Halfway
                           /\ Performing => SentIsOwn

\* The list of a request is left from its end.
TodoIsLeft == pc = "options" => Remaining \subseteq Wanted(kind)

\* A request adds at most one form, and libcurl performs an upload with one.
FormsCounted ==
  /\ mimes <= req
  /\ pc = "options" /\ "MIMEPOST" \in Remaining => mimes < req
  /\ pc = "options" /\ kind = "http_file_upload" /\ "MIMEPOST" \notin Remaining => mimes > 0
  /\ Performing /\ kind = "http_file_upload" => mimes > 0

\* The file has what libcurl has received, up to the chunk that is being written;
\* only that one may be written after a cancellation.
ChunksCounted ==
  /\ pc = "options" => got = 0 /\ stored = 0
  /\ pc \in {"write", "aborted"} => kind = "http_download_file"
  /\ pc = "write" => stored = got - 1
  /\ pc = "transfer" /\ kind = "http_download_file" => stored = got
  /\ late # 0 => late = 1 /\ cancel /\ pc # "write"

IInv == Types /\ OwnOptions /\ TodoIsLeft /\ FormsCounted /\ ChunksCounted /\ TrueIsAnAnswer
-----------------------------------------------------------------------------
(* Lists of options *)

LEMMA Joined ==
  ASSUME NEW s \in Seq(Option), NEW t \in Seq(Option)
  PROVE  /\ s \o t \in Seq(Option)
         /\ ToSet(s \o t) = ToSet(s) \union ToSet(t)
         /\ IsInjective(s) /\ IsInjective(t) /\ ToSet(s) \intersect ToSet(t) = {}
              => IsInjective(s \o t)
<1> DEFINE m == Len(s)
           n == Len(t)
<1>1. m \in Nat /\ n \in Nat /\ DOMAIN s = 1..m /\ DOMAIN t = 1..n
  BY LenProperties
<1>2. /\ s \o t \in Seq(Option) /\ DOMAIN (s \o t) = 1..(m + n)
      /\ \A i \in 1..(m + n) : (s \o t)[i] = IF i <= m THEN s[i] ELSE t[i - m]
  BY ConcatProperties, LenProperties
<1> DEFINE u == s \o t
<1> HIDE DEF u, m, n
<1>3. ToSet(u) = ToSet(s) \union ToSet(t)
  <2>1. ASSUME NEW i \in 1..(m + n) PROVE u[i] \in ToSet(s) \union ToSet(t)
    <3>1. CASE i <= m
      BY <1>1, <1>2, <3>1 DEF ToSet, u
    <3>2. CASE i > m
      <4>1. i - m \in 1..n /\ u[i] = t[i - m]
        BY <1>1, <1>2, <3>2 DEF u
      <4> QED BY <1>1, <4>1 DEF ToSet
    <3> QED BY <1>1, <3>1, <3>2
  <2>2. ASSUME NEW i \in 1..m PROVE s[i] \in ToSet(u)
    <3>1. i \in 1..(m + n) /\ u[i] = s[i]
      BY <1>1, <1>2 DEF u
    <3> QED BY <1>2, <3>1 DEF ToSet, u
  <2>3. ASSUME NEW i \in 1..n PROVE t[i] \in ToSet(u)
    <3>1. i + m \in 1..(m + n) /\ u[i + m] = t[i]
      BY <1>1, <1>2 DEF u
    <3> QED BY <1>2, <3>1 DEF ToSet, u
  <2> QED BY <1>1, <1>2, <2>1, <2>2, <2>3 DEF ToSet, u
<1>4. ASSUME IsInjective(s), IsInjective(t), ToSet(s) \intersect ToSet(t) = {}
      PROVE  IsInjective(u)
  <2> SUFFICES ASSUME NEW i \in 1..(m + n), NEW j \in 1..(m + n), u[i] = u[j]
               PROVE  i = j
    BY <1>2 DEF IsInjective, u
  <2>1. ASSUME NEW a \in 1..(m + n), NEW b \in 1..(m + n), a <= m, b > m, u[a] = u[b]
        PROVE  FALSE
    <3>1. a \in 1..m /\ b - m \in 1..n /\ u[a] = s[a] /\ u[b] = t[b - m]
      BY <1>1, <1>2, <2>1 DEF u
    <3> QED BY <1>1, <1>4, <2>1, <3>1 DEF ToSet
  <2>2. CASE i <= m /\ j <= m
    <3>1. i \in 1..m /\ j \in 1..m /\ s[i] = s[j]
      BY <1>1, <1>2, <2>2 DEF u
    <3> QED BY <1>1, <1>4, <3>1 DEF IsInjective
  <2>3. CASE i > m /\ j > m
    <3>1. i - m \in 1..n /\ j - m \in 1..n /\ t[i - m] = t[j - m]
      BY <1>1, <1>2, <2>3 DEF u
    <3>2. i - m = j - m
      BY <1>1, <1>4, <3>1 DEF IsInjective
    <3> QED BY <1>1, <3>2
  <2> QED BY <1>1, <2>1, <2>2, <2>3
<1> QED BY <1>2, <1>3, <1>4 DEF u

LEMMA TakenFirst ==
  ASSUME NEW s \in Seq(Option), s # <<>>, IsInjective(s)
  PROVE  /\ Head(s) \in Option /\ Head(s) \in ToSet(s)
         /\ Tail(s) \in Seq(Option) /\ IsInjective(Tail(s))
         /\ ToSet(Tail(s)) = ToSet(s) \ {Head(s)}
<1> DEFINE n == Len(s)
           u == Tail(s)
<1>1. n \in Nat /\ n >= 1 /\ DOMAIN s = 1..n /\ Head(s) = s[1]
  BY LenProperties, EmptySeq
<1>2. /\ Head(s) \in Option /\ u \in Seq(Option) /\ DOMAIN u = 1..(n - 1)
      /\ \A i \in 1..(n - 1) : u[i] = s[i + 1]
  BY <1>1, HeadTailProperties, LenProperties
<1> HIDE DEF n, u
<1>3. IsInjective(u)
  <2> SUFFICES ASSUME NEW i \in 1..(n - 1), NEW j \in 1..(n - 1), u[i] = u[j]
               PROVE  i = j
    BY <1>2 DEF IsInjective
  <2>1. i + 1 \in 1..n /\ j + 1 \in 1..n /\ s[i + 1] = s[j + 1]
    BY <1>1, <1>2
  <2>2. i + 1 = j + 1
    BY <1>1, <2>1 DEF IsInjective
  <2> QED BY <1>1, <2>2
<1>4. ToSet(u) = ToSet(s) \ {Head(s)}
  <2>1. ASSUME NEW i \in 1..(n - 1) PROVE u[i] \in ToSet(s) \ {Head(s)}
    <3>1. i + 1 \in 1..n /\ 1 \in 1..n /\ i + 1 # 1 /\ u[i] = s[i + 1]
      BY <1>1, <1>2
    <3> QED BY <1>1, <3>1 DEF ToSet, IsInjective
  <2>2. ASSUME NEW i \in 1..n, s[i] # Head(s) PROVE s[i] \in ToSet(u)
    <3>1. i - 1 \in 1..(n - 1) /\ u[i - 1] = s[i]
      BY <1>1, <1>2, <2>2
    <3> QED BY <1>2, <3>1 DEF ToSet
  <2>3. ToSet(u) = {u[i] : i \in 1..(n - 1)} /\ ToSet(s) = {s[i] : i \in 1..n}
    BY <1>1, <1>2 DEF ToSet
  <2> QED BY <2>1, <2>2, <2>3
<1>5. Head(s) \in ToSet(s)
  BY <1>1 DEF ToSet
<1> QED BY <1>2, <1>3, <1>4, <1>5 DEF u

\* The lists that Options joins are those of Wanted, each option once.
LEMMA OptionLists ==
  ASSUME NEW k \in Kind
  PROVE  /\ Options[k] \in Seq(Option) /\ IsInjective(Options[k])
         /\ ToSet(Options[k]) = Wanted(k) /\ Wanted(k) \subseteq Option \ {"AUTH"}
<1> DEFINE IsList(s, S) == s \in Seq(Option) /\ IsInjective(s) /\ ToSet(s) = S
<1>1. ASSUME NEW s, NEW S, IsList(s, S), NEW t, NEW T, IsList(t, T), S \intersect T = {}
      PROVE  IsList(s \o t, S \union T)
  BY <1>1, Joined
<1>2. /\ IsList(<<"URL", "COMMON">>, Common)
      /\ IsList(<<"WRITEDATA", "WRITEFUNCTION">>, Received)
      /\ IsList(<<"POST", "POSTFIELDS">>, {"POST", "POSTFIELDS"})
      /\ IsList(<<"POST", "POSTFIELDS", "HEADERFUNCTION", "HEADERDATA">>,
                {"POST", "POSTFIELDS", "HEADERFUNCTION", "HEADERDATA"})
      /\ IsList(<<"CUSTOMREQUEST", "POSTFIELDS">>, {"CUSTOMREQUEST", "POSTFIELDS"})
      /\ IsList(<<"CUSTOMREQUEST">>, {"CUSTOMREQUEST"})
      /\ IsList(<<"TCP_KEEPALIVE", "MIMEPOST">>, {"TCP_KEEPALIVE", "MIMEPOST"})
  BY DEF Option, ToSet, IsInjective, Common, Received
<1> HIDE DEF IsList
<1>3. IsList(prepare_perform \o Receive, Common \union Received)
  <2>1. Common \intersect Received = {}
    BY DEF Common, Received
  <2> QED BY <1>1, <1>2, <2>1 DEF prepare_perform, Receive
<1>4. IsList(Options[k], Wanted(k))
  <2>1. CASE k \in {"http_get", "http_download_file"}
    <3>1. Wanted(k) = Common \union Received
      BY <2>1 DEF Wanted
    <3>2. Options[k] = prepare_perform \o Receive
      BY <2>1 DEF Options, http_get, http_download_file
    <3> QED BY <1>3, <3>1, <3>2
  <2>2. CASE k = "http_post"
    <3>1. (Common \union Received) \intersect {"POST", "POSTFIELDS"} = {}
      BY DEF Common, Received
    <3>2. IsList((prepare_perform \o Receive) \o <<"POST", "POSTFIELDS">>, Wanted(k))
      BY <1>1, <1>2, <1>3, <2>2, <3>1 DEF Wanted
    <3> QED BY <2>2, <3>2 DEF Options, http_post
  <2>3. CASE k = "http_post_with_header"
    <3> DEFINE T == {"POST", "POSTFIELDS", "HEADERFUNCTION", "HEADERDATA"}
    <3>1. (Common \union Received) \intersect T = {}
      BY DEF Common, Received
    <3>2. IsList((prepare_perform \o Receive)
                  \o <<"POST", "POSTFIELDS", "HEADERFUNCTION", "HEADERDATA">>, Wanted(k))
      BY <1>1, <1>2, <1>3, <2>3, <3>1 DEF Wanted
    <3> QED BY <2>3, <3>2 DEF Options, http_post_with_header
  <2>4. CASE k = "http_patch"
    <3>1. (Common \union Received) \intersect {"CUSTOMREQUEST", "POSTFIELDS"} = {}
      BY DEF Common, Received
    <3>2. IsList((prepare_perform \o Receive) \o <<"CUSTOMREQUEST", "POSTFIELDS">>, Wanted(k))
      BY <1>1, <1>2, <1>3, <2>4, <3>1 DEF Wanted
    <3> QED BY <2>4, <3>2 DEF Options, http_patch
  <2>5. CASE k = "http_patch_without_data"
    <3>1. Common \intersect {"CUSTOMREQUEST"} = {}
      BY DEF Common
    <3>2. IsList(prepare_perform \o <<"CUSTOMREQUEST">>, Wanted(k))
      BY <1>1, <1>2, <2>5, <3>1 DEF Wanted, prepare_perform
    <3> QED BY <2>5, <3>2 DEF Options, http_patch_without_data
  <2>6. CASE k = "http_file_upload"
    <3>1. (Common \union Received) \intersect {"TCP_KEEPALIVE", "MIMEPOST"} = {}
      BY DEF Common, Received
    <3>2. IsList((prepare_perform \o Receive) \o Form, Wanted(k))
      BY <1>1, <1>2, <1>3, <2>6, <3>1 DEF Wanted, Form
    <3> QED BY <2>6, <3>2 DEF Options, http_file_upload
  <2> QED BY <2>1, <2>2, <2>3, <2>4, <2>5, <2>6 DEF Kind
<1>5. Wanted(k) \subseteq Option \ {"AUTH"}
  BY DEF Wanted, Kind, Common, Received, Option
<1> QED BY <1>4, <1>5 DEF IsList
-----------------------------------------------------------------------------
(* The steps, grouped by what they disturb *)

LEMMA MimePostIsUpload ==
  ASSUME NEW k \in Kind
  PROVE  /\ "MIMEPOST" \in Wanted(k) <=> k = "http_file_upload"
         /\ k = "http_file_upload" => Wanted(k) \intersect {"POST", "POSTFIELDS"} = {}
BY DEF Wanted, Kind, Common, Received

\* With all its options set a request has the method of its function.
LEMMA MethodIsPromised ==
  ASSUME NEW k \in Kind, NEW o \in [Option -> Nat], NEW r \in Nat \ {0},
         \A x \in Option \ {"AUTH", "HTTPHEADER"} : o[x] = IF x \in Wanted(k) THEN r ELSE 0
  PROVE  (IF o["CUSTOMREQUEST"] # 0 THEN "PATCH" ELSE MethodOf(o)) = Promised(k)
<1>1. /\ o["CUSTOMREQUEST"] = IF "CUSTOMREQUEST" \in Wanted(k) THEN r ELSE 0
      /\ o["POST"] = IF "POST" \in Wanted(k) THEN r ELSE 0
      /\ o["POSTFIELDS"] = IF "POSTFIELDS" \in Wanted(k) THEN r ELSE 0
      /\ o["MIMEPOST"] = IF "MIMEPOST" \in Wanted(k) THEN r ELSE 0
  BY DEF Option
<1>2. CASE k \in {"http_get", "http_download_file"}
  BY <1>1, <1>2 DEF Wanted, Common, Received, MethodOf, Promised
<1>3. CASE k \in {"http_post", "http_post_with_header"}
  BY <1>1, <1>3 DEF Wanted, Common, Received, MethodOf, Promised
<1>4. CASE k \in {"http_patch", "http_patch_without_data"}
  BY <1>1, <1>4 DEF Wanted, Common, Received, MethodOf, Promised
<1>5. CASE k = "http_file_upload"
  BY <1>1, <1>5 DEF Wanted, Common, Received, MethodOf, Promised
<1> QED BY <1>2, <1>3, <1>4, <1>5 DEF Kind

LEMMA BetweenRequests == ASSUME IInv, append_header \/ enable_auth PROVE IInv'
<1> USE DEF IInv, Types, TypeOK, Remaining, Performing
<1>1. pc = "idle" /\ pc' = "idle" /\ req < MaxRequests
      /\ UNCHANGED <<mimes, req, kind, todo, transfer, answer, leftover>>
  BY DEF append_header, enable_auth
<1>2. Types'
  <2>1. opt' \in [Option -> 0..MaxRequests] /\ fields' \subseteq 1..MaxRequests
    <3>1. req + 1 \in 1..MaxRequests /\ req + 1 \in 0..MaxRequests
      BY <1>1, CurlAssumption
    <3>2. CASE append_header
      BY <3>1, <3>2 DEF append_header
    <3>3. CASE enable_auth
      BY <3>1, <3>3 DEF enable_auth
    <3> QED BY <3>2, <3>3
  <2>2. UNCHANGED <<method, sent, got, stored, cancel, late>>
    BY <1>1 DEF append_header, enable_auth, transfer
  <2> QED BY <1>1, <2>1, <2>2
<1>3. OwnOptions'
  <2> SUFFICES ASSUME ~leftover PROVE Clean'
    BY <1>1 DEF OwnOptions
  <2>1. Clean
    BY <1>1 DEF OwnOptions
  <2> QED BY <1>1, <2>1 DEF append_header, enable_auth, Clean, Option
<1>4. TodoIsLeft' /\ FormsCounted' /\ ChunksCounted' /\ TrueIsAnAnswer'
  BY <1>1 DEF TodoIsLeft, FormsCounted, ChunksCounted, TrueIsAnAnswer, transfer
<1> QED BY <1>2, <1>3, <1>4

LEMMA Begins == ASSUME IInv, NEW k \in Kind, Call(k) PROVE IInv'
<1> USE DEF IInv, Types, TypeOK, Performing
<1>1. /\ pc = "idle" /\ pc' = "options" /\ req' = req + 1 /\ req < MaxRequests
      /\ kind' = k /\ todo' = Options[k]
      /\ got' = 0 /\ stored' = 0 /\ cancel' = FALSE /\ late' = 0
      /\ UNCHANGED <<opt, method, fields, mimes, answer, leftover>>
  BY DEF Call, client
<1>2. todo' \in Seq(Option) /\ IsInjective(todo') /\ Remaining' = Wanted(k)
      /\ Wanted(k) \subseteq Option \ {"AUTH"}
  BY <1>1, OptionLists DEF Remaining
<1>3. Types'
  <2>1. req' \in 0..MaxRequests /\ req' > 0
    BY <1>1, CurlAssumption
  <2>2. got' \in 0..MaxChunks /\ stored' \in 0..got' /\ late' \in 0..MaxChunks
    BY <1>1, CurlAssumption
  <2> QED BY <1>1, <1>2, <2>1, <2>2
<1>4. OwnOptions'
  <2> SUFFICES ASSUME ~leftover PROVE Halfway'
    BY <1>1 DEF OwnOptions
  <2>1. Clean
    BY <1>1 DEF OwnOptions
  <2>2. MethodOf(opt) = "GET"
    BY <2>1 DEF Clean, MethodOf, Option
  <2> QED BY <1>1, <1>2, <2>1, <2>2 DEF Clean, Halfway
<1>5. FormsCounted'
  BY <1>1, <1>2, MimePostIsUpload DEF FormsCounted
<1>6. TodoIsLeft' /\ ChunksCounted' /\ TrueIsAnAnswer'
  BY <1>1, <1>2 DEF TodoIsLeft, ChunksCounted, TrueIsAnAnswer
<1> QED BY <1>3, <1>4, <1>5, <1>6

LEMMA OptionKeeps == ASSUME IInv, SetOption PROVE IInv'
<1> USE DEF IInv, Types, TypeOK, Performing
<1> DEFINE h == Head(todo)
<1>1. /\ pc = "options" /\ pc' = "options" /\ todo # <<>> /\ todo' = Tail(todo)
      /\ opt' = [opt EXCEPT ![h] = req]
      /\ mimes' = mimes + (IF h = "MIMEPOST" THEN 1 ELSE 0)
      /\ method' = Selected(h)
      /\ UNCHANGED <<fields, req, kind, sent, got, stored, cancel, late, answer, leftover>>
  BY DEF SetOption, transfer
<1>2. /\ h \in Option /\ h \in Remaining /\ todo' \in Seq(Option) /\ IsInjective(todo')
      /\ Remaining' = Remaining \ {h}
  BY <1>1, TakenFirst DEF Remaining
<1>3. h \in Wanted(kind) /\ h # "AUTH"
  BY <1>1, <1>2, OptionLists DEF TodoIsLeft
<1> HIDE DEF h
<1>4. FormsCounted'
  BY <1>1, <1>2, <1>3, MimePostIsUpload DEF FormsCounted
<1>5. Types'
  <2>1. mimes' \in 0..MaxRequests
    BY <1>1, <1>4, CurlAssumption DEF FormsCounted
  <2>2. method' \in {"GET", "POST", "MIME"}
    BY <1>1 DEF Selected
  <2> QED BY <1>1, <1>2, <2>1, <2>2, CurlAssumption
<1>6. OwnOptions'
  <2> SUFFICES ASSUME ~leftover PROVE Halfway'
    BY <1>1 DEF OwnOptions
  <2>1. Halfway /\ req > 0
    BY <1>1 DEF OwnOptions
  <2>2. \A o \in Option \ {"AUTH"} :
          opt'[o] = IF o \in Wanted(kind) \ Remaining' THEN req ELSE 0
    BY <1>1, <1>2, <1>3, <2>1 DEF Halfway
  <2>3. method' = MethodOf(opt')
    <3>1. CASE h \in {"POST", "POSTFIELDS"}
      <4>1. opt'["POST"] # 0 \/ opt'["POSTFIELDS"] # 0
        <5>1. opt'[h] = req /\ req # 0
          BY <1>1, <1>2, <2>1
        <5> QED BY <3>1, <5>1
      <4> QED BY <1>1, <3>1, <4>1 DEF Selected, MethodOf
    <3>2. CASE h = "MIMEPOST"
      <4>1. {"POST", "POSTFIELDS"} \intersect Wanted(kind) = {}
        BY <1>3, <3>2, MimePostIsUpload
      <4>2. opt'["POST"] = 0 /\ opt'["POSTFIELDS"] = 0 /\ opt'["MIMEPOST"] = req
        BY <1>1, <1>2, <2>2, <3>2, <4>1 DEF Option
      <4> QED BY <1>1, <2>1, <3>2, <4>2 DEF Selected, MethodOf
    <3>3. CASE h \notin {"POST", "POSTFIELDS", "MIMEPOST"}
      <4>1. method' = method
        BY <1>1, <3>3 DEF Selected
      <4>2. MethodOf(opt') = MethodOf(opt)
        BY <1>1, <1>2, <3>3 DEF MethodOf, Option
      <4> QED BY <4>1, <4>2, <2>1 DEF Halfway
    <3> QED BY <3>1, <3>2, <3>3
  <2>4. opt'["AUTH"] = opt["AUTH"]
    BY <1>1, <1>2, <1>3 DEF Option
  <2> QED BY <1>1, <2>1, <2>2, <2>3, <2>4 DEF Halfway
<1>7. TodoIsLeft' /\ ChunksCounted' /\ TrueIsAnAnswer'
  BY <1>1, <1>2 DEF TodoIsLeft, ChunksCounted, TrueIsAnAnswer
<1> QED BY <1>4, <1>5, <1>6, <1>7

LEMMA PerformKeeps == ASSUME IInv, Perform PROVE IInv'
<1> USE DEF IInv, Types, TypeOK, Performing
<1>1. /\ pc = "options" /\ pc' = "transfer" /\ todo = <<>>
      /\ UNCHANGED <<method, fields, mimes, req, kind, todo, got, stored, cancel, late,
                     answer, leftover>>
  BY DEF Perform
<1> DEFINE used == IF kind = "http_file_upload" \/ fields = {} THEN opt
                   ELSE [opt EXCEPT !["HTTPHEADER"] = req]
<1>2. /\ opt' = used
      /\ sent' = [method |-> IF used["CUSTOMREQUEST"] # 0 THEN "PATCH" ELSE method,
                  headers |-> IF kind = "http_file_upload" THEN {} ELSE fields,
                  auth |-> used["AUTH"],
                  opt |-> used]
  BY DEF Perform
<1>3. Remaining = {}
  BY <1>1 DEF Remaining, ToSet
<1>4. used \in [Option -> 0..MaxRequests]
  BY <1>1 DEF Option
<1>5. Types'
  BY <1>1, <1>2, <1>4, CurlAssumption
<1>6. OwnOptions'
  <2> SUFFICES ASSUME ~leftover PROVE SentIsOwn'
    BY <1>1 DEF OwnOptions
  <2>1. Halfway /\ req > 0
    BY <1>1 DEF OwnOptions
  <2>2. \A o \in Option \ {"AUTH", "HTTPHEADER"} :
          used[o] = opt[o] /\ opt[o] = IF o \in Wanted(kind) THEN req ELSE 0
    BY <1>3, <2>1 DEF Halfway
  <2>3. used["AUTH"] \in {0, req} /\ used["HTTPHEADER"] \in {0, req}
    BY <1>3, <2>1 DEF Halfway, Option
  <2>4. MethodOf(used) = method
    BY <2>1, <2>2 DEF Halfway, MethodOf, Option
  <2>5. used \in [Option -> Nat]
    BY <1>4, CurlAssumption
  <2> HIDE DEF used
  <2>6. (IF used["CUSTOMREQUEST"] # 0 THEN "PATCH" ELSE method) = Promised(kind)
    <3>1. \A o \in Option \ {"AUTH", "HTTPHEADER"} :
            used[o] = IF o \in Wanted(kind) THEN req ELSE 0
      BY <2>2
    <3>2. req \in Nat \ {0}
      BY <2>1, CurlAssumption
    <3> QED BY <2>4, <2>5, <3>1, <3>2, MethodIsPromised
  <2>7. \A o \in Option : used[o] \in {0, req}
    BY <2>2, <2>3
  <2> QED BY <1>1, <1>2, <2>1, <2>3, <2>6, <2>7 DEF SentIsOwn, Halfway
<1>7. FormsCounted'
  BY <1>1, <1>3 DEF FormsCounted
<1>8. TodoIsLeft' /\ ChunksCounted' /\ TrueIsAnAnswer'
  BY <1>1 DEF TodoIsLeft, ChunksCounted, TrueIsAnAnswer
<1> QED BY <1>5, <1>6, <1>7, <1>8

\* The ends of a request: before it is performed, refused, and after it.
LEMMA EndKeeps == ASSUME IInv, SetOptionFails \/ PerformFails \/ Done \/ Fails PROVE IInv'
<1> USE DEF IInv, Types, TypeOK, Performing
<1>1. pc # "idle" /\ pc' = "idle" /\ UNCHANGED <<req, kind, sent, got, stored, cancel, late>>
  BY DEF SetOptionFails, PerformFails, Done, Fails, transfer
<1>2. answer' \in [ok : BOOLEAN, code : 0..MaxRequests]
      /\ (answer'.ok => Done /\ answer'.code = req)
  <2>1. answer' = [ok |-> FALSE, code |-> 0] \/ (Done /\ answer' = [ok |-> TRUE, code |-> req])
    BY DEF SetOptionFails, PerformFails, Done, Fails
  <2>2. 0 \in 0..MaxRequests
    BY CurlAssumption
  <2>3. CASE answer' = [ok |-> FALSE, code |-> 0]
    BY <2>2, <2>3
  <2>4. CASE Done /\ answer' = [ok |-> TRUE, code |-> req]
    BY <2>4
  <2> QED BY <2>1, <2>3, <2>4
<1>3. todo' \in Seq(Option) /\ IsInjective(todo')
  <2>1. IsInjective(<<>>) /\ <<>> \in Seq(Option)
    BY EmptySeq DEF IsInjective
  <2>2. todo' = <<>> \/ todo' = todo
    BY DEF SetOptionFails, PerformFails, Done, Fails
  <2> QED BY <2>1, <2>2
<1>4. leftover' \in BOOLEAN
      /\ (leftover' = FALSE => opt' = Unset /\ method' = "GET" /\ fields' = {})
      /\ (leftover' # FALSE => UNCHANGED <<opt, method, fields>>)
  BY DEF SetOptionFails, PerformFails, Done, Fails, Reset
<1>5. mimes' \in 0..req
  <2>1. CASE SetOptionFails
    <3>1. Head(todo) \in Remaining /\ pc = "options" /\ req \in Nat
      BY <2>1, TakenFirst, CurlAssumption DEF SetOptionFails, Remaining
    <3> QED BY <2>1, <3>1, CurlAssumption DEF SetOptionFails, FormsCounted
  <2>2. CASE PerformFails \/ Fails
    BY <2>2, CurlAssumption DEF PerformFails, Fails, FormsCounted
  <2>3. CASE Done
    BY <2>3, CurlAssumption DEF Done, FormsFreed, FormsCounted
  <2> QED BY <2>1, <2>2, <2>3
<1>6. Unset \in [Option -> 0..MaxRequests] /\ \A o \in Option : Unset[o] = 0
  BY CurlAssumption DEF Unset
<1>7. Types'
  <2>1. opt' \in [Option -> 0..MaxRequests] /\ method' \in {"GET", "POST", "MIME"}
        /\ fields' \subseteq 1..MaxRequests
    BY <1>4, <1>6
  <2>2. mimes' \in 0..MaxRequests
    BY <1>5, CurlAssumption
  <2> QED BY <1>1, <1>2, <1>3, <2>1, <2>2
<1>8. OwnOptions'
  BY <1>1, <1>4, <1>6 DEF OwnOptions, Clean, Option
<1>9. FormsCounted'
  BY <1>1, <1>5, CurlAssumption DEF FormsCounted
<1>10. TodoIsLeft' /\ ChunksCounted'
  BY <1>1 DEF TodoIsLeft, ChunksCounted
<1>11. TrueIsAnAnswer'
  BY <1>1, <1>2 DEF TrueIsAnAnswer, ChunksCounted, Done
<1> QED BY <1>7, <1>8, <1>9, <1>10, <1>11

\* The callbacks of libcurl and the thread that cancels.
LEMMA TransferKeeps ==
  ASSUME IInv, curl_wcb_to_stream \/ update \/ WriteFile \/ cancel_download
  PROVE  IInv'
<1> USE DEF IInv, Types, TypeOK, Performing
<1>1. /\ pc # "idle" /\ pc' # "idle"
      /\ (pc' # pc => Performing /\ Performing')
      /\ UNCHANGED <<opt, method, fields, mimes, req, kind, todo, sent, answer, leftover>>
  BY DEF curl_wcb_to_stream, update, WriteFile, cancel_download, client
<1>2. Types' /\ ChunksCounted'
  <2>1. CASE curl_wcb_to_stream
    BY <1>1, <2>1, CurlAssumption DEF curl_wcb_to_stream, ChunksCounted
  <2>2. CASE update
    BY <1>1, <2>2, CurlAssumption DEF update, ChunksCounted
  <2>3. CASE WriteFile
    BY <1>1, <2>3, CurlAssumption DEF WriteFile, ChunksCounted
  <2>4. CASE cancel_download
    BY <1>1, <2>4, CurlAssumption DEF cancel_download, ChunksCounted
  <2> QED BY <2>1, <2>2, <2>3, <2>4
<1>3. OwnOptions' /\ TodoIsLeft' /\ FormsCounted'
  BY <1>1 DEF OwnOptions, Halfway, SentIsOwn, Remaining, TodoIsLeft, FormsCounted
<1>4. TrueIsAnAnswer'
  BY <1>1 DEF TrueIsAnAnswer
<1> QED BY <1>2, <1>3, <1>4

LEMMA InitEstablishesIInv == Init => IInv
<1> SUFFICES ASSUME Init PROVE IInv
  OBVIOUS
<1>1. todo \in Seq(Option) /\ IsInjective(todo)
  BY EmptySeq DEF Init, IsInjective
<1>2. Types
  <2>1. opt \in [Option -> 0..MaxRequests]
    BY CurlAssumption DEF Init, Unset
  <2>2. answer \in [ok : BOOLEAN, code : 0..MaxRequests]
    BY CurlAssumption DEF Init
  <2>3. kind \in Kind
    BY DEF Init, Kind
  <2>4. answer.ok \in BOOLEAN /\ answer.code \in 0..MaxRequests
    BY <2>2
  <2>5. got \in 0..MaxChunks /\ stored \in 0..got /\ late \in 0..MaxChunks
        /\ mimes \in 0..MaxRequests /\ req \in 0..MaxRequests
    BY CurlAssumption DEF Init
  <2> QED BY <1>1, <2>1, <2>2, <2>3, <2>4, <2>5 DEF Init, Types, TypeOK
<1>3. OwnOptions
  BY DEF Init, OwnOptions, Clean, Unset, Option, Performing
<1>4. FormsCounted
  BY CurlAssumption DEF Init, FormsCounted, Performing
<1>5. TodoIsLeft /\ ChunksCounted /\ TrueIsAnAnswer
  BY DEF Init, TodoIsLeft, ChunksCounted, TrueIsAnAnswer
<1> QED BY <1>2, <1>3, <1>4, <1>5 DEF IInv

LEMMA StepKeepsIInv == IInv /\ [Next]_vars => IInv'
<1>1. ASSUME IInv, UNCHANGED vars PROVE IInv'
  BY <1>1 DEF vars, client, transfer, IInv, Types, TypeOK, OwnOptions, Clean, Halfway,
              SentIsOwn, Performing, Remaining, TodoIsLeft, FormsCounted, ChunksCounted,
              TrueIsAnAnswer
<1> QED BY <1>1, BetweenRequests, Begins, OptionKeeps, PerformKeeps, EndKeeps, TransferKeeps
        DEF Next

LEMMA IInvAlways == Spec => []IInv
BY InitEstablishesIInv, StepKeepsIInv, PTL DEF Spec
-----------------------------------------------------------------------------
\* Every variable has its type; no form is freed twice and none is missing when
\* libcurl performs the upload.
THEOREM ClientTypeCorrect == Spec => []TypeOK
<1>1. IInv => TypeOK
  BY DEF IInv, Types
<1> QED BY <1>1, IInvAlways, PTL

\* Whatever requests came before, as long as they have come to their reset, a
\* request is performed with the method of its function and with nothing but its
\* own headers, credentials and options.
THEOREM RequestIsItsOwn == Spec => []OwnRequest
<1>1. IInv => OwnRequest
  BY DEF IInv, Types, OwnOptions, SentIsOwn, Performing, OwnRequest
<1> QED BY <1>1, IInvAlways, PTL

\* A request that returns true gives its own response code, and a download has
\* written every chunk.
THEOREM TrueIsComplete == Spec => []TrueIsAnAnswer
<1>1. IInv => TrueIsAnAnswer
  BY DEF IInv
<1> QED BY <1>1, IInvAlways, PTL

\* After a cancellation one chunk at most is still written, however large the
\* response.
THEOREM CancelIsSeen == Spec => []CancelStops
<1>1. IInv => CancelStops
  BY DEF IInv, Types, TypeOK, ChunksCounted, CancelStops
<1> QED BY <1>1, IInvAlways, PTL
=============================================================================
