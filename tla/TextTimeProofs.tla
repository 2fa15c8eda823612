--------------------------- MODULE TextTimeProofs ---------------------------
(***************************************************************************)
(* Proofs about the two modules that reckon with clocks and texts.         *)
(*                                                                         *)
(* NTPClient, for any word size, any clock units and any times the server  *)
(* and the local clock may show: there is one operation because every      *)
(* operation is started by the handler of the one before, so that as long  *)
(* as one is outstanding no handler of the chain is due.  The answer       *)
(* survives the deadline because on_timeout throws only before the socket  *)
(* is open, and an answer comes after that.                                *)
(*                                                                         *)
(* TextUtils, for texts and tokens of any length, any word size, any       *)
(* number of additions and any length of a line of a dump: a loop over a   *)
(* text is at a place in it, what is in front of that has been read into   *)
(* fields, and the first token behind it ends the next field.  What the    *)
(* functions answer follows from what each of them does with one character *)
(* more, and from the inputs the program has begun with.                   *)
(***************************************************************************)
EXTENDS NTPClient, TextUtils, FiniteSetTheorems, WellFoundedInduction, SequenceTheorems, TLAPS

\* What comes after on_resolve needs the open socket; an exception does not.
OpenSince == /\ op \in {"connect", "send", "receive"} => opened
             /\ \A d \in Chain : d.of # "resolve" => opened
             /\ answer # Unanswered => opened
             /\ run = "thrown" => ~opened

\* The difference is the one of the answer that was accepted.
Computed == _delta_sec = IF answer = Unanswered THEN 0
                         ELSE DeltaSec(Transmitted(answer[1]), answer[2])

IInv == OneOperation /\ OpenSince /\ Computed
-----------------------------------------------------------------------------
(* Arithmetic *)

Positive == Nat \ {0}

\* Multiples of w that are less than w apart are the same.
LEMMA SmallMultiple ==
  ASSUME NEW w \in Positive, NEW k \in Int, w * k < w, w * k > -w
  PROVE  k = 0
<1>1. ASSUME k >= 1 PROVE FALSE
  <2>1. w * k = w + w * (k - 1) /\ w * (k - 1) >= 0
    BY <1>1 DEF Positive
  <2> QED BY <2>1 DEF Positive
<1>2. ASSUME k <= -1 PROVE FALSE
  <2>1. w * k = -w - w * (-k - 1) /\ w * (-k - 1) >= 0
    BY <1>2 DEF Positive
  <2> QED BY <2>1 DEF Positive
<1> QED BY <1>1, <1>2

\* A remainder and its quotient.
LEMMA Division ==
  ASSUME NEW a \in Int, NEW w \in Positive
  PROVE  /\ a % w \in 0 .. w - 1 /\ a \div w \in Int
         /\ a = w * (a \div w) + (a % w)
BY DEF Positive

\* What is 0 .. w-1 away from a multiple of w is its remainder.
LEMMA RemainderOf ==
  ASSUME NEW w \in Positive, NEW r \in 0 .. w - 1, NEW k \in Int
  PROVE  (r + w * k) % w = r
<1> DEFINE a == r + w * k
<1>1. a \in Int
  BY DEF Positive
<1> HIDE DEF a
<1>2. a % w \in 0 .. w - 1 /\ a \div w \in Int /\ a = w * (a \div w) + (a % w)
  BY <1>1, Division
<1>3. w * (a \div w - k) = w * (a \div w) - w * k
  BY <1>2 DEF Positive
<1>4. w * (a \div w - k) = r - (a % w)
  BY <1>2, <1>3 DEF a, Positive
<1>5. w * (a \div w - k) = 0
  <2> DEFINE z == a \div w - k
  <2>1. z \in Int /\ w * z < w /\ w * z > -w
    BY <1>2, <1>4 DEF Positive
  <2> HIDE DEF z
  <2>2. z = 0
    BY <2>1, SmallMultiple
  <2>3. w * z = 0
    BY <2>2 DEF Positive
  <2> QED BY <2>3 DEF z
<1> QED BY <1>2, <1>4, <1>5 DEF a, Positive

\* The seconds since 1900 wrap, and wrap back.
LEMMA TransmittedComesBack ==
  ASSUME NEW s \in Nat, 2 * s < DWORD
  PROVE  NtpTime(Transmitted(s)) = s /\ Long(s) = s
<1> DEFINE D == NTP_TIMESTAMP_DELTA
           q == (s + D) \div DWORD
<1>1. DWORD \in Positive /\ D \in Nat /\ s \in 0 .. DWORD - 1
  BY NTPAssumption DEF Positive
<1>2. q \in Int /\ s + D = DWORD * q + ((s + D) % DWORD)
  BY <1>1, Division
<1>3. DWORD * (-q) = -(DWORD * q)
  BY <1>1, <1>2 DEF Positive
<1>4. ((s + D) % DWORD) - D = s + DWORD * (-q)
  BY <1>1, <1>2, <1>3, Division DEF Positive
<1>5. (s + DWORD * (-q)) % DWORD = s
  BY <1>1, <1>2, RemainderOf
<1>6. NtpTime(Transmitted(s)) = s
  BY <1>4, <1>5 DEF NtpTime, Transmitted
<1>7. s % DWORD = s
  <2>1. (s + DWORD * 0) % DWORD = s
    BY <1>1, RemainderOf
  <2>2. s + DWORD * 0 = s
    BY <1>1 DEF Positive
  <2> QED BY <2>1, <2>2
<1> QED BY <1>6, <1>7 DEF Long

\* Division towards zero, as C++ does it.
LEMMA Truncation ==
  ASSUME NEW a \in Int, NEW b \in Positive
  PROVE  /\ Quotient(a, b) \in Int /\ Remainder(a, b) \in Int
         /\ a = b * Quotient(a, b) + Remainder(a, b)
         /\ a >= 0 => Remainder(a, b) \in 0 .. b - 1
         /\ a < 0 => Remainder(a, b) \in -b + 1 .. 0
<1>1. CASE a >= 0
  BY <1>1, Division DEF Quotient, Remainder, Positive
<1>2. CASE a < 0
  <2>1. -a \in Int /\ (-a) \div b \in Int /\ -a = b * ((-a) \div b) + ((-a) % b)
        /\ (-a) % b \in 0 .. b - 1
    BY Division
  <2>2. b * (-((-a) \div b)) = -(b * ((-a) \div b))
    BY <2>1 DEF Positive
  <2> QED BY <1>2, <2>1, <2>2 DEF Quotient, Remainder, Positive
<1> QED BY <1>1, <1>2

\* The rounding of get_ntp_time_delta.
LEMMA Rounding ==
  ASSUME NEW ms \in Int, NEW n \in Int,
         n = Quotient(ms, SEC) + (IF 2 * Remainder(ms, SEC) >= SEC THEN 1 ELSE 0)
  PROVE  /\ ms >= 0 => 2 * (n * SEC - ms) \in -SEC + 1 .. SEC
         /\ ms < 0 => n * SEC - ms \in 0 .. SEC - 1
<1> DEFINE q == Quotient(ms, SEC)
           r == Remainder(ms, SEC)
<1>1. SEC \in Positive
  BY NTPAssumption DEF Positive
<1>2. q \in Int /\ r \in Int /\ ms = SEC * q + r
      /\ (ms >= 0 => r \in 0 .. SEC - 1) /\ (ms < 0 => r \in -SEC + 1 .. 0)
  BY <1>1, Truncation
<1>3. n = q + (IF 2 * r >= SEC THEN 1 ELSE 0)
  OBVIOUS
<1> HIDE DEF q, r
<1>4. n * SEC = SEC * q + (IF 2 * r >= SEC THEN SEC ELSE 0)
  <2>1. (q + 1) * SEC = SEC * q + SEC /\ q * SEC = SEC * q
    BY <1>1, <1>2 DEF Positive
  <2>2. CASE 2 * r >= SEC
    BY <1>1, <1>2, <1>3, <2>1, <2>2 DEF Positive
  <2>3. CASE ~(2 * r >= SEC)
    BY <1>1, <1>2, <1>3, <2>1, <2>3 DEF Positive
  <2> QED BY <2>2, <2>3
<1> QED BY <1>1, <1>2, <1>4 DEF Positive

LEMMA DeltaIsInteger ==
  ASSUME NEW transmitted \in Int, NEW received \in Int
  PROVE  DeltaSec(transmitted, received) \in Int
<1>1. {DWORD, SEC, MSEC} \subseteq Positive /\ {EPOCH, NTP_TIMESTAMP_DELTA} \subseteq Nat
  BY NTPAssumption DEF Positive
<1>2. NtpTime(transmitted) \in Int
  BY <1>1 DEF NtpTime, Positive
<1>3. Long(NtpTime(transmitted)) \in Int
  BY <1>1, <1>2 DEF Long, Positive
<1>4. unixtime_to_filetime(NtpTime(transmitted)) \in Int
  BY <1>1, <1>3 DEF unixtime_to_filetime, Positive
<1>5. Quotient(received - unixtime_to_filetime(NtpTime(transmitted)), MSEC) \in Int
  BY <1>1, <1>4, Truncation
<1> QED BY <1>1, <1>5, Truncation DEF DeltaSec
-----------------------------------------------------------------------------
LEMMA InitEstablishesIInv == Init => IInv
<1> SUFFICES ASSUME Init PROVE IInv
  OBVIOUS
<1>1. TypeOK
  <2>1. ready \subseteq Handlers
    BY DEF Init
  <2>2. _delta_sec \in Int
    BY DEF Init
  <2>3. answer \in {Unanswered} \cup (ServerTimes \X LocalTimes)
    BY DEF Init
  <2>4. op \in Steps \cup {"none"}
    BY DEF Init, Steps
  <2> QED BY <2>1, <2>2, <2>3, <2>4 DEF Init, TypeOK
<1>2. Chain = {}
  BY DEF Init, Chain
<1>3. OpenSince /\ Computed
  BY <1>2 DEF Init, OpenSince, Computed
<1> QED BY <1>1, <1>2, <1>3 DEF IInv, OneOperation

\* Every handler takes itself out and leaves at most one of the chain behind.
LEMMA StepKeepsIInv == IInv /\ [Next]_vars => IInv'
<1> SUFFICES ASSUME IInv, [Next]_vars PROVE IInv'
  OBVIOUS
<1> USE DEF IInv, OneOperation, TypeOK, Chain, OpenSince, Computed, Steps, Handlers, Due
<1>1. CASE Completes
  <2>1. PICK r \in Outcome(op) : ready' = ready \cup {Due(op, r)}
    BY <1>1 DEF Completes
  <2>2. op \in Steps /\ Chain = {} /\ Chain' = {Due(op, r)} /\ r \in {"ok", "short", "error"}
    BY <1>1, <2>1 DEF Completes, Outcome
  <2> QED BY <1>1, <2>1, <2>2 DEF Completes
<1>2. CASE Expires
  <2>1. Chain' = Chain
    BY <1>2 DEF Expires
  <2> QED BY <1>2, <2>1 DEF Expires
<1>3. ASSUME NEW h \in Steps, Fails(h) PROVE IInv'
  <2>1. Chain' \subseteq Chain
    BY <1>3 DEF Fails, Others
  <2> QED BY <1>3, <2>1 DEF Fails, Others, Called
<1>4. ASSUME NEW h \in {"resolve", "connect", "send"}, NEW following \in Steps,
             Starts(h, following), opened' = TRUE
      PROVE  IInv'
  <2>1. Due(h, "ok") \in Chain /\ Chain' = {}
    BY <1>4 DEF Starts, Called, Others
  <2> QED BY <1>4, <2>1 DEF Starts, Called, Others
<1>5. CASE on_resolve
  BY <1>3, <1>4, <1>5 DEF on_resolve
<1>6. CASE on_connect
  <2>1. Starts("connect", "send") => opened
    BY DEF Starts, Called
  <2> QED BY <1>3, <1>4, <1>6, <2>1 DEF on_connect
<1>7. CASE on_send
  <2>1. Starts("send", "receive") => opened
    BY DEF Starts, Called
  <2> QED BY <1>3, <1>4, <1>7, <2>1 DEF on_send
<1>8. CASE Received
  <2>1. Due("receive", "ok") \in Chain /\ op = "none" /\ opened
    BY <1>8 DEF Received, Called
  <2>2. Chain' = {} /\ ready' \subseteq Handlers /\ timer' \in {"armed", "expired", "cancelled"}
    BY <1>8, <2>1 DEF Received, Others
  <2>3. PICK s \in ServerTimes, l \in LocalTimes :
          answer' = <<s, l>> /\ _delta_sec' = DeltaSec(Transmitted(s), l)
    BY <1>8 DEF Received
  <2>4. _delta_sec' \in Int
    <3>1. s \in Int /\ l \in Int /\ Transmitted(s) \in Int
      BY NTPAssumption DEF Transmitted
    <3> QED BY <2>3, <3>1, DeltaIsInteger
  <2>5. answer' # Unanswered /\ answer' \in ServerTimes \X LocalTimes
        /\ answer'[1] = s /\ answer'[2] = l
    BY <2>3 DEF Unanswered
  <2> QED BY <1>8, <2>1, <2>2, <2>3, <2>4, <2>5 DEF Received, Called
<1>9. CASE CancelSocket
  <2>1. CASE op = "none"
    <3>1. Chain' = Chain
      BY <1>9, <2>1 DEF CancelSocket, Others, Aborted
    <3> QED BY <1>9, <2>1, <3>1 DEF CancelSocket, Others, Aborted, Called
  <2>2. CASE op # "none"
    <3>1. Chain = {} /\ Chain' = {Due(op, "error")}
      BY <1>9, <2>2 DEF CancelSocket, Others, Aborted
    <3> QED BY <1>9, <2>2, <3>1 DEF CancelSocket, Others, Aborted, Called
  <2> QED BY <2>1, <2>2
<1>10. CASE CancelThrows
  <2>1. Chain' = Chain
    BY <1>10 DEF CancelThrows, Others
  <2> QED BY <1>10, <2>1 DEF CancelThrows, Others
<1>11. CASE Fails("timeout")
  <2>1. Chain' = Chain
    BY <1>11 DEF Fails, Others
  <2> QED BY <1>11, <2>1 DEF Fails, Others
<1>12. CASE RunReturns
  BY <1>12 DEF RunReturns
<1>13. CASE UNCHANGED vars
  BY <1>13 DEF vars
<1> QED BY <1>1, <1>2, <1>3, <1>5, <1>6, <1>7, <1>8, <1>9, <1>10, <1>11, <1>12, <1>13
        DEF Next, on_receive, on_timeout

LEMMA IInvAlways == Spec => []IInv
BY InitEstablishesIInv, StepKeepsIInv, PTL DEF Spec
-----------------------------------------------------------------------------
\* Every variable has its type: asio holds one operation, one deadline, and the
\* handlers of these.
THEOREM ClientTypeCorrect == Spec => []TypeOK
<1>1. IInv => TypeOK
  BY DEF IInv, OneOperation
<1> QED BY <1>1, IInvAlways, PTL

\* _recv_buf and the socket belong to one operation at a time, whatever the
\* deadline cancels and in which order handlers that are due are called.
THEOREM RequestIsOneChain == Spec => []OneOperation
<1>1. IInv => OneOperation
  BY DEF IInv
<1> QED BY <1>1, IInvAlways, PTL

\* What get_ntp_time_delta returns is the rounded difference of the two clocks, or
\* 0 without an answer: for every server time of 31 bits, although the seconds
\* since 1900 it is sent as wrap, and for every local time.
THEOREM DifferenceIsComputed == Spec => []DifferenceIsTrue
<1>1. ASSUME IInv PROVE DifferenceIsTrue
  <2> SUFFICES ASSUME run # "running", answer # Unanswered, 2 * answer[1] < DWORD
               PROVE  LET ms == Quotient(answer[2] - (answer[1] * SEC * MSEC + EPOCH), MSEC)
                          off == get_ntp_time_delta * SEC - ms
                      IN  /\ ms >= 0 => 2 * off \in -SEC + 1 .. SEC
                          /\ ms < 0 => off \in 0 .. SEC - 1
    BY <1>1 DEF DifferenceIsTrue, IInv, Computed, get_ntp_time_delta
  <2> DEFINE s == answer[1]
             l == answer[2]
             ms == Quotient(l - (s * SEC * MSEC + EPOCH), MSEC)
  <2>1. s \in Nat /\ l \in Nat
    BY <1>1, NTPAssumption DEF IInv, OneOperation, TypeOK
  <2>2. run = "returned" /\ get_ntp_time_delta = DeltaSec(Transmitted(s), l)
    BY <1>1 DEF IInv, OneOperation, TypeOK, OpenSince, Computed, get_ntp_time_delta
  <2>3. unixtime_to_filetime(NtpTime(Transmitted(s))) = s * SEC * MSEC + EPOCH
    BY <2>1, TransmittedComesBack DEF unixtime_to_filetime
  <2>4. DeltaSec(Transmitted(s), l)
          = Quotient(ms, SEC) + (IF 2 * Remainder(ms, SEC) >= SEC THEN 1 ELSE 0)
    BY <2>3 DEF DeltaSec
  <2>5. {SEC, MSEC} \subseteq Positive /\ EPOCH \in Nat
    BY NTPAssumption DEF Positive
  <2>6. ms \in Int
    <3>1. l - (s * SEC * MSEC + EPOCH) \in Int
      BY <2>1, <2>5 DEF Positive
    <3> QED BY <2>5, <3>1, Truncation
  <2>7. get_ntp_time_delta \in Int
    BY <1>1, <2>2 DEF IInv, OneOperation, TypeOK, get_ntp_time_delta
  <2> HIDE DEF s, l, ms
  <2>8. /\ ms >= 0 => 2 * (get_ntp_time_delta * SEC - ms) \in -SEC + 1 .. SEC
        /\ ms < 0 => get_ntp_time_delta * SEC - ms \in 0 .. SEC - 1
    BY <2>2, <2>4, <2>6, <2>7, Rounding
  <2> QED BY <2>8 DEF s, l, ms
<1> QED BY <1>1, IInvAlways, PTL
-----------------------------------------------------------------------------
(* Times *)

\* What is a multiple of w apart has the same remainder.
LEMMA SameRemainder ==
  ASSUME NEW w \in Positive, NEW a \in Int, NEW b \in Int, NEW k \in Int, a = b + w * k
  PROVE  a % w = b % w
<1>1. PICK q, r : q = b \div w /\ r = b % w
  OBVIOUS
<1>2. q \in Int /\ r \in 0 .. w - 1 /\ b = w * q + r
  BY <1>1, Division
<1>3. w * (q + k) = w * q + w * k /\ q + k \in Int
  BY <1>2 DEF Positive
<1>4. a = r + w * (q + k)
  BY <1>2, <1>3 DEF Positive
<1>5. (r + w * (q + k)) % w = r
  BY <1>2, <1>3, RemainderOf
<1> QED
  BY <1>1, <1>4, <1>5

\* A number below w is its own remainder.
LEMMA OwnRemainder ==
  ASSUME NEW w \in Positive, NEW a \in 0 .. w - 1
  PROVE  a % w = a
<1>1. a + w * 0 = a
  BY DEF Positive
<1>2. (a + w * 0) % w = a
  BY RemainderOf
<1> QED
  BY <1>1, <1>2

\* What was cut off before adding or subtracting does not matter afterwards.
LEMMA RemainderAdds ==
  ASSUME NEW w \in Positive, NEW a \in Int, NEW b \in Int
  PROVE  ((a % w) + b) % w = (a + b) % w /\ ((a % w) - (b % w)) % w = (a - b) % w
<1>1. PICK q, r : q = a \div w /\ r = a % w
  OBVIOUS
<1>2. q \in Int /\ r \in 0 .. w - 1 /\ a = w * q + r /\ r \in Int
  BY <1>1, Division DEF Positive
<1>3. PICK p, t : p = b \div w /\ t = b % w
  OBVIOUS
<1>4. p \in Int /\ t \in 0 .. w - 1 /\ b = w * p + t /\ t \in Int
  BY <1>3, Division DEF Positive
<1>5. w * (-q) = -(w * q) /\ -q \in Int /\ w * q \in Int /\ w * p \in Int
  BY <1>2, <1>4 DEF Positive
<1>6. r + b = (a + b) + w * (-q) /\ r + b \in Int /\ a + b \in Int
  BY <1>2, <1>5
<1>7. (r + b) % w = (a + b) % w
  BY <1>5, <1>6, SameRemainder
<1>8. w * (p - q) = w * p - w * q /\ p - q \in Int
  BY <1>2, <1>4 DEF Positive
<1>9. r - t = (a - b) + w * (p - q) /\ r - t \in Int /\ a - b \in Int
  BY <1>2, <1>4, <1>5, <1>8
<1>10. (r - t) % w = (a - b) % w
  BY <1>8, <1>9, SameRemainder
<1> QED
  BY <1>1, <1>3, <1>7, <1>10

LEMMA LeastOfTwo ==
  ASSUME NEW a \in Int, NEW b \in Int
  PROVE  Min({a, b}) = IF a <= b THEN a ELSE b
<1>1. CASE a <= b
  BY <1>1 DEF Min
<1>2. CASE b < a
  BY <1>2 DEF Min
<1> QED
  BY <1>1, <1>2

\* Of a number and what it lacks to w the smaller one is its size, from either side.
LEMMA SizeOfRemainder ==
  ASSUME NEW w \in Positive, NEW e \in Int, NEW size \in Nat,
         size = (IF e < 0 THEN -e ELSE e), 2 * size < w
  PROVE  Min({e % w, w - (e % w)}) = size
<1>1. CASE e >= 0
  <2>1. e \in 0 .. w - 1 /\ e = size
    BY <1>1 DEF Positive
  <2>2. e % w = size
    BY <2>1, OwnRemainder
  <2>3. w - size \in Int /\ size <= w - size
    BY DEF Positive
  <2> QED
    BY <2>2, <2>3, LeastOfTwo
<1>2. CASE e < 0
  <2>1. w - size \in 0 .. w - 1 /\ w - size \in Int /\ e = -size
    BY <1>2 DEF Positive
  <2>2. w * (-1) = -w /\ e = (w - size) + w * (-1)
    BY <2>1 DEF Positive
  <2>3. e % w = (w - size) % w
    BY <2>1, <2>2, SameRemainder
  <2>4. e % w = w - size
    BY <2>1, <2>3, OwnRemainder
  <2>5. w - (w - size) = size /\ size <= w - size /\ ~(w - size <= size)
    BY DEF Positive
  <2> QED
    BY <2>1, <2>4, <2>5, LeastOfTwo
<1> QED
  BY <1>1, <1>2

\* Two words hold a number up to a multiple of all they can hold.
LEMMA IntAndBack ==
  ASSUME NEW i \in Int
  PROVE  /\ WORD \in Positive /\ WORD * WORD \in Positive
         /\ int_to_file_time(i) \in [low : 0 .. WORD - 1, high : 0 .. WORD - 1]
         /\ file_time_to_int(int_to_file_time(i)) = i % (WORD * WORD)
<1>1. PICK w : w = WORD
  OBVIOUS
<1>2. w \in Positive /\ w * w \in Positive
  <2>1. w \in Positive
    BY <1>1, WordAssumption DEF WORD, Positive
  <2> QED
    BY <2>1 DEF Positive
<1>3. PICK q, r : q = i \div w /\ r = i % w
  OBVIOUS
<1>4. q \in Int /\ r \in 0 .. w - 1 /\ i = w * q + r
  BY <1>2, <1>3, Division
<1>5. PICK p, t : p = q \div w /\ t = q % w
  OBVIOUS
<1>6. p \in Int /\ t \in 0 .. w - 1 /\ q = w * p + t
  BY <1>2, <1>4, <1>5, Division
<1>7. PICK ft : ft = int_to_file_time(i)
  OBVIOUS
<1>8. ft = [low |-> r, high |-> t]
  BY <1>1, <1>3, <1>5, <1>7 DEF int_to_file_time, large_int_to_file_time
<1>9. file_time_to_int(ft) = t * w + r
  BY <1>1, <1>8 DEF file_time_to_int
<1>10. t * w + r \in 0 .. w * w - 1
  <2>1. t * w <= (w - 1) * w /\ t * w >= 0 /\ (w - 1) * w = w * w - w
    BY <1>2, <1>6 DEF Positive
  <2> QED
    BY <1>2, <1>4, <1>6, <2>1 DEF Positive
<1>11. i = (t * w + r) + (w * w) * p
  <2>1. w * q = w * (w * p) + w * t
    BY <1>2, <1>6 DEF Positive
  <2>2. w * (w * p) = (w * w) * p /\ w * t = t * w
    BY <1>2, <1>6 DEF Positive
  <2> QED
    BY <1>2, <1>4, <1>6, <2>1, <2>2 DEF Positive
<1>12. i % (w * w) = t * w + r
  BY <1>2, <1>6, <1>10, <1>11, RemainderOf
<1> QED
  BY <1>1, <1>2, <1>4, <1>6, <1>7, <1>8, <1>9, <1>12

TimeInv == job = "time" => /\ number \in Nat /\ elapsed \in Int
                           /\ file_time_to_int(time) = (number + elapsed) % (WORD * WORD)

LEMMA TimeStarts == TextInit => TimeInv
<1> SUFFICES ASSUME TextInit, job = "time" PROVE TimeInv
  BY DEF TimeInv
<1>1. number \in Nat /\ elapsed = 0 /\ time = int_to_file_time(number)
  <2>1. number \in StartTimes /\ elapsed = 0 /\ time = int_to_file_time(number)
    BY DEF TextInit
  <2> QED
    BY <2>1, TextAssumption
<1>2. number + elapsed = number
  BY <1>1
<1> QED
  BY <1>1, <1>2, IntAndBack DEF TimeInv

\* Adding to two words is adding to the number they hold.
LEMMA AddedIsSum ==
  ASSUME NEW ft, NEW s \in Int, NEW n \in Int, NEW unit \in Int,
         file_time_to_int(ft) = s % (WORD * WORD)
  PROVE  file_time_to_int(Added(ft, n, unit)) = (s + n * unit) % (WORD * WORD)
<1>1. CASE n = 0
  <2>1. s + n * unit = s
    BY <1>1
  <2> QED
    BY <1>1, <2>1 DEF Added
<1>2. CASE n # 0
  <2>1. PICK w : w = WORD * WORD
    OBVIOUS
  <2>2. w \in Positive /\ s % w \in 0 .. w - 1
    BY <2>1, IntAndBack, Division
  <2>3. PICK b \in Int : b = n * unit
    OBVIOUS
  <2>4. (s % w) + b \in Int
    BY <2>2 DEF Positive
  <2>5. file_time_to_int(Added(ft, n, unit)) = ((s % w) + b) % w
    BY <1>2, <2>1, <2>3, <2>4, IntAndBack DEF Added
  <2> QED
    BY <2>1, <2>2, <2>3, <2>5, RemainderAdds
<1> QED
  BY <1>1, <1>2

LEMMA TimeStepInv == TimeInv /\ [TextNext]_textVars => TimeInv'
<1> SUFFICES ASSUME TimeInv, [TextNext]_textVars PROVE TimeInv'
  OBVIOUS
<1>1. CASE UNCHANGED textVars
  BY <1>1 DEF TimeInv, textVars, inputs
<1>2. CASE AddTime
  <2>1. /\ number \in Nat /\ elapsed \in Int /\ number' = number
        /\ file_time_to_int(time) = (number + elapsed) % (WORD * WORD)
    BY <1>2 DEF AddTime, TimeInv, inputs
  <2>2. PICK n \in {-1, 0, 1, 3} :
          \/ time' = add_sec_to_file_time(time, n) /\ elapsed' = elapsed + n * SECOND
          \/ time' = add_day_to_file_time(time, n) /\ elapsed' = elapsed + n * SECOND * DAY
    BY <1>2 DEF AddTime
  <2>3. n \in Int /\ SECOND \in Nat /\ DAY \in Nat /\ SECOND * DAY \in Nat
    BY TextAssumption
  <2>4. PICK unit \in Int : time' = Added(time, n, unit) /\ elapsed' = elapsed + n * unit
    <3>1. CASE time' = add_sec_to_file_time(time, n) /\ elapsed' = elapsed + n * SECOND
      BY <2>3, <3>1 DEF add_sec_to_file_time
    <3>2. CASE time' = add_day_to_file_time(time, n) /\ elapsed' = elapsed + n * SECOND * DAY
      <4>1. n * SECOND * DAY = n * (SECOND * DAY)
        BY <2>3
      <4> QED
        BY <2>3, <3>2, <4>1 DEF add_day_to_file_time
    <3> QED
      BY <2>2, <3>1, <3>2
  <2>5. /\ n * unit \in Int /\ elapsed' \in Int
        /\ (number + elapsed) + n * unit = number + elapsed' /\ number + elapsed \in Int
    BY <2>1, <2>3, <2>4
  <2>6. file_time_to_int(Added(time, n, unit)) = ((number + elapsed) + n * unit) % (WORD * WORD)
    BY <2>1, <2>3, <2>5, AddedIsSum
  <2>7. file_time_to_int(time') = (number' + elapsed') % (WORD * WORD)
    BY <2>1, <2>4, <2>5, <2>6
  <2> QED
    BY <2>1, <2>5, <2>7 DEF TimeInv, file_time_to_int
<1>3. CASE TextNext /\ ~AddTime
  <2>1. job' # "time"
    BY <1>3 DEF TextNext, CutFirst, CutLast, Split, Cut, Replace, DumpLine
  <2> QED
    BY <2>1 DEF TimeInv
<1> QED
  BY <1>1, <1>2, <1>3

\* The difference of two times that are e apart.
LEMMA DeltaIsSize ==
  ASSUME NEW l, NEW r, NEW unit, NEW n \in Int, NEW k \in Int, NEW size \in Nat,
         file_time_to_int(l) = n % (WORD * WORD), file_time_to_int(r) = k % (WORD * WORD),
         size = (IF n - k < 0 THEN -(n - k) ELSE n - k), 2 * size < WORD * WORD
  PROVE  Delta(l, r, unit) = size \div unit
<1>1. PICK w : w = WORD * WORD
  OBVIOUS
<1>2. w \in Positive /\ n - k \in Int
  BY <1>1, IntAndBack
<1>3. ((n % w) - (k % w)) % w = (n - k) % w
  BY <1>2, RemainderAdds
<1>4. Min({(n - k) % w, w - ((n - k) % w)}) = size
  BY <1>1, <1>2, SizeOfRemainder
<1> QED
  BY <1>1, <1>3, <1>4 DEF Delta

\* After any seconds and days, a FILETIME is the sum modulo the numbers it can hold, and
\* the difference to the start is what was added: for words of any width.
THEOREM TimeAddsUp == TextSpec => []TimeIsSum
<1>1. TimeInv => TimeIsSum
  <2> SUFFICES ASSUME TimeInv, job = "time" PROVE TimeIsSum
    BY DEF TimeIsSum
  <2>1. /\ number \in Nat /\ elapsed \in Int /\ number \in Int
        /\ file_time_to_int(time) = (number + elapsed) % (WORD * WORD)
    BY DEF TimeInv
  <2>2. PICK start : start = int_to_file_time(number)
    OBVIOUS
  <2>3. file_time_to_int(start) = number % (WORD * WORD)
    BY <2>1, <2>2, IntAndBack
  <2>4. PICK size : size = IF elapsed < 0 THEN -elapsed ELSE elapsed
    OBVIOUS
  <2>5. /\ size \in Nat /\ number + elapsed \in Int
        /\ size = (IF (number + elapsed) - number < 0 THEN -((number + elapsed) - number)
                                                      ELSE (number + elapsed) - number)
        /\ size = (IF number - (number + elapsed) < 0 THEN -(number - (number + elapsed))
                                                      ELSE number - (number + elapsed))
    BY <2>1, <2>4
  <2>6. ASSUME 2 * size < WORD * WORD
        PROVE  /\ file_time_delta_sec(time, start) = size \div SECOND
               /\ file_time_delta_day(start, time) = size \div (SECOND * DAY)
    <3>1. Delta(time, start, SECOND) = size \div SECOND
      BY <2>1, <2>3, <2>5, <2>6, DeltaIsSize
    <3>2. Delta(start, time, SECOND * DAY) = size \div (SECOND * DAY)
      BY <2>1, <2>3, <2>5, <2>6, DeltaIsSize
    <3> QED
      BY <3>1, <3>2 DEF file_time_delta_sec, file_time_delta_day
  <2> QED
    BY <2>1, <2>2, <2>4, <2>6 DEF TimeIsSum
<1> QED
  BY <1>1, TimeStarts, TimeStepInv, PTL DEF TextSpec
-----------------------------------------------------------------------------
(* Induction *)

\* A set of natural numbers has a least member: of the intervals below its
\* members one has no other inside it.
LEMMA Least ==
  ASSUME NEW S, S \subseteq Nat, S # {}
  PROVE  \E n \in S : \A m \in S : n <= m
<1> DEFINE T == {0..n - 1 : n \in S}
<1>1. T \subseteq FiniteSubsetsOf(Nat)
  <2> SUFFICES ASSUME NEW n \in S PROVE 0..n - 1 \in FiniteSubsetsOf(Nat)
    OBVIOUS
  <2>1. IsFiniteSet(0..n - 1) /\ 0..n - 1 \subseteq Nat
    BY FS_Interval
  <2> QED
    BY <2>1 DEF FiniteSubsetsOf
<1>2. \E x \in T : \A y \in T : ~(<<y, x>> \in StrictSubsetOrdering(Nat))
  <2>1. T # {}
    OBVIOUS
  <2> HIDE DEF T
  <2> QED
    BY <1>1, <2>1, FS_StrictSubsetOrderingWellFounded, WFMin
<1>3. PICK n \in S : \A y \in T : ~(<<y, 0..n - 1>> \in StrictSubsetOrdering(Nat))
  BY <1>2
<1>4. ASSUME NEW m \in S, m < n PROVE FALSE
  <2>1. 0..m - 1 \in T /\ n \in Nat /\ m \in Nat
    OBVIOUS
  <2>2. 0..m - 1 \subseteq 0..n - 1 /\ m \in 0..n - 1 /\ m \notin 0..m - 1
    BY <1>4, <2>1
  <2>3. <<0..m - 1, 0..n - 1>> \in StrictSubsetOrdering(Nat)
    BY <2>1, <2>2 DEF StrictSubsetOrdering
  <2> QED
    BY <1>3, <2>1, <2>3
<1> QED
  BY <1>4

\* Induction over the natural numbers, for a set instead of a predicate.
LEMMA Induction ==
  ASSUME NEW S, 0 \in S, \A n \in Nat : n \in S => n + 1 \in S
  PROVE  Nat \subseteq S
<1> SUFFICES ASSUME Nat \ S # {} PROVE FALSE
  OBVIOUS
<1>1. PICK n \in Nat \ S : \A m \in Nat \ S : n <= m
  BY Least
<1>2. n - 1 \in Nat
  BY <1>1
<1>3. n - 1 \in S
  BY <1>1, <1>2
<1> QED
  BY <1>1, <1>2, <1>3

\* A function is defined by its first value and a step from each value to the next.
Follows(f, a, step, k) == f[0] = a /\ \A n \in 1..k : f[n] = step[n][f[n - 1]]

LEMMA Recursion ==
  ASSUME NEW X, NEW a \in X, NEW step \in [Nat -> [X -> X]], NEW k \in Nat
  PROVE  \E f \in [0..k -> X] : Follows(f, a, step, k)
<1> DEFINE Fits(f, m) == Follows(f, a, step, m)
<1> DEFINE S == {m \in Nat : \E f \in [0..m -> X] : Fits(f, m)}
<1>1. 0 \in S
  <2> DEFINE f == [n \in 0..0 |-> a]
  <2>1. f \in [0..0 -> X] /\ f[0] = a /\ 1..0 = {}
    OBVIOUS
  <2> QED
    BY <2>1 DEF Follows
<1>2. ASSUME NEW m \in Nat, m \in S PROVE m + 1 \in S
  <2>1. PICK f \in [0..m -> X] : Fits(f, m)
    BY <1>2
  <2> DEFINE g == [n \in 0..m + 1 |-> IF n = m + 1 THEN step[m + 1][f[m]] ELSE f[n]]
  <2>2. f[m] \in X /\ step[m + 1][f[m]] \in X
    OBVIOUS
  <2>3. g \in [0..m + 1 -> X]
    BY <2>2
  <2>4. g[0] = a
    BY <2>1 DEF Follows
  <2>5. ASSUME NEW n \in 1..m + 1 PROVE g[n] = step[n][g[n - 1]]
    <3>1. CASE n = m + 1
      <4>1. n - 1 = m /\ g[m] = f[m]
        BY <3>1
      <4> QED
        BY <3>1, <4>1
    <3>2. CASE n \in 1..m
      <4>1. n - 1 \in 0..m /\ n # m + 1 /\ n - 1 # m + 1
        BY <3>2
      <4>2. g[n] = f[n] /\ g[n - 1] = f[n - 1]
        BY <4>1
      <4> QED
        BY <2>1, <3>2, <4>2 DEF Follows
    <3> QED
      BY <3>1, <3>2
  <2>6. Fits(g, m + 1)
    BY <2>4, <2>5 DEF Follows
  <2> HIDE DEF Fits, g
  <2> QED
    BY <2>3, <2>6
<1>3. k \in S
  <2> HIDE DEF S
  <2> QED
    BY <1>1, <1>2, Induction
<1> QED
  BY <1>3
-----------------------------------------------------------------------------
(* Texts *)

LEMMA Cutting ==
  ASSUME NEW X, NEW s \in Seq(X), NEW p \in 0 .. Len(s)
  PROVE  /\ Before(s, p) \in Seq(X) /\ Len(Before(s, p)) = p
         /\ Since(s, p) \in Seq(X) /\ Len(Since(s, p)) = Len(s) - p
         /\ \A i \in 1 .. p : Before(s, p)[i] = s[i]
         /\ \A i \in 1 .. Len(s) - p : Since(s, p)[i] = s[p + i]
         /\ Before(s, p) \o Since(s, p) = s
<1>1. Len(s) \in Nat /\ \A i \in 1 .. Len(s) : s[i] \in X
  OBVIOUS
<1>2. /\ SubSeq(s, 1, p) \in Seq(X) /\ Len(SubSeq(s, 1, p)) = p
      /\ \A i \in 1 .. p : SubSeq(s, 1, p)[i] = s[i]
  BY <1>1
<1>3. /\ SubSeq(s, p + 1, Len(s)) \in Seq(X) /\ Len(SubSeq(s, p + 1, Len(s))) = Len(s) - p
      /\ \A i \in 1 .. Len(s) - p : SubSeq(s, p + 1, Len(s))[i] = s[p + i]
  BY <1>1
<1>4. SubSeq(s, 1, p) \o SubSeq(s, p + 1, Len(s)) = SubSeq(s, 1, Len(s))
  <2>1. 1 \in 1 .. Len(s) + 1 /\ p \in 1 - 1 .. Len(s) /\ Len(s) \in p .. Len(s)
    BY <1>1
  <2> QED
    BY <2>1, ConcatAdjacentSubSeq
<1>5. SubSeq(s, 1, Len(s)) = s
  BY SubSeqFull
<1> QED
  BY <1>2, <1>3, <1>4, <1>5 DEF Before, Since

LEMMA Occurring ==
  ASSUME NEW X, NEW s \in Seq(X), NEW t \in Seq(X), NEW p \in Occurrences(s, t)
  PROVE  /\ p \in Nat /\ p \in 0 .. Len(s) /\ p + Len(t) \in 0 .. Len(s)
         /\ \A i \in 1 .. Len(t) : s[p + i] = t[i]
<1>1. Len(s) \in Nat /\ Len(t) \in Nat
  OBVIOUS
<1>2. p \in 0 .. Len(s) - Len(t) /\ SubSeq(s, p + 1, p + Len(t)) = t
  BY DEF Occurrences
<1>3. p \in Nat /\ p \in 0 .. Len(s) /\ p + Len(t) \in 0 .. Len(s)
  BY <1>1, <1>2
<1>4. ASSUME NEW i \in 1 .. Len(t) PROVE s[p + i] = t[i]
  <2>1. \A j \in p + 1 .. p + Len(t) : s[j] \in X
    BY <1>1, <1>3
  <2>2. SubSeq(s, p + 1, p + Len(t))[i] = s[p + 1 + i - 1]
    BY <1>1, <1>3, <2>1, SubSeqProperties
  <2> QED
    BY <1>1, <1>2, <1>3, <2>2
<1> QED
  BY <1>3, <1>4

\* What a text is made of where t occurs in it.
LEMMA MadeOf ==
  ASSUME NEW X, NEW s \in Seq(X), NEW t \in Seq(X), NEW p \in Occurrences(s, t)
  PROVE  /\ Before(s, p + Len(t)) = Before(s, p) \o t
         /\ s = (Before(s, p) \o t) \o Since(s, p + Len(t))
<1>1. Len(s) \in Nat /\ Len(t) \in Nat
  OBVIOUS
<1>2. SubSeq(s, p + 1, p + Len(t)) = t
  BY DEF Occurrences
<1>3. p \in Nat /\ p \in 0 .. Len(s) /\ p + Len(t) \in 0 .. Len(s)
  BY Occurring
<1>4. SubSeq(s, 1, p) \o SubSeq(s, p + 1, p + Len(t)) = SubSeq(s, 1, p + Len(t))
  <2>1. 1 \in 1 .. Len(s) + 1 /\ p \in 1 - 1 .. Len(s) /\ p + Len(t) \in p .. Len(s)
    BY <1>1, <1>3
  <2> QED
    BY <2>1, ConcatAdjacentSubSeq
<1>5. Before(s, p + Len(t)) \o Since(s, p + Len(t)) = s
  BY <1>3, Cutting
<1> QED
  BY <1>2, <1>4, <1>5 DEF Before

\* t occurs where its characters are.
LEMMA OccursWhere ==
  ASSUME NEW X, NEW s \in Seq(X), NEW t \in Seq(X), NEW p \in 0 .. Len(s) - Len(t),
         \A i \in 1 .. Len(t) : s[p + i] = t[i]
  PROVE  p \in Occurrences(s, t)
<1>1. Len(s) \in Nat /\ Len(t) \in Nat /\ p \in Nat /\ p + Len(t) \in 0 .. Len(s)
  OBVIOUS
<1>2. PICK u : u = SubSeq(s, p + 1, p + Len(t))
  OBVIOUS
<1>3. u \in Seq(X) /\ Len(u) = Len(t) /\ \A i \in 1 .. Len(t) : u[i] = s[p + i]
  <2>1. \A j \in p + 1 .. p + Len(t) : s[j] \in X
    BY <1>1
  <2>2. /\ u \in Seq(X) /\ Len(u) = (IF p + 1 <= p + Len(t) THEN (p + Len(t)) - (p + 1) + 1 ELSE 0)
        /\ \A i \in 1 .. (p + Len(t)) - (p + 1) + 1 : u[i] = s[p + 1 + i - 1]
    BY <1>1, <1>2, <2>1, SubSeqProperties
  <2>3. \A i \in 1 .. Len(t) : p + 1 + i - 1 = p + i
    BY <1>1
  <2> QED
    BY <1>1, <2>2, <2>3
<1>4. u = t
  BY <1>3, SeqEqual
<1> QED
  BY <1>2, <1>4 DEF Occurrences

LEMMA FindIs ==
  ASSUME NEW X, NEW s \in Seq(X), NEW t \in Seq(X), NEW from \in Nat
  PROVE  \/ /\ find(s, t, from) = npos
            /\ \A p \in Occurrences(s, t) : p < from
         \/ /\ find(s, t, from) \in Occurrences(s, t) /\ find(s, t, from) >= from
            /\ find(s, t, from) \in Nat /\ find(s, t, from) # npos
            /\ \A p \in Occurrences(s, t) : p >= from => find(s, t, from) <= p
<1>1. PICK found : found = {p \in Occurrences(s, t) : p >= from}
  OBVIOUS
<1>2. Occurrences(s, t) \subseteq Nat
  BY DEF Occurrences
<1>3. CASE found = {}
  <2>1. find(s, t, from) = npos
    BY <1>1, <1>3 DEF find
  <2> QED
    BY <1>1, <1>2, <1>3, <2>1
<1>4. CASE found # {}
  <2>1. \E n \in found : \A m \in found : n <= m
    BY <1>1, <1>2, <1>4, Least
  <2>2. Min(found) \in found /\ \A m \in found : Min(found) <= m
    BY <2>1 DEF Min
  <2>3. find(s, t, from) = Min(found)
    BY <1>1, <1>4 DEF find
  <2> QED
    BY <1>1, <1>2, <2>2, <2>3 DEF npos
<1> QED
  BY <1>3, <1>4

LEMMA RfindIs ==
  ASSUME NEW X, NEW s \in Seq(X), NEW t \in Seq(X)
  PROVE  \/ rfind(s, t) = npos /\ Occurrences(s, t) = {}
         \/ /\ rfind(s, t) \in Occurrences(s, t) /\ rfind(s, t) # npos
            /\ \A p \in Occurrences(s, t) : p <= rfind(s, t)
<1>1. PICK found : found = Occurrences(s, t)
  OBVIOUS
<1>2. Len(s) \in Nat /\ Len(t) \in Nat /\ found \subseteq 0 .. Len(s)
  BY <1>1 DEF Occurrences
<1>3. CASE found = {}
  BY <1>1, <1>3 DEF rfind
<1>4. CASE found # {}
  <2>0. PICK rests : rests = {Len(s) - p : p \in found}
    OBVIOUS
  <2>1. PICK n \in rests : \A m \in rests : n <= m
    <3>1. rests \subseteq Nat /\ rests # {}
      BY <1>2, <1>4, <2>0
    <3> QED
      BY <3>1, Least
  <2>2. Len(s) - n \in found /\ \A p \in found : p <= Len(s) - n
    <3>1. PICK r \in found : n = Len(s) - r
      BY <2>0, <2>1
    <3>2. \A p \in found : Len(s) - p \in rests
      BY <2>0
    <3>3. Len(s) - n = r /\ \A p \in found : p <= r
      BY <1>2, <2>1, <3>1, <3>2
    <3> QED
      BY <3>1, <3>3
  <2>3. Max(found) \in found /\ \A p \in found : Max(found) >= p
    BY <1>2, <2>2 DEF Max
  <2>4. rfind(s, t) = Max(found)
    BY <1>1, <1>4 DEF rfind
  <2> QED
    BY <1>1, <1>2, <2>3, <2>4 DEF npos
<1> QED
  BY <1>3, <1>4

\* The end of a text, position by position.
LEMMA EndsWith ==
  ASSUME NEW X, NEW s \in Seq(X), NEW t \in Seq(X)
  PROVE  IsSuffix(t, s) <=> Len(s) - Len(t) \in Occurrences(s, t)
<1>1. PICK n, m : n = Len(s) /\ m = Len(t)
  OBVIOUS
<1>2. n \in Nat /\ m \in Nat
  BY <1>1
<1>3. PICK r, q : r = Reverse(s) /\ q = Reverse(t)
  OBVIOUS
<1>4. /\ r \in Seq(X) /\ Len(r) = n /\ \A i \in 1 .. n : r[i] = s[n - i + 1]
      /\ q \in Seq(X) /\ Len(q) = m /\ \A i \in 1 .. m : q[i] = t[m - i + 1]
  BY <1>1, <1>3 DEF Reverse
<1>5. IsSuffix(t, s) <=> m <= n /\ SubSeq(q, 1, m) = SubSeq(r, 1, m)
  BY <1>3, <1>4 DEF IsSuffix, IsPrefix
<1>6. CASE m <= n
  <2>1. /\ SubSeq(q, 1, m) \in Seq(X) /\ Len(SubSeq(q, 1, m)) = m
        /\ \A i \in 1 .. m : SubSeq(q, 1, m)[i] = q[i]
    BY <1>2, <1>4
  <2>2. /\ SubSeq(r, 1, m) \in Seq(X) /\ Len(SubSeq(r, 1, m)) = m
        /\ \A i \in 1 .. m : SubSeq(r, 1, m)[i] = r[i]
    BY <1>2, <1>4, <1>6
  <2>3. SubSeq(q, 1, m) = SubSeq(r, 1, m) <=> \A i \in 1 .. m : q[i] = r[i]
    <3>1. ASSUME \A i \in 1 .. m : q[i] = r[i]
          PROVE  SubSeq(q, 1, m) = SubSeq(r, 1, m)
      BY <2>1, <2>2, <3>1, SeqEqual
    <3>2. ASSUME SubSeq(q, 1, m) = SubSeq(r, 1, m), NEW i \in 1 .. m
          PROVE  q[i] = r[i]
      BY <2>1, <2>2, <3>2
    <3> QED
      BY <3>1, <3>2
  <2>4. (\A i \in 1 .. m : q[i] = r[i]) <=> \A i \in 1 .. m : s[(n - m) + i] = t[i]
    <3>1. ASSUME \A i \in 1 .. m : q[i] = r[i], NEW i \in 1 .. m
          PROVE  s[(n - m) + i] = t[i]
      <4>1. PICK j : j = m - i + 1
        OBVIOUS
      <4>2. j \in 1 .. m /\ j \in 1 .. n /\ m - j + 1 = i /\ n - j + 1 = (n - m) + i
        BY <1>2, <1>6, <4>1
      <4>3. q[j] = t[m - j + 1] /\ r[j] = s[n - j + 1] /\ q[j] = r[j]
        BY <1>4, <3>1, <4>2
      <4> QED
        BY <4>2, <4>3
    <3>2. ASSUME \A i \in 1 .. m : s[(n - m) + i] = t[i], NEW i \in 1 .. m
          PROVE  q[i] = r[i]
      <4>1. PICK j : j = m - i + 1
        OBVIOUS
      <4>2. j \in 1 .. m /\ i \in 1 .. n /\ m - i + 1 = j /\ n - i + 1 = (n - m) + j
        BY <1>2, <1>6, <4>1
      <4>3. q[i] = t[m - i + 1] /\ r[i] = s[n - i + 1] /\ s[(n - m) + j] = t[j]
        BY <1>4, <3>2, <4>2
      <4> QED
        BY <4>2, <4>3
    <3> QED
      BY <3>1, <3>2
  <2>5. n - m \in 0 .. n - m
    BY <1>2, <1>6
  <2>6. (\A i \in 1 .. m : s[(n - m) + i] = t[i]) <=> n - m \in Occurrences(s, t)
    <3>1. ASSUME n - m \in Occurrences(s, t) PROVE \A i \in 1 .. m : s[(n - m) + i] = t[i]
      BY <1>1, <3>1, Occurring, SMTT(30)
    <3>2. ASSUME \A i \in 1 .. m : s[(n - m) + i] = t[i] PROVE n - m \in Occurrences(s, t)
      <4>1. PICK p \in 0 .. n - m : p = n - m
        BY <2>5
      <4>2. \A i \in 1 .. Len(t) : s[p + i] = t[i]
        BY <1>1, <3>2, <4>1
      <4> QED
        BY <1>1, <4>1, <4>2, OccursWhere
    <3> QED
      BY <3>1, <3>2
  <2> QED
    BY <1>1, <1>5, <1>6, <2>3, <2>4, <2>6
<1>7. CASE m > n
  <2>1. n - m \notin Occurrences(s, t)
    BY <1>1, <1>2, <1>7 DEF Occurrences
  <2> QED
    BY <1>1, <1>2, <1>5, <1>7, <2>1
<1> QED
  BY <1>2, <1>6, <1>7
-----------------------------------------------------------------------------
(* Fields *)

Rows(X) == Seq(Seq(X)) \ {<<>>}

\* The last field of a row, and what comes before it.
LEMMA LastOfRow ==
  ASSUME NEW Y, NEW row \in Seq(Y), NEW y \in Y
  PROVE  /\ Append(row, y) \in Seq(Y) /\ Append(row, y) # <<>>
         /\ Len(Append(row, y)) = Len(row) + 1
         /\ Last(Append(row, y)) = y /\ Front(Append(row, y)) = row
<1>1. PICK r : r = Append(row, y)
  OBVIOUS
<1>2. /\ r \in Seq(Y) /\ Len(r) = Len(row) + 1 /\ Len(row) \in Nat /\ r # <<>>
      /\ \A i \in 1 .. Len(row) : r[i] = row[i]
      /\ r[Len(row) + 1] = y
  BY <1>1
<1>3. /\ SubSeq(r, 1, Len(r) - 1) \in Seq(Y) /\ Len(SubSeq(r, 1, Len(r) - 1)) = Len(row)
      /\ \A i \in 1 .. Len(row) : SubSeq(r, 1, Len(r) - 1)[i] = row[i]
  BY <1>2
<1>4. SubSeq(r, 1, Len(r) - 1) = row
  BY <1>3, SeqEqual
<1> QED
  BY <1>1, <1>2, <1>4 DEF Last, Front

LEMMA RowHasLast ==
  ASSUME NEW Y, NEW r \in Seq(Y), r # <<>>
  PROVE  Front(r) \in Seq(Y) /\ Last(r) \in Y /\ r = Append(Front(r), Last(r))
<1>1. Len(r) \in Nat \ {0} /\ \A i \in 1 .. Len(r) : r[i] \in Y
  BY EmptySeq, LenProperties
<1>2. PICK f : f = SubSeq(r, 1, Len(r) - 1)
  OBVIOUS
<1>3. f \in Seq(Y) /\ Len(f) = Len(r) - 1 /\ \A i \in 1 .. Len(r) - 1 : f[i] = r[i]
  <2>1. PICK n \in Nat : n = Len(r) - 1
    BY <1>1
  <2>2. \A i \in 1 .. n : r[i] \in Y
    BY <1>1, <2>1
  <2>3. /\ f \in Seq(Y) /\ Len(f) = (IF 1 <= n THEN n - 1 + 1 ELSE 0)
        /\ \A i \in 1 .. n - 1 + 1 : f[i] = r[1 + i - 1]
    BY <1>2, <2>1, <2>2, SubSeqProperties
  <2>4. n - 1 + 1 = n /\ \A i \in 1 .. n : 1 + i - 1 = i
    BY <2>1
  <2> QED
    BY <2>1, <2>3, <2>4
<1>4. PICK y \in Y : y = r[Len(r)]
  BY <1>1
<1>5. /\ Append(f, y) \in Seq(Y) /\ Len(Append(f, y)) = Len(r)
      /\ \A i \in 1 .. Len(r) : Append(f, y)[i] = r[i]
  BY <1>1, <1>3, <1>4
<1>6. Append(f, y) = r
  BY <1>5, SeqEqual
<1> QED
  BY <1>2, <1>3, <1>4, <1>6 DEF Front, Last

LEMMA ReadOnGrows ==
  ASSUME NEW X, NEW row \in Seq(Seq(X)), NEW y \in Seq(X), NEW c \in X, NEW t \in Seq(X),
         ~IsSuffix(t, Append(y, c))
  PROVE  ReadOn(Append(row, y), c, t) = Append(row, Append(y, c))
<1>1. PICK r : r = Append(row, y)
  OBVIOUS
<1>2. Last(r) = y /\ Front(r) = row
  BY <1>1, LastOfRow
<1> QED
  BY <1>1, <1>2 DEF ReadOn

LEMMA ReadOnEnds ==
  ASSUME NEW X, NEW row \in Seq(Seq(X)), NEW y \in Seq(X), NEW c \in X, NEW t \in Seq(X),
         IsSuffix(t, Append(y, c))
  PROVE  \E p \in 0 .. Len(y) + 1 :
            /\ p = (Len(y) + 1) - Len(t)
            /\ ReadOn(Append(row, y), c, t) = Append(Append(row, Before(Append(y, c), p)), <<>>)
<1>1. PICK r, last : r = Append(row, y) /\ last = Append(y, c)
  OBVIOUS
<1>2. Last(r) = y /\ Front(r) = row
  BY <1>1, LastOfRow
<1>3. last \in Seq(X) /\ Len(last) = Len(y) + 1 /\ Len(y) \in Nat /\ Len(t) \in Nat
  BY <1>1
<1>4. Len(last) - Len(t) \in Occurrences(last, t)
  BY <1>1, <1>3, EndsWith
<1>5. PICK p \in 0 .. Len(y) + 1 : p = (Len(y) + 1) - Len(t) /\ p \in 0 .. Len(last)
  <2>1. PICK p : p = Len(last) - Len(t)
    OBVIOUS
  <2>2. p \in Nat
    BY <1>3, <1>4, <2>1, Occurring
  <2>3. PICK k, m : k = Len(y) /\ m = Len(t)
    OBVIOUS
  <2>4. p = (k + 1) - m /\ p \in 0 .. k + 1
    BY <1>3, <2>1, <2>2, <2>3
  <2> QED
    BY <1>3, <2>3, <2>4
<1>6. PICK b : b = Before(last, p)
  OBVIOUS
<1>7. b \in Seq(X)
  BY <1>3, <1>5, <1>6, Cutting
<1>8. ReadOn(r, c, t) = row \o <<b, <<>>>>
  BY <1>1, <1>2, <1>3, <1>5, <1>6 DEF ReadOn
<1>9. row \o <<b, <<>>>> = Append(Append(row, b), <<>>)
  <2>1. PICK e \in Seq(X) : e = <<>>
    BY EmptySeq
  <2>2. PICK u, v : u = row \o <<b, e>> /\ v = Append(Append(row, b), e)
    OBVIOUS
  <2>3. /\ u \in Seq(Seq(X)) /\ v \in Seq(Seq(X)) /\ Len(u) = Len(row) + 2 /\ Len(v) = Len(u)
        /\ \A i \in 1 .. Len(u) : u[i] = v[i]
    BY <1>7, <2>1, <2>2
  <2>4. u = v
    BY <2>3, SeqEqual
  <2> QED
    BY <2>1, <2>2, <2>4
<1> QED
  BY <1>1, <1>5, <1>6, <1>8, <1>9

\* A row stays a row, and does not lose a field.
LEMMA ReadOnIsRow ==
  ASSUME NEW X, NEW r \in Rows(X), NEW c \in X, NEW t \in Seq(X)
  PROVE  ReadOn(r, c, t) \in Rows(X) /\ Len(ReadOn(r, c, t)) >= Len(r)
<1>1. PICK row, y : row = Front(r) /\ y = Last(r)
  OBVIOUS
<1>2. row \in Seq(Seq(X)) /\ y \in Seq(X) /\ r = Append(row, y)
  BY <1>1, RowHasLast DEF Rows
<1>3. PICK last : last = Append(y, c)
  OBVIOUS
<1>4. last \in Seq(X) /\ Len(last) = Len(y) + 1 /\ Len(y) \in Nat /\ Len(t) \in Nat
  BY <1>2, <1>3
<1>5. CASE IsSuffix(t, last)
  <2>0. PICK p \in 0 .. Len(y) + 1 :
            ReadOn(r, c, t) = Append(Append(row, Before(last, p)), <<>>)
    BY <1>2, <1>3, <1>5, ReadOnEnds
  <2>1. PICK b : b = Before(last, p)
    OBVIOUS
  <2>2. p \in 0 .. Len(y) + 1 /\ ReadOn(r, c, t) = Append(Append(row, b), <<>>)
    BY <2>0, <2>1
  <2>3. b \in Seq(X)
    BY <1>4, <2>1, <2>2, Cutting
  <2>4. PICK e \in Seq(X) : e = <<>>
    BY EmptySeq
  <2>5. Append(row, b) \in Seq(Seq(X)) /\ Len(Append(row, b)) = Len(row) + 1
    BY <1>2, <2>3, LastOfRow
  <2>6. /\ Append(Append(row, b), e) \in Seq(Seq(X)) /\ Append(Append(row, b), e) # <<>>
        /\ Len(Append(Append(row, b), e)) = Len(row) + 1 + 1
    <3>1. PICK q \in Seq(Seq(X)) : q = Append(row, b)
      BY <2>5
    <3>2. Append(q, e) \in Seq(Seq(X)) /\ Append(q, e) # <<>> /\ Len(Append(q, e)) = Len(q) + 1
      BY LastOfRow
    <3> QED
      BY <2>5, <3>1, <3>2
  <2>7. Len(r) = Len(row) + 1 /\ Len(row) \in Nat
    BY <1>2, LastOfRow
  <2> QED
    BY <2>2, <2>4, <2>6, <2>7 DEF Rows
<1>6. CASE ~IsSuffix(t, last)
  <2>1. ReadOn(r, c, t) = Append(row, last)
    BY <1>2, <1>3, <1>6, ReadOnGrows
  <2>2. /\ Append(row, last) \in Seq(Seq(X)) /\ Append(row, last) # <<>>
        /\ Len(Append(row, last)) = Len(row) + 1 /\ Len(r) = Len(row) + 1 /\ Len(row) \in Nat
    BY <1>2, <1>4, LastOfRow, SMTT(30)
  <2> QED
    BY <2>1, <2>2 DEF Rows
<1> QED
  BY <1>5, <1>6

\* The rows of fields that s has been read into, after each character.
Reads(f, X, s, t) ==
  /\ f \in [0 .. Len(s) -> Rows(X)] /\ f[0] = <<<<>>>>
  /\ \A n \in 1 .. Len(s) : f[n] = ReadOn(f[n - 1], s[n], t)

LEMMA FieldsAreRead ==
  ASSUME NEW X, NEW s \in Seq(X), NEW t \in Seq(X)
  PROVE  \E f : Reads(f, X, s, t) /\ Fields(s, t) = f[Len(s)]
<1> DEFINE l == Len(s)
<1> DEFINE Fits(f) == f = [n \in 0 .. l |-> IF n = 0 THEN <<<<>>>> ELSE ReadOn(f[n - 1], s[n], t)]
<1> DEFINE fields == CHOOSE f : Fits(f)
<1> DEFINE step == [n \in Nat |-> [r \in Rows(X) |-> IF n \in 1 .. l THEN ReadOn(r, s[n], t) ELSE r]]
<1>1. l \in Nat /\ \A n \in 1 .. l : s[n] \in X
  OBVIOUS
<1>2. step \in [Nat -> [Rows(X) -> Rows(X)]]
  <2> SUFFICES ASSUME NEW n \in Nat, NEW r \in Rows(X), n \in 1 .. l
               PROVE  ReadOn(r, s[n], t) \in Rows(X)
    OBVIOUS
  <2> QED
    BY <1>1, ReadOnIsRow
<1>3. <<<<>>>> \in Rows(X)
  <2>1. PICK e \in Seq(X) : e = <<>>
    BY EmptySeq
  <2>2. <<e>> \in Seq(Seq(X)) /\ <<e>> # <<>>
    BY <2>1
  <2> QED
    BY <2>1, <2>2 DEF Rows
<1>4. PICK f \in [0 .. l -> Rows(X)] : Follows(f, <<<<>>>>, step, l)
  <2> HIDE DEF step
  <2> QED
    BY <1>1, <1>2, <1>3, Recursion
<1>5. Reads(f, X, s, t)
  <2>1. ASSUME NEW n \in 1 .. l PROVE f[n] = ReadOn(f[n - 1], s[n], t)
    <3>1. n \in Nat /\ n - 1 \in 0 .. l
      BY <1>1
    <3>2. f[n] = step[n][f[n - 1]] /\ f[n - 1] \in Rows(X)
      BY <1>4, <3>1 DEF Follows
    <3> QED
      BY <3>1, <3>2
  <2> QED
    BY <1>4, <2>1 DEF Reads, Follows
<1>6. Fits(f)
  <2>1. \A n \in 0 .. l : f[n] = IF n = 0 THEN <<<<>>>> ELSE ReadOn(f[n - 1], s[n], t)
    <3>1. PICK none : none = <<<<>>>>
      OBVIOUS
    <3>2. f[0] = none /\ \A n \in 1 .. l : f[n] = ReadOn(f[n - 1], s[n], t)
      BY <1>5, <3>1 DEF Reads
    <3>3. \A n \in 0 .. l : n = 0 \/ (n # 0 /\ n \in 1 .. l)
      BY <1>1
    <3> QED
      BY <3>1, <3>2, <3>3, Zenon
  <2>2. f = [n \in 0 .. l |-> f[n]]
    BY <1>4
  <2> QED
    BY <2>1, <2>2
<1>7. Fits(fields)
  BY <1>6
<1>8. fields = f
  <2> DEFINE S == {n \in Nat : n \in 0 .. l => fields[n] = f[n]}
  <2>0. \A n \in 0 .. l : fields[n] = IF n = 0 THEN <<<<>>>> ELSE ReadOn(fields[n - 1], s[n], t)
    <3> HIDE DEF fields
    <3> QED
      BY <1>7
  <2>1. DOMAIN fields = 0 .. l /\ fields = [n \in 0 .. l |-> fields[n]]
    <3> HIDE DEF fields
    <3> QED
      BY <1>7
  <2> HIDE DEF fields
  <2>2. 0 \in S
    BY <1>5, <2>0 DEF Reads
  <2>3. ASSUME NEW n \in Nat, n \in S PROVE n + 1 \in S
    <3> SUFFICES ASSUME n + 1 \in 0 .. l PROVE fields[n + 1] = f[n + 1]
      OBVIOUS
    <3>1. n \in 0 .. l /\ n + 1 \in 1 .. l /\ n + 1 - 1 = n /\ n + 1 # 0
      BY <1>1
    <3>2. fields[n] = f[n]
      BY <2>3, <3>1
    <3>3. f[n + 1] = ReadOn(f[n], s[n + 1], t)
      BY <1>5, <3>1 DEF Reads
    <3>4. fields[n + 1] = ReadOn(fields[n], s[n + 1], t)
      BY <2>0, <3>1
    <3> QED
      BY <3>2, <3>3, <3>4
  <2>4. Nat \subseteq S
    <3> HIDE DEF S
    <3> QED
      BY <2>2, <2>3, Induction
  <2>5. \A n \in 0 .. l : fields[n] = f[n]
    BY <1>1, <2>4
  <2> QED
    BY <1>4, <2>1, <2>5
<1>9. Fields(s, t) = fields[l]
  BY DEF Fields
<1> QED
  BY <1>5, <1>8, <1>9
LEMMA BeforeBefore ==
  ASSUME NEW X, NEW s \in Seq(X), NEW n \in 0 .. Len(s), NEW p \in 0 .. n
  PROVE  Before(Before(s, n), p) = Before(s, p)
<1>1. Len(s) \in Nat /\ p \in 0 .. Len(s)
  OBVIOUS
<1>2. PICK b : b = Before(s, n)
  OBVIOUS
<1>3. b \in Seq(X) /\ Len(b) = n /\ \A i \in 1 .. n : b[i] = s[i]
  BY <1>2, Cutting
<1>4. p \in 0 .. Len(b)
  BY <1>3
<1>5. Before(b, p) \in Seq(X) /\ Len(Before(b, p)) = p /\ \A i \in 1 .. p : Before(b, p)[i] = b[i]
  BY <1>3, <1>4, Cutting
<1>6. Before(s, p) \in Seq(X) /\ Len(Before(s, p)) = p /\ \A i \in 1 .. p : Before(s, p)[i] = s[i]
  BY <1>1, Cutting
<1>7. \A i \in 1 .. p : i \in 1 .. n
  BY <1>1
<1>8. Before(b, p) = Before(s, p)
  BY <1>3, <1>5, <1>6, <1>7, SeqEqual
<1> QED
  BY <1>2, <1>8

\* One more character of the front.
LEMMA BeforeNext ==
  ASSUME NEW X, NEW s \in Seq(X), NEW j \in 0 .. Len(s) - 1
  PROVE  Append(Before(s, j), s[j + 1]) = Before(s, j + 1)
<1>1. Len(s) \in Nat /\ j \in 0 .. Len(s) /\ j + 1 \in 0 .. Len(s) /\ s[j + 1] \in X /\ j \in Nat
  OBVIOUS
<1>2. PICK b, d, c : b = Before(s, j) /\ d = Before(s, j + 1) /\ c = s[j + 1]
  OBVIOUS
<1>3. b \in Seq(X) /\ Len(b) = j /\ \A i \in 1 .. j : b[i] = s[i]
  BY <1>1, <1>2, Cutting
<1>4. d \in Seq(X) /\ Len(d) = j + 1 /\ \A i \in 1 .. j + 1 : d[i] = s[i]
  BY <1>1, <1>2, Cutting
<1>5. PICK a : a = Append(b, c)
  OBVIOUS
<1>6. /\ a \in Seq(X) /\ Len(a) = j + 1 /\ a[j + 1] = c
      /\ \A i \in 1 .. j : a[i] = b[i]
  BY <1>1, <1>2, <1>3, <1>5
<1>7. \A i \in 1 .. j + 1 : a[i] = d[i]
  <2>1. ASSUME NEW i \in 1 .. j + 1 PROVE a[i] = d[i]
    <3>1. CASE i = j + 1
      BY <1>2, <1>4, <1>6, <3>1
    <3>2. CASE i \in 1 .. j
      BY <1>3, <1>4, <1>6, <3>2
    <3> QED
      BY <1>1, <3>1, <3>2
  <2> QED
    BY <2>1
<1>8. a = d
  BY <1>4, <1>6, <1>7, SeqEqual
<1> QED
  BY <1>2, <1>5, <1>8

\* Where a text occurs in the front of another, it occurs in that one.
LEMMA OccursInFront ==
  ASSUME NEW X, NEW s \in Seq(X), NEW t \in Seq(X), NEW n \in 0 .. Len(s), NEW p \in Int,
         p + Len(t) <= n
  PROVE  p \in Occurrences(Before(s, n), t) <=> p \in Occurrences(s, t)
<1>1. Len(s) \in Nat /\ Len(t) \in Nat /\ n \in Nat
  OBVIOUS
<1>2. PICK b : b = Before(s, n)
  OBVIOUS
<1>3. b \in Seq(X) /\ Len(b) = n /\ \A i \in 1 .. n : b[i] = s[i]
  BY <1>2, Cutting
<1>4. ASSUME p \in Occurrences(b, t) PROVE p \in Occurrences(s, t)
  <2>1. p \in 0 .. Len(b) /\ \A i \in 1 .. Len(t) : b[p + i] = t[i]
    BY <1>3, <1>4, Occurring
  <2>2. p \in 0 .. Len(s) - Len(t) /\ \A i \in 1 .. Len(t) : p + i \in 1 .. n
    BY <1>1, <1>3, <2>1
  <2>3. \A i \in 1 .. Len(t) : s[p + i] = t[i]
    BY <1>3, <2>1, <2>2
  <2> QED
    BY <2>2, <2>3, OccursWhere
<1>5. ASSUME p \in Occurrences(s, t) PROVE p \in Occurrences(b, t)
  <2>1. p \in 0 .. Len(s) /\ \A i \in 1 .. Len(t) : s[p + i] = t[i]
    BY <1>5, Occurring
  <2>2. p \in 0 .. Len(b) - Len(t) /\ \A i \in 1 .. Len(t) : p + i \in 1 .. n
    BY <1>1, <1>3, <2>1
  <2>3. \A i \in 1 .. Len(t) : b[p + i] = t[i]
    BY <1>3, <2>1, <2>2
  <2> QED
    BY <1>3, <2>2, <2>3, OccursWhere
<1> QED
  BY <1>2, <1>4, <1>5

\* The character behind the part of o that the last field has: the field grows, or it ends.
Onward(f, X, l, o, t) ==
  \A row \in Seq(Seq(X)), j \in 0 .. Len(o) - 1, p \in Int :
     f[Len(l) + j] = Append(row, Before(o, j)) /\ p + Len(t) = j + 1 =>
       f[(Len(l) + j) + 1] = IF p \in Occurrences(o, t)
                             THEN Append(Append(row, Before(o, p)), <<>>)
                             ELSE Append(row, Before(o, j + 1))

LEMMA ReadStep ==
  ASSUME NEW X, NEW l \in Seq(X), NEW o \in Seq(X), NEW t \in Seq(X),
         NEW f, Reads(f, X, l \o o, t)
  PROVE  Onward(f, X, l, o, t)
<1> SUFFICES ASSUME NEW row \in Seq(Seq(X)), NEW j \in 0 .. Len(o) - 1, NEW p \in Int,
                    f[Len(l) + j] = Append(row, Before(o, j)), p + Len(t) = j + 1
             PROVE  f[(Len(l) + j) + 1] = IF p \in Occurrences(o, t)
                                          THEN Append(Append(row, Before(o, p)), <<>>)
                                          ELSE Append(row, Before(o, j + 1))
  BY DEF Onward
<1>0. PICK m, s : m = Len(l) + j /\ s = l \o o
  OBVIOUS
<1>1. /\ s \in Seq(X) /\ Len(s) = Len(l) + Len(o) /\ Len(l) \in Nat /\ Len(o) \in Nat
      /\ Len(t) \in Nat /\ j \in Nat /\ j + 1 \in 0 .. Len(o) /\ j \in 0 .. Len(o)
      /\ o[j + 1] \in X
  BY <1>0
<1>2. PICK n : n = m + 1
  OBVIOUS
<1>3. n \in 1 .. Len(s) /\ n - 1 = m
  BY <1>0, <1>1, <1>2
<1>4. s[n] = o[j + 1]
  <2>1. n > Len(l) /\ n - Len(l) = j + 1 /\ n \in 1 .. Len(l) + Len(o)
    BY <1>0, <1>1, <1>2
  <2> QED
    BY <1>0, <2>1, ConcatProperties
<1>5. PICK y, c : y = Before(o, j) /\ c = o[j + 1]
  OBVIOUS
<1>6. y \in Seq(X) /\ Len(y) = j /\ c \in X
  BY <1>1, <1>5, Cutting
<1>7. f[n] = ReadOn(Append(row, y), c, t)
  BY <1>0, <1>3, <1>4, <1>5 DEF Reads
<1>8. PICK b : b = Append(y, c)
  OBVIOUS
<1>9. b = Before(o, j + 1) /\ b \in Seq(X) /\ Len(b) = j + 1
  <2>1. b = Before(o, j + 1)
    BY <1>5, <1>8, BeforeNext
  <2> QED
    BY <1>1, <2>1, Cutting
<1>10. p \in Int /\ p = (Len(y) + 1) - Len(t) /\ p = Len(b) - Len(t)
  BY <1>1, <1>6, <1>9
<1>11. IsSuffix(t, b) <=> p \in Occurrences(o, t)
  <2>1. IsSuffix(t, b) <=> p \in Occurrences(b, t)
    BY <1>9, <1>10, EndsWith
  <2>2. p + Len(t) <= j + 1
    BY <1>1, <1>10
  <2>3. p \in Occurrences(Before(o, j + 1), t) <=> p \in Occurrences(o, t)
    BY <1>1, <1>10, <2>2, OccursInFront
  <2> QED
    BY <1>9, <2>1, <2>3
<1>12. CASE p \in Occurrences(o, t)
  <2>1. IsSuffix(t, b)
    BY <1>11, <1>12
  <2>2. p \in 0 .. Len(y) + 1 /\ f[n] = Append(Append(row, Before(b, p)), <<>>)
    <3>1. PICK q : /\ q \in 0 .. Len(y) + 1 /\ q = (Len(y) + 1) - Len(t)
                   /\ ReadOn(Append(row, y), c, t) = Append(Append(row, Before(b, q)), <<>>)
      BY <1>6, <1>8, <2>1, ReadOnEnds, SMTT(30)
    <3> QED
      BY <1>7, <1>10, <3>1
  <2>3. Before(b, p) = Before(o, p)
    BY <1>1, <1>6, <1>9, <2>2, BeforeBefore
  <2> QED
    BY <1>0, <1>2, <1>12, <2>2, <2>3
<1>13. CASE p \notin Occurrences(o, t)
  <2>1. ~IsSuffix(t, b)
    BY <1>11, <1>13
  <2>2. f[n] = Append(row, b)
    BY <1>6, <1>7, <1>8, <2>1, ReadOnGrows
  <2> QED
    BY <1>0, <1>2, <1>9, <1>13, <2>2
<1> QED
  BY <1>12, <1>13

\* s has been read as far as n, into the fields of row.
ReadUpto(X, s, t, n, row) ==
  \E f : Reads(f, X, s, t) /\ Fields(s, t) = f[Len(s)] /\ n \in 0 .. Len(s) /\ f[n] = row

LEMMA ReadNothing ==
  ASSUME NEW X, NEW s \in Seq(X), NEW t \in Seq(X)
  PROVE  ReadUpto(X, s, t, 0, <<<<>>>>)
<1>1. PICK f : Reads(f, X, s, t) /\ Fields(s, t) = f[Len(s)]
  BY FieldsAreRead
<1>2. 0 \in 0 .. Len(s)
  OBVIOUS
<1>3. PICK none : none = <<<<>>>>
  OBVIOUS
<1>4. f[0] = none
  BY <1>1, <1>3 DEF Reads
<1> QED
  BY <1>1, <1>2, <1>3, <1>4 DEF ReadUpto

\* The piece in front of the next token is the next field; where there is none, the rest
\* is the last one.
LEMMA ReadPiece ==
  ASSUME NEW X, NEW l \in Seq(X), NEW o \in Seq(X), NEW t \in Seq(X), t # <<>>,
         NEW row \in Seq(Seq(X)), ReadUpto(X, l \o o, t, Len(l), Append(row, <<>>))
  PROVE  IF find(o, t, 0) = npos THEN Fields(l \o o, t) = Append(row, o)
         ELSE ReadUpto(X, l \o o, t, Len(l) + (find(o, t, 0) + Len(t)),
                       Append(Append(row, Before(o, find(o, t, 0))), <<>>))
<1>0. PICK s, p : s = l \o o /\ p = find(o, t, 0)
  OBVIOUS
<1>1. /\ s \in Seq(X) /\ Len(s) = Len(l) + Len(o) /\ Len(l) \in Nat /\ Len(o) \in Nat
      /\ Len(t) \in Nat \ {0}
  BY <1>0, EmptySeq
<1>2. PICK f : Reads(f, X, s, t) /\ Fields(s, t) = f[Len(s)] /\ f[Len(l)] = Append(row, <<>>)
  BY <1>0 DEF ReadUpto
<1>3. PICK last \in Nat : /\ last <= Len(o)
                          /\ p = npos => last = Len(o)
                          /\ p # npos => p \in Occurrences(o, t) /\ last = (p + Len(t)) - 1
                          /\ \A q \in Occurrences(o, t) : q + Len(t) > last
  <2>1. CASE p = npos
    <3>1. \A q \in Occurrences(o, t) : q < 0
      BY <1>0, <2>1, FindIs
    <3>2. \A q \in Occurrences(o, t) : q \in Nat
      BY Occurring
    <3>3. \A q \in Occurrences(o, t) : FALSE
      BY <3>1, <3>2
    <3> QED
      BY <1>1, <2>1, <3>3
  <2>2. CASE p # npos
    <3>1. /\ p \in Occurrences(o, t)
          /\ \A q \in Occurrences(o, t) : q >= 0 => p <= q
      BY <1>0, <2>2, FindIs
    <3>2. p \in 0 .. Len(o) /\ p + Len(t) \in 0 .. Len(o) /\ \A q \in Occurrences(o, t) : q \in Nat
      BY <3>1, Occurring
    <3>3. (p + Len(t)) - 1 \in Nat /\ (p + Len(t)) - 1 <= Len(o)
      BY <1>1, <3>2
    <3>4. \A q \in Occurrences(o, t) : q + Len(t) > (p + Len(t)) - 1
      BY <1>1, <3>1, <3>2
    <3> QED
      BY <2>2, <3>1, <3>3, <3>4
  <2> QED
    BY <2>1, <2>2
<1> DEFINE S == {j \in Nat : j <= last => f[Len(l) + j] = Append(row, Before(o, j))}
<1>31. Onward(f, X, l, o, t)
  <2>1. Reads(f, X, l \o o, t)
    BY <1>0, <1>2
  <2> QED
    BY <2>1, ReadStep
<1>4. 0 \in S
  <2>1. 0 \in 0 .. Len(o)
    BY <1>1
  <2>2. Before(o, 0) \in Seq(X) /\ Len(Before(o, 0)) = 0
    BY <2>1, Cutting
  <2>3. Before(o, 0) = <<>>
    BY <2>2
  <2>4. Len(l) + 0 = Len(l)
    BY <1>1
  <2> QED
    BY <1>2, <2>3, <2>4
<1>5. ASSUME NEW j \in Nat, j \in S PROVE j + 1 \in S
  <2> SUFFICES ASSUME j + 1 <= last
               PROVE  f[Len(l) + (j + 1)] = Append(row, Before(o, j + 1))
    OBVIOUS
  <2>1. j \in 0 .. Len(o) - 1 /\ j <= last
    BY <1>1, <1>3
  <2>2. f[Len(l) + j] = Append(row, Before(o, j))
    BY <1>5, <2>1
  <2>3. (j + 1) - Len(t) \notin Occurrences(o, t)
    <3>1. ((j + 1) - Len(t)) + Len(t) = j + 1
      BY <1>1
    <3> QED
      BY <1>3, <3>1
  <2>4. (j + 1) - Len(t) \in Int /\ ((j + 1) - Len(t)) + Len(t) = j + 1
    BY <1>1
  <2>5. f[(Len(l) + j) + 1] = Append(row, Before(o, j + 1))
    BY <1>31, <2>1, <2>2, <2>3, <2>4 DEF Onward
  <2>6. (Len(l) + j) + 1 = Len(l) + (j + 1)
    BY <1>1
  <2> QED
    BY <2>5, <2>6
<1>6. Nat \subseteq S
  <2> HIDE DEF S
  <2> QED
    BY <1>4, <1>5, Induction
<1>7. f[Len(l) + last] = Append(row, Before(o, last))
  <2>1. last \in S
    BY <1>6
  <2> QED
    BY <2>1
<1>8. ASSUME p = npos PROVE Fields(s, t) = Append(row, o)
  <2>1. last = Len(o) /\ Len(o) \in 0 .. Len(o)
    BY <1>1, <1>3, <1>8
  <2>2. Before(o, Len(o)) = o
    BY SubSeqFull DEF Before
  <2> QED
    BY <1>1, <1>2, <1>7, <2>1, <2>2
<1>9. ASSUME p # npos
      PROVE  ReadUpto(X, s, t, Len(l) + (p + Len(t)), Append(Append(row, Before(o, p)), <<>>))
  <2>1. p \in Occurrences(o, t) /\ last = (p + Len(t)) - 1
    BY <1>3, <1>9
  <2>2. p \in 0 .. Len(o) /\ p + Len(t) \in 0 .. Len(o)
    BY <2>1, Occurring
  <2>3. last + 1 = p + Len(t) /\ last \in 0 .. Len(o) - 1
    BY <1>1, <2>1, <2>2
  <2>4. p \in Int /\ p + Len(t) = last + 1
    BY <1>1, <2>2, <2>3
  <2>6. f[(Len(l) + last) + 1] = Append(Append(row, Before(o, p)), <<>>)
    BY <1>31, <1>7, <2>1, <2>3, <2>4 DEF Onward
  <2>7. (Len(l) + last) + 1 = Len(l) + (p + Len(t))
    <3>1. PICK k, m : k = Len(l) /\ m = Len(t)
      OBVIOUS
    <3>2. k \in Nat /\ m \in Nat /\ p \in Nat /\ last \in Nat /\ last + 1 = p + m
      BY <1>1, <2>2, <2>3, <3>1
    <3>3. (k + last) + 1 = k + (p + m)
      BY <3>2
    <3> QED
      BY <3>1, <3>3
  <2>8. Len(l) + (p + Len(t)) \in 0 .. Len(s)
    BY <1>1, <2>2
  <2> QED
    BY <1>2, <2>6, <2>7, <2>8 DEF ReadUpto
<1> QED
  BY <1>0, <1>8, <1>9
\* What has been read of the text already has no more fields than the text.
LEMMA RowsGrow ==
  ASSUME NEW X, NEW s \in Seq(X), NEW t \in Seq(X), NEW n, NEW row, ReadUpto(X, s, t, n, row)
  PROVE  Len(row) \in Nat /\ Len(Fields(s, t)) \in Nat /\ Len(row) <= Len(Fields(s, t))
<1>1. PICK f : /\ Reads(f, X, s, t) /\ Fields(s, t) = f[Len(s)]
               /\ n \in 0 .. Len(s) /\ f[n] = row
  BY DEF ReadUpto
<1>2. Len(s) \in Nat /\ n \in Nat
  BY <1>1
<1>3. \A i \in 0 .. Len(s) : f[i] \in Rows(X) /\ Len(f[i]) \in Nat
  BY <1>1 DEF Reads, Rows
<1> DEFINE S == {k \in Nat : n + k <= Len(s) => Len(f[n + k]) >= Len(row)}
<1>4. 0 \in S
  <2>1. n + 0 = n /\ Len(f[n]) >= Len(row)
    BY <1>1, <1>2, <1>3
  <2> QED
    BY <2>1
<1>5. ASSUME NEW k \in Nat, k \in S PROVE k + 1 \in S
  <2> SUFFICES ASSUME n + (k + 1) <= Len(s) PROVE Len(f[n + (k + 1)]) >= Len(row)
    OBVIOUS
  <2>1. PICK i, c : i = n + (k + 1) /\ c = s[i]
    OBVIOUS
  <2>2. i \in 1 .. Len(s) /\ i \in 0 .. Len(s) /\ i - 1 = n + k /\ n + k \in 0 .. Len(s)
    BY <1>2, <2>1
  <2>3. c \in X
    BY <2>1, <2>2
  <2>4. f[i] = ReadOn(f[i - 1], c, t)
    BY <1>1, <2>1, <2>2 DEF Reads
  <2>5. PICK r \in Rows(X) : r = f[i - 1]
    BY <1>3, <2>2
  <2>6. Len(ReadOn(r, c, t)) >= Len(r)
    BY <2>3, ReadOnIsRow
  <2>7. Len(f[i]) >= Len(f[n + k]) /\ Len(f[n + k]) >= Len(row)
    BY <1>5, <2>2, <2>4, <2>5, <2>6
  <2>8. Len(f[i]) \in Nat /\ Len(f[n + k]) \in Nat /\ Len(row) \in Nat
    BY <1>1, <1>3, <2>2
  <2>9. Len(f[i]) >= Len(row)
    BY <2>7, <2>8
  <2> QED
    BY <2>1, <2>9
<1>6. Nat \subseteq S
  <2> HIDE DEF S
  <2> QED
    BY <1>4, <1>5, Induction
<1>7. PICK k \in Nat : k = Len(s) - n
  BY <1>1, <1>2
<1>8. n + k = Len(s) /\ n + k <= Len(s)
  BY <1>2, <1>7
<1>9. Len(f[Len(s)]) >= Len(row)
  <2>1. k \in S
    <3> HIDE DEF S
    <3> QED
      BY <1>6
  <2> QED
    BY <1>8, <2>1
<1>10. Len(s) \in 0 .. Len(s)
  BY <1>2
<1> QED
  BY <1>1, <1>3, <1>9, <1>10
-----------------------------------------------------------------------------
(* What is cut off *)

IsCut(e, X, s, t, forward) ==
  /\ e.out \in Seq(X) /\ e.org \in Seq(X) /\ e.org # s
  /\ s = IF forward THEN (e.out \o t) \o e.org ELSE (e.org \o t) \o e.out

LEMMA CutOff ==
  ASSUME NEW X, NEW s \in Seq(X), NEW t \in Seq(X), t # <<>>, NEW p \in Occurrences(s, t),
         NEW forward \in BOOLEAN
  PROVE  IsCut(Extracted(s, t, p, forward, TRUE), X, s, t, forward)
<1>1. Len(s) \in Nat /\ Len(t) \in Nat \ {0}
  BY EmptySeq
<1>2. p \in Nat /\ p \in 0 .. Len(s) /\ p + Len(t) \in 0 .. Len(s)
  BY Occurring
<1>3. PICK b, d : b = Before(s, p) /\ d = Since(s, p + Len(t))
  OBVIOUS
<1>4. b \in Seq(X) /\ Len(b) = p
  BY <1>2, <1>3, Cutting
<1>5. d \in Seq(X) /\ Len(d) = Len(s) - (p + Len(t))
  BY <1>2, <1>3, Cutting
<1>6. s = (b \o t) \o d
  <2>1. s = (Before(s, p) \o t) \o Since(s, p + Len(t))
    BY MadeOf
  <2> QED
    BY <1>3, <2>1
<1>7. b # s /\ d # s
  <2>1. Len(b) # Len(s) /\ Len(d) # Len(s)
    BY <1>1, <1>2, <1>4, <1>5
  <2> QED
    BY <2>1
<1>8. p # npos
  BY <1>2 DEF npos
<1>9. PICK e : e = Extracted(s, t, p, forward, TRUE)
  OBVIOUS
<1>10. e.out = (IF forward THEN b ELSE d) /\ e.org = (IF forward THEN d ELSE b)
  BY <1>3, <1>8, <1>9 DEF Extracted
<1>11. CASE forward
  BY <1>4, <1>5, <1>6, <1>7, <1>9, <1>10, <1>11 DEF IsCut
<1>12. CASE ~forward
  BY <1>4, <1>5, <1>6, <1>7, <1>9, <1>10, <1>12 DEF IsCut
<1> QED
  BY <1>11, <1>12

Regrouped(a, b, c) == (a \o b) \o c = a \o (b \o c)

LEMMA Regrouping == ASSUME NEW X PROVE \A a, b, c \in Seq(X) : Regrouped(a, b, c)
<1> SUFFICES ASSUME NEW a \in Seq(X), NEW b \in Seq(X), NEW c \in Seq(X)
             PROVE  (a \o b) \o c = a \o (b \o c)
  BY DEF Regrouped
<1> QED
  BY ConcatAssociative

InFront(X, l, out, t, rest) ==
  /\ (l \o out) \o t \in Seq(X)
  /\ Len((l \o out) \o t) = Len(l) + (Len(out) + Len(t))
  /\ ((l \o out) \o t) \o rest = l \o ((out \o t) \o rest)

Behind(X, l, rest, t, out, r) ==
  /\ (t \o out) \o r \in Seq(X)
  /\ (l \o rest) \o ((t \o out) \o r) = (l \o ((rest \o t) \o out)) \o r

\* What is cut off in front, and behind, stays where it was.
LEMMA StaysInFront ==
  ASSUME NEW X, NEW l \in Seq(X), NEW out \in Seq(X), NEW t \in Seq(X), NEW rest \in Seq(X)
  PROVE  InFront(X, l, out, t, rest)
<1>1. out \o t \in Seq(X)
  OBVIOUS
<1>2. l \o out \in Seq(X) /\ Len(l \o out) = Len(l) + Len(out)
  OBVIOUS
<1>3. (l \o out) \o t \in Seq(X) /\ Len((l \o out) \o t) = Len(l \o out) + Len(t)
  BY <1>2
<1>4. Len(l) \in Nat /\ Len(out) \in Nat /\ Len(t) \in Nat
  OBVIOUS
<1>5. (Len(l) + Len(out)) + Len(t) = Len(l) + (Len(out) + Len(t))
  BY <1>4
<1>6. Regrouped(l, out, t) /\ Regrouped(l, out \o t, rest)
  <2>1. \A a, b, c \in Seq(X) : Regrouped(a, b, c)
    BY Regrouping
  <2> QED
    BY <1>1, <2>1
<1>7. Len((l \o out) \o t) = Len(l) + (Len(out) + Len(t))
  BY <1>2, <1>3, <1>5, Zenon
<1>8. ((l \o out) \o t) \o rest = l \o ((out \o t) \o rest)
  BY <1>6, Zenon DEF Regrouped
<1> QED
  BY <1>3, <1>7, <1>8, Zenon DEF InFront

LEMMA StaysBehind ==
  ASSUME NEW X, NEW l \in Seq(X), NEW rest \in Seq(X), NEW t \in Seq(X), NEW out \in Seq(X),
         NEW r \in Seq(X)
  PROVE  Behind(X, l, rest, t, out, r)
<1>1. t \o out \in Seq(X) /\ l \o rest \in Seq(X)
  OBVIOUS
<1>2. (t \o out) \o r \in Seq(X)
  BY <1>1
<1>3. /\ Regrouped(rest, t, out) /\ Regrouped(l, rest, t \o out)
      /\ Regrouped(l \o rest, t \o out, r)
  <2>1. \A a, b, c \in Seq(X) : Regrouped(a, b, c)
    BY Regrouping
  <2> QED
    BY <1>1, <2>1
<1>4. (l \o rest) \o ((t \o out) \o r) = (l \o ((rest \o t) \o out)) \o r
  BY <1>3, Zenon DEF Regrouped
<1> QED
  BY <1>2, <1>4, Zenon DEF Behind

\* What is left and what has been cut off make the text, and what has been cut off in
\* front are its first fields.
CutInv ==
  job \in {"cut", "split", "done", "fields"} =>
    /\ source \in Seq(STRING) /\ token \in Seq(STRING) /\ token # <<>>
    /\ org \in Seq(STRING) /\ left \in Seq(STRING) /\ right \in Seq(STRING)
    /\ (left \o org) \o right = source
    /\ job = "split" => /\ right = <<>> /\ pieces \in Seq(Seq(STRING))
                        /\ ReadUpto(STRING, source, token, Len(left), Append(pieces, <<>>))
    /\ job = "fields" => pieces = Fields(source, token)

\* What Cut does, for the token at p.
CutAt(p, forward) ==
  LET e == Extracted(org, token, p, forward, TRUE)
      found == e.org # org
  IN  /\ org' = e.org
      /\ pieces' = Append(pieces, e.out)
      /\ left' = IF found /\ forward THEN left \o e.out \o token ELSE left
      /\ right' = IF found /\ ~forward THEN token \o e.out \o right ELSE right
      /\ job' = IF found THEN job ELSE IF job = "split" THEN "fields" ELSE "done"
      /\ source' = source /\ token' = token

LEMMA CutStarts == TextInit => CutInv
<1> SUFFICES ASSUME TextInit, job \in {"cut", "split", "done", "fields"} PROVE CutInv
  BY DEF CutInv
<1>1. /\ source \in Seq(STRING) /\ token \in Seq(STRING) /\ token # <<>>
      /\ org = source /\ left = <<>> /\ right = <<>> /\ pieces = <<>>
      /\ job # "fields"
  <2>1. ASSUME job = "cut" PROVE source \in Texts /\ token \in Tokens
    BY <2>1 DEF TextInit
  <2>2. ASSUME job = "split" PROVE source \in Texts /\ token \in Tokens
    BY <2>2 DEF TextInit
  <2>4. ASSUME job = "done" PROVE FALSE
    BY <2>4 DEF TextInit
  <2>5. ASSUME job = "fields" PROVE FALSE
    BY <2>5 DEF TextInit
  <2>3. org = source /\ left = <<>> /\ right = <<>> /\ pieces = <<>>
    BY DEF TextInit
  <2> QED
    BY <2>1, <2>2, <2>3, <2>4, <2>5, TextAssumption
<1>2. PICK e \in Seq(STRING) : e = <<>>
  BY EmptySeq
<1>3. (e \o source) \o e = source
  BY <1>1, <1>2, ConcatEmptySeq
<1>4. Len(left) = 0 /\ pieces \in Seq(Seq(STRING)) /\ Append(pieces, <<>>) = <<<<>>>>
  BY <1>1, EmptySeq
<1>5. ReadUpto(STRING, source, token, 0, <<<<>>>>)
  BY <1>1, ReadNothing
<1> QED
  BY <1>1, <1>2, <1>3, <1>4, <1>5 DEF CutInv

\* Without the token nothing changes but the job.
LEMMA NothingCut ==
  ASSUME CutInv, job \in {"cut", "split"}, NEW p, p = npos, NEW forward \in BOOLEAN,
         CutAt(p, forward), job = "split" => p = find(org, token, 0)
  PROVE  CutInv'
<1>1. /\ source \in Seq(STRING) /\ token \in Seq(STRING) /\ token # <<>>
      /\ org \in Seq(STRING) /\ left \in Seq(STRING) /\ right \in Seq(STRING)
      /\ (left \o org) \o right = source
      /\ job = "split" => /\ right = <<>> /\ pieces \in Seq(Seq(STRING))
                          /\ ReadUpto(STRING, source, token, Len(left), Append(pieces, <<>>))
  BY DEF CutInv
<1>2. Extracted(org, token, p, forward, TRUE) = [out |-> org, org |-> org]
  BY DEF Extracted
<1>3. /\ org' = org /\ pieces' = Append(pieces, org) /\ left' = left /\ right' = right
      /\ job' = IF job = "split" THEN "fields" ELSE "done"
      /\ source' = source /\ token' = token
  <2>1. PICK e : e = Extracted(org, token, p, forward, TRUE)
    OBVIOUS
  <2>2. e = [out |-> org, org |-> org]
    BY <1>2, <2>1, Zenon
  <2>3. e.out = org /\ e.org = org
    BY <2>2
  <2> QED
    BY <2>1, <2>3 DEF CutAt
<1>4. ASSUME job = "split" PROVE Append(pieces, org) = Fields(source, token)
  <2>1. left \o org = source
    <3>1. left \o org \in Seq(STRING)
      BY <1>1
    <3> QED
      BY <1>1, <1>4, <3>1, ConcatEmptySeq
  <2>2. ReadUpto(STRING, left \o org, token, Len(left), Append(pieces, <<>>))
    BY <1>1, <1>4, <2>1
  <2>3. find(org, token, 0) = npos
    BY <1>4
  <2>4. Fields(left \o org, token) = Append(pieces, org)
    BY <1>1, <1>4, <2>2, <2>3, ReadPiece
  <2> QED
    BY <2>1, <2>4
<1> QED
  BY <1>1, <1>3, <1>4 DEF CutInv

LEMMA SomethingCut ==
  ASSUME CutInv, job \in {"cut", "split"}, NEW p, p \in Occurrences(org, token),
         NEW forward \in BOOLEAN, CutAt(p, forward),
         job = "split" => p = find(org, token, 0) /\ forward
  PROVE  CutInv'
<1>1. /\ source \in Seq(STRING) /\ token \in Seq(STRING) /\ token # <<>>
      /\ org \in Seq(STRING) /\ left \in Seq(STRING) /\ right \in Seq(STRING)
      /\ (left \o org) \o right = source
      /\ job = "split" => /\ right = <<>> /\ pieces \in Seq(Seq(STRING))
                          /\ ReadUpto(STRING, source, token, Len(left), Append(pieces, <<>>))
  BY DEF CutInv
<1>2. PICK e : e = Extracted(org, token, p, forward, TRUE)
  OBVIOUS
<1>3. IsCut(e, STRING, org, token, forward)
  BY <1>1, <1>2, CutOff
<1>4. PICK out, rest : out = e.out /\ rest = e.org
  OBVIOUS
<1>5. /\ out \in Seq(STRING) /\ rest \in Seq(STRING) /\ rest # org
      /\ forward => org = (out \o token) \o rest
      /\ ~forward => org = (rest \o token) \o out
  BY <1>3, <1>4 DEF IsCut
<1>6. /\ org' = rest /\ job' = job /\ source' = source /\ token' = token
      /\ pieces' = Append(pieces, out)
      /\ left' = IF forward THEN (left \o out) \o token ELSE left
      /\ right' = IF forward THEN right ELSE (token \o out) \o right
  BY <1>2, <1>4, <1>5 DEF CutAt
<1>7. /\ org' \in Seq(STRING) /\ left' \in Seq(STRING) /\ right' \in Seq(STRING)
      /\ (left' \o org') \o right' = source
  <2>1. CASE forward
    <3>1. InFront(STRING, left, out, token, rest)
      BY <1>1, <1>5, StaysInFront
    <3> QED
      BY <1>1, <1>5, <1>6, <2>1, <3>1, Zenon DEF InFront
  <2>2. CASE ~forward
    <3>1. Behind(STRING, left, rest, token, out, right)
      BY <1>1, <1>5, StaysBehind
    <3> QED
      BY <1>1, <1>5, <1>6, <2>2, <3>1, Zenon DEF Behind
  <2> QED
    BY <2>1, <2>2
<1>8. ASSUME job = "split"
      PROVE  /\ right' = <<>> /\ pieces' \in Seq(Seq(STRING))
             /\ ReadUpto(STRING, source, token, Len(left'), Append(pieces', <<>>))
  <2>1. left \o org = source
    <3>1. left \o org \in Seq(STRING)
      BY <1>1
    <3> QED
      BY <1>1, <1>8, <3>1, ConcatEmptySeq
  <2>2. ReadUpto(STRING, left \o org, token, Len(left), Append(pieces, <<>>))
    BY <1>1, <1>8, <2>1
  <2>3. find(org, token, 0) = p /\ p # npos /\ p \in Nat /\ p \in 0 .. Len(org)
    BY <1>1, <1>8, Occurring DEF npos
  <2>4. out = Before(org, p)
    BY <1>2, <1>4, <1>8, <2>3 DEF Extracted
  <2>5. ReadUpto(STRING, source, token, Len(left) + (p + Len(token)),
                 Append(Append(pieces, out), <<>>))
    BY <1>1, <1>8, <2>1, <2>2, <2>3, <2>4, ReadPiece
  <2>6. Len(out) = p
    BY <1>1, <2>3, <2>4, Cutting
  <2>7. Len(left') = Len(left) + (p + Len(token))
    <3>1. InFront(STRING, left, out, token, rest)
      BY <1>1, <1>5, StaysInFront
    <3> QED
      BY <1>6, <1>8, <2>6, <3>1 DEF InFront
  <2> QED
    BY <1>1, <1>5, <1>6, <1>8, <2>5, <2>7
<1> QED
  BY <1>1, <1>6, <1>7, <1>8 DEF CutInv

LEMMA CutStepInv == CutInv /\ [TextNext]_textVars => CutInv'
<1> SUFFICES ASSUME CutInv, [TextNext]_textVars PROVE CutInv'
  OBVIOUS
<1>1. ASSUME NEW p, NEW forward \in BOOLEAN, CutAt(p, forward), job \in {"cut", "split"},
             p \in {find(org, token, 0), rfind(org, token)},
             job = "split" => p = find(org, token, 0) /\ forward
      PROVE  CutInv'
  <2>1. org \in Seq(STRING) /\ token \in Seq(STRING)
    BY <1>1 DEF CutInv
  <2>2. p = npos \/ p \in Occurrences(org, token)
    <3>1. CASE p = find(org, token, 0)
      BY <2>1, <3>1, FindIs
    <3>2. CASE p = rfind(org, token)
      BY <2>1, <3>2, RfindIs
    <3> QED
      BY <1>1, <3>1, <3>2
  <2>3. CASE p = npos
    BY <1>1, <2>3, NothingCut
  <2>4. CASE p \in Occurrences(org, token)
    BY <1>1, <2>4, SomethingCut
  <2> QED
    BY <2>2, <2>3, <2>4
<1>2. ASSUME NEW forward \in BOOLEAN, CutFirst(forward) PROVE CutInv'
  <2>1. CutAt(find(org, token, 0), forward)
    BY <1>2 DEF CutFirst, Cut, CutAt, extract_first_token, inputs
  <2> QED
    BY <1>1, <1>2, <2>1 DEF CutFirst
<1>3. ASSUME NEW forward \in BOOLEAN, CutLast(forward) PROVE CutInv'
  <2>1. CutAt(rfind(org, token), forward)
    BY <1>3 DEF CutLast, Cut, CutAt, extract_last_token, inputs
  <2> QED
    BY <1>1, <1>3, <2>1 DEF CutLast
<1>4. CASE Split
  <2>1. CutAt(find(org, token, 0), TRUE)
    BY <1>4 DEF Split, Cut, CutAt, extract_first_token, inputs
  <2> QED
    BY <1>1, <1>4, <2>1 DEF Split
<1>5. CASE Replace
  BY <1>5 DEF Replace, CutInv
<1>6. CASE DumpLine
  BY <1>6 DEF DumpLine, CutInv
<1>7. CASE AddTime
  BY <1>7 DEF AddTime, CutInv
<1>8. CASE UNCHANGED textVars
  BY <1>8 DEF textVars, inputs, CutInv
<1> QED
  BY <1>2, <1>3, <1>4, <1>5, <1>6, <1>7, <1>8 DEF TextNext
-----------------------------------------------------------------------------
(* Fields that are joined again *)

Joins(f, X, fs, t) ==
  /\ f \in [0 .. Len(fs) -> Seq(X)] /\ f[0] = <<>>
  /\ \A n \in 1 .. Len(fs) : f[n] = IF n = 1 THEN fs[1] ELSE (f[n - 1] \o t) \o fs[n]

LEMMA JoinedIs ==
  ASSUME NEW X, NEW fs \in Seq(Seq(X)), NEW t \in Seq(X)
  PROVE  \E f : Joins(f, X, fs, t) /\ Joined(fs, t) = f[Len(fs)]
<1> DEFINE l == Len(fs)
<1> DEFINE Fits(f) == f = [n \in 0 .. l |->
                            IF n = 0 THEN <<>>
                            ELSE IF n = 1 THEN fs[1] ELSE (f[n - 1] \o t) \o fs[n]]
<1> DEFINE joined == CHOOSE f : Fits(f)
<1> DEFINE step == [n \in Nat |-> [r \in Seq(X) |->
                     IF n \notin 1 .. l THEN r ELSE IF n = 1 THEN fs[1] ELSE (r \o t) \o fs[n]]]
<1>1. l \in Nat /\ \A n \in 1 .. l : fs[n] \in Seq(X)
  OBVIOUS
<1>2. step \in [Nat -> [Seq(X) -> Seq(X)]]
  <2> SUFFICES ASSUME NEW n \in Nat, NEW r \in Seq(X), n \in 1 .. l
               PROVE  (IF n = 1 THEN fs[1] ELSE (r \o t) \o fs[n]) \in Seq(X)
    OBVIOUS
  <2>1. PICK x \in Seq(X) : x = fs[n]
    BY <1>1
  <2>2. (r \o t) \o x \in Seq(X)
    <3>1. r \o t \in Seq(X)
      OBVIOUS
    <3> QED
      BY <3>1
  <2> QED
    BY <2>1, <2>2
<1>3. <<>> \in Seq(X)
  BY EmptySeq
<1>4. PICK f \in [0 .. l -> Seq(X)] : Follows(f, <<>>, step, l)
  <2> HIDE DEF step
  <2> QED
    BY <1>1, <1>2, <1>3, Recursion
<1>5. Joins(f, X, fs, t)
  <2>1. ASSUME NEW n \in 1 .. l
        PROVE  f[n] = IF n = 1 THEN fs[1] ELSE (f[n - 1] \o t) \o fs[n]
    <3>1. n \in Nat /\ n - 1 \in 0 .. l
      BY <1>1
    <3>2. f[n] = step[n][f[n - 1]] /\ f[n - 1] \in Seq(X)
      BY <1>4, <3>1 DEF Follows
    <3>3. PICK r \in Seq(X) : r = f[n - 1]
      BY <3>2
    <3>4. step[n][r] = IF n = 1 THEN fs[1] ELSE (r \o t) \o fs[n]
      BY <3>1
    <3> QED
      BY <3>2, <3>3, <3>4, Zenon
  <2> QED
    BY <1>4, <2>1 DEF Joins, Follows
<1>6. Fits(f)
  <2>1. \A n \in 0 .. l : f[n] = IF n = 0 THEN <<>>
                                 ELSE IF n = 1 THEN fs[1] ELSE (f[n - 1] \o t) \o fs[n]
    <3>1. PICK none : none = <<>>
      OBVIOUS
    <3>2. /\ f[0] = none
          /\ \A n \in 1 .. l : f[n] = IF n = 1 THEN fs[1] ELSE (f[n - 1] \o t) \o fs[n]
      BY <1>5, <3>1 DEF Joins
    <3>3. \A n \in 0 .. l : n = 0 \/ (n # 0 /\ n \in 1 .. l)
      BY <1>1
    <3> QED
      BY <3>1, <3>2, <3>3, Zenon
  <2>2. f = [n \in 0 .. l |-> f[n]]
    BY <1>4
  <2> QED
    BY <2>1, <2>2
<1>7. Fits(joined)
  BY <1>6
<1>8. joined = f
  <2> DEFINE S == {n \in Nat : n \in 0 .. l => joined[n] = f[n]}
  <2>0. \A n \in 0 .. l : joined[n] = IF n = 0 THEN <<>> ELSE
                                      IF n = 1 THEN fs[1] ELSE (joined[n - 1] \o t) \o fs[n]
    <3> HIDE DEF joined
    <3> QED
      BY <1>7
  <2>1. DOMAIN joined = 0 .. l /\ joined = [n \in 0 .. l |-> joined[n]]
    <3> HIDE DEF joined
    <3> QED
      BY <1>7
  <2> HIDE DEF joined
  <2>2. 0 \in S
    BY <1>5, <2>0 DEF Joins
  <2>3. ASSUME NEW n \in Nat, n \in S PROVE n + 1 \in S
    <3> SUFFICES ASSUME n + 1 \in 0 .. l PROVE joined[n + 1] = f[n + 1]
      OBVIOUS
    <3>1. PICK m : m = n + 1
      OBVIOUS
    <3>2. n \in 0 .. l /\ m \in 1 .. l /\ m \in 0 .. l /\ m - 1 = n /\ m # 0
      BY <1>1, <3>1
    <3>3. joined[n] = f[n]
      BY <2>3, <3>2
    <3>4. f[m] = IF m = 1 THEN fs[1] ELSE (f[n] \o t) \o fs[m]
      BY <1>5, <3>2, Zenon DEF Joins
    <3>5. joined[m] = IF m = 1 THEN fs[1] ELSE (joined[n] \o t) \o fs[m]
      BY <2>0, <3>2, Zenon
    <3> QED
      BY <3>1, <3>3, <3>4, <3>5, Zenon
  <2>4. Nat \subseteq S
    <3> HIDE DEF S
    <3> QED
      BY <2>2, <2>3, Induction
  <2>5. \A n \in 0 .. l : joined[n] = f[n]
    BY <1>1, <2>4
  <2> QED
    BY <1>4, <2>1, <2>5
<1>9. Joined(fs, t) = joined[l]
  BY DEF Joined
<1> QED
  BY <1>5, <1>8, <1>9

LEMMA JoinedText ==
  ASSUME NEW X, NEW fs \in Seq(Seq(X)), NEW t \in Seq(X)
  PROVE  Joined(fs, t) \in Seq(X)
<1>1. PICK f : Joins(f, X, fs, t) /\ Joined(fs, t) = f[Len(fs)]
  BY JoinedIs
<1>2. Len(fs) \in 0 .. Len(fs)
  OBVIOUS
<1> QED
  BY <1>1, <1>2 DEF Joins

\* One more field comes behind the separator, the first one behind nothing.
LEMMA JoinedNext ==
  ASSUME NEW X, NEW fs \in Seq(Seq(X)), NEW x \in Seq(X), NEW t \in Seq(X)
  PROVE  Joined(Append(fs, x), t) = IF fs = <<>> THEN x ELSE (Joined(fs, t) \o t) \o x
<1>1. PICK gs, l : gs = Append(fs, x) /\ l = Len(fs)
  OBVIOUS
<1>2. /\ gs \in Seq(Seq(X)) /\ Len(gs) = l + 1 /\ l \in Nat /\ gs[l + 1] = x
      /\ \A n \in 1 .. l : gs[n] = fs[n]
  BY <1>1
<1>3. PICK f : Joins(f, X, fs, t) /\ Joined(fs, t) = f[l]
  BY <1>1, JoinedIs
<1>4. PICK g : Joins(g, X, gs, t) /\ Joined(gs, t) = g[l + 1]
  BY <1>2, JoinedIs
<1>5. g[l + 1] = IF l + 1 = 1 THEN gs[1] ELSE (g[l] \o t) \o gs[l + 1]
  <2>1. PICK m : m = l + 1
    OBVIOUS
  <2>2. m \in 1 .. Len(gs) /\ m - 1 = l
    BY <1>2, <2>1
  <2> QED
    BY <1>4, <2>1, <2>2, Zenon DEF Joins
<1>6. CASE fs = <<>>
  <2>1. l = 0 /\ gs[1] = x
    BY <1>1, <1>2, <1>6
  <2>2. l + 1 = 1
    BY <2>1
  <2> QED
    BY <1>1, <1>4, <1>5, <1>6, <2>1, <2>2, Zenon
<1>7. CASE fs # <<>>
  <2>1. l # 0
    BY <1>1, <1>7, EmptySeq
  <2> DEFINE S == {n \in Nat : n <= l => g[n] = f[n]}
  <2>2. 0 \in S
    BY <1>3, <1>4 DEF Joins
  <2>3. ASSUME NEW n \in Nat, n \in S PROVE n + 1 \in S
    <3> SUFFICES ASSUME n + 1 <= l PROVE g[n + 1] = f[n + 1]
      OBVIOUS
    <3>1. PICK m : m = n + 1
      OBVIOUS
    <3>2. m \in 1 .. l /\ m \in 1 .. Len(gs) /\ m - 1 = n /\ n <= l /\ 1 \in 1 .. l
      BY <1>2, <3>1
    <3>3. g[n] = f[n] /\ gs[m] = fs[m] /\ gs[1] = fs[1]
      BY <1>2, <2>3, <3>2
    <3>4. f[m] = IF m = 1 THEN fs[1] ELSE (f[n] \o t) \o fs[m]
      BY <1>1, <1>3, <3>2, Zenon DEF Joins
    <3>5. g[m] = IF m = 1 THEN gs[1] ELSE (g[n] \o t) \o gs[m]
      BY <1>4, <3>2, Zenon DEF Joins
    <3> QED
      BY <3>1, <3>3, <3>4, <3>5, Zenon
  <2>4. Nat \subseteq S
    <3> HIDE DEF S
    <3> QED
      BY <2>2, <2>3, Induction
  <2>5. g[l] = f[l]
    BY <1>2, <2>4
  <2>6. l + 1 # 1
    BY <1>2, <2>1
  <2> QED
    BY <1>1, <1>2, <1>3, <1>4, <1>5, <1>7, <2>5, <2>6, Zenon
<1> QED
  BY <1>6, <1>7

\* The last field, with nothing in it yet, grows, or it ends with the separator.
LEMMA JoinedSoFar ==
  ASSUME NEW X, NEW fs \in Seq(Seq(X)), NEW x \in Seq(X), NEW t \in Seq(X)
  PROVE  /\ Joined(Append(fs, <<>>), t) \in Seq(X)
         /\ Joined(Append(fs, x), t) = Joined(Append(fs, <<>>), t) \o x
<1>1. PICK none \in Seq(X) : none = <<>>
  BY EmptySeq
<1>2. Append(fs, none) \in Seq(Seq(X))
  OBVIOUS
<1>3. Joined(Append(fs, none), t) \in Seq(X)
  BY <1>2, JoinedText
<1>4. /\ Joined(Append(fs, x), t) = IF fs = <<>> THEN x ELSE (Joined(fs, t) \o t) \o x
      /\ Joined(Append(fs, none), t) = IF fs = <<>> THEN none ELSE (Joined(fs, t) \o t) \o none
  BY JoinedNext
<1>5. PICK j : j = Joined(fs, t) \o t
  OBVIOUS
<1>6. j \in Seq(X)
  <2>1. Joined(fs, t) \in Seq(X)
    BY JoinedText
  <2> QED
    BY <1>5, <2>1
<1>7. none \o x = x /\ j \o none = j
  BY <1>1, <1>6, ConcatEmptySeq
<1> QED
  BY <1>1, <1>3, <1>4, <1>5, <1>7, Zenon

LEMMA JoinedEnds ==
  ASSUME NEW X, NEW fs \in Seq(Seq(X)), NEW x \in Seq(X), NEW t \in Seq(X)
  PROVE  Joined(Append(Append(fs, x), <<>>), t) = (Joined(Append(fs, <<>>), t) \o x) \o t
<1>1. PICK none \in Seq(X) : none = <<>>
  BY EmptySeq
<1>2. PICK gs : gs = Append(fs, x)
  OBVIOUS
<1>3. gs \in Seq(Seq(X)) /\ gs # <<>>
  BY <1>2, LastOfRow
<1>4. Joined(Append(gs, none), t) = (Joined(gs, t) \o t) \o none
  BY <1>3, JoinedNext
<1>5. PICK j : j = Joined(gs, t)
  OBVIOUS
<1>6. j \in Seq(X)
  BY <1>3, <1>5, JoinedText
<1>7. j \o t \in Seq(X)
  BY <1>6
<1>8. (j \o t) \o none = j \o t
  BY <1>1, <1>7, ConcatEmptySeq
<1>9. Joined(Append(fs, x), t) = Joined(Append(fs, <<>>), t) \o x
  BY JoinedSoFar
<1> QED
  BY <1>1, <1>2, <1>4, <1>5, <1>8, <1>9, Zenon
-----------------------------------------------------------------------------
(* Texts in a row *)

LEMMA CutBehind ==
  ASSUME NEW X, NEW r \in Seq(X), NEW o \in Seq(X), NEW p \in 0 .. Len(o)
  PROVE  /\ Before(r \o o, Len(r) + p) = r \o Before(o, p)
         /\ Since(r \o o, Len(r) + p) = Since(o, p)
<1>1. PICK s, m : s = r \o o /\ m = Len(r) + p
  OBVIOUS
<1>2. /\ s \in Seq(X) /\ Len(s) = Len(r) + Len(o) /\ Len(r) \in Nat /\ Len(o) \in Nat
      /\ \A i \in 1 .. Len(s) : s[i] = IF i <= Len(r) THEN r[i] ELSE o[i - Len(r)]
  BY <1>1, ConcatProperties
<1>3. m \in 0 .. Len(s) /\ p \in Nat
  BY <1>1, <1>2
<1>4. PICK b, d, u, v : /\ b = Before(s, m) /\ d = Since(s, m)
                        /\ u = Before(o, p) /\ v = Since(o, p)
  OBVIOUS
<1>5. /\ b \in Seq(X) /\ Len(b) = m /\ \A i \in 1 .. m : b[i] = s[i]
      /\ d \in Seq(X) /\ Len(d) = Len(s) - m /\ \A i \in 1 .. Len(s) - m : d[i] = s[m + i]
  BY <1>2, <1>3, <1>4, Cutting
<1>6. /\ u \in Seq(X) /\ Len(u) = p /\ \A i \in 1 .. p : u[i] = o[i]
      /\ v \in Seq(X) /\ Len(v) = Len(o) - p /\ \A i \in 1 .. Len(o) - p : v[i] = o[p + i]
  BY <1>4, Cutting
<1>7. b = r \o u
  <2>1. PICK w : w = r \o u
    OBVIOUS
  <2>2. /\ w \in Seq(X) /\ Len(w) = Len(r) + p
        /\ \A i \in 1 .. Len(r) + p : w[i] = IF i <= Len(r) THEN r[i] ELSE u[i - Len(r)]
    BY <1>6, <2>1, ConcatProperties, ZenonT(60)
  <2>3. ASSUME NEW i \in 1 .. m PROVE b[i] = w[i]
    <3>1. b[i] = s[i] /\ i \in 1 .. Len(s) /\ i \in 1 .. Len(r) + p
      BY <1>1, <1>2, <1>3, <1>5
    <3>2. CASE i <= Len(r)
      BY <1>2, <2>2, <3>1, <3>2
    <3>3. CASE ~(i <= Len(r))
      <4>1. PICK j : j = i - Len(r)
        OBVIOUS
      <4>2. j \in 1 .. p
        BY <1>1, <1>2, <1>3, <3>3, <4>1
      <4> QED
        BY <1>2, <1>6, <2>2, <3>1, <3>3, <4>1, <4>2
    <3> QED
      BY <3>2, <3>3
  <2> QED
    BY <1>1, <1>5, <2>1, <2>2, <2>3, SeqEqual
<1>8. d = v
  <2>1. Len(d) = Len(v)
    BY <1>1, <1>2, <1>3, <1>5, <1>6
  <2>2. ASSUME NEW i \in 1 .. Len(d) PROVE d[i] = v[i]
    <3>1. PICK j : j = m + i
      OBVIOUS
    <3>2. i \in 1 .. Len(s) - m /\ i \in 1 .. Len(o) - p
      BY <1>5, <1>6, <2>1
    <3>3. j \in 1 .. Len(s) /\ ~(j <= Len(r)) /\ j - Len(r) = p + i
      BY <1>1, <1>2, <1>3, <3>1, <3>2
    <3>4. d[i] = s[j] /\ v[i] = o[p + i]
      BY <1>5, <1>6, <3>1, <3>2
    <3>5. s[j] = o[j - Len(r)]
      BY <1>2, <3>3
    <3> QED
      BY <3>3, <3>4, <3>5
  <2> QED
    BY <1>5, <1>6, <2>1, <2>2, SeqEqual
<1> QED
  BY <1>1, <1>4, <1>7, <1>8

LEMMA SinceSince ==
  ASSUME NEW X, NEW s \in Seq(X), NEW k \in 0 .. Len(s), NEW p \in 0 .. Len(s) - k
  PROVE  Since(Since(s, k), p) = Since(s, k + p)
<1>1. PICK r, o : r = Before(s, k) /\ o = Since(s, k)
  OBVIOUS
<1>2. r \in Seq(X)
  BY <1>1, Cutting
<1>3. o \in Seq(X)
  BY <1>1, Cutting
<1>4. Len(r) = k /\ Len(o) = Len(s) - k /\ r \o o = s
  BY <1>1, Cutting
<1>5. p \in 0 .. Len(o)
  BY <1>4
<1>6. Since(r \o o, Len(r) + p) = Since(o, p)
  BY <1>2, <1>3, <1>5, CutBehind
<1> QED
  BY <1>1, <1>4, <1>6

\* Looking from where d begins is looking in d.
LEMMA FindBehind ==
  ASSUME NEW X, NEW r \in Seq(X), NEW d \in Seq(X), NEW t \in Seq(X)
  PROVE  find(r \o d, t, Len(r)) = IF find(d, t, 0) = npos THEN npos ELSE Len(r) + find(d, t, 0)
<1>1. PICK s, m : s = r \o d /\ m = Len(r)
  OBVIOUS
<1>2. /\ s \in Seq(X) /\ Len(s) = m + Len(d) /\ m \in Nat /\ Len(d) \in Nat /\ Len(t) \in Nat
      /\ \A i \in 1 .. Len(s) : s[i] = IF i <= m THEN r[i] ELSE d[i - m]
  BY <1>1, ConcatProperties
<1>3. ASSUME NEW q \in Occurrences(d, t) PROVE q \in Nat /\ m + q \in Occurrences(s, t)
  <2>1. /\ q \in Nat /\ q + Len(t) \in 0 .. Len(d)
        /\ \A i \in 1 .. Len(t) : d[q + i] = t[i]
    BY Occurring
  <2>2. PICK p : p = m + q
    OBVIOUS
  <2>3. p \in 0 .. Len(s) - Len(t)
    BY <1>2, <2>1, <2>2
  <2>4. ASSUME NEW i \in 1 .. Len(t) PROVE s[p + i] = t[i]
    <3>1. PICK j : j = p + i
      OBVIOUS
    <3>2. j \in 1 .. Len(s) /\ ~(j <= m) /\ j - m = q + i
      BY <1>2, <2>1, <2>2, <3>1
    <3> QED
      BY <1>2, <2>1, <3>1, <3>2
  <2>5. p \in Occurrences(s, t)
    BY <1>2, <2>3, <2>4, OccursWhere
  <2> QED
    BY <2>1, <2>2, <2>5
<1>4. ASSUME NEW p \in Occurrences(s, t), p >= m PROVE p \in Nat /\ p - m \in Occurrences(d, t)
  <2>1. /\ p \in Nat /\ p + Len(t) \in 0 .. Len(s)
        /\ \A i \in 1 .. Len(t) : s[p + i] = t[i]
    BY <1>2, Occurring
  <2>2. PICK q : q = p - m
    OBVIOUS
  <2>3. q \in 0 .. Len(d) - Len(t)
    BY <1>2, <1>4, <2>1, <2>2
  <2>4. ASSUME NEW i \in 1 .. Len(t) PROVE d[q + i] = t[i]
    <3>1. PICK j : j = p + i
      OBVIOUS
    <3>2. j \in 1 .. Len(s) /\ ~(j <= m) /\ j - m = q + i
      BY <1>2, <1>4, <2>1, <2>2, <3>1
    <3> QED
      BY <1>2, <2>1, <3>1, <3>2
  <2>5. q \in Occurrences(d, t)
    BY <2>3, <2>4, OccursWhere
  <2> QED
    BY <2>1, <2>2, <2>5
<1>5. PICK f, g : f = find(s, t, m) /\ g = find(d, t, 0)
  OBVIOUS
<1>6. \/ f = npos /\ \A p \in Occurrences(s, t) : p < m
      \/ /\ f \in Occurrences(s, t) /\ f >= m /\ f # npos
         /\ \A p \in Occurrences(s, t) : p >= m => f <= p
  BY <1>2, <1>5, FindIs
<1>7. \/ g = npos /\ \A q \in Occurrences(d, t) : q < 0
      \/ /\ g \in Occurrences(d, t) /\ g >= 0 /\ g # npos
         /\ \A q \in Occurrences(d, t) : q >= 0 => g <= q
  BY <1>2, <1>5, FindIs
<1>8. CASE g = npos
  <2>1. ASSUME f # npos PROVE FALSE
    <3>1. f \in Occurrences(s, t) /\ f >= m
      BY <1>6, <2>1
    <3>2. f \in Nat /\ f - m \in Occurrences(d, t)
      BY <1>4, <3>1
    <3>3. f - m < 0
      BY <1>7, <1>8, <3>2
    <3> QED
      BY <1>2, <3>1, <3>2, <3>3
  <2> QED
    BY <1>1, <1>5, <1>8, <2>1
<1>9. CASE g # npos
  <2>1. g \in Occurrences(d, t) /\ \A q \in Occurrences(d, t) : q >= 0 => g <= q
    BY <1>7, <1>9
  <2>2. g \in Nat /\ m + g \in Occurrences(s, t) /\ m + g >= m /\ ~(m + g < m)
    BY <1>2, <1>3, <2>1
  <2>3. f \in Occurrences(s, t) /\ f >= m /\ f <= m + g
    BY <1>6, <2>2
  <2>4. f \in Nat /\ f - m \in Occurrences(d, t)
    BY <1>4, <2>3
  <2>5. f - m >= 0
    BY <1>2, <2>3, <2>4
  <2>6. g <= f - m
    BY <2>1, <2>4, <2>5
  <2>7. f = m + g
    BY <1>2, <2>2, <2>3, <2>4, <2>6
  <2> QED
    BY <1>1, <1>5, <1>9, <2>7
<1> QED
  BY <1>8, <1>9
-----------------------------------------------------------------------------
(* What is replaced *)

\* The text is the first fields with the spare between them, and the rest behind it.
ReplacedAt(k, row) ==
  LET done == Joined(Append(row, <<>>), spare)
      next == find(Since(source, k), token, 0)
  IN  /\ ReadUpto(STRING, source, token, k, Append(row, <<>>))
      /\ count = Len(row)
      /\ org = done \o Since(source, k)
      /\ pos = IF next = npos THEN npos ELSE Len(done) + next

ReplaceInv ==
  job = "replace" =>
    /\ source \in Seq(STRING) /\ token \in Seq(STRING) /\ token # <<>> /\ spare \in Seq(STRING)
    /\ \E k \in Nat, row \in Seq(Seq(STRING)) : ReplacedAt(k, row)

LEMMA ReplaceStarts == TextInit => ReplaceInv
<1> SUFFICES ASSUME TextInit, job = "replace" PROVE ReplaceInv
  BY DEF ReplaceInv
<1>1. source \in Texts /\ token \in Tokens /\ spare \in Tokens \cup {<<>>}
  BY DEF TextInit
<1>2. org = source /\ count = 0 /\ pos = find(source, token, 0)
  BY DEF TextInit
<1>3. PICK none \in Seq(STRING) : none = <<>>
  BY EmptySeq
<1>4. source \in Seq(STRING) /\ token \in Seq(STRING) /\ token # <<>> /\ spare \in Seq(STRING)
  BY <1>1, <1>3, TextAssumption
<1>5. PICK row \in Seq(Seq(STRING)) : row = <<>>
  BY EmptySeq
<1>6. Len(row) = 0 /\ Append(row, none) = <<none>>
  BY <1>5
<1>7. ReadUpto(STRING, source, token, 0, Append(row, <<>>))
  BY <1>3, <1>4, <1>6, ReadNothing
<1>8. Joined(Append(row, none), spare) = none
  BY <1>3, <1>4, <1>5, JoinedNext
<1>9. Since(source, 0) = source
  <2>1. SubSeq(source, 1, Len(source)) = source
    BY <1>4, SubSeqFull
  <2> QED
    BY <2>1 DEF Since
<1>10. none \o source = source /\ Len(none) = 0
  BY <1>3, <1>4, ConcatEmptySeq
<1>11. pos = IF find(source, token, 0) = npos THEN npos ELSE 0 + find(source, token, 0)
  <2>1. find(source, token, 0) = npos \/ find(source, token, 0) \in Nat
    BY <1>4, FindIs
  <2> QED
    BY <1>2, <2>1
<1>12. ReplacedAt(0, row)
  BY <1>2, <1>3, <1>6, <1>7, <1>8, <1>9, <1>10, <1>11 DEF ReplacedAt
<1> QED
  BY <1>4, <1>12 DEF ReplaceInv

\* The field in front of the token that was found, and the spare for the token.
LEMMA ReplaceStep ==
  ASSUME ReplaceInv, Replace
  PROVE  ReplaceInv'
<1>1. /\ source \in Seq(STRING) /\ token \in Seq(STRING) /\ token # <<>> /\ spare \in Seq(STRING)
      /\ job = "replace"
  BY DEF ReplaceInv, Replace
<1>2. PICK k \in Nat, row \in Seq(Seq(STRING)) : ReplacedAt(k, row)
  BY <1>1 DEF ReplaceInv
<1>3. PICK done, o, p : /\ done = Joined(Append(row, <<>>), spare) /\ o = Since(source, k)
                        /\ p = find(o, token, 0)
  OBVIOUS
<1>4. /\ ReadUpto(STRING, source, token, k, Append(row, <<>>)) /\ count = Len(row)
      /\ org = done \o o /\ pos = IF p = npos THEN npos ELSE Len(done) + p
  BY <1>2, <1>3 DEF ReplacedAt
<1>5. k \in 0 .. Len(source) /\ Len(source) \in Nat /\ Len(token) \in Nat /\ Len(spare) \in Nat
  BY <1>1, <1>4 DEF ReadUpto
<1>6. PICK l : l = Before(source, k)
  OBVIOUS
<1>7. l \in Seq(STRING) /\ Len(l) = k
  BY <1>1, <1>5, <1>6, Cutting
<1>8. o \in Seq(STRING) /\ Len(o) = Len(source) - k /\ l \o o = source
  BY <1>1, <1>3, <1>5, <1>6, Cutting
<1>9. done \in Seq(STRING) /\ Len(done) \in Nat
  BY <1>1, <1>3, EmptySeq, JoinedSoFar
<1>10. p # npos /\ pos = Len(done) + p
  BY <1>4 DEF Replace
<1>11. p \in Occurrences(o, token)
  BY <1>1, <1>3, <1>8, <1>10, FindIs
<1>12. p \in Nat /\ p \in 0 .. Len(o) /\ p + Len(token) \in 0 .. Len(o)
  BY <1>1, <1>8, <1>11, Occurring
<1>13. PICK b, d, n : b = Before(o, p) /\ d = Since(o, p + Len(token)) /\ n = p + Len(token)
  OBVIOUS
<1>14. b \in Seq(STRING) /\ Len(b) = p
  BY <1>8, <1>12, <1>13, Cutting
<1>15. d \in Seq(STRING)
  BY <1>8, <1>12, <1>13, Cutting
<1>16. d = Since(source, k + n) /\ k + n \in Nat
  <2>1. n \in 0 .. Len(source) - k
    BY <1>8, <1>12, <1>13
  <2>2. Since(Since(source, k), n) = Since(source, k + n)
    BY <1>1, <1>5, <2>1, SinceSince
  <2> QED
    BY <1>3, <1>12, <1>13, <2>2
<1>17. Before(org, pos) = done \o b
  <2>1. Before(done \o o, Len(done) + p) = done \o Before(o, p)
    BY <1>8, <1>9, <1>12, CutBehind
  <2> QED
    BY <1>4, <1>10, <1>13, <2>1
<1>18. Since(org, pos + Len(token)) = d
  <2>1. n \in 0 .. Len(o)
    BY <1>12, <1>13
  <2>2. Since(done \o o, Len(done) + n) = Since(o, n)
    BY <1>8, <1>9, <2>1, CutBehind
  <2>3. pos + Len(token) = Len(done) + n
    BY <1>5, <1>9, <1>10, <1>12, <1>13
  <2> QED
    BY <1>4, <1>13, <2>2, <2>3
<1>19. PICK then, wider : then = (done \o b) \o spare /\ wider = Append(row, b)
  OBVIOUS
<1>20. then \in Seq(STRING) /\ Len(then) = pos + Len(spare)
  <2>1. InFront(STRING, done, b, spare, spare)
    BY <1>1, <1>9, <1>14, StaysInFront
  <2>2. Len(done) + (p + Len(spare)) = pos + Len(spare)
    BY <1>5, <1>9, <1>10, <1>12
  <2> QED
    BY <1>14, <1>19, <2>1, <2>2 DEF InFront
<1>21. wider \in Seq(Seq(STRING)) /\ Len(wider) = count + 1
  BY <1>4, <1>14, <1>19
<1>22. then = Joined(Append(wider, <<>>), spare)
  <2>1. Joined(Append(Append(row, b), <<>>), spare)
          = (Joined(Append(row, <<>>), spare) \o b) \o spare
    <3>1. \A x, t \in Seq(STRING) : Joined(Append(Append(row, x), <<>>), t)
                                     = (Joined(Append(row, <<>>), t) \o x) \o t
      BY JoinedEnds
    <3> QED
      BY <1>1, <1>14, <3>1, Zenon
  <2> QED
    BY <1>3, <1>19, <2>1, Zenon
<1>23. ReadUpto(STRING, source, token, k + n, Append(wider, <<>>))
  <2>1. ReadUpto(STRING, l \o o, token, Len(l), Append(row, <<>>))
    BY <1>4, <1>7, <1>8
  <2>2. find(o, token, 0) # npos
    BY <1>3, <1>10
  <2>3. ReadUpto(STRING, l \o o, token, Len(l) + (find(o, token, 0) + Len(token)),
                 Append(Append(row, Before(o, find(o, token, 0))), <<>>))
    BY <1>1, <1>7, <1>8, <2>1, <2>2, ReadPiece
  <2> QED
    BY <1>3, <1>7, <1>8, <1>13, <1>19, <2>3
<1>24. /\ job' = job /\ source' = source /\ token' = token /\ spare' = spare
       /\ org' = then \o d /\ count' = count + 1
       /\ pos' = find(then \o d, token, Len(then))
  BY <1>17, <1>18, <1>19, <1>20 DEF Replace, inputs
<1>25. pos' = IF find(d, token, 0) = npos THEN npos ELSE Len(then) + find(d, token, 0)
  BY <1>1, <1>15, <1>20, <1>24, FindBehind
<1>26. ReplacedAt(k + n, wider)'
  BY <1>16, <1>21, <1>22, <1>23, <1>24, <1>25 DEF ReplacedAt
<1> QED
  BY <1>1, <1>16, <1>21, <1>24, <1>26 DEF ReplaceInv

LEMMA ReplaceStepInv == ReplaceInv /\ [TextNext]_textVars => ReplaceInv'
<1> SUFFICES ASSUME ReplaceInv, [TextNext]_textVars PROVE ReplaceInv'
  OBVIOUS
<1>1. ASSUME NEW forward \in BOOLEAN, CutFirst(forward) PROVE ReplaceInv'
  <2>1. job' # "replace"
    BY <1>1 DEF CutFirst, Cut
  <2> QED
    BY <2>1 DEF ReplaceInv
<1>2. ASSUME NEW forward \in BOOLEAN, CutLast(forward) PROVE ReplaceInv'
  <2>1. job' # "replace"
    BY <1>2 DEF CutLast, Cut
  <2> QED
    BY <2>1 DEF ReplaceInv
<1>3. CASE Split
  <2>1. job' # "replace"
    BY <1>3 DEF Split, Cut
  <2> QED
    BY <2>1 DEF ReplaceInv
<1>4. CASE Replace
  BY <1>4, ReplaceStep
<1>5. CASE DumpLine
  BY <1>5 DEF DumpLine, ReplaceInv
<1>6. CASE AddTime
  BY <1>6 DEF AddTime, ReplaceInv
<1>7. CASE UNCHANGED textVars
  BY <1>7 DEF textVars, inputs, ReplaceInv, ReplacedAt
<1> QED
  BY <1>1, <1>2, <1>3, <1>4, <1>5, <1>6, <1>7 DEF TextNext

\* What the invariant says when it is asked.
LEMMA ReplacedMeans == ReplaceInv => ReplacedOnce
<1> SUFFICES ASSUME ReplaceInv, job = "replace"
             PROVE  /\ count < Len(Fields(source, token))
                    /\ pos = npos => org = Joined(Fields(source, token), spare)
  BY DEF ReplacedOnce
<1>1. source \in Seq(STRING) /\ token \in Seq(STRING) /\ token # <<>> /\ spare \in Seq(STRING)
  BY DEF ReplaceInv
<1>2. PICK k \in Nat, row \in Seq(Seq(STRING)) : ReplacedAt(k, row)
  BY DEF ReplaceInv
<1>3. PICK done, o, p : /\ done = Joined(Append(row, <<>>), spare) /\ o = Since(source, k)
                        /\ p = find(o, token, 0)
  OBVIOUS
<1>4. /\ ReadUpto(STRING, source, token, k, Append(row, <<>>)) /\ count = Len(row)
      /\ org = done \o o /\ pos = IF p = npos THEN npos ELSE Len(done) + p
  BY <1>2, <1>3 DEF ReplacedAt
<1>5. k \in 0 .. Len(source) /\ Len(row) \in Nat
  BY <1>4 DEF ReadUpto
<1>6. PICK l : l = Before(source, k)
  OBVIOUS
<1>7. l \in Seq(STRING) /\ Len(l) = k
  BY <1>1, <1>5, <1>6, Cutting
<1>8. o \in Seq(STRING) /\ l \o o = source
  BY <1>1, <1>3, <1>5, <1>6, Cutting
<1>9. done \in Seq(STRING) /\ Len(done) \in Nat
  BY <1>1, <1>3, EmptySeq, JoinedSoFar
<1>10. count < Len(Fields(source, token))
  <2>1. PICK r : r = Append(row, <<>>)
    OBVIOUS
  <2>2. Len(r) \in Nat /\ Len(Fields(source, token)) \in Nat /\ Len(r) <= Len(Fields(source, token))
    BY <1>1, <1>4, <2>1, RowsGrow
  <2>3. Len(r) = Len(row) + 1
    BY <2>1, EmptySeq
  <2> QED
    BY <1>4, <1>5, <2>2, <2>3
<1>11. ASSUME pos = npos PROVE org = Joined(Fields(source, token), spare)
  <2>1. p = npos
    <3>1. p = npos \/ p \in Nat
      BY <1>1, <1>3, <1>8, FindIs
    <3> QED
      BY <1>4, <1>9, <1>11, <3>1 DEF npos
  <2>2. ReadUpto(STRING, l \o o, token, Len(l), Append(row, <<>>))
    BY <1>4, <1>7, <1>8
  <2>3. Fields(l \o o, token) = Append(row, o)
    BY <1>1, <1>3, <1>7, <1>8, <2>1, <2>2, ReadPiece, ZenonT(60)
  <2>4. Joined(Append(row, o), spare) = Joined(Append(row, <<>>), spare) \o o
    BY <1>1, <1>8, JoinedSoFar
  <2> QED
    BY <1>3, <1>4, <1>8, <2>3, <2>4
<1> QED
  BY <1>10, <1>11
-----------------------------------------------------------------------------
(* What is dumped *)

Lines(X) == [offset : Nat, first : Seq(X), last : Seq(X), ascii : Seq(X \cup {"."})]

Dumps(f, X, ls) ==
  /\ f \in [0 .. Len(ls) -> Seq(X)] /\ f[0] = <<>>
  /\ \A n \in 1 .. Len(ls) : f[n] = (f[n - 1] \o ls[n].first) \o ls[n].last

LEMMA DumpedIs ==
  ASSUME NEW X, NEW ls \in Seq(Lines(X))
  PROVE  \E f : Dumps(f, X, ls) /\ Dumped(ls) = f[Len(ls)]
<1> DEFINE l == Len(ls)
<1> DEFINE Fits(f) == f = [n \in 0 .. l |->
                            IF n = 0 THEN <<>>
                            ELSE (f[n - 1] \o ls[n].first) \o ls[n].last]
<1> DEFINE upto == CHOOSE f : Fits(f)
<1> DEFINE step == [n \in Nat |-> [r \in Seq(X) |->
                     IF n \in 1 .. l THEN (r \o ls[n].first) \o ls[n].last ELSE r]]
<1>1. l \in Nat /\ \A n \in 1 .. l : ls[n].first \in Seq(X) /\ ls[n].last \in Seq(X)
  <2>1. ASSUME NEW n \in 1 .. l PROVE ls[n].first \in Seq(X) /\ ls[n].last \in Seq(X)
    <3>1. ls[n] \in Lines(X)
      OBVIOUS
    <3> QED
      BY <3>1 DEF Lines
  <2> QED
    BY <2>1
<1>2. step \in [Nat -> [Seq(X) -> Seq(X)]]
  <2> SUFFICES ASSUME NEW n \in Nat, NEW r \in Seq(X), n \in 1 .. l
               PROVE  (r \o ls[n].first) \o ls[n].last \in Seq(X)
    OBVIOUS
  <2>1. PICK x \in Seq(X), y \in Seq(X) : x = ls[n].first /\ y = ls[n].last
    BY <1>1
  <2>2. r \o x \in Seq(X)
    OBVIOUS
  <2>3. (r \o x) \o y \in Seq(X)
    BY <2>2
  <2> QED
    BY <2>1, <2>3
<1>3. <<>> \in Seq(X)
  BY EmptySeq
<1>4. PICK f \in [0 .. l -> Seq(X)] : Follows(f, <<>>, step, l)
  <2> HIDE DEF step
  <2> QED
    BY <1>1, <1>2, <1>3, Recursion
<1>5. Dumps(f, X, ls)
  <2>1. ASSUME NEW n \in 1 .. l
        PROVE  f[n] = (f[n - 1] \o ls[n].first) \o ls[n].last
    <3>1. n \in Nat /\ n - 1 \in 0 .. l
      BY <1>1
    <3>2. f[n] = step[n][f[n - 1]] /\ f[n - 1] \in Seq(X)
      BY <1>4, <3>1 DEF Follows
    <3>3. PICK r \in Seq(X) : r = f[n - 1]
      BY <3>2
    <3>4. step[n][r] = (r \o ls[n].first) \o ls[n].last
      BY <3>1
    <3> QED
      BY <3>2, <3>3, <3>4, Zenon
  <2> QED
    BY <1>4, <2>1 DEF Dumps, Follows
<1>6. Fits(f)
  <2>1. \A n \in 0 .. l : f[n] = IF n = 0 THEN <<>>
                                 ELSE (f[n - 1] \o ls[n].first) \o ls[n].last
    <3>1. PICK none : none = <<>>
      OBVIOUS
    <3>2. /\ f[0] = none
          /\ \A n \in 1 .. l : f[n] = (f[n - 1] \o ls[n].first) \o ls[n].last
      BY <1>5, <3>1 DEF Dumps
    <3>3. \A n \in 0 .. l : n = 0 \/ (n # 0 /\ n \in 1 .. l)
      BY <1>1
    <3> QED
      BY <3>1, <3>2, <3>3, Zenon
  <2>2. f = [n \in 0 .. l |-> f[n]]
    BY <1>4
  <2> QED
    BY <2>1, <2>2
<1>7. Fits(upto)
  BY <1>6
<1>8. upto = f
  <2> DEFINE S == {n \in Nat : n \in 0 .. l => upto[n] = f[n]}
  <2>0. \A n \in 0 .. l : upto[n] = IF n = 0 THEN <<>> ELSE
                                      (upto[n - 1] \o ls[n].first) \o ls[n].last
    <3> HIDE DEF upto
    <3> QED
      BY <1>7
  <2>1. DOMAIN upto = 0 .. l /\ upto = [n \in 0 .. l |-> upto[n]]
    <3> HIDE DEF upto
    <3> QED
      BY <1>7
  <2> HIDE DEF upto
  <2>2. 0 \in S
    BY <1>5, <2>0 DEF Dumps
  <2>3. ASSUME NEW n \in Nat, n \in S PROVE n + 1 \in S
    <3> SUFFICES ASSUME n + 1 \in 0 .. l PROVE upto[n + 1] = f[n + 1]
      OBVIOUS
    <3>1. PICK m : m = n + 1
      OBVIOUS
    <3>2. n \in 0 .. l /\ m \in 1 .. l /\ m \in 0 .. l /\ m - 1 = n /\ m # 0
      BY <1>1, <3>1
    <3>3. upto[n] = f[n]
      BY <2>3, <3>2
    <3>4. f[m] = (f[n] \o ls[m].first) \o ls[m].last
      BY <1>5, <3>2, Zenon DEF Dumps
    <3>5. upto[m] = (upto[n] \o ls[m].first) \o ls[m].last
      BY <2>0, <3>2, Zenon
    <3> QED
      BY <3>1, <3>3, <3>4, <3>5, Zenon
  <2>4. Nat \subseteq S
    <3> HIDE DEF S
    <3> QED
      BY <2>2, <2>3, Induction
  <2>5. \A n \in 0 .. l : upto[n] = f[n]
    BY <1>1, <2>4
  <2> QED
    BY <1>4, <2>1, <2>5
<1>9. Dumped(ls) = upto[l]
  BY DEF Dumped
<1> QED
  BY <1>5, <1>8, <1>9

LEMMA DumpedNext ==
  ASSUME NEW X, NEW ls \in Seq(Lines(X)), NEW x \in Lines(X)
  PROVE  Dumped(Append(ls, x)) = (Dumped(ls) \o x.first) \o x.last
<1>1. PICK gs, l : gs = Append(ls, x) /\ l = Len(ls)
  OBVIOUS
<1>2. /\ gs \in Seq(Lines(X)) /\ Len(gs) = l + 1 /\ l \in Nat /\ gs[l + 1] = x
      /\ \A n \in 1 .. l : gs[n] = ls[n]
  BY <1>1
<1>3. PICK f : Dumps(f, X, ls) /\ Dumped(ls) = f[l]
  BY <1>1, DumpedIs
<1>4. PICK g : Dumps(g, X, gs) /\ Dumped(gs) = g[l + 1]
  BY <1>2, DumpedIs
<1>5. g[l + 1] = (g[l] \o x.first) \o x.last
  <2>1. PICK m : m = l + 1
    OBVIOUS
  <2>2. m \in 1 .. Len(gs) /\ m - 1 = l
    BY <1>2, <2>1
  <2>3. g[m] = (g[m - 1] \o gs[m].first) \o gs[m].last
    BY <1>4, <2>2, Zenon DEF Dumps
  <2> QED
    BY <1>2, <2>1, <2>2, <2>3, Zenon
<1> DEFINE S == {n \in Nat : n <= l => g[n] = f[n]}
<1>6. 0 \in S
  BY <1>3, <1>4 DEF Dumps
<1>7. ASSUME NEW n \in Nat, n \in S PROVE n + 1 \in S
  <2> SUFFICES ASSUME n + 1 <= l PROVE g[n + 1] = f[n + 1]
    OBVIOUS
  <2>1. PICK m : m = n + 1
    OBVIOUS
  <2>2. m \in 1 .. l /\ m \in 1 .. Len(gs) /\ m - 1 = n /\ n <= l
    BY <1>2, <2>1
  <2>3. g[n] = f[n] /\ gs[m] = ls[m]
    BY <1>2, <1>7, <2>2
  <2>4. f[m] = (f[n] \o ls[m].first) \o ls[m].last
    BY <1>1, <1>3, <2>2, Zenon DEF Dumps
  <2>5. g[m] = (g[n] \o gs[m].first) \o gs[m].last
    BY <1>4, <2>2, Zenon DEF Dumps
  <2> QED
    BY <2>1, <2>3, <2>4, <2>5, Zenon
<1>8. Nat \subseteq S
  <2> HIDE DEF S
  <2> QED
    BY <1>6, <1>7, Induction
<1>9. g[l] = f[l]
  BY <1>2, <1>8
<1> QED
  BY <1>1, <1>3, <1>4, <1>5, <1>9, Zenon

\* The part of s that a line shows, and the one its two halves show.
Shows(X, s, i, l) ==
  LET all == SubSeq(s, i + 1, Min({i + 2 * HALF, Len(s)}))
  IN  /\ l \in Lines(X) /\ l.offset = i
      /\ all \in Seq(X) /\ l.first \o l.last = all /\ Len(l.ascii) = Len(all)
      /\ Before(s, i) \o all = Before(s, Min({i + 2 * HALF, Len(s)}))

LEMMA LineShows ==
  ASSUME NEW s \in Seq(STRING), NEW i \in Nat, i < Len(s)
  PROVE  Shows(STRING, s, i, DumpedLine(s, i))
<1>1. HALF \in Nat \ {0} /\ Len(s) \in Nat
  BY TextAssumption
<1>2. PICK n, m, k : n = Len(s) /\ m = i + HALF /\ k = i + 2 * HALF
  OBVIOUS
<1>3. n \in Nat /\ m \in Nat /\ k \in Nat /\ i < n /\ i < m /\ m < k /\ k = m + HALF
  BY <1>1, <1>2
<1>4. PICK h, e : h = Min({m, n}) /\ e = Min({k, n})
  OBVIOUS
<1>5. /\ h = IF m <= n THEN m ELSE n
      /\ e = IF k <= n THEN k ELSE n
  BY <1>3, <1>4, LeastOfTwo
<1>6. h \in i .. n /\ e \in h .. n /\ e \in Nat /\ i + 1 \in 1 .. n + 1
  BY <1>3, <1>5
<1>7. PICK first, last, all : /\ first = SubSeq(s, i + 1, h) /\ last = SubSeq(s, m + 1, e)
                              /\ all = SubSeq(s, i + 1, e)
  OBVIOUS
<1>8. first \in Seq(STRING)
  <2>1. \A j \in i + 1 .. h : s[j] \in STRING
    BY <1>2, <1>3, <1>6
  <2> QED
    BY <1>6, <1>7, <2>1, SubSeqProperties
<1>9. last \in Seq(STRING) /\ Len(last) = IF m + 1 <= e THEN (e - (m + 1)) + 1 ELSE 0
  <2>1. \A j \in m + 1 .. e : s[j] \in STRING
    BY <1>2, <1>3, <1>6
  <2> QED
    BY <1>3, <1>6, <1>7, <2>1, SubSeqProperties
<1>10. all \in Seq(STRING)
  <2>1. \A j \in i + 1 .. e : s[j] \in STRING
    BY <1>2, <1>3, <1>6
  <2> QED
    BY <1>6, <1>7, <2>1, SubSeqProperties
<1>11. first \o last = all
  <2>1. SubSeq(s, i + 1, h) \o SubSeq(s, h + 1, e) = SubSeq(s, i + 1, e)
    <3>1. i + 1 \in 1 .. Len(s) + 1 /\ h \in (i + 1) - 1 .. Len(s) /\ e \in h .. Len(s)
      BY <1>2, <1>6
    <3> QED
      BY <3>1, ConcatAdjacentSubSeq
  <2>2. last = SubSeq(s, h + 1, e)
    <3>1. CASE m <= n
      BY <1>5, <1>7, <3>1
    <3>2. CASE ~(m <= n)
      <4>1. h = n /\ e = n /\ ~(m + 1 <= e)
        BY <1>3, <1>5, <3>2
      <4>2. last = <<>>
        BY <1>9, <4>1, EmptySeq
      <4>3. SubSeq(s, n + 1, n) = <<>>
        BY <1>3, SubSeqEmpty
      <4> QED
        BY <4>1, <4>2, <4>3
    <3> QED
      BY <3>1, <3>2
  <2> QED
    BY <1>7, <2>1, <2>2
<1>12. Before(s, i) \o all = Before(s, e)
  <2>1. 1 \in 1 .. Len(s) + 1 /\ i \in 1 - 1 .. Len(s) /\ e \in i .. Len(s)
    BY <1>2, <1>3, <1>6
  <2>2. SubSeq(s, 1, i) \o SubSeq(s, i + 1, e) = SubSeq(s, 1, e)
    BY <2>1, ConcatAdjacentSubSeq
  <2> QED
    BY <1>7, <2>2 DEF Before
<1> DEFINE char(c) == IF c \in Newlines THEN "." ELSE Shown(c)
<1>13. PICK ascii : ascii = [j \in DOMAIN all |-> char(all[j])]
  OBVIOUS
<1>14. ascii \in Seq(STRING \cup {"."}) /\ Len(ascii) = Len(all)
  <2>1. PICK c : c = Len(all)
    OBVIOUS
  <2>2. c \in Nat /\ DOMAIN all = 1 .. c /\ \A j \in 1 .. c : all[j] \in STRING
    BY <1>10, <2>1
  <2>3. ASSUME NEW j \in 1 .. c PROVE char(all[j]) \in STRING \cup {"."}
    <3>1. PICK x \in STRING : x = all[j]
      BY <2>2
    <3>2. char(x) = "." \/ char(x) = x
      BY Zenon DEF Shown
    <3>3. char(x) \in STRING \cup {"."}
      <4> HIDE DEF char
      <4> QED
        BY <3>2, Zenon
    <3> QED
      BY <3>1, <3>3, Zenon
  <2>4. ascii = [j \in 1 .. c |-> char(all[j])]
    BY <1>13, <2>2
  <2>5. ascii \in [1 .. c -> STRING \cup {"."}]
    <3> HIDE DEF char
    <3> QED
      BY <2>3, <2>4
  <2> QED
    BY <2>1, <2>2, <2>5, IsASeq
<1>15. PICK l : l = DumpedLine(s, i)
  OBVIOUS
<1>16. l = [offset |-> i, first |-> first, last |-> last, ascii |-> ascii]
  <2>1. (i + HALF) + HALF = k
    BY <1>2, <1>3
  <2> QED
    BY <1>2, <1>4, <1>7, <1>13, <1>15, <2>1 DEF DumpedLine
<1>17. l \in Lines(STRING) /\ l.offset = i /\ l.first = first /\ l.last = last /\ l.ascii = ascii
  BY <1>8, <1>9, <1>14, <1>16 DEF Lines
<1> QED
  BY <1>2, <1>4, <1>7, <1>10, <1>11, <1>12, <1>14, <1>15, <1>17 DEF Shows

\* The lines that have been written show the text as far as the next one begins.
DumpInv ==
  job = "dump" =>
    /\ source \in Seq(STRING) /\ pieces \in Seq(Lines(STRING))
    /\ pos = Len(pieces) * 2 * HALF
    /\ Dumped(pieces) = Before(source, Min({pos, Len(source)}))
    /\ \A i \in DOMAIN pieces :
          /\ pieces[i].offset = (i - 1) * 2 * HALF
          /\ Len(pieces[i].ascii) = Len(pieces[i].first \o pieces[i].last)

LEMMA DumpStarts == TextInit => DumpInv
<1> SUFFICES ASSUME TextInit, job = "dump" PROVE DumpInv
  BY DEF DumpInv
<1>1. source \in Texts
  BY DEF TextInit
<1>2. pieces = <<>> /\ pos = 0
  BY DEF TextInit
<1>3. source \in Seq(STRING) /\ Len(source) \in Nat /\ HALF \in Nat
  <2>1. source \in Seq(STRING)
    BY <1>1, TextAssumption
  <2> QED
    BY <2>1, TextAssumption
<1>4. PICK none \in Seq(Lines(STRING)) : none = <<>>
  BY EmptySeq
<1>5. Len(none) = 0 /\ DOMAIN none = {}
  BY <1>4
<1>6. Dumped(none) = <<>>
  <2>1. PICK f : Dumps(f, STRING, none) /\ Dumped(none) = f[Len(none)]
    BY DumpedIs
  <2> QED
    BY <1>5, <2>1 DEF Dumps
<1>7. Before(source, Min({0, Len(source)})) = <<>>
  <2>1. Min({0, Len(source)}) = 0
    BY <1>3, LeastOfTwo
  <2>2. SubSeq(source, 1, 0) = <<>>
    BY SubSeqEmpty
  <2> QED
    BY <2>1, <2>2 DEF Before
<1>8. pos = Len(pieces) * 2 * HALF
  BY <1>2, <1>3, <1>4, <1>5
<1> QED
  BY <1>2, <1>3, <1>4, <1>5, <1>6, <1>7, <1>8 DEF DumpInv

LEMMA DumpStep ==
  ASSUME DumpInv, DumpLine
  PROVE  DumpInv'
<1>1. /\ source \in Seq(STRING) /\ pieces \in Seq(Lines(STRING))
      /\ pos = Len(pieces) * 2 * HALF
      /\ Dumped(pieces) = Before(source, Min({pos, Len(source)}))
      /\ \A i \in DOMAIN pieces :
            /\ pieces[i].offset = (i - 1) * 2 * HALF
            /\ Len(pieces[i].ascii) = Len(pieces[i].first \o pieces[i].last)
  BY DEF DumpInv, DumpLine
<1>2. PICK ls, n, at : ls = pieces /\ n = Len(ls) /\ at = pos
  OBVIOUS
<1>3. n \in Nat /\ HALF \in Nat /\ Len(source) \in Nat /\ ls \in Seq(Lines(STRING))
  BY <1>1, <1>2, TextAssumption
<1>4. at \in Nat /\ at = (n * 2) * HALF /\ ((n + 1) * 2) * HALF = at + 2 * HALF
  <2>1. at = (n * 2) * HALF
    BY <1>1, <1>2
  <2>2. (n * 2) * HALF \in Nat /\ ((n + 1) * 2) * HALF = (n * 2) * HALF + 2 * HALF
    BY <1>3
  <2> QED
    BY <2>1, <2>2
<1>5. at < Len(source) /\ pos' = at + 2 * HALF /\ job' = job /\ source' = source
  BY <1>2 DEF DumpLine, inputs
<1>6. PICK l : l = DumpedLine(source, at)
  OBVIOUS
<1>7. pieces' = Append(ls, l)
  BY <1>2, <1>6 DEF DumpLine
<1>8. Shows(STRING, source, at, l)
  BY <1>1, <1>4, <1>5, <1>6, LineShows
<1>9. PICK all : all = SubSeq(source, at + 1, Min({at + 2 * HALF, Len(source)}))
  OBVIOUS
<1>10. /\ l \in Lines(STRING) /\ l.offset = at /\ all \in Seq(STRING)
       /\ l.first \o l.last = all /\ Len(l.ascii) = Len(all)
       /\ Before(source, at) \o all = Before(source, Min({pos', Len(source)}))
  BY <1>5, <1>8, <1>9 DEF Shows
<1>11. Dumped(pieces') = Before(source, Min({pos', Len(source)}))
  <2>1. Dumped(Append(ls, l)) = (Dumped(ls) \o l.first) \o l.last
    BY <1>3, <1>10, DumpedNext
  <2>2. Min({at, Len(source)}) = at
    BY <1>3, <1>4, <1>5, LeastOfTwo
  <2>3. Dumped(ls) = Before(source, at)
    BY <1>1, <1>2, <2>2
  <2>4. Before(source, at) \in Seq(STRING)
    <3>1. at \in 0 .. Len(source)
      BY <1>3, <1>4, <1>5
    <3> QED
      BY <1>1, <3>1, Cutting
  <2>5. l.first \in Seq(STRING) /\ l.last \in Seq(STRING)
    BY <1>10 DEF Lines
  <2>6. Regrouped(Before(source, at), l.first, l.last)
    BY <2>4, <2>5, Regrouping
  <2> QED
    BY <1>7, <1>10, <2>1, <2>3, <2>6, Zenon DEF Regrouped
<1>12. /\ pieces' \in Seq(Lines(STRING)) /\ Len(pieces') = n + 1 /\ DOMAIN pieces' = 1 .. n + 1
       /\ pieces'[n + 1] = l /\ \A i \in 1 .. n : pieces'[i] = ls[i]
  <2>1. PICK gs : gs = Append(ls, l)
    OBVIOUS
  <2>2. /\ gs \in Seq(Lines(STRING)) /\ Len(gs) = n + 1 /\ gs[n + 1] = l
        /\ \A i \in 1 .. n : gs[i] = ls[i]
    BY <1>2, <1>3, <1>10, <2>1, AppendProperties
  <2>3. DOMAIN gs = 1 .. n + 1
    BY <2>2
  <2> QED
    BY <1>7, <2>1, <2>2, <2>3
<1>13. ASSUME NEW i \in 1 .. n + 1
       PROVE  /\ pieces'[i].offset = (i - 1) * 2 * HALF
              /\ Len(pieces'[i].ascii) = Len(pieces'[i].first \o pieces'[i].last)
  <2>1. CASE i \in 1 .. n
    <3>1. i \in DOMAIN ls
      BY <1>2, <1>3, <2>1
    <3> QED
      BY <1>1, <1>2, <1>12, <2>1, <3>1
  <2>2. CASE i = n + 1
    <3>1. i - 1 = n
      BY <1>3, <2>2
    <3> QED
      BY <1>4, <1>10, <1>12, <2>2, <3>1
  <2>3. i \in 1 .. n \/ i = n + 1
    BY <1>3
  <2> QED
    BY <2>1, <2>2, <2>3, Zenon
<1>14. pos' = Len(pieces') * 2 * HALF
  BY <1>4, <1>5, <1>12
<1> QED
  BY <1>1, <1>5, <1>11, <1>12, <1>13, <1>14 DEF DumpInv

LEMMA DumpStepInv == DumpInv /\ [TextNext]_textVars => DumpInv'
<1> SUFFICES ASSUME DumpInv, [TextNext]_textVars PROVE DumpInv'
  OBVIOUS
<1>1. ASSUME NEW forward \in BOOLEAN, CutFirst(forward) PROVE DumpInv'
  <2>1. job' # "dump"
    BY <1>1 DEF CutFirst, Cut
  <2> QED
    BY <2>1 DEF DumpInv
<1>2. ASSUME NEW forward \in BOOLEAN, CutLast(forward) PROVE DumpInv'
  <2>1. job' # "dump"
    BY <1>2 DEF CutLast, Cut
  <2> QED
    BY <2>1 DEF DumpInv
<1>3. CASE Split
  <2>1. job' # "dump"
    BY <1>3 DEF Split, Cut
  <2> QED
    BY <2>1 DEF DumpInv
<1>4. CASE Replace
  BY <1>4 DEF Replace, DumpInv
<1>5. CASE DumpLine
  BY <1>5, DumpStep
<1>6. CASE AddTime
  BY <1>6 DEF AddTime, DumpInv
<1>7. CASE UNCHANGED textVars
  BY <1>7 DEF textVars, inputs, DumpInv
<1> QED
  BY <1>1, <1>2, <1>3, <1>4, <1>5, <1>6, <1>7 DEF TextNext
-----------------------------------------------------------------------------
\* Whatever is cut off a text, and from which end, what is left and what is cut off make
\* the text again, and the pieces of the loop that splits it are its fields;
\* find_and_replace_string ends, with every field in its place; every line of dump_memory
\* goes on where the one before has ended.  For texts of any length.
THEOREM TextStaysKept == TextSpec => []TextIsKept
<1> DEFINE Inv == CutInv /\ ReplaceInv /\ DumpInv
<1>1. TextInit => Inv
  BY CutStarts, ReplaceStarts, DumpStarts
<1>2. Inv /\ [TextNext]_textVars => Inv'
  BY CutStepInv, ReplaceStepInv, DumpStepInv
<1>3. Inv => TextIsKept
  <2>1. CutInv => CutsRejoin
    BY DEF CutInv, CutsRejoin
  <2>2. ReplaceInv => ReplacedOnce
    BY ReplacedMeans
  <2>3. DumpInv => DumpGoesOn
    BY DEF DumpInv, DumpGoesOn, Before
  <2> QED
    BY <2>1, <2>2, <2>3 DEF TextIsKept
<1> QED
  BY <1>1, <1>2, <1>3, PTL DEF TextSpec
-----------------------------------------------------------------------------
(* Addresses *)

\* Of a masked address every octet is known.
LEMMA Unmasked ==
  ASSUME NEW a, NEW mask, NEW ip, ip = Masked(a, mask)
  PROVE  /\ ip[1] = a[1] - (a[1] % (256 - mask[1])) /\ ip[2] = a[2] - (a[2] % (256 - mask[2]))
         /\ ip[3] = a[3] - (a[3] % (256 - mask[3])) /\ ip[4] = a[4] - (a[4] % (256 - mask[4]))
<1>1. \A i \in 1 .. 4 : ip[i] = a[i] - (a[i] % (256 - mask[i]))
  BY DEF Masked
<1> QED
  BY <1>1

\* Every network of the table lies in the block it is commented with.
LEMMA NetworkInBlock ==
  ASSUME NEW a \in [1 .. 4 -> 0 .. 255], NEW net \in reserved_net_and_masks,
         net.ip = Masked(a, net.mask)
  PROVE  \E b \in Named : In(b, a) /\ b.private = net.private
<1>1. a[1] \in 0 .. 255 /\ a[2] \in 0 .. 255
  OBVIOUS
<1>2. /\ net.ip[1] = a[1] - (a[1] % (256 - net.mask[1]))
      /\ net.ip[2] = a[2] - (a[2] % (256 - net.mask[2]))
  BY Unmasked
<1>3. CASE net = Network(TRUE, <<10, 0, 0, 0>>, <<255, 255, 255, 0>>)
  <2>1. a[1] - (a[1] % (256 - 255)) = 10 /\ a[2] - (a[2] % (256 - 255)) = 0 /\ net.private = TRUE
    BY <1>2, <1>3 DEF Network
  <2>2. (a[1] * 256 + a[2]) \div 256 = (10 * 256 + 0) \div 256
    BY <1>1, <2>1
  <2>3. In(Block(TRUE, <<10, 0, 0, 0>>, 8), a)
    BY <2>2 DEF In, Block
  <2> QED
    BY <2>1, <2>3 DEF Named, Block
<1>4. CASE net = Network(TRUE, <<192, 168, 0, 0>>, <<255, 255, 0, 0>>)
  <2>1. a[1] - (a[1] % (256 - 255)) = 192 /\ a[2] - (a[2] % (256 - 255)) = 168 /\ net.private = TRUE
    BY <1>2, <1>4 DEF Network
  <2>2. (a[1] * 256 + a[2]) \div 1 = (192 * 256 + 168) \div 1
    BY <1>1, <2>1
  <2>3. In(Block(TRUE, <<192, 168, 0, 0>>, 16), a)
    BY <2>2 DEF In, Block
  <2> QED
    BY <2>1, <2>3, ZenonT(60) DEF Named, Block
<1>5. CASE net = Network(TRUE, <<172, 16, 0, 0>>, <<255, 255, 240, 0>>)
  <2>1. a[1] - (a[1] % (256 - 255)) = 172 /\ a[2] - (a[2] % (256 - 255)) = 16 /\ net.private = TRUE
    BY <1>2, <1>5 DEF Network
  <2>2. (a[1] * 256 + a[2]) \div 16 = (172 * 256 + 16) \div 16
    BY <1>1, <2>1
  <2>3. In(Block(TRUE, <<172, 16, 0, 0>>, 12), a)
    BY <2>2 DEF In, Block
  <2> QED
    BY <2>1, <2>3, ZenonT(60) DEF Named, Block
<1>6. CASE net = Network(FALSE, <<224, 0, 0, 0>>, <<255, 255, 255, 240>>)
  <2>1. a[1] - (a[1] % (256 - 255)) = 224 /\ a[2] - (a[2] % (256 - 255)) = 0 /\ net.private = FALSE
    BY <1>2, <1>6 DEF Network
  <2>2. (a[1] * 256 + a[2]) \div 4096 = (224 * 256 + 0) \div 4096
    BY <1>1, <2>1
  <2>3. In(Block(FALSE, <<224, 0, 0, 0>>, 4), a)
    BY <2>2 DEF In, Block
  <2> QED
    BY <2>1, <2>3, ZenonT(60) DEF Named, Block
<1>7. CASE net = Network(FALSE, <<127, 0, 0, 0>>, <<255, 255, 255, 0>>)
  <2>1. a[1] - (a[1] % (256 - 255)) = 127 /\ a[2] - (a[2] % (256 - 255)) = 0 /\ net.private = FALSE
    BY <1>2, <1>7 DEF Network
  <2>2. (a[1] * 256 + a[2]) \div 256 = (127 * 256 + 0) \div 256
    BY <1>1, <2>1
  <2>3. In(Block(FALSE, <<127, 0, 0, 0>>, 8), a)
    BY <2>2 DEF In, Block
  <2> QED
    BY <2>1, <2>3, ZenonT(60) DEF Named, Block
<1>8. CASE net = Network(FALSE, <<169, 254, 0, 0>>, <<255, 255, 0, 0>>)
  <2>1. a[1] - (a[1] % (256 - 255)) = 169 /\ a[2] - (a[2] % (256 - 255)) = 254 /\ net.private = FALSE
    BY <1>2, <1>8 DEF Network
  <2>2. (a[1] * 256 + a[2]) \div 1 = (169 * 256 + 254) \div 1
    BY <1>1, <2>1
  <2>3. In(Block(FALSE, <<169, 254, 0, 0>>, 16), a)
    BY <2>2 DEF In, Block
  <2> QED
    BY <2>1, <2>3, ZenonT(60) DEF Named, Block
<1>9. CASE net = Network(FALSE, <<100, 64, 0, 0>>, <<255, 255, 252, 0>>)
  <2>1. a[1] - (a[1] % (256 - 255)) = 100 /\ a[2] - (a[2] % (256 - 255)) = 64 /\ net.private = FALSE
    BY <1>2, <1>9 DEF Network
  <2>2. (a[1] * 256 + a[2]) \div 64 = (100 * 256 + 64) \div 64
    BY <1>1, <2>1
  <2>3. In(Block(FALSE, <<100, 64, 0, 0>>, 10), a)
    BY <2>2 DEF In, Block
  <2> QED
    BY <2>1, <2>3, ZenonT(60) DEF Named, Block
<1>10. CASE net = Network(FALSE, <<240, 0, 0, 0>>, <<255, 255, 255, 240>>)
  <2>1. a[1] - (a[1] % (256 - 255)) = 240 /\ a[2] - (a[2] % (256 - 255)) = 0 /\ net.private = FALSE
    BY <1>2, <1>10 DEF Network
  <2>2. (a[1] * 256 + a[2]) \div 4096 = (240 * 256 + 0) \div 4096
    BY <1>1, <2>1
  <2>3. In(Block(FALSE, <<240, 0, 0, 0>>, 4), a)
    BY <2>2 DEF In, Block
  <2> QED
    BY <2>1, <2>3, ZenonT(60) DEF Named, Block
<1>11. CASE net = Network(FALSE, <<0, 0, 0, 0>>, <<255, 255, 255, 0>>)
  <2>1. a[1] - (a[1] % (256 - 255)) = 0 /\ a[2] - (a[2] % (256 - 255)) = 0 /\ net.private = FALSE
    BY <1>2, <1>11 DEF Network
  <2>2. (a[1] * 256 + a[2]) \div 256 = (0 * 256 + 0) \div 256
    BY <1>1, <2>1
  <2>3. In(Block(FALSE, <<0, 0, 0, 0>>, 8), a)
    BY <2>2 DEF In, Block
  <2> QED
    BY <2>1, <2>3 DEF Named, Block
<1>12. \/ net = Network(TRUE, <<10, 0, 0, 0>>, <<255, 255, 255, 0>>)
      \/ net = Network(TRUE, <<192, 168, 0, 0>>, <<255, 255, 0, 0>>)
      \/ net = Network(TRUE, <<172, 16, 0, 0>>, <<255, 255, 240, 0>>)
      \/ net = Network(FALSE, <<224, 0, 0, 0>>, <<255, 255, 255, 240>>)
      \/ net = Network(FALSE, <<127, 0, 0, 0>>, <<255, 255, 255, 0>>)
      \/ net = Network(FALSE, <<169, 254, 0, 0>>, <<255, 255, 0, 0>>)
      \/ net = Network(FALSE, <<100, 64, 0, 0>>, <<255, 255, 252, 0>>)
      \/ net = Network(FALSE, <<240, 0, 0, 0>>, <<255, 255, 255, 240>>)
      \/ net = Network(FALSE, <<0, 0, 0, 0>>, <<255, 255, 255, 0>>)
  BY ZenonT(60) DEF reserved_net_and_masks
<1> QED
  BY <1>3, <1>4, <1>5, <1>6, <1>7, <1>8, <1>9, <1>10, <1>11, <1>12, ZenonT(60)

LEMMA OctetMasked ==
  ASSUME NEW x \in 0 .. 255
  PROVE  x - (x % (256 - 255)) = x /\ x - (x % (256 - 0)) = 0
<1>1. x - (x % (256 - 255)) = x
  OBVIOUS
<1>2. x - (x % (256 - 0)) = 0
  OBVIOUS
<1> QED
  BY <1>1, <1>2

\* The first two octets are all that a mask of 16 bits keeps.
LEMMA TwoOctets ==
  ASSUME NEW a \in [1 .. 4 -> 0 .. 255], NEW c \in 0 .. 255, NEW d \in 0 .. 255,
         a[1] * 256 + a[2] = c * 256 + d
  PROVE  Masked(a, <<255, 255, 0, 0>>) = <<c, d, 0, 0>>
<1>1. \A i \in 1 .. 4 : a[i] \in 0 .. 255
  OBVIOUS
<1>2. a[1] = c /\ a[2] = d
  <2>1. PICK x, y : x = a[1] /\ y = a[2]
    OBVIOUS
  <2>2. x \in 0 .. 255 /\ y \in 0 .. 255 /\ x * 256 + y = c * 256 + d
    BY <1>1, <2>1
  <2>3. x = c /\ y = d
    BY <2>2
  <2> QED
    BY <2>1, <2>3
<1>3. \A x \in 0 .. 255 : x - (x % (256 - 255)) = x /\ x - (x % (256 - 0)) = 0
  BY OctetMasked, Zenon
<1>4. PICK m, e : m = <<255, 255, 0, 0>> /\ e = <<c, d, 0, 0>>
  OBVIOUS
<1>5. \A i \in 1 .. 4 : a[i] - (a[i] % (256 - m[i])) = e[i]
  BY <1>1, <1>2, <1>3, <1>4
<1>6. e = [i \in 1 .. 4 |-> e[i]]
  BY <1>4
<1> QED
  BY <1>4, <1>5, <1>6 DEF Masked

LEMMA DividedByOne == \A x, y \in Int : x \div 1 = y \div 1 => x = y
OBVIOUS

\* A block of 16 bits is masked as it is named.
LEMMA BlockOfTwo ==
  ASSUME NEW a \in [1 .. 4 -> 0 .. 255], NEW b \in Named, b.bits = 16, In(b, a)
  PROVE  \E net \in reserved_net_and_masks :
            net.private = b.private /\ net.ip = Masked(a, net.mask)
<1>1. a[1] \in 0 .. 255 /\ a[2] \in 0 .. 255
  OBVIOUS
<1>2. ASSUME NEW private \in BOOLEAN, NEW ip, b = Block(private, ip, 16),
             Network(private, ip, <<255, 255, 0, 0>>) \in reserved_net_and_masks,
             Masked(a, <<255, 255, 0, 0>>) = ip
      PROVE  \E net \in reserved_net_and_masks :
                net.private = b.private /\ net.ip = Masked(a, net.mask)
  BY <1>2 DEF Network, Block
<1>3. CASE b = Block(TRUE, <<192, 168, 0, 0>>, 16)
  <2>1. PICK c \in 0 .. 255, d \in 0 .. 255 : c = 192 /\ d = 168
    OBVIOUS
  <2>2. a[1] * 256 + a[2] = c * 256 + d
    <3>1. (a[1] * 256 + a[2]) \div 1 = (c * 256 + d) \div 1
      BY <1>3, <2>1 DEF In, Block
    <3>2. a[1] * 256 + a[2] \in Int
      <4>1. PICK x \in 0 .. 255, y \in 0 .. 255 : x = a[1] /\ y = a[2]
        BY <1>1
      <4>2. x * 256 + y \in Int
        OBVIOUS
      <4> QED
        BY <4>1, <4>2
    <3>3. c * 256 + d \in Int
      OBVIOUS
    <3> QED
      BY <3>1, <3>2, <3>3, DividedByOne
  <2>3. Masked(a, <<255, 255, 0, 0>>) = <<c, d, 0, 0>>
    BY <2>2, TwoOctets, ZenonT(60)
  <2>4. Network(TRUE, <<192, 168, 0, 0>>, <<255, 255, 0, 0>>) \in reserved_net_and_masks
    BY ZenonT(60) DEF reserved_net_and_masks
  <2> QED
    BY <1>2, <1>3, <2>1, <2>3, <2>4
<1>4. CASE b = Block(FALSE, <<169, 254, 0, 0>>, 16)
  <2>1. PICK c \in 0 .. 255, d \in 0 .. 255 : c = 169 /\ d = 254
    OBVIOUS
  <2>2. a[1] * 256 + a[2] = c * 256 + d
    <3>1. (a[1] * 256 + a[2]) \div 1 = (c * 256 + d) \div 1
      BY <1>4, <2>1 DEF In, Block
    <3>2. a[1] * 256 + a[2] \in Int
      <4>1. PICK x \in 0 .. 255, y \in 0 .. 255 : x = a[1] /\ y = a[2]
        BY <1>1
      <4>2. x * 256 + y \in Int
        OBVIOUS
      <4> QED
        BY <4>1, <4>2
    <3>3. c * 256 + d \in Int
      OBVIOUS
    <3> QED
      BY <3>1, <3>2, <3>3, DividedByOne
  <2>3. Masked(a, <<255, 255, 0, 0>>) = <<c, d, 0, 0>>
    BY <2>2, TwoOctets
  <2>4. Network(FALSE, <<169, 254, 0, 0>>, <<255, 255, 0, 0>>) \in reserved_net_and_masks
    BY ZenonT(60) DEF reserved_net_and_masks
  <2> QED
    BY <1>2, <1>4, <2>1, <2>3, <2>4
<1>5. \/ b = Block(TRUE, <<192, 168, 0, 0>>, 16) \/ b = Block(FALSE, <<169, 254, 0, 0>>, 16)
      \/ b.bits # 16
  BY DEF Named, Block
<1> QED
  BY <1>3, <1>4, <1>5

\* An octet of a masked address is the octet of the network, so the address is in the block.
LEMMA ReservedAnswers ==
  ASSUME job = "address" => source \in Addresses
  PROVE  ReservedIsNamed
<1> SUFFICES ASSUME job = "address", NEW asked \in BOOLEAN
             PROVE  LET blocks == {b \in Named : In(b, source) /\ (asked \/ ~b.private)}
                        reserved == is_reserved_ipv4(source, asked)
                    IN  /\ reserved => blocks # {}
                        /\ (\E b \in blocks : b.bits = 16) => reserved
  BY DEF ReservedIsNamed
<1>1. source \in [1 .. 4 -> 0 .. 255]
  BY TextAssumption
<1>2. ASSUME NEW c \in {0, 255}, Range(source) = {c}
      PROVE  \E b \in Named : In(b, source) /\ ~b.private
  <2>1. source[1] = c /\ source[2] = c
    BY <1>1, <1>2 DEF Range
  <2>2. CASE c = 0
    <3>1. In(Block(FALSE, <<0, 0, 0, 0>>, 8), source)
      BY <2>1, <2>2 DEF In, Block
    <3> QED
      BY <3>1 DEF Named, Block
  <2>3. CASE c = 255
    <3>1. (255 * 256 + 255) \div 4096 = (240 * 256 + 0) \div 4096
      OBVIOUS
    <3>2. In(Block(FALSE, <<240, 0, 0, 0>>, 4), source)
      BY <2>1, <2>3, <3>1 DEF In, Block
    <3> QED
      BY <3>2 DEF Named, Block
  <2> QED
    BY <2>2, <2>3
<1>3. ASSUME is_reserved_ipv4(source, asked)
      PROVE  \E b \in Named : In(b, source) /\ (asked \/ ~b.private)
  <2>1. CASE Range(source) = {0} \/ Range(source) = {255}
    BY <1>2, <2>1
  <2>2. CASE \E net \in reserved_net_and_masks :
               (asked \/ ~net.private) /\ net.ip = Masked(source, net.mask)
    BY <1>1, <2>2, NetworkInBlock
  <2> QED
    BY <1>3, <2>1, <2>2 DEF is_reserved_ipv4
<1>4. ASSUME NEW b \in Named, In(b, source), asked \/ ~b.private, b.bits = 16
      PROVE  is_reserved_ipv4(source, asked)
  BY <1>1, <1>4, BlockOfTwo DEF is_reserved_ipv4
<1> QED
  BY <1>3, <1>4
-----------------------------------------------------------------------------
(* Comparisons *)

LEMMA PrefixIs ==
  ASSUME NEW X, NEW s \in Seq(X), NEW t \in Seq(X)
  PROVE  IsPrefix(s, t) <=> Len(s) <= Len(t) /\ \A i \in 1 .. Len(s) : s[i] = t[i]
<1>1. PICK n, m : n = Len(s) /\ m = Len(t)
  OBVIOUS
<1>2. n \in Nat /\ m \in Nat
  BY <1>1
<1>3. CASE n <= m
  <2>1. SubSeq(s, 1, n) = s
    BY <1>1, SubSeqFull
  <2>2. n \in 0 .. Len(t)
    BY <1>1, <1>2, <1>3
  <2>3. PICK b : b = Before(t, n)
    OBVIOUS
  <2>4. b \in Seq(X) /\ Len(b) = n /\ \A i \in 1 .. n : b[i] = t[i]
    BY <2>2, <2>3, Cutting
  <2>5. s = b <=> \A i \in 1 .. n : s[i] = t[i]
    <3>1. ASSUME \A i \in 1 .. n : s[i] = t[i] PROVE s = b
      BY <1>1, <2>4, <3>1, SeqEqual
    <3>2. ASSUME s = b PROVE \A i \in 1 .. n : s[i] = t[i]
      BY <2>4, <3>2
    <3> QED
      BY <3>1, <3>2
  <2> QED
    BY <1>1, <1>3, <2>1, <2>3, <2>5 DEF IsPrefix, Before
<1>4. CASE ~(n <= m)
  BY <1>1, <1>4 DEF IsPrefix
<1> QED
  BY <1>3, <1>4

\* A suffix, counted from the end as rstrnicmp does.
LEMMA SuffixIs ==
  ASSUME NEW X, NEW s \in Seq(X), NEW t \in Seq(X)
  PROVE  IsSuffix(t, s)
           <=> Len(t) <= Len(s) /\ \A i \in 0 .. Len(t) - 1 : t[Len(t) - i] = s[Len(s) - i]
<1>1. PICK n, m : n = Len(s) /\ m = Len(t)
  OBVIOUS
<1>2. n \in Nat /\ m \in Nat
  BY <1>1
<1>3. ASSUME IsSuffix(t, s)
      PROVE  m <= n /\ \A i \in 0 .. m - 1 : t[m - i] = s[n - i]
  <2>1. n - m \in Occurrences(s, t)
    BY <1>1, <1>3, EndsWith
  <2>2. n - m \in Nat /\ \A i \in 1 .. m : s[(n - m) + i] = t[i]
    BY <1>1, <2>1, Occurring
  <2>3. ASSUME NEW i \in 0 .. m - 1 PROVE t[m - i] = s[n - i]
    <3>1. m - i \in 1 .. m /\ (n - m) + (m - i) = n - i
      BY <1>2
    <3> QED
      BY <2>2, <3>1
  <2> QED
    BY <1>2, <2>2, <2>3
<1>4. ASSUME m <= n, \A i \in 0 .. m - 1 : t[m - i] = s[n - i]
      PROVE  IsSuffix(t, s)
  <2>1. PICK p \in 0 .. n - m : p = n - m
    BY <1>2, <1>4
  <2>2. ASSUME NEW j \in 1 .. m PROVE s[p + j] = t[j]
    <3>1. m - j \in 0 .. m - 1 /\ m - (m - j) = j /\ n - (m - j) = p + j
      BY <1>2, <2>1
    <3> QED
      BY <1>4, <3>1
  <2>3. p \in Occurrences(s, t)
    BY <1>1, <2>2, OccursWhere
  <2> QED
    BY <1>1, <2>1, <2>3, EndsWith
<1> QED
  BY <1>1, <1>3, <1>4

LEMMA GreatestOfTwo ==
  ASSUME NEW a \in Int, NEW b \in Int
  PROVE  Max({a, b}) = IF a <= b THEN b ELSE a
<1>1. CASE a <= b
  BY <1>1 DEF Max
<1>2. CASE b < a
  BY <1>2 DEF Max
<1> QED
  BY <1>1, <1>2

\* Two texts u and v are equal where s and t are alike.
Mirrors(u, s, v, t, case_insensitive) ==
  /\ Len(u) = Len(s) /\ Len(v) = Len(t)
  /\ \A i \in 1 .. Len(s), j \in 1 .. Len(t) :
        /\ Alike(s[i], t[j], case_insensitive) <=> u[i] = v[j]
        /\ Alike(t[j], s[i], case_insensitive) <=> u[i] = v[j]

\* Where two texts mirror two others, comparing characters is comparing texts.
LEMMA ComparedBehind ==
  ASSUME NEW X, NEW Y, NEW s \in Seq(X), NEW t \in Seq(X), NEW u \in Seq(Y), NEW v \in Seq(Y),
         NEW case_insensitive, Mirrors(u, s, v, t, case_insensitive)
  PROVE  rstrnicmp(s, t, case_insensitive) <=> IsSuffix(v, u)
<1>1. PICK n, m : n = Len(s) /\ m = Len(t)
  OBVIOUS
<1>2. n \in Nat /\ m \in Nat /\ Len(u) = n /\ Len(v) = m
  BY <1>1 DEF Mirrors
<1>3. IsSuffix(v, u) <=> m <= n /\ \A i \in 0 .. m - 1 : v[m - i] = u[n - i]
  BY <1>2, SuffixIs
<1>4. rstrnicmp(s, t, case_insensitive)
        <=> m <= n /\ \A i \in 0 .. m - 1 : Alike(t[m - i], s[n - i], case_insensitive)
  BY <1>1 DEF rstrnicmp
<1>5. ASSUME m <= n, NEW i \in 0 .. m - 1
      PROVE  Alike(t[m - i], s[n - i], case_insensitive) <=> v[m - i] = u[n - i]
  <2>1. PICK j, k : j = m - i /\ k = n - i
    OBVIOUS
  <2>2. j \in 1 .. m /\ k \in 1 .. n
    BY <1>2, <1>5, <2>1
  <2> QED
    BY <1>1, <2>1, <2>2 DEF Mirrors
<1> QED
  BY <1>3, <1>4, <1>5

Compared(s, t, case_insensitive, u, v) ==
  /\ lstrnicmp(s, t, case_insensitive) <=> IsPrefix(v, u)
  /\ is_same_string(s, t, case_insensitive) <=> u = v

LEMMA ComparedFor ==
  ASSUME NEW X, NEW Y, NEW s \in Seq(X), NEW t \in Seq(X), NEW u \in Seq(Y), NEW v \in Seq(Y),
         NEW case_insensitive, Mirrors(u, s, v, t, case_insensitive)
  PROVE  Compared(s, t, case_insensitive, u, v)
<1>1. PICK n, m : n = Len(s) /\ m = Len(t)
  OBVIOUS
<1>2. /\ n \in Nat /\ m \in Nat /\ Len(u) = n /\ Len(v) = m
      /\ DOMAIN s = 1 .. n /\ DOMAIN t = 1 .. m
  BY <1>1 DEF Mirrors
<1>3. ASSUME NEW k \in Nat, m <= k
      PROVE  AlikeFor(s, t, k, case_insensitive)
               <=> \A i \in 1 .. k : i \in 1 .. n \cup 1 .. m =>
                      i \in 1 .. n /\ i \in 1 .. m /\ u[i] = v[i]
  <2>1. AlikeFor(s, t, k, case_insensitive)
          <=> \A i \in 1 .. k : i \in 1 .. n \cup 1 .. m =>
                 i \in 1 .. n /\ i \in 1 .. m /\ Alike(s[i], t[i], case_insensitive)
    BY <1>2 DEF AlikeFor
  <2>2. \A i : i \in 1 .. n /\ i \in 1 .. m =>
                 (Alike(s[i], t[i], case_insensitive) <=> u[i] = v[i])
    BY <1>1 DEF Mirrors
  <2> QED
    BY <2>1, <2>2
<1>4. lstrnicmp(s, t, case_insensitive) <=> IsPrefix(v, u)
  <2>1. lstrnicmp(s, t, case_insensitive) <=> AlikeFor(s, t, m, case_insensitive)
    BY <1>1 DEF lstrnicmp
  <2>2. IsPrefix(v, u) <=> m <= n /\ \A i \in 1 .. m : v[i] = u[i]
    <3>1. IsPrefix(v, u) <=> Len(v) <= Len(u) /\ \A i \in 1 .. Len(v) : v[i] = u[i]
      BY PrefixIs
    <3> QED
      BY <1>2, <3>1
  <2>3. ASSUME AlikeFor(s, t, m, case_insensitive)
        PROVE  m <= n /\ \A i \in 1 .. m : v[i] = u[i]
    <3>1. \A i \in 1 .. m : i \in 1 .. n /\ u[i] = v[i]
      BY <1>2, <1>3, <2>3
    <3>2. m = 0 \/ m \in 1 .. m
      BY <1>2
    <3> QED
      BY <1>2, <3>1, <3>2
  <2>4. ASSUME m <= n, \A i \in 1 .. m : v[i] = u[i]
        PROVE  AlikeFor(s, t, m, case_insensitive)
    BY <1>2, <1>3, <2>4
  <2> QED
    BY <2>1, <2>2, <2>3, <2>4
<1>5. is_same_string(s, t, case_insensitive) <=> u = v
  <2>1. PICK k : k = Max({n, m})
    OBVIOUS
  <2>2. k \in Nat /\ n <= k /\ m <= k /\ (k = n \/ k = m)
    BY <1>2, <2>1, GreatestOfTwo
  <2>3. is_same_string(s, t, case_insensitive) <=> AlikeFor(s, t, k, case_insensitive)
    BY <1>1, <2>1 DEF is_same_string
  <2>4. ASSUME AlikeFor(s, t, k, case_insensitive) PROVE u = v
    <3>1. \A i \in 1 .. k : i \in 1 .. n \cup 1 .. m => i \in 1 .. n /\ i \in 1 .. m /\ u[i] = v[i]
      BY <1>3, <2>2, <2>4
    <3>2. k = 0 \/ (k \in 1 .. k /\ k \in 1 .. n \cup 1 .. m)
      BY <1>2, <2>2
    <3>3. n = m
      <4>1. CASE k = 0
        BY <1>2, <2>2, <4>1
      <4>2. CASE k \in 1 .. k /\ k \in 1 .. n \cup 1 .. m
        <5>1. k \in 1 .. n /\ k \in 1 .. m
          BY <3>1, <4>2
        <5>2. k <= n /\ k <= m
          BY <1>2, <2>2, <5>1
        <5> QED
          BY <1>2, <2>2, <5>2
      <4> QED
        BY <3>2, <4>1, <4>2
    <3>4. \A i \in 1 .. n : u[i] = v[i]
      BY <1>2, <2>2, <3>1
    <3> QED
      BY <1>2, <3>3, <3>4, SeqEqual
  <2>5. ASSUME u = v PROVE AlikeFor(s, t, k, case_insensitive)
    BY <1>2, <1>3, <2>2, <2>5
  <2> QED
    BY <2>3, <2>4, <2>5
<1> QED
  BY <1>4, <1>5 DEF Compared

LEMMA FoldedIs ==
  ASSUME NEW X, NEW s \in Seq(X)
  PROVE  /\ Folded(s) \in Seq({Lower(c) : c \in X}) /\ Len(Folded(s)) = Len(s)
         /\ \A i \in 1 .. Len(s) : Folded(s)[i] = Lower(s[i])
<1>1. PICK n \in Nat : n = Len(s) /\ DOMAIN s = 1 .. n /\ \A i \in 1 .. n : s[i] \in X
  OBVIOUS
<1>2. PICK g : g = [i \in 1 .. n |-> Lower(s[i])]
  OBVIOUS
<1>3. PICK Y : Y = {Lower(c) : c \in X}
  OBVIOUS
<1>4. g \in [1 .. n -> Y]
  BY <1>1, <1>2, <1>3
<1>5. g \in Seq(Y) /\ Len(g) = n
  BY <1>4
<1>6. Folded(s) = g
  BY <1>1, <1>2 DEF Folded
<1> QED
  BY <1>1, <1>2, <1>3, <1>5, <1>6

\* A text mirrors itself, and its folded form without regard to case.
LEMMA MatchAnswers ==
  ASSUME NEW X, source \in Seq(X), token \in Seq(X)
  PROVE  MatchesAreExact
<1>1. PICK Y : Y = {Lower(c) : c \in X}
  OBVIOUS
<1>2. PICK u, v : u = Folded(source) /\ v = Folded(token)
  OBVIOUS
<1>3. u \in Seq(Y) /\ v \in Seq(Y)
  BY <1>1, <1>2, FoldedIs
<1>4. Mirrors(source, source, token, token, FALSE)
  BY DEF Mirrors, Alike
<1>5. Mirrors(u, source, v, token, TRUE)
  <2>1. Len(u) = Len(source) /\ \A i \in 1 .. Len(source) : u[i] = Lower(source[i])
    BY <1>2, FoldedIs
  <2>2. Len(v) = Len(token) /\ \A i \in 1 .. Len(token) : v[i] = Lower(token[i])
    BY <1>2, FoldedIs
  <2> QED
    BY <2>1, <2>2 DEF Mirrors, Alike
<1>6. /\ rstrnicmp(source, token, FALSE) <=> IsSuffix(token, source)
      /\ rstrnicmp(source, token, TRUE) <=> IsSuffix(v, u)
  BY <1>3, <1>4, <1>5, ComparedBehind
<1>7. Compared(source, token, FALSE, source, token)
  BY <1>4, ComparedFor
<1>8. Compared(source, token, TRUE, u, v)
  BY <1>3, <1>5, ComparedFor
<1> QED
  BY <1>2, <1>6, <1>7, <1>8
  DEF Compared, MatchesAreExact, rstrnicmp, lstrnicmp, is_same_string, AlikeFor, IsSuffix, IsPrefix
-----------------------------------------------------------------------------
(* Copies *)

\* What is copied fits: below two characters only the wide size wraps.
LEMMA CopyAnswers ==
  ASSUME NEW X, source \in Seq(X)
  PROVE  CopyFits
<1> SUFFICES ASSUME NEW cb \in 1 .. 2 * Len(source) + 4, NEW size \in {1, 2}
             PROVE  LET copied == copy_string_to_buf_with_null(source, cb, size)
                    IN  /\ IsPrefix(copied, source)
                        /\ cb >= size * size /\ source # <<>> => Len(copied) + 1 <= cb \div size
  BY DEF CopyFits
<1>1. PICK M \in Positive : M = 2 ^ (2 * Bits)
  BY WordAssumption DEF Positive
<1>2. PICK k, x, r, n : k = cb \div size /\ x = k - size /\ r = x % M /\ n = Min({Len(source), r})
  OBVIOUS
<1>3. Len(source) \in Nat /\ cb \in Nat /\ k \in Int /\ x \in Int /\ size \in Nat \ {0}
  BY <1>2
<1>4. r \in 0 .. M - 1 /\ x \div M \in Int /\ x = M * (x \div M) + r
  BY <1>1, <1>2, <1>3, Division
<1>5. n \in 0 .. Len(source) /\ n <= r
  <2>1. r \in Nat
    BY <1>1, <1>4 DEF Positive
  <2>2. n = IF Len(source) <= r THEN Len(source) ELSE r
    BY <1>2, <1>3, <2>1, LeastOfTwo
  <2> QED
    BY <1>3, <2>1, <2>2
<1>6. PICK copied : copied = copy_string_to_buf_with_null(source, cb, size)
  OBVIOUS
<1>7. CASE source = <<>>
  <2>1. copied = source
    BY <1>6, <1>7 DEF copy_string_to_buf_with_null
  <2>2. IsPrefix(source, source)
    BY PrefixIs
  <2> QED
    BY <1>6, <1>7, <2>1, <2>2
<1>8. CASE source # <<>>
  <2>1. copied = Before(source, n)
    BY <1>1, <1>2, <1>6, <1>8 DEF copy_string_to_buf_with_null
  <2>2. copied \in Seq(X) /\ Len(copied) = n /\ \A i \in 1 .. n : copied[i] = source[i]
    BY <1>5, <2>1, Cutting
  <2>3. IsPrefix(copied, source)
    BY <1>3, <1>5, <2>2, PrefixIs
  <2>4. ASSUME cb >= size * size PROVE n + 1 <= k
    <3>1. k >= size
      <4>1. CASE size = 1
        BY <1>2, <1>3, <2>4, <4>1
      <4>2. CASE size = 2
        BY <1>2, <1>3, <2>4, <4>2
      <4> QED
        BY <4>1, <4>2
    <3>2. x >= 0
      BY <1>2, <1>3, <3>1
    <3>3. r <= x
      <4>1. PICK q \in Int : q = x \div M
        BY <1>4
      <4>2. x = M * q + r /\ r < M
        BY <1>1, <1>4, <4>1 DEF Positive
      <4>3. q >= 0
        <5>1. ASSUME q <= -1 PROVE FALSE
          <6>1. PICK p, h : p = M * q /\ h = M * (q + 1)
            OBVIOUS
          <6>2. p = h - M /\ h <= 0 /\ h \in Int
            BY <5>1, <6>1 DEF Positive
          <6>3. x = p + r
            BY <4>2, <6>1
          <6> QED
            BY <1>4, <3>2, <4>2, <6>2, <6>3 DEF Positive
        <5> QED
          BY <5>1
      <4>4. M * q >= 0
        BY <4>3 DEF Positive
      <4> QED
        BY <1>1, <1>4, <4>2, <4>4 DEF Positive
    <3> QED
      BY <1>2, <1>3, <1>4, <1>5, <3>3
  <2> QED
    BY <1>2, <1>6, <1>8, <2>2, <2>3, <2>4
<1> QED
  BY <1>7, <1>8
-----------------------------------------------------------------------------
(* Sequences without some of their members *)

Keeps(f, X, s, drop) ==
  /\ f \in [0 .. Len(s) -> Seq(X)] /\ f[0] = <<>>
  /\ \A n \in 1 .. Len(s) : f[n] = IF s[n] \in drop THEN f[n - 1] ELSE Append(f[n - 1], s[n])

\* The recursion of Without, written out.
LEMMA KeepsIs ==
  ASSUME NEW X, NEW s \in Seq(X), NEW drop
  PROVE  \E f : Keeps(f, X, s, drop) /\ Without(s, drop) = f[Len(s)]
<1> DEFINE l == Len(s)
<1> DEFINE Fits(f) == f = [n \in 0 .. l |-> IF n = 0 THEN <<>>
            ELSE IF s[n] \in drop THEN f[n - 1] ELSE Append(f[n - 1], s[n])]
<1> DEFINE whole == CHOOSE f : Fits(f)
<1> DEFINE step == [n \in Nat |-> [r \in Seq(X) |-> IF n \notin 1 .. l THEN r
            ELSE IF s[n] \in drop THEN r ELSE Append(r, s[n])]]
<1>1. l \in Nat /\ \A n \in 1 .. l : s[n] \in X
  OBVIOUS
<1>2. step \in [Nat -> [Seq(X) -> Seq(X)]]
  <2> SUFFICES ASSUME NEW n \in Nat, NEW r \in Seq(X), n \in 1 .. l
               PROVE  (IF s[n] \in drop THEN r ELSE Append(r, s[n])) \in Seq(X)
    OBVIOUS
  <2>1. PICK x \in X : x = s[n]
    BY <1>1
  <2>2. Append(r, x) \in Seq(X)
    OBVIOUS
  <2> QED
    BY <2>1, <2>2
<1>3. <<>> \in Seq(X)
  BY EmptySeq
<1>4. PICK f \in [0 .. l -> Seq(X)] : Follows(f, <<>>, step, l)
  <2> HIDE DEF step
  <2> QED
    BY <1>1, <1>2, <1>3, Recursion
<1>5. Keeps(f, X, s, drop)
  <2>1. ASSUME NEW n \in 1 .. l PROVE f[n] = IF s[n] \in drop THEN f[n - 1]
              ELSE Append(f[n - 1], s[n])
    <3>1. n \in Nat /\ n - 1 \in 0 .. l
      BY <1>1
    <3>2. f[n] = step[n][f[n - 1]] /\ f[n - 1] \in Seq(X)
      BY <1>4, <3>1 DEF Follows
    <3>3. PICK r \in Seq(X) : r = f[n - 1]
      BY <3>2
    <3>4. step[n][r] = IF s[n] \in drop THEN r ELSE Append(r, s[n])
      BY <3>1
    <3> QED
      BY <3>2, <3>3, <3>4, Zenon
  <2> QED
    BY <1>4, <2>1 DEF Keeps, Follows
<1>6. Fits(f)
  <2>1. \A n \in 0 .. l : f[n] = IF n = 0 THEN <<>> ELSE IF s[n] \in drop THEN f[n - 1]
              ELSE Append(f[n - 1], s[n])
    <3>1. PICK none : none = <<>>
      OBVIOUS
    <3>2. f[0] = none /\ \A n \in 1 .. l : f[n] = IF s[n] \in drop THEN f[n - 1]
                ELSE Append(f[n - 1], s[n])
      BY <1>5, <3>1 DEF Keeps
    <3>3. \A n \in 0 .. l : n = 0 \/ (n # 0 /\ n \in 1 .. l)
      BY <1>1
    <3> QED
      BY <3>1, <3>2, <3>3, Zenon
  <2>2. f = [n \in 0 .. l |-> f[n]]
    BY <1>4
  <2> QED
    BY <2>1, <2>2
<1>7. Fits(whole)
  BY <1>6
<1>8. whole = f
  <2> DEFINE S == {n \in Nat : n \in 0 .. l => whole[n] = f[n]}
  <2>1. \A n \in 0 .. l : whole[n] = IF n = 0 THEN <<>>
              ELSE IF s[n] \in drop THEN whole[n - 1] ELSE Append(whole[n - 1], s[n])
    <3> HIDE DEF whole
    <3> QED
      BY <1>7
  <2>2. DOMAIN whole = 0 .. l /\ whole = [n \in 0 .. l |-> whole[n]]
    <3> HIDE DEF whole
    <3> QED
      BY <1>7
  <2> HIDE DEF whole
  <2>3. 0 \in S
    BY <1>5, <2>1 DEF Keeps
  <2>4. ASSUME NEW n \in Nat, n \in S PROVE n + 1 \in S
    <3> SUFFICES ASSUME n + 1 \in 0 .. l PROVE whole[n + 1] = f[n + 1]
      OBVIOUS
    <3>1. PICK m : m = n + 1
      OBVIOUS
    <3>2. n \in 0 .. l /\ m \in 1 .. l /\ m \in 0 .. l /\ m - 1 = n /\ m # 0
      BY <1>1, <3>1
    <3>3. whole[n] = f[n]
      BY <2>4, <3>2
    <3>4. f[m] = IF s[m] \in drop THEN f[n] ELSE Append(f[n], s[m])
      BY <1>5, <3>2, Zenon DEF Keeps
    <3>5. whole[m] = IF s[m] \in drop THEN whole[n] ELSE Append(whole[n], s[m])
      BY <2>1, <3>2, Zenon
    <3> QED
      BY <3>1, <3>3, <3>4, <3>5, Zenon
  <2>5. Nat \subseteq S
    <3> HIDE DEF S
    <3> QED
      BY <2>3, <2>4, Induction
  <2>6. \A n \in 0 .. l : whole[n] = f[n]
    BY <1>1, <2>5
  <2> QED
    BY <1>4, <2>2, <2>6
<1>9. Without(s, drop) = whole[l]
  BY DEF Without
<1> QED
  BY <1>5, <1>8, <1>9

\* With one character more it takes one step more.
LEMMA KeepsNext ==
  ASSUME NEW X, NEW s \in Seq(X), NEW c \in X, NEW drop
  PROVE  /\ Without(s, drop) \in Seq(X)
         /\ Without(Append(s, c), drop) = IF c \in drop THEN Without(s, drop)
                     ELSE Append(Without(s, drop), c)
<1>1. PICK t, l : t = Append(s, c) /\ l = Len(s)
  OBVIOUS
<1>2. /\ t \in Seq(X) /\ Len(t) = l + 1 /\ l \in Nat /\ t[l + 1] = c
      /\ \A n \in 1 .. l : t[n] = s[n]
  BY <1>1
<1>3. PICK f : Keeps(f, X, s, drop) /\ Without(s, drop) = f[l]
  BY <1>1, KeepsIs
<1>4. PICK g : Keeps(g, X, t, drop) /\ Without(t, drop) = g[l + 1]
  BY <1>2, KeepsIs
<1>5. g[l + 1] = IF c \in drop THEN g[l] ELSE Append(g[l], c)
  <2>1. PICK m : m = l + 1
    OBVIOUS
  <2>2. m \in 1 .. Len(t) /\ m - 1 = l
    BY <1>2, <2>1
  <2>3. g[m] = IF t[m] \in drop THEN g[l] ELSE Append(g[l], t[m])
    BY <1>4, <2>2, Zenon DEF Keeps
  <2> QED
    BY <1>2, <2>1, <2>3
<1> DEFINE S == {n \in Nat : n <= l => g[n] = f[n]}
<1>6. 0 \in S
  BY <1>3, <1>4 DEF Keeps
<1>7. ASSUME NEW n \in Nat, n \in S PROVE n + 1 \in S
  <2> SUFFICES ASSUME n + 1 <= l PROVE g[n + 1] = f[n + 1]
    OBVIOUS
  <2>1. PICK m : m = n + 1
    OBVIOUS
  <2>2. m \in 1 .. l /\ m \in 1 .. Len(t) /\ m - 1 = n /\ n <= l
    BY <1>2, <2>1
  <2>3. g[n] = f[n] /\ t[m] = s[m]
    BY <1>2, <1>7, <2>2
  <2>4. f[m] = IF s[m] \in drop THEN f[n] ELSE Append(f[n], s[m])
    BY <1>1, <1>3, <2>2, Zenon DEF Keeps
  <2>5. g[m] = IF t[m] \in drop THEN g[n] ELSE Append(g[n], t[m])
    BY <1>4, <2>2, Zenon DEF Keeps
  <2> QED
    BY <2>1, <2>3, <2>4, <2>5, Zenon
<1>8. Nat \subseteq S
  <2> HIDE DEF S
  <2> QED
    BY <1>6, <1>7, Induction
<1>9. g[l] = f[l]
  BY <1>2, <1>8
<1>10. Without(s, drop) \in Seq(X)
  <2>1. l \in 0 .. Len(s)
    BY <1>1, <1>2
  <2> QED
    BY <1>3, <2>1 DEF Keeps
<1> QED
  BY <1>1, <1>3, <1>4, <1>5, <1>9, <1>10, Zenon

LEMMA KeepsNothing ==
  ASSUME NEW X, NEW drop
  PROVE  Without(<<>>, drop) = <<>>
<1>1. PICK e \in Seq(X) : e = <<>> /\ Len(e) = 0
  BY EmptySeq
<1>2. PICK f : Keeps(f, X, e, drop) /\ Without(e, drop) = f[0]
  BY <1>1, KeepsIs
<1> QED
  BY <1>1, <1>2 DEF Keeps
-----------------------------------------------------------------------------
(* Lines *)

Printable(X) == "LF" \in X /\ \A c \in X : Shown(c) \in X
Printed(X) == [strm : Seq(X), crlf_seen : BOOLEAN]

LEMMA PrintedByte ==
  ASSUME NEW X, Printable(X), NEW r \in Printed(X), NEW c \in X
  PROVE  ByteShown(r, c) \in Printed(X)
<1>1. r.strm \in Seq(X) /\ r.crlf_seen \in BOOLEAN
  BY DEF Printed
<1>2. PICK x \in X : x = Shown(c)
  BY DEF Printable
<1>3. PICK y \in X : y = "LF"
  BY DEF Printable
<1>4. Append(r.strm, x) \in Seq(X) /\ Append(r.strm, y) \in Seq(X)
  BY <1>1
<1> QED
  BY <1>1, <1>2, <1>3, <1>4 DEF ByteShown, Printed

Prints(f, X, s) ==
  /\ f \in [0 .. Len(s) -> Printed(X)] /\ f[0] = [strm |-> <<>>, crlf_seen |-> FALSE]
  /\ \A n \in 1 .. Len(s) : f[n] = ByteShown(f[n - 1], s[n])

\* The recursion of BytesShown, written out.
LEMMA PrintsIs ==
  ASSUME NEW X, NEW s \in Seq(X), Printable(X)
  PROVE  \E f : Prints(f, X, s) /\ BytesShown(s) = f[Len(s)]
<1> DEFINE l == Len(s)
<1> DEFINE Fits(f) == f = [n \in 0 .. l |-> IF n = 0
            THEN [strm |-> <<>>, crlf_seen |-> FALSE] ELSE ByteShown(f[n - 1], s[n])]
<1> DEFINE whole == CHOOSE f : Fits(f)
<1> DEFINE step == [n \in Nat |-> [r \in Printed(X) |-> IF n \notin 1 .. l THEN r
            ELSE ByteShown(r, s[n])]]
<1>1. l \in Nat /\ \A n \in 1 .. l : s[n] \in X
  OBVIOUS
<1>2. step \in [Nat -> [Printed(X) -> Printed(X)]]
  <2> SUFFICES ASSUME NEW n \in Nat, NEW r \in Printed(X), n \in 1 .. l
               PROVE  (ByteShown(r, s[n])) \in Printed(X)
    OBVIOUS
  <2> QED
    BY <1>1, PrintedByte
<1>3. [strm |-> <<>>, crlf_seen |-> FALSE] \in Printed(X)
  BY EmptySeq DEF Printed
<1>4. PICK f \in [0 .. l -> Printed(X)] : Follows(f, [strm |-> <<>>, crlf_seen |-> FALSE], step, l)
  <2> HIDE DEF step
  <2> QED
    BY <1>1, <1>2, <1>3, Recursion
<1>5. Prints(f, X, s)
  <2>1. ASSUME NEW n \in 1 .. l PROVE f[n] = ByteShown(f[n - 1], s[n])
    <3>1. n \in Nat /\ n - 1 \in 0 .. l
      BY <1>1
    <3>2. f[n] = step[n][f[n - 1]] /\ f[n - 1] \in Printed(X)
      BY <1>4, <3>1 DEF Follows
    <3>3. PICK r \in Printed(X) : r = f[n - 1]
      BY <3>2
    <3>4. step[n][r] = ByteShown(r, s[n])
      BY <3>1
    <3> QED
      BY <3>2, <3>3, <3>4, Zenon
  <2> QED
    BY <1>4, <2>1 DEF Prints, Follows
<1>6. Fits(f)
  <2>1. \A n \in 0 .. l : f[n] = IF n = 0 THEN [strm |-> <<>>, crlf_seen |-> FALSE]
              ELSE ByteShown(f[n - 1], s[n])
    <3>1. PICK none : none = [strm |-> <<>>, crlf_seen |-> FALSE]
      OBVIOUS
    <3>2. f[0] = none /\ \A n \in 1 .. l : f[n] = ByteShown(f[n - 1], s[n])
      BY <1>5, <3>1 DEF Prints
    <3>3. \A n \in 0 .. l : n = 0 \/ (n # 0 /\ n \in 1 .. l)
      BY <1>1
    <3> QED
      BY <3>1, <3>2, <3>3, Zenon
  <2>2. f = [n \in 0 .. l |-> f[n]]
    BY <1>4
  <2> QED
    BY <2>1, <2>2
<1>7. Fits(whole)
  BY <1>6
<1>8. whole = f
  <2> DEFINE S == {n \in Nat : n \in 0 .. l => whole[n] = f[n]}
  <2>1. \A n \in 0 .. l : whole[n] = IF n = 0 THEN [strm |-> <<>>, crlf_seen |-> FALSE]
              ELSE ByteShown(whole[n - 1], s[n])
    <3> HIDE DEF whole
    <3> QED
      BY <1>7
  <2>2. DOMAIN whole = 0 .. l /\ whole = [n \in 0 .. l |-> whole[n]]
    <3> HIDE DEF whole
    <3> QED
      BY <1>7
  <2> HIDE DEF whole
  <2>3. 0 \in S
    BY <1>5, <2>1 DEF Prints
  <2>4. ASSUME NEW n \in Nat, n \in S PROVE n + 1 \in S
    <3> SUFFICES ASSUME n + 1 \in 0 .. l PROVE whole[n + 1] = f[n + 1]
      OBVIOUS
    <3>1. PICK m : m = n + 1
      OBVIOUS
    <3>2. n \in 0 .. l /\ m \in 1 .. l /\ m \in 0 .. l /\ m - 1 = n /\ m # 0
      BY <1>1, <3>1
    <3>3. whole[n] = f[n]
      BY <2>4, <3>2
    <3>4. f[m] = ByteShown(f[n], s[m])
      BY <1>5, <3>2, Zenon DEF Prints
    <3>5. whole[m] = ByteShown(whole[n], s[m])
      BY <2>1, <3>2, Zenon
    <3> QED
      BY <3>1, <3>3, <3>4, <3>5, Zenon
  <2>5. Nat \subseteq S
    <3> HIDE DEF S
    <3> QED
      BY <2>3, <2>4, Induction
  <2>6. \A n \in 0 .. l : whole[n] = f[n]
    BY <1>1, <2>5
  <2> QED
    BY <1>4, <2>2, <2>6
<1>9. BytesShown(s) = whole[l]
  BY DEF BytesShown
<1> QED
  BY <1>5, <1>8, <1>9

\* With one character more it takes one step more.
LEMMA PrintsNext ==
  ASSUME NEW X, NEW s \in Seq(X), NEW c \in X, Printable(X)
  PROVE  /\ BytesShown(s) \in Printed(X)
         /\ BytesShown(Append(s, c)) = ByteShown(BytesShown(s), c)
<1>1. PICK t, l : t = Append(s, c) /\ l = Len(s)
  OBVIOUS
<1>2. /\ t \in Seq(X) /\ Len(t) = l + 1 /\ l \in Nat /\ t[l + 1] = c
      /\ \A n \in 1 .. l : t[n] = s[n]
  BY <1>1
<1>3. PICK f : Prints(f, X, s) /\ BytesShown(s) = f[l]
  BY <1>1, PrintsIs
<1>4. PICK g : Prints(g, X, t) /\ BytesShown(t) = g[l + 1]
  BY <1>2, PrintsIs
<1>5. g[l + 1] = ByteShown(g[l], c)
  <2>1. PICK m : m = l + 1
    OBVIOUS
  <2>2. m \in 1 .. Len(t) /\ m - 1 = l
    BY <1>2, <2>1
  <2>3. g[m] = ByteShown(g[l], t[m])
    BY <1>4, <2>2, Zenon DEF Prints
  <2> QED
    BY <1>2, <2>1, <2>3
<1> DEFINE S == {n \in Nat : n <= l => g[n] = f[n]}
<1>6. 0 \in S
  BY <1>3, <1>4 DEF Prints
<1>7. ASSUME NEW n \in Nat, n \in S PROVE n + 1 \in S
  <2> SUFFICES ASSUME n + 1 <= l PROVE g[n + 1] = f[n + 1]
    OBVIOUS
  <2>1. PICK m : m = n + 1
    OBVIOUS
  <2>2. m \in 1 .. l /\ m \in 1 .. Len(t) /\ m - 1 = n /\ n <= l
    BY <1>2, <2>1
  <2>3. g[n] = f[n] /\ t[m] = s[m]
    BY <1>2, <1>7, <2>2
  <2>4. f[m] = ByteShown(f[n], s[m])
    BY <1>1, <1>3, <2>2, Zenon DEF Prints
  <2>5. g[m] = ByteShown(g[n], t[m])
    BY <1>4, <2>2, Zenon DEF Prints
  <2> QED
    BY <2>1, <2>3, <2>4, <2>5, Zenon
<1>8. Nat \subseteq S
  <2> HIDE DEF S
  <2> QED
    BY <1>6, <1>7, Induction
<1>9. g[l] = f[l]
  BY <1>2, <1>8
<1>10. BytesShown(s) \in Printed(X)
  <2>1. l \in 0 .. Len(s)
    BY <1>1, <1>2
  <2> QED
    BY <1>3, <2>1 DEF Prints
<1> QED
  BY <1>1, <1>3, <1>4, <1>5, <1>9, <1>10, Zenon

LEMMA PrintsNothing ==
  ASSUME NEW X, Printable(X)
  PROVE  BytesShown(<<>>) = [strm |-> <<>>, crlf_seen |-> FALSE]
<1>1. PICK e \in Seq(X) : e = <<>> /\ Len(e) = 0
  BY EmptySeq
<1>2. PICK f : Prints(f, X, e) /\ BytesShown(e) = f[0]
  BY <1>1, PrintsIs
<1> QED
  BY <1>1, <1>2 DEF Prints

\* What has been printed of s, when r is what there is of it.
PrintedSoFar(s, r) ==
  LET text == r.strm
  IN  /\ Len(Without(text, Newlines)) = Len(Without(s, Newlines))
      /\ \A i \in 1 .. Len(Without(s, Newlines)) :
            Without(text, Newlines)[i] = Shown(Without(s, Newlines)[i])
      /\ \A i \in 1 .. Len(text) - 1 : ~(text[i] = "LF" /\ text[i + 1] = "LF")
      /\ (\E i \in 1 .. Len(text) : text[i] = "LF") <=> (\E i \in 1 .. Len(s) : s[i] \in Newlines)
      /\ r.crlf_seen <=> Len(text) > 0 /\ text[Len(text)] = "LF"

LEMMA PrintedStarts == ASSUME NEW X PROVE PrintedSoFar(<<>>, [strm |-> <<>>, crlf_seen |-> FALSE])
<1>1. PICK e \in Seq(X) : e = <<>> /\ Len(e) = 0
  BY EmptySeq
<1>2. Without(e, Newlines) = e
  BY <1>1, KeepsNothing
<1>3. PICK r : r = [strm |-> e, crlf_seen |-> FALSE]
  OBVIOUS
<1>4. r.strm = e /\ r.crlf_seen = FALSE
  BY <1>3
<1>5. PrintedSoFar(e, r)
  BY <1>1, <1>2, <1>4 DEF PrintedSoFar
<1> QED
  BY <1>1, <1>3, <1>5

\* One more byte leaves what has been printed as it should be.
LEMMA PrintedNext ==
  ASSUME NEW X, Printable(X), NEW s \in Seq(X), NEW r \in Printed(X), NEW c \in X,
         PrintedSoFar(s, r)
  PROVE  PrintedSoFar(Append(s, c), ByteShown(r, c))
<1>1. PICK text, w, v, k, n :
        /\ text = r.strm /\ w = Without(s, Newlines) /\ v = Without(text, Newlines)
        /\ k = Len(w) /\ n = Len(text)
  OBVIOUS
<1>2. text \in Seq(X) /\ r.crlf_seen \in BOOLEAN
  BY <1>1 DEF Printed
<1>3. w \in Seq(X) /\ v \in Seq(X)
  BY <1>1, <1>2, KeepsNext
<1>4. /\ n \in Nat /\ k \in Nat /\ Len(s) \in Nat /\ Len(v) = k
      /\ \A i \in 1 .. k : v[i] = Shown(w[i])
      /\ \A i \in 1 .. n - 1 : ~(text[i] = "LF" /\ text[i + 1] = "LF")
      /\ (\E i \in 1 .. n : text[i] = "LF") <=> (\E i \in 1 .. Len(s) : s[i] \in Newlines)
      /\ r.crlf_seen <=> n > 0 /\ text[n] = "LF"
  <2>1. n \in Nat /\ k \in Nat /\ Len(s) \in Nat
    BY <1>1, <1>2, <1>3
  <2>2. PrintedSoFar(s, r)
    OBVIOUS
  <2> QED
    BY <1>1, <2>1, <2>2, Zenon DEF PrintedSoFar
<1>5. PICK s1, r1, w1 : s1 = Append(s, c) /\ r1 = ByteShown(r, c) /\ w1 = Without(s1, Newlines)
  OBVIOUS
<1>6. /\ s1 \in Seq(X) /\ Len(s1) = Len(s) + 1 /\ s1[Len(s) + 1] = c
      /\ \A i \in 1 .. Len(s) : s1[i] = s[i]
  BY <1>5
<1>7. w1 = IF c \in Newlines THEN w ELSE Append(w, c)
  <2>1. Without(Append(s, c), Newlines)
          = IF c \in Newlines THEN Without(s, Newlines) ELSE Append(Without(s, Newlines), c)
    BY KeepsNext
  <2> QED
    BY <1>1, <1>5, <2>1
<1>8. (\E i \in 1 .. Len(s1) : s1[i] \in Newlines)
        <=> c \in Newlines \/ \E i \in 1 .. Len(s) : s[i] \in Newlines
  <2>1. ASSUME NEW i \in 1 .. Len(s1), s1[i] \in Newlines
        PROVE  c \in Newlines \/ \E j \in 1 .. Len(s) : s[j] \in Newlines
    <3>1. i = Len(s) + 1 \/ i \in 1 .. Len(s)
      BY <1>4, <1>6
    <3> QED
      BY <1>6, <2>1, <3>1
  <2>2. ASSUME NEW j \in 1 .. Len(s), s[j] \in Newlines
        PROVE  \E i \in 1 .. Len(s1) : s1[i] \in Newlines
    <3>1. j \in 1 .. Len(s1)
      BY <1>4, <1>6
    <3> QED
      BY <1>6, <2>2, <3>1
  <2>3. ASSUME c \in Newlines PROVE \E i \in 1 .. Len(s1) : s1[i] \in Newlines
    <3>1. Len(s) + 1 \in 1 .. Len(s1)
      BY <1>4, <1>6
    <3> QED
      BY <1>6, <2>3, <3>1
  <2> QED
    BY <2>1, <2>2, <2>3
<1>9. CASE c \notin Newlines
  <2>1. PICK x \in X : x = Shown(c)
    BY DEF Printable
  <2>2. x # "LF" /\ x \notin Newlines
    BY <1>9, <2>1 DEF Shown, Newlines
  <2>3. PICK text1 : text1 = Append(text, x)
    OBVIOUS
  <2>4. r1.strm = text1 /\ r1.crlf_seen = FALSE
    BY <1>1, <1>5, <1>9, <2>1, <2>3 DEF ByteShown
  <2>5. /\ text1 \in Seq(X) /\ Len(text1) = n + 1 /\ text1[n + 1] = x
        /\ \A i \in 1 .. n : text1[i] = text[i]
    BY <1>1, <1>2, <2>3
  <2>6. Without(text1, Newlines) = Append(v, x) /\ w1 = Append(w, c)
    <3>1. Without(Append(text, x), Newlines)
            = IF x \in Newlines THEN Without(text, Newlines) ELSE Append(Without(text, Newlines), x)
      BY <1>2, KeepsNext
    <3> QED
      BY <1>1, <1>7, <1>9, <2>2, <2>3, <3>1
  <2>7. PICK v1 : v1 = Append(v, x)
    OBVIOUS
  <2>8. /\ Len(v1) = k + 1 /\ v1[k + 1] = x /\ \A i \in 1 .. k : v1[i] = v[i]
        /\ Len(w1) = k + 1 /\ w1[k + 1] = c /\ \A i \in 1 .. k : w1[i] = w[i]
    BY <1>1, <1>3, <1>4, <2>6, <2>7
  <2>9. ASSUME NEW i \in 1 .. k + 1 PROVE v1[i] = Shown(w1[i])
    <3>1. i = k + 1 \/ i \in 1 .. k
      BY <1>4
    <3> QED
      BY <1>4, <2>1, <2>8, <3>1
  <2>10. ASSUME NEW i \in 1 .. n PROVE ~(text1[i] = "LF" /\ text1[i + 1] = "LF")
    <3>1. i = n \/ (i \in 1 .. n - 1 /\ i + 1 \in 1 .. n)
      BY <1>4
    <3> QED
      BY <1>4, <2>2, <2>5, <3>1
  <2>11. (\E i \in 1 .. n + 1 : text1[i] = "LF") <=> (\E i \in 1 .. n : text[i] = "LF")
    <3>1. ASSUME NEW i \in 1 .. n + 1, text1[i] = "LF" PROVE \E j \in 1 .. n : text[j] = "LF"
      <4>1. i = n + 1 \/ i \in 1 .. n
        BY <1>4
      <4> QED
        BY <2>2, <2>5, <3>1, <4>1
    <3>2. ASSUME NEW j \in 1 .. n, text[j] = "LF" PROVE \E i \in 1 .. n + 1 : text1[i] = "LF"
      <4>1. j \in 1 .. n + 1
        BY <1>4
      <4> QED
        BY <2>5, <3>2, <4>1
    <3> QED
      BY <3>1, <3>2
  <2>12. n + 1 - 1 = n
    BY <1>4
  <2>13. PrintedSoFar(s1, r1)
    BY <1>4, <1>5, <1>8, <1>9, <2>2, <2>4, <2>5, <2>6, <2>7, <2>8, <2>9, <2>10, <2>11, <2>12
       DEF PrintedSoFar
  <2> QED
    BY <1>5, <2>13
<1>10. CASE c \in Newlines /\ r.crlf_seen
  <2>1. r1.strm = text /\ r1.crlf_seen = TRUE
    BY <1>1, <1>5, <1>10 DEF ByteShown
  <2>2. w1 = w
    BY <1>7, <1>10
  <2>3. \E i \in 1 .. n : text[i] = "LF"
    <3>1. n \in 1 .. n /\ text[n] = "LF"
      BY <1>4, <1>10
    <3> QED
      BY <3>1
  <2>4. PrintedSoFar(s1, r1)
    BY <1>1, <1>4, <1>5, <1>8, <1>10, <2>1, <2>2, <2>3 DEF PrintedSoFar
  <2> QED
    BY <1>5, <2>4
<1>11. CASE c \in Newlines /\ ~r.crlf_seen
  <2>1. PICK x \in X : x = "LF"
    BY DEF Printable
  <2>2. PICK text1 : text1 = Append(text, x)
    OBVIOUS
  <2>3. r1.strm = text1 /\ r1.crlf_seen = TRUE
    BY <1>1, <1>5, <1>11, <2>1, <2>2 DEF ByteShown
  <2>4. /\ text1 \in Seq(X) /\ Len(text1) = n + 1 /\ text1[n + 1] = x
        /\ \A i \in 1 .. n : text1[i] = text[i]
    BY <1>1, <1>2, <2>2
  <2>5. Without(text1, Newlines) = v /\ w1 = w
    <3>1. x \in Newlines
      BY <2>1 DEF Newlines
    <3> QED
      BY <1>1, <1>2, <1>7, <1>11, <2>2, <3>1, KeepsNext
  <2>6. ASSUME NEW i \in 1 .. n PROVE ~(text1[i] = "LF" /\ text1[i + 1] = "LF")
    <3>1. i = n \/ (i \in 1 .. n - 1 /\ i + 1 \in 1 .. n)
      BY <1>4
    <3> QED
      BY <1>4, <1>11, <2>4, <3>1
  <2>7. \E i \in 1 .. n + 1 : text1[i] = "LF"
    <3>1. n + 1 \in 1 .. n + 1
      BY <1>4
    <3> QED
      BY <2>1, <2>4, <3>1
  <2>8. n + 1 - 1 = n /\ n + 1 > 0
    BY <1>4
  <2>9. PrintedSoFar(s1, r1)
    BY <1>1, <1>4, <1>5, <1>8, <1>11, <2>1, <2>3, <2>4, <2>5, <2>6, <2>7, <2>8 DEF PrintedSoFar
  <2> QED
    BY <1>5, <2>9
<1> QED
  BY <1>2, <1>9, <1>10, <1>11

LEMMA PrintedWhole ==
  ASSUME NEW X, Printable(X), NEW s \in Seq(X)
  PROVE  BytesShown(s) \in Printed(X) /\ PrintedSoFar(s, BytesShown(s))
<1> DEFINE S == {n \in Nat : \A t \in Seq(X) : Len(t) = n =>
                   BytesShown(t) \in Printed(X) /\ PrintedSoFar(t, BytesShown(t))}
<1>1. 0 \in S
  <2> SUFFICES ASSUME NEW t \in Seq(X), Len(t) = 0
               PROVE  BytesShown(t) \in Printed(X) /\ PrintedSoFar(t, BytesShown(t))
    OBVIOUS
  <2>1. t = <<>>
    OBVIOUS
  <2>2. BytesShown(t) = [strm |-> <<>>, crlf_seen |-> FALSE]
    BY <2>1, PrintsNothing
  <2>3. [strm |-> <<>>, crlf_seen |-> FALSE] \in Printed(X)
    BY EmptySeq DEF Printed
  <2> QED
    BY <2>1, <2>2, <2>3, PrintedStarts, Zenon
<1>2. ASSUME NEW n \in Nat, n \in S PROVE n + 1 \in S
  <2> SUFFICES ASSUME NEW t \in Seq(X), Len(t) = n + 1
               PROVE  BytesShown(t) \in Printed(X) /\ PrintedSoFar(t, BytesShown(t))
    OBVIOUS
  <2>1. t # <<>>
    OBVIOUS
  <2>2. PICK f, c : f = Front(t) /\ c = Last(t)
    OBVIOUS
  <2>3. f \in Seq(X) /\ c \in X /\ t = Append(f, c)
    BY <2>1, <2>2, RowHasLast
  <2>4. Len(f) = n
    <3>1. Len(t) = Len(f) + 1 /\ Len(f) \in Nat
      BY <2>3
    <3> QED
      BY <3>1
  <2>5. BytesShown(f) \in Printed(X) /\ PrintedSoFar(f, BytesShown(f))
    BY <1>2, <2>3, <2>4
  <2>6. BytesShown(t) = ByteShown(BytesShown(f), c)
    BY <2>3, PrintsNext
  <2> HIDE DEF S
  <2> QED
    BY <2>3, <2>5, <2>6, PrintedByte, PrintedNext
<1>3. Nat \subseteq S
  <2> HIDE DEF S
  <2> QED
    BY <1>1, <1>2, Induction
<1>4. Len(s) \in Nat
  OBVIOUS
<1> QED
  BY <1>3, <1>4

\* Every run of new lines is one, every other byte a character.
LEMMA LineAnswers ==
  ASSUME source \in Seq(STRING)
  PROVE  LinesAreJoined
<1>1. PICK X : X = STRING \cup {".", "LF"}
  OBVIOUS
<1>2. Printable(X)
  BY <1>1 DEF Printable, Shown
<1>3. source \in Seq(X)
  BY <1>1
<1>4. PICK r : r = BytesShown(source)
  OBVIOUS
<1>5. r \in Printed(X) /\ PrintedSoFar(source, r)
  BY <1>2, <1>3, <1>4, PrintedWhole
<1>6. PICK text, w, v :
        text = r.strm /\ w = Without(source, Newlines) /\ v = Without(text, Newlines)
  OBVIOUS
<1>7. text \in Seq(X)
  BY <1>5, <1>6 DEF Printed
<1>8. w \in Seq(X) /\ v \in Seq(X)
  BY <1>3, <1>6, <1>7, KeepsNext, <1>2 DEF Printable
<1>9. /\ Len(v) = Len(w) /\ \A i \in 1 .. Len(w) : v[i] = Shown(w[i])
      /\ \A i \in 1 .. Len(text) - 1 : ~(text[i] = "LF" /\ text[i + 1] = "LF")
      /\ (\E i \in 1 .. Len(text) : text[i] = "LF")
           <=> (\E i \in 1 .. Len(source) : source[i] \in Newlines)
  BY <1>5, <1>6 DEF PrintedSoFar
<1>10. v = [i \in DOMAIN w |-> Shown(w[i])]
  <2>1. DOMAIN v = 1 .. Len(v) /\ DOMAIN w = 1 .. Len(w) /\ v = [i \in DOMAIN v |-> v[i]]
    BY <1>8
  <2> QED
    BY <1>9, <2>1
<1>11. "LF" \in Range(text) <=> Range(source) \cap Newlines # {}
  <2>1. "LF" \in Range(text) <=> \E i \in 1 .. Len(text) : text[i] = "LF"
    BY <1>7 DEF Range
  <2>2. Range(source) \cap Newlines # {} <=> \E i \in 1 .. Len(source) : source[i] \in Newlines
    BY <1>3 DEF Range
  <2> QED
    BY <1>9, <2>1, <2>2
<1> QED
  BY <1>4, <1>6, <1>9, <1>10, <1>11 DEF LinesAreJoined, bin_to_stra
-----------------------------------------------------------------------------
(* Pieces *)

\* A function may be defined by what it is behind a place.
LooksBehind(body, Y, L) ==
  \A p \in 0 .. L, g \in [0 .. L -> Y], h \in [0 .. L -> Y] :
     (\A q \in 0 .. L : p < q => g[q] = h[q]) => body[p][g] = body[p][h]

Solves(f, body, L) == \A p \in 0 .. L : f[p] = body[p][f]

\* There is such a function: its values are put in from the end.
LEMMA BackwardRecursion ==
  ASSUME NEW Y, NEW L \in Nat, NEW y \in Y, NEW body \in [0 .. L -> [[0 .. L -> Y] -> Y]],
         LooksBehind(body, Y, L)
  PROVE  \E f \in [0 .. L -> Y] : Solves(f, body, L)
<1> DEFINE G == [0 .. L -> Y]
           From(n) == L + 1 - n
           Put(g, p) == [q \in 0 .. L |-> IF q = p THEN body[p][g] ELSE g[q]]
           step == [n \in Nat |-> [g \in G |-> IF n \in 1 .. L + 1 THEN Put(g, From(n)) ELSE g]]
           none == [q \in 0 .. L |-> y]
<1>1. none \in G
  OBVIOUS
<1>2. ASSUME NEW g \in G, NEW p \in 0 .. L
      PROVE  /\ Put(g, p) \in G /\ Put(g, p)[p] = body[p][g]
             /\ \A q \in 0 .. L : q # p => Put(g, p)[q] = g[q]
  <2>1. body[p][g] \in Y
    OBVIOUS
  <2> QED
    BY <2>1
<1> HIDE DEF Put, none
<1>3. step \in [Nat -> [G -> G]]
  <2> SUFFICES ASSUME NEW n \in 1 .. L + 1, NEW g \in G PROVE Put(g, From(n)) \in G
    OBVIOUS
  <2>1. From(n) \in 0 .. L
    OBVIOUS
  <2> QED
    BY <1>2, <2>1
<1>4. PICK F \in [0 .. L + 1 -> G] : Follows(F, none, step, L + 1)
  <2>1. L + 1 \in Nat
    OBVIOUS
  <2> HIDE DEF step, G
  <2> QED
    BY <1>1, <1>3, <2>1, Recursion
<1> DEFINE S == {n \in Nat : n <= L + 1 => \A q \in 0 .. L : q >= From(n) => F[n][q] = body[q][F[n]]}
<1>5. 0 \in S
  OBVIOUS
<1>6. ASSUME NEW n \in Nat, n \in S PROVE n + 1 \in S
  <2> SUFFICES ASSUME n + 1 <= L + 1, NEW q \in 0 .. L, q >= From(n + 1)
               PROVE  F[n + 1][q] = body[q][F[n + 1]]
    OBVIOUS
  <2>1. PICK m, p : m = n + 1 /\ p = From(m)
    OBVIOUS
  <2>2. /\ m \in 1 .. L + 1 /\ m \in 0 .. L + 1 /\ n \in 0 .. L + 1 /\ m - 1 = n /\ n <= L + 1
        /\ p \in 0 .. L /\ From(n) = p + 1 /\ q >= p /\ m \in Nat
    BY <2>1
  <2>3. PICK g, h : g = F[n] /\ h = F[m]
    OBVIOUS
  <2>4. g \in G /\ h \in G
    BY <2>2, <2>3
  <2>5. h = Put(g, p)
    <3>1. h = step[m][g]
      BY <1>4, <2>2, <2>3 DEF Follows
    <3> QED
      BY <2>1, <2>2, <2>4, <3>1
  <2>6. h[p] = body[p][g] /\ \A r \in 0 .. L : r # p => h[r] = g[r]
    BY <1>2, <2>2, <2>4, <2>5
  <2>7. \A r \in 0 .. L : q < r => g[r] = h[r]
    BY <2>2, <2>6
  <2>8. body[q][g] = body[q][h]
    BY <2>4, <2>7 DEF LooksBehind
  <2>9. CASE q = p
    BY <2>1, <2>3, <2>6, <2>8, <2>9
  <2>10. CASE q # p
    <3>1. q >= From(n)
      BY <2>2, <2>10
    <3>2. g[q] = body[q][g]
      BY <1>6, <2>2, <2>3, <3>1
    <3> QED
      BY <2>1, <2>3, <2>6, <2>8, <2>10, <3>2
  <2> QED
    BY <2>9, <2>10
<1>7. Nat \subseteq S
  <2> HIDE DEF S
  <2> QED
    BY <1>5, <1>6, Induction
<1>8. L + 1 \in S /\ From(L + 1) = 0 /\ F[L + 1] \in G
  <2>1. L + 1 \in Nat /\ L + 1 \in 0 .. L + 1
    OBVIOUS
  <2>2. L + 1 \in S
    <3> HIDE DEF S
    <3> QED
      BY <1>7, <2>1
  <2> QED
    BY <2>1, <2>2
<1>9. \A q \in 0 .. L : F[L + 1][q] = body[q][F[L + 1]]
  BY <1>8
<1> QED
  BY <1>8, <1>9 DEF Solves

\* A set of numbers below n has a greatest member, and Max is it.
LEMMA Greatest ==
  ASSUME NEW n \in Nat, NEW S, S \subseteq 0 .. n, S # {}
  PROVE  Max(S) \in S /\ \A p \in S : p <= Max(S)
<1>1. PICK rests : rests = {n - p : p \in S}
  OBVIOUS
<1>2. PICK r \in rests : \A m \in rests : r <= m
  <2>1. \A p \in S : p \in 0 .. n /\ n - p \in Nat
    OBVIOUS
  <2>2. rests \subseteq Nat /\ rests # {}
    BY <1>1, <2>1
  <2> QED
    BY <2>2, Least
<1>3. PICK q \in S : r = n - q
  BY <1>1, <1>2
<1>4. \A p \in S : p <= q
  <2>1. \A p \in S : n - p \in rests
    BY <1>1
  <2> QED
    BY <1>2, <1>3, <2>1
<1>5. \E p \in S : \A m \in S : p >= m
  BY <1>3, <1>4
<1>6. Max(S) \in S /\ \A m \in S : Max(S) >= m
  BY <1>5 DEF Max
<1> QED
  BY <1>6

\* A set of numbers has a smallest one, and Min is it.
LEMMA Smallest ==
  ASSUME NEW S, S \subseteq Nat, S # {}
  PROVE  Min(S) \in S /\ \A p \in S : Min(S) <= p
<1>1. \E p \in S : \A m \in S : p <= m
  BY Least
<1> QED
  BY <1>1 DEF Min

\* What is cut off at the ends is dropped, what remains begins and ends with a keeper.
LEMMA TrimmedEnd ==
  ASSUME NEW X, NEW s \in Seq(X), NEW drop
  PROVE  /\ rtrim(s, drop) \in Seq(X)
         /\ \E n \in 0 .. Len(s) : /\ rtrim(s, drop) = Before(s, n)
                                   /\ n > 0 => s[n] \notin drop
                                   /\ \A i \in n + 1 .. Len(s) : s[i] \in drop
<1>1. PICK K : K = Keepers(s, drop)
  OBVIOUS
<1>2. Len(s) \in Nat /\ K = {i \in 1 .. Len(s) : s[i] \notin drop} /\ K \subseteq 0 .. Len(s)
  BY <1>1 DEF Keepers
<1>3. PICK n \in 0 .. Len(s) : /\ rtrim(s, drop) = Before(s, n)
                               /\ n > 0 => s[n] \notin drop
                               /\ \A i \in n + 1 .. Len(s) : s[i] \in drop
  <2>1. CASE K = {}
    <3>1. Before(s, 0) = <<>>
      <4>1. 0 \in 0 .. Len(s)
        BY <1>2
      <4>2. Before(s, 0) \in Seq(X) /\ Len(Before(s, 0)) = 0
        BY <4>1, Cutting
      <4> QED
        BY <4>2
    <3>2. rtrim(s, drop) = <<>>
      BY <1>1, <2>1 DEF rtrim
    <3>3. \A i \in 0 + 1 .. Len(s) : s[i] \in drop
      BY <1>2, <2>1
    <3>4. 0 \in 0 .. Len(s) /\ ~(0 > 0)
      BY <1>2
    <3> QED
      BY <3>1, <3>2, <3>3, <3>4
  <2>2. CASE K # {}
    <3>1. PICK n : n = Max(K)
      OBVIOUS
    <3>2. n \in K /\ \A p \in K : p <= n
      BY <1>2, <2>2, <3>1, Greatest
    <3>3. rtrim(s, drop) = Before(s, n)
      BY <1>1, <2>2, <3>1 DEF rtrim, Before
    <3>4. \A i \in n + 1 .. Len(s) : s[i] \in drop
      <4>1. \A i \in n + 1 .. Len(s) : i \in 1 .. Len(s) /\ ~(i <= n)
        BY <1>2, <3>2
      <4> QED
        BY <1>2, <3>2, <4>1
    <3>5. n \in 0 .. Len(s) /\ s[n] \notin drop
      BY <1>2, <3>2
    <3> QED
      BY <3>3, <3>4, <3>5
  <2> QED
    BY <2>1, <2>2
<1>4. Before(s, n) \in Seq(X)
  BY Cutting
<1> QED
  BY <1>3, <1>4

LEMMA TrimmedStart ==
  ASSUME NEW X, NEW s \in Seq(X), NEW drop
  PROVE  /\ ltrim(s, drop) \in Seq(X)
         /\ \E n \in 0 .. Len(s) : /\ ltrim(s, drop) = Since(s, n)
                                   /\ n < Len(s) => s[n + 1] \notin drop
                                   /\ \A i \in 1 .. n : s[i] \in drop
<1>1. PICK K : K = Keepers(s, drop)
  OBVIOUS
<1>2. Len(s) \in Nat /\ K = {i \in 1 .. Len(s) : s[i] \notin drop} /\ K \subseteq Nat
  BY <1>1 DEF Keepers
<1>3. PICK n \in 0 .. Len(s) : /\ ltrim(s, drop) = Since(s, n)
                               /\ n < Len(s) => s[n + 1] \notin drop
                               /\ \A i \in 1 .. n : s[i] \in drop
  <2>1. CASE K = {}
    <3>1. Since(s, Len(s)) = <<>>
      <4>1. Len(s) \in 0 .. Len(s)
        BY <1>2
      <4>2. Since(s, Len(s)) \in Seq(X) /\ Len(Since(s, Len(s))) = Len(s) - Len(s)
        BY <4>1, Cutting
      <4>3. Len(Since(s, Len(s))) = 0
        BY <1>2, <4>2
      <4> QED
        BY <4>2, <4>3
    <3>2. ltrim(s, drop) = <<>>
      BY <1>1, <2>1 DEF ltrim
    <3>3. \A i \in 1 .. Len(s) : s[i] \in drop
      BY <1>2, <2>1
    <3>4. Len(s) \in 0 .. Len(s) /\ ~(Len(s) < Len(s))
      BY <1>2
    <3> QED
      BY <3>1, <3>2, <3>3, <3>4
  <2>2. CASE K # {}
    <3>1. PICK m, n : m = Min(K) /\ n = m - 1
      OBVIOUS
    <3>2. m \in K /\ \A p \in K : m <= p
      BY <1>2, <2>2, <3>1, Smallest
    <3>3. n \in 0 .. Len(s) /\ n + 1 = m
      BY <1>2, <3>1, <3>2
    <3>4. ltrim(s, drop) = Since(s, n)
      BY <1>1, <2>2, <3>1, <3>3 DEF ltrim, Since
    <3>5. \A i \in 1 .. n : s[i] \in drop
      <4>1. \A i \in 1 .. n : i \in 1 .. Len(s) /\ ~(m <= i)
        BY <1>2, <3>2, <3>3
      <4> QED
        BY <1>2, <3>2, <4>1
    <3>6. s[n + 1] \notin drop
      BY <1>2, <3>2, <3>3
    <3> QED
      BY <3>3, <3>4, <3>5, <3>6
  <2> QED
    BY <2>1, <2>2
<1>4. Since(s, n) \in Seq(X)
  BY Cutting
<1> QED
  BY <1>3, <1>4

LEMMA TrimmedText ==
  ASSUME NEW X, NEW s \in Seq(X), NEW drop
  PROVE  trim(s, drop) \in Seq(X)
<1>1. PICK r \in Seq(X) : r = rtrim(s, drop)
  BY TrimmedEnd
<1>2. ltrim(r, drop) \in Seq(X)
  BY TrimmedStart
<1> QED
  BY <1>1, <1>2 DEF trim

\* A piece as split_string hands it out, and what it adds to the pieces before it.
Piece(x, t, remove_space) == IF remove_space /\ t # <<" ">> THEN trim(x, {" "}) ELSE x
Kept(x, t, remove_space) == IF x = <<>> THEN <<>> ELSE <<Piece(x, t, remove_space)>>
Pieces(row, t, remove_space) ==
  [i \in DOMAIN Filled(row) |-> Piece(Filled(row)[i], t, remove_space)]

LEMMA PieceIsText ==
  ASSUME NEW X, NEW x \in Seq(X), NEW t, NEW remove_space
  PROVE  /\ Piece(x, t, remove_space) \in Seq(X)
         /\ Kept(x, t, remove_space) \in Seq(Seq(X))
<1>1. PICK y : y = Piece(x, t, remove_space)
  OBVIOUS
<1>2. trim(x, {" "}) \in Seq(X)
  BY TrimmedText
<1>3. y \in Seq(X)
  BY <1>1, <1>2 DEF Piece
<1>4. <<y>> \in Seq(Seq(X)) /\ <<>> \in Seq(Seq(X))
  BY <1>3, EmptySeq
<1> QED
  BY <1>1, <1>3, <1>4 DEF Kept

LEMMA FilledNext ==
  ASSUME NEW X, NEW row \in Seq(Seq(X)), NEW x \in Seq(X)
  PROVE  /\ Filled(row) \in Seq(Seq(X))
         /\ Filled(Append(row, x)) = IF x = <<>> THEN Filled(row) ELSE Append(Filled(row), x)
<1>1. PICK Y : Y = Seq(X)
  OBVIOUS
<1>2. row \in Seq(Y) /\ x \in Y
  BY <1>1
<1>3. PICK none : none = <<>>
  OBVIOUS
<1>4. Without(row, {none}) \in Seq(Y)
  BY <1>2, KeepsNext
<1>5. Without(Append(row, x), {none})
        = IF x \in {none} THEN Without(row, {none}) ELSE Append(Without(row, {none}), x)
  BY <1>2, KeepsNext
<1>6. x \in {none} <=> x = <<>>
  BY <1>3
<1> QED
  BY <1>1, <1>3, <1>4, <1>5, <1>6, Zenon DEF Filled

LEMMA PiecesNext ==
  ASSUME NEW X, NEW row \in Seq(Seq(X)), NEW x \in Seq(X), NEW t, NEW remove_space
  PROVE  /\ Pieces(row, t, remove_space) \in Seq(Seq(X))
         /\ Pieces(Append(row, x), t, remove_space)
              = Pieces(row, t, remove_space) \o Kept(x, t, remove_space)
<1>1. PICK f, n, p : f = Filled(row) /\ n = Len(f) /\ p = Pieces(row, t, remove_space)
  OBVIOUS
<1>2. f \in Seq(Seq(X)) /\ n \in Nat /\ DOMAIN f = 1 .. n
  <2>1. f \in Seq(Seq(X))
    BY <1>1, FilledNext
  <2> QED
    BY <1>1, <2>1
<1>3. /\ p \in Seq(Seq(X)) /\ Len(p) = n
      /\ \A i \in 1 .. n : p[i] = Piece(f[i], t, remove_space)
  <2>1. p = [i \in 1 .. n |-> Piece(f[i], t, remove_space)]
    BY <1>1, <1>2 DEF Pieces
  <2>2. \A i \in 1 .. n : Piece(f[i], t, remove_space) \in Seq(X)
    <3>1. \A i \in 1 .. n : f[i] \in Seq(X)
      BY <1>1, <1>2
    <3> QED
      BY <3>1, PieceIsText
  <2>3. p \in [1 .. n -> Seq(X)]
    BY <2>1, <2>2
  <2> QED
    BY <1>2, <2>1, <2>3
<1>4. PICK q : q = Pieces(Append(row, x), t, remove_space)
  OBVIOUS
<1>5. PICK none \in Seq(Seq(X)) : none = <<>>
  BY EmptySeq
<1>6. CASE x = <<>>
  <2>1. Filled(Append(row, x)) = f
    BY <1>1, <1>6, FilledNext
  <2>2. q = p
    BY <1>1, <1>4, <2>1 DEF Pieces
  <2>3. p \o none = p
    BY <1>3, <1>5
  <2>4. Kept(x, t, remove_space) = none
    BY <1>5, <1>6 DEF Kept
  <2> QED
    BY <1>1, <1>3, <1>4, <2>2, <2>3, <2>4
<1>7. CASE x # <<>>
  <2>1. PICK y \in Seq(X) : y = Piece(x, t, remove_space)
    BY PieceIsText
  <2>2. PICK g : g = Append(f, x)
    OBVIOUS
  <2>3. Filled(Append(row, x)) = g
    BY <1>1, <1>7, <2>2, FilledNext
  <2>4. /\ g \in Seq(Seq(X)) /\ Len(g) = n + 1 /\ g[n + 1] = x /\ DOMAIN g = 1 .. n + 1
        /\ \A i \in 1 .. n : g[i] = f[i]
    BY <1>1, <1>2, <2>2
  <2>5. q = [i \in 1 .. n + 1 |-> Piece(g[i], t, remove_space)]
    BY <1>4, <2>3, <2>4 DEF Pieces
  <2>6. PICK r : r = Append(p, y)
    OBVIOUS
  <2>7. /\ r \in Seq(Seq(X)) /\ Len(r) = n + 1 /\ r[n + 1] = y
        /\ \A i \in 1 .. n : r[i] = p[i]
    BY <1>3, <2>6
  <2>8. \A i \in 1 .. n + 1 : r[i] = Piece(g[i], t, remove_space)
    <3> SUFFICES ASSUME NEW i \in 1 .. n + 1 PROVE r[i] = Piece(g[i], t, remove_space)
      OBVIOUS
    <3>1. i = n + 1 \/ i \in 1 .. n
      BY <1>2
    <3> QED
      BY <1>3, <2>1, <2>4, <2>7, <3>1
  <2>9. r = q
    <3>1. r = [i \in 1 .. n + 1 |-> r[i]]
      BY <2>7
    <3> QED
      BY <2>5, <2>8, <3>1
  <2>10. r = p \o <<y>>
    BY <1>3, <2>6
  <2>11. Kept(x, t, remove_space) = <<y>>
    BY <1>7, <2>1 DEF Kept
  <2> QED
    BY <1>1, <1>3, <1>4, <2>9, <2>10, <2>11
<1> QED
  BY <1>6, <1>7

\* The part of a text between two places.
LEMMA Middle ==
  ASSUME NEW X, NEW s \in Seq(X), NEW p \in 0 .. Len(s), NEW q \in 0 .. Len(s) - p
  PROVE  Before(Since(s, p), q) = SubSeq(s, p + 1, p + q)
<1>1. Len(s) \in Nat /\ p \in Nat /\ q \in Nat
  OBVIOUS
<1>2. PICK o, b, m : o = Since(s, p) /\ b = Before(o, q) /\ m = SubSeq(s, p + 1, p + q)
  OBVIOUS
<1>3. /\ o \in Seq(X) /\ Len(o) = Len(s) - p
      /\ \A i \in 1 .. Len(s) - p : o[i] = s[p + i]
  BY <1>2, Cutting
<1>4. q \in 0 .. Len(o)
  BY <1>3
<1>5. b \in Seq(X) /\ Len(b) = q /\ \A i \in 1 .. q : b[i] = o[i]
  BY <1>2, <1>3, <1>4, Cutting
<1>6. m \in Seq(X) /\ Len(m) = q /\ \A i \in 1 .. q : m[i] = s[p + i]
  <2>1. \A j \in p + 1 .. p + q : s[j] \in X
    BY <1>1
  <2>2. /\ m \in Seq(X) /\ Len(m) = (IF p + 1 <= p + q THEN (p + q) - (p + 1) + 1 ELSE 0)
        /\ \A i \in 1 .. (p + q) - (p + 1) + 1 : m[i] = s[p + 1 + i - 1]
    BY <1>1, <1>2, <2>1, SubSeqProperties
  <2>3. (p + q) - (p + 1) + 1 = q /\ \A i \in 1 .. q : p + 1 + i - 1 = p + i
    BY <1>1
  <2> QED
    BY <1>1, <2>2, <2>3
<1>7. \A i \in 1 .. q : b[i] = m[i]
  <2>1. \A i \in 1 .. q : i \in 1 .. Len(s) - p
    BY <1>1
  <2> QED
    BY <1>3, <1>5, <1>6, <2>1
<1> QED
  BY <1>2, <1>5, <1>6, <1>7, SeqEqual

\* What split_string finds from a place on: the piece there and the pieces behind it.
PiecesFrom(s, t, remove_space, f, p) ==
  IF find(s, t, p) = npos THEN Kept(Since(s, p), t, remove_space)
  ELSE Kept(SubSeq(s, p + 1, find(s, t, p)), t, remove_space) \o f[find(s, t, p) + Len(t)]

\* A token is behind the place it is searched from.
LEMMA TokenBehind ==
  ASSUME NEW X, NEW s \in Seq(X), NEW t \in Seq(X), t # <<>>, NEW p \in 0 .. Len(s),
         find(s, t, p) # npos
  PROVE  /\ find(s, t, p) + Len(t) \in 0 .. Len(s) /\ p < find(s, t, p) + Len(t)
         /\ SubSeq(s, p + 1, find(s, t, p)) \in Seq(X)
<1>1. PICK e : e = find(s, t, p)
  OBVIOUS
<1>2. Len(s) \in Nat /\ Len(t) \in Nat \ {0} /\ p \in Nat
  BY EmptySeq
<1>3. e \in Occurrences(s, t) /\ e >= p
  BY <1>1, <1>2, FindIs
<1>4. e \in Nat /\ e + Len(t) \in 0 .. Len(s)
  BY <1>3, Occurring
<1>5. \A j \in p + 1 .. e : s[j] \in X
  BY <1>2, <1>4
<1>6. SubSeq(s, p + 1, e) \in Seq(X)
  BY <1>2, <1>4, <1>5, SubSeqProperties
<1> QED
  BY <1>1, <1>2, <1>3, <1>4, <1>6

LEMMA PiecesAreText ==
  ASSUME NEW X, NEW s \in Seq(X), NEW t \in Seq(X), t # <<>>, NEW remove_space,
         NEW f \in [0 .. Len(s) -> Seq(Seq(X))], NEW p \in 0 .. Len(s)
  PROVE  PiecesFrom(s, t, remove_space, f, p) \in Seq(Seq(X))
<1>1. CASE find(s, t, p) = npos
  <2>1. PICK x \in Seq(X) : x = Since(s, p)
    BY Cutting
  <2>2. Kept(x, t, remove_space) \in Seq(Seq(X))
    BY PieceIsText
  <2> QED
    BY <1>1, <2>1, <2>2 DEF PiecesFrom
<1>2. CASE find(s, t, p) # npos
  <2>1. PICK x, e : x = SubSeq(s, p + 1, find(s, t, p)) /\ e = find(s, t, p) + Len(t)
    OBVIOUS
  <2>2. x \in Seq(X) /\ e \in 0 .. Len(s)
    BY <1>2, <2>1, TokenBehind
  <2>3. PICK k, r : k = Kept(x, t, remove_space) /\ r = f[e]
    OBVIOUS
  <2>4. k \in Seq(Seq(X)) /\ r \in Seq(Seq(X))
    BY <2>2, <2>3, PieceIsText
  <2>5. k \o r \in Seq(Seq(X))
    BY <2>4
  <2> QED
    BY <1>2, <2>1, <2>3, <2>5 DEF PiecesFrom
<1> QED
  BY <1>1, <1>2

\* The pieces of split_string, and those from every other place on.
Splits(f, s, t, remove_space) ==
  /\ split_string(s, t, remove_space) = f[0]
  /\ \A p \in 0 .. Len(s) : f[p] = PiecesFrom(s, t, remove_space, f, p)

\* The recursion of split_string, written out.
LEMMA SplitIs ==
  ASSUME NEW X, NEW s \in Seq(X), NEW t \in Seq(X), t # <<>>, Len(t) < Len(s), NEW remove_space
  PROVE  \E f : Splits(f, s, t, remove_space)
<1> DEFINE L == Len(s)
           Y == Seq(Seq(X))
           Fits(f) == f = [p \in 0 .. L |-> PiecesFrom(s, t, remove_space, f, p)]
           splitFrom == CHOOSE f : Fits(f)
           body == [p \in 0 .. L |-> [g \in [0 .. L -> Y] |-> PiecesFrom(s, t, remove_space, g, p)]]
<1>1. L \in Nat /\ Len(t) \in Nat \ {0}
  BY EmptySeq
<1>2. body \in [0 .. L -> [[0 .. L -> Y] -> Y]]
  <2>1. \A p \in 0 .. L, g \in [0 .. L -> Y] : PiecesFrom(s, t, remove_space, g, p) \in Y
    BY PiecesAreText
  <2> QED
    BY <2>1
<1>3. LooksBehind(body, Y, L)
  <2> SUFFICES ASSUME NEW p \in 0 .. L, NEW g \in [0 .. L -> Y], NEW h \in [0 .. L -> Y],
                      \A q \in 0 .. L : p < q => g[q] = h[q]
               PROVE  PiecesFrom(s, t, remove_space, g, p) = PiecesFrom(s, t, remove_space, h, p)
    BY DEF LooksBehind
  <2>1. CASE find(s, t, p) = npos
    BY <2>1 DEF PiecesFrom
  <2>2. CASE find(s, t, p) # npos
    <3>1. PICK e : e = find(s, t, p) + Len(t)
      OBVIOUS
    <3>2. e \in 0 .. L /\ p < e
      BY <2>2, <3>1, TokenBehind
    <3>3. g[e] = h[e]
      BY <3>2
    <3> QED
      BY <2>2, <3>1, <3>3 DEF PiecesFrom
  <2> QED
    BY <2>1, <2>2
<1>4. PICK f \in [0 .. L -> Y] : Solves(f, body, L)
  <2>1. PICK y \in Y : y = <<>>
    BY EmptySeq
  <2> HIDE DEF body, Y, L
  <2> QED
    BY <1>1, <1>2, <1>3, BackwardRecursion
<1>5. Fits(f)
  <2>1. \A p \in 0 .. L : f[p] = PiecesFrom(s, t, remove_space, f, p)
    BY <1>4 DEF Solves
  <2>2. f = [p \in 0 .. L |-> f[p]]
    BY <1>4
  <2> QED
    BY <2>1, <2>2
<1>6. Fits(splitFrom)
  BY <1>5
<1>7. \A p \in 0 .. L : splitFrom[p] = PiecesFrom(s, t, remove_space, splitFrom, p)
  <2> HIDE DEF splitFrom
  <2> QED
    BY <1>6
<1>8. split_string(s, t, remove_space) = splitFrom[0]
  <2>1. s # <<>> /\ ~(Len(s) <= Len(t))
    BY <1>1
  <2> QED
    BY <2>1, Zenon DEF split_string, PiecesFrom, Kept, Piece
<1> QED
  BY <1>7, <1>8 DEF Splits

\* As far as p the text has been read into row and an empty field behind it: the pieces of
\* row, and those from p on, are the pieces of all fields.
Finishes(f, X, s, t, remove_space, p) ==
  \A row \in Seq(Seq(X)) :
     ReadUpto(X, s, t, p, Append(row, <<>>)) =>
       Pieces(row, t, remove_space) \o f[p] = Pieces(Fields(s, t), t, remove_space)

\* From a place at which a field begins the rest of the fields follow.
LEMMA SplitStep ==
  ASSUME NEW X, NEW s \in Seq(X), NEW t \in Seq(X), t # <<>>, NEW remove_space,
         NEW f, Splits(f, s, t, remove_space), NEW p \in 0 .. Len(s),
         \A q \in 0 .. Len(s) : p < q => /\ Finishes(f, X, s, t, remove_space, q)
                                         /\ f[q] \in Seq(Seq(X))
  PROVE  Finishes(f, X, s, t, remove_space, p) /\ f[p] \in Seq(Seq(X))
<1>1. PICK l, o : l = Before(s, p) /\ o = Since(s, p)
  OBVIOUS
<1>2. /\ l \in Seq(X) /\ o \in Seq(X) /\ Len(l) = p /\ Len(o) = Len(s) - p /\ s = l \o o
      /\ Len(s) \in Nat /\ p \in Nat /\ Len(t) \in Nat \ {0}
  <2>1. l \in Seq(X) /\ o \in Seq(X) /\ Len(l) = p /\ Len(o) = Len(s) - p /\ s = l \o o
    BY <1>1, Cutting
  <2>2. Len(s) \in Nat /\ p \in Nat
    OBVIOUS
  <2>3. Len(t) \in Nat \ {0}
    BY EmptySeq
  <2> QED
    BY <2>1, <2>2, <2>3
<1>3. \A row \in Seq(Seq(X)), x \in Seq(X) :
        Pieces(Append(row, x), t, remove_space)
          = Pieces(row, t, remove_space) \o Kept(x, t, remove_space)
  BY PiecesNext
<1>4. \A a, b, c \in Seq(Seq(X)) : Regrouped(a, b, c)
  BY Regrouping
<1>5. PICK q : q = find(o, t, 0)
  OBVIOUS
<1>6. find(s, t, p) = IF q = npos THEN npos ELSE p + q
  <2>1. find(l \o o, t, Len(l)) = IF q = npos THEN npos ELSE Len(l) + q
    BY <1>2, <1>5, FindBehind
  <2> QED
    BY <1>2, <2>1
<1>7. \A row \in Seq(Seq(X)) : ReadUpto(X, s, t, p, Append(row, <<>>)) =>
        IF q = npos THEN Fields(s, t) = Append(row, o)
        ELSE ReadUpto(X, s, t, p + (q + Len(t)), Append(Append(row, Before(o, q)), <<>>))
  <2> SUFFICES ASSUME NEW row \in Seq(Seq(X)), ReadUpto(X, s, t, p, Append(row, <<>>))
               PROVE  IF q = npos THEN Fields(s, t) = Append(row, o)
                      ELSE ReadUpto(X, s, t, p + (q + Len(t)), Append(Append(row, Before(o, q)), <<>>))
    OBVIOUS
  <2>1. ReadUpto(X, l \o o, t, Len(l), Append(row, <<>>))
    BY <1>2
  <2>2. IF q = npos THEN Fields(l \o o, t) = Append(row, o)
        ELSE ReadUpto(X, l \o o, t, Len(l) + (q + Len(t)), Append(Append(row, Before(o, q)), <<>>))
    BY <1>2, <1>5, <2>1, ReadPiece
  <2> QED
    BY <1>2, <2>2
<1>8. f[p] = PiecesFrom(s, t, remove_space, f, p)
  BY DEF Splits
<1>9. CASE q = npos
  <2>1. f[p] = Kept(o, t, remove_space)
    BY <1>1, <1>6, <1>8, <1>9 DEF PiecesFrom
  <2>2. f[p] \in Seq(Seq(X))
    BY <1>2, <2>1, PieceIsText
  <2>3. ASSUME NEW row \in Seq(Seq(X)), ReadUpto(X, s, t, p, Append(row, <<>>))
        PROVE  Pieces(row, t, remove_space) \o f[p] = Pieces(Fields(s, t), t, remove_space)
    <3>1. Fields(s, t) = Append(row, o)
      BY <1>7, <1>9, <2>3
    <3>2. Pieces(Append(row, o), t, remove_space)
            = Pieces(row, t, remove_space) \o Kept(o, t, remove_space)
      BY <1>2, PiecesNext, SMTT(30)
    <3> QED
      BY <2>1, <3>1, <3>2
  <2> QED
    BY <2>2, <2>3 DEF Finishes
<1>10. CASE q # npos
  <2>1. q \in Nat /\ p + q \in Nat /\ p + q # npos
    BY <1>2, <1>5, <1>10, FindIs DEF npos
  <2>2. find(s, t, p) = p + q /\ find(s, t, p) # npos
    BY <1>6, <1>10, <2>1
  <2>3. PICK e : e = p + (q + Len(t))
    OBVIOUS
  <2>4. e \in 0 .. Len(s) /\ p < e /\ find(s, t, p) + Len(t) = e /\ q \in 0 .. Len(s) - p
    <3>1. find(s, t, p) + Len(t) \in 0 .. Len(s) /\ p < find(s, t, p) + Len(t)
      BY <2>2, TokenBehind
    <3>2. (p + q) + Len(t) = p + (q + Len(t))
      BY <1>2, <2>1
    <3> QED
      BY <1>2, <2>1, <2>2, <2>3, <3>1, <3>2
  <2>5. PICK b : b = Before(o, q)
    OBVIOUS
  <2>6. b = SubSeq(s, p + 1, p + q) /\ b \in Seq(X)
    <3>1. Before(Since(s, p), q) = SubSeq(s, p + 1, p + q)
      BY <2>4, Middle
    <3>2. q \in 0 .. Len(o)
      BY <1>2, <2>4
    <3>3. b \in Seq(X)
      BY <1>2, <2>5, <3>2, Cutting
    <3> QED
      BY <1>1, <2>5, <3>1, <3>3
  <2>7. PICK k, r : k = Kept(b, t, remove_space) /\ r = f[e]
    OBVIOUS
  <2>8. f[p] = k \o r
    BY <1>8, <2>2, <2>4, <2>6, <2>7 DEF PiecesFrom
  <2>9. k \in Seq(Seq(X)) /\ r \in Seq(Seq(X))
    BY <2>4, <2>6, <2>7, PieceIsText
  <2>10. ASSUME NEW row \in Seq(Seq(X)), ReadUpto(X, s, t, p, Append(row, <<>>))
         PROVE  Pieces(row, t, remove_space) \o f[p] = Pieces(Fields(s, t), t, remove_space)
    <3>1. PICK row1 : row1 = Append(row, b)
      OBVIOUS
    <3>2. row1 \in Seq(Seq(X))
      BY <2>6, <3>1
    <3>3. ReadUpto(X, s, t, e, Append(row1, <<>>))
      BY <1>7, <1>10, <2>3, <2>5, <2>10, <3>1
    <3>4. Pieces(row1, t, remove_space) \o r = Pieces(Fields(s, t), t, remove_space)
      BY <2>4, <2>7, <3>2, <3>3 DEF Finishes
    <3>5. PICK ps : ps = Pieces(row, t, remove_space)
      OBVIOUS
    <3>6. ps \in Seq(Seq(X)) /\ Pieces(row1, t, remove_space) = ps \o k
      <4>1. Pieces(row, t, remove_space) \in Seq(Seq(X))
        BY <2>6, PiecesNext
      <4>2. Pieces(Append(row, b), t, remove_space)
              = Pieces(row, t, remove_space) \o Kept(b, t, remove_space)
        BY <1>3, <2>6, Zenon
      <4> QED
        BY <2>7, <3>1, <3>5, <4>1, <4>2
    <3>7. (ps \o k) \o r = ps \o (k \o r)
      BY <1>4, <2>9, <3>6, Zenon DEF Regrouped
    <3> QED
      BY <2>8, <3>4, <3>5, <3>6, <3>7
  <2>11. k \o r \in Seq(Seq(X))
    BY <2>9
  <2> QED
    BY <2>8, <2>10, <2>11 DEF Finishes
<1> QED
  BY <1>9, <1>10

LEMMA NoPieces ==
  ASSUME NEW X, NEW t, NEW remove_space
  PROVE  Pieces(<<>>, t, remove_space) = <<>>
<1>1. PICK none \in Seq(Seq(X)), x \in Seq(X) : none = <<>> /\ x = <<>>
  BY EmptySeq
<1>2. Len(none) = 0 /\ DOMAIN none = {}
  <2>1. Len(none) = 0
    BY <1>1
  <2>2. DOMAIN none = 1 .. 0
    BY <2>1
  <2> QED
    BY <2>1, <2>2
<1>3. Filled(none) = none
  BY <1>1, KeepsNothing DEF Filled
<1>4. PICK p : p = Pieces(none, t, remove_space)
  OBVIOUS
<1>5. p \in Seq(Seq(X))
  <2>1. Pieces(none, t, remove_space) \in Seq(Seq(X))
    BY PiecesNext
  <2> QED
    BY <1>4, <2>1
<1>6. DOMAIN p = {}
  BY <1>2, <1>3, <1>4 DEF Pieces
<1>7. p = <<>>
  <2>1. Len(p) \in Nat /\ DOMAIN p = 1 .. Len(p)
    BY <1>5
  <2>2. Len(p) = 0
    BY <1>6, <2>1
  <2> QED
    BY <1>5, <2>2
<1> QED
  BY <1>1, <1>4, <1>7

\* From the first place all of them do.
LEMMA SplitsIntoPieces ==
  ASSUME NEW X, NEW s \in Seq(X), NEW t \in Seq(X), t # <<>>, Len(t) < Len(s), NEW remove_space
  PROVE  split_string(s, t, remove_space) = Pieces(Fields(s, t), t, remove_space)
<1>1. PICK f : Splits(f, s, t, remove_space)
  BY SplitIs
<1>2. PICK L \in Nat : L = Len(s)
  OBVIOUS
<1> DEFINE Ready(p) == Finishes(f, X, s, t, remove_space, p) /\ f[p] \in Seq(Seq(X))
           S == {n \in Nat : \A p \in 0 .. L : L - p <= n => Ready(p)}
<1>3. ASSUME NEW p \in 0 .. L, \A q \in 0 .. L : p < q => Ready(q) PROVE Ready(p)
  <2>1. p \in 0 .. Len(s) /\ \A q \in 0 .. Len(s) : p < q => /\ Finishes(f, X, s, t, remove_space, q)
                                                            /\ f[q] \in Seq(Seq(X))
    BY <1>2, <1>3
  <2> QED
    BY <1>1, <2>1, SplitStep
<1> HIDE DEF Ready
<1>4. 0 \in S
  <2> SUFFICES ASSUME NEW p \in 0 .. L, L - p <= 0 PROVE Ready(p)
    OBVIOUS
  <2>1. \A q \in 0 .. L : ~(p < q)
    OBVIOUS
  <2> QED
    BY <1>3, <2>1
<1>5. ASSUME NEW n \in Nat, n \in S PROVE n + 1 \in S
  <2> SUFFICES ASSUME NEW p \in 0 .. L, L - p <= n + 1 PROVE Ready(p)
    OBVIOUS
  <2>1. \A q \in 0 .. L : p < q => L - q <= n
    OBVIOUS
  <2>2. \A q \in 0 .. L : p < q => Ready(q)
    BY <1>5, <2>1
  <2> QED
    BY <1>3, <2>2
<1>6. Nat \subseteq S
  <2> HIDE DEF S
  <2> QED
    BY <1>4, <1>5, Induction
<1>7. Ready(0)
  <2>1. L \in S /\ 0 \in 0 .. L /\ L - 0 <= L
    <3>1. L \in S
      <4> HIDE DEF S
      <4> QED
        BY <1>6
    <3> QED
      BY <3>1
  <2> QED
    BY <2>1
<1>8. PICK none \in Seq(Seq(X)), empty \in Seq(X) : none = <<>> /\ empty = <<>>
  BY EmptySeq
<1>9. ReadUpto(X, s, t, 0, Append(none, empty))
  <2>1. Append(none, empty) = <<empty>>
    BY <1>8
  <2>2. ReadUpto(X, s, t, 0, <<empty>>)
    BY <1>8, ReadNothing
  <2> QED
    BY <2>1, <2>2
<1>10. Pieces(none, t, remove_space) \o f[0] = Pieces(Fields(s, t), t, remove_space)
  BY <1>7, <1>8, <1>9 DEF Ready, Finishes
<1>11. Pieces(none, t, remove_space) = none
  BY <1>8, NoPieces
<1>12. none \o f[0] = f[0]
  <2>1. PICK r \in Seq(Seq(X)) : r = f[0]
    BY <1>7 DEF Ready
  <2>2. none \o r = r
    BY <1>8
  <2> QED
    BY <2>1, <2>2
<1> QED
  BY <1>1, <1>10, <1>11, <1>12 DEF Splits

\* The pieces are the fields that are not empty.
LEMMA SplitAnswers ==
  ASSUME NEW X, source \in Seq(X), token \in Seq(X), token # <<>>
  PROVE  SplitIsExact
<1> SUFFICES ASSUME Len(token) < Len(source)
             PROVE  /\ split_string(source, token, FALSE) = Filled(Fields(source, token))
                    /\ split_string(source, token, TRUE) =
                         IF token = <<" ">> THEN Filled(Fields(source, token))
                         ELSE [i \in DOMAIN Filled(Fields(source, token)) |->
                                 trim(Filled(Fields(source, token))[i], {" "})]
  BY DEF SplitIsExact
<1>1. PICK fs : fs = Fields(source, token)
  OBVIOUS
<1>2. fs \in Seq(Seq(X))
  <2>1. PICK f : Reads(f, X, source, token) /\ fs = f[Len(source)]
    BY <1>1, FieldsAreRead
  <2>2. Len(source) \in 0 .. Len(source)
    OBVIOUS
  <2> QED
    BY <2>1, <2>2 DEF Reads, Rows
<1>3. PICK g : g = Filled(fs)
  OBVIOUS
<1>4. g = [i \in DOMAIN g |-> g[i]]
  <2>1. PICK x \in Seq(X) : x = <<>>
    BY EmptySeq
  <2>2. g \in Seq(Seq(X))
    BY <1>2, <1>3, <2>1, FilledNext
  <2> QED
    BY <2>2
<1>5. \A remove_space :
        split_string(source, token, remove_space)
          = [i \in DOMAIN g |-> Piece(g[i], token, remove_space)]
  BY <1>1, <1>3, SplitsIntoPieces DEF Pieces
<1>6. split_string(source, token, FALSE) = g
  BY <1>4, <1>5 DEF Piece
<1>7. CASE token = <<" ">>
  <2>1. split_string(source, token, TRUE) = g
    BY <1>4, <1>5, <1>7 DEF Piece
  <2> QED
    BY <1>1, <1>3, <1>6, <1>7, <2>1
<1>8. CASE token # <<" ">>
  <2>1. split_string(source, token, TRUE) = [i \in DOMAIN g |-> trim(g[i], {" "})]
    BY <1>5, <1>8 DEF Piece
  <2> QED
    BY <1>1, <1>3, <1>6, <1>8, <2>1
<1> QED
  BY <1>7, <1>8
-----------------------------------------------------------------------------
(* Paths *)

\* A token of one character occurs where the character is.
LEMMA OneCharacter ==
  ASSUME NEW X, NEW c \in X, NEW s \in Seq(X)
  PROVE  /\ <<c>> \in Seq(X) /\ Len(<<c>>) = 1
         /\ Contains(s, c) <=> Occurrences(s, <<c>>) # {}
<1>1. PICK t : t = <<c>>
  OBVIOUS
<1>2. t \in Seq(X) /\ Len(t) = 1 /\ t[1] = c
  BY <1>1
<1>3. ASSUME NEW p \in Occurrences(s, t) PROVE Contains(s, c)
  <2>1. /\ p \in Nat /\ p + Len(t) \in 0 .. Len(s)
        /\ \A i \in 1 .. Len(t) : s[p + i] = t[i]
    <3>1. t \in Seq(X)
      BY <1>2
    <3> QED
      BY <3>1, Occurring
  <2>2. p \in Nat /\ p + 1 \in 0 .. Len(s) /\ s[p + 1] = c
    BY <1>2, <2>1
  <2>3. p + 1 \in 1 .. Len(s)
    BY <2>2
  <2> QED
    BY <2>2, <2>3 DEF Contains
<1>4. ASSUME Contains(s, c) PROVE Occurrences(s, t) # {}
  <2>1. PICK i \in 1 .. Len(s) : s[i] = c
    BY <1>4 DEF Contains
  <2>2. PICK p \in 0 .. Len(s) - Len(t) : p + 1 = i
    <3>1. i - 1 \in 0 .. Len(s) - Len(t) /\ (i - 1) + 1 = i
      BY <1>2
    <3> QED
      BY <3>1
  <2>3. \A j \in 1 .. Len(t) : s[p + j] = t[j]
    BY <1>2, <2>1, <2>2
  <2>4. p \in Occurrences(s, t)
    BY <1>2, <2>3, OccursWhere
  <2> QED
    BY <2>4
<1> QED
  BY <1>1, <1>2, <1>3, <1>4

\* A text is what is in front of the last c, the c, and what is behind it.
SplitAtLast(X, s, c, front, back) ==
  /\ front \in Seq(X) /\ back \in Seq(X)
  /\ IF Contains(s, c) THEN s = (front \o <<c>>) \o back ELSE front = s /\ back = s
  /\ \A d : Contains(back, d) => Contains(s, d)

\* rfind cuts at the last one.
LEMMA LastCut ==
  ASSUME NEW X, NEW c \in X, NEW s \in Seq(X)
  PROVE  IF Contains(s, c)
         THEN /\ rfind(s, <<c>>) # npos /\ rfind(s, <<c>>) \in 0 .. Len(s)
              /\ SplitAtLast(X, s, c, Before(s, rfind(s, <<c>>)), Since(s, rfind(s, <<c>>) + 1))
         ELSE rfind(s, <<c>>) = npos
<1>1. PICK t, r : t = <<c>> /\ r = rfind(s, t)
  OBVIOUS
<1>2. t \in Seq(X) /\ Len(t) = 1 /\ (Contains(s, c) <=> Occurrences(s, t) # {})
  BY <1>1, OneCharacter
<1>3. \/ r = npos /\ Occurrences(s, t) = {}
      \/ r \in Occurrences(s, t) /\ r # npos
  BY <1>1, <1>2, RfindIs
<1>4. CASE Contains(s, c)
  <2>1. r \in Occurrences(s, t) /\ r # npos
    BY <1>2, <1>3, <1>4
  <2>2. r \in Nat /\ r \in 0 .. Len(s) /\ r + 1 \in 0 .. Len(s)
    BY <1>2, <2>1, Occurring
  <2>3. s = (Before(s, r) \o t) \o Since(s, r + 1)
    <3>1. s = (Before(s, r) \o t) \o Since(s, r + Len(t))
      BY <1>2, <2>1, MadeOf
    <3> QED
      BY <1>2, <3>1
  <2>4. Before(s, r) \in Seq(X)
    BY <2>2, Cutting
  <2>5. PICK k : k = r + 1
    OBVIOUS
  <2>6. /\ Since(s, k) \in Seq(X) /\ Len(Since(s, k)) = Len(s) - k
        /\ \A i \in 1 .. Len(s) - k : Since(s, k)[i] = s[k + i]
    BY <2>2, <2>5, Cutting
  <2>7. ASSUME NEW d, Contains(Since(s, k), d) PROVE Contains(s, d)
    <3>1. PICK i \in 1 .. Len(s) - k : Since(s, k)[i] = d
      BY <2>6, <2>7 DEF Contains
    <3>2. k + i \in 1 .. Len(s) /\ s[k + i] = d
      BY <2>2, <2>5, <2>6, <3>1
    <3> QED
      BY <3>2 DEF Contains
  <2>8. SplitAtLast(X, s, c, Before(s, r), Since(s, k))
    BY <1>1, <1>4, <2>3, <2>4, <2>5, <2>6, <2>7 DEF SplitAtLast
  <2> QED
    BY <1>1, <1>4, <2>1, <2>2, <2>5, <2>8
<1>5. CASE ~Contains(s, c)
  BY <1>1, <1>2, <1>3, <1>5
<1> QED
  BY <1>4, <1>5

\* So do both ends of extract_last_tokenEx.
LEMMA LastExtracted ==
  ASSUME NEW X, NEW c \in X, NEW s \in Seq(X)
  PROVE  /\ SplitAtLast(X, s, c, extract_last_tokenEx(s, <<c>>, TRUE),
                                 extract_last_tokenEx(s, <<c>>, FALSE))
         /\ Contains(s, c) => extract_last_tokenEx(s, <<c>>, TRUE) = Before(s, rfind(s, <<c>>))
<1>1. PICK t, r : t = <<c>> /\ r = rfind(s, t)
  OBVIOUS
<1>2. Len(t) = 1
  BY <1>1
<1>3. \A forward : extract_last_tokenEx(s, t, forward)
                     = IF r = npos THEN s
                       ELSE IF forward THEN Before(s, r) ELSE Since(s, r + 1)
  BY <1>1, <1>2 DEF extract_last_tokenEx, extract_last_token, Extracted
<1>4. CASE Contains(s, c)
  <2>1. r # npos /\ SplitAtLast(X, s, c, Before(s, r), Since(s, r + 1))
    BY <1>1, <1>4, LastCut
  <2> QED
    BY <1>1, <1>3, <2>1
<1>5. CASE ~Contains(s, c)
  <2>1. r = npos
    BY <1>1, <1>5, LastCut
  <2>2. SplitAtLast(X, s, c, s, s)
    BY <1>5 DEF SplitAtLast
  <2> QED
    BY <1>1, <1>3, <1>5, <2>1, <2>2
<1> QED
  BY <1>4, <1>5

\* A path is cut at its last backslash, a name at its last point.
LEMMA NameAnswers ==
  ASSUME NEW X, source \in Seq(X), {"\\", ".", ":"} \subseteq X,
         NEW dir, dir = directory_from_file_path(source),
         NEW name, name = file_name_from_file_path(source, TRUE, TRUE),
         NEW stem, stem = file_name_from_file_path(source, FALSE, TRUE)
  PROVE  /\ IF Contains(source, "\\") THEN source = dir \o <<"\\">> \o name
                                      ELSE dir = source /\ name = source
         /\ ~Contains(source, ":") =>
              /\ file_name_from_file_path(source, TRUE, FALSE) = name
              /\ IF get_file_extension(source) = {} THEN stem = name
                 ELSE \E ext \in get_file_extension(source) : name = stem \o <<".">> \o ext
<1>1. PICK slash \in X, dot \in X, colon \in X : slash = "\\" /\ dot = "." /\ colon = ":"
  OBVIOUS
<1>2. /\ dir = extract_last_tokenEx(source, <<slash>>, TRUE)
      /\ name = extract_last_tokenEx(source, <<slash>>, FALSE)
      /\ stem = extract_last_tokenEx(name, <<dot>>, TRUE)
      /\ file_name_from_file_path(source, TRUE, FALSE) = extract_last_tokenEx(name, <<colon>>, FALSE)
  BY <1>1 DEF directory_from_file_path, file_name_from_file_path
<1>3. SplitAtLast(X, source, slash, dir, name)
  BY <1>2, LastExtracted
<1>4. name \in Seq(X) /\ \A d : Contains(name, d) => Contains(source, d)
  BY <1>3 DEF SplitAtLast
<1>5. ASSUME ~Contains(source, ":")
      PROVE  /\ file_name_from_file_path(source, TRUE, FALSE) = name
             /\ IF get_file_extension(source) = {} THEN stem = name
                ELSE \E ext \in get_file_extension(source) : name = stem \o <<".">> \o ext
  <2>1. ~Contains(name, colon)
    BY <1>1, <1>4, <1>5
  <2>2. extract_last_tokenEx(name, <<colon>>, FALSE) = name
    <3>1. SplitAtLast(X, name, colon, extract_last_tokenEx(name, <<colon>>, TRUE),
                                      extract_last_tokenEx(name, <<colon>>, FALSE))
      BY <1>4, LastExtracted
    <3> QED
      BY <2>1, <3>1 DEF SplitAtLast
  <2>3. PICK r, ext : r = rfind(name, <<dot>>) /\ ext = Since(name, r + 1)
    OBVIOUS
  <2>4. get_file_extension(source)
          = IF r = npos THEN {}
            ELSE {IF find(ext, <<colon>>, 0) = npos THEN ext
                        ELSE Before(ext, find(ext, <<colon>>, 0))}
    BY <1>1, <1>2, <2>3 DEF get_file_extension
  <2>5. CASE Contains(name, dot)
    <3>1. r # npos /\ SplitAtLast(X, name, dot, Before(name, r), ext)
      BY <1>4, <2>3, <2>5, LastCut
    <3>2. stem = Before(name, r)
      BY <1>2, <1>4, <2>3, <2>5, LastExtracted
    <3>3. /\ name = (stem \o <<dot>>) \o ext /\ ext \in Seq(X)
          /\ \A d : Contains(ext, d) => Contains(name, d)
      BY <2>5, <3>1, <3>2 DEF SplitAtLast
    <3>4. find(ext, <<colon>>, 0) = npos
      <4>1. <<colon>> \in Seq(X) /\ Occurrences(ext, <<colon>>) = {}
        BY <2>1, <3>3, OneCharacter
      <4>2. \/ find(ext, <<colon>>, 0) = npos
            \/ find(ext, <<colon>>, 0) \in Occurrences(ext, <<colon>>)
        BY <3>3, <4>1, FindIs
      <4> QED
        BY <4>1, <4>2
    <3>5. get_file_extension(source) = {ext}
      BY <2>4, <3>1, <3>4
    <3> QED
      BY <1>1, <1>2, <2>2, <3>3, <3>5
  <2>6. CASE ~Contains(name, dot)
    <3>1. r = npos
      BY <1>4, <2>3, <2>6, LastCut
    <3>2. SplitAtLast(X, name, dot, stem, extract_last_tokenEx(name, <<dot>>, FALSE))
      BY <1>2, <1>4, LastExtracted
    <3>3. stem = name
      BY <2>6, <3>2 DEF SplitAtLast
    <3> QED
      BY <1>2, <2>2, <2>4, <3>1, <3>3
  <2> QED
    BY <2>5, <2>6
<1>6. IF Contains(source, "\\") THEN source = dir \o <<"\\">> \o name
                                ELSE dir = source /\ name = source
  BY <1>1, <1>3 DEF SplitAtLast
<1> QED
  BY <1>5, <1>6

\* The backslashes among the first i characters, one more where there is one.
LEMMA SlashesNext ==
  ASSUME NEW X, NEW s \in Seq(X)
  PROVE  /\ Slashes(Before(s, 0)) = 0
         /\ \A i \in 0 .. Len(s) : Slashes(Before(s, i)) \in Nat
         /\ \A i \in 1 .. Len(s) :
               Slashes(Before(s, i)) = IF s[i] = "\\" THEN Slashes(Before(s, i - 1)) + 1
                                       ELSE Slashes(Before(s, i - 1))
<1> DEFINE P(i) == {j \in 1 .. i : s[j] = "\\"}
<1>1. ASSUME NEW i \in 0 .. Len(s)
      PROVE  Slashes(Before(s, i)) = Cardinality(P(i)) /\ IsFiniteSet(P(i)) /\ Cardinality(P(i)) \in Nat
  <2>1. PICK b : b = Before(s, i)
    OBVIOUS
  <2>2. b \in Seq(X) /\ Len(b) = i /\ \A j \in 1 .. i : b[j] = s[j]
    BY <2>1, Cutting
  <2>3. {j \in DOMAIN b : b[j] = "\\"} = P(i)
    BY <2>2
  <2>4. IsFiniteSet(1 .. i)
    BY FS_Interval
  <2>5. IsFiniteSet(P(i)) /\ Cardinality(P(i)) \in Nat
    <3>1. P(i) \in SUBSET (1 .. i)
      OBVIOUS
    <3>2. IsFiniteSet(P(i))
      BY <2>4, <3>1, FS_Subset
    <3> QED
      BY <3>2, FS_CardinalityType
  <2> QED
    BY <2>1, <2>3, <2>5 DEF Slashes
<1>2. Slashes(Before(s, 0)) = 0
  <2>1. P(0) = {} /\ 0 \in 0 .. Len(s)
    OBVIOUS
  <2> QED
    BY <1>1, <2>1, FS_EmptySet
<1>3. ASSUME NEW i \in 1 .. Len(s)
      PROVE  Slashes(Before(s, i)) = IF s[i] = "\\" THEN Slashes(Before(s, i - 1)) + 1
                                     ELSE Slashes(Before(s, i - 1))
  <2>1. PICK k : k = i - 1
    OBVIOUS
  <2>2. k \in 0 .. Len(s) /\ i \in 0 .. Len(s) /\ i \notin P(k) /\ 1 .. i = 1 .. k \cup {i}
    BY <2>1
  <2>3. CASE s[i] = "\\"
    <3>1. P(i) = P(k) \cup {i}
      BY <2>2, <2>3
    <3>2. IsFiniteSet(P(k))
      BY <1>1, <2>2
    <3>3. Cardinality(P(i)) = Cardinality(P(k)) + 1
      BY <2>2, <3>1, <3>2, FS_AddElement
    <3> QED
      BY <1>1, <2>1, <2>2, <2>3, <3>3
  <2>4. CASE s[i] # "\\"
    <3>1. P(i) = P(k)
      BY <2>2, <2>4
    <3> QED
      BY <1>1, <2>1, <2>2, <2>4, <3>1
  <2> QED
    BY <2>3, <2>4
<1> QED
  BY <1>1, <1>2, <1>3

\* What starts at 0, does not fall and goes up in steps of one passes every number.
LEMMA Climbing ==
  ASSUME NEW L \in Nat, NEW C, C[0] = 0, \A i \in 0 .. L : C[i] \in Nat,
         \A i \in 1 .. L : C[i] = C[i - 1] \/ C[i] = C[i - 1] + 1
  PROVE  /\ \A i \in 0 .. L : C[i] <= C[L]
         /\ \A k \in Nat \ {0} : k <= C[L] => \E i \in 1 .. L : C[i] = k
<1> DEFINE Low(n) == \A i \in 0 .. n : C[i] <= C[n]
           Met(n) == \A k \in Nat \ {0} : k <= C[n] => \E i \in 1 .. n : C[i] = k
           S == {n \in Nat : n <= L => Low(n) /\ Met(n)}
<1>1. 0 \in S
  OBVIOUS
<1>2. ASSUME NEW n \in Nat, n \in S PROVE n + 1 \in S
  <2> SUFFICES ASSUME n + 1 <= L PROVE Low(n + 1) /\ Met(n + 1)
    OBVIOUS
  <2>1. PICK m : m = n + 1
    OBVIOUS
  <2>2. m \in 1 .. L /\ m - 1 = n /\ n \in 0 .. L /\ m \in 0 .. L /\ n <= L /\ m \in Nat
    BY <2>1
  <2>3. C[m] \in Nat /\ C[n] \in Nat /\ (C[m] = C[n] \/ C[m] = C[n] + 1)
    BY <2>2
  <2>4. Low(n) /\ Met(n)
    BY <1>2, <2>2
  <2>5. Low(m)
    <3> SUFFICES ASSUME NEW i \in 0 .. m PROVE C[i] <= C[m]
      OBVIOUS
    <3>1. i = m \/ i \in 0 .. n
      BY <2>1, <2>2
    <3>2. i \in 0 .. L /\ C[i] \in Nat
      BY <2>2
    <3>3. i \in 0 .. n => C[i] <= C[n]
      BY <2>4
    <3> QED
      BY <2>3, <3>1, <3>2, <3>3
  <2>6. Met(m)
    <3> SUFFICES ASSUME NEW k \in Nat \ {0}, k <= C[m] PROVE \E i \in 1 .. m : C[i] = k
      OBVIOUS
    <3>1. CASE k = C[m]
      BY <2>2, <3>1
    <3>2. CASE k # C[m]
      <4>1. k <= C[n]
        BY <2>3, <3>2
      <4>2. PICK i \in 1 .. n : C[i] = k
        BY <2>4, <4>1
      <4>3. i \in 1 .. m
        BY <2>1
      <4> QED
        BY <4>2, <4>3
    <3> QED
      BY <3>1, <3>2
  <2> QED
    BY <2>1, <2>5, <2>6
<1>3. Nat \subseteq S
  <2> HIDE DEF S
  <2> QED
    BY <1>1, <1>2, Induction
<1>4. L \in S
  <2> HIDE DEF S
  <2> QED
    BY <1>3
<1> QED
  BY <1>4

\* The first place with three backslashes in front of it is behind one; where the buffer
\* has no room for what is in front of it the answer is empty.
LEMMA DeviceAnswers ==
  ASSUME NEW X, source \in Seq(X), NEW device, device = device_name_from_nt_name(source)
  PROVE  IF Slashes(Before(source, Min({Len(source), BUF - 1}))) < 3
         THEN device = IF Len(source) < BUF - 1 THEN source ELSE <<>>
         ELSE IsPrefix(device, source) /\ Slashes(device) = 3 /\ Last(device) = "\\"
<1>1. PICK L, C : L = Len(source) /\ C = [i \in 0 .. L |-> Slashes(Before(source, i))]
  OBVIOUS
<1>2. L \in Nat /\ L \in 0 .. L /\ 0 \in 0 .. L
  BY <1>1
<1>3. \A i \in 0 .. L : C[i] = Slashes(Before(source, i)) /\ C[i] \in Nat
  BY <1>1, SlashesNext
<1>4. C[0] = 0
  BY <1>2, <1>3, SlashesNext
<1>5. \A i \in 1 .. L : C[i] = IF source[i] = "\\" THEN C[i - 1] + 1 ELSE C[i - 1]
  <2>1. \A i \in 1 .. L : i \in 0 .. L /\ i - 1 \in 0 .. L
    BY <1>2
  <2>2. \A i \in 1 .. L :
          Slashes(Before(source, i)) = IF source[i] = "\\" THEN Slashes(Before(source, i - 1)) + 1
                                       ELSE Slashes(Before(source, i - 1))
    BY <1>1, SlashesNext
  <2> QED
    BY <1>3, <2>1, <2>2
<1>6. BUF \in Nat \ {0}
  BY TextAssumption
<1>7. PICK R : R = Min({L, BUF - 1})
  OBVIOUS
<1>8. R = (IF L <= BUF - 1 THEN L ELSE BUF - 1)
  <2>1. L \in Int /\ BUF - 1 \in Int
    BY <1>2, <1>6
  <2> QED
    BY <1>7, <2>1, LeastOfTwo
<1>9. R \in 0 .. L /\ R \in Nat
  BY <1>2, <1>6, <1>8
<1>10. /\ \A i \in 0 .. R : C[i] <= C[R]
       /\ \A k \in Nat \ {0} : k <= C[R] => \E i \in 1 .. R : C[i] = k
  <2>1. \A i \in 0 .. R : C[i] \in Nat
    BY <1>2, <1>3, <1>9
  <2>2. \A i \in 1 .. R : C[i] = C[i - 1] \/ C[i] = C[i - 1] + 1
    BY <1>2, <1>5, <1>9
  <2> QED
    BY <1>4, <1>9, <2>1, <2>2, Climbing
<1>11. Slashes(Before(source, Min({Len(source), BUF - 1}))) = C[R]
  BY <1>1, <1>3, <1>7, <1>9
<1>12. PICK third : third = {i \in 1 .. L : C[i] = 3}
  OBVIOUS
<1>13. PICK cmp_count : cmp_count = (IF third = {} THEN L + 1 ELSE Min(third))
  OBVIOUS
<1>14. device = IF cmp_count >= BUF THEN <<>>
                ELSE IF third = {} THEN source ELSE Before(source, cmp_count)
  <2>1. {i \in DOMAIN source : Slashes(Before(source, i)) = 3} = third
    <3>1. DOMAIN source = 1 .. L /\ \A i \in 1 .. L : i \in 0 .. L
      BY <1>1, <1>2
    <3> QED
      BY <1>3, <1>12, <3>1
  <2> QED
    BY <1>1, <1>13, <2>1 DEF device_name_from_nt_name
<1>15. third # {} => cmp_count \in third /\ \A p \in third : cmp_count <= p
  <2>1. third \subseteq Nat
    BY <1>12
  <2> QED
    BY <1>13, <2>1, Smallest
<1>16. CASE C[R] < 3
  <2>1. \A i \in third : i > R
    <3>1. \A i \in 1 .. L : i <= R => i \in 0 .. R /\ C[i] <= C[R] /\ C[i] \in Nat
      BY <1>2, <1>3, <1>9, <1>10
    <3>2. C[R] \in Nat
      BY <1>3, <1>9
    <3> QED
      BY <1>2, <1>9, <1>12, <1>16, <3>1, <3>2
  <2>2. CASE L < BUF - 1
    <3>1. R = L /\ L + 1 < BUF
      BY <1>2, <1>6, <1>8, <2>2
    <3>2. third = {}
      BY <1>2, <1>12, <2>1, <3>1
    <3>3. cmp_count = L + 1
      BY <1>13, <3>2
    <3>4. ~(cmp_count >= BUF)
      BY <1>2, <1>6, <3>1, <3>3
    <3> QED
      BY <1>1, <1>11, <1>14, <1>16, <2>2, <3>2, <3>4
  <2>3. CASE ~(L < BUF - 1)
    <3>1. R = BUF - 1 /\ L + 1 >= BUF
      BY <1>2, <1>6, <1>8, <2>3
    <3>2. cmp_count >= BUF
      <4>1. CASE third = {}
        BY <1>13, <3>1, <4>1
      <4>2. CASE third # {}
        <5>1. cmp_count \in third
          BY <1>15, <4>2
        <5>2. cmp_count > BUF - 1 /\ cmp_count \in Nat
          BY <1>12, <2>1, <3>1, <5>1
        <5> QED
          BY <1>6, <5>2
      <4> QED
        BY <4>1, <4>2
    <3> QED
      BY <1>1, <1>11, <1>14, <1>16, <2>3, <3>2
  <2> QED
    BY <2>2, <2>3
<1>17. CASE ~(C[R] < 3)
  <2>1. PICK i \in 1 .. R : C[i] = 3
    <3>1. C[R] \in Nat /\ 3 \in Nat \ {0} /\ 3 <= C[R]
      BY <1>3, <1>9, <1>17
    <3> QED
      BY <1>10, <3>1
  <2>2. i \in third
    BY <1>2, <1>9, <1>12, <2>1
  <2>3. PICK m : m = cmp_count
    OBVIOUS
  <2>4. m \in third /\ \A p \in third : m <= p
    BY <1>15, <2>2, <2>3
  <2>5. m \in 1 .. L /\ m \in 0 .. L /\ C[m] = 3 /\ m - 1 \in 0 .. L
    BY <1>2, <1>12, <2>4
  <2>6. device = Before(source, m)
    <3>1. m <= R
      BY <1>9, <2>1, <2>2, <2>4, <2>5
    <3>2. R < BUF
      BY <1>2, <1>6, <1>8
    <3>3. ~(cmp_count >= BUF)
      BY <1>6, <1>9, <2>3, <2>5, <3>1, <3>2
    <3> QED
      BY <1>14, <2>2, <2>3, <3>3
  <2>7. device \in Seq(X) /\ Len(device) = m /\ \A j \in 1 .. m : device[j] = source[j]
    <3>1. m \in 0 .. Len(source)
      BY <1>1, <2>5
    <3> QED
      BY <2>6, <3>1, Cutting
  <2>8. IsPrefix(device, source)
    BY <1>1, <2>5, <2>7, PrefixIs
  <2>9. Slashes(device) = 3
    BY <1>3, <2>5, <2>6
  <2>10. source[m] = "\\"
    <3> SUFFICES ASSUME source[m] # "\\" PROVE FALSE
      OBVIOUS
    <3>1. C[m - 1] = 3
      BY <1>5, <2>5
    <3>2. m - 1 # 0
      BY <1>4, <3>1
    <3>3. m - 1 \in third
      BY <1>12, <2>5, <3>1, <3>2
    <3> QED
      BY <2>4, <2>5, <3>3
  <2>11. Last(device) = "\\"
    BY <2>5, <2>7, <2>10 DEF Last
  <2> QED
    BY <1>11, <1>17, <2>8, <2>9, <2>11
<1> QED
  BY <1>16, <1>17

LEMMA PathAnswers ==
  ASSUME NEW X, source \in Seq(X), {"\\", ".", ":"} \subseteq X
  PROVE  PathsAreWhole
BY NameAnswers, DeviceAnswers DEF PathsAreWhole
-----------------------------------------------------------------------------
(* Numbers *)

Readable(X) == \A c \in X : Digit(c) \in Int

Values(f, X, s) ==
  /\ f \in [0 .. Len(s) -> Int] /\ f[0] = 0
  /\ \A n \in 1 .. Len(s) : f[n] = 10 * f[n - 1] + Digit(s[n])

\* The recursion of Value, written out.
LEMMA ValuesIs ==
  ASSUME NEW X, NEW s \in Seq(X), Readable(X)
  PROVE  \E f : Values(f, X, s) /\ Value(s) = f[Len(s)]
<1> DEFINE l == Len(s)
<1> DEFINE Fits(f) == f = [n \in 0 .. l |-> IF n = 0 THEN 0 ELSE 10 * f[n - 1] + Digit(s[n])]
<1> DEFINE whole == CHOOSE f : Fits(f)
<1> DEFINE step == [n \in Nat |-> [r \in Int |-> IF n \notin 1 .. l THEN r
            ELSE 10 * r + Digit(s[n])]]
<1>1. l \in Nat /\ \A n \in 1 .. l : s[n] \in X
  OBVIOUS
<1>2. step \in [Nat -> [Int -> Int]]
  <2> SUFFICES ASSUME NEW n \in Nat, NEW r \in Int, n \in 1 .. l
               PROVE  (10 * r + Digit(s[n])) \in Int
    OBVIOUS
  <2>1. PICK x : x = Digit(s[n]) /\ x \in Int
    BY <1>1 DEF Readable
  <2>2. 10 * r + x \in Int
    BY <2>1
  <2> QED
    BY <2>1, <2>2
<1>3. 0 \in Int
  OBVIOUS
<1>4. PICK f \in [0 .. l -> Int] : Follows(f, 0, step, l)
  <2> HIDE DEF step
  <2> QED
    BY <1>1, <1>2, <1>3, Recursion
<1>5. Values(f, X, s)
  <2>1. ASSUME NEW n \in 1 .. l PROVE f[n] = 10 * f[n - 1] + Digit(s[n])
    <3>1. n \in Nat /\ n - 1 \in 0 .. l
      BY <1>1
    <3>2. f[n] = step[n][f[n - 1]] /\ f[n - 1] \in Int
      BY <1>4, <3>1 DEF Follows
    <3>3. PICK r \in Int : r = f[n - 1]
      BY <3>2
    <3>4. step[n][r] = 10 * r + Digit(s[n])
      BY <3>1
    <3> QED
      BY <3>2, <3>3, <3>4, Zenon
  <2> QED
    BY <1>4, <2>1 DEF Values, Follows
<1>6. Fits(f)
  <2>1. \A n \in 0 .. l : f[n] = IF n = 0 THEN 0 ELSE 10 * f[n - 1] + Digit(s[n])
    <3>1. PICK none : none = 0
      OBVIOUS
    <3>2. f[0] = none /\ \A n \in 1 .. l : f[n] = 10 * f[n - 1] + Digit(s[n])
      BY <1>5, <3>1 DEF Values
    <3>3. \A n \in 0 .. l : n = 0 \/ (n # 0 /\ n \in 1 .. l)
      BY <1>1
    <3> QED
      BY <3>1, <3>2, <3>3, Zenon
  <2>2. f = [n \in 0 .. l |-> f[n]]
    BY <1>4
  <2> QED
    BY <2>1, <2>2
<1>7. Fits(whole)
  BY <1>6
<1>8. whole = f
  <2> DEFINE S == {n \in Nat : n \in 0 .. l => whole[n] = f[n]}
  <2>1. \A n \in 0 .. l : whole[n] = IF n = 0 THEN 0 ELSE 10 * whole[n - 1] + Digit(s[n])
    <3> HIDE DEF whole
    <3> QED
      BY <1>7
  <2>2. DOMAIN whole = 0 .. l /\ whole = [n \in 0 .. l |-> whole[n]]
    <3> HIDE DEF whole
    <3> QED
      BY <1>7
  <2> HIDE DEF whole
  <2>3. 0 \in S
    BY <1>5, <2>1 DEF Values
  <2>4. ASSUME NEW n \in Nat, n \in S PROVE n + 1 \in S
    <3> SUFFICES ASSUME n + 1 \in 0 .. l PROVE whole[n + 1] = f[n + 1]
      OBVIOUS
    <3>1. PICK m : m = n + 1
      OBVIOUS
    <3>2. n \in 0 .. l /\ m \in 1 .. l /\ m \in 0 .. l /\ m - 1 = n /\ m # 0
      BY <1>1, <3>1
    <3>3. whole[n] = f[n]
      BY <2>4, <3>2
    <3>4. f[m] = 10 * f[n] + Digit(s[m])
      BY <1>5, <3>2, Zenon DEF Values
    <3>5. whole[m] = 10 * whole[n] + Digit(s[m])
      BY <2>1, <3>2, Zenon
    <3> QED
      BY <3>1, <3>3, <3>4, <3>5, Zenon
  <2>5. Nat \subseteq S
    <3> HIDE DEF S
    <3> QED
      BY <2>3, <2>4, Induction
  <2>6. \A n \in 0 .. l : whole[n] = f[n]
    BY <1>1, <2>5
  <2> QED
    BY <1>4, <2>2, <2>6
<1>9. Value(s) = whole[l]
  BY DEF Value
<1> QED
  BY <1>5, <1>8, <1>9

\* With one character more it takes one step more.
LEMMA ValuesNext ==
  ASSUME NEW X, NEW s \in Seq(X), NEW c \in X, Readable(X)
  PROVE  /\ Value(s) \in Int
         /\ Value(Append(s, c)) = 10 * Value(s) + Digit(c)
<1>1. PICK t, l : t = Append(s, c) /\ l = Len(s)
  OBVIOUS
<1>2. /\ t \in Seq(X) /\ Len(t) = l + 1 /\ l \in Nat /\ t[l + 1] = c
      /\ \A n \in 1 .. l : t[n] = s[n]
  BY <1>1
<1>3. PICK f : Values(f, X, s) /\ Value(s) = f[l]
  BY <1>1, ValuesIs
<1>4. PICK g : Values(g, X, t) /\ Value(t) = g[l + 1]
  BY <1>2, ValuesIs
<1>5. g[l + 1] = 10 * g[l] + Digit(c)
  <2>1. PICK m : m = l + 1
    OBVIOUS
  <2>2. m \in 1 .. Len(t) /\ m - 1 = l
    BY <1>2, <2>1
  <2>3. g[m] = 10 * g[l] + Digit(t[m])
    BY <1>4, <2>2, Zenon DEF Values
  <2> QED
    BY <1>2, <2>1, <2>3
<1> DEFINE S == {n \in Nat : n <= l => g[n] = f[n]}
<1>6. 0 \in S
  BY <1>3, <1>4 DEF Values
<1>7. ASSUME NEW n \in Nat, n \in S PROVE n + 1 \in S
  <2> SUFFICES ASSUME n + 1 <= l PROVE g[n + 1] = f[n + 1]
    OBVIOUS
  <2>1. PICK m : m = n + 1
    OBVIOUS
  <2>2. m \in 1 .. l /\ m \in 1 .. Len(t) /\ m - 1 = n /\ n <= l
    BY <1>2, <2>1
  <2>3. g[n] = f[n] /\ t[m] = s[m]
    BY <1>2, <1>7, <2>2
  <2>4. f[m] = 10 * f[n] + Digit(s[m])
    BY <1>1, <1>3, <2>2, Zenon DEF Values
  <2>5. g[m] = 10 * g[n] + Digit(t[m])
    BY <1>4, <2>2, Zenon DEF Values
  <2> QED
    BY <2>1, <2>3, <2>4, <2>5, Zenon
<1>8. Nat \subseteq S
  <2> HIDE DEF S
  <2> QED
    BY <1>6, <1>7, Induction
<1>9. g[l] = f[l]
  BY <1>2, <1>8
<1>10. Value(s) \in Int
  <2>1. l \in 0 .. Len(s)
    BY <1>1, <1>2
  <2> QED
    BY <1>3, <2>1 DEF Values
<1> QED
  BY <1>1, <1>3, <1>4, <1>5, <1>9, <1>10, Zenon

LEMMA ValuesNothing ==
  ASSUME NEW X, Readable(X)
  PROVE  Value(<<>>) = 0
<1>1. PICK e \in Seq(X) : e = <<>> /\ Len(e) = 0
  BY EmptySeq
<1>2. PICK f : Values(f, X, e) /\ Value(e) = f[0]
  BY <1>1, ValuesIs
<1> QED
  BY <1>1, <1>2 DEF Values

\* The ten digits differ, from each other and from the rest.
LEMMA DigitsAre ==
  /\ \A i \in 0 .. 9 : Digits[i + 1] \in Range(Digits) /\ Digit(Digits[i + 1]) = i
  /\ Readable(Range(Digits)) /\ " " \notin Range(Digits) /\ "-" \notin Range(Digits)
<1>1. DOMAIN Digits = 1 .. 10
  BY DEF Digits
<1>2. /\ Digits[1] = "0" /\ Digits[2] = "1" /\ Digits[3] = "2" /\ Digits[4] = "3"
      /\ Digits[5] = "4" /\ Digits[6] = "5" /\ Digits[7] = "6" /\ Digits[8] = "7"
      /\ Digits[9] = "8" /\ Digits[10] = "9"
  BY DEF Digits
<1>3. \A i \in 1 .. 10 : \/ i = 1 \/ i = 2 \/ i = 3 \/ i = 4 \/ i = 5
                         \/ i = 6 \/ i = 7 \/ i = 8 \/ i = 9 \/ i = 10
  OBVIOUS
<1>4. \A i, j \in 1 .. 10 : Digits[i] = Digits[j] => i = j
  BY <1>2, <1>3
<1>5. \A i \in 1 .. 10 : Digits[i] # " " /\ Digits[i] # "-"
  BY <1>2, <1>3
<1>6. Range(Digits) = {Digits[i] : i \in 1 .. 10}
  BY <1>1 DEF Range
<1>7. ASSUME NEW i \in 0 .. 9 PROVE Digits[i + 1] \in Range(Digits) /\ Digit(Digits[i + 1]) = i
  <2>1. PICK k \in 1 .. 10 : k = i + 1
    <3>1. i + 1 \in 1 .. 10
      OBVIOUS
    <3> QED
      BY <3>1
  <2>2. PICK c : c = Digits[k]
    OBVIOUS
  <2>3. PICK j : j = CHOOSE d \in DOMAIN Digits : Digits[d] = c
    OBVIOUS
  <2>4. j \in 1 .. 10 /\ Digits[j] = c
    BY <1>1, <2>2, <2>3
  <2>5. j = k
    BY <1>4, <2>2, <2>4
  <2>6. Digit(c) = j - 1
    BY <2>3 DEF Digit
  <2> QED
    BY <1>6, <2>1, <2>2, <2>5, <2>6
<1>8. Readable(Range(Digits))
  <2> SUFFICES ASSUME NEW c \in Range(Digits) PROVE Digit(c) \in Int
    BY DEF Readable
  <2>1. PICK k \in 1 .. 10 : c = Digits[k]
    BY <1>6
  <2>2. PICK i \in 0 .. 9 : i + 1 = k
    <3>1. k - 1 \in 0 .. 9 /\ (k - 1) + 1 = k
      OBVIOUS
    <3> QED
      BY <3>1
  <2> QED
    BY <1>7, <2>1, <2>2
<1> QED
  BY <1>5, <1>6, <1>7, <1>8

\* The digits of a number, and their places.
Spells(w, m) == w \in Seq(Range(Digits)) /\ w # <<>> /\ Value(w) = m
Numeral(d, m) == IF m < 10 THEN <<Digits[m + 1]>> ELSE Append(d[m \div 10], Digits[(m % 10) + 1])

\* What is divided by ten becomes smaller.
LEMMA DividedByTen ==
  ASSUME NEW m \in Nat
  PROVE  /\ m \div 10 \in Nat /\ m % 10 \in 0 .. 9 /\ m = 10 * (m \div 10) + (m % 10)
         /\ m >= 10 => m \div 10 < m
OBVIOUS

\* There are the numerals of all numbers as far as size: the smaller come first.
LEMMA NumeralsAre ==
  ASSUME NEW size \in Nat
  PROVE  \E d : /\ d = [m \in 0 .. size |-> Numeral(d, m)]
<1> DEFINE Y == Seq(Range(Digits))
           Of(g) == [m \in 0 .. size |-> g[size - m]]
           body == [p \in 0 .. size |-> [g \in [0 .. size -> Y] |-> Numeral(Of(g), size - p)]]
<1>1. ASSUME NEW p \in 0 .. size
      PROVE  /\ size - p \in 0 .. size /\ size - (size - p) = p
             /\ (size - p) \div 10 \in 0 .. size /\ ((size - p) % 10) \in 0 .. 9
             /\ size - p >= 10 => /\ size - ((size - p) \div 10) \in 0 .. size
                                  /\ p < size - ((size - p) \div 10)
  <2>1. PICK m \in 0 .. size : m = size - p
    OBVIOUS
  <2>2. PICK q, r : q = m \div 10 /\ r = m % 10
    OBVIOUS
  <2>3. q \in Nat /\ r \in 0 .. 9 /\ m = 10 * q + r /\ (m >= 10 => q < m)
    BY <2>2, DividedByTen
  <2> QED
    BY <2>1, <2>2, <2>3
<1>2. \A i \in 0 .. 9 : Digits[i + 1] \in Range(Digits)
  BY DigitsAre
<1>3. ASSUME NEW p \in 0 .. size, NEW g \in [0 .. size -> Y]
      PROVE  /\ size - p < 10 => Numeral(Of(g), size - p) = <<Digits[(size - p) + 1]>>
             /\ size - p >= 10 =>
                  Numeral(Of(g), size - p) = Append(g[size - ((size - p) \div 10)],
                                                    Digits[((size - p) % 10) + 1])
  <2>1. PICK m, q : m = size - p /\ q = m \div 10
    OBVIOUS
  <2>2. m \in 0 .. size /\ q \in 0 .. size
    BY <1>1, <2>1
  <2>3. Of(g)[q] = g[size - q]
    BY <2>2
  <2>4. Numeral(Of(g), m) = IF m < 10 THEN <<Digits[m + 1]>>
                            ELSE Append(Of(g)[q], Digits[(m % 10) + 1])
    <3> HIDE DEF Of
    <3> QED
      BY <2>1 DEF Numeral
  <2> HIDE DEF Of
  <2>5. CASE m < 10
    BY <2>1, <2>2, <2>4, <2>5
  <2>6. CASE ~(m < 10)
    BY <2>1, <2>2, <2>3, <2>4, <2>6
  <2> QED
    BY <2>5, <2>6
<1>4. body \in [0 .. size -> [[0 .. size -> Y] -> Y]]
  <2> SUFFICES ASSUME NEW p \in 0 .. size, NEW g \in [0 .. size -> Y]
               PROVE  Numeral(Of(g), size - p) \in Y
    OBVIOUS
  <2> HIDE DEF Of
  <2>1. CASE size - p < 10
    <3>1. size - p \in 0 .. 9
      BY <1>1, <2>1
    <3>2. PICK x \in Range(Digits) : x = Digits[(size - p) + 1]
      BY <1>2, <3>1
    <3>3. <<x>> \in Y
      OBVIOUS
    <3> QED
      BY <1>3, <2>1, <3>2, <3>3
  <2>2. CASE ~(size - p < 10)
    <3>1. size - p >= 10
      BY <1>1, <2>2
    <3>2. PICK x \in Range(Digits) : x = Digits[((size - p) % 10) + 1]
      BY <1>1, <1>2
    <3>3. PICK y \in Y : y = g[size - ((size - p) \div 10)]
      BY <1>1, <3>1
    <3>4. Append(y, x) \in Y
      OBVIOUS
    <3> QED
      BY <1>3, <3>1, <3>2, <3>3, <3>4
  <2> QED
    BY <2>1, <2>2
<1>5. LooksBehind(body, Y, size)
  <2> SUFFICES ASSUME NEW p \in 0 .. size, NEW g \in [0 .. size -> Y], NEW h \in [0 .. size -> Y],
                      \A q \in 0 .. size : p < q => g[q] = h[q]
               PROVE  body[p][g] = body[p][h]
    BY DEF LooksBehind
  <2>1. body[p][g] = Numeral(Of(g), size - p) /\ body[p][h] = Numeral(Of(h), size - p)
    OBVIOUS
  <2> HIDE DEF body, Of
  <2>2. CASE size - p < 10
    BY <1>3, <2>1, <2>2
  <2>3. CASE ~(size - p < 10)
    <3>1. size - p >= 10
      BY <1>1, <2>3
    <3>2. g[size - ((size - p) \div 10)] = h[size - ((size - p) \div 10)]
      BY <1>1, <3>1
    <3> QED
      BY <1>3, <2>1, <3>1, <3>2
  <2> QED
    BY <2>2, <2>3
<1>6. PICK f \in [0 .. size -> Y] : Solves(f, body, size)
  <2>1. PICK y \in Y : y = <<>>
    BY EmptySeq
  <2> HIDE DEF body, Y
  <2> QED
    BY <1>4, <1>5, <2>1, BackwardRecursion
<1>7. ASSUME NEW m \in 0 .. size PROVE Of(f)[m] = Numeral(Of(f), m)
  <2>1. PICK p \in 0 .. size : p = size - m /\ size - p = m
    <3>1. size - m \in 0 .. size /\ size - (size - m) = m
      BY <1>1
    <3> QED
      BY <3>1
  <2>2. f[p] = body[p][f]
    BY <1>6 DEF Solves
  <2>3. body[p][f] = Numeral(Of(f), size - p)
    OBVIOUS
  <2>4. Of(f)[m] = f[p]
    BY <2>1
  <2> QED
    BY <2>1, <2>2, <2>3, <2>4
<1>8. PICK d : d = Of(f)
  OBVIOUS
<1>9. d = [m \in 0 .. size |-> d[m]] /\ \A m \in 0 .. size : d[m] = Numeral(d, m)
  BY <1>7, <1>8
<1>10. d = [m \in 0 .. size |-> Numeral(d, m)]
  BY <1>9
<1> QED
  BY <1>10

\* A number is written with digits that have its value.
LEMMA WrittenIs ==
  ASSUME NEW n \in Int
  PROVE  \E w : /\ Spells(w, IF n < 0 THEN -n ELSE n)
                /\ Written(n) = IF n < 0 THEN <<"-">> \o w ELSE w
<1> DEFINE size == IF n < 0 THEN -n ELSE n
           Fits(d) == d = [m \in 0 .. size |-> IF m < 10 THEN <<Digits[m + 1]>>
                                               ELSE Append(d[m \div 10], Digits[(m % 10) + 1])]
           whole == CHOOSE d : Fits(d)
<1>1. size \in Nat
  OBVIOUS
<1>2. Written(n) = IF n < 0 THEN <<"-">> \o whole[size] ELSE whole[size]
  BY Zenon DEF Written
<1>3. \E d : Fits(d)
  <2>1. PICK m \in Nat : m = size
    BY <1>1
  <2>2. \E d : d = [k \in 0 .. m |-> Numeral(d, k)]
    BY NumeralsAre
  <2> HIDE DEF size
  <2> QED
    BY <2>1, <2>2, Zenon DEF Numeral
<1>4. Fits(whole)
  BY <1>3
<1>5. PICK d : d = whole
  OBVIOUS
<1>6. ASSUME NEW m \in 0 .. size
      PROVE  d[m] = IF m < 10 THEN <<Digits[m + 1]>> ELSE Append(d[m \div 10], Digits[(m % 10) + 1])
  <2>1. Fits(d)
    <3> HIDE DEF Fits, whole, size
    <3> QED
      BY <1>4, <1>5
  <2> QED
    BY <2>1
<1> HIDE DEF Fits, whole, size
<1> DEFINE S == {k \in Nat : \A m \in 0 .. size : m <= k => Spells(d[m], m)}
<1>7. ASSUME NEW m \in 0 .. size, \A q \in 0 .. size : q < m => Spells(d[q], q)
      PROVE  Spells(d[m], m)
  <2>1. PICK q, r : q = m \div 10 /\ r = m % 10
    OBVIOUS
  <2>2. q \in Nat /\ r \in 0 .. 9 /\ m = 10 * q + r /\ (m >= 10 => q < m)
    BY <2>1, DividedByTen
  <2>3. CASE m < 10
    <3>1. PICK x : x = Digits[m + 1]
      OBVIOUS
    <3>2. x \in Range(Digits) /\ Digit(x) = m
      <4>1. m \in 0 .. 9
        BY <2>3
      <4> QED
        BY <3>1, <4>1, DigitsAre
    <3>3. PICK e \in Seq(Range(Digits)) : e = <<>>
      BY EmptySeq
    <3>4. Value(Append(e, x)) = 10 * Value(e) + Digit(x)
      BY <3>2, DigitsAre, ValuesNext
    <3>5. Value(e) = 0
      BY <3>3, DigitsAre, ValuesNothing
    <3>6. Append(e, x) = <<x>> /\ <<x>> \in Seq(Range(Digits)) /\ <<x>> # <<>>
      BY <3>2, <3>3
    <3>7. Value(<<x>>) = m
      BY <3>2, <3>4, <3>5, <3>6
    <3>8. d[m] = <<x>>
      BY <1>6, <2>3, <3>1
    <3> QED
      BY <3>6, <3>7, <3>8 DEF Spells
  <2>4. CASE ~(m < 10)
    <3>1. q \in 0 .. size /\ q < m
      BY <1>1, <2>2, <2>4
    <3>2. PICK w : w = d[q]
      OBVIOUS
    <3>3. w \in Seq(Range(Digits)) /\ Value(w) = q
      BY <1>7, <3>1, <3>2 DEF Spells
    <3>4. PICK x : x = Digits[r + 1]
      OBVIOUS
    <3>5. x \in Range(Digits) /\ Digit(x) = r
      BY <2>2, <3>4, DigitsAre
    <3>6. Value(Append(w, x)) = 10 * Value(w) + Digit(x)
      BY <3>3, <3>5, DigitsAre, ValuesNext
    <3>7. Value(Append(w, x)) = m
      BY <2>2, <3>3, <3>5, <3>6
    <3>8. Append(w, x) \in Seq(Range(Digits)) /\ Append(w, x) # <<>>
      <4>1. PICK D : D = Range(Digits)
        OBVIOUS
      <4>2. Append(w, x) \in Seq(D) /\ Len(Append(w, x)) = Len(w) + 1 /\ Len(w) \in Nat
        BY <3>3, <3>5, <4>1
      <4>3. Append(w, x) # <<>>
        BY <4>2
      <4> QED
        BY <4>1, <4>2, <4>3
    <3>9. d[m] = Append(w, x)
      BY <1>6, <2>1, <2>4, <3>2, <3>4
    <3> QED
      BY <3>7, <3>8, <3>9 DEF Spells
  <2> QED
    BY <2>3, <2>4
<1>8. 0 \in S
  <2> SUFFICES ASSUME NEW m \in 0 .. size, m <= 0 PROVE Spells(d[m], m)
    OBVIOUS
  <2>1. \A q \in 0 .. size : ~(q < m)
    OBVIOUS
  <2> QED
    BY <1>7, <2>1
<1>9. ASSUME NEW k \in Nat, k \in S PROVE k + 1 \in S
  <2> SUFFICES ASSUME NEW m \in 0 .. size, m <= k + 1 PROVE Spells(d[m], m)
    OBVIOUS
  <2>1. \A q \in 0 .. size : q < m => q <= k
    OBVIOUS
  <2>2. \A q \in 0 .. size : q < m => Spells(d[q], q)
    BY <1>9, <2>1
  <2> QED
    BY <1>7, <2>2
<1>10. size \in S
  <2> HIDE DEF S
  <2>1. Nat \subseteq S
    BY <1>8, <1>9, Induction
  <2> QED
    BY <1>1, <2>1
<1>11. Spells(d[size], size)
  BY <1>1, <1>10
<1> USE DEF size
<1> QED
  BY <1>2, <1>5, <1>11

\* s is u with a blanks in front of it and b behind it.
Padded(s, a, u, b, blank) ==
  /\ a \in Nat /\ b \in Nat /\ Len(s) = a + Len(u) + b
  /\ \A i \in 1 .. a : s[i] = blank
  /\ \A i \in 1 .. Len(u) : s[a + i] = u[i]
  /\ \A i \in 1 .. b : s[a + Len(u) + i] = blank

\* Where the characters of two texts are when these are joined.
LEMMA Joining ==
  ASSUME NEW X, NEW s \in Seq(X), NEW t \in Seq(X), NEW n, n = Len(s), NEW m, m = Len(t)
  PROVE  /\ s \o t \in Seq(X) /\ Len(s \o t) = n + m /\ n \in Nat /\ m \in Nat
         /\ \A i \in 1 .. n : (s \o t)[i] = s[i]
         /\ \A i \in 1 .. m : (s \o t)[n + i] = t[i]
<1>1. /\ s \o t \in Seq(X) /\ Len(s \o t) = Len(s) + Len(t) /\ Len(s) \in Nat /\ Len(t) \in Nat
      /\ \A i \in 1 .. Len(s) + Len(t) : (s \o t)[i] = IF i <= Len(s) THEN s[i] ELSE t[i - Len(s)]
  OBVIOUS
<1>2. \A i \in 1 .. n : i \in 1 .. n + m /\ i <= n
  BY <1>1
<1>3. \A i \in 1 .. m : n + i \in 1 .. n + m /\ ~(n + i <= n) /\ (n + i) - n = i
  BY <1>1
<1> QED
  BY <1>1, <1>2, <1>3

\* A text with a blank on either side, or none.
LEMMA Padding ==
  ASSUME NEW X, NEW blank \in X, NEW u \in Seq(X),
         NEW lead \in {<<>>, <<blank>>}, NEW trail \in {<<>>, <<blank>>}
  PROVE  /\ (lead \o u) \o trail \in Seq(X)
         /\ Padded((lead \o u) \o trail, Len(lead), u, Len(trail), blank)
<1>1. blank \in X
  OBVIOUS
<1>2. <<>> \in Seq(X) /\ <<blank>> \in Seq(X)
  BY EmptySeq
<1>3. ASSUME NEW side \in {<<>>, <<blank>>}
      PROVE  side \in Seq(X) /\ Len(side) \in Nat /\ \A i \in 1 .. Len(side) : side[i] = blank
  <2>1. CASE side = <<>>
    <3>1. Len(side) = 0
      BY <2>1
    <3> QED
      BY <1>2, <2>1, <3>1
  <2>2. CASE side = <<blank>>
    <3>1. Len(side) = 1 /\ side[1] = blank
      BY <2>2
    <3> QED
      BY <1>2, <2>2, <3>1
  <2> QED
    BY <2>1, <2>2
<1>4. PICK a, b, n : a = Len(lead) /\ b = Len(trail) /\ n = Len(u)
  OBVIOUS
<1>5. a \in Nat /\ b \in Nat /\ n \in Nat
  BY <1>3, <1>4
<1>6. PICK v : v = lead \o u
  OBVIOUS
<1>7. /\ v \in Seq(X) /\ Len(v) = a + n /\ \A i \in 1 .. a : v[i] = lead[i]
      /\ \A i \in 1 .. n : v[a + i] = u[i]
  <2>1. lead \in Seq(X)
    BY <1>3
  <2> QED
    BY <1>4, <1>6, <2>1, Joining
<1>8. PICK s : s = v \o trail
  OBVIOUS
<1>9. /\ s \in Seq(X) /\ Len(s) = a + n + b /\ \A i \in 1 .. a + n : s[i] = v[i]
      /\ \A i \in 1 .. b : s[a + n + i] = trail[i]
  <2>1. trail \in Seq(X)
    BY <1>3
  <2>2. PICK m : m = a + n
    OBVIOUS
  <2>3. m \in Nat /\ Len(v) = m
    BY <1>5, <1>7, <2>2
  <2>4. /\ s \in Seq(X) /\ Len(s) = m + b /\ \A i \in 1 .. m : s[i] = v[i]
        /\ \A i \in 1 .. b : s[m + i] = trail[i]
    <3>1. v \in Seq(X) /\ m = Len(v) /\ b = Len(trail)
      BY <1>4, <1>7, <2>3
    <3> QED
      BY <1>8, <2>1, <3>1, Joining
  <2> QED
    BY <2>2, <2>4
<1>10. \A i \in 1 .. a : s[i] = blank
  <2>1. \A i \in 1 .. a : i \in 1 .. a + n
    BY <1>5
  <2> QED
    BY <1>3, <1>4, <1>7, <1>9, <2>1, ZenonT(60)
<1>11. \A i \in 1 .. n : s[a + i] = u[i]
  <2>1. \A i \in 1 .. n : a + i \in 1 .. a + n
    BY <1>5
  <2> QED
    BY <1>7, <1>9, <2>1
<1>12. \A i \in 1 .. b : s[a + n + i] = blank
  BY <1>3, <1>4, <1>9
<1>13. Padded(s, a, u, b, blank)
  BY <1>1, <1>4, <1>5, <1>9, <1>10, <1>11, <1>12 DEF Padded
<1> QED
  BY <1>4, <1>6, <1>8, <1>9, <1>13

\* The trims take the blanks off, if there is none in what they surround.
LEMMA TrimsLead ==
  ASSUME NEW X, NEW s \in Seq(X), NEW blank, NEW a, NEW b, NEW u \in Seq(X), Padded(s, a, u, b, blank),
         u # <<>>, u[1] # blank
  PROVE  ltrim(s, {blank}) \in Seq(X) /\ Padded(ltrim(s, {blank}), 0, u, b, blank)
<1>1. PICK n, l, t : n = Len(u) /\ l = Len(s) /\ t = ltrim(s, {blank})
  OBVIOUS
<1>2. /\ n \in Nat /\ n >= 1 /\ a \in Nat /\ b \in Nat /\ l = a + n + b
      /\ \A i \in 1 .. a : s[i] = blank
      /\ \A i \in 1 .. n : s[a + i] = u[i]
      /\ \A i \in 1 .. b : s[a + n + i] = blank
  BY <1>1 DEF Padded
<1>3. PICK k \in 0 .. l : /\ t = Since(s, k)
                          /\ k < l => s[k + 1] \notin {blank}
                          /\ \A i \in 1 .. k : s[i] \in {blank}
  BY <1>1, TrimmedStart
<1>4. s[a + 1] # blank
  <2>1. 1 \in 1 .. n
    BY <1>2
  <2> QED
    BY <1>2, <2>1
<1>5. k = a
  <2>1. ~(k > a)
    <3>1. ASSUME k > a PROVE a + 1 \in 1 .. k
      BY <1>2, <3>1
    <3> QED
      BY <1>3, <1>4, <3>1
  <2>2. ~(k < a)
    <3>1. ASSUME k < a PROVE k + 1 \in 1 .. a /\ k < l
      BY <1>2, <3>1
    <3> QED
      BY <1>2, <1>3, <3>1
  <2> QED
    BY <1>2, <2>1, <2>2
<1>6. /\ t \in Seq(X) /\ Len(t) = n + b /\ \A i \in 1 .. n + b : t[i] = s[a + i]
  <2>1. a \in 0 .. Len(s)
    BY <1>1, <1>2
  <2>2. /\ Since(s, a) \in Seq(X) /\ Len(Since(s, a)) = Len(s) - a
        /\ \A i \in 1 .. Len(s) - a : Since(s, a)[i] = s[a + i]
    BY <2>1, Cutting
  <2>3. Len(s) - a = n + b
    BY <1>1, <1>2
  <2>4. t = Since(s, a)
    BY <1>3, <1>5
  <2> QED
    BY <2>2, <2>3, <2>4
<1>7. \A i \in 1 .. n : t[0 + i] = u[i]
  <2>1. \A i \in 1 .. n : i \in 1 .. n + b /\ 0 + i = i
    BY <1>2
  <2> QED
    BY <1>2, <1>6, <2>1
<1>8. \A i \in 1 .. b : t[0 + n + i] = blank
  <2>1. \A i \in 1 .. b : n + i \in 1 .. n + b /\ 0 + n + i = n + i /\ a + (n + i) = a + n + i
    BY <1>2
  <2> QED
    BY <1>2, <1>6, <2>1
<1>9. Padded(t, 0, u, b, blank)
  <2>1. 0 \in Nat /\ Len(t) = 0 + n + b /\ \A i \in 1 .. 0 : t[i] = blank
    BY <1>2, <1>6
  <2> QED
    BY <1>1, <1>2, <1>7, <1>8, <2>1, Zenon DEF Padded
<1> QED
  BY <1>1, <1>6, <1>9

LEMMA TrimsTrail ==
  ASSUME NEW X, NEW s \in Seq(X), NEW blank, NEW a, NEW b, NEW u \in Seq(X), Padded(s, a, u, b, blank),
         u # <<>>, u[Len(u)] # blank
  PROVE  rtrim(s, {blank}) \in Seq(X) /\ Padded(rtrim(s, {blank}), a, u, 0, blank)
<1>1. PICK n, l, t : n = Len(u) /\ l = Len(s) /\ t = rtrim(s, {blank})
  OBVIOUS
<1>2. /\ n \in Nat /\ n >= 1 /\ a \in Nat /\ b \in Nat /\ l = a + n + b
      /\ \A i \in 1 .. a : s[i] = blank
      /\ \A i \in 1 .. n : s[a + i] = u[i]
      /\ \A i \in 1 .. b : s[a + n + i] = blank
  BY <1>1 DEF Padded
<1>3. PICK k \in 0 .. l : /\ t = Before(s, k)
                          /\ k > 0 => s[k] \notin {blank}
                          /\ \A i \in k + 1 .. l : s[i] \in {blank}
  BY <1>1, TrimmedEnd
<1>4. s[a + n] # blank
  <2>1. n \in 1 .. n
    BY <1>2
  <2> QED
    BY <1>1, <1>2, <2>1
<1>5. k = a + n
  <2>1. ~(k > a + n)
    <3> SUFFICES ASSUME k > a + n PROVE FALSE
      OBVIOUS
    <3>1. PICK i \in 1 .. b : a + n + i = k
      <4>1. k - (a + n) \in 1 .. b /\ a + n + (k - (a + n)) = k
        BY <1>2
      <4> QED
        BY <4>1
    <3>2. k > 0
      BY <1>2
    <3> QED
      BY <1>2, <1>3, <3>1, <3>2
  <2>2. ~(k < a + n)
    <3>1. ASSUME k < a + n PROVE a + n \in k + 1 .. l
      BY <1>2, <3>1
    <3> QED
      BY <1>3, <1>4, <3>1
  <2> QED
    BY <1>2, <2>1, <2>2
<1>6. PICK m : m = a + n
  OBVIOUS
<1>7. m \in 0 .. Len(s) /\ t = Before(s, m)
  BY <1>1, <1>2, <1>3, <1>5, <1>6
<1>8. t \in Seq(X) /\ Len(t) = m /\ \A i \in 1 .. m : t[i] = s[i]
  BY <1>7, Cutting
<1>9. \A i \in 1 .. a : t[i] = blank
  <2>1. \A i \in 1 .. a : i \in 1 .. m
    BY <1>2, <1>6
  <2> QED
    BY <1>2, <1>8, <2>1
<1>10. \A i \in 1 .. n : t[a + i] = u[i]
  <2>1. \A i \in 1 .. n : a + i \in 1 .. m
    BY <1>2, <1>6
  <2> QED
    BY <1>2, <1>8, <2>1
<1>11. Padded(t, a, u, 0, blank)
  <2>1. 0 \in Nat /\ Len(t) = a + n + 0 /\ \A i \in 1 .. 0 : t[a + n + i] = blank
    BY <1>2, <1>6, <1>8
  <2> QED
    BY <1>1, <1>2, <1>9, <1>10, <2>1, Zenon DEF Padded
<1> QED
  BY <1>1, <1>8, <1>11

\* A run of digits with a blank behind it, or none.
LEMMA RunIs ==
  ASSUME NEW X, Range(Digits) \subseteq X, NEW s \in Seq(X), NEW blank, NEW b, NEW m \in Nat,
         NEW w, Spells(w, m), Padded(s, 0, w, b, blank), blank \notin Range(Digits)
  PROVE  Value(Before(s, Max({n \in 0 .. Len(s) : \A i \in 1 .. n : s[i] \in Range(Digits)}))) = m
<1>1. PICK D : D = Range(Digits)
  OBVIOUS
<1>2. w \in Seq(D) /\ Len(w) \in Nat
  BY <1>1 DEF Spells
<1>3. PICK l : l = Len(w)
  OBVIOUS
<1>4. /\ l \in Nat /\ b \in Nat /\ Len(s) = l + b
      /\ \A i \in 1 .. l : s[i] = w[i]
      /\ \A i \in 1 .. b : s[l + i] = blank
  <2>1. /\ b \in Nat /\ Len(s) = 0 + l + b /\ \A i \in 1 .. l : s[0 + i] = w[i]
        /\ \A i \in 1 .. b : s[0 + l + i] = blank
    BY <1>3 DEF Padded
  <2>2. l \in Nat /\ 0 + l + b = l + b
    BY <1>2, <1>3, <2>1
  <2>3. \A i \in 1 .. l : 0 + i = i
    OBVIOUS
  <2>4. \A i \in 1 .. b : 0 + l + i = l + i
    BY <2>2
  <2> QED
    BY <2>1, <2>2, <2>3, <2>4
<1>5. PICK runs, g : runs = {n \in 0 .. Len(s) : \A i \in 1 .. n : s[i] \in D} /\ g = Max(runs)
  OBVIOUS
<1>6. l \in runs
  <2>1. \A i \in 1 .. l : w[i] \in D
    BY <1>2, <1>3
  <2> QED
    BY <1>4, <1>5, <2>1
<1>7. g \in runs /\ \A p \in runs : p <= g
  <2>1. runs \subseteq 0 .. Len(s) /\ runs # {} /\ Len(s) \in Nat
    BY <1>5, <1>6
  <2> QED
    BY <1>5, <2>1, Greatest
<1>8. g = l
  <2>1. g \in 0 .. Len(s) /\ \A i \in 1 .. g : s[i] \in D
    BY <1>5, <1>7
  <2>2. ~(g > l)
    <3> SUFFICES ASSUME g > l PROVE FALSE
      OBVIOUS
    <3>1. l + 1 \in 1 .. g /\ 1 \in 1 .. b
      BY <1>4, <2>1
    <3>2. s[l + 1] \in D /\ s[l + 1] = blank
      BY <1>4, <2>1, <3>1
    <3> QED
      BY <1>1, <3>2
  <2> QED
    BY <1>4, <1>6, <1>7, <2>1, <2>2
<1>9. Before(s, l) = w
  <2>1. PICK f : f = Before(s, l)
    OBVIOUS
  <2>2. l \in 0 .. Len(s)
    BY <1>4
  <2>3. f \in Seq(X) /\ Len(f) = l /\ \A i \in 1 .. l : f[i] = s[i]
    BY <2>1, <2>2, Cutting
  <2>4. w \in Seq(X)
    <3>1. \A i \in 1 .. Len(w) : w[i] \in X
      BY <1>1, <1>2
    <3> QED
      BY <1>2, <3>1
  <2> QED
    BY <1>3, <1>4, <2>1, <2>3, <2>4, SeqEqual
<1> QED
  BY <1>1, <1>5, <1>8, <1>9 DEF Spells

\* The provers take its name better than the string.
Blank == " "

Sized(n) == IF n < 0 THEN -n ELSE n

\* What strtol reads of a number with a blank on either side.
LEMMA ReadIs ==
  ASSUME NEW X, Range(Digits) \subseteq X, "-" \in X, NEW s \in Seq(X), NEW n \in Int,
         NEW w, Spells(w, Sized(n)), NEW u, u = IF n < 0 THEN <<"-">> \o w ELSE w,
         NEW a, NEW b, Padded(s, a, u, b, Blank)
  PROVE  strtol(s) = IF n < 0 THEN [minus |-> TRUE, size |-> Sized(n)]
                            ELSE [minus |-> FALSE, size |-> Sized(n)]
<1>1. PICK minus : minus = "-"
  OBVIOUS
<1>2. PICK D : D = Range(Digits)
  OBVIOUS
<1>3. /\ D \subseteq X /\ minus \in X /\ minus # Blank /\ Blank \notin D /\ minus \notin D
  <2>1. Blank \notin D /\ minus \notin D
    BY <1>1, <1>2, DigitsAre, Zenon DEF Blank
  <2>2. D \subseteq X /\ minus \in X
    BY <1>1, <1>2
  <2>3. minus # Blank
    BY <1>1, Zenon DEF Blank
  <2> QED
    BY <2>1, <2>2, <2>3
<1>4. w \in Seq(D) /\ w # <<>> /\ Len(w) \in Nat \ {0} /\ w[1] \in D
  <2>1. w \in Seq(D) /\ w # <<>>
    BY <1>2 DEF Spells
  <2> QED
    BY <2>1
<1>5. w \in Seq(X)
  <2>1. \A i \in 1 .. Len(w) : w[i] \in X
    BY <1>3, <1>4
  <2> QED
    BY <1>4, <2>1
<1>6. Sized(n) \in Nat
  BY DEF Sized
<1>7. PICK t : t = ltrim(s, {Blank})
  OBVIOUS
<1> DEFINE Run(rest) == Value(Before(rest, Max({k \in 0 .. Len(rest) :
                                                 \A i \in 1 .. k : rest[i] \in Range(Digits)})))
<1>8. strtol(s) = LET c == t # <<>> /\ t[1] = minus
                IN  [minus |-> c, size |-> Run(IF c THEN Tail(t) ELSE t)]
  BY <1>1, <1>7, Zenon DEF strtol, Blank
<1>9. CASE n < 0
  <2>1. u = <<minus>> \o w /\ <<minus>> \in Seq(X) /\ Len(<<minus>>) = 1 /\ <<minus>>[1] = minus
    BY <1>1, <1>3, <1>9
  <2>2. PICK m : m = <<minus>>
    OBVIOUS
  <2>3. PICK l : l = Len(w)
    OBVIOUS
  <2>4. /\ u \in Seq(X) /\ Len(u) = 1 + l /\ l \in Nat /\ u[1] = minus
        /\ \A i \in 1 .. l : u[1 + i] = w[i]
    <3>1. m \in Seq(X) /\ 1 = Len(m) /\ m[1] = minus /\ u = m \o w
      BY <2>1, <2>2
    <3>2. w \in Seq(X) /\ l = Len(w)
      BY <1>5, <2>3
    <3>3. PICK one : one = 1
      OBVIOUS
    <3>4. /\ u \in Seq(X) /\ Len(u) = one + l /\ l \in Nat
          /\ \A i \in 1 .. one : u[i] = m[i]
          /\ \A i \in 1 .. l : u[one + i] = w[i]
      <4>1. one = Len(m) /\ m \in Seq(X) /\ w \in Seq(X) /\ l = Len(w)
        BY <3>3, <3>1, <3>2
      <4>2. /\ m \o w \in Seq(X) /\ Len(m \o w) = one + l /\ l \in Nat
            /\ \A i \in 1 .. one : (m \o w)[i] = m[i]
            /\ \A i \in 1 .. l : (m \o w)[one + i] = w[i]
        BY <4>1, Joining
      <4> QED
        BY <3>1, <4>2
    <3>5. u[1] = m[1]
      BY <3>3, <3>4
    <3> QED
      BY <3>3, <3>1, <3>4, <3>5
  <2>5. u # <<>> /\ u[1] # Blank
    BY <1>3, <2>4
  <2>6. t \in Seq(X) /\ Padded(t, 0, u, b, Blank)
    BY <1>7, <2>4, <2>5, TrimsLead
  <2>7. /\ b \in Nat /\ Len(t) = 1 + l + b /\ t[1] = minus
        /\ \A i \in 1 .. l : t[1 + i] = w[i]
        /\ \A i \in 1 .. b : t[1 + l + i] = Blank
    <3>1. /\ b \in Nat /\ Len(t) = 0 + (1 + l) + b
          /\ \A i \in 1 .. 1 + l : t[0 + i] = u[i]
          /\ \A i \in 1 .. b : t[0 + (1 + l) + i] = Blank
      BY <2>4, <2>6 DEF Padded
    <3>2. \A i \in 1 .. 1 + l : 0 + i = i
      BY <2>4
    <3>3. 1 \in 1 .. 1 + l /\ \A i \in 1 .. l : 1 + i \in 1 .. 1 + l
      BY <2>4
    <3>4. 0 + (1 + l) + b = 1 + l + b /\ \A i \in 1 .. b : 0 + (1 + l) + i = 1 + l + i
      BY <2>4, <3>1
    <3> QED
      BY <2>4, <3>1, <3>2, <3>3, <3>4
  <2>8. t # <<>>
    BY <2>4, <2>6, <2>7
  <2>9. PICK rest : rest = Tail(t)
    OBVIOUS
  <2>10. rest \in Seq(X) /\ Len(rest) = l + b /\ \A i \in 1 .. l + b : rest[i] = t[1 + i]
    BY <2>4, <2>6, <2>7, <2>8, <2>9
  <2>11. Padded(rest, 0, w, b, Blank)
    <3>1. \A i \in 1 .. l : i \in 1 .. l + b /\ 0 + i = i
      BY <2>4, <2>7
    <3>2. \A i \in 1 .. b : l + i \in 1 .. l + b /\ 0 + l + i = l + i /\ 1 + (l + i) = 1 + l + i
      BY <2>4, <2>7
    <3>3. 0 \in Nat /\ b \in Nat /\ Len(rest) = 0 + l + b
      BY <2>4, <2>7, <2>10
    <3>4. \A i \in 1 .. 0 : rest[i] = Blank
      OBVIOUS
    <3>5. \A i \in 1 .. l : rest[0 + i] = w[i]
      BY <2>7, <2>10, <3>1
    <3>6. \A i \in 1 .. b : rest[0 + l + i] = Blank
      BY <2>7, <2>10, <3>2
    <3> QED
      BY <2>3, <3>3, <3>4, <3>5, <3>6 DEF Padded
  <2>12. Value(Before(rest, Max({k \in 0 .. Len(rest) : \A i \in 1 .. k : rest[i] \in Range(Digits)})))
           = Sized(n)
    BY <1>2, <1>3, <1>6, <2>10, <2>11, RunIs
  <2>13. PICK c : c = (t # <<>> /\ t[1] = minus)
    OBVIOUS
  <2>14. c = TRUE
    BY <2>7, <2>8, <2>13
  <2> HIDE DEF Run
  <2>15. strtol(s) = [minus |-> TRUE, size |-> Run(rest)]
    BY <1>8, <2>9, <2>13, <2>14
  <2> USE DEF Run
  <2> QED
    BY <1>9, <2>12, <2>15, Zenon
<1>10. CASE ~(n < 0)
  <2>1. u = w /\ u[1] # Blank /\ u[1] # minus
    BY <1>3, <1>4, <1>10
  <2>2. t \in Seq(X) /\ Padded(t, 0, w, b, Blank)
    BY <1>4, <1>5, <1>7, <2>1, TrimsLead
  <2>3. t[1] = w[1]
    <3>1. 1 \in 1 .. Len(w) /\ 0 + 1 = 1
      BY <1>4
    <3>2. t[0 + 1] = w[1]
      BY <2>2, <3>1 DEF Padded
    <3> QED
      BY <3>1, <3>2
  <2>4. ~(t # <<>> /\ t[1] = minus)
    BY <2>1, <2>3
  <2>5. Value(Before(t, Max({k \in 0 .. Len(t) : \A i \in 1 .. k : t[i] \in Range(Digits)})))
          = Sized(n)
    BY <1>2, <1>3, <1>6, <2>2, RunIs
  <2>6. PICK c : c = (t # <<>> /\ t[1] = minus)
    OBVIOUS
  <2>7. c = FALSE
    BY <2>4, <2>6
  <2> HIDE DEF Run
  <2>8. strtol(s) = [minus |-> FALSE, size |-> Run(t)]
    BY <1>8, <2>6, <2>7
  <2> USE DEF Run
  <2> QED
    BY <1>10, <2>5, <2>8, Zenon
<1> QED
  BY <1>9, <1>10

\* A number that is written out begins with its sign, and no end of it is blank.
LEMMA WrittenText ==
  ASSUME NEW X, Range(Digits) \subseteq X, "-" \in X, NEW n \in Int, NEW m,
         NEW w, Spells(w, m), NEW u, u = IF n < 0 THEN <<"-">> \o w ELSE w
  PROVE  /\ u \in Seq(X) /\ u # <<>> /\ Len(u) \in Nat \ {0}
         /\ u[1] # Blank /\ u[Len(u)] # Blank
         /\ u[1] = "-" <=> n < 0
<1>1. PICK D, minus : D = Range(Digits) /\ minus = "-"
  OBVIOUS
<1>2. /\ D \subseteq X /\ minus \in X /\ minus # Blank /\ Blank \notin D /\ minus \notin D
      /\ u = IF n < 0 THEN <<minus>> \o w ELSE w
  <2>1. Blank \notin D /\ minus \notin D
    BY <1>1, DigitsAre, Zenon DEF Blank
  <2>2. D \subseteq X /\ minus \in X
    BY <1>1
  <2>3. minus # Blank
    BY <1>1, Zenon DEF Blank
  <2>4. u = IF n < 0 THEN <<minus>> \o w ELSE w
    BY <1>1, Zenon
  <2> QED
    BY <2>1, <2>2, <2>3, <2>4
<1>3. w \in Seq(D) /\ w # <<>> /\ Len(w) \in Nat \ {0}
  <2>1. w \in Seq(D) /\ w # <<>>
    BY <1>1 DEF Spells
  <2> QED
    BY <2>1
<1>4. PICK l : l = Len(w)
  OBVIOUS
<1>5. l \in Nat \ {0} /\ w[1] \in D /\ w[l] \in D
  BY <1>3, <1>4
<1>6. w \in Seq(X)
  <2>1. \A i \in 1 .. Len(w) : w[i] \in X
    BY <1>3, <1>2
  <2> QED
    BY <1>3, <2>1
<1>7. CASE n < 0
  <2>1. PICK v, one : v = <<minus>> /\ one = 1
    OBVIOUS
  <2>2. v \in Seq(X) /\ one = Len(v) /\ v[1] = minus /\ u = v \o w
    BY <1>7, <1>2, <2>1
  <2>3. w \in Seq(X) /\ l = Len(w)
    BY <1>4, <1>6
  <2>4. /\ v \o w \in Seq(X) /\ Len(v \o w) = one + l /\ l \in Nat
        /\ \A i \in 1 .. one : (v \o w)[i] = v[i]
        /\ \A i \in 1 .. l : (v \o w)[one + i] = w[i]
    BY <2>2, <2>3, Joining
  <2>5. /\ u \in Seq(X) /\ Len(u) = 1 + l
        /\ \A i \in 1 .. 1 : u[i] = v[i]
        /\ \A i \in 1 .. l : u[1 + i] = w[i]
    BY <2>1, <2>2, <2>4
  <2>6. u[1] = minus /\ u[1 + l] = w[l] /\ 1 + l \in Nat \ {0}
    <3>1. 1 \in 1 .. 1 /\ l \in 1 .. l
      BY <1>5
    <3>2. u[1] = minus /\ u[1 + l] = w[l]
      BY <2>2, <2>5, <3>1
    <3>3. 1 + l \in Nat \ {0}
      BY <1>5
    <3> QED
      BY <3>2, <3>3
  <2>7. u # <<>>
    BY <2>5, <2>6
  <2> QED
    BY <1>1, <1>5, <1>7, <1>2, <2>5, <2>6, <2>7
<1>8. CASE ~(n < 0)
  BY <1>1, <1>3, <1>4, <1>5, <1>6, <1>8, <1>2
<1> QED
  BY <1>7, <1>8

\* What Unsigned and str_to_int answer for a number that is written out.
Answered(s, n) ==
  /\ strtol(s) = IF n < 0 THEN [minus |-> TRUE, size |-> Sized(n)]
                        ELSE [minus |-> FALSE, size |-> Sized(n)]
  /\ n >= 0 => /\ rtrim(s, {Blank}) # <<>>
               /\ \A bits : Unsigned(s, bits) = IF n >= 2 ^ bits THEN Failed
                                                ELSE [ok |-> TRUE, val |-> n]
  /\ n < 0 /\ s[1] # Blank => \A bits : Unsigned(s, bits) = Failed

LEMMA AnswersAre ==
  ASSUME NEW X, Range(Digits) \subseteq X, "-" \in X, Blank \in X, NEW n \in Int,
         NEW lead \in {<<>>, <<Blank>>}, NEW trail \in {<<>>, <<Blank>>},
         NEW s, s = lead \o Written(n) \o trail
  PROVE  Answered(s, n)
<1>1. PICK w : Spells(w, Sized(n)) /\ Written(n) = IF n < 0 THEN <<"-">> \o w ELSE w
  BY WrittenIs DEF Sized
<1>2. PICK u : u = Written(n)
  OBVIOUS
<1>3. PICK D, minus : D = Range(Digits) /\ minus = "-"
  OBVIOUS
<1>4. /\ D \subseteq X /\ minus \in X /\ minus # Blank /\ Blank \notin D /\ minus \notin D
      /\ Blank \in X
  <2>1. Blank \notin D /\ minus \notin D
    BY <1>3, DigitsAre, Zenon DEF Blank
  <2>2. D \subseteq X /\ minus \in X
    BY <1>3
  <2>3. minus # Blank
    BY <1>3, Zenon DEF Blank
  <2> QED
    BY <2>1, <2>2, <2>3
<1>5. u = IF n < 0 THEN <<minus>> \o w ELSE w
  BY <1>1, <1>2, <1>3, Zenon
<1>6. s = (lead \o u) \o trail
  BY <1>2, Zenon
<1>7. PICK a, b : a = Len(lead) /\ b = Len(trail)
  OBVIOUS
<1>8. /\ u \in Seq(X) /\ u # <<>> /\ Len(u) \in Nat \ {0}
      /\ u[1] # Blank /\ u[Len(u)] # Blank
      /\ u[1] = minus <=> n < 0
  <2>1. u = IF n < 0 THEN <<"-">> \o w ELSE w
    BY <1>1, <1>2
  <2>2. /\ u \in Seq(X) /\ u # <<>> /\ Len(u) \in Nat \ {0}
        /\ u[1] # Blank /\ u[Len(u)] # Blank
        /\ u[1] = "-" <=> n < 0
    BY <1>1, <2>1, WrittenText
  <2> QED
    BY <1>3, <2>2
<1>9. s \in Seq(X) /\ Padded(s, a, u, b, Blank)
  BY <1>4, <1>6, <1>7, <1>8, Padding
<1>10. PICK str : str = rtrim(s, {Blank})
  OBVIOUS
<1>11. str \in Seq(X) /\ Padded(str, a, u, 0, Blank)
  BY <1>8, <1>9, <1>10, TrimsTrail
<1> DEFINE Answer == IF n < 0 THEN [minus |-> TRUE, size |-> Sized(n)]
                              ELSE [minus |-> FALSE, size |-> Sized(n)]
<1>12. \A v \in Seq(X) : \A e : Padded(v, a, u, e, Blank) => strtol(v) = Answer
  <2> SUFFICES ASSUME NEW v \in Seq(X), NEW e, Padded(v, a, u, e, Blank) PROVE strtol(v) = Answer
    OBVIOUS
  <2>1. Range(Digits) \subseteq X /\ "-" \in X
    OBVIOUS
  <2>2. u = IF n < 0 THEN <<"-">> \o w ELSE w
    BY <1>3, <1>5
  <2> QED
    BY <1>1, <2>1, <2>2, ReadIs
<1>13. strtol(s) = Answer /\ strtol(str) = Answer
  BY <1>9, <1>11, <1>12
<1>14. /\ a \in Nat /\ Len(str) = a + Len(u) /\ Len(s) = a + Len(u) + b /\ b \in Nat
       /\ \A i \in 1 .. a : str[i] = Blank /\ s[i] = Blank
       /\ \A i \in 1 .. Len(u) : str[a + i] = u[i]
  <2>1. Len(str) = a + Len(u) + 0 /\ a \in Nat /\ b \in Nat /\ Len(s) = a + Len(u) + b
    BY <1>9, <1>11 DEF Padded
  <2>2. a + Len(u) + 0 = a + Len(u)
    BY <1>8, <2>1
  <2>3. /\ \A i \in 1 .. a : str[i] = Blank /\ s[i] = Blank
        /\ \A i \in 1 .. Len(u) : str[a + i] = u[i]
    BY <1>9, <1>11, Zenon DEF Padded
  <2> QED
    BY <2>1, <2>2, <2>3
<1>15. str # <<>>
  BY <1>8, <1>11, <1>14
<1>16. str[1] = IF a = 0 THEN u[1] ELSE Blank
  <2>1. CASE a = 0
    <3>1. 1 \in 1 .. Len(u) /\ a + 1 = 1
      BY <1>8, <2>1
    <3> QED
      BY <1>14, <2>1, <3>1
  <2>2. CASE a # 0
    <3>1. 1 \in 1 .. a
      BY <1>14, <2>2
    <3> QED
      BY <1>14, <2>2, <3>1
  <2> QED
    BY <2>1, <2>2
<1>17. \A bits : Unsigned(s, bits) = IF str[1] = minus THEN Failed ELSE strtoul(str, bits)
  BY <1>3, <1>10, <1>15, Zenon DEF Unsigned, Blank
<1>18. ASSUME n >= 0, NEW bits
       PROVE  Unsigned(s, bits) = IF n >= 2 ^ bits THEN Failed ELSE [ok |-> TRUE, val |-> n]
  <2>1. ~(n < 0)
    BY <1>18
  <2>2. str[1] # minus
    BY <1>4, <1>8, <1>16, <2>1
  <2>3. Unsigned(s, bits) = strtoul(str, bits)
    BY <1>17, <2>2
  <2>4. Sized(n) = n
    BY <2>1 DEF Sized
  <2>5. PICK r : r = strtol(str) /\ r = [minus |-> FALSE, size |-> n]
    BY <1>13, <2>1, <2>4
  <2>6. r.size = n /\ ~r.minus
    BY <2>5
  <2>7. strtoul(str, bits) = IF r.size >= 2 ^ bits THEN Failed
                             ELSE [ok |-> TRUE,
                                   val |-> IF r.minus THEN (2 ^ bits - r.size) % 2 ^ bits
                                               ELSE r.size]
    BY <2>5, Zenon DEF strtoul
  <2> QED
    BY <2>3, <2>6, <2>7, Zenon
<1>19. ASSUME n < 0, s[1] # Blank, NEW bits
       PROVE  Unsigned(s, bits) = Failed
  <2>1. a = 0
    <3>1. a # 0 => 1 \in 1 .. a
      BY <1>14
    <3> QED
      BY <1>14, <1>19, <3>1
  <2>2. str[1] = minus
    BY <1>8, <1>16, <1>19, <2>1
  <2> QED
    BY <1>17, <2>2
<1> QED
  BY <1>10, <1>13, <1>15, <1>18, <1>19, Zenon DEF Answered

\* A number is read as itself where it fits, and refused where it does not.
LEMMA NumberAnswers ==
  ASSUME job = "read", number \in Int, NEW lead \in {<<>>, <<Blank>>}, NEW trail \in {<<>>, <<Blank>>},
         source = lead \o Written(number) \o trail
  PROVE  NumbersAreRead
<1>1. PICK X : X = Range(Digits) \cup {"-", Blank}
  OBVIOUS
<1>2. Range(Digits) \subseteq X /\ "-" \in X /\ Blank \in X
  BY <1>1
<1>3. PICK n \in Int : n = number
  OBVIOUS
<1>4. PICK s : s = source /\ s = lead \o Written(n) \o trail
  BY <1>3
<1>5. Answered(s, n)
  BY <1>2, <1>4, AnswersAre
<1>6. PICK h, f, g, i : h = 2 ^ (Bits \div 2) /\ f = 2 ^ Bits /\ g = 2 ^ (2 * Bits) /\ i = 2 ^ (Bits - 1)
  OBVIOUS
<1>7. h \in Nat \ {0} /\ f \in Nat \ {0} /\ g \in Nat \ {0} /\ i \in Nat \ {0} /\ h <= f
  BY <1>6, WordAssumption
<1> DEFINE Fits(ok, a) == a.ok = ok /\ (ok => a.val = n)
           Below(k) == n >= 0 /\ n < k
<1>8. Fits(TRUE, [ok |-> TRUE, val |-> n]) /\ Fits(FALSE, Failed)
  BY DEF Failed
<1>9. ASSUME NEW k, NEW a, Below(k) => a = [ok |-> TRUE, val |-> n], ~Below(k) => a = Failed
       PROVE  Fits(Below(k), a)
  <2> HIDE DEF Fits
  <2>1. CASE Below(k)
    <3>1. Below(k) = TRUE
      BY <2>1
    <3> HIDE DEF Below
    <3> QED
      BY <1>8, <1>9, <2>1, <3>1
  <2>2. CASE ~Below(k)
    <3>1. Below(k) = FALSE
      BY <2>2
    <3> HIDE DEF Below
    <3> QED
      BY <1>8, <1>9, <2>2, <3>1
  <2> QED
    BY <2>1, <2>2
<1>10. Fits(n \in -i .. i - 1, str_to_int(s, Bits))
  <2>1. PICK r : r = strtol(s) /\ r = IF n < 0 THEN [minus |-> TRUE, size |-> Sized(n)]
                                             ELSE [minus |-> FALSE, size |-> Sized(n)]
    BY <1>5, Zenon DEF Answered
  <2>2. (IF r.minus THEN -r.size ELSE r.size) = n
    <3>1. CASE n < 0
      <4>1. r.minus /\ r.size = -n
        BY <2>1, <3>1 DEF Sized
      <4>2. -(-n) = n
        OBVIOUS
      <4> QED
        BY <4>1, <4>2
    <3>2. CASE ~(n < 0)
      BY <2>1, <3>2 DEF Sized
    <3> QED
      BY <3>1, <3>2
  <2>3. str_to_int(s, Bits) = IF n \in -i .. i - 1 THEN [ok |-> TRUE, val |-> n] ELSE Failed
    BY <1>6, <2>1, <2>2, Zenon DEF str_to_int
  <2>4. CASE n \in -i .. i - 1
    <3>1. (n \in -i .. i - 1) = TRUE
      BY <2>4
    <3> HIDE DEF Fits
    <3> QED
      BY <1>8, <2>3, <2>4, <3>1, Zenon
  <2>5. CASE n \notin -i .. i - 1
    <3>1. (n \in -i .. i - 1) = FALSE
      BY <2>5
    <3> HIDE DEF Fits
    <3> QED
      BY <1>8, <2>3, <2>5, <3>1, Zenon
  <2> QED
    BY <2>4, <2>5
<1>11. CASE n >= 0
  <2>1. /\ Unsigned(s, Bits) = IF n >= f THEN Failed ELSE [ok |-> TRUE, val |-> n]
        /\ Unsigned(s, 2 * Bits) = IF n >= g THEN Failed ELSE [ok |-> TRUE, val |-> n]
        /\ rtrim(s, {Blank}) # <<>>
    BY <1>5, <1>6, <1>11, Zenon DEF Answered
  <2>2. ASSUME NEW k \in Nat \ {0} PROVE Below(k) <=> ~(n >= k)
    BY <1>11
  <2>3. Fits(Below(f), str_to_uint32(s))
    <3> HIDE DEF Below, Fits
    <3> QED
      BY <1>7, <1>9, <2>1, <2>2 DEF str_to_uint32
  <2>4. Fits(Below(g), str_to_uint64(s))
    <3> HIDE DEF Below, Fits
    <3> QED
      BY <1>7, <1>9, <2>1, <2>2 DEF str_to_uint64
  <2>5. Fits(Below(h), str_to_uint16(s))
    <3>1. PICK r : r = Unsigned(s, Bits)
      OBVIOUS
    <3>2. str_to_uint16(s) = IF r.val >= h THEN Failed ELSE r
      BY <1>6, <2>1, <3>1, Zenon DEF str_to_uint16, Blank
    <3>3. CASE n >= f
      <4>1. r = Failed
        BY <2>1, <3>1, <3>3
      <4>2. str_to_uint16(s) = Failed
        BY <3>2, <4>1, Zenon
      <4>3. ~Below(h)
        BY <1>7, <3>3
      <4> HIDE DEF Below, Fits
      <4> QED
        BY <1>9, <4>2, <4>3
    <3>4. CASE ~(n >= f)
      <4>1. r = [ok |-> TRUE, val |-> n] /\ r.val = n
        BY <2>1, <3>1, <3>4
      <4>2. str_to_uint16(s) = IF n >= h THEN Failed ELSE [ok |-> TRUE, val |-> n]
        BY <3>2, <4>1, Zenon
      <4>3. Below(h) <=> ~(n >= h)
        BY <1>7, <2>2
      <4> HIDE DEF Below, Fits
      <4> QED
        BY <1>9, <4>2, <4>3
    <3> QED
      BY <3>3, <3>4
  <2> QED
    BY <1>3, <1>4, <1>6, <1>10, <2>3, <2>4, <2>5, Zenon DEF NumbersAreRead
<1>12. CASE ~(n >= 0)
  <2>1. ASSUME s[1] # Blank
        PROVE  /\ Fits(Below(f), str_to_uint32(s)) /\ Fits(Below(g), str_to_uint64(s))
               /\ Fits(Below(h), str_to_uint16(s))
    <3>1. n < 0 /\ ~Below(f) /\ ~Below(g) /\ ~Below(h)
      BY <1>12
    <3>2. Unsigned(s, Bits) = Failed /\ Unsigned(s, 2 * Bits) = Failed
      BY <1>5, <2>1, <3>1, Zenon DEF Answered
    <3>3. str_to_uint32(s) = Failed /\ str_to_uint64(s) = Failed
      BY <3>2 DEF str_to_uint32, str_to_uint64
    <3>4. str_to_uint16(s) = Failed
      BY <3>2, Zenon DEF str_to_uint16
    <3>5. Fits(FALSE, Failed)
      BY DEF Failed
    <3>6. Below(f) = FALSE /\ Below(g) = FALSE /\ Below(h) = FALSE
      BY <3>1
    <3> HIDE DEF Below, Fits
    <3> QED
      BY <3>3, <3>4, <3>5, <3>6
  <2>2. s[1] # " " => s[1] # Blank
    BY Zenon DEF Blank
  <2> QED
    BY <1>3, <1>4, <1>6, <1>10, <1>12, <2>1, <2>2, Zenon DEF NumbersAreRead
<1> QED
  BY <1>11, <1>12
-----------------------------------------------------------------------------
(* The answers *)

\* The inputs are what the program has begun with, whatever it does with them: a text to
\* ask about, a number that is written out, an address.
AskInv == /\ job = "ask" => source \in Texts /\ token \in Tokens
          /\ job = "read" => /\ number \in Int
                             /\ \E lead, trail \in {<<>>, <<Blank>>} :
                                   source = lead \o Written(number) \o trail
          /\ job = "address" => source \in Addresses

LEMMA AskStarts == TextInit => AskInv
<1> SUFFICES ASSUME TextInit PROVE AskInv
  OBVIOUS
<1>1. job = "ask" => source \in Texts /\ token \in Tokens
  BY DEF TextInit
<1>2. ASSUME job = "read"
      PROVE  /\ number \in Int
             /\ \E lead, trail \in {<<>>, <<Blank>>} : source = lead \o Written(number) \o trail
  <2>1. /\ number \in Numbers
        /\ \E lead, trail \in {<<>>, <<" ">>} : source = lead \o Written(number) \o trail
    BY <1>2, Zenon DEF TextInit
  <2>2. number \in Int
    BY <2>1, TextAssumption
  <2>3. \E lead, trail \in {<<>>, <<Blank>>} : source = lead \o Written(number) \o trail
    BY <2>1, Zenon DEF Blank
  <2> QED
    BY <2>2, <2>3
<1>3. job = "address" => source \in Addresses
  BY DEF TextInit
<1> QED
  BY <1>1, <1>2, <1>3 DEF AskInv

\* No step changes an input, or begins another job.
LEMMA AskStepInv == AskInv /\ [TextNext]_textVars => AskInv'
<1> SUFFICES ASSUME AskInv, [TextNext]_textVars PROVE AskInv'
  OBVIOUS
<1>1. /\ UNCHANGED <<source, token, number>>
      /\ job' = job \/ job' \in {"fields", "done"}
  BY DEF TextNext, CutFirst, CutLast, Split, Cut, Replace, DumpLine, AddTime, textVars, inputs
<1>2. CASE job' = job
  BY <1>1, <1>2 DEF AskInv
<1>3. CASE job' \in {"fields", "done"}
  BY <1>3 DEF AskInv
<1> QED
  BY <1>1, <1>2, <1>3

\* Each answer is right for the inputs it is asked about.
LEMMA AskMeans == AskInv => AnswersMatch
<1> SUFFICES ASSUME AskInv PROVE AnswersMatch
  OBVIOUS
<1>1. ASSUME job = "ask"
      PROVE  SplitIsExact /\ PathsAreWhole /\ MatchesAreExact /\ LinesAreJoined /\ CopyFits
  <2>1. PICK X : X = STRING \cup {"\\", ".", ":"}
    OBVIOUS
  <2>2. source \in Seq(STRING) /\ token \in Seq(STRING) /\ token # <<>>
    BY <1>1, TextAssumption DEF AskInv
  <2>3. source \in Seq(X)
    <3>1. \A i \in 1 .. Len(source) : source[i] \in X
      BY <2>1, <2>2
    <3> QED
      BY <2>2, <3>1
  <2>4. {"\\", ".", ":"} \subseteq X
    BY <2>1
  <2>5. PathsAreWhole
    BY <2>3, <2>4, PathAnswers
  <2> QED
    BY <2>2, <2>5, SplitAnswers, MatchAnswers, LineAnswers, CopyAnswers
<1>2. ReservedIsNamed
  BY ReservedAnswers DEF AskInv
<1>3. NumbersAreRead
  <2>1. CASE job = "read"
    <3>1. PICK lead, trail \in {<<>>, <<Blank>>} : source = lead \o Written(number) \o trail
      BY <2>1 DEF AskInv
    <3>2. number \in Int
      BY <2>1 DEF AskInv
    <3> QED
      BY <2>1, <3>1, <3>2, NumberAnswers
  <2>2. CASE job # "read"
    BY <2>2, Zenon DEF NumbersAreRead
  <2> QED
    BY <2>1, <2>2
<1> QED
  BY <1>1, <1>2, <1>3 DEF AnswersMatch

\* AnswersMatch, for texts and tokens of any length, every number and address, and words of
\* any size: pieces are fields, paths are what they are made of, comparisons compare,
\* numbers are read as they are written or refused, and reserved blocks are the named ones.
THEOREM AnswersAreRight == TextSpec => []AnswersMatch
<1>1. TextInit => AskInv
  BY AskStarts
<1>2. AskInv /\ [TextNext]_textVars => AskInv'
  BY AskStepInv
<1>3. AskInv => AnswersMatch
  BY AskMeans
<1> QED
  BY <1>1, <1>2, <1>3, PTL DEF TextSpec
=============================================================================
