----------------------------- MODULE NTPClient ------------------------------
(***************************************************************************)
(* NTPClient (src/ntp_client.h) and get_ntp_time_delta (ntp_client.cpp):   *)
(* resolve, connect, send, receive, one handler starting the next          *)
(* operation, on a single-threaded io_context; one deadline_timer covers   *)
(* the whole request and its handler cancels what the socket does at that  *)
(* moment.  run() returns when nothing is outstanding.                     *)
(*                                                                         *)
(* Modelled: the operations and handlers, the deadline, the exception of   *)
(* _socket.cancel() on a socket that is not open yet, and the arithmetic   *)
(* on the answer with its widths.  Abstracted: addresses, the packet's     *)
(* other fields, the texts.                                                *)
(*                                                                         *)
(* boost::asio is modelled from its use: an operation completes by making  *)
(* its handler ready, handlers that are ready at the same time run in any  *)
(* order (socket completions and timers come from different queues), and   *)
(* cancel() affects only what has not completed.                           *)
(***************************************************************************)
EXTENDS Integers, FiniteSets

CONSTANTS DWORD,      \* 2^32, the values of an unsigned 32-bit integer
          NTP_TIMESTAMP_DELTA, \* seconds from 1900 to 1970
          EPOCH,      \* 1970 as a FILETIME
          MSEC,       \* FILETIME units per millisecond
          SEC,        \* milliseconds per second
          ServerTimes,\* unix times, in seconds, an answer may carry
          LocalTimes  \* FILETIMEs at which it may be received

ASSUME NTPAssumption ==
    /\ {DWORD, NTP_TIMESTAMP_DELTA, EPOCH, MSEC, SEC} \subseteq Nat \ {0}
    /\ ServerTimes \subseteq Nat
    /\ LocalTimes \subseteq Nat

VARIABLES op,      \* the outstanding operation
          opened,  \* _socket is open
          ready,   \* handlers that are due, with what they are called with
          timer,   \* _timeout
          answer,  \* the answer accepted: the server's time, the local one
          _delta_sec,
          run,     \* io_context.run() in get_ntp_time_delta
          overtook \* on_timeout ran while another handler was due

vars == <<op, opened, ready, timer, answer, _delta_sec, run, overtook>>

Steps == {"resolve", "connect", "send", "receive"}
\* "short": no error, but not the 48 bytes of an NTP packet
Outcome(o) == IF o = "receive" THEN {"ok", "short", "error"} ELSE {"ok", "error"}
Handlers == [of : Steps \cup {"timeout"}, with : {"ok", "short", "error"}]
Unanswered == <<>>

\* The constructor and get_ntp_time: both are started before run().
Init == /\ op = "resolve"
        /\ opened = FALSE
        /\ ready = {}
        /\ timer = "armed"
        /\ answer = Unanswered
        /\ _delta_sec = 0
        /\ run = "running"
        /\ overtook = FALSE
-----------------------------------------------------------------------------
(* boost::asio *)

Due(h, r) == [of |-> h, with |-> r]

Completes == /\ run = "running"
             /\ op # "none"
             /\ \E r \in Outcome(op) : ready' = ready \cup {Due(op, r)}
             /\ op' = "none"
             /\ UNCHANGED <<opened, timer, answer, _delta_sec, run, overtook>>

Expires == /\ run = "running"
           /\ timer = "armed"
           /\ timer' = "expired"
           /\ ready' = ready \cup {Due("timeout", "ok")}
           /\ UNCHANGED <<op, opened, answer, _delta_sec, run, overtook>>

\* The io_context takes the handler of h, due with r, and calls it.
Called(h, r) == run = "running" /\ Due(h, r) \in ready
Others(h, r) == ready \ {Due(h, r)}
-----------------------------------------------------------------------------
(* The arithmetic of on_receive *)

\* Int32x32To64 takes its operands as signed 32-bit integers.
Long(n) == LET low == n % DWORD IN IF 2 * low < DWORD THEN low ELSE low - DWORD

unixtime_to_filetime(seconds) == Long(seconds) * SEC * MSEC + EPOCH

\* What the server sends for a time: seconds since 1900, 32 bits.
Transmitted(seconds) == (seconds + NTP_TIMESTAMP_DELTA) % DWORD

\* Back to seconds since 1970, in a uint32_t.
NtpTime(transmitted) == (transmitted - NTP_TIMESTAMP_DELTA) % DWORD

\* Division and remainder of C++: towards zero.
Quotient(a, b) == IF a >= 0 THEN a \div b ELSE -((-a) \div b)
Remainder(a, b) == a - b * Quotient(a, b)

\* Mutant: the seconds since 1900 are taken as they are.
DeltaFrom1900(transmitted, received) ==
    LET ms == Quotient(received - unixtime_to_filetime(transmitted), MSEC)
    IN Quotient(ms, SEC)

DeltaSec(transmitted, received) ==
    LET ms == Quotient(received - unixtime_to_filetime(NtpTime(transmitted)), MSEC)
    IN Quotient(ms, SEC) + (IF 2 * Remainder(ms, SEC) >= SEC THEN 1 ELSE 0)
-----------------------------------------------------------------------------
(* The handlers *)

\* A handler called with an error only logs; the others start what follows.
Fails(h) == /\ \E r \in {"short", "error"} : Called(h, r) /\ ready' = Others(h, r)
            /\ UNCHANGED <<op, opened, timer, answer, _delta_sec, run, overtook>>

Starts(h, following) == /\ Called(h, "ok")
                        /\ ready' = Others(h, "ok")
                        /\ op' = following
                        /\ UNCHANGED <<timer, answer, _delta_sec, run, overtook>>

\* async_connect opens the socket.
on_resolve == \/ Starts("resolve", "connect") /\ opened' = TRUE
              \/ Fails("resolve")

on_connect == \/ Starts("connect", "send") /\ UNCHANGED opened
              \/ Fails("connect")

on_send == \/ Starts("send", "receive") /\ UNCHANGED opened
           \/ Fails("send")

\* The answer: the deadline is cancelled, which leaves alone one that has
\* expired, and the difference is computed.
Received == /\ Called("receive", "ok")
            /\ IF timer = "armed"
               THEN /\ timer' = "cancelled"
                    /\ ready' = Others("receive", "ok") \cup {Due("timeout", "error")}
               ELSE /\ ready' = Others("receive", "ok")
                    /\ UNCHANGED timer
            /\ \E s \in ServerTimes, l \in LocalTimes :
                   /\ answer' = <<s, l>>
                   /\ _delta_sec' = DeltaSec(Transmitted(s), l)
            /\ UNCHANGED <<op, opened, run, overtook>>

on_receive == Received \/ Fails("receive")

Aborted == IF op = "none" THEN {} ELSE {Due(op, "error")}

\* Mutant: the request is sent again at once.
ResendOnTimeout == /\ Called("timeout", "ok")
                   /\ opened
                   /\ ready' = Others("timeout", "ok") \cup Aborted
                   /\ op' = "send"
                   /\ UNCHANGED <<opened, timer, answer, _delta_sec, run, overtook>>

\* Mutant: the deadline is only logged.
LogTimeout == /\ Called("timeout", "ok")
              /\ opened
              /\ ready' = Others("timeout", "ok")
              /\ overtook' = (ready' # {})
              /\ UNCHANGED <<op, opened, timer, answer, _delta_sec, run>>

\* _socket.cancel(): an operation that has not completed ends with an error,
\* a handler that is due is not affected.
CancelSocket == /\ Called("timeout", "ok")
                /\ opened
                /\ ready' = Others("timeout", "ok") \cup Aborted
                /\ op' = "none"
                /\ overtook' = (Others("timeout", "ok") # {})
                /\ UNCHANGED <<opened, timer, answer, _delta_sec, run>>

\* A socket that is not open yet cannot be cancelled: cancel() throws out of
\* run(), and get_ntp_time_delta catches.
CancelThrows == /\ Called("timeout", "ok")
                /\ ~opened
                /\ run' = "thrown"
                /\ ready' = Others("timeout", "ok")
                /\ UNCHANGED <<op, opened, timer, answer, _delta_sec, overtook>>

on_timeout == CancelSocket \/ CancelThrows \/ Fails("timeout")

\* Nothing is outstanding and no handler is due: run() returns.
RunReturns == /\ run = "running"
              /\ op = "none" /\ timer # "armed" /\ ready = {}
              /\ run' = "returned"
              /\ UNCHANGED <<op, opened, ready, timer, answer, _delta_sec, overtook>>

get_ntp_time_delta == IF run = "returned" THEN _delta_sec ELSE 0
-----------------------------------------------------------------------------
Next == \/ Completes \/ Expires
        \/ on_resolve \/ on_connect \/ on_send \/ on_receive \/ on_timeout
        \/ RunReturns

Spec == Init /\ [][Next]_vars

\* The deadline passes, local operations end and run() calls what is due.  An
\* answer is never promised: a datagram may be lost.
Fairness == /\ WF_vars(Expires)
            /\ WF_vars(op # "receive" /\ Completes)
            /\ WF_vars(on_resolve \/ on_connect \/ on_send \/ on_receive \/ on_timeout)
            /\ WF_vars(RunReturns)

FairSpec == Spec /\ Fairness
-----------------------------------------------------------------------------
(* Properties *)

TypeOK == /\ op \in Steps \cup {"none"}
          /\ opened \in BOOLEAN
          /\ ready \subseteq Handlers
          /\ timer \in {"armed", "expired", "cancelled"}
          /\ answer \in {Unanswered} \cup (ServerTimes \X LocalTimes)
          /\ _delta_sec \in Int
          /\ run \in {"running", "returned", "thrown"}
          /\ overtook \in BOOLEAN

\* The request is a single chain: _recv_buf and the socket belong to one
\* operation at a time, and a new one starts only after the handler of the
\* one before, cancelled or not, has run.
Chain == {d \in ready : d.of # "timeout"}
OneOperation == /\ TypeOK
                /\ \A d, e \in Chain : d = e
                /\ op # "none" => Chain = {}

\* A time read from an answer reaches the caller whatever the deadline does
\* while and after it is read, and it is the difference of the two clocks: to
\* the nearest second when the local one is ahead, cut to whole seconds when
\* it is behind, as long as the server's time fits in 31 bits.  Without an
\* answer the caller gets 0.
DifferenceIsTrue ==
    run # "running" =>
        IF answer = Unanswered THEN get_ntp_time_delta = 0
        ELSE LET ms == Quotient(answer[2] - (answer[1] * SEC * MSEC + EPOCH), MSEC)
                 off == get_ntp_time_delta * SEC - ms
             IN 2 * answer[1] < DWORD =>
                    /\ ms >= 0 => 2 * off \in -SEC + 1 .. SEC
                    /\ ms < 0 => off \in 0 .. SEC - 1

\* run() ends, whatever is lost on the way.  The one exception is a deadline
\* that passes while the handler that starts the next operation is due: no
\* deadline covers the receive it leads to, which then waits for a datagram
\* as long as it takes.
Uncovered == overtook /\ op = "receive"
RunEnds == <>(run # "running" \/ []Uncovered)
=============================================================================
