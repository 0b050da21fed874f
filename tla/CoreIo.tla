------------------------------- MODULE CoreIo -------------------------------
(***************************************************************************)
(* One exchange over a core socket: __ndm_core_buffer_send_all() of a      *)
(* request, then one __ndm_core_buffer_recv_all() for each item of the     *)
(* reply, all under the same two points in time.  Up to intblock the loops *)
(* wait in poll(), which is meant not to be interruptible; afterwards in   *)
(* ndm_poll(), which looks at the interrupt flag once per granularity; and *)
(* at the deadline they give up.                                           *)
(*                                                                         *)
(* Time is in half milliseconds, the grid on which the rounding of         *)
(* ndm_time_to_msec() shows.  The clock is read anew at each place where   *)
(* the code reads it.  Bytes are numbers in the order in which they were   *)
(* sent.  The socket is a blocking one, as socket() made it, so a send()   *)
(* that does not fit waits for room in the kernel.                         *)
(***************************************************************************)
EXTENDS Integers, Sequences

CONSTANTS
    RequestBytes,   \* bytes of the request
    Items,          \* sizes of the items read from the reply, in order
    ReplyBytes,     \* bytes the core sends, at least those of Items
    BufferSize,     \* sizeof(buffer_storage)
    SocketRooms,    \* bytes the kernel may take before a sender waits
    Intblock,       \* NDM_CORE_INTBLOCK_TIMEOUT_, in milliseconds
    Timeout,        \* core->timeout, in milliseconds
    Granularity,    \* NDM_SYS_SLEEP_GRANULARITY_MSEC
    Never,          \* poll() without a time limit
    MaxLate,        \* bound: half milliseconds the process may lag in all
    MaxSignals,     \* bound: signals during the exchange
    Horizon         \* bound: the clock stops here

ASSUME SizesAssumption ==
    /\ RequestBytes \in Nat /\ ReplyBytes \in Nat
    /\ Items \in Seq(Nat \ {0})
    /\ BufferSize \in Nat \ {0} /\ SocketRooms \subseteq Nat \ {0}

ASSUME TimesAssumption ==
    /\ Intblock \in Nat /\ Timeout \in Nat /\ Granularity \in Nat \ {0}
    /\ MaxLate \in Nat /\ MaxSignals \in Nat /\ Horizon \in Nat
    /\ Never \notin Nat

VARIABLES
    now,           \* the monotonic clock, the exchange starting at 0
    pc,            \* where the loop stands
    item,          \* 0: sending; i: receiving Items[i]
    delay,         \* the time left to the deadline, as last read
    wake,          \* when the poll() under way times out
    until,         \* the deadline of ndm_poll()
    left,          \* left in ndm_poll()
    error,         \* errno of a failed exchange
    sent,          \* bytes handed to the kernel
    sentBefore,    \* sent when the send() under way began
    taken,         \* bytes of the request the core has read
    produced,      \* bytes of the reply the core has sent
    inbound,       \* bytes of the reply in the socket
    hungup,        \* the core has closed its end
    room,          \* what the kernel takes before a sender waits
    buffer,        \* bytes between getp and putp
    data,          \* bytes delivered to the caller
    interrupted,   \* __interrupted
    signals,       \* signals so far
    late           \* half milliseconds the process lagged so far

clock == <<now, late>>
peer == <<taken, produced, hungup, room>>
timing == <<delay, wake, until, left>>
signal == <<interrupted, signals>>
bytes == <<sent, sentBefore, inbound, buffer, data>>
vars == <<clock, pc, item, error, timing, bytes, peer, signal>>

-----------------------------------------------------------------------------
(* Time. *)

\* ndm_time_to_msec(): rounded to the nearest millisecond, then truncated
\* towards zero.
Msec(t) == IF t >= -1 THEN (t + 1) \div 2 ELSE -((-(t + 1)) \div 2)

\* ndm_time_left_monotonic_msec()
Left(point) == Msec(point - now)

intblock == 2 * Intblock
deadline == 2 * Timeout

After(msec) == IF msec < 0 THEN Never ELSE now + 2 * msec

Expired == wake # Never /\ wake <= now

-----------------------------------------------------------------------------
Sending == item = 0
Ended == pc \in {"done", "failed"}

\* The bytes of the first i items.
Total[i \in 0 .. Len(Items)] == IF i = 0 THEN 0 ELSE Total[i - 1] + Items[i]

\* The bytes delivered when the item under way is complete.
Wanted == Total[item]

\* Mutant of Ready: a peer that has gone is not an event.
ReadyDeaf == IF Sending THEN sent - taken < room ELSE inbound # << >>

\* poll() has an event to report.
Ready == hungup \/ IF Sending THEN sent - taken < room ELSE inbound # << >>

Goto(label) == pc' = label /\ UNCHANGED <<item, error>>

Fail(errno) == pc' = "failed" /\ error' = errno /\ UNCHANGED item

NextItem ==
    /\ pc' = IF item = Len(Items) THEN "done" ELSE "test"
    /\ item' = IF item = Len(Items) THEN item ELSE item + 1
    /\ UNCHANGED error

\* Mutant of Copy: what the item does not need is dropped.
CopyDropping(missing) ==
    LET n == IF missing < Len(buffer) THEN missing ELSE Len(buffer) IN
    /\ data' = data \o SubSeq(buffer, 1, n)
    /\ buffer' = << >>
    /\ IF n = missing THEN NextItem ELSE Goto("test")

\* The copy out of the buffer, of the bytes the item misses or of all there are.
Copy(missing) ==
    LET n == IF missing < Len(buffer) THEN missing ELSE Len(buffer) IN
    /\ data' = data \o SubSeq(buffer, 1, n)
    /\ buffer' = SubSeq(buffer, n + 1, Len(buffer))
    /\ IF n = missing THEN NextItem ELSE Goto("test")

\* The conditions of the two while loops.
Test ==
    /\ pc = "test"
    /\ IF Sending
       THEN /\ IF sent = RequestBytes THEN NextItem ELSE Goto("delay")
            /\ UNCHANGED <<buffer, data>>
       ELSE IF buffer = << >>
       THEN /\ Goto("delay")
            /\ UNCHANGED <<buffer, data>>
       ELSE Copy(Wanted - Len(data))
    /\ UNCHANGED <<timing, sent, sentBefore, inbound>>

\* delay = left to the deadline
ReadDelay ==
    /\ pc = "delay"
    /\ delay' = Left(deadline)
    /\ IF delay' <= 0 THEN Fail("ETIMEDOUT") ELSE Goto("choose")
    /\ UNCHANGED <<wake, until, left, bytes>>

\* ib_delay = left to intblock; a poll of either kind begins
Choose ==
    /\ pc = "choose"
    /\ LET ibDelay == Left(intblock) IN
       IF ibDelay = 0
       THEN /\ until' = After(delay)
            /\ Goto("slice")
            /\ UNCHANGED wake
       ELSE /\ wake' = After(IF delay < ibDelay THEN delay ELSE ibDelay)
            /\ Goto("poll")
            /\ UNCHANGED until
    /\ UNCHANGED <<delay, left, bytes>>

\* What the loops make of the events of a poll.
Polled ==
    IF Sending /\ hungup THEN Fail("ECONNRESET") ELSE Goto("transfer")

PollReturns ==
    /\ pc = "poll"
    /\ \/ Ready /\ Polled
       \/ ~Ready /\ Expired /\ Goto("test")
    /\ UNCHANGED <<timing, bytes>>

\* One turn of the loop of ndm_poll(): the wait begins ...
Slice ==
    /\ pc = "slice"
    /\ left' = Left(until)
    /\ wake' = After(IF left' < 0 THEN 0
                     ELSE IF left' < Granularity THEN left' ELSE Granularity)
    /\ Goto("sliced")
    /\ UNCHANGED <<delay, until, bytes>>

\* Mutant of SliceReturns: the flag is looked at only when poll() fails.
SliceReturnsDeaf ==
    /\ pc = "sliced"
    /\ Ready \/ Expired
    /\ IF Ready THEN Polled ELSE Goto(IF left > 0 THEN "slice" ELSE "test")
    /\ UNCHANGED <<timing, bytes>>

\* ... and ends; the flag is looked at before the result of poll() is.
SliceReturns ==
    /\ pc = "sliced"
    /\ Ready \/ Expired
    /\ IF interrupted THEN Fail("EINTR")
       ELSE IF Ready THEN Polled
       ELSE Goto(IF left > 0 THEN "slice" ELSE "test")
    /\ UNCHANGED <<timing, bytes>>

-----------------------------------------------------------------------------
(* send() and recv() *)

BeginTransfer ==
    /\ pc = "transfer" /\ Sending
    /\ sentBefore' = sent
    /\ Goto("send")
    /\ UNCHANGED <<timing, sent, inbound, buffer, data>>

\* The kernel copies what fits; send() returns when all is copied.
Send ==
    /\ pc = "send" /\ ~hungup
    /\ \E n \in 1 .. RequestBytes - sent :
          /\ sent + n - taken <= room
          /\ sent' = sent + n
    /\ Goto(IF sent' = RequestBytes THEN "test" ELSE "send")
    /\ UNCHANGED <<timing, sentBefore, inbound, buffer, data>>

\* A send() cut short reports what it copied, or an error.
SendCut(errno) ==
    IF sent > sentBefore THEN Goto("test") ELSE Fail(errno)

SendBreaks ==
    /\ pc = "send" /\ hungup
    /\ SendCut("EPIPE")
    /\ UNCHANGED <<timing, bytes>>

\* The buffer is empty: getp and putp are at its start.
Recv ==
    /\ pc = "transfer" /\ ~Sending
    /\ IF inbound = << >>
       THEN Fail("ECONNRESET") /\ UNCHANGED <<inbound, buffer>>
       ELSE LET n == IF Len(inbound) < BufferSize THEN Len(inbound)
                     ELSE BufferSize IN
            /\ buffer' = SubSeq(inbound, 1, n)
            /\ inbound' = SubSeq(inbound, n + 1, Len(inbound))
            /\ Goto("test")
    /\ UNCHANGED <<timing, sent, sentBefore, data>>

-----------------------------------------------------------------------------
(* The core, signals and time. *)

CoreReads ==
    /\ ~hungup /\ taken < sent
    /\ taken' = taken + 1
    /\ UNCHANGED <<produced, hungup, inbound>>

\* The core answers a request it has read.
CoreReplies ==
    /\ ~hungup /\ taken = RequestBytes /\ produced < ReplyBytes
    /\ produced' = produced + 1
    /\ inbound' = Append(inbound, produced')
    /\ UNCHANGED <<taken, hungup>>

CoreHangsUp ==
    /\ ~hungup
    /\ hungup' = TRUE
    /\ UNCHANGED <<taken, produced, inbound>>

Core ==
    /\ CoreReads \/ CoreReplies \/ CoreHangsUp
    /\ UNCHANGED <<clock, pc, item, error, timing, sent, sentBefore, buffer,
                   data, room, signal>>

Waiting ==
    \/ pc \in {"poll", "sliced"} /\ ~Ready /\ ~Expired
    \/ pc = "send" /\ ~hungup /\ sent - taken = room

\* A signal with a handler: the handler sets the flag, and the system call the
\* process waits in returns EINTR, which ndm_poll() takes for a timeout before
\* it looks at the flag.
Signal ==
    /\ ~Ended /\ signals < MaxSignals
    /\ signals' = signals + 1
    /\ interrupted' = TRUE
    /\ CASE ~Waiting -> UNCHANGED <<pc, item, error>>
         [] Waiting /\ pc = "send" -> SendCut("EINTR")
         [] Waiting /\ pc # "send" -> Fail("EINTR")
    /\ UNCHANGED <<clock, timing, bytes, peer>>

\* Time passes while the process waits, and while it lags.
Tick ==
    /\ ~Ended /\ now < Horizon
    /\ Waiting \/ late < MaxLate
    /\ now' = now + 1
    /\ late' = IF Waiting THEN late ELSE late + 1
    /\ UNCHANGED <<pc, item, error, timing, bytes, peer, signal>>

-----------------------------------------------------------------------------
Init ==
    /\ now = 0 /\ late = 0
    /\ pc = "test" /\ item = 0 /\ error = "none"
    /\ delay = 0 /\ wake = 0 /\ until = 0 /\ left = 0
    /\ sent = 0 /\ sentBefore = 0 /\ taken = 0 /\ produced = 0
    /\ inbound = << >> /\ buffer = << >> /\ data = << >>
    /\ hungup = FALSE /\ room \in SocketRooms
    /\ interrupted \in BOOLEAN /\ signals = 0

Loop ==
    \/ Test \/ ReadDelay \/ Choose \/ PollReturns \/ Slice \/ SliceReturns
    \/ BeginTransfer \/ Send \/ SendBreaks \/ Recv

Step == Loop /\ UNCHANGED <<clock, peer, signal>>

Next == Step \/ Core \/ Signal \/ Tick

Spec == Init /\ [][Next]_vars

\* The process is scheduled, and the core reads what it is sent and then goes on
\* with its reply or closes the connection.
FairSpec ==
    /\ Spec
    /\ WF_vars(Step) /\ WF_vars(Core /\ CoreReads)
    /\ WF_vars(Core /\ (CoreReplies \/ CoreHangsUp))

-----------------------------------------------------------------------------
(* Properties. *)

Labels == {"test", "delay", "choose", "poll", "slice", "sliced", "transfer",
           "send", "done", "failed"}

TypeOK ==
    /\ now \in 0 .. Horizon /\ late \in 0 .. MaxLate
    /\ pc \in Labels /\ item \in 0 .. Len(Items)
    /\ delay \in Int /\ until \in Int /\ left \in Int
    /\ wake \in Int \cup {Never}
    /\ error \in {"none", "ETIMEDOUT", "ECONNRESET", "EPIPE", "EINTR"}
    /\ sent \in 0 .. RequestBytes /\ sentBefore \in 0 .. sent
    /\ taken \in 0 .. sent /\ produced \in 0 .. ReplyBytes
    /\ inbound \in Seq(Nat) /\ buffer \in Seq(Nat) /\ data \in Seq(Nat)
    /\ Len(buffer) <= BufferSize
    /\ hungup \in BOOLEAN /\ room \in SocketRooms /\ interrupted \in BOOLEAN
    /\ signals \in 0 .. MaxSignals

\* However the reply is cut into pieces, by the kernel, by the buffer or by the
\* items, no byte is lost, repeated or reordered, and what the items do not
\* need stays for the next reader of the connection.
StreamIntact == data \o buffer \o inbound = [i \in 1 .. produced |-> i]

\* No exchange gives up before its time.
NoEarlyTimeout == error = "ETIMEDOUT" => now >= deadline

\* Nothing has come from the core, and the request needed no waiting.
CoreSilent == produced = 0 /\ ~hungup /\ room >= RequestBytes

\* The process has lagged by no more than the millisecond for which the time left
\* to intblock counts as none.  A longer lag there carries the loop past that
\* moment, and the next poll() waits without a limit.
Punctual == late <= 2

\* When nothing at all comes, both limits are kept, within the rounding of
\* ndm_time_to_msec() and the time a punctual process lags: the exchange ends at
\* the deadline, or a granularity after intblock where the process is interrupted.
SilenceEnds ==
    CoreSilent /\ Punctual /\ ~Ended =>
        /\ now <= deadline + 1 + late
        /\ interrupted /\ signals = 0 /\ intblock < deadline =>
              now <= intblock + 2 * Granularity + 1 + late

\* No exchange gives up early, and with a core that stays silent no punctual one
\* goes on for longer than it may.
LimitsAreKept == NoEarlyTimeout /\ SilenceEnds

\* Every exchange ends, given a core that answers or hangs up.
ExchangeEnds == <>Ended

\* "The maximum waiting time for the request sending or the response receiving
\* in milliseconds." (include/ndm/core.h:259), with a millisecond of tolerance.
TimeoutHonoured == ~Ended => now <= deadline + 2 + late
=============================================================================
