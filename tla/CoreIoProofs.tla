---------------------------- MODULE CoreIoProofs ----------------------------
(***************************************************************************)
(* One exchange over a core socket: the stream of the reply stays whole    *)
(* however it is cut, no exchange gives up before its time, and with a     *)
(* core that says nothing none goes on past its limits.                    *)
(*                                                                         *)
(* The invariant of the times follows the moment at which the process is   *)
(* next to go on.  A wait lasts whole milliseconds, so that this moment    *)
(* is even on the grid of half milliseconds but for the lag; and that is   *)
(* why the rounding of ndm_time_to_msec(), twice between the clock and the *)
(* end of a wait, never adds more than the process lags anyway.            *)
(***************************************************************************)
EXTENDS CoreIo, SequenceTheorems, WellFoundedInduction, TLAPS

\* The reply is in the order it was sent in, nothing was read beyond the item under
\* way, and the socket is read only into an empty buffer.
StreamInv ==
    /\ StreamIntact
    /\ Len(data) <= Wanted
    /\ buffer # << >> => pc \in {"test", "done"} /\ ~Sending

\* What holds at a place of the loops because of how it is reached.
PlaceInv ==
    /\ pc = "choose" => delay > 0
    /\ pc = "send" => Sending
    /\ Sending /\ pc \in Labels \ {"test", "done", "failed"} => sent < RequestBytes

\* When the process is next to go on: at once, or at the end of a wait.
Due ==
    IF pc \in {"poll", "sliced"} /\ ~Sending /\ wake > now THEN wake ELSE now

\* Even but for the lag.
Grid == (Due - late) % 2 = 0

\* The limits at each place of the loop, with a core that stays silent.
Schedule ==
    /\ Grid /\ Due <= deadline + late
    /\ Sending => now = late
    /\ pc \in {"transfer", "send"} => Sending
    /\ pc \in {"test", "delay", "poll"} => Due <= intblock + late \/ Due >= deadline
    /\ pc = "poll" => wake # Never
    /\ pc = "choose" =>
          /\ now <= intblock + late /\ delay > 0
          /\ now + 2 * delay \in deadline .. deadline + late
    /\ pc \in {"slice", "sliced"} => until \in deadline .. deadline + late
    /\ pc = "sliced" => wake # Never /\ (left <= 0 => now >= until)
    /\ interrupted /\ signals = 0 /\ intblock < deadline =>
          Due <= intblock + late + (IF pc = "sliced" THEN 2 * Granularity ELSE 0)

Silent == CoreSilent /\ Punctual /\ ~Ended

TimeInv == Silent => Schedule

-----------------------------------------------------------------------------
(* The operators. *)

\* The rounding of ndm_time_to_msec(), of a time that is not over for longer than
\* a millisecond, and which times it takes to be over.
LEMMA MsecProperties ==
    ASSUME NEW t \in Int
    PROVE  /\ Msec(t) \in Int
           /\ Msec(t) <= 0 <=> t <= 0
           /\ t >= -2 => Msec(t) >= 0
           /\ t >= 0 => 2 * Msec(t) = t + (t % 2)
PROOF
  BY SMT DEF Msec

\* A set of numbers each of which has its predecessor in the set is empty.
LEMMA NoneIsFirst ==
    ASSUME NEW B \in SUBSET Nat, \A m \in B : m # 0 /\ m - 1 \in B
    PROVE  B = {}
PROOF
<1> SUFFICES ASSUME B # {} PROVE FALSE
  OBVIOUS
<1>1. PICK m \in B : \A k \in B : <<k, m>> \notin OpToRel(<, Nat)
  BY NatLessThanWellFounded, WFMin
<1>2. \A k \in B : ~(k < m)
  BY <1>1 DEF OpToRel
<1> QED
  BY <1>2

\* What defines the bytes of the first i items exists.
LEMMA TotalExists ==
    ASSUME NEW n \in 0 .. Len(Items)
    PROVE  \E g \in [0 .. n -> Nat] : \A i \in 0 .. n :
              g[i] = IF i = 0 THEN 0 ELSE g[i - 1] + Items[i]
PROOF
<1> DEFINE Has(m) == \E g \in [0 .. m -> Nat] : \A i \in 0 .. m :
                        g[i] = IF i = 0 THEN 0 ELSE g[i - 1] + Items[i]
           Bad == {m \in 0 .. Len(Items) : ~Has(m)}
<1>1. /\ Len(Items) \in Nat
      /\ \A i \in 1 .. Len(Items) : Items[i] \in Nat
  BY SizesAssumption
<1>2. Has(0)
  <2> DEFINE z == [i \in 0 .. 0 |-> 0]
  <2>1. z \in [0 .. 0 -> Nat]
    OBVIOUS
  <2>2. \A i \in 0 .. 0 : z[i] = IF i = 0 THEN 0 ELSE z[i - 1] + Items[i]
    OBVIOUS
  <2> QED
    BY <2>1, <2>2
<1>3. ASSUME NEW m \in 0 .. Len(Items), m # 0, Has(m - 1)
      PROVE  Has(m)
  <2>1. PICK g \in [0 .. m - 1 -> Nat] : \A i \in 0 .. m - 1 :
                g[i] = IF i = 0 THEN 0 ELSE g[i - 1] + Items[i]
    BY <1>3
  <2> DEFINE h == [i \in 0 .. m |-> IF i < m THEN g[i] ELSE g[m - 1] + Items[m]]
  <2>2. h \in [0 .. m -> Nat]
    BY <1>1, <1>3, <2>1
  <2>3. \A i \in 0 .. m : h[i] = IF i = 0 THEN 0 ELSE h[i - 1] + Items[i]
    BY <1>1, <1>3, <2>1
  <2> QED
    BY <2>2, <2>3
<1> HIDE DEF Has
<1>4. \A m \in Bad : m # 0 /\ m - 1 \in Bad
  BY <1>1, <1>2, <1>3
<1>5. Bad \subseteq Nat
  BY <1>1
<1>6. Bad = {}
  BY <1>4, <1>5, NoneIsFirst
<1> QED
  BY <1>6 DEF Has

\* The bytes of one item more are those of the item more.
LEMMA TotalProperties ==
    /\ Total \in [0 .. Len(Items) -> Nat]
    /\ Total[0] = 0
    /\ \A i \in 1 .. Len(Items) : Total[i] = Total[i - 1] + Items[i]
PROOF
<1>1. Len(Items) \in Nat
  BY SizesAssumption
<1> DEFINE Defines(g) == g = [i \in 0 .. Len(Items) |->
                                 IF i = 0 THEN 0 ELSE g[i - 1] + Items[i]]
<1>2. PICK g \in [0 .. Len(Items) -> Nat] : \A i \in 0 .. Len(Items) :
              g[i] = IF i = 0 THEN 0 ELSE g[i - 1] + Items[i]
  <2>1. Len(Items) \in 0 .. Len(Items)
    BY <1>1
  <2> QED
    BY <2>1, TotalExists, Zenon
<1>3. Defines(g)
  BY <1>2
<1>4. Total = CHOOSE f : Defines(f)
  BY DEF Total
<1> HIDE DEF Defines
<1>5. Defines(Total)
  BY <1>3, <1>4
<1>6. \A i \in 0 .. Len(Items) :
         Total[i] = IF i = 0 THEN 0 ELSE Total[i - 1] + Items[i]
  BY <1>5 DEF Defines
<1>7. /\ \A i \in 1 .. Len(Items) : Total[i] = Total[i - 1] + Items[i]
      /\ Total[0] = 0
  BY <1>1, <1>6
<1>8. \A i \in 1 .. Len(Items) : Items[i] \in Nat
  BY SizesAssumption
<1> DEFINE Bad == {i \in 0 .. Len(Items) : Total[i] \notin Nat}
<1>9. Bad = {}
  <2>1. \A m \in Bad : m # 0 /\ m - 1 \in Bad
    BY <1>1, <1>7, <1>8
  <2>2. Bad \subseteq Nat
    BY <1>1
  <2> QED
    BY <2>1, <2>2, NoneIsFirst
<1>10. Total = [i \in 0 .. Len(Items) |-> Total[i]]
  BY <1>5 DEF Defines
<1> QED
  BY <1>7, <1>9, <1>10

\* A sequence cut in two.
LEMMA CutInTwo ==
    ASSUME NEW s \in Seq(Nat), NEW n \in 0 .. Len(s)
    PROVE  /\ SubSeq(s, 1, n) \in Seq(Nat) /\ Len(SubSeq(s, 1, n)) = n
           /\ SubSeq(s, n + 1, Len(s)) \in Seq(Nat)
           /\ Len(SubSeq(s, n + 1, Len(s))) = Len(s) - n
           /\ SubSeq(s, 1, n) \o SubSeq(s, n + 1, Len(s)) = s
PROOF
<1>1. Len(s) \in Nat /\ \A i \in 1 .. Len(s) : s[i] \in Nat
  BY LenProperties
<1>2. SubSeq(s, 1, n) \in Seq(Nat) /\ Len(SubSeq(s, 1, n)) = n
  BY <1>1, SubSeqProperties
<1>3. /\ SubSeq(s, n + 1, Len(s)) \in Seq(Nat)
      /\ Len(SubSeq(s, n + 1, Len(s))) = Len(s) - n
  <2>1. \A i \in n + 1 .. Len(s) : s[i] \in Nat
    BY <1>1
  <2>2. /\ SubSeq(s, n + 1, Len(s)) \in Seq(Nat)
        /\ Len(SubSeq(s, n + 1, Len(s)))
             = IF n + 1 <= Len(s) THEN Len(s) - (n + 1) + 1 ELSE 0
    BY <1>1, <2>1, SubSeqProperties
  <2> QED
    BY <1>1, <2>2
<1>4. SubSeq(s, 1, n) \o SubSeq(s, n + 1, Len(s)) = SubSeq(s, 1, Len(s))
  <2>1. 1 \in 1 .. Len(s) + 1 /\ n \in 1 - 1 .. Len(s) /\ Len(s) \in n .. Len(s)
    BY <1>1
  <2> QED
    BY <2>1, ConcatAdjacentSubSeq
<1> QED
  BY <1>2, <1>3, <1>4, SubSeqFull

\* Where the order of three parts is cut does not matter.
LEMMA JoinOfThree ==
    ASSUME NEW a \in Seq(Nat), NEW b \in Seq(Nat), NEW c \in Seq(Nat)
    PROVE  (a \o b) \o c = a \o (b \o c)
PROOF
  BY ConcatAssociative

\* The reply so far, and with its next byte.
Numbered(n) == [i \in 1 .. n |-> i]

LEMMA NumberedProperties ==
    ASSUME NEW n \in Nat
    PROVE  /\ Numbered(n) \in Seq(Nat) /\ Len(Numbered(n)) = n
           /\ Append(Numbered(n), n + 1) = Numbered(n + 1)
PROOF
<1>1. Numbered(n) \in Seq(Nat) /\ Len(Numbered(n)) = n
  BY DEF Numbered
<1>2. Numbered(n + 1) \in Seq(Nat) /\ Len(Numbered(n + 1)) = n + 1
  BY DEF Numbered
<1>3. /\ Append(Numbered(n), n + 1) \in Seq(Nat)
      /\ Len(Append(Numbered(n), n + 1)) = n + 1
  BY <1>1, AppendProperties
<1>4. ASSUME NEW i \in 1 .. n + 1
      PROVE  Append(Numbered(n), n + 1)[i] = Numbered(n + 1)[i]
  BY <1>1, AppendProperties DEF Numbered
<1> QED
  BY <1>1, <1>2, <1>3, <1>4, SeqEqual

-----------------------------------------------------------------------------
(* The stream. *)

IoInv == TypeOK /\ StreamInv /\ PlaceInv

\* What the exchange knows of itself: the types of what a step of the loop sets.
LoopTypes ==
    /\ pc \in Labels /\ item \in 0 .. Len(Items)
    /\ delay \in Int /\ until \in Int /\ left \in Int
    /\ wake \in Int \cup {Never}
    /\ error \in {"none", "ETIMEDOUT", "ECONNRESET", "EPIPE", "EINTR"}
    /\ sent \in 0 .. RequestBytes /\ sentBefore \in 0 .. sent
    /\ inbound \in Seq(Nat) /\ buffer \in Seq(Nat) /\ data \in Seq(Nat)
    /\ Len(buffer) <= BufferSize

\* An exchange that begins.
LEMMA IoInitInv == Init => IoInv
PROOF
<1> SUFFICES ASSUME Init PROVE IoInv
  OBVIOUS
<1>1. << >> \in Seq(Nat) /\ Len(<< >>) = 0
  BY EmptySeq
<1>2. Len(Items) \in Nat
  BY SizesAssumption
<1>3. interrupted \in BOOLEAN
  BY Zenon DEF Init
<1>4. hungup \in BOOLEAN
  BY Zenon DEF Init
<1>5. /\ now \in 0 .. Horizon /\ late \in 0 .. MaxLate
      /\ pc \in Labels /\ item \in 0 .. Len(Items)
      /\ delay \in Int /\ until \in Int /\ left \in Int
      /\ wake \in Int \cup {Never}
      /\ error \in {"none", "ETIMEDOUT", "ECONNRESET", "EPIPE", "EINTR"}
      /\ sent \in 0 .. RequestBytes /\ sentBefore \in 0 .. sent
      /\ taken \in 0 .. sent /\ produced \in 0 .. ReplyBytes
      /\ signals \in 0 .. MaxSignals
  BY <1>2, SizesAssumption, TimesAssumption DEF Init, Labels
<1>6. /\ inbound \in Seq(Nat) /\ buffer \in Seq(Nat) /\ data \in Seq(Nat)
      /\ Len(buffer) <= BufferSize /\ room \in SocketRooms
  BY <1>1, SizesAssumption DEF Init
<1>7. TypeOK
  BY <1>3, <1>4, <1>5, <1>6, Zenon DEF TypeOK
<1>8. StreamIntact
  <2>1. produced = 0 /\ data = << >> /\ buffer = << >> /\ inbound = << >>
    BY DEF Init
  <2>2. (<< >> \o << >>) \o << >> = << >>
    BY <1>1, ConcatEmptySeq
  <2>3. [i \in 1 .. 0 |-> i] = << >>
    OBVIOUS
  <2> QED
    BY <2>1, <2>2, <2>3 DEF StreamIntact
<1>9. Len(data) <= Wanted
  BY <1>1, TotalProperties DEF Init, Wanted
<1>10. StreamInv
  BY <1>8, <1>9 DEF StreamInv, Init
<1>11. PlaceInv
  BY DEF PlaceInv, Init
<1> QED
  BY <1>7, <1>10, <1>11 DEF IoInv

\* The copy of an item, or of what there is of it.
LEMMA CopyKeepsStream ==
    ASSUME IoInv, pc = "test", ~Sending, Copy(Wanted - Len(data)),
           UNCHANGED <<inbound, produced>>
    PROVE  /\ buffer' \in Seq(Nat) /\ data' \in Seq(Nat)
           /\ Len(buffer') <= BufferSize
           /\ StreamInv'
           /\ pc' \in {"test", "done"} /\ item' \in 1 .. Len(Items) /\ error' = error
PROOF
<1> DEFINE missing == Wanted - Len(data)
           n == IF missing < Len(buffer) THEN missing ELSE Len(buffer)
<1>1. /\ data \in Seq(Nat) /\ buffer \in Seq(Nat) /\ inbound \in Seq(Nat)
      /\ Len(buffer) <= BufferSize /\ BufferSize \in Nat
      /\ item \in 1 .. Len(Items) /\ Len(Items) \in Nat
  BY SizesAssumption DEF IoInv, TypeOK, Sending
<1>2. /\ Len(data) \in Nat /\ Len(buffer) \in Nat
      /\ Wanted \in Nat /\ Len(data) <= Wanted
  <2>0. item \in 0 .. Len(Items)
    BY <1>1
  <2>1. Total[item] \in Nat
    BY <2>0, TotalProperties
  <2>2. Len(data) \in Nat /\ Len(buffer) \in Nat
    BY <1>1, LenProperties
  <2> QED
    BY <2>1, <2>2 DEF IoInv, StreamInv, Wanted
<1>3. n \in 0 .. Len(buffer) /\ n <= missing
  BY <1>2
<1>4. /\ data' = data \o SubSeq(buffer, 1, n)
      /\ buffer' = SubSeq(buffer, n + 1, Len(buffer))
      /\ IF n = missing THEN NextItem ELSE Goto("test")
  BY DEF Copy
<1> HIDE DEF n
<1>5. /\ buffer' \in Seq(Nat) /\ Len(buffer') <= BufferSize
  <2>1. /\ SubSeq(buffer, n + 1, Len(buffer)) \in Seq(Nat)
        /\ Len(SubSeq(buffer, n + 1, Len(buffer))) = Len(buffer) - n
    BY <1>1, <1>3, CutInTwo
  <2>2. buffer' \in Seq(Nat) /\ Len(buffer') = Len(buffer) - n
    BY <1>4, <2>1
  <2>3. n >= 0 /\ n \in Int /\ Len(buffer) \in Int
    BY <1>2, <1>3
  <2> QED
    BY <1>1, <2>2, <2>3
<1>6. /\ data' \in Seq(Nat) /\ Len(data') = Len(data) + n
  BY <1>1, <1>3, <1>4, CutInTwo, ConcatProperties
<1>7. data' \o buffer' = data \o buffer
  <2>1. /\ SubSeq(buffer, 1, n) \in Seq(Nat)
        /\ SubSeq(buffer, n + 1, Len(buffer)) \in Seq(Nat)
        /\ SubSeq(buffer, 1, n) \o SubSeq(buffer, n + 1, Len(buffer)) = buffer
    BY <1>1, <1>3, CutInTwo
  <2>2. (data \o SubSeq(buffer, 1, n)) \o SubSeq(buffer, n + 1, Len(buffer))
          = data \o (SubSeq(buffer, 1, n) \o SubSeq(buffer, n + 1, Len(buffer)))
    <3>1. data \in Seq(Nat)
      BY <1>1
    <3> QED
      BY <2>1, <3>1, JoinOfThree, Zenon
  <2> QED
    BY <1>4, <2>1, <2>2
<1>8. StreamIntact'
  BY <1>7 DEF IoInv, StreamInv, StreamIntact
<1>9. /\ pc' \in {"test", "done"} /\ item' \in 1 .. Len(Items) /\ error' = error
      /\ item' = item \/ item' = item + 1
  BY <1>1, <1>4 DEF NextItem, Goto
<1>10. Len(data') <= Wanted'
  <2>1. Total[item] <= Total[item'] /\ Total[item'] \in Nat
    <3>1. \A i \in 1 .. Len(Items) : Items[i] \in Nat
      BY SizesAssumption
    <3>2. Total[item] \in Nat /\ Total[item'] \in Nat
      BY <1>1, <1>9, TotalProperties
    <3>3. item' = item + 1 => Total[item'] = Total[item] + Items[item']
      BY <1>1, <1>9, TotalProperties
    <3> QED
      BY <1>9, <3>1, <3>2, <3>3
  <2>2. Len(data) + n <= Wanted
    BY <1>2, <1>3
  <2>3. n \in Nat
    BY <1>2, <1>3
  <2>4. Wanted = Total[item] /\ Wanted' = Total[item']
    BY DEF Wanted
  <2> QED
    BY <1>2, <1>6, <2>1, <2>2, <2>3, <2>4
<1>11. StreamInv'
  BY <1>8, <1>9, <1>10 DEF StreamInv, Sending
<1> QED
  BY <1>5, <1>6, <1>9, <1>11

\* A step that moves no byte of the reply, from where the buffer is empty.
LEMMA StreamStays ==
    ASSUME IoInv, UNCHANGED <<data, buffer, inbound, produced, item>>,
           pc \notin {"test", "done"} \/ pc' = pc
    PROVE  StreamInv'
PROOF
  BY DEF IoInv, StreamInv, StreamIntact, Wanted, Sending

\* The reply read from the socket is appended to what the buffer held: nothing.
LEMMA RecvKeepsStream ==
    ASSUME IoInv, Recv, UNCHANGED produced
    PROVE  /\ buffer' \in Seq(Nat) /\ inbound' \in Seq(Nat)
           /\ Len(buffer') <= BufferSize
           /\ StreamInv'
PROOF
<1>1. /\ data \in Seq(Nat) /\ inbound \in Seq(Nat) /\ BufferSize \in Nat \ {0}
      /\ buffer \in Seq(Nat) /\ Len(buffer) <= BufferSize
  BY SizesAssumption DEF IoInv, TypeOK
<1>2. buffer = << >> /\ pc = "transfer" /\ ~Sending
  BY DEF IoInv, StreamInv, Recv
<1>3. CASE inbound = << >>
  <2>1. UNCHANGED <<data, buffer, inbound, produced, item>> /\ pc = "transfer"
    BY <1>3 DEF Recv, Fail
  <2> QED
    BY <1>1, <2>1, StreamStays
<1>4. CASE inbound # << >>
  <2> DEFINE n == IF Len(inbound) < BufferSize THEN Len(inbound) ELSE BufferSize
  <2>1. n \in 0 .. Len(inbound) /\ n <= BufferSize
    BY <1>1, LenProperties
  <2>2. /\ buffer' = SubSeq(inbound, 1, n)
        /\ inbound' = SubSeq(inbound, n + 1, Len(inbound))
        /\ pc' = "test" /\ UNCHANGED <<data, item>>
    BY <1>4 DEF Recv, Goto
  <2> HIDE DEF n
  <2>3. /\ SubSeq(inbound, 1, n) \in Seq(Nat) /\ Len(SubSeq(inbound, 1, n)) = n
        /\ SubSeq(inbound, n + 1, Len(inbound)) \in Seq(Nat)
        /\ SubSeq(inbound, 1, n) \o SubSeq(inbound, n + 1, Len(inbound)) = inbound
    BY <1>1, <2>1, CutInTwo
  <2>4. buffer' \in Seq(Nat) /\ inbound' \in Seq(Nat)
    BY <2>2, <2>3
  <2>5. Len(buffer') <= BufferSize
    BY <2>1, <2>2, <2>3
  <2>6. (data' \o buffer') \o inbound' = data \o inbound
    <3>1. (data \o buffer') \o inbound' = data \o (buffer' \o inbound')
      BY <1>1, <2>4, JoinOfThree
    <3> QED
      BY <2>2, <2>3, <3>1
  <2>7. (data \o buffer) \o inbound = data \o inbound
    BY <1>1, <1>2, ConcatEmptySeq
  <2>8. StreamIntact'
    BY <2>6, <2>7 DEF IoInv, StreamInv, StreamIntact
  <2> QED
    BY <1>2, <2>2, <2>4, <2>5, <2>8 DEF IoInv, StreamInv, Wanted, Sending
<1> QED
  BY <1>3, <1>4

\* Each step of the loop keeps the order of the reply.
LEMMA LoopKeepsStream ==
    ASSUME IoInv, Loop, UNCHANGED <<clock, peer, signal>>
    PROVE  LoopTypes' /\ sent' >= sent /\ StreamInv' /\ PlaceInv'
PROOF
<1>1. LoopTypes
  BY DEF IoInv, TypeOK, LoopTypes
<1>2. Len(Items) \in Nat /\ RequestBytes \in Nat
  BY SizesAssumption
<1>3. UNCHANGED produced
  BY DEF peer
<1>4. CASE Test
  <2>1. /\ UNCHANGED <<timing, sent, sentBefore, inbound>> /\ pc = "test"
    BY <1>4 DEF Test
  <2>2. CASE Sending
    <3>1. buffer = << >> /\ UNCHANGED <<buffer, data>>
      BY <1>4, <2>2 DEF Test, IoInv, StreamInv
    <3>2. /\ pc' \in {"test", "done", "delay"} /\ item' \in 0 .. Len(Items)
          /\ error' = error /\ (pc' = "delay" => item' = item /\ sent < RequestBytes)
          /\ item' = item \/ item' = item + 1
      BY <1>1, <1>2, <1>4, <2>2 DEF Test, NextItem, Goto, LoopTypes
    <3>3. Len(data') <= Wanted'
      <4>1. Len(data) = 0
        <5>1. Len(data) \in Nat
          BY <1>1, LenProperties DEF LoopTypes
        <5> QED
          BY <2>2, <5>1, TotalProperties DEF IoInv, StreamInv, Sending, Wanted
      <4>2. Total[item'] \in Nat
        BY <3>2, TotalProperties
      <4> QED
        BY <3>1, <4>1, <4>2 DEF Wanted
    <3>4. StreamInv'
      BY <1>3, <2>1, <3>1, <3>3 DEF IoInv, StreamInv, StreamIntact
    <3>5. LoopTypes'
      BY <1>1, <2>1, <3>1, <3>2 DEF LoopTypes, timing, Labels
    <3>6. PlaceInv'
      BY <1>1, <2>1, <2>2, <3>2 DEF PlaceInv, Sending, Labels, LoopTypes
    <3> QED
      BY <1>1, <2>1, <3>4, <3>5, <3>6 DEF LoopTypes
  <2>3. CASE ~Sending /\ buffer = << >>
    <3>1. UNCHANGED <<buffer, data, item, error>> /\ pc' = "delay"
      BY <1>4, <2>3 DEF Test, Goto
    <3>2. StreamInv'
      BY <1>3, <2>1, <2>3, <3>1 DEF IoInv, StreamInv, StreamIntact, Wanted
    <3>3. LoopTypes'
      BY <1>1, <2>1, <3>1 DEF LoopTypes, timing, Labels
    <3> QED
      BY <1>1, <2>1, <2>3, <3>1, <3>2, <3>3 DEF LoopTypes, PlaceInv, Sending
  <2>4. CASE ~Sending /\ buffer # << >>
    <3>1. Copy(Wanted - Len(data))
      BY <1>4, <2>4 DEF Test
    <3>2. UNCHANGED <<inbound, produced>>
      BY <1>3, <2>1
    <3>3. /\ buffer' \in Seq(Nat) /\ data' \in Seq(Nat)
          /\ Len(buffer') <= BufferSize
          /\ StreamInv'
          /\ pc' \in {"test", "done"} /\ item' \in 1 .. Len(Items) /\ error' = error
      BY <2>1, <2>4, <3>1, <3>2, CopyKeepsStream
    <3>4. LoopTypes'
      BY <1>1, <1>2, <2>1, <3>3 DEF LoopTypes, timing, Labels
    <3> QED
      BY <1>1, <2>1, <3>3, <3>4 DEF LoopTypes, PlaceInv, Sending
  <2> QED
    BY <2>2, <2>3, <2>4
<1>5. CASE ReadDelay
  <2>1. /\ pc = "delay" /\ UNCHANGED <<wake, until, left, bytes, item>>
        /\ delay' \in Int /\ pc' \in {"choose", "failed"}
        /\ error' \in {error, "ETIMEDOUT"} /\ (pc' = "choose" => delay' > 0)
    <3>1. delay' \in Int
      BY <1>5, MsecProperties, TimesAssumption DEF ReadDelay, Left, deadline, IoInv, TypeOK
    <3> QED
      BY <1>5, <3>1 DEF ReadDelay, Fail, Goto
  <2>2. LoopTypes' /\ sent' >= sent
    BY <1>1, <2>1 DEF LoopTypes, bytes, Labels
  <2>3. StreamInv'
    BY <1>3, <2>1, StreamStays DEF bytes
  <2> QED
    BY <2>1, <2>2, <2>3 DEF PlaceInv, Sending, bytes, IoInv, Labels
<1>6. CASE Choose
  <2>1. /\ pc = "choose" /\ UNCHANGED <<delay, left, bytes, item, error>>
        /\ pc' \in {"slice", "poll"}
        /\ until' \in Int /\ wake' \in Int \cup {Never}
    <3>1. /\ Left(intblock) \in Int /\ now \in Int /\ delay \in Int
          /\ wake \in Int \cup {Never} /\ until \in Int
      BY MsecProperties, TimesAssumption DEF Left, intblock, IoInv, TypeOK
    <3>2. /\ pc = "choose" /\ UNCHANGED <<delay, left, bytes>>
          /\ \/ until' = After(delay) /\ Goto("slice") /\ UNCHANGED wake
             \/ /\ wake' = After(IF delay < Left(intblock) THEN delay
                                 ELSE Left(intblock))
                /\ Goto("poll") /\ UNCHANGED until
      BY <1>6 DEF Choose
    <3>3. delay > 0
      BY <3>2 DEF IoInv, PlaceInv
    <3> QED
      BY <3>1, <3>2, <3>3 DEF After, Goto
  <2>2. LoopTypes' /\ sent' >= sent
    BY <1>1, <2>1 DEF LoopTypes, bytes, Labels
  <2>3. StreamInv'
    BY <1>3, <2>1, StreamStays DEF bytes
  <2> QED
    BY <2>1, <2>2, <2>3 DEF PlaceInv, Sending, bytes, IoInv, Labels
<1>7. CASE PollReturns \/ SliceReturns
  <2>1. /\ pc \in {"poll", "sliced"} /\ UNCHANGED <<timing, bytes, item>>
        /\ pc' \in {"failed", "transfer", "test", "slice"}
        /\ error' \in {error, "ECONNRESET", "EINTR"}
    BY <1>7 DEF PollReturns, SliceReturns, Polled, Fail, Goto
  <2>2. LoopTypes' /\ sent' >= sent
    BY <1>1, <2>1 DEF LoopTypes, bytes, timing, Labels
  <2>3. StreamInv'
    BY <1>3, <2>1, StreamStays DEF bytes
  <2> QED
    BY <2>1, <2>2, <2>3 DEF PlaceInv, Sending, bytes, IoInv, Labels
<1>8. CASE Slice
  <2>1. /\ pc = "slice" /\ UNCHANGED <<delay, until, bytes, item, error>>
        /\ pc' = "sliced" /\ left' \in Int /\ wake' \in Int \cup {Never}
    <3>1. /\ Left(until) \in Int /\ now \in Int /\ Granularity \in Int
      BY MsecProperties, TimesAssumption DEF Left, IoInv, TypeOK
    <3> QED
      BY <1>8, <3>1 DEF Slice, After, Goto
  <2>2. LoopTypes' /\ sent' >= sent
    BY <1>1, <2>1 DEF LoopTypes, bytes, Labels
  <2>3. StreamInv'
    BY <1>3, <2>1, StreamStays DEF bytes
  <2> QED
    BY <2>1, <2>2, <2>3 DEF PlaceInv, Sending, bytes, IoInv, Labels
<1>9. CASE BeginTransfer \/ Send \/ SendBreaks
  <2>1. /\ pc \in {"transfer", "send"}
        /\ UNCHANGED <<timing, inbound, buffer, data, item>>
        /\ pc' \in {"send", "test", "failed"} /\ error' \in {error, "EPIPE"}
    BY <1>9 DEF BeginTransfer, Send, SendBreaks, SendCut, Fail, Goto, bytes
  <2>2. /\ sent' \in 0 .. RequestBytes /\ sent' >= sent
        /\ sentBefore' \in 0 .. sent'
        /\ pc' = "send" => item = 0 /\ sent' < RequestBytes
    <3>1. CASE BeginTransfer
      BY <1>1, <1>2, <3>1 DEF BeginTransfer, Goto, LoopTypes, Sending, IoInv,
                              PlaceInv, Labels
    <3>2. CASE Send
      BY <1>1, <1>2, <3>2 DEF Send, Goto, LoopTypes, Sending, IoInv, PlaceInv,
                              Labels
    <3>3. CASE SendBreaks
      BY <1>1, <1>2, <3>3 DEF SendBreaks, SendCut, Goto, Fail, LoopTypes, bytes
    <3> QED
      BY <1>9, <3>1, <3>2, <3>3
  <2>3. LoopTypes'
    BY <1>1, <2>1, <2>2 DEF LoopTypes, timing, Labels
  <2>4. StreamInv'
    BY <1>3, <2>1, StreamStays
  <2> QED
    BY <2>1, <2>2, <2>3, <2>4 DEF PlaceInv, Sending, Labels
<1>10. CASE Recv
  <2>1. /\ buffer' \in Seq(Nat) /\ inbound' \in Seq(Nat)
        /\ Len(buffer') <= BufferSize
        /\ StreamInv'
    BY <1>3, <1>10, RecvKeepsStream
  <2>2. /\ UNCHANGED <<timing, sent, sentBefore, data, item>> /\ ~Sending
        /\ pc' \in {"test", "failed"} /\ error' \in {error, "ECONNRESET"}
    BY <1>10 DEF Recv, Goto, Fail
  <2>3. LoopTypes' /\ sent' >= sent
    BY <1>1, <2>1, <2>2 DEF LoopTypes, timing, Labels
  <2> QED
    BY <2>1, <2>2, <2>3 DEF PlaceInv, Sending
<1> QED
  BY <1>4, <1>5, <1>6, <1>7, <1>8, <1>9, <1>10 DEF Loop

\* The core adds to the end of the stream; signals and time leave it alone.
LEMMA StepKeepsStream == IoInv /\ [Next]_vars => IoInv'
PROOF
<1> SUFFICES ASSUME IoInv, [Next]_vars PROVE IoInv'
  OBVIOUS
<1>1. TypeOK /\ StreamInv /\ PlaceInv
  BY DEF IoInv
<1>2. CASE Step
  <2>1. LoopTypes' /\ sent' >= sent /\ StreamInv' /\ PlaceInv'
    BY <1>2, LoopKeepsStream DEF Step
  <2>2. UNCHANGED <<clock, peer, signal>>
    BY <1>2 DEF Step
  <2>3. interrupted' \in BOOLEAN
    BY <1>1, <2>2, Zenon DEF TypeOK, signal
  <2>4. hungup' \in BOOLEAN
    BY <1>1, <2>2, Zenon DEF TypeOK, peer
  <2>5. /\ now' \in 0 .. Horizon /\ late' \in 0 .. MaxLate
        /\ taken' \in 0 .. sent' /\ produced' \in 0 .. ReplyBytes
        /\ room' \in SocketRooms /\ signals' \in 0 .. MaxSignals
    BY <1>1, <2>1, <2>2 DEF TypeOK, LoopTypes, clock, peer, signal
  <2>6. TypeOK'
    BY <2>1, <2>3, <2>4, <2>5, Zenon DEF TypeOK, LoopTypes
  <2> QED
    BY <2>1, <2>6 DEF IoInv
<1>3. CASE Core
  <2>1. /\ UNCHANGED <<clock, pc, item, error, timing, sent, sentBefore, buffer, data>>
        /\ UNCHANGED <<room, signal>>
    BY <1>3 DEF Core
  <2>2. PlaceInv'
    BY <1>1, <2>1 DEF PlaceInv, Sending, timing
  <2>3. hungup' \in BOOLEAN
    BY <1>1, <1>3, Zenon DEF TypeOK, Core, CoreReads, CoreReplies, CoreHangsUp
  <2>4. interrupted' \in BOOLEAN
    BY <1>1, <2>1, Zenon DEF TypeOK, signal
  <2>5. /\ taken' \in 0 .. sent' /\ produced' \in 0 .. ReplyBytes
        /\ inbound' \in Seq(Nat) /\ StreamInv'
    <3>1. CASE UNCHANGED <<produced, inbound>> /\ taken' \in {taken, taken + 1}
               /\ taken' <= sent
      BY <1>1, <2>1, <3>1 DEF TypeOK, StreamInv, StreamIntact, Wanted, Sending
    <3>2. CASE CoreReplies
      <4>1. /\ produced < ReplyBytes /\ produced' = produced + 1 /\ produced \in Nat
            /\ inbound' = Append(inbound, produced + 1)
            /\ UNCHANGED taken
        BY <1>1, <3>2 DEF CoreReplies, TypeOK
      <4>2. /\ data \in Seq(Nat) /\ buffer \in Seq(Nat) /\ inbound \in Seq(Nat)
            /\ produced + 1 \in Nat
        BY <1>1, <4>1 DEF TypeOK
      <4>3. inbound' \in Seq(Nat)
        BY <4>1, <4>2, AppendProperties
      <4>4. data \o buffer \in Seq(Nat)
        BY <4>2, ConcatProperties
      <4>5. (data \o buffer) \o inbound' = Append((data \o buffer) \o inbound, produced + 1)
        <5>1. <<produced + 1>> \in Seq(Nat)
          BY <4>2
        <5>2. inbound' = inbound \o <<produced + 1>>
          BY <4>1, <4>2, AppendIsConcat
        <5>3. (data \o buffer) \o inbound \in Seq(Nat)
          BY <4>2, <4>4, ConcatProperties
        <5>4. Append((data \o buffer) \o inbound, produced + 1)
                = ((data \o buffer) \o inbound) \o <<produced + 1>>
          BY <4>2, <5>3, AppendIsConcat
        <5>5. ((data \o buffer) \o inbound) \o <<produced + 1>>
                = (data \o buffer) \o (inbound \o <<produced + 1>>)
          BY <4>2, <4>4, <5>1, JoinOfThree
        <5> QED
          BY <5>2, <5>4, <5>5
      <4>6. (data \o buffer) \o inbound = Numbered(produced)
        BY <1>1 DEF StreamInv, StreamIntact, Numbered
      <4>7. StreamIntact'
        BY <2>1, <4>1, <4>5, <4>6, NumberedProperties DEF StreamIntact, Numbered
      <4>8. StreamInv'
        BY <1>1, <2>1, <4>7 DEF StreamInv, Wanted, Sending
      <4>9. taken' \in 0 .. sent'
        BY <1>1, <2>1, <4>1 DEF TypeOK
      <4>10. produced' \in 0 .. ReplyBytes
        BY <4>1, SizesAssumption
      <4> QED
        BY <4>3, <4>8, <4>9, <4>10
    <3> QED
      BY <1>1, <1>3, <3>1, <3>2 DEF Core, CoreReads, CoreHangsUp, TypeOK
  <2>6. TypeOK'
    BY <1>1, <2>1, <2>3, <2>4, <2>5, Zenon DEF TypeOK, clock, timing, signal
  <2> QED
    BY <2>2, <2>5, <2>6 DEF IoInv
<1>4. CASE Signal
  <2>1. /\ UNCHANGED <<clock, timing, bytes, peer>> /\ item' = item
        /\ signals < MaxSignals /\ signals' = signals + 1 /\ interrupted' = TRUE
    BY <1>4 DEF Signal, SendCut, Fail, Goto
  <2>2. \/ pc' = pc /\ error' = error
        \/ /\ pc \in {"poll", "sliced", "send"} /\ pc' \in {"test", "failed"}
           /\ error' \in {error, "EINTR"}
    BY <1>4 DEF Signal, SendCut, Fail, Goto, Waiting
  <2>3. StreamInv'
    BY <1>1, <2>1, <2>2 DEF StreamInv, StreamIntact, Wanted, Sending, bytes, peer
  <2>4. PlaceInv'
    BY <1>1, <2>1, <2>2 DEF PlaceInv, Sending, bytes, timing
  <2>5. pc' \in Labels /\ signals' \in 0 .. MaxSignals
    BY <1>1, <2>1, <2>2, TimesAssumption DEF TypeOK, Labels
  <2>6. error' \in {"none", "ETIMEDOUT", "ECONNRESET", "EPIPE", "EINTR"}
    BY <1>1, <2>2 DEF TypeOK
  <2>7. TypeOK'
    BY <1>1, <2>1, <2>5, <2>6, Zenon DEF TypeOK, clock, timing, bytes, peer
  <2> QED
    BY <2>3, <2>4, <2>7 DEF IoInv
<1>5. CASE Tick
  <2>1. /\ UNCHANGED <<pc, item, error, timing, bytes, peer, signal>>
        /\ now' \in 0 .. Horizon /\ late' \in 0 .. MaxLate
    BY <1>1, <1>5, TimesAssumption DEF Tick, TypeOK
  <2>2. TypeOK'
    BY <1>1, <2>1, Zenon DEF TypeOK, timing, bytes, peer, signal
  <2>3. StreamInv' /\ PlaceInv'
    BY <1>1, <2>1 DEF StreamInv, PlaceInv, StreamIntact, Wanted, Sending, bytes, peer,
                      timing
  <2> QED
    BY <2>2, <2>3 DEF IoInv
<1>6. CASE UNCHANGED vars
  <2>1. UNCHANGED <<clock, pc, item, error, timing, bytes, peer, signal>>
    BY <1>6 DEF vars
  <2>2. TypeOK'
    BY <1>1, <2>1, Zenon DEF TypeOK, clock, timing, bytes, peer, signal
  <2>3. StreamInv' /\ PlaceInv'
    BY <1>1, <2>1 DEF StreamInv, PlaceInv, StreamIntact, Wanted, Sending, bytes, peer,
                      timing
  <2> QED
    BY <2>2, <2>3 DEF IoInv
<1> QED
  BY <1>2, <1>3, <1>4, <1>5, <1>6 DEF Next

\* The types hold and the reply is in order at every moment of every exchange.
THEOREM IoInvariance == Spec => []IoInv
PROOF
  BY IoInitInv, StepKeepsStream, PTL DEF Spec

\* However the reply is cut, by the kernel, by the buffer or by the items read from
\* it, no byte of it is lost, repeated or misplaced: send_all() and recv_all(), for
\* every size of buffer, socket and item.
THEOREM StreamStaysIntact == Spec => []StreamIntact
PROOF
<1>1. IoInv => StreamIntact
  BY DEF IoInv, StreamInv
<1> QED
  BY <1>1, IoInvariance, PTL

\* The variables of an exchange keep their types.
THEOREM IoTypes == Spec => []TypeOK
PROOF
<1>1. IoInv => TypeOK
  BY DEF IoInv
<1> QED
  BY <1>1, IoInvariance, PTL

-----------------------------------------------------------------------------
(* The times. *)

\* The clock only goes forward, and the core only goes on.
LEMMA OnlyForward ==
    ASSUME [Next]_vars
    PROVE  /\ \/ now' = now /\ late' = late
              \/ now' = now + 1 /\ late' \in {late, late + 1}
           /\ \/ produced' = produced /\ (hungup' <=> hungup)
              \/ produced' = produced + 1 \/ hungup'
           /\ room' = room
PROOF
<1>1. CASE Step
  BY <1>1 DEF Step, clock, peer
<1>2. CASE Core
  BY <1>2 DEF Core, clock, CoreReads, CoreReplies, CoreHangsUp
<1>3. CASE Signal
  BY <1>3 DEF Signal, clock, peer
<1>4. CASE Tick
  BY <1>4 DEF Tick, peer
<1>5. CASE UNCHANGED vars
  BY <1>5 DEF vars, clock, peer
<1> QED
  BY <1>1, <1>2, <1>3, <1>4, <1>5 DEF Next

\* No step gives up early.
LEMMA StepNotEarly == IoInv /\ NoEarlyTimeout /\ [Next]_vars => NoEarlyTimeout'
PROOF
<1> SUFFICES ASSUME IoInv, NoEarlyTimeout, [Next]_vars PROVE NoEarlyTimeout'
  OBVIOUS
<1>1. now \in Int /\ deadline \in Int
  BY TimesAssumption DEF IoInv, TypeOK, deadline
<1>2. now' >= now /\ now' \in Int /\ deadline' = deadline
  <2>1. now' = now \/ now' = now + 1
    BY OnlyForward, Zenon
  <2> QED
    BY <1>1, <2>1 DEF deadline
<1>3. ASSUME error' \in {error, "ECONNRESET", "EPIPE", "EINTR"}
      PROVE  NoEarlyTimeout'
  BY <1>1, <1>2, <1>3 DEF NoEarlyTimeout
<1>4. CASE Step /\ ReadDelay
  <2>1. deadline - now \in Int
    BY <1>1
  <2>2. Left(deadline) <= 0 => now >= deadline
    BY <1>1, <2>1, MsecProperties DEF Left
  <2>3. \/ error' = error
        \/ error' = "ETIMEDOUT" /\ Left(deadline) <= 0
    BY <1>4 DEF ReadDelay, Fail, Goto
  <2>4. now' = now
    BY <1>4 DEF Step, clock
  <2> QED
    BY <1>1, <1>2, <2>2, <2>3, <2>4 DEF NoEarlyTimeout
<1>5. CASE Step /\ ~ReadDelay
  <2>1. error' \in {error, "ECONNRESET", "EPIPE", "EINTR"}
    BY <1>5 DEF Step, Loop, Test, Copy, Choose, PollReturns, Polled, Slice, SliceReturns,
                BeginTransfer, Send, SendBreaks, SendCut, Recv, NextItem, Goto, Fail
  <2> QED
    BY <1>3, <2>1
<1>6. CASE Core \/ Signal \/ Tick \/ UNCHANGED vars
  <2>1. error' \in {error, "ECONNRESET", "EPIPE", "EINTR"}
    BY <1>6 DEF Core, Signal, SendCut, Goto, Fail, Tick, vars
  <2> QED
    BY <1>3, <2>1
<1> QED
  BY <1>4, <1>5, <1>6 DEF Next

\* Once the core has sent anything, or hung up, it has done so for good; and the
\* process cannot make up for its lag.
LEMMA SilenceBefore ==
    ASSUME IoInv, [Next]_vars, Silent'
    PROVE  Silent /\ UNCHANGED <<produced, room>>
PROOF
<1>1. produced \in Nat /\ late \in Int
  BY SizesAssumption, TimesAssumption DEF IoInv, TypeOK
<1>2. Ended => pc' = pc
  <2>1. CASE Step
    BY <2>1 DEF Ended, Step, Loop, Test, ReadDelay, Choose, PollReturns, Slice,
                SliceReturns, BeginTransfer, Send, SendBreaks, Recv
  <2>2. CASE Core \/ Signal \/ Tick \/ UNCHANGED vars
    BY <2>2 DEF Core, Signal, Tick, vars, Ended
  <2> QED
    BY <2>1, <2>2 DEF Next
<1>3. produced' = 0 /\ ~hungup' /\ room' >= RequestBytes /\ late' <= 2 /\ ~Ended'
  BY DEF Silent, CoreSilent, Punctual
<1>4. produced' = produced /\ ~hungup /\ room' = room /\ late <= 2
  <2>1. /\ \/ late' = late
           \/ late' = late + 1
        /\ \/ produced' = produced /\ (hungup' <=> hungup)
           \/ produced' = produced + 1
           \/ hungup'
        /\ room' = room
    BY OnlyForward, Zenon
  <2>2. produced' # produced + 1 /\ late <= 2
    BY <1>1, <1>3, <2>1
  <2> QED
    BY <1>3, <2>1, <2>2, Zenon
<1> QED
  BY <1>2, <1>3, <1>4 DEF Silent, CoreSilent, Punctual, Ended

\* While the core is silent there is nothing to read, and always room to send.
LEMMA SilentFacts ==
    ASSUME IoInv, Silent
    PROVE  /\ buffer = << >> /\ inbound = << >> /\ ~hungup
           /\ ~Sending => ~Ready
           /\ Sending /\ pc \in Labels \ {"test", "done", "failed"} => Ready
           /\ Waiting => pc \in {"poll", "sliced"} /\ ~Sending /\ ~Expired
PROOF
<1>1. /\ data \in Seq(Nat) /\ buffer \in Seq(Nat) /\ inbound \in Seq(Nat)
      /\ data \o buffer \in Seq(Nat)
  BY ConcatProperties DEF IoInv, TypeOK
<1>2. produced = 0 /\ ~hungup /\ room >= RequestBytes
  BY DEF Silent, CoreSilent
<1>3. (data \o buffer) \o inbound = << >>
  <2>1. [i \in 1 .. 0 |-> i] = << >>
    OBVIOUS
  <2> QED
    BY <1>2, <2>1 DEF IoInv, StreamInv, StreamIntact
<1>4. data \o buffer = << >> /\ inbound = << >>
  BY <1>1, <1>3, ConcatEqualIffEmpty
<1>5. buffer = << >>
  BY <1>1, <1>4, ConcatEqualIffEmpty
<1>6. ~Sending => ~Ready
  BY <1>2, <1>4 DEF Ready
<1>7. Sending /\ sent < RequestBytes => sent - taken < room
  <2>1. room \in Nat /\ RequestBytes \in Nat
    BY SizesAssumption DEF IoInv, TypeOK
  <2>2. sent \in Nat /\ taken \in Nat
    BY <2>1 DEF IoInv, TypeOK
  <2> QED
    BY <1>2, <2>1, <2>2
<1>8. Sending /\ pc \in Labels \ {"test", "done", "failed"} => Ready
  BY <1>7 DEF IoInv, PlaceInv, Ready
<1>9. Waiting => pc \in {"poll", "sliced"} /\ ~Sending /\ ~Expired
  <2>1. ~(pc = "send" /\ sent - taken = room)
    <3>1. room \in Nat /\ RequestBytes \in Nat
      BY SizesAssumption DEF IoInv, TypeOK
    <3>2. sent \in Nat /\ taken \in Nat
      BY <3>1 DEF IoInv, TypeOK
    <3> QED
      BY <1>7, <3>1, <3>2 DEF IoInv, PlaceInv, Labels
  <2> QED
    BY <1>8, <2>1 DEF Waiting, Labels
<1> QED
  BY <1>2, <1>4, <1>5, <1>6, <1>8, <1>9

\* An exchange begins on schedule.
LEMMA InitSchedule == Init => NoEarlyTimeout /\ TimeInv
PROOF
<1> SUFFICES ASSUME Init PROVE NoEarlyTimeout /\ TimeInv
  OBVIOUS
<1>1. /\ now = 0 /\ late = 0 /\ pc = "test" /\ item = 0 /\ error = "none"
  BY DEF Init
<1>2. intblock \in Nat /\ deadline \in Nat
  BY TimesAssumption DEF intblock, deadline
<1>3. Due = 0 /\ Grid
  BY <1>1 DEF Due, Grid
<1>4. Schedule
  BY <1>1, <1>2, <1>3 DEF Schedule
<1> QED
  BY <1>1, <1>4 DEF NoEarlyTimeout, TimeInv

\* The numbers of the schedule.
Numbers ==
    /\ now \in Nat /\ late \in Nat
    /\ delay \in Int /\ until \in Int /\ left \in Int
    /\ wake # Never => wake \in Int
    /\ intblock \in Nat /\ intblock % 2 = 0
    /\ deadline \in Nat /\ deadline % 2 = 0
    /\ Granularity \in Nat \ {0}
    /\ Never \notin Nat

LEMMA NumbersType == IoInv => Numbers
PROOF
<1>1. Horizon \in Nat /\ MaxLate \in Nat /\ Intblock \in Nat /\ Timeout \in Nat
      /\ Granularity \in Nat \ {0} /\ Never \notin Nat
  BY TimesAssumption
<1>2. /\ intblock \in Nat /\ intblock % 2 = 0
      /\ deadline \in Nat /\ deadline % 2 = 0
  BY <1>1 DEF intblock, deadline
<1> QED
  BY <1>1, <1>2 DEF IoInv, TypeOK, Numbers

\* What is left to a moment on the grid is odd only for a lag that is; rounded to
\* a delay, it reaches beyond that moment by no more than the lag.
LEMMA DelayWithinLag ==
    ASSUME NEW point \in Int, NEW n \in Int, NEW l \in Nat,
           point % 2 = 0, (n - l) % 2 = 0, point - n >= 0
    PROVE  n + 2 * Msec(point - n) \in point .. point + l
PROOF
<1> DEFINE t == point - n
           d == Msec(t)
<1>1. t \in Int /\ t >= 0
  OBVIOUS
<1>2. d \in Int /\ 2 * d = t + (t % 2)
  BY <1>1, MsecProperties
<1>3. t % 2 \in 0 .. 1 /\ (l = 0 => t % 2 = 0)
  OBVIOUS
<1> QED
  BY <1>2, <1>3

\* What a step of the loop leaves alone, but for the numbers it sets.
LEMMA LoopLeavesTime ==
    ASSUME Loop, UNCHANGED <<clock, peer, signal>>
    PROVE  /\ now' = now /\ late' = late /\ signals' = signals
           /\ intblock' = intblock /\ deadline' = deadline
           /\ interrupted' <=> interrupted
PROOF
  BY DEF clock, signal, intblock, deadline

\* The same for a moment off the grid that is itself within the lag.
LEMMA SliceWithinLag ==
    ASSUME NEW point \in Int, NEW u \in Int, NEW n \in Int, NEW l \in Nat,
           point % 2 = 0, (n - l) % 2 = 0, u <= point + l, u - n >= 0
    PROVE  n + 2 * Msec(u - n) \in u .. point + l
PROOF
<1> DEFINE t == u - n
           d == Msec(t)
<1>1. t \in Int /\ t >= 0
  OBVIOUS
<1>2. d \in Int /\ 2 * d = t + (t % 2)
  BY <1>1, MsecProperties
<1>3. t % 2 \in 0 .. 1
  OBVIOUS
<1>4. u = point + l => t % 2 = 0
  OBVIOUS
<1> QED
  BY <1>2, <1>3, <1>4

\* Whole milliseconds stay on the grid.
LEMMA WholeMilliseconds ==
    ASSUME NEW n \in Int, NEW l \in Nat, NEW d \in Int, (n - l) % 2 = 0
    PROVE  (n + 2 * d - l) % 2 = 0
PROOF
  OBVIOUS

\* The time left, as the loops read it.
LEMMA LeftProperties ==
    ASSUME NEW point \in Int, now \in Int
    PROVE  /\ Left(point) \in Int
           /\ Left(point) <= 0 <=> point <= now
           /\ point - now >= -2 => Left(point) >= 0
PROOF
<1> DEFINE t == point - now
<1>1. t \in Int
  OBVIOUS
<1>2. Left(point) = Msec(t)
  BY DEF Left
<1> QED
  BY <1>1, <1>2, MsecProperties

LEMMA LeftWithinLag ==
    ASSUME NEW point \in Int, now \in Int, late \in Nat,
           point % 2 = 0, (now - late) % 2 = 0, point >= now
    PROVE  now + 2 * Left(point) \in point .. point + late
PROOF
<1>1. point - now >= 0
  OBVIOUS
<1> QED
  BY <1>1, DelayWithinLag DEF Left

\* The conditions of the loops, and the time left to the deadline.
LEMMA TestKeepsSchedule ==
    ASSUME IoInv, Silent, Silent', Schedule, Loop, UNCHANGED <<clock, peer, signal>>,
           Test \/ ReadDelay
    PROVE  Schedule'
PROOF
<1>1. Numbers
  BY NumbersType
<1>2. /\ now' = now /\ late' = late /\ signals' = signals
      /\ intblock' = intblock /\ deadline' = deadline
      /\ interrupted' <=> interrupted
  BY LoopLeavesTime
<1>3. pc \in {"test", "delay"} /\ pc' \in {"test", "delay", "choose"}
  BY SilentFacts DEF Test, ReadDelay, Goto, Fail, NextItem, Silent, Ended
<1>4. Due = now /\ Due' = now
  BY <1>2, <1>3 DEF Due
<1>5. Grid' /\ (now - late) % 2 = 0
  BY <1>2, <1>4 DEF Schedule, Grid
<1>6. Sending' => Sending
  BY SilentFacts, SizesAssumption DEF Test, ReadDelay, Goto, Fail, NextItem, Sending,
                                      IoInv, TypeOK
<1>7. CASE Test
  <2>1. pc = "test" /\ pc' \in {"test", "delay"}
    BY <1>7, SilentFacts DEF Test, Goto, NextItem, Silent, Ended
  <2> QED
    BY <1>1, <1>2, <1>4, <1>5, <1>6, <2>1 DEF Schedule, Numbers
<1>8. CASE ReadDelay
  <2>1. /\ pc = "delay" /\ pc' = "choose" /\ delay' = Left(deadline)
        /\ ~(delay' <= 0)
    BY <1>8 DEF ReadDelay, Goto, Fail, Silent, Ended
  <2>2. now \in Int /\ deadline \in Int /\ late \in Nat /\ deadline % 2 = 0
    BY <1>1 DEF Numbers
  <2>3. delay' \in Int /\ delay' > 0 /\ deadline > now
    BY <2>1, <2>2, LeftProperties
  <2>4. now + 2 * delay' \in deadline .. deadline + late
    BY <1>5, <2>1, <2>2, <2>3, LeftWithinLag
  <2>5. now <= intblock + late
    BY <1>1, <1>4, <2>1, <2>3 DEF Schedule, Numbers
  <2> QED
    BY <1>1, <1>2, <1>4, <1>5, <1>6, <2>1, <2>3, <2>4, <2>5 DEF Schedule, Numbers
<1> QED
  BY <1>7, <1>8

\* The choice of the wait: a punctual process has not passed the moment at which
\* the time left to intblock counts as none.
LEMMA ChooseKeepsSchedule ==
    ASSUME IoInv, Silent, Silent', Schedule, Loop, UNCHANGED <<clock, peer, signal>>,
           Choose
    PROVE  Schedule'
PROOF
<1>1. Numbers
  BY NumbersType
<1>2. /\ now' = now /\ late' = late /\ signals' = signals
      /\ intblock' = intblock /\ deadline' = deadline
      /\ interrupted' <=> interrupted
  BY LoopLeavesTime
<1>3. pc = "choose" /\ pc' \in {"slice", "poll"} /\ delay' = delay /\ item' = item
  BY DEF Choose, Goto
<1>4. Due = now /\ (now - late) % 2 = 0
  BY <1>3 DEF Due, Schedule, Grid
<1>5. /\ now <= intblock + late /\ delay > 0 /\ late <= 2
      /\ now + 2 * delay \in deadline .. deadline + late
  BY <1>3 DEF Schedule, Silent, Punctual
<1>6. CASE Left(intblock) = 0
  <2>1. pc' = "slice" /\ until' = now + 2 * delay
    BY <1>1, <1>5, <1>6 DEF Choose, After, Goto, Numbers
  <2>2. Due' = now /\ Grid'
    BY <1>2, <1>4, <2>1 DEF Due, Grid
  <2> QED
    BY <1>1, <1>2, <1>3, <1>4, <1>5, <2>1, <2>2 DEF Schedule, Numbers, Sending
<1>7. CASE Left(intblock) # 0
  <2> DEFINE ib == Left(intblock)
             d == IF delay < ib THEN delay ELSE ib
  <2>1. /\ now \in Int /\ intblock \in Int /\ late \in Nat /\ intblock % 2 = 0
        /\ intblock - now >= -2
    BY <1>1, <1>5 DEF Numbers
  <2>2. ib \in Int /\ ib > 0 /\ intblock > now
    <3>1. ib \in Int /\ ib >= 0 /\ (ib <= 0 <=> intblock <= now)
      BY <2>1, LeftProperties
    <3> QED
      BY <1>7, <2>1, <3>1
  <2>3. now + 2 * ib \in intblock .. intblock + late
    BY <1>4, <2>1, <2>2, LeftWithinLag
  <2>4. d \in Int /\ d > 0 /\ d <= delay /\ d <= ib /\ (d = delay \/ d = ib)
    BY <1>1, <1>5, <2>2 DEF Numbers
  <2>5. pc' = "poll" /\ wake' = After(d)
    BY <1>7 DEF Choose, Goto
  <2> HIDE DEF d
  <2>6. wake' = now + 2 * d /\ wake' \in Nat /\ wake' # Never /\ wake' > now
    BY <1>1, <2>4, <2>5 DEF After, Numbers
  <2>7. (wake' - late) % 2 = 0
    BY <1>1, <1>4, <2>4, <2>6, WholeMilliseconds DEF Numbers
  <2> HIDE DEF ib
  <2>8. /\ wake' <= deadline + late /\ wake' <= intblock + late
        /\ wake' >= deadline \/ wake' = now + 2 * ib
    BY <1>1, <1>5, <2>2, <2>3, <2>4, <2>6 DEF Numbers
  <2>9. Due' \in {now, wake'} /\ (Sending => Due' = now)
    BY <1>2, <1>3, <2>5 DEF Due, Sending
  <2>10. Grid'
    BY <1>2, <1>4, <2>7, <2>9 DEF Grid
  <2> QED
    BY <1>1, <1>2, <1>3, <1>4, <1>5, <2>5, <2>6, <2>8, <2>9, <2>10
       DEF Schedule, Numbers, Sending
<1> QED
  BY <1>6, <1>7

\* A turn of ndm_poll(), of a granularity at most and not beyond its deadline.
LEMMA SliceKeepsSchedule ==
    ASSUME IoInv, Silent, Silent', Schedule, Loop, UNCHANGED <<clock, peer, signal>>,
           Slice
    PROVE  Schedule'
PROOF
<1>1. Numbers
  BY NumbersType
<1>2. /\ now' = now /\ late' = late /\ signals' = signals
      /\ intblock' = intblock /\ deadline' = deadline
      /\ interrupted' <=> interrupted
  BY LoopLeavesTime
<1>3. /\ pc = "slice" /\ pc' = "sliced" /\ until' = until /\ item' = item
      /\ left' = Left(until)
      /\ wake' = After(IF left' < 0 THEN 0
                       ELSE IF left' < Granularity THEN left' ELSE Granularity)
  BY DEF Slice, Goto
<1>4. Due = now /\ (now - late) % 2 = 0
  BY <1>3 DEF Due, Schedule, Grid
<1>5. until \in deadline .. deadline + late /\ now <= deadline + late
  BY <1>3, <1>4 DEF Schedule
<1>6. now \in Int /\ until \in Int /\ late \in Nat /\ deadline \in Int
      /\ deadline % 2 = 0 /\ Granularity \in Nat
  BY <1>1 DEF Numbers
<1>7. left' \in Int /\ (left' <= 0 <=> until <= now)
  BY <1>3, <1>6, LeftProperties
<1> DEFINE d == IF left' < 0 THEN 0
                ELSE IF left' < Granularity THEN left' ELSE Granularity
<1>8. d \in Nat /\ d <= Granularity /\ (d = 0 \/ d <= left')
  BY <1>6, <1>7
<1>9. wake' = After(d)
  BY <1>3
<1> HIDE DEF d
<1>10. wake' = now + 2 * d /\ wake' \in Nat /\ wake' # Never
  BY <1>1, <1>8, <1>9 DEF After, Numbers
<1>11. wake' <= deadline + late
  <2>1. CASE until <= now
    <3>1. d = 0
      BY <1>7, <1>8, <2>1
    <3> QED
      BY <1>5, <1>6, <1>10, <3>1
  <2>2. CASE until > now
    <3>1. until - now >= 0 /\ until <= deadline + late
      BY <1>5, <1>6, <2>2
    <3>2. now + 2 * Msec(until - now) \in until .. deadline + late
      BY <1>4, <1>6, <3>1, SliceWithinLag
    <3>3. now + 2 * left' <= deadline + late
      BY <1>3, <3>2 DEF Left
    <3>4. left' > 0
      BY <1>6, <1>7, <2>2
    <3>5. d <= left'
      BY <1>7, <1>8, <3>4
    <3>6. PICK l \in Int : l = left'
      BY <1>7
    <3>7. d \in Int /\ d <= l /\ now + 2 * l <= deadline + late
      BY <1>8, <3>3, <3>5, <3>6
    <3> QED
      BY <1>6, <1>10, <3>7
  <2> QED
    BY <1>6, <2>1, <2>2
<1>12. (wake' - late) % 2 = 0
  BY <1>4, <1>6, <1>8, <1>10, WholeMilliseconds
<1>13. Due' \in {now, wake'} /\ (Sending => Due' = now)
  BY <1>2, <1>3 DEF Due, Sending
<1>14. Grid'
  BY <1>2, <1>4, <1>12, <1>13 DEF Grid
<1>15. Due' <= deadline + late /\ Due' <= now + 2 * Granularity
  BY <1>5, <1>6, <1>8, <1>10, <1>11, <1>13
<1>16. /\ interrupted /\ signals = 0 /\ intblock < deadline =>
            Due' <= intblock + late + 2 * Granularity
  BY <1>1, <1>3, <1>4, <1>6, <1>13, <1>15 DEF Schedule, Numbers
<1> QED
  BY <1>2, <1>3, <1>4, <1>5, <1>6, <1>7, <1>10, <1>14, <1>15, <1>16
     DEF Schedule, Sending

\* A poll that returns: to send, where there is room; because its time is over,
\* where there is nothing to read.
LEMMA ReturnKeepsSchedule ==
    ASSUME IoInv, Silent, Silent', Schedule, Loop, UNCHANGED <<clock, peer, signal>>,
           PollReturns \/ SliceReturns
    PROVE  Schedule'
PROOF
<1>1. Numbers
  BY NumbersType
<1>2. /\ now' = now /\ late' = late /\ signals' = signals
      /\ intblock' = intblock /\ deadline' = deadline
      /\ interrupted' <=> interrupted
  BY LoopLeavesTime
<1>3. /\ pc \in {"poll", "sliced"} /\ UNCHANGED <<timing, item>>
      /\ Ready \/ Expired
      /\ ~Ended'
  BY DEF PollReturns, SliceReturns, Polled, Goto, Fail, Silent, Ended
<1>4. Ready <=> Sending
  BY <1>3, SilentFacts DEF Labels
<1>5. CASE Sending
  <2>1. pc' = "transfer"
    <3>1. CASE PollReturns
      BY <1>3, <1>4, <1>5, <3>1, SilentFacts DEF PollReturns, Polled, Goto, Fail, Ended
    <3>2. CASE SliceReturns
      BY <1>3, <1>4, <1>5, <3>2, SilentFacts DEF SliceReturns, Polled, Goto, Fail, Ended
    <3> QED
      BY <3>1, <3>2
  <2>2. Due = now /\ Due' = now
    BY <1>2, <1>5, <2>1 DEF Due
  <2>3. Sending' /\ now = late
    BY <1>3, <1>5 DEF Sending, Schedule
  <2>4. Grid'
    BY <1>2, <2>2 DEF Schedule, Grid
  <2> QED
    BY <1>1, <1>2, <2>1, <2>2, <2>3, <2>4 DEF Schedule, Numbers
<1>6. CASE ~Sending
  <2>1. Expired /\ ~Sending'
    BY <1>3, <1>4, <1>6 DEF Sending
  <2>2. wake # Never /\ wake <= now
    BY <1>3, <2>1 DEF Expired, Schedule
  <2>3. Due = now
    BY <1>1, <2>2 DEF Due, Numbers
  <2>4. CASE PollReturns
    <3>1. pc = "poll" /\ pc' = "test"
      BY <1>3, <1>4, <1>6, <2>4 DEF PollReturns, Goto
    <3>2. Due' = now
      BY <1>2, <3>1 DEF Due
    <3>3. Grid'
      BY <1>2, <2>3, <3>2 DEF Schedule, Grid
    <3> QED
      BY <1>1, <1>2, <2>1, <2>3, <3>1, <3>2, <3>3 DEF Schedule, Numbers
  <2>5. CASE SliceReturns
    <3>1. /\ pc = "sliced" /\ ~interrupted
          /\ pc' = IF left > 0 THEN "slice" ELSE "test"
      BY <1>3, <1>4, <1>6, <2>5 DEF SliceReturns, Goto, Fail, Ended
    <3>2. Due' = now
      BY <1>2, <3>1 DEF Due
    <3>3. Grid'
      BY <1>2, <2>3, <3>2 DEF Schedule, Grid
    <3>4. until' = until
      BY <1>3 DEF timing
    <3>5. left <= 0 => now >= deadline
      BY <1>1, <3>1 DEF Schedule, Numbers
    <3> QED
      BY <1>1, <1>2, <2>1, <2>3, <3>1, <3>2, <3>3, <3>4, <3>5 DEF Schedule, Numbers
  <2> QED
    BY <2>4, <2>5
<1> QED
  BY <1>5, <1>6

\* The transfer, which with a silent core is the sending only.
LEMMA TransferKeepsSchedule ==
    ASSUME IoInv, Silent, Silent', Schedule, Loop, UNCHANGED <<clock, peer, signal>>,
           BeginTransfer \/ Send \/ SendBreaks \/ Recv
    PROVE  Schedule'
PROOF
<1>1. Numbers
  BY NumbersType
<1>2. /\ now' = now /\ late' = late /\ signals' = signals
      /\ intblock' = intblock /\ deadline' = deadline
      /\ interrupted' <=> interrupted
  BY LoopLeavesTime
<1>3. pc \in {"transfer", "send"} /\ Sending
  BY DEF BeginTransfer, Send, SendBreaks, Recv, Schedule
<1>4. pc' \in {"send", "test"} /\ item' = item
  BY <1>3, SilentFacts DEF BeginTransfer, Send, SendBreaks, Recv, Goto
<1>5. Due = now /\ Due' = now
  BY <1>2, <1>3, <1>4 DEF Due
<1>6. Sending' /\ now = late
  BY <1>3, <1>4 DEF Sending, Schedule
<1>7. Grid'
  BY <1>2, <1>5 DEF Schedule, Grid
<1> QED
  BY <1>1, <1>2, <1>4, <1>5, <1>6, <1>7 DEF Schedule, Numbers

\* Time: while the process waits it comes nearer to the end of the wait, and while
\* it lags the lag grows with the clock.
LEMMA TickKeepsSchedule ==
    ASSUME IoInv, Silent, Silent', Schedule, Tick
    PROVE  Schedule'
PROOF
<1>1. Numbers
  BY NumbersType
<1>2. /\ UNCHANGED <<pc, item, delay, wake, until, left, signals, interrupted>>
      /\ now' = now + 1 /\ late' = IF Waiting THEN late ELSE late + 1
      /\ intblock' = intblock /\ deadline' = deadline
  BY DEF Tick, timing, signal, intblock, deadline
<1>3. Sending' <=> Sending
  BY <1>2 DEF Sending
<1>4. CASE Waiting
  <2>1. pc \in {"poll", "sliced"} /\ ~Sending /\ ~Expired
    BY <1>4, SilentFacts
  <2>2. wake # Never /\ wake \in Int /\ wake > now
    BY <1>1, <2>1 DEF Schedule, Expired, Numbers
  <2>3. Due = wake /\ Due' = wake
    BY <1>1, <1>2, <1>3, <2>1, <2>2 DEF Due, Numbers
  <2>4. Grid'
    BY <1>2, <1>4, <2>3 DEF Schedule, Grid
  <2> QED
    BY <1>1, <1>2, <1>3, <1>4, <2>1, <2>3, <2>4 DEF Schedule, Numbers
<1>5. CASE ~Waiting
  <2>1. late' = late + 1
    BY <1>2, <1>5
  <2>2. Due = now
    <3>1. CASE pc \in {"poll", "sliced"} /\ ~Sending
      <4>1. Expired
        BY <1>5, <3>1, SilentFacts DEF Waiting
      <4> QED
        BY <1>1, <4>1 DEF Due, Expired, Numbers
    <3>2. CASE ~(pc \in {"poll", "sliced"} /\ ~Sending)
      BY <3>2 DEF Due
    <3> QED
      BY <3>1, <3>2
  <2>3. Due' = now + 1
    <3>1. pc \in {"poll", "sliced"} /\ ~Sending /\ wake > now + 1 => wake > now
      BY <1>1, <1>2, <2>2 DEF Due, Numbers, Schedule
    <3> QED
      BY <1>1, <1>2, <1>3, <2>2, <3>1 DEF Due, Numbers, Schedule
  <2>4. Grid'
    <3>1. (now - late) % 2 = 0
      BY <2>2 DEF Schedule, Grid
    <3>2. (now + 1) - (late + 1) = now - late
      BY <1>1 DEF Numbers
    <3> QED
      BY <2>1, <2>3, <3>1, <3>2 DEF Grid
  <2> QED
    BY <1>1, <1>2, <1>3, <2>1, <2>2, <2>3, <2>4 DEF Schedule, Numbers
<1> QED
  BY <1>4, <1>5

\* The schedule does not depend on what the core has read; a signal ends a wait that
\* is under way and counts from then on.
LEMMA OthersKeepSchedule ==
    ASSUME IoInv, Silent, Silent', Schedule, Core \/ Signal \/ UNCHANGED vars
    PROVE  Schedule'
PROOF
<1>1. Numbers
  BY NumbersType
<1>2. UNCHANGED <<now, late, item, delay, wake, until, left>>
  BY DEF Core, Signal, SendCut, Goto, Fail, vars, clock, timing
<1>3. intblock' = intblock /\ deadline' = deadline
  BY DEF intblock, deadline
<1>4. CASE pc' = pc
  <2>1. Due' = Due /\ (Sending' <=> Sending)
    BY <1>2, <1>4 DEF Due, Sending
  <2>2. Grid' <=> Grid
    BY <1>2, <2>1 DEF Grid
  <2>3. interrupted' /\ signals' = 0 => interrupted /\ signals = 0
    <3>1. signals \in Nat
      BY TimesAssumption DEF IoInv, TypeOK
    <3>2. Signal => signals' # 0
      BY <3>1 DEF Signal
    <3>3. ~Signal => UNCHANGED <<interrupted, signals>>
      BY DEF Core, vars, signal
    <3>4. ~Signal => (interrupted' <=> interrupted) /\ signals' = signals
      BY <3>3
    <3> QED
      BY <3>2, <3>4, Zenon
  <2> QED
    BY <1>2, <1>3, <1>4, <2>1, <2>2, <2>3 DEF Schedule
<1>5. CASE pc' # pc
  <2>1. Signal /\ Waiting
    BY <1>5 DEF Core, Signal, vars
  <2>2. pc # "send"
    BY <2>1, SilentFacts
  <2>3. pc' = "failed"
    BY <2>1, <2>2 DEF Signal, Fail
  <2> QED
    BY <2>3 DEF Silent, Ended
<1> QED
  BY <1>4, <1>5

\* Every step keeps to the schedule.
LEMMA StepKeepsTime == IoInv /\ TimeInv /\ [Next]_vars => TimeInv'
PROOF
<1> SUFFICES ASSUME IoInv, TimeInv, [Next]_vars, Silent' PROVE Schedule'
  BY DEF TimeInv
<1>1. Silent /\ Schedule
  BY SilenceBefore DEF TimeInv
<1>2. CASE Step
  <2>1. Loop /\ UNCHANGED <<clock, peer, signal>>
    BY <1>2 DEF Step
  <2>2. CASE Test \/ ReadDelay
    BY <1>1, <2>1, <2>2, TestKeepsSchedule
  <2>3. CASE Choose
    BY <1>1, <2>1, <2>3, ChooseKeepsSchedule
  <2>4. CASE Slice
    BY <1>1, <2>1, <2>4, SliceKeepsSchedule
  <2>5. CASE PollReturns \/ SliceReturns
    BY <1>1, <2>1, <2>5, ReturnKeepsSchedule
  <2>6. CASE BeginTransfer \/ Send \/ SendBreaks \/ Recv
    BY <1>1, <2>1, <2>6, TransferKeepsSchedule
  <2> QED
    BY <2>1, <2>2, <2>3, <2>4, <2>5, <2>6 DEF Loop
<1>3. CASE Tick
  BY <1>1, <1>3, TickKeepsSchedule
<1>4. CASE Core \/ Signal \/ UNCHANGED vars
  BY <1>1, <1>4, OthersKeepSchedule
<1> QED
  BY <1>2, <1>3, <1>4 DEF Next

\* The schedule is tighter than the limits by the rounding.
LEMMA ScheduleKeepsLimits == IoInv /\ NoEarlyTimeout /\ TimeInv => LimitsAreKept
PROOF
<1> SUFFICES ASSUME IoInv, NoEarlyTimeout, TimeInv,
                    CoreSilent, Punctual, ~Ended
             PROVE  /\ now <= deadline + 1 + late
                    /\ interrupted /\ signals = 0 /\ intblock < deadline =>
                          now <= intblock + 2 * Granularity + 1 + late
  BY DEF LimitsAreKept, SilenceEnds
<1>1. Numbers /\ Schedule
  BY NumbersType DEF TimeInv, Silent
<1>2. now <= Due /\ Due \in Int
  <2>1. pc \in {"poll", "sliced"} => wake \in Int
    BY <1>1 DEF Schedule, Numbers
  <2> QED
    BY <1>1, <2>1 DEF Due, Numbers
<1>3. now <= deadline + late
  BY <1>1, <1>2 DEF Schedule, Numbers
<1>4. interrupted /\ signals = 0 /\ intblock < deadline =>
         now <= intblock + late + 2 * Granularity
  BY <1>1, <1>2 DEF Schedule, Numbers
<1> QED
  BY <1>1, <1>3, <1>4 DEF Numbers

\* No exchange gives up before its time; and with a core that says nothing and a
\* process that does not lag for longer than a millisecond none goes on beyond the
\* deadline, nor, if it is interrupted, beyond a granularity after intblock: the
\* loops of send_all() and recv_all() with poll() and ndm_poll(), for every length
\* of the two limits and of the granularity.
THEOREM LimitsStayKept == Spec => []LimitsAreKept
PROOF
<1>1. Init => NoEarlyTimeout /\ TimeInv
  BY InitSchedule
<1>2. IoInv /\ (NoEarlyTimeout /\ TimeInv) /\ [Next]_vars
        => (NoEarlyTimeout /\ TimeInv)'
  BY StepNotEarly, StepKeepsTime
<1>3. IoInv /\ (NoEarlyTimeout /\ TimeInv) => LimitsAreKept
  BY ScheduleKeepsLimits
<1> QED
  BY <1>1, <1>2, <1>3, IoInvariance, PTL DEF Spec
=============================================================================
