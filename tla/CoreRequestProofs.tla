-------------------------- MODULE CoreRequestProofs -------------------------
(***************************************************************************)
(* A connection and the calls a client makes on it.                        *)
(*                                                                         *)
(* Requests and replies carry no number, so what pairs them is that there  *)
(* is never more than one exchange in the streams.  The invariant says so  *)
(* stage by stage, for a connection on which no exchange failed after its  *)
(* request was sent; the pairing of answers and of cache entries follows.  *)
(*                                                                         *)
(* What a client does on a connection is one of the histories of that      *)
(* connection, so that the theorems of CoreExchange are about every call;  *)
(* no call leaks a response or frees one of the cache; and a call reports  *)
(* the errors of its own response.                                         *)
(***************************************************************************)
EXTENDS CoreRequest, CoreCacheProofs, SequenceTheorems

-----------------------------------------------------------------------------
(* The connection. *)

HeadOf(r) == [response |-> r, part |-> "head"]
TailOf(r) == [response |-> r, part |-> "tail"]

\* The exchange under way is known to the connection and to its cache alike.
StageInv ==
    /\ stage \in {"idle", "sending", "receiving", "reading"}
    /\ mode \in Mode
    /\ stage # "idle" => asked \in Request
    /\ (stage # "idle" /\ mode = "cache") <=> missed # NoRequest
    /\ missed # NoRequest => asked = missed

\* What the two directions of the socket hold at each stage.
StreamsInStep ==
    /\ stage \in {"idle", "sending"} => toCore = << >> /\ toClient = << >>
    /\ stage = "receiving" =>
          \/ toCore = <<asked>> /\ toClient = << >>
          \/ /\ toCore = << >>
             /\ \E r \in Replies[asked] : toClient = <<HeadOf(r), TailOf(r)>>
    /\ stage = "reading" =>
          /\ toCore = << >>
          /\ \E r \in Replies[asked] : toClient = <<TailOf(r)>>

StepInv == ~broken => StreamsInStep

FitInv == ~broken => AnswerFits /\ EntriesFit

ConnInv == StageInv /\ StepInv /\ FitInv

-----------------------------------------------------------------------------
\* A connection just opened satisfies the invariant.
LEMMA ConnInitInv == ConnInit => ConnInv
PROOF
<1> SUFFICES ASSUME ConnInit PROVE ConnInv
  OBVIOUS
<1>1. StageInv
  BY DEF ConnInit, Init, StageInv, Mode
<1>2. StepInv
  BY DEF ConnInit, StepInv, StreamsInStep
<1>3. AnswerFits
  BY DEF ConnInit, Init, AnswerFits
<1>4. Live = {}
  <2>1. entries = << >>
    BY DEF ConnInit, Init
  <2> QED
    BY <2>1 DEF Live
<1>5. EntriesFit
  BY <1>4 DEF EntriesFit
<1> QED
  BY <1>1, <1>2, <1>3, <1>5 DEF ConnInv, FitInv

\* Entries that stay as they were still fit.
LEMMA KeptEntriesFit ==
    ASSUME EntriesFit, NEW kept \in SUBSET Live, entries' = Keep(kept)
    PROVE  EntriesFit'
PROOF
<1>1. Live' = kept /\ \A a \in kept : entries'[a] = entries[a]
  BY DEF Live, Keep
<1> QED
  BY <1>1 DEF EntriesFit

\* A hit answers with an entry, and entries fit.
LEMMA HitKeepsInv ==
    ASSUME ConnInv, NEW q \in Request, RequestHit(q)
    PROVE  ConnInv'
PROOF
<1>1. LookupHit(q) /\ UNCHANGED <<exchange, streams, broken, missed>>
  BY DEF RequestHit, LookupHit
<1>2. StageInv' /\ StepInv'
  BY <1>1 DEF ConnInv, StageInv, StepInv, StreamsInStep, exchange, streams
<1>3. ASSUME ~broken
      PROVE  AnswerFits' /\ EntriesFit'
  <2>1. PICK e \in Matches(q) :
           /\ entries' = Keep(Live \ {a \in Newer(e) : Expired(a)})
           /\ answer' \in {[request |-> q, response |-> entries[e].response,
                            cached |-> TRUE], NoAnswer}
    BY <1>1 DEF LookupHit
  <2>2. EntriesFit
    BY <1>3 DEF ConnInv, FitInv
  <2>3. EntriesFit'
    BY <2>1, <2>2, KeptEntriesFit
  <2>4. e \in Live /\ entries[e].request = q
    BY DEF Matches
  <2>5. entries[e].response \in Replies[q]
    BY <2>2, <2>4 DEF EntriesFit
  <2>6. AnswerFits'
    BY <2>1, <2>5 DEF AnswerFits
  <2> QED
    BY <2>3, <2>6
<1> QED
  BY <1>1, <1>2, <1>3 DEF ConnInv, FitInv

\* A miss begins an exchange on streams that are empty.
LEMMA MissKeepsInv ==
    ASSUME ConnInv, NEW q \in Request, RequestMiss(q)
    PROVE  ConnInv'
PROOF
<1>1. /\ stage = "idle" /\ stage' = "sending" /\ mode' = "cache"
      /\ asked' = q /\ missed' = q
      /\ UNCHANGED <<streams, broken, answer>>
      /\ entries' = Keep({a \in Live : ~Expired(a)})
  BY DEF RequestMiss, LookupMiss, Begin
<1>2. StageInv'
  BY <1>1, ValueAssumption DEF StageInv, Mode
<1>3. StepInv'
  BY <1>1 DEF ConnInv, StepInv, StreamsInStep, streams
<1>4. FitInv'
  BY <1>1, KeptEntriesFit DEF ConnInv, FitInv, AnswerFits
<1> QED
  BY <1>2, <1>3, <1>4 DEF ConnInv

\* So does a request that passes the cache by.
LEMMA UncachedKeepsInv ==
    ASSUME ConnInv, NEW q \in Request, RequestUncached(q)
    PROVE  ConnInv'
PROOF
<1>1. /\ stage = "idle" /\ stage' = "sending" /\ mode' = "no cache"
      /\ asked' = q
      /\ UNCHANGED <<streams, broken, answer, missed, entries>>
  BY DEF RequestUncached, Begin, vars, cacheVars
<1>2. StageInv'
  BY <1>1 DEF ConnInv, StageInv, Mode
<1>3. StepInv'
  BY <1>1 DEF ConnInv, StepInv, StreamsInStep, streams
<1>4. FitInv'
  BY <1>1 DEF ConnInv, FitInv, AnswerFits, EntriesFit, Live
<1> QED
  BY <1>2, <1>3, <1>4 DEF ConnInv

\* The request is the only one on its way.
LEMMA SendKeepsInv == ASSUME ConnInv, SendRequest PROVE ConnInv'
PROOF
<1>1. /\ stage = "sending" /\ stage' = "receiving"
      /\ toCore' = Append(toCore, asked)
      /\ UNCHANGED <<mode, asked, toClient, broken, answer, missed, entries>>
  BY DEF SendRequest, vars, cacheVars
<1>2. StageInv'
  BY <1>1 DEF ConnInv, StageInv
<1>3. StepInv'
  BY <1>1 DEF ConnInv, StepInv, StreamsInStep
<1>4. FitInv'
  BY <1>1 DEF ConnInv, FitInv, AnswerFits, EntriesFit, Live
<1> QED
  BY <1>2, <1>3, <1>4 DEF ConnInv

\* An exchange that is given up leaves no answer; the connection stays whole
\* only where nothing was sent.
LEMMA GiveUpKeepsInv ==
    ASSUME ConnInv, NEW sent \in BOOLEAN, GiveUp(sent), stage # "idle",
           sent \/ (stage = "sending" /\ UNCHANGED streams)
    PROVE  ConnInv'
PROOF
<1>1. /\ stage' = "idle" /\ answer' = NoAnswer
      /\ broken' = (broken \/ sent)
      /\ UNCHANGED <<mode, entries>>
      /\ missed' = NoRequest
  BY DEF GiveUp, ReceiveNothing, cacheVars, ConnInv, StageInv
<1>2. StageInv'
  BY <1>1 DEF ConnInv, StageInv
<1>3. StepInv'
  BY <1>1 DEF ConnInv, StepInv, StreamsInStep, streams
<1>4. FitInv'
  BY <1>1 DEF ConnInv, FitInv, AnswerFits, EntriesFit, Live
<1> QED
  BY <1>2, <1>3, <1>4 DEF ConnInv

\* The head of the only reply is read.
LEMMA ReadHeadKeepsInv == ASSUME ConnInv, ReadHead PROVE ConnInv'
PROOF
<1>1. /\ stage = "receiving" /\ stage' = "reading" /\ toClient # << >>
      /\ toClient' = Tail(toClient)
      /\ UNCHANGED <<mode, asked, toCore, broken, answer, missed, entries>>
  BY DEF ReadHead, Take, vars, cacheVars
<1>2. StageInv'
  BY <1>1 DEF ConnInv, StageInv
<1>3. ASSUME ~broken
      PROVE  StreamsInStep'
  <2>1. toCore = << >>
    BY <1>1, <1>3 DEF ConnInv, StepInv, StreamsInStep
  <2>2. PICK r \in Replies[asked] : toClient = <<HeadOf(r), TailOf(r)>>
    BY <1>1, <1>3 DEF ConnInv, StepInv, StreamsInStep
  <2>3. toClient' = <<TailOf(r)>>
    BY <1>1, <2>2
  <2> QED
    BY <1>1, <2>1, <2>3 DEF StreamsInStep
<1>4. FitInv'
  BY <1>1 DEF ConnInv, FitInv, AnswerFits, EntriesFit, Live
<1> QED
  BY <1>1, <1>2, <1>3, <1>4 DEF ConnInv, StepInv

\* What is stored, and answered, is the response read, for the request asked.
LEMMA StoreFits ==
    ASSUME StageInv, stage # "idle", NEW r \in Replies[asked], Store(r)
    PROVE  /\ missed' = NoRequest
           /\ AnswerFits'
           /\ EntriesFit => EntriesFit'
PROOF
<1>1. CASE mode = "no cache"
  <2>1. /\ answer' = [request |-> asked, response |-> r, cached |-> FALSE]
        /\ UNCHANGED <<entries, missed>>
    BY <1>1 DEF Store, cacheVars
  <2>2. missed = NoRequest
    BY <1>1 DEF StageInv
  <2> QED
    BY <2>1, <2>2 DEF AnswerFits, EntriesFit, Live
<1>2. CASE mode = "cache"
  <2>1. asked = missed
    BY <1>2 DEF StageInv
  <2>2. CASE ReceiveUncached(r)
    BY <2>1, <2>2 DEF ReceiveUncached, Fresh, AnswerFits, EntriesFit, Live,
                      cacheVars
  <2>3. CASE ReceiveUnstored(r)
    <3>1. /\ answer' = Fresh(r) /\ missed' = NoRequest
          /\ entries' = Keep(Live \ Evicted(Need(r)))
      BY <2>3 DEF ReceiveUnstored
    <3>2. AnswerFits'
      BY <2>1, <3>1 DEF AnswerFits, Fresh
    <3> QED
      BY <3>1, <3>2, KeptEntriesFit
  <2>4. CASE ReceiveCached(r)
    <3>1. /\ answer' = Fresh(r) /\ missed' = NoRequest
      BY <2>4 DEF ReceiveCached
    <3>2. PICK kept \in SUBSET Live, a \in Addr :
             entries' = [b \in kept \cup {a} |->
                IF b = a THEN [request |-> missed, response |-> r,
                               expires |-> now + Ttl]
                ELSE entries[b]]
      BY <2>4 DEF ReceiveCached
    <3>3. AnswerFits'
      BY <2>1, <3>1 DEF AnswerFits, Fresh
    <3>4. ASSUME EntriesFit, NEW b \in Live'
          PROVE  entries'[b].response \in Replies[entries'[b].request]
      <4>1. b \in kept \cup {a}
        BY <3>2 DEF Live
      <4>2. CASE b = a
        BY <2>1, <3>2, <4>2
      <4>3. CASE b # a
        <5>1. b \in Live /\ entries'[b] = entries[b]
          BY <3>2, <4>1, <4>3
        <5> QED
          BY <3>4, <5>1 DEF EntriesFit
      <4> QED
        BY <4>2, <4>3
    <3> QED
      BY <3>1, <3>3, <3>4 DEF EntriesFit
  <2> QED
    BY <1>2, <2>2, <2>3, <2>4 DEF Store
<1> QED
  BY <1>1, <1>2 DEF StageInv, Mode

\* The missing piece is that of the reply to the request asked.
LEMMA ReadTailKeepsInv == ASSUME ConnInv, ReadTail PROVE ConnInv'
PROOF
<1>1. /\ stage = "reading" /\ stage' = "idle" /\ toClient # << >>
      /\ toClient' = Tail(toClient)
      /\ Store(Head(toClient).response)
      /\ UNCHANGED <<mode, asked, toCore, broken>>
  BY DEF ReadTail, Take
<1>2. missed' = NoRequest
  BY <1>1 DEF Store, ReceiveUncached, ReceiveCached, ReceiveUnstored, ConnInv,
              StageInv
<1>3. StageInv'
  BY <1>1, <1>2 DEF ConnInv, StageInv
<1>4. ASSUME ~broken
      PROVE  StreamsInStep' /\ AnswerFits' /\ EntriesFit'
  <2>1. PICK r \in Replies[asked] : toClient = <<TailOf(r)>>
    BY <1>1, <1>4 DEF ConnInv, StepInv, StreamsInStep
  <2>2. Head(toClient).response = r /\ Tail(toClient) = << >>
    BY <2>1 DEF TailOf
  <2>3. toCore = << >>
    BY <1>1, <1>4 DEF ConnInv, StepInv, StreamsInStep
  <2>4. StreamsInStep'
    BY <1>1, <2>2, <2>3 DEF StreamsInStep
  <2>5. EntriesFit
    BY <1>4 DEF ConnInv, FitInv
  <2> QED
    BY <1>1, <2>2, <2>4, <2>5, StoreFits DEF ConnInv
<1> QED
  BY <1>1, <1>3, <1>4 DEF ConnInv, StepInv, FitInv

\* The core replies to the one request it is sent.
LEMMA RepliesKeepsInv == ASSUME ConnInv, CoreReplies PROVE ConnInv'
PROOF
<1>1. PICK r \in Replies[Head(toCore)] :
         toClient' = toClient \o <<HeadOf(r), TailOf(r)>>
  BY DEF CoreReplies, HeadOf, TailOf
<1>2. /\ toCore # << >> /\ toCore' = Tail(toCore)
      /\ UNCHANGED <<stage, mode, asked, broken, answer, missed, entries>>
  BY DEF CoreReplies, vars, cacheVars, exchange
<1>3. StageInv'
  BY <1>2 DEF ConnInv, StageInv
<1>4. ASSUME ~broken
      PROVE  StreamsInStep'
  <2>1. stage = "receiving" /\ toCore = <<asked>> /\ toClient = << >>
    BY <1>2, <1>4 DEF ConnInv, StageInv, StepInv, StreamsInStep
  <2>2. r \in Replies[asked] /\ toClient' = <<HeadOf(r), TailOf(r)>>
        /\ toCore' = << >>
    BY <1>1, <1>2, <2>1
  <2> QED
    BY <1>2, <2>1, <2>2 DEF StreamsInStep
<1>5. FitInv'
  BY <1>2 DEF ConnInv, FitInv, AnswerFits, EntriesFit, Live
<1> QED
  BY <1>2, <1>3, <1>4, <1>5 DEF ConnInv, StepInv

\* Clearing the cache drops entries and nothing else.
LEMMA ClearKeepsInv == ASSUME ConnInv, ClearCache PROVE ConnInv'
PROOF
<1>1. UNCHANGED <<stage, mode, asked, streams, broken, answer, missed>>
  BY DEF ClearCache, Clear, ClearAll, ClearExpired, exchange
<1>2. StageInv'
  BY <1>1 DEF ConnInv, StageInv
<1>3. StepInv'
  BY <1>1 DEF ConnInv, StepInv, StreamsInStep, streams
<1>4. EntriesFit => EntriesFit'
  <2>1. entries' = entries \/ \E kept \in SUBSET Live : entries' = Keep(kept)
    BY DEF ClearCache, Clear, ClearAll, ClearExpired, cacheVars
  <2> QED
    BY <2>1, KeptEntriesFit DEF EntriesFit, Live
<1>5. FitInv'
  BY <1>1, <1>4 DEF ConnInv, FitInv, AnswerFits
<1> QED
  BY <1>2, <1>3, <1>5 DEF ConnInv

\* A connection that is opened again forgets everything.
LEMMA ReopenKeepsInv == ASSUME ConnInv, Reopen PROVE ConnInv'
PROOF
<1>1. /\ stage = "idle" /\ entries' = << >> /\ answer' = NoAnswer
      /\ toCore' = << >> /\ toClient' = << >>
      /\ UNCHANGED <<stage, mode, asked, missed>>
  BY DEF Reopen, exchange
<1>2. StageInv'
  BY <1>1 DEF ConnInv, StageInv
<1>3. StepInv'
  BY <1>1 DEF StepInv, StreamsInStep
<1>4. Live' = {}
  BY <1>1 DEF Live
<1>5. FitInv'
  BY <1>1, <1>4 DEF FitInv, AnswerFits, EntriesFit
<1> QED
  BY <1>2, <1>3, <1>5 DEF ConnInv

\* Every step of the connection keeps the invariant.
LEMMA ConnNextInv == ConnInv /\ [ConnNext]_allVars => ConnInv'
PROOF
<1> SUFFICES ASSUME ConnInv, [ConnNext]_allVars PROVE ConnInv'
  OBVIOUS
<1>1. CASE ConnRequest
  BY <1>1, HitKeepsInv, MissKeepsInv, UncachedKeepsInv DEF ConnRequest
<1>2. CASE ExchangeFails
  BY <1>2, GiveUpKeepsInv DEF ExchangeFails
<1>3. CASE ReadGarbage
  BY <1>3, GiveUpKeepsInv DEF ReadGarbage
<1>4. CASE SendRequest \/ ReadHead \/ ReadTail
  BY <1>4, SendKeepsInv, ReadHeadKeepsInv, ReadTailKeepsInv
<1>5. CASE CoreReplies \/ ClearCache \/ Reopen
  BY <1>5, RepliesKeepsInv, ClearKeepsInv, ReopenKeepsInv
<1>6. CASE Pass \/ UNCHANGED allVars
  <2>1. UNCHANGED <<stage, mode, asked, streams, broken, answer, missed,
                    entries>>
    BY <1>6 DEF Pass, Tick, connVars, exchange, cacheVars, allVars, vars
  <2> QED
    BY <2>1 DEF ConnInv, StageInv, StepInv, StreamsInStep, streams, FitInv,
                AnswerFits, EntriesFit, Live
<1> QED
  BY <1>1, <1>2, <1>3, <1>4, <1>5, <1>6 DEF ConnNext, ConnExchange

\* The invariant holds on every connection, whatever the requests, the replies,
\* the failures and the delays.
THEOREM ConnInvariance == ConnSpec => []ConnInv
PROOF
<1> QED
  BY ConnInitInv, ConnNextInv, PTL DEF ConnSpec

\* Until an exchange fails after its request was sent, every answer and every
\* cache entry is a reply to its own request.
THEOREM ConnCoherence == ConnSpec => []CoherentUnlessBroken
PROOF
<1>1. ConnInv => CoherentUnlessBroken
  BY DEF ConnInv, FitInv, CoherentUnlessBroken
<1> QED
  BY ConnInvariance, <1>1, PTL

-----------------------------------------------------------------------------
(***************************************************************************)
(* The last message.  A response whose id is that of the last message is   *)
(* not unpacked again, so the message is the answer's only because ids     *)
(* tell the responses of the cache apart and none is ever given twice; and *)
(* a hit has one entry to find only because no request has two.            *)
(***************************************************************************)

\* What is on its way, and the count of the responses.
WireInv ==
    /\ responseId \in Nat
    /\ asked \in Request \cup {NoRequest}
    /\ toCore \in Seq(Request) /\ toClient \in Seq(Piece)
    /\ broken \in BOOLEAN

\* No two entries share an id, and the last message is that of the response
\* with its id.
IdInv ==
    /\ ids \in [Live -> 1 .. responseId]
    /\ \A a, b \in Live : ids[a] = ids[b] => a = b
    /\ lastMessage.id \in 0 .. responseId
    /\ ~lastMessage.received => lastMessage.message = NoMessage
    /\ \A a \in Live :
          lastMessage.received /\ ids[a] = lastMessage.id =>
              lastMessage.message = Message[entries[a].response]

MessageInv == WireInv /\ IdInv /\ LastMessageIsCurrent

\* A connection just opened has no message.
LEMMA MessageInitInv == ConnInit => MessageInv
PROOF
<1> SUFFICES ASSUME ConnInit PROVE MessageInv
  OBVIOUS
<1>1. entries = << >> /\ ids = << >> /\ answer = NoAnswer /\ responseId = 0
      /\ lastMessage = NoLastMessage
  BY DEF ConnInit, Init
<1>2. Live = {}
  BY <1>1 DEF Live
<1>3. WireInv
  <2>1. toCore \in Seq(Request) /\ toClient \in Seq(Piece)
    BY EmptySeq DEF ConnInit
  <2>2. responseId \in Nat
    BY <1>1
  <2>3. asked = NoRequest
    BY DEF ConnInit
  <2>4. broken \in BOOLEAN
    BY Zenon DEF ConnInit
  <2> QED
    BY <2>1, <2>2, <2>3, <2>4, Zenon DEF WireInv
<1>5. ids \in [Live -> 1 .. responseId]
  BY <1>1, <1>2
<1>6. IdInv
  BY <1>1, <1>2, <1>5 DEF IdInv, NoLastMessage
<1> QED
  BY <1>1, <1>3, <1>6 DEF MessageInv, LastMessageIsCurrent, NoLastMessage

\* Entries that stay, while others go, keep their requests and their ids.
LEMMA FewerEntriesKeepIds ==
    ASSUME IdInv, NEW kept \in SUBSET Live,
           DOMAIN entries' = kept,
           \A a \in kept : entries'[a] = entries[a],
           ids' = [a \in kept |-> ids[a]],
           responseId' = responseId,
           lastMessage' = lastMessage \/ lastMessage' = NoLastMessage,
           responseId \in Nat
    PROVE  IdInv'
PROOF
<1>1. Live' = kept
  BY DEF Live
<1>3. ids' \in [Live' -> 1 .. responseId'] /\ \A a \in kept : ids'[a] = ids[a]
  BY <1>1 DEF IdInv
<1>4. CASE lastMessage' = lastMessage
  BY <1>1, <1>3, <1>4 DEF IdInv
<1>5. CASE lastMessage' = NoLastMessage
  BY <1>1, <1>3, <1>5 DEF IdInv, NoLastMessage
<1> QED
  BY <1>4, <1>5

\* So do they all while the cache is left alone.
LEMMA SameEntriesKeepIds ==
    ASSUME IdInv, UNCHANGED <<entries, ids, responseId>>,
           lastMessage' = lastMessage \/ lastMessage' = NoLastMessage,
           responseId \in Nat
    PROVE  IdInv'
PROOF
<1>1. ids' = [a \in Live |-> ids[a]]
  BY DEF IdInv
<1>2. DOMAIN entries' = Live
  BY DEF Live
<1> QED
  BY <1>1, <1>2, FewerEntriesKeepIds


\* A request that the cache answers takes the message of the one entry it has.
LEMMA HitKeepsMessage ==
    ASSUME KeysUnique, MessageInv, NEW q \in Request, RequestHit(q)
    PROVE  MessageInv'
PROOF
<1>1. PICK e \in Matches(q) :
         lastMessage' = IF answer' = NoAnswer THEN NoLastMessage
                        ELSE Updated(entries[e].response, ids[e])
  BY DEF RequestHit
<1>2. PICK f \in Matches(q) :
         /\ entries' = Keep(Live \ {a \in Newer(f) : Expired(a)})
         /\ answer' \in {[request |-> q, response |-> entries[f].response,
                          cached |-> TRUE], NoAnswer}
  BY DEF RequestHit, LookupHit
<1>3. e \in Live /\ entries[e].request = q /\ f = e
  BY DEF Matches, KeysUnique
<1> DEFINE kept == Live \ {a \in Newer(e) : Expired(a)}
<1>4. /\ DOMAIN entries' = kept /\ Live' = kept
      /\ \A a \in kept : entries'[a] = entries[a]
      /\ ids' = [a \in kept |-> ids[a]]
      /\ UNCHANGED <<asked, toCore, toClient, broken, responseId>>
  BY <1>2, <1>3 DEF RequestHit, KeepIds, Keep, Live, exchange, streams
<1>5. WireInv'
  BY <1>4 DEF WireInv, MessageInv
<1>6. responseId \in Nat
  BY DEF MessageInv, WireInv
<1>7. CASE lastMessage' = lastMessage \/ lastMessage' = NoLastMessage
  <2>1. IdInv'
    <3> HIDE DEF kept
    <3>1. kept \in SUBSET Live
      BY DEF kept
    <3> QED
      BY <1>4, <1>6, <1>7, <3>1, FewerEntriesKeepIds DEF MessageInv
  <2>2. LastMessageIsCurrent'
    BY <1>1, <1>2, <1>3, <1>7, ValueAssumption
       DEF LastMessageIsCurrent, MessageInv, IdInv, Updated, NoLastMessage
  <2> QED
    BY <1>5, <2>1, <2>2 DEF MessageInv
<1>8. CASE /\ answer' # NoAnswer
           /\ lastMessage' = [received |-> TRUE, id |-> ids[e],
                              message |-> Message[entries[e].response]]
  <2>2. ids' \in [Live' -> 1 .. responseId'] /\ \A a \in kept : ids'[a] = ids[a]
    BY <1>4 DEF IdInv, MessageInv
  <2>3. IdInv'
    BY <1>3, <1>4, <1>6, <1>8, <2>2 DEF IdInv, MessageInv
  <2>4. LastMessageIsCurrent'
    BY <1>2, <1>3, <1>8 DEF LastMessageIsCurrent
  <2> QED
    BY <1>5, <2>3, <2>4 DEF MessageInv
<1> QED
  BY <1>1, <1>7, <1>8 DEF Updated

\* A miss leaves the entries of other requests, and the last message.
LEMMA MissKeepsMessage ==
    ASSUME MessageInv, NEW q \in Request, RequestMiss(q)
    PROVE  MessageInv'
PROOF
<1> DEFINE kept == {a \in Live : ~Expired(a)}
<1>1. /\ DOMAIN entries' = kept
      /\ \A a \in kept : entries'[a] = entries[a]
      /\ ids' = [a \in kept |-> ids[a]]
      /\ asked' = q
      /\ UNCHANGED <<toCore, toClient, broken, responseId, lastMessage, answer>>
  BY DEF RequestMiss, LookupMiss, Begin, KeepIds, Keep, Live, streams
<1>3. WireInv'
  BY <1>1 DEF WireInv, MessageInv
<1>4. IdInv'
  <2> HIDE DEF kept
  <2>1. kept \in SUBSET Live
    BY DEF kept
  <2> QED
    BY <1>1, <2>1, FewerEntriesKeepIds DEF MessageInv, WireInv
<1> QED
  BY <1>1, <1>3, <1>4 DEF MessageInv, LastMessageIsCurrent

\* The steps that leave the cache, the ids, the answer and the last message.
LEMMA WireStepKeepsMessage ==
    ASSUME MessageInv, WireInv',
           UNCHANGED <<entries, ids, responseId, answer, lastMessage>>
    PROVE  MessageInv'
PROOF
<1>1. IdInv'
  BY SameEntriesKeepIds DEF MessageInv, WireInv
<1> QED
  BY <1>1 DEF MessageInv, LastMessageIsCurrent

\* An exchange that is given up leaves neither an answer nor a message.
LEMMA GiveUpKeepsMessage ==
    ASSUME MessageInv, NEW sent \in BOOLEAN, GiveUp(sent), WireInv'
    PROVE  MessageInv'
PROOF
<1>1. /\ UNCHANGED <<entries, ids, responseId>>
      /\ answer' = NoAnswer /\ lastMessage' = NoLastMessage
  BY DEF GiveUp, ReceiveNothing, cacheVars
<1>2. IdInv'
  BY <1>1, SameEntriesKeepIds DEF MessageInv, WireInv
<1> QED
  BY <1>1, <1>2 DEF MessageInv, LastMessageIsCurrent, NoLastMessage

\* What the store does to the entries: none new, or one, of the request missed.
LEMMA StoreAddsOne ==
    ASSUME NEW r \in Response, Store(r), StageInv, stage # "idle"
    PROVE  /\ missed' = NoRequest
           /\ answer' = [request |-> asked, response |-> r, cached |-> FALSE]
           /\ \E kept \in SUBSET Live :
                 /\ \A a \in kept : entries'[a] = entries[a]
                 /\ \/ DOMAIN entries' = kept
                    \/ \E a : /\ a \notin kept /\ DOMAIN entries' = kept \cup {a}
                              /\ missed \in Request
                              /\ entries'[a].request = missed
                              /\ entries'[a].response = r
PROOF
<1>1. CASE mode = "no cache"
  <2>1. /\ answer' = [request |-> asked, response |-> r, cached |-> FALSE]
        /\ UNCHANGED <<entries, missed>>
    BY <1>1 DEF Store, cacheVars
  <2>2. missed = NoRequest
    BY <1>1 DEF StageInv
  <2> QED
    BY <2>1, <2>2 DEF Live
<1>2. CASE mode = "cache"
  <2>1. asked = missed /\ missed \in Request
    BY <1>2 DEF StageInv
  <2>2. CASE ReceiveUncached(r)
    BY <2>1, <2>2 DEF ReceiveUncached, Fresh, Live, cacheVars
  <2>3. CASE ReceiveUnstored(r)
    <3>1. /\ answer' = Fresh(r) /\ missed' = NoRequest
          /\ entries' = Keep(Live \ Evicted(Need(r)))
      BY <2>3 DEF ReceiveUnstored
    <3> QED
      BY <2>1, <3>1 DEF Fresh, Keep
  <2>4. CASE ReceiveCached(r)
    <3>1. /\ answer' = Fresh(r) /\ missed' = NoRequest
      BY <2>4 DEF ReceiveCached
    <3>2. PICK kept \in SUBSET Live, a \in Addr :
             /\ a \notin kept
             /\ entries' = [b \in kept \cup {a} |->
                   IF b = a THEN [request |-> missed, response |-> r,
                                  expires |-> now + Ttl]
                   ELSE entries[b]]
      BY <2>4 DEF ReceiveCached
    <3>3. /\ \A b \in kept : entries'[b] = entries[b]
          /\ a \notin kept /\ DOMAIN entries' = kept \cup {a}
          /\ entries'[a].request = missed /\ entries'[a].response = r
      BY <3>2
    <3> QED
      BY <2>1, <3>1, <3>3 DEF Fresh
  <2> QED
    BY <1>2, <2>2, <2>3, <2>4 DEF Store
<1> QED
  BY <1>1, <1>2 DEF StageInv, Mode

\* A response that is read gets an id no other has, so its message is unpacked;
\* the entries that stay have the requests and the ids they had.
LEMMA ReadTailKeepsMessage ==
    ASSUME StageInv, MissedIsAbsent, MessageInv, ReadTail
    PROVE  MessageInv'
PROOF
<1> DEFINE r == Head(toClient).response
           n == responseId + 1
<1>1. /\ stage # "idle" /\ toClient # << >> /\ toClient' = Tail(toClient)
      /\ Store(r) /\ responseId' = n
      /\ lastMessage' = Updated(r, n)
      /\ ids' = [a \in DOMAIN entries' |->
                    IF a \in Live /\ entries'[a].request # missed THEN ids[a]
                    ELSE n]
      /\ UNCHANGED <<toCore, asked, broken>>
  BY DEF ReadTail, Take
<1>2. r \in Response /\ toClient' \in Seq(Piece)
  <2>1. Head(toClient) \in Piece /\ Tail(toClient) \in Seq(Piece)
    BY <1>1, HeadTailProperties DEF MessageInv, WireInv
  <2> QED
    BY <1>1, <2>1 DEF Piece
<1>3. responseId \in Nat /\ n \in Nat /\ n \notin 0 .. responseId
  BY DEF MessageInv, WireInv
<1>4. WireInv'
  BY <1>1, <1>2, <1>3 DEF MessageInv, WireInv
<1> HIDE DEF r, n
<1>5. PICK kept \in SUBSET Live :
         /\ \A a \in kept : entries'[a] = entries[a]
         /\ \/ DOMAIN entries' = kept
            \/ \E a : /\ a \notin kept /\ DOMAIN entries' = kept \cup {a}
                      /\ missed \in Request
                      /\ entries'[a].request = missed
                      /\ entries'[a].response = r
  BY <1>1, <1>2, StoreAddsOne
<1>6. missed' = NoRequest
      /\ answer' = [request |-> asked, response |-> r, cached |-> FALSE]
  BY <1>1, <1>2, StoreAddsOne
<1>7. \A a \in kept : ids'[a] = ids[a] /\ ids[a] \in 1 .. responseId
  BY <1>1, <1>5 DEF MessageInv, MissedIsAbsent, IdInv
<1>8. /\ lastMessage'.id \in {0, n}
      /\ lastMessage'.message = Message[r]
      /\ ~lastMessage'.received => lastMessage'.message = NoMessage
      /\ lastMessage'.received => lastMessage'.id = n
  BY <1>1, <1>3 DEF Updated, NoLastMessage, MessageInv, IdInv
<1>9. LastMessageIsCurrent'
  <2>1. answer' # NoAnswer
    <3>1. asked \in Request
      BY <1>1 DEF StageInv
    <3>2. answer' \in [request : Request, response : Response, cached : BOOLEAN]
      BY <1>2, <1>6, <3>1
    <3> QED
      BY <3>2, ValueAssumption
  <2> QED
    BY <1>6, <1>8, <2>1 DEF LastMessageIsCurrent
<1>10. IdInv'
  <2>1. CASE DOMAIN entries' = kept
    <3>1. Live' = kept
      BY <2>1 DEF Live
    <3>3. ids' \in [Live' -> 1 .. responseId']
      BY <1>1, <1>3, <1>7, <2>1, <3>1 DEF n
    <3> QED
      BY <1>1, <1>3, <1>5, <1>7, <1>8, <3>1, <3>3 DEF IdInv, MessageInv, n
  <2>2. ASSUME NEW b, b \notin kept, DOMAIN entries' = kept \cup {b},
               missed \in Request,
               entries'[b].request = missed, entries'[b].response = r
        PROVE  IdInv'
    <3>1. Live' = kept \cup {b}
      BY <2>2 DEF Live
    <3>3. ids'[b] = n
      BY <1>1, <2>2
    <3>4. ids' \in [Live' -> 1 .. responseId']
      BY <1>1, <1>3, <1>7, <2>2, <3>1, <3>3 DEF n
    <3>5. \A a, c \in Live' : ids'[a] = ids'[c] => a = c
      BY <1>3, <1>7, <3>1, <3>3 DEF IdInv, MessageInv
    <3>6. \A a \in Live' : ids'[a] = n => a = b
      BY <1>3, <1>7, <3>1
    <3>7. lastMessage'.id \in 0 .. responseId'
      BY <1>1, <1>3, <1>8 DEF n
    <3>8. \A a \in Live' :
             lastMessage'.received /\ ids'[a] = lastMessage'.id =>
                lastMessage'.message = Message[entries'[a].response]
      BY <1>8, <2>2, <3>6
    <3> QED
      BY <1>8, <3>4, <3>5, <3>7, <3>8 DEF IdInv
  <2> QED
    BY <1>5, <2>1, <2>2
<1> QED
  BY <1>4, <1>9, <1>10 DEF MessageInv

\* Clearing the cache, at most, takes entries away.
LEMMA ClearKeepsMessage == ASSUME MessageInv, ClearCache PROVE MessageInv'
PROOF
<1>1. /\ UNCHANGED <<asked, toCore, toClient, responseId, lastMessage, broken,
                     answer>>
      /\ ids' = [a \in DOMAIN entries' |-> ids[a]]
  BY DEF ClearCache, Clear, ClearAll, ClearExpired, exchange, streams, KeepIds
<1>2. WireInv'
  BY <1>1 DEF MessageInv, WireInv
<1>3. entries' = entries \/ \E kept \in SUBSET Live : entries' = Keep(kept)
  BY DEF ClearCache, Clear, ClearAll, ClearExpired, cacheVars
<1>4. PICK kept \in SUBSET Live :
         DOMAIN entries' = kept /\ \A a \in kept : entries'[a] = entries[a]
  BY <1>3 DEF Keep, Live
<1>6. IdInv'
  BY <1>1, <1>4, FewerEntriesKeepIds DEF MessageInv, WireInv
<1> QED
  BY <1>1, <1>2, <1>6 DEF MessageInv, LastMessageIsCurrent

\* A connection that is opened again counts anew, and has no entry left from
\* the count before.
LEMMA ReopenKeepsMessage == ASSUME MessageInv, Reopen PROVE MessageInv'
PROOF
<1>1. /\ entries' = << >> /\ ids' = << >> /\ responseId' = 0
      /\ lastMessage' = NoLastMessage /\ answer' = NoAnswer
      /\ asked' = asked /\ toCore' = << >> /\ toClient' = << >>
      /\ broken' = FALSE
  BY DEF Reopen, exchange
<1>2. Live' = {}
  BY <1>1 DEF Live
<1>3. WireInv'
  <2>1. toCore' \in Seq(Request) /\ toClient' \in Seq(Piece)
    BY <1>1, EmptySeq
  <2>2. broken' \in BOOLEAN
    BY <1>1, Zenon
  <2>3. responseId' \in Nat /\ asked' \in Request \cup {NoRequest}
    BY <1>1 DEF MessageInv, WireInv
  <2> QED
    BY <2>1, <2>2, <2>3, Zenon DEF WireInv
<1>5. ids' \in [Live' -> 1 .. responseId']
  BY <1>1, <1>2
<1>6. IdInv'
  BY <1>1, <1>2, <1>5 DEF IdInv, NoLastMessage
<1> QED
  BY <1>1, <1>3, <1>6 DEF MessageInv, LastMessageIsCurrent, NoLastMessage

\* The wire keeps its types: requests go one way, pieces of replies the other.
LEMMA SendKeepsMessage == ASSUME StageInv, MessageInv, SendRequest PROVE MessageInv'
PROOF
<1>1. /\ asked \in Request /\ toCore' = Append(toCore, asked)
      /\ UNCHANGED <<asked, toClient, responseId, ids, lastMessage, broken,
                     entries, answer>>
  BY DEF SendRequest, StageInv, vars, cacheVars
<1>2. toCore' \in Seq(Request)
  BY <1>1, AppendProperties DEF MessageInv, WireInv
<1>3. WireInv'
  BY <1>1, <1>2 DEF MessageInv, WireInv
<1> QED
  BY <1>1, <1>3, WireStepKeepsMessage

\* The same of what is read.
LEMMA TakeKeepsTypes ==
    ASSUME WireInv, Take, toClient # << >>
    PROVE  toClient' \in Seq(Piece) /\ toCore' \in Seq(Request)
PROOF
  BY HeadTailProperties DEF Take, WireInv

LEMMA ReadHeadKeepsMessage == ASSUME MessageInv, ReadHead PROVE MessageInv'
PROOF
<1>1. /\ Take /\ toClient # << >>
      /\ UNCHANGED <<asked, responseId, ids, lastMessage, broken, entries,
                     answer>>
  BY DEF ReadHead, vars, cacheVars
<1>2. WireInv'
  BY <1>1, TakeKeepsTypes DEF MessageInv, WireInv
<1> QED
  BY <1>1, <1>2, WireStepKeepsMessage

\* The pieces of a reply are put on the wire.
LEMMA RepliesKeepMessage == ASSUME MessageInv, CoreReplies PROVE MessageInv'
PROOF
<1>1. PICK r \in Replies[Head(toCore)] :
         toClient' = toClient \o <<HeadOf(r), TailOf(r)>>
  BY DEF CoreReplies, HeadOf, TailOf
<1>2. /\ toCore # << >> /\ toCore' = Tail(toCore)
      /\ UNCHANGED <<asked, responseId, ids, lastMessage, broken, entries,
                     answer>>
  BY DEF CoreReplies, vars, cacheVars, exchange
<1>3. Head(toCore) \in Request /\ toCore' \in Seq(Request)
  BY <1>2, HeadTailProperties DEF MessageInv, WireInv
<1>4. r \in Response
  BY <1>3, RepliesAssumption
<1>5. <<HeadOf(r), TailOf(r)>> \in Seq(Piece)
  BY <1>4 DEF HeadOf, TailOf, Piece
<1>6. toClient' \in Seq(Piece)
  BY <1>1, <1>5, ConcatProperties DEF MessageInv, WireInv
<1>7. WireInv'
  BY <1>2, <1>3, <1>6 DEF MessageInv, WireInv
<1> QED
  BY <1>2, <1>7, WireStepKeepsMessage

\* Whether or not a piece was taken, an exchange that fails keeps the types.
LEMMA FailureKeepsMessage ==
    ASSUME MessageInv, ExchangeFails \/ ReadGarbage
    PROVE  MessageInv'
PROOF
<1>1. PICK sent \in BOOLEAN : GiveUp(sent)
  BY DEF ExchangeFails, ReadGarbage
<1>2. toClient' \in Seq(Piece) /\ toCore' \in Seq(Request)
  BY TakeKeepsTypes DEF MessageInv, WireInv, ExchangeFails, ReadGarbage, streams
<1>3. asked' = asked /\ responseId' = responseId
  BY <1>1 DEF GiveUp
<1>4. broken' \in BOOLEAN
  BY <1>1, Zenon DEF GiveUp
<1>5. WireInv'
  BY <1>2, <1>3, <1>4, Zenon DEF MessageInv, WireInv
<1> QED
  BY <1>1, <1>5, GiveUpKeepsMessage

\* A request that passes the cache by leaves what was known.
LEMMA UncachedKeepsMessage ==
    ASSUME MessageInv, NEW q \in Request, RequestUncached(q)
    PROVE  MessageInv'
PROOF
<1>1. /\ asked' = q
      /\ UNCHANGED <<toCore, toClient, responseId, ids, lastMessage, broken,
                     entries, answer>>
  BY DEF RequestUncached, Begin, vars, cacheVars, streams
<1>2. WireInv'
  BY <1>1 DEF MessageInv, WireInv
<1> QED
  BY <1>1, <1>2, WireStepKeepsMessage

\* Every step of the connection keeps the message that of the answer.
LEMMA MessageNextInv ==
    StageInv /\ CacheInv /\ MessageInv /\ [ConnNext]_allVars => MessageInv'
PROOF
<1> SUFFICES ASSUME StageInv, CacheInv, MessageInv, [ConnNext]_allVars
             PROVE  MessageInv'
  OBVIOUS
<1>1. CASE ConnRequest
  BY <1>1, HitKeepsMessage, MissKeepsMessage, UncachedKeepsMessage
     DEF ConnRequest, CacheInv
<1>2. CASE ExchangeFails \/ ReadGarbage
  BY <1>2, FailureKeepsMessage
<1>3. CASE SendRequest \/ ReadHead \/ ReadTail
  BY <1>3, SendKeepsMessage, ReadHeadKeepsMessage, ReadTailKeepsMessage DEF CacheInv
<1>4. CASE CoreReplies \/ ClearCache \/ Reopen
  BY <1>4, RepliesKeepMessage, ClearKeepsMessage, ReopenKeepsMessage
<1>5. CASE Pass \/ UNCHANGED allVars
  <2>1. UNCHANGED <<asked, toCore, toClient, responseId, ids, lastMessage, broken,
                    entries, answer>>
    BY <1>5 DEF Pass, Tick, connVars, exchange, streams, cacheVars, allVars, vars
  <2>2. WireInv'
    BY <2>1 DEF MessageInv, WireInv
  <2> QED
    BY <2>1, <2>2, WireStepKeepsMessage
<1> QED
  BY <1>1, <1>2, <1>3, <1>4, <1>5 DEF ConnNext, ConnExchange

-----------------------------------------------------------------------------
(* The cache of a connection. *)

\* The call returns and the cache stays as it is.
OnlyAnswers ==
    /\ answer' \in Answer \cup {NoAnswer}
    /\ UNCHANGED <<now, cacheVars, missed>>

\* The cache is a new one.
StartsAnew ==
    /\ entries' = << >> /\ newer' = {} /\ size' = 0 /\ nextExpiration' = TimeMax
    /\ answer' = NoAnswer
    /\ UNCHANGED <<now, missed>>

\* What a step of the connection is to its cache: a call of the cache, an answer
\* that passes it by, or a new connection.
LEMMA ConnStepOfCache ==
    ASSUME StageInv, WireInv, [ConnNext]_allVars
    PROVE  [Next]_vars \/ OnlyAnswers \/ StartsAnew
PROOF
<1>1. ASSUME NEW q \in Request,
             RequestHit(q) \/ RequestMiss(q) \/ RequestUncached(q)
      PROVE  [Next]_vars
  <2>1. LookupHit(q) \/ LookupMiss(q) \/ UNCHANGED vars
    BY <1>1 DEF RequestHit, RequestMiss, RequestUncached
  <2> QED
    BY <2>1 DEF Next, Lookup
<1>2. ASSUME NEW sent, GiveUp(sent)
      PROVE  [Next]_vars \/ OnlyAnswers
  <2>1. CASE mode = "cache"
    BY <1>2, <2>1 DEF GiveUp, Next, Receive
  <2>2. CASE mode # "cache"
    BY <1>2, <2>2 DEF GiveUp, OnlyAnswers
  <2> QED
    BY <2>1, <2>2
<1>3. CASE ReadTail
  <2> DEFINE r == Head(toClient).response
  <2>1. stage # "idle" /\ toClient # << >> /\ Store(r)
    BY <1>3 DEF ReadTail
  <2>2. r \in Response
    <3>1. Head(toClient) \in Piece
      BY <2>1, HeadTailProperties DEF WireInv
    <3> QED
      BY <3>1 DEF Piece
  <2> HIDE DEF r
  <2>3. CASE ReceiveUncached(r) \/ ReceiveCached(r) \/ ReceiveUnstored(r)
    BY <2>2, <2>3 DEF Next, Receive
  <2>4. CASE /\ answer' = [request |-> asked, response |-> r, cached |-> FALSE]
             /\ UNCHANGED <<now, cacheVars, missed>>
    <3>1. asked \in Request
      BY <2>1 DEF StageInv
    <3>2. answer' \in Answer
      BY <2>2, <2>4, <3>1 DEF Answer
    <3> QED
      BY <2>4, <3>2 DEF OnlyAnswers
  <2> QED
    BY <2>1, <2>3, <2>4 DEF Store
<1>4. CASE SendRequest \/ ReadHead \/ CoreReplies \/ UNCHANGED allVars
  <2>1. UNCHANGED vars
    BY <1>4 DEF SendRequest, ReadHead, CoreReplies, allVars
  <2> QED
    BY <2>1
<1>5. CASE ClearCache \/ Pass
  BY <1>5 DEF ClearCache, Pass, Next
<1>6. CASE Reopen
  BY <1>6 DEF Reopen, StartsAnew
<1>7. CASE ExchangeFails \/ ReadGarbage
  BY <1>2, <1>7 DEF ExchangeFails, ReadGarbage
<1> QED
  BY <1>1, <1>3, <1>4, <1>5, <1>6, <1>7 DEF ConnNext, ConnRequest, ConnExchange

\* So the cache keeps its invariant on a connection.
LEMMA ConnKeepsCache ==
    ASSUME StageInv, WireInv, CacheInv, [ConnNext]_allVars
    PROVE  CacheInv'
PROOF
<1>1. CASE [Next]_vars
  BY <1>1, NextKeepsInv
<1>2. CASE OnlyAnswers
  BY <1>2 DEF OnlyAnswers, cacheVars, CacheInv, TypeOK, ListOrder, KeysUnique,
              NextExpirationIsBound, ExpiresWithinTtl, MissedIsAbsent, Live
<1>3. CASE StartsAnew
  <2>1. Live' = {} /\ IsFiniteSet(Live')
    BY <1>3, FS_EmptySet DEF StartsAnew, Live
  <2>2. entries' \in [Live' -> Entry]
    BY <1>3, <2>1 DEF StartsAnew
  <2>3. TypeOK'
    BY <1>3, <2>1, <2>2, TimeAssumption DEF StartsAnew, CacheInv, TypeOK
  <2> QED
    BY <2>1, <2>3 DEF CacheInv, ListOrder, KeysUnique, NextExpirationIsBound,
                      ExpiresWithinTtl, MissedIsAbsent
<1> QED
  BY <1>1, <1>2, <1>3, ConnStepOfCache

\* Ids tell responses apart, the last message belongs to the one whose id it has,
\* and the cache is as it should be, on every connection.
THEOREM MessageInvariance == ConnSpec => [](CacheInv /\ MessageInv)
PROOF
<1>1. ConnInit => CacheInv /\ MessageInv
  BY InitCacheInv, MessageInitInv DEF ConnInit
<1>2. ConnInv /\ CacheInv /\ MessageInv /\ [ConnNext]_allVars
         => CacheInv' /\ MessageInv'
  BY ConnKeepsCache, MessageNextInv DEF ConnInv, MessageInv
<1> QED
  BY ConnInvariance, <1>1, <1>2, PTL DEF ConnSpec

\* On every connection no request has two entries in the cache, and the bound of
\* the expiration times is one, whatever passes the cache by.
THEOREM ConnCacheSafe == ConnSpec => [](KeysUnique /\ NextExpirationIsBound)
PROOF
<1>1. CacheInv => KeysUnique /\ NextExpirationIsBound
  BY DEF CacheInv
<1> QED
  BY MessageInvariance, <1>1, PTL

\* And the cache stays within the size it was opened with, if copies keep their
\* sizes.
THEOREM ConnCacheBound ==
    ASSUME CopiesKeepSize
    PROVE  ConnSpec => []CacheWithinMaxSize
PROOF
<1>1. ConnInit => SizeInv
  BY InitSizeInv DEF ConnInit
<1>2. ConnInv /\ MessageInv /\ SizeInv /\ [ConnNext]_allVars => SizeInv'
  <2> SUFFICES ASSUME ConnInv, MessageInv, SizeInv, [ConnNext]_allVars
               PROVE  SizeInv'
    OBVIOUS
  <2>1. CacheInv'
    BY ConnKeepsCache DEF ConnInv, MessageInv, SizeInv
  <2>2. CASE [Next]_vars
    BY <2>2, NextKeepsSizeInv
  <2>3. CASE OnlyAnswers
    BY <2>1, <2>3, SameEntriesKeepSize DEF OnlyAnswers, cacheVars, SizeInv
  <2>4. CASE StartsAnew
    <3>1. Live' = {} /\ size' = 0
      BY <2>4 DEF StartsAnew, Live
    <3>2. Bytes(Live)' = {}
      BY <3>1 DEF Bytes
    <3>3. MaxSize \in Nat
      BY SizeAssumption
    <3> QED
      BY <2>1, <3>1, <3>2, <3>3, FS_EmptySet
         DEF SizeInv, SizeIsAccounted, CacheWithinMaxSize
  <2> QED
    BY <2>2, <2>3, <2>4, ConnStepOfCache DEF ConnInv, MessageInv
<1>3. SizeInv => CacheWithinMaxSize
  BY DEF SizeInv
<1> QED
  BY ConnInvariance, MessageInvariance, <1>1, <1>2, <1>3, PTL DEF ConnSpec

\* The last message is that of the last answer, wherever that came from.
THEOREM LastMessageStaysCurrent == ConnSpec => []LastMessageIsCurrent
PROOF
<1>1. MessageInv => LastMessageIsCurrent
  BY DEF MessageInv
<1> QED
  BY MessageInvariance, <1>1, PTL

\* Every variable of a connection keeps its type.
THEOREM ConnTypes == ConnSpec => []ConnTypeOK
PROOF
<1>1. ConnInv /\ MessageInv => ConnTypeOK
  BY Zenon DEF ConnInv, StageInv, MessageInv, WireInv, IdInv, ConnTypeOK
<1> QED
  BY ConnInvariance, MessageInvariance, <1>1, PTL

-----------------------------------------------------------------------------
(* The calls of a client. *)

OwnInv == heap = held /\ heap \in Nat

-----------------------------------------------------------------------------
\* A step of a client is a step of its connection, or leaves it alone.
LEMMA StepRefines == [RequestNext]_requestVars => [ConnNext]_allVars
PROOF
<1> SUFFICES ASSUME [RequestNext]_requestVars PROVE [ConnNext]_allVars
  OBVIOUS
<1>1. ASSUME NEW kind \in Kind, Refuse(kind) PROVE UNCHANGED allVars
  BY <1>1 DEF Refuse
<1>2. ASSUME NEW kind \in Kind, NEW q \in Request, CallHit(q, kind) PROVE ConnNext
  BY <1>2 DEF CallHit, ConnNext, ConnRequest
<1>3. ASSUME NEW kind \in Kind, NEW q \in Request, CallCore(q, kind) PROVE ConnNext
  BY <1>3 DEF CallCore, ConnNext, ConnRequest
<1>4. CASE Exchange
  BY <1>4 DEF Exchange, ConnNext
<1>5. CASE Free
  BY <1>5 DEF Free
<1>6. CASE Other
  BY <1>6 DEF Other, Renew, ConnNext
<1>7. CASE UNCHANGED requestVars
  BY <1>7 DEF requestVars
<1> QED
  BY <1>1, <1>2, <1>3, <1>4, <1>5, <1>6, <1>7 DEF RequestNext, Call

\* The calls of a client make one of the histories of CoreExchange.
THEOREM RequestsAreExchanges == RequestSpec => ConnSpec
PROOF
<1>1. RequestInit => ConnInit
  BY DEF RequestInit
<1>2. [RequestNext]_requestVars => [ConnNext]_allVars
  BY StepRefines
<1> QED
  BY <1>1, <1>2, PTL DEF RequestSpec, ConnSpec

\* Until an exchange fails after its request was sent, what the calls return
\* and what the cache holds are replies to their own requests.
THEOREM RequestCoherence == RequestSpec => []CoherentUnlessBroken
PROOF
  BY RequestsAreExchanges, ConnCoherence, PTL

-----------------------------------------------------------------------------
(* Ownership. *)

\* The end of a call leaves the caller as many responses as it adds.
LEMMA EndKeepsOwned ==
    ASSUME OwnInv, NEW kind, NEW copied \in BOOLEAN, End(kind, copied),
           kind = "first" \/ copied
    PROVE  OwnInv'
PROOF
<1> DEFINE received == answer' # NoAnswer
           One(b) == IF b THEN 1 ELSE 0
<1>1. /\ heap' = heap + One(received /\ copied)
                      - One(received /\ Frees(kind, copied))
      /\ held' = held + One(received /\ kind = "request")
  BY DEF End
<1>2. CASE kind = "request"
  BY <1>1, <1>2 DEF OwnInv, Frees
<1>3. CASE kind = "first"
  BY <1>1, <1>3 DEF OwnInv, Frees
<1>4. CASE kind # "request" /\ kind # "first"
  BY <1>1, <1>4 DEF OwnInv, Frees
<1> QED
  BY <1>2, <1>3, <1>4

\* Every step keeps the balance of the responses.
LEMMA StepKeepsOwned == OwnInv /\ [RequestNext]_requestVars => OwnInv'
PROOF
<1> SUFFICES ASSUME OwnInv, [RequestNext]_requestVars PROVE OwnInv'
  OBVIOUS
<1>1. ASSUME NEW kind \in Kind, Refuse(kind) PROVE OwnInv'
  BY <1>1 DEF Refuse, OwnInv
<1>2. ASSUME NEW kind \in Kind, NEW q \in Request, CallHit(q, kind) PROVE OwnInv'
  <2>1. End(kind, kind # "first") /\ (kind # "first") \in BOOLEAN
    BY <1>2 DEF CallHit
  <2> QED
    BY <2>1, EndKeepsOwned
<1>3. ASSUME NEW kind \in Kind, NEW q \in Request, CallCore(q, kind) PROVE OwnInv'
  BY <1>3 DEF CallCore, OwnInv
<1>4. CASE Exchange
  <2>1. CASE stage' = "idle"
    BY <1>4, <2>1, EndKeepsOwned DEF Exchange
  <2>2. CASE stage' # "idle"
    BY <1>4, <2>2 DEF Exchange, OwnInv
  <2> QED
    BY <2>1, <2>2
<1>5. CASE Free
  BY <1>5 DEF Free, OwnInv
<1>6. CASE Other
  BY <1>6 DEF Other, Renew, callVars, OwnInv
<1>7. CASE UNCHANGED requestVars
  BY <1>7 DEF requestVars, callVars, OwnInv
<1> QED
  BY <1>1, <1>2, <1>3, <1>4, <1>5, <1>6, <1>7 DEF RequestNext, Call

\* No call leaks a response, none frees one that is the cache's.
THEOREM ResponsesStayOwned == RequestSpec => []ResponsesAreOwned
PROOF
<1>1. RequestInit => OwnInv
  BY DEF RequestInit, OwnInv
<1>2. OwnInv /\ [RequestNext]_requestVars => OwnInv'
  BY StepKeepsOwned
<1>3. OwnInv => ResponsesAreOwned
  BY DEF OwnInv, ResponsesAreOwned
<1> QED
  BY <1>1, <1>2, <1>3, PTL DEF RequestSpec

-----------------------------------------------------------------------------
(* Outcomes.  A call looks at the connection's last message, which is that *)
(* of its own response by the invariant of the exchange.                   *)

\* Whatever ends a call, its outcome is of the answer it ends with.
LEMMA EndTellsOfAnswer ==
    ASSUME NEW kind \in Kind, NEW copied, End(kind, copied), call' = kind,
           LastMessageIsCurrent', IdInv'
    PROVE  OutcomeIsOfAnswer'
PROOF
<1> SUFFICES ASSUME kind \in {"send", "first"}, outcome' # "SYSTEM"
             PROVE  /\ answer' # NoAnswer
                    /\ outcome' = IF Message[answer'.response] \in Fatal
                                  THEN "MESSAGE"
                                  ELSE Read[kind][answer'.response]
  BY DEF OutcomeIsOfAnswer
<1>1. outcome' \in Outcomes(kind)
  BY DEF End
<1>2. answer' # NoAnswer
  BY <1>1 DEF Outcomes
<1>3. lastMessage'.message = Message[answer'.response]
  BY <1>2 DEF LastMessageIsCurrent
<1>4. ~lastMessage'.received => lastMessage'.message \notin Fatal
  BY FatalAssumption DEF IdInv
<1>5. Succeeded <=> Message[answer'.response] \notin Fatal
  BY <1>3, <1>4 DEF Succeeded
<1>6. CASE Succeeded
  BY <1>1, <1>2, <1>5, <1>6 DEF Outcomes
<1>7. CASE ~Succeeded
  BY <1>1, <1>2, <1>5, <1>7 DEF Outcomes
<1> QED
  BY <1>2, <1>6, <1>7

OutcomeInv == call \in Kind /\ OutcomeIsOfAnswer

\* Every step keeps the outcome that of the answer.
LEMMA StepKeepsOutcome ==
    OutcomeInv /\ MessageInv' /\ [RequestNext]_requestVars => OutcomeInv'
PROOF
<1> SUFFICES ASSUME OutcomeInv, MessageInv', [RequestNext]_requestVars
             PROVE  OutcomeInv'
  OBVIOUS
<1>0. LastMessageIsCurrent' /\ IdInv'
  BY DEF MessageInv
<1>1. ASSUME NEW kind \in Kind, Refuse(kind) PROVE OutcomeInv'
  BY <1>1 DEF Refuse, OutcomeInv, OutcomeIsOfAnswer
<1>2. ASSUME NEW kind \in Kind, NEW q \in Request, CallHit(q, kind)
      PROVE  OutcomeInv'
  BY <1>0, <1>2, EndTellsOfAnswer DEF CallHit, OutcomeInv
<1>3. ASSUME NEW kind \in Kind, NEW q \in Request, CallCore(q, kind)
      PROVE  OutcomeInv'
  BY <1>3 DEF CallCore, OutcomeInv, OutcomeIsOfAnswer
<1>4. CASE Exchange
  <2>1. CASE stage' = "idle"
    BY <1>0, <1>4, <2>1, EndTellsOfAnswer DEF Exchange, OutcomeInv
  <2>2. CASE stage' # "idle"
    BY <1>4, <2>2 DEF Exchange, OutcomeInv, OutcomeIsOfAnswer
  <2> QED
    BY <2>1, <2>2
<1>5. CASE Free \/ UNCHANGED requestVars
  <2>1. UNCHANGED <<stage, call, outcome, answer>>
    BY <1>5 DEF Free, requestVars, callVars, allVars, vars, connVars, exchange
  <2> QED
    BY <2>1 DEF OutcomeInv, OutcomeIsOfAnswer
<1>6. CASE Other
  <2>1. CASE Renew
    BY <2>1 DEF Renew, OutcomeInv, OutcomeIsOfAnswer
  <2>2. CASE (CoreReplies \/ ClearCache \/ Pass) /\ UNCHANGED callVars
    <3>1. UNCHANGED <<stage, call, outcome, answer>>
      BY <2>2 DEF CoreReplies, ClearCache, Clear, ClearAll, ClearExpired, Pass, Tick,
                  vars, connVars, exchange, callVars
    <3> QED
      BY <3>1 DEF OutcomeInv, OutcomeIsOfAnswer
  <2> QED
    BY <1>6, <2>1, <2>2 DEF Other
<1> QED
  BY <1>1, <1>2, <1>3, <1>4, <1>5, <1>6 DEF RequestNext, Call

\* A call that looks for errors reports those of its own response, all of them
\* and no other's, although it looks in the connection's last message.
THEOREM OutcomeStaysOfAnswer == RequestSpec => []OutcomeIsOfAnswer
PROOF
<1>1. RequestInit => OutcomeInv
  BY DEF RequestInit, OutcomeInv, OutcomeIsOfAnswer, Kind
<1>2. OutcomeInv /\ MessageInv' /\ [RequestNext]_requestVars => OutcomeInv'
  BY StepKeepsOutcome
<1>3. OutcomeInv => OutcomeIsOfAnswer
  BY DEF OutcomeInv
<1>4. RequestSpec => []MessageInv
  BY RequestsAreExchanges, MessageInvariance, PTL
<1> QED
  BY <1>1, <1>2, <1>3, <1>4, PTL DEF RequestSpec
=============================================================================
