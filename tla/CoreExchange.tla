---------------------------- MODULE CoreExchange ----------------------------
(***************************************************************************)
(* A core connection: requests, the two directions of its socket, the core *)
(* at the other end, the cache (module CoreCache, whose actions are the    *)
(* cache's share of the steps) and the last message.                       *)
(*                                                                         *)
(* A request goes out whole and its reply comes back in two pieces, so     *)
(* that a call may fail before it sends, before the reply comes or between *)
(* its pieces: by the deadline, by an interruption or for want of memory   *)
(* (see CoreIo for when).  Whatever is left of the exchange stays in the   *)
(* socket and in the connection's buffer, together toClient here, for the  *)
(* next exchange.                                                          *)
(***************************************************************************)
EXTENDS CoreCache, Sequences

CONSTANTS
    Replies,      \* Replies[q]: what the core may reply to q
    Message,      \* Message[r]: the message in r, or NoMessage
    NoMessage

ASSUME RepliesAssumption == Replies \in [Request -> SUBSET Response]

Mode == {"cache", "no cache"}

VARIABLES
    stage,         \* how far the exchange under way has come
    asked,         \* its request
    mode,          \* its cache mode
    toCore,        \* requests on their way
    toClient,      \* pieces of replies on their way
    responseId,    \* core->response_id
    ids,           \* response->id of each entry's response
    lastMessage,   \* core->last_message
    broken         \* history: an exchange failed after its request was sent

exchange == <<stage, asked, mode>>
streams == <<toCore, toClient>>
connVars == <<exchange, streams, responseId, ids, lastMessage, broken>>
allVars == <<vars, connVars>>

Piece == [response : Response, part : {"head", "tail"}]

-----------------------------------------------------------------------------
(* The last message. *)

\* __ndm_core_message_init()
NoLastMessage == [received |-> FALSE, id |-> 0, message |-> NoMessage]

\* Mutant of Updated: a response without a message leaves the last one.
UpdatedSticky(response, id) ==
    IF \/ lastMessage.received /\ lastMessage.id = id
       \/ Message[response] = NoMessage
    THEN lastMessage
    ELSE [received |-> TRUE, id |-> id, message |-> Message[response]]

\* __ndm_core_message_update(): the message of a response is unpacked once.
Updated(response, id) ==
    IF lastMessage.received /\ lastMessage.id = id THEN lastMessage
    ELSE IF Message[response] = NoMessage THEN NoLastMessage
    ELSE [received |-> TRUE, id |-> id, message |-> Message[response]]

KeepIds == ids' = [a \in DOMAIN entries' |-> ids[a]]

-----------------------------------------------------------------------------
(* __ndm_core_do_request() *)

\* A response from the cache: nothing is sent.
RequestHit(q) ==
    /\ stage = "idle"
    /\ \E e \in Matches(q) :
          /\ LookupHit(q)
          /\ lastMessage' = IF answer' = NoAnswer THEN NoLastMessage
                            ELSE Updated(entries[e].response, ids[e])
    /\ KeepIds
    /\ UNCHANGED <<exchange, streams, responseId, broken>>

Begin(q, m) ==
    /\ stage' = "sending"
    /\ asked' = q
    /\ mode' = m
    /\ UNCHANGED <<streams, responseId, lastMessage, broken>>

RequestMiss(q) ==
    /\ stage = "idle"
    /\ LookupMiss(q)
    /\ KeepIds
    /\ Begin(q, "cache")

RequestUncached(q) ==
    /\ stage = "idle"
    /\ Begin(q, "no cache")
    /\ UNCHANGED <<vars, ids>>

SendRequest ==
    /\ stage = "sending"
    /\ toCore' = Append(toCore, asked)
    /\ stage' = "receiving"
    /\ UNCHANGED <<vars, asked, mode, toClient, responseId, ids, lastMessage,
                   broken>>

\* The exchange ends without a response; the request may have been sent.
GiveUp(sent) ==
    /\ stage' = "idle"
    /\ IF mode = "cache" THEN ReceiveNothing
       ELSE answer' = NoAnswer /\ UNCHANGED <<now, cacheVars, missed>>
    /\ lastMessage' = NoLastMessage
    /\ broken' = (broken \/ sent)
    /\ UNCHANGED <<asked, mode, responseId, ids>>

ExchangeFails ==
    /\ stage # "idle"
    /\ GiveUp(stage # "sending")
    /\ UNCHANGED streams

Take == toClient' = Tail(toClient) /\ UNCHANGED toCore

\* The first piece read is the beginning of a document.
ReadHead ==
    /\ stage = "receiving" /\ toClient # << >>
    /\ Head(toClient).part = "head"
    /\ Take
    /\ stage' = "reading"
    /\ UNCHANGED <<vars, asked, mode, responseId, ids, lastMessage, broken>>

\* It is the rest of one: no document can be read from there.
ReadGarbage ==
    /\ stage = "receiving" /\ toClient # << >>
    /\ Head(toClient).part = "tail"
    /\ Take
    /\ GiveUp(TRUE)

Store(r) ==
    \/ /\ mode = "cache"
       /\ ReceiveUncached(r) \/ ReceiveCached(r) \/ ReceiveUnstored(r)
    \/ /\ mode = "no cache"
       /\ answer' = [request |-> asked, response |-> r, cached |-> FALSE]
       /\ UNCHANGED <<now, cacheVars, missed>>

\* Mutant of ReadTail: responses are not numbered.
ReadTailUnnumbered ==
    /\ stage = "reading" /\ toClient # << >>
    /\ LET r == Head(toClient).response IN
       /\ Take
       /\ Store(r)
       /\ UNCHANGED responseId
       /\ lastMessage' = Updated(r, responseId)
       /\ ids' = [a \in DOMAIN entries' |->
                     IF a \in Live /\ entries'[a].request # missed THEN ids[a]
                     ELSE responseId]
       /\ stage' = "idle"
    /\ UNCHANGED <<asked, mode, broken>>

\* The response is complete: it is numbered, offered to the cache and its
\* message unpacked.
ReadTail ==
    /\ stage = "reading" /\ toClient # << >>
    /\ LET r == Head(toClient).response IN
       /\ Take
       /\ Store(r)
       /\ responseId' = responseId + 1
       /\ lastMessage' = Updated(r, responseId')
       /\ ids' = [a \in DOMAIN entries' |->
                     IF a \in Live /\ entries'[a].request # missed THEN ids[a]
                     ELSE responseId']
       /\ stage' = "idle"
    /\ UNCHANGED <<asked, mode, broken>>

-----------------------------------------------------------------------------
\* The core takes the requests in their order and replies to each.
CoreReplies ==
    /\ toCore # << >>
    /\ toCore' = Tail(toCore)
    /\ \E r \in Replies[Head(toCore)] :
          toClient' = toClient \o <<[response |-> r, part |-> "head"],
                                    [response |-> r, part |-> "tail"]>>
    /\ UNCHANGED <<vars, exchange, responseId, ids, lastMessage, broken>>

\* ndm_core_cache_clear()
ClearCache ==
    /\ stage = "idle"
    /\ Clear
    /\ KeepIds
    /\ UNCHANGED <<exchange, streams, responseId, lastMessage, broken>>

\* Mutant of Reopen: the entries outlive the connection that learned them.
ReopenKeeping ==
    /\ stage = "idle"
    /\ answer' = NoAnswer
    /\ toCore' = << >> /\ toClient' = << >>
    /\ responseId' = 0 /\ lastMessage' = NoLastMessage
    /\ broken' = FALSE
    /\ UNCHANGED <<now, cacheVars, missed, exchange, ids>>

\* ndm_core_close() and ndm_core_open() again: a socket and a cache anew.
Reopen ==
    /\ stage = "idle"
    /\ entries' = << >> /\ newer' = {} /\ size' = 0 /\ nextExpiration' = TimeMax
    /\ answer' = NoAnswer
    /\ toCore' = << >> /\ toClient' = << >>
    /\ responseId' = 0 /\ ids' = << >> /\ lastMessage' = NoLastMessage
    /\ broken' = FALSE
    /\ UNCHANGED <<now, missed, exchange>>

Pass == Tick /\ UNCHANGED connVars

-----------------------------------------------------------------------------
ConnInit ==
    /\ Init
    /\ stage = "idle" /\ asked = NoRequest /\ mode = "no cache"
    /\ toCore = << >> /\ toClient = << >>
    /\ responseId = 0 /\ ids = << >> /\ lastMessage = NoLastMessage
    /\ broken = FALSE

ConnRequest ==
    \E q \in Request : RequestHit(q) \/ RequestMiss(q) \/ RequestUncached(q)

ConnExchange ==
    SendRequest \/ ExchangeFails \/ ReadHead \/ ReadGarbage \/ ReadTail

ConnNext ==
    ConnRequest \/ ConnExchange \/ CoreReplies \/ ClearCache \/ Reopen \/ Pass

ConnSpec == ConnInit /\ [][ConnNext]_allVars

-----------------------------------------------------------------------------
(* Properties. *)

ConnTypeOK ==
    /\ stage \in {"idle", "sending", "receiving", "reading"}
    /\ asked \in Request \cup {NoRequest} /\ mode \in Mode
    /\ (stage # "idle" /\ mode = "cache") <=> missed # NoRequest
    /\ missed # NoRequest => asked = missed
    /\ toCore \in Seq(Request) /\ toClient \in Seq(Piece)
    /\ responseId \in Nat /\ ids \in [Live -> 1 .. responseId]
    /\ lastMessage.id \in 0 .. responseId
    /\ broken \in BOOLEAN

\* A response is the reply to its request.
AnswerFits ==
    answer # NoAnswer => answer.response \in Replies[answer.request]

EntriesFit == \A a \in Live : entries[a].response \in Replies[entries[a].request]

\* Nothing numbers the replies on the wire; still, on a connection on which no
\* exchange failed once its request was sent, every answer and every entry of
\* the cache is a reply to its own request.
CoherentUnlessBroken == ~broken => AnswerFits /\ EntriesFit

\* ndm_core_last_message_*() speak of the last answer, from the cache or not,
\* although the message of a response is not unpacked again when the id of the
\* response is that of the last message.
LastMessageIsCurrent ==
    IF answer = NoAnswer THEN ~lastMessage.received
    ELSE lastMessage.message = Message[answer.response]
=============================================================================
