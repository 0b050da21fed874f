---------------------------- MODULE CoreRequest -----------------------------
(***************************************************************************)
(* The calls a client makes on a core connection: what request they build, *)
(* what they make of the answer, and whose the response is afterwards.     *)
(*                                                                         *)
(*   "request"  ndm_core_request(), _get_help(), _continue(), _break():    *)
(*              the response is the caller's, to be freed by it            *)
(*   "send"     ndm_core_request_send(): an outcome                        *)
(*   "first"    ndm_core_request_first_*(): an outcome and a value, taken  *)
(*              from the response in the cache itself where there is one   *)
(*   "ask"      ndm_core_find_command(), _authenticate(), _request_break() *)
(*                                                                         *)
(* The exchange under each of them is that of CoreExchange.                *)
(***************************************************************************)
EXTENDS CoreExchange

CONSTANTS
    Fatal,    \* the messages of type "error" or "critical"
    Read      \* Read[kind][r]: what a call of that kind makes of response r

Kind == {"request", "send", "first", "ask"}

\* The outcomes of enum ndm_core_response_error_t: "SYSTEM" stands for NULL and
\* for false, too.
Result == {"OK", "SYNTAX", "FORMAT", "NOT_FOUND", "BUFFER_SIZE", "SYSTEM"}

ASSUME ReadAssumption == Read \in [Kind -> [Response -> Result]]

ASSUME FatalAssumption == NoMessage \notin Fatal

VARIABLES
    call,       \* the kind of the call under way, or of the last one
    outcome,    \* what that one returned
    heap,       \* responses allocated that are not in the cache
    held        \* responses that the client has to free

callVars == <<call, outcome, heap, held>>
requestVars == <<allVars, callVars>>

-----------------------------------------------------------------------------
(* __ndm_core_request(): the request is [type, args, odd], args the names of *)
(* its arguments and odd whether the last one is without a value.            *)

\* sizeof(NDM_CORE_REQUEST_ATTR_PREFIX_), the size of a character constant
SizeofPrefix == 4

IsAttr(name) == name # << >> /\ Head(name) = "@"

\* The reserved "name", as the code looks for it.  Of a name shorter than that
\* it compares what lies behind it in memory: the request may be refused then,
\* too (see Refuse).
MayPass(name) ==
    SubSeq(name, SizeofPrefix + 1, Len(name)) # <<"n", "a", "m", "e">>

\* Requests are sent only if they can be built.
Builds(q) ==
    /\ q.type \in {"config", "execute", "parse"}
    /\ ~q.odd
    /\ \A k \in DOMAIN q.args :
          IF IsAttr(q.args[k]) THEN MayPass(q.args[k]) ELSE q.type # "parse"

\* EINVAL, or ENOMEM at any node: nothing is sent, and the last message
\* remains that of the call before.
Refuse(kind) ==
    /\ stage = "idle"
    /\ call' = kind /\ outcome' = "refused"
    /\ UNCHANGED <<allVars, heap, held>>

-----------------------------------------------------------------------------
(* The end of a call, together with the step of the exchange that ends it.  *)

\* __ndm_core_request_succeeded()
Succeeded == ~(lastMessage'.received /\ lastMessage'.message \in Fatal)

Outcomes(kind) ==
    IF answer' = NoAnswer THEN {"SYSTEM"}
    ELSE IF kind \in {"send", "first"} /\ ~Succeeded THEN {"MESSAGE"}
    ELSE {Read[kind][answer'.response]}
         \cup (IF kind = "first" THEN {"SYSTEM"} ELSE {})   \* ndm_string_dup()

\* Mutant of Frees: nothing that was cached is freed.
FreesUncached(kind, copied) == kind # "request" /\ mode = "no cache"

\* The call frees the response, if that is its own.
Frees(kind, copied) == kind # "request" /\ (kind = "first" => copied)

End(kind, copied) ==
    LET received == answer' # NoAnswer
        One(b) == IF b THEN 1 ELSE 0
    IN /\ outcome' \in Outcomes(kind)
       /\ heap' = heap + One(received /\ copied)
                       - One(received /\ Frees(kind, copied))
       /\ held' = held + One(received /\ kind = "request")

-----------------------------------------------------------------------------
\* The cache has the response: ndm_core_request_first_*() look at that one, the
\* other calls have a copy made, for which there may be no memory.
CallHit(q, kind) ==
    /\ Builds(q)
    /\ kind \in {"request", "first"}
    /\ RequestHit(q)
    /\ kind = "first" => answer' # NoAnswer
    /\ call' = kind
    /\ End(kind, kind # "first")

\* The core is to be asked.
CallCore(q, kind) ==
    /\ Builds(q)
    /\ \/ RequestUncached(q)
       \/ kind \in {"request", "first"} /\ RequestMiss(q)
    /\ call' = kind /\ outcome' = "none"
    /\ UNCHANGED <<heap, held>>

\* A step of the exchange; with the last one the call returns, and a response
\* it has received is not the one in the cache.
Exchange ==
    /\ ConnExchange
    /\ call' = call
    /\ IF stage' = "idle" THEN End(call, TRUE)
       ELSE UNCHANGED <<outcome, heap, held>>

\* ndm_core_response_free() by the client
Free ==
    /\ stage = "idle" /\ held > 0
    /\ held' = held - 1 /\ heap' = heap - 1
    /\ UNCHANGED <<allVars, call, outcome>>

\* The client's own responses outlive the connection.
Renew == Reopen /\ outcome' = "none" /\ UNCHANGED <<call, heap, held>>

Other ==
    \/ Renew
    \/ (CoreReplies \/ ClearCache \/ Pass) /\ UNCHANGED callVars

-----------------------------------------------------------------------------
RequestInit ==
    /\ ConnInit
    /\ call = "send" /\ outcome = "none" /\ heap = 0 /\ held = 0

Call ==
    \E kind \in Kind :
       \/ Refuse(kind)
       \/ \E q \in Request : CallHit(q, kind) \/ CallCore(q, kind)

RequestNext == Call \/ Exchange \/ Free \/ Other

RequestSpec == RequestInit /\ [][RequestNext]_requestVars

-----------------------------------------------------------------------------
(* Properties. *)

RequestTypeOK ==
    /\ call \in Kind
    /\ outcome \in Result \cup {"none", "refused", "MESSAGE"}
    /\ heap \in Nat /\ held \in Nat

\* Between calls the responses outside the cache are those the client has to
\* free: no call leaks one, and none frees one that is the cache's, wherever
\* its answer came from and whatever failed.
ResponsesAreOwned == stage = "idle" => heap = held

\* ndm_core_request_send() and _first_*() look for errors in the connection's
\* last message, not in their response.  They report one when, and only when,
\* their own response has it.
OutcomeIsOfAnswer ==
    stage = "idle" /\ call \in {"send", "first"}
    /\ outcome \notin {"none", "refused", "SYSTEM"} =>
        /\ answer # NoAnswer
        /\ outcome = IF Message[answer.response] \in Fatal THEN "MESSAGE"
                     ELSE Read[call][answer.response]

\* ndm_core_find_command(): "true if completed successfully and found contains
\* the search result" (include/ndm/core.h:318).
FoundIsOfCommand ==
    stage = "idle" /\ call = "ask" /\ outcome = "OK" => AnswerFits
=============================================================================
