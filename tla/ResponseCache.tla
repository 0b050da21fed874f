--------------------------- MODULE ResponseCache ----------------------------
(***************************************************************************)
(* What the cache of a core connection promises, without its list, its     *)
(* sizes and its eviction policy: a partial map from requests to the last  *)
(* answer the core gave to each, with the time it expires.  The cache may  *)
(* forget anything at any moment; it may never answer with a response that *)
(* is not the last one stored for that very request, nor with one that has *)
(* expired, and it asks the core only when it knows no live answer.        *)
(***************************************************************************)
EXTENDS Integers

CONSTANTS Request, Response, Ttl, NoRequest, NoAnswer

VARIABLES
    now,      \* the clock
    known,    \* the answers remembered
    missed,   \* the request the core is being asked
    answer    \* what the last call returned

vars == <<now, known, missed, answer>>

\* the requests with a remembered answer
Known == DOMAIN known

\* known' remembers nothing that known does not.
Forgets ==
    /\ DOMAIN known' \subseteq Known
    /\ \A q \in DOMAIN known' : known'[q] = known[q]

Init ==
    /\ now = 0
    /\ known = << >>
    /\ missed = NoRequest
    /\ answer = NoAnswer

\* A remembered answer, not yet expired, or an error.
Serve(q) ==
    /\ missed = NoRequest
    /\ q \in Known
    /\ known[q].expires >= now
    /\ \/ answer' = [request |-> q, response |-> known[q].response,
                     cached |-> TRUE]
       \/ answer' = NoAnswer
    /\ Forgets
    /\ UNCHANGED <<now, missed>>

\* The core is asked: then nothing is remembered for the request.
Ask(q) ==
    /\ missed = NoRequest
    /\ q \in Known => known[q].expires < now
    /\ missed' = q
    /\ Forgets
    /\ q \notin DOMAIN known'
    /\ UNCHANGED <<now, answer>>

\* The core answers; the answer is remembered for Ttl from now on, or not.
Learn(r) ==
    /\ missed # NoRequest
    /\ answer' = [request |-> missed, response |-> r, cached |-> FALSE]
    /\ missed' = NoRequest
    /\ \/ Forgets
       \/ /\ missed \in DOMAIN known'
          /\ known'[missed] = [response |-> r, expires |-> now + Ttl]
          /\ DOMAIN known' \subseteq Known \cup {missed}
          /\ \A q \in DOMAIN known' \ {missed} : known'[q] = known[q]
    /\ UNCHANGED now

\* The core does not answer.
Fail ==
    /\ missed # NoRequest
    /\ answer' = NoAnswer
    /\ missed' = NoRequest
    /\ UNCHANGED <<now, known>>

Forget == Forgets /\ UNCHANGED <<now, missed, answer>>

Tick == now' = now + 1 /\ UNCHANGED <<known, missed, answer>>

Next ==
    \/ \E q \in Request : Serve(q) \/ Ask(q)
    \/ \E r \in Response : Learn(r)
    \/ Fail \/ Forget \/ Tick

Spec == Init /\ [][Next]_vars
=============================================================================
