--------------------------- MODULE MCCoreRequest ----------------------------
(***************************************************************************)
(* CoreRequest on small instances: a command with a plain reply and one    *)
(* that carries an error, a command whose reply has a message and is       *)
(* continued, and commands that cannot be built.                           *)
(***************************************************************************)
EXTENDS CoreRequest, TLC

CONSTANTS
    r1, e1, e2,   \* replies; e1 and e2 have messages, that of e1 is an error
    Horizon,      \* bound: the clock stops here
    MaxId,        \* bound: responses per connection
    MaxStale,     \* bound: requests, or pieces, left in the socket
    MaxHeld       \* bound: responses the client has not freed

Command(type, args, odd) == [type |-> type, args |-> args, odd |-> odd]

NameAttr == <<"@", "n", "a", "m", "e">>

plain == Command("parse", << <<"@", "i", "d", "x">> >>, FALSE)
executed == Command("execute", << <<"a">>, <<"@", "b">> >>, FALSE)
unbuilt ==
    {Command("none", << >>, FALSE),
     Command("config", << <<"a">> >>, TRUE),
     Command("parse", << <<"a">> >>, FALSE),
     Command("execute", << <<"@", "x", "y", "z", "n", "a", "m", "e">> >>, FALSE)}

MCRequest == {plain, executed} \cup unbuilt
NamedRequest == {plain, Command("execute", <<NameAttr>>, FALSE)}

MCResponse == {r1, e1, e2}
MCContinued == {e2}
MCReplies == [q \in Request |-> IF q = plain THEN {r1, e1} ELSE {e2}]
MCMessage == [r \in MCResponse |-> IF r = r1 THEN NoMessage ELSE r]
MCFatal == {e1}
MCRead == [kind \in Kind |-> [r \in MCResponse |->
              IF kind = "first" /\ r # r1 THEN "NOT_FOUND" ELSE "OK"]]
MCRequestSize == [q \in Request |-> 1]
MCResponseSize == [r \in MCResponse |-> 0]

Symmetry == Permutations(Addr)

Bounded ==
    /\ responseId < MaxId
    /\ Len(toCore) <= MaxStale
    /\ Len(toClient) <= MaxStale
    /\ held < MaxHeld

MCNext ==
    \/ Bounded /\ Call
    \/ Exchange
    \/ Free
    \/ Other /\ now' <= Horizon

MCSpec == RequestInit /\ [][MCNext]_requestVars
=============================================================================
