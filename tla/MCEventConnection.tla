-------------------------- MODULE MCEventConnection --------------------------
(***************************************************************************)
(* EventConnection with a few kinds of events, good and bad.               *)
(***************************************************************************)
EXTENDS EventConnection

CONSTANTS
    MaxEvents    \* bound: events raised on a connection

MCName == {"", "event", "class", "raise_time", "x", "y"}
MCValue == {"", "c", "1", "v", "w"}
MCTimes == {"1"}

N(type, name, value, parent) ==
    [type |-> type, name |-> name, value |-> value, attrs |-> << >>,
     parent |-> parent]

Root(attrs, parent) ==
    [type |-> "element", name |-> "event", value |-> "", attrs |-> attrs,
     parent |-> parent]

ClassAttr == [name |-> "class", value |-> "c"]
TimeAttr == [name |-> "raise_time", value |-> "1"]
Both == <<ClassAttr, TimeAttr>>

\* A leaf.
Plain == <<Root(Both, 0)>>

\* Two levels, text, and an inner node that ends with its parent.
Deep == <<Root(Both, 0),
          N("element", "x", "", 1),
          N("data", "", "v", 2),
          N("element", "y", "w", 2)>>

\* A document node, a comment, two texts, a node after an inner one has ended.
Document == <<N("document", "", "", 0),
              N("comment", "", "w", 1),
              Root(Both, 1),
              N("element", "x", "", 3),
              N("data", "", "v", 4),
              N("data", "", "w", 4),
              N("element", "y", "", 3)>>

\* Read to its end, but not an event.
Timeless == <<Root(<<ClassAttr>>, 0)>>

\* Refused where they are: a node without a name, a document within one, an
\* attribute without a name.
Nameless == <<Root(Both, 0), N("element", "", "", 1), N("data", "", "v", 2)>>
Nested == <<Root(Both, 0), N("document", "", "", 1)>>
NamelessAttr == <<Root(<<ClassAttr, [name |-> "", value |-> "1"]>>, 0)>>

AllEvents == {Plain, Deep, Document, Timeless, Nameless, Nested, NamelessAttr}
DeepEvents == {Deep}

Writes == \E n \in 1 .. Len(unwritten) : Write(n)

Raises == Len(sent) < MaxEvents /\ \E e \in Event : Raise(e)

\* A client that goes on after a failure, or closes the connection and opens it
\* again.
MCNext == Raises \/ Writes \/ Client \/ GiveUp \/ Reopen

MCSpec ==
    /\ Init /\ [][MCNext]_vars
    /\ WF_vars(Writes)    \* the core writes what it has raised
    /\ WF_vars(Client)    \* the client's process is scheduled

-----------------------------------------------------------------------------
\* As long as no call fails, every event the core raised is taken, good or bad,
\* although poll() says nothing about those that are in the buffer already.
EventsAreTaken ==
    \A k \in 1 .. MaxEvents :
       Len(sent) >= k ~> taken >= k \/ failure # "none" \/ Len(sent) < k
=============================================================================
