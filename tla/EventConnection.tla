--------------------------- MODULE EventConnection ---------------------------
(***************************************************************************)
(* The event connection: the core writes the events it raises, each as a   *)
(* binary XML document, the client takes them one at a time.               *)
(*                                                                         *)
(* The client does as tests/test_core_event.c: it waits for the socket to  *)
(* become readable, then calls for events as long as the connection has    *)
(* some.  What recv() got beyond the end of an event stays in the          *)
(* connection's buffer, where poll() does not see it.  The test ends after *)
(* a call that gave no event, this client may go on; the test takes no     *)
(* more than ten events between two calls of poll(), this client has no    *)
(* such limit.                                                             *)
(*                                                                         *)
(* The stream is cut anywhere between controls, by the kernel, by the      *)
(* buffer and by a call that fails; a cut within a control is left out.    *)
(***************************************************************************)
EXTENDS BinaryXml

CONSTANTS
    Event,        \* the trees the core may raise
    EventName,    \* "event"
    Class,        \* "class"
    RaiseTime,    \* "raise_time"
    Times,        \* the values that sscanf() reads as a time
    BufferSize    \* controls that fit in the connection's buffer

ASSUME BufferAssumption == BufferSize \in Nat \ {0}

ASSUME EventAssumption == (\A e \in Event : IsTree(e)) /\ EventName # ""

VARIABLES
    client,       \* what the client is doing
    unwritten,    \* controls the core has yet to write
    socket,       \* controls in the kernel
    buffer,       \* controls in the connection's buffer
    sent,         \* history: the events raised on this connection
    taken,        \* history: how many of them were read to their end
    got,          \* history: the documents given to the client
    failure       \* history: whether a call failed, and where

streams == <<unwritten, socket, buffer>>
history == <<sent, taken, got>>
vars == <<client, streams, history, failure, readerVars>>

\* A call failed within an event: the rest of it is still to be read.
broken == failure = "within"

-----------------------------------------------------------------------------
(* The core. *)

Raise(e) ==
    /\ sent' = Append(sent, e)
    /\ unwritten' = unwritten \o Store(e)
    /\ UNCHANGED <<client, socket, buffer, taken, got, failure, readerVars>>

\* n controls reach the client's end of the socket.
Write(n) ==
    /\ n \in 1 .. Len(unwritten)
    /\ socket' = socket \o SubSeq(unwritten, 1, n)
    /\ unwritten' = SubSeq(unwritten, n + 1, Len(unwritten))
    /\ UNCHANGED <<client, buffer, history, failure, readerVars>>

-----------------------------------------------------------------------------
(* ndm_core_event_connection_has_events() *)

\* Mutant of HasEvents: only the socket is asked.
HasEventsInSocket == socket # << >>

HasEvents == buffer # << >>

-----------------------------------------------------------------------------
(* ndm_core_event_connection_get() *)

Get ==
    /\ \/ client = "polling" /\ socket # << >>
       \/ client = "looping" /\ HasEvents
    /\ client' = "reading"
    /\ BeginRead
    /\ UNCHANGED <<streams, history, failure>>

LoopEnds ==
    /\ client = "looping" /\ ~HasEvents
    /\ client' = "polling"
    /\ UNCHANGED <<streams, history, failure, readerVars>>

\* What one recv() returns.
Received == IF BufferSize < Len(socket) THEN BufferSize ELSE Len(socket)

\* __ndm_core_buffer_recv_all(): an empty buffer is filled.
Fill ==
    /\ client = "reading"
    /\ buffer = << >> /\ socket # << >>
    /\ buffer' = SubSeq(socket, 1, Received)
    /\ socket' = SubSeq(socket, Received + 1, Len(socket))
    /\ UNCHANGED <<client, unwritten, history, failure, readerVars>>

\* The reader is about to look at a control; node = Null would be the access
\* through a null pointer that ReadsFromNode excludes.
Reading == client = "reading" /\ node # Null /\ buffer # << >>

Take == buffer' = Tail(buffer) /\ UNCHANGED <<unwritten, socket>>

ReadOn ==
    /\ Reading
    /\ ~IsBad(Head(buffer)) /\ ~(Head(buffer).ctrl = "END" /\ Stops)
    /\ ReadControl(Head(buffer))
    /\ Take
    /\ UNCHANGED <<client, history, failure>>

\* The value of a node's first attribute of a name, "" when it has none.
AttrOf(d, i, name) ==
    LET places == {k \in DOMAIN d[i].attrs : d[i].attrs[k].name = name}
    IN IF places = {} THEN "" ELSE d[i].attrs[FirstOf(places)].value

\* The document's first "event" has a class and a time.
IsEvent(d) ==
    LET events == {i \in Children(d, 1) : d[i].name = EventName} IN
    /\ events # {}
    /\ AttrOf(d, FirstOf(events), Class) # ""
    /\ AttrOf(d, FirstOf(events), RaiseTime) \in Times

\* The end of the document: it is an event or it is thrown away.
ReadStops ==
    /\ Reading
    /\ Head(buffer).ctrl = "END" /\ Stops
    /\ Take
    /\ taken' = taken + 1
    /\ got' = IF IsEvent(doc) THEN Append(got, doc) ELSE got
    /\ client' = "looping"
    /\ UNCHANGED <<sent, failure, readerVars>>

Fail ==
    /\ client' = "looping"
    /\ failure' = IF broken \/ ~fresh' THEN "within" ELSE "between"
    /\ UNCHANGED <<history, doc, node, root>>

\* A control that cannot be there; what follows it stays in the stream.
Refuse ==
    /\ Reading
    /\ IsBad(Head(buffer))
    /\ Take
    /\ fresh' = FALSE
    /\ Fail

\* The deadline or an interruption, while the reader waits for a control.
GiveUp ==
    /\ client = "reading" /\ node # Null /\ buffer = << >>
    /\ UNCHANGED <<streams, fresh>>
    /\ Fail

\* ndm_core_event_connection_open(), after _close().
Reopen ==
    /\ client = "polling"
    /\ unwritten' = << >> /\ socket' = << >> /\ buffer' = << >>
    /\ sent' = << >> /\ taken' = 0 /\ got' = << >>
    /\ failure' = "none"
    /\ UNCHANGED <<client, readerVars>>

-----------------------------------------------------------------------------
Init ==
    /\ client = "polling"
    /\ unwritten = << >> /\ socket = << >> /\ buffer = << >>
    /\ sent = << >> /\ taken = 0 /\ got = << >>
    /\ failure = "none"
    /\ doc = << >> /\ node = Null /\ root = Null /\ fresh = TRUE

Core == (\E e \in Event : Raise(e)) \/ (\E n \in 1 .. Len(unwritten) : Write(n))

Client == Get \/ LoopEnds \/ Fill \/ ReadOn \/ ReadStops \/ Refuse

Next == Core \/ Client \/ GiveUp \/ Reopen

Spec == Init /\ [][Next]_vars

-----------------------------------------------------------------------------
(* Properties. *)

TypeOK ==
    /\ client \in {"polling", "reading", "looping"}
    /\ unwritten \in Seq(Control) /\ socket \in Seq(Control)
    /\ buffer \in Seq(Control) /\ Len(buffer) <= BufferSize
    /\ sent \in Seq(Event) /\ taken \in Nat
    /\ got \in Seq(Seq(Node)) /\ failure \in {"none", "between", "within"}
    /\ doc \in Seq(Node) /\ node \in Nat /\ root \in Nat /\ fresh \in BOOLEAN

Flatten(trees) == FlattenSeq([k \in DOMAIN trees |-> Store(trees[k])])

\* Nothing in the stream says where a document ends.  Still, as long as no
\* call failed within an event, the reader stops where the writer did: what
\* is left of the stream is the events that were not yet taken.
StreamAligned ==
    client # "reading" /\ ~broken =>
        buffer \o socket \o unwritten
            = Flatten(SubSeq(sent, taken + 1, Len(sent)))

\* The events among the first k documents.
EventsOf[k \in 0 .. taken] ==
    IF k = 0 THEN << >>
    ELSE IF IsEvent(AsRead(sent[k])) THEN Append(EventsOf[k - 1], AsRead(sent[k]))
    ELSE EventsOf[k - 1]

\* ndm_core_event_connection_get() gives the client the events raised, whole,
\* in their order, and only those that are events.
GotIsSent == ~broken => got = EventsOf[taken]

\* As long as no call fails within an event, the reader stops where the writer
\* did, and the client gets what was raised.
EventsAreWhole == StreamAligned /\ GotIsSent

\* Whatever the stream, what is read is a tree: every parent comes before its
\* children, and no node but the first is without one.
ReadIsTree ==
    \A i \in DOMAIN doc : IF i = 1 THEN doc[i].parent = Null
                          ELSE doc[i].parent \in 1 .. i - 1

\* "Pointer to the received instance of core event if successful, NULL
\* otherwise" (include/ndm/core.h:143): the reader goes from one node to
\* another until it returns.
ReadsFromNode == client = "reading" => node # Null
=============================================================================
