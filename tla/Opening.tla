------------------------------ MODULE Opening -------------------------------
(***************************************************************************)
(* Opening and closing connections to the core: ndm_core_open(),           *)
(* ndm_core_close() and their counterparts for events, called by threads   *)
(* of a program that has descriptors of its own.  A call that fails gives  *)
(* back what it has so far; a descriptor is a number that anybody's next   *)
(* one may have again.                                                     *)
(***************************************************************************)
EXTENDS Integers

CONSTANTS
    Core,       \* connections that are opened with ndm_core_open()
    Events,     \* and with ndm_core_event_connection_open()
    Fd,         \* descriptors of the program
    Program,    \* who has a descriptor that is no connection's
    Nobody

Conn == Core \cup Events

ASSUME ConnAssumption ==
    /\ Core \cap Events = {} /\ Fd \subseteq Nat
    /\ Program # Nobody /\ {Program, Nobody} \cap Conn = {}

VARIABLES
    openPc,     \* where the call for each connection is; "closed": there is none
    fd,         \* its descriptor, or what malloc() left there
    agent,      \* the copy of the agent's name is allocated
    owner,      \* who has each descriptor
    strays      \* descriptors that a call closed and nobody gave it

openVars == <<openPc, fd, agent, owner, strays>>

OpenGoes(c, to) == openPc' = [openPc EXCEPT ![c] = to]

OpeningInit ==
    /\ openPc = [c \in Conn |-> "closed"] /\ fd = [c \in Conn |-> -1]
    /\ agent = [c \in Conn |-> FALSE] /\ owner = [f \in Fd |-> Nobody]
    /\ strays = {}

\* The lowest free descriptor, if there is one.
Lowest == LET free == {f \in Fd : owner[f] = Nobody}
         IN {f \in free : \A g \in free : f <= g}

-----------------------------------------------------------------------------
\* malloc(): what it gives is not initialized, the descriptor neither.
Allocate(c) ==
    /\ openPc[c] = "closed"
    /\ OpenGoes(c, IF c \in Core THEN "agent" ELSE "socket")
    /\ \E garbage \in Fd \cup {-1} : fd' = [fd EXCEPT ![c] = garbage]
    /\ UNCHANGED <<agent, owner, strays>>

CopyAgent(c) ==
    /\ openPc[c] = "agent"
    /\ \/ OpenGoes(c, "failed") /\ UNCHANGED agent
       \/ OpenGoes(c, "socket") /\ agent' = [agent EXCEPT ![c] = TRUE]
    /\ UNCHANGED <<fd, owner, strays>>

Socket(c) ==
    /\ openPc[c] = "socket"
    /\ \/ OpenGoes(c, "failed") /\ fd' = [fd EXCEPT ![c] = -1] /\ UNCHANGED owner
       \/ \E f \in Lowest :
             /\ OpenGoes(c, "connect") /\ fd' = [fd EXCEPT ![c] = f]
             /\ owner' = [owner EXCEPT ![f] = c]
    /\ UNCHANGED <<agent, strays>>

\* Mutant of CloseHere: the descriptor is kept after it was closed.
CloseHereOnly(c) ==
    /\ owner' = IF c \in Core THEN [owner EXCEPT ![fd[c]] = Nobody] ELSE owner
    /\ UNCHANGED fd

\* ndm_core_open() closes the socket and forgets it.
CloseHere(c) ==
    IF c \in Core
    THEN /\ owner' = [owner EXCEPT ![fd[c]] = Nobody]
         /\ fd' = [fd EXCEPT ![c] = -1]
    ELSE UNCHANGED <<owner, fd>>

\* connect() to the core, which may not be there.  (Its path is short enough.)
Connect(c) ==
    /\ openPc[c] = "connect"
    /\ \/ OpenGoes(c, "open") /\ UNCHANGED <<fd, owner>>
       \/ OpenGoes(c, "failed") /\ CloseHere(c)
    /\ UNCHANGED <<agent, strays>>

\* close() of any number: the descriptor of whoever has it now.
Close(c, f) ==
    /\ owner' = [g \in Fd |-> IF g = f THEN Nobody ELSE owner[g]]
    /\ strays' = IF f \in Fd /\ owner[f] \notin {c, Nobody} THEN strays \cup {f} ELSE strays

\* What is left of a call that failed: ndm_core_close(), which closes nothing that
\* is negative, or close() whatever the descriptor is.
CloseFailed(c) ==
    /\ openPc[c] = "failed" /\ OpenGoes(c, "closed")
    /\ IF c \in Core /\ fd[c] < 0 THEN UNCHANGED <<owner, strays>> ELSE Close(c, fd[c])
    /\ agent' = [agent EXCEPT ![c] = FALSE] /\ UNCHANGED fd

\* ndm_core_close(), ndm_core_event_connection_close(): the caller's pointer is NULL
\* afterwards, and closing it once more does nothing.
CloseConnection(c) ==
    /\ openPc[c] = "open" /\ OpenGoes(c, "closed")
    /\ Close(c, fd[c])
    /\ agent' = [agent EXCEPT ![c] = FALSE] /\ UNCHANGED fd

\* External: the program opens and closes files.
ProgramOpens ==
    /\ \E f \in Lowest : owner' = [owner EXCEPT ![f] = Program]
    /\ UNCHANGED <<openPc, fd, agent, strays>>

ProgramCloses ==
    /\ \E f \in Fd : owner[f] = Program /\ owner' = [owner EXCEPT ![f] = Nobody]
    /\ UNCHANGED <<openPc, fd, agent, strays>>

OpeningNext ==
    \/ \E c \in Conn : \/ Allocate(c) \/ CopyAgent(c) \/ Socket(c) \/ Connect(c)
                       \/ CloseFailed(c) \/ CloseConnection(c)
    \/ ProgramOpens \/ ProgramCloses

OpeningSpec == OpeningInit /\ [][OpeningNext]_openVars

-----------------------------------------------------------------------------
\* The connections that have a descriptor, and which.
Has(c, f) ==
    /\ fd[c] = f
    /\ openPc[c] \in {"connect", "open"} \/ (openPc[c] = "failed" /\ c \in Events)

Owned == \A f \in Fd, c \in Conn : owner[f] = c <=> Has(c, f)

\* A call for a core's connection that could not copy the agent's name
CopyFailed(c) == c \in Core /\ openPc[c] = "failed" /\ ~agent[c]

\* No descriptor leaks and none is closed that is somebody else's, in whatever
\* order threads open, fail and close, until a call for a core's connection
\* fails to copy the agent's name: it closes the number that malloc() left.
DescriptorsAreOwned ==
    /\ [](strays = {} => Owned)
    /\ [][strays' # strays => strays # {} \/ \E c \in Conn : CopyFailed(c)]_openVars
=============================================================================
