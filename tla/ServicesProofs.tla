--------------------------- MODULE ServicesProofs ---------------------------
(***************************************************************************)
(* What holds of the services around the core, for any number of threads   *)
(* and connections: a report of ndm_spawn_process() is true, every         *)
(* descriptor is its owner's, a new program is executed with the           *)
(* environment that is meant, a feedback that succeeds was told whole, the *)
(* accessors of a response answer with what their path means, and a        *)
(* command is split into the arguments that it has.                        *)
(***************************************************************************)
EXTENDS Spawn, StrArg, Opening, Environment, Feedback, ResponsePath, FiniteSetTheorems,
        WellFoundedInduction, TLAPS

-----------------------------------------------------------------------------
(***************************************************************************)
(* Spawning.  The invariant says why an end of file means that the program *)
(* runs: as long as a child can still fail, it holds the writing end of    *)
(* its own pipe, whoever else holds it, and once it has failed its error   *)
(* is in the pipe.                                                         *)
(***************************************************************************)

Stages == {"pipe", "prepare", "fork", "close", "read", "returned"}
Working == {"forked", "executing", "failing"}
Over == {"running", "finished", "killed", "silent"}
Ends == Caller \X {"read", "write"}

SpawnTypeOK ==
    /\ pc \in [Caller -> Stages]
    /\ child \in [Caller -> {"none", "told", "reaped"} \cup Working \cup Over]
    /\ fds \subseteq Ends /\ inherited \in [Caller -> SUBSET Ends] /\ cloexec \subseteq Ends
    /\ pipe \in [Caller -> {"empty", "errno"}]
    /\ result \in [Caller -> {"none", "failed", "errno", "EINTR", "child"}]

\* What a caller knows of its child where it is
InStep(c) ==
    /\ pc[c] \in {"pipe", "prepare", "fork"} => child[c] = "none"
    /\ pc[c] \in {"close", "read"} => child[c] \in {"told"} \cup Working \cup Over
    /\ pc[c] \in {"prepare", "fork"} => Writes(c) \in fds
    /\ pc[c] # "returned" => result[c] = "none"

\* The child that can still fail can tell.
CanTell(c) == child[c] \in Working => Writes(c) \in inherited[c]
IsTold(c) == child[c] = "told" => pipe[c] = "errno"

Reported(c) ==
    pc[c] = "returned" =>
       \/ result[c] = "child" /\ child[c] \in Over
       \/ result[c] \in {"failed", "errno", "EINTR"} /\ child[c] \in {"none", "reaped"}

SpawnInv ==
    /\ SpawnTypeOK
    /\ \A c \in Caller : InStep(c) /\ CanTell(c) /\ IsTold(c) /\ Reported(c)

-----------------------------------------------------------------------------
LEMMA EndsAreApart ==
    /\ \A c \in Caller : Reads(c) \in Ends /\ Writes(c) \in Ends
    /\ \A c, d \in Caller : Writes(c) # Reads(d) /\ (Writes(c) = Writes(d) => c = d)
PROOF
  BY DEF Reads, Writes, Ends

LEMMA InitIsTrue == SpawnInit => SpawnInv
PROOF
  BY DEF SpawnInit, SpawnInv, SpawnTypeOK, Stages, Working, InStep, CanTell, IsTold,
     Reported

LEMMA PipeKeeps == ASSUME SpawnInv, NEW c \in Caller, Pipe(c) PROVE SpawnInv'
PROOF
<1>1. SpawnTypeOK'
  BY EndsAreApart DEF SpawnInv, SpawnTypeOK, Stages, Pipe, Goes, Returns
<1>2. \A d \in Caller : InStep(d)' /\ CanTell(d)' /\ IsTold(d)' /\ Reported(d)'
  BY DEF SpawnInv, SpawnTypeOK, Stages, Working, InStep, CanTell, IsTold, Reported,
     Pipe, Goes, Returns
<1> QED
  BY <1>1, <1>2 DEF SpawnInv

LEMMA PrepareKeeps == ASSUME SpawnInv, NEW c \in Caller, Prepare(c) PROVE SpawnInv'
PROOF
<1>1. SpawnTypeOK'
  BY EndsAreApart DEF SpawnInv, SpawnTypeOK, Stages, Prepare, Goes, Returns
<1>2. \A d \in Caller : InStep(d)' /\ CanTell(d)' /\ IsTold(d)' /\ Reported(d)'
  BY DEF SpawnInv, SpawnTypeOK, Stages, Working, InStep, CanTell, IsTold, Reported,
     Prepare, Goes, Returns
<1> QED
  BY <1>1, <1>2 DEF SpawnInv

LEMMA ForkKeeps == ASSUME SpawnInv, NEW c \in Caller, Fork(c) PROVE SpawnInv'
PROOF
<1>1. SpawnTypeOK'
  BY DEF SpawnInv, SpawnTypeOK, Stages, Working, Fork, Goes, Returns
<1>2. \A d \in Caller : InStep(d)' /\ CanTell(d)' /\ IsTold(d)' /\ Reported(d)'
  BY DEF SpawnInv, SpawnTypeOK, Stages, Working, Over, InStep, CanTell, IsTold,
     Reported,
     Fork, Goes, Returns
<1> QED
  BY <1>1, <1>2 DEF SpawnInv

LEMMA CloseWritingKeeps ==
    ASSUME SpawnInv, NEW c \in Caller, CloseWriting(c) PROVE SpawnInv'
PROOF
<1>1. SpawnTypeOK'
  BY DEF SpawnInv, SpawnTypeOK, Stages, CloseWriting, Goes
<1>2. \A d \in Caller : InStep(d)' /\ CanTell(d)' /\ IsTold(d)' /\ Reported(d)'
  BY EndsAreApart
  DEF SpawnInv, SpawnTypeOK, Stages, Working, InStep, CanTell, IsTold, Reported,
      CloseWriting, Goes
<1> QED
  BY <1>1, <1>2 DEF SpawnInv

\* A child that is killed and waited for may be reported as an error.
LEMMA EndedKeeps ==
    ASSUME SpawnInv, NEW c \in Caller, NEW r \in {"errno", "EINTR"}, Ended(c, r),
           pipe' = pipe \/ pipe' = [pipe EXCEPT ![c] = "empty"], UNCHANGED cloexec
    PROVE  SpawnInv'
PROOF
<1>1. SpawnTypeOK'
  BY DEF SpawnInv, SpawnTypeOK, Stages, Ended, Goes, Returns
<1>2. \A d \in Caller : InStep(d)' /\ CanTell(d)' /\ IsTold(d)' /\ Reported(d)'
  BY EndsAreApart
  DEF SpawnInv, SpawnTypeOK, Stages, Working, InStep, CanTell, IsTold, Reported,
      Ended, Goes, Returns
<1> QED
  BY <1>1, <1>2 DEF SpawnInv

\* The end of the file: nobody can write any more, the child neither.
LEMMA ReadEndKeeps == ASSUME SpawnInv, NEW c \in Caller, ReadEnd(c) PROVE SpawnInv'
PROOF
<1>1. SpawnTypeOK'
  BY DEF SpawnInv, SpawnTypeOK, Stages, ReadEnd, Goes, Returns
<1>2. child[c] \in Over
  <2>1. child[c] \in {"told"} \cup Working \cup Over
    BY DEF SpawnInv, InStep, ReadEnd
  <2>2. child[c] # "told"
    BY DEF SpawnInv, IsTold, ReadEnd
  <2>3. child[c] \notin Working
    BY DEF SpawnInv, CanTell, ReadEnd, HasWriter
  <2> QED
    BY <2>1, <2>2, <2>3
<1>3. \A d \in Caller : InStep(d)' /\ CanTell(d)' /\ IsTold(d)' /\ Reported(d)'
  BY <1>2, EndsAreApart
  DEF SpawnInv, SpawnTypeOK, Stages, Working, InStep, CanTell, IsTold, Reported,
      ReadEnd, Goes, Returns
<1> QED
  BY <1>1, <1>3 DEF SpawnInv

LEMMA ChildKeeps ==
    ASSUME SpawnInv, NEW c \in Caller, ChildStep(c) \/ Dies(c) PROVE SpawnInv'
PROOF
<1>1. LeftOpen(c) \in SUBSET Ends /\ (Writes(c) \in inherited[c] => Writes(c) \in LeftOpen(c))
  BY ClosesAssumption DEF SpawnInv, SpawnTypeOK, LeftOpen
<1>2. CASE AtExec(c)
  <2>1. SpawnTypeOK'
    BY <1>1, <1>2 DEF SpawnInv, SpawnTypeOK, Working, AtExec
  <2>2. \A d \in Caller : InStep(d)' /\ CanTell(d)' /\ IsTold(d)' /\ Reported(d)'
    BY <1>1, <1>2
    DEF SpawnInv, SpawnTypeOK, Stages, Working, Over, InStep, CanTell, IsTold,
        Reported, AtExec
  <2> QED
    BY <2>1, <2>2 DEF SpawnInv
<1>3. CASE Execve(c)
  <2>1. SpawnTypeOK'
    BY <1>3 DEF SpawnInv, SpawnTypeOK, Working, Over, Execve
  <2>2. \A d \in Caller : InStep(d)' /\ CanTell(d)' /\ IsTold(d)' /\ Reported(d)'
    BY <1>3
    DEF SpawnInv, SpawnTypeOK, Stages, Working, Over, InStep, CanTell, IsTold,
        Reported, Execve
  <2> QED
    BY <2>1, <2>2 DEF SpawnInv
<1>4. CASE WriteError(c)
  <2>1. SpawnTypeOK'
    BY <1>4 DEF SpawnInv, SpawnTypeOK, Working, Over, WriteError
  <2>2. \A d \in Caller : InStep(d)' /\ CanTell(d)' /\ IsTold(d)' /\ Reported(d)'
    BY <1>4
    DEF SpawnInv, SpawnTypeOK, Stages, Working, Over, InStep, CanTell, IsTold,
        Reported, WriteError
  <2> QED
    BY <2>1, <2>2 DEF SpawnInv
<1>5. CASE Dies(c)
  <2>1. SpawnTypeOK'
    BY <1>5 DEF SpawnInv, SpawnTypeOK, Working, Over, Dies
  <2>2. \A d \in Caller : InStep(d)' /\ CanTell(d)' /\ IsTold(d)' /\ Reported(d)'
    BY <1>5
    DEF SpawnInv, SpawnTypeOK, Stages, Working, Over, InStep, CanTell, IsTold,
        Reported, Dies
  <2> QED
    BY <2>1, <2>2 DEF SpawnInv
<1> QED
  BY <1>2, <1>3, <1>4, <1>5 DEF ChildStep

LEMMA StepIsTrue == SpawnInv /\ [SpawnNext]_spawnVars => SpawnInv'
PROOF
<1> SUFFICES ASSUME SpawnInv, [SpawnNext]_spawnVars PROVE SpawnInv'
  OBVIOUS
<1>1. CASE UNCHANGED spawnVars
  BY <1>1
  DEF spawnVars, SpawnInv, SpawnTypeOK, InStep, CanTell, IsTold, Reported
<1>2. ASSUME NEW c \in Caller, ReadError(c) PROVE SpawnInv'
  <2>1. pipe[c] = "errno"
    BY <1>2 DEF SpawnInv, SpawnTypeOK, ReadError
  <2> QED
    BY <1>2, <2>1, EndedKeeps DEF ReadError
<1>3. ASSUME NEW c \in Caller, Interrupted(c) PROVE SpawnInv'
  BY <1>3, EndedKeeps DEF Interrupted
<1> QED
  BY <1>1, <1>2, <1>3, PipeKeeps, PrepareKeeps, ForkKeeps, CloseWritingKeeps, ReadEndKeeps,
     ChildKeeps DEF SpawnNext, CallerStep

\* What is reported of a child is so, however many threads spawn at once and
\* whether or not at_exec closes the descriptors of the others.
THEOREM SpawnReportsTrue == SpawnSpec => []ReportIsTrue
PROOF
<1>1. SpawnInv => ReportIsTrue
  BY DEF SpawnInv, SpawnTypeOK, Stages, InStep, Reported, ReportIsTrue, Over
<1>2. SpawnSpec => SpawnInit /\ [][SpawnNext]_spawnVars
  BY PTL DEF SpawnSpec
<1> QED
  BY <1>1, <1>2, InitIsTrue, StepIsTrue, PTL

-----------------------------------------------------------------------------
(***************************************************************************)
(* Opening.  The invariant adds to who has what why a call that failed     *)
(* closes nothing of anybody else's: a core's connection that has the      *)
(* agent's name has forgotten its descriptor.                              *)
(***************************************************************************)

OpenStages == {"closed", "agent", "socket", "connect", "open", "failed"}

OpeningTypeOK ==
    /\ openPc \in [Conn -> OpenStages]
    /\ fd \in [Conn -> Fd \cup {-1}]
    /\ agent \in [Conn -> BOOLEAN]
    /\ owner \in [Fd -> Conn \cup {Program, Nobody}]
    /\ strays \subseteq Fd

OnlyCore == \A c \in Conn : openPc[c] = "agent" => c \in Core
Connected == \A c \in Conn : openPc[c] \in {"connect", "open"} => fd[c] \in Fd
Forgotten == \A c \in Core : openPc[c] = "failed" /\ agent[c] => fd[c] = -1
NotCopied == \A c \in Conn : openPc[c] \in {"closed", "agent"} => ~agent[c]

OpeningInv ==
    OpeningTypeOK /\ OnlyCore /\ Connected /\ Forgotten /\ NotCopied /\ (strays = {} => Owned)

MadeUp == strays' # strays => strays # {} \/ \E c \in Conn : CopyFailed(c)

-----------------------------------------------------------------------------
LEMMA LowestIsFree == \A f \in Lowest : f \in Fd /\ owner[f] = Nobody
PROOF
  BY DEF Lowest

LEMMA InitIsOwned == ASSUME OpeningInit PROVE OpeningInv
PROOF
  BY ConnAssumption DEF OpeningInit, OpeningInv, OpeningTypeOK, OpenStages, OnlyCore,
     Connected, Forgotten,
     NotCopied, Owned, Has, Conn

LEMMA AllocateKeeps ==
    ASSUME OpeningInv, NEW c \in Conn, Allocate(c)
    PROVE  OpeningInv' /\ MadeUp
PROOF
<1>1. OpeningTypeOK' /\ OnlyCore' /\ Connected' /\ Forgotten' /\ NotCopied'
  BY ConnAssumption DEF OpeningInv, OpeningTypeOK, OpenStages, OnlyCore, Connected,
     Forgotten, NotCopied, Allocate, OpenGoes, Conn
<1>2. \A d \in Conn, f \in Fd : Has(d, f)' <=> Has(d, f)
  BY ConnAssumption DEF OpeningInv, OpeningTypeOK, Has, Allocate, OpenGoes, Conn
<1> QED
  BY <1>1, <1>2 DEF OpeningInv, Owned, MadeUp, Allocate

LEMMA CopyKeeps ==
    ASSUME OpeningInv, NEW c \in Conn, CopyAgent(c), c \in Core
    PROVE  OpeningInv' /\ MadeUp
PROOF
<1>1. OpeningTypeOK' /\ OnlyCore' /\ Connected' /\ Forgotten' /\ NotCopied'
  BY DEF OpeningInv, OpeningTypeOK, OpenStages, OnlyCore, Connected, Forgotten, NotCopied,
     CopyAgent, OpenGoes, Conn
<1>2. \A d \in Conn, f \in Fd : Has(d, f)' <=> Has(d, f)
  BY ConnAssumption DEF OpeningInv, OpeningTypeOK, Has, CopyAgent, OpenGoes, Conn
<1> QED
  BY <1>1, <1>2 DEF OpeningInv, Owned, MadeUp, CopyAgent

LEMMA SocketKeeps ==
    ASSUME OpeningInv, NEW c \in Conn, Socket(c)
    PROVE  OpeningInv' /\ MadeUp
PROOF
<1>1. OpeningTypeOK' /\ OnlyCore' /\ Connected' /\ Forgotten' /\ NotCopied'
  BY LowestIsFree, ConnAssumption
  DEF OpeningInv, OpeningTypeOK, OpenStages, OnlyCore, Connected, Forgotten,
     NotCopied, Socket, OpenGoes, Conn
<1>2. Owned => Owned'
  <2> SUFFICES ASSUME Owned, NEW f \in Fd, NEW d \in Conn
               PROVE  owner'[f] = d <=> Has(d, f)'
    BY DEF Owned
  <2>1. CASE owner' = owner
    BY <2>1, LowestIsFree, ConnAssumption
    DEF OpeningInv, OpeningTypeOK, Owned, Has, Socket, OpenGoes, Conn
  <2>2. ASSUME NEW g \in Lowest, openPc' = [openPc EXCEPT ![c] = "connect"],
               fd' = [fd EXCEPT ![c] = g], owner' = [owner EXCEPT ![g] = c]
        PROVE  owner'[f] = d <=> Has(d, f)'
    BY <2>2, LowestIsFree, ConnAssumption
    DEF OpeningInv, OpeningTypeOK, Owned, Has, Socket, Conn
  <2> QED
    BY <2>1, <2>2 DEF Socket, OpenGoes
<1> QED
  BY <1>1, <1>2 DEF OpeningInv, MadeUp, Socket

LEMMA ConnectKeeps ==
    ASSUME OpeningInv, NEW c \in Conn, Connect(c)
    PROVE  OpeningInv' /\ MadeUp
PROOF
<1>1. fd[c] \in Fd
  BY DEF OpeningInv, Connected, Connect
<1>2. OpeningTypeOK' /\ OnlyCore' /\ Connected' /\ Forgotten' /\ NotCopied'
  BY <1>1, ConnAssumption
  DEF OpeningInv, OpeningTypeOK, OpenStages, OnlyCore, Connected, Forgotten,
    NotCopied,
     Connect, CloseHere, OpenGoes, Conn
<1>3. Owned => Owned'
  <2> SUFFICES ASSUME Owned, NEW f \in Fd, NEW d \in Conn
               PROVE  owner'[f] = d <=> Has(d, f)'
    BY DEF Owned
  <2>1. CASE openPc' = [openPc EXCEPT ![c] = "open"] /\ UNCHANGED <<fd, owner>>
    BY <2>1 DEF OpeningInv, OpeningTypeOK, Owned, Has, Connect
  <2>2. CASE openPc' = [openPc EXCEPT ![c] = "failed"] /\ c \in Core /\ CloseHere(c)
    BY <1>1, <2>2, ConnAssumption
    DEF OpeningInv, OpeningTypeOK, Owned, Has, Connect, CloseHere, Conn
  <2>3. CASE openPc' = [openPc EXCEPT ![c] = "failed"] /\ c \notin Core /\ CloseHere(c)
    BY <2>3 DEF OpeningInv, OpeningTypeOK, Owned, Has, Connect, CloseHere, Conn
  <2> QED
    BY <2>1, <2>2, <2>3 DEF Connect, OpenGoes
<1> QED
  BY <1>2, <1>3 DEF OpeningInv, MadeUp, Connect

\* Whoever closes its own descriptor, or one that is nobody's, closes no other's.
LEMMA CloseOwn ==
    ASSUME OpeningInv, NEW c \in Conn, openPc[c] \in {"open", "failed"},
           OpenGoes(c, "closed"), UNCHANGED fd, Close(c, fd[c]),
           agent' = [agent EXCEPT ![c] = FALSE]
    PROVE  OpeningInv' /\ (strays = {} /\ Has(c, fd[c]) => UNCHANGED strays)
PROOF
<1>1. OpeningTypeOK' /\ OnlyCore' /\ Connected' /\ Forgotten' /\ NotCopied'
  BY ConnAssumption DEF OpeningInv, OpeningTypeOK, OpenStages, OnlyCore, Connected,
     Forgotten, NotCopied,
     OpenGoes, Close, Conn
<1>2. ASSUME strays' = {} PROVE Owned'
  <2>1. strays = {} /\ Owned
    BY <1>2 DEF Close, OpeningInv
  <2>2. fd[c] \in Fd => owner[fd[c]] \in {c, Nobody}
    BY <1>2 DEF Close
  <2> SUFFICES ASSUME NEW f \in Fd, NEW d \in Conn
               PROVE  owner'[f] = d <=> Has(d, f)'
    BY DEF Owned
  <2>3. CASE f = fd[c]
    BY <2>1, <2>2, <2>3, ConnAssumption
    DEF OpeningInv, OpeningTypeOK, Owned, Has, OpenGoes, Close, Conn
  <2>4. CASE f # fd[c]
    BY <2>1, <2>4 DEF OpeningInv, OpeningTypeOK, Owned, Has, OpenGoes, Close
  <2> QED
    BY <2>3, <2>4
<1>3. strays = {} /\ Has(c, fd[c]) => UNCHANGED strays
  BY DEF OpeningInv, Owned, Close
<1> QED
  BY <1>1, <1>2, <1>3 DEF OpeningInv

LEMMA CloseFailedKeeps ==
    ASSUME OpeningInv, NEW c \in Conn, CloseFailed(c)
    PROVE  OpeningInv' /\ MadeUp
PROOF
<1>1. CASE c \in Core /\ fd[c] < 0
  <2>1. OpeningTypeOK' /\ OnlyCore' /\ Connected' /\ Forgotten' /\ NotCopied'
    BY <1>1, ConnAssumption
    DEF OpeningInv, OpeningTypeOK, OpenStages, OnlyCore, Connected,
      Forgotten, NotCopied,
       CloseFailed, OpenGoes, Conn
  <2>2. \A d \in Conn, f \in Fd : Has(d, f)' <=> Has(d, f)
    BY <1>1, ConnAssumption DEF OpeningInv, OpeningTypeOK, Has, CloseFailed, OpenGoes, Conn
  <2> QED
    BY <1>1, <2>1, <2>2 DEF OpeningInv, Owned, MadeUp, CloseFailed
<1>2. CASE ~(c \in Core /\ fd[c] < 0)
  <2>1. OpeningInv' /\ (strays = {} /\ Has(c, fd[c]) => UNCHANGED strays)
    BY <1>2, CloseOwn DEF CloseFailed
  <2>2. CASE c \in Core
    <3>1. ~agent[c]
      BY <1>2, <2>2 DEF OpeningInv, OpeningTypeOK, Forgotten, CloseFailed
    <3> QED
      BY <2>1, <2>2, <3>1 DEF MadeUp, CopyFailed, CloseFailed
  <2>3. CASE c \in Events
    BY <2>1, <2>3 DEF MadeUp, Has, CloseFailed
  <2> QED
    BY <2>2, <2>3 DEF Conn
<1> QED
  BY <1>1, <1>2

LEMMA CloseConnectionKeeps ==
    ASSUME OpeningInv, NEW c \in Conn, CloseConnection(c)
    PROVE  OpeningInv' /\ MadeUp
PROOF
<1>1. OpeningInv' /\ (strays = {} /\ Has(c, fd[c]) => UNCHANGED strays)
  BY CloseOwn DEF CloseConnection
<1> QED
  BY <1>1 DEF MadeUp, Has, CloseConnection

LEMMA ProgramKeeps ==
    ASSUME OpeningInv, ProgramOpens \/ ProgramCloses
    PROVE  OpeningInv' /\ MadeUp
PROOF
<1>1. UNCHANGED <<openPc, fd, agent, strays>>
  BY DEF ProgramOpens, ProgramCloses
<1>2. PICK f \in Fd : \/ owner[f] = Nobody /\ owner' = [owner EXCEPT ![f] = Program]
                      \/ owner[f] = Program /\ owner' = [owner EXCEPT ![f] = Nobody]
  BY LowestIsFree DEF ProgramOpens, ProgramCloses
<1>3. OpeningTypeOK' /\ OnlyCore' /\ Connected' /\ Forgotten' /\ NotCopied'
  BY <1>1, <1>2 DEF OpeningInv, OpeningTypeOK, OnlyCore, Connected, Forgotten, NotCopied
<1>4. \A g \in Fd, c \in Conn : owner'[g] = c <=> owner[g] = c
  BY <1>2, ConnAssumption DEF OpeningInv, OpeningTypeOK
<1> QED
  BY <1>1, <1>3, <1>4 DEF OpeningInv, Owned, Has, MadeUp

LEMMA StepIsOwned ==
    ASSUME OpeningInv, [OpeningNext]_openVars
    PROVE  OpeningInv' /\ MadeUp
PROOF
<1>1. CASE UNCHANGED openVars
  BY <1>1
  DEF openVars, OpeningInv, OpeningTypeOK, OnlyCore, Connected, Forgotten, NotCopied,
    Owned, Has, MadeUp
<1>2. ASSUME NEW c \in Conn, CopyAgent(c) PROVE OpeningInv' /\ MadeUp
  <2>1. c \in Core
    BY <1>2 DEF OpeningInv, OnlyCore, CopyAgent
  <2> QED
    BY <1>2, <2>1, CopyKeeps
<1> QED
  BY <1>1, <1>2, AllocateKeeps, SocketKeeps, ConnectKeeps, CloseFailedKeeps, CloseConnectionKeeps,
     ProgramKeeps DEF OpeningNext

\* Every descriptor is whose call was given it, for any connections and any
\* descriptors, until a copy of an agent's name fails.
THEOREM DescriptorsOwned == OpeningSpec => DescriptorsAreOwned
PROOF
<1>1. OpeningInit => OpeningInv
  BY InitIsOwned
<1>2. OpeningInv /\ [OpeningNext]_openVars => OpeningInv' /\ [MadeUp]_openVars
  BY StepIsOwned
<1>3. OpeningInv => (strays = {} => Owned)
  BY DEF OpeningInv
<1>4. OpeningSpec => [](strays = {} => Owned) /\ [][MadeUp]_openVars
  BY <1>1, <1>2, <1>3, PTL DEF OpeningSpec
<1> QED
  BY <1>4 DEF DescriptorsAreOwned, MadeUp

-----------------------------------------------------------------------------
(***************************************************************************)
(* The environment of a new program.  While the lists are merged, the map  *)
(* has what the entries so far mean; where the texts are to lie is known   *)
(* from the lengths counted, entry by entry.                               *)
(***************************************************************************)

\* The places within the first n of a list that give a name a value
Vals(list, n, name) == {k \in 1 .. n : list[k].equals /\ list[k].name = name}

NamesTo(list, n) == {list[k].name : k \in {j \in 1 .. n : list[j].equals}}

\* What the first entries of both lists mean
Meaning(o, g, j, l) ==
    [name \in NamesTo(o, j) \cup NamesTo(g, l) |->
        IF Vals(g, l, name) # {} THEN g[Max(Vals(g, l, name))].val
                                 ELSE o[Max(Vals(o, j, name))].val]

\* What a map may have of them
Pairs(o, g) == {[name |-> x.name, val |-> x.val] : x \in ToSet(o) \cup ToSet(g)}

\* m is a map of the pairs P with the meaning v.
MapHas(m, v, P) ==
    /\ m \in Seq(P)
    /\ \A k, l \in 1 .. Len(m) : m[k].name = m[l].name => k = l
    /\ \A k \in 1 .. Len(m) : m[k].name \in DOMAIN v /\ m[k].val = v[m[k].name]
    /\ \A name \in DOMAIN v : \E k \in 1 .. Len(m) : m[k].name = name

\* The meaning w is v but for x.
Adds(v, x, w) ==
    /\ DOMAIN w = DOMAIN v \cup {x.name} /\ w[x.name] = x.val
    /\ \A name \in DOMAIN v \ {x.name} : w[name] = v[name]

\* The lists are of entries with names and values.
IsEnv(list) ==
    /\ list \in Seq(ToSet(list))
    /\ \A x \in ToSet(list) :
          Len(x.name) \in Nat /\ Len(x.val) \in Nat /\ x.equals \in BOOLEAN

\* Texts of m lie at off, one behind the other, up to the n-th.
Offsets(off, m, n) ==
    /\ off \in [0 .. n -> Nat]
    /\ off[0] = 0
    /\ \A k \in 1 .. n : off[k] = off[k - 1] + StrSize(m[k])
    /\ \A k \in 0 .. n : \E q \in Nat : off[k] = q * Ptr

\* The text of an entry p at that place of a block of n pointers
Laid(p, n, place) == [from |-> (n + 1) * Ptr + place, name |-> p.name, val |-> p.val]

\* What BlockIsMerged says of a block
GoodBlock ==
    /\ \A x \in ToSet(envp) : x.equals
    /\ Len(block) = Cardinality(Names) /\ {p.name : p \in ToSet(block)} = Names
    /\ \A k \in DOMAIN block :
          /\ block[k].val = Meant(block[k].name)
          /\ block[k].from >= (Len(block) + 1) * Ptr /\ block[k].from % Ptr = 0
          /\ LET end == block[k].from + Len(block[k].name) + Len(block[k].val) + 2
             IN end <= (IF k < Len(block) THEN block[k + 1].from ELSE size)

EnvStages == {"own", "given", "count", "write", "search", "prepared"}

EnvTypes ==
    /\ own \in Own /\ envp \in Given /\ dirs \in Seq(Found) /\ slash \in BOOLEAN
    /\ envPc \in EnvStages /\ next \in Nat \ {0} /\ hasEnv \in BOOLEAN

Merging ==
    /\ envPc = "own" =>
          /\ next <= Len(own) + 1
          /\ MapHas(map, Meaning(own, envp, next - 1, 0), Pairs(own, envp))
    /\ envPc = "given" =>
          /\ next <= Len(envp) + 1
          /\ \A k \in 1 .. next - 1 : envp[k].equals
          /\ MapHas(map, Meaning(own, envp, Len(own), next - 1), Pairs(own, envp))
    /\ envPc \in {"count", "write"} =>
          /\ next <= Len(map) + 1
          /\ \A k \in 1 .. Len(envp) : envp[k].equals
          /\ MapHas(map, Meaning(own, envp, Len(own), Len(envp)), Pairs(own, envp))

Laying ==
    /\ envPc \in {"own", "given"} => size = Ptr
    /\ envPc = "count" =>
          \E off : Offsets(off, map, next - 1) /\ size = next * Ptr + off[next - 1]
    /\ envPc = "write" =>
          \E off : /\ Offsets(off, map, Len(map))
                   /\ size = (Len(map) + 1) * Ptr + off[Len(map)]
                   /\ block = [k \in 1 .. next - 1 |-> Laid(map[k], Len(map), off[k - 1])]
    /\ envPc \in {"own", "given", "count"} => block = << >>

Searching ==
    /\ envPc \notin {"search", "prepared"} => envErrno = "old" /\ ~hasEnv
    /\ envPc \in {"search", "prepared"} =>
          /\ hasEnv => GoodBlock
          /\ ~hasEnv => envErrno # "old"
    /\ envPc = "search" /\ ~slash => \A k \in 1 .. next - 1 :
                                         k \in DOMAIN dirs => dirs[k] \in {"missing", "no file"}
    /\ envErrno = "EINVAL" => \E x \in ToSet(envp) : ~x.equals

EnvInv == EnvTypes /\ Merging /\ Laying /\ Searching /\ ProgramIsMeant

-----------------------------------------------------------------------------
(* Whole pointers. *)

LEMMA PointerHasSize == Ptr \in Nat \ {0}
  BY EnvironmentAssumption

\* Division with a remainder
LEMMA Divided ==
    ASSUME NEW n \in Nat, NEW b \in Nat \ {0}
    PROVE  /\ n = b * (n \div b) + (n % b)
           /\ n \div b \in Nat
           /\ n % b \in 0 .. b - 1
  BY SMTT(30)

\* A size is aligned.
LEMMA AlignedIsWhole ==
    ASSUME NEW n \in Nat
    PROVE  LET s == ((n + Ptr - 1) \div Ptr) * Ptr
           IN  s \in Nat /\ s >= n /\ \E q \in Nat : s = q * Ptr
<1> DEFINE q == (n + Ptr - 1) \div Ptr
           r == (n + Ptr - 1) % Ptr
<1>1. Ptr \in Nat \ {0}
  BY PointerHasSize
<1>2. n + Ptr - 1 \in Nat
  BY <1>1
<1>3. n + Ptr - 1 = Ptr * q + r /\ q \in Nat /\ r \in 0 .. Ptr - 1
  BY <1>1, <1>2, Divided
<1> HIDE DEF q, r
<1>4. q * Ptr \in Nat /\ q * Ptr = Ptr * q
  BY <1>1, <1>3
<1>5. q * Ptr >= n
  BY <1>1, <1>3, <1>4
<1>6. q * Ptr \in Nat /\ q * Ptr >= n /\ \E k \in Nat : q * Ptr = k * Ptr
  BY <1>3, <1>4, <1>5
<1> QED
  BY <1>6 DEF q

\* So is the room of a text.
LEMMA StrSizeIsWhole ==
    ASSUME NEW p, Len(p.name) \in Nat, Len(p.val) \in Nat
    PROVE  /\ StrSize(p) \in Nat /\ StrSize(p) >= Len(p.name) + Len(p.val) + 2
           /\ \E q \in Nat : StrSize(p) = q * Ptr
<1>1. \A j, k \in Nat : j + k + 2 \in Nat
  OBVIOUS
<1>2. Len(p.name) + Len(p.val) + 2 \in Nat
  BY <1>1, Zenon
<1> QED
  BY <1>2, AlignedIsWhole, Zenon DEF StrSize

\* What is whole pointers from the start has no remainder.
LEMMA WholePointers ==
    ASSUME NEW q \in Nat
    PROVE  (q * Ptr) % Ptr = 0
<1>1. Ptr \in Nat \ {0}
  BY PointerHasSize
<1>2. q * Ptr \in Nat /\ q * Ptr = Ptr * q
  BY <1>1
<1>3. \A b \in Nat \ {0}, n \in Nat, d \in Nat : n = b * d => n % b = 0
  BY SMTT(30)
<1> QED
  BY <1>1, <1>2, <1>3

-----------------------------------------------------------------------------
(* Merging. *)

\* The lists of the assumption
LEMMA ListsAreEnv == \A list \in Own \cup Given : IsEnv(list)
  BY EnvironmentAssumption DEF IsEnv

\* The last of places is one of them if it is there.
LEMMA LastPlace ==
    ASSUME NEW S, NEW n \in Nat, S \subseteq 1 .. n, n \in S
    PROVE  Max(S) = n
<1>1. \A y \in S : n >= y
  OBVIOUS
<1>2. Max(S) \in S /\ \A y \in S : Max(S) >= y
  BY <1>1 DEF Max
<1>3. Max(S) \in 1 .. n /\ Max(S) >= n
  BY <1>2
<1> QED
  BY <1>3

\* One place more
LEMMA OneMoreVal ==
    ASSUME NEW list, NEW n \in Nat, NEW name
    PROVE  /\ list[n + 1].equals /\ list[n + 1].name = name =>
                 Vals(list, n + 1, name) # {} /\ Max(Vals(list, n + 1, name)) = n + 1
           /\ ~(list[n + 1].equals /\ list[n + 1].name = name) =>
                 Vals(list, n + 1, name) = Vals(list, n, name)
<1>1. 1 .. n + 1 = 1 .. n \cup {n + 1} /\ n + 1 \in Nat
  OBVIOUS
<1>2. ASSUME list[n + 1].equals, list[n + 1].name = name
      PROVE  Vals(list, n + 1, name) # {} /\ Max(Vals(list, n + 1, name)) = n + 1
  <2>1. n + 1 \in Vals(list, n + 1, name) /\ Vals(list, n + 1, name) \subseteq 1 .. n + 1
    BY <1>1, <1>2 DEF Vals
  <2> QED
    BY <1>1, <2>1, LastPlace
<1>3. ASSUME ~(list[n + 1].equals /\ list[n + 1].name = name)
      PROVE  Vals(list, n + 1, name) = Vals(list, n, name)
  BY <1>1, <1>3 DEF Vals
<1> QED
  BY <1>2, <1>3

\* And its name
LEMMA OneMoreName ==
    ASSUME NEW list, NEW n \in Nat
    PROVE  NamesTo(list, n + 1) =
              IF list[n + 1].equals THEN NamesTo(list, n) \cup {list[n + 1].name}
                                    ELSE NamesTo(list, n)
<1>1. 1 .. n + 1 = 1 .. n \cup {n + 1}
  OBVIOUS
<1> QED
  BY <1>1 DEF NamesTo

\* ndm_strmap_nset(): one name has another value, or is new.
LEMMA MergedHas ==
    ASSUME NEW m, NEW v, NEW P, MapHas(m, v, P), NEW p \in P, NEW w, Adds(v, p, w)
    PROVE  /\ (\E k \in DOMAIN m : m[k].name = p.name) =>
                 MapHas([k \in DOMAIN m |-> IF m[k].name = p.name THEN p ELSE m[k]], w, P)
           /\ (~\E k \in DOMAIN m : m[k].name = p.name) => MapHas(Append(m, p), w, P)
<1> USE DEF Adds
<1>1. /\ m \in Seq(P) /\ Len(m) \in Nat /\ DOMAIN m = 1 .. Len(m)
      /\ \A k \in 1 .. Len(m) : m[k] \in P
  BY DEF MapHas
<1>2. ASSUME NEW k0 \in DOMAIN m, m[k0].name = p.name
      PROVE  MapHas([k \in DOMAIN m |-> IF m[k].name = p.name THEN p ELSE m[k]], w, P)
  <2> DEFINE t == [k \in DOMAIN m |-> IF m[k].name = p.name THEN p ELSE m[k]]
  <2>1. t \in Seq(P) /\ Len(t) = Len(m)
    <3>1. t \in [1 .. Len(m) -> P]
      BY <1>1
    <3> QED
      BY <1>1, <3>1
  <2>2. \A k \in 1 .. Len(m) : /\ t[k] = IF m[k].name = p.name THEN p ELSE m[k]
                               /\ t[k].name = m[k].name
    BY <1>1
  <2> HIDE DEF t
  <2>3. \A k, l \in 1 .. Len(t) : t[k].name = t[l].name => k = l
    BY <2>1, <2>2 DEF MapHas
  <2>4. \A k \in 1 .. Len(t) : t[k].name \in DOMAIN w /\ t[k].val = w[t[k].name]
    BY <2>1, <2>2 DEF MapHas
  <2>5. \A name \in DOMAIN w : \E k \in 1 .. Len(t) : t[k].name = name
    BY <1>1, <1>2, <2>1, <2>2 DEF MapHas
  <2>6. MapHas(t, w, P)
    BY <2>1, <2>3, <2>4, <2>5 DEF MapHas
  <2> QED
    BY <2>6 DEF t
<1>3. ASSUME ~\E k \in DOMAIN m : m[k].name = p.name
      PROVE  MapHas(Append(m, p), w, P)
  <2> DEFINE t == Append(m, p)
             n == Len(m)
  <2>1. /\ t \in Seq(P) /\ Len(t) = n + 1 /\ t[n + 1] = p /\ n \in Nat
        /\ \A k \in 1 .. n : t[k] = m[k]
    BY <1>1
  <2> HIDE DEF t
  <2>2. \A k \in 1 .. Len(t) : k \in 1 .. n \/ k = n + 1
    BY <2>1
  <2>3. \A k \in 1 .. n : m[k].name # p.name
    BY <1>1, <1>3
  <2>4. \A k, l \in 1 .. Len(t) : t[k].name = t[l].name => k = l
    BY <2>1, <2>2, <2>3 DEF MapHas
  <2>5. \A k \in 1 .. Len(t) : t[k].name \in DOMAIN w /\ t[k].val = w[t[k].name]
    BY <2>1, <2>2, <2>3 DEF MapHas
  <2>6. \A name \in DOMAIN w : \E k \in 1 .. Len(t) : t[k].name = name
    <3> TAKE name \in DOMAIN w
    <3>1. CASE name = p.name
      BY <2>1, <3>1
    <3>2. CASE name # p.name
      <4>1. PICK k \in 1 .. n : m[k].name = name
        BY <3>2 DEF MapHas
      <4> QED
        BY <2>1, <4>1
    <3> QED
      BY <3>1, <3>2
  <2>7. MapHas(t, w, P)
    BY <2>1, <2>4, <2>5, <2>6 DEF MapHas
  <2> QED
    BY <2>7 DEF t
<1> QED
  BY <1>2, <1>3

\* An entry more of the caller's own
LEMMA OwnMeans ==
    ASSUME NEW o, NEW g, NEW j \in Nat
    PROVE  /\ o[j + 1].equals => Adds(Meaning(o, g, j, 0), o[j + 1], Meaning(o, g, j + 1, 0))
           /\ ~o[j + 1].equals => Meaning(o, g, j + 1, 0) = Meaning(o, g, j, 0)
<1> DEFINE x == o[j + 1]
           v == Meaning(o, g, j, 0)
           w == Meaning(o, g, j + 1, 0)
<1>1. NamesTo(g, 0) = {} /\ \A n : Vals(g, 0, n) = {}
  BY DEF NamesTo, Vals
<1>2. /\ v = [n \in NamesTo(o, j) |-> o[Max(Vals(o, j, n))].val]
      /\ w = [n \in NamesTo(o, j + 1) |-> o[Max(Vals(o, j + 1, n))].val]
  BY <1>1 DEF Meaning
<1>3. NamesTo(o, j + 1) = IF x.equals THEN NamesTo(o, j) \cup {x.name} ELSE NamesTo(o, j)
  BY OneMoreName
<1>4. \A n : /\ x.equals /\ x.name = n => Max(Vals(o, j + 1, n)) = j + 1
             /\ ~(x.equals /\ x.name = n) => Vals(o, j + 1, n) = Vals(o, j, n)
  BY OneMoreVal
<1> HIDE DEF v, w
<1>5. ASSUME x.equals PROVE Adds(v, x, w)
  BY <1>2, <1>3, <1>4, <1>5 DEF Adds
<1>6. ASSUME ~x.equals PROVE w = v
  BY <1>2, <1>3, <1>4, <1>6
<1> QED
  BY <1>5, <1>6 DEF v, w

\* An entry more that is given
LEMMA GivenMeans ==
    ASSUME NEW o, NEW g, NEW i, NEW j \in Nat
    PROVE  g[j + 1].equals => Adds(Meaning(o, g, i, j), g[j + 1], Meaning(o, g, i, j + 1))
<1> DEFINE x == g[j + 1]
           v == Meaning(o, g, i, j)
           w == Meaning(o, g, i, j + 1)
<1> SUFFICES ASSUME x.equals PROVE Adds(v, x, w)
  OBVIOUS
<1>1. NamesTo(g, j + 1) = NamesTo(g, j) \cup {x.name}
  BY OneMoreName
<1>2. \A n : /\ x.name = n => Vals(g, j + 1, n) # {} /\ Max(Vals(g, j + 1, n)) = j + 1
             /\ x.name # n => Vals(g, j + 1, n) = Vals(g, j, n)
  BY OneMoreVal
<1>3. DOMAIN w = DOMAIN v \cup {x.name}
  BY <1>1 DEF Meaning
<1>4. w[x.name] = x.val
  BY <1>1, <1>2 DEF Meaning
<1>5. ASSUME NEW n \in DOMAIN v \ {x.name} PROVE w[n] = v[n]
  <2>1. n \in DOMAIN v /\ n \in DOMAIN w /\ x.name # n
    BY <1>3, <1>5
  <2>2. Vals(g, j + 1, n) = Vals(g, j, n)
    BY <1>2, <2>1
  <2> QED
    BY <2>1, <2>2 DEF Meaning
<1> QED
  BY <1>3, <1>4, <1>5 DEF Adds

\* Before anything is merged
LEMMA NothingMeans ==
    ASSUME NEW o, NEW g, NEW P
    PROVE  MapHas(<< >>, Meaning(o, g, 0, 0), P)
<1>1. NamesTo(o, 0) = {} /\ NamesTo(g, 0) = {}
  BY DEF NamesTo
<1>2. DOMAIN Meaning(o, g, 0, 0) = {}
  BY <1>1 DEF Meaning
<1>3. << >> \in Seq(P) /\ Len(<< >>) = 0 /\ 1 .. 0 = {}
  OBVIOUS
<1> QED
  BY <1>2, <1>3 DEF MapHas

-----------------------------------------------------------------------------
(* The steps. *)

\* What the lists are
LEMMA EnvLists ==
    ASSUME EnvTypes
    PROVE  /\ IsEnv(own) /\ Len(own) \in Nat /\ DOMAIN own = 1 .. Len(own)
           /\ IsEnv(envp) /\ Len(envp) \in Nat /\ DOMAIN envp = 1 .. Len(envp)
           /\ \A k \in 1 .. Len(own) : own[k] \in ToSet(own)
           /\ \A k \in 1 .. Len(envp) : envp[k] \in ToSet(envp)
           /\ \A x \in ToSet(envp) : \E k \in 1 .. Len(envp) : x = envp[k]
           /\ \A x \in ToSet(own) : \E k \in 1 .. Len(own) : x = own[k]
<1>1. IsEnv(own) /\ IsEnv(envp)
  BY ListsAreEnv DEF EnvTypes
<1>2. own \in Seq(ToSet(own)) /\ envp \in Seq(ToSet(envp))
  BY <1>1 DEF IsEnv
<1>3. Len(own) \in Nat /\ DOMAIN own = 1 .. Len(own)
  BY <1>2
<1>4. Len(envp) \in Nat /\ DOMAIN envp = 1 .. Len(envp)
  BY <1>2
<1> QED
  BY <1>1, <1>3, <1>4 DEF ToSet

\* Nothing is promised before everything is prepared.
LEMMA NotPrepared ==
    ASSUME envPc' # "prepared"
    PROVE  ProgramIsMeant'
  BY DEF ProgramIsMeant, BlockIsMerged, FirstIsTaken, ErrnoIsSet, Prepared

\* A step that leads to the search for the executable
LEMMA ToSearch ==
    ASSUME EnvInv, UNCHANGED inputVars, envPc' = "search", next' = 1,
           hasEnv' \in BOOLEAN, hasEnv' => GoodBlock', ~hasEnv' => envErrno' # "old",
           envErrno' = "EINVAL" => \E x \in ToSet(envp) : ~x.equals
    PROVE  EnvInv'
<1>1. own' = own /\ envp' = envp /\ dirs' = dirs /\ slash' = slash
  BY DEF inputVars
<1>2. EnvTypes'
  BY <1>1 DEF EnvInv, EnvTypes, EnvStages
<1>3. Merging' /\ Laying'
  BY DEF Merging, Laying
<1>4. Searching'
  <2>1. \A k \in 1 .. next' - 1 : FALSE
    OBVIOUS
  <2> QED
    BY <1>1, <2>1 DEF Searching
<1>5. ProgramIsMeant'
  BY NotPrepared
<1> QED
  BY <1>2, <1>3, <1>4, <1>5 DEF EnvInv

\* A failure, with an errno that says so
LEMMA FailureKeeps ==
    ASSUME EnvInv, envPc \in {"own", "given", "count"}, NEW e, EnvFails(e), e # "old",
           e = "EINVAL" => \E x \in ToSet(envp) : ~x.equals
    PROVE  EnvInv'
<1>1. hasEnv' = FALSE /\ envErrno' = e /\ envPc' = "search" /\ next' = 1
  BY DEF EnvInv, EnvTypes, Searching, EnvFails, EnvGoes
<1> QED
  BY <1>1, ToSearch DEF EnvFails

\* ndm_strmap_nset() gives the map the entry's meaning too.
LEMMA EntryIsMerged ==
    ASSUME NEW v, NEW P, MapHas(map, v, P), NEW x, [name |-> x.name, val |-> x.val] \in P,
           NEW w, Adds(v, x, w)
    PROVE  MapHas(Merged(x), w, P)
<1> DEFINE p == [name |-> x.name, val |-> x.val]
<1>1. p.name = x.name /\ p.val = x.val /\ p \in P
  OBVIOUS
<1> HIDE DEF p
<1>2. Adds(v, p, w)
  BY <1>1 DEF Adds
<1>3. /\ (\E k \in DOMAIN map : map[k].name = p.name) =>
            MapHas([k \in DOMAIN map |-> IF map[k].name = p.name THEN p ELSE map[k]], w, P)
      /\ (~\E k \in DOMAIN map : map[k].name = p.name) => MapHas(Append(map, p), w, P)
  BY <1>1, <1>2, MergedHas
<1>4. Merged(x) = IF \E k \in DOMAIN map : map[k].name = p.name
                  THEN [k \in DOMAIN map |-> IF map[k].name = p.name THEN p ELSE map[k]]
                  ELSE Append(map, p)
  BY <1>1 DEF Merged, IsThere, p
<1> QED
  BY <1>3, <1>4, Zenon

LEMMA MergeOwnKeeps == ASSUME EnvInv, MergeOwn PROVE EnvInv'
<1> DEFINE P == Pairs(own, envp)
<1>1. /\ envPc = "own" /\ next <= Len(own) + 1 /\ next \in Nat \ {0} /\ EnvTypes
      /\ MapHas(map, Meaning(own, envp, next - 1, 0), P)
      /\ size = Ptr /\ block = << >> /\ envErrno = "old" /\ ~hasEnv
  BY DEF EnvInv, EnvTypes, Merging, Laying, Searching, MergeOwn
<1>2. Len(own) \in Nat /\ \A k \in 1 .. Len(own) : own[k] \in ToSet(own)
  BY <1>1, EnvLists
<1>3. CASE next > Len(own)
  <2>1. /\ envPc' = "given" /\ next' = 1
        /\ UNCHANGED <<inputVars, map, size, block, hasEnv, exec, envErrno>>
    BY <1>3 DEF MergeOwn, Merge, EnvGoes
  <2>2. next - 1 = Len(own)
    BY <1>1, <1>2, <1>3
  <2>3. MapHas(map, Meaning(own, envp, Len(own), 0), P)
    BY <1>1, <2>2
  <2>4. /\ own' = own /\ envp' = envp /\ dirs' = dirs /\ slash' = slash /\ map' = map
        /\ size' = size /\ block' = block /\ hasEnv' = hasEnv /\ envErrno' = envErrno
    BY <2>1 DEF inputVars
  <2>5. EnvTypes'
    BY <1>1, <2>1, <2>4 DEF EnvTypes, EnvStages
  <2>6. Merging'
    <3>1. next' <= Len(envp') + 1 /\ next' - 1 = 0 /\ 1 .. 0 = {}
      BY <1>1, <2>1, <2>4, EnvLists
    <3> QED
      BY <2>1, <2>3, <2>4, <3>1 DEF Merging
  <2>7. Laying' /\ Searching'
    BY <1>1, <2>1, <2>4 DEF Laying, Searching
  <2>8. ProgramIsMeant'
    BY <2>1, NotPrepared
  <2> QED
    BY <2>5, <2>6, <2>7, <2>8 DEF EnvInv
<1>4. CASE ~(next > Len(own))
  <2> DEFINE x == own[next]
  <2>1. next \in 1 .. Len(own) /\ x \in ToSet(own)
    BY <1>1, <1>2, <1>4
  <2>2. CASE x.equals /\ NeedsMemory(x) /\ EnvFails("ENOMEM")
    BY <1>1, <2>2, FailureKeeps
  <2>3. CASE /\ x.equals \/ ~FALSE
             /\ map' = IF x.equals THEN Merged(x) ELSE map
             /\ next' = next + 1
             /\ UNCHANGED <<inputVars, envPc, size, block, hasEnv, exec, envErrno>>
    <3>1. /\ own' = own /\ envp' = envp /\ dirs' = dirs /\ slash' = slash
          /\ size' = size /\ block' = block /\ hasEnv' = hasEnv /\ envErrno' = envErrno
          /\ envPc' = "own" /\ next' = next + 1
      BY <1>1, <2>3 DEF inputVars
    <3>2. MapHas(map', Meaning(own, envp, next, 0), P)
      <4> DEFINE j == next - 1
      <4>1. j \in Nat /\ j + 1 = next /\ own[j + 1] = x
        BY <1>1
      <4> HIDE DEF j
      <4>2. [name |-> x.name, val |-> x.val] \in P
        BY <2>1 DEF Pairs
      <4>3. MapHas(map, Meaning(own, envp, j, 0), P)
        BY <1>1 DEF j
      <4> HIDE DEF P, x
      <4>4. CASE x.equals
        <5>1. Adds(Meaning(own, envp, j, 0), x, Meaning(own, envp, next, 0))
          <6>1. own[j + 1].equals =>
                    Adds(Meaning(own, envp, j, 0), own[j + 1], Meaning(own, envp, j + 1, 0))
            BY <4>1, OwnMeans, Zenon
          <6> QED
            BY <4>1, <4>4, <6>1
        <5>2. MapHas(Merged(x), Meaning(own, envp, next, 0), P)
          BY <4>2, <4>3, <5>1, EntryIsMerged, Zenon
        <5> QED
          BY <2>3, <4>4, <5>2
      <4>5. CASE ~x.equals
        <5>1. Meaning(own, envp, next, 0) = Meaning(own, envp, j, 0)
          BY <4>1, <4>5, OwnMeans
        <5> QED
          BY <2>3, <4>3, <4>5, <5>1
      <4> QED
        BY <4>4, <4>5
    <3>3. next' - 1 = next /\ next' <= Len(own) + 1 /\ next' \in Nat \ {0}
      BY <1>1, <1>2, <2>1, <3>1
    <3>4. EnvTypes'
      BY <1>1, <3>1, <3>3 DEF EnvTypes
    <3>5. Merging'
      BY <3>1, <3>2, <3>3 DEF Merging
    <3>6. Laying' /\ Searching'
      BY <1>1, <3>1 DEF Laying, Searching
    <3>7. ProgramIsMeant'
      BY <3>1, NotPrepared
    <3> QED
      BY <3>4, <3>5, <3>6, <3>7 DEF EnvInv
  <2> QED
    BY <1>4, <2>2, <2>3 DEF MergeOwn, Merge
<1> QED
  BY <1>3, <1>4

LEMMA MergeGivenKeeps == ASSUME EnvInv, MergeGiven PROVE EnvInv'
<1> DEFINE P == Pairs(own, envp)
<1>1. /\ envPc = "given" /\ next <= Len(envp) + 1 /\ next \in Nat \ {0} /\ EnvTypes
      /\ \A k \in 1 .. next - 1 : envp[k].equals
      /\ MapHas(map, Meaning(own, envp, Len(own), next - 1), P)
      /\ size = Ptr /\ block = << >> /\ envErrno = "old" /\ ~hasEnv
  BY DEF EnvInv, EnvTypes, Merging, Laying, Searching, MergeGiven
<1>2. Len(envp) \in Nat /\ \A k \in 1 .. Len(envp) : envp[k] \in ToSet(envp)
  BY <1>1, EnvLists
<1>3. CASE next > Len(envp)
  <2>1. /\ envPc' = "count" /\ next' = 1
        /\ UNCHANGED <<inputVars, map, size, block, hasEnv, exec, envErrno>>
    BY <1>3 DEF MergeGiven, Merge, EnvGoes
  <2>2. next - 1 = Len(envp)
    BY <1>1, <1>2, <1>3
  <2>3. /\ MapHas(map, Meaning(own, envp, Len(own), Len(envp)), P)
        /\ \A k \in 1 .. Len(envp) : envp[k].equals
    BY <1>1, <2>2
  <2>4. /\ own' = own /\ envp' = envp /\ dirs' = dirs /\ slash' = slash /\ map' = map
        /\ size' = size /\ block' = block /\ hasEnv' = hasEnv /\ envErrno' = envErrno
    BY <2>1 DEF inputVars
  <2>5. EnvTypes'
    BY <1>1, <2>1, <2>4 DEF EnvTypes, EnvStages
  <2>6. Merging'
    <3>1. next' <= Len(map') + 1
      BY <2>1, <2>3, <2>4 DEF MapHas
    <3> QED
      BY <2>1, <2>3, <2>4, <3>1 DEF Merging
  <2>7. Laying'
    <3> DEFINE off == [k \in 0 .. 0 |-> 0]
    <3>1. Ptr \in Nat \ {0}
      BY PointerHasSize
    <3>2. off \in [0 .. 0 -> Nat] /\ off[0] = 0 /\ \A k \in 0 .. 0 : off[k] = 0 * Ptr
      BY <3>1
    <3>3. Offsets(off, map, 0)
      BY <3>2 DEF Offsets
    <3>4. size = 1 * Ptr + off[1 - 1] /\ 1 - 1 = 0
      BY <1>1, <3>1, <3>2
    <3> HIDE DEF off
    <3> QED
      BY <1>1, <2>1, <2>4, <3>3, <3>4 DEF Laying
  <2>8. Searching'
    BY <1>1, <2>1, <2>4 DEF Searching
  <2>9. ProgramIsMeant'
    BY <2>1, NotPrepared
  <2> QED
    BY <2>5, <2>6, <2>7, <2>8, <2>9 DEF EnvInv
<1>4. CASE ~(next > Len(envp))
  <2> DEFINE x == envp[next]
  <2>1. next \in 1 .. Len(envp) /\ x \in ToSet(envp)
    BY <1>1, <1>2, <1>4
  <2>2. CASE x.equals /\ NeedsMemory(x) /\ EnvFails("ENOMEM")
    BY <1>1, <2>2, FailureKeeps
  <2>3. CASE ~x.equals /\ TRUE /\ EnvFails("EINVAL")
    BY <1>1, <2>1, <2>3, FailureKeeps
  <2>4. CASE /\ x.equals \/ ~TRUE
             /\ map' = IF x.equals THEN Merged(x) ELSE map
             /\ next' = next + 1
             /\ UNCHANGED <<inputVars, envPc, size, block, hasEnv, exec, envErrno>>
    <3>1. /\ own' = own /\ envp' = envp /\ dirs' = dirs /\ slash' = slash
          /\ size' = size /\ block' = block /\ hasEnv' = hasEnv /\ envErrno' = envErrno
          /\ envPc' = "given" /\ next' = next + 1
      BY <1>1, <2>4 DEF inputVars
    <3>2. MapHas(map', Meaning(own, envp, Len(own), next), P)
      <4> DEFINE j == next - 1
      <4>1. j \in Nat /\ j + 1 = next /\ envp[j + 1] = x /\ x.equals
        BY <1>1, <2>4
      <4> HIDE DEF j
      <4>2. [name |-> x.name, val |-> x.val] \in P
        BY <2>1 DEF Pairs
      <4>3. MapHas(map, Meaning(own, envp, Len(own), j), P)
        BY <1>1 DEF j
      <4> HIDE DEF P, x
      <4>4. Adds(Meaning(own, envp, Len(own), j), x, Meaning(own, envp, Len(own), next))
        <5>1. envp[j + 1].equals =>
                  Adds(Meaning(own, envp, Len(own), j), envp[j + 1],
                       Meaning(own, envp, Len(own), j + 1))
          BY <4>1, GivenMeans, Zenon
        <5> QED
          BY <4>1, <5>1
      <4>5. MapHas(Merged(x), Meaning(own, envp, Len(own), next), P)
        BY <4>2, <4>3, <4>4, EntryIsMerged, Zenon
      <4> QED
        BY <2>4, <4>1, <4>5
    <3>3. /\ next' - 1 = next /\ next' <= Len(envp) + 1 /\ next' \in Nat \ {0}
          /\ \A k \in 1 .. next : envp[k].equals
      BY <1>1, <1>2, <2>1, <2>4, <3>1
    <3>4. EnvTypes'
      BY <1>1, <3>1, <3>3 DEF EnvTypes
    <3>5. Merging'
      BY <3>1, <3>2, <3>3 DEF Merging
    <3>6. Laying' /\ Searching'
      BY <1>1, <3>1 DEF Laying, Searching
    <3>7. ProgramIsMeant'
      BY <3>1, NotPrepared
    <3> QED
      BY <3>4, <3>5, <3>6, <3>7 DEF EnvInv
  <2> QED
    BY <1>4, <2>2, <2>3, <2>4 DEF MergeGiven, Merge
<1> QED
  BY <1>3, <1>4

-----------------------------------------------------------------------------
(* The block. *)

\* What is merged has lengths, and its texts have room.
LEMMA MapLists ==
    ASSUME EnvTypes, NEW v, MapHas(map, v, Pairs(own, envp))
    PROVE  /\ Len(map) \in Nat /\ DOMAIN map = 1 .. Len(map)
           /\ \A k \in 1 .. Len(map) :
                 /\ Len(map[k].name) \in Nat /\ Len(map[k].val) \in Nat
                 /\ StrSize(map[k]) \in Nat
                 /\ StrSize(map[k]) >= Len(map[k].name) + Len(map[k].val) + 2
                 /\ \E q \in Nat : StrSize(map[k]) = q * Ptr
<1>1. map \in Seq(Pairs(own, envp))
  BY DEF MapHas
<1>2. Len(map) \in Nat /\ DOMAIN map = 1 .. Len(map)
  BY <1>1
<1>3. ASSUME NEW k \in 1 .. Len(map) PROVE Len(map[k].name) \in Nat /\ Len(map[k].val) \in Nat
  <2>1. map[k] \in Pairs(own, envp)
    BY <1>1, <1>3
  <2>2. PICK x \in ToSet(own) \cup ToSet(envp) : map[k] = [name |-> x.name, val |-> x.val]
    BY <2>1 DEF Pairs
  <2>3. Len(x.name) \in Nat /\ Len(x.val) \in Nat
    BY EnvLists DEF IsEnv
  <2> QED
    BY <2>2, <2>3
<1> QED
  BY <1>2, <1>3, StrSizeIsWhole, Zenon

\* A text more is laid behind the others.
LEMMA OneMoreOffset ==
    ASSUME NEW m, NEW n \in Nat, NEW off, Offsets(off, m, n),
           StrSize(m[n + 1]) \in Nat, \E q \in Nat : StrSize(m[n + 1]) = q * Ptr
    PROVE  \E to : Offsets(to, m, n + 1) /\ to[n + 1] = off[n] + StrSize(m[n + 1])
<1> DEFINE t == off[n] + StrSize(m[n + 1])
           to == [k \in 0 .. n + 1 |-> IF k = n + 1 THEN t ELSE off[k]]
<1>1. /\ off \in [0 .. n -> Nat] /\ off[0] = 0
      /\ \A k \in 1 .. n : off[k] = off[k - 1] + StrSize(m[k])
      /\ \A k \in 0 .. n : \E q \in Nat : off[k] = q * Ptr
  BY DEF Offsets
<1>2. n \in 0 .. n /\ n + 1 - 1 = n /\ n + 1 \in Nat
  OBVIOUS
<1>3. t \in Nat
  BY <1>1, <1>2
<1>4. \E q \in Nat : t = q * Ptr
  <2>1. PICK q \in Nat : off[n] = q * Ptr
    BY <1>1, <1>2
  <2>2. PICK r \in Nat : StrSize(m[n + 1]) = r * Ptr
    OBVIOUS
  <2>3. \A b, c \in Nat : b * Ptr + c * Ptr = (b + c) * Ptr /\ b + c \in Nat
    BY PointerHasSize
  <2> QED
    BY <2>1, <2>2, <2>3
<1> HIDE DEF t
<1>5. /\ to \in [0 .. n + 1 -> Nat] /\ to[n + 1] = t
      /\ \A k \in 0 .. n : to[k] = off[k]
  BY <1>1, <1>3
<1> HIDE DEF to
<1>6. to[0] = 0
  BY <1>1, <1>5
<1>7. \A k \in 1 .. n + 1 : to[k] = to[k - 1] + StrSize(m[k])
  <2> TAKE k \in 1 .. n + 1
  <2>1. CASE k = n + 1
    BY <1>2, <1>5, <2>1 DEF t
  <2>2. CASE k # n + 1
    <3>1. k \in 1 .. n /\ k \in 0 .. n /\ k - 1 \in 0 .. n
      BY <2>2
    <3> QED
      BY <1>1, <1>5, <3>1
  <2> QED
    BY <2>1, <2>2
<1>8. \A k \in 0 .. n + 1 : \E q \in Nat : to[k] = q * Ptr
  <2>1. \A k \in 0 .. n + 1 : k \in 0 .. n \/ k = n + 1
    OBVIOUS
  <2> QED
    BY <1>1, <1>4, <1>5, <2>1
<1>9. Offsets(to, m, n + 1)
  BY <1>5, <1>6, <1>7, <1>8 DEF Offsets
<1> QED
  BY <1>5, <1>9 DEF t

LEMMA CountEntryKeeps == ASSUME EnvInv, CountEntry PROVE EnvInv'
<1> DEFINE v == Meaning(own, envp, Len(own), Len(envp))
           j == next - 1
<1>1. /\ envPc = "count" /\ next <= Len(map) /\ next \in Nat \ {0} /\ EnvTypes
      /\ \A k \in 1 .. Len(envp) : envp[k].equals
      /\ MapHas(map, v, Pairs(own, envp))
      /\ block = << >> /\ envErrno = "old" /\ ~hasEnv
  BY DEF EnvInv, EnvTypes, Merging, Laying, Searching, CountEntry
<1>2. PICK off : Offsets(off, map, j) /\ size = next * Ptr + off[j]
  BY <1>1 DEF EnvInv, Laying
<1>3. /\ own' = own /\ envp' = envp /\ dirs' = dirs /\ slash' = slash /\ map' = map
      /\ block' = block /\ hasEnv' = hasEnv /\ envErrno' = envErrno /\ envPc' = "count"
      /\ next' = next + 1 /\ size' = size + Ptr + StrSize(map[next])
  BY <1>1 DEF CountEntry, inputVars
<1>4. Len(map) \in Nat /\ j \in Nat /\ j + 1 = next /\ next' - 1 = next /\ next' \in Nat \ {0}
  BY <1>1, <1>3, MapLists
<1>5. next \in 1 .. Len(map) /\ next' <= Len(map) + 1
  BY <1>1, <1>3, <1>4
<1>6. StrSize(map[next]) \in Nat /\ \E q \in Nat : StrSize(map[next]) = q * Ptr
  BY <1>1, <1>5, MapLists
<1>7. PICK to : Offsets(to, map, next) /\ to[next] = off[j] + StrSize(map[next])
  <2>1. StrSize(map[j + 1]) \in Nat /\ \E q \in Nat : StrSize(map[j + 1]) = q * Ptr
    BY <1>4, <1>6
  <2>2. \E t : Offsets(t, map, j + 1) /\ t[j + 1] = off[j] + StrSize(map[j + 1])
    BY <1>2, <1>4, <2>1, OneMoreOffset
  <2> QED
    BY <1>4, <2>2
<1>8. size' = next' * Ptr + to[next]
  <2>1. off[j] \in Nat
    <3>1. off \in [0 .. j -> Nat] /\ j \in 0 .. j
      BY <1>2, <1>4 DEF Offsets
    <3> QED
      BY <3>1
  <2>2. \A n, d, b \in Nat : n * Ptr + d + Ptr + b = (n + 1) * Ptr + (d + b)
    BY PointerHasSize
  <2>3. next \in Nat
    BY <1>1
  <2> DEFINE s == StrSize(map[next])
  <2>4. next * Ptr + off[j] + Ptr + s = (next + 1) * Ptr + (off[j] + s)
    BY <1>6, <2>1, <2>2, <2>3, Zenon
  <2> QED
    BY <1>2, <1>3, <1>7, <2>4, Zenon
<1> HIDE DEF v, j
<1>9. EnvTypes'
  BY <1>1, <1>3, <1>4 DEF EnvTypes
<1>10. Merging'
  BY <1>1, <1>3, <1>5 DEF Merging, v
<1>11. Laying'
  BY <1>1, <1>3, <1>4, <1>7, <1>8 DEF Laying
<1>12. Searching'
  BY <1>1, <1>3 DEF Searching
<1>13. ProgramIsMeant'
  BY <1>3, NotPrepared
<1> QED
  BY <1>9, <1>10, <1>11, <1>12, <1>13 DEF EnvInv

LEMMA AllocateBlockKeeps == ASSUME EnvInv, AllocateBlock PROVE EnvInv'
<1> DEFINE v == Meaning(own, envp, Len(own), Len(envp))
<1>1. /\ envPc = "count" /\ next > Len(map) /\ next <= Len(map) + 1 /\ next \in Nat \ {0}
      /\ EnvTypes /\ \A k \in 1 .. Len(envp) : envp[k].equals
      /\ MapHas(map, v, Pairs(own, envp))
      /\ block = << >> /\ envErrno = "old" /\ ~hasEnv
  BY DEF EnvInv, EnvTypes, Merging, Laying, Searching, AllocateBlock
<1>2. CASE EnvFails("ENOMEM")
  BY <1>1, <1>2, FailureKeeps
<1>3. CASE EnvGoes("write") /\ UNCHANGED <<inputVars, map, size, block, hasEnv, exec, envErrno>>
  <2>1. /\ own' = own /\ envp' = envp /\ dirs' = dirs /\ slash' = slash /\ map' = map
        /\ size' = size /\ block' = block /\ hasEnv' = hasEnv /\ envErrno' = envErrno
        /\ envPc' = "write" /\ next' = 1
    BY <1>3 DEF inputVars, EnvGoes
  <2>2. Len(map) \in Nat /\ next - 1 = Len(map) /\ next = Len(map) + 1
    BY <1>1, MapLists
  <2>3. PICK off : Offsets(off, map, Len(map)) /\ size = (Len(map) + 1) * Ptr + off[Len(map)]
    BY <1>1, <2>2 DEF EnvInv, Laying
  <2>4. block = [k \in 1 .. 1 - 1 |-> Laid(map[k], Len(map), off[k - 1])]
    <3>1. 1 .. 1 - 1 = {}
      OBVIOUS
    <3> QED
      BY <1>1, <3>1
  <2> HIDE DEF v
  <2>5. EnvTypes'
    BY <1>1, <2>1 DEF EnvTypes, EnvStages
  <2>6. Merging'
    BY <1>1, <2>1, <2>2 DEF Merging, v
  <2>7. Laying'
    BY <2>1, <2>3, <2>4 DEF Laying
  <2>8. Searching'
    BY <1>1, <2>1 DEF Searching
  <2>9. ProgramIsMeant'
    BY <2>1, NotPrepared
  <2> QED
    BY <2>5, <2>6, <2>7, <2>8, <2>9 DEF EnvInv
<1> QED
  BY <1>2, <1>3 DEF AllocateBlock

\* The names of the map are those of both lists, and each has its value.
LEMMA MeaningIsMeant ==
    ASSUME EnvTypes
    PROVE  LET v == Meaning(own, envp, Len(own), Len(envp))
           IN  DOMAIN v = Names /\ \A name \in Names : v[name] = Meant(name)
<1> DEFINE v == Meaning(own, envp, Len(own), Len(envp))
<1>1. DOMAIN own = 1 .. Len(own) /\ DOMAIN envp = 1 .. Len(envp)
  BY EnvLists
<1>2. /\ \A name : Vals(own, Len(own), name) = Values(own, name)
      /\ \A name : Vals(envp, Len(envp), name) = Values(envp, name)
  BY <1>1 DEF Vals, Values
<1>3. DOMAIN v = NamesTo(own, Len(own)) \cup NamesTo(envp, Len(envp))
  BY DEF Meaning
<1>4. DOMAIN v = Names
  <2>1. ASSUME NEW name \in DOMAIN v PROVE name \in Names
    <3>1. CASE name \in NamesTo(own, Len(own))
      <4>1. PICK k \in 1 .. Len(own) : own[k].equals /\ own[k].name = name
        BY <3>1 DEF NamesTo
      <4>2. own[k] \in ToSet(own)
        BY EnvLists
      <4> QED
        BY <4>1, <4>2 DEF Names
    <3>2. CASE name \in NamesTo(envp, Len(envp))
      <4>1. PICK k \in 1 .. Len(envp) : envp[k].equals /\ envp[k].name = name
        BY <3>2 DEF NamesTo
      <4>2. envp[k] \in ToSet(envp)
        BY EnvLists
      <4> QED
        BY <4>1, <4>2 DEF Names
    <3> QED
      BY <1>3, <2>1, <3>1, <3>2
  <2>2. ASSUME NEW name \in Names PROVE name \in DOMAIN v
    <3>1. PICK x \in ToSet(own) \cup ToSet(envp) : x.equals /\ x.name = name
      BY <2>2 DEF Names
    <3>2. CASE x \in ToSet(own)
      <4>1. PICK k \in 1 .. Len(own) : own[k] = x
        BY <3>2, EnvLists
      <4> QED
        BY <1>3, <3>1, <4>1 DEF NamesTo
    <3>3. CASE x \in ToSet(envp)
      <4>1. PICK k \in 1 .. Len(envp) : envp[k] = x
        BY <3>3, EnvLists
      <4> QED
        BY <1>3, <3>1, <4>1 DEF NamesTo
    <3> QED
      BY <3>1, <3>2, <3>3
  <2> QED
    BY <2>1, <2>2
<1>5. \A name \in DOMAIN v : v[name] = Meant(name)
  BY <1>2 DEF Meaning, Meant
<1> QED
  BY <1>4, <1>5

\* As many entries as names
LEMMA EachNameOnce ==
    ASSUME NEW m, NEW v, NEW P, MapHas(m, v, P)
    PROVE  /\ Len(m) = Cardinality(DOMAIN v)
           /\ {m[k].name : k \in 1 .. Len(m)} = DOMAIN v
<1> DEFINE n == Len(m)
           f == [k \in 1 .. n |-> m[k].name]
<1>1. n \in Nat
  BY DEF MapHas
<1>2. /\ \A k \in 1 .. n : m[k].name \in DOMAIN v
      /\ \A name \in DOMAIN v : \E k \in 1 .. n : m[k].name = name
      /\ \A k, l \in 1 .. n : m[k].name = m[l].name => k = l
  BY DEF MapHas
<1> HIDE DEF n
<1>3. /\ f \in [1 .. n -> DOMAIN v]
      /\ \A k, l \in 1 .. n : f[k] = f[l] => k = l
      /\ \A name \in DOMAIN v : \E k \in 1 .. n : f[k] = name
  BY <1>2
<1> HIDE DEF f
<1>4. f \in Bijection(1 .. n, DOMAIN v)
  BY <1>3 DEF Bijection, Injection, Surjection, IsInjective
<1>5. ExistsBijection(1 .. n, DOMAIN v)
  BY <1>4 DEF ExistsBijection
<1>6. Cardinality(DOMAIN v) = n
  BY <1>1, <1>5, FS_CountingElements
<1>7. {m[k].name : k \in 1 .. n} = DOMAIN v
  BY <1>2
<1> QED
  BY <1>6, <1>7 DEF n

\* The block that is written is good.
LEMMA BlockIsGood ==
    ASSUME EnvTypes, \A k \in 1 .. Len(envp) : envp[k].equals,
           MapHas(map, Meaning(own, envp, Len(own), Len(envp)), Pairs(own, envp)),
           NEW off, Offsets(off, map, Len(map)),
           size = (Len(map) + 1) * Ptr + off[Len(map)],
           block = [k \in 1 .. Len(map) |-> Laid(map[k], Len(map), off[k - 1])]
    PROVE  GoodBlock
<1> DEFINE v == Meaning(own, envp, Len(own), Len(envp))
           n == Len(map)
<1>1. n \in Nat /\ \A k \in 1 .. n : /\ Len(map[k].name) \in Nat /\ Len(map[k].val) \in Nat
                                     /\ StrSize(map[k]) \in Nat
                                     /\ StrSize(map[k]) >= Len(map[k].name) + Len(map[k].val) + 2
  BY MapLists
<1>2. /\ n = Cardinality(DOMAIN v) /\ {map[k].name : k \in 1 .. n} = DOMAIN v
      /\ \A k \in 1 .. n : map[k].name \in DOMAIN v /\ map[k].val = v[map[k].name]
  <2>1. n = Cardinality(DOMAIN v) /\ {map[k].name : k \in 1 .. n} = DOMAIN v
    BY EachNameOnce
  <2> QED
    BY <2>1 DEF MapHas
<1>3. DOMAIN v = Names /\ \A name \in Names : v[name] = Meant(name)
  BY MeaningIsMeant
<1> HIDE DEF v, n
<1>4. block = [k \in 1 .. n |-> Laid(map[k], n, off[k - 1])]
  BY DEF n
<1>5. DOMAIN block = 1 .. n /\ Len(block) = n
  BY <1>1, <1>4
<1>6. \A k \in 1 .. n : /\ block[k].from = (n + 1) * Ptr + off[k - 1]
                        /\ block[k].name = map[k].name /\ block[k].val = map[k].val
  <2> TAKE k \in 1 .. n
  <2>1. block[k] = Laid(map[k], n, off[k - 1])
    BY <1>4
  <2> QED
    BY <2>1 DEF Laid
<1>7. /\ off \in [0 .. n -> Nat] /\ \A k \in 1 .. n : off[k] = off[k - 1] + StrSize(map[k])
      /\ \A k \in 0 .. n : \E q \in Nat : off[k] = q * Ptr
  BY DEF Offsets, n
<1>8. {p.name : p \in ToSet(block)} = Names
  <2>1. ToSet(block) = {block[k] : k \in 1 .. n}
    BY <1>5 DEF ToSet
  <2>2. {p.name : p \in ToSet(block)} = {block[k].name : k \in 1 .. n}
    <3>1. \A p \in ToSet(block) : \E k \in 1 .. n : p = block[k]
      BY <2>1
    <3>2. \A k \in 1 .. n : block[k] \in ToSet(block)
      BY <2>1
    <3>3. ASSUME NEW p \in ToSet(block) PROVE p.name \in {block[k].name : k \in 1 .. n}
      <4>1. PICK k \in 1 .. n : p = block[k]
        BY <3>1
      <4> QED
        BY <4>1, Zenon
    <3>4. ASSUME NEW k \in 1 .. n PROVE block[k].name \in {p.name : p \in ToSet(block)}
      BY <3>2
    <3>5. {p.name : p \in ToSet(block)} \subseteq {block[k].name : k \in 1 .. n}
      BY <3>3
    <3>6. {block[k].name : k \in 1 .. n} \subseteq {p.name : p \in ToSet(block)}
      BY <3>4
    <3> QED
      BY <3>5, <3>6, Zenon
  <2>3. {block[k].name : k \in 1 .. n} = {map[k].name : k \in 1 .. n}
    BY <1>6
  <2> QED
    BY <1>2, <1>3, <2>2, <2>3
<1>9. \A x \in ToSet(envp) : x.equals
  BY EnvLists
<1>10. ASSUME NEW k \in 1 .. n
       PROVE  /\ block[k].val = Meant(block[k].name)
              /\ block[k].from >= (Len(block) + 1) * Ptr /\ block[k].from % Ptr = 0
              /\ LET end == block[k].from + Len(block[k].name) + Len(block[k].val) + 2
                 IN end <= (IF k < Len(block) THEN block[k + 1].from ELSE size)
  <2> DEFINE h == (n + 1) * Ptr
             d == off[k - 1]
             a == Len(map[k].name)
             b == Len(map[k].val)
             s == StrSize(map[k])
  <2>1. block[k].val = Meant(block[k].name)
    <3>1. /\ block[k].name = map[k].name /\ block[k].val = map[k].val
          /\ map[k].name \in Names /\ map[k].val = v[map[k].name]
      BY <1>2, <1>3, <1>6
    <3> QED
      BY <1>3, <3>1, Zenon
  <2>2. k - 1 \in 0 .. n /\ k \in 0 .. n
    BY <1>1
  <2>3. h \in Nat /\ d \in Nat /\ a \in Nat /\ b \in Nat /\ s \in Nat /\ s >= a + b + 2
    <3>1. h \in Nat
      BY <1>1, PointerHasSize
    <3>2. d \in Nat
      BY <1>7, <2>2
    <3> QED
      BY <1>1, <3>1, <3>2
  <2>4. block[k].from = h + d /\ off[k] = d + s
    BY <1>6, <1>7
  <2>5. PICK q \in Nat : d = q * Ptr
    BY <1>7, <2>2
  <2>6. h + d = (n + 1 + q) * Ptr /\ n + 1 + q \in Nat
    BY <1>1, <2>5, PointerHasSize
  <2>7. block[k].from % Ptr = 0
    BY <2>4, <2>6, WholePointers
  <2>8. h + off[k] = IF k < n THEN block[k + 1].from ELSE size
    <3>1. CASE k < n
      <4>1. PICK l \in 1 .. n : l = k + 1 /\ l - 1 = k
        BY <1>1, <3>1
      <4>2. block[l].from = (n + 1) * Ptr + off[l - 1]
        BY <1>6
      <4> QED
        BY <3>1, <4>1, <4>2
    <3>2. CASE ~(k < n)
      <4>1. k = n
        BY <1>1, <3>2
      <4> QED
        BY <3>2, <4>1 DEF n
    <3> QED
      BY <3>1, <3>2
  <2> HIDE DEF h, d, a, b, s
  <2>9. h + d >= h /\ h + d + a + b + 2 <= h + (d + s)
    BY <2>3
  <2>10. block[k].from >= h /\ block[k].from + a + b + 2 <= h + off[k]
    BY <2>4, <2>9
  <2> QED
    BY <1>5, <1>6, <2>1, <2>7, <2>8, <2>10 DEF h, a, b
<1> QED
  BY <1>2, <1>3, <1>5, <1>8, <1>9, <1>10 DEF GoodBlock

\* A sequence one longer
LEMMA OneMoreElement ==
    ASSUME NEW S, NEW j \in Nat, NEW s \in [1 .. j -> S], NEW e, NEW t,
           NEW T, t \in [1 .. j + 1 -> T],
           \A k \in 1 .. j : s[k] = t[k], t[j + 1] = e
    PROVE  t = Append(s, e)
<1> DEFINE u == Append(s, e)
<1>1. s \in Seq(S \cup {e}) /\ Len(s) = j
  <2>1. s \in [1 .. j -> S \cup {e}]
    OBVIOUS
  <2> QED
    BY <2>1
<1>2. u \in Seq(S \cup {e}) /\ Len(u) = j + 1 /\ u[j + 1] = e /\ \A k \in 1 .. j : u[k] = s[k]
  BY <1>1
<1> HIDE DEF u
<1>3. u = [k \in 1 .. j + 1 |-> u[k]]
  BY <1>2
<1>4. \A k \in 1 .. j + 1 : u[k] = t[k]
  <2>1. \A k \in 1 .. j + 1 : k = j + 1 \/ k \in 1 .. j
    OBVIOUS
  <2> QED
    BY <1>2, <2>1
<1> QED
  BY <1>3, <1>4 DEF u

\* A good block stays so.
LEMMA GoodBlockStays ==
    ASSUME GoodBlock, own' = own, envp' = envp, block' = block, size' = size
    PROVE  GoodBlock'
<1>1. Names' = Names /\ ToSet(envp)' = ToSet(envp) /\ ToSet(block)' = ToSet(block)
  BY Zenon DEF Names
<1>2. \A name : Meant(name)' = Meant(name)
  BY Zenon DEF Meant, Values
<1>3. \A k \in DOMAIN block : Meant(block[k].name)' = Meant(block[k].name)
  BY Zenon DEF Meant, Values
<1> QED
  BY <1>1, <1>2, <1>3, Zenon DEF GoodBlock

\* PATH is a list.
LEMMA PathIsList ==
    ASSUME EnvTypes
    PROVE  /\ Len(dirs) \in Nat /\ DOMAIN dirs = 1 .. Len(dirs) /\ next \in Nat \ {0}
           /\ \A k \in 1 .. Len(dirs) : dirs[k] \in Found
  BY DEF EnvTypes

LEMMA WriteEntryKeeps == ASSUME EnvInv, WriteEntry PROVE EnvInv'
<1> DEFINE v == Meaning(own, envp, Len(own), Len(envp))
           n == Len(map)
           j == next - 1
<1>1. /\ envPc = "write" /\ next <= n + 1 /\ next \in Nat \ {0}
      /\ EnvTypes /\ \A k \in 1 .. Len(envp) : envp[k].equals
      /\ MapHas(map, v, Pairs(own, envp))
      /\ envErrno = "old" /\ ~hasEnv
  BY DEF EnvInv, EnvTypes, Merging, Searching, WriteEntry
<1>2. PICK off : /\ Offsets(off, map, n) /\ size = (n + 1) * Ptr + off[n]
                 /\ block = [k \in 1 .. j |-> Laid(map[k], n, off[k - 1])]
  BY <1>1 DEF EnvInv, Laying
<1>3. n \in Nat /\ j \in Nat /\ next = j + 1 /\ j <= n
  BY <1>1, MapLists
<1>4. Len(block) = j /\ DOMAIN block = 1 .. j
  BY <1>2, <1>3
<1>5. CASE next <= n
  <2>1. /\ own' = own /\ envp' = envp /\ dirs' = dirs /\ slash' = slash /\ map' = map
        /\ block' = Append(block, [from |-> End, name |-> map[next].name, val |-> map[next].val])
        /\ size' = size /\ hasEnv' = hasEnv /\ envErrno' = envErrno
        /\ envPc' = "write" /\ next' = next + 1
    BY <1>1, <1>5 DEF WriteEntry, inputVars
  <2>2. off \in [0 .. n -> Nat] /\ off[0] = 0
        /\ \A k \in 1 .. n : off[k] = off[k - 1] + StrSize(map[k])
    BY <1>2 DEF Offsets
  <2>3. End = (n + 1) * Ptr + off[j]
    <3> DEFINE h == (n + 1) * Ptr
    <3>1. h \in Nat
      BY <1>3, PointerHasSize
    <3>2. CASE j = 0
      <4>1. block = << >>
        BY <1>2, <1>3, <1>4, <3>2
      <4> QED
        BY <2>2, <3>1, <3>2, <4>1 DEF End
    <3>3. CASE j # 0
      <4>1. j \in 1 .. n /\ j \in 1 .. j
        BY <1>3, <3>3
      <4>2. block[j] = Laid(map[j], n, off[j - 1])
        BY <1>2, <4>1
      <4>3. block[j].from = h + off[j - 1] /\ StrSize(block[j]) = StrSize(map[j])
        BY <4>2 DEF Laid, StrSize
      <4>4. block # << >> /\ Last(block) = block[j]
        BY <1>4, <3>3 DEF Last
      <4>5. End = h + off[j - 1] + StrSize(map[j])
        BY <4>3, <4>4 DEF End
      <4>6. off[j] = off[j - 1] + StrSize(map[j]) /\ off[j - 1] \in Nat
        BY <2>2, <4>1
      <4>7. StrSize(map[j]) \in Nat
        BY <1>1, <4>1, MapLists
      <4> HIDE DEF h
      <4> QED
        BY <3>1, <4>5, <4>6, <4>7 DEF h
    <3> QED
      BY <3>2, <3>3
  <2>4. block' = [k \in 1 .. next |-> Laid(map[k], n, off[k - 1])]
    <3> DEFINE e == Laid(map[next], n, off[j])
               t == [k \in 1 .. next |-> Laid(map[k], n, off[k - 1])]
               S == {block[k] : k \in 1 .. j}
               T == {t[k] : k \in 1 .. next}
    <3>1. block' = Append(block, e)
      BY <2>1, <2>3 DEF Laid
    <3>2. \A k \in 1 .. j : block[k] = t[k]
      BY <1>2, <1>3
    <3>3. t[next] = e
      BY <1>3
    <3>4. t \in [1 .. j + 1 -> T]
      BY <1>3
    <3>5. block \in [1 .. j -> S] /\ t[j + 1] = e
      BY <1>2, <1>3, <3>3
    <3> HIDE DEF e, t, j, S, T, n, v
    <3>6. t = Append(block, e)
      BY <1>3, <3>2, <3>4, <3>5, OneMoreElement
    <3> QED
      BY <3>1, <3>6 DEF t
  <2>5. next' - 1 = next /\ next' <= n + 1 /\ next' \in Nat \ {0}
    BY <1>1, <1>3, <1>5, <2>1
  <2> HIDE DEF v, j
  <2>6. EnvTypes'
    BY <1>1, <2>1, <2>5 DEF EnvTypes
  <2>7. Merging'
    BY <1>1, <2>1, <2>5 DEF Merging, v
  <2>8. Laying'
    BY <1>2, <2>1, <2>4, <2>5 DEF Laying
  <2>9. Searching'
    BY <1>1, <2>1 DEF Searching
  <2>10. ProgramIsMeant'
    BY <2>1, NotPrepared
  <2> QED
    BY <2>6, <2>7, <2>8, <2>9, <2>10 DEF EnvInv
<1>6. CASE ~(next <= n)
  <2>1. /\ UNCHANGED inputVars /\ block' = block /\ size' = size /\ hasEnv' = TRUE
        /\ envErrno' = envErrno /\ envPc' = "search" /\ next' = 1
    BY <1>6 DEF WriteEntry, EnvGoes
  <2>2. j = n
    BY <1>3, <1>6
  <2>3. GoodBlock
    BY <1>1, <1>2, <2>2, BlockIsGood
  <2>4. GoodBlock'
    BY <2>1, <2>3, GoodBlockStays DEF inputVars
  <2> QED
    BY <1>1, <2>1, <2>4, ToSearch
<1> QED
  BY <1>5, <1>6

-----------------------------------------------------------------------------
(* The search. *)

\* Where there is something of the name
There(d) == {k \in DOMAIN d : d[k] \notin {"missing", "no file"}}

\* What FirstIsTaken says is to be executed
FirstOf(d) == IF There(d) # {} /\ d[Min(There(d))] = "executable" THEN Min(There(d)) ELSE NotFound

\* Numbers
LEMMA NotBefore ==
    ASSUME NEW l \in Nat
    PROVE  \A a, b \in 1 .. l : a \notin 1 .. b - 1 => a \in Nat /\ b <= a
  OBVIOUS

LEMMA SameNumber ==
    ASSUME NEW l \in Nat
    PROVE  \A a \in Nat, b \in 1 .. l : b <= a /\ a <= b => a = b
  OBVIOUS

\* The directory that ends the search is the first that has something of the name.
LEMMA FirstThere ==
    ASSUME NEW d, NEW l \in Nat, DOMAIN d = 1 .. l, NEW n \in 1 .. l,
           \A k \in 1 .. n - 1 : k \in DOMAIN d => d[k] \in {"missing", "no file"},
           d[n] \notin {"missing", "no file"}
    PROVE  FirstOf(d) = IF d[n] = "executable" THEN n ELSE NotFound
<1>1. n \in There(d)
  BY DEF There
<1>2. ASSUME NEW k \in There(d) PROVE k \in Nat /\ n <= k
  <2>1. k \in 1 .. l /\ d[k] \notin {"missing", "no file"}
    BY <1>2 DEF There
  <2>2. k \notin 1 .. n - 1
    BY <2>1
  <2> QED
    BY <2>1, <2>2, NotBefore, Zenon
<1>3. Min(There(d)) \in There(d) /\ \A k \in There(d) : Min(There(d)) <= k
  BY <1>1, <1>2 DEF Min
<1>4. Min(There(d)) = n
  <2>1. Min(There(d)) \in Nat /\ n <= Min(There(d)) /\ Min(There(d)) <= n
    BY <1>1, <1>2, <1>3
  <2> QED
    BY <2>1, SameNumber, Zenon
<1> QED
  BY <1>1, <1>4 DEF FirstOf

LEMMA NothingThere ==
    ASSUME NEW d, DOMAIN d = 1 .. Len(d),
           \A k \in 1 .. Len(d) : d[k] \in {"missing", "no file"}
    PROVE  FirstOf(d) = NotFound
  BY DEF FirstOf, There

\* The end of the search
LEMMA EndOfSearch ==
    ASSUME EnvInv, envPc = "search", NEW k, NEW er, SearchEnds(k, er),
           er # "old" \/ (er = envErrno /\ k # NotFound),
           er = "EINVAL" => er = envErrno,
           ~slash => k = FirstOf(dirs)
    PROVE  EnvInv'
<1>1. /\ own' = own /\ envp' = envp /\ dirs' = dirs /\ slash' = slash
      /\ next' = next /\ block' = block /\ size' = size /\ hasEnv' = hasEnv
      /\ envPc' = "prepared" /\ exec' = k /\ envErrno' = er
  BY DEF SearchEnds, inputVars
<1>2. /\ EnvTypes /\ (hasEnv => GoodBlock) /\ (~hasEnv => envErrno # "old")
      /\ (envErrno = "EINVAL" => \E x \in ToSet(envp) : ~x.equals)
  BY DEF EnvInv, Searching
<1>3. EnvTypes'
  BY <1>1, <1>2 DEF EnvTypes, EnvStages
<1>4. Merging' /\ Laying'
  BY <1>1 DEF Merging, Laying
<1>5. hasEnv' => GoodBlock'
  BY <1>1, <1>2, GoodBlockStays
<1>6. /\ ~hasEnv' => er # "old"
      /\ er = "EINVAL" => \E x \in ToSet(envp) : ~x.equals
  BY <1>1, <1>2
<1>7. Searching'
  BY <1>1, <1>5, <1>6 DEF Searching
<1>8. BlockIsMerged'
  BY <1>5 DEF GoodBlock, BlockIsMerged
<1>9. FirstIsTaken'
  BY <1>1 DEF FirstIsTaken, FirstOf, There
<1>10. ErrnoIsSet'
  BY <1>1, <1>6 DEF ErrnoIsSet
<1> QED
  BY <1>3, <1>4, <1>7, <1>8, <1>9, <1>10 DEF EnvInv, ProgramIsMeant

LEMMA SearchKeeps == ASSUME EnvInv, Search PROVE EnvInv'
<1>1. /\ envPc = "search" /\ EnvTypes /\ (hasEnv => GoodBlock) /\ next \in Nat \ {0}
      /\ Len(dirs) \in Nat /\ DOMAIN dirs = 1 .. Len(dirs)
      /\ \A k \in 1 .. Len(dirs) : dirs[k] \in Found
  <2>1. envPc = "search" /\ EnvTypes /\ (hasEnv => GoodBlock)
    BY DEF Search, EnvInv, Searching
  <2> QED
    BY <2>1, PathIsList
<1>2. ~slash => \A k \in 1 .. next - 1 : k \in DOMAIN dirs => dirs[k] \in {"missing", "no file"}
  BY <1>1 DEF EnvInv, Searching
<1>3. CASE slash
  <2>1. CASE SearchEnds(ItsName, envErrno)
    BY <1>1, <1>3, <2>1, EndOfSearch DEF ItsName, NotFound
  <2>2. CASE SearchEnds(NotFound, "ENOMEM")
    BY <1>1, <1>3, <2>2, EndOfSearch
  <2> QED
    BY <1>3, <2>1, <2>2 DEF Search
<1>4. CASE ~slash /\ next > Len(dirs)
  <2>1. ASSUME NEW k \in 1 .. Len(dirs) PROVE dirs[k] \in {"missing", "no file"}
    <3>1. k \in 1 .. next - 1 /\ k \in DOMAIN dirs
      BY <1>1, <1>4
    <3> QED
      BY <1>4, <1>2, <3>1, Zenon
  <2>2. FirstOf(dirs) = NotFound
    BY <1>1, <2>1, NothingThere
  <2>3. SearchEnds(NotFound, "ENOENT")
    BY <1>4 DEF Search
  <2> QED
    BY <1>1, <1>4, <2>2, <2>3, EndOfSearch
<1>5. CASE ~slash /\ ~(next > Len(dirs)) /\ dirs[next] = "executable"
  <2>1. next \in 1 .. Len(dirs) /\ dirs[next] = "executable"
    BY <1>1, <1>5
  <2>2. dirs[next] \notin {"missing", "no file"} /\ next # NotFound
    BY <1>1, <2>1 DEF NotFound
  <2>3. FirstOf(dirs) = next
    BY <1>1, <1>5, <1>2, <2>1, <2>2, FirstThere
  <2>4. SearchEnds(next, envErrno)
    BY <1>5, Zenon DEF Search
  <2> QED
    BY <1>1, <2>2, <2>3, <2>4, EndOfSearch
<1>6. CASE ~slash /\ ~(next > Len(dirs)) /\ dirs[next] # "executable" /\ GoesOn(dirs[next])
  <2>1. /\ own' = own /\ envp' = envp /\ dirs' = dirs /\ slash' = slash
        /\ block' = block /\ size' = size /\ hasEnv' = hasEnv
        /\ envPc' = "search" /\ next' = next + 1 /\ envErrno' = ErrnoOf(dirs[next])
    BY <1>1, <1>6 DEF Search, inputVars
  <2>2. envErrno' \notin {"old", "EINVAL"}
    BY <2>1 DEF ErrnoOf
  <2>3. EnvTypes'
    BY <1>1, <2>1 DEF EnvTypes
  <2>4. Merging' /\ Laying'
    BY <2>1 DEF Merging, Laying
  <2>5. hasEnv' => GoodBlock'
    BY <1>1, <2>1, GoodBlockStays
  <2>6. \A k \in 1 .. next' - 1 : k \in DOMAIN dirs => dirs[k] \in {"missing", "no file"}
    <3>1. \A k \in 1 .. next' - 1 : k \in 1 .. next - 1 \/ k = next
      BY <1>1, <2>1
    <3> QED
      BY <1>1, <1>6, <1>2, <3>1 DEF GoesOn
  <2>7. Searching'
    BY <2>1, <2>2, <2>5, <2>6 DEF Searching
  <2>8. ProgramIsMeant'
    BY <2>1, NotPrepared
  <2> QED
    BY <2>3, <2>4, <2>7, <2>8 DEF EnvInv
<1>7. CASE ~slash /\ ~(next > Len(dirs)) /\ dirs[next] # "executable" /\ ~GoesOn(dirs[next])
  <2>1. /\ next \in 1 .. Len(dirs) /\ dirs[next] # "executable"
        /\ dirs[next] \notin {"missing", "no file"}
    <3>1. next \in 1 .. Len(dirs)
      BY <1>1, <1>7
    <3> QED
      BY <1>7, <3>1, Zenon DEF GoesOn
  <2>2. FirstOf(dirs) = NotFound
    BY <1>1, <1>7, <1>2, <2>1, FirstThere
  <2>3. SearchEnds(NotFound, ErrnoOf(dirs[next]))
    BY <1>7, Zenon DEF Search
  <2>4. ErrnoOf(dirs[next]) \notin {"old", "EINVAL"}
    BY DEF ErrnoOf
  <2> QED
    BY <1>1, <1>7, <2>2, <2>3, <2>4, EndOfSearch
<1> QED
  BY <1>1, <1>3, <1>4, <1>5, <1>6, <1>7

LEMMA EnvironmentStarts == EnvironmentInit => EnvInv
<1> SUFFICES ASSUME EnvironmentInit PROVE EnvInv
  OBVIOUS
<1>1. dirs \in Seq(Found)
  <2>1. MaxDirs \in Nat /\ dirs \in UNION {[1 .. m -> Found] : m \in 0 .. MaxDirs}
    BY EnvironmentAssumption DEF EnvironmentInit, BoundedSeq, SeqOf
  <2>2. PICK m \in 0 .. MaxDirs : dirs \in [1 .. m -> Found]
    BY <2>1
  <2> QED
    BY <2>1, <2>2
<1>2. EnvTypes
  <2>1. slash \in BOOLEAN /\ hasEnv \in BOOLEAN /\ own \in Own /\ envp \in Given
    BY Zenon DEF EnvironmentInit
  <2>2. next \in Nat \ {0} /\ envPc \in EnvStages
    BY DEF EnvStages, EnvironmentInit
  <2> QED
    BY <1>1, <2>1, <2>2, Zenon DEF EnvTypes
<1>3. Merging
  <2>1. Len(own) \in Nat /\ next = 1 /\ next - 1 = 0 /\ map = << >>
    BY <1>2, EnvLists DEF EnvironmentInit
  <2>2. MapHas(map, Meaning(own, envp, 0, 0), Pairs(own, envp))
    BY <2>1, NothingMeans
  <2> QED
    BY <2>1, <2>2 DEF Merging, EnvironmentInit
<1>4. Laying /\ Searching
  BY DEF Laying, Searching, EnvironmentInit
<1>5. ProgramIsMeant
  BY DEF ProgramIsMeant, BlockIsMerged, FirstIsTaken, ErrnoIsSet, Prepared, EnvironmentInit
<1> QED
  BY <1>2, <1>3, <1>4, <1>5 DEF EnvInv

LEMMA EnvironmentStutters == ASSUME EnvInv, UNCHANGED environmentVars PROVE EnvInv'
<1>1. /\ own' = own /\ envp' = envp /\ dirs' = dirs /\ slash' = slash /\ map' = map
      /\ next' = next /\ block' = block /\ size' = size /\ hasEnv' = hasEnv
      /\ envPc' = envPc /\ exec' = exec /\ envErrno' = envErrno
  BY DEF environmentVars
<1>2. EnvTypes'
  BY <1>1 DEF EnvInv, EnvTypes
<1>3. Merging'
  BY <1>1 DEF EnvInv, Merging
<1>4. Laying'
  BY <1>1 DEF EnvInv, Laying
<1>5. GoodBlock => GoodBlock'
  BY <1>1, GoodBlockStays
<1>6. Searching'
  BY <1>1, <1>5 DEF EnvInv, Searching
<1>7. BlockIsMerged'
  BY <1>1, <1>5 DEF EnvInv, Searching, BlockIsMerged, GoodBlock, Prepared
<1>8. FirstIsTaken' /\ ErrnoIsSet'
  BY <1>1 DEF EnvInv, ProgramIsMeant, FirstIsTaken, ErrnoIsSet, Prepared
<1> QED
  BY <1>2, <1>3, <1>4, <1>6, <1>7, <1>8 DEF EnvInv, ProgramIsMeant

\* The inductive invariant of the preparation: the map has what the entries so far mean,
\* what was counted is the room that the texts take, and the search has passed over
\* nothing but directories without a file.
THEOREM EnvironmentInvariance == EnvironmentSpec => []EnvInv
<1>1. EnvInv /\ [EnvironmentNext]_environmentVars => EnvInv'
  <2> SUFFICES ASSUME EnvInv, [EnvironmentNext]_environmentVars PROVE EnvInv'
    OBVIOUS
  <2>1. CASE MergeOwn
    BY <2>1, MergeOwnKeeps
  <2>2. CASE MergeGiven
    BY <2>2, MergeGivenKeeps
  <2>3. CASE CountEntry
    BY <2>3, CountEntryKeeps
  <2>4. CASE AllocateBlock
    BY <2>4, AllocateBlockKeeps
  <2>5. CASE WriteEntry
    BY <2>5, WriteEntryKeeps
  <2>6. CASE Search
    BY <2>6, SearchKeeps
  <2>7. CASE UNCHANGED environmentVars
    BY <2>7, EnvironmentStutters
  <2> QED
    BY <2>1, <2>2, <2>3, <2>4, <2>5, <2>6, <2>7 DEF EnvironmentNext
<1> QED
  BY <1>1, EnvironmentStarts, PTL DEF EnvironmentSpec

\* For any environments and any PATH: the block of a new program has every name of both
\* once, with the value given last, in texts that lie apart within what was allocated;
\* the first executable is taken; and a failure has an errno that says why.
THEOREM ProgramStaysMeant == EnvironmentSpec => []ProgramIsMeant
<1>1. EnvInv => ProgramIsMeant
  BY DEF EnvInv
<1> QED
  BY <1>1, EnvironmentInvariance, PTL

-----------------------------------------------------------------------------
(***************************************************************************)
(* Feedback.  What has been read of the text, with a separator after it,   *)
(* is the entries stored so far, each with its separator: the second loop  *)
(* stores an entry for every separator it passes, and passes no more than  *)
(* the first loop counted.                                                 *)
(***************************************************************************)

Chars == EnvChar \cup {Separator, Equals}

\* The text as the second loop reads it, where the end is a separator too
Marked == Append(Text, Separator)

LEMMA LeastIs ==
    ASSUME NEW T \in SUBSET Nat, T # {}
    PROVE  Min(T) \in T /\ \A y \in T : Min(T) <= y
<1> DEFINE R == {ss \in Nat \X Nat : ss[1] < ss[2]}
<1>1. R = OpToRel(<, Nat)
  BY DEF OpToRel
<1>2. IsWellFoundedOn(R, Nat)
  BY <1>1, NatLessThanWellFounded
<1>3. PICK x \in T : \A y \in T : ~(<<y, x>> \in R)
  BY <1>2, WFMin, Zenon
<1>4. \A y \in T : x <= y
  <2> TAKE y \in T
  <2>1. x \in Nat /\ y \in Nat /\ <<y, x>> \in Nat \X Nat
    OBVIOUS
  <2>2. <<y, x>> \in R <=> y < x
    BY <2>1
  <2> QED
    BY <1>3, <2>1, <2>2
<1> QED
  BY <1>4 DEF Min

\* An entry is cut at the next separator.
LEMMA CutIs ==
    ASSUME NEW t \in Seq(EnvChar), Text = t, NEW i \in 1 .. Len(t)
    PROVE  /\ Cut(i) \in i .. Len(t) + 1
           /\ Marked[Cut(i)] = Separator
           /\ \A k \in i .. Cut(i) - 1 : Marked[k] # Separator
<1> DEFINE T == {k \in i .. Len(t) : t[k] = Separator} \cup {Len(t) + 1}
           m == Min(T)
<1>1. Cut(i) = m
  BY DEF Cut
<1>2. T \in SUBSET Nat /\ T # {}
  OBVIOUS
<1>3. m \in T /\ \A y \in T : m <= y
  BY <1>2, LeastIs
<1>4. m \in i .. Len(t) + 1 /\ (m # Len(t) + 1 => t[m] = Separator)
  BY <1>3
<1>5. \A k \in i .. m - 1 : k \in i .. Len(t) /\ k \notin T
  BY <1>3, <1>4
<1>6. \A k \in i .. m - 1 : k \in i .. Len(t) /\ t[k] # Separator
  BY <1>5
<1> HIDE DEF m, T
<1>7. \A k \in 1 .. Len(t) : Marked[k] = t[k]
  BY DEF Marked
<1>8. Marked[Len(t) + 1] = Separator
  BY DEF Marked
<1> QED
  BY <1>1, <1>4, <1>6, <1>7, <1>8

\* Two sequences joined
LEMMA Joining ==
    ASSUME NEW S, NEW x \in Seq(S), NEW y \in Seq(S)
    PROVE  /\ x \o y \in Seq(S) /\ Len(x \o y) = Len(x) + Len(y)
           /\ \A k \in 1 .. Len(x) + Len(y) :
                 (x \o y)[k] = IF k <= Len(x) THEN x[k] ELSE y[k - Len(x)]
OBVIOUS

Line(e) == e \o <<Separator>>

\* What has been read up to the next cut is what had been read and its line.
LEMMA ReadOn ==
    ASSUME NEW t \in Seq(EnvChar), Text = t, NEW i \in 1 .. Len(t),
           NEW c \in i .. Len(t) + 1, Marked[c] = Separator
    PROVE  /\ SubSeq(t, i, c - 1) \in Seq(Chars)
           /\ SubSeq(Marked, 1, (c + 1) - 1) = SubSeq(Marked, 1, i - 1) \o Line(SubSeq(t, i, c - 1))
<1> DEFINE m == Marked
           x == SubSeq(m, 1, i - 1)
           y == SubSeq(t, i, c - 1)
           z == SubSeq(m, 1, c)
<1>1. m \in Seq(Chars) /\ Len(m) = Len(t) + 1 /\ \A k \in 1 .. Len(t) : m[k] = t[k]
  BY DEF Marked, Chars
<1>2. t \in Seq(Chars) /\ Separator \in Chars
  BY DEF Chars
<1>3. m[c] = Separator
  OBVIOUS
<1> HIDE DEF m
<1>4. x \in Seq(Chars) /\ Len(x) = i - 1 /\ \A k \in 1 .. i - 1 : x[k] = m[k]
  BY <1>1
<1>5. z \in Seq(Chars) /\ Len(z) = c /\ \A k \in 1 .. c : z[k] = m[k]
  BY <1>1
<1>6. y \in Seq(Chars) /\ Len(y) = c - i /\ \A k \in 1 .. c - i : y[k] = t[i + k - 1]
  BY <1>2
<1> HIDE DEF x, y, z
<1> DEFINE l == y \o <<Separator>>
           w == x \o l
<1>7. l \in Seq(Chars) /\ Len(l) = c - i + 1 /\ l[c - i + 1] = Separator
      /\ \A k \in 1 .. c - i : l[k] = y[k]
  <2>1. <<Separator>> \in Seq(Chars) /\ Len(<<Separator>>) = 1 /\ <<Separator>>[1] = Separator
    BY <1>2
  <2>2. /\ l \in Seq(Chars) /\ Len(l) = Len(y) + 1
        /\ \A k \in 1 .. Len(y) + 1 :
              l[k] = IF k <= Len(y) THEN y[k] ELSE <<Separator>>[k - Len(y)]
    BY <1>6, <2>1, Joining, Zenon
  <2> HIDE DEF l
  <2>3. c - i \in Nat /\ Len(y) = c - i
    BY <1>6
  <2> QED
    BY <2>1, <2>2, <2>3
<1> HIDE DEF l
<1>8. w \in Seq(Chars) /\ Len(w) = c
      /\ \A k \in 1 .. c : w[k] = IF k <= i - 1 THEN x[k] ELSE l[k - (i - 1)]
  <2>1. i - 1 \in Nat /\ (i - 1) + (c - i + 1) = c
    OBVIOUS
  <2>2. /\ w \in Seq(Chars) /\ Len(w) = Len(x) + Len(l)
        /\ \A k \in 1 .. Len(x) + Len(l) : w[k] = IF k <= Len(x) THEN x[k] ELSE l[k - Len(x)]
    BY <1>4, <1>7, Joining, Zenon
  <2> QED
    BY <1>4, <1>7, <2>1, <2>2
<1> HIDE DEF w
<1>9. ASSUME NEW k \in 1 .. c PROVE w[k] = z[k]
  <2>1. CASE k <= i - 1
    <3>1. k \in 1 .. i - 1
      BY <2>1
    <3> QED
      BY <1>4, <1>5, <1>8, <2>1, <3>1
  <2>2. CASE k > i - 1 /\ k # c
    <3>1. k - (i - 1) \in 1 .. c - i /\ i + (k - (i - 1)) - 1 = k /\ k \in 1 .. Len(t)
      BY <2>2
    <3>2. w[k] = y[k - (i - 1)]
      BY <1>7, <1>8, <2>2, <3>1
    <3>3. w[k] = t[k]
      BY <1>6, <3>1, <3>2
    <3> QED
      BY <1>1, <1>5, <3>1, <3>3
  <2>3. CASE k = c
    <3>1. k - (i - 1) = c - i + 1
      BY <2>3
    <3> QED
      BY <1>3, <1>5, <1>7, <1>8, <2>3, <3>1
  <2> QED
    BY <2>1, <2>2, <2>3
<1>10. w = z
  BY <1>5, <1>8, <1>9
<1>11. (c + 1) - 1 = c
  OBVIOUS
<1> QED
  BY <1>6, <1>10, <1>11 DEF w, x, y, z, l, m, Line

\* g lists what the first sequences of s are, joined.
Joins(g, s) ==
    g[0] = << >> /\ \A i \in 1 .. Len(s) : g[i] = g[i - 1] \o s[i]

\* The sequences of a list joined are what has been joined at its end.
LEMMA FlatIs ==
    ASSUME NEW S, NEW s \in Seq(Seq(S)), NEW g \in [0 .. Len(s) -> Seq(S)], Joins(g, s)
    PROVE  FlattenSeq(s) = g[Len(s)]
<1> DEFINE n == Len(s)
           flatten[i \in 1 .. n] == IF i = 1 THEN s[i] ELSE flatten[i - 1] \o s[i]
           Defines(h) == h = [i \in 1 .. n |-> IF i = 1 THEN s[i] ELSE h[i - 1] \o s[i]]
           f == [i \in 1 .. n |-> g[i]]
<1>1. n \in Nat
  OBVIOUS
<1>2. FlattenSeq(s) = IF n = 0 THEN s ELSE flatten[n]
  BY DEF FlattenSeq
<1>3. CASE n = 0
  <2>1. s = << >>
    BY <1>3
  <2> QED
    BY <1>2, <1>3, <2>1 DEF Joins
<1>4. CASE n # 0
  <2>1. \A i \in 1 .. n : s[i] \in Seq(S)
    OBVIOUS
  <2> HIDE DEF n
  <2>2. \A i \in 1 .. n : g[i] = g[i - 1] \o s[i]
    BY DEF Joins, n
  <2>3. \A i \in 1 .. n : i # 1 => i - 1 \in 1 .. n
    BY <1>1
  <2>4. ASSUME NEW i \in 1 .. n
        PROVE  f[i] = IF i = 1 THEN s[i] ELSE f[i - 1] \o s[i]
    <3>1. CASE i = 1
      <4>1. g[0] = << >> /\ i - 1 = 0
        BY <3>1 DEF Joins
      <4>2. << >> \o s[i] = s[i]
        BY <2>1
      <4> QED
        BY <2>2, <3>1, <4>1, <4>2
    <3>2. CASE i # 1
      BY <2>2, <2>3, <3>2
    <3> QED
      BY <3>1, <3>2
  <2>5. Defines(f)
    BY <2>4
  <2>6. flatten = CHOOSE h : Defines(h)
    BY DEF flatten
  <2>7. Defines(flatten)
    BY <2>5, <2>6, Zenon
  <2> HIDE DEF flatten, f
  <2>8. \A i \in 1 .. n : flatten[i] = IF i = 1 THEN s[i] ELSE flatten[i - 1] \o s[i]
    BY <2>7
  <2> DEFINE T == {i \in 1 .. n : flatten[i] # f[i]}
  <2>9. T = {}
    <3> SUFFICES ASSUME T # {} PROVE FALSE
      OBVIOUS
    <3>1. T \in SUBSET Nat
      BY <1>1
    <3> DEFINE i == Min(T)
    <3>2. i \in T /\ \A y \in T : i <= y
      BY <3>1, LeastIs
    <3> HIDE DEF i
    <3>3. i \in 1 .. n /\ flatten[i] # f[i]
      BY <3>2
    <3>4. CASE i = 1
      BY <2>4, <2>8, <3>3, <3>4
    <3>5. CASE i # 1
      <4>1. i - 1 \in 1 .. n
        BY <2>3, <3>3, <3>5
      <4>2. ~(i <= i - 1)
        BY <3>3, <1>1
      <4>3. i - 1 \notin T
        BY <3>2, <4>2
      <4>4. flatten[i - 1] = f[i - 1]
        BY <4>1, <4>3
      <4> QED
        BY <2>4, <2>8, <3>3, <3>5, <4>4
    <3> QED
      BY <3>4, <3>5
  <2>10. n \in 1 .. n
    BY <1>1, <1>4
  <2>11. flatten[n] = f[n]
    BY <2>9, <2>10
  <2> QED
    BY <1>2, <1>4, <2>10, <2>11 DEF n, f
<1> QED
  BY <1>3, <1>4

\* A pair that was cut from an entry is the entry.
LEMMA PairIs ==
    ASSUME NEW x \in Seq(Chars), IsEntry(x)
    PROVE  /\ Pair(x).name \in Seq(Chars) /\ Pair(x).value \in Seq(Chars)
           /\ Pair(x).name \o <<Equals>> \o Pair(x).value = x
<1> DEFINE T == {j \in DOMAIN x : x[j] = Equals}
           k == Min(T)
           l == SubSeq(x, 1, k - 1)
           r == SubSeq(x, k + 1, Len(x))
           q == <<Equals>>
<1>1. T \in SUBSET Nat /\ T # {}
  BY DEF IsEntry, Range
<1>2. k \in T
  BY <1>1, LeastIs
<1>3. k \in 1 .. Len(x) /\ x[k] = Equals
  BY <1>2
<1>4. Pair(x).name = l /\ Pair(x).value = r
  BY DEF Pair
<1> HIDE DEF k, T
<1>5. l \in Seq(Chars) /\ Len(l) = k - 1 /\ \A j \in 1 .. k - 1 : l[j] = x[j]
  BY <1>3
<1>6. r \in Seq(Chars) /\ Len(r) = Len(x) - k /\ \A j \in 1 .. Len(x) - k : r[j] = x[j + k]
  BY <1>3
<1>7. q \in Seq(Chars) /\ Len(q) = 1 /\ q[1] = Equals
  BY DEF Chars
<1> HIDE DEF l, r, q
<1>8. /\ l \o q \in Seq(Chars) /\ Len(l \o q) = Len(l) + Len(q)
      /\ \A j \in 1 .. Len(l) + Len(q) : (l \o q)[j] = IF j <= Len(l) THEN l[j] ELSE q[j - Len(l)]
  BY <1>5, <1>7, Joining, Zenon
<1> DEFINE lq == l \o q
<1>9. /\ lq \in Seq(Chars) /\ Len(lq) = k
      /\ \A j \in 1 .. k : lq[j] = x[j]
  BY <1>3, <1>5, <1>7, <1>8
<1> HIDE DEF lq
<1>10. /\ lq \o r \in Seq(Chars) /\ Len(lq \o r) = Len(lq) + Len(r)
       /\ \A j \in 1 .. Len(lq) + Len(r) :
             (lq \o r)[j] = IF j <= Len(lq) THEN lq[j] ELSE r[j - Len(lq)]
  <2>1. lq \in Seq(Chars) /\ r \in Seq(Chars)
    BY <1>6, <1>9
  <2> QED
    BY <2>1, Joining, Zenon
<1> DEFINE w == lq \o r
<1>11. /\ w \in Seq(Chars) /\ Len(w) = Len(x)
       /\ \A j \in 1 .. Len(x) : w[j] = x[j]
  <2>1. Len(x) \in Nat /\ k + (Len(x) - k) = Len(x)
    BY <1>3
  <2>2. w \in Seq(Chars) /\ Len(w) = Len(x)
    BY <1>6, <1>9, <1>10, <2>1
  <2>3. ASSUME NEW j \in 1 .. Len(x)
        PROVE  w[j] = x[j]
    <3>1. w[j] = IF j <= k THEN lq[j] ELSE r[j - k]
      BY <1>6, <1>9, <1>10, <2>1
    <3>2. CASE j <= k
      <4>1. j \in 1 .. k
        BY <1>3, <3>2
      <4> QED
        BY <1>9, <3>1, <3>2, <4>1
    <3>3. CASE ~(j <= k)
      <4>1. j - k \in 1 .. Len(x) - k /\ (j - k) + k = j
        BY <1>3, <3>3
      <4> QED
        BY <1>6, <3>1, <3>3, <4>1
    <3> QED
      BY <3>2, <3>3
  <2> QED
    BY <2>2, <2>3
<1> HIDE DEF w
<1>12. w = x
  BY <1>11
<1> QED
  BY <1>4, <1>5, <1>6, <1>12 DEF w, lq, q

\* The separators before i, of the text and after it
Marks(i) == {k \in 1 .. i - 1 : Marked[k] = Separator}

\* A cut passes one separator.
LEMMA OneMark ==
    ASSUME NEW t \in Seq(EnvChar), Text = t, NEW i \in 1 .. Len(t)
    PROVE  /\ IsFiniteSet(Marks(i))
           /\ Cardinality(Marks(Cut(i) + 1)) = Cardinality(Marks(i)) + 1
<1> DEFINE c == Cut(i)
<1>1. /\ c \in i .. Len(t) + 1 /\ Marked[c] = Separator
      /\ \A k \in i .. c - 1 : Marked[k] # Separator
  BY CutIs
<1> HIDE DEF c
<1>2. Marks(c + 1) = Marks(i) \cup {c}
  <2>1. 1 .. (c + 1) - 1 = (1 .. i - 1) \cup (i .. c - 1) \cup {c}
    BY <1>1
  <2> QED
    BY <1>1, <2>1 DEF Marks
<1>3. c \notin Marks(i)
  BY <1>1 DEF Marks
<1>4. IsFiniteSet(1 .. i - 1)
  BY FS_Interval
<1>5. IsFiniteSet(Marks(i))
  BY <1>4, FS_Subset DEF Marks
<1> QED
  BY <1>2, <1>3, <1>5, FS_AddElement DEF c

\* The whole text has a separator more than the first loop sees.
LEMMA MarksAreCounted ==
    ASSUME NEW t \in Seq(EnvChar), Text = t, NEW i \in 1 .. Len(t) + 2
    PROVE  /\ Cardinality(Marks(i)) \in Nat /\ Separators \in Nat
           /\ Cardinality(Marks(i)) <= Separators + 1
<1> DEFINE n == Len(t)
           T == {k \in DOMAIN t : t[k] = Separator}
<1>1. n \in Nat /\ DOMAIN t = 1 .. n /\ Separators = Cardinality(T)
  BY DEF Separators
<1>2. IsFiniteSet(T)
  <2>1. IsFiniteSet(1 .. n) /\ T \subseteq 1 .. n
    BY <1>1, FS_Interval
  <2> QED
    BY <2>1, FS_Subset
<1>3. Marks(i) \subseteq T \cup {n + 1}
  <2>1. \A k \in 1 .. n : Marked[k] = t[k]
    BY DEF Marked
  <2> QED
    BY <1>1, <2>1 DEF Marks
<1>4. n + 1 \notin T
  BY <1>1
<1>5. IsFiniteSet(T \cup {n + 1}) /\ Cardinality(T \cup {n + 1}) = Cardinality(T) + 1
      /\ Cardinality(T) \in Nat
  BY <1>2, <1>4, FS_AddElement, FS_CardinalityType
<1> HIDE DEF T, n
<1>6. Cardinality(Marks(i)) <= Cardinality(T) + 1 /\ IsFiniteSet(Marks(i))
  BY <1>3, <1>5, FS_Subset
<1> QED
  BY <1>1, <1>5, <1>6, FS_CardinalityType

Lines(es) == [i \in DOMAIN es |-> Line(es[i])]

\* The entries, each with its separator, are what has been read.
AreRead ==
    \E g \in [0 .. Len(entries) -> Seq(Chars)] :
       Joins(g, Lines(entries)) /\ g[Len(entries)] = SubSeq(Marked, 1, start - 1)

AllEntries == \A i \in DOMAIN entries : IsEntry(entries[i])
AllStored == AllEntries /\ start > Len(Text)

Errnos ==
    {"none", "ENOMEM", "EINVAL", "ENFILE", "ENOENT", "EPIPE", "EIO", "EBADMSG",
     "ETIMEDOUT", "EINTR"}

FeedbackTypeOK ==
    /\ call \in [args : Args, text : Seq(EnvChar)]
    /\ fbPc \in {"count", "store", "connect", "build", "send", "receive", "returned"}
    /\ start \in 1 .. Len(Text) + 2
    /\ entries \in Seq(Seq(Chars))
    /\ told \in [done : BOOLEAN, errno : Errnos]

Reading ==
    /\ AreRead
    /\ Cardinality(Marks(start)) = Len(entries)
    /\ entries # << >> => Text # << >> /\ room = Counted

Telling ==
    /\ fbPc = "count" => entries = << >>
    /\ fbPc = "store" => room = Counted /\ AllEntries
    /\ fbPc \in {"connect", "build", "send", "receive"} => AllStored
    /\ fbPc \in {"send", "receive"} => document = WholeDocument
    /\ fbPc = "receive" => received = WholeDocument
    /\ fbPc # "returned" => ~told.done

\* Once it is told, the call has returned and nothing changes what was told.
Accounted == told.done => AllStored /\ received = WholeDocument /\ reply = "0" /\ reply # None

FeedbackInv == FeedbackTypeOK /\ Reading /\ Telling /\ Accounted

LEMMA FeedbackStarts ==
    FeedbackInit => FeedbackInv
<1> SUFFICES ASSUME FeedbackInit PROVE FeedbackInv
  OBVIOUS
<1>1. call.text \in Seq(EnvChar) /\ call \in [args : Args, text : Seq(EnvChar)]
  BY FeedbackAssumption DEF FeedbackInit, BoundedSeq, SeqOf
<1>2. Len(Text) \in Nat
  BY <1>1 DEF Text
<1>3. entries = << >> /\ start = 1 /\ fbPc = "count" /\ told = [done |-> FALSE, errno |-> "none"]
  BY DEF FeedbackInit
<1>4. FeedbackTypeOK
  <2>1. start \in 1 .. Len(Text) + 2
    BY <1>2, <1>3
  <2>2. entries \in Seq(Seq(Chars))
    BY <1>3
  <2>3. told \in [done : BOOLEAN, errno : Errnos]
    BY <1>3 DEF Errnos
  <2> QED
    BY <1>1, <1>3, <2>1, <2>2, <2>3 DEF FeedbackTypeOK
<1>5. AreRead
  <2> DEFINE g == [i \in 0 .. Len(entries) |-> << >>]
  <2>1. Len(entries) = 0 /\ DOMAIN entries = {}
    BY <1>3
  <2>2. g \in [0 .. Len(entries) -> Seq(Chars)] /\ g[0] = << >>
    BY <2>1
  <2>3. Len(Lines(entries)) = 0
    BY <2>1, <1>3 DEF Lines
  <2>4. Joins(g, Lines(entries))
    BY <2>2, <2>3 DEF Joins
  <2>5. SubSeq(Marked, 1, start - 1) = << >>
    <3>1. Marked \in Seq(Chars)
      BY <1>1 DEF Marked, Text, Chars
    <3> QED
      BY <1>3, <3>1
  <2> QED
    BY <2>1, <2>2, <2>4, <2>5 DEF AreRead
<1>6. Cardinality(Marks(start)) = Len(entries)
  <2>1. Marks(start) = {}
    BY <1>3 DEF Marks
  <2> QED
    BY <1>3, <2>1, FS_EmptySet
<1> QED
  BY <1>3, <1>4, <1>5, <1>6 DEF FeedbackInv, Reading, Telling, Accounted

\* What has been read stays read.
LEMMA ReadingIsKept ==
    ASSUME Reading, UNCHANGED <<call, start, entries, room>>
    PROVE  Reading'
BY DEF Reading, AreRead, Joins, Lines, Line, Marked, Marks, Text, Counted, Separators

LEMMA EntryIsStored ==
    ASSUME FeedbackInv, StoreEntry
    PROVE  FeedbackInv'
<1> DEFINE t == Text
           c == Cut(start)
           n == Len(entries)
           new == SubSeq(t, start, c - 1)
<1>1. t \in Seq(EnvChar) /\ start \in 1 .. Len(t) /\ fbPc = "store" /\ n \in Nat
      /\ entries \in Seq(Seq(Chars)) /\ room = Counted /\ AllEntries /\ ~told.done
      /\ Cardinality(Marks(start)) = n
  BY DEF FeedbackInv, FeedbackTypeOK, Telling, Reading, StoreEntry, IsOver, Text
<1>2. /\ entries' = Append(entries, new) /\ start' = c + 1
      /\ UNCHANGED <<call, room, document, received, reply, waited>>
      /\ IF IsEntry(new) THEN UNCHANGED <<fbPc, told>> ELSE Gives(FALSE, "EINVAL")
  BY DEF StoreEntry
<1>3. Text' = t /\ Marked' = Marked /\ Counted' = Counted
  BY <1>2 DEF Text, Marked, Counted, Separators
<1>4. c \in start .. Len(t) + 1 /\ Marked[c] = Separator
  BY <1>1, CutIs
<1>5. /\ new \in Seq(Chars)
      /\ SubSeq(Marked, 1, (c + 1) - 1) = SubSeq(Marked, 1, start - 1) \o Line(new)
  BY <1>1, <1>4, ReadOn
<1>6. Cardinality(Marks(c + 1)) = n + 1
  BY <1>1, OneMark
<1> HIDE DEF t, c, new
<1>7. /\ entries' \in Seq(Seq(Chars)) /\ Len(entries') = n + 1
      /\ entries'[n + 1] = new /\ \A i \in 1 .. n : entries'[i] = entries[i]
      /\ DOMAIN entries' = 1 .. n + 1 /\ DOMAIN entries = 1 .. n
  BY <1>1, <1>2, <1>5
<1>8. start' \in 1 .. Len(t) + 2 /\ Len(t) \in Nat /\ t # << >>
  BY <1>1, <1>2, <1>4
<1>9. AreRead'
  <2>1. PICK g \in [0 .. n -> Seq(Chars)] :
            Joins(g, Lines(entries)) /\ g[n] = SubSeq(Marked, 1, start - 1)
    BY DEF FeedbackInv, Reading, AreRead
  <2> DEFINE h == [i \in 0 .. n + 1 |-> IF i = n + 1 THEN SubSeq(Marked, 1, c) ELSE g[i]]
  <2>2. SubSeq(Marked, 1, c) \in Seq(Chars)
    <3>1. Marked \in Seq(Chars) /\ Len(Marked) = Len(t) + 1
      BY <1>1 DEF Marked, Chars, t
    <3> QED
      BY <1>1, <1>4, <3>1
  <2>3. h \in [0 .. n + 1 -> Seq(Chars)]
    BY <1>1, <2>2
  <2>4. h[0] = g[0] /\ h[n + 1] = SubSeq(Marked, 1, c) /\ h[n] = g[n]
        /\ \A i \in 1 .. n : h[i] = g[i] /\ h[i - 1] = g[i - 1]
    <3>1. 0 \in 0 .. n + 1 /\ n \in 0 .. n + 1 /\ n + 1 \in 0 .. n + 1 /\ 0 # n + 1 /\ n # n + 1
      BY <1>1
    <3>2. \A i \in 1 .. n : /\ i \in 0 .. n + 1 /\ i - 1 \in 0 .. n + 1
                           /\ i # n + 1 /\ i - 1 # n + 1
      BY <1>1
    <3> QED
      BY <3>1, <3>2
  <2>5. Len(Lines(entries)) = n /\ \A i \in 1 .. n : Lines(entries)[i] = Line(entries[i])
    BY <1>1, <1>7 DEF Lines
  <2>6. Len(Lines(entries')) = n + 1
        /\ \A i \in 1 .. n + 1 : Lines(entries')[i] = Line(entries'[i])
    BY <1>1, <1>7 DEF Lines
  <2>7. (c + 1) - 1 = c /\ (n + 1) - 1 = n
    BY <1>1, <1>4
  <2>8. h[n + 1] = h[n] \o Line(entries'[n + 1])
    BY <1>5, <1>7, <2>1, <2>4, <2>7
  <2>9. ASSUME NEW i \in 1 .. n
        PROVE  h[i] = h[i - 1] \o Line(entries'[i])
    <3>1. g[i] = g[i - 1] \o Lines(entries)[i]
      BY <2>1, <2>5 DEF Joins
    <3> QED
      BY <1>7, <2>4, <2>5, <3>1
  <2> HIDE DEF h
  <2>10. \A i \in 1 .. n + 1 : h[i] = h[i - 1] \o Lines(entries')[i]
    <3> TAKE i \in 1 .. n + 1
    <3>1. CASE i = n + 1
      <4>1. Lines(entries')[n + 1] = Line(entries'[n + 1])
        BY <2>6, <3>1
      <4>2. h[n + 1] = h[(n + 1) - 1] \o Lines(entries')[n + 1]
        BY <2>7, <2>8, <4>1
      <4> QED
        BY <3>1, <4>2, Zenon
    <3>2. CASE i # n + 1
      <4>1. i \in 1 .. n
        BY <1>1, <3>2
      <4> QED
        BY <2>6, <2>9, <4>1
    <3> QED
      BY <3>1, <3>2
  <2>11. Joins(h, Lines(entries'))
    BY <2>1, <2>4, <2>6, <2>10 DEF Joins
  <2>12. h[n + 1] = SubSeq(Marked', 1, start' - 1)
    BY <1>2, <1>3, <2>4, <2>7
  <2>14. \E f \in [0 .. Len(entries') -> Seq(Chars)] :
            Joins(f, Lines(entries')) /\ f[Len(entries')] = SubSeq(Marked', 1, start' - 1)
    BY <1>7, <2>3, <2>11, <2>12
  <2> QED
    BY <2>14 DEF AreRead, Joins, Lines, Line, Chars
<1>10. Reading'
  <2>1. Marks(start)' = Marks(c + 1)
    BY <1>2, <1>3 DEF Marks
  <2>2. (entries # << >> => Text # << >> /\ room = Counted)'
    BY <1>1, <1>2, <1>3, <1>8
  <2> QED
    BY <1>6, <1>7, <1>9, <2>1, <2>2 DEF Reading
<1>11. CASE IsEntry(new)
  <2>1. UNCHANGED <<fbPc, told>>
    BY <1>2, <1>11
  <2>2. FeedbackTypeOK'
    BY <1>2, <1>3, <1>7, <1>8, <2>1 DEF FeedbackInv, FeedbackTypeOK
  <2>3. AllEntries'
    <3> SUFFICES ASSUME NEW i \in 1 .. n + 1 PROVE IsEntry(entries'[i])
      BY <1>7 DEF AllEntries, IsEntry
    <3>1. CASE i = n + 1
      BY <1>7, <1>11, <3>1
    <3>2. CASE i # n + 1
      <4>1. i \in 1 .. n
        BY <1>1, <3>2
      <4> QED
        BY <1>1, <1>7, <4>1 DEF AllEntries
    <3> QED
      BY <3>1, <3>2
  <2>4. Telling' /\ Accounted'
    BY <1>1, <1>2, <1>3, <2>1, <2>3 DEF Telling, Accounted
  <2> QED
    BY <1>10, <2>2, <2>4 DEF FeedbackInv
<1>12. CASE ~IsEntry(new)
  <2>1. fbPc' = "returned" /\ told' = [done |-> FALSE, errno |-> "EINVAL"]
    BY <1>2, <1>12 DEF Gives, FbGoes
  <2>2. FeedbackTypeOK'
    <3>1. told' \in [done : BOOLEAN, errno : Errnos]
      BY <2>1 DEF Errnos
    <3> QED
      BY <1>2, <1>3, <1>7, <1>8, <2>1, <3>1 DEF FeedbackInv, FeedbackTypeOK
  <2>3. Telling' /\ Accounted'
    BY <2>1 DEF Telling, Accounted
  <2> QED
    BY <1>10, <2>2, <2>3 DEF FeedbackInv
<1> QED
  BY <1>11, <1>12

LEMMA FeedbackGoesOn ==
    ASSUME FeedbackInv, CallGoesOn
    PROVE  FeedbackInv'
<1>1. CASE Count
  <2>1. UNCHANGED <<call, start, entries, document, received, reply, waited>> /\ entries = << >>
        /\ fbPc = "count"
    BY <1>1 DEF Count, FeedbackInv, Telling
  <2>2. UNCHANGED <<Text, Marked, Counted>>
    BY <2>1 DEF Text, Marked, Counted, Separators
  <2>3. AreRead' /\ (Cardinality(Marks(start)) = Len(entries))'
    BY <2>1, <2>2 DEF FeedbackInv, Reading, AreRead, Joins, Lines, Line, Marks
  <2>4. Reading'
    BY <2>1, <2>3 DEF Reading
  <2>5. CASE Gives(FALSE, "ENOMEM")
    BY <2>1, <2>2, <2>4, <2>5
      DEF Gives, FbGoes, FeedbackInv, FeedbackTypeOK, Errnos, Telling, Accounted
  <2>6. CASE FbGoes("store") /\ room' = Counted /\ UNCHANGED told
    <3>1. AllEntries'
      BY <2>1 DEF AllEntries
    <3> QED
      BY <2>1, <2>2, <2>4, <2>6, <3>1
        DEF FbGoes, FeedbackInv, FeedbackTypeOK, Telling, Accounted
  <2> QED
    BY <1>1, <2>5, <2>6 DEF Count
<1>2. CASE StoreEntry
  BY <1>2, EntryIsStored
<1>3. ASSUME UNCHANGED <<call, start, room, entries, waited>>
      PROVE  /\ Reading' /\ UNCHANGED <<Text, Counted, AllStored, AllEntries, WholeDocument>>
             /\ (fbPc' \in {"count", "store", "connect", "build", "send", "receive", "returned"}
                 /\ told' \in [done : BOOLEAN, errno : Errnos] => FeedbackTypeOK')
  <2>1. Reading'
    BY <1>3, ReadingIsKept DEF FeedbackInv
  <2>2. UNCHANGED <<Text, Counted, WholeDocument>>
    BY <1>3 DEF Text, Counted, Separators, WholeDocument
  <2>3. UNCHANGED AllEntries /\ UNCHANGED AllStored
    BY <1>3, <2>2 DEF AllEntries, AllStored
  <2> QED
    BY <1>3, <2>1, <2>2, <2>3 DEF FeedbackInv, FeedbackTypeOK
<1>4. ASSUME UNCHANGED <<call, start, room, entries, waited>>,
             NEW x \in Errnos, Gives(FALSE, x)
      PROVE  FeedbackInv'
  <2>1. fbPc' = "returned" /\ told' = [done |-> FALSE, errno |-> x]
    BY <1>4 DEF Gives, FbGoes
  <2> QED
    BY <1>3, <1>4, <2>1 DEF FeedbackInv, Telling, Accounted
<1>5. CASE Stored
  <2>1. UNCHANGED <<call, start, room, entries, waited, document, received, reply, told>>
        /\ fbPc = "store" /\ fbPc' = "connect" /\ start > Len(Text)
    <3>1. ~IsOver <=> ~(start > Len(Text))
      BY DEF IsOver
    <3> QED
      BY <1>5, <3>1 DEF Stored, FbGoes, IsOver
  <2>2. AllStored
    BY <2>1 DEF FeedbackInv, Telling, AllStored
  <2> QED
    BY <1>3, <2>1, <2>2 DEF FeedbackInv, FeedbackTypeOK, Telling, Accounted
<1>6. CASE ConnectCore
  <2>1. UNCHANGED <<call, start, room, entries, waited, document, received, reply>>
        /\ fbPc = "connect"
    BY <1>6 DEF ConnectCore
  <2>2. ASSUME NEW x \in {"ENFILE", "ENOENT"}, Gives(FALSE, x)
        PROVE  FeedbackInv'
    BY <1>4, <2>1, <2>2 DEF Errnos
  <2>3. CASE FbGoes("build") /\ UNCHANGED told
    BY <1>3, <2>1, <2>3 DEF FbGoes, FeedbackInv, FeedbackTypeOK, Telling, Accounted
  <2> QED
    BY <1>6, <2>2, <2>3 DEF ConnectCore
<1>7. CASE BuildDocument
  <2>1. UNCHANGED <<call, start, room, entries, waited, received, reply>> /\ fbPc = "build"
    BY <1>7 DEF BuildDocument
  <2>2. CASE Gives(FALSE, "ENOMEM")
    BY <1>4, <2>1, <2>2 DEF Errnos
  <2>3. CASE document' = WholeDocument /\ FbGoes("send") /\ UNCHANGED told
    BY <1>3, <2>1, <2>3 DEF FbGoes, FeedbackInv, FeedbackTypeOK, Telling, Accounted
  <2> QED
    BY <1>7, <2>2, <2>3 DEF BuildDocument, IsSendable
<1>8. CASE SendDocument
  <2>1. UNCHANGED <<call, start, room, entries, document, waited, reply>> /\ fbPc = "send"
    BY <1>8 DEF SendDocument
  <2>2. CASE Gives(FALSE, "EPIPE")
    BY <1>4, <2>1, <2>2 DEF Errnos
  <2>3. CASE FbGoes("receive") /\ received' = document /\ UNCHANGED told
    BY <1>3, <2>1, <2>3 DEF FbGoes, FeedbackInv, FeedbackTypeOK, Telling, Accounted
  <2> QED
    BY <1>8, <2>2, <2>3 DEF SendDocument
<1>9. CASE ReceiveReply
  <2>1. UNCHANGED <<call, start, room, entries, document, waited, received, reply>>
        /\ fbPc = "receive" /\ reply # None
    BY <1>9 DEF ReceiveReply
  <2>2. CASE Gives(FALSE, "ENOMEM")
    BY <1>4, <2>1, <2>2 DEF Errnos
  <2>3. CASE Gives(Outcome(reply) = "none", Outcome(reply))
    <3>1. Outcome(reply) \in {"none", "EIO", "EBADMSG"} /\ (Outcome(reply) = "none" => reply = "0")
      BY DEF Outcome
    <3>2. CASE reply = "0"
      <4>1. (Outcome(reply) = "none") = TRUE /\ Outcome(reply) = "none"
        BY <3>2 DEF Outcome
      <4>2. fbPc' = "returned" /\ told' = [done |-> TRUE, errno |-> "none"]
        BY <2>3, <4>1 DEF Gives, FbGoes
      <4> QED
        BY <1>3, <2>1, <3>2, <4>2 DEF FeedbackInv, Telling, Accounted, Errnos
    <3>3. CASE reply # "0"
      <4>1. (Outcome(reply) = "none") = FALSE /\ Outcome(reply) \in Errnos
        BY <3>1, <3>3 DEF Errnos
      <4>2. Gives(FALSE, Outcome(reply))
        BY <2>3, <4>1
      <4> QED
        BY <1>4, <2>1, <4>1, <4>2
    <3> QED
      BY <3>2, <3>3
  <2> QED
    BY <1>9, <2>2, <2>3 DEF ReceiveReply
<1>10. CASE GiveUpWaiting
  BY <1>4, <1>10 DEF GiveUpWaiting, Errnos
<1> QED
  BY <1>1, <1>2, <1>5, <1>6, <1>7, <1>8, <1>9, <1>10 DEF CallGoesOn

LEMMA FeedbackIsKept ==
    FeedbackInv /\ [FeedbackNext]_fbVars => FeedbackInv'
<1> SUFFICES ASSUME FeedbackInv, [FeedbackNext]_fbVars PROVE FeedbackInv'
  OBVIOUS
<1>1. CASE CallGoesOn
  BY <1>1, FeedbackGoesOn
<1>2. ASSUME UNCHANGED <<call, start, room, entries>>
      PROVE  /\ Reading' /\ UNCHANGED <<Text, Counted, AllStored, AllEntries, WholeDocument>>
  <2>1. Reading'
    BY <1>2, ReadingIsKept DEF FeedbackInv
  <2>2. UNCHANGED <<Text, Counted, WholeDocument>>
    BY <1>2 DEF Text, Counted, Separators, WholeDocument
  <2>3. UNCHANGED AllEntries /\ UNCHANGED AllStored
    BY <1>2, <2>2 DEF AllEntries, AllStored
  <2> QED
    BY <2>1, <2>2, <2>3
<1>3. CASE InterruptWait
  <2>1. UNCHANGED <<call, start, room, entries, document, received, reply, waited>>
        /\ fbPc' = "returned" /\ told' = [done |-> FALSE, errno |-> "EINTR"]
    BY <1>3 DEF InterruptWait, Gives, FbGoes
  <2> QED
    BY <1>2, <2>1 DEF FeedbackInv, FeedbackTypeOK, Telling, Accounted, Errnos
<1>4. CASE Pass
  BY <1>2, <1>4 DEF Pass, FeedbackInv, FeedbackTypeOK, Telling, Accounted
<1>5. CASE CoreAnswers
  <2>1. UNCHANGED <<call, fbPc, start, room, entries, document, received, told>> /\ reply = None
    BY <1>5 DEF CoreAnswers
  <2> QED
    BY <1>2, <2>1 DEF FeedbackInv, FeedbackTypeOK, Telling, Accounted
<1>6. CASE UNCHANGED fbVars
  BY <1>2, <1>6 DEF fbVars, FeedbackInv, FeedbackTypeOK, Telling, Accounted
<1> QED
  BY <1>1, <1>3, <1>4, <1>5, <1>6 DEF FeedbackNext

\* What is stored has the room that was counted.
LEMMA StoredHaveRoom ==
    FeedbackInv => EntriesFit
<1> SUFFICES ASSUME FeedbackInv, entries # << >> PROVE Len(entries) < room
  BY DEF EntriesFit
<1>1. Text \in Seq(EnvChar) /\ start \in 1 .. Len(Text) + 2 /\ Text # << >> /\ room = Counted
      /\ Cardinality(Marks(start)) = Len(entries)
  BY DEF FeedbackInv, FeedbackTypeOK, Reading, Text
<1>2. Len(entries) <= Separators + 1 /\ Separators \in Nat /\ Len(entries) \in Nat
  BY <1>1, MarksAreCounted
<1>3. room = 1 + Separators + 1
  BY <1>1 DEF Counted
<1> QED
  BY <1>2, <1>3

\* What has been stored is the text again.
LEMMA StoredAreText ==
    FeedbackInv /\ AllStored =>
       Joined([i \in DOMAIN entries |-> Pair(entries[i])]) \in {Text, Append(Text, Separator)}
<1> SUFFICES ASSUME FeedbackInv, AllStored
             PROVE  Joined([i \in DOMAIN entries |-> Pair(entries[i])])
                       \in {Text, Append(Text, Separator)}
  OBVIOUS
<1> DEFINE n == Len(entries)
           pairs == [i \in DOMAIN entries |-> Pair(entries[i])]
           s == Lines(entries)
           PairLine(q) == q.name \o <<Equals>> \o q.value \o <<Separator>>
<1>1. /\ entries \in Seq(Seq(Chars)) /\ n \in Nat /\ DOMAIN entries = 1 .. n
      /\ Text \in Seq(EnvChar) /\ start \in {Len(Text) + 1, Len(Text) + 2}
      /\ Len(Text) \in Nat /\ \A i \in 1 .. n : IsEntry(entries[i]) /\ entries[i] \in Seq(Chars)
  BY DEF FeedbackInv, FeedbackTypeOK, AllStored, AllEntries, Text
<1>2. ASSUME NEW i \in 1 .. n
      PROVE  pairs[i].name \o <<Equals>> \o pairs[i].value \o <<Separator>> = s[i]
  <2> DEFINE x == entries[i]
             l == Pair(x).name
             r == Pair(x).value
  <2>1. pairs[i] = Pair(x) /\ s[i] = Line(x)
    BY <1>1 DEF Lines
  <2>2. l \in Seq(Chars) /\ r \in Seq(Chars) /\ l \o <<Equals>> \o r = x
    BY <1>1, PairIs
  <2> HIDE DEF l, r
  <2>3. l \o <<Equals>> \o r \o <<Separator>> = x \o <<Separator>>
    BY <2>2
  <2> QED
    BY <2>1, <2>3 DEF l, r, Line
<1>3. Joined(pairs) = FlattenSeq(s)
  <2>1. DOMAIN pairs = DOMAIN entries /\ DOMAIN s = DOMAIN entries
    BY DEF Lines
  <2>2. s = [i \in DOMAIN entries |-> s[i]]
    BY DEF Lines
  <2> HIDE DEF s, pairs
  <2>3. [i \in DOMAIN pairs |-> pairs[i].name \o <<Equals>> \o pairs[i].value \o <<Separator>>]
           = [i \in DOMAIN entries |-> s[i]]
    BY <1>1, <1>2, <2>1
  <2> QED
    BY <2>2, <2>3 DEF Joined
<1>4. s \in Seq(Seq(Chars)) /\ Len(s) = n
  <2>1. \A i \in 1 .. n : Line(entries[i]) \in Seq(Chars)
    BY <1>1 DEF Line, Chars
  <2>2. s = [i \in 1 .. n |-> Line(entries[i])]
    BY <1>1 DEF Lines
  <2> QED
    BY <1>1, <2>1, <2>2
<1>5. PICK g \in [0 .. n -> Seq(Chars)] : Joins(g, s) /\ g[n] = SubSeq(Marked, 1, start - 1)
  BY DEF FeedbackInv, Reading, AreRead
<1>6. FlattenSeq(s) = SubSeq(Marked, 1, start - 1)
  <2> HIDE DEF s
  <2> QED
    BY <1>4, <1>5, FlatIs
<1>7. SubSeq(Marked, 1, Len(Text)) = Text
  <2>1. Marked \in Seq(Chars) /\ Len(Marked) = Len(Text) + 1
        /\ \A k \in 1 .. Len(Text) : Marked[k] = Text[k]
    BY <1>1 DEF Marked, Chars
  <2> QED
    BY <1>1, <2>1
<1>8. SubSeq(Marked, 1, Len(Text) + 1) = Marked
  <2>1. Marked \in Seq(Chars) /\ Len(Marked) = Len(Text) + 1
    BY <1>1 DEF Marked, Chars
  <2> QED
    BY <1>1, <2>1
<1>9. start - 1 \in {Len(Text), Len(Text) + 1}
  BY <1>1
<1> QED
  BY <1>3, <1>6, <1>7, <1>8, <1>9 DEF Marked

LEMMA InvTells ==
    FeedbackInv => FeedbackIsTold
<1> SUFFICES ASSUME FeedbackInv PROVE FeedbackIsTold
  OBVIOUS
<1>1. EntriesFit
  BY StoredHaveRoom
<1>2. ASSUME told.done
      PROVE  /\ reply = "0"
             /\ IF call.args = << >> THEN received = Empty
                ELSE /\ received.from \o received.input = call.args
                     /\ Joined(received.environment) \in {Text, Append(Text, Separator)}
  <2>1. AllStored /\ received = WholeDocument /\ reply = "0"
    BY <1>2 DEF FeedbackInv, Accounted
  <2>2. CASE call.args = << >>
    BY <2>1, <2>2 DEF WholeDocument
  <2>3. CASE call.args # << >>
    <3>1. /\ received.from = <<Head(call.args)>> /\ received.input = Tail(call.args)
          /\ received.environment = [i \in DOMAIN entries |-> Pair(entries[i])]
      BY <2>1, <2>3 DEF WholeDocument
    <3>2. call.args \in Seq(Range(call.args))
      BY FeedbackAssumption DEF FeedbackInv, FeedbackTypeOK
    <3>3. <<Head(call.args)>> \o Tail(call.args) = call.args
      BY <2>3, <3>2
    <3> QED
      BY <2>1, <2>3, <3>1, <3>3, StoredAreText
  <2> QED
    BY <2>2, <2>3
<1> QED
  BY <1>1, <1>2 DEF FeedbackIsTold

\* The invariant of ndm_feedback(): what is stored is what has been read, and
\* what is told is what was stored.
THEOREM FeedbackInvariance == FeedbackSpec => []FeedbackInv
BY FeedbackStarts, FeedbackIsKept, PTL DEF FeedbackSpec

\* For every text and list of arguments: ndm_feedback() stores no entry without
\* room, and when it succeeds the core has all of them and its code is zero.
THEOREM FeedbackStaysTold == FeedbackSpec => []FeedbackIsTold
BY FeedbackInvariance, InvTells, PTL

-----------------------------------------------------------------------------
(***************************************************************************)
(* Paths.  The nodes that the first characters of a path lead to are       *)
(* entered name by name, as the walk does; the invariant says that a table *)
(* of them exists for what has been walked, with the walk's node at its    *)
(* end.                                                                    *)
(***************************************************************************)

LEMMA GreatestIs ==
    ASSUME NEW T \in SUBSET Nat, T # {}, NEW n \in Nat, \A y \in T : y <= n
    PROVE  Max(T) \in T /\ \A y \in T : y <= Max(T)
<1> DEFINE R == {n - y : y \in T}
<1>1. R \in SUBSET Nat /\ R # {}
  <2>1. \A y \in T : y \in Nat /\ n - y \in Nat
    OBVIOUS
  <2> QED
    BY <2>1
<1>2. Min(R) \in R /\ \A r \in R : Min(R) <= r
  BY <1>1, LeastIs
<1> HIDE DEF R
<1>3. PICK x \in T : Min(R) = n - x
  BY <1>2 DEF R
<1>4. ASSUME NEW y \in T PROVE x >= y
  <2>1. n - y \in R
    BY DEF R
  <2>2. n - x <= n - y
    BY <1>2, <1>3, <2>1
  <2>3. x \in Nat /\ y \in Nat
    OBVIOUS
  <2> QED
    BY <2>2, <2>3
<1>5. \E m \in T : \A y \in T : m >= y
  BY <1>4
<1>6. Max(T) \in T /\ \A y \in T : Max(T) >= y
  BY <1>5 DEF Max
<1>7. \A y \in T : y \in Nat /\ Max(T) \in Nat
  BY <1>6
<1> QED
  BY <1>6, <1>7

\* A name is what comes after a slash with none within it.
LEMMA NameIs ==
    ASSUME NEW S, NEW w \in Seq(S), NEW k \in 1 .. Len(w), NEW p \in 0 .. k - 1,
           p = 0 \/ w[p] = "/", \A j \in p + 1 .. k - 1 : w[j] # "/"
    PROVE  NameBefore(w, k) = SubSeq(w, p + 1, k - 1)
<1> DEFINE T == {0} \cup {j \in 1 .. k - 1 : w[j] = "/"}
<1>1. T \in SUBSET Nat /\ T # {} /\ (\A y \in T : y <= k) /\ k \in Nat
  OBVIOUS
<1>2. Max(T) \in T /\ \A y \in T : y <= Max(T)
  BY <1>1, GreatestIs
<1>3. p \in T
  OBVIOUS
<1>4. \A y \in T : y <= p
  OBVIOUS
<1>5. Max(T) = p
  <2> HIDE DEF T
  <2>1. Max(T) <= p /\ p <= Max(T) /\ Max(T) \in Nat
    BY <1>1, <1>2, <1>3, <1>4
  <2> QED
    BY <2>1
<1> QED
  BY <1>5 DEF NameBefore

\* It depends on what is before it.
LEMMA NameAgrees ==
    ASSUME NEW S, NEW w \in Seq(S), NEW v \in Seq(S), NEW k \in Nat \ {0},
           k - 1 <= Len(w), k - 1 <= Len(v), \A j \in 1 .. k - 1 : w[j] = v[j]
    PROVE  NameBefore(w, k) = NameBefore(v, k)
<1> DEFINE T == {0} \cup {j \in 1 .. k - 1 : w[j] = "/"}
           m == Max(T) + 1
<1>1. T = {0} \cup {j \in 1 .. k - 1 : v[j] = "/"}
  OBVIOUS
<1>2. T \in SUBSET Nat /\ T # {} /\ (\A y \in T : y <= k - 1) /\ k - 1 \in Nat
  OBVIOUS
<1>3. Max(T) \in T
  BY <1>2, GreatestIs
<1>4. NameBefore(w, k) = SubSeq(w, m, k - 1) /\ NameBefore(v, k) = SubSeq(v, m, k - 1)
  BY <1>1 DEF NameBefore
<1>5. m \in 1 .. k
  BY <1>3
<1> HIDE DEF T, m
<1>6. SubSeq(w, m, k - 1) = SubSeq(v, m, k - 1)
  <2> DEFINE x == SubSeq(w, m, k - 1)
             y == SubSeq(v, m, k - 1)
  <2>1. x \in Seq(S) /\ Len(x) = k - m /\ \A i \in 1 .. k - m : x[i] = w[i + m - 1]
    BY <1>5
  <2>2. y \in Seq(S) /\ Len(y) = k - m /\ \A i \in 1 .. k - m : y[i] = v[i + m - 1]
    BY <1>5
  <2>3. \A i \in 1 .. k - m : i + m - 1 \in 1 .. k - 1
    BY <1>5
  <2> HIDE DEF x, y
  <2>4. x = y
    BY <2>1, <2>2, <2>3
  <2> QED
    BY <2>4 DEF x, y
<1> QED
  BY <1>4, <1>6

\* A character read of a path, and a table of the nodes that its first n lead to
Onward(nodes, w, k) == IF w[k] = "/" THEN Enter(nodes, NameBefore(w, k)) ELSE nodes
Leads(g, w, n) == g[0] = {1} /\ \A k \in 1 .. n : g[k] = Onward(g[k - 1], w, k)

LEMMA LeadIs ==
    ASSUME NEW S, NEW names \in Seq(S), NEW w, w = Append(names, "/"), NEW g, Leads(g, w, Len(w))
    PROVE  Lead(names) = g[Len(w)]
<1> DEFINE n == Len(w)
           reached[k \in 0 .. n] ==
              IF k = 0 THEN {1}
              ELSE IF w[k] = "/" THEN Enter(reached[k - 1], NameBefore(w, k))
              ELSE reached[k - 1]
           Defines(h) == h = [k \in 0 .. n |->
                                IF k = 0 THEN {1}
                                ELSE IF w[k] = "/" THEN Enter(h[k - 1], NameBefore(w, k))
                                ELSE h[k - 1]]
           f == [k \in 0 .. n |-> g[k]]
<1>1. n \in Nat
  OBVIOUS
<1>2. Lead(names) = reached[n]
  BY DEF Lead
<1> HIDE DEF n
<1>3. \A k \in 0 .. n : k # 0 => k \in 1 .. n /\ k - 1 \in 0 .. n
  BY <1>1
<1>4. ASSUME NEW k \in 0 .. n
      PROVE  f[k] = IF k = 0 THEN {1}
                    ELSE IF w[k] = "/" THEN Enter(f[k - 1], NameBefore(w, k))
                    ELSE f[k - 1]
  <2>1. CASE k = 0
    BY <2>1 DEF Leads
  <2>2. CASE k # 0
    <3>1. g[k] = Onward(g[k - 1], w, k) /\ f[k - 1] = g[k - 1]
      BY <1>3, <2>2 DEF Leads, n
    <3> QED
      BY <2>2, <3>1 DEF Onward
  <2> QED
    BY <2>1, <2>2
<1>5. Defines(f)
  BY <1>4
<1>6. reached = CHOOSE h : Defines(h)
  BY DEF reached
<1>7. Defines(reached)
  BY <1>5, <1>6, Zenon
<1> HIDE DEF reached, f
<1>8. \A k \in 0 .. n : reached[k] = IF k = 0 THEN {1}
                                     ELSE IF w[k] = "/" THEN Enter(reached[k - 1], NameBefore(w, k))
                                     ELSE reached[k - 1]
  BY <1>7
<1> DEFINE T == {k \in 0 .. n : reached[k] # f[k]}
<1>9. T = {}
  <2> SUFFICES ASSUME T # {} PROVE FALSE
    OBVIOUS
  <2>1. T \in SUBSET Nat
    BY <1>1
  <2> DEFINE k == Min(T)
  <2>2. k \in T /\ \A y \in T : k <= y
    BY <2>1, LeastIs
  <2> HIDE DEF k
  <2>3. k \in 0 .. n /\ reached[k] # f[k]
    BY <2>2
  <2>4. CASE k = 0
    BY <1>4, <1>8, <2>3, <2>4
  <2>5. CASE k # 0
    <3>1. k - 1 \in 0 .. n /\ ~(k <= k - 1)
      BY <1>1, <2>3, <2>5
    <3>2. k - 1 \notin T
      BY <2>2, <3>1
    <3>3. reached[k - 1] = f[k - 1]
      BY <3>1, <3>2
    <3> QED
      BY <1>4, <1>8, <2>3, <2>5, <3>3
  <2> QED
    BY <2>4, <2>5
<1>10. n \in 0 .. n
  BY <1>1
<1>11. reached[n] = f[n]
  BY <1>9, <1>10
<1> QED
  BY <1>2, <1>10, <1>11 DEF f, n

\* Names that end with a slash, or none, lead where the path they begin leads so far.
LEMMA LeadOfSome ==
    ASSUME NEW S, NEW names \in Seq(S), NEW s \in 0 .. Len(names), s = 0 \/ names[s] = "/",
           NEW g, Leads(g, Append(names, "/"), s)
    PROVE  Lead(SubSeq(names, 1, s)) = g[s]
<1> DEFINE some == SubSeq(names, 1, s)
           w == Append(names, "/")
           v == Append(some, "/")
           f == [k \in 0 .. s + 1 |-> IF k <= s THEN g[k] ELSE g[s]]
           C == S \cup {"/"}
<1>1. some \in Seq(S) /\ Len(some) = s /\ \A k \in 1 .. s : some[k] = names[k]
  OBVIOUS
<1> HIDE DEF some
<1>2. v \in Seq(C) /\ Len(v) = s + 1 /\ v[s + 1] = "/" /\ \A k \in 1 .. s : v[k] = names[k]
  <2>1. some \in Seq(C)
    BY <1>1
  <2> QED
    BY <1>1, <2>1
<1>3. w \in Seq(C) /\ Len(w) = Len(names) + 1 /\ \A k \in 1 .. Len(names) : w[k] = names[k]
  <2>1. names \in Seq(C)
    OBVIOUS
  <2> QED
    BY <2>1
<1>4. Leads(g, w, s)
  OBVIOUS
<1> HIDE DEF v, w, C
<1>5. ASSUME NEW k \in 1 .. s + 1
      PROVE  f[k] = Onward(f[k - 1], v, k)
  <2>1. CASE k <= s
    <3>1. k \in 1 .. s /\ k \in 1 .. Len(names) /\ f[k] = g[k] /\ f[k - 1] = g[k - 1]
      BY <2>1
    <3>2. k \in Nat \ {0} /\ k - 1 <= Len(w) /\ k - 1 <= Len(v)
          /\ \A j \in 1 .. k - 1 : v[j] = w[j]
      BY <1>2, <1>3, <3>1
    <3>3. NameBefore(v, k) = NameBefore(w, k)
      BY <1>2, <1>3, <3>2, NameAgrees
    <3>4. g[k] = Onward(g[k - 1], w, k) /\ v[k] = w[k]
      BY <1>2, <1>3, <1>4, <3>1 DEF Leads
    <3> QED
      BY <3>1, <3>3, <3>4 DEF Onward
  <2>2. CASE k = s + 1
    <3>1. f[k] = g[s] /\ f[k - 1] = g[s]
      BY <2>2
    <3>2. k \in 1 .. Len(v) /\ s \in 0 .. k - 1 /\ (s = 0 \/ v[s] = "/")
          /\ \A j \in s + 1 .. k - 1 : v[j] # "/"
      BY <1>2, <2>2
    <3>3. NameBefore(v, k) = SubSeq(v, s + 1, k - 1)
      BY <1>2, <3>2, NameIs
    <3>4. k - 1 = s
      BY <2>2
    <3>5. SubSeq(v, s + 1, s) = << >>
      BY <1>2
    <3> QED
      BY <1>2, <2>2, <3>1, <3>3, <3>4, <3>5 DEF Onward, Enter
  <2> QED
    BY <2>1, <2>2
<1>6. f[0] = {1}
  BY <1>4 DEF Leads
<1>7. Leads(f, v, Len(v))
  <2> HIDE DEF f
  <2> QED
    BY <1>2, <1>5, <1>6 DEF Leads
<1>8. Lead(some) = f[s + 1]
  <2> HIDE DEF f
  <2> QED
    BY <1>1, <1>2, <1>7, LeadIs DEF v
<1>9. f[s + 1] = g[s]
  OBVIOUS
<1> QED
  BY <1>8, <1>9 DEF some

\* Where an attribute's name begins, its mark does.
LEMMA MarkIs ==
    ASSUME path \in Seq(PathChar)
    PROVE  IF kind # "node" /\ AttrMark > 0
           THEN AttrMark \in 1 .. Len(path) /\ MeantAttr = {AttrMark} /\ Max(MeantAttr) = AttrMark
           ELSE MeantAttr = {}
<1> DEFINE marks == {k \in DOMAIN path : path[k] \in {"@", "/"}}
           m == Max(marks)
<1>1. DOMAIN path = 1 .. Len(path) /\ Len(path) \in Nat
  OBVIOUS
<1>2. AttrMark = IF marks # {} /\ path[m] = "@" THEN m ELSE 0
  BY DEF AttrMark
<1>3. marks # {} => m \in marks /\ \A y \in marks : y <= m
  <2>1. marks \in SUBSET Nat /\ \A y \in marks : y <= Len(path)
    BY <1>1
  <2> HIDE DEF marks
  <2> QED
    BY <1>1, <2>1, GreatestIs
<1> HIDE DEF m
<1>4. ASSUME NEW k \in MeantAttr
      PROVE  marks # {} /\ k = m /\ path[m] = "@" /\ kind # "node"
  <2>1. k \in 1 .. Len(path) /\ path[k] = "@" /\ kind # "node"
        /\ \A j \in k + 1 .. Len(path) : path[j] \notin {"@", "/"}
    BY <1>1 DEF MeantAttr
  <2>2. k \in marks
    BY <1>1, <2>1
  <2>3. m \in 1 .. Len(path) /\ path[m] \in {"@", "/"} /\ k <= m
    BY <1>1, <1>3, <2>2
  <2>4. m \notin k + 1 .. Len(path)
    BY <2>1, <2>3
  <2> QED
    BY <2>1, <2>2, <2>3, <2>4
<1>5. CASE kind # "node" /\ AttrMark > 0
  <2>1. marks # {} /\ path[m] = "@" /\ AttrMark = m
    BY <1>2, <1>5
  <2>2. m \in 1 .. Len(path) /\ \A y \in marks : y <= m
    BY <1>1, <1>3, <2>1
  <2>3. ASSUME NEW j \in m + 1 .. Len(path), path[j] \in {"@", "/"} PROVE FALSE
    <3>1. j \in marks /\ ~(j <= m)
      BY <1>1, <2>2, <2>3
    <3> QED
      BY <2>2, <3>1
  <2>4. m \in MeantAttr
    BY <1>1, <1>5, <2>1, <2>2, <2>3 DEF MeantAttr
  <2>5. MeantAttr = {m}
    BY <1>4, <2>4
  <2>6. Max({m}) = m
    <3>1. {m} \in SUBSET Nat /\ {m} # {} /\ m \in Nat /\ \A y \in {m} : y <= m
      BY <2>2
    <3> QED
      BY <3>1, GreatestIs
  <2> QED
    BY <1>5, <2>1, <2>2, <2>5, <2>6
<1>6. CASE ~(kind # "node" /\ AttrMark > 0)
  <2>1. ASSUME NEW k \in MeantAttr PROVE FALSE
    <3>1. marks # {} /\ path[m] = "@" /\ kind # "node"
      BY <1>4
    <3>2. AttrMark = m /\ m \in 1 .. Len(path)
      BY <1>1, <1>2, <1>3, <3>1
    <3> QED
      BY <1>6, <3>1, <3>2
  <2> QED
    BY <1>6, <2>1
<1> QED
  BY <1>5, <1>6

\* A name leads to its first child, if there is one, and from nothing to nothing.
LEMMA EnterIs ==
    ASSUME response \in Response, NEW n, NEW name
    PROVE  /\ Enter({}, name) = {}
           /\ Enter({n}, << >>) = {n}
           /\ name # << >> => Enter({n}, name) =
                 IF Children(n, name) = {} THEN {} ELSE {FirstChild(n, name)}
           /\ Children(n, name) # {} => FirstChild(n, name) \in DOMAIN response
<1>1. Children(n, name) \subseteq DOMAIN response /\ DOMAIN response \subseteq Nat
  <2>1. response \in Seq(Range(response))
    BY ResponseAssumption
  <2> QED
    BY <2>1 DEF Children
<1>2. Children(n, name) # {} => FirstChild(n, name) \in DOMAIN response
  <2>1. Children(n, name) # {} => Min(Children(n, name)) \in Children(n, name)
    <3> DEFINE T == Children(n, name)
    <3>1. T \in SUBSET Nat
      BY <1>1
    <3> HIDE DEF T
    <3>2. T # {} => Min(T) \in T
      BY <3>1, LeastIs
    <3> QED
      BY <3>2 DEF T
  <2> QED
    BY <1>1, <2>1 DEF FirstChild
<1> QED
  BY <1>2 DEF Enter, First, FirstChild

\* The p-th character is the last that has been walked.
Walked(p, g) ==
    /\ Leads(g, Append(MeantNames, "/"), p) /\ g[p] = {at}
    /\ p = 0 \/ MeantNames[p] = "/"
    /\ \A k \in 1 .. p : MeantNames[k] # "@"
    /\ left = SubSeq(MeantNames, p + 1, Len(MeantNames))

MeantName == SubSeq(path, Max(MeantAttr) + 1, Len(path))

AccessTypeOK ==
    /\ response \in Response /\ kind \in Kind /\ at \in DOMAIN response
    /\ path \in BoundedSeq(PathChar, MaxPath)
    /\ accPc \in {"format", "walk", "read", "returned"}

AccessInv ==
    /\ AccessTypeOK
    /\ accPc = "format" => at = 1
    /\ accPc \in {"walk", "read"} => attr = IF MeantAttr = {} THEN NoValue ELSE MeantName
    /\ accPc = "walk" => \E p \in 0 .. Len(MeantNames) : \E g : Walked(p, g)
    /\ accPc = "read" => MeantNodes = {at} /\ "@" \notin Range(MeantNames)
    /\ AnswerIsOfPath

LEMMA PathIs ==
    ASSUME AccessTypeOK
    PROVE  path \in Seq(PathChar) /\ Len(path) <= MaxPath /\ MeantNames \in Seq(PathChar)
           /\ (MeantAttr # {} => MeantName # NoValue)
<1>1. path \in Seq(PathChar) /\ Len(path) <= MaxPath /\ MaxPath \in Nat
  <2>1. MaxPath \in Nat /\ path \in UNION {[1 .. m -> PathChar] : m \in 0 .. MaxPath}
    BY ResponseAssumption DEF AccessTypeOK, BoundedSeq, SeqOf
  <2>2. PICK m \in 0 .. MaxPath : path \in [1 .. m -> PathChar]
    BY <2>1
  <2> QED
    BY <2>1, <2>2
<1>2. MeantAttr # {} => Max(MeantAttr) \in 1 .. Len(path)
  BY <1>1, MarkIs
<1>3. MeantNames \in Seq(PathChar)
  BY <1>1, <1>2 DEF MeantNames
<1>4. ASSUME MeantAttr # {} PROVE MeantName # NoValue
  <2> DEFINE x == MeantName
  <2>1. Max(MeantAttr) \in 1 .. Len(path)
    BY <1>2, <1>4
  <2>2. x \in Seq(PathChar) /\ Len(x) = Len(path) - Max(MeantAttr)
    BY <1>1, <2>1 DEF MeantName
  <2> HIDE DEF x
  <2>3. Len(x) \in 0 .. MaxPath
    BY <1>1, <2>1, <2>2
  <2>4. x \in [1 .. Len(x) -> PathChar]
    BY <2>2
  <2>5. x \in BoundedSeq(PathChar, MaxPath)
    BY <2>3, <2>4 DEF BoundedSeq, SeqOf
  <2> QED
    BY <2>5, ResponseAssumption DEF x
<1> QED
  BY <1>1, <1>3, <1>4

LEMMA AccessStarts ==
    AccessInit => AccessInv
<1> SUFFICES ASSUME AccessInit PROVE AccessInv
  OBVIOUS
<1>1. response \in Response /\ accPc = "format" /\ at = 1 /\ kind \in Kind
      /\ path \in BoundedSeq(PathChar, MaxPath)
  BY DEF AccessInit
<1>2. 1 \in DOMAIN response
  <2>1. response \in Seq(Range(response)) /\ response # << >>
    BY <1>1, ResponseAssumption
  <2> QED
    BY <2>1
<1> QED
  BY <1>1, <1>2 DEF AccessInv, AccessTypeOK, AnswerIsOfPath

\* What is meant stays meant.
LEMMA MeantStays ==
    ASSUME UNCHANGED <<response, path, kind>>
    PROVE  UNCHANGED <<MeantAttr, MeantNames, MeantName, MeantNodes, MeantTexts, Lead(Sound)>>
<1>1. UNCHANGED <<MeantAttr, MeantNames, MeantName>>
  BY DEF MeantAttr, MeantNames, MeantName
<1>2. Lead(MeantNames)' = Lead(MeantNames) /\ Lead(Sound)' = Lead(Sound)
  BY <1>1 DEF Lead, Enter, First, Children, Sound
<1>3. UNCHANGED MeantNodes
  BY <1>2 DEF MeantNodes
<1>4. UNCHANGED MeantTexts
  BY <1>1, <1>3 DEF MeantTexts, First, Attrs
<1> QED
  BY <1>1, <1>2, <1>3, <1>4

LEMMA PathIsFormatted ==
    ASSUME AccessInv, Format
    PROVE  AccessInv'
<1>1. /\ UNCHANGED <<response, path, kind, at>> /\ AccessTypeOK /\ at = 1
      /\ accPc = "format"
  BY DEF Format, AccessInv
<1>2. UNCHANGED <<MeantAttr, MeantNames, MeantName>>
  BY <1>1, MeantStays
<1>3. path \in Seq(PathChar) /\ MeantNames \in Seq(PathChar)
  BY <1>1, PathIs
<1>4. CASE Answers("SYSTEM", NoValue)
  <2>1. accPc' = "returned" /\ accError' = "SYSTEM"
    BY <1>4 DEF Answers
  <2> QED
    BY <1>1, <2>1 DEF AccessInv, AccessTypeOK, AnswerIsOfPath
<1>5. CASE ~Answers("SYSTEM", NoValue)
  <2>1. /\ accPc' = "walk"
        /\ IF kind # "node" /\ AttrMark > 0
           THEN /\ left' = SubSeq(path, 1, AttrMark - 1)
                /\ attr' = SubSeq(path, AttrMark + 1, Len(path))
           ELSE left' = path /\ attr' = NoValue
    BY <1>5 DEF Format
  <2>2. left' = MeantNames /\ attr' = IF MeantAttr = {} THEN NoValue ELSE MeantName
    <3>1. CASE kind # "node" /\ AttrMark > 0
      <4>1. MeantAttr = {AttrMark} /\ Max(MeantAttr) = AttrMark /\ MeantAttr # {}
        BY <1>3, <3>1, MarkIs
      <4>2. left' = SubSeq(path, 1, Max(MeantAttr) - 1)
            /\ attr' = SubSeq(path, Max(MeantAttr) + 1, Len(path))
        BY <2>1, <3>1, <4>1
      <4> QED
        BY <4>1, <4>2 DEF MeantNames, MeantName
    <3>2. CASE ~(kind # "node" /\ AttrMark > 0)
      <4>1. MeantAttr = {}
        BY <1>3, <3>2, MarkIs
      <4> QED
        BY <2>1, <3>2, <4>1 DEF MeantNames
    <3> QED
      BY <3>1, <3>2
  <2>3. \E p \in 0 .. Len(MeantNames) : \E g : Walked(p, g)'
    <3> DEFINE g == [k \in {0} |-> {1}]
    <3>1. SubSeq(MeantNames, 0 + 1, Len(MeantNames)) = MeantNames
      BY <1>3
    <3>2. Leads(g, Append(MeantNames, "/"), 0)'
      BY DEF Leads
    <3>3. g[0] = {1} /\ at' = 1
      BY <1>1
    <3>4. Walked(0, g)'
      BY <1>2, <2>2, <3>1, <3>2, <3>3 DEF Walked
    <3>5. 0 \in 0 .. Len(MeantNames)
      BY <1>3
    <3> QED
      BY <3>4, <3>5
  <2>4. AccessTypeOK'
    BY <1>1, <2>1 DEF AccessTypeOK
  <2> QED
    BY <1>2, <2>1, <2>2, <2>3, <2>4 DEF AccessInv, AnswerIsOfPath
<1> QED
  BY <1>4, <1>5

\* What there is to say where the next name ends: q is its end in the path, or
\* one more than the path has.
WalkAhead(p, q, names, w) ==
    /\ q \in p + 1 .. Len(names) + 1
    /\ NameEnd = q - p
    /\ \A k \in p + 1 .. q - 1 : w[k] \notin {"/", "@"}
    /\ NameEnd \in DOMAIN left <=> q <= Len(names)
    /\ NameEnd \in DOMAIN left => left[NameEnd] = w[q] /\ w[q] \in {"/", "@"}
    /\ w[q] = "/" => NameBefore(w, q) = WalkedName
    /\ SubSeq(left, NameEnd + 1, Len(left)) = SubSeq(names, q + 1, Len(names))

\* The path with a slash after it
LEMMA SlashedIs ==
    ASSUME NEW names \in Seq(PathChar), NEW w, w = Append(names, "/")
    PROVE  /\ w \in Seq(PathChar \cup {"/"}) /\ Len(w) = Len(names) + 1
           /\ w[Len(names) + 1] = "/" /\ \A k \in 1 .. Len(names) : w[k] = names[k]
<1>1. names \in Seq(PathChar \cup {"/"})
  OBVIOUS
<1> QED
  BY <1>1

LEMMA AheadIs ==
    ASSUME NEW names \in Seq(PathChar), NEW w, w = Append(names, "/"),
           NEW p \in 0 .. Len(names), p = 0 \/ names[p] = "/",
           left = SubSeq(names, p + 1, Len(names))
    PROVE  \E q \in Nat : WalkAhead(p, q, names, w)
<1> DEFINE n == Len(names)
           T == {k \in DOMAIN left : left[k] \in {"/", "@"}} \cup {Len(left) + 1}
           e == Min(T)
           q == p + e
<1>1. w \in Seq(PathChar \cup {"/"}) /\ Len(w) = n + 1 /\ w[n + 1] = "/"
      /\ \A k \in 1 .. n : w[k] = names[k]
  BY SlashedIs
<1>2. left \in Seq(PathChar) /\ Len(left) = n - p /\ DOMAIN left = 1 .. n - p
      /\ \A k \in 1 .. n - p : left[k] = names[p + k]
  OBVIOUS
<1>3. n \in Nat /\ p \in Nat /\ p <= n /\ n - p \in Nat
  OBVIOUS
<1>4. NameEnd = e
  BY DEF NameEnd
<1>5. e \in T /\ \A y \in T : e <= y
  <2>1. T \in SUBSET Nat /\ T # {}
    BY <1>2, <1>3
  <2> HIDE DEF T
  <2> QED
    BY <2>1, LeastIs
<1> HIDE DEF e, n
<1>6. e \in 1 .. n - p + 1
  BY <1>2, <1>3, <1>5
<1>7. q \in p + 1 .. n + 1 /\ q - p = e /\ q \in Nat
  BY <1>3, <1>6
<1>8. ASSUME NEW k \in p + 1 .. q - 1 PROVE w[k] \notin {"/", "@"}
  <2>1. k - p \in 1 .. n - p /\ ~(e <= k - p) /\ p + (k - p) = k /\ k \in 1 .. n
    BY <1>3, <1>6
  <2>2. k - p \notin T
    BY <1>5, <2>1
  <2>3. left[k - p] \notin {"/", "@"} /\ left[k - p] = names[k]
    BY <1>2, <2>1, <2>2
  <2> QED
    BY <1>1, <2>1, <2>3
<1>9. e \in DOMAIN left <=> q <= n
  BY <1>2, <1>3, <1>6
<1>10. e \in DOMAIN left => left[e] = w[q] /\ w[q] \in {"/", "@"}
  <2> SUFFICES ASSUME e \in DOMAIN left PROVE left[e] = w[q] /\ w[q] \in {"/", "@"}
    OBVIOUS
  <2>1. e \in 1 .. n - p /\ e # Len(left) + 1 /\ q \in 1 .. n
    BY <1>2, <1>3
  <2>2. left[e] \in {"/", "@"}
    BY <1>5, <2>1
  <2>3. left[e] = names[q] /\ names[q] = w[q]
    BY <1>1, <1>2, <2>1
  <2> QED
    BY <2>2, <2>3
<1>11. w[q] = "/" => NameBefore(w, q) = WalkedName
  <2>1. q \in 1 .. Len(w) /\ p \in 0 .. q - 1 /\ (p = 0 \/ w[p] = "/")
        /\ \A j \in p + 1 .. q - 1 : w[j] # "/"
    <3>1. p # 0 => p \in 1 .. n
      BY <1>3
    <3>2. q \in 1 .. Len(w) /\ p \in 0 .. q - 1
      BY <1>1, <1>3, <1>7
    <3> QED
      BY <1>1, <1>8, <3>1, <3>2
  <2> HIDE DEF q
  <2>2. NameBefore(w, q) = SubSeq(w, p + 1, q - 1)
    BY <1>1, <2>1, NameIs
  <2> DEFINE x == SubSeq(w, p + 1, q - 1)
             y == SubSeq(left, 1, e - 1)
             C == PathChar \cup {"/"}
  <2>3. x \in Seq(C) /\ Len(x) = e - 1 /\ \A k \in 1 .. e - 1 : x[k] = w[p + k]
    BY <1>1, <1>3, <1>6, <1>7
  <2>4. y \in Seq(PathChar) /\ Len(y) = e - 1 /\ \A k \in 1 .. e - 1 : y[k] = left[k]
    BY <1>2, <1>3, <1>6
  <2>5. \A k \in 1 .. e - 1 : k \in 1 .. n - p /\ p + k \in 1 .. n
    BY <1>3, <1>6
  <2>6. \A k \in 1 .. e - 1 : x[k] = y[k]
    BY <1>1, <1>2, <2>3, <2>4, <2>5
  <2> HIDE DEF x, y
  <2>7. y \in Seq(C)
    BY <2>4
  <2> HIDE DEF C
  <2>8. x = y
    BY <2>3, <2>4, <2>6, <2>7
  <2> QED
    BY <1>4, <2>2, <2>8 DEF WalkedName, x, y
<1>12. SubSeq(left, e + 1, Len(left)) = SubSeq(names, q + 1, n)
  <2> DEFINE x == SubSeq(left, e + 1, Len(left))
             y == SubSeq(names, q + 1, n)
  <2>1. CASE e > n - p
    <3>1. x = << >> /\ y = << >>
      BY <1>2, <1>3, <1>7, <2>1 DEF n
    <3> QED
      BY <3>1
  <2>2. CASE e <= n - p
    <3>1. x \in Seq(PathChar) /\ Len(x) = (n - p) - e
          /\ \A k \in 1 .. (n - p) - e : x[k] = left[e + k]
      BY <1>2, <1>3, <1>6, <2>2
    <3>2. y \in Seq(PathChar) /\ Len(y) = n - q /\ \A k \in 1 .. n - q : y[k] = names[q + k]
      BY <1>3, <1>7, <2>2 DEF n
    <3>3. n - q = (n - p) - e
      BY <1>3, <1>6
    <3>4. \A k \in 1 .. n - q : e + k \in 1 .. n - p /\ p + (e + k) = q + k
      BY <1>3, <1>6
    <3> HIDE DEF x, y, q
    <3>5. \A k \in 1 .. n - q : x[k] = y[k]
      BY <1>2, <3>1, <3>2, <3>3, <3>4
    <3>6. x = y
      BY <3>1, <3>2, <3>3, <3>5
    <3> QED
      BY <3>6 DEF x, y
  <2> QED
    BY <1>3, <1>6, <2>1, <2>2
<1> HIDE DEF q
<1>13. WalkAhead(p, q, names, w)
  BY <1>4, <1>7, <1>8, <1>9, <1>10, <1>11, <1>12 DEF WalkAhead, n
<1> QED
  BY <1>7, <1>13

\* A table of the first q characters that ends with the nodes, and one of the
\* first m that ends with none from the q-th on
LeadsTo(w, q, nodes) == \E h : Leads(h, w, q) /\ h[q] = nodes
LeadsNowhere(w, q, m) == \E h : Leads(h, w, m) /\ \A k \in q .. m : h[k] = {}

\* The table grows by a name, and the nodes after it.
LEMMA TableGrows ==
    ASSUME NEW w, NEW p \in Nat, NEW q \in Nat, p < q, NEW g, Leads(g, w, p),
           NEW nodes, nodes = Enter(g[p], NameBefore(w, q)), w[q] = "/",
           \A k \in p + 1 .. q - 1 : w[k] # "/"
    PROVE  LeadsTo(w, q, nodes)
<1> DEFINE h == [k \in 0 .. q |-> IF k <= p THEN g[k] ELSE IF k < q THEN g[p] ELSE nodes]
<1>1. h[0] = {1} /\ h[q] = nodes /\ \A k \in 0 .. p : h[k] = g[k]
  BY DEF Leads
<1>2. ASSUME NEW k \in 1 .. q PROVE h[k] = Onward(h[k - 1], w, k)
  <2>1. CASE k <= p
    <3>1. k \in 1 .. p /\ h[k] = g[k] /\ h[k - 1] = g[k - 1]
      BY <2>1
    <3> QED
      BY <3>1 DEF Leads
  <2>2. CASE k > p /\ k < q
    <3>1. k \in p + 1 .. q - 1 /\ h[k] = g[p] /\ h[k - 1] = g[p]
      <4>1. k - 1 <= p => k - 1 = p
        BY <2>2
      <4> QED
        BY <2>2, <4>1
    <3> QED
      BY <3>1 DEF Onward
  <2>3. CASE k = q
    <3>1. h[k] = nodes /\ h[k - 1] = g[p]
      <4>1. k - 1 <= p => k - 1 = p
        BY <2>3
      <4> QED
        BY <2>3, <4>1
    <3> QED
      BY <2>3, <3>1 DEF Onward
  <2> QED
    BY <2>1, <2>2, <2>3
<1> HIDE DEF h
<1>3. Leads(h, w, q)
  BY <1>1, <1>2 DEF Leads
<1> QED
  BY <1>1, <1>3 DEF LeadsTo

\* From nothing on the path leads nowhere.
LEMMA NothingLeads ==
    ASSUME NEW w, NEW q \in Nat, NEW m \in Nat, q <= m, NEW g, Leads(g, w, q), g[q] = {}
    PROVE  LeadsNowhere(w, q, m)
<1> DEFINE h == [k \in 0 .. m |-> IF k <= q THEN g[k] ELSE {}]
<1>1. h[0] = {1} /\ \A k \in q .. m : h[k] = {}
  BY DEF Leads
<1>2. ASSUME NEW k \in 1 .. m PROVE h[k] = Onward(h[k - 1], w, k)
  <2>1. CASE k <= q
    <3>1. k \in 1 .. q /\ h[k] = g[k] /\ h[k - 1] = g[k - 1]
      BY <2>1
    <3> QED
      BY <3>1 DEF Leads
  <2>2. CASE k > q
    <3>1. h[k] = {} /\ h[k - 1] = {}
      <4>1. k - 1 <= q => k - 1 = q
        BY <2>2
      <4> QED
        BY <2>2, <4>1
    <3> QED
      BY <3>1 DEF Onward, Enter
  <2> QED
    BY <2>1, <2>2
<1> HIDE DEF h
<1>3. Leads(h, w, m)
  BY <1>1, <1>2 DEF Leads
<1> QED
  BY <1>1, <1>3 DEF LeadsNowhere

\* The first "@" of names that have one
FirstMark(names) == Min({k \in DOMAIN names : names[k] = "@"})

LEMMA FirstMarkIs ==
    ASSUME NEW names \in Seq(PathChar), "@" \in Range(names)
    PROVE  /\ FirstMark(names) \in 1 .. Len(names) /\ names[FirstMark(names)] = "@"
           /\ \A k \in 1 .. Len(names) : names[k] = "@" => FirstMark(names) <= k
<1> DEFINE T == {k \in DOMAIN names : names[k] = "@"}
<1>1. T \in SUBSET Nat /\ T # {}
  BY DEF Range
<1>2. Min(T) \in T /\ \A y \in T : Min(T) <= y
  <2> HIDE DEF T
  <2> QED
    BY <1>1, LeastIs
<1>3. DOMAIN names = 1 .. Len(names)
  OBVIOUS
<1> QED
  BY <1>2, <1>3 DEF FirstMark

\* Sound are the names before it.
LEMMA SoundIs ==
    ASSUME NEW names \in Seq(PathChar), names = MeantNames, "@" \in Range(names)
    PROVE  \E s \in 0 .. Len(names) :
              /\ Sound = SubSeq(names, 1, s) /\ s < FirstMark(names)
              /\ s = 0 \/ names[s] = "/"
              /\ \A k \in s + 1 .. FirstMark(names) : names[k] # "/"
<1> DEFINE m == FirstMark(names)
           T == {0} \cup {k \in 1 .. m : names[k] = "/"}
           s == Max(T)
<1>1. m \in 1 .. Len(names) /\ names[m] = "@"
  BY FirstMarkIs
<1>2. Sound = SubSeq(names, 1, s)
  BY DEF Sound, FirstMark
<1> HIDE DEF m
<1>3. s \in T /\ \A y \in T : y <= s
  <2>1. T \in SUBSET Nat /\ T # {} /\ m \in Nat /\ \A y \in T : y <= m
    BY <1>1
  <2> HIDE DEF T
  <2> QED
    BY <2>1, GreatestIs
<1> HIDE DEF s
<1>4. s \in 0 .. Len(names) /\ (s = 0 \/ names[s] = "/") /\ s <= m
  BY <1>1, <1>3
<1>5. s # m
  <2>1. CASE s = 0
    BY <1>1, <2>1
  <2>2. CASE names[s] = "/"
    BY <1>1, <2>2
  <2> QED
    BY <1>4, <2>1, <2>2
<1>w. ASSUME NEW k \in s + 1 .. m, names[k] = "/" PROVE FALSE
  <2>1. k \in T /\ ~(k <= s)
    BY <1>4, <1>w
  <2> QED
    BY <1>3, <2>1
<1>7. s < m
  BY <1>1, <1>4, <1>5
<1> QED
  BY <1>2, <1>4, <1>w, <1>7 DEF m

\* What an error that ends the walk says
LEMMA WalkFails ==
    ASSUME AccessInv, accPc = "walk", UNCHANGED <<response, path, kind, at>>,
           NEW error \in {"SYNTAX", "NOT_FOUND"}, Fails(error),
           error = "SYNTAX" => "@" \in Range(MeantNames) /\ Lead(Sound) # {},
           error = "NOT_FOUND" => MeantNodes = {} /\ ("@" \in Range(MeantNames) => Lead(Sound) = {})
    PROVE  AccessInv'
<1>1. UNCHANGED <<MeantAttr, MeantNames, MeantNodes, MeantTexts, Lead(Sound)>>
  BY MeantStays
<1>2. MeantNodes = {} => MeantTexts = {}
  BY DEF MeantTexts
<1>3. accPc' = "returned"
  BY DEF Fails, Answers
<1>4. AccessTypeOK'
  BY <1>3 DEF AccessInv, AccessTypeOK
<1>5. AnswerIsOfPath'
  <2>1. CASE kind = "tag" /\ error = "NOT_FOUND"
    <3>1. accError' = "OK" /\ accValue' = FALSE /\ kind' = "tag"
      BY <2>1 DEF Fails, Answers
    <3>2. MeantTexts' = {}
      BY <1>1, <1>2, <2>1
    <3>3. accValue' = (MeantTexts' # {})
      BY <3>1, <3>2
    <3> QED
      BY <3>1, <3>3 DEF AnswerIsOfPath
  <2>2. CASE ~(kind = "tag" /\ error = "NOT_FOUND")
    <3>1. accError' = error
      BY <2>2 DEF Fails, Answers
    <3>2. CASE error = "SYNTAX"
      BY <1>1, <3>1, <3>2 DEF AnswerIsOfPath
    <3>3. CASE error = "NOT_FOUND"
      <4>1. MeantNodes' = {} /\ MeantTexts' = {}
            /\ (("@" \in Range(MeantNames)) => Lead(Sound) = {})'
        BY <1>1, <1>2, <3>3
      <4>2. (IF kind = "node" THEN MeantNodes ELSE MeantTexts)' = {}
        BY <4>1
      <4> QED
        BY <3>1, <3>3, <4>1, <4>2 DEF AnswerIsOfPath
    <3> QED
      BY <3>2, <3>3
  <2> QED
    BY <2>1, <2>2
<1> QED
  BY <1>3, <1>4, <1>5 DEF AccessInv

LEMMA LeadsStays ==
    ASSUME UNCHANGED <<response, path, kind>>, NEW g, NEW w, NEW n,
           w = Append(MeantNames, "/"), Leads(g, w, n)
    PROVE  Leads(g, Append(MeantNames, "/"), n)'
<1>1. Append(MeantNames', "/") = w
  BY MeantStays
<1>2. ASSUME NEW k \in 1 .. n
      PROVE  g[k] = Onward(g[k - 1], Append(MeantNames, "/"), k)'
  <2> DEFINE name == NameBefore(w, k)
             name2 == NameBefore(Append(MeantNames', "/"), k)
             entered == UNION {First({m \in DOMAIN response : response[m].parent = x
                                         /\ response[m].name = name}) : x \in g[k - 1]}
  <2>1. g[k] = IF w[k] = "/" THEN IF name = << >> THEN g[k - 1] ELSE entered ELSE g[k - 1]
    BY DEF Leads, Onward, Enter, Children
  <2>2. name2 = name
    BY <1>1
  <2> HIDE DEF name, name2
  <2>3. entered = UNION {First({m \in DOMAIN response' : response'[m].parent = x
                                   /\ response'[m].name = name2}) : x \in g[k - 1]}
    BY <2>2
  <2> HIDE DEF entered
  <2>4. Onward(g[k - 1], Append(MeantNames, "/"), k)'
           = IF Append(MeantNames', "/")[k] = "/"
             THEN IF name2 = << >> THEN g[k - 1]
                  ELSE UNION {First({m \in DOMAIN response' : response'[m].parent = x
                                        /\ response'[m].name = name2}) : x \in g[k - 1]}
             ELSE g[k - 1]
    BY DEF Onward, Enter, Children, name2
  <2>5. Onward(g[k - 1], Append(MeantNames, "/"), k)'
           = IF w[k] = "/" THEN IF name = << >> THEN g[k - 1] ELSE entered ELSE g[k - 1]
    BY <1>1, <2>2, <2>3, <2>4
  <2> QED
    BY <2>1, <2>5
<1> QED
  BY <1>2 DEF Leads

LEMMA PathIsWalked ==
    ASSUME AccessInv, Walk
    PROVE  AccessInv'
<1> DEFINE names == MeantNames
           n == Len(names)
<1>w. PICK w : w = Append(names, "/")
  OBVIOUS
<1>1. UNCHANGED <<response, path, kind, attr>> /\ AccessTypeOK /\ accPc = "walk"
  BY DEF Walk, AccessInv
<1>2. UNCHANGED <<MeantAttr, MeantNames, MeantName, MeantNodes>>
  BY <1>1, MeantStays
<1>3. names \in Seq(PathChar)
  BY <1>1, PathIs
<1>p. PICK p \in 0 .. n : \E g : Walked(p, g)
  BY <1>1 DEF AccessInv
<1>4. PICK g : Walked(p, g)
  BY <1>p
<1>5. /\ Leads(g, w, p) /\ g[p] = {at} /\ (p = 0 \/ names[p] = "/")
      /\ (\A k \in 1 .. p : names[k] # "@") /\ left = SubSeq(names, p + 1, n)
  BY <1>w, <1>4 DEF Walked
<1> HIDE DEF n
<1>7. PICK q \in Nat : WalkAhead(p, q, names, w)
  <2>1. p \in 0 .. Len(names) /\ left = SubSeq(names, p + 1, Len(names))
    BY <1>5 DEF n
  <2> QED
    BY <1>3, <1>5, <1>w, <2>1, AheadIs
<1>8. /\ w \in Seq(PathChar \cup {"/"}) /\ Len(w) = n + 1 /\ w[n + 1] = "/"
      /\ \A k \in 1 .. n : w[k] = names[k]
  BY <1>3, <1>w, SlashedIs DEF n
<1>9. /\ q \in p + 1 .. n + 1 /\ NameEnd = q - p
      /\ \A k \in p + 1 .. q - 1 : w[k] \notin {"/", "@"}
      /\ (NameEnd \in DOMAIN left <=> q <= n)
      /\ (NameEnd \in DOMAIN left => left[NameEnd] = w[q] /\ w[q] \in {"/", "@"})
      /\ (w[q] = "/" => NameBefore(w, q) = WalkedName)
      /\ SubSeq(left, NameEnd + 1, Len(left)) = SubSeq(names, q + 1, n)
  BY <1>7 DEF WalkAhead, n
<1>10. n \in Nat /\ p \in 0 .. n /\ p < q
  BY <1>3, <1>9 DEF n
<1>11. \A k \in 1 .. q - 1 : k \in 1 .. n /\ names[k] # "@"
  <2> TAKE k \in 1 .. q - 1
  <2>1. k \in 1 .. n
    BY <1>9, <1>10
  <2>2. CASE k <= p
    BY <1>5, <1>10, <2>1, <2>2
  <2>3. CASE k > p
    BY <1>8, <1>9, <1>10, <2>1, <2>3
  <2> QED
    BY <1>10, <2>1, <2>2, <2>3
<1>12. CASE NameEnd \in DOMAIN left /\ left[NameEnd] = "@"
  <2>1. q \in 1 .. n /\ names[q] = "@"
    BY <1>8, <1>9, <1>10, <1>12
  <2>2. "@" \in Range(names)
    BY <1>3, <2>1 DEF Range, n
  <2>3. FirstMark(names) = q
    <3> DEFINE m == FirstMark(names)
    <3>1. m \in 1 .. n /\ names[m] = "@" /\ m <= q
      BY <1>3, <2>1, <2>2, FirstMarkIs DEF n
    <3> HIDE DEF m
    <3>2. m \notin 1 .. q - 1
      BY <1>11, <3>1
    <3> QED
      BY <2>1, <3>1, <3>2 DEF m
  <2>4. PICK s \in 0 .. n : /\ Sound = SubSeq(names, 1, s) /\ s < q
                            /\ s = 0 \/ names[s] = "/"
                            /\ \A k \in s + 1 .. q : names[k] # "/"
    BY <1>3, <2>2, <2>3, SoundIs DEF n
  <2>5. s = p
    <3>1. ~(s < p)
      <4> SUFFICES ASSUME s < p PROVE FALSE
        OBVIOUS
      <4>1. p \in s + 1 .. q /\ names[p] = "/"
        BY <1>5, <1>10, <2>4
      <4> QED
        BY <2>4, <4>1
    <3>2. ~(s > p)
      <4> SUFFICES ASSUME s > p PROVE FALSE
        OBVIOUS
      <4>1. s \in p + 1 .. q - 1 /\ names[s] = "/" /\ s \in 1 .. n
        BY <1>10, <2>1, <2>4
      <4> QED
        BY <1>8, <1>9, <4>1
    <3> QED
      BY <1>10, <2>4, <3>1, <3>2
  <2>6. Lead(Sound) = {at}
    <3>1. p \in 0 .. Len(names) /\ Leads(g, Append(names, "/"), p)
      BY <1>w, <1>5, <1>10 DEF n
    <3>2. Lead(SubSeq(names, 1, p)) = g[p]
      BY <1>3, <1>5, <3>1, LeadOfSome
    <3> QED
      BY <1>5, <2>4, <2>5, <3>2
  <2>7. Fails("SYNTAX") /\ UNCHANGED at
    BY <1>9, <1>12 DEF Walk
  <2> QED
    BY <1>1, <2>2, <2>6, <2>7, WalkFails
<1>13. CASE ~(NameEnd \in DOMAIN left /\ left[NameEnd] = "@")
  <2>1. w[q] = "/" /\ NameBefore(w, q) = WalkedName
    <3>1. w[q] = "/"
      <4>1. CASE q <= n
        BY <1>9, <1>13, <4>1
      <4>2. CASE q = n + 1
        BY <1>8, <4>2
      <4> QED
        BY <1>9, <1>10, <4>1, <4>2
    <3> QED
      BY <1>9, <3>1
  <2>2. /\ left' = SubSeq(names, q + 1, n)
        /\ IF WalkedName # << >> /\ Children(at, WalkedName) = {}
           THEN Fails("NOT_FOUND") /\ UNCHANGED at
           ELSE /\ at' = IF WalkedName = << >> THEN at ELSE FirstChild(at, WalkedName)
                /\ accPc' = IF left' = << >> THEN "read" ELSE "walk"
                /\ UNCHANGED <<accError, accValue>>
    BY <1>9, <1>13 DEF Walk
  <2> DEFINE nodes == Enter({at}, WalkedName)
  <2>3. PICK h : Leads(h, w, q) /\ h[q] = nodes
    <3>1. nodes = Enter(g[p], NameBefore(w, q)) /\ p \in Nat
      BY <1>5, <1>10, <2>1
    <3>2. \A k \in p + 1 .. q - 1 : w[k] # "/"
      BY <1>9
    <3> HIDE DEF nodes
    <3>3. p < q /\ Leads(g, w, p) /\ w[q] = "/"
      BY <1>5, <1>10, <2>1
    <3>4. LeadsTo(w, q, nodes)
      BY <3>1, <3>2, <3>3, TableGrows
    <3> QED
      BY <3>4 DEF LeadsTo
  <2>4. response \in Response
    BY <1>1 DEF AccessTypeOK
  <2>5. CASE WalkedName # << >> /\ Children(at, WalkedName) = {}
    <3>1. nodes = {}
      BY <2>4, <2>5, EnterIs
    <3>2. PICK f : Leads(f, w, n + 1) /\ \A k \in q .. n + 1 : f[k] = {}
      <4>1. q <= n + 1 /\ n + 1 \in Nat
        BY <1>9, <1>10
      <4>2. Leads(h, w, q) /\ h[q] = {}
        BY <2>3, <3>1
      <4>3. LeadsNowhere(w, q, n + 1)
        BY <4>1, <4>2, NothingLeads
      <4> QED
        BY <4>3 DEF LeadsNowhere
    <3>3. MeantNodes = {}
      <4>1. Lead(names) = f[n + 1]
        BY <1>3, <1>w, <1>8, <3>2, LeadIs
      <4>2. n + 1 \in q .. n + 1
        BY <1>9, <1>10
      <4> QED
        BY <3>2, <4>1, <4>2 DEF MeantNodes
    <3>4. ASSUME "@" \in Range(names) PROVE Lead(Sound) = {}
      <4> DEFINE m == FirstMark(names)
      <4>1. m \in 1 .. n /\ names[m] = "@"
        BY <1>3, <3>4, FirstMarkIs DEF n
      <4>2. PICK s \in 0 .. n : /\ Sound = SubSeq(names, 1, s) /\ s < m
                                /\ s = 0 \/ names[s] = "/"
                                /\ \A k \in s + 1 .. m : names[k] # "/"
        BY <1>3, <3>4, SoundIs DEF n
      <4> HIDE DEF m
      <4>3. q < m
        <5>1. m \notin 1 .. q - 1
          BY <1>11, <4>1
        <5>2. m # q
          BY <1>8, <2>1, <4>1
        <5> QED
          BY <1>10, <4>1, <5>1, <5>2
      <4>4. ~(s < q)
        <5> SUFFICES ASSUME s < q PROVE FALSE
          OBVIOUS
        <5>1. q \in s + 1 .. m /\ q \in 1 .. n
          BY <1>10, <4>1, <4>2, <4>3
        <5>2. names[q] = "/"
          BY <1>8, <2>1, <5>1
        <5> QED
          BY <4>2, <5>1, <5>2
      <4>5. s \in q .. n + 1 /\ s \in 0 .. Len(names)
        BY <1>10, <4>2, <4>4 DEF n
      <4>6. Leads(f, Append(names, "/"), s)
        <5>1. \A k \in 1 .. s : k \in 1 .. n + 1
          BY <1>10, <4>5
        <5> QED
          BY <1>w, <3>2, <5>1 DEF Leads
      <4>7. Lead(SubSeq(names, 1, s)) = f[s]
        BY <1>3, <4>2, <4>5, <4>6, LeadOfSome
      <4> QED
        BY <3>2, <4>2, <4>5, <4>7
    <3>5. Fails("NOT_FOUND") /\ UNCHANGED at
      BY <2>2, <2>5
    <3> QED
      BY <1>1, <3>3, <3>4, <3>5, WalkFails
  <2>6. CASE ~(WalkedName # << >> /\ Children(at, WalkedName) = {})
    <3>1. /\ at' = IF WalkedName = << >> THEN at ELSE FirstChild(at, WalkedName)
          /\ accPc' = IF left' = << >> THEN "read" ELSE "walk"
          /\ UNCHANGED <<accError, accValue>>
      BY <2>2, <2>6
    <3>2. nodes = {at'} /\ at' \in DOMAIN response
      <4>1. at \in DOMAIN response
        BY <1>1 DEF AccessTypeOK
      <4>2. CASE WalkedName = << >>
        BY <2>4, <3>1, <4>1, <4>2, EnterIs
      <4>3. CASE WalkedName # << >>
        BY <2>4, <2>6, <3>1, <4>3, EnterIs
      <4> QED
        BY <4>2, <4>3
    <3>3. AccessTypeOK'
      BY <1>1, <3>1, <3>2 DEF AccessTypeOK
    <3>4. attr' = IF MeantAttr = {} THEN NoValue ELSE MeantName
      BY <1>1 DEF AccessInv
    <3>5. h[q] = {at'} /\ Leads(h, w, q)
      BY <2>3, <3>2
    <3>6. q <= n => q \in 1 .. n /\ names[q] = "/"
      BY <1>8, <1>10, <2>1
    <3>7. CASE left' = << >>
      <4>1. q \in {n, n + 1}
        <5> SUFFICES ASSUME q < n PROVE FALSE
          BY <1>9, <1>10
        <5> DEFINE x == SubSeq(names, q + 1, n)
        <5>1. x \in Seq(PathChar) /\ Len(x) = n - q
          BY <1>3, <1>10 DEF n
        <5>2. x = << >>
          BY <2>2, <3>7
        <5> HIDE DEF x
        <5>3. Len(x) = 0
          BY <5>2
        <5> QED
          BY <1>10, <5>1, <5>3
      <4>2. Lead(names) = {at'}
        <5>1. CASE q = n + 1
          BY <1>3, <1>w, <1>8, <3>5, <5>1, LeadIs
        <5>2. CASE q = n
          <6>1. SubSeq(names, 1, n) = names
            BY <1>3 DEF n
          <6>2. n \in 0 .. Len(names) /\ names[n] = "/" /\ Leads(h, Append(names, "/"), n)
            BY <1>w, <1>10, <3>5, <3>6, <5>2 DEF n
          <6>3. Lead(SubSeq(names, 1, n)) = h[n]
            BY <1>3, <6>2, LeadOfSome
          <6> QED
            BY <3>5, <5>2, <6>1, <6>3
        <5> QED
          BY <4>1, <5>1, <5>2
      <4>3. "@" \notin Range(names)
        <5> SUFFICES ASSUME NEW k \in 1 .. n, names[k] = "@" PROVE FALSE
          BY <1>3 DEF Range, n
        <5>1. k \in 1 .. q - 1 \/ k = q
          BY <1>10, <4>1
        <5>2. k = q => names[k] = "/"
          BY <1>10, <3>6, <4>1
        <5> QED
          BY <1>11, <5>1, <5>2
      <4>4. accPc' = "read" /\ MeantNodes' = {at'} /\ ("@" \notin Range(MeantNames))'
        BY <1>2, <3>1, <3>7, <4>2, <4>3 DEF MeantNodes
      <4> QED
        BY <1>2, <3>3, <3>4, <4>4 DEF AccessInv, AnswerIsOfPath
    <3>8. CASE left' # << >>
      <4>1. q < n
        <5> SUFFICES ASSUME ~(q < n) PROVE FALSE
          OBVIOUS
        <5>1. SubSeq(names, q + 1, n) = << >>
          BY <1>3, <1>10 DEF n
        <5> QED
          BY <2>2, <3>8, <5>1
      <4>2. \A k \in 1 .. q : names[k] # "@"
        <5> TAKE k \in 1 .. q
        <5>1. k \in 1 .. q - 1 \/ k = q
          BY <1>10
        <5>2. k = q => names[k] = "/"
          BY <1>10, <3>6, <4>1
        <5> QED
          BY <1>11, <5>1, <5>2
      <4>3. Walked(q, h)'
        <5>2. MeantNames' = names /\ w = Append(MeantNames', "/")
          BY <1>w, <1>2
        <5>3. left' = SubSeq(MeantNames', q + 1, Len(MeantNames'))
          BY <2>2, <5>2 DEF n
        <5>4. (q = 0 \/ MeantNames[q] = "/")' /\ \A k \in 1 .. q : MeantNames'[k] # "@"
          BY <1>10, <3>6, <4>1, <4>2, <5>2
        <5>5. Leads(h, Append(MeantNames, "/"), q)'
          BY <1>w, <1>1, <3>5, LeadsStays
        <5> QED
          BY <3>5, <5>3, <5>4, <5>5 DEF Walked
      <4>4. \E x \in 0 .. Len(MeantNames) : \E f : Walked(x, f)'
        <5>1. q \in 0 .. Len(MeantNames)
          BY <1>10, <4>1 DEF n
        <5> QED
          BY <4>3, <5>1
      <4>5. (\E x \in 0 .. Len(MeantNames) : \E f : Walked(x, f))'
        BY <1>2, <4>4
      <4> QED
        BY <1>2, <3>1, <3>3, <3>4, <3>8, <4>5 DEF AccessInv, AnswerIsOfPath
    <3> QED
      BY <3>7, <3>8
  <2> QED
    BY <2>5, <2>6
<1> QED
  BY <1>12, <1>13

\* What is read of the one text that is meant
LEMMA TextIsRead ==
    ASSUME kind \in Kind, kind # "node", UNCHANGED <<response, path, kind>>,
           NEW text, MeantTexts = {text}, ReadAs(text)
    PROVE  AnswerIsOfPath' /\ accPc' = "returned"
<1>1. MeantTexts' = {text} /\ kind' = kind
  BY MeantStays
<1>2. CASE kind = "str"
  <2>1. Answers("OK", text)
    BY <1>2 DEF ReadAs
  <2> QED
    BY <1>1, <1>2, <2>1 DEF Answers, AnswerIsOfPath
<1>3. CASE kind = "tag"
  <2>1. Answers("OK", TRUE)
    BY <1>3 DEF ReadAs
  <2>2. accPc' = "returned" /\ accError' = "OK" /\ accValue' = TRUE
    BY <2>1 DEF Answers
  <2>3. accValue' = (MeantTexts' # {})
    BY <1>1, <2>2
  <2> QED
    BY <1>1, <1>3, <2>2, <2>3 DEF AnswerIsOfPath
<1>4. CASE kind = "int"
  <2>1. IF text \in DOMAIN Number THEN Answers("OK", Number[text])
        ELSE Answers("FORMAT", NoValue)
    BY <1>4 DEF ReadAs
  <2> QED
    BY <1>1, <1>4, <2>1 DEF Answers, AnswerIsOfPath
<1>5. CASE kind = "bool"
  <2>1. IF text \in DOMAIN Number THEN Answers("OK", Number[text] # 0)
        ELSE IF text \in DOMAIN Truth THEN Answers("OK", Truth[text])
        ELSE Answers("FORMAT", NoValue)
    BY <1>5 DEF ReadAs
  <2>2. CASE text \in DOMAIN Number
    <3>1. accPc' = "returned" /\ accError' = "OK" /\ accValue' = (Number[text] # 0)
      BY <2>1, <2>2 DEF Answers
    <3>2. accValue' = IF text \in DOMAIN Number THEN Number[text] # 0 ELSE Truth[text]
      BY <2>2, <3>1
    <3> QED
      BY <1>1, <1>5, <3>1, <3>2 DEF AnswerIsOfPath
  <2>3. CASE text \notin DOMAIN Number /\ text \in DOMAIN Truth
    <3>1. accPc' = "returned" /\ accError' = "OK" /\ accValue' = Truth[text]
      BY <2>1, <2>3 DEF Answers
    <3>2. accValue' = IF text \in DOMAIN Number THEN Number[text] # 0 ELSE Truth[text]
      BY <2>3, <3>1
    <3> QED
      BY <1>1, <1>5, <3>1, <3>2 DEF AnswerIsOfPath
  <2>4. CASE text \notin DOMAIN Number /\ text \notin DOMAIN Truth
    <3>1. accPc' = "returned" /\ accError' = "FORMAT"
      BY <2>1, <2>4 DEF Answers
    <3> QED
      BY <1>1, <2>4, <3>1 DEF AnswerIsOfPath
  <2> QED
    BY <2>2, <2>3, <2>4
<1> QED
  BY <1>2, <1>3, <1>4, <1>5 DEF Kind

LEMMA ValueIsRead ==
    ASSUME AccessInv, ReadValue
    PROVE  AccessInv'
<1>1. /\ UNCHANGED <<response, path, kind, at>> /\ AccessTypeOK /\ MeantNodes = {at}
      /\ "@" \notin Range(MeantNames) /\ accPc = "read"
      /\ attr = IF MeantAttr = {} THEN NoValue ELSE MeantName
  BY DEF ReadValue, AccessInv
<1>2. UNCHANGED <<MeantNodes, MeantTexts, MeantNames>>
  BY <1>1, MeantStays
<1>3. SUFFICES AnswerIsOfPath' /\ accPc' = "returned"
  BY <1>1, <1>3 DEF AccessInv, AccessTypeOK
<1>4. kind \in Kind /\ response \in Response /\ at \in DOMAIN response
  BY <1>1 DEF AccessTypeOK
<1>5. CASE kind = "node"
  <2>1. accPc' = "returned" /\ accError' = "OK" /\ accValue' = at /\ kind' = "node"
    BY <1>1, <1>5 DEF ReadValue, Answers
  <2> QED
    BY <1>1, <1>2, <2>1 DEF AnswerIsOfPath
<1>6. CASE kind # "node" /\ attr = NoValue
  <2>1. MeantAttr = {}
    BY <1>1, <1>6, PathIs
  <2>2. MeantTexts = {response[at].value}
    BY <1>1, <2>1 DEF MeantTexts
  <2>3. ReadAs(response[at].value)
    BY <1>6 DEF ReadValue
  <2> QED
    BY <1>1, <1>4, <1>6, <2>2, <2>3, TextIsRead
<1>7. CASE kind # "node" /\ attr # NoValue
  <2>1. MeantAttr # {} /\ attr = MeantName
    BY <1>1, <1>7
  <2>2. MeantTexts = {response[at].attrs[i].value : i \in First(Attrs(at, attr))}
    BY <1>1, <2>1 DEF MeantTexts, MeantName
  <2>3. CASE Attrs(at, attr) # {}
    <3>1. MeantTexts = {FirstAttr(at, attr)}
      BY <2>2, <2>3 DEF First, FirstAttr
    <3>2. ReadAs(FirstAttr(at, attr))
      BY <1>7, <2>3 DEF ReadValue
    <3> QED
      BY <1>1, <1>4, <1>7, <3>1, <3>2, TextIsRead
  <2>4. CASE Attrs(at, attr) = {}
    <3>1. MeantTexts' = {} /\ kind' = kind /\ ("@" \notin Range(MeantNames))'
      BY <1>1, <1>2, <2>2, <2>4 DEF First
    <3>2. Fails("NOT_FOUND")
      BY <1>7, <2>4 DEF ReadValue
    <3>3. CASE kind = "tag"
      <4>1. accPc' = "returned" /\ accError' = "OK" /\ accValue' = FALSE
        BY <3>2, <3>3 DEF Fails, Answers
      <4>2. accValue' = (MeantTexts' # {})
        BY <3>1, <4>1
      <4> QED
        BY <3>1, <3>3, <4>1, <4>2 DEF AnswerIsOfPath
    <3>4. CASE kind # "tag"
      <4>1. accPc' = "returned" /\ accError' = "NOT_FOUND"
        BY <3>2, <3>4 DEF Fails, Answers
      <4> QED
        BY <1>7, <3>1, <4>1 DEF AnswerIsOfPath
    <3> QED
      BY <3>3, <3>4
  <2> QED
    BY <2>3, <2>4
<1> QED
  BY <1>5, <1>6, <1>7

LEMMA AccessIsKept ==
    AccessInv /\ [AccessNext]_accVars => AccessInv'
<1> SUFFICES ASSUME AccessInv, [AccessNext]_accVars PROVE AccessInv'
  OBVIOUS
<1>1. CASE UNCHANGED accVars
  <2>1. UNCHANGED <<response, path, kind, accPc, left, attr, at, accError, accValue>>
    BY <1>1 DEF accVars
  <2>2. UNCHANGED <<MeantAttr, MeantNames, MeantName, MeantNodes, MeantTexts, Lead(Sound)>>
    BY <2>1, MeantStays
  <2>3. AnswerIsOfPath'
    BY <2>1, <2>2 DEF AccessInv, AnswerIsOfPath
  <2>4. accPc = "walk" => \E p \in 0 .. Len(MeantNames') : \E g : Walked(p, g)'
    <3> SUFFICES ASSUME accPc = "walk"
                 PROVE  \E p \in 0 .. Len(MeantNames') : \E g : Walked(p, g)'
      OBVIOUS
    <3>p. PICK p \in 0 .. Len(MeantNames) : \E g : Walked(p, g)
      BY DEF AccessInv
    <3>1. PICK g : Walked(p, g)
      BY <3>p
    <3>2. PICK w : w = Append(MeantNames, "/")
      OBVIOUS
    <3>3. Leads(g, Append(MeantNames, "/"), p)'
      BY <2>1, <3>1, <3>2, LeadsStays DEF Walked
    <3>4. Walked(p, g)'
      BY <2>1, <2>2, <3>1, <3>3 DEF Walked
    <3> QED
      BY <2>2, <3>1, <3>4
  <2> QED
    BY <2>1, <2>2, <2>3, <2>4 DEF AccessInv, AccessTypeOK
<1> QED
  BY <1>1, PathIsFormatted, PathIsWalked, ValueIsRead DEF AccessNext

\* The invariant of the accessors: the walk is where the names walked lead.
THEOREM AccessInvariance == AccessSpec => []AccessInv
BY AccessStarts, AccessIsKept, PTL DEF AccessSpec

\* For every response and path, an accessor of core.c answers with the value of
\* the node and the attribute that the path means, or says why there is none.
THEOREM AnswersAreOfPaths == AccessSpec => []AnswerIsOfPath
<1>1. AccessInv => AnswerIsOfPath
  BY DEF AccessInv
<1> QED
  BY <1>1, AccessInvariance, PTL

-----------------------------------------------------------------------------
(***************************************************************************)
(* Commands.  The parser is at a place of its copy, with what it has not   *)
(* read behind that place as it is in the command, and with the arguments  *)
(* it has found before it as they are when the command is read once.       *)
(***************************************************************************)

LEMMA SameItems ==
    ASSUME NEW S, NEW f \in Seq(S), NEW g \in Seq(S), Len(f) = Len(g),
           \A i \in 1 .. Len(f) : f[i] = g[i]
    PROVE  f = g
  OBVIOUS

LEMMA NoneIsFirst ==
    ASSUME NEW B \in SUBSET Nat, \A m \in B : m # 0 /\ m - 1 \in B
    PROVE  B = {}
<1> SUFFICES ASSUME B # {} PROVE FALSE
  OBVIOUS
<1>1. PICK m \in B : \A k \in B : <<k, m>> \notin OpToRel(<, Nat)
  BY NatLessThanWellFounded, WFMin
<1>2. \A k \in B : ~(k < m)
  BY <1>1 DEF OpToRel
<1> QED
  BY <1>2

\* The reading of a command, from character to character
LEMMA ReadingExists ==
    ASSUME NEW n \in Nat, n <= Len(command)
    PROVE  \E g : /\ g = [k \in 0 .. n |-> g[k]] /\ g[0] = Unread
                  /\ \A k \in 1 .. n : g[k] = Read(g[k - 1], command[k])
<1> DEFINE ReadTo(m) == \E g : /\ g = [k \in 0 .. m |-> g[k]] /\ g[0] = Unread
                            /\ \A k \in 1 .. m : g[k] = Read(g[k - 1], command[k])
           Bad == {m \in 0 .. n : ~ReadTo(m)}
<1>1. ReadTo(0)
  <2> DEFINE z == [k \in 0 .. 0 |-> Unread]
  <2>1. z = [k \in 0 .. 0 |-> z[k]] /\ z[0] = Unread
    OBVIOUS
  <2>2. \A k \in 1 .. 0 : z[k] = Read(z[k - 1], command[k])
    OBVIOUS
  <2> HIDE DEF z
  <2> QED
    BY <2>1, <2>2
<1>2. ASSUME NEW m \in 0 .. n, m # 0, ReadTo(m - 1) PROVE ReadTo(m)
  <2>1. PICK g : /\ g = [k \in 0 .. m - 1 |-> g[k]] /\ g[0] = Unread
                 /\ \A k \in 1 .. m - 1 : g[k] = Read(g[k - 1], command[k])
    BY <1>2
  <2> DEFINE h == [k \in 0 .. m |-> IF k < m THEN g[k] ELSE Read(g[m - 1], command[m])]
  <2>2. m \in Nat /\ m >= 1
    BY <1>2
  <2>3. h = [k \in 0 .. m |-> h[k]] /\ h[0] = Unread
    BY <2>1, <2>2
  <2>4. ASSUME NEW k \in 1 .. m PROVE h[k] = Read(h[k - 1], command[k])
    <3>1. CASE k < m
      <4>1. k \in 1 .. m - 1 /\ k \in 0 .. m /\ k - 1 \in 0 .. m /\ k - 1 < m
        BY <2>2, <3>1
      <4> QED
        BY <2>1, <3>1, <4>1
    <3>2. CASE k = m
      <4>1. k \in 0 .. m /\ k - 1 \in 0 .. m /\ k - 1 < m /\ ~(k < m)
        BY <2>2, <3>2
      <4> QED
        BY <3>2, <4>1
    <3> QED
      BY <2>2, <3>1, <3>2
  <2> HIDE DEF h
  <2> QED
    BY <2>3, <2>4
<1> HIDE DEF ReadTo
<1>3. \A m \in Bad : m # 0 /\ m - 1 \in Bad
  BY <1>1, <1>2
<1>4. Bad \in SUBSET Nat
  OBVIOUS
<1>5. Bad = {}
  BY <1>3, <1>4, NoneIsFirst
<1>6. ReadTo(n)
  BY <1>5
<1> QED
  BY <1>6 DEF ReadTo

LEMMA ReadingIs ==
    ASSUME Len(command) \in Nat
    PROVE  /\ ReadSoFar[0] = Unread
           /\ \A k \in 1 .. Len(command) : ReadSoFar[k] = Read(ReadSoFar[k - 1], command[k])
<1> DEFINE n == Len(command)
           Step(g, k) == IF k = 0 THEN Unread ELSE Read(g[k - 1], command[k])
           Defines(g) == g = [k \in 0 .. n |-> IF k = 0 THEN Unread ELSE Read(g[k - 1], command[k])]
<1>1. PICK g : /\ g = [k \in 0 .. n |-> g[k]] /\ g[0] = Unread
               /\ \A k \in 1 .. n : g[k] = Read(g[k - 1], command[k])
  BY ReadingExists
<1>2. \A k \in 0 .. n : g[k] = Step(g, k)
  <2>1. \A k \in 0 .. n : k = 0 \/ k \in 1 .. n
    OBVIOUS
  <2> QED
    BY <1>1, <2>1
<1>3. Defines(g)
  <2>1. [k \in 0 .. n |-> g[k]] = [k \in 0 .. n |-> Step(g, k)]
    BY <1>2
  <2> QED
    BY <1>1, <2>1
<1>4. ReadSoFar = CHOOSE f : Defines(f)
  BY DEF ReadSoFar
<1> HIDE DEF Defines
<1>5. Defines(ReadSoFar)
  BY <1>3, <1>4
<1>6. \A k \in 0 .. n : ReadSoFar[k] = Step(ReadSoFar, k)
  BY <1>5 DEF Defines
<1>7. 0 \in 0 .. n /\ \A k \in 1 .. n : k \in 0 .. n /\ k # 0
  OBVIOUS
<1> QED
  BY <1>6, <1>7

\* R is the reading of w.
ReadingOf(w, R) ==
    /\ w \in Seq(Char) /\ R[0] = Unread
    /\ \A k \in 1 .. Len(w) : R[k] = Read(R[k - 1], w[k])

LEMMA ReadNext ==
    ASSUME NEW w, NEW R, ReadingOf(w, R), NEW k \in Nat, k < Len(w)
    PROVE  R[k + 1] = Read(R[k], w[k + 1])
<1>1. Len(w) \in Nat
  BY DEF ReadingOf
<1>2. k + 1 \in 1 .. Len(w) /\ (k + 1) - 1 = k
  BY <1>1
<1> QED
  BY <1>2 DEF ReadingOf

\* What was refused stays refused.
LEMMA BadStays ==
    ASSUME NEW w, NEW R, ReadingOf(w, R), NEW k \in Nat, k <= Len(w), R[k].bad
    PROVE  R[Len(w)].bad
<1> DEFINE n == Len(w)
           B == {m \in Nat : k + m <= n /\ ~R[k + m].bad}
<1>0. n \in Nat
  BY DEF ReadingOf
<1> HIDE DEF n
<1>1. ASSUME NEW m \in B PROVE m # 0 /\ m - 1 \in B
  <2>1. m # 0
    BY <1>1
  <2>2. m - 1 \in Nat /\ k + (m - 1) \in Nat /\ k + (m - 1) < n /\ (k + (m - 1)) + 1 = k + m
    BY <1>0, <1>1, <2>1
  <2>3. R[k + m] = Read(R[k + (m - 1)], w[k + m])
    <3> DEFINE j == k + (m - 1)
    <3>1. j \in Nat /\ j < Len(w) /\ j + 1 = k + m
      BY <2>2 DEF n
    <3> HIDE DEF j
    <3>2. R[j + 1] = Read(R[j], w[j + 1])
      BY <3>1, ReadNext
    <3> QED
      BY <3>1, <3>2 DEF j
  <2>4. ~R[k + (m - 1)].bad
    <3> SUFFICES ASSUME R[k + (m - 1)].bad PROVE FALSE
      OBVIOUS
    <3>1. R[k + m] = R[k + (m - 1)]
      BY <2>3, Zenon DEF Read
    <3> QED
      BY <1>1, <3>1
  <2>5. k + (m - 1) <= n
    BY <1>0, <1>1
  <2> QED
    BY <2>1, <2>2, <2>4, <2>5
<1>2. B = {}
  <2>1. B \in SUBSET Nat
    OBVIOUS
  <2> QED
    BY <1>1, <2>1, NoneIsFirst
<1>3. n - k \in Nat /\ k + (n - k) = n
  BY <1>0 DEF n
<1> SUFFICES ASSUME ~R[n].bad PROVE FALSE
  BY DEF n
<1>4. n - k \in B
  BY <1>0, <1>3
<1> QED
  BY <1>2, <1>4


\* The bytes a copy may hold, and what is known of a command read so far.
ArgByte == Char \cup {Nul} \cup {Escaped[c] : c \in DOMAIN Escaped}
Words == Seq(Seq(ArgByte))
IsReading(s) == s = [f \in {"quote", "escape", "inside", "bad", "list"} |-> s[f]] /\ s.bad = FALSE
Inside(s, q, l) ==
    IsReading(s) /\ s.escape = FALSE /\ s.inside = TRUE /\ s.quote = q /\ s.list = l
Outside(s, l) ==
    IsReading(s) /\ s.escape = FALSE /\ s.inside = FALSE /\ s.quote = Nul /\ s.list = l
Escaping(s, q, l) ==
    IsReading(s) /\ s.escape = TRUE /\ s.inside = TRUE /\ s.quote = q /\ s.list = l

\* cur is the argument that goes on behind those in l; that it has begun may be known from
\* the next character only.
IsWithin(s, q, l, cur) ==
    Inside(s, q, Append(l, cur)) \/ (q = Nul /\ cur = << >> /\ Outside(s, l))

ListOf(s) == IF s.inside THEN s.list ELSE Append(s.list, << >>)

\* A list with another last item, and one whose last item is longer
LastSet(m, b) == [m EXCEPT ![Len(m)] = b]
Longer(m, c) == [m EXCEPT ![Len(m)] = Append(@, c)]

LEMMA LastOf ==
    ASSUME NEW S, NEW l \in Seq(S), NEW a \in S, NEW b \in S, NEW m, m = Append(l, a)
    PROVE  LastSet(m, b) = Append(l, b)
<1> DEFINE x == [m EXCEPT ![Len(m)] = b]
           y == Append(l, b)
<1>1. m \in Seq(S) /\ Len(m) = Len(l) + 1 /\ m[Len(m)] = a /\ Len(l) \in Nat
  OBVIOUS
<1>2. y \in Seq(S) /\ Len(y) = Len(l) + 1 /\ y[Len(l) + 1] = b /\ \A i \in 1 .. Len(l) : y[i] = l[i]
  OBVIOUS
<1>3. \A i \in 1 .. Len(l) : m[i] = l[i]
  OBVIOUS
<1> HIDE DEF y
<1>4. x \in Seq(S) /\ Len(x) = Len(l) + 1
      /\ \A i \in 1 .. Len(l) + 1 : x[i] = IF i = Len(l) + 1 THEN b ELSE m[i]
  <2> DEFINE n == Len(m)
             k == Len(l)
  <2>1. m \in Seq(S) /\ n = k + 1 /\ k \in Nat /\ DOMAIN m = 1 .. n /\ n \in DOMAIN m
    BY <1>1
  <2>2. x \in Seq(S) /\ Len(x) = n
    BY <2>1
  <2>3. \A i \in 1 .. k + 1 : x[i] = IF i = k + 1 THEN b ELSE m[i]
    BY <2>1
  <2> QED
    BY <2>1, <2>2, <2>3
<1> HIDE DEF x
<1>5. \A i \in 1 .. Len(l) + 1 : x[i] = y[i]
  <2>1. \A i \in 1 .. Len(l) + 1 : i = Len(l) + 1 \/ (i \in 1 .. Len(l) /\ i # Len(l) + 1)
    BY <1>1
  <2> QED
    BY <1>2, <1>3, <1>4, <2>1
<1>6. x = y
  BY <1>2, <1>4, <1>5, SameItems
<1> QED
  BY <1>1, <1>6 DEF x, y, LastSet

\* A character that is added to the last argument.
LEMMA LastGrows ==
    ASSUME NEW l \in Words, NEW cur \in Seq(ArgByte), NEW c \in ArgByte
    PROVE  Longer(Append(l, cur), c) = Append(l, Append(cur, c))
<1> DEFINE S == Seq(ArgByte)
           new == Append(cur, c)
           m == Append(l, cur)
<1>1. new \in S /\ cur \in S /\ l \in Seq(S)
  BY DEF Words
<1> HIDE DEF S, new, m
<1>2. m = Append(l, cur)
  BY DEF m
<1>5. m[Len(m)] = cur
  BY <1>1, <1>2
<1>6. LastSet(m, new) = Append(l, new)
  BY <1>1, <1>2, LastOf
<1>3. m[Len(m)] = cur /\ LastSet(m, new) = Append(l, new)
  BY <1>5, <1>6
<1>4. Longer(m, c) = LastSet(m, new)
  BY <1>3, Zenon DEF Longer, LastSet, new
<1> QED
  BY <1>3, <1>4 DEF new, m

LEMMA UnreadIs == Outside(Unread, << >>)
  BY DEF Outside, IsReading, Unread

\* The steps of Read.
InnerOf(s, m) == [s EXCEPT !.inside = TRUE, !.escape = FALSE, !.list = m]
OpenOf(s, x, m) == [s EXCEPT !.quote = x, !.inside = TRUE, !.list = m]
EscapeOf(s, m) == [s EXCEPT !.escape = TRUE, !.inside = TRUE, !.list = m]

LEMMA CharacterIn ==
    ASSUME NEW s, IsReading(s), NEW m
    PROVE  Inside(InnerOf(s, m), s.quote, m)
  BY DEF IsReading, Inside, InnerOf

LEMMA QuoteOpens ==
    ASSUME NEW s, IsReading(s), s.escape = FALSE, NEW x, NEW m
    PROVE  Inside(OpenOf(s, x, m), x, m)
  BY DEF IsReading, Inside, OpenOf

LEMMA QuoteCloses ==
    ASSUME NEW s, NEW q, NEW l, Inside(s, q, l)
    PROVE  Inside([s EXCEPT !.quote = Nul], Nul, l)
  BY DEF IsReading, Inside

LEMMA SpaceIn ==
    ASSUME NEW s, IsReading(s), s.escape = FALSE, s.quote = Nul
    PROVE  Outside([s EXCEPT !.inside = FALSE], s.list)
  BY DEF IsReading, Outside

LEMMA BackslashIn ==
    ASSUME NEW s, IsReading(s), NEW m
    PROVE  Escaping(EscapeOf(s, m), s.quote, m)
  BY DEF IsReading, Escaping, EscapeOf

LEMMA BadIn ==
    ASSUME NEW s, IsReading(s)
    PROVE  [s EXCEPT !.bad = TRUE].bad
  BY DEF IsReading

Going(s, q, L) == IsReading(s) /\ s.quote = q /\ s.escape = FALSE /\ s.bad = FALSE /\ ListOf(s) = L

LEMMA WithinIs ==
    ASSUME NEW l, NEW cur, NEW q, NEW s, IsWithin(s, q, l, cur)
    PROVE  Going(s, q, Append(l, cur))
  BY DEF IsWithin, Inside, Outside, IsReading, ListOf, Going

\* What the next character makes of it.
LEMMA ReadPlain ==
    ASSUME NEW l \in Words, NEW cur \in Seq(ArgByte), NEW q, NEW s, IsWithin(s, q, l, cur),
           NEW c \in ArgByte, c # Backslash, q # Nul => c # q, q = Nul => c \notin Quote \cup Space
    PROVE  Inside(Read(s, c), q, Append(l, Append(cur, c)))
<1> DEFINE L == Append(l, cur)
           M == Longer(L, c)
<1>1. Going(s, q, L)
  BY WithinIs
<1>2. M = Append(l, Append(cur, c))
  BY LastGrows
<1> HIDE DEF L
<1>3. Read(s, c) = InnerOf(s, M)
  BY <1>1, Zenon DEF Read, ListOf, Going, InnerOf, Longer
<1> HIDE DEF M
<1>5. IsReading(s) /\ s.quote = q
  BY <1>1 DEF Going
<1>4. Inside(InnerOf(s, M), s.quote, M)
  BY <1>5, CharacterIn
<1> QED
  BY <1>5, <1>2, <1>3, <1>4, Zenon

LEMMA ReadQuote ==
    ASSUME NEW l, NEW cur, NEW s, IsWithin(s, Nul, l, cur), NEW c \in Quote
    PROVE  Inside(Read(s, c), c, Append(l, cur))
<1> DEFINE L == Append(l, cur)
<1>1. Going(s, Nul, L)
  BY WithinIs
<1>2. c # Backslash
  BY CharAssumption
<1> HIDE DEF L
<1>3. Read(s, c) = OpenOf(s, c, L)
  BY <1>1, <1>2, Zenon DEF Read, ListOf, Going, OpenOf
<1>5. IsReading(s) /\ s.escape = FALSE
  BY <1>1 DEF Going
<1>4. Inside(OpenOf(s, c, L), c, L)
  BY <1>5, QuoteOpens
<1> QED
  BY <1>3, <1>4, Zenon DEF L

LEMMA ReadUnquote ==
    ASSUME NEW l, NEW cur, NEW q \in Quote, NEW s, IsWithin(s, q, l, cur)
    PROVE  Inside(Read(s, q), Nul, Append(l, cur))
<1>1. q # Backslash /\ q # Nul
  BY CharAssumption
<1>2. Inside(s, q, Append(l, cur))
  BY <1>1 DEF IsWithin
<1>3. s.quote = q /\ s.escape = FALSE /\ s.bad = FALSE
  BY <1>2 DEF Inside, IsReading
<1>4. Read(s, q) = [s EXCEPT !.quote = Nul]
  BY <1>1, <1>3, Zenon DEF Read
<1>5. Inside([s EXCEPT !.quote = Nul], Nul, Append(l, cur))
  BY <1>2, QuoteCloses
<1> QED
  BY <1>4, <1>5, Zenon

LEMMA ReadSpace ==
    ASSUME NEW s, NEW l, Inside(s, Nul, l) \/ Outside(s, l), NEW c \in Space
    PROVE  Outside(Read(s, c), l)
<1>1. c # Backslash /\ c \notin Quote
  BY CharAssumption
<1>2. IsReading(s) /\ s.quote = Nul /\ s.escape = FALSE /\ s.bad = FALSE /\ s.list = l
  BY DEF Inside, Outside, IsReading
<1>3. Read(s, c) = [s EXCEPT !.inside = FALSE]
  BY <1>1, <1>2, Zenon DEF Read
<1>4. Outside([s EXCEPT !.inside = FALSE], s.list)
  BY <1>2, SpaceIn
<1> QED
  BY <1>2, <1>3, <1>4, Zenon

\* A backslash, and what is behind it.
LEMMA ReadBackslash ==
    ASSUME NEW l, NEW cur, NEW q, NEW s, IsWithin(s, q, l, cur)
    PROVE  Escaping(Read(s, Backslash), q, Append(l, cur))
<1> DEFINE L == Append(l, cur)
<1>1. Going(s, q, L)
  BY WithinIs
<1> HIDE DEF L
<1>2. Read(s, Backslash) = EscapeOf(s, L)
  BY <1>1, Zenon DEF Read, ListOf, Going, EscapeOf
<1>4. IsReading(s) /\ s.quote = q
  BY <1>1 DEF Going
<1>3. Escaping(EscapeOf(s, L), s.quote, L)
  BY <1>4, BackslashIn
<1> QED
  BY <1>4, <1>2, <1>3, Zenon DEF L

LEMMA ReadEscaped ==
    ASSUME NEW l \in Words, NEW cur \in Seq(ArgByte), NEW q, NEW r,
           Escaping(r, q, Append(l, cur)), NEW c \in DOMAIN Escaped
    PROVE  Inside(Read(r, c), q, Append(l, Append(cur, Escaped[c])))
<1> DEFINE L == Append(l, cur)
           x == Escaped[c]
           M == Longer(L, x)
<1>1. IsReading(r) /\ r.escape = TRUE /\ r.bad = FALSE /\ r.inside = TRUE /\ r.list = L
      /\ r.quote = q
  BY DEF Escaping, IsReading
<1>2. x \in ArgByte
  BY DEF ArgByte
<1> HIDE DEF x
<1>3. M = Append(l, Append(cur, x))
  BY <1>2, LastGrows
<1> HIDE DEF L
<1>4. Read(r, c) = InnerOf(r, M)
  BY <1>1, Zenon DEF Read, x, InnerOf, Longer
<1> HIDE DEF M
<1>5. Inside(InnerOf(r, M), r.quote, M)
  BY <1>1, CharacterIn
<1> QED
  BY <1>1, <1>3, <1>4, <1>5, Zenon DEF x

LEMMA ReadUnknown ==
    ASSUME NEW l, NEW q, NEW r, Escaping(r, q, l), NEW c, c \notin DOMAIN Escaped
    PROVE  Read(r, c).bad
<1>1. IsReading(r) /\ r.escape = TRUE /\ r.bad = FALSE
  BY DEF Escaping, IsReading
<1>2. Read(r, c) = [r EXCEPT !.bad = TRUE]
  BY <1>1, Zenon DEF Read
<1>3. [r EXCEPT !.bad = TRUE].bad
  BY <1>1, BadIn
<1> QED
  BY <1>2, <1>3, Zenon

-----------------------------------------------------------------------------
\* The text.  What is behind a place of the copy is what follows k characters
\* of the command.
Rest(w, k, b, p) ==
    /\ k \in Nat /\ k <= Len(w) /\ p \in Nat /\ p >= 1 /\ Len(b) + 1 = p + (Len(w) - k)
    /\ \A j \in 1 .. Len(w) - k : b[(p - 1) + j] = w[k + j]

\* An argument that began at a and goes on at p
Word(b, a, p, cur) ==
    /\ a \in Nat /\ a >= 1 /\ a <= p /\ p \in Nat /\ p <= Len(b) + 1
    /\ cur \in Seq(ArgByte) /\ Len(cur) = p - a
    /\ \A j \in 1 .. Len(cur) : b[(a - 1) + j] = cur[j] /\ cur[j] # Nul

\* and those that ended before it
FoundUpTo(b, p, v, l) ==
    \A i \in 1 .. Len(l) :
        \E e \in Nat : e < p /\ Word(b, v[i], e, l[i]) /\ Char_(b, e) = Nul

\* A text that was changed from p on only
SameBefore(b, d, p) ==
    p - 1 <= Len(b) /\ p - 1 <= Len(d) /\ \A i \in 1 .. p - 1 : d[i] = b[i]

RemovedIs(b, p, d) ==
    /\ d \in Seq(ArgByte) /\ Len(d) = Len(b) - 1
    /\ \A i \in 1 .. Len(b) - 1 : d[i] = IF i < p THEN b[i] ELSE b[i + 1]

LEMMA RemovedText ==
    ASSUME NEW b \in Seq(ArgByte), NEW p \in 1 .. Len(b)
    PROVE  RemovedIs(b, p, Removed(b, p))
<1> DEFINE x == SubSeq(b, 1, p - 1)
           y == SubSeq(b, p + 1, Len(b))
<1>1. x \in Seq(ArgByte) /\ Len(x) = p - 1 /\ \A i \in 1 .. p - 1 : x[i] = b[i]
  OBVIOUS
<1>2. y \in Seq(ArgByte) /\ Len(y) = Len(b) - p /\ \A i \in 1 .. Len(b) - p : y[i] = b[p + i]
  OBVIOUS
<1> HIDE DEF x, y
<1> DEFINE d == x \o y
<1>3. d \in Seq(ArgByte) /\ Len(d) = Len(b) - 1
  BY <1>1, <1>2
<1>4. ASSUME NEW i \in 1 .. Len(b) - 1 PROVE d[i] = IF i < p THEN b[i] ELSE b[i + 1]
  <2>1. CASE i < p
    BY <1>1, <1>2, <2>1
  <2>2. CASE i >= p
    <3>1. i - (p - 1) \in 1 .. Len(b) - p /\ p + (i - (p - 1)) = i + 1
      BY <2>2
    <3>2. d[i] = y[i - (p - 1)]
      BY <1>1, <1>2, <2>2
    <3>3. y[i - (p - 1)] = b[p + (i - (p - 1))]
      BY <1>2, <3>1
    <3> QED
      BY <2>2, <3>1, <3>2, <3>3
  <2>3. i \in Int /\ p \in Int
    OBVIOUS
  <2> HIDE DEF d
  <2> QED
    BY <2>1, <2>2, <2>3
<1>5. Removed(b, p) = d
  BY DEF Removed, x, y
<1> HIDE DEF d
<1> QED
  BY <1>3, <1>4, <1>5 DEF RemovedIs

PutIs(b, p, x, d) ==
    /\ d \in Seq(ArgByte) /\ Len(d) = Len(b) /\ d[p] = x
    /\ \A i \in 1 .. Len(b) : i # p => d[i] = b[i]

LEMMA PutText ==
    ASSUME NEW b \in Seq(ArgByte), NEW p \in 1 .. Len(b), NEW x \in ArgByte
    PROVE  PutIs(b, p, x, [b EXCEPT ![p] = x])
<1> DEFINE d == [b EXCEPT ![p] = x]
<1>1. d \in Seq(ArgByte) /\ Len(d) = Len(b)
  OBVIOUS
<1>2. d[p] = x /\ \A i \in 1 .. Len(b) : i # p => d[i] = b[i]
  OBVIOUS
<1> HIDE DEF d
<1>3. PutIs(b, p, x, d)
  BY <1>1, <1>2 DEF PutIs
<1> QED
  BY <1>3 DEF d

\* What is at the place
LEMMA RestEnds ==
    ASSUME NEW w \in Seq(Char), NEW b \in Seq(ArgByte), NEW k, NEW p, Rest(w, k, b, p),
           Char_(b, p) = Nul
    PROVE  k = Len(w) /\ p = Len(b) + 1
<1> SUFFICES ASSUME k # Len(w) PROVE FALSE
  BY DEF Rest
<1>1. k + 1 \in 1 .. Len(w) /\ 1 \in 1 .. Len(w) - k /\ p \in Nat /\ Len(b) \in Nat /\ ~(p > Len(b))
  BY DEF Rest
<1>2. b[(p - 1) + 1] = w[k + 1]
  BY <1>1 DEF Rest
<1>3. b[p] = w[k + 1] /\ w[k + 1] \in Char
  BY <1>1, <1>2
<1> QED
  BY <1>1, <1>3, CharAssumption DEF Char_

Ahead(w, k, b, p) == /\ k < Len(w) /\ p \in 1 .. Len(b) /\ Char_(b, p) = w[k + 1]
                     /\ b[p] = w[k + 1] /\ w[k + 1] \in Char

LEMMA RestAhead ==
    ASSUME NEW w \in Seq(Char), NEW b \in Seq(ArgByte), NEW k, NEW p, Rest(w, k, b, p),
           Char_(b, p) # Nul
    PROVE  Ahead(w, k, b, p)
<1>1. k # Len(w)
  BY DEF Rest, Char_
<1>2. k + 1 \in 1 .. Len(w) /\ 1 \in 1 .. Len(w) - k /\ p \in 1 .. Len(b) /\ ~(p > Len(b))
      /\ k < Len(w)
  BY <1>1 DEF Rest
<1>3. b[(p - 1) + 1] = w[k + 1]
  BY <1>2 DEF Rest
<1>4. b[p] = w[k + 1] /\ w[k + 1] \in Char
  BY <1>2, <1>3
<1> QED
  BY <1>2, <1>4 DEF Char_, Ahead

LEMMA RestSkips ==
    ASSUME NEW w \in Seq(Char), NEW b \in Seq(ArgByte), NEW k, NEW p, Rest(w, k, b, p), k < Len(w)
    PROVE  Rest(w, k + 1, b, p + 1)
<1>1. Len(w) \in Nat /\ k \in Nat /\ p \in Nat /\ p >= 1 /\ Len(b) \in Nat
      /\ Len(b) + 1 = p + (Len(w) - k)
  BY DEF Rest
<1>2. Len(b) + 1 = (p + 1) + (Len(w) - (k + 1)) /\ k + 1 \in Nat /\ k + 1 <= Len(w) /\ p + 1 \in Nat
  BY <1>1
<1>3. ASSUME NEW j \in 1 .. Len(w) - (k + 1) PROVE b[((p + 1) - 1) + j] = w[(k + 1) + j]
  <2>1. j + 1 \in 1 .. Len(w) - k /\ (p - 1) + (j + 1) = ((p + 1) - 1) + j
        /\ k + (j + 1) = (k + 1) + j
    BY <1>1
  <2>2. b[(p - 1) + (j + 1)] = w[k + (j + 1)]
    BY <2>1 DEF Rest
  <2> QED
    BY <2>1, <2>2
<1> QED
  BY <1>1, <1>2, <1>3 DEF Rest

LEMMA RestRemoves ==
    ASSUME NEW w \in Seq(Char), NEW b \in Seq(ArgByte), NEW k, NEW p, Rest(w, k, b, p), k < Len(w),
           NEW d, RemovedIs(b, p, d)
    PROVE  Rest(w, k + 1, d, p) /\ SameBefore(b, d, p)
<1>1. Len(w) \in Nat /\ k \in Nat /\ p \in Nat /\ p >= 1 /\ Len(b) \in Nat
      /\ Len(b) + 1 = p + (Len(w) - k)
  BY DEF Rest
<1>2. Len(d) = Len(b) - 1 /\ \A i \in 1 .. Len(b) - 1 : d[i] = IF i < p THEN b[i] ELSE b[i + 1]
  BY DEF RemovedIs
<1>3. Len(d) + 1 = p + (Len(w) - (k + 1)) /\ k + 1 \in Nat /\ k + 1 <= Len(w) /\ p - 1 <= Len(b) - 1
  BY <1>1, <1>2
<1>4. ASSUME NEW j \in 1 .. Len(w) - (k + 1) PROVE d[(p - 1) + j] = w[(k + 1) + j]
  <2>1. /\ j + 1 \in 1 .. Len(w) - k /\ (p - 1) + (j + 1) = ((p - 1) + j) + 1
        /\ k + (j + 1) = (k + 1) + j
        /\ (p - 1) + j \in 1 .. Len(b) - 1 /\ ~((p - 1) + j < p)
    BY <1>1
  <2>2. b[(p - 1) + (j + 1)] = w[k + (j + 1)]
    BY <2>1 DEF Rest
  <2>3. d[(p - 1) + j] = b[((p - 1) + j) + 1]
    BY <1>2, <2>1
  <2> QED
    BY <2>1, <2>2, <2>3
<1>5. Rest(w, k + 1, d, p)
  BY <1>1, <1>3, <1>4 DEF Rest
<1>6. \A i \in 1 .. p - 1 : i \in 1 .. Len(b) - 1 /\ i < p
  BY <1>1, <1>3
<1>7. \A i \in 1 .. p - 1 : d[i] = b[i]
  BY <1>2, <1>6
<1>8. p - 1 <= Len(b) /\ p - 1 <= Len(d)
  BY <1>1, <1>2, <1>3
<1> QED
  BY <1>5, <1>7, <1>8 DEF SameBefore

LEMMA RestPuts ==
    ASSUME NEW w \in Seq(Char), NEW b \in Seq(ArgByte), NEW k, NEW p, Rest(w, k, b, p), k < Len(w),
           NEW x, NEW d, PutIs(b, p, x, d)
    PROVE  Rest(w, k + 1, d, p + 1) /\ SameBefore(b, d, p)
<1>1. Len(w) \in Nat /\ k \in Nat /\ p \in Nat /\ p >= 1 /\ Len(b) \in Nat
      /\ Len(b) + 1 = p + (Len(w) - k)
  BY DEF Rest
<1>2. Len(d) = Len(b) /\ \A i \in 1 .. Len(b) : i # p => d[i] = b[i]
  BY DEF PutIs
<1>3. Rest(w, k + 1, b, p + 1)
  BY RestSkips
<1>4. /\ Len(b) + 1 = (p + 1) + (Len(w) - (k + 1)) /\ k + 1 \in Nat /\ k + 1 <= Len(w)
      /\ p + 1 \in Nat
      /\ \A j \in 1 .. Len(w) - (k + 1) : b[((p + 1) - 1) + j] = w[(k + 1) + j]
  BY <1>1, <1>3 DEF Rest
<1>5. ASSUME NEW j \in 1 .. Len(w) - (k + 1) PROVE d[((p + 1) - 1) + j] = w[(k + 1) + j]
  <2>1. ((p + 1) - 1) + j \in 1 .. Len(b) /\ ((p + 1) - 1) + j # p
    BY <1>1
  <2> QED
    BY <1>2, <1>4, <2>1
<1>6. Rest(w, k + 1, d, p + 1)
  BY <1>1, <1>2, <1>4, <1>5 DEF Rest
<1>7. \A i \in 1 .. p - 1 : i \in 1 .. Len(b) /\ i # p
  BY <1>1
<1>8. \A i \in 1 .. p - 1 : d[i] = b[i]
  BY <1>2, <1>7
<1>9. p - 1 <= Len(b) /\ p - 1 <= Len(d)
  BY <1>1, <1>2
<1> QED
  BY <1>6, <1>8, <1>9 DEF SameBefore

-----------------------------------------------------------------------------
\* An argument, and those found before it, where the text is changed behind them
LEMMA WordBegins ==
    ASSUME NEW b \in Seq(ArgByte), NEW p \in Nat, p >= 1, p <= Len(b) + 1
    PROVE  Word(b, p, p, << >>)
<1>1. << >> \in Seq(ArgByte) /\ Len(<< >>) = 0 /\ p - p = 0
  OBVIOUS
<1>2. \A j \in 1 .. 0 : FALSE
  OBVIOUS
<1> QED
  BY <1>1, <1>2 DEF Word

LEMMA WordStays ==
    ASSUME NEW b \in Seq(ArgByte), NEW d \in Seq(ArgByte), NEW a, NEW e, NEW cur, Word(b, a, e,
           cur),
           NEW p, p \in Nat, e <= p, SameBefore(b, d, p)
    PROVE  Word(d, a, e, cur)
<1>1. /\ a \in Nat /\ a >= 1 /\ e \in Nat /\ Len(cur) = e - a /\ Len(d) \in Nat
      /\ p - 1 <= Len(d)
  BY DEF Word, SameBefore
<1>2. ASSUME NEW j \in 1 .. Len(cur) PROVE d[(a - 1) + j] = cur[j] /\ cur[j] # Nul
  <2>1. (a - 1) + j \in 1 .. p - 1
    BY <1>1
  <2>2. d[(a - 1) + j] = b[(a - 1) + j]
    BY <2>1 DEF SameBefore
  <2> QED
    BY <2>2 DEF Word
<1> QED
  BY <1>1, <1>2 DEF Word

LEMMA WordGrows ==
    ASSUME NEW d \in Seq(ArgByte), NEW a, NEW p, NEW cur, Word(d, a, p, cur),
           p \in 1 .. Len(d), NEW c \in ArgByte, d[p] = c, c # Nul
    PROVE  Word(d, a, p + 1, Append(cur, c))
<1> DEFINE new == Append(cur, c)
<1>1. a \in Nat /\ a >= 1 /\ a <= p /\ p \in Nat /\ cur \in Seq(ArgByte) /\ Len(cur) = p - a
      /\ Len(d) \in Nat
  BY DEF Word
<1>2. /\ new \in Seq(ArgByte) /\ Len(new) = Len(cur) + 1 /\ new[Len(cur) + 1] = c
      /\ \A j \in 1 .. Len(cur) : new[j] = cur[j]
  BY <1>1
<1> HIDE DEF new
<1>3. ASSUME NEW j \in 1 .. Len(new) PROVE d[(a - 1) + j] = new[j] /\ new[j] # Nul
  <2>1. CASE j \in 1 .. Len(cur)
    BY <1>2, <2>1 DEF Word
  <2>2. CASE j = Len(cur) + 1
    <3>1. (a - 1) + j = p
      BY <1>1, <2>2
    <3> QED
      BY <1>2, <2>2, <3>1
  <2>3. j \in 1 .. Len(cur) \/ j = Len(cur) + 1
    BY <1>1, <1>2
  <2> QED
    BY <2>1, <2>2, <2>3
<1>4. Len(new) = (p + 1) - a /\ a <= p + 1 /\ p + 1 \in Nat /\ p + 1 <= Len(d) + 1
  BY <1>1, <1>2
<1>5. Word(d, a, p + 1, new)
  BY <1>1, <1>2, <1>3, <1>4 DEF Word
<1> QED
  BY <1>5 DEF new

\* The string at the place of an argument that has ended
LEMMA WordIsString ==
    ASSUME NEW b \in Seq(ArgByte), NEW a, NEW p, NEW cur, Word(b, a, p, cur), Char_(b, p) = Nul
    PROVE  StringAt(b, a) = cur
<1> DEFINE EndsAt(e) == e \in a .. Len(b) + 1 /\ Char_(b, e) = Nul /\ \A k \in a .. e - 1 : b[k] # Nul
           end == CHOOSE e : EndsAt(e)
           x == SubSeq(b, a, p - 1)
<1>1. /\ a \in Nat /\ a >= 1 /\ a <= p /\ p \in Nat /\ cur \in Seq(ArgByte) /\ Len(cur) = p - a
      /\ Len(b) \in Nat /\ p <= Len(b) + 1
      /\ \A j \in 1 .. Len(cur) : b[(a - 1) + j] = cur[j] /\ cur[j] # Nul
  BY DEF Word
<1>2. ASSUME NEW k \in a .. p - 1 PROVE b[k] # Nul /\ b[k] = cur[k - (a - 1)]
  <2>1. k - (a - 1) \in 1 .. Len(cur) /\ (a - 1) + (k - (a - 1)) = k
    BY <1>1
  <2> QED
    BY <1>1, <2>1
<1>3. EndsAt(p)
  BY <1>1, <1>2
<1>4. ASSUME NEW e, EndsAt(e) PROVE e = p
  <2>1. e \in Nat /\ e >= a /\ e <= Len(b) + 1 /\ Char_(b, e) = Nul
        /\ \A k \in a .. e - 1 : b[k] # Nul
    BY <1>1, <1>4
  <2>2. ~(e < p)
    <3> SUFFICES ASSUME e < p PROVE FALSE
      OBVIOUS
    <3>1. e \in a .. p - 1 /\ ~(e > Len(b))
      BY <1>1, <2>1
    <3> QED
      BY <1>2, <2>1, <3>1 DEF Char_
  <2>3. ~(p < e)
    <3> SUFFICES ASSUME p < e PROVE FALSE
      OBVIOUS
    <3>1. p \in a .. e - 1 /\ ~(p > Len(b))
      BY <1>1, <2>1
    <3>2. b[p] = Nul
      BY <3>1 DEF Char_
    <3> QED
      BY <2>1, <3>1, <3>2
  <2> QED
    BY <1>1, <2>1, <2>2, <2>3
<1> HIDE DEF EndsAt
<1>5. end = p
  <2>1. EndsAt(end)
    BY <1>3
  <2> QED
    BY <1>4, <2>1
<1>6. StringAt(b, a) = SubSeq(b, a, end - 1)
  BY DEF StringAt, EndsAt
<1>7. x \in Seq(ArgByte) /\ Len(x) = Len(cur) /\ \A i \in 1 .. Len(cur) : x[i] = b[(a - 1) + i]
  <2>1. a \in 1 .. Len(b) + 1 /\ p - 1 \in (a - 1) .. Len(b)
    BY <1>1
  <2> QED
    BY <1>1, <2>1
<1> HIDE DEF x
<1>8. \A i \in 1 .. Len(x) : x[i] = cur[i]
  BY <1>1, <1>7
<1>9. x = cur
  BY <1>1, <1>7, <1>8, SameItems
<1> HIDE DEF end
<1> QED
  BY <1>5, <1>6, <1>9 DEF x

LEMMA FoundStays ==
    ASSUME NEW b \in Seq(ArgByte), NEW d \in Seq(ArgByte), NEW p \in Nat, NEW v, NEW l,
           FoundUpTo(b, p, v, l),
           SameBefore(b, d, p)
    PROVE  FoundUpTo(d, p, v, l)
<1> SUFFICES ASSUME NEW i \in 1 .. Len(l)
             PROVE  \E e \in Nat : e < p /\ Word(d, v[i], e, l[i]) /\ Char_(d, e) = Nul
  BY DEF FoundUpTo
<1>1. PICK e \in Nat : e < p /\ Word(b, v[i], e, l[i]) /\ Char_(b, e) = Nul
  BY DEF FoundUpTo
<1>2. Word(d, v[i], e, l[i])
  BY <1>1, WordStays
<1>3. e \in 1 .. p - 1 /\ ~(e > Len(b)) /\ ~(e > Len(d))
  BY <1>1 DEF Word, SameBefore
<1>4. d[e] = b[e]
  BY <1>3 DEF SameBefore
<1>5. Char_(d, e) = Nul
  BY <1>1, <1>3, <1>4 DEF Char_
<1> QED
  BY <1>1, <1>2, <1>5

LEMMA FoundLater ==
    ASSUME NEW b, NEW p \in Nat, NEW v, NEW l, FoundUpTo(b, p, v, l), NEW e \in Nat, p <= e
    PROVE  FoundUpTo(b, e, v, l)
<1> SUFFICES ASSUME NEW i \in 1 .. Len(l)
             PROVE  \E f \in Nat : f < e /\ Word(b, v[i], f, l[i]) /\ Char_(b, f) = Nul
  BY DEF FoundUpTo
<1>1. PICK f \in Nat : f < p /\ Word(b, v[i], f, l[i]) /\ Char_(b, f) = Nul
  BY DEF FoundUpTo
<1> QED
  BY <1>1

LEMMA FoundAlso ==
    ASSUME NEW b, NEW p \in Nat, NEW v \in Seq(Nat), NEW l \in Words, Len(v) = Len(l),
           FoundUpTo(b, p, v, l),
           NEW a \in Nat
    PROVE  FoundUpTo(b, p, Append(v, a), l)
<1>1. \A i \in 1 .. Len(l) : Append(v, a)[i] = v[i]
  OBVIOUS
<1> SUFFICES ASSUME NEW i \in 1 .. Len(l)
             PROVE  \E e \in Nat : e < p /\ Word(b, Append(v, a)[i], e, l[i]) /\ Char_(b, e) = Nul
  BY DEF FoundUpTo
<1>2. \E e \in Nat : e < p /\ Word(b, v[i], e, l[i]) /\ Char_(b, e) = Nul
  BY DEF FoundUpTo
<1> QED
  BY <1>1, <1>2

\* The argument has ended.
LEMMA FoundMore ==
    ASSUME NEW b, NEW p \in Nat, NEW v, NEW l \in Words, NEW cur \in Seq(ArgByte),
           FoundUpTo(b, p, v, l), Word(b, v[Len(l) + 1], p, cur), Char_(b, p) = Nul
    PROVE  FoundUpTo(b, p + 1, v, Append(l, cur))
<1> DEFINE m == Append(l, cur)
<1>1. /\ Len(l) \in Nat /\ Len(m) = Len(l) + 1 /\ m[Len(l) + 1] = cur
      /\ \A i \in 1 .. Len(l) : m[i] = l[i]
  BY DEF Words
<1> HIDE DEF m
<1>2. ASSUME NEW i \in 1 .. Len(m)
      PROVE  \E e \in Nat : e < p + 1 /\ Word(b, v[i], e, m[i]) /\ Char_(b, e) = Nul
  <2>1. CASE i \in 1 .. Len(l)
    <3>1. PICK e \in Nat : e < p /\ Word(b, v[i], e, l[i]) /\ Char_(b, e) = Nul
      BY <2>1 DEF FoundUpTo
    <3>2. e < p + 1 /\ m[i] = l[i]
      BY <1>1, <2>1, <3>1
    <3> QED
      BY <3>1, <3>2
  <2>2. CASE i = Len(l) + 1
    <3>1. p < p + 1 /\ m[i] = cur
      BY <1>1, <2>2
    <3> QED
      BY <2>2, <3>1
  <2>3. i \in 1 .. Len(l) \/ i = Len(l) + 1
    BY <1>1
  <2> QED
    BY <2>1, <2>2, <2>3
<1>3. FoundUpTo(b, p + 1, v, m)
  BY <1>2 DEF FoundUpTo
<1> QED
  BY <1>3 DEF m

\* The vector that is made of them
LEMMA FoundAreStrings ==
    ASSUME NEW b \in Seq(ArgByte), NEW p, NEW v \in Seq(Nat), NEW l \in Words, Len(v) = Len(l),
           FoundUpTo(b, p, v, l)
    PROVE  [k \in DOMAIN v |-> StringAt(b, v[k])] = l
<1>1. l \in Seq(Seq(ArgByte)) /\ l = [k \in 1 .. Len(l) |-> l[k]] /\ DOMAIN v = 1 .. Len(l)
  BY DEF Words
<1>2. ASSUME NEW i \in 1 .. Len(l) PROVE StringAt(b, v[i]) = l[i]
  <2>1. PICK e \in Nat : e < p /\ Word(b, v[i], e, l[i]) /\ Char_(b, e) = Nul
    BY DEF FoundUpTo
  <2> QED
    BY <2>1, WordIsString
<1>3. [k \in DOMAIN v |-> StringAt(b, v[k])] = [k \in 1 .. Len(l) |-> l[k]]
  BY <1>1, <1>2
<1> QED
  BY <1>1, <1>3

-----------------------------------------------------------------------------
\* The parser between arguments, within one, and behind the last of them
BetweenWith(w, R, b, p, v, k, l) ==
    Rest(w, k, b, p) /\ l \in Words /\ Len(v) = Len(l) /\ FoundUpTo(b, p, v, l) /\ Outside(R[k], l)

Spot(w, b, p, v, k, l, cur) ==
    /\ Rest(w, k, b, p) /\ l \in Words /\ cur \in Seq(ArgByte)
    /\ Len(v) = Len(l) + 1 /\ FoundUpTo(b, p, v, l) /\ Word(b, v[Len(l) + 1], p, cur)

WithinWith(w, R, b, p, v, q, k, l, cur) ==
    Spot(w, b, p, v, k, l, cur) /\ IsWithin(R[k], q, l, cur)
SureWith(w, R, b, p, v, q, k, l, cur) ==
    Spot(w, b, p, v, k, l, cur) /\ Inside(R[k], q, Append(l, cur))

ReadWith(w, R, b, v, l) ==
    /\ l \in Words /\ Len(v) = Len(l) /\ FoundUpTo(b, Len(b) + 2, v, l)
    /\ Inside(R[Len(w)], Nul, l) \/ Outside(R[Len(w)], l)

IsWrong(w, R) == R[Len(w)].bad = TRUE \/ R[Len(w)].escape = TRUE \/ R[Len(w)].quote # Nul

LEMMA SureIsWithin ==
    ASSUME NEW w, NEW R, NEW b, NEW p, NEW v, NEW q, NEW k, NEW l, NEW cur,
           SureWith(w, R, b, p, v, q, k, l, cur)
    PROVE  WithinWith(w, R, b, p, v, q, k, l, cur)
  BY DEF SureWith, WithinWith, IsWithin

LEMMA SpotSkips ==
    ASSUME NEW w \in Seq(Char), NEW b \in Seq(ArgByte), NEW v \in Seq(Nat), NEW p, NEW k, NEW l,
           NEW cur,
           Spot(w, b, p, v, k, l, cur), NEW c, c = Char_(b, p), c # Nul
    PROVE  Spot(w, b, p + 1, v, k + 1, l, Append(cur, c))
<1>1. Rest(w, k, b, p) /\ l \in Words /\ cur \in Seq(ArgByte) /\ FoundUpTo(b, p, v, l)
      /\ Word(b, v[Len(l) + 1], p, cur) /\ Len(v) = Len(l) + 1
  BY DEF Spot
<1>2. Ahead(w, k, b, p)
  BY <1>1, RestAhead
<1>3. k < Len(w) /\ p \in 1 .. Len(b) /\ b[p] = c /\ c \in ArgByte
  BY <1>2 DEF Ahead, ArgByte
<1>4. Rest(w, k + 1, b, p + 1)
  BY <1>1, <1>3, RestSkips
<1>5. Word(b, v[Len(l) + 1], p + 1, Append(cur, c))
  BY <1>1, <1>3, WordGrows
<1>6. p \in Nat /\ p + 1 \in Nat /\ p <= p + 1
  BY <1>3
<1>7. FoundUpTo(b, p + 1, v, l)
  BY <1>1, <1>6, FoundLater
<1>8. Append(cur, c) \in Seq(ArgByte)
  BY <1>1, <1>3
<1> QED
  BY <1>1, <1>4, <1>5, <1>7, <1>8 DEF Spot

LEMMA SpotRemoves ==
    ASSUME NEW w \in Seq(Char), NEW b \in Seq(ArgByte), NEW v \in Seq(Nat), NEW p, NEW k, NEW l,
           NEW cur,
           Spot(w, b, p, v, k, l, cur), Char_(b, p) # Nul, NEW d, d = Removed(b, p)
    PROVE  Spot(w, d, p, v, k + 1, l, cur) /\ d \in Seq(ArgByte)
<1>1. Rest(w, k, b, p) /\ l \in Words /\ cur \in Seq(ArgByte) /\ FoundUpTo(b, p, v, l)
      /\ Word(b, v[Len(l) + 1], p, cur) /\ Len(v) = Len(l) + 1
  BY DEF Spot
<1>2. Ahead(w, k, b, p)
  BY <1>1, RestAhead
<1>3. k < Len(w) /\ p \in 1 .. Len(b) /\ p \in Nat /\ p <= p
  BY <1>2 DEF Ahead
<1>4. RemovedIs(b, p, d)
  BY <1>3, RemovedText
<1>5. d \in Seq(ArgByte)
  BY <1>4 DEF RemovedIs
<1>6. Rest(w, k + 1, d, p) /\ SameBefore(b, d, p)
  BY <1>1, <1>3, <1>4, RestRemoves
<1>7. Word(d, v[Len(l) + 1], p, cur)
  BY <1>1, <1>3, <1>5, <1>6, WordStays
<1>8. FoundUpTo(d, p, v, l)
  BY <1>1, <1>3, <1>5, <1>6, FoundStays
<1> QED
  BY <1>1, <1>5, <1>6, <1>7, <1>8 DEF Spot

\* The text with a byte put at the place
PutAt(w, d, p, v, k, l, cur, x) ==
    /\ Rest(w, k + 1, d, p + 1) /\ FoundUpTo(d, p, v, l) /\ Word(d, v[Len(l) + 1], p, cur)
    /\ d \in Seq(ArgByte) /\ d[p] = x /\ p \in 1 .. Len(d)

LEMMA SpotPuts ==
    ASSUME NEW w \in Seq(Char), NEW b \in Seq(ArgByte), NEW v \in Seq(Nat), NEW p, NEW k, NEW l,
           NEW cur,
           Spot(w, b, p, v, k, l, cur), Char_(b, p) # Nul,
           NEW x \in ArgByte, NEW d, d = [b EXCEPT ![p] = x]
    PROVE  PutAt(w, d, p, v, k, l, cur, x)
<1>1. Rest(w, k, b, p) /\ l \in Words /\ cur \in Seq(ArgByte) /\ FoundUpTo(b, p, v, l)
      /\ Word(b, v[Len(l) + 1], p, cur) /\ Len(v) = Len(l) + 1
  BY DEF Spot
<1>2. Ahead(w, k, b, p)
  BY <1>1, RestAhead
<1>3. k < Len(w) /\ p \in 1 .. Len(b) /\ p \in Nat /\ p <= p
  BY <1>2 DEF Ahead
<1>4. PutIs(b, p, x, d)
  BY <1>3, PutText
<1>5. d \in Seq(ArgByte) /\ d[p] = x /\ p \in 1 .. Len(d)
  BY <1>3, <1>4 DEF PutIs
<1>6. Rest(w, k + 1, d, p + 1) /\ SameBefore(b, d, p)
  BY <1>1, <1>3, <1>4, RestPuts
<1>7. Word(d, v[Len(l) + 1], p, cur)
  BY <1>1, <1>3, <1>5, <1>6, WordStays
<1>8. FoundUpTo(d, p, v, l)
  BY <1>1, <1>3, <1>5, <1>6, FoundStays
<1> QED
  BY <1>5, <1>6, <1>7, <1>8 DEF PutAt

\* A character of an argument
LEMMA ArgumentPlain ==
    ASSUME NEW w \in Seq(Char), NEW b \in Seq(ArgByte), NEW v \in Seq(Nat), NEW R, ReadingOf(w, R),
           NEW q, NEW p, NEW k, NEW l, NEW cur, WithinWith(w, R, b, p, v, q, k, l, cur),
           NEW c, c = Char_(b, p), c # Nul, c # Backslash, q # Nul => c # q,
           q = Nul => c \notin Quote \cup Space
    PROVE  SureWith(w, R, b, p + 1, v, q, k + 1, l, Append(cur, c))
<1>1. Spot(w, b, p, v, k, l, cur) /\ IsWithin(R[k], q, l, cur)
  BY DEF WithinWith
<1>2. Rest(w, k, b, p) /\ l \in Words /\ cur \in Seq(ArgByte)
  BY <1>1 DEF Spot
<1>3. Ahead(w, k, b, p)
  BY <1>2, RestAhead
<1>4. k < Len(w) /\ k \in Nat /\ c = w[k + 1] /\ c \in ArgByte
  BY <1>2, <1>3 DEF Ahead, ArgByte, Rest
<1>5. R[k + 1] = Read(R[k], c)
  BY <1>4, ReadNext
<1>6. Inside(Read(R[k], c), q, Append(l, Append(cur, c)))
  BY <1>1, <1>2, <1>4, ReadPlain
<1>7. Spot(w, b, p + 1, v, k + 1, l, Append(cur, c))
  BY <1>1, SpotSkips
<1> QED
  BY <1>5, <1>6, <1>7 DEF SureWith

LEMMA ArgumentQuotes ==
    ASSUME NEW w \in Seq(Char), NEW b \in Seq(ArgByte), NEW v \in Seq(Nat), NEW R, ReadingOf(w, R),
           NEW p, NEW k, NEW l, NEW cur, WithinWith(w, R, b, p, v, Nul, k, l, cur), Char_(b,
           p) \in Quote,
           NEW d, d = Removed(b, p)
    PROVE  SureWith(w, R, d, p, v, Char_(b, p), k + 1, l, cur) /\ d \in Seq(ArgByte)
<1> DEFINE c == Char_(b, p)
<1>0. c # Nul
  BY CharAssumption
<1>1. Spot(w, b, p, v, k, l, cur) /\ IsWithin(R[k], Nul, l, cur)
  BY DEF WithinWith
<1>2. Rest(w, k, b, p)
  BY <1>1 DEF Spot
<1>3. Ahead(w, k, b, p)
  BY <1>0, <1>2, RestAhead
<1>4. k < Len(w) /\ k \in Nat /\ c = w[k + 1]
  BY <1>2, <1>3 DEF Ahead, Rest
<1>5. R[k + 1] = Read(R[k], c)
  BY <1>4, ReadNext
<1>6. Inside(Read(R[k], c), c, Append(l, cur))
  BY <1>1, ReadQuote
<1>7. Spot(w, d, p, v, k + 1, l, cur) /\ d \in Seq(ArgByte)
  BY <1>0, <1>1, SpotRemoves
<1> QED
  BY <1>5, <1>6, <1>7 DEF SureWith

LEMMA ArgumentUnquotes ==
    ASSUME NEW w \in Seq(Char), NEW b \in Seq(ArgByte), NEW v \in Seq(Nat), NEW R, ReadingOf(w, R),
           NEW q \in Quote, NEW p, NEW k, NEW l, NEW cur, WithinWith(w, R, b, p, v, q, k, l, cur),
           Char_(b, p) = q, NEW d, d = Removed(b, p)
    PROVE  SureWith(w, R, d, p, v, Nul, k + 1, l, cur) /\ d \in Seq(ArgByte)
<1>0. q # Nul
  BY CharAssumption
<1>1. Spot(w, b, p, v, k, l, cur) /\ IsWithin(R[k], q, l, cur)
  BY DEF WithinWith
<1>2. Rest(w, k, b, p)
  BY <1>1 DEF Spot
<1>3. Ahead(w, k, b, p)
  BY <1>0, <1>2, RestAhead
<1>4. k < Len(w) /\ k \in Nat /\ q = w[k + 1]
  BY <1>2, <1>3 DEF Ahead, Rest
<1>5. R[k + 1] = Read(R[k], q)
  BY <1>4, ReadNext
<1>6. Inside(Read(R[k], q), Nul, Append(l, cur))
  BY <1>1, ReadUnquote
<1>7. Spot(w, d, p, v, k + 1, l, cur) /\ d \in Seq(ArgByte)
  BY <1>0, <1>1, SpotRemoves
<1> QED
  BY <1>5, <1>6, <1>7 DEF SureWith

EscapedAt(w, R, d, p, v, q, k, l, cur, c) ==
    /\ d \in Seq(ArgByte)
    /\ Spot(w, d, p, v, k, l, cur) /\ Escaping(R[k], q, Append(l, cur))
    /\ c \notin DOMAIN Escaped => IsWrong(w, R)

\* A backslash: it is removed, and what is behind it stands for something or is refused.
LEMMA ArgumentEscapes ==
    ASSUME NEW w \in Seq(Char), NEW b \in Seq(ArgByte), NEW v \in Seq(Nat), NEW R, ReadingOf(w, R),
           NEW q, NEW p, NEW k, NEW l, NEW cur, WithinWith(w, R, b, p, v, q, k, l, cur),
           Char_(b, p) = Backslash, NEW d, d = Removed(b, p), NEW c, c = Char_(d, p)
    PROVE  EscapedAt(w, R, d, p, v, q, k + 1, l, cur, c)
<1>0. Char_(b, p) # Nul
  BY CharAssumption
<1>1. Spot(w, b, p, v, k, l, cur) /\ IsWithin(R[k], q, l, cur)
  BY DEF WithinWith
<1>2. Rest(w, k, b, p)
  BY <1>1 DEF Spot
<1>3. Ahead(w, k, b, p)
  BY <1>0, <1>2, RestAhead
<1>4. k < Len(w) /\ k \in Nat /\ Backslash = w[k + 1] /\ Len(w) \in Nat
  BY <1>2, <1>3 DEF Ahead, Rest
<1>5. R[k + 1] = Read(R[k], Backslash)
  BY <1>4, ReadNext
<1>6. Escaping(Read(R[k], Backslash), q, Append(l, cur))
  BY <1>1, ReadBackslash
<1>7. Spot(w, d, p, v, k + 1, l, cur) /\ d \in Seq(ArgByte)
  BY <1>0, <1>1, SpotRemoves
<1>8. ASSUME c \notin DOMAIN Escaped PROVE IsWrong(w, R)
  <2> DEFINE j == k + 1
  <2>1. Rest(w, j, d, p)
    BY <1>7 DEF Spot
  <2>2. Escaping(R[j], q, Append(l, cur))
    BY <1>5, <1>6
  <2>3. j \in Nat /\ j <= Len(w)
    BY <1>4
  <2> HIDE DEF j
  <2>4. CASE c = Nul
    <3>1. j = Len(w)
      BY <1>7, <2>1, <2>4, RestEnds
    <3> QED
      BY <2>2, <3>1 DEF IsWrong, Escaping
  <2>5. CASE c # Nul
    <3>1. Ahead(w, j, d, p)
      BY <1>7, <2>1, <2>5, RestAhead
    <3>2. j < Len(w) /\ c = w[j + 1]
      BY <3>1 DEF Ahead
    <3>3. R[j + 1] = Read(R[j], c)
      BY <2>3, <3>2, ReadNext
    <3>4. Read(R[j], c).bad
      BY <1>8, <2>2, ReadUnknown
    <3>5. j + 1 \in Nat /\ j + 1 <= Len(w)
      BY <1>4, <2>3, <3>2
    <3>6. R[j + 1].bad
      BY <3>3, <3>4
    <3>7. R[Len(w)].bad
      BY <3>5, <3>6, BadStays
    <3> QED
      BY <3>7 DEF IsWrong
  <2> QED
    BY <2>4, <2>5
<1> QED
  BY <1>5, <1>6, <1>7, <1>8 DEF EscapedAt

LEMMA ArgumentEscaped ==
    ASSUME NEW w \in Seq(Char), NEW b \in Seq(ArgByte), NEW v \in Seq(Nat), NEW R, ReadingOf(w, R),
           NEW q, NEW p, NEW k, NEW l, NEW cur, Spot(w, b, p, v, k, l, cur),
           Escaping(R[k], q, Append(l, cur)), Char_(b, p) \in DOMAIN Escaped,
           NEW x, x = Escaped[Char_(b, p)], NEW d, d = [b EXCEPT ![p] = x]
    PROVE  SureWith(w, R, d, p + 1, v, q, k + 1, l, Append(cur, x)) /\ d \in Seq(ArgByte)
<1> DEFINE c == Char_(b, p)
           a == v[Len(l) + 1]
<1>0. c # Nul /\ x # Nul /\ x \in ArgByte
  BY CharAssumption DEF ArgByte
<1>1. Rest(w, k, b, p) /\ l \in Words /\ cur \in Seq(ArgByte) /\ Len(v) = Len(l) + 1
  BY DEF Spot
<1>2. Ahead(w, k, b, p)
  BY <1>0, <1>1, RestAhead
<1>3. k < Len(w) /\ k \in Nat /\ c = w[k + 1]
  BY <1>1, <1>2 DEF Ahead, Rest
<1>4. R[k + 1] = Read(R[k], c)
  BY <1>3, ReadNext
<1>5. Inside(Read(R[k], c), q, Append(l, Append(cur, x)))
  BY <1>1, ReadEscaped
<1>12. PutAt(w, d, p, v, k, l, cur, x)
  BY <1>0, SpotPuts
<1>6. /\ Rest(w, k + 1, d, p + 1) /\ FoundUpTo(d, p, v, l) /\ Word(d, a, p, cur)
      /\ d \in Seq(ArgByte) /\ d[p] = x /\ p \in 1 .. Len(d)
  BY <1>12 DEF PutAt
<1>7. Word(d, a, p + 1, Append(cur, x))
  BY <1>0, <1>6, WordGrows
<1>8. p \in Nat /\ p + 1 \in Nat /\ p <= p + 1
  BY <1>6
<1>9. FoundUpTo(d, p + 1, v, l)
  BY <1>6, <1>8, FoundLater
<1>10. Append(cur, x) \in Seq(ArgByte)
  BY <1>0, <1>1
<1>11. Spot(w, d, p + 1, v, k + 1, l, Append(cur, x))
  BY <1>1, <1>6, <1>7, <1>9, <1>10 DEF Spot
<1> QED
  BY <1>4, <1>5, <1>6, <1>11 DEF SureWith

\* White space behind an argument
LEMMA ArgumentEnds ==
    ASSUME NEW w \in Seq(Char), NEW b \in Seq(ArgByte), NEW v \in Seq(Nat), NEW R, ReadingOf(w, R),
           NEW p, NEW k, NEW l, NEW cur, SureWith(w, R, b, p, v, Nul, k, l, cur), Char_(b,
           p) \in Space,
           NEW d, d = [b EXCEPT ![p] = Nul]
    PROVE  BetweenWith(w, R, d, p + 1, v, k + 1, Append(l, cur)) /\ d \in Seq(ArgByte)
<1> DEFINE c == Char_(b, p)
           a == v[Len(l) + 1]
           m == Append(l, cur)
<1>0. c # Nul /\ Nul \in ArgByte
  BY CharAssumption DEF ArgByte
<1>1. Rest(w, k, b, p) /\ l \in Words /\ cur \in Seq(ArgByte) /\ Len(v) = Len(l) + 1
      /\ Spot(w, b, p, v, k, l, cur) /\ Inside(R[k], Nul, m)
  BY DEF Spot, SureWith
<1>2. Ahead(w, k, b, p)
  BY <1>0, <1>1, RestAhead
<1>3. k < Len(w) /\ k \in Nat /\ c = w[k + 1]
  BY <1>1, <1>2 DEF Ahead, Rest
<1>4. R[k + 1] = Read(R[k], c)
  BY <1>3, ReadNext
<1>5. m \in Words /\ Len(m) = Len(l) + 1
  BY <1>1 DEF Words
<1> HIDE DEF m
<1>6. Outside(Read(R[k], c), m)
  BY <1>1, ReadSpace
<1>12. PutAt(w, d, p, v, k, l, cur, Nul)
  BY <1>0, <1>1, SpotPuts
<1>7. /\ Rest(w, k + 1, d, p + 1) /\ FoundUpTo(d, p, v, l) /\ Word(d, a, p, cur)
      /\ d \in Seq(ArgByte) /\ d[p] = Nul /\ p \in 1 .. Len(d)
  BY <1>12 DEF PutAt
<1>8. Char_(d, p) = Nul /\ p \in Nat
  BY <1>7 DEF Char_
<1>9. FoundUpTo(d, p + 1, v, m)
  BY <1>1, <1>7, <1>8, FoundMore DEF m
<1>10. BetweenWith(w, R, d, p + 1, v, k + 1, m)
  BY <1>1, <1>4, <1>5, <1>6, <1>7, <1>9 DEF BetweenWith
<1> QED
  BY <1>7, <1>10 DEF m

LEMMA ArgumentLast ==
    ASSUME NEW w \in Seq(Char), NEW b \in Seq(ArgByte), NEW v \in Seq(Nat), NEW R,
           NEW p, NEW k, NEW l, NEW cur, SureWith(w, R, b, p, v, Nul, k, l, cur), Char_(b, p) = Nul
    PROVE  ReadWith(w, R, b, v, Append(l, cur))
<1> DEFINE m == Append(l, cur)
<1>1. Rest(w, k, b, p) /\ l \in Words /\ cur \in Seq(ArgByte) /\ Len(v) = Len(l) + 1
      /\ FoundUpTo(b, p, v, l) /\ Word(b, v[Len(l) + 1], p, cur) /\ Inside(R[k], Nul, m)
  BY DEF Spot, SureWith
<1>2. m \in Words /\ Len(m) = Len(l) + 1
  BY <1>1 DEF Words
<1>3. k = Len(w) /\ p = Len(b) + 1
  BY <1>1, RestEnds
<1>4. p \in Nat /\ p + 1 = Len(b) + 2
  BY <1>3
<1>5. FoundUpTo(b, p + 1, v, m)
  BY <1>1, <1>4, FoundMore
<1> HIDE DEF m
<1>6. ReadWith(w, R, b, v, m)
  BY <1>1, <1>2, <1>3, <1>4, <1>5 DEF ReadWith
<1> QED
  BY <1>6 DEF m

LEMMA QuotedOpen ==
    ASSUME NEW w \in Seq(Char), NEW b \in Seq(ArgByte), NEW v \in Seq(Nat), NEW R, NEW q \in Quote,
           NEW p, NEW k, NEW l, NEW cur, WithinWith(w, R, b, p, v, q, k, l, cur), Char_(b, p) = Nul
    PROVE  IsWrong(w, R)
<1>1. q # Nul
  BY CharAssumption
<1>2. Rest(w, k, b, p) /\ Inside(R[k], q, Append(l, cur))
  BY <1>1 DEF Spot, WithinWith, IsWithin
<1>3. k = Len(w)
  BY <1>2, RestEnds
<1> QED
  BY <1>1, <1>2, <1>3 DEF IsWrong, Inside

\* Between two arguments
LEMMA BetweenSkips ==
    ASSUME NEW w \in Seq(Char), NEW b \in Seq(ArgByte), NEW v \in Seq(Nat), NEW R, ReadingOf(w, R),
           NEW p, NEW k, NEW l, BetweenWith(w, R, b, p, v, k, l), Char_(b, p) \in Space
    PROVE  BetweenWith(w, R, b, p + 1, v, k + 1, l)
<1> DEFINE c == Char_(b, p)
<1>0. c # Nul
  BY CharAssumption
<1>1. Rest(w, k, b, p) /\ l \in Words /\ Len(v) = Len(l) /\ FoundUpTo(b, p, v, l)
      /\ Outside(R[k], l)
  BY DEF BetweenWith
<1>2. Ahead(w, k, b, p)
  BY <1>0, <1>1, RestAhead
<1>3. k < Len(w) /\ k \in Nat /\ c = w[k + 1] /\ p \in Nat /\ p + 1 \in Nat /\ p <= p + 1
  BY <1>1, <1>2 DEF Ahead, Rest
<1>4. R[k + 1] = Read(R[k], c)
  BY <1>3, ReadNext
<1>5. Outside(Read(R[k], c), l)
  BY <1>1, ReadSpace
<1>6. Rest(w, k + 1, b, p + 1)
  BY <1>1, <1>3, RestSkips
<1>7. FoundUpTo(b, p + 1, v, l)
  BY <1>1, <1>3, FoundLater
<1> QED
  BY <1>1, <1>4, <1>5, <1>6, <1>7 DEF BetweenWith

LEMMA BetweenEnds ==
    ASSUME NEW w \in Seq(Char), NEW b \in Seq(ArgByte), NEW v \in Seq(Nat), NEW R,
           NEW p, NEW k, NEW l, BetweenWith(w, R, b, p, v, k, l), Char_(b, p) = Nul
    PROVE  ReadWith(w, R, b, v, l)
<1>1. Rest(w, k, b, p) /\ l \in Words /\ Len(v) = Len(l) /\ FoundUpTo(b, p, v, l)
      /\ Outside(R[k], l)
  BY DEF BetweenWith
<1>2. k = Len(w) /\ p = Len(b) + 1
  BY <1>1, RestEnds
<1>3. p \in Nat /\ Len(b) + 2 \in Nat /\ p <= Len(b) + 2
  BY <1>2
<1>4. FoundUpTo(b, Len(b) + 2, v, l)
  BY <1>1, <1>3, FoundLater
<1> QED
  BY <1>1, <1>2, <1>4 DEF ReadWith

LEMMA BetweenBegins ==
    ASSUME NEW w \in Seq(Char), NEW b \in Seq(ArgByte), NEW v \in Seq(Nat), NEW R,
           NEW p, NEW k, NEW l, BetweenWith(w, R, b, p, v, k, l), NEW u, u = Append(v, p)
    PROVE  WithinWith(w, R, b, p, u, Nul, k, l, << >>) /\ Outside(R[k], l) /\ u \in Seq(Nat)
<1>1. Rest(w, k, b, p) /\ l \in Words /\ Len(v) = Len(l) /\ FoundUpTo(b, p, v, l)
      /\ Outside(R[k], l)
  BY DEF BetweenWith
<1>2. p \in Nat /\ p >= 1 /\ p <= Len(b) + 1
  BY <1>1 DEF Rest
<1>3. u \in Seq(Nat) /\ Len(u) = Len(l) + 1 /\ u[Len(l) + 1] = p
  BY <1>1, <1>2
<1>4. Word(b, p, p, << >>)
  BY <1>2, WordBegins
<1>5. FoundUpTo(b, p, u, l)
  BY <1>1, <1>2, FoundAlso
<1>6. << >> \in Seq(ArgByte)
  OBVIOUS
<1>7. Spot(w, b, p, u, k, l, << >>)
  BY <1>1, <1>3, <1>4, <1>5, <1>6 DEF Spot
<1>8. IsWithin(R[k], Nul, l, << >>)
  BY <1>1 DEF IsWithin
<1> QED
  BY <1>1, <1>3, <1>7, <1>8 DEF WithinWith

-----------------------------------------------------------------------------
\* The invariant: what is true of the text at each loop of the parser.
AtBetween(w, R, b, p, v) == \E k, l : BetweenWith(w, R, b, p, v, k, l)
AtArgument(w, R, b, p, v) ==
    \E k, l, cur : /\ WithinWith(w, R, b, p, v, Nul, k, l, cur)
                   /\ Outside(R[k], l) => Char_(b, p) \notin Space \cup {Nul}
AtQuoted(w, R, b, p, v, q) == \E k, l, cur : WithinWith(w, R, b, p, v, q, k, l, cur)
AllRead(w, R, b, v) == \E l : ReadWith(w, R, b, v, l)

ArgTyped ==
    /\ command \in Seq(Char) /\ argText \in Seq(ArgByte) /\ argv \in Seq(Nat)
    /\ argPc \in {"called", "between", "argument", "quoted", "read", "returned"}

ArgInv ==
    /\ ArgTyped
    /\ argPc # "returned" => answer = "called" /\ args = <<<<"old">>>>
    /\ argPc = "called" => argv = << >>
    /\ argPc = "between" => AtBetween(command, ReadSoFar, argText, argPlace, argv)
    /\ argPc = "argument" => AtArgument(command, ReadSoFar, argText, argPlace, argv)
    /\ argPc = "quoted" => argQuote \in Quote
    /\ argPc = "quoted" => AtQuoted(command, ReadSoFar, argText, argPlace, argv, argQuote)
    /\ argPc = "read" => AllRead(command, ReadSoFar, argText, argv)
    /\ argPc = "returned" => ArgumentsAreRead

LEMMA SureIsArgument ==
    ASSUME NEW w, NEW R, NEW b, NEW p, NEW v, NEW k, NEW l, NEW cur,
           SureWith(w, R, b, p, v, Nul, k, l, cur)
    PROVE  AtArgument(w, R, b, p, v)
<1>1. WithinWith(w, R, b, p, v, Nul, k, l, cur)
  BY SureIsWithin
<1>2. ~Outside(R[k], l)
  BY DEF SureWith, Inside, Outside
<1> QED
  BY <1>1, <1>2 DEF AtArgument

LEMMA ArgumentIsSure ==
    ASSUME NEW w, NEW R, NEW b, NEW p, NEW v, AtArgument(w, R, b, p, v), Char_(b,
           p) \in Space \cup {Nul}
    PROVE  \E k, l, cur : SureWith(w, R, b, p, v, Nul, k, l, cur)
<1>1. PICK k, l, cur : /\ WithinWith(w, R, b, p, v, Nul, k, l, cur)
                       /\ Outside(R[k], l) => Char_(b, p) \notin Space \cup {Nul}
  BY DEF AtArgument
<1>2. Spot(w, b, p, v, k, l, cur) /\ Inside(R[k], Nul, Append(l, cur))
  BY <1>1 DEF WithinWith, IsWithin
<1>3. SureWith(w, R, b, p, v, Nul, k, l, cur)
  BY <1>2 DEF SureWith
<1> QED
  BY <1>3

LEMMA CommandReads ==
    ASSUME ArgTyped
    PROVE  ReadingOf(command, ReadSoFar)
<1>1. Len(command) \in Nat /\ command \in Seq(Char)
  BY DEF ArgTyped
<1> QED
  BY <1>1, ReadingIs DEF ReadingOf

LEMMA SameReading ==
    ASSUME command' = command
    PROVE  ReadSoFar' = ReadSoFar
  BY DEF ReadSoFar

\* A call that is refused
LEMMA RefusedIsRead ==
    ASSUME ArgInv, argPc # "returned", NEW e, Refuses(e),
           e = "ENOMEM" \/ (e = "EINVAL" /\ IsWrong(command, ReadSoFar))
    PROVE  ArgInv'
<1>1. /\ answer' = e /\ argPc' = "returned" /\ command' = command /\ argText' = argText
      /\ argv' = argv
      /\ args' = args /\ args = <<<<"old">>>>
  BY DEF ArgInv, Refuses, Yields
<1>2. ReadSoFar' = ReadSoFar
  BY <1>1, SameReading
<1>3. ArgTyped'
  BY <1>1 DEF ArgInv, ArgTyped
<1>4. ArgumentsAreRead'
  BY <1>1, <1>2 DEF ArgumentsAreRead, IsWrong
<1> QED
  BY <1>1, <1>3, <1>4 DEF ArgInv

\* A loop that goes on
LEMMA LoopGoesOn ==
    ASSUME ArgInv, argPc # "returned", command' = command, args' = args, answer' = answer,
           argText' \in Seq(ArgByte), argv' \in Seq(Nat),
           \/ argPc' = "between" /\ AtBetween(command, ReadSoFar, argText', argPlace', argv')
           \/ argPc' = "argument" /\ AtArgument(command, ReadSoFar, argText', argPlace', argv')
           \/ /\ argPc' = "quoted" /\ argQuote' \in Quote
              /\ AtQuoted(command, ReadSoFar, argText', argPlace', argv', argQuote')
           \/ argPc' = "read" /\ AllRead(command, ReadSoFar, argText', argv')
    PROVE  ArgInv'
<1>1. ReadSoFar' = ReadSoFar
  BY SameReading
<1>2. ArgTyped'
  BY DEF ArgInv, ArgTyped
<1>3. answer' = "called" /\ args' = <<<<"old">>>>
  BY DEF ArgInv
<1>4. /\ argPc' = "between" => AtBetween(command, ReadSoFar, argText, argPlace, argv)'
      /\ argPc' = "argument" => AtArgument(command, ReadSoFar, argText, argPlace, argv)'
      /\ argPc' = "quoted" => argQuote' \in Quote
      /\ argPc' = "quoted" => AtQuoted(command, ReadSoFar, argText, argPlace, argv, argQuote)'
      /\ argPc' = "read" => AllRead(command, ReadSoFar, argText, argv)'
  BY <1>1
<1> QED
  BY <1>2, <1>3, <1>4 DEF ArgInv

LEMMA EscapeStep ==
    ASSUME ArgInv, Escape, Here = Backslash, argPc \in {"argument", "quoted"},
           NEW q, NEW k, NEW l, NEW cur,
           WithinWith(command, ReadSoFar, argText, argPlace, argv, q, k, l, cur)
    PROVE  \/ /\ argPc' = argPc /\ command' = command /\ args' = args /\ answer' = answer
              /\ argQuote' = argQuote /\ argText' \in Seq(ArgByte) /\ argv' \in Seq(Nat)
              /\ \E k2, c2 : SureWith(command, ReadSoFar, argText', argPlace', argv', q, k2, l, c2)
           \/ Refuses("EINVAL") /\ IsWrong(command, ReadSoFar)
<1> DEFINE w == command
           R == ReadSoFar
           p == argPlace
           d == Removed(argText, p)
           c == Char_(d, p)
           x == Escaped[c]
           f == [d EXCEPT ![p] = x]
<1>0. w \in Seq(Char) /\ argText \in Seq(ArgByte) /\ argv \in Seq(Nat)
      /\ Char_(argText, p) = Backslash
  BY DEF ArgInv, ArgTyped, Here
<1>1. ReadingOf(w, R)
  BY CommandReads DEF ArgInv
<1>2. \/ c \in DOMAIN Escaped /\ Continues(f, p + 1, argPc) /\ UNCHANGED <<argQuote, argv>>
      \/ c \notin DOMAIN Escaped /\ Refuses("EINVAL")
  BY Zenon DEF Escape
<1> HIDE DEF w, R
<1>3. WithinWith(w, R, argText, p, argv, q, k, l, cur)
  BY DEF w, R
<1> HIDE DEF p, c, d, x
<1>4. d = Removed(argText, p) /\ c = Char_(d, p) /\ x = Escaped[c]
  BY DEF d, c, x
<1>5. EscapedAt(w, R, d, p, argv, q, k + 1, l, cur, c)
  BY <1>0, <1>1, <1>3, <1>4, ArgumentEscapes
<1>6. CASE c \notin DOMAIN Escaped /\ Refuses("EINVAL")
  BY <1>5, <1>6 DEF EscapedAt, w, R
<1>7. CASE c \in DOMAIN Escaped /\ Continues(f, p + 1, argPc) /\ UNCHANGED <<argQuote, argv>>
  <2>1. /\ Spot(w, d, p, argv, k + 1, l, cur) /\ Escaping(R[k + 1], q, Append(l, cur))
        /\ d \in Seq(ArgByte)
        /\ Char_(d, p) \in DOMAIN Escaped /\ x = Escaped[Char_(d, p)]
    BY <1>4, <1>5, <1>7 DEF EscapedAt
  <2> DEFINE j == k + 1
  <2> HIDE DEF f, j
  <2>2. f = [d EXCEPT ![p] = x]
    BY DEF f
  <2>3. Spot(w, d, p, argv, j, l, cur) /\ Escaping(R[j], q, Append(l, cur))
    BY <2>1 DEF j
  <2>4. SureWith(w, R, f, p + 1, argv, q, j + 1, l, Append(cur, x)) /\ f \in Seq(ArgByte)
    BY <1>0, <1>1, <2>1, <2>2, <2>3, ArgumentEscaped
  <2>5. /\ argText' = f /\ argPlace' = p + 1 /\ argPc' = argPc /\ command' = command /\ args' = args
        /\ answer' = answer /\ argQuote' = argQuote /\ argv' = argv
    BY <1>7 DEF Continues
  <2>6. SureWith(w, R, argText', argPlace', argv', q, j + 1, l, Append(cur, x))
    BY <2>4, <2>5
  <2>7. \E k2, c2 : SureWith(command, ReadSoFar, argText', argPlace', argv', q, k2, l, c2)
    BY <2>6 DEF w, R
  <2> QED
    BY <1>0, <2>4, <2>5, <2>7
<1> QED
  BY <1>2, <1>6, <1>7

-----------------------------------------------------------------------------
\* Each of its steps keeps it.
LEMMA CopyBegins ==
    ASSUME ArgInv, Copy
    PROVE  ArgInv'
<1>0. argPc = "called"
  BY DEF Copy
<1>1. CASE Refuses("ENOMEM")
  BY <1>0, <1>1, RefusedIsRead
<1>2. CASE Continues(command, 1, "between") /\ UNCHANGED <<argQuote, argv>>
  <2> DEFINE w == command
             R == ReadSoFar
             none == << >>
  <2>1. /\ argText' = w /\ argPlace' = 1 /\ argPc' = "between" /\ command' = command /\ args' = args
        /\ answer' = answer /\ argv' = none /\ w \in Seq(Char) /\ Len(w) \in Nat
    BY <1>0, <1>2 DEF Continues, ArgInv, ArgTyped
  <2>2. R[0] = Unread
    BY CommandReads DEF ArgInv, ReadingOf
  <2> HIDE DEF w, R
  <2>3. \A j \in 1 .. Len(w) - 0 : w[(1 - 1) + j] = w[0 + j]
    BY <2>1
  <2>4. Rest(w, 0, w, 1)
    BY <2>1, <2>3 DEF Rest
  <2>5. none \in Words /\ Len(none) = 0 /\ none \in Seq(Nat)
    BY DEF Words
  <2>6. Outside(R[0], none)
    BY <2>2, UnreadIs
  <2> HIDE DEF none
  <2>7. FoundUpTo(w, 1, none, none)
    BY <2>5 DEF FoundUpTo
  <2>8. BetweenWith(w, R, w, 1, none, 0, none)
    BY <2>4, <2>5, <2>6, <2>7 DEF BetweenWith
  <2>9. AtBetween(w, R, argText', argPlace', argv')
    BY <2>1, <2>8 DEF AtBetween
  <2>10. w \in Seq(ArgByte)
    BY <2>1 DEF ArgByte
  <2> QED
    BY <1>0, <2>1, <2>5, <2>9, <2>10, LoopGoesOn DEF w, R
<1> QED
  BY <1>1, <1>2 DEF Copy

LEMMA BetweenKeeps ==
    ASSUME ArgInv, Between
    PROVE  ArgInv'
<1> DEFINE w == command
           R == ReadSoFar
<1>0. /\ argPc = "between" /\ w \in Seq(Char) /\ argText \in Seq(ArgByte) /\ argv \in Seq(Nat)
      /\ Here = Char_(argText, argPlace) /\ AtBetween(w, R, argText, argPlace, argv)
  BY DEF Between, ArgInv, ArgTyped, Here
<1>1. ReadingOf(w, R)
  BY CommandReads DEF ArgInv
<1>2. PICK k, l : BetweenWith(w, R, argText, argPlace, argv, k, l)
  BY <1>0 DEF AtBetween
<1> HIDE DEF w, R
<1>3. CASE Here \in Space /\ Skip
  <2>1. BetweenWith(w, R, argText, argPlace + 1, argv, k + 1, l)
    BY <1>0, <1>1, <1>2, <1>3, BetweenSkips
  <2>2. /\ argText' = argText /\ argPlace' = argPlace + 1 /\ argPc' = "between"
        /\ command' = command
        /\ args' = args /\ answer' = answer /\ argv' = argv
    BY <1>0, <1>3 DEF Skip, Continues
  <2>3. AtBetween(w, R, argText', argPlace', argv')
    BY <2>1, <2>2 DEF AtBetween
  <2> QED
    BY <1>0, <2>2, <2>3, LoopGoesOn DEF w, R
<1>4. CASE Here = Nul /\ Continues(argText, argPlace, "read") /\ UNCHANGED <<argQuote, argv>>
  <2>1. ReadWith(w, R, argText, argv, l)
    BY <1>0, <1>2, <1>4, BetweenEnds
  <2>2. /\ argText' = argText /\ argPc' = "read" /\ command' = command
        /\ args' = args /\ answer' = answer /\ argv' = argv
    BY <1>4 DEF Continues
  <2>3. AllRead(w, R, argText', argv')
    BY <2>1, <2>2 DEF AllRead
  <2> QED
    BY <1>0, <2>2, <2>3, LoopGoesOn DEF w, R
<1>5. CASE Refuses("ENOMEM")
  BY <1>0, <1>5, RefusedIsRead
<1>6. CASE /\ Here \notin Space \cup {Nul} /\ Continues(argText, argPlace, "argument")
           /\ argv' = Append(argv, argPlace) /\ UNCHANGED argQuote
  <2> DEFINE u == Append(argv, argPlace)
  <2> HIDE DEF u
  <2>1. WithinWith(w, R, argText, argPlace, u, Nul, k, l, << >>) /\ u \in Seq(Nat)
    BY <1>0, <1>2, BetweenBegins DEF u
  <2>2. /\ argText' = argText /\ argPlace' = argPlace /\ argPc' = "argument" /\ command' = command
        /\ args' = args /\ answer' = answer /\ argv' = u
    BY <1>6 DEF Continues, u
  <2>3. AtArgument(w, R, argText, argPlace, u)
    BY <1>0, <1>6, <2>1 DEF AtArgument
  <2>4. AtArgument(w, R, argText', argPlace', argv')
    BY <2>2, <2>3
  <2> QED
    BY <1>0, <2>1, <2>2, <2>4, LoopGoesOn DEF w, R
<1> QED
  BY <1>3, <1>4, <1>5, <1>6 DEF Between

LEMMA ArgumentKeeps ==
    ASSUME ArgInv, Argument
    PROVE  ArgInv'
<1> DEFINE w == command
           R == ReadSoFar
           b == argText
           p == argPlace
           d == Removed(b, p)
           e == [b EXCEPT ![p] = Nul]
<1>0. /\ argPc = "argument" /\ w \in Seq(Char) /\ b \in Seq(ArgByte) /\ argv \in Seq(Nat)
      /\ Here = Char_(b, p) /\ AtArgument(w, R, b, p, argv)
  BY DEF Argument, ArgInv, ArgTyped, Here
<1>1. ReadingOf(w, R)
  BY CommandReads DEF ArgInv
<1> HIDE DEF w, R
<1>2. PICK k, l, cur : WithinWith(w, R, b, p, argv, Nul, k, l, cur)
  BY <1>0 DEF AtArgument
<1>3. CASE Here \in Quote /\ Continues(d, p, "quoted") /\ argQuote' = Here /\ UNCHANGED argv
  <2>1. /\ argText' = d /\ argPlace' = p /\ argPc' = "quoted" /\ command' = command
        /\ args' = args /\ answer' = answer /\ argv' = argv /\ argQuote' = Char_(b, p)
        /\ argQuote' \in Quote
    BY <1>0, <1>3 DEF Continues
  <2>2. SureWith(w, R, d, p, argv, Char_(b, p), k + 1, l, cur) /\ d \in Seq(ArgByte)
    BY <1>0, <1>1, <1>2, <1>3, ArgumentQuotes
  <2> HIDE DEF d
  <2>3. WithinWith(w, R, d, p, argv, Char_(b, p), k + 1, l, cur)
    BY <2>2, SureIsWithin
  <2>4. AtQuoted(w, R, argText', argPlace', argv', argQuote')
    BY <2>1, <2>3 DEF AtQuoted
  <2> QED
    BY <1>0, <2>1, <2>2, <2>4, LoopGoesOn DEF w, R
<1>4. CASE Here = Backslash /\ Escape
  <2>1. \/ /\ argPc' = argPc /\ command' = command /\ args' = args /\ answer' = answer
           /\ argQuote' = argQuote /\ argText' \in Seq(ArgByte) /\ argv' \in Seq(Nat)
           /\ \E k2, c2 : SureWith(command, ReadSoFar, argText', argPlace', argv', Nul, k2, l, c2)
        \/ Refuses("EINVAL") /\ IsWrong(command, ReadSoFar)
    BY <1>0, <1>2, <1>4, EscapeStep DEF w, R
  <2>2. CASE Refuses("EINVAL") /\ IsWrong(command, ReadSoFar)
    BY <1>0, <2>2, RefusedIsRead
  <2>3. CASE ~(Refuses("EINVAL") /\ IsWrong(command, ReadSoFar))
    <3>1. PICK k2, c2 : SureWith(command, ReadSoFar, argText', argPlace', argv', Nul, k2, l, c2)
      BY <2>1, <2>3
    <3>2. AtArgument(command, ReadSoFar, argText', argPlace', argv')
      BY <3>1, SureIsArgument
    <3> QED
      BY <1>0, <2>1, <2>3, <3>2, LoopGoesOn
  <2> QED
    BY <2>2, <2>3
<1>5. CASE Here \notin Quote \cup Space \cup {Backslash, Nul} /\ Skip
  <2>1. /\ argText' = b /\ argPlace' = p + 1 /\ argPc' = "argument" /\ command' = command
        /\ args' = args /\ answer' = answer /\ argv' = argv
    BY <1>0, <1>5 DEF Skip, Continues
  <2>2. SureWith(w, R, b, p + 1, argv, Nul, k + 1, l, Append(cur, Here))
    BY <1>0, <1>1, <1>2, <1>5, ArgumentPlain
  <2>3. AtArgument(w, R, b, p + 1, argv)
    BY <2>2, SureIsArgument
  <2>4. AtArgument(w, R, argText', argPlace', argv')
    BY <2>1, <2>3
  <2> QED
    BY <1>0, <2>1, <2>4, LoopGoesOn DEF w, R
<1>6. CASE Here \in Space /\ Continues(e, p + 1, "between") /\ UNCHANGED <<argQuote, argv>>
  <2>1. /\ argText' = e /\ argPlace' = p + 1 /\ argPc' = "between" /\ command' = command
        /\ args' = args /\ answer' = answer /\ argv' = argv
    BY <1>6 DEF Continues
  <2>2. PICK k2, l2, c2 : SureWith(w, R, b, p, argv, Nul, k2, l2, c2)
    BY <1>0, <1>6, ArgumentIsSure
  <2>3. BetweenWith(w, R, e, p + 1, argv, k2 + 1, Append(l2, c2)) /\ e \in Seq(ArgByte)
    BY <1>0, <1>1, <1>6, <2>2, ArgumentEnds
  <2> HIDE DEF e
  <2>4. AtBetween(w, R, argText', argPlace', argv')
    BY <2>1, <2>3 DEF AtBetween
  <2> QED
    BY <1>0, <2>1, <2>3, <2>4, LoopGoesOn DEF w, R
<1>7. CASE Here = Nul /\ Continues(b, p, "read") /\ UNCHANGED <<argQuote, argv>>
  <2>1. /\ argText' = b /\ argPc' = "read" /\ command' = command
        /\ args' = args /\ answer' = answer /\ argv' = argv
    BY <1>7 DEF Continues
  <2>2. PICK k2, l2, c2 : SureWith(w, R, b, p, argv, Nul, k2, l2, c2)
    BY <1>0, <1>7, ArgumentIsSure
  <2>3. ReadWith(w, R, b, argv, Append(l2, c2))
    BY <1>0, <1>7, <2>2, ArgumentLast
  <2>4. AllRead(w, R, argText', argv')
    BY <2>1, <2>3 DEF AllRead
  <2> QED
    BY <1>0, <2>1, <2>4, LoopGoesOn DEF w, R
<1> QED
  BY <1>3, <1>4, <1>5, <1>6, <1>7 DEF Argument

LEMMA QuotedKeeps ==
    ASSUME ArgInv, Quoted
    PROVE  ArgInv'
<1> DEFINE w == command
           R == ReadSoFar
           b == argText
           p == argPlace
           q == argQuote
           d == Removed(b, p)
<1>0. /\ argPc = "quoted" /\ w \in Seq(Char) /\ b \in Seq(ArgByte) /\ argv \in Seq(Nat)
      /\ Here = Char_(b, p) /\ AtQuoted(w, R, b, p, argv, q) /\ q \in Quote /\ q # Nul
  BY CharAssumption DEF Quoted, ArgInv, ArgTyped, Here
<1>1. ReadingOf(w, R)
  BY CommandReads DEF ArgInv
<1> HIDE DEF w, R
<1>2. PICK k, l, cur : WithinWith(w, R, b, p, argv, q, k, l, cur)
  BY <1>0 DEF AtQuoted
<1>3. CASE Here = Nul /\ Refuses("EINVAL")
  <2>1. IsWrong(w, R)
    BY <1>0, <1>2, <1>3, QuotedOpen
  <2> QED
    BY <1>0, <1>3, <2>1, RefusedIsRead DEF w, R
<1>4. CASE Here = q /\ Continues(d, p, "argument") /\ argQuote' = Nul /\ UNCHANGED argv
  <2>1. /\ argText' = d /\ argPlace' = p /\ argPc' = "argument" /\ command' = command
        /\ args' = args /\ answer' = answer /\ argv' = argv
    BY <1>4 DEF Continues
  <2>2. SureWith(w, R, d, p, argv, Nul, k + 1, l, cur) /\ d \in Seq(ArgByte)
    BY <1>0, <1>1, <1>2, <1>4, ArgumentUnquotes
  <2> HIDE DEF d
  <2>3. AtArgument(w, R, d, p, argv)
    BY <2>2, SureIsArgument
  <2>4. AtArgument(w, R, argText', argPlace', argv')
    BY <2>1, <2>3
  <2> QED
    BY <1>0, <2>1, <2>2, <2>4, LoopGoesOn DEF w, R
<1>5. CASE Here = Backslash /\ Escape
  <2>1. \/ /\ argPc' = argPc /\ command' = command /\ args' = args /\ answer' = answer
           /\ argQuote' = argQuote /\ argText' \in Seq(ArgByte) /\ argv' \in Seq(Nat)
           /\ \E k2, c2 : SureWith(command, ReadSoFar, argText', argPlace', argv', q, k2, l, c2)
        \/ Refuses("EINVAL") /\ IsWrong(command, ReadSoFar)
    BY <1>0, <1>2, <1>5, EscapeStep DEF w, R
  <2>2. CASE Refuses("EINVAL") /\ IsWrong(command, ReadSoFar)
    BY <1>0, <2>2, RefusedIsRead
  <2>3. CASE ~(Refuses("EINVAL") /\ IsWrong(command, ReadSoFar))
    <3>1. PICK k2, c2 : SureWith(command, ReadSoFar, argText', argPlace', argv', q, k2, l, c2)
      BY <2>1, <2>3
    <3>2. WithinWith(command, ReadSoFar, argText', argPlace', argv', q, k2, l, c2)
      BY <3>1, SureIsWithin
    <3>3. AtQuoted(command, ReadSoFar, argText', argPlace', argv', argQuote')
      BY <2>1, <2>3, <3>2 DEF AtQuoted
    <3> QED
      BY <1>0, <2>1, <2>3, <3>3, LoopGoesOn
  <2> QED
    BY <2>2, <2>3
<1>6. CASE Here \notin {Nul, q, Backslash} /\ Skip
  <2>1. /\ argText' = b /\ argPlace' = p + 1 /\ argPc' = "quoted" /\ command' = command
        /\ args' = args /\ answer' = answer /\ argv' = argv /\ argQuote' = q
    BY <1>0, <1>6 DEF Skip, Continues
  <2>2. SureWith(w, R, b, p + 1, argv, q, k + 1, l, Append(cur, Here))
    BY <1>0, <1>1, <1>2, <1>6, ArgumentPlain
  <2>3. WithinWith(w, R, b, p + 1, argv, q, k + 1, l, Append(cur, Here))
    BY <2>2, SureIsWithin
  <2>4. AtQuoted(w, R, argText', argPlace', argv', argQuote')
    BY <2>1, <2>3 DEF AtQuoted
  <2> QED
    BY <1>0, <2>1, <2>4, LoopGoesOn DEF w, R
<1> QED
  BY <1>3, <1>4, <1>5, <1>6 DEF Quoted, Unquote

LEMMA AssignKeeps ==
    ASSUME ArgInv, Assign
    PROVE  ArgInv'
<1> DEFINE w == command
           R == ReadSoFar
           n == Len(w)
<1>0. /\ argPc = "read" /\ argText \in Seq(ArgByte) /\ argv \in Seq(Nat)
      /\ AllRead(w, R, argText, argv)
  BY DEF Assign, ArgInv, ArgTyped
<1>1. PICK l : ReadWith(w, R, argText, argv, l)
  BY <1>0 DEF AllRead
<1>2. /\ argPc' = "returned" /\ command' = command /\ argText' = argText /\ argv' = argv
      /\ answer' \in {"ENOMEM", "done"}
      /\ answer' = "ENOMEM" => args' = << >>
      /\ answer' = "done" => args' = [k \in DOMAIN argv |-> StringAt(argText, argv[k])]
  BY DEF Assign, Yields
<1>3. l \in Words /\ Len(argv) = Len(l) /\ FoundUpTo(argText, Len(argText) + 2, argv, l)
  BY <1>1 DEF ReadWith
<1>4. [k \in DOMAIN argv |-> StringAt(argText, argv[k])] = l
  BY <1>0, <1>3, FoundAreStrings
<1>5. R[n].bad = FALSE /\ R[n].escape = FALSE /\ R[n].quote = Nul /\ R[n].list = l
  BY <1>1 DEF ReadWith, Inside, Outside, IsReading
<1>6. ReadSoFar' = ReadSoFar
  BY <1>2, SameReading
<1>7. ArgTyped'
  BY <1>2 DEF ArgInv, ArgTyped
<1>8. ArgumentsAreRead'
  BY <1>2, <1>4, <1>5, <1>6 DEF ArgumentsAreRead
<1> QED
  BY <1>2, <1>7, <1>8 DEF ArgInv

LEMMA ArgBegins ==
    ASSUME ArgInit
    PROVE  ArgInv
<1>1. PICK n \in 0 .. MaxLength : command \in [1 .. n -> Char]
  BY DEF ArgInit
<1>2. n \in Nat
  BY <1>1, CharAssumption
<1>3. command \in Seq(Char)
  BY <1>1, <1>2
<1>4. ArgTyped
  BY <1>3 DEF ArgInit, ArgTyped
<1> QED
  BY <1>4 DEF ArgInit, ArgInv

LEMMA ArgStutters ==
    ASSUME ArgInv, UNCHANGED argVars
    PROVE  ArgInv'
<1>1. /\ command' = command /\ args' = args /\ answer' = answer /\ argPc' = argPc
      /\ argText' = argText
      /\ argPlace' = argPlace /\ argQuote' = argQuote /\ argv' = argv
  BY DEF argVars
<1>2. ReadSoFar' = ReadSoFar
  BY <1>1, SameReading
<1>3. ArgTyped'
  BY <1>1 DEF ArgInv, ArgTyped
<1>4. ArgumentsAreRead => ArgumentsAreRead'
  BY <1>1, <1>2 DEF ArgumentsAreRead
<1> QED
  BY <1>1, <1>2, <1>3, <1>4 DEF ArgInv

\* ndm_strarg_parse(): at each loop of the parser what is behind its place in
\* the copy is the unread rest of the command, and the strings that begin at the
\* places it keeps are the arguments of what it has read.
THEOREM ArgInvariance == ArgSpec => []ArgInv
<1>1. ArgInit => ArgInv
  BY ArgBegins
<1>2. ArgInv /\ [ArgNext]_argVars => ArgInv'
  <2> SUFFICES ASSUME ArgInv, [ArgNext]_argVars PROVE ArgInv'
    OBVIOUS
  <2>1. CASE Copy
    BY <2>1, CopyBegins
  <2>2. CASE Between
    BY <2>2, BetweenKeeps
  <2>3. CASE Argument
    BY <2>3, ArgumentKeeps
  <2>4. CASE Quoted
    BY <2>4, QuotedKeeps
  <2>5. CASE Assign
    BY <2>5, AssignKeeps
  <2>6. CASE UNCHANGED argVars
    BY <2>6, ArgStutters
  <2> QED
    BY <2>1, <2>2, <2>3, <2>4, <2>5, <2>6 DEF ArgNext
<1> QED
  BY <1>1, <1>2, PTL DEF ArgSpec

\* A command that ndm_strarg_parse() splits gives exactly the arguments it has
\* when it is read once from left to right, and one it refuses is one that ends
\* in a quote or in a backslash, or has one before what it does not know.
THEOREM ArgumentsStayRead == ArgSpec => []ArgumentsAreRead
<1>1. ArgInv => ArgumentsAreRead
  <2> SUFFICES ASSUME ArgInv PROVE ArgumentsAreRead
    OBVIOUS
  <2>1. CASE argPc = "returned"
    BY <2>1 DEF ArgInv
  <2>2. CASE argPc # "returned"
    <3>1. answer = "called"
      BY <2>2 DEF ArgInv
    <3> QED
      BY <3>1 DEF ArgumentsAreRead
  <2> QED
    BY <2>1, <2>2
<1> QED
  BY <1>1, ArgInvariance, PTL
=============================================================================
