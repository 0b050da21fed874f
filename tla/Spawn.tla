------------------------------- MODULE Spawn --------------------------------
(***************************************************************************)
(* ndm_spawn_process(), called by threads of one process at the same time. *)
(* A pipe tells the caller whether its child came as far as the program it *)
(* is to execute: the child writes what went wrong, or the end that        *)
(* execve() closes is the end of the file.  That end must be in nobody     *)
(* else's hands, and every fork() copies all the descriptors the process   *)
(* has at that moment.                                                     *)
(***************************************************************************)
EXTENDS Integers, FiniteSets

CONSTANTS
    Caller,     \* threads that spawn a process each
    Closes      \* at_exec closes descriptors, as ndm_spawn_default_at_exec() does

ASSUME ClosesAssumption == Closes \in BOOLEAN

VARIABLES
    pc,         \* where each caller is
    child,      \* and its child
    fds,        \* ends of pipes that are open in the process
    inherited,  \* in each child
    cloexec,    \* ends that execve() closes
    pipe,       \* what is in each pipe: the error of a child, or nothing
    result      \* what the call returned: a child or an error

spawnVars == <<pc, child, fds, inherited, cloexec, pipe, result>>

Reads(c) == <<c, "read">>
Writes(c) == <<c, "write">>

SpawnInit ==
    /\ pc = [c \in Caller |-> "pipe"] /\ child = [c \in Caller |-> "none"]
    /\ fds = {} /\ inherited = [c \in Caller |-> {}] /\ cloexec = {}
    /\ pipe = [c \in Caller |-> "empty"] /\ result = [c \in Caller |-> "none"]

Goes(c, to) == pc' = [pc EXCEPT ![c] = to]
Returns(c, r) == Goes(c, "returned") /\ result' = [result EXCEPT ![c] = r]

-----------------------------------------------------------------------------
(* The caller. *)

Pipe(c) ==
    /\ pc[c] = "pipe"
    /\ \/ Returns(c, "failed") /\ UNCHANGED fds
       \/ Goes(c, "prepare") /\ fds' = fds \cup {Reads(c), Writes(c)} /\ UNCHANGED result
    /\ UNCHANGED <<child, inherited, cloexec, pipe>>

\* The environment, the executable, the flag of the pipe and the streams: what
\* fails here leaves the pipe open.
Prepare(c) ==
    /\ pc[c] = "prepare"
    /\ \/ Returns(c, "failed") /\ UNCHANGED cloexec
       \/ Goes(c, "fork") /\ cloexec' = cloexec \cup {Writes(c)} /\ UNCHANGED result
    /\ UNCHANGED <<child, fds, inherited, pipe>>

\* The child has what the process has at this moment.
Fork(c) ==
    /\ pc[c] = "fork"
    /\ \/ Returns(c, "failed") /\ UNCHANGED <<child, inherited>>
       \/ /\ Goes(c, "close")
          /\ child' = [child EXCEPT ![c] = "forked"]
          /\ inherited' = [inherited EXCEPT ![c] = fds]
          /\ UNCHANGED result
    /\ UNCHANGED <<fds, cloexec, pipe>>

CloseWriting(c) ==
    /\ pc[c] = "close"
    /\ Goes(c, "read") /\ fds' = fds \ {Writes(c)}
    /\ UNCHANGED <<child, inherited, cloexec, pipe, result>>

\* Somebody may still write to c's pipe.
HasWriter(c) == Writes(c) \in fds \/ \E d \in Caller : Writes(c) \in inherited[d]

\* Mutant of Ended: the child is not waited for.
EndedAlive(c, r) ==
    /\ Returns(c, r) /\ fds' = fds \ {Reads(c)}
    /\ UNCHANGED <<child, inherited>>

\* The child is killed and waited for, whatever it is doing.
Ended(c, r) ==
    /\ Returns(c, r) /\ fds' = fds \ {Reads(c)}
    /\ child' = [child EXCEPT ![c] = "reaped"]
    /\ inherited' = [inherited EXCEPT ![c] = {}]

\* read(): an error of four bytes comes whole, since it was written at once.
ReadError(c) ==
    /\ pc[c] = "read" /\ pipe[c] # "empty"
    /\ Ended(c, pipe[c]) /\ pipe' = [pipe EXCEPT ![c] = "empty"]
    /\ UNCHANGED cloexec

ReadEnd(c) ==
    /\ pc[c] = "read" /\ pipe[c] = "empty" /\ ~HasWriter(c)
    /\ Returns(c, "child") /\ fds' = fds \ {Reads(c)}
    /\ UNCHANGED <<child, inherited, cloexec, pipe>>

\* A signal is caught before anything is read, which ends the loop too.
Interrupted(c) ==
    /\ pc[c] = "read" /\ Ended(c, "EINTR")
    /\ UNCHANGED <<cloexec, pipe>>

-----------------------------------------------------------------------------
(* The child. *)

\* Mutant of LeftOpen: at_exec leaves what was inherited as it is.
LeftOpenAll(c) == inherited[c]

\* What at_exec leaves open: control_fd only.
LeftOpen(c) == IF Closes THEN inherited[c] \cap {Writes(c)} ELSE inherited[c]

\* ndm_spawn_default_at_exec(), or one that closes nothing
AtExec(c) ==
    /\ child[c] = "forked"
    /\ \E to \in {"executing", "failing"} : child' = [child EXCEPT ![c] = to]
    /\ inherited' = [inherited EXCEPT ![c] = LeftOpen(c)]
    /\ UNCHANGED <<pc, fds, cloexec, pipe, result>>

Execve(c) ==
    /\ child[c] = "executing"
    /\ \/ /\ child' = [child EXCEPT ![c] = "running"]
          /\ inherited' = [inherited EXCEPT ![c] = @ \ cloexec]
       \/ child' = [child EXCEPT ![c] = "failing"] /\ UNCHANGED inherited
    /\ UNCHANGED <<pc, fds, cloexec, pipe, result>>

\* The error is written, unless a handler of the caller's interrupts that, and
\* the child ends.
WriteError(c) ==
    /\ child[c] = "failing"
    /\ \/ pipe' = [pipe EXCEPT ![c] = "errno"] /\ child' = [child EXCEPT ![c] = "told"]
       \/ child' = [child EXCEPT ![c] = "silent"] /\ UNCHANGED pipe
    /\ inherited' = [inherited EXCEPT ![c] = {}]
    /\ UNCHANGED <<pc, fds, cloexec, result>>

\* External: somebody kills the child, or the program ends.
Dies(c) ==
    /\ child[c] \in {"forked", "executing", "failing", "running"}
    /\ child' = [child EXCEPT ![c] = IF @ = "running" THEN "finished" ELSE "killed"]
    /\ inherited' = [inherited EXCEPT ![c] = {}]
    /\ UNCHANGED <<pc, fds, cloexec, pipe, result>>

CallerStep(c) ==
    Pipe(c) \/ Prepare(c) \/ Fork(c) \/ CloseWriting(c) \/ ReadError(c) \/ ReadEnd(c)

ChildStep(c) == AtExec(c) \/ Execve(c) \/ WriteError(c)

SpawnNext == \E c \in Caller : CallerStep(c) \/ Interrupted(c) \/ ChildStep(c) \/ Dies(c)

\* Threads and children that can go on do; the program a child becomes need not
\* end, and no signal need come.
SpawnSpec ==
    /\ SpawnInit /\ [][SpawnNext]_spawnVars
    /\ \A c \in Caller : WF_spawnVars(CallerStep(c)) /\ WF_spawnVars(ChildStep(c))

-----------------------------------------------------------------------------
\* A child that is returned has become the program, unless it was killed or
\* interrupted before it could tell; an error is returned once no child is left,
\* and it is the child's own, unless the reading was interrupted.
ReportIsTrue ==
    \A c \in Caller :
       /\ result[c] = "child" => child[c] \in {"running", "finished", "killed", "silent"}
       /\ result[c] \in {"failed", "errno", "EINTR"} => child[c] \in {"none", "reaped"}

\* A process executed by one caller does not hold up another: whenever both are
\* in the middle of it, every call returns, although programs run for ever.
SpawnReturns == \A c \in Caller : <>(pc[c] = "returned")
=============================================================================
