---------------------------- MODULE Environment -----------------------------
(***************************************************************************)
(* What ndm_spawn_process() prepares for a new program: an environment,    *)
(* merged from the caller's own and from what it is given, in one block of *)
(* pointers and texts, and the executable, searched for along PATH.  Both  *)
(* are always made, and errno is that of the last of them that failed.     *)
(***************************************************************************)
EXTENDS Integers, SequencesExt, FiniteSetsExt

CONSTANTS
    Own, Given,     \* environments: sequences of entries, see Entry
    MaxDirs,        \* bound: directories in PATH
    Ptr             \* sizeof(void *)

\* Names and values are texts.
ASSUME EnvironmentAssumption ==
    /\ \A list \in Own \cup Given :
          /\ list \in Seq(ToSet(list))
          /\ \A x \in ToSet(list) :
                Len(x.name) \in Nat /\ Len(x.val) \in Nat /\ x.equals \in BOOLEAN
    /\ MaxDirs \in Nat /\ Ptr \in Nat \ {0}

\* What is found in a directory of PATH: nothing, something that is no file or may
\* not be executed, or the executable.  "no memory": it is not looked for.
Found == {"missing", "no file", "denied", "executable", "no memory"}

VARIABLES
    own, envp,      \* environ, and the entries given
    dirs, slash,    \* PATH, and whether the name of the file has a slash
    envPc,          \* where the call is
    next,           \* the index of its loop
    map,            \* the entries merged: a sequence of [name, val]
    size,           \* env_size
    block,          \* what is written: [from, name, val]
    hasEnv,         \* env is not NULL
    exec,           \* the directory of the executable, 0 while there is none
    envErrno        \* errno, "old" from before

environmentVars ==
    <<own, envp, dirs, slash, envPc, next, map, size, block, hasEnv, exec, envErrno>>
inputVars == <<own, envp, dirs, slash>>

Entry(name, val) == [name |-> name, val |-> val, equals |-> TRUE]
Malformed(text) == [name |-> text, val |-> << >>, equals |-> FALSE]

ItsName == 0    \* the executable is the name itself, which has a slash
NotFound == -1

EnvironmentInit ==
    /\ own \in Own /\ envp \in Given
    /\ dirs \in BoundedSeq(Found, MaxDirs) /\ slash \in BOOLEAN
    /\ envPc = "own" /\ next = 1 /\ map = << >> /\ size = Ptr /\ block = << >>
    /\ hasEnv = FALSE /\ exec = NotFound /\ envErrno = "old"

EnvGoes(to) == envPc' = to /\ next' = 1

\* goto failed; the executable is looked for nevertheless.
EnvFails(e) ==
    /\ EnvGoes("search") /\ map' = << >> /\ envErrno' = e
    /\ UNCHANGED <<inputVars, size, block, hasEnv, exec>>

-----------------------------------------------------------------------------
IsThere(name) == \E k \in DOMAIN map : map[k].name = name

\* Mutant of Merged: an entry that is there already is added again.
MergedTwice(x) == Append(map, [name |-> x.name, val |-> x.val])

\* ndm_strmap_nset()
Merged(x) ==
    LET p == [name |-> x.name, val |-> x.val] IN
    IF IsThere(x.name) THEN [k \in DOMAIN map |-> IF map[k].name = x.name THEN p ELSE map[k]]
    ELSE Append(map, p)

\* A new entry, or a value of another length
NeedsMemory(x) == ~\E k \in DOMAIN map : map[k].name = x.name /\ Len(map[k].val) = Len(x.val)

\* ndm_spawn_merge_env_(): the environment of the caller itself is not checked.
Merge(list, check, to) ==
    IF next > Len(list)
    THEN EnvGoes(to) /\ UNCHANGED <<inputVars, map, size, block, hasEnv, exec, envErrno>>
    ELSE LET x == list[next] IN
         \/ x.equals /\ NeedsMemory(x) /\ EnvFails("ENOMEM")
         \/ ~x.equals /\ check /\ EnvFails("EINVAL")
         \/ /\ x.equals \/ ~check
            /\ map' = IF x.equals THEN Merged(x) ELSE map
            /\ next' = next + 1
            /\ UNCHANGED <<inputVars, envPc, size, block, hasEnv, exec, envErrno>>

MergeOwn == envPc = "own" /\ Merge(own, FALSE, "given")
MergeGiven == envPc = "given" /\ Merge(envp, TRUE, "count")

\* ndm_spawn_env_str_size_(): "name=val" and the null, aligned
StrSize(p) == LET n == Len(p.name) + Len(p.val) + 2
              IN ((n + Ptr - 1) \div Ptr) * Ptr

\* A pointer and a text for each entry, besides the pointer that is NULL.
CountEntry ==
    /\ envPc = "count" /\ next <= Len(map)
    /\ size' = size + Ptr + StrSize(map[next])
    /\ next' = next + 1
    /\ UNCHANGED <<inputVars, envPc, map, block, hasEnv, exec, envErrno>>

AllocateBlock ==
    /\ envPc = "count" /\ next > Len(map)
    /\ \/ EnvFails("ENOMEM")
       \/ EnvGoes("write") /\ UNCHANGED <<inputVars, map, size, block, hasEnv, exec, envErrno>>

\* Texts are behind the pointers.
End == IF block = << >> THEN (Len(map) + 1) * Ptr ELSE Last(block).from + StrSize(Last(block))

WriteEntry ==
    /\ envPc = "write"
    /\ IF next <= Len(map)
       THEN /\ block' = Append(block, [from |-> End, name |-> map[next].name, val |-> map[next].val])
            /\ next' = next + 1 /\ UNCHANGED <<envPc, map, hasEnv>>
       ELSE EnvGoes("search") /\ map' = << >> /\ hasEnv' = TRUE /\ UNCHANGED block
    /\ UNCHANGED <<inputVars, size, exec, envErrno>>

-----------------------------------------------------------------------------
SearchEnds(k, e) ==
    /\ envPc' = "prepared" /\ exec' = k /\ envErrno' = e
    /\ UNCHANGED <<inputVars, next, map, size, block, hasEnv>>

\* Mutant of GoesOn: whatever is wrong with a file, the next directory is looked at.
GoesOnAlways(found) == found # "executable"

\* The search goes on with ENOENT only.
GoesOn(found) == found \in {"missing", "no file"}

\* What is not a regular file does not exist either.
ErrnoOf(found) ==
    CASE found = "denied" -> "EACCES" [] found = "no memory" -> "ENOMEM" [] OTHER -> "ENOENT"

\* ndm_spawn_get_executable_()
Search ==
    /\ envPc = "search"
    /\ IF slash THEN SearchEnds(ItsName, envErrno) \/ SearchEnds(NotFound, "ENOMEM")
       ELSE IF next > Len(dirs) THEN SearchEnds(NotFound, "ENOENT")
       ELSE IF dirs[next] = "executable" THEN SearchEnds(next, envErrno)
       ELSE IF GoesOn(dirs[next])
       THEN /\ next' = next + 1 /\ envErrno' = ErrnoOf(dirs[next])
            /\ UNCHANGED <<inputVars, envPc, map, size, block, hasEnv, exec>>
       ELSE SearchEnds(NotFound, ErrnoOf(dirs[next]))

EnvironmentNext == MergeOwn \/ MergeGiven \/ CountEntry \/ AllocateBlock \/ WriteEntry \/ Search

EnvironmentSpec == EnvironmentInit /\ [][EnvironmentNext]_environmentVars

-----------------------------------------------------------------------------
Prepared == envPc = "prepared"

\* What a name is to be in the new environment: the last that is given, or else
\* the last of the caller's own.
Values(list, name) == {k \in DOMAIN list : list[k].equals /\ list[k].name = name}
Meant(name) == IF Values(envp, name) # {} THEN envp[Max(Values(envp, name))].val
               ELSE own[Max(Values(own, name))].val
Names == {x.name : x \in {y \in ToSet(own) \cup ToSet(envp) : y.equals}}

\* The new environment has every name of both once, with the value given last, in
\* texts that lie apart within the block; it is made if and only if all that is
\* given is well-formed, memory permitting.
BlockIsMerged ==
    Prepared /\ hasEnv =>
        /\ \A x \in ToSet(envp) : x.equals
        /\ Len(block) = Cardinality(Names) /\ {p.name : p \in ToSet(block)} = Names
        /\ \A k \in DOMAIN block :
              /\ block[k].val = Meant(block[k].name)
              /\ block[k].from >= (Len(block) + 1) * Ptr /\ block[k].from % Ptr = 0
              /\ LET end == block[k].from + Len(block[k].name) + Len(block[k].val) + 2
                 IN end <= (IF k < Len(block) THEN block[k + 1].from ELSE size)

\* The executable is the first that PATH has, unless one before it is there and may
\* not be executed; then none is taken.
FirstIsTaken ==
    Prepared /\ ~slash =>
        LET there == {k \in DOMAIN dirs : dirs[k] \notin {"missing", "no file"}} IN
        exec = IF there # {} /\ dirs[Min(there)] = "executable" THEN Min(there) ELSE NotFound

\* A call that fails has an errno that says so, and it is that of the environment
\* unless a directory was looked at in vain, or there is no executable either.
ErrnoIsSet ==
    Prepared /\ (~hasEnv \/ exec = NotFound) =>
        /\ envErrno # "old"
        /\ envErrno = "EINVAL" => \E x \in ToSet(envp) : ~x.equals

\* What is executed, and with what, is what the caller means.
ProgramIsMeant == BlockIsMerged /\ FirstIsTaken /\ ErrnoIsSet
=============================================================================
