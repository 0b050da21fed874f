---------------------------- MODULE MCCoreCache -----------------------------
(***************************************************************************)
(* CoreCache, with its history, on small instances: responses whose copies *)
(* are as large as they are or larger, one too large for the cache and one *)
(* that is continued.                                                      *)
(***************************************************************************)
EXTENDS CacheHistory, TLC

CONSTANTS
    q1, q2, q3,     \* requests
    small, large,   \* responses, the copy as large as the original
    grown,          \* a response whose copy needs one dynamic block more
    huge,           \* a response larger than the cache
    endless,        \* a continued response
    Horizon,        \* bound: the clock stops here
    MaxDrift        \* bound: how far removals may outrun insertions

MCRequest == {q1, q2, q3}
MCResponse == {small, large, grown, huge, endless}
MCContinued == {endless}
MCRequestSize == [q \in {q1, q2, q3} |-> 1]
MCParsedSize == [r \in MCResponse |->
    IF r = huge THEN 5 ELSE IF r \in {large, grown} THEN 1 ELSE 0]
MCCopiedSize == [r \in MCResponse |-> IF r = grown THEN 3 ELSE MCParsedSize[r]]

Symmetry == Permutations(Addr) \cup Permutations(MCRequest)

\* How much more was subtracted by removals than was ever added.
Drift == (Charged(Live) - size) % SizeRange

MCNext ==
    /\ \/ Drift <= MaxDrift /\ LookupUses
       \/ ReceiveUses
       \/ ClearUses
       \/ now < Horizon /\ TickUses
    /\ Drifts

MCSpec == HistoryInit /\ [][MCNext]_historyVars
=============================================================================
