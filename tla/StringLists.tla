---------------------------- MODULE StringLists -----------------------------
(***************************************************************************)
(* What the string vectors promise: each is a list of strings of its own.  *)
(* An insertion that fails changes nothing; an assignment or an appending  *)
(* that fails leaves the list empty.                                       *)
(***************************************************************************)
EXTENDS Integers, SequencesExt, Functions

CONSTANTS Vec, Text

VARIABLES
    contents,   \* for each vector, its strings
    done        \* what the last call returned

listVars == <<contents, done>>

Init == contents = [v \in Vec |-> << >>] /\ done = TRUE

Becomes(v, list, d) == contents' = [contents EXCEPT ![v] = list] /\ done' = d

InsertText(v) ==
    \/ done' = FALSE /\ UNCHANGED contents
    \/ \E i \in 1 .. Len(contents[v]) + 1, s \in Text :
          Becomes(v, InsertAt(contents[v], i, s), TRUE)

RemoveText(v) == \E i \in DOMAIN contents[v] : Becomes(v, RemoveAt(contents[v], i), TRUE)

Truncate(v) == \E n \in 0 .. Len(contents[v]) : Becomes(v, SubSeq(contents[v], 1, n), TRUE)

Take(v, list) == Becomes(v, list, TRUE) \/ Becomes(v, << >>, FALSE)

\* The same strings, in one order or the other.
Sort(v) ==
    \E up \in BOOLEAN, p \in Injection(DOMAIN contents[v], DOMAIN contents[v]) :
       LET list == [k \in DOMAIN contents[v] |-> contents[v][p[k]]] IN
       /\ \A k, l \in DOMAIN list : k < l => IF up THEN list[k] <= list[l] ELSE list[k] >= list[l]
       /\ Becomes(v, list, TRUE)

SwapWith(v, r) == /\ contents' = [contents EXCEPT ![v] = contents[r], ![r] = contents[v]]
              /\ done' = TRUE

Compare(v, r) == done' = (contents[v] = contents[r]) /\ UNCHANGED contents

Next ==
    \E v \in Vec :
       \/ InsertText(v) \/ RemoveText(v) \/ Truncate(v) \/ Sort(v)
       \/ \E s, t \in Text : Take(v, <<s, t>>)
       \/ \E r \in Vec \ {v} : SwapWith(v, r) \/ Compare(v, r)
             \/ Take(v, contents[r]) \/ Take(v, contents[v] \o contents[r])

Spec == Init /\ [][Next]_listVars
=============================================================================
