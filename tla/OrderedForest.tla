--------------------------- MODULE OrderedForest ---------------------------
(***************************************************************************)
(* What the links of XML documents stand for: each owner has a sequence of *)
(* items, an item is in one sequence at most, and a call changes one       *)
(* sequence at one place.                                                  *)
(***************************************************************************)
EXTENDS Integers, SequencesExt

CONSTANTS Owner, Item, Doc, Null

VARIABLES
    list,    \* the items of every owner
    of       \* the document of every item, Null when it is not allocated

Init ==
    /\ list = [p \in Owner |-> << >>]
    /\ of = [c \in Item |-> Null]

\* t is s and one item more, which no sequence of old has.
Added(s, t, old) ==
    \E i \in 1 .. Len(t) :
        s = RemoveAt(t, i) /\ \A p \in Owner : t[i] \notin ToSet(old[p])

Taken(s, t) == \E i \in 1 .. Len(s) : t = RemoveAt(s, i)

Cut(s, t) == IsPrefix(t, s)

Allocated(old, new) ==
    \E c \in Item, d \in Doc : old[c] = Null /\ new = [old EXCEPT ![c] = d]

\* All items of d are given back, and others taken instead.
Renewed(d) ==
    \A c \in Item :
        IF of[c] = d THEN of'[c] = Null
        ELSE of'[c] = of[c] \/ (of[c] = Null /\ of'[c] = d)

\* The lists of old items of d are gone, those of new ones may be there.
Replaced(d, s, t) ==
    /\ \A c \in ToSet(s) : of[c] = d
    /\ \A c \in ToSet(t) : of'[c] = d

Next ==
    LET old == list
        new == list'
        Changed == {p \in Owner : old[p] # new[p]}
    IN
    \/ Changed = {} /\ (UNCHANGED of \/ Allocated(of, of'))
    \/ /\ UNCHANGED of \/ Allocated(of, of')
       /\ \E p \in Owner :
             /\ Changed = {p}
             /\ \/ Added(old[p], new[p], old)
                \/ UNCHANGED of /\ (Taken(old[p], new[p]) \/ Cut(old[p], new[p]))
    \/ \E d \in Doc :
          Renewed(d) /\ \A p \in Changed : Replaced(d, old[p], new[p])

Spec == Init /\ [][Next]_<<list, of>>
=============================================================================
