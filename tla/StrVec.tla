------------------------------- MODULE StrVec -------------------------------
(***************************************************************************)
(* The string vector, struct ndm_strvec_t: copies of strings, in an array  *)
(* that is reallocated with every insertion and every removal.  An empty   *)
(* vector is told by its size, and may have an array nevertheless.         *)
(***************************************************************************)
EXTENDS Integers, SequencesExt, Functions

CONSTANTS
    Vec,      \* the vectors of the program
    Text,     \* strings, in the order of strcmp()
    Duplicate \* addresses of copies

VARIABLES
    copies,   \* the copies that are allocated, and what they say
    items,    \* for each vector, the copies in __data
    array,    \* whether __data is allocated
    vecDone,  \* what the last call returned
    vecFault  \* what went wrong for good

vecVars == <<copies, items, array, vecDone, vecFault>>

VecInit ==
    /\ copies = << >> /\ items = [v \in Vec |-> << >>]
    /\ array = [v \in Vec |-> FALSE] /\ vecDone = TRUE /\ vecFault = "none"

\* The next n copies.  Which of those that are free they are does not matter, as
\* copies are never compared.
Unused(n) == Injection(1 .. n, Duplicate \ DOMAIN copies)
AreFree(n) == Unused(n) # {}
NewCopies(n) == CHOOSE cs \in Unused(n) : TRUE

Texts(v) == [k \in DOMAIN items[v] |-> copies[items[v][k]]]

\* h with copies of texts at cs, and h without those that are gone.
WithCopies(h, cs, texts) ==
    [c \in DOMAIN h \cup ToSet(cs) |-> IF c \in DOMAIN h THEN h[c] ELSE texts[CHOOSE k \in DOMAIN cs : cs[k] = c]]
Without(h, gone) == [c \in DOMAIN h \ gone |-> h[c]]

\* v holds cs from now on, and has an array or not.
Holds(v, h, cs, has) ==
    /\ copies' = h /\ items' = [items EXCEPT ![v] = cs] /\ array' = [array EXCEPT ![v] = has]

Returns(d) == vecDone' = d /\ vecFault' = "none"

\* What follows is undefined, or lost for good, and is not followed further.
Broken(why) == vecFault' = why /\ vecDone' = FALSE /\ UNCHANGED <<copies, items, array>>

Failed == Returns(FALSE) /\ UNCHANGED <<copies, items, array>>

-----------------------------------------------------------------------------
\* ndm_strvec_insert_at(): the copy is freed when there is no array for it.
InsertText(v, i, s) ==
    \/ Failed
    \/ LET c == NewCopies(1)[1] IN
       /\ AreFree(1)
       /\ Holds(v, WithCopies(copies, <<c>>, <<s>>), InsertAt(items[v], i, c), TRUE)
       /\ Returns(TRUE)

\* ndm_strvec_remove_at(): realloc() that fails to shrink the array loses it.
RemoveText(v, i) ==
    LET rest == RemoveAt(items[v], i) IN
    \/ Holds(v, Without(copies, {items[v][i]}), rest, rest # << >>) /\ Returns(TRUE)
    \/ rest # << >> /\ Broken("not shrunk")

\* ndm_strvec_truncate(), ndm_strvec_clear()
KeptCopies(v, n) == SubSeq(items[v], 1, n)
Dropped(v, n) == {items[v][k] : k \in n + 1 .. Len(items[v])}
HasArray(v, n) == IF n < Len(items[v]) THEN n > 0 ELSE array[v]

\* Taking the copies behind the n-th away shrinks the array several times.
MayNotShrink(v, n) == n < Len(items[v]) /\ Len(items[v]) > 1

Truncate(v, n) ==
    \/ Holds(v, Without(copies, Dropped(v, n)), KeptCopies(v, n), HasArray(v, n)) /\ Returns(TRUE)
    \/ MayNotShrink(v, n) /\ Broken("not shrunk")

\* All of r's strings are copied, or there is no array, or a copy fails and those
\* before it are taken away again; if it is the first, the array stays.
AssignFrom(v, r, h) ==
    LET cs == NewCopies(Len(items[r])) IN
    \/ Holds(v, WithCopies(h, cs, Texts(r)), cs, TRUE) /\ Returns(TRUE)
    \/ \E has \in BOOLEAN : Holds(v, h, << >>, has) /\ Returns(FALSE)
    \/ Len(items[r]) > 2 /\ Broken("not shrunk")

\* ndm_strvec_assign() clears v first, which is r perhaps and is then empty, and
\* gives it a new array whether it still has one or not.
AssignVec(v, r) ==
    \/ v = r /\ Truncate(v, 0)
    \/ v # r /\ MayNotShrink(v, 0) /\ Broken("not shrunk")
    \/ v # r /\ items[r] = << >> /\ Truncate(v, 0)
    \/ /\ v # r /\ items[r] # << >> /\ AreFree(Len(items[r]))
       /\ IF HasArray(v, 0) THEN Broken("array lost")
          ELSE AssignFrom(v, r, Without(copies, Dropped(v, 0)))

\* Mutant of AppendTo: what was appended before a failure stays.
AppendToPartly(v, h, base, has, texts) ==
    LET cs == NewCopies(Len(texts)) IN
    \E n \in DOMAIN texts : /\ Holds(v, WithCopies(h, SubSeq(cs, 1, n), texts), base \o SubSeq(cs, 1, n), TRUE)
                            /\ Returns(n = Len(texts))

\* __ndm_strvec_append_array() to a vector of the copies base: v is cleared when
\* one of the texts cannot be appended.
AppendTo(v, h, base, has, texts) ==
    \/ LET cs == NewCopies(Len(texts)) IN
       /\ Holds(v, WithCopies(h, cs, texts), base \o cs, has \/ texts # << >>)
       /\ Returns(TRUE)
    \/ /\ texts # << >> /\ Returns(FALSE)
       /\ \E a \in {has, FALSE} :
             /\ a # has => base # << >> \/ Len(texts) > 1
             /\ a => base = << >>
             /\ Holds(v, Without(h, ToSet(base)), << >>, a)
    \/ texts # << >> /\ Len(base \o texts) > 2 /\ Broken("not shrunk")

\* ndm_strvec_append(): the array of a vector appended to itself is reallocated
\* while it is being read.
AppendVec(v, r) ==
    IF v = r /\ items[v] # << >> THEN Broken("appended to itself")
    ELSE /\ AreFree(Len(items[r]))
         /\ AppendTo(v, copies, items[v], array[v], Texts(r))

\* ndm_strvec_assign_array() of texts kept elsewhere
AssignArray(v, texts) ==
    \/ MayNotShrink(v, 0) /\ Broken("not shrunk")
    \/ /\ AreFree(Len(texts))
       /\ AppendTo(v, Without(copies, Dropped(v, 0)), << >>, HasArray(v, 0), texts)

\* ndm_strvec_swap()
SwapWith(v, r) ==
    /\ items' = [items EXCEPT ![v] = items[r], ![r] = items[v]]
    /\ array' = [array EXCEPT ![v] = array[r], ![r] = array[v]]
    /\ UNCHANGED copies /\ Returns(TRUE)

\* ndm_strvec_sort_ascending(), ndm_strvec_sort_descending(): strings that are
\* equal may change places.
Sort(v, up) ==
    \E p \in Injection(DOMAIN items[v], DOMAIN items[v]) :
       LET cs == [k \in DOMAIN items[v] |-> items[v][p[k]]] IN
       /\ \A k, l \in DOMAIN cs :
             k < l => IF up THEN copies[cs[k]] <= copies[cs[l]] ELSE copies[cs[k]] >= copies[cs[l]]
       /\ Holds(v, copies, cs, array[v]) /\ Returns(TRUE)

\* ndm_strvec_is_equal()
IsEqual(v, r) ==
    /\ Returns(/\ Len(items[v]) = Len(items[r])
               /\ \A k \in DOMAIN items[v] : copies[items[v][k]] = copies[items[r][k]])
    /\ UNCHANGED <<copies, items, array>>

\* ndm_strvec_find(), compared to the size by the caller
Search(v, s) ==
    /\ Returns(\E k \in DOMAIN items[v] : copies[items[v][k]] = s)
    /\ UNCHANGED <<copies, items, array>>

VecNext ==
    /\ vecFault = "none"
    /\ \E v \in Vec :
          \/ \E i \in 1 .. Len(items[v]) + 1, s \in Text : InsertText(v, i, s)
          \/ \E i \in DOMAIN items[v] : RemoveText(v, i)
          \/ \E n \in 0 .. Len(items[v]) : Truncate(v, n)
          \/ \E s, t \in Text : AssignArray(v, <<s, t>>) \/ Search(v, s)
          \/ \E up \in BOOLEAN : Sort(v, up)
          \/ \E r \in Vec : AssignVec(v, r) \/ AppendVec(v, r) \/ IsEqual(v, r) \/ SwapWith(v, r)

VecSpec == VecInit /\ [][VecNext]_vecVars

-----------------------------------------------------------------------------
\* Every copy is held by one vector, once, whichever call failed part of the
\* way: none leaks, and none is freed twice.
CopiesAreHeld ==
    vecFault = "none" =>
       /\ DOMAIN copies = UNION {ToSet(items[v]) : v \in Vec}
       /\ \A v, w \in Vec : \A k \in DOMAIN items[v], l \in DOMAIN items[w] :
             items[v][k] = items[w][l] => v = w /\ k = l

\* The vectors are lists of strings: a call does what it is for, or leaves the
\* vector as it was, or empty if that is what the call does when it fails; and
\* none leaks or shares a copy.
ListsOf == INSTANCE StringLists
    WITH contents <- [v \in Vec |-> Texts(v)], done <- vecDone
ListsAreKept ==
    /\ ListsOf!Init /\ [][ListsOf!Next \/ vecFault' # "none"]_vecVars
    /\ []CopiesAreHeld
=============================================================================
