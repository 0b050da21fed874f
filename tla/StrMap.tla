------------------------------- MODULE StrMap -------------------------------
(***************************************************************************)
(* String maps, struct ndm_strmap_t: a pointer vector of entries that are  *)
(* allocated one by one.  Every allocation may fail; an assignment copies  *)
(* entry by entry and gives the copies back when one fails.                *)
(*                                                                         *)
(* Once a vector has more items than its block holds, the program has      *)
(* written past the block, or lost it: the model stops there.              *)
(***************************************************************************)
EXTENDS PtrVec

CONSTANTS
    Map,      \* the maps of the program
    Key,
    Value,
    Folded,   \* for each key, its spelling without case
    Size,     \* for each value, its length
    Addr      \* addresses of entries, natural numbers

ASSUME EntriesAssumption ==
    /\ Folded \in [Key -> Key] /\ Size \in [Value -> Nat]
    /\ Addr \subseteq Nat

\* A spelling without case has no case to lose.
ASSUME FoldingAssumption == \A k \in Key : Folded[Folded[k]] = Folded[k]

VARIABLES
    vec,     \* for each map, vec_
    flags,   \* for each map, NDM_STRMAP_FLAGS_CASE_INSENSITIVE
    heap,    \* the entries allocated, by address
    done     \* what the last call returned

mapVars == <<vec, flags, heap, done>>

Entry == [key : Key, value : Value]

Items(m) == vec[m].items

\* What keys of m are compared by.
ClassOf(m, k) == IF flags[m] THEN Folded[k] ELSE k

\* The test of ndm_strmap_nfind().
Matches(m, a, k) == ClassOf(m, heap[a].key) = ClassOf(m, k)

\* The entry of m that ndm_strmap_nfind() returns, if any.
Found(m, k) == SelectInSeq(Items(m), LAMBDA a : Matches(m, a, k))

\* The addresses of the next n entries: the least ones that are free.  Which
\* they are does not matter, as they are compared and nothing else.
Fresh(n) ==
    LET free == Addr \ DOMAIN heap
        least == [i \in 1 .. n |->
                     CHOOSE a \in free : Cardinality({b \in free : b < a}) = i - 1]
    IN {new \in {least} : new \in [1 .. n -> free] /\ IsInjective(new)}

\* h with a new entry.
With(h, a, k, x) ==
    [b \in DOMAIN h \cup {a} |->
        IF b = a THEN [key |-> k, value |-> x] ELSE h[b]]

Freed(h, addrs) == Restrict(h, DOMAIN h \ addrs)

\* h with copies of the entries at src, the i-th at dst[i], for i up to n.
Copied(h, dst, src, n) ==
    [a \in DOMAIN h \cup {dst[i] : i \in 1 .. n} |->
        IF a \in DOMAIN h THEN h[a]
        ELSE h[src[CHOOSE i \in 1 .. n : dst[i] = a]]]

-----------------------------------------------------------------------------
MapInit ==
    /\ vec = [m \in Map |-> EmptyVector]
    /\ flags \in [Map -> BOOLEAN]
    /\ heap = << >>
    /\ done = TRUE

Refuse == done' = FALSE /\ UNCHANGED <<vec, flags, heap>>

\* ndm_strmap_nset(), the key being there: its spelling stays.
Update(m, k, x) ==
    LET a == Items(m)[Found(m, k)] IN
    /\ Found(m, k) # 0
    /\ \/ /\ heap' = [heap EXCEPT ![a].value = x]
          /\ done' = TRUE
          /\ UNCHANGED <<vec, flags>>
       \/ Size[heap[a].value] # Size[x] /\ Refuse

\* ndm_strmap_nset(), a new key.  An entry that has no place in the vector is
\* freed again.
AddEntry(m, k, x) ==
    /\ Found(m, k) = 0
    /\ \/ Refuse
       \/ \E new \in Fresh(1) : \E r \in PushBack(vec[m], new[1]) :
             /\ vec' = [vec EXCEPT ![m] = r.vec]
             /\ heap' = IF r.done THEN With(heap, new[1], k, x)
                        ELSE Freed(With(heap, new[1], k, x), {new[1]})
             /\ done' = r.done
             /\ UNCHANGED flags

NSet(m, k, x) == Update(m, k, x) \/ AddEntry(m, k, x)

\* ndm_strmap_nremove(), ndm_strmap_remove_by_index()
NRemove(m, k) ==
    LET i == Found(m, k) IN
    IF i = 0 THEN Refuse
    ELSE /\ \E v \in RemoveItem(vec[m], i) : vec' = [vec EXCEPT ![m] = v]
         /\ heap' = Freed(heap, {Items(m)[i]})
         /\ done' = TRUE
         /\ UNCHANGED flags

Clear(m) ==
    /\ vec' = [vec EXCEPT ![m] = EmptyVector]
    /\ heap' = Freed(heap, ToSet(Items(m)))
    /\ done' = TRUE
    /\ UNCHANGED flags

\* Mutant of Undone: one entry more is freed, the source's own.
UndoneOneMore(v, n) == ToSet(SubSeq(v, 1, n + 1))

\* What is freed of v when the copy of its item n + 1 fails.
Undone(v, n) == ToSet(SubSeq(v, 1, n))

\* Mutant of Taken: dst keeps its own flags.
TakenWithoutFlags(d, s) == flags

\* dst->flags_ = src->flags_
Taken(d, s) == [flags EXCEPT ![d] = flags[s]]

\* ndm_strmap_assign() of another map.  v starts as a copy of the vector and
\* gets its own entries one by one.
AssignCopies(d, s) ==
    LET src == Items(s)
        n == Len(src)
        v(new, k) == SubSeq(new, 1, k) \o SubSeq(src, k + 1, n)
    IN
    \/ Refuse
    \/ \E r \in Assigned(EmptyVector, vec[s]), new \in Fresh(n) :
          /\ r.done
          /\ \/ \E k \in 0 .. n - 1 :
                   /\ heap' = Freed(Copied(heap, new, src, k),
                                    Undone(v(new, k), k))
                   /\ done' = FALSE
                   /\ UNCHANGED <<vec, flags>>
             \/ /\ heap' = Freed(Copied(heap, new, src, n), ToSet(Items(d)))
                /\ vec' = [vec EXCEPT ![d] = [r.vec EXCEPT !.items = v(new, n)]]
                /\ flags' = Taken(d, s)
                /\ done' = TRUE

Assign(d, s) ==
    \/ d = s /\ done' = TRUE /\ UNCHANGED <<vec, flags, heap>>
    \/ d # s /\ AssignCopies(d, s)

Swap(l, r) ==
    /\ vec' = [vec EXCEPT ![l] = vec[r], ![r] = vec[l]]
    /\ flags' = [flags EXCEPT ![l] = flags[r], ![r] = flags[l]]
    /\ done' = TRUE
    /\ UNCHANGED heap

Usable == \A m \in Map : Fits(vec[m])

MapNext ==
    /\ Usable
    /\ \/ \E m \in Map, k \in Key :
             NRemove(m, k) \/ \E x \in Value : NSet(m, k, x)
       \/ \E m \in Map : Clear(m)
       \/ \E l, r \in Map : Assign(l, r) \/ Swap(l, r)

MapSpec == MapInit /\ [][MapNext]_mapVars

-----------------------------------------------------------------------------
\* The variables keep their types.
MapTypeOK ==
    /\ vec \in [Map -> Vector(Addr)]
    /\ flags \in [Map -> BOOLEAN]
    /\ DOMAIN heap \subseteq Addr
    /\ \A a \in DOMAIN heap : heap[a] \in Entry
    /\ done \in BOOLEAN

\* As long as the vectors can be used, every entry allocated is in one place of
\* one map, and every place of a map has an entry: whatever fails, nothing is
\* leaked, freed twice or used after.
EntriesAreOwned ==
    Usable =>
       /\ DOMAIN heap = UNION {ToSet(Items(m)) : m \in Map}
       /\ \A l, r \in Map : \A i \in DOMAIN Items(l), j \in DOMAIN Items(r) :
             Items(l)[i] = Items(r)[j] => l = r /\ i = j

\* Every vector's room follows from its size.
BlockFollowsSize == \A m \in Map : FollowsSize(vec[m])

\* Items leave their block in two ways only: one is added to a map that was
\* assigned from an empty one, whose block has room for none, or a realloc()
\* that was to shrink the block fails.
OverrunsAreKnown ==
    [][\A m \in Map : ~Fits(vec'[m]) =>
          \/ Hollow(vec[m]) /\ Len(vec'[m].items) = 1
          \/ vec'[m].block = Null]_mapVars

\* The function a map stands for.
Contents(m) ==
    [c \in {ClassOf(m, heap[a].key) : a \in ToSet(Items(m))} |->
        heap[Items(m)[Found(m, c)]].value]

Promise == INSTANCE StringMaps
    WITH contents <- [m \in Map |-> Contents(m)], Class <- Key

\* The maps keep the promise of StringMaps as long as their vectors can be used:
\* no key is there twice, a call that fails leaves every map as it was.
PromiseKept == Promise!Init /\ [][Usable' => Promise!Next]_mapVars
=============================================================================
