------------------------------- MODULE PtrVec -------------------------------
(***************************************************************************)
(* The pointer vector, struct ndm_ptrvec_t.  It keeps its size and no      *)
(* capacity: what was allocated is inferred from the size, in blocks, and  *)
(* from data_ being NULL or not.  A vector of the model is its items and   *)
(* the room the allocator gave them, which the code never looks at.        *)
(*                                                                         *)
(* An operation that allocates has two results, so operations are sets of  *)
(* results.                                                                *)
(***************************************************************************)
EXTENDS Integers, SequencesExt

CONSTANT Block    \* NDM_PTRVEC_BLOCK_SIZE_

ASSUME BlockAssumption == Block \in Nat \ {0}

Null == -1

Vector(Item) == [items : Seq(Item), block : {Null} \cup Nat]

EmptyVector == [items |-> << >>, block |-> Null]

\* The items lie within what was allocated for them.
Fits(v) == v.items = << >> \/ Len(v.items) <= v.block

\* An empty vector with a block for no item at all.
Hollow(v) == v.items = << >> /\ v.block = 0

\* The room follows from the size, which is all that ndm_ptrvec_insert() has to
\* go by: whole blocks, and no more of them than the items take.
FollowsSize(v) ==
    Fits(v) =>
       IF v.items = << >> THEN v.block \in {Null, 0, Block}
       ELSE v.block % Block = 0 /\ v.block < Len(v.items) + Block

Result(done, v) == [done |-> done, vec |-> v]

\* do_realloc
MustGrow(v) ==
    IF v.items # << >> THEN Len(v.items) % Block = 0
                       ELSE v.block = Null

\* Mutant of Grown: the block has room for one item less.
GrownByLess(v) == IF MustGrow(v) THEN Len(v.items) + Block - 1 ELSE v.block

\* The room after room for one more was asked for.
Grown(v) == IF MustGrow(v) THEN Len(v.items) + Block ELSE v.block

\* ndm_ptrvec_insert(), before the i-th item.
Insert(v, i, p) ==
    {Result(TRUE, [items |-> InsertAt(v.items, i, p), block |-> Grown(v)])}
    \cup IF MustGrow(v) THEN {Result(FALSE, v)} ELSE {}

\* ndm_ptrvec_push_back()
PushBack(v, p) == Insert(v, Len(v.items) + 1, p)

\* ndm_ptrvec_remove(): a realloc() that fails to shrink the block replaces it
\* all the same.
RemoveItem(v, i) ==
    LET rest == RemoveAt(v.items, i) IN
    IF rest # << >> /\ Len(rest) % Block = 0
    THEN {[items |-> rest, block |-> b] : b \in {Len(rest), Null}}
    ELSE {[items |-> rest, block |-> v.block]}

RoundUp(n) == ((n + Block - 1) \div Block) * Block

\* ndm_ptrvec_assign(), dst another vector than src.
Assigned(dst, src) ==
    {Result(FALSE, dst),
     Result(TRUE, [items |-> src.items, block |-> RoundUp(Len(src.items))])}
=============================================================================
