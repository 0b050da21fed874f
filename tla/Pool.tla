-------------------------------- MODULE Pool --------------------------------
(***************************************************************************)
(* Memory given out in order from a block, the caller's first and then     *)
(* blocks of the pool's own, and taken back all at once.  What is given    *)
(* next is found from the end of the block in use and from the number of   *)
(* bytes left in it, and that end is computed from the size blocks usually *)
(* have.                                                                   *)
(***************************************************************************)
EXTENDS Integers, Sequences

CONSTANTS
    Modulus,        \* values of a size_t
    Ptr,            \* sizeof(void *), and of the header of a block
    StaticSize,     \* static_block_size
    DynamicSize,    \* dynamic_block_size
    Request         \* sizes and counts that are asked for

ASSUME PoolAssumption ==
    /\ Modulus \in Nat /\ Ptr \in Nat \ {0}
    /\ StaticSize \in 0 .. Modulus - 1 /\ DynamicSize \in 0 .. Modulus - 1
    /\ Request \subseteq 0 .. Modulus - 1

VARIABLES
    blocks,         \* sizes of the pool's own blocks, in the order of their allocation
    available,      \* __available
    is_valid,       \* __is_valid
    given,          \* what has been given out, in that order
    total_allocated, total_dynamic_size

poolVars == <<blocks, available, is_valid, given, total_allocated, total_dynamic_size>>

\* NDM_POOL_ALIGN_()
Align(size) == LET top == (size + Ptr - 1) % Modulus IN top - (top % Ptr)

PoolInit ==
    /\ blocks = << >> /\ given = << >>
    /\ available = StaticSize /\ is_valid = TRUE
    /\ total_allocated = 0 /\ total_dynamic_size = 0

\* Where the block in use is taken to end, from its beginning.
BlockEnd == IF blocks = << >> THEN StaticSize ELSE DynamicSize

\* The bytes that size bytes were asked for and len were meant; block 0 is the
\* caller's.
Given(block, from, len, size) ==
    given' = Append(given, [block |-> block, from |-> from, len |-> len, size |-> size])

FromBlock(len, size) ==
    /\ is_valid /\ available >= Align(size)
    /\ Given(Len(blocks), BlockEnd - available, len, size)
    /\ available' = available - Align(size)
    /\ total_allocated' = (total_allocated + size) % Modulus
    /\ UNCHANGED <<blocks, is_valid, total_dynamic_size>>

Need(size) == (Ptr + Align(size)) % Modulus

\* Mutant of AllocSize: the header is not counted when it decides.
AllocSizeBare(size) == IF Align(size) <= DynamicSize THEN DynamicSize ELSE Need(size)

AllocSize(size) == IF Need(size) < DynamicSize THEN DynamicSize ELSE Need(size)

FromNewBlock(len, size) ==
    /\ is_valid /\ available < Align(size)
    /\ \/ /\ is_valid' = FALSE
          /\ UNCHANGED <<blocks, available, given, total_allocated, total_dynamic_size>>
       \/ /\ blocks' = Append(blocks, AllocSize(size))
          /\ Given(Len(blocks) + 1, Ptr, len, size)
          /\ available' = AllocSize(size) - Need(size)
          /\ total_allocated' = (total_allocated + size) % Modulus
          /\ total_dynamic_size' = (total_dynamic_size + AllocSize(size)) % Modulus
          /\ UNCHANGED is_valid

NotFromInvalid == ~is_valid /\ UNCHANGED poolVars

\* ndm_pool_malloc()
Malloc(len, size) ==
    FromBlock(len, size) \/ FromNewBlock(len, size) \/ NotFromInvalid

\* ndm_pool_calloc() of elements
Calloc(nmemb, size) == Malloc(nmemb * size, (nmemb * size) % Modulus)

\* ndm_pool_strdup(), ndm_pool_strndup() of so many characters
Strdup(n) == Malloc(n + 1, n + 1)

\* ndm_pool_clear()
PoolClear ==
    /\ blocks' = << >> /\ given' = << >>
    /\ available' = StaticSize /\ is_valid' = TRUE
    /\ total_allocated' = 0 /\ total_dynamic_size' = 0

PoolNext ==
    \/ PoolClear
    \/ \E size \in Request : Malloc(size, size) \/ \E n \in Request : Calloc(n, size)
    \/ \E n \in Request : n + 1 < Modulus /\ Strdup(n)

PoolSpec == PoolInit /\ [][PoolNext]_poolVars

-----------------------------------------------------------------------------
\* What was asked for is what was meant, and rounding it up, with a header in
\* front, stays within a size_t.
Honest(a) == a.len = a.size /\ a.size + 2 * Ptr <= Modulus

BlockSize(b) == IF b = 0 THEN StaticSize ELSE blocks[b]

Disjoint(a, b) ==
    \/ a.block # b.block \/ a.len = 0 \/ b.len = 0
    \/ a.from + a.len <= b.from \/ b.from + b.len <= a.from

\* Whatever is given out, from blocks of the usual size and from larger ones,
\* lies in its block behind the block's header and shares no byte with anything
\* given out before, as long as no size has wrapped round.
AllocationsAreApart ==
    (\A i \in DOMAIN given : Honest(given[i])) =>
        \A i \in DOMAIN given :
            /\ given[i].block \in 0 .. Len(blocks)
            /\ given[i].from + given[i].len \in 0 .. BlockSize(given[i].block)
            /\ given[i].len > 0 => given[i].from >= (IF given[i].block = 0 THEN 0 ELSE Ptr)
            /\ \A j \in 1 .. i - 1 : Disjoint(given[i], given[j])
=============================================================================
