----------------------------- MODULE DataProofs -----------------------------
(***************************************************************************)
(* Proofs about the containers that programs use by themselves.            *)
(*                                                                         *)
(* The string maps: their types, the room of their vectors, who owns the   *)
(* entries, the only ways out of a block, and that a map is the function   *)
(* it stands for.                                                          *)
(*                                                                         *)
(* The pools: what a pool gives out lies apart, for blocks of any size and *)
(* for any sequence of requests.  The invariant says where the next bytes  *)
(* come from: when there are any, the block in use has the size its end is *)
(* computed from, and nothing given from it reaches beyond its free part.  *)
(*                                                                         *)
(* The string vectors: every copy of a string is held once, whichever call *)
(* fails, and a vector is the list it stands for.                          *)
(*                                                                         *)
(* The string accumulators: what was printed is what is read, for any      *)
(* texts.  The bytes hold it, and the byte behind them is a null unless    *)
(* the last of what was printed is one.                                    *)
(*                                                                         *)
(* Times are exact: quotients and remainders towards zero.                 *)
(*                                                                         *)
(* The TLV tables: an image is entries that fill it, each tag once, and a  *)
(* table is the map it stands for.  Of the walk over an image it matters   *)
(* only that it visits the least set which entries do not lead out of.     *)
(***************************************************************************)
EXTENDS StrMap, Pool, StrVec, StrAcc, Time, TlvTable, FiniteSetTheorems, WellFoundedInduction, TLAPS

-----------------------------------------------------------------------------
(* Whole blocks. *)

\* Division with a remainder: it exists, and is the only one.
LEMMA Division ==
    ASSUME NEW n \in Nat, NEW b \in Nat \ {0}
    PROVE  /\ n = b * (n \div b) + (n % b)
           /\ n \div b \in Nat
           /\ n % b \in 0 .. b - 1
  BY SMTT(30)

\* A quotient and a remainder that give the number are its quotient and remainder.
LEMMA DivisionIsUnique ==
    ASSUME NEW n \in Nat, NEW b \in Nat \ {0}, NEW q \in Int,
           NEW r \in 0 .. b - 1, n = b * q + r
    PROVE  r = n % b
  BY SMTT(30)

\* One block more leaves the same remainder.
LEMMA OneBlockMore ==
    ASSUME NEW n \in Nat, NEW b \in Nat \ {0}
    PROVE  (n + b) % b = n % b
<1> DEFINE q == n \div b
           r == n % b
<1>1. n = b * q + r /\ q \in Nat /\ r \in 0 .. b - 1
  BY Division
<1>2. n + b = b * (q + 1) + r
  BY <1>1
<1>3. q + 1 \in Int /\ n + b \in Nat
  BY <1>1
<1> HIDE DEF q, r
<1>4. r = (n + b) % b
  BY <1>1, <1>2, <1>3, DivisionIsUnique
<1> QED
  BY <1>4 DEF r

\* Whole blocks leave no remainder.
LEMMA NoRemainder ==
    ASSUME NEW q \in Nat, NEW b \in Nat \ {0}
    PROVE  (q * b) % b = 0
<1>1. q * b = b * q + 0 /\ q * b \in Nat
  OBVIOUS
<1> QED
  BY <1>1, DivisionIsUnique

\* RoundUp() gives whole blocks, and just enough of them.
LEMMA RoundUpFits ==
    ASSUME NEW n \in Nat
    PROVE  /\ RoundUp(n) \in Nat
           /\ RoundUp(n) % Block = 0
           /\ n <= RoundUp(n)
           /\ RoundUp(n) < n + Block
           /\ n = 0 => RoundUp(n) = 0
<1> DEFINE q == (n + Block - 1) \div Block
           r == (n + Block - 1) % Block
<1>1. n + Block - 1 \in Nat /\ Block \in Nat \ {0}
  BY BlockAssumption
<1>2. n + Block - 1 = Block * q + r /\ q \in Nat /\ r \in 0 .. Block - 1
  BY <1>1, Division
<1>3. RoundUp(n) = q * Block
  BY DEF RoundUp
<1> HIDE DEF q, r
<1>4. q * Block \in Nat /\ q * Block = Block * q
  BY <1>1, <1>2
<1>5. (q * Block) % Block = 0
  BY <1>1, <1>2, NoRemainder
<1>6. n <= q * Block /\ q * Block < n + Block
  BY <1>1, <1>2, <1>4
<1>7. ASSUME n = 0 PROVE q * Block = 0
  <2>1. Block * q < Block
    BY <1>6, <1>4, <1>7, <1>1
  <2>2. q < 1
    BY <2>1, <1>1, <1>2, SMTT(30)
  <2> QED
    BY <2>2, <1>2, <1>1
<1> QED
  BY <1>3, <1>4, <1>5, <1>6, <1>7

-----------------------------------------------------------------------------
(* The room of a vector of n items, as FollowsSize() and Fits() have it. *)

RoomFor(n, b) ==
    IF n = 0 THEN b \in {Null, 0, Block}
    ELSE b \in Nat /\ n <= b /\ b % Block = 0 /\ b < n + Block

\* One item more: MustGrow() tells exactly when the block is full, but for a
\* block that has no room at all.
LEMMA RoomForOneMore ==
    ASSUME NEW n \in Nat, NEW b, RoomFor(n, b), ~(n = 0 /\ b = 0),
           NEW grow, grow <=> IF n # 0 THEN n % Block = 0 ELSE b = Null
    PROVE  RoomFor(n + 1, IF grow THEN n + Block ELSE b)
<1>1. Block \in Nat \ {0} /\ Null = -1
  BY BlockAssumption DEF Null
<1>2. CASE n = 0
  <2>1. (0 + Block) % Block = 0 % Block /\ 0 % Block = 0
    BY OneBlockMore, <1>1, SMTT(30)
  <2>2. n + Block = Block /\ 0 + Block = Block
    BY <1>1, <1>2
  <2>3. Block % Block = 0
    BY <2>1, <2>2
  <2>4. (IF grow THEN n + Block ELSE b) = Block
    BY <1>1, <1>2, <2>2 DEF RoomFor
  <2>5. RoomFor(1, Block)
    BY <1>1, <2>3 DEF RoomFor
  <2> QED
    BY <1>2, <2>4, <2>5
<1>3. CASE n # 0 /\ grow
  <2>1. n % Block = 0
    BY <1>3
  <2>2. (n + Block) % Block = 0
    BY <1>1, <2>1, OneBlockMore, Zenon
  <2>3. /\ n + 1 # 0 /\ n + Block \in Nat
        /\ n + 1 <= n + Block /\ n + Block < n + 1 + Block
    BY <1>1
  <2>4. RoomFor(n + 1, n + Block)
    BY <2>2, <2>3, Zenon DEF RoomFor
  <2> QED
    BY <1>3, <2>4
<1>4. CASE n # 0 /\ ~grow
  <2>1. b \in Nat /\ n <= b /\ b % Block = 0 /\ b < n + Block
    BY <1>4 DEF RoomFor
  <2>2. b # n
    BY <1>4, <2>1
  <2> QED
    BY <1>1, <1>4, <2>1, <2>2 DEF RoomFor
<1> QED
  BY <1>2, <1>3, <1>4

\* One item less
LEMMA RoomForOneLess ==
    ASSUME NEW n \in Nat \ {0}, NEW b, RoomFor(n, b)
    PROVE  IF n - 1 # 0 /\ (n - 1) % Block = 0
           THEN RoomFor(n - 1, n - 1) ELSE RoomFor(n - 1, b)
<1>1. Block \in Nat \ {0} /\ n - 1 \in Nat
  BY BlockAssumption
<1>2. b \in Nat /\ n <= b /\ b % Block = 0 /\ b < n + Block
  BY DEF RoomFor
<1>3. CASE n = 1
  <2>1. b # Block => b \in 0 .. Block - 1 /\ b = Block * 0 + b
    BY <1>1, <1>2, <1>3
  <2>2. b # Block => b = b % Block
    BY <1>1, <1>2, <2>1, DivisionIsUnique, 0 \in Int, Zenon
  <2>3. b = Block
    BY <1>2, <1>3, <2>2
  <2> QED
    BY <1>3, <2>3 DEF RoomFor
<1>4. CASE n # 1 /\ (n - 1) % Block = 0
  BY <1>1, <1>4 DEF RoomFor
<1>5. CASE n # 1 /\ (n - 1) % Block # 0
  <2>1. (n - 1 + Block) % Block = (n - 1) % Block
    BY <1>1, OneBlockMore, Zenon
  <2>2. b # n - 1 + Block
    BY <1>2, <1>5, <2>1
  <2> QED
    BY <1>1, <1>2, <1>5, <2>2 DEF RoomFor
<1> QED
  BY <1>3, <1>4, <1>5

\* What an assignment asks for is what the size says.
LEMMA RoundUpIsRoom ==
    ASSUME NEW n \in Nat
    PROVE  RoomFor(n, RoundUp(n))
  BY RoundUpFits, BlockAssumption DEF RoomFor

-----------------------------------------------------------------------------
(* Sequences. *)

\* ndm_ptrvec_push_back() appends.
LEMMA InsertAtEnd ==
    ASSUME NEW S, NEW s \in Seq(S), NEW p \in S
    PROVE  InsertAt(s, Len(s) + 1, p) = Append(s, p)
<1>1. Len(s) \in Nat /\ Len(s) + 1 - 1 = Len(s)
  OBVIOUS
<1>2. SubSeq(s, 1, Len(s)) = s /\ SubSeq(s, Len(s) + 1, Len(s)) = << >>
  OBVIOUS
<1>3. (s \o <<p>>) \o << >> = Append(s, p)
  OBVIOUS
<1>4. InsertAt(s, Len(s) + 1, p) =
          (SubSeq(s, 1, Len(s) + 1 - 1) \o <<p>>)
             \o SubSeq(s, Len(s) + 1, Len(s))
  BY DEF InsertAt
<1> QED
  BY <1>1, <1>2, <1>3, <1>4, Zenon

\* Only the empty sequence has length 0.
LEMMA EmptyByLength ==
    ASSUME NEW S, NEW s \in Seq(S)
    PROVE  s = << >> <=> Len(s) = 0
  OBVIOUS

\* The items of g in f \o g
LEMMA SecondPart ==
    ASSUME NEW S, NEW f \in Seq(S), NEW g \in Seq(S)
    PROVE  \A i \in Len(f) + 1 .. Len(f) + Len(g) :
              (f \o g)[i] = g[i - Len(f)]
  OBVIOUS

\* ndm_ptrvec_remove() moves the items behind down by one.
LEMMA RemovedAt ==
    ASSUME NEW S, NEW s \in Seq(S), NEW i \in 1 .. Len(s)
    PROVE  LET t == RemoveAt(s, i)
           IN  /\ t \in Seq(S)
               /\ Len(t) = Len(s) - 1
               /\ \A j \in 1 .. i - 1 : t[j] = s[j]
               /\ \A j \in i .. Len(s) - 1 : t[j] = s[j + 1]
<1> DEFINE n == Len(s)
           front == SubSeq(s, 1, i - 1)
           back == SubSeq(s, i + 1, n)
<1>1. n \in Nat /\ i \in Nat \ {0} /\ i <= n
  OBVIOUS
<1>2. /\ front \in Seq(S) /\ Len(front) = i - 1
      /\ \A j \in 1 .. i - 1 : front[j] = s[j]
  OBVIOUS
<1>3. /\ back \in Seq(S) /\ Len(back) = n - i
      /\ \A j \in 1 .. n - i : back[j] = s[i + j]
  OBVIOUS
<1>4. RemoveAt(s, i) = front \o back
  BY DEF RemoveAt
<1> HIDE DEF front, back
<1>5. /\ front \o back \in Seq(S)
      /\ Len(front \o back) = n - 1
      /\ \A j \in 1 .. i - 1 : (front \o back)[j] = front[j]
  BY <1>1, <1>2, <1>3
<1>6. \A j \in i .. n - 1 : (front \o back)[j] = s[j + 1]
  <2> TAKE j \in i .. n - 1
  <2>1. /\ j \in Len(front) + 1 .. Len(front) + Len(back)
        /\ j - Len(front) \in 1 .. n - i /\ i + (j - Len(front)) = j + 1
    BY <1>1, <1>2, <1>3
  <2>2. (front \o back)[j] = back[j - Len(front)]
    BY <2>1, <1>2, <1>3, SecondPart
  <2> QED
    BY <2>1, <2>2, <1>3
<1> QED
  BY <1>1, <1>2, <1>4, <1>5, <1>6

\* A set of numbers that has one has a least one.
LEMMA LeastIsLeast ==
    ASSUME NEW T \in SUBSET Nat, T # {}
    PROVE  Min(T) \in T /\ \A y \in T : Min(T) <= y
<1> DEFINE R == {ss \in Nat \X Nat : ss[1] < ss[2]}
<1>1. R = OpToRel(<, Nat)
  BY DEF OpToRel
<1>2. IsWellFoundedOn(R, Nat)
  BY <1>1, NatLessThanWellFounded
<1>3. PICK x \in T : \A y \in T : ~(<<y, x>> \in R)
  BY <1>2, WFMin, Zenon
<1>4. \A y \in T : x <= y
  <2> TAKE y \in T
  <2>1. x \in Nat /\ y \in Nat /\ <<y, x>> \in Nat \X Nat
    OBVIOUS
  <2>2. <<y, x>> \in R <=> y < x
    BY <2>1
  <2> QED
    BY <1>3, <2>1, <2>2
<1> QED
  BY <1>4 DEF Min

\* A search finds one that matches, or there is none.
LEMMA LeastExists == ASSUME NEW T \in SUBSET Nat, T # {} PROVE Min(T) \in T
  BY LeastIsLeast

\* ndm_strmap_nfind() returns an index of the map or none.
LEMMA FoundIsThere ==
    ASSUME NEW m \in Map, NEW k \in Key, Items(m) \in Seq(Addr)
    PROVE  Found(m, k) \in 0 .. Len(Items(m))
<1> DEFINE I == {i \in 1 .. Len(Items(m)) : Matches(m, Items(m)[i], k)}
<1>1. I \in SUBSET Nat /\ I \subseteq 1 .. Len(Items(m))
  OBVIOUS
<1>2. I # {} => Min(I) \in I
  BY <1>1, LeastExists
<1>3. Found(m, k) = IF I # {} THEN Min(I) ELSE 0
  BY DEF Found, SelectInSeq
<1>4. Len(Items(m)) \in Nat
  OBVIOUS
<1> HIDE DEF I
<1>5. CASE I # {}
  <2>1. Min(I) \in 1 .. Len(Items(m)) /\ Found(m, k) = Min(I)
    BY <1>1, <1>2, <1>3, <1>5
  <2> QED
    BY <1>4, <2>1
<1> QED
  BY <1>3, <1>4, <1>5

-----------------------------------------------------------------------------
(* The operations of the vector. *)

\* A vector of the program whose items, if they fit at all, leave its block as
\* much room as the size says.
Regular(v) == v \in Vector(Addr) /\ FollowsSize(v)

\* The room in numbers
LEMMA RoomOfVector ==
    ASSUME NEW v \in Vector(Addr)
    PROVE  Fits(v) /\ FollowsSize(v) <=> RoomFor(Len(v.items), v.block)
<1>1. /\ v.items \in Seq(Addr) /\ v.block \in {Null} \cup Nat
      /\ Len(v.items) \in Nat /\ Null = -1
  BY DEF Vector, Null
<1>2. v.items = << >> <=> Len(v.items) = 0
  BY <1>1
<1>3. Block \in Nat \ {0}
  BY BlockAssumption
<1> QED
  BY <1>1, <1>2, <1>3 DEF Fits, FollowsSize, RoomFor

\* ndm_ptrvec_init()
LEMMA EmptyIsRegular == Regular(EmptyVector) /\ Fits(EmptyVector)
  BY DEF Regular, EmptyVector, Vector, FollowsSize, Fits

\* ndm_ptrvec_push_back(): only a hollow vector overruns.
LEMMA PushBackIsRegular ==
    ASSUME NEW v, Regular(v), Fits(v), NEW p \in Addr, NEW r \in PushBack(v, p)
    PROVE  /\ r.done \in BOOLEAN
           /\ r.done => /\ r.vec.items = Append(v.items, p)
                        /\ Regular(r.vec)
                        /\ Fits(r.vec) \/ (Hollow(v) /\ Len(r.vec.items) = 1)
           /\ ~r.done => r.vec = v
<1> DEFINE s == v.items
           n == Len(v.items)
           w == [items |-> Append(s, p), block |-> Grown(v)]
<1>1. /\ s \in Seq(Addr) /\ n \in Nat /\ v.block \in {Null} \cup Nat
      /\ Null = -1 /\ Block \in Nat \ {0}
  BY BlockAssumption DEF Regular, Vector, Null
<1>2. RoomFor(n, v.block)
  BY RoomOfVector DEF Regular
<1>3. s = << >> <=> n = 0
  BY <1>1
<1>4. MustGrow(v) <=> IF n # 0 THEN n % Block = 0 ELSE v.block = Null
  BY <1>3 DEF MustGrow
<1>5. Grown(v) = IF MustGrow(v) THEN n + Block ELSE v.block
  BY DEF Grown
<1>6. w \in Vector(Addr) /\ Len(w.items) = n + 1 /\ w.items # << >>
  <2>1. Grown(v) \in {Null} \cup Nat
    BY <1>1, <1>5
  <2>2. /\ Append(s, p) \in Seq(Addr) /\ Len(Append(s, p)) = n + 1
        /\ Append(s, p) # << >>
    BY <1>1
  <2> QED
    BY <2>1, <2>2 DEF Vector
<1>7. /\ Regular(w)
      /\ Fits(w) \/ (Hollow(v) /\ Len(w.items) = 1)
  <2>1. CASE n = 0 /\ v.block = 0
    <3>1. ~MustGrow(v) /\ w.block = 0 /\ Len(w.items) = 1 /\ Hollow(v)
      BY <1>1, <1>3, <1>4, <1>5, <1>6, <2>1 DEF Hollow
    <3>2. ~Fits(w)
      BY <3>1, <1>6 DEF Fits
    <3> QED
      BY <3>1, <3>2, <1>6 DEF Regular, FollowsSize
  <2>2. CASE ~(n = 0 /\ v.block = 0)
    <3> HIDE DEF n
    <3>1. RoomFor(n + 1, IF MustGrow(v) THEN n + Block ELSE v.block)
      BY <1>1, <1>2, <1>4, <2>2, RoomForOneMore
    <3>2. RoomFor(Len(w.items), w.block)
      BY <3>1, <1>5, <1>6
    <3>3. Fits(w) /\ FollowsSize(w)
      BY <3>2, <1>6, RoomOfVector
    <3> QED
      BY <3>3, <1>6 DEF Regular
  <2> QED
    BY <2>1, <2>2
<1>8. r = Result(TRUE, w) \/ r = Result(FALSE, v)
  <2>1. InsertAt(s, n + 1, p) = Append(s, p)
    BY <1>1, InsertAtEnd
  <2> QED
    BY <2>1 DEF PushBack, Insert
<1>9. w.items = Append(s, p)
  OBVIOUS
<1> HIDE DEF w
<1>10. CASE r = Result(TRUE, w)
  BY <1>10, <1>7, <1>9 DEF Result
<1>11. CASE r = Result(FALSE, v)
  BY <1>11 DEF Result
<1> QED
  BY <1>8, <1>10, <1>11

\* ndm_ptrvec_remove(): only a realloc() that fails loses the block.
LEMMA RemoveItemIsRegular ==
    ASSUME NEW v, Regular(v), Fits(v), NEW i \in 1 .. Len(v.items),
           NEW w \in RemoveItem(v, i)
    PROVE  /\ w.items = RemoveAt(v.items, i)
           /\ Regular(w)
           /\ Fits(w) \/ w.block = Null
<1> DEFINE n == Len(v.items)
           t == RemoveAt(v.items, i)
<1>1. /\ v.items \in Seq(Addr) /\ n \in Nat \ {0}
      /\ v.block \in {Null} \cup Nat /\ Null = -1 /\ Block \in Nat \ {0}
  <2>1. v.items \in Seq(Addr) /\ n \in Nat /\ v.block \in {Null} \cup Nat
    BY DEF Regular, Vector
  <2> QED
    BY <2>1, BlockAssumption DEF Null
<1>2. t \in Seq(Addr) /\ Len(t) = n - 1
  BY <1>1, RemovedAt
<1>3. RoomFor(n, v.block)
  BY RoomOfVector DEF Regular
<1>4. w \in IF t # << >> /\ Len(t) % Block = 0
            THEN {[items |-> t, block |-> b] : b \in {Len(t), Null}}
            ELSE {[items |-> t, block |-> v.block]}
  BY DEF RemoveItem
<1> HIDE DEF t
<1> HIDE DEF n
<1>5. t = << >> <=> n - 1 = 0
  <2>1. t = << >> <=> Len(t) = 0
    BY <1>2, EmptyByLength, Zenon
  <2> QED
    BY <2>1, <1>2
<1>6. IF n - 1 # 0 /\ (n - 1) % Block = 0
      THEN RoomFor(n - 1, n - 1) ELSE RoomFor(n - 1, v.block)
  BY <1>1, <1>3, RoomForOneLess, Zenon
<1>7. ASSUME NEW b \in {Null} \cup Nat, w = [items |-> t, block |-> b],
             RoomFor(n - 1, b)
      PROVE  w.items = t /\ Regular(w) /\ Fits(w)
  <2>1. w \in Vector(Addr) /\ w.items = t /\ w.block = b
    BY <1>2, <1>7 DEF Vector
  <2> QED
    BY <2>1, <1>2, <1>7, RoomOfVector DEF Regular
<1>8. CASE n - 1 # 0 /\ (n - 1) % Block = 0
  <2>1. w = [items |-> t, block |-> n - 1] \/ w = [items |-> t, block |-> Null]
    BY <1>2, <1>4, <1>5, <1>8
  <2>2. CASE w = [items |-> t, block |-> n - 1]
    <3>1. n - 1 \in {Null} \cup Nat
      BY <1>1
    <3> QED
      BY <3>1, <2>2, <1>6, <1>7, <1>8 DEF t
  <2>3. CASE w = [items |-> t, block |-> Null]
    <3>1. w \in Vector(Addr) /\ w.items = t /\ w.block = Null
      BY <2>3, <1>2 DEF Vector
    <3>2. ~Fits(w)
      BY <3>1, <1>1, <1>2, <1>5, <1>8 DEF Fits
    <3> QED
      BY <3>1, <3>2 DEF Regular, FollowsSize, t
  <2> QED
    BY <2>1, <2>2, <2>3
<1>9. CASE ~(n - 1 # 0 /\ (n - 1) % Block = 0)
  <2>1. w = [items |-> t, block |-> v.block]
    BY <1>2, <1>4, <1>5, <1>9
  <2> QED
    BY <2>1, <1>1, <1>6, <1>7, <1>9 DEF t
<1> QED
  BY <1>8, <1>9

\* ndm_ptrvec_assign() to an empty vector, with other items of that number
LEMMA AssignedIsRegular ==
    ASSUME NEW v, Regular(v), NEW r \in Assigned(EmptyVector, v), r.done,
           NEW t \in Seq(Addr), Len(t) = Len(v.items)
    PROVE  LET w == [r.vec EXCEPT !.items = t]
           IN  w.items = t /\ Regular(w) /\ Fits(w)
<1> DEFINE n == Len(v.items)
           w == [r.vec EXCEPT !.items = t]
<1>1. w = [items |-> t, block |-> RoundUp(n)]
  BY DEF Assigned, Result
<1>2. n \in Nat /\ RoundUp(n) \in Nat
  BY RoundUpFits DEF Regular, Vector
<1>3. w \in Vector(Addr) /\ w.items = t /\ w.block = RoundUp(n)
  BY <1>1, <1>2 DEF Vector
<1>4. RoomFor(Len(w.items), w.block)
  BY <1>2, <1>3, RoundUpIsRoom
<1> HIDE DEF w
<1>5. Fits(w) /\ FollowsSize(w)
  BY <1>3, <1>4, RoomOfVector
<1> QED
  BY <1>3, <1>5 DEF Regular, w

-----------------------------------------------------------------------------
(* The invariant. *)

\* Who owns the entries, whatever the vectors are
Owned ==
    /\ DOMAIN heap = UNION {ToSet(Items(m)) : m \in Map}
    /\ \A l, r \in Map : \A i \in DOMAIN Items(l), j \in DOMAIN Items(r) :
          Items(l)[i] = Items(r)[j] => l = r /\ i = j

MapInv == MapTypeOK /\ BlockFollowsSize /\ EntriesAreOwned

\* What every step keeps: types, room, and the only ways out of a block
Kept ==
    /\ MapTypeOK' /\ BlockFollowsSize'
    /\ \A m \in Map : ~Fits(vec'[m]) =>
          \/ Hollow(vec[m]) /\ Len(vec'[m].items) = 1
          \/ vec'[m].block = Null

\* Where every step starts
Ready == MapTypeOK /\ BlockFollowsSize /\ Usable /\ Owned

\* What a step may rely on of each map
LEMMA ReadyFacts ==
    ASSUME Ready
    PROVE  /\ vec \in [Map -> Vector(Addr)]
           /\ \A m \in Map : /\ Regular(vec[m]) /\ Fits(vec[m])
                             /\ Items(m) \in Seq(Addr)
                             /\ Len(Items(m)) \in Nat
                             /\ DOMAIN Items(m) = 1 .. Len(Items(m))
                             /\ \A i \in 1 .. Len(Items(m)) :
                                   Items(m)[i] \in DOMAIN heap
<1>1. vec \in [Map -> Vector(Addr)]
  BY DEF Ready, MapTypeOK
<1>2. ASSUME NEW m \in Map
      PROVE  /\ Regular(vec[m]) /\ Fits(vec[m])
             /\ Items(m) \in Seq(Addr) /\ Len(Items(m)) \in Nat
             /\ DOMAIN Items(m) = 1 .. Len(Items(m))
  <2>1. vec[m] \in Vector(Addr)
    BY <1>1
  <2>2. Items(m) \in Seq(Addr)
    BY <2>1 DEF Items, Vector
  <2> QED
    BY <2>1, <2>2 DEF Ready, Usable, BlockFollowsSize, Regular
<1>3. ASSUME NEW m \in Map, NEW i \in 1 .. Len(Items(m))
      PROVE  Items(m)[i] \in DOMAIN heap
  <2>1. Items(m)[i] \in ToSet(Items(m))
    BY <1>2 DEF ToSet
  <2> QED
    BY <2>1 DEF Ready, Owned
<1> QED
  BY <1>1, <1>2, <1>3

\* A step that leaves the vectors alone
LEMMA VectorsSame ==
    ASSUME Ready, UNCHANGED vec, flags' \in [Map -> BOOLEAN],
           DOMAIN heap' = DOMAIN heap,
           \A a \in DOMAIN heap : heap'[a] \in Entry, done' \in BOOLEAN
    PROVE  Kept /\ Owned'
<1>1. Kept
  BY DEF Ready, Kept, MapTypeOK, BlockFollowsSize, Usable
<1>2. Owned'
  BY DEF Ready, Owned, Items
<1> QED
  BY <1>1, <1>2

\* A step that gives one map another vector
LEMMA VectorReplaced ==
    ASSUME Ready, NEW m \in Map, NEW w, Regular(w),
           Fits(w) \/ (Hollow(vec[m]) /\ Len(w.items) = 1) \/ w.block = Null,
           vec' = [vec EXCEPT ![m] = w], flags' \in [Map -> BOOLEAN],
           DOMAIN heap' \subseteq Addr,
           \A a \in DOMAIN heap' : heap'[a] \in Entry, done' \in BOOLEAN
    PROVE  Kept
<1>1. vec \in [Map -> Vector(Addr)] /\ \A n \in Map : Fits(vec[n])
  BY DEF Ready, MapTypeOK, Usable
<1>2. vec' \in [Map -> Vector(Addr)]
  BY <1>1 DEF Regular
<1>3. vec'[m] = w /\ \A n \in Map \ {m} : vec'[n] = vec[n]
  BY <1>1
<1>4. \A n \in Map : FollowsSize(vec'[n])
  BY <1>3 DEF Regular, Ready, BlockFollowsSize
<1>5. \A n \in Map : ~Fits(vec'[n]) =>
          \/ Hollow(vec[n]) /\ Len(vec'[n].items) = 1
          \/ vec'[n].block = Null
  BY <1>1, <1>3
<1> QED
  BY <1>2, <1>4, <1>5 DEF Kept, MapTypeOK, BlockFollowsSize

\* The entries of that step, when those of the map make way for others that
\* are its own or new
LEMMA EntriesReplaced ==
    ASSUME Ready, NEW m \in Map, NEW w \in Vector(Addr),
           vec' = [vec EXCEPT ![m] = w],
           \A i, j \in DOMAIN w.items : w.items[i] = w.items[j] => i = j,
           \A i \in DOMAIN w.items :
              w.items[i] \in DOMAIN heap => w.items[i] \in ToSet(Items(m)),
           DOMAIN heap' = (DOMAIN heap \ ToSet(Items(m))) \cup ToSet(w.items)
    PROVE  Owned'
<1>1. vec \in [Map -> Vector(Addr)]
  BY DEF Ready, MapTypeOK
<1>2. Items(m)' = w.items /\ \A n \in Map \ {m} : Items(n)' = Items(n)
  BY <1>1 DEF Items
<1>3. \A n \in Map \ {m} : \A a \in ToSet(Items(n)) :
         a \in DOMAIN heap /\ a \notin ToSet(Items(m))
  BY DEF Ready, Owned, ToSet
<1>4. DOMAIN heap' = UNION {ToSet(Items(n)') : n \in Map}
  <2>1. DOMAIN heap \ ToSet(Items(m)) =
            UNION {ToSet(Items(n)) : n \in Map \ {m}}
    BY <1>3 DEF Ready, Owned
  <2>2. UNION {ToSet(Items(n)') : n \in Map} =
            ToSet(w.items) \cup UNION {ToSet(Items(n)) : n \in Map \ {m}}
    BY <1>2
  <2> QED
    BY <2>1, <2>2
<1>5. ASSUME NEW l \in Map, NEW r \in Map,
             NEW i \in DOMAIN Items(l)', NEW j \in DOMAIN Items(r)',
             Items(l)'[i] = Items(r)'[j]
      PROVE  l = r /\ i = j
  <2>1. CASE l = m /\ r = m
    BY <1>2, <1>5, <2>1
  <2>2. CASE l = m /\ r # m
    <3>1. w.items[i] = Items(r)[j] /\ i \in DOMAIN w.items
      BY <1>2, <1>5, <2>2
    <3>2. Items(r)[j] \in ToSet(Items(r))
      BY <1>2, <2>2 DEF ToSet
    <3> QED
      BY <1>3, <2>2, <3>1, <3>2
  <2>3. CASE l # m /\ r = m
    <3>1. w.items[j] = Items(l)[i] /\ j \in DOMAIN w.items
      BY <1>2, <1>5, <2>3
    <3>2. Items(l)[i] \in ToSet(Items(l))
      BY <1>2, <2>3 DEF ToSet
    <3> QED
      BY <1>3, <2>3, <3>1, <3>2
  <2>4. CASE l # m /\ r # m
    BY <1>2, <1>5, <2>4 DEF Ready, Owned
  <2> QED
    BY <2>1, <2>2, <2>3, <2>4
<1> QED
  BY <1>4, <1>5 DEF Owned

-----------------------------------------------------------------------------
(* The operations of the maps. *)

\* A call that fails
LEMMA RefuseKeeps ==
    ASSUME Ready, Refuse
    PROVE  Kept /\ Owned'
<1>1. flags' \in [Map -> BOOLEAN] /\ done' \in BOOLEAN
  BY DEF Ready, MapTypeOK, Refuse
<1>2. \A a \in DOMAIN heap : heap'[a] \in Entry
  BY DEF Ready, MapTypeOK, Refuse
<1> QED
  BY <1>1, <1>2, VectorsSame DEF Refuse

\* ndm_strmap_nset() of a key that is there
LEMMA UpdateKeeps ==
    ASSUME Ready, NEW m \in Map, NEW k \in Key, NEW x \in Value, Update(m, k, x)
    PROVE  Kept /\ Owned'
<1> DEFINE a == Items(m)[Found(m, k)]
<1>1. CASE Refuse
  BY <1>1, RefuseKeeps
<1>2. CASE /\ heap' = [heap EXCEPT ![a].value = x]
           /\ done' = TRUE
           /\ UNCHANGED <<vec, flags>>
  <2>1. flags' \in [Map -> BOOLEAN] /\ done' \in BOOLEAN
    BY <1>2 DEF Ready, MapTypeOK
  <2>2. \A b \in DOMAIN heap : heap[b] \in Entry
    BY DEF Ready, MapTypeOK
  <2>3. \A b \in DOMAIN heap : heap'[b] \in Entry
    <3> TAKE b \in DOMAIN heap
    <3>1. heap'[b] = IF b = a THEN [heap[b] EXCEPT !.value = x] ELSE heap[b]
      BY <1>2
    <3> QED
      BY <3>1, <2>2 DEF Entry
  <2>4. DOMAIN heap' = DOMAIN heap
    BY <1>2
  <2> QED
    BY <1>2, <2>1, <2>3, <2>4, VectorsSame
<1> QED
  BY <1>1, <1>2 DEF Update

\* Fresh addresses are free and differ.
LEMMA FreshAreFree ==
    ASSUME NEW n \in Nat, NEW new \in Fresh(n)
    PROVE  /\ new \in Seq(Addr) /\ Len(new) = n
           /\ \A i \in 1 .. n : new[i] \in Addr \ DOMAIN heap
           /\ \A i, j \in 1 .. n : new[i] = new[j] => i = j
<1>1. new \in [1 .. n -> Addr \ DOMAIN heap] /\ IsInjective(new)
  BY DEF Fresh
<1>2. new \in Seq(Addr) /\ Len(new) = n
  BY <1>1
<1> QED
  BY <1>1, <1>2 DEF IsInjective

\* ndm_strmap_nset() of a new key: the entry goes to the end, or is freed again.
LEMMA AddEntryKeeps ==
    ASSUME Ready, NEW m \in Map, NEW k \in Key, NEW x \in Value,
           AddEntry(m, k, x)
    PROVE  Kept /\ Owned'
<1>1. CASE Refuse
  BY <1>1, RefuseKeeps
<1>2. ASSUME NEW new \in Fresh(1), NEW r \in PushBack(vec[m], new[1]),
             vec' = [vec EXCEPT ![m] = r.vec],
             heap' = IF r.done THEN With(heap, new[1], k, x)
                     ELSE Freed(With(heap, new[1], k, x), {new[1]}),
             done' = r.done, UNCHANGED flags
      PROVE  Kept /\ Owned'
  <2> DEFINE a == new[1]
             s == Items(m)
  <2>1. a \in Addr /\ a \notin DOMAIN heap
    BY FreshAreFree
  <2>2. /\ r.done \in BOOLEAN
        /\ r.done => /\ r.vec.items = Append(s, a)
                     /\ Regular(r.vec)
                     /\ Fits(r.vec) \/ (Hollow(vec[m]) /\ Len(r.vec.items) = 1)
        /\ ~r.done => r.vec = vec[m]
    BY <2>1, ReadyFacts, PushBackIsRegular DEF Items
  <2>3. flags' \in [Map -> BOOLEAN] /\ done' \in BOOLEAN
    BY <1>2, <2>2 DEF Ready, MapTypeOK
  <2>4. /\ DOMAIN heap \subseteq Addr
        /\ \A b \in DOMAIN heap : heap[b] \in Entry
    BY DEF Ready, MapTypeOK
  <2>5. CASE r.done
    <3>1. /\ DOMAIN heap' = DOMAIN heap \cup {a}
          /\ \A b \in DOMAIN heap' : heap'[b] \in Entry
      BY <1>2, <2>4, <2>5 DEF With, Entry
    <3>2. Kept
      BY <1>2, <2>1, <2>2, <2>3, <2>4, <2>5, <3>1, VectorReplaced
    <3>3. /\ s \in Seq(Addr) /\ Len(s) \in Nat /\ DOMAIN s = 1 .. Len(s)
          /\ \A i \in 1 .. Len(s) : s[i] \in DOMAIN heap
          /\ \A i, j \in DOMAIN s : s[i] = s[j] => i = j
      BY ReadyFacts DEF Ready, Owned
    <3> DEFINE t == Append(s, a)
    <3>4. /\ DOMAIN t = 1 .. Len(s) + 1 /\ t[Len(s) + 1] = a
          /\ \A i \in 1 .. Len(s) : t[i] = s[i]
      BY <2>1, <3>3
    <3> HIDE DEF t, s, a
    <3>5. \A i, j \in DOMAIN t : t[i] = t[j] => i = j
      BY <2>1, <3>3, <3>4
    <3>6. \A i \in DOMAIN t : t[i] \in DOMAIN heap => t[i] \in ToSet(s)
      BY <2>1, <3>3, <3>4 DEF ToSet
    <3>7. DOMAIN heap' = (DOMAIN heap \ ToSet(s)) \cup ToSet(t)
      <4>1. ToSet(t) = ToSet(s) \cup {a}
        BY <3>3, <3>4 DEF ToSet
      <4>2. ToSet(s) \subseteq DOMAIN heap
        BY <3>3 DEF ToSet
      <4> QED
        BY <3>1, <4>1, <4>2
    <3>8. r.vec \in Vector(Addr) /\ r.vec.items = t
      BY <2>2, <2>5 DEF Regular, t
    <3>9. Owned'
      BY <1>2, <3>5, <3>6, <3>7, <3>8, EntriesReplaced DEF s
    <3> QED
      BY <3>2, <3>9
  <2>6. CASE ~r.done
    <3>1. vec' = vec
      BY <1>2, <2>2, <2>6, ReadyFacts
    <3>2. /\ DOMAIN heap' = DOMAIN heap
          /\ \A b \in DOMAIN heap : heap'[b] \in Entry
      BY <1>2, <2>1, <2>4, <2>6 DEF With, Freed, Restrict
    <3> QED
      BY <2>3, <3>1, <3>2, VectorsSame
  <2> QED
    BY <2>2, <2>5, <2>6
<1> QED
  BY <1>1, <1>2 DEF AddEntry

\* ndm_strmap_nremove(): the entry and its place go together.
LEMMA NRemoveKeeps ==
    ASSUME Ready, NEW m \in Map, NEW k \in Key, NRemove(m, k)
    PROVE  Kept /\ Owned'
<1> DEFINE i == Found(m, k)
           s == Items(m)
<1>1. CASE i = 0
  BY <1>1, RefuseKeeps DEF NRemove
<1>2. ASSUME i # 0, NEW w \in RemoveItem(vec[m], i),
             vec' = [vec EXCEPT ![m] = w], heap' = Freed(heap, {s[i]}),
             done' = TRUE, UNCHANGED flags
      PROVE  Kept /\ Owned'
  <2>1. /\ s \in Seq(Addr) /\ Len(s) \in Nat /\ DOMAIN s = 1 .. Len(s)
        /\ \A j \in 1 .. Len(s) : s[j] \in DOMAIN heap
        /\ \A j, l \in DOMAIN s : s[j] = s[l] => j = l
    BY ReadyFacts DEF Ready, Owned
  <2>2. i \in 1 .. Len(s)
    BY <1>2, <2>1, FoundIsThere
  <2>3. /\ w.items = RemoveAt(s, i) /\ Regular(w)
        /\ Fits(w) \/ w.block = Null
    BY <2>2, ReadyFacts, RemoveItemIsRegular DEF Items
  <2>4. /\ DOMAIN heap' = DOMAIN heap \ {s[i]}
        /\ \A b \in DOMAIN heap' : heap'[b] \in Entry
        /\ DOMAIN heap \subseteq Addr
    BY <1>2 DEF Freed, Restrict, Ready, MapTypeOK
  <2>5. flags' \in [Map -> BOOLEAN] /\ done' \in BOOLEAN
    BY <1>2 DEF Ready, MapTypeOK
  <2>6. Kept
    BY <1>2, <2>3, <2>4, <2>5, VectorReplaced
  <2> DEFINE t == w.items
             n == Len(s)
  <2>7. /\ t \in Seq(Addr) /\ Len(t) = n - 1
        /\ \A j \in 1 .. i - 1 : t[j] = s[j]
        /\ \A j \in i .. n - 1 : t[j] = s[j + 1]
    <3> HIDE DEF s, i
    <3>1. /\ RemoveAt(s, i) \in Seq(Addr)
          /\ Len(RemoveAt(s, i)) = Len(s) - 1
          /\ \A j \in 1 .. i - 1 : RemoveAt(s, i)[j] = s[j]
          /\ \A j \in i .. Len(s) - 1 : RemoveAt(s, i)[j] = s[j + 1]
      BY <2>1, <2>2, RemovedAt, Zenon
    <3> QED
      BY <2>3, <3>1, Zenon
  <2> HIDE DEF t, n, s, i
  <2>8. DOMAIN t = 1 .. n - 1
    BY <2>7
  <2>9. n \in Nat /\ i \in 1 .. n /\ DOMAIN s = 1 .. n
    BY <2>1, <2>2 DEF n
  <2>10. \A j \in 1 .. n - 1 :
            LET from == IF j <= i - 1 THEN j ELSE j + 1
            IN  from \in (1 .. n) \ {i} /\ t[j] = s[from]
    BY <2>7, <2>9
  <2>11. \A j, l \in DOMAIN t : t[j] = t[l] => j = l
    <3> TAKE j, l \in DOMAIN t
    <3> HAVE t[j] = t[l]
    <3>1. (IF j <= i - 1 THEN j ELSE j + 1) = (IF l <= i - 1 THEN l ELSE l + 1)
      BY <2>1, <2>8, <2>9, <2>10
    <3> QED
      BY <3>1, <2>8, <2>9
  <2>12. ToSet(t) = ToSet(s) \ {s[i]}
    <3>1. ASSUME NEW j \in 1 .. n - 1
          PROVE  t[j] \in ToSet(s) /\ t[j] # s[i]
      BY <2>1, <2>9, <2>10 DEF ToSet
    <3>2. ASSUME NEW j \in 1 .. n, s[j] # s[i]
          PROVE  s[j] \in ToSet(t)
      <4>1. CASE j < i
        <5>1. j \in 1 .. n - 1 /\ t[j] = s[j]
          BY <2>7, <2>9, <4>1
        <5> QED
          BY <5>1, <2>8 DEF ToSet
      <4>2. CASE j > i
        <5>1. j - 1 \in 1 .. n - 1 /\ t[j - 1] = s[j]
          BY <2>7, <2>9, <4>2
        <5> QED
          BY <5>1, <2>8 DEF ToSet
      <4> QED
        BY <3>2, <4>1, <4>2, <2>9
    <3> QED
      BY <3>1, <3>2, <2>8, <2>9 DEF ToSet
  <2>13. ToSet(s) \subseteq DOMAIN heap
    BY <2>1, <2>9 DEF ToSet, n
  <2>14. /\ DOMAIN heap' = (DOMAIN heap \ ToSet(s)) \cup ToSet(t)
         /\ \A j \in DOMAIN t : t[j] \in DOMAIN heap => t[j] \in ToSet(s)
    <3>1. s[i] \in ToSet(s)
      BY <2>9 DEF ToSet
    <3>2. \A j \in DOMAIN t : t[j] \in ToSet(t)
      BY DEF ToSet
    <3> QED
      BY <3>1, <3>2, <2>4, <2>12, <2>13
  <2>15. w \in Vector(Addr)
    BY <2>3 DEF Regular
  <2>16. Owned'
    BY <1>2, <2>11, <2>14, <2>15, EntriesReplaced DEF t, s
  <2> QED
    BY <2>6, <2>16
<1> QED
  BY <1>1, <1>2 DEF NRemove

\* ndm_strmap_clear()
LEMMA ClearKeeps ==
    ASSUME Ready, NEW m \in Map, Clear(m)
    PROVE  Kept /\ Owned'
<1>1. Regular(EmptyVector) /\ Fits(EmptyVector) /\ EmptyVector.items = << >>
  BY EmptyIsRegular DEF EmptyVector
<1>2. /\ DOMAIN heap' = DOMAIN heap \ ToSet(Items(m))
      /\ \A b \in DOMAIN heap' : heap'[b] \in Entry
      /\ DOMAIN heap \subseteq Addr
  BY DEF Clear, Freed, Restrict, Ready, MapTypeOK
<1>3. flags' \in [Map -> BOOLEAN] /\ done' \in BOOLEAN
  BY DEF Ready, MapTypeOK, Clear
<1>4. vec' = [vec EXCEPT ![m] = EmptyVector]
  BY DEF Clear
<1>5. Kept
  BY <1>1, <1>2, <1>3, <1>4, VectorReplaced
<1>6. DOMAIN EmptyVector.items = {} /\ ToSet(EmptyVector.items) = {}
  BY <1>1 DEF ToSet
<1>7. EmptyVector \in Vector(Addr)
  BY <1>1 DEF Regular
<1>8. Owned'
  BY <1>2, <1>4, <1>6, <1>7, EntriesReplaced
<1> QED
  BY <1>5, <1>8

\* The vector that an assignment builds, after k entries
LEMMA PartlyCopied ==
    ASSUME NEW new \in Seq(Addr), NEW src \in Seq(Addr),
           Len(new) = Len(src), NEW k \in 0 .. Len(src)
    PROVE  LET v == SubSeq(new, 1, k) \o SubSeq(src, k + 1, Len(src))
           IN  /\ v \in Seq(Addr) /\ Len(v) = Len(src)
               /\ \A i \in 1 .. k : v[i] = new[i]
<1> DEFINE n == Len(src)
           f == SubSeq(new, 1, k)
           g == SubSeq(src, k + 1, n)
<1>1. n \in Nat /\ k \in Nat /\ k <= n
  OBVIOUS
<1>2. f \in Seq(Addr) /\ Len(f) = k /\ \A i \in 1 .. k : f[i] = new[i]
  OBVIOUS
<1>3. g \in Seq(Addr) /\ Len(g) = n - k
  OBVIOUS
<1> HIDE DEF f, g
<1>4. /\ f \o g \in Seq(Addr) /\ Len(f \o g) = n
      /\ \A i \in 1 .. k : (f \o g)[i] = f[i]
  BY <1>1, <1>2, <1>3
<1> QED
  BY <1>2, <1>4 DEF f, g

\* After all entries the vector has copies only.
LEMMA AllCopied ==
    ASSUME NEW new \in Seq(Addr), NEW src \in Seq(Addr), Len(new) = Len(src)
    PROVE  SubSeq(new, 1, Len(src)) \o SubSeq(src, Len(src) + 1, Len(src)) = new
<1>1. SubSeq(src, Len(src) + 1, Len(src)) = << >>
  OBVIOUS
<1>2. SubSeq(new, 1, Len(src)) = new
  OBVIOUS
<1>3. new \o << >> = new
  OBVIOUS
<1> QED
  BY <1>1, <1>2, <1>3

\* The heap with the first k copies
LEMMA CopiedHeap ==
    ASSUME Ready, NEW s \in Map, NEW new \in Fresh(Len(Items(s))),
           NEW k \in 0 .. Len(Items(s))
    PROVE  LET h == Copied(heap, new, Items(s), k)
           IN  /\ DOMAIN h = DOMAIN heap \cup {new[i] : i \in 1 .. k}
               /\ \A a \in DOMAIN h : h[a] \in Entry
<1> DEFINE src == Items(s)
           h == Copied(heap, new, src, k)
<1>1. /\ Len(src) \in Nat
      /\ \A i \in 1 .. Len(src) : src[i] \in DOMAIN heap
      /\ \A a \in DOMAIN heap : heap[a] \in Entry
  BY ReadyFacts DEF Ready, MapTypeOK
<1>2. DOMAIN h = DOMAIN heap \cup {new[i] : i \in 1 .. k}
  BY DEF Copied
<1>3. ASSUME NEW a \in DOMAIN h
      PROVE  h[a] \in Entry
  <2>1. CASE a \in DOMAIN heap
    BY <1>1, <2>1 DEF Copied
  <2>2. CASE a \notin DOMAIN heap
    <3> DEFINE i == CHOOSE j \in 1 .. k : new[j] = a
    <3>1. i \in 1 .. k
      BY <1>2, <1>3, <2>2
    <3>2. i \in 1 .. Len(src)
      BY <1>1, <3>1
    <3>3. h[a] = heap[src[i]]
      BY <1>2, <1>3, <2>2 DEF Copied
    <3> QED
      BY <1>1, <3>2, <3>3
  <2> QED
    BY <2>1, <2>2
<1> QED
  BY <1>2, <1>3

\* ndm_strmap_assign(): what is freed after a copy failed are the copies made.
LEMMA AssignKeeps ==
    ASSUME Ready, NEW d \in Map, NEW s \in Map, AssignCopies(d, s)
    PROVE  Kept /\ Owned'
<1> DEFINE src == Items(s)
           n == Len(src)
           v(new, k) == SubSeq(new, 1, k) \o SubSeq(src, k + 1, n)
<1>1. /\ src \in Seq(Addr) /\ n \in Nat /\ Regular(vec[s])
      /\ flags \in [Map -> BOOLEAN] /\ DOMAIN heap \subseteq Addr
  BY ReadyFacts DEF Ready, MapTypeOK
<1>2. ASSUME NEW new \in Fresh(n)
      PROVE  /\ new \in Seq(Addr) /\ Len(new) = n
             /\ \A i \in 1 .. n : new[i] \in Addr \ DOMAIN heap
             /\ \A i, j \in 1 .. n : new[i] = new[j] => i = j
  <2> HIDE DEF n
  <2> QED
    BY <1>1, FreshAreFree
<1>3. CASE Refuse
  BY <1>3, RefuseKeeps
<1>4. ASSUME NEW new \in Fresh(n), NEW k \in 0 .. n - 1,
             heap' = Freed(Copied(heap, new, src, k), Undone(v(new, k), k)),
             done' = FALSE, UNCHANGED <<vec, flags>>
      PROVE  Kept /\ Owned'
  <2> DEFINE h == Copied(heap, new, src, k)
  <2>1. k \in 0 .. n /\ k \in Nat /\ k <= n
    BY <1>1
  <2>2. /\ DOMAIN h = DOMAIN heap \cup {new[i] : i \in 1 .. k}
        /\ \A a \in DOMAIN h : h[a] \in Entry
    BY <2>1, CopiedHeap
  <2>3. Undone(v(new, k), k) = {new[i] : i \in 1 .. k}
    <3> DEFINE w == v(new, k)
    <3>1. /\ w \in Seq(Addr) /\ Len(w) = n
          /\ \A i \in 1 .. k : w[i] = new[i]
      BY <1>1, <1>2, <2>1, PartlyCopied
    <3> HIDE DEF w, n
    <3>2. /\ DOMAIN SubSeq(w, 1, k) = 1 .. k
          /\ \A i \in 1 .. k : SubSeq(w, 1, k)[i] = new[i]
      BY <2>1, <3>1
    <3>3. Undone(w, k) = {new[i] : i \in 1 .. k}
      BY <3>2 DEF Undone, ToSet
    <3> QED
      BY <3>3 DEF w
  <2>4. heap' = Restrict(h, DOMAIN h \ {new[i] : i \in 1 .. k})
    BY <1>4, <2>3 DEF Freed
  <2> HIDE DEF h
  <2>5. \A i \in 1 .. k : new[i] \notin DOMAIN heap
    BY <1>1, <1>2, <2>1
  <2>6. /\ DOMAIN heap' = DOMAIN heap
        /\ \A a \in DOMAIN heap : heap'[a] \in Entry
    BY <2>2, <2>4, <2>5 DEF Restrict
  <2>7. flags' \in [Map -> BOOLEAN] /\ done' \in BOOLEAN
    BY <1>1, <1>4
  <2> QED
    BY <1>4, <2>6, <2>7, VectorsSame
<1>5. ASSUME NEW r \in Assigned(EmptyVector, vec[s]), r.done,
             NEW new \in Fresh(n),
             heap' = Freed(Copied(heap, new, src, n), ToSet(Items(d))),
             vec' = [vec EXCEPT ![d] = [r.vec EXCEPT !.items = v(new, n)]],
             flags' = Taken(d, s), done' = TRUE
      PROVE  Kept /\ Owned'
  <2> DEFINE h == Copied(heap, new, src, n)
             w == [r.vec EXCEPT !.items = new]
  <2>1. v(new, n) = new
    BY <1>1, <1>2, AllCopied
  <2>2. w.items = new /\ Regular(w) /\ Fits(w)
    <3>1. Len(new) = Len(vec[s].items)
      BY <1>2 DEF Items
    <3> QED
      BY <1>1, <1>2, <1>5, <3>1, AssignedIsRegular
  <2>3. vec' = [vec EXCEPT ![d] = w]
    BY <1>5, <2>1
  <2>4. n \in 0 .. n
    BY <1>1
  <2>5. /\ DOMAIN h = DOMAIN heap \cup {new[i] : i \in 1 .. n}
        /\ \A a \in DOMAIN h : h[a] \in Entry
    BY <2>4, CopiedHeap
  <2>6. heap' = Restrict(h, DOMAIN h \ ToSet(Items(d)))
    BY <1>5 DEF Freed
  <2> HIDE DEF h, w
  <2>7. DOMAIN new = 1 .. n /\ ToSet(new) = {new[i] : i \in 1 .. n}
    BY <1>1, <1>2 DEF ToSet
  <2>8. ToSet(Items(d)) \subseteq DOMAIN heap
    BY DEF Ready, Owned
  <2>9. \A i \in 1 .. n : new[i] \in Addr /\ new[i] \notin DOMAIN heap
    BY <1>2
  <2>10. /\ DOMAIN heap' = (DOMAIN heap \ ToSet(Items(d))) \cup ToSet(new)
         /\ \A a \in DOMAIN heap' : heap'[a] \in Entry
         /\ DOMAIN heap' \subseteq Addr
    <3>1. DOMAIN heap' = DOMAIN h \ ToSet(Items(d))
      BY <2>6 DEF Restrict
    <3>2. \A a \in DOMAIN heap' : heap'[a] \in Entry
      BY <2>5, <2>6, <3>1 DEF Restrict
    <3>3. \A a \in ToSet(new) : a \in Addr /\ a \notin DOMAIN heap
      BY <2>7, <2>9
    <3> QED
      BY <1>1, <2>5, <2>7, <2>8, <3>1, <3>2, <3>3
  <2>11. flags' \in [Map -> BOOLEAN] /\ done' \in BOOLEAN
    BY <1>1, <1>5 DEF Taken
  <2>12. Kept
    BY <2>2, <2>3, <2>10, <2>11, VectorReplaced
  <2>13. w \in Vector(Addr)
    BY <2>2 DEF Regular
  <2>14. /\ \A i, j \in DOMAIN w.items : w.items[i] = w.items[j] => i = j
         /\ \A i \in DOMAIN w.items : w.items[i] \notin DOMAIN heap
    BY <1>2, <2>2, <2>7, <2>9
  <2>15. Owned'
    BY <2>2, <2>3, <2>10, <2>13, <2>14, EntriesReplaced
  <2> QED
    BY <2>12, <2>15
<1> QED
  BY <1>3, <1>4, <1>5 DEF AssignCopies

\* ndm_strmap_swap()
LEMMA SwapKeeps ==
    ASSUME Ready, NEW l \in Map, NEW r \in Map, Swap(l, r)
    PROVE  Kept /\ Owned'
<1> DEFINE from(m) == IF m = r THEN l ELSE IF m = l THEN r ELSE m
<1>1. /\ vec \in [Map -> Vector(Addr)] /\ flags \in [Map -> BOOLEAN]
      /\ \A m \in Map : Fits(vec[m]) /\ FollowsSize(vec[m])
  BY DEF Ready, MapTypeOK, Usable, BlockFollowsSize
<1>2. \A m \in Map : from(m) \in Map /\ from(from(m)) = m
  OBVIOUS
<1>3. \A m \in Map : vec'[m] = vec[from(m)]
  BY <1>1 DEF Swap
<1>4. vec' \in [Map -> Vector(Addr)] /\ flags' \in [Map -> BOOLEAN]
  BY <1>1 DEF Swap
<1> HIDE DEF from
<1>5. \A m \in Map : Items(m)' = Items(from(m))
  BY <1>3 DEF Items
<1>6. \A m \in Map : Fits(vec'[m]) /\ FollowsSize(vec'[m])
  BY <1>1, <1>2, <1>3
<1>7. Kept
  <2>1. MapTypeOK'
    BY <1>4 DEF Ready, MapTypeOK, Swap
  <2>2. BlockFollowsSize'
    BY <1>6 DEF BlockFollowsSize
  <2> QED
    BY <1>6, <2>1, <2>2 DEF Kept
<1>8. Owned'
  <2>1. DOMAIN heap' = UNION {ToSet(Items(m)) : m \in Map}
    BY DEF Ready, Owned, Swap
  <2>2. UNION {ToSet(Items(m)) : m \in Map} =
            UNION {ToSet(Items(m)') : m \in Map}
    BY <1>2, <1>5
  <2>3. ASSUME NEW a \in Map, NEW b \in Map,
               NEW i \in DOMAIN Items(a)', NEW j \in DOMAIN Items(b)',
               Items(a)'[i] = Items(b)'[j]
        PROVE  a = b /\ i = j
    <3>1. /\ from(a) \in Map /\ from(b) \in Map
          /\ i \in DOMAIN Items(from(a)) /\ j \in DOMAIN Items(from(b))
          /\ Items(from(a))[i] = Items(from(b))[j]
      BY <1>2, <1>5, <2>3
    <3>2. from(a) = from(b) /\ i = j
      BY <3>1 DEF Ready, Owned
    <3> QED
      BY <1>2, <3>2
  <2> QED
    BY <2>1, <2>2, <2>3 DEF Owned
<1> QED
  BY <1>7, <1>8

-----------------------------------------------------------------------------
(* The theorems. *)

\* One step for each operation
LEMMA NextKeeps ==
    ASSUME MapInv, MapNext
    PROVE  Kept /\ Owned'
<1>1. Ready
  BY DEF MapInv, MapNext, Ready, EntriesAreOwned, Owned
<1>2. CASE \E m \in Map, k \in Key : NRemove(m, k)
  BY <1>1, <1>2, NRemoveKeeps
<1>3. CASE \E m \in Map, k \in Key, x \in Value : NSet(m, k, x)
  BY <1>1, <1>3, UpdateKeeps, AddEntryKeeps DEF NSet
<1>4. CASE \E m \in Map : Clear(m)
  BY <1>1, <1>4, ClearKeeps
<1>5. CASE \E d, s \in Map : Assign(d, s)
  <2>1. PICK d \in Map, s \in Map : Assign(d, s)
    BY <1>5
  <2>2. CASE d = s /\ done' = TRUE /\ UNCHANGED <<vec, flags, heap>>
    <3>1. flags' \in [Map -> BOOLEAN] /\ done' \in BOOLEAN
      BY <1>1, <2>2 DEF Ready, MapTypeOK
    <3>2. \A a \in DOMAIN heap : heap'[a] \in Entry
      BY <1>1, <2>2 DEF Ready, MapTypeOK
    <3> QED
      BY <1>1, <2>2, <3>1, <3>2, VectorsSame
  <2>3. CASE AssignCopies(d, s)
    BY <1>1, <2>3, AssignKeeps
  <2> QED
    BY <2>1, <2>2, <2>3 DEF Assign
<1>6. CASE \E l, r \in Map : Swap(l, r)
  BY <1>1, <1>6, SwapKeeps
<1> QED
  BY <1>2, <1>3, <1>4, <1>5, <1>6 DEF MapNext

\* The invariant holds of empty maps.
LEMMA InitKeeps ==
    ASSUME MapInit
    PROVE  MapInv
<1>1. \A m \in Map : vec[m] = EmptyVector
  BY DEF MapInit
<1>2. \A m \in Map : Items(m) = << >> /\ ToSet(Items(m)) = {}
  BY <1>1 DEF Items, EmptyVector, ToSet
<1>3. MapTypeOK
  BY EmptyIsRegular DEF MapInit, MapTypeOK, Regular
<1>4. BlockFollowsSize
  BY <1>1, EmptyIsRegular DEF BlockFollowsSize, Regular
<1>5. EntriesAreOwned
  BY <1>2 DEF EntriesAreOwned, MapInit
<1> QED
  BY <1>3, <1>4, <1>5 DEF MapInv

\* The invariant is inductive.
LEMMA StepKeeps ==
    ASSUME MapInv, [MapNext]_mapVars
    PROVE  MapInv'
<1>1. CASE MapNext
  BY <1>1, NextKeeps DEF MapInv, Kept, EntriesAreOwned, Owned
<1>2. CASE UNCHANGED mapVars
  BY <1>2 DEF mapVars, MapInv, MapTypeOK, BlockFollowsSize, EntriesAreOwned,
              Usable, Items
<1> QED
  BY <1>1, <1>2

\* The invariant: an operation starts with vectors that fit, so that what it
\* infers of a block is right and what it frees is its own.
THEOREM MapInvariant == MapSpec => []MapInv
<1>1. MapInit => MapInv
  BY InitKeeps
<1>2. MapInv /\ [MapNext]_mapVars => MapInv'
  BY StepKeeps
<1> QED
  BY <1>1, <1>2, PTL DEF MapSpec

\* Every variable keeps its type: ndm_strmap_nfind() finds an index of the map,
\* copies are made of entries that are there.
THEOREM MapTypes == MapSpec => []MapTypeOK
<1>1. MapInv => MapTypeOK
  BY DEF MapInv
<1> QED
  BY <1>1, MapInvariant, PTL

\* Nothing is leaked, freed twice or used after: for any number of maps, keys
\* and values and any block size, whichever allocations fail.
THEOREM EntriesStayOwned == MapSpec => []EntriesAreOwned
<1>1. MapInv => EntriesAreOwned
  BY DEF MapInv
<1> QED
  BY <1>1, MapInvariant, PTL

\* A vector's room can be inferred from its size, as the code does it.
THEOREM RoomIsInferred == MapSpec => []BlockFollowsSize
<1>1. MapInv => BlockFollowsSize
  BY DEF MapInv
<1> QED
  BY <1>1, MapInvariant, PTL

\* A hollow vector and a realloc() that fails to shrink are the only two ways
\* for items to leave their block.
THEOREM NoOtherOverrun == MapSpec => OverrunsAreKnown
<1> DEFINE Known == \A m \in Map : ~Fits(vec'[m]) =>
                       \/ Hollow(vec[m]) /\ Len(vec'[m].items) = 1
                       \/ vec'[m].block = Null
<1>1. MapInv /\ [MapNext]_mapVars => [Known]_mapVars
  BY NextKeeps DEF Kept
<1> QED
  BY <1>1, MapInvariant, PTL DEF MapSpec, OverrunsAreKnown

-----------------------------------------------------------------------------
(* What a map stands for, in terms of its items s, the heap h and whether  *)
(* case is ignored, b.                                                     *)

Cls(b, k) == IF b THEN Folded[k] ELSE k

\* The entries of s are there.
Sound(s, h) == s \in Seq(Addr) /\ \A i \in 1 .. Len(s) : h[s[i]] \in Entry

\* No two of them have keys of one class.
Single(s, h, b) ==
    \A i, j \in 1 .. Len(s) :
       Cls(b, h[s[i]].key) = Cls(b, h[s[j]].key) => i = j

\* ndm_strmap_nfind()
At(s, h, b, k) == SelectInSeq(s, LAMBDA a : Cls(b, h[a].key) = Cls(b, k))

\* Contents(), of which each map has its own
Told(s, h, b) ==
    [c \in {Cls(b, h[a].key) : a \in ToSet(s)} |-> h[s[At(s, h, b, c)]].value]

\* The classes of the entries, by place
Classes(s, h, b) == {Cls(b, h[s[i]].key) : i \in 1 .. Len(s)}

\* f is what the entries say.
ToldBy(f, s, h, b) ==
    /\ f = [c \in DOMAIN f |-> f[c]]
    /\ DOMAIN f = Classes(s, h, b)
    /\ \A i \in 1 .. Len(s) : f[Cls(b, h[s[i]].key)] = h[s[i]].value

\* A class is a key, and its own class.
LEMMA ClassOfClass ==
    ASSUME NEW b \in BOOLEAN, NEW k \in Key
    PROVE  Cls(b, k) \in Key /\ Cls(b, Cls(b, k)) = Cls(b, k)
  BY EntriesAssumption, FoldingAssumption DEF Cls

\* What is found matches, and something is found if anything matches.
LEMMA AtIsThere ==
    ASSUME NEW s \in Seq(Addr), NEW h, NEW b, NEW k
    PROVE  /\ At(s, h, b, k) \in 0 .. Len(s)
           /\ At(s, h, b, k) # 0 =>
                 Cls(b, h[s[At(s, h, b, k)]].key) = Cls(b, k)
           /\ At(s, h, b, k) = 0 =>
                 \A i \in 1 .. Len(s) : Cls(b, h[s[i]].key) # Cls(b, k)
<1> DEFINE I == {i \in 1 .. Len(s) : Cls(b, h[s[i]].key) = Cls(b, k)}
<1>1. I \in SUBSET Nat /\ I \subseteq 1 .. Len(s)
  OBVIOUS
<1>2. I # {} => Min(I) \in I
  BY <1>1, LeastExists
<1>3. At(s, h, b, k) = IF I # {} THEN Min(I) ELSE 0
  BY DEF At, SelectInSeq
<1>4. Len(s) \in Nat
  OBVIOUS
<1>5. CASE I # {}
  <2>1. At(s, h, b, k) = Min(I) /\ Min(I) \in I
    BY <1>2, <1>3, <1>5
  <2>2. Min(I) \in 1 .. Len(s) /\ Cls(b, h[s[Min(I)]].key) = Cls(b, k)
    BY <2>1
  <2> HIDE DEF I
  <2> QED
    BY <1>4, <2>1, <2>2
<1>6. CASE I = {}
  <2>1. At(s, h, b, k) = 0
    BY <1>3, <1>6
  <2> QED
    BY <1>4, <1>6, <2>1
<1> QED
  BY <1>5, <1>6

\* A map stands for a function on these classes.
LEMMA ToldOnClasses ==
    ASSUME NEW s \in Seq(Addr), NEW h, NEW b
    PROVE  DOMAIN Told(s, h, b) = Classes(s, h, b)
<1>1. ToSet(s) = {s[i] : i \in 1 .. Len(s)}
  BY DEF ToSet
<1> QED
  BY <1>1 DEF Told, Classes

\* A map stands for what its entries say, if no key is there twice.
LEMMA ToldTells ==
    ASSUME NEW s, NEW h, NEW b \in BOOLEAN, Sound(s, h), Single(s, h, b)
    PROVE  ToldBy(Told(s, h, b), s, h, b)
<1> DEFINE f == Told(s, h, b)
<1>1. s \in Seq(Addr)
  BY DEF Sound
<1>2. f = [c \in DOMAIN f |-> f[c]] /\ DOMAIN f = Classes(s, h, b)
  BY <1>1, ToldOnClasses, Zenon DEF Told
<1>3. ASSUME NEW i \in 1 .. Len(s)
      PROVE  f[Cls(b, h[s[i]].key)] = h[s[i]].value
  <2> DEFINE c == Cls(b, h[s[i]].key)
             j == At(s, h, b, c)
  <2>1. h[s[i]] \in Entry /\ h[s[i]].key \in Key
    BY <1>3 DEF Sound, Entry
  <2>2. c \in Key /\ Cls(b, c) = c
    BY <2>1, ClassOfClass
  <2>3. c \in DOMAIN f
    BY <1>2 DEF Classes
  <2>4. f[c] = h[s[j]].value
    BY <2>3 DEF Told
  <2>5. /\ j \in 0 .. Len(s)
        /\ j # 0 => Cls(b, h[s[j]].key) = Cls(b, c)
        /\ j = 0 => \A l \in 1 .. Len(s) : Cls(b, h[s[l]].key) # Cls(b, c)
    <3> HIDE DEF c
    <3> QED
      BY <1>1, AtIsThere
  <2>6. j # 0
    BY <2>2, <2>5
  <2>7. Len(s) \in Nat
    BY <1>1
  <2> HIDE DEF j
  <2>8. j \in 1 .. Len(s)
    BY <2>5, <2>6, <2>7
  <2>9. Cls(b, h[s[j]].key) = Cls(b, h[s[i]].key)
    BY <2>2, <2>5, <2>6
  <2>10. j = i
    BY <2>8, <2>9, <1>3, Zenon DEF Single
  <2> QED
    BY <2>4, <2>10
<1> HIDE DEF f
<1>4. ToldBy(f, s, h, b)
  BY <1>2, <1>3 DEF ToldBy
<1> QED
  BY <1>4 DEF f

\* The entries say one thing.
LEMMA TellOneThing ==
    ASSUME NEW s, NEW h, NEW b, NEW f, NEW g, ToldBy(f, s, h, b), ToldBy(g, s, h, b)
    PROVE  f = g
<1>1. DOMAIN f = DOMAIN g
  BY DEF ToldBy
<1>2. \A c \in DOMAIN f : f[c] = g[c]
  <2> TAKE c \in DOMAIN f
  <2>1. PICK i \in 1 .. Len(s) : c = Cls(b, h[s[i]].key)
    BY DEF ToldBy, Classes
  <2> QED
    BY <2>1 DEF ToldBy
<1>3. f = [c \in DOMAIN f |-> f[c]] /\ g = [c \in DOMAIN g |-> g[c]]
  BY DEF ToldBy
<1> QED
  BY <1>1, <1>2, <1>3

\* The entries may lie elsewhere.
LEMMA CopiesTellTheSame ==
    ASSUME NEW s, NEW h, NEW b \in BOOLEAN, Sound(s, h), Single(s, h, b),
           NEW t \in Seq(Addr), NEW g, Len(t) = Len(s),
           \A i \in 1 .. Len(s) : g[t[i]] = h[s[i]]
    PROVE  Single(t, g, b) /\ Told(t, g, b) = Told(s, h, b)
<1>1. Sound(t, g) /\ Single(t, g, b)
  BY DEF Sound, Single
<1>2. ToldBy(Told(t, g, b), t, g, b) /\ ToldBy(Told(s, h, b), s, h, b)
  BY <1>1, ToldTells
<1> DEFINE f == Told(s, h, b)
<1>3. ToldBy(f, t, g, b)
  <2>1. Classes(s, h, b) = Classes(t, g, b)
    BY DEF Classes
  <2> HIDE DEF f
  <2> QED
    BY <1>2, <2>1 DEF ToldBy, f
<1> QED
  BY <1>1, <1>2, <1>3, TellOneThing

\* Another value for a key that is there
LEMMA UpdateTells ==
    ASSUME NEW s, NEW h, NEW b \in BOOLEAN, Sound(s, h), Single(s, h, b),
           NEW i \in 1 .. Len(s), NEW k \in Key, NEW x \in Value, NEW g,
           Cls(b, h[s[i]].key) = Cls(b, k),
           g[s[i]].key = h[s[i]].key, g[s[i]].value = x, g[s[i]] \in Entry,
           \A j \in (1 .. Len(s)) \ {i} : g[s[j]] = h[s[j]]
    PROVE  /\ Single(s, g, b)
           /\ Told(s, g, b) = Promise!With(Told(s, h, b), Cls(b, k), x)
<1>1. \A j \in 1 .. Len(s) : g[s[j]].key = h[s[j]].key /\ g[s[j]] \in Entry
  BY DEF Sound
<1>2. Sound(s, g) /\ Single(s, g, b)
  BY <1>1 DEF Sound, Single
<1>3. ToldBy(Told(s, g, b), s, g, b) /\ ToldBy(Told(s, h, b), s, h, b)
  BY <1>2, ToldTells
<1> DEFINE f == Told(s, h, b)
           c == Cls(b, k)
           w == Promise!With(f, c, x)
<1>4. Classes(s, h, b) = Classes(s, g, b)
  BY <1>1 DEF Classes
<1> HIDE DEF f
<1>5. c \in DOMAIN f /\ DOMAIN f = Classes(s, g, b)
  <2>1. DOMAIN f = Classes(s, h, b)
    BY <1>3 DEF ToldBy, f
  <2>2. c \in Classes(s, h, b)
    BY DEF Classes
  <2> QED
    BY <1>4, <2>1, <2>2
<1>6. /\ w = [d \in DOMAIN w |-> w[d]] /\ DOMAIN w = DOMAIN f
      /\ \A d \in DOMAIN f : w[d] = IF d = c THEN x ELSE f[d]
  BY <1>5 DEF Promise!With
<1> HIDE DEF w
<1>7. ASSUME NEW j \in 1 .. Len(s)
      PROVE  w[Cls(b, g[s[j]].key)] = g[s[j]].value
  <2>1. CASE j = i
    BY <1>5, <1>6, <2>1
  <2>2. CASE j # i
    <3>1. Cls(b, h[s[j]].key) # c
      BY <2>2 DEF Single
    <3>2. f[Cls(b, h[s[j]].key)] = h[s[j]].value
      BY <1>3 DEF ToldBy, f
    <3>3. Cls(b, h[s[j]].key) \in DOMAIN f
      BY <1>3 DEF ToldBy, Classes, f
    <3>4. g[s[j]] = h[s[j]]
      BY <2>2
    <3> QED
      BY <1>6, <3>1, <3>2, <3>3, <3>4
  <2> QED
    BY <2>1, <2>2
<1>8. ToldBy(w, s, g, b)
  BY <1>5, <1>6, <1>7 DEF ToldBy
<1>9. Told(s, g, b) = w
  BY <1>3, <1>8, TellOneThing
<1> QED
  BY <1>2, <1>9 DEF w, f

\* An entry at the end, of a key that is not there
LEMMA AppendTells ==
    ASSUME NEW s, NEW h, NEW b \in BOOLEAN, Sound(s, h), Single(s, h, b),
           NEW a \in Addr, NEW k \in Key, NEW x \in Value, NEW g,
           \A i \in 1 .. Len(s) : Cls(b, h[s[i]].key) # Cls(b, k),
           g[a] = [key |-> k, value |-> x],
           \A i \in 1 .. Len(s) : g[s[i]] = h[s[i]]
    PROVE  /\ Single(Append(s, a), g, b)
           /\ Told(Append(s, a), g, b) =
                 Promise!With(Told(s, h, b), Cls(b, k), x)
<1> DEFINE t == Append(s, a)
           n == Len(s)
           f == Told(s, h, b)
           c == Cls(b, k)
           w == Promise!With(f, c, x)
<1>1. /\ t \in Seq(Addr) /\ n \in Nat /\ Len(t) = n + 1 /\ t[n + 1] = a
      /\ \A i \in 1 .. n : t[i] = s[i]
  BY DEF Sound
<1>2. /\ \A i \in 1 .. n : g[t[i]] = h[s[i]] /\ h[s[i]] \in Entry
      /\ g[t[n + 1]] = [key |-> k, value |-> x]
  BY <1>1 DEF Sound
<1> HIDE DEF t
<1>3. \A i \in 1 .. Len(t) : i \in 1 .. n \/ i = n + 1
  BY <1>1
<1>4. Sound(t, g)
  BY <1>1, <1>2, <1>3 DEF Sound, Entry
<1>5. Single(t, g, b)
  BY <1>1, <1>2, <1>3 DEF Single
<1>6. ToldBy(Told(t, g, b), t, g, b) /\ ToldBy(f, s, h, b)
  BY <1>4, <1>5, ToldTells
<1> HIDE DEF f
<1>7. /\ w = [d \in DOMAIN w |-> w[d]] /\ DOMAIN w = DOMAIN f \cup {c}
      /\ \A d \in DOMAIN f \cup {c} : w[d] = IF d = c THEN x ELSE f[d]
  BY DEF Promise!With
<1> HIDE DEF w
<1>8. DOMAIN w = Classes(t, g, b)
  <2>1. DOMAIN f = {Cls(b, g[t[i]].key) : i \in 1 .. n}
    BY <1>2, <1>6 DEF ToldBy, Classes
  <2>2. Cls(b, g[t[n + 1]].key) = c
    BY <1>2
  <2>3. 1 .. Len(t) = 1 .. n \cup {n + 1}
    BY <1>1
  <2> QED
    BY <1>7, <2>1, <2>2, <2>3 DEF Classes
<1>9. ASSUME NEW i \in 1 .. Len(t)
      PROVE  w[Cls(b, g[t[i]].key)] = g[t[i]].value
  <2>1. CASE i = n + 1
    BY <1>2, <1>7, <2>1
  <2>2. CASE i \in 1 .. n
    <3> DEFINE d == Cls(b, h[s[i]].key)
    <3>1. g[t[i]] = h[s[i]]
      BY <1>2, <2>2
    <3>2. d \in DOMAIN f /\ f[d] = h[s[i]].value /\ d # c
      BY <1>6, <2>2 DEF ToldBy, Classes
    <3>3. w[d] = f[d]
      BY <1>7, <3>2
    <3> QED
      BY <3>1, <3>2, <3>3
  <2> QED
    BY <1>3, <2>1, <2>2
<1>10. ToldBy(w, t, g, b)
  BY <1>7, <1>8, <1>9 DEF ToldBy
<1>11. Told(t, g, b) = w
  BY <1>6, <1>10, TellOneThing
<1> QED
  BY <1>5, <1>11 DEF w, f, t

\* An entry less
LEMMA RemoveTells ==
    ASSUME NEW s, NEW h, NEW b \in BOOLEAN, Sound(s, h), Single(s, h, b),
           NEW i \in 1 .. Len(s), NEW k \in Key,
           Cls(b, h[s[i]].key) = Cls(b, k), NEW g,
           \A j \in (1 .. Len(s)) \ {i} : g[s[j]] = h[s[j]]
    PROVE  LET t == RemoveAt(s, i)
           IN  /\ Single(t, g, b)
               /\ Told(t, g, b) = Promise!Without(Told(s, h, b), Cls(b, k))
<1> DEFINE t == RemoveAt(s, i)
           n == Len(s)
           f == Told(s, h, b)
           c == Cls(b, k)
           w == Promise!Without(f, c)
           from(j) == IF j < i THEN j ELSE j + 1
           to(j) == IF j < i THEN j ELSE j - 1
<1>1. /\ t \in Seq(Addr) /\ Len(t) = n - 1
      /\ \A j \in 1 .. i - 1 : t[j] = s[j]
      /\ \A j \in i .. n - 1 : t[j] = s[j + 1]
  BY RemovedAt DEF Sound
<1>2. n \in Nat /\ i \in Nat /\ 1 <= i /\ i <= n
  BY DEF Sound
<1> HIDE DEF t, n
<1>3. \A j \in 1 .. n - 1 : from(j) \in (1 .. n) \ {i} /\ t[j] = s[from(j)]
  <2>1. ASSUME NEW j \in 1 .. n - 1, j < i
        PROVE  from(j) \in (1 .. n) \ {i} /\ t[j] = s[from(j)]
    <3>1. j \in (1 .. n) \ {i} /\ j \in 1 .. i - 1
      BY <1>2, <2>1
    <3> QED
      BY <1>1, <2>1, <3>1
  <2>2. ASSUME NEW j \in 1 .. n - 1, ~(j < i)
        PROVE  from(j) \in (1 .. n) \ {i} /\ t[j] = s[from(j)]
    <3>1. j + 1 \in (1 .. n) \ {i} /\ j \in i .. n - 1
      BY <1>2, <2>2
    <3> QED
      BY <1>1, <2>2, <3>1
  <2> QED
    BY <2>1, <2>2, Zenon
<1>4. \A j \in (1 .. n) \ {i} : to(j) \in 1 .. n - 1 /\ t[to(j)] = s[j]
  BY <1>1, <1>2
<1>5. \A j, l \in 1 .. n - 1 : from(j) = from(l) => j = l
  BY <1>2
<1>6. \A j \in (1 .. n) \ {i} : g[s[j]] = h[s[j]] /\ h[s[j]] \in Entry
  BY DEF Sound, n
<1> HIDE DEF from, to
<1>7. \A j \in 1 .. n - 1 : g[t[j]] = h[s[from(j)]] /\ g[t[j]] \in Entry
  BY <1>3, <1>6
<1>8. Sound(t, g)
  BY <1>1, <1>7 DEF Sound
<1>9. \A j, l \in 1 .. n :
         Cls(b, h[s[j]].key) = Cls(b, h[s[l]].key) => j = l
  BY DEF Single, n
<1>10. Single(t, g, b)
  <2>1. ASSUME NEW j \in 1 .. n - 1, NEW l \in 1 .. n - 1,
               Cls(b, g[t[j]].key) = Cls(b, g[t[l]].key)
        PROVE  j = l
    <3>1. from(j) = from(l)
      BY <1>3, <1>7, <1>9, <2>1
    <3> QED
      BY <1>5, <3>1
  <2> QED
    BY <1>1, <2>1 DEF Single
<1>11. ToldBy(Told(t, g, b), t, g, b) /\ ToldBy(f, s, h, b)
  BY <1>8, <1>10, ToldTells
<1> HIDE DEF f
<1>12. /\ w = [d \in DOMAIN w |-> w[d]] /\ DOMAIN w = DOMAIN f \ {c}
       /\ \A d \in DOMAIN f \ {c} : w[d] = f[d]
  BY DEF Promise!Without
<1> HIDE DEF w
<1>13. \A j \in (1 .. n) \ {i} : Cls(b, h[s[j]].key) # c
  BY <1>2, <1>9
<1>14. /\ DOMAIN f = {Cls(b, h[s[j]].key) : j \in 1 .. n}
       /\ \A j \in 1 .. n : f[Cls(b, h[s[j]].key)] = h[s[j]].value
  BY <1>11 DEF ToldBy, Classes, n
<1> HIDE DEF c
<1>15. DOMAIN w = Classes(t, g, b)
  <2>1. Cls(b, h[s[i]].key) = c
    BY DEF c
  <2>2. DOMAIN f \ {c} = {Cls(b, h[s[j]].key) : j \in (1 .. n) \ {i}}
    BY <1>13, <1>14, <2>1
  <2>3. ASSUME NEW j \in (1 .. n) \ {i}
        PROVE  \E l \in 1 .. n - 1 : g[t[l]] = h[s[j]]
    BY <1>4, <1>6, <2>3
  <2>4. {Cls(b, h[s[j]].key) : j \in (1 .. n) \ {i}}
           = {Cls(b, g[t[j]].key) : j \in 1 .. n - 1}
    <3>1. ASSUME NEW j \in (1 .. n) \ {i}
          PROVE  Cls(b, h[s[j]].key) \in {Cls(b, g[t[l]].key) : l \in 1 .. n - 1}
      <4>1. PICK l \in 1 .. n - 1 : g[t[l]] = h[s[j]]
        BY <2>3
      <4> QED
        BY <4>1
    <3>2. ASSUME NEW j \in 1 .. n - 1
          PROVE  Cls(b, g[t[j]].key) \in {Cls(b, h[s[l]].key) : l \in (1 .. n) \ {i}}
      BY <1>3, <1>7
    <3> QED
      BY <3>1, <3>2
  <2> QED
    BY <1>1, <1>12, <2>2, <2>4 DEF Classes
<1>16. ASSUME NEW j \in 1 .. Len(t)
       PROVE  w[Cls(b, g[t[j]].key)] = g[t[j]].value
  <2>1. from(j) \in (1 .. n) \ {i} /\ g[t[j]] = h[s[from(j)]]
    BY <1>1, <1>3, <1>7, <1>16
  <2> DEFINE d == Cls(b, h[s[from(j)]].key)
  <2>2. d \in DOMAIN f /\ d # c /\ f[d] = h[s[from(j)]].value
    BY <1>13, <1>14, <2>1
  <2>3. w[d] = f[d]
    BY <1>12, <2>2
  <2> QED
    BY <2>1, <2>2, <2>3
<1>17. ToldBy(w, t, g, b)
  BY <1>12, <1>15, <1>16 DEF ToldBy
<1>18. Told(t, g, b) = w
  BY <1>11, <1>17, TellOneThing
<1> QED
  BY <1>10, <1>18 DEF w, f, t, c

-----------------------------------------------------------------------------
(* The promise of StringMaps. *)

\* No key is there twice.
Singled == \A m \in Map : Single(Items(m), heap, flags[m])

\* What the maps stand for
Stand == [m \in Map |-> Contents(m)]

\* A search of the model is a search of these terms.
LEMMA ContentsTold ==
    ASSUME NEW m \in Map
    PROVE  /\ Contents(m) = Told(Items(m), heap, flags[m])
           /\ \A k : Found(m, k) = At(Items(m), heap, flags[m], k)
           /\ \A k : ClassOf(m, k) = Cls(flags[m], k)
<1>1. \A k : ClassOf(m, k) = Cls(flags[m], k)
  BY DEF ClassOf, Cls
<1>2. \A k : Found(m, k) = At(Items(m), heap, flags[m], k)
  BY <1>1, Zenon DEF Found, At, Matches, SelectInSeq
<1>3. Contents(m) = Told(Items(m), heap, flags[m])
  BY <1>1, <1>2, Zenon DEF Contents, Told
<1> QED
  BY <1>1, <1>2, <1>3

\* The same after a step
LEMMA ContentsToldNext ==
    ASSUME NEW m \in Map
    PROVE  Contents(m)' = Told(Items(m)', heap', flags'[m])
<1>1. \A k : ClassOf(m, k)' = Cls(flags'[m], k)
  BY DEF ClassOf, Cls
<1>2. \A k : Found(m, k)' = At(Items(m)', heap', flags'[m], k)
  BY <1>1, Zenon DEF Found, At, Matches, SelectInSeq
<1> QED
  BY <1>1, <1>2, Zenon DEF Contents, Told

\* Every map has sound entries.
LEMMA ReadyIsSound ==
    ASSUME Ready, NEW m \in Map
    PROVE  Sound(Items(m), heap) /\ flags[m] \in BOOLEAN
<1>1. \A a \in DOMAIN heap : heap[a] \in Entry
  BY DEF Ready, MapTypeOK
<1> QED
  BY <1>1, ReadyFacts DEF Sound, Ready, MapTypeOK

\* A step that replaces one map's items and leaves the other maps' entries as
\* they are changes what that map stands for.
LEMMA OneMapSteps ==
    ASSUME Ready, Singled, NEW m \in Map, NEW w,
           vec' = [vec EXCEPT ![m] = w],
           \A n \in Map \ {m} : flags'[n] = flags[n],
           \A n \in Map \ {m} : \A a \in ToSet(Items(n)) : heap'[a] = heap[a],
           Single(w.items, heap', flags'[m])
    PROVE  /\ Singled'
           /\ Stand' = [Stand EXCEPT ![m] = Told(w.items, heap', flags'[m])]
<1>1. vec \in [Map -> Vector(Addr)]
  BY DEF Ready, MapTypeOK
<1>2. Items(m)' = w.items /\ \A n \in Map \ {m} : Items(n)' = Items(n)
  BY <1>1 DEF Items
<1>3. ASSUME NEW n \in Map \ {m}
      PROVE  /\ Single(Items(n)', heap', flags'[n])
             /\ Told(Items(n)', heap', flags'[n])
                   = Told(Items(n), heap, flags[n])
  <2> DEFINE s == Items(n)
  <2>1. s \in Seq(Addr) /\ Sound(s, heap) /\ flags[n] \in BOOLEAN
    BY ReadyFacts, ReadyIsSound
  <2>2. \A i \in 1 .. Len(s) : heap'[s[i]] = heap[s[i]]
    BY <2>1 DEF ToSet
  <2>3. Single(s, heap, flags[n])
    BY DEF Singled
  <2> HIDE DEF s
  <2>4. /\ Single(s, heap', flags[n])
        /\ Told(s, heap', flags[n]) = Told(s, heap, flags[n])
    BY <2>1, <2>2, <2>3, CopiesTellTheSame
  <2>5. Items(n)' = s /\ flags'[n] = flags[n]
    BY <1>2 DEF s
  <2> QED
    BY <2>4, <2>5, Zenon DEF s
<1>4. Singled'
  BY <1>2, <1>3, Zenon DEF Singled
<1>5. \A n \in Map \ {m} : Contents(n)' = Contents(n)
  BY <1>3, ContentsTold, ContentsToldNext
<1>6. Contents(m)' = Told(w.items, heap', flags'[m])
  BY <1>2, ContentsToldNext
<1> QED
  BY <1>4, <1>5, <1>6 DEF Stand

\* A call that fails, and gives back what it allocated
LEMMA FailureTells ==
    ASSUME Ready, Singled, vec' = vec, flags' = flags, done' = FALSE,
           \A a \in DOMAIN heap : heap'[a] = heap[a]
    PROVE  Singled' /\ Promise!Fail
<1>1. ASSUME NEW m \in Map
      PROVE  /\ Single(Items(m)', heap', flags'[m])
             /\ Contents(m)' = Contents(m)
  <2> DEFINE s == Items(m)
  <2>1. s \in Seq(Addr) /\ Sound(s, heap) /\ flags[m] \in BOOLEAN
    BY ReadyFacts, ReadyIsSound
  <2>2. \A i \in 1 .. Len(s) : heap'[s[i]] = heap[s[i]]
    BY ReadyFacts
  <2>3. Single(s, heap, flags[m])
    BY DEF Singled
  <2>4. Items(m)' = s
    BY DEF Items
  <2> HIDE DEF s
  <2>5. /\ Single(s, heap', flags[m])
        /\ Told(s, heap', flags[m]) = Told(s, heap, flags[m])
    BY <2>1, <2>2, <2>3, CopiesTellTheSame
  <2>6. Contents(m) = Told(s, heap, flags[m])
    BY ContentsTold, Zenon DEF s
  <2>7. Contents(m)' = Told(s, heap', flags[m])
    BY <2>4, ContentsToldNext
  <2> QED
    BY <2>4, <2>5, <2>6, <2>7, Zenon
<1>2. Singled'
  BY <1>1, Zenon DEF Singled
<1>3. [m \in Map |-> Contents(m)]' = [m \in Map |-> Contents(m)]
  BY <1>1
<1> QED
  BY <1>2, <1>3 DEF Promise!Fail

\* ndm_strmap_nset() of a key that is there
LEMMA UpdateTold ==
    ASSUME Ready, Singled, NEW m \in Map, NEW k \in Key, NEW x \in Value,
           Update(m, k, x)
    PROVE  Singled' /\ Promise!Next
<1> DEFINE s == Items(m)
           i == Found(m, k)
           b == flags[m]
<1>1. CASE Refuse
  <2>1. Singled' /\ Promise!Fail
    BY <1>1, FailureTells DEF Refuse
  <2> QED
    BY <2>1 DEF Promise!Next
<1>2. CASE /\ heap' = [heap EXCEPT ![s[i]].value = x]
           /\ done' = TRUE
           /\ UNCHANGED <<vec, flags>>
  <2>1. /\ Sound(s, heap) /\ b \in BOOLEAN /\ s \in Seq(Addr) /\ Len(s) \in Nat
        /\ Single(s, heap, b)
    BY ReadyIsSound, ReadyFacts DEF Singled
  <2>2. i = At(s, heap, b, k) /\ i # 0
    BY ContentsTold DEF Update
  <2>3. i \in 1 .. Len(s) /\ Cls(b, heap[s[i]].key) = Cls(b, k)
    <3> HIDE DEF s, i, b
    <3> QED
      BY <2>1, <2>2, AtIsThere
  <2>4. \A j \in 1 .. Len(s) : s[j] \in DOMAIN heap /\ heap[s[j]] \in Entry
    BY ReadyFacts, <2>1 DEF Sound
  <2>5. \A j, l \in 1 .. Len(s) : s[j] = s[l] => j = l
    BY ReadyFacts DEF Ready, Owned
  <2>6. \A n \in Map \ {m} : \A a \in ToSet(Items(n)) :
           a # s[i] /\ a \in DOMAIN heap
    <3> HIDE DEF i
    <3> QED
      BY <2>3, ReadyFacts DEF Ready, Owned, ToSet
  <2> HIDE DEF s, i, b
  <2>7. \A a \in DOMAIN heap :
           heap'[a] = IF a = s[i] THEN [heap[a] EXCEPT !.value = x] ELSE heap[a]
    BY <1>2
  <2>8. /\ heap'[s[i]].key = heap[s[i]].key /\ heap'[s[i]].value = x
        /\ heap'[s[i]] \in Entry
    BY <2>3, <2>4, <2>7 DEF Entry
  <2>9. \A j \in (1 .. Len(s)) \ {i} : heap'[s[j]] = heap[s[j]]
    BY <2>3, <2>4, <2>5, <2>7
  <2>10. /\ Single(s, heap', b)
         /\ Told(s, heap', b) = Promise!With(Told(s, heap, b), Cls(b, k), x)
    BY <2>1, <2>3, <2>8, <2>9, UpdateTells
  <2>11. /\ vec' = [vec EXCEPT ![m] = vec[m]] /\ vec[m].items = s
         /\ flags' = flags /\ flags'[m] = b
    BY <1>2 DEF Ready, MapTypeOK, s, Items, b
  <2>12. \A n \in Map \ {m} : \A a \in ToSet(Items(n)) : heap'[a] = heap[a]
    BY <2>6, <2>7
  <2>13. /\ Singled'
         /\ Stand' = [Stand EXCEPT ![m] = Told(s, heap', b)]
    BY <2>10, <2>11, <2>12, OneMapSteps
  <2>14. Stand[m] = Told(s, heap, b)
    BY ContentsTold DEF Stand, s, b
  <2>15. Stand' = [Stand EXCEPT ![m] = Promise!With(@, Cls(b, k), x)]
    BY <2>10, <2>13, <2>14
  <2>16. Cls(b, k) \in Key
    BY <2>1, ClassOfClass
  <2>17. Promise!Put(m, Cls(b, k), x)
    BY <1>2, <2>15 DEF Promise!Put, Stand
  <2> QED
    BY <2>13, <2>16, <2>17 DEF Promise!Next
<1> QED
  BY <1>1, <1>2 DEF Update

\* ndm_strmap_nset() of a new key
LEMMA AddEntryTold ==
    ASSUME Ready, Singled, NEW m \in Map, NEW k \in Key, NEW x \in Value,
           AddEntry(m, k, x)
    PROVE  Singled' /\ Promise!Next
<1> DEFINE s == Items(m)
           b == flags[m]
<1>1. CASE Refuse
  <2>1. Singled' /\ Promise!Fail
    BY <1>1, FailureTells DEF Refuse
  <2> QED
    BY <2>1 DEF Promise!Next
<1>2. ASSUME NEW new \in Fresh(1), NEW r \in PushBack(vec[m], new[1]),
             vec' = [vec EXCEPT ![m] = r.vec],
             heap' = IF r.done THEN With(heap, new[1], k, x)
                     ELSE Freed(With(heap, new[1], k, x), {new[1]}),
             done' = r.done, UNCHANGED flags
      PROVE  Singled' /\ Promise!Next
  <2> DEFINE a == new[1]
  <2>1. a \in Addr /\ a \notin DOMAIN heap
    BY FreshAreFree
  <2>2. /\ r.done \in BOOLEAN
        /\ r.done => r.vec.items = Append(s, a)
        /\ ~r.done => r.vec = vec[m]
    BY <2>1, ReadyFacts, PushBackIsRegular DEF Items
  <2>3. CASE r.done
    <3>1. /\ Sound(s, heap) /\ b \in BOOLEAN /\ s \in Seq(Addr)
          /\ Single(s, heap, b)
      BY ReadyIsSound, ReadyFacts DEF Singled
    <3>2. At(s, heap, b, k) = 0
      BY ContentsTold DEF AddEntry, Update, Refuse
    <3>3. \A i \in 1 .. Len(s) : Cls(b, heap[s[i]].key) # Cls(b, k)
      <4> HIDE DEF s, b
      <4> QED
        BY <3>1, <3>2, AtIsThere
    <3>4. /\ heap'[a] = [key |-> k, value |-> x]
          /\ \A c \in DOMAIN heap : heap'[c] = heap[c]
      BY <1>2, <2>1, <2>3 DEF With
    <3>5. \A i \in 1 .. Len(s) : heap'[s[i]] = heap[s[i]]
      BY <3>4, ReadyFacts
    <3>6. \A n \in Map \ {m} : \A c \in ToSet(Items(n)) : heap'[c] = heap[c]
      BY <3>4 DEF Ready, Owned
    <3>7. flags' = flags /\ flags'[m] = b
      BY <1>2
    <3> HIDE DEF s, b, a
    <3>8. /\ Single(Append(s, a), heap', b)
          /\ Told(Append(s, a), heap', b) =
                Promise!With(Told(s, heap, b), Cls(b, k), x)
      BY <2>1, <3>1, <3>3, <3>4, <3>5, AppendTells
    <3>9. /\ Singled'
          /\ Stand' = [Stand EXCEPT ![m] = Told(Append(s, a), heap', b)]
      <4>1. /\ vec' = [vec EXCEPT ![m] = r.vec] /\ r.vec.items = Append(s, a)
            /\ \A n \in Map \ {m} : flags'[n] = flags[n]
        BY <1>2, <2>2, <2>3, <3>7
      <4> DEFINE w == r.vec
      <4>2. Single(w.items, heap', flags'[m])
        BY <3>7, <3>8, <4>1
      <4>3. vec' = [vec EXCEPT ![m] = w]
        BY <4>1
      <4> HIDE DEF w
      <4>4. /\ Singled'
            /\ Stand' = [Stand EXCEPT ![m] = Told(w.items, heap', flags'[m])]
        BY <3>6, <4>1, <4>2, <4>3, OneMapSteps
      <4> QED
        BY <3>7, <4>1, <4>4 DEF w
    <3>10. Stand[m] = Told(s, heap, b)
      BY ContentsTold DEF Stand, s, b
    <3>11. Stand' = [Stand EXCEPT ![m] = Promise!With(@, Cls(b, k), x)]
      BY <3>8, <3>9, <3>10
    <3>12. Cls(b, k) \in Key
      BY <3>1, ClassOfClass
    <3>13. done' = TRUE
      BY <1>2, <2>2, <2>3
    <3>14. Promise!Put(m, Cls(b, k), x)
      BY <3>7, <3>11, <3>13 DEF Promise!Put, Stand
    <3> QED
      BY <3>9, <3>12, <3>14 DEF Promise!Next
  <2>4. CASE ~r.done
    <3>1. vec' = vec /\ flags' = flags
      BY <1>2, <2>2, <2>4, ReadyFacts
    <3>2. done' = FALSE
      BY <1>2, <2>2, <2>4
    <3>3. \A c \in DOMAIN heap : heap'[c] = heap[c]
      BY <1>2, <2>1, <2>4 DEF With, Freed, Restrict
    <3>4. Singled' /\ Promise!Fail
      BY <3>1, <3>2, <3>3, FailureTells
    <3> QED
      BY <3>4 DEF Promise!Next
  <2> QED
    BY <2>2, <2>3, <2>4
<1> QED
  BY <1>1, <1>2 DEF AddEntry

\* ndm_strmap_nremove()
LEMMA NRemoveTold ==
    ASSUME Ready, Singled, NEW m \in Map, NEW k \in Key, NRemove(m, k)
    PROVE  Singled' /\ Promise!Next
<1> DEFINE s == Items(m)
           i == Found(m, k)
           b == flags[m]
<1>1. CASE i = 0
  <2>1. Singled' /\ Promise!Fail
    BY <1>1, FailureTells DEF NRemove, Refuse
  <2> QED
    BY <2>1 DEF Promise!Next
<1>2. ASSUME i # 0, NEW w \in RemoveItem(vec[m], i),
             vec' = [vec EXCEPT ![m] = w], heap' = Freed(heap, {s[i]}),
             done' = TRUE, UNCHANGED flags
      PROVE  Singled' /\ Promise!Next
  <2>1. /\ Sound(s, heap) /\ b \in BOOLEAN /\ s \in Seq(Addr) /\ Len(s) \in Nat
        /\ Single(s, heap, b)
    BY ReadyIsSound, ReadyFacts DEF Singled
  <2>2. i = At(s, heap, b, k)
    BY ContentsTold
  <2>3. i \in 1 .. Len(s) /\ Cls(b, heap[s[i]].key) = Cls(b, k)
    <3> HIDE DEF s, i, b
    <3> QED
      BY <1>2, <2>1, <2>2, AtIsThere
  <2>4. w.items = RemoveAt(s, i)
    BY <2>3, ReadyFacts, RemoveItemIsRegular DEF Items
  <2>5. \A j \in 1 .. Len(s) : s[j] \in DOMAIN heap
    BY ReadyFacts
  <2>6. \A j, l \in 1 .. Len(s) : s[j] = s[l] => j = l
    BY ReadyFacts DEF Ready, Owned
  <2>7. \A n \in Map \ {m} : \A a \in ToSet(Items(n)) :
           a # s[i] /\ a \in DOMAIN heap
    <3> HIDE DEF i
    <3> QED
      BY <2>3, ReadyFacts DEF Ready, Owned, ToSet
  <2> HIDE DEF s, i
  <2>8. \A a \in DOMAIN heap \ {s[i]} : heap'[a] = heap[a]
    BY <1>2 DEF Freed, Restrict
  <2>9. \A j \in (1 .. Len(s)) \ {i} : heap'[s[j]] = heap[s[j]]
    BY <2>3, <2>5, <2>6, <2>8
  <2>10. \A n \in Map \ {m} : \A a \in ToSet(Items(n)) : heap'[a] = heap[a]
    BY <2>7, <2>8
  <2>11. flags' = flags /\ flags'[m] = b /\ \A n \in Map \ {m} : flags'[n] = flags[n]
    BY <1>2
  <2> HIDE DEF b
  <2>12. /\ Single(w.items, heap', b)
         /\ Told(w.items, heap', b) = Promise!Without(Told(s, heap, b), Cls(b, k))
    BY <2>1, <2>3, <2>4, <2>9, RemoveTells
  <2>13. Single(w.items, heap', flags'[m])
    BY <2>11, <2>12
  <2>14. /\ Singled'
         /\ Stand' = [Stand EXCEPT ![m] = Told(w.items, heap', flags'[m])]
    BY <1>2, <2>10, <2>11, <2>13, OneMapSteps
  <2>15. Stand[m] = Told(s, heap, b)
    BY ContentsTold DEF Stand, s, b
  <2>16. Stand' = [Stand EXCEPT ![m] = Promise!Without(@, Cls(b, k))]
    BY <2>11, <2>12, <2>14, <2>15
  <2>17. Cls(b, k) \in Key /\ Cls(b, k) \in DOMAIN Stand[m]
    <3>1. Cls(b, k) \in Classes(s, heap, b)
      BY <2>3 DEF Classes
    <3>2. DOMAIN Told(s, heap, b) = Classes(s, heap, b)
      BY <2>1, ToldOnClasses
    <3> QED
      BY <2>1, <2>15, <3>1, <3>2, ClassOfClass
  <2>18. done' <=> Cls(b, k) \in DOMAIN Stand[m]
    BY <1>2, <2>17
  <2>19. done' = (Cls(b, k) \in DOMAIN Stand[m])
    BY <1>2, <2>17
  <2>20. Promise!Drop(m, Cls(b, k))
    BY <2>11, <2>16, <2>19 DEF Promise!Drop, Stand
  <2> QED
    BY <2>14, <2>17, <2>20 DEF Promise!Next
<1> QED
  BY <1>1, <1>2 DEF NRemove

\* Nothing stands for the empty function.
LEMMA NothingTold ==
    ASSUME NEW h, NEW b
    PROVE  Single(<< >>, h, b) /\ Told(<< >>, h, b) = << >>
<1>1. Len(<< >>) = 0 /\ 1 .. 0 = {} /\ ToSet(<< >>) = {}
  BY DEF ToSet
<1>2. Single(<< >>, h, b)
  BY <1>1 DEF Single
<1>3. Told(<< >>, h, b) = << >>
  BY <1>1 DEF Told
<1> QED
  BY <1>2, <1>3

\* ndm_strmap_clear()
LEMMA ClearTold ==
    ASSUME Ready, Singled, NEW m \in Map, Clear(m)
    PROVE  Singled' /\ Promise!Next
<1> DEFINE w == EmptyVector
<1>1. vec' = [vec EXCEPT ![m] = w] /\ w.items = << >>
  BY DEF Clear, EmptyVector
<1>2. \A n \in Map \ {m} : flags'[n] = flags[n]
  BY DEF Clear
<1>3. \A n \in Map \ {m} : \A a \in ToSet(Items(n)) :
         a \in DOMAIN heap /\ a \notin ToSet(Items(m))
  BY DEF Ready, Owned, ToSet
<1>4. \A n \in Map \ {m} : \A a \in ToSet(Items(n)) : heap'[a] = heap[a]
  BY <1>3 DEF Clear, Freed, Restrict
<1> HIDE DEF w
<1>5. /\ Single(w.items, heap', flags'[m])
      /\ Told(w.items, heap', flags'[m]) = << >>
  BY <1>1, NothingTold
<1>6. /\ Singled'
      /\ Stand' = [Stand EXCEPT ![m] = Told(w.items, heap', flags'[m])]
  BY <1>1, <1>2, <1>4, <1>5, OneMapSteps
<1>7. Promise!Clear(m)
  BY <1>5, <1>6 DEF Promise!Clear, Stand, Clear
<1> QED
  BY <1>6, <1>7 DEF Promise!Next

\* ndm_strmap_assign() of another map
LEMMA AssignTold ==
    ASSUME Ready, Singled, NEW d \in Map, NEW s \in Map, d # s, AssignCopies(d, s)
    PROVE  Singled' /\ Promise!Next
<1> DEFINE src == Items(s)
           n == Len(src)
           b == flags[s]
           v(new, k) == SubSeq(new, 1, k) \o SubSeq(src, k + 1, n)
<1>1. /\ src \in Seq(Addr) /\ n \in Nat /\ flags \in [Map -> BOOLEAN]
      /\ Sound(src, heap) /\ b \in BOOLEAN /\ Single(src, heap, b)
  BY ReadyFacts, ReadyIsSound DEF Ready, MapTypeOK, Singled
<1>2. ASSUME NEW new \in Fresh(n)
      PROVE  /\ new \in Seq(Addr) /\ Len(new) = n
             /\ \A i \in 1 .. n : new[i] \in Addr \ DOMAIN heap
             /\ \A i, j \in 1 .. n : new[i] = new[j] => i = j
  <2> HIDE DEF n
  <2> QED
    BY <1>1, FreshAreFree
<1>3. CASE Refuse
  <2>1. Singled' /\ Promise!Fail
    BY <1>3, FailureTells DEF Refuse
  <2> QED
    BY <2>1 DEF Promise!Next
<1>4. ASSUME NEW new \in Fresh(n), NEW k \in 0 .. n - 1,
             heap' = Freed(Copied(heap, new, src, k), Undone(v(new, k), k)),
             done' = FALSE, UNCHANGED <<vec, flags>>
      PROVE  Singled' /\ Promise!Next
  <2> DEFINE w == v(new, k)
  <2>1. k \in 0 .. n
    BY <1>1
  <2>2. /\ w \in Seq(Addr) /\ Len(w) = n
        /\ \A i \in 1 .. k : w[i] = new[i]
    BY <1>1, <1>2, <2>1, PartlyCopied
  <2>3. heap' = Freed(Copied(heap, new, src, k), Undone(w, k))
    BY <1>4
  <2> HIDE DEF w
  <2>4. \A a \in Undone(w, k) : a \notin DOMAIN heap
    <3>1. /\ DOMAIN SubSeq(w, 1, k) = 1 .. k
          /\ \A i \in 1 .. k : SubSeq(w, 1, k)[i] = new[i]
      BY <1>1, <2>1, <2>2
    <3>2. \A i \in 1 .. k : new[i] \notin DOMAIN heap
      BY <1>1, <1>2, <2>1
    <3> QED
      BY <3>1, <3>2 DEF Undone, ToSet
  <2>5. \A a \in DOMAIN heap : heap'[a] = heap[a]
    BY <2>3, <2>4 DEF Freed, Restrict, Copied
  <2>6. Singled' /\ Promise!Fail
    BY <1>4, <2>5, FailureTells
  <2> QED
    BY <2>6 DEF Promise!Next
<1>5. ASSUME NEW r \in Assigned(EmptyVector, vec[s]), r.done,
             NEW new \in Fresh(n),
             heap' = Freed(Copied(heap, new, src, n), ToSet(Items(d))),
             vec' = [vec EXCEPT ![d] = [r.vec EXCEPT !.items = v(new, n)]],
             flags' = Taken(d, s), done' = TRUE
      PROVE  Singled' /\ Promise!Next
  <2> DEFINE w == [r.vec EXCEPT !.items = new]
  <2>1. v(new, n) = new
    BY <1>1, <1>2, AllCopied
  <2>2. w.items = new
    <3>1. Len(new) = Len(vec[s].items) /\ Regular(vec[s])
      BY <1>2, ReadyFacts DEF Items
    <3> QED
      BY <1>1, <1>2, <1>5, <3>1, AssignedIsRegular
  <2>3. vec' = [vec EXCEPT ![d] = w]
    BY <1>5, <2>1
  <2> HIDE DEF w
  <2>4. flags'[d] = b /\ \A m \in Map \ {d} : flags'[m] = flags[m]
    BY <1>1, <1>5 DEF Taken
  <2>5. \A m \in Map \ {d} : \A a \in ToSet(Items(m)) :
           a \in DOMAIN heap /\ a \notin ToSet(Items(d))
    BY DEF Ready, Owned, ToSet
  <2>6. \A a \in DOMAIN heap \ ToSet(Items(d)) : heap'[a] = heap[a]
    BY <1>5 DEF Freed, Restrict, Copied
  <2>7. \A m \in Map \ {d} : \A a \in ToSet(Items(m)) : heap'[a] = heap[a]
    BY <2>5, <2>6
  <2>8. \A i \in 1 .. n : heap'[new[i]] = heap[src[i]]
    <3> TAKE i \in 1 .. n
    <3> DEFINE a == new[i]
               j == CHOOSE l \in 1 .. n : new[l] = a
    <3>1. j \in 1 .. n /\ new[j] = a
      OBVIOUS
    <3>2. j = i
      BY <1>2, <3>1
    <3>3. a \notin DOMAIN heap
      BY <1>2
    <3>4. Copied(heap, new, src, n)[a] = heap[src[j]]
      BY <3>3 DEF Copied
    <3>5. a \in DOMAIN Copied(heap, new, src, n)
      BY DEF Copied
    <3>6. a \notin ToSet(Items(d))
      BY <3>3 DEF Ready, Owned
    <3> HIDE DEF a, j
    <3>7. heap'[a] = Copied(heap, new, src, n)[a]
      BY <1>5, <3>5, <3>6 DEF Freed, Restrict
    <3> QED
      BY <3>2, <3>4, <3>7 DEF a
  <2> HIDE DEF src, b, n
  <2>9. n = Len(src)
    BY DEF n, src
  <2>10. /\ Single(new, heap', b)
         /\ Told(new, heap', b) = Told(src, heap, b)
    BY <1>1, <1>2, <2>8, <2>9, CopiesTellTheSame
  <2>11. Single(w.items, heap', flags'[d])
    BY <2>2, <2>4, <2>10
  <2>12. /\ Singled'
         /\ Stand' = [Stand EXCEPT ![d] = Told(w.items, heap', flags'[d])]
    BY <2>3, <2>4, <2>7, <2>11, OneMapSteps
  <2>13. Stand[s] = Told(src, heap, b)
    BY ContentsTold DEF Stand, src, b
  <2>14. Stand' = [Stand EXCEPT ![d] = Stand[s]]
    BY <2>2, <2>4, <2>10, <2>12, <2>13
  <2>15. flags' = [flags EXCEPT ![d] = flags[s]]
    BY <1>5 DEF Taken
  <2>16. Promise!Copy(d, s)
    BY <1>5, <2>14, <2>15 DEF Promise!Copy, Stand
  <2> QED
    BY <2>12, <2>16 DEF Promise!Next
<1> QED
  BY <1>3, <1>4, <1>5 DEF AssignCopies

\* ndm_strmap_swap()
LEMMA SwapTold ==
    ASSUME Ready, Singled, NEW l \in Map, NEW r \in Map, Swap(l, r)
    PROVE  Singled' /\ Promise!Next
<1> DEFINE from(m) == IF m = r THEN l ELSE IF m = l THEN r ELSE m
<1>1. /\ vec \in [Map -> Vector(Addr)] /\ flags \in [Map -> BOOLEAN]
      /\ heap' = heap
  BY DEF Ready, MapTypeOK, Swap
<1>2. \A m \in Map : /\ from(m) \in Map /\ vec'[m] = vec[from(m)]
                     /\ flags'[m] = flags[from(m)]
  BY <1>1 DEF Swap
<1>3. Stand[l] = Contents(l) /\ Stand[r] = Contents(r)
  BY DEF Stand
<1>4. \A m \in Map :
         Contents(from(m)) = [Stand EXCEPT ![l] = Stand[r], ![r] = Stand[l]][m]
  BY DEF Stand
<1> HIDE DEF from
<1>5. \A m \in Map : Items(m)' = Items(from(m))
  BY <1>2 DEF Items
<1>6. Singled'
  BY <1>1, <1>2, <1>5 DEF Singled
<1>7. \A m \in Map : Contents(m)' = Contents(from(m))
  <2> TAKE m \in Map
  <2>1. Contents(m)' = Told(Items(m)', heap', flags'[m])
    BY ContentsToldNext
  <2>2. Contents(from(m)) = Told(Items(from(m)), heap, flags[from(m)])
    BY <1>2, ContentsTold
  <2> QED
    BY <1>1, <1>2, <1>5, <2>1, <2>2, Zenon
<1>8. Stand' = [Stand EXCEPT ![l] = Stand[r], ![r] = Stand[l]]
  BY <1>4, <1>7 DEF Stand
<1>9. Promise!Swap(l, r)
  BY <1>8 DEF Promise!Swap, Stand, Swap
<1> QED
  BY <1>6, <1>9 DEF Promise!Next

\* Maps that stay as they are
LEMMA SingledSame ==
    ASSUME Singled, UNCHANGED <<vec, flags, heap>>
    PROVE  Singled'
<1>1. vec' = vec /\ flags' = flags /\ heap' = heap
  OBVIOUS
<1>2. \A m \in Map : Items(m)' = Items(m)
  BY <1>1 DEF Items
<1>3. \A m \in Map : Single(Items(m)', heap', flags'[m])
  BY <1>1, <1>2, Zenon DEF Singled
<1> QED
  BY <1>3, Zenon DEF Singled

\* What a step promises, a call of a map by itself included
LEMMA NextTold ==
    ASSUME MapInv, Singled, MapNext
    PROVE  Singled' /\ Promise!Next
<1>1. Ready
  BY DEF MapInv, MapNext, Ready, EntriesAreOwned, Owned
<1>2. CASE \E m \in Map, k \in Key : NRemove(m, k)
  BY <1>1, <1>2, NRemoveTold
<1>3. CASE \E m \in Map, k \in Key, x \in Value : NSet(m, k, x)
  BY <1>1, <1>3, UpdateTold, AddEntryTold DEF NSet
<1>4. CASE \E m \in Map : Clear(m)
  BY <1>1, <1>4, ClearTold
<1>5. CASE \E d, s \in Map : Assign(d, s)
  <2>1. PICK d \in Map, s \in Map : Assign(d, s)
    BY <1>5
  <2>2. CASE d = s /\ done' = TRUE /\ UNCHANGED <<vec, flags, heap>>
    <3>1. Singled'
      BY <2>2, SingledSame
    <3>2. \A m \in Map : Contents(m)' = Contents(m)
      <4> TAKE m \in Map
      <4>1. Items(m)' = Items(m) /\ heap' = heap /\ flags'[m] = flags[m]
        BY <2>2 DEF Items
      <4> QED
        BY <4>1, ContentsTold, ContentsToldNext, Zenon
    <3>3. Stand' = Stand
      BY <3>2 DEF Stand
    <3>4. Stand = [Stand EXCEPT ![d] = Stand[d]]
      BY DEF Stand
    <3>5. flags' = [flags EXCEPT ![d] = flags[d]]
      BY <1>1, <2>2 DEF Ready, MapTypeOK
    <3>6. Promise!Copy(d, d)
      BY <2>2, <3>3, <3>4, <3>5 DEF Promise!Copy, Stand
    <3> QED
      BY <3>1, <3>6 DEF Promise!Next
  <2>3. CASE d # s /\ AssignCopies(d, s)
    BY <1>1, <2>3, AssignTold
  <2> QED
    BY <2>1, <2>2, <2>3 DEF Assign
<1>6. CASE \E l, r \in Map : Swap(l, r)
  BY <1>1, <1>6, SwapTold
<1> QED
  BY <1>2, <1>3, <1>4, <1>5, <1>6 DEF MapNext

\* Empty maps stand for empty functions.
LEMMA InitTold ==
    ASSUME MapInit
    PROVE  Singled /\ Promise!Init
<1>1. ASSUME NEW m \in Map
      PROVE  Single(Items(m), heap, flags[m]) /\ Contents(m) = << >>
  <2>1. Items(m) = << >>
    BY DEF MapInit, Items, EmptyVector
  <2> QED
    BY <2>1, ContentsTold, NothingTold, Zenon
<1>2. Singled
  BY <1>1 DEF Singled
<1>3. Promise!Init
  BY <1>1 DEF Promise!Init, MapInit
<1> QED
  BY <1>2, <1>3

\* The maps implement StringMaps: for any keys, however they are folded, any
\* number of maps and whichever allocations fail, a call changes the function
\* of its own map as it says, or fails and changes none.
THEOREM MapsKeepPromise == MapSpec => PromiseKept
<1>1. MapInit => Singled /\ Promise!Init
  BY InitTold
<1>2. MapInv /\ Singled /\ [MapNext]_mapVars => Singled'
  <2>1. ASSUME Singled, UNCHANGED mapVars
        PROVE  Singled'
    BY <2>1, SingledSame DEF mapVars
  <2> QED
    BY <2>1, NextTold
<1>3. MapSpec => []Singled
  BY <1>1, <1>2, MapInvariant, PTL DEF MapSpec
<1>4. MapInv /\ Singled /\ [MapNext]_mapVars => [Usable' => Promise!Next]_mapVars
  BY NextTold
<1> QED
  BY <1>1, <1>3, <1>4, MapInvariant, PTL DEF MapSpec, PromiseKept

-----------------------------------------------------------------------------
(* Pools. *)

Allocation == [block : Nat, from : Int, len : Nat, size : Nat]

PoolTypeOK ==
    /\ blocks \in Seq(Nat) /\ given \in Seq(Allocation)
    /\ available \in Nat /\ is_valid \in BOOLEAN

Blocks == \A b \in DOMAIN blocks : blocks[b] >= DynamicSize

\* Only a block of the usual size has bytes left.
InUse == available > 0 /\ blocks # << >> => blocks[Len(blocks)] = DynamicSize

Inside(a) ==
    /\ a.block \in 0 .. Len(blocks)
    /\ a.from + a.len \in 0 .. BlockSize(a.block)
    /\ a.len > 0 => a.from >= (IF a.block = 0 THEN 0 ELSE Ptr)
    /\ available > 0 /\ a.block = Len(blocks) => a.from + a.len <= BlockEnd - available

AllHonest == \A i \in DOMAIN given : Honest(given[i])

PoolInv ==
    /\ PoolTypeOK
    /\ AllHonest =>
          /\ Blocks /\ InUse /\ available <= BlockEnd
          /\ available > 0 /\ blocks # << >> => available <= BlockEnd - Ptr
          /\ \A i \in DOMAIN given :
                Inside(given[i]) /\ \A j \in 1 .. i - 1 : Disjoint(given[i], given[j])

-----------------------------------------------------------------------------
LEMMA Remainder == \A t \in Nat : (t % Ptr) \in 0 .. Ptr - 1
PROOF
  BY PoolAssumption

LEMMA NoWrap == \A t \in Nat : t < Modulus => t % Modulus = t
PROOF
  BY PoolAssumption

\* Rounding up goes up, by less than a pointer, where nothing wraps.
LEMMA AlignRounds ==
    ASSUME NEW size \in Nat, size + 2 * Ptr <= Modulus
    PROVE  Align(size) \in size .. size + Ptr - 1
PROOF
<1> DEFINE top == size + Ptr - 1
<1>1. top \in Nat /\ top < Modulus
  BY PoolAssumption
<1>2. top % Modulus = top
  BY <1>1, PoolAssumption
<1>3. (top % Ptr) \in 0 .. Ptr - 1
  BY <1>1, Remainder
<1>4. Align(size) = top - (top % Ptr)
  BY <1>2 DEF Align
<1> HIDE DEF top
<1>5. top - (top % Ptr) \in top - Ptr + 1 .. top
  BY <1>1, <1>3, PoolAssumption
<1> QED
  BY <1>4, <1>5, PoolAssumption DEF top

LEMMA AlignIsNat == ASSUME NEW size \in Nat PROVE Align(size) \in Nat
PROOF
<1> DEFINE top == (size + Ptr - 1) % Modulus
<1>1. top \in Nat
  BY PoolAssumption
<1> HIDE DEF top
<1>2. (top % Ptr) \in 0 .. top
  BY <1>1, PoolAssumption
<1> QED
  BY <1>1, <1>2 DEF Align, top

-----------------------------------------------------------------------------
(* Steps. *)

LEMMA InitHasInv == PoolInit => PoolInv
PROOF
  BY PoolAssumption DEF PoolInit, PoolInv, PoolTypeOK, AllHonest, Blocks, InUse, BlockEnd

LEMMA ClearKeepsInv == PoolClear => PoolInv'
PROOF
  BY PoolAssumption DEF PoolClear, PoolInv, PoolTypeOK, AllHonest, Blocks, InUse, BlockEnd

\* What holds of a new allocation, its block and what was given before it.
LEMMA GivenKeepsInv ==
    ASSUME PoolInv, PoolTypeOK', NEW a, given' = Append(given, a),
           AllHonest' => /\ Blocks' /\ InUse' /\ available' <= BlockEnd'
                         /\ available' > 0 /\ blocks' # << >> => available' <= BlockEnd' - Ptr
                         /\ Inside(a)'
                         /\ \A i \in DOMAIN given :
                               Inside(given[i])' /\ Disjoint(a, given[i])
    PROVE  PoolInv'
PROOF
<1> USE DEF PoolInv, PoolTypeOK
<1>1. SUFFICES ASSUME AllHonest'
               PROVE \A i \in DOMAIN given' :
                        Inside(given[i])' /\ \A j \in 1 .. i - 1 : Disjoint(given[i], given[j])'
  OBVIOUS
<1>2. DOMAIN given' = 1 .. Len(given) + 1 /\ DOMAIN given = 1 .. Len(given)
  OBVIOUS
<1>3. \A i \in DOMAIN given : given'[i] = given[i]
  OBVIOUS
<1>4. given'[Len(given) + 1] = a
  OBVIOUS
<1>5. AllHonest
  BY <1>1, <1>2, <1>3 DEF AllHonest
<1>6. TAKE i \in DOMAIN given'
<1>7. CASE i = Len(given) + 1
  <2>1. given'[i] = a
    BY <1>4, <1>7
  <2>2. Inside(given[i])'
    BY <1>1, <2>1 DEF Inside
  <2>3. ASSUME NEW j \in 1 .. i - 1 PROVE Disjoint(given[i], given[j])'
    <3>1. j \in DOMAIN given
      BY <1>2, <1>7
    <3>2. Disjoint(a, given[j])
      BY <1>1, <3>1
    <3> QED
      BY <1>3, <2>1, <3>1, <3>2 DEF Disjoint
  <2> QED
    BY <2>2, <2>3
<1>8. CASE i \in DOMAIN given
  BY <1>1, <1>2, <1>3, <1>5, <1>8
<1> QED
  BY <1>2, <1>6, <1>7, <1>8

\* What is given from the block in use lies behind all that came from it.
LEMMA FromBlockKeepsInv ==
    ASSUME PoolInv, NEW len \in Nat, NEW size \in Nat, FromBlock(len, size)
    PROVE  PoolInv'
PROOF
<1> PICK a : a = [block |-> Len(blocks), from |-> BlockEnd - available, len |-> len, size |-> size]
  OBVIOUS
<1> USE DEF PoolInv, PoolTypeOK
<1>1. given' = Append(given, a) /\ available' = available - Align(size)
      /\ available >= Align(size) /\ UNCHANGED <<blocks, is_valid>>
  BY DEF FromBlock, Given
<1>2. BlockEnd \in Nat /\ BlockEnd' = BlockEnd
  BY <1>1, PoolAssumption DEF BlockEnd
<1>3. Align(size) \in Nat
  BY AlignIsNat
<1>4. a \in Allocation
  BY <1>1, <1>2 DEF Allocation
<1>5. PoolTypeOK'
  BY <1>1, <1>3, <1>4
<1>6. ASSUME AllHonest'
      PROVE  /\ Blocks' /\ InUse' /\ available' <= BlockEnd'
             /\ available' > 0 /\ blocks' # << >> => available' <= BlockEnd' - Ptr
             /\ Inside(a)'
             /\ \A i \in DOMAIN given : Inside(given[i])' /\ Disjoint(a, given[i])
  <2>1. Honest(a) /\ AllHonest
    <3>1. given'[Len(given) + 1] = a /\ Len(given) + 1 \in DOMAIN given'
      BY <1>1, <1>4
    <3>2. \A i \in DOMAIN given : given'[i] = given[i] /\ i \in DOMAIN given'
      BY <1>1, <1>4
    <3> QED
      BY <1>6, <3>1, <3>2 DEF AllHonest
  <2>2. len = size /\ Align(size) \in size .. size + Ptr - 1
    BY <2>1, AlignRounds DEF Honest
  <2>3. /\ Blocks /\ InUse /\ available <= BlockEnd
        /\ available > 0 /\ blocks # << >> => available <= BlockEnd - Ptr
        /\ \A i \in DOMAIN given : Inside(given[i])
    BY <2>1
  <2>4. Blocks' /\ InUse' /\ available' <= BlockEnd'
        /\ (available' > 0 /\ blocks' # << >> => available' <= BlockEnd' - Ptr)
    <3>1. available' \in Nat /\ available' <= available
      BY <1>1, <1>3
    <3>2. Blocks' /\ InUse'
      BY <1>1, <2>3, <3>1 DEF Blocks, InUse
    <3> QED
      BY <1>1, <1>2, <2>3, <3>1, <3>2, PoolAssumption
  <2>5. blocks # << >> => Len(blocks) \in DOMAIN blocks /\ blocks[Len(blocks)] \in Nat
                          /\ blocks[Len(blocks)] >= DynamicSize
    BY <2>3 DEF Blocks
  <2>6. Inside(a)'
    <3>1. BlockSize(Len(blocks)) \in Nat /\ BlockEnd <= BlockSize(Len(blocks))
      BY <2>5, PoolAssumption DEF BlockSize, BlockEnd
    <3>2. available > 0 => BlockSize(Len(blocks)) = BlockEnd
      BY <2>3 DEF BlockSize, BlockEnd, InUse
    <3>3. a.block \in 0 .. Len(blocks) /\ a.from = BlockEnd - available /\ a.len = size
      BY <2>2
    <3>4. a.from + a.len \in 0 .. BlockSize(Len(blocks))
      BY <1>1, <1>2, <1>3, <2>2, <2>3, <3>1, <3>2, <3>3
    <3>5. a.from + a.len <= BlockEnd - available'
      BY <1>1, <1>2, <1>3, <2>2, <3>3
    <3>6. a.len > 0 => a.from >= (IF a.block = 0 THEN 0 ELSE Ptr)
      BY <1>1, <1>2, <1>3, <2>2, <2>3, <3>3, PoolAssumption
    <3> QED
      BY <1>1, <1>2, <3>3, <3>4, <3>5, <3>6 DEF Inside, BlockSize
  <2>7. ASSUME NEW i \in DOMAIN given PROVE Inside(given[i])' /\ Disjoint(a, given[i])
    <3>1. Inside(given[i]) /\ given[i] \in Allocation /\ given'[i] = given[i]
      BY <1>1, <1>4, <2>3
    <3>2. Inside(given[i])'
      <4>1. available' <= available /\ (available' > 0 => available > 0)
        BY <1>1, <1>3
      <4>2. PICK g : g \in Allocation /\ g = given[i] /\ g = given'[i]
        BY <3>1
      <4>3. g.from + g.len \in 0 .. BlockSize(g.block) /\ BlockSize(g.block)' = BlockSize(g.block)
        BY <1>1, <3>1, <4>2 DEF Inside, BlockSize
      <4>4. g.from \in Int /\ g.len \in Nat
        BY <4>2 DEF Allocation
      <4>5. available' > 0 /\ g.block = Len(blocks') => g.from + g.len <= BlockEnd' - available'
        BY <1>1, <1>2, <1>3, <3>1, <4>1, <4>2, <4>4 DEF Inside
      <4> QED
        BY <1>1, <3>1, <4>2, <4>3, <4>5 DEF Inside
    <3>3. Disjoint(a, given[i])
      BY <1>1, <1>2, <1>3, <2>2, <3>1 DEF Inside, Disjoint, Allocation
    <3> QED
      BY <3>2, <3>3
  <2> QED
    BY <2>4, <2>6, <2>7
<1> QED
  BY <1>1, <1>5, <1>6, GivenKeepsInv

\* A new block is as large as it has to be, and what it has left is counted
\* from its usual end only when it has the usual size.
LEMMA FromNewBlockKeepsInv ==
    ASSUME PoolInv, NEW len \in Nat, NEW size \in Nat, FromNewBlock(len, size)
    PROVE  PoolInv'
PROOF
<1> USE DEF PoolInv, PoolTypeOK
<1>1. CASE is_valid' = FALSE /\ UNCHANGED <<blocks, available, given>>
  BY <1>1 DEF AllHonest, Honest, Blocks, InUse, BlockEnd, Inside, BlockSize, Disjoint
<1>2. CASE /\ blocks' = Append(blocks, AllocSize(size))
           /\ Given(Len(blocks) + 1, Ptr, len, size)
           /\ available' = AllocSize(size) - Need(size)
           /\ UNCHANGED is_valid
  <2> PICK a : a = [block |-> Len(blocks) + 1, from |-> Ptr, len |-> len, size |-> size]
    OBVIOUS
  <2>1. given' = Append(given, a)
    BY <1>2 DEF Given
  <2>2. a \in Allocation
    BY PoolAssumption DEF Allocation
  <2>3. Need(size) \in Nat
    <3>1. Align(size) \in Nat
      BY AlignIsNat
    <3> QED
      BY <3>1, PoolAssumption DEF Need
  <2>4. AllocSize(size) \in Nat /\ available' \in Nat /\ AllocSize(size) >= DynamicSize
        /\ (available' > 0 => AllocSize(size) = DynamicSize)
    BY <1>2, <2>3, PoolAssumption DEF AllocSize
  <2>5. Len(blocks') = Len(blocks) + 1 /\ blocks' # << >>
        /\ blocks'[Len(blocks')] = AllocSize(size)
        /\ \A b \in DOMAIN blocks : blocks'[b] = blocks[b]
        /\ DOMAIN blocks = 1 .. Len(blocks) /\ DOMAIN blocks' = 1 .. Len(blocks')
    <3> PICK n : n \in Nat /\ n = AllocSize(size) /\ blocks' = Append(blocks, n)
      BY <1>2, <2>4
    <3> QED
      OBVIOUS
  <2>6. PoolTypeOK'
    BY <1>2, <2>1, <2>2, <2>4
  <2>7. BlockEnd' = DynamicSize
    BY <2>5 DEF BlockEnd
  <2>8. ASSUME AllHonest'
        PROVE  /\ Blocks' /\ InUse' /\ available' <= BlockEnd'
               /\ available' > 0 /\ blocks' # << >> => available' <= BlockEnd' - Ptr
               /\ Inside(a)'
               /\ \A i \in DOMAIN given : Inside(given[i])' /\ Disjoint(a, given[i])
    <3>1. Honest(a) /\ AllHonest
      <4>1. given'[Len(given) + 1] = a /\ Len(given) + 1 \in DOMAIN given'
        BY <2>1, <2>2
      <4>2. \A i \in DOMAIN given : given'[i] = given[i] /\ i \in DOMAIN given'
        BY <2>1, <2>2
      <4> QED
        BY <2>8, <4>1, <4>2 DEF AllHonest
    <3>2. len = size /\ size + 2 * Ptr <= Modulus
      BY <3>1 DEF Honest
    <3>3. Align(size) \in size .. size + Ptr - 1
      BY <3>2, AlignRounds
    <3>4. Need(size) = Ptr + Align(size)
      <4> DEFINE need == Ptr + Align(size)
      <4>1. need \in Nat /\ need < Modulus
        BY <3>2, <3>3, PoolAssumption
      <4>2. Need(size) = need % Modulus
        BY DEF Need
      <4> HIDE DEF need
      <4>3. Need(size) = need
        BY <4>1, <4>2, NoWrap
      <4> QED
        BY <4>3 DEF need
    <3>5. Blocks' /\ InUse'
      BY <2>4, <2>5, <3>1 DEF Blocks, InUse
    <3>6. available' <= BlockEnd' /\ (available' > 0 => available' <= BlockEnd' - Ptr)
      BY <1>2, <2>3, <2>4, <2>7, <3>3, <3>4, PoolAssumption
    <3>7. Inside(a)'
      <4>1. Ptr + size <= AllocSize(size)
        BY <2>3, <3>3, <3>4, PoolAssumption DEF AllocSize
      <4>2. available' > 0 => Ptr + size <= DynamicSize - available'
        BY <1>2, <2>4, <3>3, <3>4, PoolAssumption
      <4>3. PICK n : n = Len(blocks) + 1
        OBVIOUS
      <4>4. BlockSize(n)' = AllocSize(size)
        BY <2>5, <4>3 DEF BlockSize
      <4>5. a.block = n /\ a.from = Ptr /\ a.len = size
        BY <3>2, <4>3
      <4>6. a.block \in 0 .. Len(blocks') /\ a.from + a.len \in 0 .. BlockSize(a.block)'
        BY <2>4, <2>5, <4>1, <4>3, <4>4, <4>5, PoolAssumption
      <4>7. available' > 0 => a.from + a.len <= BlockEnd' - available'
        BY <2>7, <4>2, <4>5
      <4>8. a.from >= (IF a.block = 0 THEN 0 ELSE Ptr)
        BY <4>5, PoolAssumption
      <4> QED
        BY <4>6, <4>7, <4>8 DEF Inside
    <3>8. ASSUME NEW i \in DOMAIN given PROVE Inside(given[i])' /\ Disjoint(a, given[i])
      <4>1. PICK g : g \in Allocation /\ g = given[i] /\ g = given'[i]
        BY <2>1, <2>2
      <4>2. Inside(g)
        BY <3>1, <4>1
      <4>3. g.block \in 0 .. Len(blocks) /\ g.block # Len(blocks')
        BY <2>5, <4>2 DEF Inside
      <4>4. BlockSize(g.block)' = BlockSize(g.block)
        BY <2>5, <4>3 DEF BlockSize
      <4>5. Inside(given[i])'
        BY <2>5, <4>1, <4>2, <4>3, <4>4 DEF Inside
      <4>6. Disjoint(a, given[i])
        BY <2>5, <4>1, <4>3 DEF Disjoint
      <4> QED
        BY <4>5, <4>6
    <3> QED
      BY <3>5, <3>6, <3>7, <3>8
  <2> QED
    BY <2>1, <2>6, <2>8, GivenKeepsInv
<1> QED
  BY <1>1, <1>2 DEF FromNewBlock

LEMMA MallocKeepsInv ==
    ASSUME PoolInv, NEW len \in Nat, NEW size \in Nat, Malloc(len, size)
    PROVE  PoolInv'
PROOF
<1>1. CASE NotFromInvalid
  BY <1>1 DEF NotFromInvalid, poolVars, PoolInv, PoolTypeOK, AllHonest, Honest, Blocks, InUse,
     BlockEnd, Inside, BlockSize, Disjoint
<1> QED
  BY <1>1, FromBlockKeepsInv, FromNewBlockKeepsInv DEF Malloc

LEMMA StepKeepsInv == PoolInv /\ [PoolNext]_poolVars => PoolInv'
PROOF
<1> SUFFICES ASSUME PoolInv, [PoolNext]_poolVars PROVE PoolInv'
  OBVIOUS
<1>1. CASE PoolClear
  BY <1>1, ClearKeepsInv
<1>2. ASSUME NEW size \in Request, Malloc(size, size) PROVE PoolInv'
  BY <1>2, MallocKeepsInv, PoolAssumption
<1>3. ASSUME NEW size \in Request, NEW n \in Request, Calloc(n, size) PROVE PoolInv'
  <2>1. n * size \in Nat
    BY PoolAssumption
  <2>2. Modulus \in Nat /\ Modulus > 0
    BY PoolAssumption
  <2> DEFINE len == n * size
  <2> HIDE DEF len
  <2>3. len \in Nat /\ (len % Modulus) \in Nat
    BY <2>1, <2>2 DEF len
  <2>4. Malloc(len, len % Modulus)
    BY <1>3 DEF Calloc, len
  <2> QED
    BY <2>3, <2>4, MallocKeepsInv
<1>4. ASSUME NEW n \in Request, Strdup(n) PROVE PoolInv'
  BY <1>4, MallocKeepsInv, PoolAssumption DEF Strdup
<1>5. CASE UNCHANGED poolVars
  BY <1>5 DEF poolVars, PoolInv, PoolTypeOK, AllHonest, Honest, Blocks, InUse, BlockEnd, Inside,
     BlockSize, Disjoint
<1> QED
  BY <1>1, <1>2, <1>3, <1>4, <1>5 DEF PoolNext

\* Where the next bytes come from, for every pool and every request.
THEOREM PoolInvariance == PoolSpec => []PoolInv
PROOF
  BY InitHasInv, StepKeepsInv, PTL DEF PoolSpec

\* What a pool gives out lies within its blocks and apart, whatever the sizes of
\* the blocks and of the requests, as long as no request wraps round.
THEOREM PoolGivesApart == PoolSpec => []AllocationsAreApart
PROOF
<1>1. PoolInv => AllocationsAreApart
  BY DEF PoolInv, AllHonest, Inside, AllocationsAreApart
<1> QED
  BY <1>1, PoolInvariance, PTL

\* The items of f in f \o g
LEMMA FirstPart ==
    ASSUME NEW S, NEW f \in Seq(S), NEW g \in Seq(S)
    PROVE  /\ f \o g \in Seq(S) /\ Len(f \o g) = Len(f) + Len(g)
           /\ \A i \in 1 .. Len(f) : (f \o g)[i] = f[i]
  OBVIOUS

\* Sequences with the same items are the same.
LEMMA SameItems ==
    ASSUME NEW S, NEW f \in Seq(S), NEW g \in Seq(S), Len(f) = Len(g),
           \A i \in 1 .. Len(f) : f[i] = g[i]
    PROVE  f = g
  OBVIOUS

-----------------------------------------------------------------------------
(***************************************************************************)
(* The string vectors.                                                     *)
(***************************************************************************)

\* What the copies cs say.
Said(h, cs) == [k \in DOMAIN cs |-> h[cs[k]]]
Lists == [v \in Vec |-> Texts(v)]

\* The copies of all vectors but v.
Others(v) == DOMAIN copies \ ToSet(items[v])

VecTypeOK ==
    /\ DOMAIN copies \subseteq Duplicate /\ copies \in [DOMAIN copies -> Text]
    /\ items \in [Vec -> Seq(Duplicate)] /\ array \in [Vec -> BOOLEAN]
    /\ vecDone \in BOOLEAN
    /\ vecFault \in {"none", "not shrunk", "array lost", "appended to itself"}

HeldOnce ==
    /\ DOMAIN copies = UNION {ToSet(items[v]) : v \in Vec}
    /\ \A v, w \in Vec : \A k \in DOMAIN items[v], l \in DOMAIN items[w] :
          items[v][k] = items[w][l] => v = w /\ k = l

VecInv == VecTypeOK /\ HeldOnce

\* v may have cs, with h for the copies, instead of what it has.
MayHold(v, h, cs) ==
    /\ cs \in Seq(Duplicate) /\ IsInjective(cs)
    /\ h \in [Others(v) \cup ToSet(cs) -> Text]
    /\ ToSet(cs) \cap Others(v) = {}
    /\ \A c \in Others(v) : h[c] = copies[c]

-----------------------------------------------------------------------------
(* What copies say is a sequence of strings, part by part. *)

Speaks(h, s) == s \in Seq(Duplicate) /\ \A k \in 1 .. Len(s) : h[s[k]] \in Text

SaidIn(h, s) ==
    /\ Said(h, s) \in Seq(Text) /\ Len(Said(h, s)) = Len(s)
    /\ \A k \in 1 .. Len(s) : Said(h, s)[k] = h[s[k]]

LEMMA SpeaksByItem ==
    ASSUME NEW h, NEW s \in Seq(Duplicate), \A c \in ToSet(s) : h[c] \in Text
    PROVE  Speaks(h, s)
<1>1. \A k \in 1 .. Len(s) : s[k] \in ToSet(s)
  BY DEF ToSet
<1> QED
  BY <1>1 DEF Speaks

LEMMA SaidSequence ==
    ASSUME NEW h, NEW s, Speaks(h, s)
    PROVE  SaidIn(h, s)
<1>1. /\ s \in Seq(Duplicate) /\ DOMAIN s = 1 .. Len(s) /\ Len(s) \in Nat
      /\ \A k \in 1 .. Len(s) : h[s[k]] \in Text
  BY DEF Speaks
<1>2. Said(h, s) = [k \in 1 .. Len(s) |-> h[s[k]]]
  BY <1>1 DEF Said
<1>3. Said(h, s) \in [1 .. Len(s) -> Text]
  BY <1>1, <1>2
<1>4. Said(h, s) \in Seq(Text) /\ Len(Said(h, s)) = Len(s)
  BY <1>1, <1>3
<1> QED
  BY <1>2, <1>4 DEF SaidIn

LEMMA SaidIsItem ==
    ASSUME NEW h, NEW s, Speaks(h, s), NEW t \in Seq(Text), Len(t) = Len(s),
           \A k \in 1 .. Len(s) : t[k] = h[s[k]]
    PROVE  Said(h, s) = t
<1>1. SaidIn(h, s)
  BY SaidSequence
<1> QED
  BY <1>1, SameItems DEF SaidIn

LEMMA SaidOfPart ==
    ASSUME NEW h, NEW s, Speaks(h, s), NEW a \in 1 .. Len(s) + 1, NEW b \in 0 .. Len(s)
    PROVE  Said(h, SubSeq(s, a, b)) = SubSeq(Said(h, s), a, b)
<1> DEFINE t == SubSeq(s, a, b)
           r == SubSeq(Said(h, s), a, b)
           n == IF a <= b THEN b - a + 1 ELSE 0
<1>1. SaidIn(h, s)
  BY SaidSequence
<1>2. /\ s \in Seq(Duplicate) /\ Len(s) \in Nat
      /\ \A k \in 1 .. Len(s) : h[s[k]] \in Text
      /\ n \in Nat /\ \A k \in 1 .. n : a + k - 1 \in 1 .. Len(s)
  BY DEF Speaks
<1>3. t \in Seq(Duplicate) /\ Len(t) = n /\ \A k \in 1 .. n : t[k] = s[a + k - 1]
  BY <1>2
<1>4. r \in Seq(Text) /\ Len(r) = n /\ \A k \in 1 .. n : r[k] = Said(h, s)[a + k - 1]
  BY <1>1, <1>2 DEF SaidIn
<1> HIDE DEF t, r, n
<1>5. Speaks(h, t)
  BY <1>2, <1>3 DEF Speaks
<1>6. \A k \in 1 .. Len(t) : r[k] = h[t[k]]
  BY <1>1, <1>2, <1>3, <1>4 DEF SaidIn
<1>7. r \in Seq(Text) /\ Len(r) = Len(t)
  BY <1>3, <1>4
<1>8. Said(h, t) = r
  BY <1>5, <1>6, <1>7, SaidIsItem
<1> QED
  BY <1>8 DEF t, r

LEMMA SaidOfParts ==
    ASSUME NEW h, NEW s, Speaks(h, s), NEW t, Speaks(h, t)
    PROVE  Said(h, s \o t) = Said(h, s) \o Said(h, t) /\ Speaks(h, s \o t)
<1> DEFINE u == s \o t
           x == Said(h, s)
           y == Said(h, t)
           r == x \o y
           m == Len(s)
           n == Len(t)
<1>1. SaidIn(h, s) /\ SaidIn(h, t)
  BY SaidSequence
<1>2. /\ s \in Seq(Duplicate) /\ t \in Seq(Duplicate) /\ m \in Nat /\ n \in Nat
      /\ \A k \in 1 .. m : h[s[k]] \in Text
      /\ \A k \in 1 .. n : h[t[k]] \in Text
  BY DEF Speaks
<1>3. /\ u \in Seq(Duplicate) /\ Len(u) = m + n /\ \A k \in 1 .. m : u[k] = s[k]
      /\ \A k \in m + 1 .. m + n : u[k] = t[k - m]
  BY <1>2, FirstPart, SecondPart
<1>4. /\ x \in Seq(Text) /\ Len(x) = m /\ \A k \in 1 .. m : x[k] = h[s[k]]
      /\ y \in Seq(Text) /\ Len(y) = n /\ \A k \in 1 .. n : y[k] = h[t[k]]
  BY <1>1 DEF SaidIn
<1> HIDE DEF u, x, y, m, n
<1>5. /\ r \in Seq(Text) /\ Len(r) = m + n /\ \A k \in 1 .. m : r[k] = x[k]
      /\ \A k \in m + 1 .. m + n : r[k] = y[k - m]
  <2>1. r \in Seq(Text) /\ Len(r) = Len(x) + Len(y) /\ \A k \in 1 .. Len(x) : r[k] = x[k]
    BY <1>4, FirstPart
  <2>2. \A k \in Len(x) + 1 .. Len(x) + Len(y) : r[k] = y[k - Len(x)]
    BY <1>4, SecondPart
  <2> QED
    BY <1>4, <2>1, <2>2
<1> HIDE DEF r
<1>6. \A k \in 1 .. m + n : k \in 1 .. m \/ (k \in m + 1 .. m + n /\ k - m \in 1 .. n)
  BY <1>2
<1>7. \A k \in 1 .. m + n : r[k] = h[u[k]] /\ h[u[k]] \in Text
  <2> TAKE k \in 1 .. m + n
  <2>1. CASE k \in 1 .. m
    BY <2>1, <1>2, <1>3, <1>4, <1>5
  <2>2. CASE k \in m + 1 .. m + n /\ k - m \in 1 .. n
    <3>1. r[k] = y[k - m] /\ u[k] = t[k - m]
      BY <2>2, <1>3, <1>5
    <3> QED
      BY <2>2, <3>1, <1>2, <1>4
  <2> QED
    BY <2>1, <2>2, <1>6
<1>8. Speaks(h, u)
  BY <1>3, <1>7 DEF Speaks
<1>9. Said(h, u) = r
  BY <1>3, <1>5, <1>7, <1>8, SaidIsItem
<1> QED
  BY <1>8, <1>9 DEF u, x, y, r

\* Copies that say the same are the same text.
LEMMA SaidAlike ==
    ASSUME NEW g, NEW h, NEW s \in Seq(Duplicate), \A c \in ToSet(s) : g[c] = h[c]
    PROVE  Said(g, s) = Said(h, s)
  BY DEF Said, ToSet
-----------------------------------------------------------------------------
(* Sequences whose items are apart. *)

LEMMA ApartByPlace ==
    ASSUME NEW s, NEW k \in DOMAIN s, NEW l \in DOMAIN s, IsInjective(s), s[k] = s[l]
    PROVE  k = l
  BY DEF IsInjective

\* Two of them with nothing in common make one.
JoinIsApart(s, t) ==
    /\ s \o t \in Seq(Duplicate) /\ IsInjective(s \o t)
    /\ ToSet(s \o t) = ToSet(s) \cup ToSet(t)

LEMMA JoinedApart ==
    ASSUME NEW s \in Seq(Duplicate), NEW t \in Seq(Duplicate), IsInjective(s), IsInjective(t),
           ToSet(s) \cap ToSet(t) = {}
    PROVE  JoinIsApart(s, t)
<1> DEFINE u == s \o t
           m == Len(s)
           n == Len(t)
<1>0. u \in Seq(Duplicate)
  BY FirstPart
<1>1. /\ m \in Nat /\ n \in Nat /\ DOMAIN s = 1 .. m /\ DOMAIN t = 1 .. n
      /\ DOMAIN u = 1 .. m + n
  BY FirstPart
<1>2. /\ \A k \in 1 .. m : u[k] = s[k]
      /\ \A k \in m + 1 .. m + n : u[k] = t[k - m]
  BY FirstPart, SecondPart
<1> HIDE DEF u, m, n
<1>3. \A k \in 1 .. m + n : k \in 1 .. m \/ (k \in m + 1 .. m + n /\ k - m \in 1 .. n)
  BY <1>1
<1>4. \A k \in 1 .. n : k + m \in m + 1 .. m + n /\ (k + m) - m = k
  BY <1>1
<1>5. \A k \in 1 .. m, l \in 1 .. n : s[k] # t[l]
  BY <1>1 DEF ToSet
<1>6. IsInjective(u)
  <2> SUFFICES ASSUME NEW k \in 1 .. m + n, NEW l \in 1 .. m + n, u[k] = u[l]
               PROVE  k = l
    BY <1>1 DEF IsInjective
  <2>1. CASE k \in 1 .. m /\ l \in 1 .. m
    BY <2>1, <1>1, <1>2, ApartByPlace
  <2>2. CASE /\ k \in m + 1 .. m + n /\ k - m \in 1 .. n
             /\ l \in m + 1 .. m + n /\ l - m \in 1 .. n
    <3>1. t[k - m] = t[l - m]
      BY <2>2, <1>2
    <3>2. k - m = l - m
      BY <2>2, <3>1, <1>1, ApartByPlace
    <3> QED
      BY <2>2, <3>2, <1>1
  <2>3. ~(k \in 1 .. m /\ l \in m + 1 .. m + n /\ l - m \in 1 .. n)
    BY <1>2, <1>5
  <2>4. ~(l \in 1 .. m /\ k \in m + 1 .. m + n /\ k - m \in 1 .. n)
    BY <1>2, <1>5
  <2> QED
    BY <2>1, <2>2, <2>3, <2>4, <1>3
<1>7. ToSet(u) \subseteq ToSet(s) \cup ToSet(t)
  <2> SUFFICES ASSUME NEW k \in 1 .. m + n PROVE u[k] \in ToSet(s) \cup ToSet(t)
    BY <1>1 DEF ToSet
  <2> QED
    BY <1>1, <1>2, <1>3 DEF ToSet
<1>8. ToSet(s) \subseteq ToSet(u)
  <2> SUFFICES ASSUME NEW k \in 1 .. m PROVE s[k] \in ToSet(u)
    BY <1>1 DEF ToSet
  <2>1. k \in 1 .. m + n /\ u[k] = s[k]
    BY <1>1, <1>2
  <2> QED
    BY <2>1, <1>1 DEF ToSet
<1>9. ToSet(t) \subseteq ToSet(u)
  <2> SUFFICES ASSUME NEW k \in 1 .. n PROVE t[k] \in ToSet(u)
    BY <1>1 DEF ToSet
  <2> DEFINE l == k + m
  <2>1. l \in m + 1 .. m + n /\ l \in 1 .. m + n /\ l - m = k
    BY <1>1, <1>4
  <2> HIDE DEF l
  <2>2. u[l] = t[k]
    BY <2>1, <1>2
  <2> QED
    BY <2>1, <2>2, <1>1 DEF ToSet
<1> QED
  BY <1>0, <1>6, <1>7, <1>8, <1>9 DEF u, JoinIsApart

\* What is before and what is behind a part of one of them
Leaves(s, f, t, a, b) ==
    /\ f \in Seq(Duplicate) /\ t \in Seq(Duplicate)
    /\ IsInjective(f) /\ IsInjective(t) /\ ToSet(f) \cap ToSet(t) = {}
    /\ ToSet(f) \cup ToSet(t) = ToSet(s) \ {s[k] : k \in a + 1 .. b - 1}

LEMMA PartsApart ==
    ASSUME NEW s \in Seq(Duplicate), IsInjective(s),
           NEW a \in 0 .. Len(s), NEW b \in a + 1 .. Len(s) + 1
    PROVE  Leaves(s, SubSeq(s, 1, a), SubSeq(s, b, Len(s)), a, b)
<1> DEFINE f == SubSeq(s, 1, a)
           t == SubSeq(s, b, Len(s))
           n == Len(s)
<1>1. n \in Nat /\ DOMAIN s = 1 .. n /\ a \in 0 .. n /\ b \in a + 1 .. n + 1
  OBVIOUS
<1>0. f \in Seq(Duplicate) /\ t \in Seq(Duplicate)
  OBVIOUS
<1>2. DOMAIN f = 1 .. a /\ \A k \in 1 .. a : k \in 1 .. n /\ f[k] = s[k]
  OBVIOUS
<1>3. DOMAIN t = 1 .. n - b + 1 /\ \A k \in 1 .. n - b + 1 : t[k] = s[b + k - 1]
  OBVIOUS
<1> HIDE DEF f, t, n
<1>4. /\ \A k \in 1 .. n - b + 1 : b + k - 1 \in b .. n /\ b + k - 1 \in 1 .. n
      /\ \A k \in b .. n : k - b + 1 \in 1 .. n - b + 1 /\ b + (k - b + 1) - 1 = k
      /\ \A k \in 1 .. n : k \in 1 .. a \/ k \in a + 1 .. b - 1 \/ k \in b .. n
  BY <1>1
<1>5. \A k \in 1 .. n, l \in 1 .. n : s[k] = s[l] => k = l
  BY <1>1 DEF IsInjective
<1>6. IsInjective(f)
  BY <1>2, <1>5 DEF IsInjective
<1>7. IsInjective(t)
  <2> SUFFICES ASSUME NEW k \in 1 .. n - b + 1, NEW l \in 1 .. n - b + 1, t[k] = t[l]
               PROVE  k = l
    BY <1>3 DEF IsInjective
  <2>1. b + k - 1 = b + l - 1
    <3>1. s[b + k - 1] = s[b + l - 1]
      BY <1>3
    <3> QED
      BY <3>1, <1>4, <1>5
  <2> QED
    BY <2>1, <1>1
<1>8. ToSet(f) = {s[k] : k \in 1 .. a}
  BY <1>2 DEF ToSet
<1>9. ToSet(t) = {s[k] : k \in b .. n}
  <2>1. ToSet(t) \subseteq {s[k] : k \in b .. n}
    <3> SUFFICES ASSUME NEW k \in 1 .. n - b + 1
                 PROVE  t[k] \in {s[l] : l \in b .. n}
      BY <1>3 DEF ToSet
    <3> QED
      BY <1>3, <1>4
  <2>2. \A k \in b .. n : s[k] \in ToSet(t)
    <3> TAKE k \in b .. n
    <3>1. t[k - b + 1] = s[k]
      BY <1>3, <1>4
    <3> QED
      BY <3>1, <1>3, <1>4 DEF ToSet
  <2> QED
    BY <2>1, <2>2
<1>10. ToSet(f) \cap ToSet(t) = {}
  <2> SUFFICES ASSUME NEW k \in 1 .. a, NEW l \in b .. n, s[k] = s[l] PROVE FALSE
    BY <1>8, <1>9
  <2>1. k \in 1 .. n /\ l \in 1 .. n /\ k # l
    BY <1>1
  <2> QED
    BY <2>1, <1>5
<1>11. ToSet(f) \cup ToSet(t) = ToSet(s) \ {s[k] : k \in a + 1 .. b - 1}
  <2>1. ASSUME NEW k \in 1 .. n, k \in 1 .. a \/ k \in b .. n
        PROVE  s[k] \in ToSet(s) \ {s[l] : l \in a + 1 .. b - 1}
    <3> SUFFICES ASSUME NEW l \in a + 1 .. b - 1, s[k] = s[l] PROVE FALSE
      BY <1>1 DEF ToSet
    <3>1. l \in 1 .. n /\ k # l
      BY <2>1, <1>1
    <3> QED
      BY <3>1, <1>5
  <2>2. (1 .. a) \subseteq 1 .. n /\ (b .. n) \subseteq 1 .. n
    BY <1>1
  <2>3. ToSet(f) \cup ToSet(t) \subseteq ToSet(s) \ {s[k] : k \in a + 1 .. b - 1}
    BY <2>1, <2>2, <1>8, <1>9
  <2>4. ToSet(s) = {s[k] : k \in 1 .. n}
    BY <1>1 DEF ToSet
  <2> QED
    BY <2>3, <2>4, <1>4, <1>8, <1>9
<1> QED
  BY <1>0, <1>6, <1>7, <1>10, <1>11 DEF Leaves, f, t, n
-----------------------------------------------------------------------------
(* The copies. *)

\* A vector's copies are its own, and no other's.
Owns(v) ==
    /\ items[v] \in Seq(Duplicate) /\ IsInjective(items[v])
    /\ ToSet(items[v]) \subseteq DOMAIN copies
    /\ Others(v) \cup ToSet(items[v]) = DOMAIN copies
    /\ Others(v) \cap ToSet(items[v]) = {}
    /\ \A c \in DOMAIN copies : copies[c] \in Text
    /\ Speaks(copies, items[v])

LEMMA VecFacts ==
    ASSUME VecInv, NEW v \in Vec
    PROVE  Owns(v)
<1>1. items[v] \in Seq(Duplicate)
  BY DEF VecInv, VecTypeOK
<1>2. IsInjective(items[v])
  BY DEF VecInv, HeldOnce, IsInjective
<1>3. ToSet(items[v]) \subseteq DOMAIN copies
  BY DEF VecInv, HeldOnce
<1>4. \A c \in DOMAIN copies : copies[c] \in Text
  BY DEF VecInv, VecTypeOK
<1>5. Speaks(copies, items[v])
  BY <1>1, <1>3, <1>4, SpeaksByItem
<1> QED
  BY <1>1, <1>2, <1>3, <1>4, <1>5 DEF Owns, Others

\* Once v may hold cs, it does, and the other vectors say what they said.
Replaced(v, list) == Lists' = [Lists EXCEPT ![v] = list]

LEMMA HoldsKeeps ==
    ASSUME VecInv, NEW v \in Vec, NEW h, NEW cs, MayHold(v, h, cs),
           NEW has \in BOOLEAN, NEW d \in BOOLEAN, Holds(v, h, cs, has), Returns(d)
    PROVE  VecInv' /\ Replaced(v, Said(h, cs))
<1>1. /\ copies' = h /\ items' = [items EXCEPT ![v] = cs] /\ array' = [array EXCEPT ![v] = has]
      /\ vecDone' = d /\ vecFault' = "none"
  BY DEF Holds, Returns
<1>2. /\ DOMAIN copies \subseteq Duplicate /\ items \in [Vec -> Seq(Duplicate)]
      /\ array \in [Vec -> BOOLEAN]
  BY DEF VecInv, VecTypeOK
<1>3. /\ cs \in Seq(Duplicate) /\ IsInjective(cs) /\ h \in [Others(v) \cup ToSet(cs) -> Text]
      /\ ToSet(cs) \cap Others(v) = {} /\ \A c \in Others(v) : h[c] = copies[c]
  BY DEF MayHold
<1>4. ToSet(cs) \subseteq Duplicate
  BY <1>3 DEF ToSet
<1>5. VecTypeOK'
  <2>1. items' \in [Vec -> Seq(Duplicate)] /\ array' \in [Vec -> BOOLEAN]
    BY <1>1, <1>2, <1>3
  <2>2. DOMAIN copies' \subseteq Duplicate /\ copies' \in [DOMAIN copies' -> Text]
    BY <1>1, <1>2, <1>3, <1>4 DEF Others
  <2> QED
    BY <1>1, <2>1, <2>2 DEF VecTypeOK
<1>6. items'[v] = cs /\ \A w \in Vec \ {v} : items'[w] = items[w]
  BY <1>1, <1>2
<1>7. \A w \in Vec \ {v} : ToSet(items[w]) \subseteq Others(v)
  <2> SUFFICES ASSUME NEW w \in Vec \ {v}, NEW k \in DOMAIN items[w]
               PROVE  items[w][k] \in Others(v)
    BY DEF ToSet
  <2>1. items[w][k] \in DOMAIN copies
    BY VecFacts DEF Owns, ToSet
  <2>2. items[w][k] \notin ToSet(items[v])
    BY DEF VecInv, HeldOnce, ToSet
  <2> QED
    BY <2>1, <2>2 DEF Others
<1>8. \A c \in Others(v) : \E w \in Vec \ {v} : c \in ToSet(items[w])
  BY DEF VecInv, HeldOnce, Others
<1>9. DOMAIN copies' = UNION {ToSet(items'[w]) : w \in Vec}
  <2>1. DOMAIN copies' = Others(v) \cup ToSet(cs)
    BY <1>1, <1>3
  <2>2. ASSUME NEW c \in Others(v) PROVE \E w \in Vec : c \in ToSet(items'[w])
    BY <1>6, <1>8
  <2>3. \A w \in Vec : ToSet(items'[w]) \subseteq Others(v) \cup ToSet(cs)
    BY <1>6, <1>7
  <2> QED
    BY <2>1, <2>2, <2>3, <1>6
<1>10. ASSUME NEW u \in Vec, NEW w \in Vec, NEW k \in DOMAIN items'[u],
              NEW l \in DOMAIN items'[w], items'[u][k] = items'[w][l]
       PROVE  u = w /\ k = l
  <2>1. CASE u = v /\ w = v
    BY <2>1, <1>3, <1>6, <1>10, ApartByPlace
  <2>2. CASE u # v /\ w # v
    BY <2>2, <1>6, <1>10 DEF VecInv, HeldOnce
  <2>3. CASE u = v /\ w # v
    <3>1. cs[k] \in ToSet(cs) /\ items[w][l] \in Others(v)
      BY <2>3, <1>6, <1>7 DEF ToSet
    <3> QED
      BY <2>3, <3>1, <1>3, <1>6, <1>10
  <2>4. CASE u # v /\ w = v
    <3>1. cs[l] \in ToSet(cs) /\ items[u][k] \in Others(v)
      BY <2>4, <1>6, <1>7 DEF ToSet
    <3> QED
      BY <2>4, <3>1, <1>3, <1>6, <1>10
  <2> QED
    BY <2>1, <2>2, <2>3, <2>4
<1>11. HeldOnce'
  BY <1>9, <1>10 DEF HeldOnce
<1>12. Texts(v)' = Said(h, cs)
  BY <1>1, <1>6 DEF Texts, Said
<1>13. \A w \in Vec \ {v} : Texts(w)' = Texts(w)
  <2> TAKE w \in Vec \ {v}
  <2>1. \A k \in DOMAIN items[w] : h[items[w][k]] = copies[items[w][k]]
    BY <1>3, <1>7 DEF ToSet
  <2> QED
    BY <2>1, <1>1, <1>6 DEF Texts
<1>14. Lists' = [Lists EXCEPT ![v] = Said(h, cs)]
  BY <1>12, <1>13 DEF Lists
<1> QED
  BY <1>5, <1>11, <1>14 DEF VecInv, Replaced

\* What is copied is copied to places that are free.
AreNew(cs, n) ==
    /\ cs \in Seq(Duplicate) /\ Len(cs) = n /\ IsInjective(cs)
    /\ ToSet(cs) \cap DOMAIN copies = {}

LEMMA NewCopiesAreNew ==
    ASSUME NEW n \in Nat, AreFree(n)
    PROVE  AreNew(NewCopies(n), n)
<1> DEFINE cs == NewCopies(n)
<1>1. cs \in Injection(1 .. n, Duplicate \ DOMAIN copies)
  BY DEF AreFree, NewCopies, Unused
<1> HIDE DEF cs
<1>2. cs \in [1 .. n -> Duplicate \ DOMAIN copies] /\ IsInjective(cs)
  BY <1>1 DEF Injection
<1>3. cs \in Seq(Duplicate) /\ Len(cs) = n
  BY <1>2
<1>4. ToSet(cs) \cap DOMAIN copies = {}
  BY <1>2 DEF ToSet
<1> QED
  BY <1>2, <1>3, <1>4 DEF AreNew, cs

\* They say what was copied, and the others what they said.
Says(h, cs, texts) ==
    /\ WithCopies(h, cs, texts) \in [DOMAIN h \cup ToSet(cs) -> Text]
    /\ \A c \in DOMAIN h : WithCopies(h, cs, texts)[c] = h[c]
    /\ Said(WithCopies(h, cs, texts), cs) = texts

LEMMA CopiesSay ==
    ASSUME NEW h, \A c \in DOMAIN h : h[c] \in Text,
           NEW cs \in Seq(Duplicate), IsInjective(cs), ToSet(cs) \cap DOMAIN h = {},
           NEW texts \in Seq(Text), Len(texts) = Len(cs)
    PROVE  Says(h, cs, texts)
<1> DEFINE g == WithCopies(h, cs, texts)
           n == Len(cs)
<1>1. DOMAIN cs = 1 .. n /\ n \in Nat
  OBVIOUS
<1>2. \A k \in 1 .. n : texts[k] \in Text
  OBVIOUS
<1>3. g = [c \in DOMAIN h \cup ToSet(cs) |->
              IF c \in DOMAIN h THEN h[c] ELSE texts[CHOOSE k \in DOMAIN cs : cs[k] = c]]
  BY DEF WithCopies
<1>4. \A k \in 1 .. n : cs[k] \in ToSet(cs) /\ cs[k] \notin DOMAIN h
  BY <1>1 DEF ToSet
<1>5. ASSUME NEW k \in 1 .. n PROVE g[cs[k]] = texts[k]
  <2>1. \A l \in DOMAIN cs : cs[l] = cs[k] => l = k
    BY <1>1, ApartByPlace
  <2>2. (CHOOSE l \in DOMAIN cs : cs[l] = cs[k]) = k
    BY <2>1, <1>1
  <2> QED
    BY <2>2, <1>3, <1>4
<1>6. DOMAIN g = DOMAIN h \cup ToSet(cs) /\ \A c \in DOMAIN h : g[c] = h[c]
  BY <1>3
<1>7. \A c \in ToSet(cs) : \E k \in 1 .. n : c = cs[k]
  BY <1>1 DEF ToSet
<1> HIDE DEF g
<1>8. \A c \in DOMAIN h \cup ToSet(cs) : g[c] \in Text
  BY <1>2, <1>5, <1>6, <1>7
<1>9. g \in [DOMAIN h \cup ToSet(cs) -> Text]
  <2>1. g = [c \in DOMAIN h \cup ToSet(cs) |-> g[c]]
    BY <1>3, <1>6
  <2> QED
    BY <2>1, <1>8
<1>10. Said(g, cs) = texts
  <2>1. SaidIn(g, cs)
    BY <1>2, <1>5, SaidSequence DEF Speaks
  <2> QED
    BY <2>1, <1>5, SameItems DEF SaidIn
<1> QED
  BY <1>6, <1>9, <1>10 DEF Says, g

LEMMA TextsAreSaid ==
    ASSUME VecInv, NEW v \in Vec
    PROVE  /\ Texts(v) = Said(copies, items[v]) /\ Texts(v) \in Seq(Text)
           /\ Len(Texts(v)) = Len(items[v]) /\ Lists[v] = Texts(v)
<1>1. SaidIn(copies, items[v])
  BY VecFacts, SaidSequence DEF Owns
<1> QED
  BY <1>1 DEF SaidIn, Texts, Said, Lists
-----------------------------------------------------------------------------
(* The calls. *)

\* A call keeps the invariant and is one of StringLists, or the behaviour ends.
VecGoesOn == VecInv' /\ (ListsOf!Next \/ vecFault' # "none")

LEMMA BecomesReplaced ==
    ASSUME NEW v, NEW list, NEW d, Replaced(v, list), vecDone' = d
    PROVE  ListsOf!Becomes(v, list, d)
  BY DEF Replaced, Lists, ListsOf!Becomes

\* The operators of StringLists are those of the vector.
LEMMA SameOperators ==
    /\ \A s, i, e : ListsOf!InsertAt(s, i, e) = InsertAt(s, i, e)
    /\ \A s, i : ListsOf!RemoveAt(s, i) = RemoveAt(s, i)
    /\ \A S, T : ListsOf!Injection(S, T) = Injection(S, T)
BY DEF ListsOf!InsertAt, InsertAt, ListsOf!RemoveAt, RemoveAt, ListsOf!Injection, Injection,
   ListsOf!IsInjective, IsInjective

LEMMA SameCopies ==
    ASSUME VecInv, UNCHANGED <<copies, items, array>>, vecDone' \in BOOLEAN,
           vecFault' \in {"none", "not shrunk", "array lost", "appended to itself"}
    PROVE  VecInv' /\ Lists' = Lists
<1>1. copies' = copies /\ items' = items /\ array' = array
  OBVIOUS
<1>2. VecTypeOK'
  BY <1>1 DEF VecInv, VecTypeOK
<1>3. HeldOnce'
  BY <1>1 DEF VecInv, HeldOnce
<1>4. Lists' = Lists
  BY <1>1 DEF Lists, Texts
<1> QED
  BY <1>2, <1>3, <1>4 DEF VecInv

LEMMA BrokenGoesOn ==
    ASSUME VecInv, NEW why \in {"not shrunk", "array lost", "appended to itself"},
           Broken(why)
    PROVE  VecGoesOn
<1>1. /\ UNCHANGED <<copies, items, array>> /\ vecDone' \in BOOLEAN /\ vecFault' # "none"
      /\ vecFault' \in {"none", "not shrunk", "array lost", "appended to itself"}
  BY DEF Broken
<1> QED
  BY <1>1, SameCopies DEF VecGoesOn

\* What changes nothing is a call that failed, or one that truncates nothing away.
LEMMA UnchangedGoesOn ==
    ASSUME VecInv, NEW v \in Vec, NEW d \in BOOLEAN, Returns(d),
           UNCHANGED <<copies, items, array>>
    PROVE  VecGoesOn
<1>1. VecInv' /\ Lists' = Lists /\ vecDone' = d
  BY SameCopies DEF Returns
<1>2. CASE d = FALSE
  <2>1. ListsOf!InsertText(v)
    BY <1>1, <1>2 DEF ListsOf!InsertText, Lists
  <2> QED
    BY <1>1, <2>1 DEF VecGoesOn, ListsOf!Next
<1>3. CASE d = TRUE
  <2> DEFINE t == Texts(v)
  <2>1. t \in Seq(Text) /\ Lists[v] = t /\ Lists = [Lists EXCEPT ![v] = t]
    BY TextsAreSaid DEF Lists
  <2> HIDE DEF t
  <2>2. Len(t) \in 0 .. Len(t) /\ SubSeq(t, 1, Len(t)) = t
    BY <2>1
  <2>3. ListsOf!Becomes(v, SubSeq(t, 1, Len(t)), TRUE)
    BY <1>1, <1>3, <2>1, <2>2, BecomesReplaced DEF Replaced
  <2>4. ListsOf!Truncate(v)
    BY <2>1, <2>2, <2>3 DEF ListsOf!Truncate, Lists
  <2> QED
    BY <1>1, <2>4 DEF VecGoesOn, ListsOf!Next
<1> QED
  BY <1>2, <1>3

\* v keeps some of its copies, and the others are freed.
LEMMA KeepsSome ==
    ASSUME VecInv, NEW v \in Vec, NEW cs \in Seq(Duplicate), IsInjective(cs),
           ToSet(cs) \subseteq ToSet(items[v]), NEW gone,
           ToSet(cs) = ToSet(items[v]) \ gone, gone \subseteq ToSet(items[v]),
           NEW has \in BOOLEAN, NEW d \in BOOLEAN,
           Holds(v, Without(copies, gone), cs, has), Returns(d)
    PROVE  VecInv' /\ Replaced(v, Said(copies, cs)) /\ vecDone' = d
<1> DEFINE h == Without(copies, gone)
<1>1. h = [c \in DOMAIN copies \ gone |-> copies[c]]
  BY DEF Without
<1>2. Owns(v)
  BY VecFacts
<1>3. MayHold(v, h, cs)
  BY <1>1, <1>2 DEF MayHold, Owns
<1>4. Said(h, cs) = Said(copies, cs)
  <2>1. \A c \in ToSet(cs) : h[c] = copies[c]
    BY <1>1, <1>2 DEF Owns
  <2> QED
    BY <2>1, SaidAlike
<1>5. VecInv' /\ Replaced(v, Said(h, cs))
  BY <1>3, HoldsKeeps
<1> QED
  BY <1>4, <1>5 DEF Returns

\* A vector that is emptied says nothing.
LEMMA KeepsNone ==
    ASSUME VecInv, NEW v \in Vec, NEW has \in BOOLEAN, NEW d \in BOOLEAN,
           Holds(v, Without(copies, ToSet(items[v])), << >>, has), Returns(d)
    PROVE  VecInv' /\ Replaced(v, << >>) /\ vecDone' = d
<1>1. << >> \in Seq(Duplicate) /\ IsInjective(<< >>) /\ ToSet(<< >>) = {}
  BY DEF IsInjective, ToSet
<1>2. Said(copies, << >>) = << >>
  BY DEF Said
<1> QED
  BY <1>1, <1>2, KeepsSome

\* v gets copies of texts behind and before some that it has, which are all or none.
GetsMore(h, new, texts, v, kept) ==
    /\ h = WithCopies(Without(copies, ToSet(items[v]) \ ToSet(kept)), new, texts)
    /\ AreNew(new, Len(texts)) /\ texts \in Seq(Text)

MoreSaid(h, new, texts, v, kept) ==
    /\ h \in [(Others(v) \cup ToSet(kept)) \cup ToSet(new) -> Text]
    /\ \A c \in Others(v) \cup ToSet(kept) : h[c] = copies[c]
    /\ Said(h, new) = texts /\ Speaks(h, new)
    /\ ToSet(new) \cap (Others(v) \cup ToSet(kept)) = {}

LEMMA MoreIsSaid ==
    ASSUME VecInv, NEW v \in Vec, NEW kept, ToSet(kept) \subseteq ToSet(items[v]),
           NEW h, NEW new, NEW texts, GetsMore(h, new, texts, v, kept)
    PROVE  MoreSaid(h, new, texts, v, kept)
<1> DEFINE g == Without(copies, ToSet(items[v]) \ ToSet(kept))
<1>1. Owns(v)
  BY VecFacts
<1>2. /\ DOMAIN g = Others(v) \cup ToSet(kept) /\ DOMAIN g \subseteq DOMAIN copies
      /\ \A c \in DOMAIN g : g[c] = copies[c] /\ g[c] \in Text
  BY <1>1 DEF Without, Owns
<1>3. /\ new \in Seq(Duplicate) /\ IsInjective(new) /\ Len(texts) = Len(new)
      /\ ToSet(new) \cap DOMAIN copies = {} /\ texts \in Seq(Text)
      /\ h = WithCopies(g, new, texts)
  BY DEF GetsMore, AreNew
<1> HIDE DEF g
<1>4. Says(g, new, texts)
  BY <1>2, <1>3, CopiesSay
<1>5. h \in [DOMAIN g \cup ToSet(new) -> Text] /\ \A c \in DOMAIN g : h[c] = g[c]
  BY <1>3, <1>4 DEF Says
<1>6. Speaks(h, new)
  BY <1>3, <1>5, SpeaksByItem
<1>7. Said(h, new) = texts
  BY <1>3, <1>4 DEF Says
<1> QED
  BY <1>2, <1>3, <1>5, <1>6, <1>7 DEF MoreSaid

LEMMA InsertGoesOn ==
    ASSUME VecInv, NEW v \in Vec, NEW i \in 1 .. Len(items[v]) + 1, NEW s \in Text,
           InsertText(v, i, s)
    PROVE  VecGoesOn
<1>1. CASE Failed
  BY <1>1, UnchangedGoesOn DEF Failed
<1> DEFINE old == items[v]
           c == NewCopies(1)[1]
           new == <<c>>
           h == WithCopies(copies, new, <<s>>)
           f == SubSeq(old, 1, i - 1)
           t == SubSeq(old, i, Len(old))
           cs == InsertAt(old, i, c)
<1>2. ASSUME AreFree(1), Holds(v, h, cs, TRUE), Returns(TRUE)
      PROVE  VecGoesOn
  <2>1. AreNew(new, 1)
    <3>1. AreNew(NewCopies(1), 1)
      BY <1>2, NewCopiesAreNew
    <3>2. NewCopies(1) = <<c>>
      BY <3>1 DEF AreNew
    <3> QED
      BY <3>1, <3>2
  <2>2. new \in Seq(Duplicate) /\ IsInjective(new) /\ ToSet(new) \cap DOMAIN copies = {}
    BY <2>1 DEF AreNew
  <2>3. Owns(v)
    BY VecFacts
  <2>4. /\ old \in Seq(Duplicate) /\ IsInjective(old) /\ ToSet(old) \subseteq DOMAIN copies
        /\ Others(v) \cup ToSet(old) = DOMAIN copies /\ Others(v) \cap ToSet(old) = {}
        /\ Speaks(copies, old) /\ i \in 1 .. Len(old) + 1
    BY <2>3 DEF Owns
  <2>5. copies = Without(copies, ToSet(old) \ ToSet(old))
    BY DEF Without, VecInv, VecTypeOK
  <2>6. <<s>> \in Seq(Text) /\ Len(<<s>>) = 1
    OBVIOUS
  <2>7. GetsMore(h, new, <<s>>, v, old)
    BY <2>1, <2>5, <2>6 DEF GetsMore
  <2>8. MoreSaid(h, new, <<s>>, v, old)
    BY <2>7, MoreIsSaid
  <2>9. cs = (f \o new) \o t
    BY DEF InsertAt
  <2> HIDE DEF old, new, h, cs
  <2>10. /\ i - 1 \in 0 .. Len(old) /\ i \in (i - 1) + 1 .. Len(old) + 1
         /\ (i - 1) + 1 .. i - 1 = {}
    BY <2>4
  <2>11. Leaves(old, f, t, i - 1, i)
    BY <2>4, <2>10, PartsApart
  <2> HIDE DEF f, t
  <2>12. /\ f \in Seq(Duplicate) /\ t \in Seq(Duplicate)
         /\ IsInjective(f) /\ IsInjective(t) /\ ToSet(f) \cap ToSet(t) = {}
         /\ ToSet(f) \cup ToSet(t) = ToSet(old)
    BY <2>10, <2>11 DEF Leaves
  <2>13. JoinIsApart(f, new)
    <3>1. ToSet(f) \cap ToSet(new) = {}
      BY <2>2, <2>4, <2>12
    <3> QED
      BY <3>1, <2>2, <2>12, JoinedApart
  <2>14. JoinIsApart(f \o new, t)
    <3>1. ToSet(f \o new) \cap ToSet(t) = {}
      BY <2>2, <2>4, <2>12, <2>13 DEF JoinIsApart
    <3>2. f \o new \in Seq(Duplicate) /\ IsInjective(f \o new)
      BY <2>13 DEF JoinIsApart
    <3> QED
      BY <3>1, <3>2, <2>12, JoinedApart
  <2>15. cs \in Seq(Duplicate) /\ IsInjective(cs) /\ ToSet(cs) = ToSet(old) \cup ToSet(new)
    BY <2>9, <2>12, <2>13, <2>14 DEF JoinIsApart
  <2>16. MayHold(v, h, cs)
    <3>1. h \in [Others(v) \cup ToSet(cs) -> Text]
      <4>1. (Others(v) \cup ToSet(old)) \cup ToSet(new) = Others(v) \cup ToSet(cs)
        BY <2>15
      <4> QED
        BY <4>1, <2>8 DEF MoreSaid
    <3> QED
      BY <3>1, <2>4, <2>8, <2>15 DEF MayHold, MoreSaid
  <2>17. VecInv' /\ Replaced(v, Said(h, cs)) /\ vecDone' = TRUE
    BY <1>2, <2>16, HoldsKeeps DEF Returns
  <2>18. Said(h, cs) = InsertAt(Texts(v), i, s)
    <3>1. \A b \in ToSet(old) : h[b] = copies[b] /\ h[b] \in Text
      <4>1. \A b \in Others(v) \cup ToSet(old) : h[b] = copies[b]
        BY <2>8 DEF MoreSaid
      <4> QED
        BY <4>1, <2>3, <2>4 DEF Owns
    <3>2. Speaks(h, f) /\ Speaks(h, t) /\ Speaks(h, old) /\ Speaks(h, new)
      BY <2>4, <2>8, <2>12, <3>1, SpeaksByItem DEF MoreSaid
    <3>3. Said(h, f \o new) = Said(h, f) \o Said(h, new) /\ Speaks(h, f \o new)
      BY <3>2, SaidOfParts
    <3>4. Said(h, (f \o new) \o t) = Said(h, f \o new) \o Said(h, t)
      BY <3>2, <3>3, SaidOfParts
    <3>5. Said(h, old) = Texts(v)
      <4>1. Said(h, old) = Said(copies, old)
        BY <2>4, <3>1, SaidAlike
      <4> QED
        BY <4>1, TextsAreSaid DEF old
    <3>6. Said(h, f) = SubSeq(Texts(v), 1, i - 1)
      <4>1. 1 \in 1 .. Len(old) + 1 /\ i - 1 \in 0 .. Len(old)
        BY <2>4, <2>10
      <4> QED
        BY <4>1, <3>2, <3>5, SaidOfPart DEF f
    <3>7. Said(h, t) = SubSeq(Texts(v), i, Len(Texts(v)))
      <4>1. i \in 1 .. Len(old) + 1 /\ Len(old) \in 0 .. Len(old) /\ Len(old) = Len(Texts(v))
        BY <2>4, TextsAreSaid DEF old
      <4> QED
        BY <4>1, <3>2, <3>5, SaidOfPart DEF t
    <3>8. Said(h, new) = <<s>>
      BY <2>8 DEF MoreSaid
    <3> QED
      BY <2>9, <3>3, <3>4, <3>6, <3>7, <3>8 DEF InsertAt
  <2>19. ListsOf!Becomes(v, InsertAt(Lists[v], i, s), TRUE) /\ i \in 1 .. Len(Lists[v]) + 1
    BY <2>4, <2>17, <2>18, TextsAreSaid, BecomesReplaced DEF old
  <2>20. ListsOf!InsertText(v)
    BY <2>19, SameOperators DEF ListsOf!InsertText, Lists
  <2> QED
    BY <2>17, <2>20 DEF VecGoesOn, ListsOf!Next
<1> QED
  BY <1>1, <1>2 DEF InsertText

LEMMA RemoveGoesOn ==
    ASSUME VecInv, NEW v \in Vec, NEW i \in DOMAIN items[v], RemoveText(v, i)
    PROVE  VecGoesOn
<1> DEFINE old == items[v]
           gone == {old[i]}
           f == SubSeq(old, 1, i - 1)
           t == SubSeq(old, i + 1, Len(old))
           cs == RemoveAt(old, i)
<1>1. CASE Broken("not shrunk")
  BY <1>1, BrokenGoesOn
<1>2. ASSUME Holds(v, Without(copies, gone), cs, cs # << >>), Returns(TRUE)
      PROVE  VecGoesOn
  <2>1. Owns(v)
    BY VecFacts
  <2>2. /\ old \in Seq(Duplicate) /\ IsInjective(old) /\ Speaks(copies, old)
        /\ i \in 1 .. Len(old) /\ gone \subseteq ToSet(old)
    BY <2>1 DEF Owns, ToSet
  <2>3. cs = f \o t
    BY DEF RemoveAt
  <2>4. /\ i - 1 \in 0 .. Len(old) /\ i + 1 \in (i - 1) + 1 .. Len(old) + 1
        /\ (i - 1) + 1 .. (i + 1) - 1 = {i}
    BY <2>2
  <2> HIDE DEF old, cs
  <2>5. Leaves(old, f, t, i - 1, i + 1)
    BY <2>2, <2>4, PartsApart
  <2> HIDE DEF f, t
  <2>6. /\ f \in Seq(Duplicate) /\ t \in Seq(Duplicate)
        /\ IsInjective(f) /\ IsInjective(t) /\ ToSet(f) \cap ToSet(t) = {}
        /\ ToSet(f) \cup ToSet(t) = ToSet(old) \ gone
    BY <2>4, <2>5 DEF Leaves
  <2>7. JoinIsApart(f, t)
    BY <2>6, JoinedApart
  <2>8. cs \in Seq(Duplicate) /\ IsInjective(cs) /\ ToSet(cs) = ToSet(old) \ gone
    BY <2>3, <2>6, <2>7 DEF JoinIsApart
  <2>9. VecInv' /\ Replaced(v, Said(copies, cs)) /\ vecDone' = TRUE
    <3>1. ToSet(cs) \subseteq ToSet(old)
      BY <2>8
    <3> HIDE DEF gone
    <3> QED
      BY <1>2, <2>2, <2>8, <3>1, KeepsSome DEF old
  <2>10. Said(copies, cs) = RemoveAt(Texts(v), i)
    <3>1. Said(copies, f) = SubSeq(Said(copies, old), 1, i - 1)
      <4>1. 1 \in 1 .. Len(old) + 1 /\ i - 1 \in 0 .. Len(old)
        BY <2>2, <2>4
      <4> QED
        BY <4>1, <2>2, SaidOfPart DEF f
    <3>2. Said(copies, t) = SubSeq(Said(copies, old), i + 1, Len(old))
      <4>1. i + 1 \in 1 .. Len(old) + 1 /\ Len(old) \in 0 .. Len(old)
        BY <2>2
      <4> QED
        BY <4>1, <2>2, SaidOfPart DEF t
    <3>3. Said(copies, old) = Texts(v) /\ Len(old) = Len(Texts(v))
      BY TextsAreSaid DEF old
    <3>4. Speaks(copies, f) /\ Speaks(copies, t)
      <4>1. \A b \in ToSet(old) : copies[b] \in Text
        BY <2>1 DEF Owns, old
      <4> QED
        BY <4>1, <2>6, SpeaksByItem
    <3>5. Said(copies, f \o t) = Said(copies, f) \o Said(copies, t)
      BY <3>4, SaidOfParts
    <3> QED
      BY <2>3, <3>1, <3>2, <3>3, <3>5 DEF RemoveAt
  <2>11. ListsOf!Becomes(v, RemoveAt(Lists[v], i), TRUE)
    BY <2>9, <2>10, TextsAreSaid, BecomesReplaced
  <2>12. i \in DOMAIN Lists[v]
    BY <2>2, TextsAreSaid DEF old
  <2>13. ListsOf!RemoveText(v)
    BY <2>11, <2>12, SameOperators DEF ListsOf!RemoveText, Lists
  <2> QED
    BY <2>9, <2>13 DEF VecGoesOn, ListsOf!Next
<1> QED
  BY <1>1, <1>2 DEF RemoveText

LEMMA TruncateGoesOn ==
    ASSUME VecInv, NEW v \in Vec, NEW n \in 0 .. Len(items[v]), Truncate(v, n)
    PROVE  VecGoesOn
<1> DEFINE old == items[v]
           gone == Dropped(v, n)
           cs == KeptCopies(v, n)
           t == SubSeq(old, Len(old) + 1, Len(old))
<1>1. CASE Broken("not shrunk")
  BY <1>1, BrokenGoesOn DEF Truncate
<1>2. ASSUME Holds(v, Without(copies, gone), cs, HasArray(v, n)), Returns(TRUE)
      PROVE  VecGoesOn
  <2>1. Owns(v)
    BY VecFacts
  <2>2. /\ old \in Seq(Duplicate) /\ IsInjective(old) /\ Speaks(copies, old)
        /\ n \in 0 .. Len(old)
    BY <2>1 DEF Owns
  <2>3. gone = {old[k] : k \in n + 1 .. Len(old)} /\ cs = SubSeq(old, 1, n)
    BY DEF Dropped, KeptCopies
  <2>4. HasArray(v, n) \in BOOLEAN
    <3>1. array[v] \in BOOLEAN
      BY DEF VecInv, VecTypeOK
    <3>2. CASE n > 0
      BY <3>1, <3>2 DEF HasArray
    <3>3. CASE ~(n > 0)
      <4>1. (n > 0) = FALSE
        BY <3>3
      <4> QED
        BY <3>1, <4>1, Zenon DEF HasArray
    <3> QED
      BY <3>2, <3>3
  <2> HIDE DEF old, gone, cs
  <2>5. Len(old) + 1 \in n + 1 .. Len(old) + 1 /\ (Len(old) + 1) - 1 = Len(old) /\ t = << >>
    BY <2>2
  <2>6. Leaves(old, cs, t, n, Len(old) + 1)
    BY <2>2, <2>3, <2>5, PartsApart
  <2>7. cs \in Seq(Duplicate) /\ IsInjective(cs) /\ ToSet(cs) = ToSet(old) \ gone
    <3>1. ToSet(t) = {}
      BY <2>5 DEF ToSet
    <3> QED
      BY <3>1, <2>3, <2>5, <2>6 DEF Leaves
  <2>8. gone \subseteq ToSet(old)
    <3>1. \A k \in n + 1 .. Len(old) : k \in DOMAIN old
      BY <2>2
    <3> QED
      BY <2>3, <3>1 DEF ToSet
  <2>9. VecInv' /\ Replaced(v, Said(copies, cs)) /\ vecDone' = TRUE
    <3>1. ToSet(cs) \subseteq ToSet(old)
      BY <2>7
    <3> QED
      BY <1>2, <2>4, <2>7, <2>8, <3>1, KeepsSome DEF old
  <2>10. Said(copies, cs) = SubSeq(Texts(v), 1, n)
    <3>1. 1 \in 1 .. Len(old) + 1
      BY <2>2
    <3>2. Said(copies, SubSeq(old, 1, n)) = SubSeq(Said(copies, old), 1, n)
      BY <2>2, <3>1, SaidOfPart
    <3>3. Said(copies, old) = Texts(v)
      BY TextsAreSaid DEF old
    <3> QED
      BY <2>3, <3>2, <3>3
  <2>11. ListsOf!Becomes(v, SubSeq(Lists[v], 1, n), TRUE) /\ n \in 0 .. Len(Lists[v])
    BY <2>2, <2>9, <2>10, TextsAreSaid, BecomesReplaced DEF old
  <2>12. ListsOf!Truncate(v)
    BY <2>11 DEF ListsOf!Truncate, Lists
  <2> QED
    BY <2>9, <2>12 DEF VecGoesOn, ListsOf!Next
<1> QED
  BY <1>1, <1>2 DEF Truncate

\* After an assignment or an appending that succeeds a vector has the new texts,
\* after one that fails it is empty.
Takes(v, list) ==
    /\ VecInv'
    /\ \/ Replaced(v, list) /\ vecDone' = TRUE
       \/ Replaced(v, << >>) /\ vecDone' = FALSE

LEMMA TakenGoesOn ==
    ASSUME NEW v \in Vec, NEW list, Takes(v, list),
           \/ \E s, t \in Text : list = <<s, t>>
           \/ \E r \in Vec \ {v} : list = Lists[r] \/ list = Lists[v] \o Lists[r]
    PROVE  VecGoesOn
<1>1. ListsOf!Take(v, list) /\ VecInv'
  BY BecomesReplaced DEF Takes, ListsOf!Take
<1>2. ASSUME NEW s \in Text, NEW t \in Text, list = <<s, t>>
      PROVE  ListsOf!Next
  <2>1. ListsOf!Take(v, <<s, t>>)
    BY <1>1, <1>2
  <2> QED
    BY <2>1 DEF ListsOf!Next
<1>3. ASSUME NEW r \in Vec \ {v}, list = Lists[r] \/ list = Lists[v] \o Lists[r]
      PROVE  ListsOf!Next
  <2>1. ListsOf!Take(v, Lists[r]) \/ ListsOf!Take(v, Lists[v] \o Lists[r])
    BY <1>1, <1>3
  <2> QED
    BY <2>1 DEF ListsOf!Next, Lists
<1> QED
  BY <1>1, <1>2, <1>3 DEF VecGoesOn

\* Copies of texts are put behind what v keeps, which is all or nothing.
LEMMA AddedTakes ==
    ASSUME VecInv, NEW v \in Vec, NEW kept \in {items[v], << >>},
           NEW texts \in Seq(Text), AreFree(Len(texts)), NEW has \in BOOLEAN,
           NEW h, h = WithCopies(Without(copies, ToSet(items[v]) \ ToSet(kept)),
                                 NewCopies(Len(texts)), texts),
           Holds(v, h, kept \o NewCopies(Len(texts)), has), Returns(TRUE)
    PROVE  Takes(v, Said(copies, kept) \o texts)
<1> DEFINE new == NewCopies(Len(texts))
           cs == kept \o new
<1>1. AreNew(new, Len(texts))
  BY NewCopiesAreNew
<1>2. Owns(v)
  BY VecFacts
<1>3. /\ kept \in Seq(Duplicate) /\ IsInjective(kept) /\ ToSet(kept) \subseteq ToSet(items[v])
      /\ Speaks(copies, kept)
  <2>1. /\ << >> \in Seq(Duplicate) /\ IsInjective(<< >>) /\ ToSet(<< >>) = {}
        /\ Speaks(copies, << >>)
    BY DEF IsInjective, ToSet, Speaks
  <2> QED
    BY <1>2, <2>1 DEF Owns
<1>4. new \in Seq(Duplicate) /\ IsInjective(new) /\ ToSet(new) \cap DOMAIN copies = {}
  BY <1>1 DEF AreNew
<1> HIDE DEF new
<1>5. GetsMore(h, new, texts, v, kept)
  BY <1>1 DEF GetsMore, new
<1>6. MoreSaid(h, new, texts, v, kept)
  BY <1>3, <1>5, MoreIsSaid
<1>7. JoinIsApart(kept, new)
  <2>1. ToSet(kept) \cap ToSet(new) = {}
    BY <1>2, <1>3, <1>4 DEF Owns
  <2> QED
    BY <2>1, <1>3, <1>4, JoinedApart
<1>8. cs \in Seq(Duplicate) /\ IsInjective(cs) /\ ToSet(cs) = ToSet(kept) \cup ToSet(new)
  BY <1>7 DEF JoinIsApart
<1> HIDE DEF cs
<1>9. MayHold(v, h, cs)
  <2>1. h \in [Others(v) \cup ToSet(cs) -> Text]
    <3>1. (Others(v) \cup ToSet(kept)) \cup ToSet(new) = Others(v) \cup ToSet(cs)
      BY <1>8
    <3> QED
      BY <3>1, <1>6 DEF MoreSaid
  <2> QED
    BY <2>1, <1>2, <1>3, <1>6, <1>8 DEF MayHold, MoreSaid, Owns
<1>10. VecInv' /\ Replaced(v, Said(h, cs)) /\ vecDone' = TRUE
  BY <1>9, HoldsKeeps DEF Returns, cs, new
<1>11. Said(h, cs) = Said(copies, kept) \o texts
  <2>1. \A b \in ToSet(kept) : h[b] = copies[b] /\ h[b] \in Text
    <3>1. \A b \in Others(v) \cup ToSet(kept) : h[b] = copies[b]
      BY <1>6 DEF MoreSaid
    <3> QED
      BY <3>1, <1>2, <1>3 DEF Owns
  <2>2. Said(h, kept) = Said(copies, kept)
    BY <2>1, <1>3, SaidAlike
  <2>3. Speaks(h, kept) /\ Speaks(h, new) /\ Said(h, new) = texts
    BY <2>1, <1>3, <1>6, SpeaksByItem DEF MoreSaid
  <2>4. Said(h, kept \o new) = Said(h, kept) \o Said(h, new)
    BY <2>3, SaidOfParts
  <2> QED
    BY <2>2, <2>3, <2>4 DEF cs
<1>12. Replaced(v, Said(copies, kept) \o texts)
  BY <1>10, <1>11
<1> QED
  BY <1>10, <1>12 DEF Takes

LEMMA EmptiedTakes ==
    ASSUME VecInv, NEW v \in Vec, NEW list, NEW has \in BOOLEAN,
           Holds(v, Without(copies, ToSet(items[v])), << >>, has), Returns(FALSE)
    PROVE  Takes(v, list)
  BY KeepsNone DEF Takes

LEMMA AllDropped == ASSUME VecInv, NEW v \in Vec PROVE Dropped(v, 0) = ToSet(items[v])
<1>1. items[v] \in Seq(Duplicate)
  BY DEF VecInv, VecTypeOK
<1>2. DOMAIN items[v] = 0 + 1 .. Len(items[v])
  BY <1>1
<1> QED
  BY <1>2 DEF Dropped, ToSet

LEMMA HasArrayIsTruth ==
    ASSUME VecInv, NEW v \in Vec PROVE HasArray(v, 0) \in BOOLEAN /\ array[v] \in BOOLEAN
<1>1. array[v] \in BOOLEAN
  BY DEF VecInv, VecTypeOK
<1>2. (0 > 0) = FALSE
  OBVIOUS
<1> QED
  BY <1>1, <1>2, Zenon DEF HasArray

LEMMA AppendToTakes ==
    ASSUME VecInv, NEW v \in Vec, NEW base \in {items[v], << >>},
           NEW h, h = Without(copies, ToSet(items[v]) \ ToSet(base)), NEW has \in BOOLEAN,
           NEW texts \in Seq(Text), AreFree(Len(texts)), AppendTo(v, h, base, has, texts)
    PROVE  \/ Takes(v, Said(copies, base) \o texts)
           \/ VecGoesOn /\ texts # << >>
<1> DEFINE new == NewCopies(Len(texts))
<1>1. ASSUME Holds(v, WithCopies(h, new, texts), base \o new, has \/ texts # << >>),
             Returns(TRUE)
      PROVE  Takes(v, Said(copies, base) \o texts)
  <2>1. (has \/ texts # << >>) \in BOOLEAN
    OBVIOUS
  <2> QED
    BY <1>1, <2>1, AddedTakes
<1>2. ASSUME NEW a \in {has, FALSE}, Holds(v, Without(h, ToSet(base)), << >>, a),
             Returns(FALSE)
      PROVE  Takes(v, Said(copies, base) \o texts)
  <2>1. ToSet(base) \subseteq ToSet(items[v]) /\ ToSet(items[v]) \subseteq DOMAIN copies
    <3>1. ToSet(<< >>) = {}
      BY DEF ToSet
    <3> QED
      BY <3>1, VecFacts DEF Owns
  <2>2. Without(h, ToSet(base)) = Without(copies, ToSet(items[v]))
    BY <2>1 DEF Without
  <2> QED
    BY <1>2, <2>2, EmptiedTakes
<1>3. ASSUME Broken("not shrunk") PROVE VecGoesOn
  BY <1>3, BrokenGoesOn
<1> QED
  BY <1>1, <1>2, <1>3 DEF AppendTo

LEMMA NothingAppended == \A t : t \in Seq(Text) => << >> \o t = t
  OBVIOUS

LEMMA SaidOfNone == \A h : Said(h, << >>) = << >>
  BY DEF Said

LEMMA AppendGoesOn ==
    ASSUME VecInv, NEW v \in Vec, NEW r \in Vec, AppendVec(v, r)
    PROVE  VecGoesOn
<1>1. CASE v = r /\ items[v] # << >>
  BY <1>1, BrokenGoesOn DEF AppendVec
<1>2. CASE ~(v = r /\ items[v] # << >>)
  <2>1. AreFree(Len(items[r])) /\ AppendTo(v, copies, items[v], array[v], Texts(r))
    BY <1>2 DEF AppendVec
  <2>2. copies = Without(copies, ToSet(items[v]) \ ToSet(items[v]))
    BY DEF Without, VecInv, VecTypeOK
  <2>3. /\ Texts(r) \in Seq(Text) /\ Len(Texts(r)) = Len(items[r]) /\ array[v] \in BOOLEAN
        /\ Said(copies, items[v]) = Lists[v] /\ Texts(r) = Lists[r]
    BY TextsAreSaid, HasArrayIsTruth
  <2>4. Takes(v, Lists[v] \o Lists[r]) \/ (VecGoesOn /\ Texts(r) # << >>)
    BY <2>1, <2>2, <2>3, AppendToTakes
  <2>5. CASE v # r
    BY <2>4, <2>5, TakenGoesOn
  <2>6. CASE v = r
    <3>1. items[v] = << >> /\ Lists[v] = << >> /\ Texts(r) = << >>
      BY <1>2, <2>3, <2>6, SaidOfNone
    <3>2. Lists[v] \o Lists[r] = SubSeq(Lists[v], 1, 0) /\ 0 \in 0 .. Len(Lists[v])
      BY <2>6, <3>1
    <3>3. VecInv' /\ Replaced(v, SubSeq(Lists[v], 1, 0))
      <4>1. SubSeq(Lists[v], 1, 0) = << >>
        BY <3>1
      <4>2. Takes(v, << >>)
        BY <2>4, <3>1, <3>2, <4>1
      <4> QED
        BY <4>1, <4>2 DEF Takes
    <3>4. vecDone' = TRUE
      BY <2>1, <3>1 DEF AppendTo, Returns
    <3>5. ListsOf!Truncate(v)
      BY <3>2, <3>3, <3>4, BecomesReplaced DEF ListsOf!Truncate, Lists
    <3> QED
      BY <3>3, <3>5 DEF VecGoesOn, ListsOf!Next
  <2> QED
    BY <2>5, <2>6
<1> QED
  BY <1>1, <1>2

LEMMA AssignArrayGoesOn ==
    ASSUME VecInv, NEW v \in Vec, NEW s \in Text, NEW t \in Text, AssignArray(v, <<s, t>>)
    PROVE  VecGoesOn
<1> DEFINE texts == <<s, t>>
<1>1. CASE Broken("not shrunk")
  BY <1>1, BrokenGoesOn
<1>2. ASSUME AreFree(Len(texts)),
             AppendTo(v, Without(copies, Dropped(v, 0)), << >>, HasArray(v, 0), texts)
      PROVE  VecGoesOn
  <2>1. texts \in Seq(Text) /\ << >> \o texts = texts
    OBVIOUS
  <2>2. Dropped(v, 0) = ToSet(items[v]) \ ToSet(<< >>)
    BY AllDropped DEF ToSet
  <2> HIDE DEF texts
  <2>3. Takes(v, texts) \/ VecGoesOn
    BY <1>2, <2>1, <2>2, AppendToTakes, SaidOfNone, HasArrayIsTruth
  <2> QED
    BY <2>3, TakenGoesOn DEF texts
<1> QED
  BY <1>1, <1>2 DEF AssignArray

LEMMA AssignGoesOn ==
    ASSUME VecInv, NEW v \in Vec, NEW r \in Vec, AssignVec(v, r)
    PROVE  VecGoesOn
<1> DEFINE h == Without(copies, Dropped(v, 0))
           new == NewCopies(Len(items[r]))
<1>1. ASSUME NEW why \in {"not shrunk", "array lost"}, Broken(why) PROVE VecGoesOn
  BY <1>1, BrokenGoesOn
<1>2. ASSUME Truncate(v, 0) PROVE VecGoesOn
  <2>1. 0 \in 0 .. Len(items[v])
    <3>1. items[v] \in Seq(Duplicate)
      BY DEF VecInv, VecTypeOK
    <3> QED
      BY <3>1
  <2> QED
    BY <1>2, <2>1, TruncateGoesOn
<1>3. ASSUME v # r, AreFree(Len(items[r])), AssignFrom(v, r, h)
      PROVE  VecGoesOn
  <2>1. /\ Texts(r) \in Seq(Text) /\ Len(Texts(r)) = Len(items[r]) /\ Texts(r) = Lists[r]
        /\ << >> \o Texts(r) = Texts(r)
    BY TextsAreSaid, NothingAppended
  <2>2. Dropped(v, 0) = ToSet(items[v]) /\ ToSet(<< >>) = {}
    BY AllDropped DEF ToSet
  <2>3. ASSUME Holds(v, WithCopies(h, new, Texts(r)), new, TRUE), Returns(TRUE)
        PROVE  Takes(v, Lists[r])
    <3>1. << >> \o new = new
      <4>1. new \in Seq(Duplicate)
        <5>1. items[r] \in Seq(Duplicate)
          BY DEF VecInv, VecTypeOK
        <5>2. Len(items[r]) \in Nat
          BY <5>1
        <5> QED
          BY <1>3, <5>2, NewCopiesAreNew DEF AreNew
      <4> QED
        BY <4>1
    <3>2. h = Without(copies, ToSet(items[v]) \ ToSet(<< >>))
      BY <2>2
    <3> HIDE DEF h
    <3>3. Takes(v, Said(copies, << >>) \o Texts(r))
      BY <1>3, <2>1, <2>3, <3>1, <3>2, AddedTakes
    <3> QED
      BY <2>1, <3>3, SaidOfNone
  <2>4. ASSUME NEW has \in BOOLEAN, Holds(v, h, << >>, has), Returns(FALSE)
        PROVE  Takes(v, Lists[r])
    BY <2>2, <2>4, EmptiedTakes
  <2>5. Takes(v, Lists[r]) \/ Broken("not shrunk")
    BY <1>3, <2>3, <2>4 DEF AssignFrom
  <2> QED
    BY <1>1, <1>3, <2>5, TakenGoesOn
<1> QED
  BY <1>1, <1>2, <1>3 DEF AssignVec

LEMMA SwapGoesOn ==
    ASSUME VecInv, NEW v \in Vec, NEW r \in Vec, SwapWith(v, r)
    PROVE  VecGoesOn
<1>1. /\ items' = [items EXCEPT ![v] = items[r], ![r] = items[v]]
      /\ array' = [array EXCEPT ![v] = array[r], ![r] = array[v]]
      /\ copies' = copies /\ Returns(TRUE)
  BY DEF SwapWith
<1>2. items \in [Vec -> Seq(Duplicate)] /\ array \in [Vec -> BOOLEAN]
  BY DEF VecInv, VecTypeOK
<1>3. CASE v = r
  <2>1. items' = items /\ array' = array
    BY <1>1, <1>2, <1>3
  <2> QED
    BY <1>1, <2>1, UnchangedGoesOn
<1>4. CASE v # r
  <2> DEFINE from == [w \in Vec |-> IF w = v THEN r ELSE IF w = r THEN v ELSE w]
  <2>1. /\ from \in [Vec -> Vec] /\ from[v] = r /\ from[r] = v
        /\ \A w \in Vec : from[from[w]] = w
        /\ \A u, w \in Vec : from[u] = from[w] => u = w
    BY <1>4
  <2>2. \A w \in Vec : items'[w] = items[from[w]] /\ array'[w] = array[from[w]]
    BY <1>1, <1>2, <1>4
  <2> HIDE DEF from
  <2>3. VecTypeOK'
    <3>1. items' \in [Vec -> Seq(Duplicate)] /\ array' \in [Vec -> BOOLEAN]
      BY <1>1, <1>2
    <3> QED
      BY <1>1, <3>1 DEF VecInv, VecTypeOK, Returns
  <2>4. HeldOnce'
    <3>1. DOMAIN copies' = UNION {ToSet(items'[w]) : w \in Vec}
      <4>1. UNION {ToSet(items[w]) : w \in Vec} = UNION {ToSet(items'[w]) : w \in Vec}
        BY <2>1, <2>2
      <4> QED
        BY <4>1, <1>1 DEF VecInv, HeldOnce
    <3>2. ASSUME NEW u \in Vec, NEW w \in Vec, NEW k \in DOMAIN items'[u],
                 NEW l \in DOMAIN items'[w], items'[u][k] = items'[w][l]
          PROVE  u = w /\ k = l
      <4>1. from[u] = from[w] /\ k = l
        BY <2>1, <2>2, <3>2 DEF VecInv, HeldOnce
      <4> QED
        BY <4>1, <2>1
    <3> QED
      BY <3>1, <3>2 DEF HeldOnce
  <2>5. \A w \in Vec : Texts(w)' = Lists[from[w]]
    <3> TAKE w \in Vec
    <3>1. items'[w] = items[from[w]] /\ copies' = copies /\ from[w] \in Vec
      BY <1>1, <2>1, <2>2
    <3>2. Texts(w)' = [k \in DOMAIN items[from[w]] |-> copies[items[from[w]][k]]]
      BY <3>1 DEF Texts
    <3> QED
      BY <3>1, <3>2 DEF Texts, Lists
  <2>6. Lists' = [Lists EXCEPT ![v] = Lists[r], ![r] = Lists[v]]
    <3>1. \A w \in Vec : w # v /\ w # r => from[w] = w
      BY DEF from
    <3>2. Lists' = [w \in Vec |-> Texts(w)']
      BY DEF Lists
    <3>3. Lists = [w \in Vec |-> Lists[w]]
      BY DEF Lists
    <3> QED
      BY <2>1, <2>5, <3>1, <3>2, <3>3, <1>4
  <2>7. ListsOf!SwapWith(v, r)
    BY <1>1, <2>6 DEF ListsOf!SwapWith, Lists, Returns
  <2> QED
    BY <1>4, <2>3, <2>4, <2>7 DEF VecGoesOn, VecInv, ListsOf!Next
<1> QED
  BY <1>3, <1>4

\* What puts a vector's places in another order is one order of all of them.
LEMMA OrderIsOnto ==
    ASSUME NEW n \in Nat, NEW p \in Injection(1 .. n, 1 .. n)
    PROVE  \A k \in 1 .. n : \E l \in 1 .. n : p[l] = k
<1> SUFFICES ASSUME NEW k \in 1 .. n, \A l \in 1 .. n : p[l] # k PROVE FALSE
  OBVIOUS
<1>1. p \in [1 .. n -> 1 .. n] /\ IsInjective(p)
  BY DEF Injection
<1>2. p \in [1 .. n -> (1 .. n) \ {k}]
  BY <1>1
<1>3. IsFiniteSet(1 .. n) /\ Cardinality(1 .. n) = n
  BY FS_Interval
<1>4. IsFiniteSet((1 .. n) \ {k}) /\ Cardinality((1 .. n) \ {k}) = n - 1
  BY <1>3, FS_RemoveElement
<1>5. Cardinality((1 .. n) \ {k}) < Cardinality(1 .. n)
  BY <1>3, <1>4
<1>6. \E x, y \in 1 .. n : x # y /\ p[x] = p[y]
  BY <1>2, <1>3, <1>4, <1>5, FS_PigeonHole
<1> QED
  BY <1>1, <1>6 DEF IsInjective

LEMMA SortGoesOn ==
    ASSUME VecInv, NEW v \in Vec, NEW up \in BOOLEAN, Sort(v, up)
    PROVE  VecGoesOn
<1> DEFINE old == items[v]
           n == Len(old)
<1>1. /\ Owns(v) /\ old \in Seq(Duplicate) /\ IsInjective(old)
      /\ DOMAIN old = 1 .. n /\ n \in Nat /\ array[v] \in BOOLEAN
  <2>1. Owns(v) /\ array[v] \in BOOLEAN
    BY VecFacts, HasArrayIsTruth
  <2>2. old \in Seq(Duplicate) /\ IsInjective(old)
    BY <2>1 DEF Owns
  <2> QED
    BY <2>1, <2>2
<1>2. PICK p \in Injection(1 .. n, 1 .. n) :
         LET cs == [k \in 1 .. n |-> old[p[k]]] IN
         /\ \A k, l \in 1 .. n :
               k < l => IF up THEN copies[cs[k]] <= copies[cs[l]] ELSE copies[cs[k]] >= copies[cs[l]]
         /\ Holds(v, copies, cs, array[v]) /\ Returns(TRUE)
  BY <1>1 DEF Sort
<1> DEFINE cs == [k \in 1 .. n |-> old[p[k]]]
<1> HIDE DEF old, n
<1>3. p \in [1 .. n -> 1 .. n] /\ \A k, l \in 1 .. n : p[k] = p[l] => k = l
  BY DEF Injection, IsInjective
<1>4. \A k \in 1 .. n : old[p[k]] \in Duplicate /\ old[p[k]] \in ToSet(old)
  BY <1>1, <1>3 DEF ToSet, n
<1>5. cs \in Seq(Duplicate) /\ DOMAIN cs = 1 .. n /\ \A k \in 1 .. n : cs[k] = old[p[k]]
  BY <1>1, <1>4
<1> HIDE DEF cs
<1>6. IsInjective(cs)
  <2> SUFFICES ASSUME NEW k \in 1 .. n, NEW l \in 1 .. n, cs[k] = cs[l] PROVE k = l
    BY <1>5 DEF IsInjective
  <2>1. p[k] = p[l]
    BY <1>1, <1>3, <1>5 DEF IsInjective
  <2> QED
    BY <2>1, <1>3
<1>7. ToSet(cs) = ToSet(old)
  <2>1. ToSet(cs) \subseteq ToSet(old)
    BY <1>4, <1>5 DEF ToSet
  <2>2. \A k \in 1 .. n : old[k] \in ToSet(cs)
    <3> TAKE k \in 1 .. n
    <3>1. PICK l \in 1 .. n : p[l] = k
      BY <1>1, OrderIsOnto
    <3> QED
      BY <3>1, <1>5 DEF ToSet
  <2>3. ToSet(old) \subseteq ToSet(cs)
    BY <2>2, <1>1 DEF ToSet
  <2> QED
    BY <2>1, <2>3
<1>8. copies = Without(copies, {})
  BY DEF Without, VecInv, VecTypeOK
<1>9. VecInv' /\ Replaced(v, Said(copies, cs)) /\ vecDone' = TRUE
  <2>1. Holds(v, Without(copies, {}), cs, array[v]) /\ Returns(TRUE)
    BY <1>2, <1>8 DEF cs
  <2> QED
    BY <2>1, <1>1, <1>5, <1>6, <1>7, KeepsSome DEF old
<1> DEFINE list == [k \in DOMAIN Lists[v] |-> Lists[v][p[k]]]
<1>10. DOMAIN Lists[v] = 1 .. n /\ \A k \in 1 .. n : Lists[v][k] = copies[old[k]]
  BY <1>1 DEF Lists, Texts, old
<1>11. Said(copies, cs) = list
  BY <1>3, <1>5, <1>10 DEF Said
<1>12. /\ DOMAIN list = 1 .. n
       /\ \A k, l \in 1 .. n :
             k < l => IF up THEN list[k] <= list[l] ELSE list[k] >= list[l]
  <2>1. \A k, l \in 1 .. n :
           k < l => IF up THEN copies[cs[k]] <= copies[cs[l]] ELSE copies[cs[k]] >= copies[cs[l]]
    BY <1>2 DEF cs
  <2>2. \A k \in 1 .. n : list[k] = copies[cs[k]]
    BY <1>3, <1>5, <1>10
  <2> QED
    BY <2>1, <2>2, <1>10
<1>13. ListsOf!Becomes(v, list, TRUE)
  BY <1>9, <1>11, BecomesReplaced
<1>14. p \in ListsOf!Injection(DOMAIN Lists[v], DOMAIN Lists[v])
  BY <1>10, SameOperators
<1>15. ListsOf!Sort(v)
  BY <1>12, <1>13, <1>14 DEF ListsOf!Sort, Lists
<1> QED
  BY <1>9, <1>15 DEF VecGoesOn, ListsOf!Next

LEMMA VecNextGoesOn == ASSUME VecInv, VecNext PROVE VecGoesOn
<1>1. ASSUME NEW v \in Vec, NEW d \in BOOLEAN, Returns(d), UNCHANGED <<copies, items, array>>
      PROVE  VecGoesOn
  BY <1>1, UnchangedGoesOn
<1>2. ASSUME NEW v \in Vec, NEW r \in Vec, IsEqual(v, r) PROVE VecGoesOn
  <2> DEFINE d == /\ Len(items[v]) = Len(items[r])
                  /\ \A k \in DOMAIN items[v] : copies[items[v][k]] = copies[items[r][k]]
  <2>1. d \in BOOLEAN /\ Returns(d) /\ UNCHANGED <<copies, items, array>>
    BY <1>2 DEF IsEqual
  <2> HIDE DEF d
  <2> QED
    BY <1>1, <2>1
<1>3. ASSUME NEW v \in Vec, NEW s \in Text, Search(v, s) PROVE VecGoesOn
  <2> DEFINE d == \E k \in DOMAIN items[v] : copies[items[v][k]] = s
  <2>1. d \in BOOLEAN /\ Returns(d) /\ UNCHANGED <<copies, items, array>>
    BY <1>3 DEF Search
  <2> HIDE DEF d
  <2> QED
    BY <1>1, <2>1
<1> QED
  BY <1>2, <1>3, InsertGoesOn, RemoveGoesOn, TruncateGoesOn, AssignArrayGoesOn, SortGoesOn,
     AssignGoesOn, AppendGoesOn, SwapGoesOn DEF VecNext

LEMMA VecInitHolds == ASSUME VecInit PROVE VecInv /\ ListsOf!Init
<1>1. VecTypeOK
  BY DEF VecInit, VecTypeOK
<1>2. HeldOnce
  BY DEF VecInit, HeldOnce, ToSet
<1>3. ListsOf!Init
  BY DEF VecInit, ListsOf!Init, Texts
<1> QED
  BY <1>1, <1>2, <1>3 DEF VecInv

\* Every copy is in one place of one vector, whichever call failed, and whatever has
\* gone wrong for good: none is lost or freed twice (strvec.c:37, strvec.c:69).
THEOREM VecInvariance == VecSpec => []VecInv
<1>1. VecInv /\ [VecNext]_vecVars => VecInv'
  <2>1. CASE VecNext
    BY <2>1, VecNextGoesOn DEF VecGoesOn
  <2>2. CASE UNCHANGED vecVars
    BY <2>2, SameCopies DEF vecVars, VecInv, VecTypeOK
  <2> QED
    BY <2>1, <2>2
<1>2. VecInit => VecInv
  BY VecInitHolds
<1> QED
  BY <1>1, <1>2, PTL DEF VecSpec

\* The vectors are lists of strings: an insertion that fails changes nothing, an
\* assignment or an appending that fails leaves the vector empty, sorting loses
\* nothing; and every copy is held once, for any vectors and texts.
THEOREM ListsStayKept == VecSpec => ListsAreKept
<1>1. VecInv /\ [VecNext]_vecVars => [ListsOf!Next \/ vecFault' # "none"]_vecVars
  BY VecNextGoesOn DEF VecGoesOn
<1>2. VecInv => CopiesAreHeld
  BY DEF VecInv, HeldOnce, CopiesAreHeld
<1>3. VecInit => ListsOf!Init
  BY VecInitHolds
<1> QED
  BY <1>1, <1>2, <1>3, VecInvariance, PTL DEF VecSpec, ListsAreKept

-----------------------------------------------------------------------------
(* The string accumulators. *)

\* The bytes hold what was printed, and behind them is a null unless the last of
\* what was printed is one.
Keeps(d, n, v, s) ==
    /\ d \in Seq(Int) /\ s \in Seq(Nat) /\ v \in BOOLEAN /\ n = Len(s)
    /\ \A k \in 1 .. n : d[k] = s[k]
    /\ n > 0 => v = TRUE /\ Len(d) = n + 1 /\ (d[n + 1] = Nul \/ s[n] = Nul)

\* The inductive invariant.
AccInv ==
    /\ data \in [Acc -> Seq(Int)] /\ accSize \in [Acc -> Nat]
    /\ valid \in [Acc -> BOOLEAN] /\ printed \in [Acc -> Seq(Nat)]
    /\ \A a \in Acc : Keeps(data[a], accSize[a], valid[a], printed[a])

\* Where the first string of s ends.
CstrEnds(s, e) ==
    /\ e \in 0 .. Len(s) /\ \A k \in 1 .. e : s[k] # Nul
    /\ e = Len(s) \/ s[e + 1] = Nul
    /\ Cstr(s) = SubSeq(s, 1, e)

HasCstr(s) == \E e \in 0 .. Len(s) : CstrEnds(s, e)

LEMMA CstrIsThere == ASSUME NEW s \in Seq(Int) PROVE HasCstr(s)
<1> DEFINE nul == {k \in DOMAIN s : s[k] = Nul}
<1>1. nul \in SUBSET Nat /\ DOMAIN s = 1 .. Len(s) /\ Len(s) \in Nat
  OBVIOUS
<1>2. Cstr(s) = IF nul = {} THEN s ELSE SubSeq(s, 1, Min(nul) - 1)
  BY DEF Cstr
<1>3. CASE nul = {}
  <2>1. s = SubSeq(s, 1, Len(s))
    OBVIOUS
  <2>2. CstrEnds(s, Len(s))
    BY <1>1, <1>2, <1>3, <2>1 DEF CstrEnds
  <2> QED
    BY <1>1, <2>2 DEF HasCstr
<1>4. CASE nul # {}
  <2> DEFINE m == Min(nul)
  <2>1. m \in nul /\ \A k \in nul : m <= k
    BY <1>1, <1>4, LeastIsLeast
  <2>2. m \in 1 .. Len(s) /\ s[m] = Nul /\ Cstr(s) = SubSeq(s, 1, m - 1)
    BY <1>1, <1>2, <1>4, <2>1
  <2>3. \A k \in 1 .. m - 1 : s[k] # Nul
    <3> SUFFICES ASSUME NEW k \in 1 .. m - 1, s[k] = Nul PROVE FALSE
      OBVIOUS
    <3>1. k \in nul
      BY <1>1, <2>2
    <3>2. m <= k
      BY <2>1, <3>1
    <3> HIDE DEF m, nul
    <3> QED
      BY <1>1, <2>2, <3>2
  <2> HIDE DEF m
  <2>4. m - 1 \in 0 .. Len(s) /\ (m - 1) + 1 = m
    BY <2>2, <1>1
  <2>5. CstrEnds(s, m - 1)
    BY <2>2, <2>3, <2>4 DEF CstrEnds
  <2> QED
    BY <2>4, <2>5 DEF HasCstr
<1> QED
  BY <1>3, <1>4

\* What is read from where a string begins.
ReadFrom(d, n, s, p) ==
    \E e \in p .. n :
       /\ EndsAt(s, p, e)
       /\ Cstr(SubSeq(d, p + 1, Len(d))) = SubSeq(s, p + 1, e)

LEMMA KeptIsRead ==
    ASSUME NEW d, NEW n, NEW v, NEW s, Keeps(d, n, v, s), NEW p \in 0 .. n - 1
    PROVE  ReadFrom(d, n, s, p)
<1> DEFINE t == SubSeq(d, p + 1, Len(d))
<1>1. /\ d \in Seq(Int) /\ s \in Seq(Nat) /\ n \in Nat /\ n = Len(s) /\ p \in Nat /\ p < n
      /\ Len(d) = n + 1 /\ (d[n + 1] = Nul \/ s[n] = Nul)
      /\ \A k \in 1 .. n : d[k] = s[k]
  <2>1. d \in Seq(Int) /\ s \in Seq(Nat) /\ n = Len(s) /\ \A k \in 1 .. n : d[k] = s[k]
    BY DEF Keeps
  <2>2. n \in Nat
    BY <2>1
  <2>3. p \in Nat /\ p < n /\ n > 0
    BY <2>2
  <2>4. Len(d) = n + 1 /\ (d[n + 1] = Nul \/ s[n] = Nul)
    BY <2>3 DEF Keeps
  <2> QED
    BY <2>1, <2>2, <2>3, <2>4
<1>2. t \in Seq(Int) /\ Len(t) = n + 1 - p /\ \A k \in 1 .. n + 1 - p : t[k] = d[p + k]
  BY <1>1
<1> HIDE DEF t
<1>3. PICK f \in 0 .. Len(t) : CstrEnds(t, f)
  BY <1>2, CstrIsThere DEF HasCstr
<1>4. /\ (\A k \in 1 .. f : t[k] # Nul) /\ (f = Len(t) \/ t[f + 1] = Nul)
      /\ Cstr(t) = SubSeq(t, 1, f)
  BY <1>3 DEF CstrEnds
<1>5. n \in Nat /\ p \in Nat /\ p < n /\ f \in Nat /\ f <= n + 1 - p
  BY <1>1, <1>2
<1>6. \A k \in p + 1 .. p + f : d[k] # Nul
  <2> TAKE k \in p + 1 .. p + f
  <2>1. k - p \in 1 .. f /\ k - p \in 1 .. n + 1 - p /\ p + (k - p) = k
    BY <1>5
  <2> QED
    BY <2>1, <1>2, <1>4
<1>7. p + f <= n
  <2> SUFFICES ASSUME p + f > n PROVE FALSE
    BY <1>5
  <2>1. n + 1 \in p + 1 .. p + f /\ n \in p + 1 .. p + f /\ n \in 1 .. n
    BY <1>5
  <2> QED
    BY <2>1, <1>1, <1>6
<1> DEFINE e == p + f
<1>8. e \in p .. n /\ e \in p .. Len(s) /\ e \in Nat
  BY <1>1, <1>5, <1>7
<1>9. \A k \in p + 1 .. e : s[k] # Nul
  <2> TAKE k \in p + 1 .. e
  <2>1. k \in 1 .. n
    BY <1>1, <1>8
  <2> QED
    BY <2>1, <1>1, <1>6
<1>10. e = Len(s) \/ s[e + 1] = Nul
  <2> SUFFICES ASSUME e # n PROVE s[e + 1] = Nul
    BY <1>1
  <2>1. e + 1 \in 1 .. n /\ f + 1 \in 1 .. n + 1 - p /\ p + (f + 1) = e + 1 /\ f # n + 1 - p
    BY <1>5, <1>7
  <2>2. t[f + 1] = Nul /\ t[f + 1] = d[p + (f + 1)]
    BY <2>1, <1>2, <1>4
  <2>3. d[e + 1] = s[e + 1]
    BY <2>1, <1>1
  <2> QED
    BY <2>1, <2>2, <2>3
<1>11. SubSeq(t, 1, f) = SubSeq(s, p + 1, e)
  <2>1. \A k \in 1 .. f : t[k] = s[p + k]
    <3> TAKE k \in 1 .. f
    <3>1. k \in 1 .. n + 1 - p /\ p + k \in 1 .. n
      BY <1>5, <1>7
    <3>2. t[k] = d[p + k] /\ d[p + k] = s[p + k]
      BY <3>1, <1>1, <1>2
    <3> QED
      BY <3>2
  <2>2. SubSeq(t, 1, f) = [k \in 1 .. f |-> t[k]]
    BY <1>2, <1>4
  <2>3. SubSeq(s, p + 1, e) = [k \in 1 .. f |-> s[p + k]]
    BY <1>1, <1>4, <1>8
  <2> QED
    BY <2>1, <2>2, <2>3
<1>12. EndsAt(s, p, e)
  BY <1>8, <1>9, <1>10 DEF EndsAt
<1> QED
  BY <1>4, <1>8, <1>11, <1>12 DEF ReadFrom, t

\* One sequence behind another.
Joined(h, c, q) ==
    /\ q \in Seq(Int) /\ Len(q) = Len(h) + Len(c)
    /\ \A k \in 1 .. Len(h) : q[k] = h[k]
    /\ \A k \in 1 .. Len(c) : q[Len(h) + k] = c[k]

LEMMA JoinedIs == ASSUME NEW h \in Seq(Int), NEW c \in Seq(Int) PROVE Joined(h, c, h \o c)
<1> DEFINE q == h \o c
<1>1. q \in Seq(Int) /\ Len(q) = Len(h) + Len(c)
  OBVIOUS
<1>2. ASSUME NEW k \in 1 .. Len(h) PROVE q[k] = h[k]
  OBVIOUS
<1>3. ASSUME NEW k \in 1 .. Len(c) PROVE q[Len(h) + k] = c[k]
  <2>1. Len(h) + k \in 1 .. Len(h) + Len(c) /\ ~(Len(h) + k <= Len(h)) /\ (Len(h) + k) - Len(h) = k
    OBVIOUS
  <2> QED
    BY <2>1
<1> QED
  BY <1>1, <1>2, <1>3 DEF Joined

\* A text is kept behind what was kept before.
LEMMA PrintingKeeps ==
    ASSUME NEW d, NEW n, NEW s, Keeps(d, n, TRUE, s), NEW t \in Seq(Nat), t # << >>, ~Cut(t)
    PROVE  Keeps(Printing(d, n, t).data, Printing(d, n, t).size, TRUE, s \o t)
<1>1. /\ d \in Seq(Int) /\ s \in Seq(Nat) /\ n = Len(s) /\ n \in Nat
      /\ \A k \in 1 .. n : d[k] = s[k]
  BY DEF Keeps
<1>2. Len(d) >= n
  <2>1. n > 0 => Len(d) = n + 1
    BY DEF Keeps
  <2> QED
    BY <1>1, <2>1
<1> DEFINE m == Len(t)
           c == Cstr(t)
           h == SubSeq(d, 1, n)
           j == [k \in 1 .. m - Len(c) |-> Junk]
           q == h \o c \o <<Nul>> \o j
<1>3. m \in Nat /\ m > 0 /\ t \in Seq(Int) /\ Len(t) = m
  OBVIOUS
<1>4. Printing(d, n, t).data = q /\ Printing(d, n, t).size = n + m
  BY DEF Printing
<1>5. c = Cstr(t)
  OBVIOUS
<1>6. h \in Seq(Int) /\ Len(h) = n /\ \A k \in 1 .. n : h[k] = d[k]
  BY <1>1, <1>2
<1>7. ~(Len(c) + 1 < m)
  BY DEF Cut
<1> HIDE DEF m, h, c
<1>8. PICK e \in 0 .. m : CstrEnds(t, e)
  BY <1>3, CstrIsThere DEF HasCstr
<1>9. e \in Nat /\ e <= m /\ c = SubSeq(t, 1, e) /\ (e = m \/ t[e + 1] = Nul)
  <2>1. e \in Nat /\ e <= m
    BY <1>3
  <2>2. c = SubSeq(t, 1, e) /\ (e = m \/ t[e + 1] = Nul)
    BY <1>3, <1>8, <1>5 DEF CstrEnds
  <2> QED
    BY <2>1, <2>2
<1>10. c \in Seq(Nat) /\ Len(c) = e /\ \A k \in 1 .. e : c[k] = t[k]
  BY <1>3, <1>9
<1>11. e = m \/ e + 1 = m
  BY <1>3, <1>9, <1>10, <1>7
<1>12. j \in Seq(Int) /\ Len(j) = m - e
  <2>1. m - Len(c) = m - e /\ m - e \in Nat
    BY <1>3, <1>9, <1>10
  <2> QED
    BY <2>1 DEF Junk
<1> HIDE DEF j
<1>13. c \in Seq(Int) /\ <<Nul>> \in Seq(Int) /\ Len(<<Nul>>) = 1 /\ <<Nul>>[1] = Nul
  BY <1>10 DEF Nul
<1> DEFINE hc == h \o c
           hcn == hc \o <<Nul>>
<1>14. /\ \A k \in 1 .. n : hc[k] = s[k]
       /\ \A k \in 1 .. e : hc[n + k] = t[k]
       /\ hc \in Seq(Int) /\ Len(hc) = n + e
  <2>1. Joined(h, c, hc)
    BY <1>6, <1>13, JoinedIs
  <2> HIDE DEF hc
  <2> QED
    BY <2>1, <1>1, <1>10, <1>6 DEF Joined
<1> HIDE DEF hc
<1>15. hcn \in Seq(Int) /\ Len(hcn) = n + e + 1 /\ hcn[n + e + 1] = Nul
  <2>1. Joined(hc, <<Nul>>, hcn)
    BY <1>13, <1>14, JoinedIs
  <2>3. n + e \in Nat /\ 1 \in 1 .. 1
    BY <1>1, <1>9
  <2> HIDE DEF hcn
  <2>2. hcn \in Seq(Int) /\ Len(hcn) = n + e + 1
    BY <2>1, <1>13, <1>14 DEF Joined
  <2> QED
    BY <2>1, <2>2, <2>3, <1>13, <1>14 DEF Joined
<1>16. \A k \in 1 .. n + e : hcn[k] = hc[k]
  <2>1. Joined(hc, <<Nul>>, hcn)
    BY <1>13, <1>14, JoinedIs
  <2> HIDE DEF hcn
  <2> QED
    BY <2>1, <1>14 DEF Joined
<1>17. q = hcn \o j
  BY DEF hc
<1> HIDE DEF hcn, q
<1>18. q \in Seq(Int) /\ Len(q) = n + m + 1
  <2>1. q \in Seq(Int) /\ Len(q) = (n + e + 1) + (m - e)
    BY <1>12, <1>15, <1>17, JoinedIs DEF Joined
  <2> QED
    BY <2>1, <1>1, <1>3, <1>9
<1>19. /\ \A k \in 1 .. n : q[k] = s[k]
       /\ \A k \in 1 .. e : q[n + k] = t[k]
       /\ q[n + e + 1] = Nul
  <2>1. \A k \in 1 .. n + e + 1 : q[k] = hcn[k]
    BY <1>12, <1>15, <1>17, JoinedIs DEF Joined
  <2>6. ASSUME NEW k \in 1 .. n PROVE q[k] = s[k]
    <3>1. k \in 1 .. n + e + 1 /\ k \in 1 .. n + e
      BY <1>1, <1>9
    <3> QED
      BY <3>1, <2>1, <1>14, <1>16
  <2>7. ASSUME NEW k \in 1 .. e PROVE q[n + k] = t[k]
    <3>1. n + k \in 1 .. n + e + 1 /\ n + k \in 1 .. n + e
      BY <1>1, <1>9
    <3> QED
      BY <3>1, <2>1, <1>14, <1>16
  <2>8. q[n + e + 1] = Nul
    <3>1. n + e + 1 \in 1 .. n + e + 1
      BY <1>1, <1>9
    <3> QED
      BY <3>1, <2>1, <1>15
  <2> QED
    BY <2>6, <2>7, <2>8
<1>20. s \in Seq(Int)
  BY <1>1
<1>21. s \o t \in Seq(Nat) /\ Len(s \o t) = n + m
  <2>1. s \o t \in Seq(Nat)
    BY <1>1
  <2> QED
    BY <2>1, <1>1, <1>3, <1>20, JoinedIs DEF Joined
<1>22. /\ \A k \in 1 .. n : (s \o t)[k] = s[k]
       /\ \A k \in 1 .. m : (s \o t)[n + k] = t[k]
  BY <1>1, <1>3, <1>20, JoinedIs DEF Joined
<1>23. \A k \in 1 .. n + m : q[k] = (s \o t)[k]
  <2> TAKE k \in 1 .. n + m
  <2>1. CASE k <= n
    <3>1. k \in 1 .. n
      BY <2>1, <1>1, <1>3
    <3> QED
      BY <3>1, <1>19, <1>22
  <2>2. CASE k > n /\ k - n <= e
    <3>1. k - n \in 1 .. e /\ k - n \in 1 .. m /\ n + (k - n) = k
      BY <2>2, <1>1, <1>3, <1>9
    <3> QED
      BY <3>1, <1>19, <1>22
  <2>3. CASE k > n /\ k - n > e
    <3>1. k = n + e + 1 /\ e # m /\ e + 1 \in 1 .. m /\ n + (e + 1) = k
      <4>1. n \in Nat /\ m \in Nat /\ e \in Nat /\ k \in 1 .. n + m
        BY <1>1, <1>3, <1>9
      <4>2. k - n > e /\ (e = m \/ e + 1 = m)
        BY <2>3, <1>11
      <4> QED
        BY <4>1, <4>2
    <3>2. q[k] = Nul
      BY <3>1, <1>19
    <3>3. (s \o t)[k] = t[e + 1]
      BY <3>1, <1>22
    <3> QED
      BY <3>1, <3>2, <3>3, <1>9
  <2> QED
    BY <2>1, <2>2, <2>3, <1>1, <1>3, <1>9
<1>24. q[n + m + 1] = Nul \/ (s \o t)[n + m] = Nul
  <2>1. CASE e = m
    BY <2>1, <1>19
  <2>2. CASE e + 1 = m /\ e # m
    <3>1. m \in 1 .. m /\ t[m] = Nul
      BY <2>2, <1>3, <1>9
    <3> QED
      BY <3>1, <1>22
  <2> QED
    BY <2>1, <2>2, <1>11, <1>9
<1>25. Keeps(q, n + m, TRUE, s \o t)
  BY <1>18, <1>21, <1>23, <1>24 DEF Keeps
<1> QED
  BY <1>4, <1>25

LEMMA NothingIsKept == ASSUME NEW v \in BOOLEAN PROVE Keeps(<< >>, 0, v, << >>)
  BY DEF Keeps

\* One accumulator changes.
LEMMA OneAccKeeps ==
    ASSUME AccInv, NEW a \in Acc, NEW d, NEW n, NEW v, NEW s,
           Keeps(d, n, v, s), AccBecomes(a, d, n, v, s)
    PROVE  AccInv'
<1>1. d \in Seq(Int) /\ n \in Nat /\ v \in BOOLEAN /\ s \in Seq(Nat)
  BY DEF Keeps
<1>2. /\ data' \in [Acc -> Seq(Int)] /\ accSize' \in [Acc -> Nat]
      /\ valid' \in [Acc -> BOOLEAN] /\ printed' \in [Acc -> Seq(Nat)]
  BY <1>1 DEF AccInv, AccBecomes
<1>3. ASSUME NEW b \in Acc
      PROVE  Keeps(data[b]', accSize[b]', valid[b]', printed[b]')
  <2>1. CASE b = a
    <3>1. data'[b] = d /\ accSize'[b] = n /\ valid'[b] = v /\ printed'[b] = s
      BY <2>1 DEF AccInv, AccBecomes
    <3> QED
      BY <3>1
  <2>2. CASE b # a
    <3>1. /\ data'[b] = data[b] /\ accSize'[b] = accSize[b]
          /\ valid'[b] = valid[b] /\ printed'[b] = printed[b]
      BY <2>2 DEF AccInv, AccBecomes
    <3> QED
      BY <3>1 DEF AccInv
  <2> QED
    BY <2>1, <2>2
<1> QED
  BY <1>2, <1>3 DEF AccInv

LEMMA SameAccKeeps == ASSUME AccInv, AccSame PROVE AccInv'
<1>1. data' = data /\ accSize' = accSize /\ valid' = valid /\ printed' = printed
  BY DEF AccSame
<1> QED
  BY <1>1 DEF AccInv

LEMMA SwapTextsKeeps == ASSUME AccInv, NEW a \in Acc, NEW b \in Acc, SwapTexts(a, b) PROVE AccInv'
<1>1. /\ data' \in [Acc -> Seq(Int)] /\ accSize' \in [Acc -> Nat]
      /\ valid' \in [Acc -> BOOLEAN] /\ printed' \in [Acc -> Seq(Nat)]
  BY DEF AccInv, SwapTexts
<1>2. ASSUME NEW x \in Acc
      PROVE  Keeps(data[x]', accSize[x]', valid[x]', printed[x]')
  <2> DEFINE y == IF x = b THEN a ELSE IF x = a THEN b ELSE x
  <2>1. y \in Acc
    OBVIOUS
  <2>2. /\ data'[x] = data[y] /\ accSize'[x] = accSize[y]
        /\ valid'[x] = valid[y] /\ printed'[x] = printed[y]
    BY DEF AccInv, SwapTexts
  <2> QED
    BY <2>1, <2>2 DEF AccInv
<1> QED
  BY <1>1, <1>2 DEF AccInv

LEMMA AccStepKeeps == ASSUME AccInv, AccNext PROVE AccInv'
<1>1. ASSUME NEW a \in Acc, ClearText(a) PROVE AccInv'
  BY <1>1, NothingIsKept, OneAccKeeps DEF ClearText
<1>2. ASSUME NEW a \in Acc, NEW t \in Printed, AppendText(a, t) PROVE AccInv'
  <2>1. CASE AccSame
    BY <2>1, SameAccKeeps
  <2>2. CASE Invalidate(a)
    BY <2>2, NothingIsKept, OneAccKeeps DEF Invalidate
  <2>3. CASE /\ valid[a] /\ t # << >> /\ ~Cut(t)
             /\ LET p == Printing(data[a], accSize[a], t) IN
                AccBecomes(a, p.data, p.size, TRUE, printed[a] \o t)
    <3>1. t \in Seq(Nat)
      BY PrintedAssumption
    <3>2. Keeps(data[a], accSize[a], TRUE, printed[a])
      <4>1. valid[a] = TRUE
        BY <2>3 DEF AccInv
      <4> QED
        BY <4>1 DEF AccInv
    <3> QED
      BY <2>3, <3>1, <3>2, PrintingKeeps, OneAccKeeps
  <2> QED
    BY <1>2, <2>1, <2>2, <2>3 DEF AppendText, Breaks
<1>3. ASSUME NEW a \in Acc, NEW b \in Acc, AssignText(a, b) PROVE AccInv'
  <2>1. CASE AccSame
    BY <2>1, SameAccKeeps
  <2>2. CASE AccBecomes(a, << >>, 0, IF a = b THEN TRUE ELSE valid[b], << >>)
    <3>1. (IF a = b THEN TRUE ELSE valid[b]) \in BOOLEAN
      BY DEF AccInv
    <3> QED
      BY <2>2, <3>1, NothingIsKept, OneAccKeeps
  <2>3. CASE AccBecomes(a, data[b], accSize[b], valid[b], printed[b])
    BY <2>3, OneAccKeeps DEF AccInv
  <2> QED
    BY <1>3, <2>1, <2>2, <2>3 DEF AssignText, Breaks
<1>4. ASSUME NEW a \in Acc, NEW b \in Acc, EqualTexts(a, b) PROVE AccInv'
  BY <1>4, SameAccKeeps DEF EqualTexts
<1> QED
  BY <1>1, <1>2, <1>3, <1>4, SwapTextsKeeps DEF AccNext

LEMMA AccInvReads == ASSUME AccInv PROVE StringsAreRead
<1> SUFFICES ASSUME NEW a \in Acc
             PROVE  /\ accSize[a] = Len(printed[a])
                    /\ accSize[a] > 0 => valid[a]
                    /\ \A p \in 0 .. accSize[a] - 1 : BeginsAt(printed[a], p) =>
                          \E e \in p .. accSize[a] :
                             /\ EndsAt(printed[a], p, e)
                             /\ StringAt(a, p) = SubSeq(printed[a], p + 1, e)
                             /\ NextCstr(a, p) = IF e + 1 < accSize[a] THEN e + 1 ELSE NoCstr
  BY DEF StringsAreRead
<1> DEFINE n == accSize[a]
           s == printed[a]
<1>1. Keeps(data[a], n, valid[a], s)
  BY DEF AccInv
<1>2. n \in Nat /\ n = Len(s) /\ s \in Seq(Nat) /\ (n > 0 => valid[a])
  BY <1>1 DEF Keeps
<1>3. ASSUME NEW p \in 0 .. n - 1
      PROVE  \E e \in p .. n :
                /\ EndsAt(s, p, e)
                /\ StringAt(a, p) = SubSeq(s, p + 1, e)
                /\ NextCstr(a, p) = IF e + 1 < n THEN e + 1 ELSE NoCstr
  <2>1. ReadFrom(data[a], n, s, p)
    BY <1>1, KeptIsRead
  <2>2. PICK e \in p .. n : EndsAt(s, p, e) /\ StringAt(a, p) = SubSeq(s, p + 1, e)
    BY <2>1 DEF ReadFrom, StringAt
  <2> HIDE DEF n, s
  <2>3. Len(StringAt(a, p)) = e - p /\ n > 0 /\ ~(p >= n) /\ p \in Nat /\ e \in Nat
    BY <1>2, <2>2
  <2>4. p + (e - p) + 1 = e + 1
    BY <2>3
  <2>5. NextCstr(a, p) = IF e + 1 >= n THEN NoCstr ELSE e + 1
    BY <1>2, <2>3, <2>4 DEF NextCstr, n
  <2>6. NextCstr(a, p) = IF e + 1 < n THEN e + 1 ELSE NoCstr
    BY <1>2, <2>3, <2>5
  <2> QED
    BY <2>2, <2>6
<1> QED
  BY <1>2, <1>3

LEMMA AccInitHolds == ASSUME AccInit PROVE AccInv
<1>1. /\ data \in [Acc -> Seq(Int)] /\ accSize \in [Acc -> Nat]
      /\ valid \in [Acc -> BOOLEAN] /\ printed \in [Acc -> Seq(Nat)]
  BY DEF AccInit
<1>2. ASSUME NEW a \in Acc PROVE Keeps(data[a], accSize[a], valid[a], printed[a])
  <2>1. data[a] = << >> /\ accSize[a] = 0 /\ valid[a] = TRUE /\ printed[a] = << >>
    BY DEF AccInit
  <2> QED
    BY <2>1, NothingIsKept
<1> QED
  BY <1>1, <1>2 DEF AccInv

\* The bytes of an accumulator hold what was printed to it, whatever was called before
\* and whichever allocation failed (stracc.c:75), and an invalid one holds nothing.
THEOREM AccInvariance == AccSpec => []AccInv
<1>1. AccInv /\ UNCHANGED accVars => AccInv'
  BY SameAccKeeps DEF accVars, AccSame
<1>2. AccInv /\ [AccNext]_accVars => AccInv'
  BY <1>1, AccStepKeeps
<1> QED
  BY <1>2, AccInitHolds, PTL DEF AccSpec

\* Every string that was printed is read again, from its first character to its null,
\* and the next after it (stracc.c:127), for any texts: what is printed behind a text
\* takes the place of its null, and a text that ends with a null does not end with two.
THEOREM StringsStayRead == AccSpec => []StringsAreRead
<1>1. AccInv => StringsAreRead
  BY AccInvReads
<1> QED
  BY <1>1, AccInvariance, PTL
-----------------------------------------------------------------------------
(* Times. *)

\* Division towards zero.
Towards(n, d, q, r) ==
    /\ q \in Int /\ r \in Int /\ n = q * d + r
    /\ n >= 0 => q >= 0 /\ r >= 0 /\ r < d
    /\ n <= 0 => q <= 0 /\ r <= 0 /\ 0 - d < r

LEMMA QuotIs ==
    ASSUME NEW n \in Int, NEW d \in Nat \ {0}
    PROVE  Towards(n, d, Quot(n, d), Rem(n, d))
<1> DEFINE m == Magnitude(n)
           q == m \div d
           r == m % d
<1>1. m \in Nat /\ (n >= 0 => m = n) /\ (n < 0 => m = -n)
  BY DEF Magnitude, Sign
<1>2. m = d * q + r /\ q \in Nat /\ r \in 0 .. d - 1
  BY <1>1, Division
<1>3. Quot(n, d) = Sign(n) * q /\ Rem(n, d) = Sign(n) * r
  BY DEF Quot, Rem
<1> HIDE DEF m, q, r
<1>4. d * q = q * d /\ (-q) * d = -(q * d) /\ q * d \in Nat
  BY <1>2
<1>5. CASE n >= 0
  <2>1. Sign(n) = 1
    BY <1>5 DEF Sign
  <2>2. Quot(n, d) = q /\ Rem(n, d) = r
    BY <1>2, <1>3, <2>1
  <2>3. n = 0 => q = 0 /\ r = 0
    <3> SUFFICES ASSUME n = 0 PROVE q = 0 /\ r = 0
      OBVIOUS
    <3>1. d * q + r = 0
      BY <1>1, <1>2
    <3> QED
      BY <1>2, <1>4, <3>1
  <2> QED
    BY <1>1, <1>2, <1>4, <1>5, <2>2, <2>3 DEF Towards
<1>6. CASE n < 0
  <2>1. Sign(n) = -1
    BY <1>6 DEF Sign
  <2>2. Quot(n, d) = -q /\ Rem(n, d) = -r
    BY <1>2, <1>3, <2>1
  <2> QED
    BY <1>1, <1>2, <1>4, <1>6, <2>2 DEF Towards
<1> QED
  BY <1>5, <1>6

LEMMA Scaled ==
    ASSUME NEW a \in Int, NEW b \in Int, NEW p \in Nat, a < b
    PROVE  a * p + p <= b * p
  OBVIOUS

\* There is only one such quotient.
LEMMA TowardsIsUnique ==
    ASSUME NEW n \in Int, NEW d \in Nat \ {0}, NEW q, NEW r, Towards(n, d, q, r)
    PROVE  Quot(n, d) = q
<1> DEFINE c == Quot(n, d)
           s == Rem(n, d)
<1>1. Towards(n, d, c, s)
  BY QuotIs
<1> HIDE DEF c, s
<1>2. /\ c \in Int /\ s \in Int /\ q \in Int /\ r \in Int /\ c * d + s = q * d + r
      /\ c * d \in Int /\ q * d \in Int /\ s - r < d /\ r - s < d
  BY <1>1 DEF Towards
<1>3. ~(c < q)
  <2> SUFFICES ASSUME c < q PROVE FALSE
    OBVIOUS
  <2>1. c * d + d <= q * d
    BY <1>2, Scaled
  <2> QED
    BY <1>2, <2>1
<1>4. ~(q < c)
  <2> SUFFICES ASSUME q < c PROVE FALSE
    OBVIOUS
  <2>1. q * d + d <= c * d
    BY <1>2, Scaled
  <2> QED
    BY <1>2, <2>1
<1>5. c = q
  BY <1>2, <1>3, <1>4
<1> QED
  BY <1>5 DEF c

LEMMA QuotGrows ==
    ASSUME NEW a \in Int, NEW b \in Int, NEW d \in Nat \ {0}, a <= b
    PROVE  Quot(a, d) <= Quot(b, d)
<1> DEFINE c == Quot(a, d)
           r == Rem(a, d)
           e == Quot(b, d)
           s == Rem(b, d)
<1>1. Towards(a, d, c, r) /\ Towards(b, d, e, s)
  BY QuotIs
<1> HIDE DEF c, r, e, s
<1>2. /\ c \in Int /\ r \in Int /\ e \in Int /\ s \in Int /\ a = c * d + r /\ b = e * d + s
      /\ c * d \in Int /\ e * d \in Int
  BY <1>1 DEF Towards
<1>3. ~(e < c)
  <2> SUFFICES ASSUME e < c PROVE FALSE
    OBVIOUS
  <2>1. e * d + d <= c * d
    BY <1>2, Scaled
  <2>2. CASE a >= 0
    <3>1. r >= 0 /\ s < d
      BY <1>1, <2>2 DEF Towards
    <3> QED
      BY <1>2, <2>1, <3>1
  <2>3. CASE b <= 0
    <3>1. 0 - d < r /\ s <= 0
      BY <1>1, <2>3 DEF Towards
    <3> QED
      BY <1>2, <2>1, <3>1
  <2>4. CASE a < 0 /\ b > 0
    <3>1. c <= 0 /\ e >= 0
      BY <1>1, <2>4 DEF Towards
    <3> QED
      BY <1>2, <3>1
  <2> QED
    BY <2>2, <2>3, <2>4
<1>4. c <= e
  BY <1>2, <1>3
<1> QED
  BY <1>4 DEF c, e

\* A time as the library has it.
Split(u) ==
    /\ u \in [sec : Int, nsec : Int] /\ Agrees(u)
    /\ u.nsec < Prec /\ 0 - Prec < u.nsec

LEMMA TimesAreSplit ==
    ASSUME NEW u \in Times
    PROVE  Split(u)
  BY PrecAssumption DEF Times, Split

LEMMA OfIs ==
    ASSUME NEW sec \in Int, NEW nsec \in Int
    PROVE  Of(sec, nsec) \in [sec : Int, nsec : Int] /\ Of(sec, nsec).sec = sec /\ Of(sec, nsec).nsec = nsec
  BY DEF Of

LEMMA AddedIs ==
    ASSUME NEW v, NEW u, Split(v), Split(u)
    PROVE  Split(Added(v, u)) /\ Parts(Added(v, u)) = Parts(v) + Parts(u)
<1> DEFINE a == v.sec
           b == u.sec
           m == v.nsec
           n == u.nsec
<1>1. /\ a \in Int /\ b \in Int /\ m \in Int /\ n \in Int /\ Prec \in Nat \ {0}
      /\ (a >= 0 /\ m >= 0) \/ (a <= 0 /\ m <= 0)
      /\ (b >= 0 /\ n >= 0) \/ (b <= 0 /\ n <= 0)
      /\ m < Prec /\ 0 - Prec < m /\ n < Prec /\ 0 - Prec < n
  BY PrecAssumption DEF Split, Agrees
<1>2. Parts(v) = a * Prec + m /\ Parts(u) = b * Prec + n
  BY DEF Parts
<1>3. CASE IsPositive(v) <=> IsPositive(u)
  <2> DEFINE c == Quot(m + n, Prec)
             r == Rem(m + n, Prec)
             w == Added(v, u)
  <2>1. w = Of(a + b + c, (m + n) - c * Prec)
    <3>1. w = AddedAlike(v, u)
      BY <1>3 DEF Added
    <3> QED
      BY <3>1 DEF AddedAlike
  <2>2. Towards(m + n, Prec, c, r)
    BY <1>1, QuotIs
  <2>3. \/ a >= 0 /\ m >= 0 /\ b >= 0 /\ n >= 0
        \/ a <= 0 /\ m <= 0 /\ b <= 0 /\ n <= 0
    BY <1>1, <1>3 DEF IsPositive
  <2> HIDE DEF a, b, m, n, c, r, w
  <2>4. c \in Int /\ r \in Int /\ c * Prec \in Int /\ (m + n) - c * Prec = r
    BY <1>1, <2>2 DEF Towards
  <2>5. w \in [sec : Int, nsec : Int] /\ w.sec = a + b + c /\ w.nsec = r
    BY <1>1, <2>1, <2>4, OfIs
  <2>6. \/ a >= 0 /\ b >= 0 /\ c >= 0 /\ r >= 0 /\ r < Prec
        \/ a <= 0 /\ b <= 0 /\ c <= 0 /\ r <= 0 /\ 0 - Prec < r
    BY <1>1, <2>2, <2>3 DEF Towards
  <2>7. Split(w)
    BY <1>1, <2>4, <2>5, <2>6 DEF Split, Agrees
  <2>8. (a + b + c) * Prec + r = a * Prec + m + (b * Prec + n)
    <3>1. (a + b + c) * Prec = a * Prec + b * Prec + c * Prec
      BY <1>1, <2>4
    <3>2. a * Prec \in Int /\ b * Prec \in Int
      BY <1>1
    <3> QED
      BY <1>1, <2>4, <3>1, <3>2
  <2>9. Parts(w) = Parts(v) + Parts(u)
    BY <1>2, <2>5, <2>8 DEF Parts
  <2> QED
    BY <2>7, <2>9 DEF w
<1>4. CASE ~(IsPositive(v) <=> IsPositive(u))
  <2> DEFINE w == Added(v, u)
             s == Of(a + b, m + n)
  <2>1. w = IF Agrees(s) THEN s
            ELSE IF s.sec > 0 THEN Of(s.sec - 1, s.nsec + Prec) ELSE Of(s.sec + 1, s.nsec - Prec)
    BY <1>4 DEF Added, AddedApart
  <2>2. \/ a >= 0 /\ m >= 0 /\ b <= 0 /\ n <= 0
        \/ a <= 0 /\ m <= 0 /\ b >= 0 /\ n >= 0
    BY <1>1, <1>4 DEF IsPositive
  <2>3. s \in [sec : Int, nsec : Int] /\ s.sec = a + b /\ s.nsec = m + n
    <3> HIDE DEF a, b, m, n
    <3> QED
      BY <1>1, OfIs
  <2> HIDE DEF a, b, m, n, w, s
  <2>4. m + n < Prec /\ 0 - Prec < m + n
    BY <1>1, <2>2
  <2>5. a * Prec \in Int /\ b * Prec \in Int /\ (a + b) * Prec = a * Prec + b * Prec
        /\ ((a + b) - 1) * Prec = (a * Prec + b * Prec) - Prec
        /\ ((a + b) + 1) * Prec = a * Prec + b * Prec + Prec
    BY <1>1
  <2>6. CASE Agrees(s)
    <3>1. w = s
      BY <2>1, <2>6
    <3>2. Split(w)
      BY <1>1, <2>3, <2>4, <2>6, <3>1 DEF Split
    <3>3. Parts(w) = Parts(v) + Parts(u)
      BY <1>1, <1>2, <2>3, <2>5, <3>1 DEF Parts
    <3> QED
      BY <3>2, <3>3 DEF w
  <2>7. CASE ~Agrees(s) /\ a + b > 0
    <3>1. m + n < 0
      BY <1>1, <2>3, <2>7 DEF Agrees
    <3>2. w = Of((a + b) - 1, (m + n) + Prec)
      <4>1. s.sec > 0
        BY <2>3, <2>7
      <4>2. w = Of(s.sec - 1, s.nsec + Prec)
        BY <2>1, <2>7, <4>1
      <4> QED
        BY <2>3, <4>2
    <3>3. w \in [sec : Int, nsec : Int] /\ w.sec = (a + b) - 1 /\ w.nsec = (m + n) + Prec
      BY <1>1, <3>2, OfIs
    <3>4. Split(w)
      BY <1>1, <2>4, <2>7, <3>1, <3>3 DEF Split, Agrees
    <3>5. Parts(w) = Parts(v) + Parts(u)
      BY <1>1, <1>2, <2>5, <3>3 DEF Parts
    <3> QED
      BY <3>4, <3>5 DEF w
  <2>8. CASE ~Agrees(s) /\ ~(a + b > 0)
    <3>1. a + b < 0 /\ m + n > 0
      BY <1>1, <2>3, <2>8 DEF Agrees
    <3>2. w = Of((a + b) + 1, (m + n) - Prec)
      <4>1. ~(s.sec > 0)
        BY <2>3, <2>8
      <4>2. w = Of(s.sec + 1, s.nsec - Prec)
        BY <2>1, <2>8, <4>1
      <4> QED
        BY <2>3, <4>2
    <3>3. w \in [sec : Int, nsec : Int] /\ w.sec = (a + b) + 1 /\ w.nsec = (m + n) - Prec
      BY <1>1, <3>2, OfIs
    <3>4. Split(w)
      BY <1>1, <2>4, <3>1, <3>3 DEF Split, Agrees
    <3>5. Parts(w) = Parts(v) + Parts(u)
      BY <1>1, <1>2, <2>5, <3>3 DEF Parts
    <3> QED
      BY <3>4, <3>5 DEF w
  <2> QED
    BY <2>6, <2>7, <2>8
<1> QED
  BY <1>3, <1>4

LEMMA NegatedIs ==
    ASSUME NEW u, Split(u)
    PROVE  Split(Of(-u.sec, -u.nsec)) /\ Parts(Of(-u.sec, -u.nsec)) = -Parts(u)
<1> DEFINE a == u.sec
           m == u.nsec
           w == Of(-a, -m)
<1>1. /\ a \in Int /\ m \in Int /\ Prec \in Nat \ {0} /\ m < Prec /\ 0 - Prec < m
      /\ (a >= 0 /\ m >= 0) \/ (a <= 0 /\ m <= 0)
  BY PrecAssumption DEF Split, Agrees
<1>2. Parts(u) = a * Prec + m
  BY DEF Parts
<1>3. w \in [sec : Int, nsec : Int] /\ w.sec = -a /\ w.nsec = -m
  <2> HIDE DEF a, m
  <2> QED
    BY <1>1, OfIs
<1> HIDE DEF a, m, w
<1>4. Split(w)
  BY <1>1, <1>3 DEF Split, Agrees
<1>5. Parts(w) = -Parts(u)
  BY <1>1, <1>2, <1>3 DEF Parts
<1> QED
  BY <1>4, <1>5 DEF a, m, w

\* A second is d units of so many parts.
Unit(d) == Prec \div d

LEMMA UnitIs ==
    ASSUME NEW d \in Scale
    PROVE  d \in Nat \ {0} /\ Unit(d) \in Nat \ {0} /\ d * Unit(d) = Prec
<1> DEFINE u == Prec \div d
           r == Prec % d
<1>1. d \in Nat \ {0} /\ r = 0 /\ Prec \in Nat \ {0}
  BY PrecAssumption
<1>2. Prec = d * u + r /\ u \in Nat
  BY <1>1, Division
<1> HIDE DEF u, r
<1>3. u # 0 /\ Prec = d * u
  BY <1>1, <1>2
<1> QED
  BY <1>1, <1>2, <1>3 DEF Unit, u

LEMMA FromIs ==
    ASSUME NEW n \in Int, NEW d \in Scale
    PROVE  /\ Split(From(n, d)) /\ Parts(From(n, d)) = n * Unit(d)
           /\ From(n, d).sec = Quot(n, d) /\ From(n, d).nsec = Rem(n, d) * Unit(d)
<1> DEFINE q == Quot(n, d)
           r == Rem(n, d)
           e == Unit(d)
           w == From(n, d)
<1>1. d \in Nat \ {0} /\ e \in Nat \ {0} /\ d * e = Prec /\ Prec \in Nat \ {0}
  BY UnitIs, PrecAssumption
<1>2. Towards(n, d, q, r)
  BY <1>1, QuotIs
<1>3. w = Of(q, r * e)
  BY DEF From, Unit
<1> HIDE DEF q, r, e, w
<1>4. q \in Int /\ r \in Int /\ n = q * d + r /\ r * e \in Int
  BY <1>1, <1>2 DEF Towards
<1>5. w \in [sec : Int, nsec : Int] /\ w.sec = q /\ w.nsec = r * e
  BY <1>3, <1>4, OfIs
<1>6. \/ q >= 0 /\ r >= 0 /\ r < d
      \/ q <= 0 /\ r <= 0 /\ 0 - d < r
  BY <1>2 DEF Towards
<1>7. r < d => r * e < Prec
  <2> SUFFICES ASSUME r < d PROVE r * e < Prec
    OBVIOUS
  <2>1. r * e + e <= d * e
    BY <1>1, <1>4, Scaled
  <2> QED
    BY <1>1, <1>4, <2>1
<1>8. 0 - d < r => 0 - Prec < r * e
  <2> SUFFICES ASSUME 0 - d < r PROVE 0 - Prec < r * e
    OBVIOUS
  <2>1. (0 - d) * e + e <= r * e
    BY <1>1, <1>4, Scaled
  <2>2. (0 - d) * e = 0 - Prec
    BY <1>1
  <2> QED
    BY <1>1, <1>4, <2>1, <2>2
<1>9. (r >= 0 => r * e >= 0) /\ (r <= 0 => r * e <= 0)
  BY <1>1, <1>4
<1>10. Split(w)
  BY <1>1, <1>4, <1>5, <1>6, <1>7, <1>8, <1>9 DEF Split, Agrees
<1>11. Parts(w) = n * e
  <2>1. q * Prec = (q * d) * e
    BY <1>1, <1>4
  <2>2. (q * d + r) * e = (q * d) * e + r * e
    BY <1>1, <1>4
  <2> QED
    BY <1>4, <1>5, <2>1, <2>2 DEF Parts
<1> QED
  BY <1>5, <1>10, <1>11 DEF q, r, e, w

\* The parts of a time tell in which order times are.
LEMMA PartsOrder ==
    ASSUME NEW v, NEW u, Split(v), Split(u)
    PROVE  /\ v.sec < u.sec => Parts(v) < Parts(u)
           /\ v.sec = u.sec => Parts(v) - Parts(u) = v.nsec - u.nsec
           /\ Parts(v) \in Int /\ Parts(u) \in Int
<1> DEFINE a == v.sec
           b == u.sec
           m == v.nsec
           n == u.nsec
<1>1. /\ a \in Int /\ b \in Int /\ m \in Int /\ n \in Int /\ Prec \in Nat \ {0}
      /\ (a >= 0 /\ m >= 0) \/ (a <= 0 /\ m <= 0)
      /\ (b >= 0 /\ n >= 0) \/ (b <= 0 /\ n <= 0)
      /\ m < Prec /\ 0 - Prec < m /\ n < Prec /\ 0 - Prec < n
  BY PrecAssumption DEF Split, Agrees
<1>2. Parts(v) = a * Prec + m /\ Parts(u) = b * Prec + n
  BY DEF Parts
<1> HIDE DEF a, b, m, n
<1>3. a * Prec \in Int /\ b * Prec \in Int
  BY <1>1
<1>4. ASSUME a < b PROVE a * Prec + m < b * Prec + n
  <2>1. a * Prec + Prec <= b * Prec
    BY <1>1, <1>4, Scaled
  <2>2. m <= 0 \/ n >= 0
    BY <1>1, <1>4
  <2> QED
    BY <1>1, <1>3, <2>1, <2>2
<1>5. ASSUME a = b PROVE (a * Prec + m) - (b * Prec + n) = m - n
  BY <1>1, <1>3, <1>5
<1>6. a * Prec + m \in Int /\ b * Prec + n \in Int
  BY <1>1, <1>3
<1> QED
  BY <1>2, <1>4, <1>5, <1>6 DEF a, b, m, n

LEMMA LessIs ==
    ASSUME NEW v, NEW u, Split(v), Split(u)
    PROVE  /\ Less(v, u) <=> Parts(v) < Parts(u)
           /\ LessOrEqual(v, u) <=> Parts(v) <= Parts(u)
<1>1. /\ v.sec \in Int /\ u.sec \in Int /\ v.nsec \in Int /\ u.nsec \in Int
      /\ Parts(v) \in Int /\ Parts(u) \in Int
  BY PartsOrder DEF Split
<1>2. CASE v.sec = u.sec
  BY <1>1, <1>2, PartsOrder DEF Less, LessOrEqual, Equal
<1>3. CASE v.sec < u.sec
  BY <1>1, <1>3, PartsOrder DEF Less, LessOrEqual, Equal
<1>4. CASE u.sec < v.sec
  <2>1. Parts(u) < Parts(v)
    BY <1>4, PartsOrder
  <2> QED
    BY <1>1, <1>4, <2>1 DEF Less, LessOrEqual, Equal
<1> QED
  BY <1>1, <1>2, <1>3, <1>4

\* Units of a time, and what is left.
LEMMA ToIs ==
    ASSUME NEW u, Split(u), NEW d \in Scale
    PROVE  \E q, r, h \in Int :
              /\ To(u, d) = u.sec * d + q /\ Towards(u.nsec + h, Unit(d), q, r)
              /\ q = Quot(u.nsec + h, Unit(d))
              /\ h = Unit(d) \div 2 /\ h >= 0 /\ 2 * h <= Unit(d) /\ Unit(d) <= 2 * h + 1
<1> DEFINE e == Unit(d)
           h == e \div 2
           q == Quot(u.nsec + h, e)
           r == Rem(u.nsec + h, e)
<1>1. e \in Nat \ {0}
  BY UnitIs
<1>2. To(u, d) = u.sec * d + q
  BY DEF To, Unit
<1> HIDE DEF e
<1>3. h \in Int /\ h >= 0 /\ 2 * h <= e /\ e <= 2 * h + 1
  BY <1>1
<1> HIDE DEF h
<1>4. Towards(u.nsec + h, e, q, r)
  BY <1>1, <1>3, QuotIs DEF Split
<1>5. q \in Int /\ r \in Int /\ q = Quot(u.nsec + h, e)
  BY <1>4 DEF Towards
<1> HIDE DEF q, r
<1> QED
  BY <1>2, <1>3, <1>4, <1>5 DEF e, h

\* A later time has no fewer units.
LEMMA ToGrows ==
    ASSUME NEW v, NEW u, Split(v), Split(u), NEW d \in Scale, Parts(v) <= Parts(u)
    PROVE  To(v, d) <= To(u, d)
<1> DEFINE a == v.sec
           b == u.sec
           m == v.nsec
           n == u.nsec
           e == Unit(d)
<1>1. /\ a \in Int /\ b \in Int /\ m \in Int /\ n \in Int /\ Prec \in Nat \ {0}
      /\ (a >= 0 /\ m >= 0) \/ (a <= 0 /\ m <= 0)
      /\ (b >= 0 /\ n >= 0) \/ (b <= 0 /\ n <= 0)
      /\ m < Prec /\ 0 - Prec < m /\ n < Prec /\ 0 - Prec < n
  BY PrecAssumption DEF Split, Agrees
<1>2. PICK q, r, h \in Int : 
              /\ To(v, d) = a * d + q /\ Towards(m + h, e, q, r) /\ q = Quot(m + h, e)
              /\ h = e \div 2 /\ h >= 0 /\ 2 * h <= e
  BY ToIs
<1>3. PICK p, s, g \in Int : 
              /\ To(u, d) = b * d + p /\ Towards(n + g, e, p, s) /\ p = Quot(n + g, e)
              /\ g = e \div 2
  BY ToIs
<1>4. d \in Nat \ {0} /\ e \in Nat \ {0} /\ d * e = Prec
  BY UnitIs
<1>5. ~(u.sec < v.sec) /\ (v.sec = u.sec => v.nsec <= u.nsec)
  BY PartsOrder, <1>1
<1> HIDE DEF a, b, m, n, e
<1>6. a <= b /\ (a = b => m <= n) /\ g = h
  BY <1>1, <1>2, <1>3, <1>5 DEF a, b, m, n
<1>7. CASE a = b
  <2>1. q <= p
    <3>1. m + h <= n + g /\ m + h \in Int /\ n + g \in Int
      BY <1>1, <1>2, <1>6, <1>7
    <3> QED
      BY <1>2, <1>3, <1>4, <3>1, QuotGrows
  <2>2. a * d \in Int
    BY <1>1, <1>4
  <2> QED
    BY <1>2, <1>3, <1>7, <2>1, <2>2
<1>8. CASE a < b
  <2>1. a * d + d <= b * d /\ a * d \in Int /\ b * d \in Int
    BY <1>1, <1>4, <1>8, Scaled
  <2>2. q * e \in Int /\ p * e \in Int /\ m + h = q * e + r /\ n + h = p * e + s
    BY <1>2, <1>3, <1>4, <1>6 DEF Towards
  <2>3. q <= d
    <3> SUFFICES ASSUME d < q PROVE FALSE
      BY <1>4
    <3>1. d * e + e <= q * e
      BY <1>4, Scaled
    <3>2. m + h > 0 /\ r >= 0
      <4>1. q > 0
        BY <1>4
      <4> QED
        BY <1>1, <1>2, <4>1 DEF Towards
    <3> QED
      BY <1>1, <1>2, <1>4, <2>2, <3>1, <3>2
  <2>4. 0 - d <= p
    <3> SUFFICES ASSUME p < 0 - d PROVE FALSE
      BY <1>4
    <3>1. p * e + e <= (0 - d) * e /\ (0 - d) * e = 0 - Prec
      BY <1>4, Scaled
    <3>2. s <= 0
      <4>1. p < 0
        BY <1>4
      <4> QED
        BY <1>1, <1>3, <4>1 DEF Towards
    <3> QED
      BY <1>1, <1>2, <1>4, <2>2, <3>1, <3>2
  <2>5. CASE a >= 0
    <3>1. p >= 0
      <4>1. n >= 0 /\ n + g >= 0
        BY <1>1, <1>2, <1>6, <1>8, <2>5
      <4> QED
        BY <1>3, <4>1 DEF Towards
    <3> QED
      BY <1>2, <1>3, <1>4, <2>1, <2>3, <3>1
  <2>6. CASE b <= 0
    <3>1. q <= 0
      <4>1. m <= 0
        BY <1>1, <1>8, <2>6
      <4>2. ~(q >= 1)
        <5> SUFFICES ASSUME q >= 1 PROVE FALSE
          OBVIOUS
        <5>1. r >= 0 /\ 0 <= m + h
          BY <1>1, <1>2, <4>1 DEF Towards
        <5>2. q * e >= e
          BY <1>4
        <5> QED
          BY <1>1, <1>2, <1>4, <2>2, <4>1, <5>1, <5>2
      <4> QED
        BY <4>2
    <3> QED
      BY <1>2, <1>3, <1>4, <2>1, <2>4, <3>1
  <2>7. CASE a < 0 /\ 0 < b
    <3>1. a * d + d <= 0 * d /\ 0 * d + d <= b * d
      BY <1>1, <1>4, <2>7, Scaled
    <3>2. q <= 0 /\ p >= 0
      <4>1. m <= 0 /\ n >= 0 /\ n + g >= 0
        BY <1>1, <1>2, <1>6, <2>7
      <4>2. ~(q >= 1)
        <5> SUFFICES ASSUME q >= 1 PROVE FALSE
          OBVIOUS
        <5>1. r >= 0 /\ 0 <= m + h
          BY <1>1, <1>2, <4>1 DEF Towards
        <5>2. q * e >= e
          BY <1>4
        <5> QED
          BY <1>1, <1>2, <1>4, <2>2, <4>1, <5>1, <5>2
      <4> QED
        BY <1>3, <4>1, <4>2 DEF Towards
    <3> QED
      BY <1>2, <1>3, <1>4, <2>1, <3>1, <3>2
  <2> QED
    BY <1>1, <2>5, <2>6, <2>7
<1> QED
  BY <1>1, <1>6, <1>7, <1>8

\* What is said of a time in units.
InUnits(u, d) ==
    LET unit == Prec \div d
        off == To(u, d) * unit - Parts(u)
    IN IF Parts(u) >= 0 THEN 2 * Magnitude(off) <= unit /\ To(From(To(u, d), d), d) = To(u, d)
       ELSE off >= 0 /\ 2 * off < 3 * unit

\* Whole units come back as they were.
LEMMA UnitsReturn ==
    ASSUME NEW n \in Nat, NEW d \in Scale
    PROVE  To(From(n, d), d) = n
<1> DEFINE u == From(n, d)
           e == Unit(d)
           p == Quot(n, d)
           s == Rem(n, d)
<1>1. d \in Nat \ {0} /\ e \in Nat \ {0}
  BY UnitIs
<1>2. Split(u) /\ u.sec = p /\ u.nsec = s * e
  BY FromIs
<1>3. Towards(n, d, p, s)
  BY <1>1, QuotIs
<1>4. PICK q, r, h \in Int :
              /\ To(u, d) = u.sec * d + q /\ q = Quot(u.nsec + h, e)
              /\ h >= 0 /\ 2 * h <= e
  BY <1>2, ToIs
<1> HIDE DEF u, e, p, s
<1>5. p \in Int /\ s \in Int /\ n = p * d + s /\ s >= 0 /\ s * e \in Int /\ s * e >= 0
  BY <1>1, <1>3 DEF Towards
<1>6. Towards(s * e + h, e, s, h)
  <2>1. h < e /\ 0 - e < h
    BY <1>1, <1>4
  <2>2. s * e + h >= 0
    BY <1>1, <1>4, <1>5
  <2>3. s * e + h <= 0 => s <= 0 /\ h <= 0
    <3> SUFFICES ASSUME s * e + h <= 0 PROVE s <= 0 /\ h <= 0
      OBVIOUS
    <3>1. h = 0 /\ s * e = 0
      BY <1>4, <1>5
    <3>2. ~(s >= 1)
      <4> SUFFICES ASSUME s >= 1 PROVE FALSE
        OBVIOUS
      <4>1. s * e >= e
        BY <1>1, <1>5
      <4> QED
        BY <1>1, <3>1, <4>1
    <3> QED
      BY <1>5, <3>1, <3>2
  <2> QED
    BY <1>4, <1>5, <2>1, <2>2, <2>3 DEF Towards
<1>7. Quot(s * e + h, e) = s
  <2>1. s * e + h \in Int
    BY <1>4, <1>5
  <2> QED
    BY <1>1, <1>6, <2>1, TowardsIsUnique
<1>8. To(u, d) = p * d + s
  BY <1>2, <1>4, <1>7
<1> QED
  BY <1>5, <1>8 DEF u

LEMMA UnitsAreTold ==
    ASSUME NEW u, Split(u), NEW d \in Scale
    PROVE  InUnits(u, d)
<1> DEFINE a == u.sec
           m == u.nsec
           e == Unit(d)
           k == To(u, d)
           off == k * e - Parts(u)
<1>1. /\ a \in Int /\ m \in Int /\ Prec \in Nat \ {0}
      /\ (a >= 0 /\ m >= 0) \/ (a <= 0 /\ m <= 0)
      /\ m < Prec /\ 0 - Prec < m
  BY PrecAssumption DEF Split, Agrees
<1>2. d \in Nat \ {0} /\ e \in Nat \ {0} /\ d * e = Prec
  BY UnitIs
<1>3. PICK q, r, h \in Int :
              /\ k = a * d + q /\ Towards(m + h, e, q, r)
              /\ h >= 0 /\ 2 * h <= e /\ e <= 2 * h + 1
  BY ToIs
<1>4. Parts(u) = a * Prec + m
  BY DEF Parts
<1> HIDE DEF a, m, e, k
<1>5. /\ m + h = q * e + r /\ q * e \in Int /\ a * d \in Int /\ a * Prec \in Int
      /\ (a * d) * e = a * Prec /\ (a * d + q) * e = (a * d) * e + q * e
  BY <1>1, <1>2, <1>3 DEF Towards
<1>6. off = h - r /\ off \in Int /\ Parts(u) \in Int /\ k \in Int
  BY <1>1, <1>2, <1>3, <1>4, <1>5
<1> HIDE DEF off
<1>7. CASE Parts(u) >= 0
  <2>1. a >= 0 /\ m >= 0
    <3>1. CASE a <= 0 /\ m <= 0
      <4>1. ~(a < 0)
        <5> SUFFICES ASSUME a < 0 PROVE FALSE
          OBVIOUS
        <5>1. a * Prec + Prec <= 0 * Prec
          BY <1>1, Scaled
        <5> QED
          BY <1>1, <1>4, <1>5, <1>7, <3>1, <5>1
      <4>2. a = 0
        BY <1>1, <3>1, <4>1
      <4>3. m >= 0
        BY <1>1, <1>4, <1>7, <4>2
      <4> QED
        BY <4>2, <4>3
    <3> QED
      BY <1>1, <3>1
  <2>2. q >= 0 /\ r >= 0 /\ r < e
    <3>1. m + h >= 0
      BY <1>1, <1>3, <2>1
    <3> QED
      BY <1>3, <3>1 DEF Towards
  <2>3. 2 * Magnitude(off) <= e
    <3>1. CASE off < 0
      BY <1>2, <1>3, <1>6, <2>2, <3>1 DEF Magnitude, Sign
    <3>2. CASE off >= 0
      BY <1>2, <1>3, <1>6, <2>2, <3>2 DEF Magnitude, Sign
    <3> QED
      BY <1>6, <3>1, <3>2
  <2>4. k \in Nat
    <3>1. a * d >= 0
      BY <1>1, <1>2, <2>1
    <3> QED
      BY <1>3, <1>5, <1>6, <2>2, <3>1
  <2>5. To(From(k, d), d) = k
    BY <2>4, UnitsReturn
  <2> QED
    BY <1>7, <2>3, <2>5 DEF InUnits, off, e, k, Unit
<1>8. CASE Parts(u) < 0
  <2>1. m <= 0
    <3> SUFFICES ASSUME m > 0 PROVE FALSE
      BY <1>1
    <3>1. a >= 0
      BY <1>1
    <3>2. a * Prec >= 0
      BY <1>1, <3>1
    <3> QED
      BY <1>1, <1>4, <1>5, <1>8, <3>2
  <2>2. CASE m + h >= 0
    <3>1. q >= 0 /\ r >= 0
      BY <1>3, <2>2 DEF Towards
    <3>2. ~(q >= 1)
      <4> SUFFICES ASSUME q >= 1 PROVE FALSE
        OBVIOUS
      <4>1. q * e >= e
        BY <1>2, <1>3
      <4> QED
        BY <1>1, <1>2, <1>3, <1>5, <2>1, <3>1, <4>1
    <3>3. q = 0 /\ q * e = 0
      BY <1>2, <1>3, <3>1, <3>2
    <3>4. off >= 0 /\ 2 * off < 3 * e
      BY <1>1, <1>2, <1>3, <1>5, <1>6, <2>1, <2>2, <3>3
    <3> QED
      BY <1>6, <1>8, <3>4 DEF InUnits, off, e, k, Unit
  <2>3. CASE m + h < 0
    <3>1. r <= 0 /\ 0 - e < r
      BY <1>1, <1>3, <2>3 DEF Towards
    <3>2. off >= 0 /\ 2 * off < 3 * e
      BY <1>2, <1>3, <1>6, <3>1
    <3> QED
      BY <1>6, <1>8, <3>2 DEF InUnits, off, e, k, Unit
  <2> QED
    BY <1>1, <1>3, <2>2, <2>3
<1> QED
  BY <1>6, <1>7, <1>8

TimeInv == Split(time) /\ total = Parts(time)

LEMMA TimeIsTold ==
    ASSUME TimeInv
    PROVE  IsExact /\ IsTold
<1>1. Split(time) /\ total = Parts(time) /\ total \in Int
  BY PartsOrder DEF TimeInv
<1>2. IsExact
  <2>1. /\ time.nsec \in Int /\ Prec \in Nat \ {0} /\ time.nsec < Prec /\ 0 - Prec < time.nsec
    BY <1>1, PrecAssumption DEF Split
  <2>2. Magnitude(time.nsec) < Prec
    BY <2>1 DEF Magnitude, Sign
  <2> QED
    BY <1>1, <2>2 DEF IsExact, Split
<1>3. ASSUME NEW u \in Times
      PROVE  /\ Less(time, u) <=> total < Parts(u)
             /\ LessOrEqual(time, u) <=> total <= Parts(u)
             /\ \A d \in Scale : total <= Parts(u) => To(time, d) <= To(u, d)
  BY <1>1, TimesAreSplit, LessIs, ToGrows
<1>4. ASSUME NEW d \in Scale PROVE InUnits(time, d)
  BY <1>1, UnitsAreTold
<1> QED
  BY <1>1, <1>2, <1>3, <1>4 DEF IsTold, InUnits

LEMMA TimeStarts ==
    ASSUME TimeInit
    PROVE  TimeInv
  BY TimesAreSplit DEF TimeInit, TimeInv

LEMMA YieldsKeeps ==
    ASSUME NEW v, Split(v), NEW exact, exact = Parts(v), Yields(v, exact)
    PROVE  TimeInv'
<1>1. time' = v /\ total' = Parts(v)
  BY DEF Yields
<1> QED
  BY <1>1 DEF TimeInv, Split, Parts, Agrees

LEMMA TimeSteps ==
    ASSUME TimeInv, TimeNext
    PROVE  TimeInv'
<1>1. Split(time) /\ total = Parts(time) /\ total \in Int
  BY PartsOrder DEF TimeInv
<1>2. ASSUME NEW u \in Times, Yields(Added(time, u), total + Parts(u)) PROVE TimeInv'
  <2>1. Split(Added(time, u)) /\ total + Parts(u) = Parts(Added(time, u))
    BY <1>1, TimesAreSplit, AddedIs
  <2> QED
    BY <1>2, <2>1, YieldsKeeps
<1>3. ASSUME NEW u \in Times, Yields(Subtracted(time, u), total - Parts(u)) PROVE TimeInv'
  <2> DEFINE w == Of(-u.sec, -u.nsec)
  <2>1. Split(u) /\ Parts(u) \in Int
    BY TimesAreSplit, PartsOrder
  <2>2. Split(w) /\ Parts(w) = -Parts(u)
    BY <2>1, NegatedIs
  <2>3. Subtracted(time, u) = Added(time, w)
    BY DEF Subtracted
  <2> HIDE DEF w
  <2>4. Split(Added(time, w)) /\ Parts(Added(time, w)) = total + Parts(w)
    BY <1>1, <2>2, AddedIs
  <2>5. total - Parts(u) = Parts(Added(time, w))
    BY <1>1, <2>1, <2>2, <2>4
  <2> QED
    BY <1>3, <2>3, <2>4, <2>5, YieldsKeeps
<1>4. ASSUME NEW d \in Scale, NEW n \in Amount, Yields(Added(time, From(n, d)), total + n * (Prec \div d))
      PROVE  TimeInv'
  <2>1. n \in Int
    BY PrecAssumption
  <2>2. Split(From(n, d)) /\ Parts(From(n, d)) = n * (Prec \div d)
    BY <2>1, FromIs DEF Unit
  <2>3. Split(Added(time, From(n, d))) /\ total + n * (Prec \div d) = Parts(Added(time, From(n, d)))
    BY <1>1, <2>2, AddedIs
  <2> QED
    BY <1>4, <2>3, YieldsKeeps
<1>5. ASSUME NEW d \in Scale, NEW n \in Amount, Yields(Added(time, From(-n, d)), total - n * (Prec \div d))
      PROVE  TimeInv'
  <2> DEFINE e == Prec \div d
             k == From(-n, d)
  <2>1. n \in Int /\ -n \in Int
    BY PrecAssumption
  <2>2. e \in Nat
    BY UnitIs DEF Unit
  <2>3. Split(k) /\ Parts(k) = (-n) * e
    BY <2>1, FromIs DEF Unit
  <2>4. Split(Added(time, k)) /\ Parts(Added(time, k)) = total + Parts(k)
    BY <1>1, <2>3, AddedIs
  <2> HIDE DEF e, k
  <2>5. total - n * e = Parts(Added(time, k))
    <3>1. (-n) * e = -(n * e) /\ n * e \in Int
      BY <2>1, <2>2
    <3> QED
      BY <1>1, <2>3, <2>4, <3>1
  <2>6. Yields(Added(time, k), total - n * e)
    BY <1>5 DEF e, k
  <2> QED
    BY <2>4, <2>5, <2>6, YieldsKeeps
<1>6. ASSUME NEW d \in Scale, NEW n \in Amount, Yields(From(n, d), n * (Prec \div d))
      PROVE  TimeInv'
  <2>1. n \in Int
    BY PrecAssumption
  <2>2. Split(From(n, d)) /\ n * (Prec \div d) = Parts(From(n, d))
    BY <2>1, FromIs DEF Unit
  <2> QED
    BY <1>6, <2>2, YieldsKeeps
<1> QED
  BY <1>2, <1>3, <1>4, <1>5, <1>6 DEF TimeNext, Add, Sub, AddUnits, SubUnits, FromUnits

\* Whatever is added, subtracted and converted, for any number of parts of a second
\* and any units that divide it, the time is the exact one, its parts agree in sign,
\* comparisons are those of the exact times and conversions are off by what their
\* rounding allows.  (ndm_time_add(), ndm_time_sub(), ndm_time_to_sec())
THEOREM TimesStayTrue == TimeSpec => [](IsExact /\ IsTold) /\ TimesAreTrue
<1>1. TimeInit => TimeInv
  BY TimeStarts
<1>2. TimeInv /\ [TimeNext]_timeVars => TimeInv'
  BY TimeSteps DEF timeVars, TimeInv, Split, Parts, Agrees
<1>3. TimeInv => IsExact /\ IsTold
  BY TimeIsTold
<1>4. ASSUME TimeInv' PROVE [timeVars' # timeVars => (IsExact /\ IsTold)']_timeVars
  <2>1. (IsExact /\ IsTold)'
    BY <1>3, <1>4, PTL
  <2> QED
    BY <2>1
<1> QED
  BY <1>1, <1>2, <1>3, <1>4, PTL DEF TimeSpec, TimesAreTrue

-----------------------------------------------------------------------------
(* The walk over a TLV table. *)

\* A set of numbers each of which has its predecessor in the set is empty.
LEMMA NoneIsFirst ==
    ASSUME NEW B \in SUBSET Nat, \A m \in B : m # 0 /\ m - 1 \in B
    PROVE  B = {}
<1> SUFFICES ASSUME B # {} PROVE FALSE
  OBVIOUS
<1>1. PICK m \in B : \A k \in B : <<k, m>> \notin OpToRel(<, Nat)
  BY NatLessThanWellFounded, WFMin
<1>2. \A k \in B : ~(k < m)
  BY <1>1 DEF OpToRel
<1> QED
  BY <1>2

\* What a unit of an image may be.
TlvUnit == Nat \cup {Unset}

\* Images of which the first size units are read.
Units(t, size) == t \in Seq(TlvUnit) /\ size \in Nat /\ size <= Len(t)

\* Every entry ends within them, behind its beginning.
Advances(t, size) ==
    /\ size \in Nat
    /\ \A i \in 0 .. size : IsEntry(t, size, i) => Behind(t, i) \in i + 2 .. size /\ Behind(t, i) \in Nat

\* A set of offsets that a walk does not leave.
Closed(t, size, S) ==
    S \in SUBSET (0 .. size) /\ \A i \in S : IsEntry(t, size, i) => Behind(t, i) \in S

LEMMA EvenIs ==
    ASSUME NEW n \in TlvUnit
    PROVE  Aligned(n) \in Nat /\ Aligned(n) % 2 = 0 /\ Aligned(n) >= n
  BY SMT DEF TlvUnit, Aligned, Unset

LEMMA UnitsAdvance ==
    ASSUME NEW t, NEW size, Units(t, size)
    PROVE  Advances(t, size)
<1>1. size \in Nat /\ Len(t) \in Nat /\ size <= Len(t) /\ t \in Seq(TlvUnit)
  BY DEF Units
<1>2. ASSUME NEW i \in 0 .. size, IsEntry(t, size, i)
      PROVE  Behind(t, i) \in i + 2 .. size /\ Behind(t, i) \in Nat
  <2> DEFINE a == Aligned(UnitAt(t, i + 1))
  <2>1. i + 2 <= size
    BY <1>2 DEF IsEntry, TlvSize
  <2>2. UnitAt(t, i + 1) \in TlvUnit
    BY <1>1, <2>1 DEF UnitAt
  <2>3. a \in Nat
    BY <2>2, EvenIs
  <2>4. Behind(t, i) = i + (2 + a) /\ Behind(t, i) <= size
    BY <1>2 DEF IsEntry, Behind, SizeAt, EntrySize, TlvSize
  <2> HIDE DEF a
  <2> QED
    BY <1>1, <2>3, <2>4
<1> QED
  BY <1>1, <1>2 DEF Advances

\* What is visited from an offset, without the walk: what is in every set that the
\* walk does not leave.
Reached(t, size, i) ==
    {j \in 0 .. size : \A S \in SUBSET (0 .. size) : i \in S /\ Closed(t, size, S) => j \in S}

LEMMA ReachedSteps ==
    ASSUME NEW t, NEW size, Advances(t, size), NEW i \in 0 .. size
    PROVE  Reached(t, size, i) =
              {i} \cup (IF IsEntry(t, size, i) THEN Reached(t, size, Behind(t, i)) ELSE {})
<1> DEFINE R(k) == Reached(t, size, k)
           next == Behind(t, i)
           E(k) == IsEntry(t, size, k)
<1>1. i \in R(i)
  BY DEF Reached
<1>2. ASSUME E(i) PROVE R(next) \subseteq R(i)
  <2>1. \A S \in SUBSET (0 .. size) : i \in S /\ Closed(t, size, S) => next \in S
    BY <1>2 DEF Closed
  <2> QED
    BY <2>1 DEF Reached
<1>3. ASSUME ~E(i) PROVE R(i) \subseteq {i}
  <2>1. Closed(t, size, {i})
    BY <1>3 DEF Closed
  <2> QED
    BY <2>1 DEF Reached
<1>4. ASSUME E(i) PROVE R(i) \subseteq {i} \cup R(next)
  <2> DEFINE C == {i} \cup R(next)
  <2>1. next \in 0 .. size
    BY <1>4 DEF Advances
  <2>2. next \in R(next)
    BY <2>1 DEF Reached
  <2>3. ASSUME NEW k \in R(next), E(k) PROVE Behind(t, k) \in R(next)
    <3>1. k \in 0 .. size
      BY DEF Reached
    <3>2. Behind(t, k) \in 0 .. size
      BY <2>3, <3>1 DEF Advances
    <3>3. ASSUME NEW S \in SUBSET (0 .. size), next \in S, Closed(t, size, S) PROVE Behind(t, k) \in S
      <4>1. k \in S
        BY <3>3 DEF Reached
      <4> QED
        BY <2>3, <3>3, <4>1 DEF Closed
    <3> QED
      BY <3>2, <3>3 DEF Reached
  <2>4. C \in SUBSET (0 .. size)
    BY DEF Reached
  <2>5. Closed(t, size, C)
    BY <2>2, <2>3, <2>4 DEF Closed
  <2> HIDE DEF C
  <2>6. i \in C
    BY DEF C
  <2>7. R(i) \subseteq C
    BY <2>4, <2>5, <2>6 DEF Reached
  <2> QED
    BY <2>7 DEF C
<1> HIDE DEF R, next, E
<1>5. R(i) = {i} \cup (IF E(i) THEN R(next) ELSE {})
  BY <1>1, <1>2, <1>3, <1>4
<1> QED
  BY <1>5 DEF R, next, E

\* A function of offsets that is defined by the walk is the one.
LEMMA WalkIsOne ==
    ASSUME NEW t, NEW size, Advances(t, size), NEW f, NEW g,
           \A i \in 0 .. size : f[i] = {i} \cup (IF IsEntry(t, size, i) THEN f[Behind(t, i)] ELSE {}),
           \A i \in 0 .. size : g[i] = {i} \cup (IF IsEntry(t, size, i) THEN g[Behind(t, i)] ELSE {})
    PROVE  \A i \in 0 .. size : f[i] = g[i]
<1> DEFINE Bad == {m \in 0 .. size : \E i \in 0 .. size : size - i <= m /\ f[i] # g[i]}
<1>0. size \in Nat
  BY DEF Advances
<1>1. ASSUME NEW m \in Bad PROVE m # 0 /\ m - 1 \in Bad
  <2>1. PICK i \in 0 .. size : size - i <= m /\ f[i] # g[i]
    OBVIOUS
  <2>2. IsEntry(t, size, i) /\ f[Behind(t, i)] # g[Behind(t, i)]
    BY <2>1
  <2>3. Behind(t, i) \in i + 2 .. size /\ Behind(t, i) \in 0 .. size
    BY <1>0, <2>2 DEF Advances
  <2> DEFINE k == Behind(t, i)
  <2> HIDE DEF k
  <2>4. k \in 0 .. size /\ k >= i + 2 /\ f[k] # g[k]
    BY <2>2, <2>3 DEF k
  <2>5. m \in 0 .. size
    OBVIOUS
  <2>6. m # 0 /\ m - 1 \in 0 .. size /\ size - k <= m - 1
    BY <1>0, <2>1, <2>4, <2>5
  <2> QED
    BY <2>4, <2>6
<1>2. Bad \in SUBSET Nat
  BY <1>0
<1>3. Bad = {}
  BY <1>1, <1>2, NoneIsFirst
<1>4. \A i \in 0 .. size : size \in 0 .. size /\ size - i <= size
  BY <1>0
<1> QED
  BY <1>3, <1>4

\* A walk visits what is in every set it does not leave.
LEMMA VisitedIs ==
    ASSUME NEW t, NEW size, Advances(t, size)
    PROVE  Visited(t, size) = Reached(t, size, 0)
<1> DEFINE Step(g, i) == {i} \cup (IF IsEntry(t, size, i) THEN g[Behind(t, i)] ELSE {})
           Defines(g) == g = [i \in 0 .. size |-> Step(g, i)]
           f == CHOOSE g : Defines(g)
           h == [i \in 0 .. size |-> Reached(t, size, i)]
<1>0. size \in Nat /\ 0 \in 0 .. size
  BY DEF Advances
<1>1. ASSUME NEW i \in 0 .. size PROVE h[i] = Step(h, i)
  <2>1. IsEntry(t, size, i) => Behind(t, i) \in 0 .. size
    BY DEF Advances
  <2> QED
    BY <2>1, ReachedSteps
<1>2. Defines(h)
  BY <1>1
<1>3. Visited(t, size) = f[0]
  BY DEF Visited
<1> HIDE DEF Defines
<1>4. Defines(f)
  BY <1>2
<1> HIDE DEF f, h
<1>5. \A i \in 0 .. size : f[i] = Step(f, i)
  BY <1>4 DEF Defines
<1>6. \A i \in 0 .. size : f[i] = h[i]
  BY <1>1, <1>5, WalkIsOne
<1> QED
  BY <1>0, <1>3, <1>6 DEF h

\* The least set from the first offset on that the walk does not leave.
IsWalk(t, size, V) ==
    /\ 0 \in V /\ Closed(t, size, V)
    /\ \A S : 0 \in S /\ Closed(t, size, S) => V \subseteq S

LEMMA VisitedWalk ==
    ASSUME NEW t, NEW size, Advances(t, size)
    PROVE  IsWalk(t, size, Visited(t, size))
<1>1. Visited(t, size) = Reached(t, size, 0)
  BY VisitedIs
<1>2. size \in Nat /\ 0 \in 0 .. size
  BY DEF Advances
<1>3. Reached(t, size, 0) \in SUBSET (0 .. size) /\ 0 \in Reached(t, size, 0)
  BY <1>2 DEF Reached
<1>4. ASSUME NEW k \in Reached(t, size, 0), IsEntry(t, size, k)
      PROVE  Behind(t, k) \in Reached(t, size, 0)
  <2>1. k \in 0 .. size
    BY DEF Reached
  <2>2. Behind(t, k) \in 0 .. size
    BY <1>4, <2>1 DEF Advances
  <2>3. ASSUME NEW S \in SUBSET (0 .. size), 0 \in S, Closed(t, size, S) PROVE Behind(t, k) \in S
    <3>1. k \in S
      BY <2>3 DEF Reached
    <3> QED
      BY <1>4, <2>3, <3>1 DEF Closed
  <2> QED
    BY <2>2, <2>3 DEF Reached
<1>5. ASSUME NEW S, 0 \in S, Closed(t, size, S) PROVE Reached(t, size, 0) \subseteq S
  BY <1>5 DEF Reached, Closed
<1> QED
  BY <1>1, <1>3, <1>4, <1>5 DEF IsWalk, Closed

\* Of two offsets the walk comes to, the entry at the first ends before the second.
Apart(t, size, V, i) == \A j \in V : j < i => IsEntry(t, size, j) /\ Behind(t, j) <= i

LEMMA NothingBetween ==
    ASSUME NEW t, NEW size, Advances(t, size), NEW V, IsWalk(t, size, V),
           NEW i \in V, Apart(t, size, V, i)
    PROVE  \A j \in V : j <= i \/ (IsEntry(t, size, i) /\ j >= Behind(t, i))
<1> DEFINE E(k) == IsEntry(t, size, k)
           B(k) == Behind(t, k)
           S == {j \in V : j <= i \/ (E(i) /\ j >= B(i))}
<1>1. V \subseteq 0 .. size /\ 0 \in V /\ size \in Nat /\ 0 <= i
  BY DEF IsWalk, Closed, Advances
<1>2. ASSUME NEW j \in S, E(j) PROVE B(j) \in S
  <2>1. B(j) \in V /\ B(j) \in Nat /\ B(j) >= j + 2
    BY <1>1, <1>2 DEF IsWalk, Closed, Advances
  <2>2. j < i => B(j) <= i
    BY DEF Apart
  <2>3. E(i) => B(i) \in Nat
    BY <1>1 DEF Advances
  <2>4. j \in Nat /\ i \in Nat
    BY <1>1
  <2> HIDE DEF B, E
  <2> QED
    BY <1>2, <2>1, <2>2, <2>3, <2>4
<1>3. 0 \in S
  BY <1>1
<1>4. Closed(t, size, S)
  BY <1>1, <1>2 DEF Closed
<1>5. V \subseteq S
  BY <1>3, <1>4 DEF IsWalk
<1> QED
  BY <1>5

LEMMA WalkIsOrdered ==
    ASSUME NEW t, NEW size, Advances(t, size), NEW V, IsWalk(t, size, V)
    PROVE  \A i \in V : Apart(t, size, V, i)
<1> DEFINE E(k) == IsEntry(t, size, k)
           B(k) == Behind(t, k)
           S == {i \in V : Apart(t, size, V, i)}
<1>1. V \subseteq 0 .. size /\ 0 \in V /\ size \in Nat
  BY DEF IsWalk, Closed, Advances
<1>2. ASSUME NEW i \in S, E(i) PROVE B(i) \in S
  <2>1. i \in V /\ Apart(t, size, V, i)
    OBVIOUS
  <2>2. B(i) \in V /\ B(i) \in Nat /\ B(i) >= i + 2 /\ i \in Nat
    BY <1>1, <1>2, <2>1 DEF IsWalk, Closed, Advances
  <2>3. \A j \in V : j <= i \/ j >= B(i)
    BY <2>1, NothingBetween
  <2>4. \A j \in V : j < i => E(j) /\ B(j) <= i
    BY <2>1 DEF Apart
  <2> HIDE DEF B, E, S
  <2>5. ASSUME NEW j \in V, j < B(i) PROVE E(j) /\ B(j) <= B(i)
    <3>1. j \in Nat
      BY <1>1
    <3>2. B(j) \in Nat \/ j = i \/ ~E(j)
      BY <1>1 DEF Advances, B, E
    <3>3. CASE j = i
      BY <1>2, <2>2, <3>3
    <3>4. CASE j < i
      BY <2>2, <2>4, <3>1, <3>2, <3>4
    <3> QED
      BY <2>2, <2>3, <2>5, <3>1, <3>3, <3>4
  <2> QED
    BY <2>2, <2>5 DEF S, Apart, E, B
<1>3. 0 \in S
  BY <1>1 DEF Apart
<1>4. Closed(t, size, S)
  BY <1>1, <1>2 DEF Closed
<1>5. V \subseteq S
  BY <1>3, <1>4 DEF IsWalk
<1> QED
  BY <1>5

\* A walk ends.
LEMMA WalkEnds ==
    ASSUME NEW t, NEW size, Advances(t, size), NEW V, IsWalk(t, size, V)
    PROVE  \E i \in V : ~IsEntry(t, size, i)
<1> SUFFICES ASSUME \A i \in V : IsEntry(t, size, i)
             PROVE  FALSE
  OBVIOUS
<1> DEFINE Bad == {m \in 0 .. size : \E i \in V : size - i <= m}
<1>1. V \subseteq 0 .. size /\ 0 \in V /\ size \in Nat
  BY DEF IsWalk, Closed, Advances
<1>2. ASSUME NEW m \in Bad PROVE m # 0 /\ m - 1 \in Bad
  <2>1. PICK i \in V : size - i <= m
    OBVIOUS
  <2> DEFINE k == Behind(t, i)
  <2>2. k \in V /\ k \in i + 2 .. size /\ i \in Nat
    BY <1>1 DEF IsWalk, Closed, Advances
  <2> HIDE DEF k
  <2>3. m \in 0 .. size
    OBVIOUS
  <2>4. m # 0 /\ m - 1 \in 0 .. size /\ size - k <= m - 1
    BY <1>1, <2>1, <2>2, <2>3
  <2> QED
    BY <2>2, <2>4
<1>3. Bad \in SUBSET Nat
  BY <1>1
<1>4. Bad = {}
  BY <1>2, <1>3, NoneIsFirst
<1>5. size \in 0 .. size /\ size - 0 <= size
  BY <1>1
<1> QED
  BY <1>1, <1>4, <1>5

LEMMA WalkedIs ==
    ASSUME NEW t, NEW size, Advances(t, size)
    PROVE  Walked(t, size) = "done" <=> size \in Visited(t, size)
<1> DEFINE V == Visited(t, size)
           end == CHOOSE i \in V : ~IsEntry(t, size, i)
<1>1. IsWalk(t, size, V)
  BY VisitedWalk
<1> HIDE DEF V
<1>2. V \subseteq 0 .. size /\ size \in Nat
  BY <1>1 DEF IsWalk, Closed, Advances
<1>3. \E i \in V : ~IsEntry(t, size, i)
  BY <1>1, WalkEnds
<1>4. end \in V /\ ~IsEntry(t, size, end)
  BY <1>3
<1>5. Walked(t, size) = "done" <=> end = size
  BY DEF Walked, V
<1> HIDE DEF end
<1>6. ASSUME size \in V PROVE end = size
  <2>1. Apart(t, size, V, size)
    BY <1>1, <1>6, WalkIsOrdered
  <2>2. ~(end < size)
    BY <1>4, <2>1 DEF Apart
  <2> QED
    BY <1>2, <1>4, <2>2
<1> QED
  BY <1>4, <1>5, <1>6 DEF V

\* The walk of a table comes to its end, and every entry has a tag of its own.
Whole(t, size) == size \in Visited(t, size)

TagsApart(t, size) ==
    \A i, j \in Visited(t, size) \ {size} : UnitAt(t, i) = UnitAt(t, j) => i = j

LEMMA WholeStarts ==
    ASSUME NEW t, NEW size, Units(t, size), Whole(t, size)
    PROVE  /\ Starts(t, size) = Visited(t, size) \ {size}
           /\ size % 2 = 0 /\ \A i \in Visited(t, size) : i % 2 = 0
<1> DEFINE V == Visited(t, size)
<1>1. Advances(t, size)
  BY UnitsAdvance
<1>2. IsWalk(t, size, V) /\ size \in V
  BY <1>1, VisitedWalk DEF Whole
<1>3. V \subseteq 0 .. size /\ size \in Nat
  BY <1>1, <1>2 DEF IsWalk, Closed, Advances
<1>4. Apart(t, size, V, size)
  BY <1>1, <1>2, WalkIsOrdered
<1>5. \A i \in V \ {size} : IsEntry(t, size, i)
  BY <1>3, <1>4 DEF Apart
<1>6. ~IsEntry(t, size, size)
  BY <1>3 DEF IsEntry, TlvSize
<1>7. \A i \in V : i % 2 = 0
  <2> DEFINE S == {i \in V : i % 2 = 0}
  <2>1. ASSUME NEW i \in S, IsEntry(t, size, i) PROVE Behind(t, i) \in S
    <3> DEFINE a == Aligned(UnitAt(t, i + 1))
    <3>1. i \in Nat /\ i % 2 = 0 /\ i + 2 <= size /\ Behind(t, i) \in V
      BY <1>2, <1>3, <2>1 DEF IsEntry, TlvSize, IsWalk, Closed
    <3>2. UnitAt(t, i + 1) \in TlvUnit
      BY <1>3, <3>1 DEF Units, UnitAt
    <3>3. a \in Nat /\ a % 2 = 0
      BY <3>2, EvenIs
    <3>4. Behind(t, i) = i + (2 + a)
      BY DEF Behind, SizeAt, EntrySize, TlvSize
    <3> HIDE DEF a
    <3>5. (i + (2 + a)) % 2 = 0
      BY <3>1, <3>3
    <3> QED
      BY <3>1, <3>4, <3>5
  <2>2. 0 \in S
    BY <1>2 DEF IsWalk
  <2>3. Closed(t, size, S)
    BY <1>3, <2>1 DEF Closed
  <2>4. V \subseteq S
    BY <1>2, <2>2, <2>3 DEF IsWalk
  <2> QED
    BY <2>4
<1> QED
  BY <1>2, <1>5, <1>6, <1>7 DEF Starts

\* What the definition of a table asks for, whatever offsets it picks.
LEMMA TableIs ==
    ASSUME NEW t, NEW size, Units(t, size)
    PROVE  IsTable(t, size) <=> Whole(t, size) /\ ~Twice(t, size)
<1> DEFINE V == Visited(t, size)
           Evens == {i \in 0 .. size : i % 2 = 0}
<1>1. Advances(t, size)
  BY UnitsAdvance
<1>2. IsWalk(t, size, V)
  BY <1>1, VisitedWalk
<1>3. V \subseteq 0 .. size /\ size \in Nat /\ size <= Len(t) /\ 0 \in V
  BY <1>2 DEF IsWalk, Closed, Units
<1> HIDE DEF V
<1>4. ASSUME Whole(t, size), ~Twice(t, size) PROVE IsTable(t, size)
  <2>1. Starts(t, size) = V \ {size} /\ size \in V /\ \A i \in V : i % 2 = 0
    BY <1>4, WholeStarts DEF V, Whole
  <2>2. V \in SUBSET Evens /\ {0, size} \subseteq V
    BY <1>3, <2>1
  <2>3. ASSUME NEW i \in V \ {size} PROVE i + TlvSize <= size /\ Behind(t, i) \in V
    <3>1. IsEntry(t, size, i)
      BY <2>1 DEF Starts
    <3> QED
      BY <1>2, <3>1 DEF IsEntry, IsWalk, Closed
  <2>4. \A i, j \in V \ {size} : UnitAt(t, i) = UnitAt(t, j) => i = j
    BY <1>4, <2>1 DEF Twice
  <2> QED
    BY <1>3, <2>2, <2>3, <2>4 DEF IsTable
<1>5. ASSUME IsTable(t, size) PROVE Whole(t, size) /\ ~Twice(t, size)
  <2>1. PICK S \in SUBSET Evens :
            /\ {0, size} \subseteq S
            /\ \A i \in S \ {size} :
                  /\ i + TlvSize <= size /\ Behind(t, i) \in S
                  /\ \A j \in S \ {size} : UnitAt(t, i) = UnitAt(t, j) => i = j
    BY <1>5 DEF IsTable
  <2>2. S \subseteq 0 .. size
    BY <2>1
  <2>3. ~IsEntry(t, size, size)
    BY <1>3 DEF IsEntry, TlvSize
  <2>4. Closed(t, size, S)
    BY <2>1, <2>2, <2>3 DEF Closed
  <2>5. V \subseteq S
    BY <1>2, <2>1, <2>4 DEF IsWalk
  <2>6. PICK e \in V : ~IsEntry(t, size, e)
    BY <1>1, <1>2, WalkEnds
  <2>7. e = size
    <3> SUFFICES ASSUME e # size PROVE FALSE
      OBVIOUS
    <3>1. e + TlvSize <= size /\ Behind(t, e) \in 0 .. size
      BY <2>1, <2>2, <2>5
    <3> QED
      BY <2>6, <3>1 DEF IsEntry
  <2>8. Starts(t, size) \subseteq S \ {size}
    BY <2>3, <2>5 DEF Starts, V
  <2> QED
    BY <2>1, <2>6, <2>7, <2>8 DEF Whole, V, Twice
<1> QED
  BY <1>4, <1>5

\* What is taken of what comes from storage.
LEMMA ParsedIs ==
    ASSUME NEW h, NEW t \in Seq(TlvUnit), h.size \in Nat, HdrSize + h.size <= ImgLenMax
    PROVE  Parsed(h, t, ImgLenMax) = "done" <=>
              h.magic = Magic /\ IsTable(t, h.size) /\ h.crc = Crc(Magic, h.size, t)
<1>a. CASE h.size > Len(t)
  <2>1. ~IsTable(t, h.size)
    BY <1>a DEF IsTable
  <2>2. Parsed(h, t, ImgLenMax) \in {"EMSGSIZE", "EILSEQ"}
    BY <1>a DEF Parsed
  <2> QED
    BY <2>1, <2>2
<1> SUFFICES ASSUME ~(h.size > Len(t))
             PROVE  Parsed(h, t, ImgLenMax) = "done" <=>
                       h.magic = Magic /\ IsTable(t, h.size) /\ h.crc = Crc(Magic, h.size, t)
  BY <1>a
<1>2. h.size \in Nat /\ h.size <= Len(t) /\ Len(t) \in Nat
  OBVIOUS
<1>b. Units(t, h.size)
  BY <1>2 DEF Units
<1>1. Advances(t, h.size)
  BY <1>b, UnitsAdvance
<1>3. Walked(t, h.size) = "done" <=> Whole(t, h.size)
  BY <1>1, WalkedIs DEF Whole
<1>4. IsTable(t, h.size) <=> Whole(t, h.size) /\ ~Twice(t, h.size)
  BY <1>b, TableIs
<1>5. Whole(t, h.size) => h.size % 2 = 0
  BY <1>b, WholeStarts
<1>6. ~(HdrSize + h.size > ImgLenMax)
  BY <1>2, TableAssumption DEF HdrSize
<1>7. ~(h.size > Len(t))
  BY <1>2
<1> DEFINE d == h.crc = Crc(h.magic, h.size, t)
           w == Walked(t, h.size)
           k == h.size % 2
<1>8. Parsed(h, t, ImgLenMax) =
         IF h.magic # Magic \/ k # 0 THEN "EILSEQ"
         ELSE IF ~d THEN "EILSEQ"
         ELSE IF w # "done" THEN w
         ELSE IF Twice(t, h.size) THEN "EEXIST" ELSE "done"
  BY <1>6, <1>7 DEF Parsed
<1>9. h.magic = Magic => (d <=> h.crc = Crc(Magic, h.size, t))
  OBVIOUS
<1> HIDE DEF d, w, k
<1> QED
  BY <1>3, <1>4, <1>5, <1>8, <1>9 DEF w, k

-----------------------------------------------------------------------------
(* A table changes at one entry: what lies before stays, and what lies     *)
(* behind moves.                                                           *)

\* In u there is another entry than in t from offset i to k, or none, and what lay
\* behind it from next on.
Exchanged(t, u, i, next, k) ==
    /\ t \in Seq(TlvUnit) /\ u \in Seq(TlvUnit) /\ k \in Nat
    /\ i \in Visited(t, Len(t))
    /\ next = i \/ (IsEntry(t, Len(t), i) /\ next = Behind(t, i))
    /\ k = i \/ (IsEntry(u, Len(u), i) /\ k = Behind(u, i))
    /\ Len(u) = k + (Len(t) - next)
    /\ \A p \in 1 .. i : u[p] = t[p]
    /\ \A p \in 1 .. Len(t) - next : u[k + p] = t[next + p]

\* An entry at j of t is as good as one at l of u.
Alike(t, u, j, l) ==
    /\ l \in Nat
    /\ IsEntry(t, Len(t), j) <=> IsEntry(u, Len(u), l)
    /\ IsEntry(t, Len(t), j) => /\ Behind(u, l) - l = Behind(t, j) - j
                               /\ UnitAt(u, l) = UnitAt(t, j) /\ ValueAt(u, l) = ValueAt(t, j)

Part(t, a, n) == SubSeq(t, a + 1, a + n)

\* n units behind offset a of t and b of u are the same.
SameUnits(t, u, a, b, n) ==
    /\ t \in Seq(TlvUnit) /\ u \in Seq(TlvUnit) /\ a \in Nat /\ b \in Nat /\ n \in Int
    /\ a + n <= Len(t) /\ b + n <= Len(u) /\ \A p \in 1 .. n : u[b + p] = t[a + p]

LEMMA PartsAlike ==
    ASSUME NEW t, NEW u, NEW a, NEW b, NEW n, SameUnits(t, u, a, b, n)
    PROVE  Part(t, a, n) = Part(u, b, n)
<1> DEFINE r == SubSeq(t, a + 1, a + n)
           s == SubSeq(u, b + 1, b + n)
           m == IF n >= 0 THEN n ELSE 0
<1>a. /\ t \in Seq(TlvUnit) /\ u \in Seq(TlvUnit) /\ a \in Nat /\ b \in Nat /\ n \in Int
       /\ a + n <= Len(t) /\ b + n <= Len(u) /\ \A p \in 1 .. n : u[b + p] = t[a + p]
  BY DEF SameUnits
<1>0. m \in Nat /\ 1 .. m = 1 .. n /\ Len(t) \in Nat /\ Len(u) \in Nat
  BY <1>a
<1>1. /\ m \in Nat /\ \A p \in 1 .. m : a + p \in 1 .. Len(t) /\ b + p \in 1 .. Len(u)
      /\ \A p \in 1 .. m : ((a + 1) + p) - 1 = a + p /\ ((b + 1) + p) - 1 = b + p
      /\ \A p \in 1 .. m : u[b + p] = t[a + p]
  <2>1. ASSUME NEW p \in 1 .. m PROVE a + p \in 1 .. Len(t) /\ b + p \in 1 .. Len(u)
    BY <1>a, <1>0
  <2>2. \A p \in 1 .. m : u[b + p] = t[a + p]
    BY <1>a, <1>0
  <2> QED
    BY <1>a, <1>0, <2>1, <2>2
<1>2. r \in Seq(TlvUnit) /\ Len(r) = m /\ \A p \in 1 .. m : r[p] = t[a + p]
  BY <1>a, <1>1
<1>3. s \in Seq(TlvUnit) /\ Len(s) = m /\ \A p \in 1 .. m : s[p] = u[b + p]
  BY <1>a, <1>1
<1> HIDE DEF r, s, m
<1>4. \A p \in 1 .. Len(r) : r[p] = s[p]
  BY <1>1, <1>2, <1>3
<1>5. r = s
  BY <1>2, <1>3, <1>4, SameItems
<1> QED
  BY <1>5 DEF r, s, Part

\* Units that are the same make the same entry.
LEMMA SameUnitsAlike ==
    ASSUME NEW t \in Seq(TlvUnit), NEW u \in Seq(TlvUnit), NEW j \in Nat, NEW l \in Nat, NEW e \in Nat,
           j + e <= Len(t), l + e <= Len(u),
           \/ IsEntry(t, Len(t), j) /\ Behind(t, j) <= j + e
           \/ e = Len(t) - j /\ e = Len(u) - l,
           \A p \in 1 .. e : u[l + p] = t[j + p]
    PROVE  Alike(t, u, j, l)
<1> DEFINE n == Len(t)
           m == Len(u)
           c == UnitAt(t, j + 1)
<1> HIDE DEF c
<1> DEFINE a == Aligned(c)
<1>1. n \in Nat /\ m \in Nat
  OBVIOUS
<1>2. Behind(t, j) = j + (2 + a) /\ Behind(u, l) = l + (2 + Aligned(UnitAt(u, l + 1)))
  BY DEF Behind, SizeAt, EntrySize, TlvSize, c
<1> HIDE DEF a
<1>3. CASE e < 2
  <2>1. ~IsEntry(t, n, j)
    <3>1. ASSUME IsEntry(t, n, j) PROVE FALSE
      <4>1. j + 2 <= n /\ Behind(t, j) <= n
        BY <3>1 DEF IsEntry, TlvSize
      <4>2. c \in TlvUnit
        BY <4>1 DEF UnitAt, c
      <4>3. a \in Nat
        BY <4>2, EvenIs DEF a
      <4> QED
        BY <1>1, <1>2, <1>3, <4>1, <4>3
    <3> QED
      BY <3>1
  <2>2. e = n - j /\ e = m - l
    BY <2>1
  <2>4. ~(l + 2 <= m)
    BY <1>1, <1>3, <2>2
  <2>3. ~IsEntry(u, m, l)
    BY <2>4 DEF IsEntry, TlvSize
  <2> QED
    BY <2>1, <2>3 DEF Alike
<1>4. CASE e >= 2
  <2>1. j + 2 <= n /\ l + 2 <= m
    BY <1>1, <1>4
  <2>2. u[l + 1] = t[j + 1] /\ u[l + 2] = t[j + 2]
    BY <1>4
  <2>3. UnitAt(u, l) = UnitAt(t, j) /\ UnitAt(u, l + 1) = c /\ c \in TlvUnit
    <3>1. (l + 1) + 1 = l + 2 /\ (j + 1) + 1 = j + 2
      OBVIOUS
    <3>2. t[j + 2] \in TlvUnit
      BY <2>1
    <3> QED
      BY <2>2, <3>1, <3>2 DEF UnitAt, c
  <2>4. a \in Nat /\ a >= c /\ c \in Int
    <3>1. c \in Int
      BY <2>3 DEF TlvUnit, Unset
    <3> QED
      BY <2>3, <3>1, EvenIs DEF a
  <2>5. Behind(u, l) = l + (2 + a)
    BY <1>2, <2>3 DEF a
  <2>6. /\ IsEntry(t, n, j) <=> j + (2 + a) <= n
        /\ IsEntry(u, m, l) <=> l + (2 + a) <= m
    BY <1>2, <2>1, <2>5 DEF IsEntry, TlvSize
  <2>7. IsEntry(t, n, j) <=> IsEntry(u, m, l)
    BY <1>1, <1>2, <2>4, <2>6
  <2>8. ASSUME IsEntry(t, n, j) PROVE ValueAt(u, l) = ValueAt(t, j)
    <3>1. (2 + a) <= e
      BY <1>1, <1>2, <2>4, <2>6, <2>8
    <3> DEFINE d == c
               x == j + 2
               y == l + 2
    <3>2. /\ (j + 2) + d <= n /\ (l + 2) + d <= m
          /\ \A p \in 1 .. d : u[(l + 2) + p] = t[(j + 2) + p]
      <4>1. ASSUME NEW p \in 1 .. d PROVE u[(l + 2) + p] = t[(j + 2) + p]
        <5>1. 2 + p \in 1 .. e
          BY <2>4, <3>1
        <5>2. u[l + (2 + p)] = t[j + (2 + p)]
          BY <5>1
        <5>3. l + (2 + p) = (l + 2) + p /\ j + (2 + p) = (j + 2) + p
          BY <2>4
        <5> QED
          BY <5>2, <5>3
      <4> QED
        BY <1>1, <2>4, <3>1, <4>1
    <3>3. SubSeq(t, (j + 2) + 1, (j + 2) + d) = SubSeq(u, (l + 2) + 1, (l + 2) + d)
      <4>1. d \in Int /\ x \in Nat /\ y \in Nat
        BY <2>4
      <4>2. x + d <= Len(t) /\ y + d <= Len(u) /\ \A p \in 1 .. d : u[y + p] = t[x + p]
        BY <3>2
      <4> HIDE DEF d, x, y
      <4>4. SameUnits(t, u, x, y, d)
        BY <4>1, <4>2 DEF SameUnits
      <4>3. Part(t, x, d) = Part(u, y, d)
        BY <4>4, PartsAlike
      <4> QED
        BY <4>3 DEF x, y, d, Part
    <3> QED
      BY <2>3, <3>3 DEF ValueAt, TlvSize, c
  <2>9. IsEntry(t, n, j) => Behind(u, l) - l = Behind(t, j) - j
    BY <1>2, <2>4, <2>5
  <2> QED
    BY <2>3, <2>7, <2>8, <2>9 DEF Alike
<1> QED
  BY <1>3, <1>4

LEMMA ExchangedNumbers ==
    ASSUME NEW t, NEW u, NEW i, NEW next, NEW k, Exchanged(t, u, i, next, k)
    PROVE  /\ Units(t, Len(t)) /\ Units(u, Len(u)) /\ Len(t) \in Nat /\ Len(u) \in Nat
           /\ i \in Nat /\ next \in Nat /\ i <= next /\ next <= Len(t)
           /\ k \in Nat /\ i <= k /\ k <= Len(u)
           /\ Visited(t, Len(t)) \subseteq 0 .. Len(t)
           /\ next \in Visited(t, Len(t))
<1>1. t \in Seq(TlvUnit) /\ u \in Seq(TlvUnit) /\ Len(t) \in Nat /\ Len(u) \in Nat
  BY DEF Exchanged
<1>2. Units(t, Len(t)) /\ Units(u, Len(u))
  BY <1>1 DEF Units
<1>3. Advances(t, Len(t)) /\ Advances(u, Len(u))
  BY <1>2, UnitsAdvance
<1>4. IsWalk(t, Len(t), Visited(t, Len(t)))
  BY <1>3, VisitedWalk
<1>5. Visited(t, Len(t)) \subseteq 0 .. Len(t) /\ i \in 0 .. Len(t)
  BY <1>4 DEF IsWalk, Closed, Exchanged
<1>6. next \in Nat /\ i <= next /\ next <= Len(t) /\ next \in Visited(t, Len(t))
  BY <1>1, <1>3, <1>4, <1>5 DEF Exchanged, Advances, IsWalk, Closed
<1>7. k \in Nat /\ i <= k /\ Len(u) = k + (Len(t) - next)
  <2>1. CASE k = i
    BY <1>5, <2>1 DEF Exchanged
  <2>2. CASE IsEntry(u, Len(u), i) /\ k = Behind(u, i)
    <3>1. k \in Nat /\ Len(u) = k + (Len(t) - next)
      BY DEF Exchanged
    <3>2. i \in 0 .. Len(u)
      BY <1>1, <1>5, <2>2 DEF IsEntry, TlvSize
    <3> QED
      BY <1>3, <2>2, <3>1, <3>2 DEF Advances
  <2> QED
    BY <2>1, <2>2 DEF Exchanged
<1> QED
  BY <1>1, <1>2, <1>5, <1>6, <1>7

\* What lies before is as it was.
LEMMA BeforeAlike ==
    ASSUME NEW t, NEW u, NEW i, NEW next, NEW k, Exchanged(t, u, i, next, k),
           NEW j \in Visited(t, Len(t)), j < i
    PROVE  Alike(t, u, j, j) /\ IsEntry(t, Len(t), j) /\ Behind(t, j) <= i
<1>1. /\ Units(t, Len(t)) /\ Len(t) \in Nat /\ Len(u) \in Nat
      /\ i \in Nat /\ i <= Len(t) /\ i <= Len(u) /\ j \in Nat /\ j <= i
  BY ExchangedNumbers
<1>2. Advances(t, Len(t))
  BY <1>1, UnitsAdvance
<1>3. Apart(t, Len(t), Visited(t, Len(t)), i)
  BY <1>2, VisitedWalk, WalkIsOrdered DEF Exchanged
<1>4. IsEntry(t, Len(t), j) /\ Behind(t, j) <= i
  BY <1>3 DEF Apart
<1> DEFINE e == i - j
<1>5. e \in Nat /\ j + e = i
  BY <1>1
<1>6. \A p \in 1 .. e : u[j + p] = t[j + p]
  <2>1. \A p \in 1 .. e : j + p \in 1 .. i
    BY <1>1
  <2> QED
    BY <2>1 DEF Exchanged
<1>7. t \in Seq(TlvUnit) /\ u \in Seq(TlvUnit)
  BY DEF Exchanged
<1> QED
  BY <1>1, <1>4, <1>5, <1>6, <1>7, SameUnitsAlike

\* What lay behind is where it is now.
LEMMA BehindAlike ==
    ASSUME NEW t, NEW u, NEW i, NEW next, NEW k, Exchanged(t, u, i, next, k),
           NEW j \in Visited(t, Len(t)), j >= next
    PROVE  Alike(t, u, j, (j - next) + k)
<1> DEFINE n == Len(t)
           l == (j - next) + k
           e == n - j
<1>1. /\ n \in Nat /\ Len(u) \in Nat /\ next \in Nat /\ next <= n /\ k \in Nat
      /\ j \in Nat /\ j <= n
  BY ExchangedNumbers
<1>2. t \in Seq(TlvUnit) /\ u \in Seq(TlvUnit) /\ Len(u) = k + (n - next)
  BY DEF Exchanged
<1>3. l \in Nat /\ e \in Nat /\ j + e = n /\ l + e = Len(u)
  BY <1>1, <1>2
<1>4. ASSUME NEW p \in 1 .. e PROVE u[l + p] = t[j + p]
  <2>1. (j - next) + p \in 1 .. n - next
    BY <1>1
  <2>2. u[k + ((j - next) + p)] = t[next + ((j - next) + p)]
    BY <2>1 DEF Exchanged
  <2>3. k + ((j - next) + p) = l + p /\ next + ((j - next) + p) = j + p
    BY <1>1
  <2> QED
    BY <2>2, <2>3
<1> HIDE DEF l, e
<1>5. j + e <= Len(t) /\ l + e <= Len(u) /\ e = Len(t) - j /\ e = Len(u) - l
  BY <1>1, <1>3
<1>6. Alike(t, u, j, l)
  BY <1>1, <1>2, <1>3, <1>4, <1>5, SameUnitsAlike
<1> QED
  BY <1>6 DEF l

\* Where the walk comes to now.
LEMMA ExchangedVisited ==
    ASSUME NEW t, NEW u, NEW i, NEW next, NEW k, Exchanged(t, u, i, next, k), Whole(t, Len(t))
    PROVE  /\ Visited(u, Len(u)) = {j \in Visited(t, Len(t)) : j <= i}
                                     \cup {(j - next) + k : j \in {l \in Visited(t, Len(t)) : l >= next}}
           /\ Whole(u, Len(u))
<1> DEFINE n == Len(t)
           m == Len(u)
           V == Visited(t, n)
           U == Visited(u, m)
           Early == {j \in V : j <= i}
           Late == {j \in V : j >= next}
           Now(j) == (j - next) + k
           W == Early \cup {Now(j) : j \in Late}
<1>1. /\ Units(t, n) /\ Units(u, m) /\ n \in Nat /\ m \in Nat
      /\ i \in Nat /\ next \in Nat /\ i <= next /\ next <= n
      /\ k \in Nat /\ i <= k /\ k <= m /\ V \subseteq 0 .. n /\ next \in V
  BY ExchangedNumbers
<1>2. Advances(t, n) /\ Advances(u, m)
  BY <1>1, UnitsAdvance
<1>3. IsWalk(t, n, V) /\ IsWalk(u, m, U)
  BY <1>2, VisitedWalk
<1>4. /\ i \in V /\ n \in V /\ m = k + (n - next)
      /\ next = i \/ (IsEntry(t, n, i) /\ next = Behind(t, i))
      /\ k = i \/ (IsEntry(u, m, i) /\ k = Behind(u, i))
  BY DEF Exchanged, Whole
<1>5. U \subseteq 0 .. m /\ 0 \in U /\ 0 \in V /\ Closed(u, m, U) /\ Closed(t, n, V)
  BY <1>3 DEF IsWalk, Closed
<1>6. \A j \in V : j <= i \/ (IsEntry(t, n, i) /\ j >= Behind(t, i))
  <2>1. Apart(t, n, V, i)
    BY <1>2, <1>3, <1>4, WalkIsOrdered
  <2> QED
    BY <1>2, <1>3, <1>4, <2>1, NothingBetween
<1>7. ASSUME NEW j \in V, j < i
      PROVE  /\ IsEntry(t, n, j) /\ Behind(t, j) <= i
             /\ IsEntry(u, m, j) /\ Behind(u, j) = Behind(t, j)
  <2>1. Alike(t, u, j, j) /\ IsEntry(t, n, j) /\ Behind(t, j) <= i
    BY <1>7, BeforeAlike
  <2>2. IsEntry(u, m, j) /\ Behind(u, j) - j = Behind(t, j) - j
    BY <2>1 DEF Alike
  <2>3. j \in 0 .. n /\ j \in 0 .. m
    BY <1>1, <1>7
  <2>4. Behind(t, j) \in Nat /\ Behind(u, j) \in Nat
    BY <1>2, <2>1, <2>2, <2>3 DEF Advances
  <2> QED
    BY <2>1, <2>2, <2>3, <2>4
<1>8. ASSUME NEW j \in Late
      PROVE  /\ Now(j) \in 0 .. m
             /\ IsEntry(t, n, j) <=> IsEntry(u, m, Now(j))
             /\ IsEntry(t, n, j) => /\ Behind(t, j) \in Late
                                    /\ Behind(u, Now(j)) = Now(Behind(t, j))
  <2>1. Alike(t, u, j, Now(j))
    BY BehindAlike
  <2>2. j \in 0 .. n /\ j >= next
    BY <1>1
  <2>3. Now(j) \in 0 .. m
    BY <1>1, <1>4, <2>2
  <2>4. IsEntry(t, n, j) <=> IsEntry(u, m, Now(j))
    BY <2>1 DEF Alike
  <2>5. ASSUME IsEntry(t, n, j)
        PROVE  Behind(t, j) \in Late /\ Behind(u, Now(j)) = Now(Behind(t, j))
    <3> DEFINE b == Behind(t, j)
               c == Behind(u, Now(j))
               l == Now(j)
    <3>1. b \in Nat /\ b >= j + 2 /\ b \in V
      BY <1>2, <1>5, <2>2, <2>5 DEF Advances, Closed
    <3>2. c \in Nat
      BY <1>2, <2>3, <2>4, <2>5 DEF Advances
    <3>3. c - l = b - j
      BY <2>1, <2>5 DEF Alike
    <3>4. l \in Nat /\ l = (j - next) + k
      BY <2>3
    <3> HIDE DEF b, c, l
    <3>5. c = (b - next) + k
      BY <1>1, <2>2, <3>1, <3>2, <3>3, <3>4
    <3>6. b >= next
      BY <1>1, <2>2, <3>1
    <3> QED
      BY <3>1, <3>5, <3>6 DEF b, c, l
  <2> QED
    BY <2>3, <2>4, <2>5
<1> HIDE DEF Now
<1>9. Now(next) = k
  BY <1>1 DEF Now
<1>10. next \in Late
  BY <1>1
<1>11. ASSUME NEW w \in W, IsEntry(u, m, w) PROVE Behind(u, w) \in W
  <2>2. ASSUME NEW j \in Late, w = Now(j) PROVE Behind(u, w) \in W
    BY <1>8, <1>11, <2>2
  <2>3. CASE w \in V /\ w < i
    <3>1. Behind(t, w) \in V /\ Behind(t, w) <= i /\ Behind(u, w) = Behind(t, w)
      BY <1>5, <1>7, <2>3 DEF Closed
    <3> QED
      BY <3>1
  <2>4. CASE w = i
    <3>1. CASE k = i
      BY <1>9, <1>10, <2>2, <2>4, <3>1
    <3>2. CASE k = Behind(u, i)
      BY <1>9, <1>10, <2>4, <3>2
    <3> QED
      BY <1>4, <3>1, <3>2
  <2>5. w \in Early => (w \in V /\ w < i) \/ w = i
    BY <1>1
  <2> QED
    BY <2>2, <2>3, <2>4, <2>5
<1>12. W \subseteq 0 .. m
  BY <1>1, <1>8
<1>13. 0 \in W
  BY <1>1, <1>5
<1>14. U \subseteq W
  <2>1. Closed(u, m, W)
    BY <1>11, <1>12 DEF Closed
  <2> QED
    BY <1>3, <1>13, <2>1 DEF IsWalk
<1>15. i \in U => k \in U
  BY <1>4, <1>5 DEF Closed
<1> DEFINE T == {j \in V : (j <= i => j \in U) /\ (j >= next => Now(j) \in U)}
<1>16. 0 \in T
  <2>1. 0 >= next => next = 0 /\ i = 0
    BY <1>1
  <2> QED
    BY <1>1, <1>5, <1>9, <1>15, <2>1
<1>17. ASSUME NEW j \in T, IsEntry(t, n, j) PROVE Behind(t, j) \in T
  <2> DEFINE b == Behind(t, j)
  <2>1. b \in V /\ b \in Nat /\ j \in Nat /\ b >= j + 2
    BY <1>1, <1>2, <1>5, <1>17 DEF Closed, Advances
  <2>2. ASSUME j >= next PROVE b \in Late /\ Now(b) \in U
    <3>1. Now(j) \in U /\ IsEntry(u, m, Now(j)) /\ b \in Late /\ Behind(u, Now(j)) = Now(b)
      BY <1>8, <1>17, <2>2
    <3> QED
      BY <1>5, <3>1 DEF Closed
  <2>3. ASSUME j < i PROVE b <= i /\ b \in U
    <3>1. j \in U /\ b <= i /\ IsEntry(u, m, j) /\ Behind(u, j) = b
      <4>1. j <= i
        BY <1>1, <2>1, <2>3
      <4> QED
        BY <1>7, <2>3, <4>1
    <3> QED
      BY <1>5, <3>1 DEF Closed
  <2>4. j < i \/ j = i \/ j >= next
    <3>1. j <= i \/ (IsEntry(t, n, i) /\ j >= Behind(t, i))
      BY <1>6
    <3>2. next = i \/ next = Behind(t, i)
      BY <1>4
    <3> QED
      BY <1>1, <2>1, <3>1, <3>2
  <2> HIDE DEF b
  <2>5. CASE j < i
    <3>1. b >= next => b = i /\ b = next
      BY <1>1, <2>1, <2>3, <2>5
    <3> QED
      BY <1>9, <1>15, <2>1, <2>3, <2>5, <3>1 DEF b
  <2>6. CASE j >= next
    <3>1. b <= i => FALSE
      BY <1>1, <2>1, <2>6
    <3> QED
      BY <2>1, <2>2, <2>6, <3>1 DEF b
  <2>7. CASE j = i /\ i # next
    <3>1. b = next
      BY <1>4, <2>7 DEF b
    <3>2. j \in U
      BY <1>1, <2>7
    <3>3. ~(b <= i)
      BY <2>1, <2>7
    <3> QED
      BY <1>9, <1>15, <2>1, <2>7, <3>1, <3>2, <3>3 DEF b
  <2>8. j = i /\ i = next => j >= next
    BY <1>1
  <2> QED
    BY <2>4, <2>5, <2>6, <2>7, <2>8
<1>18. V \subseteq T
  <2>1. Closed(t, n, T)
    BY <1>1, <1>17 DEF Closed
  <2> QED
    BY <1>3, <1>16, <2>1 DEF IsWalk
<1>19. W \subseteq U
  BY <1>18
<1>20. m \in U
  <2>1. n >= next /\ Now(n) = m
    BY <1>1, <1>4 DEF Now
  <2> QED
    BY <1>4, <1>18, <2>1
<1> QED
  BY <1>14, <1>19, <1>20 DEF Whole, Now

\* The entries that stay, and where.
Staying(t, i, next) == {j \in Starts(t, Len(t)) : j < i \/ j >= next}
PlaceNow(i, next, k, j) == IF j < i THEN j ELSE (j - next) + k

EntriesAreExchanged(t, u, i, next, k) ==
    /\ Starts(t, Len(t)) = Staying(t, i, next) \cup (IF next = i THEN {} ELSE {i})
    /\ next # i => i \notin Staying(t, i, next)
    /\ Starts(u, Len(u)) = {PlaceNow(i, next, k, j) : j \in Staying(t, i, next)} \cup (IF k = i THEN {} ELSE {i})
    /\ k # i => \A j \in Staying(t, i, next) : PlaceNow(i, next, k, j) # i
    /\ \A j \in Staying(t, i, next) :
          /\ UnitAt(u, PlaceNow(i, next, k, j)) = UnitAt(t, j)
          /\ ValueAt(u, PlaceNow(i, next, k, j)) = ValueAt(t, j)

LEMMA EntriesExchanged ==
    ASSUME NEW t, NEW u, NEW i, NEW next, NEW k, Exchanged(t, u, i, next, k), Whole(t, Len(t))
    PROVE  EntriesAreExchanged(t, u, i, next, k)
<1> DEFINE n == Len(t)
           m == Len(u)
           V == Visited(t, n)
           K == Staying(t, i, next)
           P(j) == PlaceNow(i, next, k, j)
<1>1. /\ Units(t, n) /\ Units(u, m) /\ n \in Nat /\ m \in Nat
      /\ i \in Nat /\ next \in Nat /\ i <= next /\ next <= n
      /\ k \in Nat /\ i <= k /\ k <= m /\ V \subseteq 0 .. n /\ next \in V
  BY ExchangedNumbers
<1>2. /\ i \in V /\ n \in V /\ m = k + (n - next)
      /\ next = i \/ (IsEntry(t, n, i) /\ next = Behind(t, i))
  BY DEF Exchanged, Whole
<1>3. /\ Visited(u, m) = {j \in V : j <= i} \cup {(j - next) + k : j \in {l \in V : l >= next}}
      /\ Whole(u, m)
  BY ExchangedVisited
<1>4. Starts(t, n) = V \ {n} /\ Starts(u, m) = Visited(u, m) \ {m}
  BY <1>1, <1>3, WholeStarts
<1>5. \A j \in V : j <= i \/ j >= next
  <2>1. Advances(t, n)
    BY <1>1, UnitsAdvance
  <2>2. IsWalk(t, n, V)
    BY <2>1, VisitedWalk
  <2>3. Apart(t, n, V, i)
    BY <1>2, <2>1, <2>2, WalkIsOrdered
  <2>4. \A j \in V : j <= i \/ (IsEntry(t, n, i) /\ j >= Behind(t, i))
    BY <1>2, <2>1, <2>2, <2>3, NothingBetween
  <2>5. ASSUME NEW j \in V PROVE j <= i \/ j >= next
    <3>1. j <= i \/ j >= Behind(t, i)
      BY <2>4
    <3>2. j \in Nat
      BY <1>1
    <3> QED
      BY <1>1, <1>2, <3>1, <3>2
  <2> QED
    BY <2>5
<1>6. K = {j \in V : j # n /\ (j < i \/ j >= next)}
  BY <1>4 DEF Staying
<1>7. Starts(t, n) = K \cup (IF next = i THEN {} ELSE {i})
  <2>1. \A j \in V : j < i \/ j = i \/ j >= next
    BY <1>1, <1>5
  <2>2. next # i => i # n
    BY <1>1
  <2> QED
    BY <1>1, <1>2, <1>4, <1>6, <2>1, <2>2
<1>8. next # i => i \notin K
  BY <1>1, <1>6
<1>9. ASSUME NEW j \in K
      PROVE  UnitAt(u, P(j)) = UnitAt(t, j) /\ ValueAt(u, P(j)) = ValueAt(t, j)
  <2>1. j \in V /\ IsEntry(t, n, j)
    BY <1>6 DEF Staying, Starts
  <2>2. CASE j < i
    <3>1. Alike(t, u, j, j)
      BY <2>1, <2>2, BeforeAlike
    <3> QED
      BY <2>1, <2>2, <3>1 DEF Alike, PlaceNow
  <2>3. CASE ~(j < i)
    <3>1. j >= next
      BY <1>6, <2>3
    <3>2. Alike(t, u, j, (j - next) + k)
      BY <2>1, <3>1, BehindAlike
    <3> QED
      BY <2>1, <2>3, <3>2 DEF Alike, PlaceNow
  <2> QED
    BY <2>2, <2>3
<1>10. ASSUME k # i, NEW j \in K PROVE P(j) # i
  BY <1>1, <1>6, <1>10 DEF PlaceNow
<1>11. ASSUME NEW w \in Starts(u, m) PROVE w \in {P(j) : j \in K} \/ (k # i /\ w = i)
  <2>1. w \in Visited(u, m) /\ w # m
    BY <1>4
  <2>2. CASE w \in V /\ w <= i
    <3>1. CASE w < i
      <4>1. w \in K /\ P(w) = w
        BY <1>1, <1>6, <2>2, <3>1 DEF PlaceNow
      <4> QED
        BY <4>1
    <3>2. CASE w = i /\ k = i
      <4>1. next # n
        BY <1>1, <1>2, <2>1, <3>2
      <4>2. next \in K /\ P(next) = i
        BY <1>1, <1>6, <3>2, <4>1 DEF PlaceNow
      <4> QED
        BY <3>2, <4>2
    <3> QED
      BY <1>1, <2>2, <3>1, <3>2
  <2>3. ASSUME NEW j \in V, j >= next, w = (j - next) + k PROVE w \in {P(l) : l \in K}
    <3>1. j \in Nat
      BY <1>1
    <3>2. j # n
      <4>1. w # k + (n - next)
        BY <1>2, <2>1
      <4> QED
        BY <1>1, <2>3, <3>1, <4>1
    <3>3. j \in K /\ P(j) = w
      BY <1>1, <1>6, <2>3, <3>1, <3>2 DEF PlaceNow
    <3> QED
      BY <3>3
  <2> QED
    BY <1>3, <2>1, <2>2, <2>3
<1>12. ASSUME NEW j \in K PROVE P(j) \in Starts(u, m)
  <2>1. j \in V /\ j \in 0 .. n /\ j # n /\ (j < i \/ j >= next)
    BY <1>1, <1>6
  <2>2. CASE j < i
    <3>1. P(j) = j /\ j # m /\ j <= i
      BY <1>1, <2>1, <2>2 DEF PlaceNow
    <3> QED
      BY <1>3, <1>4, <2>1, <3>1
  <2>3. CASE ~(j < i)
    <3>1. P(j) = (j - next) + k /\ j >= next
      BY <2>1, <2>3 DEF PlaceNow
    <3>2. (j - next) + k # m
      BY <1>1, <1>2, <2>1
    <3> QED
      BY <1>3, <1>4, <2>1, <3>1, <3>2
  <2> QED
    BY <2>2, <2>3
<1>13. ASSUME k # i PROVE i \in Starts(u, m)
  <2>1. i # m /\ i <= i
    BY <1>1, <1>13
  <2> QED
    BY <1>2, <1>3, <1>4, <2>1
<1> HIDE DEF P, K
<1>14. Starts(u, m) = {P(j) : j \in K} \cup (IF k = i THEN {} ELSE {i})
  BY <1>11, <1>12, <1>13
<1> QED
  BY <1>7, <1>8, <1>9, <1>10, <1>14 DEF EntriesAreExchanged, P, K

\* An image without faults.
Table(t) == Units(t, Len(t)) /\ Whole(t, Len(t)) /\ ~Twice(t, Len(t))

\* What an image holds.
HeldIn(t) == [tag \in {UnitAt(t, i) : i \in Starts(t, Len(t))} |-> ValueAt(t, Find(t, tag))]

TagsOf(t) == {UnitAt(t, i) : i \in Starts(t, Len(t))}

\* A tag is found where it is.
LEMMA TagIsFound ==
    ASSUME NEW t, Table(t), NEW i \in Starts(t, Len(t))
    PROVE  Find(t, UnitAt(t, i)) = i
<1> DEFINE hits == {j \in Starts(t, Len(t)) : UnitAt(t, j) = UnitAt(t, i)}
<1>1. hits = {i}
  BY DEF Table, Twice
<1>2. i \in Nat
  <2>1. Advances(t, Len(t))
    BY UnitsAdvance DEF Table
  <2> QED
    BY <2>1, VisitedWalk DEF IsWalk, Closed, Starts
<1>3. i <= i
  BY <1>2
<1>4. Find(t, UnitAt(t, i)) = CHOOSE x \in hits : \A y \in hits : x <= y
  BY <1>1 DEF Find
<1> HIDE DEF hits
<1>5. \E x \in hits : \A y \in hits : x <= y
  BY <1>1, <1>3
<1>6. Find(t, UnitAt(t, i)) \in hits
  BY <1>4, <1>5
<1> QED
  BY <1>1, <1>6

LEMMA NothingFound ==
    ASSUME NEW t, NEW tag, tag \notin TagsOf(t)
    PROVE  Find(t, tag) = Len(t)
  BY DEF Find, TagsOf

LEMMA HeldIs ==
    ASSUME NEW t, Table(t)
    PROVE  /\ HeldIn(t) = [tag \in TagsOf(t) |-> HeldIn(t)[tag]]
           /\ \A i \in Starts(t, Len(t)) : HeldIn(t)[UnitAt(t, i)] = ValueAt(t, i)
<1>1. HeldIn(t) = [tag \in TagsOf(t) |-> ValueAt(t, Find(t, tag))]
  BY DEF HeldIn, TagsOf
<1>2. \A i \in Starts(t, Len(t)) : UnitAt(t, i) \in TagsOf(t)
  BY DEF TagsOf
<1> QED
  BY <1>1, <1>2, TagIsFound

\* A function on the tags of t that gives each its value is what t holds.
LEMMA HeldIsOne ==
    ASSUME NEW t, Table(t), NEW D, NEW f, f = [x \in D |-> f[x]], D = TagsOf(t),
           \A i \in Starts(t, Len(t)) : f[UnitAt(t, i)] = ValueAt(t, i)
    PROVE  HeldIn(t) = f
<1>1. \A x \in TagsOf(t) : f[x] = HeldIn(t)[x]
  BY HeldIs DEF TagsOf
<1> QED
  BY <1>1, HeldIs

WithEntry(t, tag, val) == [x \in TagsOf(t) \cup {tag} |-> IF x = tag THEN val ELSE HeldIn(t)[x]]
WithoutEntry(t, tag) == [x \in TagsOf(t) \ {tag} |-> HeldIn(t)[x]]

\* An entry is put where there was another of its tag, or none.
LEMMA HeldAfterPut ==
    ASSUME NEW t, NEW u, NEW i, NEW next, NEW k, Exchanged(t, u, i, next, k), Table(t), k # i,
           NEW tag, UnitAt(u, i) = tag,
           next = i => tag \notin TagsOf(t), next # i => UnitAt(t, i) = tag
    PROVE  Table(u) /\ HeldIn(u) = WithEntry(t, tag, ValueAt(u, i))
<1> DEFINE K == Staying(t, i, next)
           P(j) == PlaceNow(i, next, k, j)
           A == Starts(t, Len(t))
           B == Starts(u, Len(u))
           D == TagsOf(t) \cup {tag}
           f == [x \in D |-> IF x = tag THEN ValueAt(u, i) ELSE HeldIn(t)[x]]
<1>1. EntriesAreExchanged(t, u, i, next, k)
  BY EntriesExchanged DEF Table
<1>2. /\ A = K \cup (IF next = i THEN {} ELSE {i})
      /\ next # i => i \notin K
      /\ B = {P(j) : j \in K} \cup {i}
      /\ \A j \in K : P(j) # i
      /\ \A j \in K : UnitAt(u, P(j)) = UnitAt(t, j) /\ ValueAt(u, P(j)) = ValueAt(t, j)
  BY <1>1 DEF EntriesAreExchanged
<1>3. \A j, l \in A : UnitAt(t, j) = UnitAt(t, l) => j = l
  BY DEF Table, Twice
<1>4. TagsOf(t) = {UnitAt(t, j) : j \in A} /\ TagsOf(u) = {UnitAt(u, j) : j \in B}
  BY DEF TagsOf
<1>5. \A j \in A : HeldIn(t)[UnitAt(t, j)] = ValueAt(t, j)
  BY HeldIs
<1> HIDE DEF K, P, A, B
<1>6. \A j \in K : UnitAt(t, j) # tag
  BY <1>2, <1>3, <1>4
<1>7. \A w \in B : w = i \/ \E j \in K : w = P(j)
  BY <1>2
<1>8. ~Twice(u, Len(u))
  <2>1. ASSUME NEW v \in B, NEW w \in B, UnitAt(u, v) = UnitAt(u, w) PROVE v = w
    <3>1. CASE v = i /\ w # i
      <4>1. PICK j \in K : w = P(j)
        BY <1>7, <3>1
      <4> QED
        BY <1>2, <1>6, <2>1, <3>1, <4>1
    <3>2. CASE v # i /\ w = i
      <4>1. PICK j \in K : v = P(j)
        BY <1>7, <3>2
      <4> QED
        BY <1>2, <1>6, <2>1, <3>2, <4>1
    <3>3. CASE v # i /\ w # i
      <4>1. PICK j \in K : v = P(j)
        BY <1>7, <3>3
      <4>2. PICK l \in K : w = P(l)
        BY <1>7, <3>3
      <4>3. UnitAt(t, j) = UnitAt(t, l) /\ j \in A /\ l \in A
        BY <1>2, <2>1, <4>1, <4>2
      <4> QED
        BY <1>3, <4>1, <4>2, <4>3
    <3> QED
      BY <3>1, <3>2, <3>3
  <2> QED
    BY <2>1 DEF Twice, B
<1>9. Table(u)
  <2>1. Units(u, Len(u)) /\ Whole(u, Len(u))
    BY ExchangedNumbers, ExchangedVisited DEF Table
  <2> QED
    BY <1>8, <2>1 DEF Table
<1>10. D = TagsOf(u)
  <2>1. ASSUME NEW x \in D PROVE x \in TagsOf(u)
    <3>1. CASE x = tag
      BY <1>2, <1>4, <3>1
    <3>2. CASE x # tag
      <4>1. PICK j \in A : x = UnitAt(t, j)
        BY <1>4, <3>2
      <4>2. j \in K
        BY <1>2, <3>2, <4>1
      <4>3. P(j) \in B /\ UnitAt(u, P(j)) = x
        BY <1>2, <4>1, <4>2
      <4> QED
        BY <1>4, <4>3
    <3> QED
      BY <3>1, <3>2
  <2>2. ASSUME NEW w \in B PROVE UnitAt(u, w) \in D
    <3>1. CASE w = i
      BY <3>1
    <3>2. CASE w # i
      <4>1. PICK j \in K : w = P(j)
        BY <1>7, <3>2
      <4> QED
        BY <1>2, <1>4, <4>1
    <3> QED
      BY <3>1, <3>2
  <2> HIDE DEF D
  <2> QED
    BY <1>4, <2>1, <2>2
<1>11. ASSUME NEW w \in B PROVE f[UnitAt(u, w)] = ValueAt(u, w)
  <2>1. CASE w = i
    BY <2>1
  <2>2. CASE w # i
    <3>1. PICK j \in K : w = P(j)
      BY <1>7, <2>2
    <3>2. UnitAt(u, w) = UnitAt(t, j) /\ ValueAt(u, w) = ValueAt(t, j) /\ UnitAt(t, j) # tag /\ j \in A
      BY <1>2, <1>6, <3>1
    <3>3. UnitAt(t, j) \in D
      BY <1>4, <3>2
    <3> QED
      BY <1>5, <3>2, <3>3
  <2> QED
    BY <2>1, <2>2
<1>12. f = [x \in D |-> f[x]]
  OBVIOUS
<1> HIDE DEF f, D
<1>13. HeldIn(u) = f
  BY <1>9, <1>10, <1>11, <1>12, HeldIsOne DEF B
<1> QED
  BY <1>9, <1>13 DEF f, D, WithEntry

\* An entry is taken out.
LEMMA HeldAfterDrop ==
    ASSUME NEW t, NEW u, NEW i, NEW next, NEW k, Exchanged(t, u, i, next, k), Table(t),
           k = i, next # i
    PROVE  /\ Table(u) /\ UnitAt(t, i) \in TagsOf(t)
           /\ HeldIn(u) = WithoutEntry(t, UnitAt(t, i))
<1> DEFINE K == Staying(t, i, next)
           P(j) == PlaceNow(i, next, k, j)
           A == Starts(t, Len(t))
           B == Starts(u, Len(u))
           tag == UnitAt(t, i)
           D == TagsOf(t) \ {tag}
           f == [x \in D |-> HeldIn(t)[x]]
<1>1. EntriesAreExchanged(t, u, i, next, k)
  BY EntriesExchanged DEF Table
<1>2. /\ A = K \cup {i} /\ i \notin K
      /\ B = {P(j) : j \in K}
      /\ \A j \in K : UnitAt(u, P(j)) = UnitAt(t, j) /\ ValueAt(u, P(j)) = ValueAt(t, j)
  BY <1>1 DEF EntriesAreExchanged
<1>3. \A j, l \in A : UnitAt(t, j) = UnitAt(t, l) => j = l
  BY DEF Table, Twice
<1>4. TagsOf(t) = {UnitAt(t, j) : j \in A} /\ TagsOf(u) = {UnitAt(u, j) : j \in B}
  BY DEF TagsOf
<1>5. \A j \in A : HeldIn(t)[UnitAt(t, j)] = ValueAt(t, j)
  BY HeldIs
<1> HIDE DEF K, P, A, B, tag
<1>6. \A j \in K : UnitAt(t, j) # tag /\ j \in A
  BY <1>2, <1>3 DEF tag
<1>7. ~Twice(u, Len(u))
  <2>1. ASSUME NEW v \in B, NEW w \in B, UnitAt(u, v) = UnitAt(u, w) PROVE v = w
    <3>1. PICK j \in K : v = P(j)
      BY <1>2
    <3>2. PICK l \in K : w = P(l)
      BY <1>2
    <3>3. UnitAt(t, j) = UnitAt(t, l) /\ j \in A /\ l \in A
      BY <1>2, <2>1, <3>1, <3>2
    <3> QED
      BY <1>3, <3>1, <3>2, <3>3
  <2> QED
    BY <2>1 DEF Twice, B
<1>8. Table(u)
  <2>1. Units(u, Len(u)) /\ Whole(u, Len(u))
    BY ExchangedNumbers, ExchangedVisited DEF Table
  <2> QED
    BY <1>7, <2>1 DEF Table
<1>9. D = TagsOf(u)
  <2>1. ASSUME NEW x \in D PROVE x \in TagsOf(u)
    <3>1. PICK j \in A : x = UnitAt(t, j)
      BY <1>4
    <3>2. j \in K
      BY <1>2, <3>1 DEF tag
    <3> QED
      BY <1>2, <1>4, <3>1, <3>2
  <2>2. ASSUME NEW w \in B PROVE UnitAt(u, w) \in D
    <3>1. PICK j \in K : w = P(j)
      BY <1>2
    <3> QED
      BY <1>2, <1>4, <1>6, <3>1
  <2> HIDE DEF D
  <2> QED
    BY <1>4, <2>1, <2>2
<1>10. ASSUME NEW w \in B PROVE f[UnitAt(u, w)] = ValueAt(u, w)
  <2>1. PICK j \in K : w = P(j)
    BY <1>2
  <2>2. UnitAt(u, w) = UnitAt(t, j) /\ ValueAt(u, w) = ValueAt(t, j) /\ UnitAt(t, j) \in D /\ j \in A
    BY <1>2, <1>4, <1>6, <2>1
  <2> QED
    BY <1>5, <2>2
<1>11. f = [x \in D |-> f[x]]
  OBVIOUS
<1> HIDE DEF f, D
<1>12. HeldIn(u) = f
  BY <1>8, <1>9, <1>10, <1>11, HeldIsOne DEF B
<1>13. tag \in TagsOf(t)
  BY <1>2, <1>4 DEF tag
<1> QED
  BY <1>8, <1>12, <1>13 DEF f, D, tag, WithoutEntry

-----------------------------------------------------------------------------
(* Units that are copied and moved. *)

\* r is t with s at offset i.
IsPasted(r, t, i, s) ==
    /\ r \in Seq(TlvUnit) /\ Len(r) = Len(t)
    /\ \A p \in 1 .. Len(t) : r[p] = IF p \in i + 1 .. i + Len(s) THEN s[p - i] ELSE t[p]

\* r is t with n units moved.
IsMoved(r, t, to, from, n) ==
    /\ r \in Seq(TlvUnit) /\ Len(r) = Len(t)
    /\ \A p \in 1 .. Len(t) : r[p] = IF p \in to + 1 .. to + n THEN t[from + (p - to)] ELSE t[p]

LEMMA PasteIs ==
    ASSUME NEW t \in Seq(TlvUnit), NEW s \in Seq(TlvUnit), NEW i \in Nat
    PROVE  IsPasted(Paste(t, i, s), t, i, s)
<1> DEFINE n == Len(t)
           m == Len(s)
           UnitThen(p) == IF p \in i + 1 .. i + m THEN s[p - i] ELSE t[p]
<1>1. n \in Nat /\ m \in Nat /\ DOMAIN t = 1 .. n
  OBVIOUS
<1>2. Paste(t, i, s) = [p \in 1 .. n |-> UnitThen(p)]
  BY <1>1 DEF Paste
<1>3. ASSUME NEW p \in 1 .. n PROVE UnitThen(p) \in TlvUnit
  <2>1. CASE p \in i + 1 .. i + m
    <3>1. p - i \in 1 .. m
      BY <1>1, <2>1
    <3>2. s[p - i] \in TlvUnit
      BY <3>1
    <3> QED
      BY <2>1, <3>2
  <2>2. CASE p \notin i + 1 .. i + m
    BY <2>2
  <2> QED
    BY <2>1, <2>2
<1> HIDE DEF UnitThen
<1>4. [p \in 1 .. n |-> UnitThen(p)] \in Seq(TlvUnit) /\ Len([p \in 1 .. n |-> UnitThen(p)]) = n
  BY <1>1, <1>3
<1> QED
  BY <1>2, <1>4 DEF UnitThen, IsPasted

\* The part of a sequence.
LEMMA PartIs ==
    ASSUME NEW S, NEW t \in Seq(S), NEW a \in Nat, NEW n \in Nat, a + n <= Len(t)
    PROVE  /\ SubSeq(t, a + 1, a + n) \in Seq(S) /\ Len(SubSeq(t, a + 1, a + n)) = n
           /\ \A p \in 1 .. n : SubSeq(t, a + 1, a + n)[p] = t[a + p]
<1>1. /\ Len(t) \in Nat
      /\ \A p \in 1 .. n : a + p \in 1 .. Len(t) /\ ((a + 1) + p) - 1 = a + p
  OBVIOUS
<1> QED
  BY <1>1

LEMMA MoveIs ==
    ASSUME NEW t \in Seq(TlvUnit), NEW to \in Nat, NEW from \in Nat, NEW n \in Nat, from + n <= Len(t)
    PROVE  IsMoved(Move(t, to, from, n), t, to, from, n)
<1> DEFINE s == SubSeq(t, from + 1, from + n)
<1>1. s \in Seq(TlvUnit) /\ Len(s) = n /\ \A p \in 1 .. n : s[p] = t[from + p]
  BY PartIs
<1>2. Move(t, to, from, n) = Paste(t, to, s)
  BY DEF Move
<1> HIDE DEF s
<1>3. /\ Paste(t, to, s) \in Seq(TlvUnit) /\ Len(Paste(t, to, s)) = Len(t)
      /\ \A p \in 1 .. Len(t) : Paste(t, to, s)[p] = IF p \in to + 1 .. to + n THEN s[p - to] ELSE t[p]
  <2>1. IsPasted(Paste(t, to, s), t, to, s)
    BY <1>1, PasteIs
  <2> QED
    BY <1>1, <2>1 DEF IsPasted
<1>4. \A p \in 1 .. Len(t) : p \in to + 1 .. to + n => p - to \in 1 .. n
  OBVIOUS
<1>5. \A p \in 1 .. Len(t) : p \in to + 1 .. to + n => s[p - to] = t[from + (p - to)]
  BY <1>1, <1>4
<1> QED
  BY <1>2, <1>3, <1>5 DEF IsMoved

\* What was moved is moved back.
LEMMA RevertedIs ==
    ASSUME NEW t, Table(t), NEW i \in Starts(t, Len(t)), NEW c \in Nat,
           i <= c, c <= Behind(t, i)
    PROVE  LET next == Behind(t, i)
               tail == Len(t) - next
           IN Reverted(Move(t, c, next, tail), i, EntryAt(t, i), next, c, tail) = t
<1> DEFINE n == Len(t)
           next == Behind(t, i)
           tail == n - next
           e == next - i
           dup == EntryAt(t, i)
           moved == Move(t, c, next, tail)
           back == Move(moved, next, c, tail)
           u == Paste(back, i, dup)
<1>1. t \in Seq(TlvUnit) /\ n \in Nat /\ Units(t, n)
  BY DEF Table, Units
<1>2. Advances(t, n)
  BY <1>1, UnitsAdvance
<1>3. i \in 0 .. n /\ IsEntry(t, n, i)
  BY <1>2, VisitedWalk DEF Starts, IsWalk, Closed
<1>4. next \in Nat /\ i + 2 <= next /\ next <= n /\ i \in Nat
  BY <1>2, <1>3 DEF Advances
<1>5. tail \in Nat /\ next + tail = n /\ c + tail <= n /\ e \in Nat /\ i + e = next
  BY <1>1, <1>4
<1>6. dup = SubSeq(t, i + 1, i + e)
  BY <1>5 DEF EntryAt
<1> HIDE DEF next, tail, e, n, moved, back, u
<1>7. dup \in Seq(TlvUnit) /\ Len(dup) = e /\ \A p \in 1 .. e : dup[p] = t[i + p]
  <2>1. i + e <= Len(t)
    BY <1>4, <1>5 DEF n
  <2> QED
    BY <1>1, <1>4, <1>5, <1>6, <2>1, PartIs
<1>8. /\ moved \in Seq(TlvUnit) /\ Len(moved) = n
      /\ \A p \in 1 .. n : moved[p] = IF p \in c + 1 .. c + tail THEN t[next + (p - c)] ELSE t[p]
  BY <1>1, <1>4, <1>5, MoveIs DEF n, IsMoved, moved
<1> HIDE DEF dup
<1>9. /\ back \in Seq(TlvUnit) /\ Len(back) = n
      /\ \A p \in 1 .. n : back[p] = IF p \in next + 1 .. next + tail THEN moved[c + (p - next)] ELSE moved[p]
  BY <1>4, <1>5, <1>8, MoveIs DEF IsMoved, back
<1>10. /\ u \in Seq(TlvUnit) /\ Len(u) = n
       /\ \A p \in 1 .. n : u[p] = IF p \in i + 1 .. i + e THEN dup[p - i] ELSE back[p]
  <2>1. IsPasted(u, back, i, dup)
    BY <1>4, <1>7, <1>9, PasteIs DEF u
  <2> QED
    BY <1>7, <1>9, <2>1 DEF IsPasted
<1>11. ASSUME NEW p \in 1 .. n PROVE u[p] = t[p]
  <2>1. CASE p <= i
    <3>1. p \notin i + 1 .. i + e /\ p \notin next + 1 .. next + tail /\ p \notin c + 1 .. c + tail
      BY <1>4, <2>1
    <3> QED
      BY <1>8, <1>9, <1>10, <3>1
  <2>2. CASE i < p /\ p <= next
    <3>1. p \in i + 1 .. i + e /\ p - i \in 1 .. e /\ i + (p - i) = p
      BY <1>4, <1>5, <2>2
    <3> QED
      BY <1>7, <1>10, <3>1
  <2>3. CASE next < p
    <3>1. p \notin i + 1 .. i + e /\ p \in next + 1 .. next + tail
      BY <1>4, <1>5, <2>3
    <3> DEFINE q == c + (p - next)
    <3>2. q \in 1 .. n /\ q \in c + 1 .. c + tail /\ next + (q - c) = p
      BY <1>1, <1>4, <1>5, <2>3
    <3> HIDE DEF q
    <3>3. moved[q] = t[p]
      BY <1>8, <3>2
    <3>4. back[p] = moved[q]
      BY <1>9, <3>1 DEF q
    <3> QED
      BY <1>10, <3>1, <3>3, <3>4
  <2> QED
    BY <1>1, <1>4, <2>1, <2>2, <2>3
<1>12. u = t
  BY <1>1, <1>10, <1>11, SameItems DEF n
<1> QED
  BY <1>12 DEF u, back, moved, dup, n, next, tail, Reverted

\* An entry that is written.
EntryIsWritten(b, u, i, val) ==
    /\ u \in Seq(TlvUnit) /\ Len(u) = Len(b)
    /\ IsEntry(u, Len(u), i) /\ Behind(u, i) = i + EntrySize(Len(val))
    /\ UnitAt(u, i) = UnitAt(b, i) /\ ValueAt(u, i) = val
    /\ \A p \in 1 .. Len(b) : p <= i \/ p > i + EntrySize(Len(val)) => u[p] = b[p]

\* r is s followed by t.
IsJoined(r, s, t) ==
    /\ r \in Seq(TlvUnit) /\ Len(r) = Len(s) + Len(t)
    /\ \A p \in 1 .. Len(s) : r[p] = s[p]
    /\ \A p \in 1 .. Len(t) : r[Len(s) + p] = t[p]

LEMMA JoinIs == ASSUME NEW s \in Seq(TlvUnit), NEW t \in Seq(TlvUnit) PROVE IsJoined(s \o t, s, t)
  BY DEF IsJoined

LEMMA NaturalsAreUnits == ASSUME NEW s \in Seq(Nat) PROVE s \in Seq(TlvUnit)
  BY DEF TlvUnit

LEMMA FilledIs ==
    ASSUME NEW b \in Seq(TlvUnit), NEW i \in Nat, NEW val \in Seq(Nat), i + EntrySize(Len(val)) <= Len(b)
    PROVE  EntryIsWritten(b, Filled(b, i, val), i, val)
<1> DEFINE m == Len(val)
           a == Aligned(m)
           pad == IF m % 2 = 0 THEN << >> ELSE <<0>>
           s == <<m>> \o val \o pad
           u == Filled(b, i, val)
<1>1. m \in Nat /\ a \in Nat /\ a >= m /\ EntrySize(m) = 2 + a
  BY EvenIs DEF EntrySize, TlvSize, TlvUnit
<1>2. Len(pad) = a - m /\ pad \in Seq(TlvUnit)
  <2>1. a = m + (m % 2) /\ m % 2 \in {0, 1}
    BY <1>1 DEF Aligned
  <2>2. CASE m % 2 = 0
    BY <1>1, <2>1, <2>2
  <2>3. CASE m % 2 = 1
    <3>1. pad = <<0>> /\ 0 \in TlvUnit
      BY <2>3 DEF TlvUnit
    <3> HIDE DEF pad, a
    <3> QED
      BY <1>1, <2>1, <2>3, <3>1
  <2> QED
    BY <2>1, <2>2, <2>3
<1>3. /\ s \in Seq(TlvUnit) /\ Len(s) = 1 + a /\ s[1] = m
      /\ \A x \in 1 .. m : s[1 + x] = val[x]
  <2>1. <<m>> \in Seq(TlvUnit) /\ val \in Seq(TlvUnit) /\ pad \in Seq(TlvUnit) /\ Len(<<m>>) = 1
    <3>1. m \in TlvUnit
      BY <1>1 DEF TlvUnit
    <3> QED
      BY <1>2, <3>1, NaturalsAreUnits
  <2> HIDE DEF pad, a
  <2> DEFINE q == <<m>>
             r == q \o val
  <2>6. q \in Seq(TlvUnit) /\ Len(q) = 1 /\ q[1] = m
    BY <2>1
  <2> HIDE DEF q
  <2>2. r \in Seq(TlvUnit) /\ Len(r) = 1 + m /\ r[1] = m /\ \A x \in 1 .. m : r[1 + x] = val[x]
    <3>1. IsJoined(r, q, val)
      BY <2>1, <2>6, JoinIs
    <3> HIDE DEF r
    <3>2. \A x \in 1 .. m : r[Len(q) + x] = val[x]
      BY <3>1 DEF IsJoined
    <3>3. r[1] = q[1]
      BY <2>6, <3>1 DEF IsJoined
    <3> QED
      BY <2>6, <3>1, <3>2, <3>3 DEF IsJoined
  <2> HIDE DEF r
  <2>3. /\ r \o pad \in Seq(TlvUnit) /\ Len(r \o pad) = 1 + a
        /\ \A x \in 1 .. 1 + m : (r \o pad)[x] = r[x]
    <3>1. IsJoined(r \o pad, r, pad)
      BY <2>1, <2>2, JoinIs
    <3>2. Len(r) + Len(pad) = 1 + a
      BY <1>1, <1>2, <2>2
    <3> QED
      BY <2>2, <3>1, <3>2 DEF IsJoined
  <2>4. s = r \o pad
    BY DEF r, q
  <2> HIDE DEF s
  <2>5. \A x \in 1 .. m : 1 + x \in 1 .. 1 + m
    BY <1>1
  <2> QED
    BY <1>1, <2>2, <2>3, <2>4, <2>5
<1>4. u = Paste(b, i + 1, s)
  BY DEF Filled
<1> HIDE DEF s, pad, a, u
<1>5. /\ u \in Seq(TlvUnit) /\ Len(u) = Len(b)
      /\ \A p \in 1 .. Len(b) : u[p] = IF p \in (i + 1) + 1 .. (i + 1) + (1 + a) THEN s[p - (i + 1)] ELSE b[p]
  BY <1>3, <1>4, PasteIs DEF IsPasted
<1>6. Len(b) \in Nat /\ i + (2 + a) <= Len(b)
  BY <1>1
<1>7. ASSUME NEW p \in 1 .. Len(b), p <= i + 1 \/ p > i + (2 + a) PROVE u[p] = b[p]
  <2>1. p \notin (i + 1) + 1 .. (i + 1) + (1 + a)
    BY <1>1, <1>7
  <2> QED
    BY <1>5, <2>1
<1>8. UnitAt(u, i) = UnitAt(b, i)
  <2>1. i + 1 \in 1 .. Len(b)
    BY <1>1, <1>6
  <2> QED
    BY <1>7, <2>1 DEF UnitAt
<1>9. UnitAt(u, i + 1) = m
  <2>1. /\ (i + 1) + 1 \in 1 .. Len(b) /\ (i + 1) + 1 \in (i + 1) + 1 .. (i + 1) + (1 + a)
        /\ ((i + 1) + 1) - (i + 1) = 1
    BY <1>1, <1>6
  <2> QED
    BY <1>3, <1>5, <2>1 DEF UnitAt
<1>10. Behind(u, i) = i + (2 + a)
  BY <1>1, <1>9 DEF Behind, SizeAt
<1>11. ValueAt(u, i) = val
  <2> DEFINE v == SubSeq(u, (i + 2) + 1, (i + 2) + m)
  <2>1. v \in Seq(TlvUnit) /\ Len(v) = m /\ \A x \in 1 .. m : v[x] = u[(i + 2) + x]
    <3>1. i + 2 \in Nat /\ (i + 2) + m <= Len(u)
      BY <1>1, <1>5, <1>6
    <3> QED
      <4> DEFINE y == i + 2
      <4>1. y \in Nat /\ y + m <= Len(u)
        BY <3>1
      <4> HIDE DEF y
      <4>2. /\ SubSeq(u, y + 1, y + m) \in Seq(TlvUnit) /\ Len(SubSeq(u, y + 1, y + m)) = m
            /\ \A x \in 1 .. m : SubSeq(u, y + 1, y + m)[x] = u[y + x]
        BY <1>1, <1>5, <4>1, PartIs
      <4> QED
        BY <4>2 DEF y
  <2>2. ASSUME NEW x \in 1 .. m PROVE u[(i + 2) + x] = val[x]
    <3>1. /\ (i + 2) + x \in 1 .. Len(b) /\ (i + 2) + x \in (i + 1) + 1 .. (i + 1) + (1 + a)
          /\ ((i + 2) + x) - (i + 1) = 1 + x
      BY <1>1, <1>6
    <3> QED
      BY <1>3, <1>5, <3>1
  <2>3. ValueAt(u, i) = v
    BY <1>9 DEF ValueAt, TlvSize
  <2>4. val \in Seq(TlvUnit)
    BY DEF TlvUnit
  <2> HIDE DEF v
  <2>5. v = val
    BY <2>1, <2>2, <2>4, SameItems
  <2> QED
    BY <2>3, <2>5
<1>12. IsEntry(u, Len(u), i)
  BY <1>1, <1>5, <1>6, <1>10 DEF IsEntry, TlvSize
<1> QED
  BY <1>1, <1>5, <1>6, <1>7, <1>8, <1>10, <1>11, <1>12 DEF EntryIsWritten, u

-----------------------------------------------------------------------------
(* Setting an entry. *)

\* Where the entry of a tag is or goes, and where what lies behind it begins.
Target(t, tag, i, next) ==
    IF tag \in TagsOf(t) THEN i \in Starts(t, Len(t)) /\ UnitAt(t, i) = tag /\ next = Behind(t, i)
    ELSE i = Len(t) /\ next = i

\* b has room for an entry of the tag between i and k.
HasRoom(t, b, i, next, k, tag) ==
    /\ b \in Seq(TlvUnit) /\ Len(b) = k + (Len(t) - next)
    /\ \A p \in 1 .. i : b[p] = t[p]
    /\ b[i + 1] = tag
    /\ \A p \in 1 .. Len(t) - next : b[k + p] = t[next + p]

LEMMA TargetIs ==
    ASSUME NEW t, Table(t), NEW tag
    PROVE  LET i == Find(t, tag) IN
           /\ Target(t, tag, i, IF i = Len(t) THEN i ELSE Behind(t, i))
           /\ i = Len(t) <=> tag \notin TagsOf(t)
<1>1. CASE tag \notin TagsOf(t)
  BY <1>1, NothingFound DEF Target
<1>2. CASE tag \in TagsOf(t)
  <2>1. PICK i \in Starts(t, Len(t)) : tag = UnitAt(t, i)
    BY <1>2 DEF TagsOf
  <2>2. Find(t, tag) = i
    BY <2>1, TagIsFound
  <2>3. i # Len(t)
    BY WholeStarts DEF Table
  <2> QED
    BY <1>2, <2>1, <2>2, <2>3 DEF Target
<1> QED
  BY <1>1, <1>2

LEMMA TargetNumbers ==
    ASSUME NEW t, Table(t), NEW tag, NEW i, NEW next, Target(t, tag, i, next)
    PROVE  /\ t \in Seq(TlvUnit) /\ Len(t) \in Nat
           /\ i \in Nat /\ next \in Nat /\ next <= Len(t) /\ i \in Visited(t, Len(t))
           /\ next = i <=> tag \notin TagsOf(t)
           /\ IF next = i THEN i = Len(t) ELSE i + 2 <= next /\ IsEntry(t, Len(t), i) /\ next = Behind(t, i)
<1>1. t \in Seq(TlvUnit) /\ Len(t) \in Nat /\ Units(t, Len(t)) /\ Len(t) \in Visited(t, Len(t))
  BY DEF Table, Units, Whole
<1>2. Advances(t, Len(t))
  BY <1>1, UnitsAdvance
<1>3. Visited(t, Len(t)) \subseteq 0 .. Len(t)
  BY <1>2, VisitedWalk DEF IsWalk, Closed
<1>4. CASE tag \in TagsOf(t)
  <2>1. i \in Visited(t, Len(t)) /\ IsEntry(t, Len(t), i) /\ next = Behind(t, i)
    BY <1>4 DEF Target, Starts
  <2>2. next \in Nat /\ i + 2 <= next /\ next <= Len(t) /\ i \in Nat
    BY <1>2, <1>3, <2>1 DEF Advances
  <2> QED
    BY <1>1, <1>4, <2>1, <2>2
<1>5. CASE tag \notin TagsOf(t)
  BY <1>1, <1>5 DEF Target
<1> QED
  BY <1>4, <1>5

LEMMA PutIs ==
    ASSUME NEW t, Table(t), NEW tag \in Nat, NEW val \in Seq(Nat), NEW i, NEW next,
           Target(t, tag, i, next), NEW b, HasRoom(t, b, i, next, i + EntrySize(Len(val)), tag)
    PROVE  LET u == Filled(b, i, val) IN
           /\ Table(u) /\ Len(u) = Len(b)
           /\ HeldIn(u) = WithEntry(t, tag, val)
<1> DEFINE n == Len(t)
           a == EntrySize(Len(val))
           k == i + a
           u == Filled(b, i, val)
<1>1. /\ t \in Seq(TlvUnit) /\ n \in Nat /\ i \in Nat /\ next \in Nat /\ next <= n
      /\ i \in Visited(t, n) /\ (next = i <=> tag \notin TagsOf(t))
      /\ next = i \/ (IsEntry(t, n, i) /\ next = Behind(t, i))
  BY TargetNumbers
<1>2. a \in Nat /\ a >= 2
  <2>1. Len(val) \in TlvUnit
    BY DEF TlvUnit
  <2> QED
    BY <2>1, EvenIs DEF EntrySize, TlvSize
<1>3. /\ b \in Seq(TlvUnit) /\ Len(b) = k + (n - next) /\ b[i + 1] = tag
      /\ \A p \in 1 .. i : b[p] = t[p]
      /\ \A p \in 1 .. n - next : b[k + p] = t[next + p]
  BY DEF HasRoom
<1> HIDE DEF a, u
<1>4. Len(b) \in Nat /\ k \in Nat /\ k > i /\ k <= Len(b)
  BY <1>1, <1>2, <1>3
<1>5. EntryIsWritten(b, u, i, val)
  BY <1>1, <1>3, <1>4, FilledIs DEF u, a
<1>6. /\ u \in Seq(TlvUnit) /\ Len(u) = Len(b) /\ IsEntry(u, Len(u), i) /\ Behind(u, i) = k
      /\ UnitAt(u, i) = tag /\ ValueAt(u, i) = val
      /\ \A p \in 1 .. Len(b) : p <= i \/ p > k => u[p] = b[p]
  BY <1>3, <1>5 DEF EntryIsWritten, a, UnitAt
<1> HIDE DEF k
<1>7. \A p \in 1 .. i : u[p] = t[p]
  <2>1. \A p \in 1 .. i : p \in 1 .. Len(b) /\ p <= i
    BY <1>1, <1>4
  <2> QED
    BY <1>3, <1>6, <2>1
<1>8. \A p \in 1 .. n - next : u[k + p] = t[next + p]
  <2>1. \A p \in 1 .. n - next : k + p \in 1 .. Len(b) /\ k + p > k
    BY <1>1, <1>3, <1>4
  <2> QED
    BY <1>3, <1>6, <2>1
<1>9. Exchanged(t, u, i, next, k)
  BY <1>1, <1>3, <1>4, <1>6, <1>7, <1>8 DEF Exchanged
<1>10. (next = i => tag \notin TagsOf(t)) /\ (next # i => UnitAt(t, i) = tag)
  BY <1>1 DEF Target
<1>11. k # i
  BY <1>1, <1>4
<1>12. Table(u) /\ HeldIn(u) = WithEntry(t, tag, ValueAt(u, i))
  BY <1>6, <1>9, <1>10, <1>11, HeldAfterPut
<1> QED
  BY <1>6, <1>12 DEF u

\* The entry keeps its size.
LEMMA SameSizeHasRoom ==
    ASSUME NEW t, Table(t), NEW tag, NEW i, NEW next, Target(t, tag, i, next), next # i
    PROVE  HasRoom(t, t, i, next, next, tag)
<1>1. t \in Seq(TlvUnit) /\ Len(t) \in Nat /\ next \in Nat /\ UnitAt(t, i) = tag
  BY TargetNumbers DEF Target
<1> QED
  BY <1>1 DEF HasRoom, UnitAt

\* The entry becomes shorter.
LEMMA ShrunkHasRoom ==
    ASSUME NEW t, Table(t), NEW tag, NEW i, NEW next, Target(t, tag, i, next),
           NEW cut \in Nat, i + 2 <= next - cut
    PROVE  HasRoom(t, SubSeq(Move(t, next - cut, next, Len(t) - next), 1, Len(t) - cut),
                   i, next, next - cut, tag)
<1> DEFINE n == Len(t)
           tail == n - next
           k == next - cut
           moved == Move(t, k, next, tail)
           b == SubSeq(moved, 1, n - cut)
<1>1. /\ t \in Seq(TlvUnit) /\ n \in Nat /\ i \in Nat /\ next \in Nat /\ next <= n
      /\ UnitAt(t, i) = tag
  <2>1. i + 2 <= next => i # next
    BY TargetNumbers
  <2>2. i # next
    BY TargetNumbers
  <2> QED
    BY <2>2, TargetNumbers DEF Target
<1>2. k \in Nat /\ tail \in Nat /\ next + tail = n /\ n - cut \in Nat /\ n - cut = k + tail /\ n - cut <= n
  BY <1>1
<1>3. /\ moved \in Seq(TlvUnit) /\ Len(moved) = n
      /\ \A p \in 1 .. n : moved[p] = IF p \in k + 1 .. k + tail THEN t[next + (p - k)] ELSE t[p]
  <2> HIDE DEF k, tail, moved
  <2>1. next + tail <= Len(t)
    <3>1. next + tail = Len(t) /\ Len(t) \in Nat
      BY <1>1, <1>2
    <3> QED
      BY <3>1
  <2>2. IsMoved(moved, t, k, next, tail)
    BY <1>1, <1>2, <2>1, MoveIs DEF moved
  <2> QED
    BY <2>2 DEF IsMoved
<1>4. b \in Seq(TlvUnit) /\ Len(b) = n - cut /\ \A p \in 1 .. n - cut : b[p] = moved[p]
  <2> DEFINE e == n - cut
  <2>1. e \in Nat /\ 0 + e <= Len(moved) /\ moved \in Seq(TlvUnit) /\ SubSeq(moved, 0 + 1, 0 + e) = b
    <3>1. e \in Nat /\ 0 + 1 = 1 /\ 0 + e = n - cut /\ e <= n
      BY <1>2
    <3>2. SubSeq(moved, 0 + 1, 0 + e) = b
      BY <3>1
    <3> QED
      BY <1>3, <3>1, <3>2
  <2> HIDE DEF e, moved, b
  <2>2. /\ SubSeq(moved, 0 + 1, 0 + e) \in Seq(TlvUnit) /\ Len(SubSeq(moved, 0 + 1, 0 + e)) = e
        /\ \A p \in 1 .. e : SubSeq(moved, 0 + 1, 0 + e)[p] = moved[0 + p]
    BY <2>1, PartIs
  <2>3. \A p \in 1 .. e : moved[0 + p] = moved[p]
    OBVIOUS
  <2> QED
    BY <2>1, <2>2, <2>3 DEF e
<1> HIDE DEF moved, b
<1>5. \A p \in 1 .. i + 1 : p \in 1 .. n - cut /\ p \in 1 .. n /\ p \notin k + 1 .. k + tail
  BY <1>1, <1>2
<1>6. \A p \in 1 .. i + 1 : b[p] = t[p]
  BY <1>3, <1>4, <1>5
<1>7. ASSUME NEW p \in 1 .. tail PROVE b[k + p] = t[next + p]
  <2>1. k + p \in 1 .. n - cut /\ k + p \in 1 .. n /\ k + p \in k + 1 .. k + tail /\ (k + p) - k = p
    BY <1>1, <1>2
  <2> QED
    BY <1>3, <1>4, <2>1
<1>8. i + 1 \in 1 .. i + 1 /\ \A p \in 1 .. i : p \in 1 .. i + 1
  BY <1>1
<1>9. b[i + 1] = tag /\ \A p \in 1 .. i : b[p] = t[p]
  BY <1>1, <1>6, <1>8 DEF UnitAt
<1>10. HasRoom(t, b, i, next, k, tag)
  BY <1>2, <1>4, <1>7, <1>9 DEF HasRoom
<1> QED
  BY <1>10 DEF b, moved

\* The entry becomes longer, or is a new one.
LEMMA WidenedHasRoom ==
    ASSUME NEW t, Table(t), NEW tag \in Nat, NEW i, NEW next, Target(t, tag, i, next),
           NEW more \in Nat \ {0}
    PROVE  HasRoom(t, Widened(t, i, more, tag), i, next, next + more, tag)
<1> DEFINE n == Len(t)
           tail == n - next
           k == next + more
           new == [p \in 1 .. more |-> Unset]
           longer == t \o new
           b == Widened(t, i, more, tag)
<1>1. /\ t \in Seq(TlvUnit) /\ n \in Nat /\ i \in Nat /\ next \in Nat /\ next <= n /\ i <= next
      /\ i = n => next = i
      /\ i # n => next = Behind(t, i) /\ UnitAt(t, i) = tag /\ i + 2 <= next
  <2>1. /\ t \in Seq(TlvUnit) /\ n \in Nat /\ i \in Nat /\ next \in Nat /\ next <= n
        /\ next = i <=> tag \notin TagsOf(t)
        /\ IF next = i THEN i = n ELSE i + 2 <= next /\ next = Behind(t, i)
    BY TargetNumbers
  <2>2. next # i => UnitAt(t, i) = tag
    BY <2>1 DEF Target
  <2> HIDE DEF n
  <2>3. CASE next = i
    BY <2>1, <2>3
  <2>4. CASE next # i
    <3>1. i # n /\ i <= next
      BY <2>1, <2>4
    <3> QED
      BY <2>1, <2>2, <2>4, <3>1
  <2> QED
    BY <2>3, <2>4
<1>2. new \in Seq(TlvUnit) /\ Len(new) = more
  BY DEF TlvUnit
<1> HIDE DEF new
<1>3. longer \in Seq(TlvUnit) /\ Len(longer) = n + more /\ \A p \in 1 .. n : longer[p] = t[p]
  BY <1>1, <1>2, JoinIs DEF IsJoined
<1>4. k \in Nat /\ tail \in Nat /\ next + tail = n /\ k + tail = n + more
  BY <1>1
<1>5. b = IF tail > 0 THEN Move(longer, k, next, tail) ELSE Paste(longer, i, <<tag>>)
  BY <1>1 DEF Widened, new
<1> HIDE DEF longer, b
<1>6. CASE tail > 0
  <2>1. next + tail <= Len(longer)
    BY <1>3, <1>4
  <2>2. /\ b \in Seq(TlvUnit) /\ Len(b) = n + more
        /\ \A p \in 1 .. n + more :
              b[p] = IF p \in k + 1 .. k + tail THEN longer[next + (p - k)] ELSE longer[p]
    <3>1. b = Move(longer, k, next, tail)
      BY <1>5, <1>6
    <3> HIDE DEF k, tail, n
    <3>2. IsMoved(b, longer, k, next, tail)
      BY <1>1, <1>3, <1>4, <2>1, <3>1, MoveIs
    <3> QED
      BY <1>3, <3>2 DEF IsMoved
  <2>3. i # n /\ i + 2 <= next
    <3>1. i # n
      BY <1>1, <1>6
    <3> QED
      BY <1>1, <3>1
  <2>4. \A p \in 1 .. i + 1 : p \in 1 .. n /\ p \in 1 .. n + more /\ p \notin k + 1 .. k + tail
    <3>1. n \in Nat /\ i \in Nat /\ next \in Nat /\ next <= n
      BY <1>1
    <3> HIDE DEF n
    <3> QED
      BY <2>3, <3>1
  <2>5. \A p \in 1 .. i + 1 : b[p] = t[p]
    BY <1>3, <2>2, <2>4
  <2>6. ASSUME NEW p \in 1 .. tail PROVE b[k + p] = t[next + p]
    <3>1. k + p \in 1 .. n + more /\ k + p \in k + 1 .. k + tail /\ (k + p) - k = p /\ next + p \in 1 .. n
      <4>1. n \in Nat /\ next \in Nat /\ p \in Nat /\ p >= 1 /\ p <= tail
        <5> HIDE DEF tail, n
        <5> QED
          BY <1>1, <1>4
      <4> HIDE DEF n, k, tail
      <4> QED
        BY <1>4, <4>1
    <3> QED
      BY <1>3, <2>2, <3>1
  <2>7. i + 1 \in 1 .. i + 1 /\ \A p \in 1 .. i : p \in 1 .. i + 1
    BY <1>1
  <2>8. b[i + 1] = tag /\ \A p \in 1 .. i : b[p] = t[p]
    BY <1>1, <2>3, <2>5, <2>7 DEF UnitAt
  <2> QED
    BY <1>4, <2>2, <2>6, <2>8 DEF HasRoom, b
<1>7. CASE ~(tail > 0)
  <2> DEFINE one == <<tag>>
  <2>1. one \in Seq(TlvUnit) /\ Len(one) = 1 /\ one[1] = tag
    BY DEF TlvUnit
  <2> HIDE DEF one
  <2>2. /\ b \in Seq(TlvUnit) /\ Len(b) = n + more
        /\ \A p \in 1 .. n + more : b[p] = IF p \in i + 1 .. i + 1 THEN one[p - i] ELSE longer[p]
    <3>1. b = Paste(longer, i, one)
      BY <1>5, <1>7 DEF one
    <3>2. IsPasted(b, longer, i, one)
      BY <1>1, <1>3, <2>1, <3>1, PasteIs
    <3> QED
      BY <1>3, <2>1, <3>2 DEF IsPasted
  <2>3. tail = 0 /\ Len(b) = k + tail
    BY <1>4, <1>7, <2>2
  <2>4. \A p \in 1 .. i : p \in 1 .. n /\ p \in 1 .. n + more /\ p \notin i + 1 .. i + 1
    BY <1>1
  <2>5. \A p \in 1 .. i : b[p] = t[p]
    BY <1>3, <2>2, <2>4
  <2>6. i + 1 \in 1 .. n + more /\ i + 1 \in i + 1 .. i + 1 /\ (i + 1) - i = 1
    BY <1>1
  <2>7. b[i + 1] = tag
    BY <2>1, <2>2, <2>6
  <2>8. 1 .. tail = {}
    BY <2>3
  <2> QED
    BY <2>2, <2>3, <2>5, <2>7, <2>8 DEF HasRoom, b
<1> QED
  BY <1>6, <1>7

-----------------------------------------------------------------------------
(* The invariant, and the map that is promised. *)

HeaderOf(t) == [magic |-> Magic, size |-> Len(t), crc |-> Crc(Magic, Len(t), t)]

\* The inductive invariant: the image is a table, its header says so, and it is no
\* larger than it may become.
TlvInv == Table(tlv) /\ hdr = HeaderOf(tlv) /\ HdrSize + Len(tlv) <= ImgLenMax

LEMMA HeldInTlv == Held = HeldIn(tlv) /\ Held' = HeldIn(tlv')
  BY DEF Held, HeldIn

LEMMA HeldDomain ==
    ASSUME NEW t PROVE DOMAIN HeldIn(t) = TagsOf(t)
  BY DEF HeldIn, TagsOf

LEMMA AnswerIsGiven ==
    ASSUME NEW c, NEW v, Tells(c, v)
    PROVE  Answered' = [code |-> IF c \in {"done", "none"} THEN c ELSE "failed", val |-> v]
  BY DEF Tells, Answered

LEMMA SealedIs ==
    ASSUME NEW t, NEW u
    PROVE  Sealed(HeaderOf(t), u) = HeaderOf(u)
<1>1. HeaderOf(t).magic = Magic
  BY DEF HeaderOf
<1>2. Sealed(HeaderOf(t), u) = [HeaderOf(t) EXCEPT !.size = Len(u), !.crc = Crc(Magic, Len(u), u)]
  BY <1>1, Zenon DEF Sealed
<1> DEFINE a == Len(t)
           b == Crc(Magic, Len(t), t)
           c == Len(u)
           d == Crc(Magic, Len(u), u)
<1>3. /\ HeaderOf(t) = [magic |-> Magic, size |-> a, crc |-> b]
      /\ HeaderOf(u) = [magic |-> Magic, size |-> c, crc |-> d]
  BY DEF HeaderOf
<1> HIDE DEF a, b, c, d
<1>4. [[magic |-> Magic, size |-> a, crc |-> b] EXCEPT !.size = c, !.crc = d]
        = [magic |-> Magic, size |-> c, crc |-> d]
  <2> DEFINE h == [magic |-> Magic, size |-> a, crc |-> b]
             r == [h EXCEPT !.size = c, !.crc = d]
  <2>1. DOMAIN h = {"magic", "size", "crc"} /\ h["magic"] = Magic
    OBVIOUS
  <2> HIDE DEF h
  <2>2. /\ r = [f \in {"magic", "size", "crc"} |-> r[f]]
        /\ r["magic"] = Magic /\ r["size"] = c /\ r["crc"] = d
    BY <2>1
  <2> HIDE DEF r
  <2>3. r = [magic |-> Magic, size |-> c, crc |-> d]
    BY <2>2
  <2> QED
    BY <2>3 DEF r, h
<1> QED
  BY <1>2, <1>3, <1>4, Zenon DEF c, d

\* A call that fails says so and changes nothing.
LEMMA FailureRefuses ==
    ASSUME TlvInv, NEW code, code \notin {"done", "none"}, Tells(code, << >>), UNCHANGED <<hdr, tlv>>
    PROVE  TlvInv' /\ Tags!TagMapNext
<1>1. TlvInv'
  BY DEF TlvInv, Table
<1>2. Held' = Held
  BY HeldInTlv
<1>3. Answered' = [code |-> "failed", val |-> << >>]
  BY AnswerIsGiven
<1>4. Tags!Refuse
  BY <1>2, <1>3 DEF Tags!Refuse, Tags!Says
<1> QED
  BY <1>1, <1>4 DEF Tags!TagMapNext

\* A call that is done leaves a table.
LEMMA CompletionIs ==
    ASSUME TlvInv, NEW u, Table(u), HdrSize + Len(u) <= ImgLenMax, Completed(u)
    PROVE  TlvInv' /\ Held' = HeldIn(u) /\ Answered' = [code |-> "done", val |-> << >>]
<1>1. tlv' = u /\ hdr' = Sealed(hdr, u) /\ Tells("done", << >>)
  BY DEF Completed
<1>2. hdr' = HeaderOf(u)
  BY <1>1, SealedIs, Zenon DEF TlvInv
<1>3. TlvInv'
  BY <1>1, <1>2 DEF TlvInv
<1>4. Held' = HeldIn(u)
  BY <1>1, HeldInTlv
<1>5. Answered' = [code |-> "done", val |-> << >>]
  BY <1>1, AnswerIsGiven
<1> QED
  BY <1>3, <1>4, <1>5

LEMMA PutKeeps ==
    ASSUME TlvInv, NEW u, Table(u), HdrSize + Len(u) <= ImgLenMax, Completed(u),
           NEW tag \in Tag, NEW x \in TagValue, HeldIn(u) = WithEntry(tlv, tag, x)
    PROVE  TlvInv' /\ Tags!TagMapNext
<1>1. TlvInv' /\ Held' = HeldIn(u) /\ Answered' = [code |-> "done", val |-> << >>]
  BY CompletionIs
<1>2. Held = HeldIn(tlv) /\ DOMAIN Held = TagsOf(tlv)
  BY HeldInTlv, HeldDomain
<1>3. Held' = [y \in DOMAIN Held \cup {tag} |-> IF y = tag THEN x ELSE Held[y]]
  BY <1>1, <1>2 DEF WithEntry
<1>4. Tags!Put(tag, x)
  BY <1>1, <1>3 DEF Tags!Put, Tags!Says
<1> QED
  BY <1>1, <1>4 DEF Tags!TagMapNext

LEMMA SizeIs ==
    ASSUME NEW t, Table(t), NEW i \in Nat, i \in Starts(t, Len(t))
    PROVE  SizeAt(t, i) \in Int
<1>1. t \in Seq(TlvUnit) /\ Len(t) \in Nat /\ i + 2 <= Len(t)
  BY DEF Table, Units, Starts, IsEntry, TlvSize
<1>2. (i + 1) + 1 \in 1 .. Len(t)
  BY <1>1
<1>3. UnitAt(t, i + 1) \in TlvUnit
  BY <1>1, <1>2 DEF UnitAt
<1> HIDE DEF TlvUnit
<1> QED
  BY <1>3, EvenIs DEF SizeAt, EntrySize, TlvSize

LEMMA SetKeeps ==
    ASSUME TlvInv, NEW tag \in Tag, NEW len, NEW x,
           len = IntMax + 1 \/ (x \in TagValue /\ len = Len(x)), Set(tag, len, x)
    PROVE  TlvInv' /\ Tags!TagMapNext
<1> DEFINE n == Len(tlv)
           i == Find(tlv, tag)
           next == IF i = n THEN i ELSE Behind(tlv, i)
           size == EntrySize(len)
           diff == size - (IF i = n THEN 0 ELSE SizeAt(tlv, i))
           Fatal(c) == Tells(c, << >>) /\ UNCHANGED <<hdr, tlv>>
<1>1. Table(tlv) /\ HdrSize + n <= ImgLenMax /\ n \in Nat
  BY DEF TlvInv, Table, Units
<1>2. ASSUME NEW c \in {"EINVAL", "EMSGSIZE", "ENOMEM"}, Fatal(c) PROVE TlvInv' /\ Tags!TagMapNext
  BY <1>2, FailureRefuses
<1>3. /\ len > IntMax => Fatal("EINVAL")
      /\ ~(len > IntMax) /\ HdrSize + n + diff > ImgLenMax => Fatal("EMSGSIZE")
      /\ ~(len > IntMax) /\ ~(HdrSize + n + diff > ImgLenMax) =>
            \/ diff < 0 /\ Shrink(tlv, i, -diff, x)
            \/ diff > 0 /\ (Fatal("ENOMEM") \/ Completed(Filled(Widened(tlv, i, diff, tag), i, x)))
            \/ diff = 0 /\ Completed(Filled(tlv, i, x))
  BY DEF Set, Fails
<1>4. CASE len > IntMax
  BY <1>2, <1>3, <1>4
<1>5. CASE ~(len > IntMax) /\ HdrSize + n + diff > ImgLenMax
  BY <1>2, <1>3, <1>5
<1>6. CASE ~(len > IntMax) /\ ~(HdrSize + n + diff > ImgLenMax)
  <2>1. x \in TagValue /\ len = Len(x) /\ x \in Seq(Nat) /\ tag \in Nat
    BY <1>6, TableAssumption
  <2>2. len \in Nat /\ size \in Nat /\ size >= 2
    <3>1. len \in Nat /\ len \in TlvUnit
      BY <2>1 DEF TlvUnit
    <3> QED
      BY <3>1, EvenIs DEF EntrySize, TlvSize
  <2>3. Target(tlv, tag, i, next)
    BY <1>1, TargetIs
  <2>4. /\ i \in Nat /\ next \in Nat /\ next <= n /\ (next = i <=> i = n)
        /\ next # i => i + 2 <= next /\ next = i + SizeAt(tlv, i) /\ i \in Starts(tlv, n)
    <3>1. /\ i \in Nat /\ next \in Nat /\ next <= n /\ i \in Visited(tlv, n)
          /\ IF next = i THEN i = n ELSE i + 2 <= next /\ IsEntry(tlv, n, i) /\ next = Behind(tlv, i)
      BY <1>1, <2>3, TargetNumbers
    <3> QED
      BY <3>1 DEF Behind, Starts
  <2>5. diff \in Int /\ i + size = next + diff /\ next - i \in Nat
    <3> DEFINE old == IF i = n THEN 0 ELSE SizeAt(tlv, i)
    <3>1. old = next - i
      <4> HIDE DEF i, n, next
      <4>1. CASE i = n
        BY <2>4, <4>1
      <4>2. CASE i # n
        <5>1. next = i + SizeAt(tlv, i) /\ i \in Nat /\ next \in Nat /\ i \in Starts(tlv, n)
          BY <2>4, <4>2
        <5>2. SizeAt(tlv, i) \in Int
          BY <1>1, <5>1, SizeIs DEF n
        <5> QED
          BY <4>2, <5>1, <5>2
      <4> QED
        BY <4>1, <4>2
    <3>2. diff = size - old /\ i \in Nat /\ next \in Nat /\ size \in Nat /\ i <= next
      <4>1. i <= next
        <5> HIDE DEF i, n, next
        <5> QED
          BY <2>4
      <4> QED
        BY <2>2, <2>4, <4>1
    <3> HIDE DEF i, n, next, diff, size, old
    <3> QED
      BY <3>1, <3>2
  <2> HIDE DEF next, diff, i, size
  <2>6. HdrSize + (n + diff) <= ImgLenMax
    <3>1. HdrSize \in Nat /\ ImgLenMax \in Nat /\ n \in Nat
      BY <1>1, TableAssumption DEF HdrSize
    <3> HIDE DEF n
    <3> QED
      BY <1>6, <2>5, <3>1
  <2>7. ASSUME NEW b, HasRoom(tlv, b, i, next, i + size, tag), Completed(Filled(b, i, x))
        PROVE  TlvInv' /\ Tags!TagMapNext
    <3> DEFINE u == Filled(b, i, x)
    <3>1. Table(u) /\ Len(u) = Len(b) /\ HeldIn(u) = WithEntry(tlv, tag, x)
      BY <1>1, <2>1, <2>3, <2>7, PutIs DEF size
    <3>2. Len(b) = n + diff
      <4>1. Len(b) = (i + size) + (n - next)
        BY <2>7 DEF HasRoom
      <4> HIDE DEF n
      <4> QED
        BY <1>1, <2>2, <2>4, <2>5, <4>1
    <3>3. HdrSize + Len(u) <= ImgLenMax
      BY <2>6, <3>1, <3>2
    <3> HIDE DEF u
    <3>4. Completed(u)
      BY <2>7 DEF u
    <3> QED
      BY <2>1, <3>1, <3>3, <3>4, PutKeeps
  <2>8. CASE diff = 0 /\ Completed(Filled(tlv, i, x))
    <3>1. next # i /\ i + size = next
      BY <2>2, <2>4, <2>5, <2>8
    <3>2. HasRoom(tlv, tlv, i, next, i + size, tag)
      BY <1>1, <2>3, <3>1, SameSizeHasRoom
    <3> QED
      BY <2>7, <2>8, <3>2
  <2>9. CASE diff > 0 /\ Completed(Filled(Widened(tlv, i, diff, tag), i, x))
    <3>1. diff \in Nat \ {0}
      BY <2>5, <2>9
    <3>2. HasRoom(tlv, Widened(tlv, i, diff, tag), i, next, next + diff, tag)
      BY <1>1, <2>1, <2>3, <3>1, WidenedHasRoom
    <3>3. HasRoom(tlv, Widened(tlv, i, diff, tag), i, next, i + size, tag)
      BY <2>5, <3>2
    <3> QED
      BY <2>7, <2>9, <3>3
  <2>10. CASE diff < 0 /\ Shrink(tlv, i, -diff, x)
    <3> DEFINE cut == -diff
               tail == n - next
               moved == Move(tlv, next - cut, next, tail)
               back == Reverted(moved, i, EntryAt(tlv, i), next, next - cut, tail)
    <3>1. cut \in Nat /\ i + 2 <= next - cut /\ next - cut = i + size /\ next # i
      BY <2>2, <2>4, <2>5, <2>10
    <3>2. next = Behind(tlv, i) /\ i \in Starts(tlv, n)
      BY <2>4, <3>1 DEF next
    <3>3. \/ Fatal("ENOMEM")
          \/ tlv' = back /\ Tells("ENOMEM", << >>) /\ UNCHANGED hdr
          \/ Completed(Filled(SubSeq(moved, 1, n - cut), i, x))
      BY <2>10, <3>2 DEF Shrink, Fails
    <3>4. back = tlv
      <4> DEFINE c == next - cut
      <4>1. c \in Nat /\ i <= c /\ c <= Behind(tlv, i)
        BY <2>4, <3>1, <3>2
      <4> HIDE DEF c
      <4>2. Reverted(Move(tlv, c, Behind(tlv, i), n - Behind(tlv, i)), i, EntryAt(tlv, i), Behind(tlv, i),
                     c, n - Behind(tlv, i)) = tlv
        BY <1>1, <3>2, <4>1, RevertedIs
      <4> QED
        BY <3>2, <4>2 DEF c
    <3>5. CASE Completed(Filled(SubSeq(moved, 1, n - cut), i, x))
      <4>1. HasRoom(tlv, SubSeq(moved, 1, n - cut), i, next, next - cut, tag)
        <5> HIDE DEF cut
        <5> QED
          BY <1>1, <2>3, <3>1, ShrunkHasRoom
      <4>2. HasRoom(tlv, SubSeq(moved, 1, n - cut), i, next, i + size, tag)
        BY <3>1, <4>1
      <4> HIDE DEF moved, cut
      <4> QED
        BY <2>7, <3>5, <4>2
    <3> HIDE DEF back
    <3>6. CASE tlv' = back /\ Tells("ENOMEM", << >>) /\ UNCHANGED hdr
      BY <1>2, <3>4, <3>6
    <3> QED
      BY <1>2, <3>3, <3>5, <3>6
  <2>11. CASE Fatal("ENOMEM")
    BY <1>2, <2>11
  <2> QED
    BY <1>3, <1>6, <2>8, <2>9, <2>10, <2>11 DEF i, diff, size
<1> QED
  BY <1>4, <1>5, <1>6


-----------------------------------------------------------------------------
(* Deleting an entry. *)

\* What lies behind the entry is moved over it.
LEMMA DroppedIs ==
    ASSUME NEW t, Table(t), NEW tag \in TagsOf(t), NEW i, NEW next, Target(t, tag, i, next)
    PROVE  LET u == SubSeq(Move(t, i, next, Len(t) - next), 1, Len(t) - SizeAt(t, i)) IN
           Exchanged(t, u, i, next, i) /\ Len(u) <= Len(t)
<1> DEFINE n == Len(t)
           tail == n - next
           moved == Move(t, i, next, tail)
           e == n - SizeAt(t, i)
           u == SubSeq(moved, 1, e)
<1>1. /\ t \in Seq(TlvUnit) /\ n \in Nat /\ i \in Nat /\ next \in Nat /\ next <= n
      /\ i \in Visited(t, n) /\ IsEntry(t, n, i) /\ next = Behind(t, i) /\ i + 2 <= next
      /\ i \in Starts(t, n)
  <2>1. next # i
    BY TargetNumbers
  <2> QED
    BY <2>1, TargetNumbers DEF Target
<1>2. tail \in Nat /\ next + tail = n /\ i + tail \in Nat /\ i + tail <= n
  <2> HIDE DEF n
  <2> QED
    BY <1>1
<1>3. e = i + tail
  <2>1. SizeAt(t, i) \in Int /\ next = i + SizeAt(t, i)
    BY <1>1, SizeIs DEF Behind
  <2> DEFINE s == SizeAt(t, i)
  <2>2. s \in Int /\ next = i + s /\ n \in Nat /\ i \in Nat /\ next \in Nat /\ e = n - s
    BY <1>1, <2>1
  <2> HIDE DEF n, s, e
  <2> QED
    BY <2>2
<1> HIDE DEF e, tail, moved, u
<1>4. /\ moved \in Seq(TlvUnit) /\ Len(moved) = n
      /\ \A p \in 1 .. n : moved[p] = IF p \in i + 1 .. i + tail THEN t[next + (p - i)] ELSE t[p]
  <2>1. next + tail <= Len(t)
    <3>1. next + tail = Len(t) /\ Len(t) \in Nat
      BY <1>1, <1>2
    <3> QED
      BY <3>1
  <2>2. IsMoved(moved, t, i, next, tail)
    BY <1>1, <1>2, <2>1, MoveIs DEF moved
  <2> QED
    BY <2>2 DEF IsMoved
<1>5. u \in Seq(TlvUnit) /\ Len(u) = e /\ \A p \in 1 .. e : u[p] = moved[p]
  <2>1. e \in Nat /\ 0 + e <= Len(moved) /\ moved \in Seq(TlvUnit) /\ SubSeq(moved, 0 + 1, 0 + e) = u
    <3>1. e \in Nat /\ 0 + 1 = 1 /\ 0 + e = e /\ e <= n
      BY <1>1, <1>2, <1>3
    <3>2. SubSeq(moved, 0 + 1, 0 + e) = u
      BY <3>1 DEF u
    <3> QED
      BY <1>4, <3>1, <3>2
  <2>2. /\ SubSeq(moved, 0 + 1, 0 + e) \in Seq(TlvUnit) /\ Len(SubSeq(moved, 0 + 1, 0 + e)) = e
        /\ \A p \in 1 .. e : SubSeq(moved, 0 + 1, 0 + e)[p] = moved[0 + p]
    BY <2>1, PartIs
  <2>3. \A p \in 1 .. e : moved[0 + p] = moved[p]
    OBVIOUS
  <2> QED
    BY <2>1, <2>2, <2>3
<1>6. \A p \in 1 .. i : p \in 1 .. e /\ p \in 1 .. n /\ p \notin i + 1 .. i + tail
  BY <1>1, <1>2, <1>3
<1>7. \A p \in 1 .. i : u[p] = t[p]
  BY <1>4, <1>5, <1>6
<1>8. ASSUME NEW p \in 1 .. tail PROVE u[i + p] = t[next + p]
  <2>1. i + p \in 1 .. e /\ i + p \in 1 .. n /\ i + p \in i + 1 .. i + tail /\ (i + p) - i = p
    <3> HIDE DEF n
    <3> QED
      BY <1>1, <1>2, <1>3
  <2> QED
    BY <1>4, <1>5, <2>1
<1>9. Exchanged(t, u, i, next, i)
  BY <1>1, <1>3, <1>5, <1>7, <1>8 DEF Exchanged, tail
<1>10. Len(u) <= n
  BY <1>2, <1>3, <1>5
<1> QED
  BY <1>9, <1>10 DEF u, moved, tail, e

LEMMA DelKeeps ==
    ASSUME TlvInv, NEW tag \in Tag, Del(tag)
    PROVE  TlvInv' /\ Tags!TagMapNext
<1> DEFINE n == Len(tlv)
           i == Find(tlv, tag)
           next == Behind(tlv, i)
           tail == n - next
           moved == Move(tlv, i, next, tail)
           back == Reverted(moved, i, EntryAt(tlv, i), next, i, tail)
           u == SubSeq(moved, 1, n - SizeAt(tlv, i))
           Fatal(c) == Tells(c, << >>) /\ UNCHANGED <<hdr, tlv>>
<1>1. Table(tlv) /\ HdrSize + n <= ImgLenMax /\ n \in Nat /\ HdrSize \in Nat /\ ImgLenMax \in Nat
  BY TableAssumption DEF TlvInv, Table, Units, HdrSize
<1>2. ASSUME NEW c \in {"ENOENT", "ENOMEM"}, Fatal(c) PROVE TlvInv' /\ Tags!TagMapNext
  BY <1>2, FailureRefuses
<1>3. IF i = n THEN Fatal("ENOENT")
      ELSE \/ Fatal("ENOMEM")
           \/ tlv' = back /\ Tells("ENOMEM", << >>) /\ UNCHANGED hdr
           \/ Completed(u)
  BY DEF Del, Fails
<1>4. CASE i = n
  BY <1>2, <1>3, <1>4
<1>5. CASE i # n
  <2>1. Target(tlv, tag, i, next) /\ tag \in TagsOf(tlv) /\ i \in Starts(tlv, n) /\ UnitAt(tlv, i) = tag
    BY <1>1, <1>5, TargetIs DEF Target
  <2>2. i \in Nat /\ next \in Nat /\ i <= next /\ next # i
    BY <1>1, <2>1, TargetNumbers
  <2>3. back = tlv
    <3> HIDE DEF i
    <3>1. i <= i /\ i <= Behind(tlv, i)
      BY <2>2
    <3> QED
      BY <1>1, <2>1, <2>2, <3>1, RevertedIs
  <2>4. CASE Completed(u)
    <3>1. Exchanged(tlv, u, i, next, i) /\ Len(u) <= n
      BY <1>1, <2>1, DroppedIs
    <3> HIDE DEF i, next, u
    <3>2. Table(u) /\ HeldIn(u) = WithoutEntry(tlv, tag)
      BY <1>1, <2>1, <2>2, <3>1, HeldAfterDrop
    <3>3. HdrSize + Len(u) <= ImgLenMax
      <4>1. Len(u) \in Nat
        BY <3>2 DEF Table, Units
      <4> HIDE DEF n
      <4> QED
        BY <1>1, <3>1, <4>1
    <3>4. TlvInv' /\ Held' = HeldIn(u) /\ Answered' = [code |-> "done", val |-> << >>]
      BY <2>4, <3>2, <3>3, CompletionIs
    <3>5. Held = HeldIn(tlv) /\ DOMAIN Held = TagsOf(tlv)
      BY HeldInTlv, HeldDomain
    <3>6. tag \in DOMAIN Held /\ Held' = [y \in DOMAIN Held \ {tag} |-> Held[y]]
      BY <2>1, <3>2, <3>4, <3>5 DEF WithoutEntry
    <3>7. Tags!Drop(tag)
      BY <3>4, <3>6 DEF Tags!Drop, Tags!Says
    <3> QED
      BY <3>4, <3>7 DEF Tags!TagMapNext
  <2> HIDE DEF back
  <2>5. CASE tlv' = back /\ Tells("ENOMEM", << >>) /\ UNCHANGED hdr
    BY <1>2, <2>3, <2>5
  <2>6. CASE Fatal("ENOMEM")
    BY <1>2, <2>6
  <2> QED
    BY <1>3, <1>5, <2>4, <2>5, <2>6 DEF back
<1> QED
  BY <1>4, <1>5

LEMMA GetKeeps ==
    ASSUME TlvInv, NEW tag \in Tag, Get(tag)
    PROVE  TlvInv' /\ Tags!TagMapNext
<1> DEFINE n == Len(tlv)
           i == Find(tlv, tag)
<1>1. Table(tlv)
  BY DEF TlvInv
<1>2. UNCHANGED <<hdr, tlv>>
  BY DEF Get
<1>3. TlvInv'
  BY <1>2 DEF TlvInv, Table
<1>4. Held = HeldIn(tlv) /\ DOMAIN Held = TagsOf(tlv) /\ Held' = Held
  BY <1>2, HeldInTlv, HeldDomain
<1>5. CASE i = n
  <2>1. tag \notin DOMAIN Held
    BY <1>1, <1>4, <1>5, TargetIs
  <2>2. Answered' = [code |-> "none", val |-> << >>]
    <3>1. Tells("none", << >>)
      BY <1>5 DEF Get
    <3> QED
      BY <3>1, AnswerIsGiven
  <2> QED
    BY <1>3, <1>4, <2>1, <2>2 DEF Tags!Look, Tags!Says, Tags!TagMapNext
<1>6. CASE i # n
  <2>1. tag \in TagsOf(tlv) /\ i \in Starts(tlv, n) /\ UnitAt(tlv, i) = tag
    BY <1>1, <1>6, TargetIs DEF Target
  <2>2. HeldIn(tlv)[tag] = ValueAt(tlv, i)
    BY <1>1, <2>1, HeldIs
  <2>3. Answered' = [code |-> "done", val |-> ValueAt(tlv, i)]
    <3>1. Tells("done", ValueAt(tlv, i))
      BY <1>6 DEF Get
    <3> QED
      BY <3>1, AnswerIsGiven
  <2>4. tag \in DOMAIN Held /\ Answered' = [code |-> "done", val |-> Held[tag]]
    BY <1>4, <2>1, <2>2, <2>3
  <2> QED
    BY <1>3, <1>4, <2>4 DEF Tags!Look, Tags!Says, Tags!TagMapNext
<1> QED
  BY <1>5, <1>6

-----------------------------------------------------------------------------
(* Images that are read. *)

\* The table's own image is taken.
LEMMA OwnImageIsTaken ==
    ASSUME TlvInv
    PROVE  Parsed(hdr, tlv, ImgLenMax) = "done" /\ hdr.size = Len(tlv) /\ hdr.magic = Magic
<1>1. /\ Units(tlv, Len(tlv)) /\ Whole(tlv, Len(tlv)) /\ ~Twice(tlv, Len(tlv))
      /\ tlv \in Seq(TlvUnit) /\ Len(tlv) \in Nat /\ HdrSize + Len(tlv) <= ImgLenMax
  BY DEF TlvInv, Table, Units
<1>2. /\ hdr.size = Len(tlv) /\ hdr.magic = Magic
      /\ hdr.crc = Crc(Magic, Len(tlv), tlv)
  BY DEF TlvInv, HeaderOf
<1>3. IsTable(tlv, Len(tlv))
  BY <1>1, TableIs
<1> QED
  BY <1>1, <1>2, <1>3, ParsedIs

LEMMA ReloadKeeps ==
    ASSUME TlvInv, Reload
    PROVE  TlvInv' /\ Tags!TagMapNext
<1>1. hdr.size = Len(tlv) /\ tlv \in Seq(TlvUnit)
  BY OwnImageIsTaken DEF TlvInv, Table, Units
<1>2. tlv' = tlv
  <2>1. SubSeq(tlv, 1, Len(tlv)) = tlv
    BY <1>1
  <2> QED
    BY <1>1, <2>1 DEF Reload
<1>3. hdr' = HeaderOf(tlv')
  BY SealedIs, Zenon DEF Reload, TlvInv
<1>4. TlvInv'
  BY <1>2, <1>3 DEF TlvInv, Table
<1>5. Held' = Held /\ Answered' = [code |-> "done", val |-> << >>]
  BY <1>2, HeldInTlv, AnswerIsGiven DEF Reload
<1>6. Tags!Reload
  BY <1>5 DEF Tags!Reload, Tags!Says
<1> QED
  BY <1>4, <1>6 DEF Tags!TagMapNext

LEMMA ParseKeeps ==
    ASSUME TlvInv, NEW h, NEW t, Parse(h, t)
    PROVE  TlvInv' /\ Tags!TagMapNext
<1> DEFINE code == Parsed(h, t, ImgLenMax)
<1>1. code \in {"done", "EMSGSIZE", "EILSEQ", "EBADMSG", "E2BIG", "EEXIST"}
  BY DEF Parsed, Walked
<1>2. PICK c \in {"done", "EMSGSIZE", "EILSEQ", "EBADMSG", "E2BIG", "EEXIST", "ENOMEM"} :
         Tells(c, << >>) /\ UNCHANGED <<hdr, tlv>>
  <2> HIDE DEF code
  <2>1. (Tells(code, << >>) \/ Tells("ENOMEM", << >>)) /\ UNCHANGED <<hdr, tlv>>
    BY DEF Parse, Fails, code
  <2> QED
    BY <1>1, <2>1
<1>3. CASE c # "done"
  BY <1>2, <1>3, FailureRefuses
<1>4. CASE c = "done"
  <2>1. TlvInv'
    BY <1>2 DEF TlvInv, Table
  <2>2. Held' = Held /\ Answered' = [code |-> "done", val |-> << >>]
    BY <1>2, <1>4, HeldInTlv, AnswerIsGiven
  <2>3. Tags!Reload
    BY <2>2 DEF Tags!Reload, Tags!Says
  <2> QED
    BY <2>1, <2>3 DEF Tags!TagMapNext
<1> QED
  BY <1>3, <1>4

\* An image whose size is one a table may have.
Sized(img) == img[2] \in Seq(TlvUnit) /\ img[1].size \in Nat /\ HdrSize + img[1].size <= ImgLenMax

LEMMA HeadersHaveSizes ==
    ASSUME NEW t
    PROVE  /\ HeaderOf(t).size = Len(t)
           /\ \A m, c : [HeaderOf(t) EXCEPT !.magic = m, !.crc = c].size = Len(t)
           /\ \A n, c : [HeaderOf(t) EXCEPT !.size = n, !.crc = c].size = n
<1>1. DOMAIN HeaderOf(t) = {"magic", "size", "crc"} /\ HeaderOf(t).size = Len(t)
  BY DEF HeaderOf
<1> QED
  BY <1>1

LEMMA ChangedUnit ==
    ASSUME NEW t \in Seq(TlvUnit), NEW k \in DOMAIN t, NEW x \in Tag
    PROVE  [t EXCEPT ![k] = x] \in Seq(TlvUnit) /\ Len([t EXCEPT ![k] = x]) = Len(t)
<1>1. x \in TlvUnit
  BY TableAssumption DEF TlvUnit
<1> HIDE DEF TlvUnit
<1> QED
  BY <1>1

LEMMA ImagesAreSized ==
    ASSUME TlvInv
    PROVE  \A img \in Images : Sized(img)
<1> DEFINE len == Len(tlv)
           Wrong == [hdr EXCEPT !.magic = Other, !.crc = Crc(Other, hdr.size, tlv)]
           Short(n) == [hdr EXCEPT !.size = n, !.crc = Crc(hdr.magic, n, tlv)]
           Changed(k, u) == [tlv EXCEPT ![k] = u]
<1>1. /\ tlv \in Seq(TlvUnit) /\ len \in Nat /\ HdrSize + len <= ImgLenMax /\ hdr = HeaderOf(tlv)
      /\ HdrSize \in Nat /\ ImgLenMax \in Nat
  BY TableAssumption DEF TlvInv, Table, Units, HdrSize
<1>2. hdr.size = len /\ Wrong.size = len /\ \A n : Short(n).size = n
  <2>1. hdr.size = len
    BY <1>1, HeadersHaveSizes
  <2>2. \A m, c : [hdr EXCEPT !.magic = m, !.crc = c].size = len
    <3>1. \A m, c : [HeaderOf(tlv) EXCEPT !.magic = m, !.crc = c].size = len
      BY HeadersHaveSizes, Zenon
    <3> QED
      BY <1>1, <3>1, Zenon
  <2>3. \A n, c : [hdr EXCEPT !.size = n, !.crc = c].size = n
    <3>1. \A n, c : [HeaderOf(tlv) EXCEPT !.size = n, !.crc = c].size = n
      BY HeadersHaveSizes, Zenon
    <3> QED
      BY <1>1, <3>1, Zenon
  <2> QED
    BY <2>1, <2>2, <2>3, Zenon
<1>3. ASSUME NEW h, NEW t \in Seq(TlvUnit), h.size = len PROVE Sized(<<h, t>>)
  BY <1>1, <1>3 DEF Sized
<1>4. tlv \o <<Unset>> \in Seq(TlvUnit)
  BY <1>1 DEF TlvUnit
<1>5. ASSUME NEW n \in 0 .. Len(tlv) - 1 PROVE Sized(<<hdr, SubSeq(tlv, 1, n)>>)
  <2>1. SubSeq(tlv, 1, n) \in Seq(TlvUnit)
    <3>1. n \in Nat /\ 0 + n <= Len(tlv) /\ 0 + 1 = 1 /\ 0 + n = n
      BY <1>1
    <3>2. SubSeq(tlv, 0 + 1, 0 + n) \in Seq(TlvUnit)
      BY <1>1, <3>1, PartIs
    <3> QED
      BY <3>1, <3>2
  <2> QED
    BY <1>2, <1>3, <2>1
<1> HIDE DEF Wrong, Short
<1>6. ASSUME NEW n \in 0 .. Len(tlv) PROVE Sized(<<Short(n), tlv>>)
  <2>1. n \in Nat /\ HdrSize + n <= ImgLenMax
    BY <1>1
  <2> QED
    BY <1>1, <1>2, <2>1 DEF Sized
<1> HIDE DEF Changed
<1>7. ASSUME NEW k \in DOMAIN tlv, NEW u \in Tag
      PROVE  Sized(<<hdr, Changed(k, u)>>) /\ Sized(<<Sealed(hdr, Changed(k, u)), Changed(k, u)>>)
  <2>1. Changed(k, u) \in Seq(TlvUnit) /\ Len(Changed(k, u)) = len
    BY <1>1, ChangedUnit DEF Changed
  <2>2. Sealed(hdr, Changed(k, u)).size = len
    <3>1. Sealed(hdr, Changed(k, u)) = HeaderOf(Changed(k, u))
      BY <1>1, SealedIs, Zenon
    <3> QED
      BY <2>1, <3>1, HeadersHaveSizes, Zenon
  <2> QED
    BY <1>2, <1>3, <2>1, <2>2
<1>8. Sized(<<hdr, tlv>>) /\ Sized(<<hdr, tlv \o <<Unset>>>>) /\ Sized(<<Wrong, tlv>>)
  BY <1>1, <1>2, <1>3, <1>4
<1> DEFINE AsItIs == {<<hdr, tlv>>, <<hdr, tlv \o <<Unset>>>>, <<Wrong, tlv>>}
           CutOff == {<<hdr, SubSeq(tlv, 1, n)>> : n \in 0 .. Len(tlv) - 1}
           Resized == {<<Short(n), tlv>> : n \in 0 .. Len(tlv)}
           Faulty == {<<hdr, Changed(k, u)>> : k \in DOMAIN tlv, u \in Tag}
           Resealed == {<<Sealed(hdr, Changed(k, u)), Changed(k, u)>> : k \in DOMAIN tlv, u \in Tag}
<1>9. Images = AsItIs \cup CutOff \cup Resized \cup Faulty \cup Resealed
  BY DEF Images, Wrong, Short, Changed
<1>10. \A img \in AsItIs : Sized(img)
  BY <1>8, Zenon
<1>11. \A img \in CutOff : Sized(img)
  BY <1>5, Zenon
<1>12. \A img \in Resized : Sized(img)
  BY <1>6, Zenon
<1>13. ASSUME NEW img \in Faulty \cup Resealed PROVE Sized(img)
  <2>1. PICK k \in DOMAIN tlv, u \in Tag :
           img = <<hdr, Changed(k, u)>> \/ img = <<Sealed(hdr, Changed(k, u)), Changed(k, u)>>
    OBVIOUS
  <2> DEFINE a == <<hdr, Changed(k, u)>>
             b == <<Sealed(hdr, Changed(k, u)), Changed(k, u)>>
  <2>2. Sized(a) /\ Sized(b)
    BY <1>7
  <2> HIDE DEF a, b
  <2>3. img = a \/ img = b
    BY <2>1 DEF a, b
  <2> QED
    BY <2>2, <2>3
<1> HIDE DEF AsItIs, CutOff, Resized, Faulty, Resealed
<1> QED
  BY <1>9, <1>10, <1>11, <1>12, <1>13

LEMMA TablesAreImages ==
    ASSUME TlvInv
    PROVE  ImagesAreTables
<1> DEFINE IsTaken(h, t) == Parsed(h, t, ImgLenMax) = "done"
           IsGood(h, t) == h.magic = Magic /\ IsTable(t, h.size) /\ h.crc = Crc(Magic, h.size, t)
<1>1. ASSUME NEW img \in Images PROVE IsTaken(img[1], img[2]) <=> IsGood(img[1], img[2])
  BY ImagesAreSized, ParsedIs DEF Sized
<1>2. Parsed(hdr, tlv, ImgLenMax) = "done"
  BY OwnImageIsTaken
<1> QED
  BY <1>1, <1>2 DEF ImagesAreTables

-----------------------------------------------------------------------------
LEMMA TlvStarts ==
    ASSUME TlvInit
    PROVE  TlvInv /\ Tags!TagMapInit
<1> DEFINE t == << >>
<1>1. t \in Seq(TlvUnit) /\ Len(t) = 0 /\ Units(t, Len(t))
  BY DEF Units
<1>2. Visited(t, 0) = {0}
  <2>1. Advances(t, 0)
    BY <1>1, UnitsAdvance
  <2>2. 0 \in Visited(t, 0) /\ Visited(t, 0) \subseteq 0 .. 0
    BY <2>1, VisitedWalk DEF IsWalk, Closed
  <2> QED
    BY <2>2
<1>3. Starts(t, 0) = {}
  BY <1>2 DEF Starts, IsEntry, TlvSize
<1> HIDE DEF t
<1>4. Table(t)
  BY <1>1, <1>2, <1>3 DEF Table, Whole, Twice
<1>5. tlv = t /\ hdr = HeaderOf(t) /\ tlvAnswer = [code |-> "done", val |-> << >>]
  <2>1. Len(<< >>) = 0
    OBVIOUS
  <2> QED
    BY <2>1, Zenon DEF TlvInit, HeaderOf, t
<1>6. TlvInv
  <2>1. HdrSize + Len(t) <= ImgLenMax
    BY <1>1, TableAssumption DEF HdrSize
  <2> QED
    BY <1>4, <1>5, <2>1 DEF TlvInv
<1>7. Held = << >>
  <2>1. Held = HeldIn(t) /\ DOMAIN Held = TagsOf(t)
    BY <1>5, HeldInTlv, HeldDomain
  <2>2. TagsOf(t) = {}
    BY <1>1, <1>3 DEF TagsOf
  <2>3. Held = [x \in {} |-> Held[x]]
    BY <2>1, <2>2, HeldDomain DEF HeldIn, TagsOf
  <2> QED
    BY <2>3
<1>8. Answered = [code |-> "done", val |-> << >>]
  BY <1>5 DEF Answered
<1> QED
  BY <1>6, <1>7, <1>8 DEF Tags!TagMapInit

LEMMA TlvStepKeeps ==
    ASSUME TlvInv, TlvNext
    PROVE  TlvInv' /\ Tags!TagMapNext
<1>1. CASE Reload
  BY <1>1, ReloadKeeps
<1>2. ASSUME NEW tag \in Tag, Del(tag) PROVE TlvInv' /\ Tags!TagMapNext
  BY <1>2, DelKeeps
<1>3. ASSUME NEW tag \in Tag, Get(tag) PROVE TlvInv' /\ Tags!TagMapNext
  BY <1>3, GetKeeps
<1>4. ASSUME NEW tag \in Tag, Set(tag, IntMax + 1, << >>) PROVE TlvInv' /\ Tags!TagMapNext
  BY <1>4, SetKeeps
<1>5. ASSUME NEW tag \in Tag, NEW x \in TagValue, Set(tag, Len(x), x)
      PROVE  TlvInv' /\ Tags!TagMapNext
  BY <1>5, SetKeeps
<1>6. ASSUME NEW img \in Images, Parse(img[1], img[2]) PROVE TlvInv' /\ Tags!TagMapNext
  BY <1>6, ParseKeeps
<1> QED
  BY <1>1, <1>2, <1>3, <1>4, <1>5, <1>6 DEF TlvNext

\* Nothing has changed when the table has not.
LEMMA TlvStutterKeeps ==
    ASSUME TlvInv, UNCHANGED tlvVars
    PROVE  TlvInv' /\ UNCHANGED Tags!tagVars
<1>1. hdr' = hdr /\ tlv' = tlv /\ tlvAnswer' = tlvAnswer
  BY DEF tlvVars
<1>2. TlvInv'
  BY <1>1 DEF TlvInv, Table
<1>3. Held' = Held
  BY <1>1, HeldInTlv
<1>4. Answered' = Answered
  BY <1>1 DEF Answered
<1> QED
  BY <1>2, <1>3, <1>4 DEF Tags!tagVars

\* Whatever is set, deleted and read back, and wherever memory runs out, the image is
\* entries that fill it to the unit, no tag twice, under a header that says its size
\* and its CRC (ndm_tlv_table_set, ndm_tlv_table_del, ndm_tlv_table_parse_img).
THEOREM TablesInvariance == TlvSpec => []TlvInv
<1>1. TlvInit => TlvInv
  BY TlvStarts
<1>2. TlvInv /\ [TlvNext]_tlvVars => TlvInv'
  BY TlvStepKeeps, TlvStutterKeeps
<1> QED
  BY <1>1, <1>2, PTL DEF TlvSpec

\* The table's own image can always be read back, and of images that were cut, changed
\* or sealed again ndm_tlv_table_parse_img takes exactly those of tables.
THEOREM ImagesStayTables == TlvSpec => []ImagesAreTables
<1>1. TlvInv => ImagesAreTables
  BY TablesAreImages
<1> QED
  BY <1>1, TablesInvariance, PTL

\* ndm_tlv_table_set and ndm_tlv_table_del change the value of their tag and no other,
\* or say that they failed and leave the map as it was, even when what lies behind the
\* entry had been moved before memory ran out.
THEOREM TablesStayKept == TlvSpec => TablesAreKept
<1>1. TlvInit => Tags!TagMapInit
  BY TlvStarts
<1>2. TlvInv /\ [TlvNext]_tlvVars => [Tags!TagMapNext]_(Tags!tagVars)
  BY TlvStepKeeps, TlvStutterKeeps
<1> QED
  BY <1>1, <1>2, TablesInvariance, PTL DEF TlvSpec, TablesAreKept, Tags!TagMapSpec
=============================================================================
