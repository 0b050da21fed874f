----------------------------- MODULE XmlProofs -----------------------------
(***************************************************************************)
(* Proofs about XML documents.  First their links: that the lists they     *)
(* make are sequences and keep the promise of OrderedForest, for any       *)
(* number of nodes and attributes.  Then the parser: that it nests what it *)
(* reads, and where it may stumble, for any text, any flags and whichever  *)
(* allocations fail.  Its invariant says what has no parent yet: the       *)
(* document, the elements whose contents are read and the node that is     *)
(* read, each begun within the one before it.                              *)
(***************************************************************************)
EXTENDS XmlTree, XmlParser, FiniteSetTheorems, SequenceTheorems, WellFoundedInduction, TLAPS

Good(L, Owner, Item) == L \in Links(Owner, Item) /\ Null \notin Owner \cup Item

\* An item is the nearer to the end of its list the higher its rank.
Ranks(L, rank) ==
    \A p \in DOMAIN L.first : \A c \in Members(L, p) :
        c # L.last[p] /\ L.next[c] # Null => rank[c] < rank[L.next[c]]

Ordered(L) ==
    \E top \in Nat : \E rank \in [DOMAIN L.owner -> 0 .. top] : Ranks(L, rank)

-----------------------------------------------------------------------------
(* The links after each operation, one by one. *)

LEMMA GoodLinks ==
    ASSUME NEW Owner, NEW Item, NEW L, Good(L, Owner, Item)
    PROVE  /\ L = [first |-> L.first, last |-> L.last, owner |-> L.owner,
                   next |-> L.next, prev |-> L.prev]
           /\ L.first \in [Owner -> Item \cup {Null}] /\ L.last \in [Owner -> Item \cup {Null}]
           /\ L.owner \in [Item -> Owner \cup {Null}]
           /\ L.next \in [Item -> Item \cup {Null}] /\ L.prev \in [Item -> Item \cup {Null}]
           /\ DOMAIN L.first = Owner /\ DOMAIN L.owner = Item /\ DOMAIN L.next = Item
           /\ DOMAIN L.last = Owner /\ DOMAIN L.prev = Item
           /\ Null \notin Owner /\ Null \notin Item
  BY DEF Good, Links

Prepended(L, M, p, c) ==
    /\ M.first = [L.first EXCEPT ![p] = c]
    /\ M.last = [L.last EXCEPT ![p] = IF L.first[p] = Null THEN c ELSE @]
    /\ M.owner = [L.owner EXCEPT ![c] = p]
    /\ M.next = [L.next EXCEPT ![c] = L.first[p]]
    /\ M.prev = [Lead(L.prev, L.first[p], c) EXCEPT ![c] = Null]

LEMMA PrependLinks ==
    ASSUME NEW Owner, NEW Item, NEW L, Good(L, Owner, Item),
           NEW p \in Owner, NEW c \in Item, NEW M, M = Prepend(L, p, c)
    PROVE  Good(M, Owner, Item) /\ Prepended(L, M, p, c)
  BY GoodLinks DEF Good, Links, Prepend, Lead, Prepended

Appended(L, M, p, c, l) ==
    /\ M.first = [L.first EXCEPT ![p] = IF @ = Null THEN c ELSE @]
    /\ M.last = [L.last EXCEPT ![p] = c]
    /\ M.owner = [L.owner EXCEPT ![c] = p]
    /\ M.prev = [L.prev EXCEPT ![c] = l]
    /\ M.next = [Lead(L.next, l, c) EXCEPT ![c] = Null]

LEMMA AppendLinks ==
    ASSUME NEW Owner, NEW Item, NEW L, Good(L, Owner, Item),
           NEW p \in Owner, NEW c \in Item, NEW M, M = AppendTo(L, p, c),
           NEW l, l = IF L.first[p] = Null THEN Null ELSE L.last[p]
    PROVE  Good(M, Owner, Item) /\ Appended(L, M, p, c, l)
  BY GoodLinks DEF Good, Links, AppendTo, Lead, Appended

PutBetween(L, M, p, w, c) ==
    /\ M.first = L.first /\ M.last = L.last
    /\ M.owner = [L.owner EXCEPT ![c] = p]
    /\ M.next = [Lead(L.next, L.prev[w], c) EXCEPT ![c] = w]
    /\ M.prev = [L.prev EXCEPT ![c] = L.prev[w], ![w] = c]

LEMMA BetweenLinks ==
    ASSUME NEW Owner, NEW Item, NEW L, Good(L, Owner, Item),
           NEW p \in Owner, NEW c \in Item, NEW w \in Item,
           NEW M, M = Between(L, p, w, c)
    PROVE  Good(M, Owner, Item) /\ PutBetween(L, M, p, w, c)
  BY GoodLinks DEF Good, Links, Between, Lead, PutBetween

FirstTaken(L, M, p, c) ==
    /\ M.first = [L.first EXCEPT ![p] = L.next[c]]
    /\ M.last = [L.last EXCEPT ![p] = IF L.next[c] = Null THEN Null ELSE @]
    /\ M.owner = [L.owner EXCEPT ![c] = Null]
    /\ M.next = L.next
    /\ M.prev = Lead(L.prev, L.next[c], Null)

LEMMA WithoutFirstLinks ==
    ASSUME NEW Owner, NEW Item, NEW L, Good(L, Owner, Item),
           NEW p \in Owner, NEW c \in Item, c = L.first[p],
           NEW M, M = WithoutFirst(L, p)
    PROVE  Good(M, Owner, Item) /\ FirstTaken(L, M, p, c)
  BY GoodLinks DEF Good, Links, WithoutFirst, Lead, FirstTaken

LastTaken(L, M, p, c) ==
    /\ M.first = [L.first EXCEPT ![p] = IF L.prev[c] = Null THEN Null ELSE @]
    /\ M.last = [L.last EXCEPT ![p] = IF L.prev[c] = Null THEN @ ELSE L.prev[c]]
    /\ M.owner = [L.owner EXCEPT ![c] = Null]
    /\ M.next = Lead(L.next, L.prev[c], Null)
    /\ M.prev = L.prev

LEMMA WithoutLastLinks ==
    ASSUME NEW Owner, NEW Item, NEW L, Good(L, Owner, Item),
           NEW p \in Owner, NEW c \in Item, c = L.last[p],
           NEW M, M = WithoutLast(L, p)
    PROVE  Good(M, Owner, Item) /\ LastTaken(L, M, p, c)
  BY GoodLinks DEF Good, Links, WithoutLast, Lead, LastTaken

InnerTaken(L, M, c) ==
    /\ M.first = L.first /\ M.last = L.last
    /\ M.owner = [L.owner EXCEPT ![c] = Null]
    /\ M.next = Lead(L.next, L.prev[c], L.next[c])
    /\ M.prev = Lead(L.prev, L.next[c], L.prev[c])

LEMMA InnerLinks ==
    ASSUME NEW Owner, NEW Item, NEW L, Good(L, Owner, Item),
           NEW c \in Item, NEW M, M = Inner(L, c)
    PROVE  Good(M, Owner, Item) /\ InnerTaken(L, M, c)
  BY GoodLinks DEF Good, Links, Inner, Lead, InnerTaken

AllTaken(L, M, p, start, all, gone) ==
    /\ M.first = [L.first EXCEPT ![p] = IF all THEN Null ELSE @]
    /\ M.last = [L.last EXCEPT ![p] = IF all THEN Null ELSE L.prev[start]]
    /\ M.owner = [x \in DOMAIN L.owner |-> IF x \in gone THEN Null ELSE L.owner[x]]
    /\ M.next = L.next /\ M.prev = L.prev

LEMMA WithoutAllLinks ==
    ASSUME NEW Owner, NEW Item, NEW L, Good(L, Owner, Item),
           NEW p \in Owner, NEW start \in Item \cup {Null},
           NEW M, M = WithoutAll(L, p, start),
           NEW all, all = (start \in {Null, L.first[p]}),
           NEW gone, gone = From(L, IF start = Null THEN L.first[p] ELSE start)
    PROVE  Good(M, Owner, Item) /\ AllTaken(L, M, p, start, all, gone)
<1> DEFINE first == [L.first EXCEPT ![p] = IF all THEN Null ELSE @]
           last == [L.last EXCEPT ![p] = IF all THEN Null ELSE L.prev[start]]
           owner == [x \in DOMAIN L.owner |-> IF x \in gone THEN Null ELSE L.owner[x]]
<1>1. M = [L EXCEPT !.owner = owner, !.first = first, !.last = last]
  BY GoodLinks DEF WithoutAll
<1>2. /\ L.first \in [Owner -> Item \cup {Null}] /\ L.last \in [Owner -> Item \cup {Null}]
      /\ L.owner \in [Item -> Owner \cup {Null}]
      /\ L.prev \in [Item -> Item \cup {Null}]
  BY GoodLinks
<1>3. first \in [Owner -> Item \cup {Null}]
  BY <1>2
<1>4. last \in [Owner -> Item \cup {Null}]
  <2>1. CASE all
    BY <1>2, <2>1
  <2>2. CASE ~all
    <3>1. L.prev[start] \in Item \cup {Null}
      BY <1>2, <2>2
    <3> QED
      BY <1>2, <2>2, <3>1
  <2> HIDE DEF last
  <2> QED
    BY <2>1, <2>2
<1>5. owner \in [Item -> Owner \cup {Null}]
  BY <1>2
<1> HIDE DEF first, last, owner
<1>6. M = [first |-> first, last |-> last, owner |-> owner, next |-> L.next, prev |-> L.prev]
  <2> DEFINE a == L.first
             b == L.last
             c == L.owner
             d == L.next
             e == L.prev
  <2>1. L = [first |-> a, last |-> b, owner |-> c, next |-> d, prev |-> e]
    BY GoodLinks
  <2> HIDE DEF a, b, c, d, e
  <2>2. M = [first |-> first, last |-> last, owner |-> owner, next |-> d, prev |-> e]
    BY <1>1, <2>1
  <2> QED
    BY <2>2 DEF d, e
<1>7. Good(M, Owner, Item)
  <2>1. L.next \in [Item -> Item \cup {Null}] /\ L.prev \in [Item -> Item \cup {Null}]
    BY GoodLinks
  <2>2. M \in Links(Owner, Item)
    BY <1>3, <1>4, <1>5, <1>6, <2>1 DEF Links
  <2> QED
    BY <2>2 DEF Good
<1>8. AllTaken(L, M, p, start, all, gone)
  BY <1>6 DEF AllTaken, first, last, owner
<1> QED
  BY <1>7, <1>8

-----------------------------------------------------------------------------
(* Agreement. *)

\* The lists of p agree with the links.
AgreeAt(L, p) ==
    /\ L.first[p] = Null <=> Members(L, p) = {}
    /\ L.first[p] # Null =>
          L.first[p] \in Members(L, p) /\ L.last[p] \in Members(L, p)
    /\ \A c \in Members(L, p) :
          /\ IF c = L.first[p] THEN L.prev[c] = Null
             ELSE L.prev[c] \in Members(L, p) /\ L.next[L.prev[c]] = c
          /\ c # L.last[p] =>
                L.next[c] \in Members(L, p) /\ L.prev[L.next[c]] = c

LEMMA AgreeIsAt ==
    ASSUME NEW L
    PROVE  Agree(L) <=> \A p \in DOMAIN L.first : AgreeAt(L, p)
  BY Zenon DEF Agree, AgreeAt

LEMMA MembersAre ==
    ASSUME NEW Owner, NEW Item, NEW L, Good(L, Owner, Item), NEW p, NEW x
    PROVE  x \in Members(L, p) <=> x \in Item /\ L.owner[x] = p
  BY GoodLinks DEF Members

LEMMA PrependAgrees ==
    ASSUME NEW Owner, NEW Item, NEW L, Good(L, Owner, Item), Agree(L),
           NEW p \in Owner, NEW c \in Item, L.owner[c] = Null,
           NEW M, M = Prepend(L, p, c)
    PROVE  Agree(M) /\ (Ended(L) => Ended(M))
<1>1. Good(M, Owner, Item) /\ Prepended(L, M, p, c)
  BY PrependLinks, Zenon
<1>2. ASSUME NEW q \in Owner
      PROVE  AgreeAt(M, q)
  <2>1. AgreeAt(L, q) /\ AgreeAt(L, p)
    BY AgreeIsAt, GoodLinks
  <2>2. CASE q = p
    BY <1>1, <2>1, <2>2, MembersAre, GoodLinks DEF AgreeAt, Lead, Prepended
  <2>3. CASE q # p
    BY <1>1, <2>1, <2>3, MembersAre, GoodLinks DEF AgreeAt, Lead, Prepended
  <2> QED
    BY <2>2, <2>3
<1>3. Agree(M)
  BY <1>1, <1>2, AgreeIsAt, GoodLinks
<1>4. ASSUME Ended(L), NEW q \in Owner, M.first[q] # Null
      PROVE  M.next[M.last[q]] = Null
  <2>1. AgreeAt(L, q) /\ AgreeAt(L, p)
    BY AgreeIsAt, GoodLinks
  <2> QED
    BY <1>1, <1>4, <2>1, MembersAre, GoodLinks DEF AgreeAt, Ended, Prepended
<1> QED
  BY <1>1, <1>3, <1>4, GoodLinks DEF Ended

LEMMA PrependOrders ==
    ASSUME NEW Owner, NEW Item, NEW L, Good(L, Owner, Item), Agree(L), Ordered(L),
           NEW p \in Owner, NEW c \in Item, L.owner[c] = Null,
           NEW M, M = Prepend(L, p, c)
    PROVE  Ordered(M)
<1>1. Good(M, Owner, Item) /\ Prepended(L, M, p, c)
  BY PrependLinks, Zenon
<1>2. PICK top \in Nat : \E rank \in [Item -> 0 .. top] : Ranks(L, rank)
  BY GoodLinks DEF Ordered
<1>3. PICK rank \in [Item -> 0 .. top] : Ranks(L, rank)
  BY <1>2
<1> DEFINE new == [x \in Item |-> IF x = c THEN 0 ELSE rank[x] + 1]
<1>4. new \in [Item -> 0 .. top + 1] /\ top + 1 \in Nat
  OBVIOUS
<1>5. ASSUME NEW q \in Owner, NEW m \in Members(M, q), m # M.last[q], M.next[m] # Null
      PROVE  new[m] < new[M.next[m]]
  <2>1. AgreeAt(L, q) /\ AgreeAt(L, p)
    BY AgreeIsAt, GoodLinks
  <2>2. CASE m = c
    BY <1>1, <1>5, <2>1, <2>2, MembersAre, GoodLinks DEF AgreeAt, Prepended
  <2>3. CASE m # c
    <3>1. m \in Members(L, q) /\ M.next[m] = L.next[m] /\ m # L.last[q]
      BY <1>1, <1>5, <2>1, <2>3, MembersAre, GoodLinks DEF AgreeAt, Prepended
    <3>2. L.next[m] \in Members(L, q)
      BY <2>1, <3>1 DEF AgreeAt
    <3>3. L.next[m] # c /\ L.next[m] \in Item /\ L.next[m] # Null /\ m \in Item
      BY <3>1, <3>2, MembersAre, GoodLinks
    <3>4. rank[m] < rank[L.next[m]]
      BY <1>3, <3>1, <3>3, GoodLinks DEF Ranks
    <3> QED
      BY <2>3, <3>1, <3>3, <3>4
  <2> QED
    BY <2>2, <2>3
<1> HIDE DEF new
<1>6. Ranks(M, new)
  BY <1>1, <1>5, GoodLinks DEF Ranks
<1> QED
  BY <1>1, <1>4, <1>6, GoodLinks DEF Ordered

-----------------------------------------------------------------------------
(* Both ends of a list are reached from every item of it. *)

LEMMA HighestThere ==
    ASSUME NEW S, S # {}, NEW top \in Nat, NEW rank \in [S -> 0 .. top]
    PROVE  \E x \in S : \A y \in S : ~(rank[x] < rank[y])
<1> DEFINE below == {top - rank[x] : x \in S}
<1>1. below \subseteq Nat /\ below # {}
  OBVIOUS
<1>2. PICK n \in below : \A k \in below : <<k, n>> \notin OpToRel(<, Nat)
  BY <1>1, NatLessThanWellFounded, WFMin
<1>3. \A k \in below : ~(k < n)
  BY <1>1, <1>2 DEF OpToRel
<1>4. PICK x \in S : n = top - rank[x]
  BY <1>2
<1>5. ASSUME NEW y \in S
      PROVE  ~(rank[x] < rank[y])
  <2>1. top - rank[y] \in below
    OBVIOUS
  <2>2. ~(top - rank[y] < top - rank[x])
    BY <2>1, <1>3, <1>4
  <2>3. rank[x] \in 0 .. top /\ rank[y] \in 0 .. top
    OBVIOUS
  <2> QED
    BY <2>2, <2>3
<1> QED
  BY <1>5

LEMMA LowestThere ==
    ASSUME NEW S, S # {}, NEW top \in Nat, NEW rank \in [S -> 0 .. top]
    PROVE  \E x \in S : \A y \in S : ~(rank[y] < rank[x])
<1> DEFINE all == {rank[x] : x \in S}
<1>1. all \subseteq Nat /\ all # {}
  OBVIOUS
<1>2. PICK n \in all : \A k \in all : <<k, n>> \notin OpToRel(<, Nat)
  BY <1>1, NatLessThanWellFounded, WFMin
<1>3. \A k \in all : ~(k < n)
  BY <1>1, <1>2 DEF OpToRel
<1>4. PICK x \in S : n = rank[x]
  BY <1>2
<1> QED
  BY <1>3, <1>4

\* A set of members that next does not leave has the last item.
LEMMA EndReached ==
    ASSUME NEW Owner, NEW Item, NEW L, Good(L, Owner, Item), Agree(L), Ordered(L),
           NEW p \in Owner, NEW S \in SUBSET Members(L, p), S # {},
           \A y \in S : y # L.last[p] => L.next[y] \in S
    PROVE  L.last[p] \in S
<1> SUFFICES ASSUME L.last[p] \notin S PROVE FALSE
  OBVIOUS
<1>1. PICK top \in Nat : \E rank \in [Item -> 0 .. top] : Ranks(L, rank)
  BY GoodLinks DEF Ordered
<1>2. PICK rank \in [Item -> 0 .. top] : Ranks(L, rank)
  BY <1>1
<1>3. S \subseteq Item
  BY MembersAre
<1> DEFINE r == [x \in S |-> rank[x]]
<1>4. r \in [S -> 0 .. top]
  BY <1>3
<1> HIDE DEF r
<1>5. PICK x \in S : \A y \in S : ~(r[x] < r[y])
  BY <1>4, HighestThere
<1>6. x \in Members(L, p) /\ x # L.last[p] /\ L.next[x] \in S
  OBVIOUS
<1>7. rank[x] < rank[L.next[x]]
  BY <1>2, <1>3, <1>6, GoodLinks DEF Ranks
<1> QED
  BY <1>5, <1>6, <1>7 DEF r

\* A set of members that prev does not leave has the first item.
LEMMA StartReached ==
    ASSUME NEW Owner, NEW Item, NEW L, Good(L, Owner, Item), Agree(L), Ordered(L), Ended(L),
           NEW p \in Owner, NEW S \in SUBSET Members(L, p), S # {},
           \A y \in S : y # L.first[p] => L.prev[y] \in S
    PROVE  L.first[p] \in S
<1> SUFFICES ASSUME L.first[p] \notin S PROVE FALSE
  OBVIOUS
<1>1. PICK top \in Nat : \E rank \in [Item -> 0 .. top] : Ranks(L, rank)
  BY GoodLinks DEF Ordered
<1>2. PICK rank \in [Item -> 0 .. top] : Ranks(L, rank)
  BY <1>1
<1>3. S \subseteq Item
  BY MembersAre
<1> DEFINE r == [x \in S |-> rank[x]]
<1>4. r \in [S -> 0 .. top]
  BY <1>3
<1> HIDE DEF r
<1>5. PICK x \in S : \A y \in S : ~(r[y] < r[x])
  BY <1>4, LowestThere
<1>6. x \in Members(L, p) /\ x # L.first[p] /\ L.prev[x] \in S /\ x \in Item
  BY <1>3
<1>7. AgreeAt(L, p)
  BY AgreeIsAt, GoodLinks
<1>8. L.next[L.prev[x]] = x /\ L.prev[x] \in Members(L, p) /\ x # Null /\ L.first[p] # Null
  BY <1>6, <1>7, GoodLinks DEF AgreeAt
<1>9. L.prev[x] # L.last[p]
  BY <1>8, GoodLinks DEF Ended
<1>10. rank[L.prev[x]] < rank[x]
  BY <1>2, <1>8, <1>9, GoodLinks DEF Ranks
<1> QED
  BY <1>5, <1>6, <1>10 DEF r

LEMMA AppendAgrees ==
    ASSUME NEW Owner, NEW Item, NEW L, Good(L, Owner, Item), Agree(L), Ended(L),
           NEW p \in Owner, NEW c \in Item, L.owner[c] = Null,
           NEW M, M = AppendTo(L, p, c)
    PROVE  Agree(M) /\ Ended(M)
<1> DEFINE l == IF L.first[p] = Null THEN Null ELSE L.last[p]
<1>1. Good(M, Owner, Item) /\ Appended(L, M, p, c, l)
  BY AppendLinks, Zenon
<1>2. ASSUME NEW q \in Owner
      PROVE  AgreeAt(M, q)
  <2>1. AgreeAt(L, q) /\ AgreeAt(L, p)
    BY AgreeIsAt, GoodLinks
  <2>2. CASE q = p /\ L.first[p] = Null
    <3>1. Members(M, q) = {c}
      BY <1>1, <2>1, <2>2, MembersAre, GoodLinks DEF AgreeAt, Appended
    <3>2. M.first[q] = c /\ M.last[q] = c /\ M.prev[c] = Null
      BY <1>1, <2>2, GoodLinks DEF Appended
    <3> QED
      BY <3>1, <3>2, GoodLinks DEF AgreeAt
  <2>3. CASE q = p /\ L.first[p] # Null
    <3>1. /\ L.last[p] \in Members(L, p) /\ L.last[p] \in Item /\ L.last[p] # Null
          /\ L.last[p] # c /\ l = L.last[p] /\ L.first[p] # c
      BY <2>1, <2>3, MembersAre, GoodLinks DEF AgreeAt
    <3>2. Members(M, q) = Members(L, q) \cup {c}
      BY <1>1, <2>3, MembersAre, GoodLinks DEF Appended
    <3>3. /\ M.first[q] = L.first[p] /\ M.last[q] = c /\ M.prev[c] = L.last[p]
          /\ M.next[L.last[p]] = c
      BY <1>1, <2>3, <3>1, GoodLinks DEF Appended, Lead
    <3>4. \A m \in Members(L, q) :
            /\ m \in Item /\ m # c /\ m # Null /\ M.prev[m] = L.prev[m]
            /\ m # L.last[p] => M.next[m] = L.next[m]
      BY <1>1, <2>3, <3>1, MembersAre, GoodLinks DEF Appended, Lead
    <3>5. \A m \in Members(L, q) :
            /\ IF m = L.first[p] THEN L.prev[m] = Null
               ELSE L.prev[m] \in Members(L, q) /\ L.next[L.prev[m]] = m
            /\ m # L.last[p] => L.next[m] \in Members(L, q) /\ L.prev[L.next[m]] = m
      BY <2>1, <2>3 DEF AgreeAt
    <3>6. \A m \in Members(L, q) :
            IF m = L.first[p] THEN M.prev[m] = Null
            ELSE M.prev[m] \in Members(M, q) /\ M.next[M.prev[m]] = m
      <4>1. L.next[L.last[p]] = Null
        BY <2>3, GoodLinks DEF Ended
      <4> QED
        BY <2>3, <3>1, <3>2, <3>4, <3>5, <4>1
    <3>7. \A m \in Members(L, q) :
            M.next[m] \in Members(M, q) /\ M.prev[M.next[m]] = m
      BY <3>1, <3>2, <3>3, <3>4, <3>5
    <3> QED
      BY <2>1, <2>3, <3>1, <3>2, <3>3, <3>6, <3>7, GoodLinks DEF AgreeAt
  <2>4. CASE q # p
    BY <1>1, <2>1, <2>4, MembersAre, GoodLinks DEF AgreeAt, Lead, Appended
  <2> QED
    BY <2>2, <2>3, <2>4
<1>3. Agree(M)
  BY <1>1, <1>2, AgreeIsAt, GoodLinks
<1>4. ASSUME NEW q \in Owner, M.first[q] # Null
      PROVE  M.next[M.last[q]] = Null
  <2>1. AgreeAt(L, q) /\ AgreeAt(L, p)
    BY AgreeIsAt, GoodLinks
  <2> QED
    BY <1>1, <1>4, <2>1, MembersAre, GoodLinks DEF AgreeAt, Ended, Lead, Appended
<1> QED
  BY <1>1, <1>3, <1>4, GoodLinks DEF Ended

LEMMA AppendOrders ==
    ASSUME NEW Owner, NEW Item, NEW L, Good(L, Owner, Item), Agree(L), Ordered(L),
           NEW p \in Owner, NEW c \in Item, L.owner[c] = Null,
           NEW M, M = AppendTo(L, p, c)
    PROVE  Ordered(M)
<1> DEFINE l == IF L.first[p] = Null THEN Null ELSE L.last[p]
<1>1. Good(M, Owner, Item) /\ Appended(L, M, p, c, l)
  BY AppendLinks, Zenon
<1>2. PICK top \in Nat : \E rank \in [Item -> 0 .. top] : Ranks(L, rank)
  BY GoodLinks DEF Ordered
<1>3. PICK rank \in [Item -> 0 .. top] : Ranks(L, rank)
  BY <1>2
<1> DEFINE new == [x \in Item |-> IF x = c THEN top + 1 ELSE rank[x]]
<1>4. new \in [Item -> 0 .. top + 1] /\ top + 1 \in Nat
  OBVIOUS
<1>5. ASSUME NEW q \in Owner, NEW m \in Members(M, q), m # M.last[q], M.next[m] # Null
      PROVE  new[m] < new[M.next[m]]
  <2>1. AgreeAt(L, q) /\ AgreeAt(L, p)
    BY AgreeIsAt, GoodLinks
  <2>2. m # c /\ m \in Members(L, q)
    BY <1>1, <1>5, <2>1, MembersAre, GoodLinks DEF AgreeAt, Appended
  <2>3. CASE M.next[m] = c
    BY <2>2, <2>3, MembersAre
  <2>4. CASE M.next[m] # c
    <3>1. M.next[m] = L.next[m] /\ m # L.last[q] /\ m \in Item
      BY <1>1, <1>5, <2>1, <2>2, <2>4, MembersAre, GoodLinks DEF AgreeAt, Lead, Appended
    <3>2. rank[m] < rank[L.next[m]] /\ L.next[m] \in Item
      BY <1>3, <1>5, <2>2, <3>1, GoodLinks DEF Ranks
    <3> QED
      BY <2>2, <2>4, <3>1, <3>2
  <2> QED
    BY <2>3, <2>4
<1> HIDE DEF new
<1>6. Ranks(M, new)
  BY <1>1, <1>5, GoodLinks DEF Ranks
<1> QED
  BY <1>1, <1>4, <1>6, GoodLinks DEF Ordered

LEMMA BetweenAgrees ==
    ASSUME NEW Owner, NEW Item, NEW L, Good(L, Owner, Item), Agree(L),
           NEW p \in Owner, NEW c \in Item, L.owner[c] = Null,
           NEW w \in Item, w \in Members(L, p), w # L.first[p],
           NEW M, M = Between(L, p, w, c)
    PROVE  Agree(M) /\ (Ended(L) => Ended(M))
<1>1. Good(M, Owner, Item) /\ PutBetween(L, M, p, w, c)
  BY BetweenLinks, Zenon
<1>2. ASSUME NEW q \in Owner
      PROVE  AgreeAt(M, q)
  <2>1. AgreeAt(L, q) /\ AgreeAt(L, p)
    BY AgreeIsAt, GoodLinks
  <2>2. CASE q = p
    BY <1>1, <2>1, <2>2, MembersAre, GoodLinks DEF AgreeAt, Lead, PutBetween
  <2>3. CASE q # p
    BY <1>1, <2>1, <2>3, MembersAre, GoodLinks DEF AgreeAt, Lead, PutBetween
  <2> QED
    BY <2>2, <2>3
<1>3. Agree(M)
  BY <1>1, <1>2, AgreeIsAt, GoodLinks
<1>4. ASSUME Ended(L), NEW q \in Owner, M.first[q] # Null
      PROVE  M.next[M.last[q]] = Null
  <2>1. AgreeAt(L, q) /\ AgreeAt(L, p)
    BY AgreeIsAt, GoodLinks
  <2> QED
    BY <1>1, <1>4, <2>1, MembersAre, GoodLinks DEF AgreeAt, Ended, Lead, PutBetween
<1> QED
  BY <1>1, <1>3, <1>4, GoodLinks DEF Ended

LEMMA BetweenOrders ==
    ASSUME NEW Owner, NEW Item, NEW L, Good(L, Owner, Item), Agree(L), Ordered(L),
           NEW p \in Owner, NEW c \in Item, L.owner[c] = Null,
           NEW w \in Item, w \in Members(L, p), w # L.first[p],
           NEW M, M = Between(L, p, w, c)
    PROVE  Ordered(M)
<1>1. Good(M, Owner, Item) /\ PutBetween(L, M, p, w, c)
  BY BetweenLinks, Zenon
<1>2. PICK top \in Nat : \E rank \in [Item -> 0 .. top] : Ranks(L, rank)
  BY GoodLinks DEF Ordered
<1>3. PICK rank \in [Item -> 0 .. top] : Ranks(L, rank)
  BY <1>2
<1> DEFINE new == [x \in Item |-> IF x = c THEN 2 * rank[w] ELSE 2 * rank[x] + 1]
<1>4. new \in [Item -> 0 .. 2 * top + 1] /\ 2 * top + 1 \in Nat
  OBVIOUS
<1>5. ASSUME NEW q \in Owner, NEW m \in Members(M, q), m # M.last[q], M.next[m] # Null
      PROVE  new[m] < new[M.next[m]]
  <2>1. AgreeAt(L, q) /\ AgreeAt(L, p)
    BY AgreeIsAt, GoodLinks
  <2>2. CASE m = c
    <3>1. M.next[m] = w /\ w # c
      BY <1>1, <2>1, <2>2, MembersAre, GoodLinks DEF PutBetween
    <3> QED
      BY <2>2, <3>1
  <2>3. CASE m # c
    <3>1. /\ m \in Members(L, q) /\ m # L.last[q] /\ m \in Item
          /\ L.next[m] \in Members(L, q) /\ L.next[m] # Null
          /\ L.next[m] # c /\ L.next[m] \in Item
      BY <1>1, <1>5, <2>1, <2>3, MembersAre, GoodLinks DEF AgreeAt, PutBetween
    <3>2. rank[m] < rank[L.next[m]]
      BY <1>3, <3>1, GoodLinks DEF Ranks
    <3>3. CASE m = L.prev[w]
      <4>1. M.next[m] = c /\ L.next[m] = w
        BY <1>1, <2>1, <2>3, <3>3, MembersAre, GoodLinks DEF AgreeAt, Lead, PutBetween
      <4> QED
        BY <2>3, <3>1, <3>2, <4>1
    <3>4. CASE m # L.prev[w]
      <4>1. M.next[m] = L.next[m]
        BY <1>1, <2>3, <3>1, <3>4, MembersAre, GoodLinks DEF Lead, PutBetween
      <4> QED
        BY <2>3, <3>1, <3>2, <4>1
    <3> QED
      BY <3>3, <3>4
  <2> QED
    BY <2>2, <2>3
<1> HIDE DEF new
<1>6. Ranks(M, new)
  BY <1>1, <1>5, GoodLinks DEF Ranks
<1> QED
  BY <1>1, <1>4, <1>6, GoodLinks DEF Ordered

\* Ranks stay where members only go, and each leads where it led.
LEMMA FewerOrders ==
    ASSUME NEW Owner, NEW Item, NEW L, Good(L, Owner, Item), Ordered(L),
           NEW M, Good(M, Owner, Item),
           \A q \in Owner : \A m \in Members(M, q) : m # M.last[q] =>
              m \in Members(L, q) /\ m # L.last[q] /\ M.next[m] = L.next[m]
    PROVE  Ordered(M)
<1>1. PICK top \in Nat : \E rank \in [Item -> 0 .. top] : Ranks(L, rank)
  BY GoodLinks DEF Ordered
<1>2. PICK rank \in [Item -> 0 .. top] : Ranks(L, rank)
  BY <1>1
<1>3. Ranks(M, rank)
  BY <1>2, GoodLinks DEF Ranks
<1> QED
  BY <1>2, <1>3, GoodLinks DEF Ordered

\* A first item that is also the last is the only one.
LEMMA OnlyMember ==
    ASSUME NEW Owner, NEW Item, NEW L, Good(L, Owner, Item), Agree(L), Ordered(L),
           NEW p \in Owner, L.first[p] # Null, L.last[p] = L.first[p]
    PROVE  Members(L, p) = {L.first[p]}
<1> DEFINE S == Members(L, p) \ {L.first[p]}
<1>1. AgreeAt(L, p)
  BY AgreeIsAt, GoodLinks
<1>2. \A y \in S : L.next[y] \in S
  BY <1>1, MembersAre, GoodLinks DEF AgreeAt
<1>3. S = {}
  <2>1. SUFFICES ASSUME S # {} PROVE FALSE
    OBVIOUS
  <2>2. S \in SUBSET Members(L, p)
    OBVIOUS
  <2> HIDE DEF S
  <2>3. L.last[p] \in S
    BY <1>2, <2>1, <2>2, EndReached
  <2> QED
    BY <2>3 DEF S
<1> QED
  BY <1>1, <1>3 DEF AgreeAt

LEMMA WithoutFirstAgrees ==
    ASSUME NEW Owner, NEW Item, NEW L, Good(L, Owner, Item),
           Agree(L), Ordered(L), Ended(L),
           NEW p \in Owner, L.first[p] # Null,
           NEW M, M = WithoutFirst(L, p)
    PROVE  Agree(M) /\ Ended(M)
<1> DEFINE c == L.first[p]
<1>0. c \in Item
  BY GoodLinks
<1>1. Good(M, Owner, Item) /\ FirstTaken(L, M, p, c)
  BY <1>0, WithoutFirstLinks, Zenon
<1>2. ASSUME NEW q \in Owner
      PROVE  AgreeAt(M, q)
  <2>1. AgreeAt(L, q) /\ AgreeAt(L, p)
    BY AgreeIsAt, GoodLinks
  <2>2. CASE q = p /\ L.last[p] = c
    <3>1. Members(L, p) = {c} /\ L.next[c] = Null
      BY <2>2, OnlyMember, GoodLinks DEF Ended
    <3>2. Members(M, q) = {} /\ M.first[q] = Null
      BY <1>1, <2>2, <3>1, MembersAre, GoodLinks DEF FirstTaken
    <3> QED
      BY <3>2 DEF AgreeAt
  <2>3. CASE q = p /\ L.last[p] # c
    BY <1>1, <2>1, <2>3, MembersAre, GoodLinks DEF AgreeAt, Lead, FirstTaken
  <2>4. CASE q # p
    <3>1. L.next[c] = Null \/ L.next[c] \in Members(L, p)
      BY <2>1, GoodLinks DEF AgreeAt, Ended
    <3> QED
      BY <1>1, <2>1, <2>4, <3>1, MembersAre, GoodLinks DEF AgreeAt, Lead, FirstTaken
  <2> QED
    BY <2>2, <2>3, <2>4
<1>3. Agree(M)
  BY <1>1, <1>2, AgreeIsAt, GoodLinks
<1>4. ASSUME NEW q \in Owner, M.first[q] # Null
      PROVE  M.next[M.last[q]] = Null
  BY <1>1, <1>4, GoodLinks DEF Ended, FirstTaken
<1> QED
  BY <1>1, <1>3, <1>4, GoodLinks DEF Ended

LEMMA WithoutFirstOrders ==
    ASSUME NEW Owner, NEW Item, NEW L, Good(L, Owner, Item), Agree(L), Ordered(L),
           NEW p \in Owner, L.first[p] # Null,
           NEW M, M = WithoutFirst(L, p), Agree(M)
    PROVE  Ordered(M)
<1> DEFINE c == L.first[p]
<1>0. c \in Item
  BY GoodLinks
<1>1. Good(M, Owner, Item) /\ FirstTaken(L, M, p, c)
  BY <1>0, WithoutFirstLinks, Zenon
<1>2. ASSUME NEW q \in Owner, NEW m \in Members(M, q), m # M.last[q]
      PROVE  m \in Members(L, q) /\ m # L.last[q] /\ M.next[m] = L.next[m]
  <2>1. AgreeAt(M, q)
    BY <1>1, AgreeIsAt, GoodLinks
  <2> QED
    BY <1>1, <1>2, <2>1, MembersAre, GoodLinks DEF AgreeAt, FirstTaken
<1> QED
  BY <1>1, <1>2, FewerOrders

LEMMA WithoutLastAgrees ==
    ASSUME NEW Owner, NEW Item, NEW L, Good(L, Owner, Item),
           Agree(L), Ordered(L), Ended(L),
           NEW p \in Owner, L.first[p] # Null,
           NEW M, M = WithoutLast(L, p)
    PROVE  Agree(M) /\ Ended(M)
<1> DEFINE c == L.last[p]
<1>0. c \in Item /\ c \in Members(L, p)
  BY AgreeIsAt, MembersAre, GoodLinks DEF AgreeAt
<1>1. Good(M, Owner, Item) /\ LastTaken(L, M, p, c)
  BY <1>0, WithoutLastLinks, Zenon
<1>2. ASSUME NEW q \in Owner
      PROVE  AgreeAt(M, q)
  <2>1. AgreeAt(L, q) /\ AgreeAt(L, p)
    BY AgreeIsAt, GoodLinks
  <2>2. CASE q = p /\ L.first[p] = c
    <3>1. Members(L, p) = {c} /\ L.prev[c] = Null
      BY <2>1, <2>2, OnlyMember, GoodLinks DEF AgreeAt
    <3>2. Members(M, q) = {}
      BY <1>0, <1>1, <2>2, <3>1, MembersAre, GoodLinks DEF LastTaken
    <3>3. M.first[q] = Null
      BY <1>1, <2>2, <3>1, GoodLinks DEF LastTaken
    <3> QED
      BY <3>2, <3>3 DEF AgreeAt
  <2>3. CASE q = p /\ L.first[p] # c
    <3>1. /\ L.prev[c] \in Members(L, p) /\ L.next[L.prev[c]] = c
          /\ L.prev[c] \in Item /\ L.prev[c] # Null /\ L.next[c] = Null
          /\ L.first[p] \in Members(L, p)
      BY <1>0, <2>1, <2>3, MembersAre, GoodLinks DEF AgreeAt, Ended
    <3>2. Members(M, q) = Members(L, q) \ {c}
      BY <1>0, <1>1, <2>3, MembersAre, GoodLinks DEF LastTaken
    <3>3. /\ M.first[q] = L.first[p] /\ M.last[q] = L.prev[c] /\ M.prev = L.prev
          /\ L.prev[c] # c
      BY <1>0, <1>1, <2>3, <3>1, GoodLinks DEF LastTaken, Lead
    <3>4. \A m \in Members(L, q) :
            m \in Item /\ m # Null /\ (m # L.prev[c] => M.next[m] = L.next[m])
      BY <1>1, <2>3, <3>1, MembersAre, GoodLinks DEF LastTaken, Lead
    <3>5. \A m \in Members(L, q) :
            /\ IF m = L.first[p] THEN L.prev[m] = Null
               ELSE L.prev[m] \in Members(L, q) /\ L.next[L.prev[m]] = m
            /\ m # c => L.next[m] \in Members(L, q) /\ L.prev[L.next[m]] = m
      BY <2>1, <2>3 DEF AgreeAt
    <3>6. \A m \in Members(M, q) :
            IF m = L.first[p] THEN M.prev[m] = Null
            ELSE M.prev[m] \in Members(M, q) /\ M.next[M.prev[m]] = m
      BY <2>3, <3>1, <3>2, <3>3, <3>4, <3>5
    <3>7. \A m \in Members(M, q) : m # L.prev[c] =>
            M.next[m] \in Members(M, q) /\ M.prev[M.next[m]] = m
      BY <2>3, <3>1, <3>2, <3>3, <3>4, <3>5
    <3> QED
      BY <2>3, <3>1, <3>2, <3>3, <3>6, <3>7 DEF AgreeAt
  <2>4. CASE q # p
    BY <1>0, <1>1, <2>1, <2>4, MembersAre, GoodLinks DEF AgreeAt, Lead, LastTaken
  <2> QED
    BY <2>2, <2>3, <2>4
<1>3. Agree(M)
  BY <1>1, <1>2, AgreeIsAt, GoodLinks
<1>4. ASSUME NEW q \in Owner, M.first[q] # Null
      PROVE  M.next[M.last[q]] = Null
  <2>1. AgreeAt(L, q) /\ AgreeAt(L, p)
    BY AgreeIsAt, GoodLinks
  <2> QED
    BY <1>0, <1>1, <1>4, <2>1, MembersAre, GoodLinks DEF AgreeAt, Ended, Lead, LastTaken
<1> QED
  BY <1>1, <1>3, <1>4, GoodLinks DEF Ended

LEMMA WithoutLastOrders ==
    ASSUME NEW Owner, NEW Item, NEW L, Good(L, Owner, Item), Agree(L), Ordered(L),
           NEW p \in Owner, L.first[p] # Null,
           NEW M, M = WithoutLast(L, p), Agree(M)
    PROVE  Ordered(M)
<1> DEFINE c == L.last[p]
<1>0. c \in Item /\ c \in Members(L, p)
  BY AgreeIsAt, MembersAre, GoodLinks DEF AgreeAt
<1>1. Good(M, Owner, Item) /\ LastTaken(L, M, p, c)
  BY <1>0, WithoutLastLinks, Zenon
<1>2. ASSUME NEW q \in Owner, NEW m \in Members(M, q), m # M.last[q]
      PROVE  m \in Members(L, q) /\ m # L.last[q] /\ M.next[m] = L.next[m]
  <2>1. AgreeAt(M, q) /\ AgreeAt(L, q) /\ AgreeAt(L, p)
    BY <1>1, AgreeIsAt, GoodLinks
  <2> QED
    BY <1>0, <1>1, <1>2, <2>1, MembersAre, GoodLinks DEF AgreeAt, Lead, LastTaken
<1> QED
  BY <1>1, <1>2, FewerOrders

LEMMA InnerAgrees ==
    ASSUME NEW Owner, NEW Item, NEW L, Good(L, Owner, Item), Agree(L),
           NEW p \in Owner, NEW c \in Item, c \in Members(L, p),
           c # L.first[p], c # L.last[p],
           NEW M, M = Inner(L, c)
    PROVE  Agree(M) /\ (Ended(L) => Ended(M))
<1>1. Good(M, Owner, Item) /\ InnerTaken(L, M, c)
  BY InnerLinks, Zenon
<1>2. ASSUME NEW q \in Owner
      PROVE  AgreeAt(M, q)
  <2>1. AgreeAt(L, q) /\ AgreeAt(L, p)
    BY AgreeIsAt, GoodLinks
  <2>2. CASE q = p
    BY <1>1, <2>1, <2>2, MembersAre, GoodLinks DEF AgreeAt, Lead, InnerTaken
  <2>3. CASE q # p
    BY <1>1, <2>1, <2>3, MembersAre, GoodLinks DEF AgreeAt, Lead, InnerTaken
  <2> QED
    BY <2>2, <2>3
<1>3. Agree(M)
  BY <1>1, <1>2, AgreeIsAt, GoodLinks
<1>4. ASSUME Ended(L), NEW q \in Owner, M.first[q] # Null
      PROVE  M.next[M.last[q]] = Null
  <2>1. AgreeAt(L, q) /\ AgreeAt(L, p)
    BY AgreeIsAt, GoodLinks
  <2> QED
    BY <1>1, <1>4, <2>1, MembersAre, GoodLinks DEF AgreeAt, Ended, Lead, InnerTaken
<1> QED
  BY <1>1, <1>3, <1>4, GoodLinks DEF Ended

LEMMA InnerOrders ==
    ASSUME NEW Owner, NEW Item, NEW L, Good(L, Owner, Item), Agree(L), Ordered(L),
           NEW p \in Owner, NEW c \in Item, c \in Members(L, p),
           c # L.first[p], c # L.last[p],
           NEW M, M = Inner(L, c)
    PROVE  Ordered(M)
<1>1. Good(M, Owner, Item) /\ InnerTaken(L, M, c)
  BY InnerLinks, Zenon
<1>2. PICK top \in Nat : \E rank \in [Item -> 0 .. top] : Ranks(L, rank)
  BY GoodLinks DEF Ordered
<1>3. PICK rank \in [Item -> 0 .. top] : Ranks(L, rank)
  BY <1>2
<1>4. ASSUME NEW q \in Owner, NEW m \in Members(M, q), m # M.last[q], M.next[m] # Null
      PROVE  rank[m] < rank[M.next[m]]
  <2>1. AgreeAt(L, q) /\ AgreeAt(L, p)
    BY AgreeIsAt, GoodLinks
  <2>2. /\ m \in Members(L, q) /\ m # L.last[q] /\ m \in Item
        /\ L.next[m] \in Members(L, q) /\ L.next[m] # Null /\ L.next[m] \in Item
    BY <1>1, <1>4, <2>1, MembersAre, GoodLinks DEF AgreeAt, InnerTaken
  <2>3. rank[m] < rank[L.next[m]]
    BY <1>3, <2>2, GoodLinks DEF Ranks
  <2>4. CASE m = L.prev[c]
    <3>1. L.next[m] = c /\ M.next[m] = L.next[c]
      BY <1>1, <2>1, <2>2, <2>4, MembersAre, GoodLinks DEF AgreeAt, Lead, InnerTaken
    <3>2. /\ L.next[c] \in Members(L, p) /\ L.next[c] # Null /\ L.next[c] \in Item
      BY <2>1, MembersAre, GoodLinks DEF AgreeAt
    <3>3. rank[c] < rank[L.next[c]]
      BY <1>3, <3>2, GoodLinks DEF Ranks
    <3> QED
      BY <2>2, <2>3, <3>1, <3>2, <3>3
  <2>5. CASE m # L.prev[c]
    <3>1. M.next[m] = L.next[m]
      BY <1>1, <2>2, <2>5, MembersAre, GoodLinks DEF Lead, InnerTaken
    <3> QED
      BY <2>3, <3>1
  <2> QED
    BY <2>4, <2>5
<1>5. Ranks(M, rank)
  BY <1>1, <1>4, GoodLinks DEF Ranks
<1> QED
  BY <1>1, <1>5, GoodLinks DEF Ordered

-----------------------------------------------------------------------------
(* Removing from one item on. *)

\* What is met from c on: c, what next leads to, and no more than has to be.
LEMMA FromIsLeast ==
    ASSUME NEW Owner, NEW Item, NEW L, Good(L, Owner, Item), NEW c \in Item
    PROVE  /\ From(L, c) \subseteq Item /\ c \in From(L, c)
           /\ \A y \in From(L, c) : L.next[y] \in From(L, c) \cup {Null}
           /\ \A S \in SUBSET Item :
                 c \in S /\ (\A y \in S : L.next[y] \in S \cup {Null}) => From(L, c) \subseteq S
<1>1. DOMAIN L.next = Item /\ L.next \in [Item -> Item \cup {Null}]
  BY GoodLinks
<1>2. ASSUME NEW y \in From(L, c)
      PROVE  L.next[y] \in From(L, c) \cup {Null}
  <2>1. y \in Item
    BY <1>1, <1>2 DEF From
  <2>2. SUFFICES ASSUME L.next[y] # Null PROVE L.next[y] \in From(L, c)
    OBVIOUS
  <2>3. L.next[y] \in Item
    BY <1>1, <2>1, <2>2
  <2>4. ASSUME NEW S \in SUBSET Item, c \in S, \A z \in S : L.next[z] \in S \cup {Null}
        PROVE  L.next[y] \in S
    <3>1. y \in S
      BY <1>1, <1>2, <2>4 DEF From
    <3> QED
      BY <2>2, <2>4, <3>1
  <2> QED
    BY <1>1, <2>3, <2>4 DEF From
<1>3. From(L, c) \subseteq Item /\ c \in From(L, c)
  BY <1>1 DEF From
<1>4. ASSUME NEW S \in SUBSET Item, c \in S, \A y \in S : L.next[y] \in S \cup {Null}
      PROVE  From(L, c) \subseteq S
  BY <1>1, <1>4 DEF From
<1> QED
  BY <1>2, <1>3, <1>4

\* In a list that ends, from a member on there are members only, the last among them.
LEMMA FromMember ==
    ASSUME NEW Owner, NEW Item, NEW L, Good(L, Owner, Item),
           Agree(L), Ordered(L), Ended(L),
           NEW p \in Owner, NEW c \in Members(L, p)
    PROVE  From(L, c) \subseteq Members(L, p) /\ L.last[p] \in From(L, c)
<1>1. AgreeAt(L, p) /\ c \in Item /\ L.first[p] # Null
  BY AgreeIsAt, MembersAre, GoodLinks DEF AgreeAt
<1>2. \A y \in Members(L, p) : L.next[y] \in Members(L, p) \cup {Null}
  BY <1>1, GoodLinks DEF AgreeAt, Ended
<1>3. From(L, c) \subseteq Members(L, p)
  <2>1. Members(L, p) \in SUBSET Item
    BY MembersAre
  <2> QED
    BY <1>1, <1>2, <2>1, FromIsLeast
<1>4. \A y \in From(L, c) : y # L.last[p] => L.next[y] \in From(L, c)
  <2>1. ASSUME NEW y \in From(L, c), y # L.last[p]
        PROVE  L.next[y] \in From(L, c)
    <3>1. L.next[y] \in Members(L, p) /\ L.next[y] # Null
      BY <1>1, <1>3, <2>1, MembersAre, GoodLinks DEF AgreeAt
    <3> QED
      BY <1>1, <2>1, <3>1, FromIsLeast
  <2> QED
    BY <2>1
<1>5. From(L, c) # {}
  BY <1>1, FromIsLeast
<1> QED
  BY <1>3, <1>4, <1>5, EndReached

\* From the first member on there are all of them.
LEMMA FromFirst ==
    ASSUME NEW Owner, NEW Item, NEW L, Good(L, Owner, Item),
           Agree(L), Ordered(L), Ended(L),
           NEW p \in Owner, L.first[p] # Null
    PROVE  From(L, L.first[p]) = Members(L, p)
<1> DEFINE f == L.first[p]
           T == Members(L, p) \ From(L, f)
<1>1. AgreeAt(L, p) /\ f \in Item /\ f \in Members(L, p)
  BY AgreeIsAt, MembersAre, GoodLinks DEF AgreeAt
<1>2. From(L, f) \subseteq Members(L, p) /\ f \in From(L, f)
  BY <1>1, FromMember, FromIsLeast
<1>3. ASSUME NEW y \in T, y # f
      PROVE  L.prev[y] \in T
  <2>1. L.prev[y] \in Members(L, p) /\ L.next[L.prev[y]] = y /\ y # Null
    BY <1>1, <1>3, MembersAre, GoodLinks DEF AgreeAt
  <2>2. L.prev[y] \notin From(L, f)
    BY <1>1, <1>3, <2>1, FromIsLeast
  <2> QED
    BY <2>1, <2>2
<1>4. T = {}
  <2>1. SUFFICES ASSUME T # {} PROVE FALSE
    OBVIOUS
  <2>2. T \in SUBSET Members(L, p) /\ f \notin T
    BY <1>2
  <2> HIDE DEF T
  <2>3. f \in T
    BY <1>3, <2>1, <2>2, StartReached
  <2> QED
    BY <2>2, <2>3
<1> QED
  BY <1>2, <1>4

\* From a member on that is not the first, there is neither the first item nor the one
\* before, and what leads there is there, but for the one before.
LEMMA FromLater ==
    ASSUME NEW Owner, NEW Item, NEW L, Good(L, Owner, Item),
           Agree(L), Ordered(L), Ended(L),
           NEW p \in Owner, NEW c \in Members(L, p), c # L.first[p]
    PROVE  /\ L.first[p] \notin From(L, c) /\ L.prev[c] \notin From(L, c)
           /\ \A m \in Members(L, p) :
                 m # L.prev[c] /\ L.next[m] \in From(L, c) => m \in From(L, c)
<1> DEFINE gone == From(L, c)
<1>1. /\ AgreeAt(L, p) /\ c \in Item /\ L.first[p] # Null /\ L.next[L.last[p]] = Null
      /\ L.prev[c] \in Members(L, p) /\ L.next[L.prev[c]] = c /\ c # Null
      /\ Members(L, p) \in SUBSET Item /\ L.first[p] \in Members(L, p)
  BY AgreeIsAt, MembersAre, GoodLinks DEF AgreeAt, Ended
<1>2. /\ gone \subseteq Members(L, p) /\ c \in gone
      /\ \A y \in gone : L.next[y] \in gone \cup {Null}
  BY <1>1, FromMember, FromIsLeast
<1>3. \A S \in SUBSET Item :
        c \in S /\ (\A y \in S : L.next[y] \in S \cup {Null}) => gone \subseteq S
  BY <1>1, FromIsLeast
<1>4. \A m \in Members(L, p) :
        /\ IF m = L.first[p] THEN L.prev[m] = Null
           ELSE L.prev[m] \in Members(L, p) /\ L.next[L.prev[m]] = m
        /\ m # L.last[p] => L.next[m] \in Members(L, p) /\ L.prev[L.next[m]] = m
        /\ m = L.last[p] => L.next[m] = Null
        /\ m # Null
  BY <1>1, MembersAre, GoodLinks DEF AgreeAt
<1> HIDE DEF gone
<1>5. L.first[p] \notin gone
  <2> DEFINE S == Members(L, p) \ {L.first[p]}
  <2>1. c \in S /\ \A y \in S : L.next[y] \in S \cup {Null}
    BY <1>1, <1>4
  <2> QED
    BY <1>1, <1>3, <2>1
<1>6. L.prev[c] \notin gone
  <2>1. PICK top \in Nat : \E rank \in [Item -> 0 .. top] : Ranks(L, rank)
    BY GoodLinks DEF Ordered
  <2>2. PICK rank \in [Item -> 0 .. top] : Ranks(L, rank)
    BY <2>1
  <2>3. \A m \in Members(L, p) : L.next[m] # Null => rank[m] < rank[L.next[m]]
    BY <1>4, <2>2, GoodLinks DEF Ranks
  <2> DEFINE S == {m \in Members(L, p) : rank[c] <= rank[m]}
  <2>4. c \in S
    BY <1>1, <2>2
  <2>5. \A y \in S : L.next[y] \in S \cup {Null}
    <3>1. ASSUME NEW y \in S, L.next[y] # Null
          PROVE  L.next[y] \in S
      <4>1. L.next[y] \in Members(L, p) /\ rank[y] < rank[L.next[y]] /\ rank[c] <= rank[y]
        BY <1>4, <2>3, <3>1
      <4>2. rank[c] \in Nat /\ rank[y] \in Nat /\ rank[L.next[y]] \in Nat
        BY <1>1, <2>2, <4>1
      <4> QED
        BY <4>1, <4>2
    <3> QED
      BY <3>1
  <2>6. gone \subseteq S
    BY <1>1, <1>3, <2>4, <2>5
  <2>7. rank[L.prev[c]] < rank[c]
    BY <1>1, <2>3
  <2>8. rank[c] \in Nat /\ rank[L.prev[c]] \in Nat
    BY <1>1, <2>2
  <2> QED
    BY <2>6, <2>7, <2>8
<1>7. ASSUME NEW m \in Members(L, p), m # L.prev[c], L.next[m] \in gone, m \notin gone
      PROVE  FALSE
  <2> DEFINE S == gone \ {L.next[m]}
  <2>1. m # L.last[p]
    BY <1>1, <1>2, <1>4, <1>7
  <2>2. L.prev[L.next[m]] = m
    BY <1>4, <2>1
  <2>3. c \in S
    BY <1>2, <1>7, <2>2
  <2>4. ASSUME NEW y \in S
        PROVE  L.next[y] \in S \cup {Null}
    <3>1. SUFFICES ASSUME L.next[y] = L.next[m] PROVE FALSE
      BY <1>2
    <3>2. y # L.last[p] /\ y \in Members(L, p)
      BY <1>2, <1>4, <1>7, <3>1
    <3>3. L.prev[L.next[y]] = y
      BY <1>4, <3>2
    <3> QED
      BY <1>7, <2>2, <3>1, <3>3
  <2>5. gone \subseteq S
    BY <1>1, <1>2, <1>3, <2>3, <2>4
  <2> QED
    BY <1>7, <2>5
<1> QED
  BY <1>5, <1>6, <1>7 DEF gone

LEMMA WithoutAllAgrees ==
    ASSUME NEW Owner, NEW Item, NEW L, Good(L, Owner, Item),
           Agree(L), Ordered(L), Ended(L),
           NEW p \in Owner, NEW start \in Item \cup {Null},
           IF start = Null THEN L.first[p] # Null ELSE L.owner[start] = p,
           NEW M, M = WithoutAll(L, p, start)
    PROVE  Agree(M) /\ (start \in {Null, L.first[p]} => Ended(M))
<1> DEFINE all == start \in {Null, L.first[p]}
           c == IF start = Null THEN L.first[p] ELSE start
           gone == From(L, c)
<1>1. Good(M, Owner, Item) /\ AllTaken(L, M, p, start, all, gone)
  BY WithoutAllLinks, Zenon
<1>2. AgreeAt(L, p) /\ Null \notin Item /\ Null \notin Owner
  BY AgreeIsAt, GoodLinks
<1>3. c \in Members(L, p) /\ L.first[p] # Null /\ L.first[p] \in Members(L, p) /\ c \in Item
  BY <1>2, MembersAre, GoodLinks DEF AgreeAt
<1>4. gone \subseteq Members(L, p)
  BY <1>3, FromMember
<1>5. all => gone = Members(L, p)
  BY <1>3, FromFirst
<1>6. ~all => /\ L.first[p] \notin gone /\ L.prev[start] \notin gone
              /\ \A m \in Members(L, p) :
                    m # L.prev[start] /\ L.next[m] \in gone => m \in gone
              /\ start = c /\ L.last[p] \in gone
  BY <1>3, FromLater, FromMember
<1>7. /\ \A y \in gone : L.next[y] \in gone \cup {Null}
      /\ c \in gone
  BY <1>3, FromIsLeast
<1> HIDE DEF all, gone
<1>8. ASSUME NEW q \in Owner
      PROVE  /\ AgreeAt(M, q)
             /\ all /\ M.first[q] # Null => M.next[M.last[q]] = Null
  <2>1. AgreeAt(L, q)
    BY AgreeIsAt, GoodLinks
  <2>2. CASE q # p
    <3>1. ASSUME NEW x
          PROVE  x \in Members(M, q) <=> x \in Members(L, q)
      <4>1. \A y \in gone : L.owner[y] = p
        BY <1>4, MembersAre
      <4>2. x \in Item => M.owner[x] = IF x \in gone THEN Null ELSE L.owner[x]
        BY <1>1, GoodLinks DEF AllTaken
      <4>3. x \in Item => (M.owner[x] = q <=> L.owner[x] = q)
        BY <1>2, <2>2, <4>1, <4>2
      <4> QED
        BY <1>1, <4>3, MembersAre
    <3>2. /\ M.first[q] = L.first[q] /\ M.last[q] = L.last[q]
          /\ M.next = L.next /\ M.prev = L.prev
      BY <1>1, <2>2, GoodLinks DEF AllTaken
    <3>3. Members(M, q) = Members(L, q)
      BY <3>1
    <3> QED
      BY <2>1, <3>2, <3>3, GoodLinks DEF AgreeAt, Ended
  <2>3. CASE q = p /\ all
    <3>1. Members(M, q) = {}
      BY <1>1, <1>2, <1>5, <2>3, MembersAre, GoodLinks DEF AllTaken
    <3>2. M.first[q] = Null
      BY <1>1, <2>3, GoodLinks DEF AllTaken
    <3> QED
      BY <3>1, <3>2 DEF AgreeAt
  <2>4. CASE q = p /\ ~all
    <3>1. Members(M, q) = Members(L, p) \ gone
      BY <1>1, <1>2, <1>4, <2>4, MembersAre, GoodLinks DEF AllTaken
    <3>2. /\ M.first[q] = L.first[p] /\ M.last[q] = L.prev[start]
          /\ M.next = L.next /\ M.prev = L.prev
      BY <1>1, <2>4, GoodLinks DEF AllTaken
    <3>3. start # L.first[p] /\ start # Null
      BY <2>4 DEF all
    <3>4. L.prev[start] \in Members(L, p) /\ L.next[L.prev[start]] = start
      BY <1>2, <1>3, <1>6, <2>4, <3>3 DEF AgreeAt
    <3>5. ASSUME NEW m \in Members(L, p) \ gone, m # L.first[p]
          PROVE  L.prev[m] \in Members(L, p) \ gone /\ L.next[L.prev[m]] = m
      <4>1. L.prev[m] \in Members(L, p) /\ L.next[L.prev[m]] = m /\ m # Null
        BY <1>2, <3>5, MembersAre DEF AgreeAt
      <4> QED
        BY <1>7, <3>5, <4>1
    <3>6. ASSUME NEW m \in Members(L, p) \ gone, m # L.prev[start]
          PROVE  L.next[m] \in Members(L, p) \ gone /\ L.prev[L.next[m]] = m
      <4>1. m # L.last[p]
        BY <1>6, <2>4, <3>6
      <4>2. L.next[m] \in Members(L, p) /\ L.prev[L.next[m]] = m
        BY <1>2, <3>6, <4>1 DEF AgreeAt
      <4> QED
        BY <1>6, <2>4, <3>6, <4>2
    <3>7. L.first[p] \in Members(M, q) /\ L.prev[start] \in Members(M, q)
      BY <1>3, <1>6, <2>4, <3>1, <3>4
    <3>8. \A m \in Members(M, q) : m = L.first[p] => L.prev[m] = Null
      BY <1>2, <1>3 DEF AgreeAt
    <3>9. AgreeAt(M, q)
      BY <1>3, <3>1, <3>2, <3>5, <3>6, <3>7, <3>8, Zenon DEF AgreeAt
    <3> QED
      BY <2>4, <3>9
  <2> QED
    BY <2>2, <2>3, <2>4
<1>9. Agree(M)
  BY <1>1, <1>8, AgreeIsAt, GoodLinks
<1> QED
  BY <1>1, <1>8, <1>9, GoodLinks DEF Ended, all

LEMMA WithoutAllOrders ==
    ASSUME NEW Owner, NEW Item, NEW L, Good(L, Owner, Item), Agree(L), Ordered(L),
           NEW p \in Owner, NEW start \in Item \cup {Null},
           IF start = Null THEN L.first[p] # Null ELSE L.owner[start] = p,
           NEW M, M = WithoutAll(L, p, start), Agree(M)
    PROVE  Ordered(M)
<1> DEFINE all == start \in {Null, L.first[p]}
           c == IF start = Null THEN L.first[p] ELSE start
           gone == From(L, c)
<1>1. Good(M, Owner, Item) /\ AllTaken(L, M, p, start, all, gone)
  BY WithoutAllLinks, Zenon
<1>2. AgreeAt(L, p) /\ Null \notin Item /\ Null \notin Owner
  BY AgreeIsAt, GoodLinks
<1>3. c \in Members(L, p) /\ c \in Item
  BY <1>2, MembersAre, GoodLinks DEF AgreeAt
<1>4. /\ \A y \in gone : L.next[y] \in gone \cup {Null}
      /\ c \in gone
  BY <1>3, FromIsLeast
<1> HIDE DEF all, c, gone
<1>5. L.last[p] \in gone
  <2> DEFINE S == gone \cap Members(L, p)
  <2>1. S \in SUBSET Members(L, p) /\ S # {}
    BY <1>3, <1>4
  <2>2. ASSUME NEW y \in S, y # L.last[p]
        PROVE  L.next[y] \in S
    <3>1. L.next[y] \in Members(L, p) /\ L.next[y] # Null
      BY <1>2, <2>2, MembersAre DEF AgreeAt
    <3> QED
      BY <1>4, <3>1
  <2>3. L.last[p] \in S
    <3> HIDE DEF S
    <3> QED
      BY <2>1, <2>2, EndReached
  <2> QED
    BY <2>3
<1>6. ASSUME NEW q \in Owner, NEW m \in Members(M, q), m # M.last[q]
      PROVE  m \in Members(L, q) /\ m # L.last[q] /\ M.next[m] = L.next[m]
  <2>1. /\ AgreeAt(M, q) /\ m \in Item /\ M.owner[m] = q
    BY <1>1, <1>6, AgreeIsAt, MembersAre, GoodLinks
  <2>2. m \in Members(L, q) /\ m \notin gone /\ M.next = L.next
    BY <1>1, <1>2, <2>1, MembersAre, GoodLinks DEF AllTaken
  <2>3. CASE q = p
    BY <1>5, <2>2, <2>3
  <2>4. CASE q # p
    BY <1>1, <1>6, <2>2, <2>4, GoodLinks DEF AllTaken
  <2> QED
    BY <2>3, <2>4
<1> QED
  BY <1>1, <1>6, FewerOrders

-----------------------------------------------------------------------------
(* Calls that choose among these. *)

LEMMA InsertKeeps ==
    ASSUME NEW Owner, NEW Item, NEW L, Good(L, Owner, Item), Agree(L), Ordered(L),
           NEW p \in Owner, NEW c \in Item, L.owner[c] = Null,
           NEW w \in Item \cup {Null}, w # Null => L.owner[w] = p,
           NEW M, M = InsertBefore(L, p, w, c)
    PROVE  Good(M, Owner, Item) /\ Ordered(M) /\ (Ended(L) => Agree(M) /\ Ended(M))
<1>1. CASE w = L.first[p]
  <2>1. M = Prepend(L, p, c)
    BY <1>1 DEF InsertBefore
  <2> QED
    BY <2>1, PrependLinks, PrependAgrees, PrependOrders
<1>2. CASE w # L.first[p] /\ w = Null
  <2>1. M = AppendTo(L, p, c)
    BY <1>2 DEF InsertBefore
  <2> QED
    BY <2>1, AppendLinks, AppendAgrees, AppendOrders
<1>3. CASE w # L.first[p] /\ w # Null
  <2>1. M = Between(L, p, w, c)
    BY <1>3 DEF InsertBefore
  <2>2. w \in Item /\ w \in Members(L, p)
    BY <1>3, MembersAre
  <2> QED
    BY <1>3, <2>1, <2>2, BetweenLinks, BetweenAgrees, BetweenOrders
<1> QED
  BY <1>1, <1>2, <1>3

LEMMA WithoutKeeps ==
    ASSUME NEW Owner, NEW Item, NEW L, Good(L, Owner, Item), Agree(L), Ordered(L),
           NEW p \in Owner, NEW c \in Item, L.owner[c] = p,
           NEW M, M = Without(L, p, c)
    PROVE  /\ Good(M, Owner, Item) /\ (Agree(M) => Ordered(M))
           /\ Ended(L) => Agree(M) /\ Ended(M)
<1>0. AgreeAt(L, p) /\ c \in Members(L, p) /\ L.first[p] # Null
  BY AgreeIsAt, MembersAre, GoodLinks DEF AgreeAt
<1>1. CASE c = L.first[p]
  <2>1. M = WithoutFirst(L, p)
    BY <1>1 DEF Without
  <2> QED
    BY <1>0, <1>1, <2>1, WithoutFirstLinks, WithoutFirstAgrees, WithoutFirstOrders
<1>2. CASE c # L.first[p] /\ c = L.last[p]
  <2>1. M = WithoutLast(L, p)
    BY <1>2 DEF Without
  <2> QED
    BY <1>0, <1>2, <2>1, WithoutLastLinks, WithoutLastAgrees, WithoutLastOrders
<1>3. CASE c # L.first[p] /\ c # L.last[p]
  <2>1. M = Inner(L, c)
    BY <1>3 DEF Without
  <2> QED
    BY <1>0, <1>3, <2>1, InnerLinks, InnerAgrees, InnerOrders
<1> QED
  BY <1>1, <1>2, <1>3

\* The links after addresses are given back, field by field.
Forgotten(L, M, S) ==
    /\ M.first = Forget(L.first, S) /\ M.last = Forget(L.last, S)
    /\ M.owner = Forget(L.owner, S)
    /\ M.next = Forget(L.next, S) /\ M.prev = Forget(L.prev, S)

LEMMA ForgetIsFunction ==
    ASSUME NEW X, NEW Y, NEW f \in [X -> Y \cup {Null}], NEW S
    PROVE  /\ Forget(f, S) \in [X -> Y \cup {Null}]
           /\ \A x \in X : Forget(f, S)[x] = IF x \in S THEN Null ELSE f[x]
  BY DEF Forget

LEMMA ForgetFields ==
    ASSUME NEW Owner, NEW Item, NEW L, Good(L, Owner, Item), NEW S,
           NEW M, M = ForgetLinks(L, S)
    PROVE  Good(M, Owner, Item) /\ Forgotten(L, M, S)
<1>1. /\ L = [first |-> L.first, last |-> L.last, owner |-> L.owner,
              next |-> L.next, prev |-> L.prev]
  BY GoodLinks
<1>2. DOMAIN L = {"first", "last", "owner", "next", "prev"}
  BY <1>1
<1>3. M = [first |-> Forget(L.first, S), last |-> Forget(L.last, S),
           owner |-> Forget(L.owner, S),
           next |-> Forget(L.next, S), prev |-> Forget(L.prev, S)]
  BY <1>2 DEF ForgetLinks
<1>4. Forgotten(L, M, S)
  BY <1>3 DEF Forgotten
<1>5. /\ Forget(L.first, S) \in [Owner -> Item \cup {Null}]
      /\ Forget(L.last, S) \in [Owner -> Item \cup {Null}]
      /\ Forget(L.owner, S) \in [Item -> Owner \cup {Null}]
      /\ Forget(L.next, S) \in [Item -> Item \cup {Null}]
      /\ Forget(L.prev, S) \in [Item -> Item \cup {Null}]
  BY GoodLinks, ForgetIsFunction
<1>6. M \in Links(Owner, Item)
  BY <1>3, <1>5 DEF Links
<1> QED
  BY <1>4, <1>6 DEF Good

\* What is given back together with all it owns, and with what owns it, leaves the
\* other lists as they are.
LEMMA ForgetKeeps ==
    ASSUME NEW Owner, NEW Item, NEW L, Good(L, Owner, Item), Agree(L), NEW S,
           \A c \in Item : L.owner[c] # Null => (c \in S <=> L.owner[c] \in S),
           NEW M, M = ForgetLinks(L, S)
    PROVE  /\ Agree(M) /\ (Ended(L) => Ended(M)) /\ (Ordered(L) => Ordered(M))
           /\ \A q \in Owner : Members(M, q) = IF q \in S THEN {} ELSE Members(L, q)
<1>1. Good(M, Owner, Item) /\ Forgotten(L, M, S)
  BY ForgetFields
<1>2. /\ \A q \in Owner : /\ M.first[q] = IF q \in S THEN Null ELSE L.first[q]
                          /\ M.last[q] = IF q \in S THEN Null ELSE L.last[q]
      /\ \A c \in Item : /\ M.owner[c] = IF c \in S THEN Null ELSE L.owner[c]
                         /\ M.next[c] = IF c \in S THEN Null ELSE L.next[c]
                         /\ M.prev[c] = IF c \in S THEN Null ELSE L.prev[c]
  BY <1>1, GoodLinks, ForgetIsFunction DEF Forgotten
<1>3. ASSUME NEW q \in Owner
      PROVE  Members(M, q) = IF q \in S THEN {} ELSE Members(L, q)
  <2>1. ASSUME NEW x
        PROVE  x \in Members(M, q) <=> q \notin S /\ x \in Members(L, q)
    BY <1>1, <1>2, GoodLinks, MembersAre
  <2> QED
    BY <2>1
<1>4. ASSUME NEW q \in Owner
      PROVE  /\ AgreeAt(M, q)
             /\ Ended(L) /\ M.first[q] # Null => M.next[M.last[q]] = Null
             /\ \A m \in Members(M, q) : m # M.last[q] =>
                   m \in Members(L, q) /\ m # L.last[q] /\ M.next[m] = L.next[m]
  <2>1. AgreeAt(L, q)
    BY AgreeIsAt, GoodLinks
  <2>2. CASE q \in S
    BY <1>2, <1>3, <2>2 DEF AgreeAt
  <2>3. CASE q \notin S
    <3>1. /\ Members(M, q) = Members(L, q)
          /\ M.first[q] = L.first[q] /\ M.last[q] = L.last[q]
          /\ \A m \in Members(L, q) : M.next[m] = L.next[m] /\ M.prev[m] = L.prev[m]
      BY <1>2, <1>3, <2>3, MembersAre, GoodLinks
    <3>2. AgreeAt(M, q)
      BY <2>1, <3>1 DEF AgreeAt
    <3>3. Ended(L) /\ L.first[q] # Null => L.next[L.last[q]] = Null
      BY GoodLinks DEF Ended
    <3> QED
      BY <2>1, <3>1, <3>2, <3>3 DEF AgreeAt
  <2> QED
    BY <2>2, <2>3
<1>5. Agree(M) /\ (Ended(L) => Ended(M))
  BY <1>1, <1>4, AgreeIsAt, GoodLinks DEF Ended
<1>6. Ordered(L) => Ordered(M)
  BY <1>1, <1>4, FewerOrders
<1> QED
  BY <1>3, <1>5, <1>6

-----------------------------------------------------------------------------
(* Copies. *)

\* f gives new addresses: of owners to owners, of items to items, one to each.
Placing(f, Owner, Item) ==
    /\ \A x, y \in DOMAIN f : f[x] = f[y] => x = y
    /\ \A x \in DOMAIN f : (x \in Owner <=> f[x] \in Owner) /\ (x \in Item <=> f[x] \in Item)
    /\ Null \notin DOMAIN f

\* The links N, made of M and of a copy of L, field by field.
Copied(f, x) == IF x \in DOMAIN f THEN f[x] ELSE Null
ImageOf(L, f, M, N, Owner, Item) ==
    /\ \A x \in DOMAIN f \cap Owner :
          /\ N.first[f[x]] = Copied(f, L.first[x])
          /\ N.last[f[x]] = IF L.first[x] = Null THEN Null ELSE Copied(f, L.last[x])
    /\ \A x \in DOMAIN f \cap Item :
          /\ N.owner[f[x]] = Copied(f, L.owner[x])
          /\ N.next[f[x]] = Copied(f, L.next[x]) /\ N.prev[f[x]] = Copied(f, L.prev[x])
    /\ \A y \in Owner \ Range(f) : N.first[y] = M.first[y] /\ N.last[y] = M.last[y]
    /\ \A y \in Item \ Range(f) :
          N.owner[y] = M.owner[y] /\ N.next[y] = M.next[y] /\ N.prev[y] = M.prev[y]

BackOf(f, y) == CHOOSE x \in DOMAIN f : f[x] = y

\* A field of the image: h, and what f places of g but for what is placed from E.
Field(g, f, h, E) ==
    [y \in DOMAIN h |-> IF y \notin Range(f) THEN h[y]
                        ELSE IF BackOf(f, y) \in E THEN Null ELSE Copied(f, g[BackOf(f, y)])]

LEMMA BackIsInverse ==
    ASSUME NEW Owner, NEW Item, NEW f, Placing(f, Owner, Item)
    PROVE  \A x \in DOMAIN f : BackOf(f, f[x]) = x /\ f[x] \in Range(f)
<1>1. ASSUME NEW x \in DOMAIN f
      PROVE  BackOf(f, f[x]) = x /\ f[x] \in Range(f)
  <2>1. \E z \in DOMAIN f : f[z] = f[x]
    OBVIOUS
  <2>2. BackOf(f, f[x]) \in DOMAIN f /\ f[BackOf(f, f[x])] = f[x]
    BY <2>1 DEF BackOf
  <2> QED
    BY <2>2 DEF Placing, Range
<1> QED
  BY <1>1

IsField(F, X, Y, f, g, h, E) ==
    /\ F \in [X -> Y \cup {Null}]
    /\ \A x \in DOMAIN f \cap X : F[f[x]] = IF x \in E THEN Null ELSE Copied(f, g[x])
    /\ \A y \in X \ Range(f) : F[y] = h[y]

LEMMA FieldIs ==
    ASSUME NEW Owner, NEW Item, NEW f, Placing(f, Owner, Item),
           NEW X \in {Owner, Item}, NEW Y \in {Owner, Item},
           NEW g \in [X -> Y \cup {Null}], NEW h \in [X -> Y \cup {Null}], NEW E
    PROVE  IsField(Field(g, f, h, E), X, Y, f, g, h, E)
<1>1. \A x \in DOMAIN f : (x \in X <=> f[x] \in X) /\ (x \in Y <=> f[x] \in Y)
  BY DEF Placing
<1>2. \A x \in DOMAIN f \cap X : Copied(f, g[x]) \in Y \cup {Null}
  BY <1>1 DEF Copied, Placing
<1>3. ASSUME NEW y \in X
      PROVE  Field(g, f, h, E)[y] \in Y \cup {Null}
  <2>1. CASE y \in Range(f)
    <3>1. PICK x \in DOMAIN f : y = f[x]
      BY <2>1 DEF Range
    <3>2. BackOf(f, y) = x /\ x \in X
      BY <1>1, <1>3, <3>1, BackIsInverse
    <3> QED
      BY <1>2, <2>1, <3>2 DEF Field
  <2>2. CASE y \notin Range(f)
    BY <2>2 DEF Field
  <2> QED
    BY <2>1, <2>2
<1>4. Field(g, f, h, E) \in [X -> Y \cup {Null}]
  BY <1>3 DEF Field
<1>5. ASSUME NEW x \in DOMAIN f \cap X
      PROVE  Field(g, f, h, E)[f[x]] = IF x \in E THEN Null ELSE Copied(f, g[x])
  <2>1. f[x] \in X /\ f[x] \in Range(f) /\ BackOf(f, f[x]) = x
    BY <1>1, BackIsInverse
  <2> QED
    BY <2>1 DEF Field
<1>6. \A y \in X \ Range(f) : Field(g, f, h, E)[y] = h[y]
  BY DEF Field
<1> QED
  BY <1>4, <1>5, <1>6, Zenon DEF IsField

LEMMA ImageFields ==
    ASSUME NEW Owner, NEW Item, NEW L, Good(L, Owner, Item), NEW M, Good(M, Owner, Item),
           NEW f, Placing(f, Owner, Item), NEW N, N = Image(L, f, M)
    PROVE  Good(N, Owner, Item) /\ ImageOf(L, f, M, N, Owner, Item)
<1> DEFINE E == {x \in DOMAIN f : L.first[x] = Null}
<1>1. /\ M = [first |-> M.first, last |-> M.last, owner |-> M.owner,
              next |-> M.next, prev |-> M.prev]
  BY GoodLinks
<1>2. DOMAIN M = {"first", "last", "owner", "next", "prev"}
  BY <1>1
<1>3. \A y \in Range(f) : BackOf(f, y) \in DOMAIN f
  BY BackIsInverse DEF Range
<1>4. /\ DOMAIN N = {"first", "last", "owner", "next", "prev"}
      /\ N["first"] = Field(L.first, f, M.first, {}) /\ N["last"] = Field(L.last, f, M.last, E)
      /\ N["owner"] = Field(L.owner, f, M.owner, {})
      /\ N["next"] = Field(L.next, f, M.next, {}) /\ N["prev"] = Field(L.prev, f, M.prev, {})
  BY <1>2, <1>3 DEF Image, Field, Copied, BackOf

<1> HIDE DEF E
<1>5. N = [first |-> Field(L.first, f, M.first, {}), last |-> Field(L.last, f, M.last, E),
           owner |-> Field(L.owner, f, M.owner, {}),
           next |-> Field(L.next, f, M.next, {}), prev |-> Field(L.prev, f, M.prev, {})]
  <2>1. N = [k \in DOMAIN N |-> N[k]]
    BY DEF Image
  <2> QED
    BY <1>4, <2>1
<1>6. /\ N.first = Field(L.first, f, M.first, {}) /\ N.last = Field(L.last, f, M.last, E)
      /\ N.owner = Field(L.owner, f, M.owner, {})
      /\ N.next = Field(L.next, f, M.next, {}) /\ N.prev = Field(L.prev, f, M.prev, {})
  BY <1>5
<1>7. Owner \in {Owner, Item} /\ Item \in {Owner, Item}
  OBVIOUS
<1>8. /\ IsField(N.first, Owner, Item, f, L.first, M.first, {})
      /\ IsField(N.last, Owner, Item, f, L.last, M.last, E)
      /\ IsField(N.owner, Item, Owner, f, L.owner, M.owner, {})
      /\ IsField(N.next, Item, Item, f, L.next, M.next, {})
      /\ IsField(N.prev, Item, Item, f, L.prev, M.prev, {})
  <2>1. IsField(N.first, Owner, Item, f, L.first, M.first, {})
    <3>1. L.first \in [Owner -> Item \cup {Null}] /\ M.first \in [Owner -> Item \cup {Null}]
      BY GoodLinks
    <3> QED
      BY <1>6, <1>7, <3>1, FieldIs
  <2>2. IsField(N.last, Owner, Item, f, L.last, M.last, E)
    <3>1. L.last \in [Owner -> Item \cup {Null}] /\ M.last \in [Owner -> Item \cup {Null}]
      BY GoodLinks
    <3> QED
      BY <1>6, <1>7, <3>1, FieldIs
  <2>3. IsField(N.owner, Item, Owner, f, L.owner, M.owner, {})
    <3>1. L.owner \in [Item -> Owner \cup {Null}] /\ M.owner \in [Item -> Owner \cup {Null}]
      BY GoodLinks
    <3> QED
      BY <1>6, <1>7, <3>1, FieldIs
  <2>4. IsField(N.next, Item, Item, f, L.next, M.next, {})
    <3>1. L.next \in [Item -> Item \cup {Null}] /\ M.next \in [Item -> Item \cup {Null}]
      BY GoodLinks
    <3> QED
      BY <1>6, <1>7, <3>1, FieldIs
  <2>5. IsField(N.prev, Item, Item, f, L.prev, M.prev, {})
    <3>1. L.prev \in [Item -> Item \cup {Null}] /\ M.prev \in [Item -> Item \cup {Null}]
      BY GoodLinks
    <3> QED
      BY <1>6, <1>7, <3>1, FieldIs
  <2> QED
    BY <2>1, <2>2, <2>3, <2>4, <2>5
<1>9. N \in Links(Owner, Item)
  BY <1>5, <1>6, <1>8 DEF Links, IsField
<1>10. ImageOf(L, f, M, N, Owner, Item)
  BY <1>8 DEF ImageOf, IsField, E
<1> QED
  BY <1>9, <1>10 DEF Good

\* What f places of L is whole lists, and where it places them there are none.
Placeable(L, f, M, Owner, Item) ==
    /\ Placing(f, Owner, Item)
    /\ \A q \in Owner \cap DOMAIN f : Members(L, q) \subseteq DOMAIN f
    /\ \A y \in Owner \cap Range(f) : Members(M, y) = {}
    /\ \A y \in Item \cap Range(f) : M.owner[y] = Null

LEMMA ImageMembers ==
    ASSUME NEW Owner, NEW Item, NEW L, Good(L, Owner, Item), NEW M, Good(M, Owner, Item),
           NEW f, Placeable(L, f, M, Owner, Item), NEW N, N = Image(L, f, M)
    PROVE  /\ \A x \in Owner \cap DOMAIN f : \A c :
                 c \in Members(N, f[x]) <=> \E m \in Members(L, x) : c = f[m]
           /\ \A y \in Owner \ Range(f) : Members(N, y) = Members(M, y)
           /\ \A y \in Owner \ Range(f) : \A m \in Members(M, y) : m \notin Range(f)
<1>1. Good(N, Owner, Item) /\ ImageOf(L, f, M, N, Owner, Item) /\ Placing(f, Owner, Item)
  BY ImageFields DEF Placeable
<1>2. ASSUME NEW x \in Owner \cap DOMAIN f, NEW c \in Members(N, f[x])
      PROVE  \E m \in Members(L, x) : c = f[m]
  <2>1. c \in Item /\ N.owner[c] = f[x] /\ f[x] \in Owner /\ f[x] # Null /\ f[x] \in Range(f)
    BY <1>1, <1>2, MembersAre, GoodLinks DEF Placing, Range
  <2>2. CASE c \notin Range(f)
    <3>1. c \in Members(M, f[x])
      BY <1>1, <2>1, <2>2, MembersAre DEF ImageOf
    <3> QED
      BY <2>1, <3>1 DEF Placeable
  <2>3. CASE c \in Range(f)
    <3>1. PICK m \in DOMAIN f : c = f[m]
      BY <2>3 DEF Range
    <3>2. m \in Item
      BY <1>1, <2>1, <3>1 DEF Placing
    <3>3. Copied(f, L.owner[m]) = f[x]
      BY <1>1, <2>1, <3>1, <3>2 DEF ImageOf
    <3>4. L.owner[m] = x
      BY <1>1, <2>1, <3>3 DEF Copied, Placing
    <3> QED
      BY <3>1, <3>2, <3>4, MembersAre
  <2> QED
    BY <2>2, <2>3
<1>3. ASSUME NEW x \in Owner \cap DOMAIN f, NEW m \in Members(L, x)
      PROVE  f[m] \in Members(N, f[x])
  <2>1. m \in Item /\ m \in DOMAIN f /\ L.owner[m] = x /\ f[m] \in Item
    BY <1>1, <1>3, MembersAre DEF Placeable, Placing
  <2>2. N.owner[f[m]] = f[x]
    BY <1>1, <2>1 DEF ImageOf, Copied
  <2> QED
    BY <1>1, <2>1, <2>2, MembersAre
<1>4. ASSUME NEW y \in Owner \ Range(f), NEW c
      PROVE  /\ c \in Members(N, y) <=> c \in Members(M, y)
             /\ c \in Members(M, y) => c \notin Range(f)
  <2>1. CASE c \in Item \cap Range(f)
    <3>1. PICK m \in DOMAIN f : c = f[m]
      BY <2>1 DEF Range
    <3>2. m \in Item
      BY <1>1, <2>1, <3>1 DEF Placing
    <3>3. N.owner[c] = Copied(f, L.owner[m])
      BY <1>1, <3>1, <3>2 DEF ImageOf
    <3>4. Copied(f, L.owner[m]) \in Range(f) \cup {Null} /\ y # Null
      BY <1>1, GoodLinks DEF Copied, Range
    <3>5. M.owner[c] = Null
      BY <2>1 DEF Placeable
    <3> QED
      BY <1>1, <1>4, <3>3, <3>4, <3>5, MembersAre
  <2>2. CASE c \in Item \ Range(f)
    BY <1>1, <2>2, MembersAre DEF ImageOf
  <2>3. CASE c \notin Item
    BY <1>1, <2>3, MembersAre
  <2> QED
    BY <2>1, <2>2, <2>3
<1> QED
  BY <1>2, <1>3, <1>4

LEMMA ImageAgrees ==
    ASSUME NEW Owner, NEW Item, NEW L, Good(L, Owner, Item), NEW M, Good(M, Owner, Item),
           NEW f, Placeable(L, f, M, Owner, Item), NEW N, N = Image(L, f, M),
           Agree(L), Agree(M)
    PROVE  Agree(N) /\ (Ended(L) /\ Ended(M) => Ended(N))
<1>1. Good(N, Owner, Item) /\ ImageOf(L, f, M, N, Owner, Item) /\ Placing(f, Owner, Item)
  BY ImageFields DEF Placeable
<1>2. ASSUME NEW y \in Owner \ Range(f)
      PROVE  /\ AgreeAt(N, y)
             /\ Ended(M) /\ N.first[y] # Null => N.next[N.last[y]] = Null
  <2>1. AgreeAt(M, y) /\ Members(N, y) = Members(M, y)
    BY ImageMembers, AgreeIsAt, GoodLinks
  <2>2. N.first[y] = M.first[y] /\ N.last[y] = M.last[y]
    BY <1>1 DEF ImageOf
  <2>3. \A m \in Members(M, y) : N.next[m] = M.next[m] /\ N.prev[m] = M.prev[m]
    BY <1>1, ImageMembers, MembersAre DEF ImageOf
  <2>4. Ended(M) /\ M.first[y] # Null => M.next[M.last[y]] = Null
    BY GoodLinks DEF Ended
  <2> QED
    BY <2>1, <2>2, <2>3, <2>4 DEF AgreeAt
<1>3. ASSUME NEW x \in Owner \cap DOMAIN f
      PROVE  /\ AgreeAt(N, f[x])
             /\ Ended(L) /\ N.first[f[x]] # Null => N.next[N.last[f[x]]] = Null
  <2>1. AgreeAt(L, x)
    BY AgreeIsAt, GoodLinks
  <2>2. \A m \in Members(L, x) :
          /\ m \in Item /\ m \in DOMAIN f /\ m # Null /\ f[m] # Null
          /\ f[m] \in Members(N, f[x])
          /\ N.next[f[m]] = Copied(f, L.next[m]) /\ N.prev[f[m]] = Copied(f, L.prev[m])
    BY <1>1, ImageMembers, MembersAre, GoodLinks DEF ImageOf, Placeable, Placing
  <2>3. \A c \in Members(N, f[x]) : \E m \in Members(L, x) : c = f[m]
    BY ImageMembers
  <2>4. \A m, k \in Members(L, x) : f[m] = f[k] => m = k
    BY <1>1, <2>2 DEF Placing
  <2>5. /\ N.first[f[x]] = Copied(f, L.first[x])
        /\ N.last[f[x]] = IF L.first[x] = Null THEN Null ELSE Copied(f, L.last[x])
    BY <1>1 DEF ImageOf
  <2>6. Null \notin DOMAIN f
    BY <1>1 DEF Placing
  <2>7. Ended(L) /\ L.first[x] # Null => L.next[L.last[x]] = Null
    BY GoodLinks DEF Ended
  <2>8. CASE L.first[x] = Null
    BY <2>1, <2>2, <2>3, <2>5, <2>6, <2>8 DEF AgreeAt, Copied
  <2>9. CASE L.first[x] # Null
    <3>1. /\ N.first[f[x]] = f[L.first[x]] /\ N.last[f[x]] = f[L.last[x]]
          /\ L.first[x] \in Members(L, x) /\ L.last[x] \in Members(L, x)
      BY <2>1, <2>2, <2>5, <2>9 DEF AgreeAt, Copied
    <3>2. ASSUME NEW m \in Members(L, x)
          PROVE  /\ IF f[m] = f[L.first[x]] THEN N.prev[f[m]] = Null
                    ELSE N.prev[f[m]] \in Members(N, f[x]) /\ N.next[N.prev[f[m]]] = f[m]
                 /\ f[m] # f[L.last[x]] =>
                       N.next[f[m]] \in Members(N, f[x]) /\ N.prev[N.next[f[m]]] = f[m]
      <4>1. CASE m = L.first[x]
        <5>1. N.prev[f[m]] = Null
          BY <2>1, <2>2, <2>6, <4>1 DEF AgreeAt, Copied
        <5>2. m # L.last[x] =>
                 N.next[f[m]] \in Members(N, f[x]) /\ N.prev[N.next[f[m]]] = f[m]
          BY <2>1, <2>2 DEF AgreeAt, Copied
        <5> QED
          BY <4>1, <5>1, <5>2
      <4>2. CASE m # L.first[x]
        <5>1. N.prev[f[m]] \in Members(N, f[x]) /\ N.next[N.prev[f[m]]] = f[m]
          BY <2>1, <2>2, <4>2 DEF AgreeAt, Copied
        <5>2. m # L.last[x] =>
                 N.next[f[m]] \in Members(N, f[x]) /\ N.prev[N.next[f[m]]] = f[m]
          BY <2>1, <2>2 DEF AgreeAt, Copied
        <5> QED
          BY <2>4, <3>1, <4>2, <5>1, <5>2
      <4> QED
        BY <4>1, <4>2
    <3>3. AgreeAt(N, f[x])
      BY <2>2, <2>3, <3>1, <3>2 DEF AgreeAt
    <3>4. Ended(L) => N.next[N.last[f[x]]] = Null
      BY <2>2, <2>6, <2>7, <2>9, <3>1 DEF Copied
    <3> QED
      BY <3>3, <3>4
  <2> QED
    BY <2>8, <2>9
<1>4. ASSUME NEW y \in Owner
      PROVE  /\ AgreeAt(N, y)
             /\ Ended(L) /\ Ended(M) /\ N.first[y] # Null => N.next[N.last[y]] = Null
  <2>1. CASE y \in Range(f)
    <3>1. PICK x \in DOMAIN f : y = f[x]
      BY <2>1 DEF Range
    <3>2. x \in Owner
      BY <1>1, <3>1 DEF Placing
    <3> QED
      BY <1>3, <3>1, <3>2
  <2>2. CASE y \notin Range(f)
    BY <1>2, <2>2
  <2> QED
    BY <2>1, <2>2
<1> QED
  BY <1>1, <1>4, AgreeIsAt, GoodLinks DEF Ended

LEMMA ImageOrders ==
    ASSUME NEW Owner, NEW Item, NEW L, Good(L, Owner, Item), NEW M, Good(M, Owner, Item),
           NEW f, Placeable(L, f, M, Owner, Item), NEW N, N = Image(L, f, M),
           Agree(L), Agree(M), Ordered(L), Ordered(M)
    PROVE  Ordered(N)
<1>1. Good(N, Owner, Item) /\ ImageOf(L, f, M, N, Owner, Item) /\ Placing(f, Owner, Item)
  BY ImageFields DEF Placeable
<1>2. PICK topL \in Nat : \E rank \in [Item -> 0 .. topL] : Ranks(L, rank)
  BY GoodLinks DEF Ordered
<1>3. PICK rankL \in [Item -> 0 .. topL] : Ranks(L, rankL)
  BY <1>2
<1>4. PICK topM \in Nat : \E rank \in [Item -> 0 .. topM] : Ranks(M, rank)
  BY GoodLinks DEF Ordered
<1>5. PICK rankM \in [Item -> 0 .. topM] : Ranks(M, rankM)
  BY <1>4
<1> DEFINE top == topL + topM
           rank == [c \in Item |-> IF c \in Range(f) THEN rankL[BackOf(f, c)] ELSE rankM[c]]
<1>6. \A x \in DOMAIN f \cap Item : rank[f[x]] = rankL[x] /\ f[x] \in Item
  BY <1>1, BackIsInverse DEF Placing
<1>7. \A c \in Item \ Range(f) : rank[c] = rankM[c]
  OBVIOUS
<1>8. rank \in [Item -> 0 .. top] /\ top \in Nat
  <2>1. ASSUME NEW c \in Item PROVE rank[c] \in 0 .. top
    <3>1. CASE c \in Range(f)
      <4>1. PICK x \in DOMAIN f : c = f[x]
        BY <3>1 DEF Range
      <4>2. x \in Item
        BY <1>1, <4>1 DEF Placing
      <4>3. rank[c] = rankL[x] /\ rankL[x] \in 0 .. topL
        BY <1>6, <4>1, <4>2
      <4> HIDE DEF rank
      <4> QED
        BY <4>3
    <3>2. CASE c \notin Range(f)
      <4>1. rank[c] = rankM[c] /\ rankM[c] \in 0 .. topM
        BY <3>2
      <4> HIDE DEF rank
      <4> QED
        BY <4>1
    <3> QED
      BY <3>1, <3>2
  <2> QED
    BY <2>1
<1> HIDE DEF rank, top
<1>9. ASSUME NEW y \in Owner, NEW c \in Members(N, y), c # N.last[y], N.next[c] # Null
      PROVE  rank[c] < rank[N.next[c]]
  <2>1. CASE y \in Range(f)
    <3>1. PICK x \in DOMAIN f : y = f[x]
      BY <2>1 DEF Range
    <3>2. x \in Owner \cap DOMAIN f
      BY <1>1, <3>1 DEF Placing
    <3>3. PICK m \in Members(L, x) : c = f[m]
      BY <1>9, <3>1, <3>2, ImageMembers
    <3>4. AgreeAt(L, x) /\ m \in Item /\ m \in DOMAIN f
      BY <3>2, <3>3, AgreeIsAt, MembersAre, GoodLinks DEF Placeable
    <3>5. m # L.last[x]
      BY <1>1, <1>9, <3>1, <3>2, <3>3, <3>4 DEF ImageOf, Copied, AgreeAt
    <3>6. L.next[m] \in Members(L, x) /\ L.next[m] # Null /\ L.next[m] \in Item
      BY <3>4, <3>5, MembersAre, GoodLinks DEF AgreeAt
    <3>7. L.next[m] \in DOMAIN f
      BY <3>2, <3>6 DEF Placeable
    <3>8. N.next[c] = f[L.next[m]]
      BY <1>1, <3>3, <3>4, <3>7 DEF ImageOf, Copied
    <3>9. rankL[m] < rankL[L.next[m]]
      BY <1>3, <3>2, <3>5, <3>6, GoodLinks DEF Ranks
    <3> QED
      BY <1>6, <3>3, <3>4, <3>6, <3>7, <3>8, <3>9
  <2>2. CASE y \notin Range(f)
    <3>1. /\ c \in Members(M, y) /\ c \notin Range(f) /\ c \in Item /\ AgreeAt(M, y)
      BY <1>9, <2>2, ImageMembers, AgreeIsAt, MembersAre, GoodLinks
    <3>2. c # M.last[y] /\ N.next[c] = M.next[c]
      BY <1>1, <1>9, <2>2, <3>1 DEF ImageOf
    <3>3. M.next[c] \in Members(M, y) /\ M.next[c] # Null /\ M.next[c] \in Item
      BY <3>1, <3>2, MembersAre, GoodLinks DEF AgreeAt
    <3>4. M.next[c] \notin Range(f)
      BY <2>2, <3>3, ImageMembers
    <3>5. rankM[c] < rankM[M.next[c]]
      BY <1>5, <3>1, <3>2, <3>3, GoodLinks DEF Ranks
    <3> QED
      BY <1>7, <3>1, <3>2, <3>3, <3>4, <3>5
  <2> QED
    BY <2>1, <2>2
<1>10. Ranks(N, rank)
  BY <1>1, <1>9, GoodLinks DEF Ranks
<1> QED
  BY <1>1, <1>8, <1>10, GoodLinks DEF Ordered

-----------------------------------------------------------------------------
(* What a call does to one kind of links. *)

\* M has links of the right kind, in order if they agree; and if L ends where its
\* last items do, M agrees and ends so too.
Keeps(L, M, Owner, Item) ==
    /\ Good(M, Owner, Item) /\ (Agree(M) => Ordered(M))
    /\ Ended(L) => Agree(M) /\ Ended(M)

OneMoreOwned(L, M, p, c) == M.owner = [L.owner EXCEPT ![c] = p]
NoMoreOwned(L, M) == \A x \in DOMAIN L.owner : M.owner[x] \in {Null, L.owner[x]}

LEMMA AddKeeps ==
    ASSUME NEW Owner, NEW Item, NEW L, Good(L, Owner, Item), Agree(L), Ordered(L),
           NEW p \in Owner, NEW c \in Item, L.owner[c] = Null,
           NEW w \in Item \cup {Null}, w # Null => L.owner[w] = p,
           NEW M, M \in {Prepend(L, p, c), AppendTo(L, p, c), InsertBefore(L, p, w, c)}
    PROVE  Keeps(L, M, Owner, Item) /\ OneMoreOwned(L, M, p, c)
<1>1. CASE M = Prepend(L, p, c)
  <2>1. Good(M, Owner, Item) /\ Prepended(L, M, p, c)
    BY <1>1, PrependLinks
  <2>2. Keeps(L, M, Owner, Item)
    BY <1>1, <2>1, PrependAgrees, PrependOrders DEF Keeps
  <2> QED
    BY <2>1, <2>2 DEF Prepended, OneMoreOwned
<1>2. CASE M = AppendTo(L, p, c)
  <2> DEFINE l == IF L.first[p] = Null THEN Null ELSE L.last[p]
  <2>1. Good(M, Owner, Item) /\ Appended(L, M, p, c, l)
    BY <1>2, AppendLinks
  <2>2. Keeps(L, M, Owner, Item)
    BY <1>2, <2>1, AppendAgrees, AppendOrders DEF Keeps
  <2> QED
    BY <2>1, <2>2 DEF Appended, OneMoreOwned
<1>3. CASE M = InsertBefore(L, p, w, c)
  <2>1. Keeps(L, M, Owner, Item)
    BY <1>3, InsertKeeps DEF Keeps
  <2>2. CASE w = L.first[p]
    <3>1. M = Prepend(L, p, c)
      BY <1>3, <2>2 DEF InsertBefore
    <3>2. Prepended(L, M, p, c)
      BY <3>1, PrependLinks
    <3> QED
      BY <2>1, <3>2 DEF Prepended, OneMoreOwned
  <2>3. CASE w # L.first[p] /\ w = Null
    <3> DEFINE l == IF L.first[p] = Null THEN Null ELSE L.last[p]
    <3>1. M = AppendTo(L, p, c)
      BY <1>3, <2>3 DEF InsertBefore
    <3>2. Appended(L, M, p, c, l)
      BY <3>1, AppendLinks
    <3> QED
      BY <2>1, <3>2 DEF Appended, OneMoreOwned
  <2>4. CASE w # L.first[p] /\ w # Null
    <3>1. M = Between(L, p, w, c)
      BY <1>3, <2>4 DEF InsertBefore
    <3>2. PutBetween(L, M, p, w, c)
      BY <2>4, <3>1, BetweenLinks
    <3> QED
      BY <2>1, <3>2 DEF PutBetween, OneMoreOwned
  <2> QED
    BY <2>2, <2>3, <2>4
<1> QED
  BY <1>1, <1>2, <1>3

LEMMA TakeFirstKeeps ==
    ASSUME NEW Owner, NEW Item, NEW L, Good(L, Owner, Item), Agree(L), Ordered(L),
           NEW p \in Owner, L.first[p] # Null, NEW M, M = WithoutFirst(L, p)
    PROVE  Keeps(L, M, Owner, Item) /\ NoMoreOwned(L, M)
<1>1. L.first[p] \in Item
  BY GoodLinks
<1>2. Good(M, Owner, Item) /\ FirstTaken(L, M, p, L.first[p])
  BY <1>1, WithoutFirstLinks
<1>3. Keeps(L, M, Owner, Item)
  BY <1>2, WithoutFirstAgrees, WithoutFirstOrders DEF Keeps
<1> QED
  BY <1>1, <1>2, <1>3, GoodLinks DEF FirstTaken, NoMoreOwned

LEMMA TakeLastKeeps ==
    ASSUME NEW Owner, NEW Item, NEW L, Good(L, Owner, Item), Agree(L), Ordered(L),
           NEW p \in Owner, L.first[p] # Null, NEW M, M = WithoutLast(L, p)
    PROVE  Keeps(L, M, Owner, Item) /\ NoMoreOwned(L, M)
<1>1. L.last[p] \in Item
  BY AgreeIsAt, MembersAre, GoodLinks DEF AgreeAt
<1>2. Good(M, Owner, Item) /\ LastTaken(L, M, p, L.last[p])
  BY <1>1, WithoutLastLinks
<1>3. Keeps(L, M, Owner, Item)
  BY <1>2, WithoutLastAgrees, WithoutLastOrders DEF Keeps
<1> QED
  BY <1>1, <1>2, <1>3, GoodLinks DEF LastTaken, NoMoreOwned

LEMMA TakeKeeps ==
    ASSUME NEW Owner, NEW Item, NEW L, Good(L, Owner, Item), Agree(L), Ordered(L),
           NEW p \in Owner, NEW c \in Item, L.owner[c] = p, NEW M, M = Without(L, p, c)
    PROVE  Keeps(L, M, Owner, Item) /\ NoMoreOwned(L, M)
<1>1. L.first[p] # Null
  BY AgreeIsAt, MembersAre, GoodLinks DEF AgreeAt
<1>2. CASE c = L.first[p]
  BY <1>1, <1>2, TakeFirstKeeps DEF Without
<1>3. CASE c # L.first[p] /\ c = L.last[p]
  BY <1>1, <1>3, TakeLastKeeps DEF Without
<1>4. CASE c # L.first[p] /\ c # L.last[p]
  <2>1. M = Inner(L, c)
    BY <1>4 DEF Without
  <2>2. InnerTaken(L, M, c)
    BY <2>1, InnerLinks
  <2>3. NoMoreOwned(L, M)
    BY <2>2, GoodLinks DEF InnerTaken, NoMoreOwned
  <2> QED
    BY <2>3, WithoutKeeps DEF Keeps
<1> QED
  BY <1>2, <1>3, <1>4

LEMMA TakeAllKeeps ==
    ASSUME NEW Owner, NEW Item, NEW L, Good(L, Owner, Item), Agree(L), Ordered(L),
           NEW p \in Owner, NEW start \in Item \cup {Null},
           IF start = Null THEN L.first[p] # Null ELSE L.owner[start] = p,
           NEW M, M = WithoutAll(L, p, start)
    PROVE  /\ NoMoreOwned(L, M)
           /\ start \in {Null, L.first[p]} => Keeps(L, M, Owner, Item)
           /\ Good(M, Owner, Item) /\ (Agree(M) => Ordered(M)) /\ (Ended(L) => Agree(M))
<1> DEFINE all == start \in {Null, L.first[p]}
           gone == From(L, IF start = Null THEN L.first[p] ELSE start)
<1>1. Good(M, Owner, Item) /\ AllTaken(L, M, p, start, all, gone)
  BY WithoutAllLinks, Zenon
<1>2. NoMoreOwned(L, M)
  BY <1>1, GoodLinks DEF AllTaken, NoMoreOwned
<1>3. Agree(M) => Ordered(M)
  BY WithoutAllOrders
<1>4. Ended(L) => Agree(M) /\ (all => Ended(M))
  BY WithoutAllAgrees
<1> QED
  BY <1>1, <1>2, <1>3, <1>4 DEF Keeps

-----------------------------------------------------------------------------
(* The invariant. *)

TreeTypeOK ==
    /\ kids \in Links(Node, Node) /\ attrs \in Links(Node, Attr)
    /\ label \in [Node \cup Attr -> Label \cup {Null}]
    /\ doc \in [Node \cup Attr -> Doc \cup {Null}]
    /\ root \in [Doc -> Node \cup {Null}] /\ valid \in [Doc -> BOOLEAN]

\* What is in a list belongs to the document of the list.
OwnersShare(L) ==
    \A c \in DOMAIN L.owner : L.owner[c] # Null => doc[c] # Null /\ doc[L.owner[c]] = doc[c]

\* A root belongs to its document and to no list.
RootsAreFree ==
    \A d \in Doc : root[d] # Null => doc[root[d]] = d /\ kids.owner[root[d]] = Null

TreeInv ==
    /\ TreeTypeOK /\ OwnersShare(kids) /\ OwnersShare(attrs) /\ RootsAreFree
    /\ Ended(attrs)
    /\ LinksAgree => Ordered(kids) /\ Ordered(attrs)

\* What a call that is not the one keeps of the ends of lists.
EndsKept ==
    Ended(kids) /\ Ended(attrs) => LinksAgree' /\ Ended(attrs)' /\ Ended(kids)'

LEMMA TreeIsGood ==
    ASSUME TreeTypeOK
    PROVE  /\ Good(kids, Node, Node) /\ Good(attrs, Node, Attr)
           /\ DOMAIN kids.owner = Node /\ DOMAIN attrs.owner = Attr
           /\ Null \notin Node \cup Attr
<1>1. Good(kids, Node, Node) /\ Good(attrs, Node, Attr) /\ Null \notin Node \cup Attr
  BY NullAssumption DEF TreeTypeOK, Good
<1> QED
  BY <1>1, GoodLinks

LEMMA InitHasInv == TreeInit => TreeInv
<1> SUFFICES ASSUME TreeInit PROVE TreeInv
  OBVIOUS
<1>1. TreeTypeOK
  BY DEF TreeInit, TreeTypeOK, Links, Unlinked
<1>2. OwnersShare(kids) /\ OwnersShare(attrs) /\ RootsAreFree
  BY DEF TreeInit, OwnersShare, RootsAreFree, Unlinked
<1>3. Ordered(kids) /\ Ordered(attrs)
  <2>1. ASSUME NEW Item, NEW L, L = Unlinked(Node, Item), Null \notin Node
        PROVE  Ordered(L)
    <3>1. DOMAIN L.owner = Item /\ DOMAIN L.first = Node /\ \A c \in Item : L.owner[c] = Null
      BY <2>1 DEF Unlinked
    <3> DEFINE rank == [c \in Item |-> 0]
    <3>2. rank \in [DOMAIN L.owner -> 0 .. 0]
      BY <3>1
    <3>3. Ranks(L, rank)
      BY <2>1, <3>1 DEF Ranks, Members
    <3> QED
      BY <3>2, <3>3 DEF Ordered
  <2> QED
    BY <2>1, NullAssumption DEF TreeInit
<1>4. Ended(attrs)
  BY DEF TreeInit, Ended, Unlinked
<1> QED
  BY <1>1, <1>2, <1>3, <1>4 DEF TreeInv

\* Calls that change the lists of children only.
LEMMA KidsStep ==
    ASSUME TreeInv, LinksAgree, KidsBecome(kids'), Good(kids', Node, Node),
           OwnersShare(kids)', RootsAreFree', Agree(kids') => Ordered(kids')
    PROVE  TreeInv'
<1>1. TreeTypeOK'
  BY DEF TreeInv, TreeTypeOK, KidsBecome, Good
<1>2. OwnersShare(attrs)'
  BY DEF TreeInv, OwnersShare, KidsBecome
<1>3. Ordered(attrs') /\ Ended(attrs')
  BY DEF TreeInv, KidsBecome
<1> QED
  BY <1>1, <1>2, <1>3 DEF TreeInv, LinksAgree

LEMMA AttrsStep ==
    ASSUME TreeInv, LinksAgree, AttrsBecome(attrs'), Good(attrs', Node, Attr),
           OwnersShare(attrs)', Ended(attrs'), Agree(attrs') => Ordered(attrs')
    PROVE  TreeInv'
<1>1. TreeTypeOK'
  BY DEF TreeInv, TreeTypeOK, AttrsBecome, Good
<1>2. OwnersShare(kids)' /\ RootsAreFree'
  BY DEF TreeInv, OwnersShare, RootsAreFree, AttrsBecome
<1>3. Ordered(kids')
  BY DEF TreeInv, AttrsBecome
<1> QED
  BY <1>1, <1>2, <1>3 DEF TreeInv, LinksAgree

LEMMA OneMoreShares ==
    ASSUME NEW Item, NEW L, Good(L, Node, Item), NEW M, Good(M, Node, Item),
           NEW p \in Node, NEW c \in Item, OneMoreOwned(L, M, p, c),
           OwnersShare(L), doc[c] = doc[p], doc[p] # Null
    PROVE  OwnersShare(M)
  BY GoodLinks DEF OneMoreOwned, OwnersShare

LEMMA NoMoreShares ==
    ASSUME NEW Item, NEW L, Good(L, Node, Item), NEW M, Good(M, Node, Item),
           NoMoreOwned(L, M), OwnersShare(L)
    PROVE  OwnersShare(M)
  BY GoodLinks DEF NoMoreOwned, OwnersShare

LEMMA AddChildStep ==
    ASSUME TreeInv, LinksAgree, NEW p \in Node, NEW c \in Node, Addable(p, c),
           NEW w \in Node \cup {Null}, w # Null => kids.owner[w] = p, KidsBecome(kids'),
           kids' \in {Prepend(kids, p, c), AppendTo(kids, p, c), InsertBefore(kids, p, w, c)}
    PROVE  TreeInv' /\ EndsKept
<1>1. /\ Good(kids, Node, Node) /\ Agree(kids) /\ Ordered(kids) /\ kids.owner[c] = Null
      /\ DOMAIN kids.owner = Node
  BY TreeIsGood DEF TreeInv, LinksAgree, Addable
<1>2. Keeps(kids, kids', Node, Node) /\ OneMoreOwned(kids, kids', p, c)
  BY <1>1, AddKeeps
<1>3. Good(kids', Node, Node) /\ (Agree(kids') => Ordered(kids'))
  BY <1>2 DEF Keeps
<1>4. OwnersShare(kids)'
  <2>1. OwnersShare(kids')
    BY <1>1, <1>2, <1>3, OneMoreShares DEF TreeInv, Addable
  <2> QED
    BY <2>1 DEF OwnersShare, KidsBecome
<1>5. RootsAreFree'
  BY <1>1, <1>2 DEF TreeInv, TreeTypeOK, RootsAreFree, OneMoreOwned, KidsBecome, Addable
<1>6. EndsKept
  BY <1>2 DEF Keeps, EndsKept, LinksAgree, KidsBecome
<1> QED
  BY <1>3, <1>4, <1>5, <1>6, KidsStep

LEMMA AddAttrStep ==
    ASSUME TreeInv, LinksAgree, NEW p \in Node, NEW a \in Attr, AttrAddable(p, a),
           NEW w \in Attr \cup {Null}, w # Null => attrs.owner[w] = p, AttrsBecome(attrs'),
           attrs' \in {Prepend(attrs, p, a), AppendTo(attrs, p, a),
                       InsertBefore(attrs, p, w, a)}
    PROVE  TreeInv' /\ EndsKept
<1>1. Good(attrs, Node, Attr) /\ Agree(attrs) /\ Ordered(attrs) /\ attrs.owner[a] = Null
  BY TreeIsGood DEF TreeInv, LinksAgree, AttrAddable
<1>2. Keeps(attrs, attrs', Node, Attr) /\ OneMoreOwned(attrs, attrs', p, a)
  BY <1>1, AddKeeps
<1>3. Good(attrs', Node, Attr) /\ (Agree(attrs') => Ordered(attrs'))
  BY <1>2 DEF Keeps
<1>4. OwnersShare(attrs)'
  <2>1. OwnersShare(attrs')
    BY <1>1, <1>2, <1>3, OneMoreShares DEF TreeInv, AttrAddable
  <2> QED
    BY <2>1 DEF OwnersShare, AttrsBecome
<1>5. EndsKept
  BY <1>2 DEF Keeps, EndsKept, LinksAgree, AttrsBecome
<1>6. Ended(attrs')
  BY <1>2 DEF Keeps, TreeInv
<1> QED
  BY <1>3, <1>4, <1>5, <1>6, AttrsStep

LEMMA TakeChildStep ==
    ASSUME TreeInv, LinksAgree, KidsBecome(kids'), NoMoreOwned(kids, kids'),
           Good(kids', Node, Node), Agree(kids') => Ordered(kids')
    PROVE  TreeInv'
<1>1. Good(kids, Node, Node) /\ DOMAIN kids.owner = Node
  BY TreeIsGood DEF TreeInv
<1>2. OwnersShare(kids)'
  <2>1. OwnersShare(kids')
    BY <1>1, NoMoreShares DEF TreeInv
  <2> QED
    BY <2>1 DEF OwnersShare, KidsBecome
<1>3. RootsAreFree'
  BY <1>1 DEF TreeInv, TreeTypeOK, RootsAreFree, NoMoreOwned, KidsBecome
<1> QED
  BY <1>2, <1>3, KidsStep

LEMMA TakeAttrStep ==
    ASSUME TreeInv, LinksAgree, AttrsBecome(attrs'), NoMoreOwned(attrs, attrs'),
           Keeps(attrs, attrs', Node, Attr)
    PROVE  TreeInv' /\ EndsKept
<1>1. Good(attrs, Node, Attr) /\ Good(attrs', Node, Attr)
  BY TreeIsGood DEF TreeInv, Keeps
<1>2. OwnersShare(attrs)'
  <2>1. OwnersShare(attrs')
    BY <1>1, NoMoreShares DEF TreeInv
  <2> QED
    BY <2>1 DEF OwnersShare, AttrsBecome
<1>3. EndsKept
  BY DEF Keeps, EndsKept, LinksAgree, AttrsBecome
<1>4. Ended(attrs')
  BY DEF Keeps, TreeInv
<1> QED
  BY <1>1, <1>2, <1>3, <1>4, AttrsStep DEF Keeps

\* A call that only removes children.
LEMMA RemoveStep ==
    ASSUME TreeInv, LinksAgree, NEW p \in Node, NEW c \in Node,
           \/ RemoveFirstChild(p) \/ RemoveLastChild(p) \/ RemoveChild(p, c)
           \/ RemoveFirstAttr(p) \/ RemoveLastAttr(p) \/ RemoveAllAttrs(p)
           \/ \E a \in Attr : RemoveAttr(p, a)
    PROVE  TreeInv' /\ EndsKept
<1>1. /\ Good(kids, Node, Node) /\ Agree(kids) /\ Ordered(kids)
      /\ Good(attrs, Node, Attr) /\ Agree(attrs) /\ Ordered(attrs)
  BY TreeIsGood DEF TreeInv, LinksAgree
<1>2. ASSUME KidsBecome(kids'), NoMoreOwned(kids, kids'), Keeps(kids, kids', Node, Node)
      PROVE  TreeInv' /\ EndsKept
  <2>1. EndsKept
    BY <1>2 DEF Keeps, EndsKept, LinksAgree, KidsBecome
  <2> QED
    BY <1>2, <2>1, TakeChildStep DEF Keeps
<1>3. CASE RemoveFirstChild(p)
  <2>1. kids.first[p] # Null /\ kids' = WithoutFirst(kids, p) /\ KidsBecome(kids')
    BY <1>3 DEF RemoveFirstChild, KidsBecome
  <2> QED
    BY <1>1, <1>2, <2>1, TakeFirstKeeps
<1>4. CASE RemoveLastChild(p)
  <2>1. kids.first[p] # Null /\ kids' = WithoutLast(kids, p) /\ KidsBecome(kids')
    BY <1>4 DEF RemoveLastChild, KidsBecome
  <2> QED
    BY <1>1, <1>2, <2>1, TakeLastKeeps
<1>5. CASE RemoveChild(p, c)
  <2>1. kids.owner[c] = p /\ kids' = Without(kids, p, c) /\ KidsBecome(kids')
    BY <1>5 DEF RemoveChild, KidsBecome
  <2> QED
    BY <1>1, <1>2, <2>1, TakeKeeps
<1>6. CASE RemoveFirstAttr(p)
  <2>1. attrs.first[p] # Null /\ attrs' = WithoutFirst(attrs, p) /\ AttrsBecome(attrs')
    BY <1>6 DEF RemoveFirstAttr, AttrsBecome
  <2> QED
    BY <1>1, <2>1, TakeFirstKeeps, TakeAttrStep
<1>7. CASE RemoveLastAttr(p)
  <2>1. attrs.first[p] # Null /\ attrs' = WithoutLast(attrs, p) /\ AttrsBecome(attrs')
    BY <1>7 DEF RemoveLastAttr, AttrsBecome
  <2> QED
    BY <1>1, <2>1, TakeLastKeeps, TakeAttrStep
<1>8. CASE RemoveAllAttrs(p)
  <2>1. attrs.first[p] # Null /\ attrs' = WithoutAll(attrs, p, Null) /\ AttrsBecome(attrs')
    BY <1>8 DEF RemoveAllAttrs, AttrsBecome
  <2>2. NoMoreOwned(attrs, attrs') /\ Keeps(attrs, attrs', Node, Attr)
    BY <1>1, <2>1, TakeAllKeeps
  <2> QED
    BY <2>1, <2>2, TakeAttrStep
<1>9. ASSUME NEW a \in Attr, RemoveAttr(p, a)
      PROVE  TreeInv' /\ EndsKept
  <2>1. attrs.owner[a] = p /\ attrs' = Without(attrs, p, a) /\ AttrsBecome(attrs')
    BY <1>9 DEF RemoveAttr, AttrsBecome
  <2> QED
    BY <1>1, <2>1, TakeKeeps, TakeAttrStep
<1> QED
  BY <1>3, <1>4, <1>5, <1>6, <1>7, <1>8, <1>9

\* The one call that may leave a list without an end.
LEMMA RemoveAllStep ==
    ASSUME TreeInv, LinksAgree, NEW p \in Node, NEW c \in Node \cup {Null},
           RemoveAllChildren(p, c)
    PROVE  /\ TreeInv'
           /\ Ended(kids) /\ Ended(attrs) => LinksAgree' /\ Ended(attrs)'
           /\ c \in {Null, kids.first[p]} => EndsKept
<1>1. Good(kids, Node, Node) /\ Agree(kids) /\ Ordered(kids)
  BY TreeIsGood DEF TreeInv, LinksAgree
<1>2. /\ IF c = Null THEN kids.first[p] # Null ELSE kids.owner[c] = p
      /\ kids' = WithoutAll(kids, p, c) /\ KidsBecome(kids')
  BY DEF RemoveAllChildren, KidsBecome
<1>3. /\ NoMoreOwned(kids, kids') /\ Good(kids', Node, Node)
      /\ Agree(kids') => Ordered(kids')
      /\ Ended(kids) => Agree(kids')
      /\ c \in {Null, kids.first[p]} => Keeps(kids, kids', Node, Node)
  BY <1>1, <1>2, TakeAllKeeps
<1>4. TreeInv'
  BY <1>2, <1>3, TakeChildStep
<1>5. Ended(kids) /\ Ended(attrs) => LinksAgree' /\ Ended(attrs)'
  BY <1>2, <1>3 DEF LinksAgree, KidsBecome
<1>6. c \in {Null, kids.first[p]} => EndsKept
  BY <1>3, <1>5 DEF Keeps, EndsKept
<1> QED
  BY <1>4, <1>5, <1>6

\* Calls that leave the links alone.
LEMMA PlainStep ==
    ASSUME TreeInv, LinksAgree, NEW d \in Doc, NEW x \in Node \cup Attr, NEW l \in Label,
           Alloc(x, d, l) \/ SetLabel(x, l) \/ Exhaust(d)
    PROVE  TreeInv' /\ EndsKept
<1>1. kids' = kids /\ attrs' = attrs /\ root' = root
  BY DEF Alloc, Allocated, SetLabel, Exhaust
<1>2. /\ label' \in [Node \cup Attr -> Label \cup {Null}]
      /\ doc' \in [Node \cup Attr -> Doc \cup {Null}]
      /\ valid' \in [Doc -> BOOLEAN]
  BY DEF TreeInv, TreeTypeOK, Alloc, Allocated, SetLabel, Exhaust
<1>3. TreeTypeOK'
  BY <1>1, <1>2 DEF TreeInv, TreeTypeOK
<1>4. \A y \in Node \cup Attr : doc[y] # Null => doc'[y] = doc[y]
  BY DEF TreeInv, TreeTypeOK, Alloc, Allocated, SetLabel, Exhaust
<1>5. OwnersShare(kids)' /\ OwnersShare(attrs)'
  <2>1. ASSUME NEW Item \in {Node, Attr}, NEW L, Good(L, Node, Item), OwnersShare(L)
        PROVE  \A c \in DOMAIN L.owner :
                  L.owner[c] # Null => doc'[c] # Null /\ doc'[L.owner[c]] = doc'[c]
    BY <1>4, <2>1, GoodLinks DEF OwnersShare
  <2> QED
    BY <1>1, <2>1, TreeIsGood DEF TreeInv, OwnersShare
<1>6. RootsAreFree'
  BY <1>1, <1>4, NullAssumption DEF TreeInv, TreeTypeOK, RootsAreFree
<1>7. EndsKept
  BY <1>1 DEF EndsKept, LinksAgree
<1> QED
  BY <1>1, <1>3, <1>5, <1>6, <1>7 DEF TreeInv, LinksAgree

\* A new last child, or a new last attribute.
LEMMA AppendNewChild ==
    ASSUME TreeInv, LinksAgree, NEW p \in Node, NEW c \in Node, NEW l \in Label,
           AppendChildStr(p, c, l)
    PROVE  TreeInv' /\ EndsKept
<1>1. /\ Good(kids, Node, Node) /\ Agree(kids) /\ Ordered(kids) /\ DOMAIN kids.owner = Node
      /\ Good(attrs, Node, Attr) /\ Null \notin Node
  BY TreeIsGood DEF TreeInv, LinksAgree
<1>2. /\ doc[p] # Null /\ doc[c] = Null /\ kids' = AppendTo(kids, p, c)
      /\ doc' = [doc EXCEPT ![c] = doc[p]] /\ label' = [label EXCEPT ![c] = l]
      /\ root' = root /\ valid' = valid /\ attrs' = attrs
  BY DEF AppendChildStr, Allocated
<1>3. kids.owner[c] = Null
  BY <1>1, <1>2 DEF TreeInv, OwnersShare
<1>4. Keeps(kids, kids', Node, Node) /\ OneMoreOwned(kids, kids', p, c)
  BY <1>1, <1>2, <1>3, AddKeeps
<1>5. Good(kids', Node, Node) /\ (Agree(kids') => Ordered(kids'))
  BY <1>4 DEF Keeps
<1>6. TreeTypeOK'
  BY <1>2, <1>5 DEF TreeInv, TreeTypeOK, Good
<1>7. \A y \in Node \cup Attr : doc'[y] = IF y = c THEN doc[p] ELSE doc[y]
  BY <1>2 DEF TreeInv, TreeTypeOK
<1>8. OwnersShare(kids)'
  BY <1>1, <1>2, <1>4, <1>7, GoodLinks DEF TreeInv, OwnersShare, OneMoreOwned
<1>9. OwnersShare(attrs)'
  BY <1>1, <1>2, <1>7, GoodLinks DEF TreeInv, OwnersShare
<1>10. RootsAreFree'
  <2> SUFFICES ASSUME NEW e \in Doc, root[e] # Null
               PROVE  doc'[root[e]] = e /\ kids'.owner[root[e]] = Null
    BY <1>2 DEF RootsAreFree
  <2>1. root[e] \in Node /\ doc[root[e]] = e /\ e # Null /\ kids.owner[root[e]] = Null
    BY NullAssumption DEF TreeInv, TreeTypeOK, RootsAreFree
  <2> QED
    BY <1>1, <1>2, <1>4, <1>7, <2>1, GoodLinks DEF OneMoreOwned
<1>11. EndsKept
  BY <1>2, <1>4 DEF Keeps, EndsKept, LinksAgree
<1> QED
  BY <1>2, <1>5, <1>6, <1>8, <1>9, <1>10, <1>11 DEF TreeInv, LinksAgree

LEMMA AppendNewAttr ==
    ASSUME TreeInv, LinksAgree, NEW p \in Node, NEW a \in Attr, NEW l \in Label,
           AppendAttrStr(p, a, l)
    PROVE  TreeInv' /\ EndsKept
<1>1. /\ Good(attrs, Node, Attr) /\ Agree(attrs) /\ Ordered(attrs) /\ DOMAIN attrs.owner = Attr
      /\ Good(kids, Node, Node) /\ DOMAIN kids.owner = Node
  BY TreeIsGood DEF TreeInv, LinksAgree
<1>2. /\ doc[p] # Null /\ doc[a] = Null /\ attrs' = AppendTo(attrs, p, a)
      /\ doc' = [doc EXCEPT ![a] = doc[p]] /\ label' = [label EXCEPT ![a] = l]
      /\ root' = root /\ valid' = valid /\ kids' = kids
  BY DEF AppendAttrStr, Allocated
<1>3. attrs.owner[a] = Null
  BY <1>1, <1>2 DEF TreeInv, OwnersShare
<1>4. Keeps(attrs, attrs', Node, Attr) /\ OneMoreOwned(attrs, attrs', p, a)
  BY <1>1, <1>2, <1>3, AddKeeps
<1>5. Good(attrs', Node, Attr) /\ (Agree(attrs') => Ordered(attrs'))
  BY <1>4 DEF Keeps
<1>6. TreeTypeOK'
  BY <1>2, <1>5 DEF TreeInv, TreeTypeOK, Good
<1>7. \A y \in Node \cup Attr : doc'[y] = IF y = a THEN doc[p] ELSE doc[y]
  BY <1>2 DEF TreeInv, TreeTypeOK
<1>8. OwnersShare(attrs)'
  BY <1>1, <1>2, <1>4, <1>7, GoodLinks DEF TreeInv, OwnersShare, OneMoreOwned
<1>9. OwnersShare(kids)'
  BY <1>1, <1>2, <1>7, GoodLinks DEF TreeInv, OwnersShare
<1>10. RootsAreFree'
  BY <1>1, <1>2, <1>7, NullAssumption, GoodLinks DEF TreeInv, TreeTypeOK, RootsAreFree
<1>11. EndsKept
  BY <1>2, <1>4 DEF Keeps, EndsKept, LinksAgree
<1>12. Ended(attrs')
  BY <1>4 DEF Keeps, TreeInv
<1> QED
  BY <1>2, <1>5, <1>6, <1>8, <1>9, <1>10, <1>11, <1>12 DEF TreeInv, LinksAgree

\* The document d is cleared, and n is its root from then on, or Null.
LEMMA ClearedStep ==
    ASSUME TreeInv, LinksAgree, NEW d \in Doc, NEW n \in Node \cup {Null},
           n # Null => doc[n] = Null,
           kids' = ForgetLinks(kids, Of(d)), attrs' = ForgetLinks(attrs, Of(d)),
           label' = Forget(label, Of(d)), root' = [root EXCEPT ![d] = n],
           valid' = [valid EXCEPT ![d] = TRUE],
           doc' = [x \in Node \cup Attr |-> IF x = n THEN d ELSE Forget(doc, Of(d))[x]]
    PROVE  TreeInv' /\ EndsKept
<1>1. /\ Good(kids, Node, Node) /\ Agree(kids) /\ Ordered(kids) /\ DOMAIN kids.owner = Node
      /\ Good(attrs, Node, Attr) /\ Agree(attrs) /\ Ordered(attrs)
      /\ DOMAIN attrs.owner = Attr /\ Null \notin Node \cup Attr /\ d # Null
  BY TreeIsGood, NullAssumption DEF TreeInv, LinksAgree
<1>2. \A x \in Node \cup Attr : x \in Of(d) <=> doc[x] = d
  BY DEF Of
<1>3. /\ \A c \in Node : kids.owner[c] # Null => (c \in Of(d) <=> kids.owner[c] \in Of(d))
      /\ \A c \in Attr : attrs.owner[c] # Null => (c \in Of(d) <=> attrs.owner[c] \in Of(d))
  BY <1>1, <1>2, GoodLinks DEF TreeInv, OwnersShare
<1>4. Agree(kids') /\ (Ended(kids) => Ended(kids')) /\ Ordered(kids')
  BY <1>1, <1>3, ForgetKeeps
<1>5. Agree(attrs') /\ (Ended(attrs) => Ended(attrs')) /\ Ordered(attrs')
  BY <1>1, <1>3, ForgetKeeps
<1>6. Good(kids', Node, Node) /\ Good(attrs', Node, Attr)
  BY <1>1, ForgetFields
<1>7. /\ \A c \in Node : kids'.owner[c] = IF c \in Of(d) THEN Null ELSE kids.owner[c]
      /\ \A c \in Attr : attrs'.owner[c] = IF c \in Of(d) THEN Null ELSE attrs.owner[c]
      /\ DOMAIN kids'.owner = Node /\ DOMAIN attrs'.owner = Attr
  BY <1>1, <1>6, ForgetFields, ForgetIsFunction, GoodLinks DEF Forgotten
<1>8. /\ label' \in [Node \cup Attr -> Label \cup {Null}]
      /\ Forget(doc, Of(d)) \in [Node \cup Attr -> Doc \cup {Null}]
      /\ \A x \in Node \cup Attr :
            Forget(doc, Of(d))[x] = IF x \in Of(d) THEN Null ELSE doc[x]
  <2>1. label \in [Node \cup Attr -> Label \cup {Null}]
        /\ doc \in [Node \cup Attr -> Doc \cup {Null}]
    BY DEF TreeInv, TreeTypeOK
  <2>2. label' \in [Node \cup Attr -> Label \cup {Null}]
    BY <2>1, ForgetIsFunction
  <2>3. /\ Forget(doc, Of(d)) \in [Node \cup Attr -> Doc \cup {Null}]
        /\ \A x \in Node \cup Attr :
              Forget(doc, Of(d))[x] = IF x \in Of(d) THEN Null ELSE doc[x]
    BY <2>1 DEF Forget
  <2> QED
    BY <2>2, <2>3
<1>9. TreeTypeOK'
  BY <1>6, <1>8 DEF TreeInv, TreeTypeOK, Good
<1>10. \A x \in Node \cup Attr :
          doc'[x] = IF x = n THEN d ELSE IF doc[x] = d THEN Null ELSE doc[x]
  BY <1>2, <1>8
<1>11. OwnersShare(kids)' /\ OwnersShare(attrs)'
  <2>2. ASSUME NEW c \in Node, kids'.owner[c] # Null
        PROVE  doc'[c] # Null /\ doc'[kids'.owner[c]] = doc'[c]
    <3>1. /\ c \notin Of(d) /\ kids.owner[c] = kids'.owner[c] /\ kids.owner[c] # Null
          /\ kids.owner[c] \in Node
      BY <1>1, <1>7, <2>2, GoodLinks
    <3>2. doc[c] # d /\ doc[c] # Null /\ doc[kids.owner[c]] = doc[c]
      BY <1>1, <1>2, <3>1 DEF TreeInv, OwnersShare
    <3>3. c # n /\ kids.owner[c] # n
      BY <1>1, <3>1, <3>2
    <3> QED
      BY <1>10, <3>1, <3>2, <3>3
  <2>3. ASSUME NEW c \in Attr, attrs'.owner[c] # Null
        PROVE  doc'[c] # Null /\ doc'[attrs'.owner[c]] = doc'[c]
    <3>1. /\ c \notin Of(d) /\ attrs.owner[c] = attrs'.owner[c] /\ attrs.owner[c] # Null
          /\ attrs.owner[c] \in Node
      BY <1>1, <1>7, <2>3, GoodLinks
    <3>2. doc[c] # d /\ doc[c] # Null /\ doc[attrs.owner[c]] = doc[c]
      BY <1>1, <1>2, <3>1 DEF TreeInv, OwnersShare
    <3>3. c # n /\ attrs.owner[c] # n
      BY <1>1, <3>1, <3>2
    <3> QED
      BY <1>10, <3>1, <3>2, <3>3
  <2> QED
    BY <1>7, <2>2, <2>3 DEF OwnersShare
<1>12. RootsAreFree'
  <2> SUFFICES ASSUME NEW e \in Doc, root'[e] # Null
               PROVE  doc'[root'[e]] = e /\ kids'.owner[root'[e]] = Null
    BY DEF RootsAreFree
  <2>1. CASE e = d
    <3>1. root'[e] = n /\ n \in Node
      BY <2>1 DEF TreeInv, TreeTypeOK
    <3>2. kids.owner[n] = Null
      BY <1>1, <3>1 DEF TreeInv, OwnersShare
    <3> QED
      BY <1>7, <1>10, <2>1, <3>1, <3>2
  <2>2. CASE e # d
    <3>1. root'[e] = root[e] /\ root[e] \in Node /\ doc[root[e]] = e /\ e # Null
          /\ kids.owner[root[e]] = Null
      BY <2>2, NullAssumption DEF TreeInv, TreeTypeOK, RootsAreFree
    <3> QED
      BY <1>1, <1>7, <1>10, <2>2, <3>1
  <2> QED
    BY <2>1, <2>2
<1>13. EndsKept
  BY <1>4, <1>5 DEF EndsKept, LinksAgree
<1> QED
  BY <1>4, <1>5, <1>9, <1>11, <1>12, <1>13 DEF TreeInv

LEMMA ClearStep ==
    ASSUME TreeInv, LinksAgree, NEW d \in Doc, Clear(d)
    PROVE  TreeInv' /\ EndsKept
<1>1. doc' = [x \in Node \cup Attr |-> IF x = Null THEN d ELSE Forget(doc, Of(d))[x]]
  <2>1. Null \notin Node \cup Attr
    BY TreeIsGood DEF TreeInv
  <2>2. Forget(doc, Of(d)) \in [Node \cup Attr -> Doc \cup {Null}]
    BY ForgetIsFunction DEF TreeInv, TreeTypeOK
  <2> QED
    BY <2>1, <2>2 DEF Clear
<1> QED
  BY <1>1, ClearedStep DEF Clear

LEMMA AllocRootStep ==
    ASSUME TreeInv, LinksAgree, NEW d \in Doc, NEW n \in Node, AllocRoot(d, n)
    PROVE  TreeInv' /\ EndsKept
<1>1. doc' = [x \in Node \cup Attr |-> IF x = n THEN d ELSE Forget(doc, Of(d))[x]]
  <2>1. Forget(doc, Of(d)) \in [Node \cup Attr -> Doc \cup {Null}]
    BY ForgetIsFunction DEF TreeInv, TreeTypeOK
  <2> QED
    BY <2>1 DEF AllocRoot
<1> QED
  BY <1>1, ClearedStep DEF AllocRoot

\* The addresses for copies are free, of the kind of what is copied, and apart.
LEMMA FreshPlaces ==
    ASSUME NEW S, NEW f \in Fresh(S)
    PROVE  /\ DOMAIN f = S
           /\ \A x \in S : /\ f[x] \in Node \cup Attr /\ doc[f[x]] = Null
                           /\ x \in Node <=> f[x] \in Node
           /\ \A x, y \in S : f[x] = f[y] => x = y
<1> DEFINE free == {x \in Node \cup Attr : doc[x] = Null}
           OfKind(g) == \A x \in S : x \in Node <=> g[x] \in Node
           places == {g \in [S -> free] : OfKind(g) /\ IsInjective(g)}
<1>1. places # {} /\ f = CHOOSE g \in places : TRUE
  BY Zenon DEF Fresh
<1>2. f \in places
  BY <1>1
<1> QED
  BY <1>2 DEF IsInjective

\* The tree of a document holds all children of its nodes.
LEMMA TreeIsClosed ==
    ASSUME TreeInv, NEW s \in Doc
    PROVE  /\ root[s] # Null => root[s] \in InTree(s)
           /\ \A q \in InTree(s) : Members(kids, q) \subseteq InTree(s)
<1>0. DOMAIN kids.owner = Node /\ Null \notin Node
  BY TreeIsGood DEF TreeInv
<1>1. root[s] # Null => root[s] \in InTree(s)
  BY DEF TreeInv, TreeTypeOK, InTree, Above
<1>2. ASSUME NEW q \in InTree(s), NEW c \in Members(kids, q)
      PROVE  c \in InTree(s)
  <2>1. q \in Node /\ c \in Node /\ kids.owner[c] = q /\ root[s] \in Above(q)
    BY <1>0 DEF InTree, Members
  <2>2. ASSUME NEW S \in SUBSET Node, c \in S,
               \A z \in S : kids.owner[z] \in S \cup {Null}
        PROVE  root[s] \in S
    <3>1. q \in S
      BY <1>0, <2>1, <2>2
    <3> QED
      BY <2>1, <2>2, <3>1 DEF Above
  <2>3. root[s] \in Node
    BY <2>1 DEF Above
  <2>4. root[s] \in Above(c)
    BY <2>2, <2>3 DEF Above
  <2> QED
    BY <2>1, <2>4 DEF InTree
<1> QED
  BY <1>1, <1>2

\* What the copy of one kind of links is: Item is what the lists are of.
IsCopy(L, N, f, d, Item) ==
    /\ Good(N, Node, Item) /\ Agree(N) /\ Ordered(N) /\ (Ended(L) => Ended(N))
    /\ \A x \in DOMAIN f \cap Item :
          f[x] \in Item /\ N.owner[f[x]] = Copied(f, L.owner[x])
    /\ \A c \in Item \ Range(f) : N.owner[c] = IF doc[c] = d THEN Null ELSE L.owner[c]

LEMMA CopiedLinks ==
    ASSUME NEW Item \in SUBSET (Node \cup Attr), NEW L, Good(L, Node, Item), Agree(L),
           Ordered(L), Null \notin Doc,
           \A c \in Item : L.owner[c] # Null => doc[c] # Null /\ doc[L.owner[c]] = doc[c],
           NEW d \in Doc, NEW f, Placing(f, Node, Item),
           \A x \in DOMAIN f : doc[f[x]] = Null,
           \A q \in Node \cap DOMAIN f : Members(L, q) \subseteq DOMAIN f,
           NEW M, M = ForgetLinks(L, Of(d)), NEW N, N = Image(L, f, M)
    PROVE  IsCopy(L, N, f, d, Item)
<1>1. \A x \in Node \cup Attr : x \in Of(d) <=> doc[x] = d
  BY DEF Of
<1>2. \A c \in Item : L.owner[c] # Null => (c \in Of(d) <=> L.owner[c] \in Of(d))
  BY <1>1, GoodLinks
<1>3. /\ Agree(M) /\ (Ended(L) => Ended(M)) /\ Ordered(M)
      /\ \A q \in Node : Members(M, q) = IF q \in Of(d) THEN {} ELSE Members(L, q)
  BY <1>2, ForgetKeeps
<1>4. Good(M, Node, Item) /\ Forgotten(L, M, Of(d))
  BY ForgetFields
<1>5. \A c \in Item : M.owner[c] = IF doc[c] = d THEN Null ELSE L.owner[c]
  BY <1>1, <1>4, ForgetIsFunction, GoodLinks DEF Forgotten
<1>6. \A y \in Range(f) : doc[y] = Null
  BY DEF Range
<1>7. \A y \in Node \cap Range(f) : Members(M, y) = {}
  <2>1. ASSUME NEW y \in Node \cap Range(f), NEW c \in Members(L, y)
        PROVE  FALSE
    <3>1. c \in Item /\ L.owner[c] = y /\ y # Null
      BY MembersAre, GoodLinks
    <3> QED
      BY <1>6, <3>1
  <2>2. \A y \in Node \cap Range(f) : Members(L, y) = {}
    BY <2>1
  <2> QED
    BY <1>3, <2>2
<1>8. \A y \in Item \cap Range(f) : M.owner[y] = Null
  BY <1>5, <1>6
<1>9. Placeable(L, f, M, Node, Item)
  BY <1>7, <1>8 DEF Placeable
<1>10. Good(N, Node, Item) /\ ImageOf(L, f, M, N, Node, Item)
  BY <1>4, ImageFields
<1>11. Agree(N) /\ (Ended(L) => Ended(N)) /\ Ordered(N)
  BY <1>3, <1>4, <1>9, ImageAgrees, ImageOrders
<1>12. \A x \in DOMAIN f \cap Item : f[x] \in Item
  BY DEF Placing
<1> QED
  BY <1>5, <1>10, <1>11, <1>12 DEF ImageOf, IsCopy

LEMMA CopyStep ==
    ASSUME TreeInv, LinksAgree, NEW d \in Doc, NEW s \in Doc, CopyDocument(d, s)
    PROVE  TreeInv' /\ EndsKept
<1>1. PICK f \in Fresh(Ours(s)) :
         /\ kids' = Image(kids, f, ForgetLinks(kids, Of(d)))
         /\ attrs' = Image(attrs, f, ForgetLinks(attrs, Of(d)))
         /\ label' = [x \in DOMAIN label |->
                        IF x \in Range(f) THEN label[BackOf(f, x)]
                        ELSE Forget(label, Of(d))[x]]
         /\ doc' = [x \in DOMAIN doc |->
                      IF x \in Range(f) THEN d ELSE Forget(doc, Of(d))[x]]
         /\ root' = [root EXCEPT ![d] = f[root[s]]]
         /\ valid' = [valid EXCEPT ![d] = TRUE]
  BY Zenon DEF CopyDocument, BackOf
<1>2. root[s] # Null
  BY DEF CopyDocument
<1>3. /\ Good(kids, Node, Node) /\ Agree(kids) /\ Ordered(kids) /\ DOMAIN kids.owner = Node
      /\ Good(attrs, Node, Attr) /\ Agree(attrs) /\ Ordered(attrs)
      /\ DOMAIN attrs.owner = Attr /\ Null \notin Node \cup Attr /\ Null \notin Doc
  BY TreeIsGood, NullAssumption DEF TreeInv, LinksAgree
<1>4. /\ DOMAIN f = Ours(s)
      /\ \A x \in Ours(s) : /\ f[x] \in Node \cup Attr /\ doc[f[x]] = Null
                            /\ x \in Node <=> f[x] \in Node
      /\ \A x, y \in Ours(s) : f[x] = f[y] => x = y
  BY FreshPlaces
<1>5. /\ Ours(s) \subseteq Node \cup Attr /\ Node \cap Ours(s) = InTree(s)
      /\ \A a \in Attr : attrs.owner[a] \in InTree(s) => a \in Ours(s)
  BY AddressAssumption DEF Ours, InTree
<1>6. Placing(f, Node, Node) /\ Placing(f, Node, Attr)
  BY <1>3, <1>4, <1>5, AddressAssumption DEF Placing
<1>7. /\ \A q \in Node \cap DOMAIN f : Members(kids, q) \subseteq DOMAIN f
      /\ \A q \in Node \cap DOMAIN f : Members(attrs, q) \subseteq DOMAIN f
  <2>1. \A q \in InTree(s) : Members(kids, q) \subseteq InTree(s)
    BY TreeIsClosed
  <2>2. \A q \in InTree(s) : Members(attrs, q) \subseteq Ours(s)
    BY <1>3, <1>5 DEF Members
  <2> QED
    BY <1>4, <1>5, <2>1, <2>2
<1>8. IsCopy(kids, kids', f, d, Node)
  <2>1. \A c \in Node : kids.owner[c] # Null => doc[c] # Null /\ doc[kids.owner[c]] = doc[c]
    BY <1>3 DEF TreeInv, OwnersShare
  <2>2. \A x \in DOMAIN f : doc[f[x]] = Null
    BY <1>4
  <2> QED
    BY <1>1, <1>3, <1>6, <1>7, <2>1, <2>2, CopiedLinks
<1>9. IsCopy(attrs, attrs', f, d, Attr)
  <2>1. \A c \in Attr :
           attrs.owner[c] # Null => doc[c] # Null /\ doc[attrs.owner[c]] = doc[c]
    BY <1>3 DEF TreeInv, OwnersShare
  <2>2. \A x \in DOMAIN f : doc[f[x]] = Null
    BY <1>4
  <2> QED
    BY <1>1, <1>3, <1>6, <1>7, <2>1, <2>2, CopiedLinks
<1>10. root[s] \in Node \cap DOMAIN f
  BY <1>2, <1>4, <1>5, TreeIsClosed
<1>11. \A y \in Range(f) : BackOf(f, y) \in Node \cup Attr /\ doc[y] = Null
  <2>1. ASSUME NEW y \in Range(f)
        PROVE  BackOf(f, y) \in Node \cup Attr /\ doc[y] = Null
    <3>1. PICK x \in DOMAIN f : y = f[x]
      BY DEF Range
    <3> QED
      BY <1>4, <1>5, <1>6, <3>1, BackIsInverse
  <2> QED
    BY <2>1
<1>12. /\ label \in [Node \cup Attr -> Label \cup {Null}]
       /\ doc \in [Node \cup Attr -> Doc \cup {Null}]
       /\ root \in [Doc -> Node \cup {Null}] /\ valid \in [Doc -> BOOLEAN]
  BY DEF TreeInv, TreeTypeOK
<1>13. /\ label' \in [Node \cup Attr -> Label \cup {Null}]
       /\ doc' \in [Node \cup Attr -> Doc \cup {Null}]
       /\ \A x \in Node \cup Attr :
             doc'[x] = IF x \in Range(f) THEN d ELSE IF doc[x] = d THEN Null ELSE doc[x]
  BY <1>1, <1>11, <1>12 DEF Forget, Of
<1>14. root' \in [Doc -> Node \cup {Null}] /\ valid' \in [Doc -> BOOLEAN]
  BY <1>1, <1>8, <1>10, <1>12 DEF IsCopy
<1>15. TreeTypeOK'
  BY <1>8, <1>9, <1>13, <1>14 DEF TreeTypeOK, Good, IsCopy
<1>16. OwnersShare(kids)'
  <2>1. ASSUME NEW c \in Node, kids'.owner[c] # Null
        PROVE  doc'[c] # Null /\ doc'[kids'.owner[c]] = doc'[c]
    <3>1. CASE c \in Range(f)
      <4>1. PICK x \in DOMAIN f : c = f[x]
        BY <3>1 DEF Range
      <4>2. x \in Node /\ kids'.owner[c] = Copied(f, kids.owner[x])
        BY <1>4, <1>8, <4>1 DEF IsCopy
      <4>3. kids'.owner[c] \in Range(f) /\ kids'.owner[c] \in Node \cup Attr
        BY <1>4, <2>1, <4>2 DEF Copied, Range
      <4> QED
        BY <1>3, <1>13, <3>1, <4>3
    <3>2. CASE c \notin Range(f)
      <4>1. doc[c] # d /\ kids'.owner[c] = kids.owner[c] /\ kids.owner[c] \in Node
        BY <1>3, <1>8, <2>1, <3>2, GoodLinks DEF IsCopy
      <4>2. doc[c] # Null /\ doc[kids.owner[c]] = doc[c]
        BY <1>3, <2>1, <4>1 DEF TreeInv, OwnersShare
      <4>3. kids.owner[c] \notin Range(f)
        BY <1>11, <4>2
      <4> QED
        BY <1>13, <3>2, <4>1, <4>2, <4>3
    <3> QED
      BY <3>1, <3>2
  <2> QED
    BY <1>8, <2>1, GoodLinks DEF OwnersShare, IsCopy
<1>17. OwnersShare(attrs)'
  <2>1. ASSUME NEW c \in Attr, attrs'.owner[c] # Null
        PROVE  doc'[c] # Null /\ doc'[attrs'.owner[c]] = doc'[c]
    <3>1. CASE c \in Range(f)
      <4>1. PICK x \in DOMAIN f : c = f[x]
        BY <3>1 DEF Range
      <4>2. x \in Attr /\ attrs'.owner[c] = Copied(f, attrs.owner[x])
        BY <1>6, <1>9, <4>1 DEF Placing, IsCopy
      <4>3. attrs'.owner[c] \in Range(f) /\ attrs'.owner[c] \in Node \cup Attr
        BY <1>4, <2>1, <4>2 DEF Copied, Range
      <4> QED
        BY <1>3, <1>13, <3>1, <4>3
    <3>2. CASE c \notin Range(f)
      <4>1. doc[c] # d /\ attrs'.owner[c] = attrs.owner[c] /\ attrs.owner[c] \in Node
        BY <1>3, <1>9, <2>1, <3>2, GoodLinks DEF IsCopy
      <4>2. doc[c] # Null /\ doc[attrs.owner[c]] = doc[c]
        BY <1>3, <2>1, <4>1 DEF TreeInv, OwnersShare
      <4>3. attrs.owner[c] \notin Range(f)
        BY <1>11, <4>2
      <4> QED
        BY <1>13, <3>2, <4>1, <4>2, <4>3
    <3> QED
      BY <3>1, <3>2
  <2> QED
    BY <1>9, <2>1, GoodLinks DEF OwnersShare, IsCopy
<1>18. RootsAreFree'
  <2> SUFFICES ASSUME NEW e \in Doc, root'[e] # Null
               PROVE  doc'[root'[e]] = e /\ kids'.owner[root'[e]] = Null
    BY DEF RootsAreFree
  <2>1. CASE e = d
    <3>1. /\ root'[e] = f[root[s]] /\ f[root[s]] \in Node /\ f[root[s]] \in Range(f)
          /\ kids'.owner[f[root[s]]] = Copied(f, kids.owner[root[s]])
      BY <1>1, <1>8, <1>10, <1>12, <2>1 DEF Range, IsCopy
    <3>2. kids.owner[root[s]] = Null
      BY <1>2 DEF TreeInv, RootsAreFree
    <3>3. Copied(f, Null) = Null
      BY <1>6 DEF Copied, Placing
    <3> QED
      BY <1>13, <2>1, <3>1, <3>2, <3>3
  <2>2. CASE e # d
    <3>1. root'[e] = root[e] /\ root[e] \in Node /\ doc[root[e]] = e /\ e # Null
          /\ kids.owner[root[e]] = Null
      BY <1>1, <1>3, <1>12, <2>2 DEF TreeInv, RootsAreFree
    <3>2. root[e] \notin Range(f)
      BY <1>11, <3>1
    <3> QED
      BY <1>8, <1>13, <2>2, <3>1, <3>2 DEF IsCopy
  <2> QED
    BY <2>1, <2>2
<1>19. EndsKept
  BY <1>8, <1>9 DEF EndsKept, LinksAgree, IsCopy
<1> QED
  BY <1>8, <1>9, <1>15, <1>16, <1>17, <1>18, <1>19 DEF TreeInv, IsCopy

-----------------------------------------------------------------------------
(* The theorems. *)

\* The one way in which lists cease to end with their last item.
CutShort == \E p, c \in Node : c # kids.first[p] /\ RemoveAllChildren(p, c)

LEMMA TreeStep ==
    ASSUME TreeInv, TreeNext
    PROVE  /\ TreeInv'
           /\ \/ EndsKept
              \/ CutShort /\ (Ended(kids) /\ Ended(attrs) => LinksAgree' /\ Ended(attrs)')
<1>0. LinksAgree
  BY DEF TreeNext
<1>1. ASSUME NEW d \in Doc, NEW x \in Node \cup Attr, NEW l \in Label, Alloc(x, d, l)
      PROVE  TreeInv' /\ EndsKept
  BY <1>0, <1>1, PlainStep
<1>2. ASSUME NEW x \in Node \cup Attr, NEW l \in Label, SetLabel(x, l)
      PROVE  TreeInv' /\ EndsKept
  <2>1. doc[x] \in Doc
    BY <1>2 DEF SetLabel, TreeInv, TreeTypeOK
  <2> QED
    BY <1>0, <1>2, <2>1, PlainStep
<1>3. ASSUME NEW d \in Doc, Exhaust(d) PROVE TreeInv' /\ EndsKept
  <2>1. kids' = kids /\ attrs' = attrs /\ root' = root /\ label' = label /\ doc' = doc
    BY <1>3 DEF Exhaust
  <2>2. TreeTypeOK'
    BY <1>3 DEF Exhaust, TreeInv, TreeTypeOK
  <2>3. OwnersShare(kids)' /\ OwnersShare(attrs)' /\ RootsAreFree'
    BY <2>1 DEF TreeInv, OwnersShare, RootsAreFree
  <2> QED
    BY <1>0, <2>1, <2>2, <2>3 DEF TreeInv, LinksAgree, EndsKept
<1>4. ASSUME NEW d \in Doc, Clear(d) PROVE TreeInv' /\ EndsKept
  BY <1>0, <1>4, ClearStep
<1>5. ASSUME NEW d \in Doc, NEW n \in Node, AllocRoot(d, n) PROVE TreeInv' /\ EndsKept
  BY <1>0, <1>5, AllocRootStep
<1>6. ASSUME NEW d \in Doc, NEW s \in Doc, CopyDocument(d, s) PROVE TreeInv' /\ EndsKept
  BY <1>0, <1>6, CopyStep
<1>7. ASSUME NEW d \in Doc, NEW s \in Doc, CopyNothing(d, s) PROVE TreeInv' /\ EndsKept
  BY <1>0, <1>7, ClearStep DEF CopyNothing
<1>8. ASSUME NEW p \in Node, NEW c \in Node, PrependChild(p, c) \/ AppendChild(p, c)
      PROVE  TreeInv' /\ EndsKept
  <2>1. Addable(p, c) /\ KidsBecome(kids')
        /\ kids' \in {Prepend(kids, p, c), AppendTo(kids, p, c), InsertBefore(kids, p, Null, c)}
    BY <1>8 DEF PrependChild, AppendChild, KidsBecome
  <2> QED
    BY <1>0, <2>1, AddChildStep
<1>9. ASSUME NEW p \in Node, NEW c \in Node, NEW w \in Node \cup {Null}, InsertChild(p, w, c)
      PROVE  TreeInv' /\ EndsKept
  <2>1. Addable(p, c) /\ KidsBecome(kids') /\ (w # Null => kids.owner[w] = p)
        /\ kids' \in {Prepend(kids, p, c), AppendTo(kids, p, c), InsertBefore(kids, p, w, c)}
    BY <1>9 DEF InsertChild, KidsBecome
  <2> QED
    BY <1>0, <2>1, AddChildStep
<1>10. ASSUME NEW p \in Node, NEW c \in Node, NEW l \in Label, AppendChildStr(p, c, l)
       PROVE  TreeInv' /\ EndsKept
  BY <1>0, <1>10, AppendNewChild
<1>11. ASSUME NEW p \in Node, NEW c \in Node,
              \/ RemoveFirstChild(p) \/ RemoveLastChild(p) \/ RemoveChild(p, c)
              \/ RemoveFirstAttr(p) \/ RemoveLastAttr(p) \/ RemoveAllAttrs(p)
              \/ \E a \in Attr : RemoveAttr(p, a)
       PROVE  TreeInv' /\ EndsKept
  BY <1>0, <1>11, RemoveStep
<1>12. ASSUME NEW p \in Node, NEW c \in Node \cup {Null}, RemoveAllChildren(p, c)
       PROVE  /\ TreeInv'
              /\ \/ EndsKept
                 \/ CutShort /\ (Ended(kids) /\ Ended(attrs) => LinksAgree' /\ Ended(attrs)')
  <2>1. /\ TreeInv'
        /\ Ended(kids) /\ Ended(attrs) => LinksAgree' /\ Ended(attrs)'
        /\ c \in {Null, kids.first[p]} => EndsKept
    BY <1>0, <1>12, RemoveAllStep
  <2>2. c \notin {Null, kids.first[p]} => CutShort
    BY <1>12 DEF CutShort
  <2> QED
    BY <2>1, <2>2
<1>13. ASSUME NEW p \in Node, NEW a \in Attr, PrependAttr(p, a) \/ AppendAttr(p, a)
       PROVE  TreeInv' /\ EndsKept
  <2>1. AttrAddable(p, a) /\ AttrsBecome(attrs')
        /\ attrs' \in {Prepend(attrs, p, a), AppendTo(attrs, p, a),
                       InsertBefore(attrs, p, Null, a)}
    BY <1>13 DEF PrependAttr, AppendAttr, AttrsBecome
  <2> QED
    BY <1>0, <2>1, AddAttrStep
<1>14. ASSUME NEW p \in Node, NEW a \in Attr, NEW w \in Attr \cup {Null}, InsertAttr(p, w, a)
       PROVE  TreeInv' /\ EndsKept
  <2>1. AttrAddable(p, a) /\ AttrsBecome(attrs') /\ (w # Null => attrs.owner[w] = p)
        /\ attrs' \in {Prepend(attrs, p, a), AppendTo(attrs, p, a),
                       InsertBefore(attrs, p, w, a)}
    BY <1>14 DEF InsertAttr, AttrsBecome
  <2> QED
    BY <1>0, <2>1, AddAttrStep
<1>15. ASSUME NEW p \in Node, NEW a \in Attr, NEW l \in Label, AppendAttrStr(p, a, l)
       PROVE  TreeInv' /\ EndsKept
  BY <1>0, <1>15, AppendNewAttr
<1> QED
  BY <1>1, <1>2, <1>3, <1>4, <1>5, <1>6, <1>7, <1>8, <1>9, <1>10, <1>11, <1>12, <1>13,
     <1>14, <1>15, Zenon DEF TreeNext

LEMMA TreeStutter ==
    ASSUME TreeInv, UNCHANGED treeVars
    PROVE  TreeInv' /\ Ended(kids)' = Ended(kids) /\ Ended(attrs)' = Ended(attrs)
           /\ LinksAgree' = LinksAgree
<1>1. kids' = kids /\ attrs' = attrs /\ root' = root /\ label' = label /\ doc' = doc
      /\ valid' = valid
  BY DEF treeVars
<1>2. TreeTypeOK'
  BY <1>1 DEF TreeInv, TreeTypeOK
<1>3. OwnersShare(kids)' /\ OwnersShare(attrs)' /\ RootsAreFree'
  BY <1>1 DEF TreeInv, OwnersShare, RootsAreFree
<1> QED
  BY <1>1, <1>2, <1>3 DEF TreeInv, LinksAgree

\* Nodes and attributes have addresses of their kind for links, everything in a list
\* belongs to the document of the list, a root is in no list, no list of attributes is
\* cut short, and along a list the items are in order, so that no list runs in a
\* circle: for any number of documents, nodes and attributes, whatever is called in
\* whatever order.
THEOREM TreeInvariance == TreeSpec => []TreeInv
<1>1. TreeInv /\ [TreeNext]_treeVars => TreeInv'
  BY TreeStep, TreeStutter
<1> QED
  BY <1>1, InitHasInv, PTL DEF TreeSpec

\* ndm_xml_node_remove_all_children() from a later child on is the only call after
\* which a list does not end with its last item, and until it is made every call
\* leaves links that agree both ways: adding and removing at the front, the end and
\* in between, clearing, and copying a document into another.
THEOREM BreaksStayKnown == TreeSpec => BreaksAreKnown
<1>1. ASSUME TreeInv, [TreeNext]_treeVars
      PROVE  [Ended(kids) /\ Ended(attrs) =>
                /\ LinksAgree' /\ Ended(attrs)'
                /\ \/ Ended(kids)'
                   \/ \E p, c \in Node :
                         c # kids.first[p] /\ RemoveAllChildren(p, c)]_treeVars
  <2>1. CASE TreeNext
    BY <1>1, <2>1, TreeStep DEF EndsKept, CutShort
  <2>2. CASE UNCHANGED treeVars
    BY <2>2
  <2> QED
    BY <1>1, <2>1, <2>2
<1> QED
  BY <1>1, TreeInvariance, PTL DEF TreeSpec, BreaksAreKnown

-----------------------------------------------------------------------------
(* Lists as sequences. *)

\* A set of numbers each of which has its predecessor in the set is empty.
LEMMA NoneIsFirst ==
    ASSUME NEW B \in SUBSET Nat, \A m \in B : m # 0 /\ m - 1 \in B
    PROVE  B = {}
<1> SUFFICES ASSUME B # {} PROVE FALSE
  OBVIOUS
<1>1. PICK m \in B : \A k \in B : <<k, m>> \notin OpToRel(<, Nat)
  BY NatLessThanWellFounded, WFMin
<1>2. \A k \in B : ~(k < m)
  BY <1>1 DEF OpToRel
<1> QED
  BY <1>2

\* A set of numbers has its least.
LEMMA LeastThere ==
    ASSUME NEW B \in SUBSET Nat, B # {}
    PROVE  \E m \in B : \A k \in B : m <= k
<1>1. PICK m \in B : \A k \in B : <<k, m>> \notin OpToRel(<, Nat)
  BY NatLessThanWellFounded, WFMin
<1>2. \A k \in B : ~(k < m)
  BY <1>1 DEF OpToRel
<1> QED
  BY <1>2

\* w is what step makes of x again and again.
Walks(w, x, step, b, N) ==
    \A n \in b .. N : w[n] = IF n = b THEN x ELSE step[w[n - 1]]

LEMMA WalkExists ==
    ASSUME NEW X, NEW x \in X, NEW step \in [X -> X], NEW b \in Nat, NEW N \in Nat
    PROVE  \E w \in [b .. N -> X] : Walks(w, x, step, b, N)
<1> DEFINE Has(m) == \E w \in [b .. m -> X] : Walks(w, x, step, b, m)
           Bad == {m \in Nat : ~Has(m)}
<1>1. ASSUME NEW m \in Nat, m < b PROVE Has(m)
  <2> DEFINE z == [n \in b .. m |-> x]
  <2>1. z \in [b .. m -> X] /\ b .. m = {}
    BY <1>1
  <2>2. Walks(z, x, step, b, m)
    BY <2>1 DEF Walks
  <2> QED
    BY <2>1, <2>2
<1>2. Has(b)
  <2> DEFINE z == [n \in b .. b |-> x]
  <2>1. z \in [b .. b -> X]
    OBVIOUS
  <2>2. Walks(z, x, step, b, b)
    BY DEF Walks
  <2> QED
    BY <2>1, <2>2
<1>3. ASSUME NEW m \in Nat, m > b, Has(m - 1)
      PROVE  Has(m)
  <2>1. PICK w \in [b .. m - 1 -> X] : Walks(w, x, step, b, m - 1)
    BY <1>3
  <2>2. \A n \in b .. m - 1 : w[n] = IF n = b THEN x ELSE step[w[n - 1]]
    BY <2>1 DEF Walks
  <2> DEFINE z == [n \in b .. m |-> IF n < m THEN w[n] ELSE step[w[m - 1]]]
  <2>3. w[m - 1] \in X
    BY <1>3
  <2>4. z \in [b .. m -> X]
    BY <1>3, <2>3
  <2>5. \A n \in b .. m : z[n] = IF n = b THEN x ELSE step[z[n - 1]]
    BY <1>3, <2>2
  <2>6. Walks(z, x, step, b, m)
    BY <2>5 DEF Walks
  <2> QED
    BY <2>4, <2>6
<1> HIDE DEF Has
<1>4. \A m \in Bad : m # 0 /\ m - 1 \in Bad
  BY <1>1, <1>2, <1>3
<1>5. Bad = {}
  BY <1>4, NoneIsFirst
<1> QED
  BY <1>5 DEF Has

LEMMA Increases ==
    ASSUME NEW k \in Nat, NEW r \in [0 .. k -> Nat], \A n \in 0 .. k - 1 : r[n] < r[n + 1],
           NEW m \in 0 .. k, NEW n \in 0 .. k, m < n
    PROVE  r[m] < r[n]
<1> DEFINE bad == {i \in Nat : m + 1 + i <= k /\ ~(r[m] < r[m + 1 + i])}
<1>1. ASSUME NEW i \in bad PROVE i # 0 /\ i - 1 \in bad
  <2>1. m + i \in 0 .. k - 1 /\ r[m] \in Nat /\ r[m + i] \in Nat /\ r[m + i + 1] \in Nat
    OBVIOUS
  <2>2. r[m + i] < r[m + i + 1] /\ m + 1 + i = m + i + 1 /\ ~(r[m] < r[m + 1 + i])
    BY <2>1
  <2>3. ~(r[m] < r[m + i])
    BY <2>1, <2>2
  <2>4. i # 0
    BY <2>1, <2>2
  <2> QED
    BY <2>1, <2>3, <2>4
<1>2. bad = {}
  <2>1. bad \subseteq Nat
    OBVIOUS
  <2> HIDE DEF bad
  <2> QED
    BY <1>1, <2>1, NoneIsFirst
<1>3. \A i \in Nat : m + 1 + i <= k => r[m] < r[m + 1 + i]
  BY <1>2
<1>4. \E i \in Nat : n = m + 1 + i
  <2>1. (n - m) - 1 \in Nat /\ n = m + 1 + ((n - m) - 1)
    OBVIOUS
  <2> QED
    BY <2>1
<1>5. PICK i \in Nat : n = m + 1 + i
  BY <1>4
<1>6. m + 1 + i <= k
  BY <1>5
<1> QED
  BY <1>3, <1>5, <1>6

\* The walk w comes to last in k steps, and nowhere twice.
Arrives(w, k, first, last, step) ==
    /\ w[0] = first /\ w[k] = last
    /\ \A n \in 0 .. k - 1 : w[n + 1] = step[w[n]] /\ w[n] # last
    /\ \A m, n \in 0 .. k : m < n => w[m] # w[n]

\* It does if the rank grows on the way.
LEMMA WalkArrives ==
    ASSUME NEW X, NEW first \in X, NEW last \in X, NEW step \in [X -> X],
           NEW top \in Nat, NEW rank \in [X -> 0 .. top],
           \A c \in X : c # last => rank[c] < rank[step[c]]
    PROVE  \E k \in Nat : \E w \in [0 .. k -> X] : Arrives(w, k, first, last, step)
<1> DEFINE N == top + 1
<1>1. N \in Nat /\ 0 \in Nat
  OBVIOUS
<1> HIDE DEF N
<1>2. PICK w \in [0 .. N -> X] : Walks(w, first, step, 0, N)
  BY <1>1, WalkExists
<1>3. \A n \in 0 .. N : w[n] = IF n = 0 THEN first ELSE step[w[n - 1]]
  BY <1>2 DEF Walks
<1>4. \A n \in 0 .. N - 1 : w[n + 1] = step[w[n]]
  BY <1>1, <1>3
<1> DEFINE ends == {n \in 0 .. N : w[n] = last}
<1>5. ends # {}
  <2> SUFFICES ASSUME ends = {} PROVE FALSE
    OBVIOUS
  <2>1. \A n \in 0 .. N : w[n] # last /\ w[n] \in X
    OBVIOUS
  <2> HIDE DEF ends
  <2> DEFINE bad == {n \in 0 .. N : ~(rank[w[n]] >= n)}
  <2>2. ASSUME NEW n \in bad PROVE n # 0 /\ n - 1 \in bad
    <3>1. n \in 0 .. N /\ rank[w[n]] \in Nat /\ ~(rank[w[n]] >= n)
      BY <2>1
    <3>2. n # 0 /\ n - 1 \in 0 .. N /\ (n - 1) + 1 = n
      BY <1>1, <3>1
    <3>3. rank[w[n - 1]] < rank[w[n]] /\ rank[w[n - 1]] \in Nat
      BY <1>3, <2>1, <3>1, <3>2
    <3> QED
      BY <3>1, <3>2, <3>3
  <2>3. bad \subseteq Nat
    BY <1>1
  <2>4. bad = {}
    <3> HIDE DEF bad
    <3> QED
      BY <2>2, <2>3, NoneIsFirst
  <2>5. N \in 0 .. N
    BY <1>1
  <2>6. rank[w[N]] >= N /\ rank[w[N]] \in 0 .. top
    BY <2>1, <2>4, <2>5
  <2> QED
    BY <2>6 DEF N
<1>6. PICK k \in ends : \A n \in ends : k <= n
  <2>1. ends \subseteq Nat
    BY <1>1
  <2> HIDE DEF ends
  <2> QED
    BY <1>5, <2>1, LeastThere
<1>7. k \in 0 .. N /\ w[k] = last /\ \A n \in 0 .. k - 1 : w[n] # last
  BY <1>1, <1>6
<1> HIDE DEF ends
<1> DEFINE v == [n \in 0 .. k |-> w[n]]
           r == [n \in 0 .. k |-> rank[w[n]]]
<1>8. k \in Nat /\ 0 .. k \subseteq 0 .. N /\ 0 .. k - 1 \subseteq 0 .. N - 1
  BY <1>1, <1>7
<1>9. v \in [0 .. k -> X] /\ v[0] = first /\ v[k] = last /\ r \in [0 .. k -> Nat]
  BY <1>1, <1>3, <1>7, <1>8
<1>10. \A n \in 0 .. k - 1 : v[n + 1] = step[v[n]] /\ v[n] # last /\ r[n] < r[n + 1]
  <2>1. ASSUME NEW n \in 0 .. k - 1
        PROVE  v[n + 1] = step[v[n]] /\ v[n] # last /\ r[n] < r[n + 1]
    <3>1. n \in 0 .. N - 1 /\ n \in 0 .. k /\ n + 1 \in 0 .. k /\ n \in 0 .. N
      BY <1>1, <1>7
    <3>2. w[n + 1] = step[w[n]] /\ w[n] # last /\ w[n] \in X
      BY <1>4, <1>7, <3>1
    <3>3. rank[w[n]] < rank[w[n + 1]]
      BY <3>2
    <3> QED
      BY <3>1, <3>2, <3>3
  <2> QED
    BY <2>1
<1>11. \A n \in 0 .. k : r[n] = rank[v[n]]
  OBVIOUS
<1> HIDE DEF v, r
<1>12. \A m, n \in 0 .. k : m < n => r[m] < r[n]
  BY <1>8, <1>9, <1>10, Increases
<1>13. \A m, n \in 0 .. k : m < n => v[m] # v[n]
  BY <1>9, <1>11, <1>12
<1>14. Arrives(v, k, first, last, step)
  BY <1>9, <1>10, <1>13 DEF Arrives
<1> QED
  BY <1>8, <1>9, <1>14

\* s is a sequence of n items that runs through the list of p.
Follows(L, p, s, n, Item) ==
    /\ n \in Nat /\ s \in [1 .. n -> Item] /\ IsInjective(s)
    /\ IF n = 0 THEN L.first[p] = Null ELSE s[1] = L.first[p] /\ s[n] = L.last[p]
    /\ \A i \in 1 .. n : i # n => L.next[s[i]] = s[i + 1]

\* A list has such a sequence, which has its members if it ends with its last item.
LEMMA ListFollows ==
    ASSUME NEW Owner, NEW Item, NEW L, Good(L, Owner, Item), Agree(L), Ordered(L),
           NEW p \in Owner
    PROVE  \E n \in Nat : \E s \in [1 .. n -> Item] :
              /\ Follows(L, p, s, n, Item) /\ \A i \in 1 .. n : s[i] \in Members(L, p)
              /\ n = 0 => Members(L, p) = {}
<1>0. AgreeAt(L, p)
  BY AgreeIsAt, GoodLinks
<1>1. CASE L.first[p] = Null
  <2> DEFINE z == [i \in 1 .. 0 |-> p]
  <2>1. z \in [1 .. 0 -> Item] /\ 1 .. 0 = {} /\ DOMAIN z = {} /\ 0 \in Nat
    OBVIOUS
  <2>2. Follows(L, p, z, 0, Item)
    BY <1>1, <2>1, Zenon DEF Follows, IsInjective
  <2>3. Members(L, p) = {}
    BY <1>0, <1>1 DEF AgreeAt
  <2> QED
    BY <2>1, <2>2, <2>3
<1>2. CASE L.first[p] # Null
  <2> DEFINE all == Members(L, p)
             step == [c \in all |-> IF c = L.last[p] THEN c ELSE L.next[c]]
  <2>1. /\ L.first[p] \in all /\ L.last[p] \in all /\ all \subseteq Item
        /\ \A c \in all : c # L.last[p] => L.next[c] \in all /\ L.next[c] # Null
    BY <1>0, <1>2, MembersAre, GoodLinks DEF AgreeAt
  <2>2. PICK top \in Nat : \E rank \in [Item -> 0 .. top] : Ranks(L, rank)
    BY GoodLinks DEF Ordered
  <2>3. PICK rank \in [Item -> 0 .. top] : Ranks(L, rank)
    BY <2>2
  <2> DEFINE rnk == [c \in all |-> rank[c]]
  <2>4. /\ step \in [all -> all] /\ rnk \in [all -> 0 .. top]
        /\ \A c \in all : c # L.last[p] => step[c] = L.next[c] /\ rnk[c] < rnk[step[c]]
    BY <2>1, <2>3, GoodLinks DEF Ranks
  <2> HIDE DEF all, step, rnk
  <2>5. PICK k \in Nat : \E w \in [0 .. k -> all] :
           Arrives(w, k, L.first[p], L.last[p], step)
    BY <2>1, <2>4, WalkArrives
  <2>6. PICK w \in [0 .. k -> all] :
           /\ w[0] = L.first[p] /\ w[k] = L.last[p]
           /\ \A n \in 0 .. k - 1 : w[n + 1] = step[w[n]] /\ w[n] # L.last[p]
           /\ \A m, n \in 0 .. k : m < n => w[m] # w[n]
    BY <2>5 DEF Arrives
  <2> DEFINE n == k + 1
             s == [i \in 1 .. n |-> w[i - 1]]
  <2>7. /\ n \in Nat /\ n # 0 /\ 1 \in 1 .. n /\ n \in 1 .. n
        /\ \A i \in 1 .. n : i - 1 \in 0 .. k /\ (i # n => i - 1 \in 0 .. k - 1)
    OBVIOUS
  <2>8. s \in [1 .. n -> Item] /\ \A i \in 1 .. n : s[i] \in all
    BY <2>1, <2>7
  <2>9. IsInjective(s)
    <3>1. ASSUME NEW i \in 1 .. n, NEW j \in 1 .. n, s[i] = s[j], i # j
          PROVE  FALSE
      <4>1. i - 1 \in 0 .. k /\ j - 1 \in 0 .. k /\ w[i - 1] = w[j - 1]
        BY <3>1
      <4>2. i - 1 < j - 1 \/ j - 1 < i - 1
        BY <3>1
      <4> QED
        BY <2>6, <4>1, <4>2
    <3> QED
      BY <3>1 DEF IsInjective
  <2>10. s[1] = L.first[p] /\ s[n] = L.last[p]
    BY <2>6, <2>7
  <2>11. ASSUME NEW i \in 1 .. n, i # n PROVE L.next[s[i]] = s[i + 1]
    <3>1. i - 1 \in 0 .. k - 1 /\ (i - 1) + 1 = i /\ i + 1 \in 1 .. n /\ i - 1 \in 0 .. k
      BY <2>7, <2>11
    <3>2. w[i] = step[w[i - 1]] /\ w[i - 1] # L.last[p] /\ w[i - 1] \in all
      BY <2>6, <3>1
    <3>3. L.next[w[i - 1]] = w[i]
      BY <2>4, <3>2
    <3>4. s[i] = w[i - 1] /\ s[i + 1] = w[i]
      BY <3>1
    <3> QED
      BY <3>3, <3>4
  <2> HIDE DEF n, s
  <2>12. Follows(L, p, s, n, Item)
    BY <2>7, <2>8, <2>9, <2>10, <2>11, Zenon DEF Follows
  <2> QED
    BY <2>7, <2>8, <2>12 DEF all
<1> QED
  BY <1>1, <1>2

\* It is as long as there are items at most.
LEMMA FollowsIsShort ==
    ASSUME NEW Item, IsFiniteSet(Item), NEW n \in Nat, NEW s \in [1 .. n -> Item],
           IsInjective(s)
    PROVE  Cardinality(Item) \in Nat /\ n <= Cardinality(Item)
<1>1. s \in Injection(1 .. n, Item)
  BY DEF Injection, IsInjective
<1>2. Cardinality(1 .. n) <= Cardinality(Item) /\ Cardinality(Item) \in Nat
  BY <1>1, FS_Injection, FS_CardinalityType
<1>3. Cardinality(1 .. n) = n
  BY FS_Interval
<1> QED
  BY <1>2, <1>3

\* What Chain makes is what runs through the list.
LEMMA ChainIs ==
    ASSUME NEW Owner, NEW Item, NEW L, Good(L, Owner, Item), IsFiniteSet(Item),
           NEW p \in Owner, NEW n, NEW s, Follows(L, p, s, n, Item)
    PROVE  Chain(L, p) = s
<1>1. /\ n \in Nat /\ s \in [1 .. n -> Item] /\ IsInjective(s)
      /\ n = 0 => L.first[p] = Null
      /\ n # 0 => s[1] = L.first[p] /\ s[n] = L.last[p]
      /\ \A i \in 1 .. n : i # n => L.next[s[i]] = s[i + 1]
  BY DEF Follows
<1>2. \A i, j \in 1 .. n : s[i] = s[j] => i = j
  BY <1>1 DEF IsInjective
<1> DEFINE most == Cardinality(DOMAIN L.owner)
           item[k \in 1 .. most] ==
              IF k = 1 THEN L.first[p]
              ELSE IF item[k - 1] \in {Null, L.last[p]} THEN Null
              ELSE L.next[item[k - 1]]
           there == {k \in 1 .. most : item[k] # Null}
<1>3. Chain(L, p) = [k \in 1 .. Cardinality(there) |-> item[k]]
  BY DEF Chain
<1>4. most \in Nat /\ n <= most
  BY <1>1, FollowsIsShort, GoodLinks
<1> HIDE DEF most
<1> DEFINE f == [k \in 1 .. most |-> IF k <= n THEN s[k] ELSE Null]
           Defines(g) == g = [k \in 1 .. most |->
                                IF k = 1 THEN L.first[p]
                                ELSE IF g[k - 1] \in {Null, L.last[p]} THEN Null
                                ELSE L.next[g[k - 1]]]
<1>5. ASSUME NEW k \in 1 .. most
      PROVE  f[k] = IF k = 1 THEN L.first[p]
                    ELSE IF f[k - 1] \in {Null, L.last[p]} THEN Null
                    ELSE L.next[f[k - 1]]
  <2>1. CASE k = 1
    <3>1. f[k] = IF n = 0 THEN Null ELSE s[1]
      BY <1>1, <1>4, <2>1
    <3> QED
      BY <1>1, <2>1, <3>1
  <2>2. CASE k # 1
    <3>1. k - 1 \in 1 .. most /\ f[k - 1] = IF k - 1 <= n THEN s[k - 1] ELSE Null
      BY <1>4, <2>2
    <3>2. CASE k <= n
      <4>1. k - 1 \in 1 .. n /\ k - 1 # n /\ (k - 1) + 1 = k /\ n \in 1 .. n /\ n # 0
        BY <1>1, <2>2, <3>2
      <4>2. f[k] = s[k] /\ f[k - 1] = s[k - 1] /\ s[k - 1] \in Item
        BY <1>1, <3>1, <3>2, <4>1
      <4>3. s[k - 1] # Null /\ s[k - 1] # L.last[p]
        BY <1>1, <1>2, <4>1, <4>2, GoodLinks
      <4>4. L.next[s[k - 1]] = s[k]
        BY <1>1, <4>1
      <4> QED
        BY <2>2, <4>2, <4>3, <4>4
    <3>3. CASE ~(k <= n)
      <4>1. f[k] = Null
        BY <3>3
      <4>2. f[k - 1] \in {Null, L.last[p]}
        <5>1. CASE k - 1 <= n
          <6>1. k - 1 = n /\ n # 0
            BY <1>1, <2>2, <3>3, <5>1
          <6> QED
            BY <1>1, <3>1, <5>1, <6>1
        <5>2. CASE ~(k - 1 <= n)
          BY <3>1, <5>2
        <5> QED
          BY <5>1, <5>2
      <4> QED
        BY <2>2, <4>1, <4>2
    <3> QED
      BY <3>2, <3>3
  <2> QED
    BY <2>1, <2>2
<1>6. Defines(f)
  <2>1. f = [k \in 1 .. most |-> f[k]]
    OBVIOUS
  <2> HIDE DEF f
  <2>2. [k \in 1 .. most |-> f[k]] =
        [k \in 1 .. most |-> IF k = 1 THEN L.first[p]
                             ELSE IF f[k - 1] \in {Null, L.last[p]} THEN Null
                             ELSE L.next[f[k - 1]]]
    BY <1>5
  <2> QED
    BY <2>1, <2>2
<1>7. item = CHOOSE g : Defines(g)
  OBVIOUS
<1> HIDE DEF Defines, item
<1>8. Defines(item)
  BY <1>6, <1>7
<1>9. \A k \in 1 .. most : item[k] = IF k = 1 THEN L.first[p]
                                     ELSE IF item[k - 1] \in {Null, L.last[p]} THEN Null
                                     ELSE L.next[item[k - 1]]
  BY <1>8 DEF Defines
<1>10. \A k \in 1 .. most : item[k] = f[k]
  <2> DEFINE bad == {k \in 1 .. most : item[k] # f[k]}
  <2> HIDE DEF f
  <2>1. ASSUME NEW k \in bad PROVE k # 0 /\ k - 1 \in bad
    <3>1. k \in 1 .. most /\ item[k] # f[k] /\ k # 1
      BY <1>5, <1>9
    <3>2. k - 1 \in 1 .. most
      BY <1>4, <3>1
    <3>3. item[k - 1] # f[k - 1]
      BY <1>5, <1>9, <3>1
    <3> QED
      BY <3>1, <3>2, <3>3
  <2>2. bad \subseteq Nat
    BY <1>4
  <2>3. bad = {}
    <3> HIDE DEF bad
    <3> QED
      BY <2>1, <2>2, NoneIsFirst
  <2> QED
    BY <2>3
<1>11. there = 1 .. n
  <2>1. ASSUME NEW k \in 1 .. most PROVE f[k] # Null <=> k \in 1 .. n
    BY <1>1, <1>4, GoodLinks
  <2> HIDE DEF f
  <2>2. there = {k \in 1 .. most : k \in 1 .. n}
    BY <1>10, <2>1
  <2> QED
    BY <1>1, <1>4, <2>2
<1>12. Cardinality(there) = n
  <2>1. n \in Int /\ 1 \in Int /\ n >= 0
    BY <1>1
  <2>2. Cardinality(1 .. n) = IF 1 > n THEN 0 ELSE n - 1 + 1
    BY <2>1, FS_Interval
  <2>3. Cardinality(1 .. n) = n
    BY <2>1, <2>2
  <2> QED
    BY <1>11, <2>3
<1>13. \A k \in 1 .. n : item[k] = s[k]
  BY <1>1, <1>4, <1>10
<1>14. Chain(L, p) = [k \in 1 .. n |-> item[k]]
  BY <1>3, <1>12
<1>15. [k \in 1 .. n |-> item[k]] = [k \in 1 .. n |-> s[k]]
  BY <1>13
<1>16. s = [k \in 1 .. n |-> s[k]]
  BY <1>1
<1> QED
  BY <1>14, <1>15, <1>16

\* The links g lead along s, of n items, from x on.
Along(g, x, s, n) ==
    /\ x = IF n = 0 THEN Null ELSE s[1]
    /\ \A i \in 1 .. n : g[s[i]] = IF i = n THEN Null ELSE s[i + 1]

\* Where s has the label l.
Labelled(s, n, l) == {i \in 1 .. n : label[s[i]] = l}

\* A search by the links g, which lead along s from x on, finds the first that is
\* labelled l.
LEMMA SearchFinds ==
    ASSUME NEW Item, IsFiniteSet(Item), NEW g \in [Item -> Item \cup {Null}], Null \notin Item,
           NEW n \in Nat, NEW s \in [1 .. n -> Item], IsInjective(s),
           NEW x, Along(g, x, s, n), NEW l \in Label,
           NEW h, h = Labelled(s, n, l)
    PROVE  Search(g, x, l) = IF h = {} THEN Null ELSE s[Min(h)]
<1> DEFINE most == Cardinality(DOMAIN g)
           met[k \in 0 .. most] ==
              IF k = 0 THEN x
              ELSE IF met[k - 1] = Null THEN Null ELSE g[met[k - 1]]
           hits == {k \in 0 .. most : met[k] = Null \/ l \in {Null, label[met[k]]}}
<1>1. Search(g, x, l) = met[CHOOSE k \in hits : \A j \in hits : k <= j]
  BY DEF Search
<1>2. most \in Nat /\ n <= most
  BY FollowsIsShort
<1>0. /\ x = IF n = 0 THEN Null ELSE s[1]
      /\ \A i \in 1 .. n : g[s[i]] = IF i = n THEN Null ELSE s[i + 1]
  BY DEF Along
<1>a. h = {i \in 1 .. n : label[s[i]] = l}
  BY DEF Labelled
<1> HIDE DEF most
<1> DEFINE f == [k \in 0 .. most |-> IF k < n THEN s[k + 1] ELSE Null]
           Defines(e) == e = [k \in 0 .. most |->
                                IF k = 0 THEN x
                                ELSE IF e[k - 1] = Null THEN Null ELSE g[e[k - 1]]]
<1>3. ASSUME NEW k \in 0 .. most
      PROVE  f[k] = IF k = 0 THEN x ELSE IF f[k - 1] = Null THEN Null ELSE g[f[k - 1]]
  <2>1. CASE k = 0
    BY <1>0, <1>2, <2>1
  <2>2. CASE k # 0
    <3>1. k - 1 \in 0 .. most /\ f[k - 1] = IF k - 1 < n THEN s[k] ELSE Null
      BY <1>2, <2>2
    <3>2. CASE k <= n
      <4>1. k \in 1 .. n /\ s[k] \in Item /\ f[k - 1] = s[k] /\ s[k] # Null
        BY <2>2, <3>1, <3>2
      <4>2. g[s[k]] = f[k]
        BY <1>0, <3>2, <4>1
      <4> QED
        BY <2>2, <4>1, <4>2
    <3>3. CASE ~(k <= n)
      BY <2>2, <3>1, <3>3
    <3> QED
      BY <3>2, <3>3
  <2> QED
    BY <2>1, <2>2
<1>4. Defines(f)
  <2>1. f = [k \in 0 .. most |-> f[k]]
    OBVIOUS
  <2> HIDE DEF f
  <2>2. [k \in 0 .. most |-> f[k]] =
        [k \in 0 .. most |-> IF k = 0 THEN x
                             ELSE IF f[k - 1] = Null THEN Null ELSE g[f[k - 1]]]
    BY <1>3
  <2> QED
    BY <2>1, <2>2
<1>5. met = CHOOSE e : Defines(e)
  OBVIOUS
<1> HIDE DEF Defines, met
<1>6. Defines(met)
  BY <1>4, <1>5
<1>7. \A k \in 0 .. most :
         met[k] = IF k = 0 THEN x ELSE IF met[k - 1] = Null THEN Null ELSE g[met[k - 1]]
  BY <1>6 DEF Defines
<1>8. \A k \in 0 .. most : met[k] = f[k]
  <2> DEFINE bad == {k \in 0 .. most : met[k] # f[k]}
  <2> HIDE DEF f
  <2>1. ASSUME NEW k \in bad PROVE k # 0 /\ k - 1 \in bad
    <3>1. k \in 0 .. most /\ met[k] # f[k] /\ k # 0
      BY <1>3, <1>7
    <3>2. k - 1 \in 0 .. most
      BY <1>2, <3>1
    <3>3. met[k - 1] # f[k - 1]
      BY <1>3, <1>7, <3>1
    <3> QED
      BY <3>1, <3>2, <3>3
  <2>2. bad \subseteq Nat
    BY <1>2
  <2>3. bad = {}
    <3> HIDE DEF bad
    <3> QED
      BY <2>1, <2>2, NoneIsFirst
  <2> QED
    BY <2>3
<1>9. \A k \in 0 .. most : met[k] = IF k < n THEN s[k + 1] ELSE Null
  BY <1>8
<1>10. /\ \A k \in 0 .. n - 1 : met[k] = s[k + 1] /\ met[k] # Null /\ k + 1 \in 1 .. n
       /\ met[n] = Null /\ n \in 0 .. most /\ 0 .. n - 1 \subseteq 0 .. most
  BY <1>2, <1>9
<1> HIDE DEF f
<1>11. \A k \in 0 .. n - 1 : k \in hits <=> k + 1 \in h
  BY <1>10, <1>a, NullAssumption
<1>12. n \in hits
  BY <1>10
<1>13. ASSUME NEW m \in hits, \A j \in hits : m <= j
       PROVE  Search(g, x, l) = met[m]
  <2>1. hits \subseteq Nat
    BY <1>2
  <2> DEFINE z == CHOOSE k \in hits : \A j \in hits : k <= j
  <2>2. z \in hits /\ \A j \in hits : z <= j
    BY <1>13, Zenon
  <2>3. z <= m /\ m <= z /\ z \in Nat /\ m \in Nat
    BY <1>13, <2>1, <2>2
  <2> HIDE DEF z
  <2>4. z = m
    BY <2>3
  <2> QED
    BY <1>1, <2>4 DEF z
<1>14. CASE h = {}
  <2>1. \A j \in hits : n <= j
    <3>1. ASSUME NEW j \in hits, ~(n <= j) PROVE FALSE
      <4>1. j \in 0 .. n - 1
        BY <1>2, <3>1
      <4> HIDE DEF hits
      <4> QED
        BY <1>11, <1>14, <3>1, <4>1
    <3> QED
      BY <3>1
  <2>2. Search(g, x, l) = met[n]
    BY <1>12, <1>13, <2>1
  <2> QED
    BY <1>10, <1>14, <2>2
<1>15. CASE h # {}
  <2>1. h \subseteq Nat /\ h \subseteq 1 .. n
    BY <1>a
  <2> DEFINE m == Min(h)
  <2>2. m \in h /\ \A i \in h : m <= i
    <3>1. \E i \in h : \A j \in h : i <= j
      BY <1>15, <2>1, LeastThere
    <3> QED
      BY <3>1 DEF Min
  <2> HIDE DEF m
  <2>3. m \in 1 .. n /\ m - 1 \in 0 .. n - 1 /\ (m - 1) + 1 = m
    BY <2>1, <2>2
  <2>4. m - 1 \in hits
    <3> HIDE DEF hits
    <3> QED
      BY <1>11, <2>2, <2>3
  <2>5. ASSUME NEW j \in hits PROVE m - 1 <= j
    <3>1. j \in 0 .. most
      OBVIOUS
    <3>2. CASE j \in 0 .. n - 1
      <4> HIDE DEF hits
      <4>1. j + 1 \in h
        BY <1>11, <3>2
      <4>2. m <= j + 1
        BY <2>2, <4>1
      <4> QED
        BY <2>3, <3>1, <4>2
    <3>3. CASE j \notin 0 .. n - 1
      BY <2>3, <3>1, <3>3
    <3> QED
      BY <3>2, <3>3
  <2>6. Search(g, x, l) = met[m - 1]
    <3> HIDE DEF hits
    <3> QED
      BY <1>13, <2>4, <2>5
  <2>7. met[m - 1] = s[m]
    BY <1>10, <2>3
  <2> QED
    BY <1>15, <2>6, <2>7 DEF m
<1> QED
  BY <1>14, <1>15

\* A list that ends has all its members in the sequence, which goes both ways.
Whole(L, p, s, n, Item) ==
    /\ Follows(L, p, s, n, Item)
    /\ \A i \in 1 .. n : s[i] \in Members(L, p)
    /\ \A c \in Members(L, p) : \E i \in 1 .. n : c = s[i]
    /\ \A i \in 1 .. n : L.prev[s[i]] = IF i = 1 THEN Null ELSE s[i - 1]
    /\ \A i \in 1 .. n : L.next[s[i]] = IF i = n THEN Null ELSE s[i + 1]

LEMMA ListIsWhole ==
    ASSUME NEW Owner, NEW Item, NEW L, Good(L, Owner, Item), Agree(L), Ordered(L), Ended(L),
           NEW p \in Owner
    PROVE  \E n \in Nat : \E s \in [1 .. n -> Item] : Whole(L, p, s, n, Item)
<1>1. PICK n \in Nat : \E s \in [1 .. n -> Item] :
         /\ Follows(L, p, s, n, Item) /\ \A i \in 1 .. n : s[i] \in Members(L, p)
         /\ n = 0 => Members(L, p) = {}
  BY ListFollows
<1>2. PICK s \in [1 .. n -> Item] :
         /\ Follows(L, p, s, n, Item) /\ \A i \in 1 .. n : s[i] \in Members(L, p)
         /\ n = 0 => Members(L, p) = {}
  BY <1>1
<1>3. /\ n = 0 => L.first[p] = Null
      /\ n # 0 => s[1] = L.first[p] /\ s[n] = L.last[p]
      /\ \A i \in 1 .. n : i # n => L.next[s[i]] = s[i + 1]
      /\ \A i, j \in 1 .. n : s[i] = s[j] => i = j
  BY <1>2 DEF Follows, IsInjective
<1>4. AgreeAt(L, p) /\ Members(L, p) \subseteq Item /\ Null \notin Item
  BY AgreeIsAt, MembersAre, GoodLinks
<1>5. n # 0 => L.next[s[n]] = Null /\ L.first[p] # Null
  BY <1>2, <1>3, <1>4, GoodLinks DEF Ended, AgreeAt
<1>6. \A i \in 1 .. n : L.next[s[i]] = IF i = n THEN Null ELSE s[i + 1]
  BY <1>3, <1>5
<1>7. \A i \in 1 .. n : L.prev[s[i]] = IF i = 1 THEN Null ELSE s[i - 1]
  <2>1. ASSUME NEW i \in 1 .. n, i = 1
        PROVE  L.prev[s[i]] = Null
    BY <1>2, <1>3, <1>4, <2>1 DEF AgreeAt
  <2>2. ASSUME NEW i \in 1 .. n, i # 1
        PROVE  L.prev[s[i]] = s[i - 1]
    <3>1. i - 1 \in 1 .. n /\ i - 1 # n /\ (i - 1) + 1 = i /\ n \in 1 .. n
      BY <2>2
    <3>2. L.next[s[i - 1]] = s[i] /\ s[i - 1] # L.last[p] /\ s[i - 1] \in Members(L, p)
      BY <1>2, <1>3, <3>1
    <3> QED
      BY <1>4, <3>2 DEF AgreeAt
  <2> QED
    BY <2>1, <2>2
<1>8. \A c \in Members(L, p) : \E i \in 1 .. n : c = s[i]
  <2> DEFINE out == {c \in Members(L, p) : \A i \in 1 .. n : c # s[i]}
  <2> SUFFICES ASSUME out # {} PROVE FALSE
    BY Zenon
  <2>1. ASSUME NEW y \in out, y # L.first[p] PROVE L.prev[y] \in out
    <3>1. L.prev[y] \in Members(L, p) /\ L.next[L.prev[y]] = y /\ y # Null
      BY <1>4, <2>1 DEF AgreeAt
    <3>2. ASSUME NEW i \in 1 .. n, L.prev[y] = s[i] PROVE FALSE
      <4>1. i # n /\ y = s[i + 1]
        BY <1>6, <3>1, <3>2
      <4>2. i + 1 \in 1 .. n
        BY <4>1
      <4> QED
        BY <2>1, <4>1, <4>2
    <3> QED
      BY <3>1, <3>2
  <2>2. out \in SUBSET Members(L, p)
    OBVIOUS
  <2>3. L.first[p] \notin out
    <3>1. n # 0 => 1 \in 1 .. n /\ s[1] = L.first[p]
      BY <1>3
    <3> QED
      BY <1>2, <3>1
  <2> HIDE DEF out
  <2> QED
    BY <2>1, <2>2, <2>3, StartReached
<1>9. Whole(L, p, s, n, Item)
  BY <1>2, <1>6, <1>7, <1>8 DEF Whole
<1> QED
  BY <1>9

\* What Chain makes is a sequence, and that of the list.
LEMMA ChainIsSequence ==
    ASSUME NEW Owner, NEW Item, NEW L, Good(L, Owner, Item), IsFiniteSet(Item),
           NEW p \in Owner, NEW n, NEW s, Follows(L, p, s, n, Item)
    PROVE  Chain(L, p) = s /\ s \in Seq(Item) /\ Len(s) = n
<1>1. n \in Nat /\ s \in [1 .. n -> Item]
  BY DEF Follows
<1>2. s \in Seq(Item) /\ Len(s) = n
  BY <1>1
<1> QED
  BY <1>2, ChainIs

LEMMA ListIsSequence ==
    ASSUME NEW Item, IsFiniteSet(Item), NEW L, Good(L, Node, Item), Agree(L), Ordered(L),
           Ended(L), NEW p \in Node
    PROVE  IsSequence(L, p, Chain(L, p))
<1>1. PICK n \in Nat : \E s \in [1 .. n -> Item] : Whole(L, p, s, n, Item)
  BY ListIsWhole
<1>2. PICK s \in [1 .. n -> Item] : Whole(L, p, s, n, Item)
  BY <1>1
<1>3. Chain(L, p) = s /\ Len(s) = n
  BY <1>2, ChainIsSequence DEF Whole
<1>4. IsInjective(s) /\ \A i, j \in 1 .. n : s[i] = s[j] => i = j
  BY <1>2 DEF Whole, Follows, IsInjective
<1>5. IF n = 0 THEN L.first[p] = Null ELSE s[1] = L.first[p] /\ s[n] = L.last[p]
  BY <1>2 DEF Whole, Follows
<1>6. /\ \A i \in 1 .. n : L.prev[s[i]] = IF i = 1 THEN Null ELSE s[i - 1]
      /\ \A i \in 1 .. n : L.next[s[i]] = IF i = n THEN Null ELSE s[i + 1]
  BY <1>2 DEF Whole
<1>7. ToSet(s) = Members(L, p)
  <2>1. DOMAIN s = 1 .. n
    OBVIOUS
  <2>2. \A c : c \in Members(L, p) <=> \E i \in 1 .. n : c = s[i]
    BY <1>2 DEF Whole
  <2>3. ToSet(s) = {s[i] : i \in 1 .. n}
    BY <2>1 DEF ToSet
  <2> QED
    BY <2>2, <2>3
<1>8. ASSUME NEW l \in Label
      PROVE  LET h == {i \in 1 .. n : label[s[i]] = l}
             IN  /\ FirstItem(L, p, l) = IF h = {} THEN Null ELSE s[Min(h)]
                 /\ n > 0 => LastItem(L, p, l) = IF h = {} THEN Null ELSE s[Max(h)]
  <2> DEFINE h == {i \in 1 .. n : label[s[i]] = l}
  <2>1. L.next \in [Item -> Item \cup {Null}] /\ L.prev \in [Item -> Item \cup {Null}]
        /\ Null \notin Item
    BY GoodLinks
  <2>2. L.first[p] = IF n = 0 THEN Null ELSE s[1]
    BY <1>5
  <2>3. Search(L.next, L.first[p], l) = IF h = {} THEN Null ELSE s[Min(h)]
    <3>1. h = Labelled(s, n, l)
      BY DEF Labelled
    <3>2. Along(L.next, L.first[p], s, n)
      BY <1>6, <2>2 DEF Along
    <3> HIDE DEF h
    <3> QED
      BY <1>4, <2>1, <3>1, <3>2, SearchFinds
  <2>4. ASSUME n > 0
        PROVE  Search(L.prev, L.last[p], l) = IF h = {} THEN Null ELSE s[Max(h)]
    <3> DEFINE r == [i \in 1 .. n |-> s[n + 1 - i]]
               hr == {i \in 1 .. n : label[r[i]] = l}
    <3>1. \A i \in 1 .. n : n + 1 - i \in 1 .. n /\ r[i] = s[n + 1 - i]
      OBVIOUS
    <3>2. r \in [1 .. n -> Item]
      BY <3>1
    <3>3. IsInjective(r)
      <4>1. ASSUME NEW i \in 1 .. n, NEW j \in 1 .. n, r[i] = r[j] PROVE i = j
        <5>1. n + 1 - i = n + 1 - j
          BY <1>4, <3>1, <4>1
        <5> QED
          BY <5>1
      <4> QED
        BY <4>1 DEF IsInjective
    <3>4. \A i \in 1 .. n : L.prev[r[i]] = IF i = n THEN Null ELSE r[i + 1]
      <4>1. ASSUME NEW i \in 1 .. n
            PROVE  L.prev[r[i]] = IF i = n THEN Null ELSE r[i + 1]
        <5>1. L.prev[r[i]] = IF n + 1 - i = 1 THEN Null ELSE s[(n + 1 - i) - 1]
          BY <1>6, <3>1
        <5>2. i # n => r[i + 1] = s[(n + 1 - i) - 1]
          OBVIOUS
        <5>3. n + 1 - i = 1 <=> i = n
          OBVIOUS
        <5> HIDE DEF r
        <5> QED
          BY <5>1, <5>2, <5>3
      <4> QED
        BY <4>1
    <3>5. L.last[p] = IF n = 0 THEN Null ELSE r[1]
      BY <1>5, <2>4
    <3> HIDE DEF r
    <3>6. Search(L.prev, L.last[p], l) = IF hr = {} THEN Null ELSE r[Min(hr)]
      <4>1. hr = Labelled(r, n, l)
        BY DEF Labelled
      <4>2. Along(L.prev, L.last[p], r, n)
        BY <3>4, <3>5 DEF Along
      <4> HIDE DEF h, hr
      <4> QED
        BY <2>1, <3>2, <3>3, <4>1, <4>2, SearchFinds
    <3>7. \A i \in 1 .. n : i \in hr <=> n + 1 - i \in h
      BY <3>1
    <3>8. \A i \in 1 .. n : i \in h <=> n + 1 - i \in hr
      <4>1. ASSUME NEW i \in 1 .. n PROVE i \in h <=> n + 1 - i \in hr
        <5>1. n + 1 - i \in 1 .. n /\ n + 1 - (n + 1 - i) = i
          OBVIOUS
        <5> HIDE DEF h, hr
        <5>2. n + 1 - i \in hr <=> n + 1 - (n + 1 - i) \in h
          BY <3>7, <5>1
        <5> QED
          BY <5>1, <5>2
      <4> QED
        BY <4>1
    <3>9. h \subseteq 1 .. n /\ hr \subseteq 1 .. n /\ h \subseteq Nat /\ hr \subseteq Nat
      OBVIOUS
    <3> HIDE DEF h, hr
    <3>10. h = {} <=> hr = {}
      BY <3>7, <3>8, <3>9
    <3>11. ASSUME hr # {} PROVE r[Min(hr)] = s[Max(h)]
      <4> DEFINE m == Min(hr)
                 M == Max(h)
      <4>1. m \in hr /\ \A i \in hr : m <= i
        <5>1. \E i \in hr : \A j \in hr : i <= j
          BY <3>9, <3>11, LeastThere
        <5> QED
          BY <5>1 DEF Min
      <4>2. m \in 1 .. n /\ n + 1 - m \in h /\ n + 1 - m \in 1 .. n
        BY <3>1, <3>7, <3>9, <4>1
      <4>3. \A i \in h : n + 1 - m >= i
        <5>1. ASSUME NEW i \in h PROVE n + 1 - m >= i
          <6>1. i \in 1 .. n /\ n + 1 - i \in hr
            BY <3>8, <3>9
          <6>2. m <= n + 1 - i
            BY <4>1, <6>1
          <6> QED
            BY <4>2, <6>1, <6>2
        <5> QED
          BY <5>1
      <4>4. M \in h /\ \A i \in h : M >= i
        BY <4>2, <4>3 DEF Max
      <4>5. M \in 1 .. n /\ M >= n + 1 - m /\ n + 1 - m >= M
        BY <3>9, <4>2, <4>3, <4>4
      <4> HIDE DEF m, M
      <4>6. M = n + 1 - m
        BY <4>2, <4>5
      <4> QED
        BY <3>1, <4>2, <4>6 DEF m, M
    <3> QED
      BY <3>6, <3>10, <3>11
  <2>5. FirstItem(L, p, l) = Search(L.next, L.first[p], l)
    BY DEF FirstItem
  <2>6. n > 0 => LastItem(L, p, l) = Search(L.prev, L.last[p], l)
    BY <1>4, <1>5, <2>1 DEF LastItem
  <2> HIDE DEF h
  <2>7. /\ FirstItem(L, p, l) = IF h = {} THEN Null ELSE s[Min(h)]
        /\ n > 0 => LastItem(L, p, l) = IF h = {} THEN Null ELSE s[Max(h)]
    BY <2>3, <2>4, <2>5, <2>6
  <2> QED
    BY <2>7 DEF h
<1>9. n > 0 => s[n] = L.last[p]
  BY <1>5
<1> QED
  <2>1. IsSequence(L, p, s)
    <3>1. IsInjective(s)
      BY <1>4
    <3>2. \A i \in 1 .. n : L.prev[s[i]] = IF i = 1 THEN Null ELSE s[i - 1]
      BY <1>6
    <3>3. Len(s) = n
      BY <1>3
    <3> QED
      BY <1>7, <1>8, <1>9, <3>1, <3>2, <3>3, Zenon DEF IsSequence
  <2> QED
    BY <1>3, <2>1

\* As long as lists end with their last item and the links agree, the list of every
\* node is one sequence, the same from both ends, with exactly what belongs to the
\* node, and searches by label from either end find the first or the last in it,
\* or nothing if nothing has the label: the functions that walk and search lists
\* rely on it, and no call that keeps the promise breaks it.
THEOREM ListsStaySequences == TreeSpec => []ListsAreSequences
<1>1. TreeInv => ListsAreSequences
  <2> SUFFICES ASSUME TreeInv, LinksAgree, NEW p \in Node
               PROVE  /\ Ended(kids) => IsSequence(kids, p, Chain(kids, p))
                      /\ Ended(attrs) => IsSequence(attrs, p, Chain(attrs, p))
    BY DEF ListsAreSequences
  <2>1. /\ Good(kids, Node, Node) /\ Agree(kids) /\ Ordered(kids)
        /\ Good(attrs, Node, Attr) /\ Agree(attrs) /\ Ordered(attrs)
    BY TreeIsGood DEF TreeInv, LinksAgree
  <2> QED
    BY <2>1, MemoryAssumption, ListIsSequence
<1> QED
  BY <1>1, TreeInvariance, PTL

-----------------------------------------------------------------------------
(* The lists keep the promise of OrderedForest. *)

\* The items of g in f \o g
LEMMA SecondPart ==
    ASSUME NEW S, NEW f \in Seq(S), NEW g \in Seq(S)
    PROVE  \A i \in Len(f) + 1 .. Len(f) + Len(g) : (f \o g)[i] = g[i - Len(f)]
  OBVIOUS

\* The sequence s of n items with c put in at i, and with what it has at i left out.
PutIn(s, n, i, c) ==
    [j \in 1 .. n + 1 |-> IF j < i THEN s[j] ELSE IF j = i THEN c ELSE s[j - 1]]
LeftOut(s, n, i) == [j \in 1 .. n - 1 |-> IF j < i THEN s[j] ELSE s[j + 1]]

LEMMA RemovedAt ==
    ASSUME NEW S, NEW n \in Nat, n # 0, NEW s \in [1 .. n -> S], NEW i \in 1 .. n
    PROVE  RemoveAt(s, i) = LeftOut(s, n, i) /\ Len(s) = n
<1> DEFINE front == SubSeq(s, 1, i - 1)
           back == SubSeq(s, i + 1, n)
           g == front \o back
           t == LeftOut(s, n, i)
<1>1. s \in Seq(S) /\ Len(s) = n
  OBVIOUS
<1>2. /\ front \in Seq(S) /\ Len(front) = i - 1
      /\ \A j \in 1 .. i - 1 : front[j] = s[j]
  BY <1>1
<1>3. /\ back \in Seq(S) /\ Len(back) = n - i
      /\ \A j \in 1 .. n - i : back[j] = s[i + j]
  BY <1>1
<1>4. RemoveAt(s, i) = g
  BY <1>1 DEF RemoveAt
<1>5. /\ t \in [1 .. n - 1 -> S] /\ n - 1 \in Nat
      /\ \A j \in 1 .. n - 1 : t[j] = IF j < i THEN s[j] ELSE s[j + 1]
  BY DEF LeftOut
<1> HIDE DEF front, back, t
<1>6. g \in Seq(S) /\ Len(g) = Len(front) + Len(back)
  BY <1>2, <1>3
<1>7. Len(g) = n - 1
  BY <1>2, <1>3, <1>6
<1>8. \A j \in 1 .. i - 1 : g[j] = front[j]
  BY <1>2, <1>3
<1>9. \A j \in i .. n - 1 : g[j] = s[j + 1]
  <2> TAKE j \in i .. n - 1
  <2>1. /\ j \in Len(front) + 1 .. Len(front) + Len(back)
        /\ j - Len(front) \in 1 .. n - i /\ i + (j - Len(front)) = j + 1
    BY <1>2, <1>3
  <2>2. g[j] = back[j - Len(front)]
    BY <2>1, <1>2, <1>3, SecondPart
  <2> QED
    BY <2>1, <2>2, <1>3
<1> HIDE DEF g
<1>10. \A j \in 1 .. n - 1 : g[j] = t[j]
  BY <1>2, <1>5, <1>8, <1>9
<1>11. t \in Seq(S) /\ Len(t) = n - 1
  BY <1>5
<1>12. g = t
  BY <1>6, <1>7, <1>10, <1>11, SeqEqual
<1> QED
  BY <1>1, <1>4, <1>12 DEF t

\* A list whose links are the same up to its last item is the same.
LEMMA SameChain ==
    ASSUME NEW Owner, NEW Item, IsFiniteSet(Item), NEW L, Good(L, Owner, Item), Agree(L),
           Ordered(L), NEW M, Good(M, Owner, Item), NEW q \in Owner,
           M.first[q] = L.first[q], L.first[q] # Null => M.last[q] = L.last[q],
           \A x \in Members(L, q) : x # L.last[q] => M.next[x] = L.next[x]
    PROVE  Chain(M, q) = Chain(L, q)
<1>1. PICK n \in Nat : \E s \in [1 .. n -> Item] :
         /\ Follows(L, q, s, n, Item) /\ \A i \in 1 .. n : s[i] \in Members(L, q)
         /\ n = 0 => Members(L, q) = {}
  BY ListFollows
<1>2. PICK s \in [1 .. n -> Item] :
         /\ Follows(L, q, s, n, Item) /\ \A i \in 1 .. n : s[i] \in Members(L, q)
         /\ n = 0 => Members(L, q) = {}
  BY <1>1
<1>3. Follows(M, q, s, n, Item)
  BY <1>2, GoodLinks DEF Follows, IsInjective
<1> QED
  BY <1>2, <1>3, ChainIsSequence

LEMMA PutInFollows ==
    ASSUME NEW Owner, NEW Item, IsFiniteSet(Item), NEW M, Good(M, Owner, Item),
           NEW p \in Owner, NEW n \in Nat, NEW s \in [1 .. n -> Item], IsInjective(s),
           NEW c \in Item, \A i \in 1 .. n : s[i] # c,
           NEW i \in 1 .. n + 1, NEW t, t = PutIn(s, n, i, c),
           M.first[p] = t[1], M.last[p] = t[n + 1], \A j \in 1 .. n : M.next[t[j]] = t[j + 1]
    PROVE  /\ Chain(M, p) = t /\ Len(t) = n + 1 /\ t[i] = c /\ RemoveAt(t, i) = s
<1>1. \A j \in 1 .. n + 1 : t[j] = IF j < i THEN s[j] ELSE IF j = i THEN c ELSE s[j - 1]
  BY DEF PutIn
<1>2. t \in [1 .. n + 1 -> Item] /\ n + 1 \in Nat
  BY DEF PutIn
<1>3. IsInjective(t)
  <2>1. \A j, k \in 1 .. n : s[j] = s[k] => j = k
    BY DEF IsInjective
  <2>2. ASSUME NEW j \in 1 .. n + 1, NEW k \in 1 .. n + 1, t[j] = t[k]
        PROVE  j = k
    BY <1>1, <2>1, <2>2
  <2> QED
    BY <1>2, <2>2 DEF IsInjective
<1>4. Follows(M, p, t, n + 1, Item)
  <2>1. \A j \in 1 .. n + 1 : j # n + 1 => M.next[t[j]] = t[j + 1]
    OBVIOUS
  <2> QED
    BY <1>2, <1>3, <2>1 DEF Follows
<1>5. Chain(M, p) = t /\ Len(t) = n + 1
  BY <1>4, ChainIsSequence
<1>6. s = LeftOut(t, n + 1, i)
  <2>1. \A j \in 1 .. n : s[j] = IF j < i THEN t[j] ELSE t[j + 1]
    BY <1>1
  <2>2. s = [j \in 1 .. n |-> s[j]]
    OBVIOUS
  <2>3. [j \in 1 .. n |-> s[j]] = [j \in 1 .. n |-> IF j < i THEN t[j] ELSE t[j + 1]]
    BY <2>1
  <2>4. (n + 1) - 1 = n
    OBVIOUS
  <2> QED
    BY <2>2, <2>3, <2>4 DEF LeftOut
<1>7. RemoveAt(t, i) = s
  <2>1. n + 1 # 0
    OBVIOUS
  <2>2. RemoveAt(t, i) = LeftOut(t, n + 1, i)
    BY <1>2, <2>1, RemovedAt
  <2> QED
    BY <1>6, <2>2
<1> QED
  BY <1>1, <1>5, <1>7

LEMMA LeftOutFollows ==
    ASSUME NEW Owner, NEW Item, IsFiniteSet(Item), NEW M, Good(M, Owner, Item),
           NEW p \in Owner, NEW n \in Nat, n # 0, NEW s \in [1 .. n -> Item], IsInjective(s),
           NEW i \in 1 .. n, NEW t, t = LeftOut(s, n, i),
           IF n = 1 THEN M.first[p] = Null ELSE M.first[p] = t[1] /\ M.last[p] = t[n - 1],
           \A j \in 1 .. n - 1 : j # n - 1 => M.next[t[j]] = t[j + 1]
    PROVE  Chain(M, p) = t /\ RemoveAt(s, i) = t /\ Len(s) = n
<1>1. \A j \in 1 .. n - 1 : t[j] = IF j < i THEN s[j] ELSE s[j + 1]
  BY DEF LeftOut
<1>2. t \in [1 .. n - 1 -> Item] /\ n - 1 \in Nat
  BY DEF LeftOut
<1>3. IsInjective(t)
  <2>1. \A j, k \in 1 .. n : s[j] = s[k] => j = k
    BY DEF IsInjective
  <2>2. ASSUME NEW j \in 1 .. n - 1, NEW k \in 1 .. n - 1, t[j] = t[k]
        PROVE  j = k
    BY <1>1, <2>1, <2>2
  <2> QED
    BY <1>2, <2>2 DEF IsInjective
<1>4. Follows(M, p, t, n - 1, Item)
  BY <1>2, <1>3 DEF Follows
<1>5. Chain(M, p) = t /\ Len(t) = n - 1
  BY <1>2, <1>4, ChainIsSequence
<1>6. RemoveAt(s, i) = t /\ Len(s) = n
  BY RemovedAt
<1> QED
  BY <1>5, <1>6

\* The list of p has one item more, c, which was in no list, and others have not changed.
Grows(L, M, p, c) ==
    /\ \E i \in 1 .. Len(Chain(M, p)) :
          Chain(M, p)[i] = c /\ Chain(L, p) = RemoveAt(Chain(M, p), i)
    /\ \A q \in DOMAIN L.first : c \notin ToSet(Chain(L, q))

\* It has one item less.
Shrinks(L, M, p) ==
    \E i \in 1 .. Len(Chain(L, p)) : Chain(M, p) = RemoveAt(Chain(L, p), i)

Others(L, M, p) == \A q \in DOMAIN L.first : q # p => Chain(M, q) = Chain(L, q)

\* t, of n + 1 items, is s with c put in at i.
OneMore(s, t, n, i, c) == Len(t) = n + 1 /\ t[i] = c /\ RemoveAt(t, i) = s

\* What Chain makes has items of the list only.
LEMMA ChainHasMembers ==
    ASSUME NEW Owner, NEW Item, IsFiniteSet(Item), NEW L, Good(L, Owner, Item), Agree(L),
           Ordered(L), NEW p \in Owner
    PROVE  ToSet(Chain(L, p)) \subseteq Members(L, p)
<1>1. PICK n \in Nat : \E s \in [1 .. n -> Item] :
         /\ Follows(L, p, s, n, Item) /\ \A i \in 1 .. n : s[i] \in Members(L, p)
         /\ n = 0 => Members(L, p) = {}
  BY ListFollows
<1>2. PICK s \in [1 .. n -> Item] :
         /\ Follows(L, p, s, n, Item) /\ \A i \in 1 .. n : s[i] \in Members(L, p)
         /\ n = 0 => Members(L, p) = {}
  BY <1>1
<1>3. Chain(L, p) = s
  BY <1>2, ChainIsSequence
<1> QED
  BY <1>2, <1>3 DEF ToSet

\* Links that differ next to members of p only leave other lists as they are.
LEMMA OthersStay ==
    ASSUME NEW Owner, NEW Item, IsFiniteSet(Item), NEW L, Good(L, Owner, Item), Agree(L),
           Ordered(L), NEW M, Good(M, Owner, Item), NEW p \in Owner,
           \A q \in Owner : q # p => M.first[q] = L.first[q] /\ M.last[q] = L.last[q],
           \A x \in Item : L.owner[x] \notin {p, Null} => M.next[x] = L.next[x]
    PROVE  Others(L, M, p)
<1>1. ASSUME NEW q \in Owner, q # p
      PROVE  Chain(M, q) = Chain(L, q)
  <2>1. \A x \in Members(L, q) : x \in Item /\ L.owner[x] = q /\ q # Null
    BY MembersAre, GoodLinks
  <2>2. \A x \in Members(L, q) : M.next[x] = L.next[x]
    BY <1>1, <2>1
  <2> QED
    BY <1>1, <2>2, SameChain
<1> QED
  BY <1>1, GoodLinks DEF Others

LEMMA PrependGrows ==
    ASSUME NEW Owner, NEW Item, IsFiniteSet(Item), NEW L, Good(L, Owner, Item), Agree(L),
           Ordered(L), NEW p \in Owner, NEW c \in Item, L.owner[c] = Null,
           NEW M, M = Prepend(L, p, c), NEW n \in Nat, NEW s \in [1 .. n -> Item],
           Whole(L, p, s, n, Item), \A i \in 1 .. n : s[i] # c
    PROVE  Others(L, M, p) /\ OneMore(s, Chain(M, p), n, 1, c)
<1>1. Good(M, Owner, Item) /\ Prepended(L, M, p, c)
  BY PrependLinks, Zenon
<1>2. Others(L, M, p)
  <2>1. /\ \A q \in Owner : q # p => M.first[q] = L.first[q] /\ M.last[q] = L.last[q]
        /\ \A x \in Item : L.owner[x] \notin {p, Null} => M.next[x] = L.next[x]
    BY <1>1, GoodLinks DEF Prepended
  <2> QED
    BY <1>1, <2>1, OthersStay
<1> DEFINE t == PutIn(s, n, 1, c)
<1>3. \A j \in 1 .. n + 1 : t[j] = IF j = 1 THEN c ELSE s[j - 1]
  BY DEF PutIn
<1>4. /\ n = 0 => L.first[p] = Null
      /\ n # 0 => s[1] = L.first[p] /\ s[n] = L.last[p]
      /\ \A i \in 1 .. n : i # n => L.next[s[i]] = s[i + 1]
      /\ IsInjective(s)
  BY DEF Whole, Follows
<1>5. /\ 1 \in 1 .. n + 1 /\ n + 1 \in 1 .. n + 1 /\ (n # 0 => n + 1 # 1 /\ 1 \in 1 .. n)
      /\ \A j \in 1 .. n : j \in 1 .. n + 1 /\ j + 1 \in 1 .. n + 1 /\ j + 1 # 1
                           /\ (j + 1) - 1 = j /\ (j # 1 => j - 1 \in 1 .. n /\ j - 1 # n
                                                   /\ (j - 1) + 1 = j)
      /\ (n + 1) - 1 = n
  OBVIOUS
<1> HIDE DEF t
<1>6. /\ M.first[p] = c /\ (n # 0 => M.last[p] = L.last[p]) /\ (n = 0 => M.last[p] = c)
      /\ M.next[c] = L.first[p] /\ \A x \in Item : x # c => M.next[x] = L.next[x]
  BY <1>1, <1>4, GoodLinks DEF Prepended
<1>7. M.first[p] = t[1]
  BY <1>3, <1>5, <1>6
<1>8. M.last[p] = t[n + 1]
  BY <1>3, <1>4, <1>5, <1>6
<1>9. ASSUME NEW j \in 1 .. n PROVE M.next[t[j]] = t[j + 1]
  <2>1. t[j + 1] = s[j]
    BY <1>3, <1>5
  <2>2. CASE j = 1
    BY <1>3, <1>4, <1>5, <1>6, <2>1, <2>2
  <2>3. CASE j # 1
    <3>1. t[j] = s[j - 1] /\ s[j - 1] \in Item /\ s[j - 1] # c
      BY <1>3, <1>5, <2>3
    <3>2. L.next[s[j - 1]] = s[j]
      BY <1>4, <1>5, <2>3
    <3> QED
      BY <1>6, <2>1, <3>1, <3>2
  <2> QED
    BY <2>2, <2>3
<1>10. Chain(M, p) = t /\ Len(t) = n + 1 /\ t[1] = c /\ RemoveAt(t, 1) = s
  BY <1>1, <1>4, <1>5, <1>7, <1>8, <1>9, PutInFollows DEF t
<1> QED
  BY <1>2, <1>10 DEF OneMore

LEMMA AppendGrows ==
    ASSUME NEW Owner, NEW Item, IsFiniteSet(Item), NEW L, Good(L, Owner, Item), Agree(L),
           Ordered(L), NEW p \in Owner, NEW c \in Item, L.owner[c] = Null,
           NEW M, M = AppendTo(L, p, c), NEW n \in Nat, NEW s \in [1 .. n -> Item],
           Whole(L, p, s, n, Item), \A i \in 1 .. n : s[i] # c
    PROVE  Others(L, M, p) /\ OneMore(s, Chain(M, p), n, n + 1, c)
<1> DEFINE l == IF L.first[p] = Null THEN Null ELSE L.last[p]
<1>1. Good(M, Owner, Item) /\ Appended(L, M, p, c, l)
  BY AppendLinks, Zenon
<1>2. /\ n = 0 => L.first[p] = Null
      /\ n # 0 => s[1] = L.first[p] /\ s[n] = L.last[p] /\ s[n] \in Members(L, p)
      /\ \A i \in 1 .. n : i # n => L.next[s[i]] = s[i + 1]
      /\ IsInjective(s) /\ \A i, j \in 1 .. n : s[i] = s[j] => i = j
  <2>1. \A i \in 1 .. n : s[i] \in Members(L, p)
    BY DEF Whole
  <2>2. n # 0 => n \in 1 .. n
    OBVIOUS
  <2>3. IsInjective(s) /\ \A i, j \in 1 .. n : s[i] = s[j] => i = j
    BY DEF Whole, Follows, IsInjective
  <2> QED
    BY <2>1, <2>2, <2>3 DEF Whole, Follows
<1>3. l = IF n = 0 THEN Null ELSE s[n]
  <2>1. n # 0 => s[1] \in Item
    OBVIOUS
  <2> QED
    BY <1>2, <2>1, GoodLinks
<1> HIDE DEF l
<1>4. Others(L, M, p)
  <2>1. l # Null => L.owner[l] = p
    BY <1>2, <1>3, MembersAre
  <2>2. /\ \A q \in Owner : q # p => M.first[q] = L.first[q] /\ M.last[q] = L.last[q]
        /\ \A x \in Item : L.owner[x] \notin {p, Null} => M.next[x] = L.next[x]
    BY <1>1, <2>1, GoodLinks DEF Appended, Lead
  <2> QED
    BY <1>1, <2>2, OthersStay
<1> DEFINE t == PutIn(s, n, n + 1, c)
<1>5. \A j \in 1 .. n + 1 : t[j] = IF j = n + 1 THEN c ELSE s[j]
  BY DEF PutIn
<1>6. /\ 1 \in 1 .. n + 1 /\ n + 1 \in 1 .. n + 1 /\ (n # 0 => n + 1 # 1 /\ 1 \in 1 .. n)
      /\ \A j \in 1 .. n : j \in 1 .. n + 1 /\ j + 1 \in 1 .. n + 1 /\ j # n + 1
                           /\ (j # n => j + 1 # n + 1 /\ j + 1 \in 1 .. n)
      /\ (n # 0 => n \in 1 .. n)
  OBVIOUS
<1> HIDE DEF t
<1>7. /\ M.first[p] = IF n = 0 THEN c ELSE s[1]
      /\ M.last[p] = c
      /\ \A x \in Item : x # c => M.next[x] = IF x = l THEN c ELSE L.next[x]
  <2>1. n # 0 => L.first[p] # Null
    BY <1>2, <1>6, GoodLinks
  <2> QED
    BY <1>1, <1>2, <2>1, GoodLinks DEF Appended, Lead
<1>8. M.first[p] = t[1]
  BY <1>5, <1>6, <1>7
<1>9. M.last[p] = t[n + 1]
  BY <1>5, <1>6, <1>7
<1>10. ASSUME NEW j \in 1 .. n PROVE M.next[t[j]] = t[j + 1]
  <2>1. t[j] = s[j] /\ s[j] \in Item /\ s[j] # c /\ n # 0
    BY <1>5, <1>6
  <2>2. CASE j = n
    BY <1>3, <1>5, <1>6, <1>7, <2>1, <2>2
  <2>3. CASE j # n
    <3>1. s[j] # s[n]
      BY <1>2, <1>6, <2>1, <2>3
    <3> QED
      BY <1>2, <1>3, <1>5, <1>6, <1>7, <2>1, <2>3, <3>1
  <2> QED
    BY <2>2, <2>3
<1>11. Chain(M, p) = t /\ Len(t) = n + 1 /\ t[n + 1] = c /\ RemoveAt(t, n + 1) = s
  BY <1>1, <1>2, <1>6, <1>8, <1>9, <1>10, PutInFollows DEF t
<1> QED
  BY <1>4, <1>11 DEF OneMore

LEMMA BetweenGrows ==
    ASSUME NEW Owner, NEW Item, IsFiniteSet(Item), NEW L, Good(L, Owner, Item), Agree(L),
           Ordered(L), NEW p \in Owner, NEW c \in Item, L.owner[c] = Null,
           NEW w \in Item, w \in Members(L, p), w # L.first[p],
           NEW M, M = Between(L, p, w, c), NEW n \in Nat, NEW s \in [1 .. n -> Item],
           Whole(L, p, s, n, Item), \A i \in 1 .. n : s[i] # c
    PROVE  Others(L, M, p) /\ \E i \in 1 .. n : OneMore(s, Chain(M, p), n, i, c)
<1>1. Good(M, Owner, Item) /\ PutBetween(L, M, p, w, c)
  BY BetweenLinks, Zenon
<1>2. /\ n = 0 => L.first[p] = Null
      /\ n # 0 => s[1] = L.first[p] /\ s[n] = L.last[p]
      /\ \A k \in 1 .. n : k # n => L.next[s[k]] = s[k + 1]
      /\ IsInjective(s) /\ \A k, j \in 1 .. n : s[k] = s[j] => k = j
      /\ \A x \in Members(L, p) : \E k \in 1 .. n : x = s[k]
      /\ \A k \in 1 .. n : s[k] \in Members(L, p)
      /\ \A k \in 1 .. n : L.prev[s[k]] = IF k = 1 THEN Null ELSE s[k - 1]
  BY DEF Whole, Follows, IsInjective
<1>3. PICK i \in 1 .. n : w = s[i]
  BY <1>2
<1>4. i # 1 /\ n # 0 /\ i - 1 \in 1 .. n /\ L.prev[w] = s[i - 1]
  BY <1>2, <1>3
<1>5. Others(L, M, p)
  <2>1. L.owner[s[i - 1]] = p
    BY <1>2, <1>4, MembersAre
  <2>2. /\ \A q \in Owner : q # p => M.first[q] = L.first[q] /\ M.last[q] = L.last[q]
        /\ \A x \in Item : L.owner[x] \notin {p, Null} => M.next[x] = L.next[x]
    BY <1>1, <1>4, <2>1, GoodLinks DEF PutBetween, Lead
  <2> QED
    BY <1>1, <2>2, OthersStay
<1> DEFINE t == PutIn(s, n, i, c)
<1>6. \A j \in 1 .. n + 1 : t[j] = IF j < i THEN s[j] ELSE IF j = i THEN c ELSE s[j - 1]
  BY DEF PutIn
<1>7. /\ M.first[p] = s[1] /\ M.last[p] = s[n] /\ M.next[c] = s[i]
      /\ \A x \in Item : x # c => M.next[x] = IF x = s[i - 1] THEN c ELSE L.next[x]
  <2>1. s[i - 1] \in Item /\ s[i - 1] # Null
    BY <1>4, GoodLinks
  <2> QED
    BY <1>1, <1>2, <1>3, <1>4, <2>1, GoodLinks DEF PutBetween, Lead
<1> HIDE DEF t
<1>8. t[1] = s[1] /\ t[n + 1] = s[n]
  <2>1. 1 \in 1 .. n + 1 /\ 1 < i /\ n + 1 \in 1 .. n + 1 /\ ~(n + 1 < i) /\ n + 1 # i
        /\ (n + 1) - 1 = n
    BY <1>4
  <2> QED
    BY <1>6, <2>1
<1>9. ASSUME NEW j \in 1 .. n PROVE M.next[t[j]] = t[j + 1]
  <2>0. j \in 1 .. n + 1 /\ j + 1 \in 1 .. n + 1 /\ (j + 1) - 1 = j /\ s[j] \in Item
    OBVIOUS
  <2>1. CASE j = i
    <3>1. t[j] = c /\ t[j + 1] = s[j]
      BY <1>6, <2>0, <2>1
    <3> QED
      BY <1>7, <2>1, <3>1
  <2>2. CASE j = i - 1
    <3>1. t[j] = s[j] /\ t[j + 1] = c
      BY <1>6, <2>0, <2>2
    <3> QED
      BY <1>7, <2>0, <2>2, <3>1
  <2>3. CASE j < i - 1
    <3>1. t[j] = s[j] /\ t[j + 1] = s[j + 1] /\ j # n /\ j # i - 1
      BY <1>6, <2>0, <2>3
    <3>2. s[j] # s[i - 1] /\ L.next[s[j]] = s[j + 1] /\ s[j] # c
      BY <1>2, <1>4, <3>1
    <3> QED
      BY <1>7, <2>0, <3>1, <3>2
  <2>4. CASE j > i
    <3>1. t[j] = s[j - 1] /\ t[j + 1] = s[j] /\ j - 1 # n /\ j - 1 # i - 1 /\ j - 1 \in 1 .. n
          /\ (j - 1) + 1 = j
      BY <1>6, <2>0, <2>4
    <3>2. s[j - 1] # s[i - 1] /\ s[j - 1] # c /\ s[j - 1] \in Item
      BY <1>2, <1>4, <3>1
    <3>3. L.next[s[j - 1]] = s[j]
      BY <1>2, <3>1
    <3> QED
      BY <1>7, <3>1, <3>2, <3>3
  <2> QED
    BY <2>1, <2>2, <2>3, <2>4
<1>10. Chain(M, p) = t /\ Len(t) = n + 1 /\ t[i] = c /\ RemoveAt(t, i) = s
  <2>1. M.first[p] = t[1] /\ M.last[p] = t[n + 1] /\ i \in 1 .. n + 1
    BY <1>7, <1>8
  <2>2. t = PutIn(s, n, i, c)
    BY DEF t
  <2>3. IsInjective(s) /\ Good(M, Owner, Item)
    BY <1>1, <1>2
  <2>4. \A j \in 1 .. n : M.next[t[j]] = t[j + 1]
    BY <1>9
  <2> QED
    BY <2>1, <2>2, <2>3, <2>4, PutInFollows
<1> QED
  BY <1>5, <1>10 DEF OneMore

LEMMA AddGrows ==
    ASSUME NEW Owner, NEW Item, IsFiniteSet(Item), NEW L, Good(L, Owner, Item), Agree(L),
           Ordered(L), Ended(L), NEW p \in Owner, NEW c \in Item, L.owner[c] = Null,
           NEW w \in Item \cup {Null}, w # Null => L.owner[w] = p,
           NEW M, M \in {Prepend(L, p, c), AppendTo(L, p, c), InsertBefore(L, p, w, c)}
    PROVE  Grows(L, M, p, c) /\ Others(L, M, p)
<1>1. PICK n \in Nat : \E s \in [1 .. n -> Item] : Whole(L, p, s, n, Item)
  BY ListIsWhole
<1>2. PICK s \in [1 .. n -> Item] : Whole(L, p, s, n, Item)
  BY <1>1
<1>3. Chain(L, p) = s
  BY <1>2, ChainIsSequence DEF Whole
<1>4. \A q \in Owner : c \notin ToSet(Chain(L, q))
  <2>1. ASSUME NEW q \in Owner PROVE c \notin ToSet(Chain(L, q))
    <3>1. ToSet(Chain(L, q)) \subseteq Members(L, q)
      BY ChainHasMembers
    <3> QED
      BY <3>1, MembersAre, GoodLinks
  <2> QED
    BY <2>1
<1>5. \A i \in 1 .. n : s[i] # c
  <2>1. \A i \in 1 .. n : s[i] \in Members(L, p)
    BY <1>2 DEF Whole
  <2> QED
    BY <2>1, MembersAre, GoodLinks
<1>6. ASSUME NEW i \in 1 .. n + 1, OneMore(s, Chain(M, p), n, i, c)
      PROVE  Grows(L, M, p, c)
  BY <1>3, <1>4, <1>6, GoodLinks DEF Grows, OneMore
<1>7. CASE M = Prepend(L, p, c)
  <2>1. Others(L, M, p) /\ OneMore(s, Chain(M, p), n, 1, c)
    BY <1>2, <1>5, <1>7, PrependGrows
  <2>2. 1 \in 1 .. n + 1
    OBVIOUS
  <2> QED
    BY <1>6, <2>1, <2>2
<1>8. CASE M = AppendTo(L, p, c)
  <2>1. Others(L, M, p) /\ OneMore(s, Chain(M, p), n, n + 1, c)
    BY <1>2, <1>5, <1>8, AppendGrows
  <2>2. n + 1 \in 1 .. n + 1
    OBVIOUS
  <2> QED
    BY <1>6, <2>1, <2>2
<1>9. CASE M = InsertBefore(L, p, w, c) /\ w # L.first[p] /\ w # Null
  <2>1. M = Between(L, p, w, c) /\ w \in Item /\ w \in Members(L, p)
    BY <1>9, MembersAre DEF InsertBefore
  <2>2. Others(L, M, p) /\ \E i \in 1 .. n : OneMore(s, Chain(M, p), n, i, c)
    BY <1>2, <1>5, <1>9, <2>1, BetweenGrows
  <2>3. 1 .. n \subseteq 1 .. n + 1
    OBVIOUS
  <2> QED
    BY <1>6, <2>2, <2>3
<1> QED
  BY <1>7, <1>8, <1>9 DEF InsertBefore

LEMMA TakeFirstShrinks ==
    ASSUME NEW Owner, NEW Item, IsFiniteSet(Item), NEW L, Good(L, Owner, Item), Agree(L),
           Ordered(L), Ended(L), NEW p \in Owner, L.first[p] # Null,
           NEW M, M = WithoutFirst(L, p)
    PROVE  Shrinks(L, M, p) /\ Others(L, M, p)
<1>1. PICK n \in Nat : \E s \in [1 .. n -> Item] : Whole(L, p, s, n, Item)
  BY ListIsWhole
<1>2. PICK s \in [1 .. n -> Item] : Whole(L, p, s, n, Item)
  BY <1>1
<1>3. L.first[p] \in Item
  BY GoodLinks
<1>4. Good(M, Owner, Item) /\ FirstTaken(L, M, p, L.first[p])
  BY <1>3, WithoutFirstLinks
<1>5. Others(L, M, p)
  <2>1. /\ \A q \in Owner : q # p => M.first[q] = L.first[q] /\ M.last[q] = L.last[q]
        /\ \A x \in Item : L.owner[x] \notin {p, Null} => M.next[x] = L.next[x]
    BY <1>4, GoodLinks DEF FirstTaken
  <2> QED
    BY <1>4, <2>1, OthersStay
<1>6. /\ n # 0 /\ s[1] = L.first[p] /\ s[n] = L.last[p] /\ IsInjective(s)
      /\ \A k \in 1 .. n : L.next[s[k]] = IF k = n THEN Null ELSE s[k + 1]
      /\ Follows(L, p, s, n, Item)
  BY <1>2 DEF Whole, Follows
<1> DEFINE t == LeftOut(s, n, 1)
<1>7. \A j \in 1 .. n - 1 : t[j] = s[j + 1]
  BY DEF LeftOut
<1>8. /\ M.first[p] = IF n = 1 THEN Null ELSE s[2]
      /\ n # 1 => M.last[p] = s[n] /\ M.next = L.next
  <2>1. n # 1 => 2 \in 1 .. n
    BY <1>6
  <2>2. L.next[L.first[p]] = IF n = 1 THEN Null ELSE s[2]
    BY <1>6
  <2>3. n # 1 => s[2] # Null
    BY <2>1, GoodLinks
  <2> QED
    BY <1>4, <1>6, <2>2, <2>3, GoodLinks DEF FirstTaken
<1> HIDE DEF t
<1>9. IF n = 1 THEN M.first[p] = Null ELSE M.first[p] = t[1] /\ M.last[p] = t[n - 1]
  <2>1. n # 1 => 1 \in 1 .. n - 1 /\ n - 1 \in 1 .. n - 1 /\ (n - 1) + 1 = n
    BY <1>6
  <2> QED
    BY <1>7, <1>8, <2>1
<1>10. \A j \in 1 .. n - 1 : j # n - 1 => M.next[t[j]] = t[j + 1]
  <2>1. ASSUME NEW j \in 1 .. n - 1, j # n - 1 PROVE M.next[t[j]] = t[j + 1]
    <3>1. j + 1 \in 1 .. n - 1 /\ j + 1 \in 1 .. n /\ j + 1 # n /\ n # 1
      BY <2>1
    <3> QED
      BY <1>6, <1>7, <1>8, <3>1
  <2> QED
    BY <2>1
<1>11. Chain(M, p) = t /\ RemoveAt(s, 1) = t /\ Len(s) = n
  <2>1. 1 \in 1 .. n /\ t = LeftOut(s, n, 1)
    BY <1>6 DEF t
  <2> QED
    BY <1>4, <1>6, <1>9, <1>10, <2>1, LeftOutFollows
<1>12. Chain(L, p) = s
  BY <1>6, ChainIsSequence
<1> QED
  BY <1>5, <1>6, <1>11, <1>12 DEF Shrinks

LEMMA TakeLastShrinks ==
    ASSUME NEW Owner, NEW Item, IsFiniteSet(Item), NEW L, Good(L, Owner, Item), Agree(L),
           Ordered(L), Ended(L), NEW p \in Owner, L.first[p] # Null,
           NEW M, M = WithoutLast(L, p)
    PROVE  Shrinks(L, M, p) /\ Others(L, M, p)
<1>1. PICK n \in Nat : \E s \in [1 .. n -> Item] : Whole(L, p, s, n, Item)
  BY ListIsWhole
<1>2. PICK s \in [1 .. n -> Item] : Whole(L, p, s, n, Item)
  BY <1>1
<1>3. L.last[p] \in Item
  BY AgreeIsAt, MembersAre, GoodLinks DEF AgreeAt
<1>4. Good(M, Owner, Item) /\ LastTaken(L, M, p, L.last[p])
  BY <1>3, WithoutLastLinks
<1>5. /\ n # 0 /\ s[1] = L.first[p] /\ s[n] = L.last[p]
      /\ \A k \in 1 .. n : L.next[s[k]] = IF k = n THEN Null ELSE s[k + 1]
      /\ Follows(L, p, s, n, Item)
  BY <1>2 DEF Whole, Follows
<1>6. IsInjective(s) /\ \A k, j \in 1 .. n : s[k] = s[j] => k = j
  BY <1>2 DEF Whole, Follows, IsInjective
<1>7. n \in 1 .. n /\ L.prev[L.last[p]] = IF n = 1 THEN Null ELSE s[n - 1]
  BY <1>2, <1>5 DEF Whole
<1>8. Others(L, M, p)
  <2>1. n # 1 => n - 1 \in 1 .. n
    BY <1>7
  <2>2. n # 1 => L.owner[s[n - 1]] = p
    BY <1>2, <2>1, MembersAre DEF Whole
  <2>3. /\ \A q \in Owner : q # p => M.first[q] = L.first[q] /\ M.last[q] = L.last[q]
        /\ \A x \in Item : L.owner[x] \notin {p, Null} => M.next[x] = L.next[x]
    BY <1>4, <1>7, <2>2, GoodLinks DEF LastTaken, Lead
  <2> QED
    BY <1>4, <2>3, OthersStay
<1> DEFINE t == LeftOut(s, n, n)
<1>9. \A j \in 1 .. n - 1 : t[j] = s[j]
  BY DEF LeftOut
<1>10. /\ M.first[p] = IF n = 1 THEN Null ELSE s[1]
       /\ n # 1 => M.last[p] = s[n - 1]
                   /\ \A x \in Item : x # s[n - 1] => M.next[x] = L.next[x]
  <2>1. n # 1 => n - 1 \in 1 .. n
    BY <1>7
  <2>2. n # 1 => s[n - 1] # Null /\ s[n - 1] \in Item
    BY <2>1, GoodLinks
  <2> QED
    BY <1>4, <1>5, <1>7, <2>2, GoodLinks DEF LastTaken, Lead
<1> HIDE DEF t
<1>11. IF n = 1 THEN M.first[p] = Null ELSE M.first[p] = t[1] /\ M.last[p] = t[n - 1]
  <2>1. n # 1 => 1 \in 1 .. n - 1 /\ n - 1 \in 1 .. n - 1
    BY <1>7
  <2> QED
    BY <1>9, <1>10, <2>1
<1>12. \A j \in 1 .. n - 1 : j # n - 1 => M.next[t[j]] = t[j + 1]
  <2>1. ASSUME NEW j \in 1 .. n - 1, j # n - 1 PROVE M.next[t[j]] = t[j + 1]
    <3>1. j + 1 \in 1 .. n - 1 /\ j \in 1 .. n /\ j # n /\ n # 1 /\ n - 1 \in 1 .. n
      BY <2>1
    <3>2. s[j] # s[n - 1] /\ s[j] \in Item
      BY <1>6, <2>1, <3>1
    <3> QED
      BY <1>5, <1>9, <1>10, <3>1, <3>2
  <2> QED
    BY <2>1
<1>13. Chain(M, p) = t /\ RemoveAt(s, n) = t /\ Len(s) = n
  <2>1. t = LeftOut(s, n, n)
    BY DEF t
  <2> QED
    BY <1>4, <1>5, <1>6, <1>7, <1>11, <1>12, <2>1, LeftOutFollows
<1>14. Chain(L, p) = s
  BY <1>5, ChainIsSequence
<1> QED
  BY <1>7, <1>8, <1>13, <1>14 DEF Shrinks

LEMMA TakeInnerShrinks ==
    ASSUME NEW Owner, NEW Item, IsFiniteSet(Item), NEW L, Good(L, Owner, Item), Agree(L),
           Ordered(L), Ended(L), NEW p \in Owner, NEW c \in Item, L.owner[c] = p,
           c # L.first[p], c # L.last[p], NEW M, M = Inner(L, c)
    PROVE  Shrinks(L, M, p) /\ Others(L, M, p)
<1>1. PICK n \in Nat : \E s \in [1 .. n -> Item] : Whole(L, p, s, n, Item)
  BY ListIsWhole
<1>2. PICK s \in [1 .. n -> Item] : Whole(L, p, s, n, Item)
  BY <1>1
<1>3. c \in Members(L, p)
  BY MembersAre
<1>4. Good(M, Owner, Item) /\ InnerTaken(L, M, c)
  BY InnerLinks
<1>5. PICK i \in 1 .. n : c = s[i]
  BY <1>2, <1>3 DEF Whole
<1>6. /\ n # 0 /\ s[1] = L.first[p] /\ s[n] = L.last[p] /\ Follows(L, p, s, n, Item)
      /\ \A k \in 1 .. n : L.next[s[k]] = IF k = n THEN Null ELSE s[k + 1]
      /\ \A k \in 1 .. n : L.prev[s[k]] = IF k = 1 THEN Null ELSE s[k - 1]
      /\ \A k \in 1 .. n : s[k] \in Members(L, p)
  <2>1. n # 0
    BY <1>5
  <2> QED
    BY <1>2, <2>1 DEF Whole, Follows
<1>7. IsInjective(s) /\ \A k, j \in 1 .. n : s[k] = s[j] => k = j
  BY <1>2 DEF Whole, Follows, IsInjective
<1>8. /\ i # 1 /\ i # n /\ i - 1 \in 1 .. n /\ i + 1 \in 1 .. n /\ n # 1 /\ n - 1 \in 1 .. n
      /\ 1 \in 1 .. n /\ n \in 1 .. n
  BY <1>5, <1>6
<1>9. L.prev[c] = s[i - 1] /\ L.next[c] = s[i + 1]
  BY <1>5, <1>6, <1>8
<1>10. Others(L, M, p)
  <2>1. L.owner[s[i - 1]] = p
    BY <1>6, <1>8, MembersAre
  <2>2. /\ \A q \in Owner : q # p => M.first[q] = L.first[q] /\ M.last[q] = L.last[q]
        /\ \A x \in Item : L.owner[x] \notin {p, Null} => M.next[x] = L.next[x]
    BY <1>4, <1>9, <2>1, GoodLinks DEF InnerTaken, Lead
  <2> QED
    BY <1>4, <2>2, OthersStay
<1> DEFINE t == LeftOut(s, n, i)
<1>11. \A j \in 1 .. n - 1 : t[j] = IF j < i THEN s[j] ELSE s[j + 1]
  BY DEF LeftOut
<1>12. /\ M.first[p] = s[1] /\ M.last[p] = s[n]
       /\ \A x \in Item : M.next[x] = IF x = s[i - 1] THEN s[i + 1] ELSE L.next[x]
  <2>1. s[i - 1] \in Item /\ s[i - 1] # Null
    BY <1>8, GoodLinks
  <2> QED
    BY <1>4, <1>6, <1>9, <2>1, GoodLinks DEF InnerTaken, Lead
<1> HIDE DEF t
<1>13. M.first[p] = t[1] /\ M.last[p] = t[n - 1]
  <2>1. 1 \in 1 .. n - 1 /\ 1 < i /\ n - 1 \in 1 .. n - 1 /\ ~(n - 1 < i) /\ (n - 1) + 1 = n
    BY <1>8
  <2> QED
    BY <1>11, <1>12, <2>1
<1>14. \A j \in 1 .. n - 1 : j # n - 1 => M.next[t[j]] = t[j + 1]
  <2>1. ASSUME NEW j \in 1 .. n - 1, j # n - 1 PROVE M.next[t[j]] = t[j + 1]
    <3>0. j + 1 \in 1 .. n - 1 /\ j \in 1 .. n /\ j # n /\ j + 1 \in 1 .. n /\ j + 1 # n
          /\ (j + 1) + 1 \in 1 .. n
      BY <2>1
    <3>1. CASE j = i - 1
      <4>1. t[j] = s[j] /\ t[j + 1] = s[i + 1]
        BY <1>11, <3>0, <3>1
      <4> QED
        BY <1>12, <3>0, <3>1, <4>1
    <3>2. CASE j < i - 1
      <4>1. t[j] = s[j] /\ t[j + 1] = s[j + 1] /\ j # i - 1
        BY <1>11, <3>0, <3>2
      <4>2. s[j] # s[i - 1] /\ s[j] \in Item
        BY <1>7, <1>8, <3>0, <4>1
      <4> QED
        BY <1>6, <1>12, <3>0, <4>1, <4>2
    <3>3. CASE ~(j < i)
      <4>1. t[j] = s[j + 1] /\ t[j + 1] = s[(j + 1) + 1] /\ j + 1 # i - 1
        BY <1>11, <3>0, <3>3
      <4>2. s[j + 1] # s[i - 1] /\ s[j + 1] \in Item
        BY <1>7, <1>8, <3>0, <4>1
      <4>3. L.next[s[j + 1]] = s[(j + 1) + 1]
        BY <1>6, <3>0
      <4> QED
        BY <1>12, <4>1, <4>2, <4>3
    <3> QED
      BY <3>1, <3>2, <3>3
  <2> QED
    BY <2>1
<1>15. Chain(M, p) = t /\ RemoveAt(s, i) = t /\ Len(s) = n
  <2>1. t = LeftOut(s, n, i)
    BY DEF t
  <2>2. IF n = 1 THEN M.first[p] = Null ELSE M.first[p] = t[1] /\ M.last[p] = t[n - 1]
    BY <1>8, <1>13
  <2>3. IsInjective(s) /\ Good(M, Owner, Item) /\ n # 0
    BY <1>4, <1>6, <1>7
  <2> QED
    BY <1>14, <2>1, <2>2, <2>3, LeftOutFollows
<1>16. Chain(L, p) = s
  BY <1>6, ChainIsSequence
<1> QED
  BY <1>10, <1>15, <1>16 DEF Shrinks

LEMMA TakeShrinks ==
    ASSUME NEW Owner, NEW Item, IsFiniteSet(Item), NEW L, Good(L, Owner, Item), Agree(L),
           Ordered(L), Ended(L), NEW p \in Owner, NEW c \in Item, L.owner[c] = p,
           NEW M, M = Without(L, p, c)
    PROVE  Shrinks(L, M, p) /\ Others(L, M, p)
<1>1. L.first[p] # Null
  BY AgreeIsAt, MembersAre, GoodLinks DEF AgreeAt
<1>2. CASE c = L.first[p]
  BY <1>1, <1>2, TakeFirstShrinks DEF Without
<1>3. CASE c # L.first[p] /\ c = L.last[p]
  BY <1>1, <1>3, TakeLastShrinks DEF Without
<1>4. CASE c # L.first[p] /\ c # L.last[p]
  <2>1. M = Inner(L, c)
    BY <1>4 DEF Without
  <2> QED
    BY <1>4, <2>1, TakeInnerShrinks
<1> QED
  BY <1>2, <1>3, <1>4

\* From start on, or from the first item on, all items are gone, those before have stayed.
LEMMA TakeAllCuts ==
    ASSUME NEW Owner, NEW Item, IsFiniteSet(Item), NEW L, Good(L, Owner, Item), Agree(L),
           Ordered(L), Ended(L), NEW p \in Owner, NEW start \in Item \cup {Null},
           IF start = Null THEN L.first[p] # Null ELSE L.owner[start] = p,
           NEW M, M = WithoutAll(L, p, start)
    PROVE  IsPrefix(Chain(M, p), Chain(L, p)) /\ Others(L, M, p)
<1> DEFINE all == start \in {Null, L.first[p]}
           gone == From(L, IF start = Null THEN L.first[p] ELSE start)
<1>1. Good(M, Owner, Item) /\ AllTaken(L, M, p, start, all, gone)
  BY WithoutAllLinks, Zenon
<1> HIDE DEF gone
<1>2. Others(L, M, p)
  <2>1. /\ \A q \in Owner : q # p => M.first[q] = L.first[q] /\ M.last[q] = L.last[q]
        /\ \A x \in Item : L.owner[x] \notin {p, Null} => M.next[x] = L.next[x]
    BY <1>1, GoodLinks DEF AllTaken
  <2> QED
    BY <1>1, <2>1, OthersStay
<1>3. PICK n \in Nat : \E s \in [1 .. n -> Item] : Whole(L, p, s, n, Item)
  BY ListIsWhole
<1>4. PICK s \in [1 .. n -> Item] : Whole(L, p, s, n, Item)
  BY <1>3
<1>5. /\ n # 0 => s[1] = L.first[p]
      /\ \A k \in 1 .. n : L.next[s[k]] = IF k = n THEN Null ELSE s[k + 1]
      /\ \A k \in 1 .. n : L.prev[s[k]] = IF k = 1 THEN Null ELSE s[k - 1]
      /\ Follows(L, p, s, n, Item)
  BY <1>4 DEF Whole, Follows
<1>6. IsInjective(s) /\ \A k, j \in 1 .. n : s[k] = s[j] => k = j
  BY <1>4 DEF Whole, Follows, IsInjective
<1>7. Chain(L, p) = s /\ s \in Seq(Item) /\ Len(s) = n
  BY <1>5, ChainIsSequence
<1>8. ASSUME NEW m \in Nat, m <= n, NEW t \in [1 .. m -> Item], \A k \in 1 .. m : t[k] = s[k],
             Follows(M, p, t, m, Item)
      PROVE  IsPrefix(Chain(M, p), Chain(L, p))
  <2>1. Chain(M, p) = t /\ t \in Seq(Item) /\ Len(t) = m
    BY <1>1, <1>8, ChainIsSequence
  <2>2. SubSeq(t, 1, m) = SubSeq(s, 1, m)
    <3>1. SubSeq(t, 1, m) = [k \in 1 .. m |-> t[k]]
      BY <2>1, <1>8
    <3>2. SubSeq(s, 1, m) = [k \in 1 .. m |-> s[k]]
      BY <1>7, <1>8
    <3> QED
      BY <1>8, <3>1, <3>2
  <2> QED
    BY <1>7, <1>8, <2>1, <2>2 DEF IsPrefix
<1>9. CASE all
  <2> DEFINE z == [i \in 1 .. 0 |-> p]
  <2>1. z \in [1 .. 0 -> Item] /\ 1 .. 0 = {} /\ DOMAIN z = {} /\ 0 \in Nat /\ 0 <= n
    OBVIOUS
  <2>2. M.first[p] = Null
    BY <1>1, <1>9, GoodLinks DEF AllTaken
  <2>3. Follows(M, p, z, 0, Item)
    BY <2>1, <2>2, Zenon DEF Follows, IsInjective
  <2> HIDE DEF z
  <2>4. IsPrefix(Chain(M, p), Chain(L, p))
    BY <1>8, <2>1, <2>3
  <2> QED
    BY <1>2, <2>4
<1>10. CASE ~all
  <2>1. start \in Item /\ start \in Members(L, p) /\ start # L.first[p]
    BY <1>10, MembersAre
  <2>2. PICK j \in 1 .. n : start = s[j]
    BY <1>4, <2>1 DEF Whole
  <2>3. j # 1 /\ j - 1 \in Nat /\ j - 1 # 0 /\ j - 1 <= n /\ j - 1 \in 1 .. n
    BY <1>5, <2>1, <2>2
  <2> DEFINE m == j - 1
             t == [k \in 1 .. m |-> s[k]]
  <2>4. M.first[p] = s[1] /\ M.last[p] = s[m] /\ M.next = L.next
    BY <1>1, <1>5, <1>10, <2>2, <2>3, GoodLinks DEF AllTaken
  <2>5. 1 .. m \subseteq 1 .. n
    BY <2>3
  <2>6. t \in [1 .. m -> Item] /\ \A k \in 1 .. m : t[k] = s[k]
    BY <2>5
  <2> HIDE DEF t
  <2>7. IsInjective(t)
    BY <1>6, <2>5, <2>6 DEF IsInjective
  <2>8. 1 \in 1 .. m /\ m \in 1 .. m
    BY <2>3
  <2>9. \A k \in 1 .. m : k # m => M.next[t[k]] = t[k + 1]
    <3>1. ASSUME NEW k \in 1 .. m, k # m PROVE M.next[t[k]] = t[k + 1]
      <4>1. k + 1 \in 1 .. m /\ k \in 1 .. n /\ k # n
        BY <2>3, <3>1
      <4> QED
        BY <1>5, <2>4, <2>6, <4>1
    <3> QED
      BY <3>1
  <2>10. Follows(M, p, t, m, Item)
    <3> HIDE DEF m
    <3>1. m \in Nat /\ m # 0
      BY <2>3 DEF m
    <3> QED
      BY <2>4, <2>6, <2>7, <2>8, <2>9, <3>1 DEF Follows
  <2>11. IsPrefix(Chain(M, p), Chain(L, p))
    BY <1>8, <2>3, <2>6, <2>10
  <2> QED
    BY <1>2, <2>11
<1> QED
  BY <1>9, <1>10

\* What belongs to an owner belongs to its document, D.
Share(L, D) == \A c \in DOMAIN L.owner : L.owner[c] # Null => D[c] # Null /\ D[L.owner[c]] = D[c]

\* Lists that have changed had items of d only, and have items of d only.
Replaces(L, M, D, E, d) ==
    \A q \in DOMAIN L.first : Chain(L, q) # Chain(M, q) =>
       (\A c \in ToSet(Chain(L, q)) : D[c] = d) /\ (\A c \in ToSet(Chain(M, q)) : E[c] = d)

\* What is neither in S nor of d keeps its links.
Untouched(L, M, D, d, S) ==
    /\ \A q \in DOMAIN L.first : q \notin S /\ D[q] # d =>
          M.first[q] = L.first[q] /\ M.last[q] = L.last[q]
    /\ \A x \in DOMAIN L.owner : x \notin S /\ D[x] # d => M.next[x] = L.next[x]

LEMMA RenewReplaces ==
    ASSUME NEW Owner, NEW Item, IsFiniteSet(Item), NEW L, Good(L, Owner, Item), Agree(L),
           Ordered(L), NEW M, Good(M, Owner, Item), Agree(M), Ordered(M), NEW D, NEW E,
           Share(L, D), Share(M, E), NEW d, NEW S,
           \A q \in S : D[q] = Null,
           \A q \in Owner : q \in S \/ D[q] = d => D[q] \in {d, Null} /\ E[q] \in {d, Null},
           Untouched(L, M, D, d, S)
    PROVE  Replaces(L, M, D, E, d)
<1>1. ASSUME NEW q \in Owner
      PROVE  Chain(L, q) # Chain(M, q) =>
                /\ \A c \in ToSet(Chain(L, q)) : D[c] = d
                /\ \A c \in ToSet(Chain(M, q)) : E[c] = d
  <2>1. ToSet(Chain(L, q)) \subseteq Members(L, q) /\ ToSet(Chain(M, q)) \subseteq Members(M, q)
    BY ChainHasMembers
  <2>2. /\ \A c \in Members(L, q) : c \in Item /\ D[c] # Null /\ D[c] = D[q]
        /\ \A c \in Members(M, q) : E[c] # Null /\ E[c] = E[q]
    BY MembersAre, GoodLinks DEF Share
  <2>3. CASE q \in S \/ D[q] = d
    BY <2>1, <2>2, <2>3
  <2>4. CASE ~(q \in S \/ D[q] = d)
    <3>1. M.first[q] = L.first[q] /\ M.last[q] = L.last[q]
      BY <2>4, GoodLinks DEF Untouched
    <3>2. \A x \in Members(L, q) : M.next[x] = L.next[x]
      BY <2>2, <2>4, GoodLinks DEF Untouched
    <3>3. Chain(M, q) = Chain(L, q)
      BY <3>1, <3>2, SameChain
    <3> QED
      BY <3>3
  <2> QED
    BY <2>3, <2>4
<1> QED
  BY <1>1, GoodLinks DEF Replaces

\* What OrderedForest says in terms of sequences means the same here.
LEMMA SameWords ==
    ASSUME NEW s
    PROVE  /\ Children!ToSet(s) = ToSet(s) /\ Attributes!ToSet(s) = ToSet(s)
           /\ \A i : Children!RemoveAt(s, i) = RemoveAt(s, i)
                     /\ Attributes!RemoveAt(s, i) = RemoveAt(s, i)
           /\ \A t : Children!IsPrefix(s, t) = IsPrefix(s, t)
                     /\ Attributes!IsPrefix(s, t) = IsPrefix(s, t)
  BY DEF Children!ToSet, Attributes!ToSet, ToSet, Children!RemoveAt, Attributes!RemoveAt,
     RemoveAt, Children!IsPrefix, Attributes!IsPrefix, IsPrefix

\* Of S nothing is allocated or given back, or one address is allocated.
OneMoreAllocated(S) ==
    \/ \A x \in S : doc'[x] = doc[x]
    \/ \E c \in S, d \in Doc :
          doc[c] = Null /\ \A x \in S : doc'[x] = IF x = c THEN d ELSE doc[x]

\* One call changes the list of p, or none, in one of the ways that are promised.
OneListMoves(L, M, p, Item) ==
    /\ Others(L, M, p)
    /\ \/ Chain(M, p) = Chain(L, p)
       \/ \E c \in Item : Grows(L, M, p, c)
       \/ (\A x \in Item : doc'[x] = doc[x])
          /\ (Shrinks(L, M, p) \/ IsPrefix(Chain(M, p), Chain(L, p)))

LEMMA ChildrenMove ==
    ASSUME TreeTypeOK, NEW p, OneListMoves(kids, kids', p, Node), OneMoreAllocated(Node)
    PROVE  Children!Next
<1> DEFINE old == [q \in Node |-> Chain(kids, q)]
           new == [q \in Node |-> Chain(kids', q)]
           of == [x \in Node |-> doc[x]]
           of2 == [x \in Node |-> doc'[x]]
           Changed == {q \in Node : old[q] # new[q]}
<1>1. of2 = of \/ Children!Allocated(of, of2)
  <2>1. CASE \A x \in Node : doc'[x] = doc[x]
    BY <2>1
  <2>2. ASSUME NEW c \in Node, NEW d \in Doc, doc[c] = Null,
               \A x \in Node : doc'[x] = IF x = c THEN d ELSE doc[x]
        PROVE  Children!Allocated(of, of2)
    <3>1. of2 = [of EXCEPT ![c] = d]
      BY <2>2
    <3> QED
      BY <2>2, <3>1 DEF Children!Allocated
  <2> QED
    BY <2>1, <2>2 DEF OneMoreAllocated
<1>2. \A q \in Node : q # p => old[q] = new[q]
  BY TreeIsGood, GoodLinks DEF OneListMoves, Others
<1>3. CASE p \notin Node \/ old[p] = new[p]
  <2>1. Changed = {}
    BY <1>2, <1>3
  <2> QED
    BY <1>1, <2>1 DEF Children!Next
<1>4. CASE p \in Node /\ old[p] # new[p]
  <2>1. Changed = {p}
    BY <1>2, <1>4
  <2>2. old[p] = Chain(kids, p) /\ new[p] = Chain(kids', p)
    BY <1>4
  <2>3. ASSUME NEW c \in Node, Grows(kids, kids', p, c)
        PROVE  Children!Added(old[p], new[p], old)
    <3>1. \A q \in Node : old[q] = Chain(kids, q) /\ c \notin ToSet(Chain(kids, q))
      BY <2>3, TreeIsGood, GoodLinks DEF Grows
    <3> HIDE DEF old, new
    <3>2. PICK i \in 1 .. Len(new[p]) : new[p][i] = c /\ old[p] = RemoveAt(new[p], i)
      BY <2>2, <2>3 DEF Grows
    <3>3. old[p] = Children!RemoveAt(new[p], i)
          /\ \A q \in Node : new[p][i] \notin Children!ToSet(old[q])
      BY <3>1, <3>2, SameWords
    <3> QED
      BY <3>3 DEF Children!Added
  <2>4. ASSUME Shrinks(kids, kids', p)
        PROVE  Children!Taken(old[p], new[p])
    <3> HIDE DEF old, new
    <3> QED
      BY <2>2, <2>4, SameWords DEF Shrinks, Children!Taken
  <2>5. \/ Children!Added(old[p], new[p], old)
        \/ of2 = of /\ (Children!Taken(old[p], new[p]) \/ Children!Cut(old[p], new[p]))
    <3>1. (\A x \in Node : doc'[x] = doc[x]) => of2 = of
      OBVIOUS
    <3> HIDE DEF old, new, of, of2
    <3> QED
      BY <1>4, <2>2, <2>3, <2>4, <3>1, SameWords DEF OneListMoves, Children!Cut
  <2> QED
    BY <1>1, <2>1, <2>5 DEF Children!Next
<1> QED
  BY <1>3, <1>4

LEMMA AttributesMove ==
    ASSUME TreeTypeOK, NEW p, OneListMoves(attrs, attrs', p, Attr),
           OneMoreAllocated(Attr)
    PROVE  Attributes!Next
<1> DEFINE old == [q \in Node |-> Chain(attrs, q)]
           new == [q \in Node |-> Chain(attrs', q)]
           of == [x \in Attr |-> doc[x]]
           of2 == [x \in Attr |-> doc'[x]]
           Changed == {q \in Node : old[q] # new[q]}
<1>1. of2 = of \/ Attributes!Allocated(of, of2)
  <2>1. CASE \A x \in Attr : doc'[x] = doc[x]
    BY <2>1
  <2>2. ASSUME NEW c \in Attr, NEW d \in Doc, doc[c] = Null,
               \A x \in Attr : doc'[x] = IF x = c THEN d ELSE doc[x]
        PROVE  Attributes!Allocated(of, of2)
    <3>1. of2 = [of EXCEPT ![c] = d]
      BY <2>2
    <3> QED
      BY <2>2, <3>1 DEF Attributes!Allocated
  <2> QED
    BY <2>1, <2>2 DEF OneMoreAllocated
<1>2. \A q \in Node : q # p => old[q] = new[q]
  BY TreeIsGood, GoodLinks DEF OneListMoves, Others
<1>3. CASE p \notin Node \/ old[p] = new[p]
  <2>1. Changed = {}
    BY <1>2, <1>3
  <2> QED
    BY <1>1, <2>1 DEF Attributes!Next
<1>4. CASE p \in Node /\ old[p] # new[p]
  <2>1. Changed = {p}
    BY <1>2, <1>4
  <2>2. old[p] = Chain(attrs, p) /\ new[p] = Chain(attrs', p)
    BY <1>4
  <2>3. ASSUME NEW c \in Attr, Grows(attrs, attrs', p, c)
        PROVE  Attributes!Added(old[p], new[p], old)
    <3>1. \A q \in Node : old[q] = Chain(attrs, q) /\ c \notin ToSet(Chain(attrs, q))
      BY <2>3, TreeIsGood, GoodLinks DEF Grows
    <3> HIDE DEF old, new
    <3>2. PICK i \in 1 .. Len(new[p]) : new[p][i] = c /\ old[p] = RemoveAt(new[p], i)
      BY <2>2, <2>3 DEF Grows
    <3>3. old[p] = Attributes!RemoveAt(new[p], i)
          /\ \A q \in Node : new[p][i] \notin Attributes!ToSet(old[q])
      BY <3>1, <3>2, SameWords
    <3> QED
      BY <3>3 DEF Attributes!Added
  <2>4. ASSUME Shrinks(attrs, attrs', p)
        PROVE  Attributes!Taken(old[p], new[p])
    <3> HIDE DEF old, new
    <3> QED
      BY <2>2, <2>4, SameWords DEF Shrinks, Attributes!Taken
  <2>5. \/ Attributes!Added(old[p], new[p], old)
        \/ of2 = of /\ (Attributes!Taken(old[p], new[p]) \/ Attributes!Cut(old[p], new[p]))
    <3>1. (\A x \in Attr : doc'[x] = doc[x]) => of2 = of
      OBVIOUS
    <3> HIDE DEF old, new, of, of2
    <3> QED
      BY <1>4, <2>2, <2>3, <2>4, <3>1, SameWords DEF OneListMoves, Attributes!Cut
  <2> QED
    BY <1>1, <2>1, <2>5 DEF Attributes!Next
<1> QED
  BY <1>3, <1>4

\* The addresses of d are given back, and those in S taken instead.
LEMMA RenewalStep ==
    ASSUME TreeInv, LinksAgree, TreeInv', LinksAgree', NEW d \in Doc, NEW S,
           \A x \in S : doc[x] = Null,
           \A x \in Node \cup Attr :
              doc'[x] = IF x \in S THEN d ELSE IF doc[x] = d THEN Null ELSE doc[x],
           Untouched(kids, kids', doc, d, S), Untouched(attrs, attrs', doc, d, S)
    PROVE  Children!Next /\ Attributes!Next
<1>1. /\ Good(kids, Node, Node) /\ Agree(kids) /\ Ordered(kids)
      /\ Good(attrs, Node, Attr) /\ Agree(attrs) /\ Ordered(attrs)
      /\ DOMAIN kids.first = Node /\ DOMAIN attrs.first = Node
  BY TreeIsGood, GoodLinks DEF TreeInv, LinksAgree
<1>2. /\ Good(kids', Node, Node) /\ Agree(kids') /\ Ordered(kids')
      /\ Good(attrs', Node, Attr) /\ Agree(attrs') /\ Ordered(attrs')
  <2>1. kids' \in Links(Node, Node) /\ attrs' \in Links(Node, Attr)
    BY DEF TreeInv, TreeTypeOK
  <2> QED
    BY <1>1, <2>1 DEF TreeInv, LinksAgree, Good
<1>3. /\ Share(kids, doc) /\ Share(attrs, doc) /\ Share(kids', doc') /\ Share(attrs', doc')
  BY DEF TreeInv, OwnersShare, Share
<1>4. \A q \in Node : q \in S \/ doc[q] = d => doc[q] \in {d, Null} /\ doc'[q] \in {d, Null}
  OBVIOUS
<1>5. Replaces(kids, kids', doc, doc', d) /\ Replaces(attrs, attrs', doc, doc', d)
  BY <1>1, <1>2, <1>3, <1>4, MemoryAssumption, RenewReplaces
<1>6. Children!Renewed(d) /\ Attributes!Renewed(d)
  <2>1. d # Null
    BY NullAssumption
  <2> QED
    BY <2>1 DEF Children!Renewed, Attributes!Renewed
<1>7. ASSUME NEW q \in Node, Chain(kids, q) # Chain(kids', q)
      PROVE  Children!Replaced(d, Chain(kids, q), Chain(kids', q))
  <2>1. /\ ToSet(Chain(kids, q)) \subseteq Node /\ ToSet(Chain(kids', q)) \subseteq Node
    BY <1>1, <1>2, ChainHasMembers, MembersAre, MemoryAssumption
  <2>2. /\ \A c \in ToSet(Chain(kids, q)) : doc[c] = d
        /\ \A c \in ToSet(Chain(kids', q)) : doc'[c] = d
    BY <1>1, <1>5, <1>7 DEF Replaces
  <2>3. /\ \A c \in ToSet(Chain(kids, q)) : [x \in Node |-> doc[x]][c] = d
        /\ \A c \in ToSet(Chain(kids', q)) : [x \in Node |-> doc'[x]][c] = d
    BY <2>1, <2>2
  <2> QED
    BY <2>3, SameWords DEF Children!Replaced
<1>8. ASSUME NEW q \in Node, Chain(attrs, q) # Chain(attrs', q)
      PROVE  Attributes!Replaced(d, Chain(attrs, q), Chain(attrs', q))
  <2>1. /\ ToSet(Chain(attrs, q)) \subseteq Attr /\ ToSet(Chain(attrs', q)) \subseteq Attr
    BY <1>1, <1>2, ChainHasMembers, MembersAre, MemoryAssumption
  <2>2. /\ \A c \in ToSet(Chain(attrs, q)) : doc[c] = d
        /\ \A c \in ToSet(Chain(attrs', q)) : doc'[c] = d
    BY <1>1, <1>5, <1>8 DEF Replaces
  <2>3. /\ \A c \in ToSet(Chain(attrs, q)) : [x \in Attr |-> doc[x]][c] = d
        /\ \A c \in ToSet(Chain(attrs', q)) : [x \in Attr |-> doc'[x]][c] = d
    BY <2>1, <2>2
  <2> QED
    BY <2>3, SameWords DEF Attributes!Replaced
<1>9. Children!Next
  <2> DEFINE old == [q \in Node |-> Chain(kids, q)]
             new == [q \in Node |-> Chain(kids', q)]
             Changed == {q \in Node : old[q] # new[q]}
  <2>1. ASSUME NEW q \in Changed PROVE Children!Replaced(d, old[q], new[q])
    <3>1. old[q] = Chain(kids, q) /\ new[q] = Chain(kids', q) /\ q \in Node
      OBVIOUS
    <3>2. Chain(kids, q) # Chain(kids', q)
      BY <3>1
    <3> HIDE DEF old, new, Changed
    <3>3. Children!Replaced(d, Chain(kids, q), Chain(kids', q))
      BY <1>7, <3>1, <3>2
    <3> QED
      BY <3>1, <3>3 DEF Children!Replaced
  <2>2. Children!Renewed(d) /\ \A q \in Changed : Children!Replaced(d, old[q], new[q])
    <3> HIDE DEF old, new, Changed
    <3> QED
      BY <1>6, <2>1, Zenon
  <2> QED
    BY <2>2 DEF Children!Next, Children!Renewed, Children!Replaced
<1>10. Attributes!Next
  <2> DEFINE old == [q \in Node |-> Chain(attrs, q)]
             new == [q \in Node |-> Chain(attrs', q)]
             Changed == {q \in Node : old[q] # new[q]}
  <2>1. ASSUME NEW q \in Changed PROVE Attributes!Replaced(d, old[q], new[q])
    <3>1. old[q] = Chain(attrs, q) /\ new[q] = Chain(attrs', q) /\ q \in Node
      OBVIOUS
    <3>2. Chain(attrs, q) # Chain(attrs', q)
      BY <3>1
    <3> HIDE DEF old, new, Changed
    <3>3. Attributes!Replaced(d, Chain(attrs, q), Chain(attrs', q))
      BY <1>8, <3>1, <3>2
    <3> QED
      BY <3>1, <3>3 DEF Attributes!Replaced
  <2>2. Attributes!Renewed(d) /\ \A q \in Changed : Attributes!Replaced(d, old[q], new[q])
    <3> HIDE DEF old, new, Changed
    <3> QED
      BY <1>6, <2>1, Zenon
  <2> QED
    BY <2>2 DEF Attributes!Next, Attributes!Renewed, Attributes!Replaced
<1> QED
  BY <1>9, <1>10

\* Calls on one list of children or of attributes.
LEMMA ChildListMoves ==
    ASSUME TreeInv, NEW p, KidsBecome(kids'), OneListMoves(kids, kids', p, Node)
    PROVE  Children!Next /\ Attributes!Next
<1>1. attrs' = attrs /\ doc' = doc
  BY DEF KidsBecome
<1>2. OneListMoves(attrs, attrs', p, Attr) /\ OneMoreAllocated(Node) /\ OneMoreAllocated(Attr)
  BY <1>1 DEF OneListMoves, Others, OneMoreAllocated
<1> QED
  BY <1>2, ChildrenMove, AttributesMove DEF TreeInv

LEMMA AttrListMoves ==
    ASSUME TreeInv, NEW p, AttrsBecome(attrs'), OneListMoves(attrs, attrs', p, Attr)
    PROVE  Children!Next /\ Attributes!Next
<1>1. kids' = kids /\ doc' = doc
  BY DEF AttrsBecome
<1>2. OneListMoves(kids, kids', p, Node) /\ OneMoreAllocated(Node) /\ OneMoreAllocated(Attr)
  BY <1>1 DEF OneListMoves, Others, OneMoreAllocated
<1> QED
  BY <1>2, ChildrenMove, AttributesMove DEF TreeInv

\* Calls that leave all lists alone.
LEMMA ListsRest ==
    ASSUME TreeInv, NEW d \in Doc, NEW x \in Node \cup Attr, NEW l \in Label,
           Alloc(x, d, l) \/ SetLabel(x, l) \/ Exhaust(d)
    PROVE  Children!Next /\ Attributes!Next
<1>1. kids' = kids /\ attrs' = attrs
  BY DEF Alloc, Allocated, SetLabel, Exhaust
<1>2. OneListMoves(kids, kids', Null, Node) /\ OneListMoves(attrs, attrs', Null, Attr)
  BY <1>1 DEF OneListMoves, Others
<1>3. OneMoreAllocated(Node) /\ OneMoreAllocated(Attr)
  <2>1. CASE Alloc(x, d, l)
    <3>1. doc[x] = Null /\ \A y \in Node \cup Attr : doc'[y] = IF y = x THEN d ELSE doc[y]
      BY <2>1 DEF Alloc, Allocated, TreeInv, TreeTypeOK
    <3> QED
      BY <3>1 DEF OneMoreAllocated
  <2>2. CASE SetLabel(x, l) \/ Exhaust(d)
    BY <2>2 DEF SetLabel, Exhaust, OneMoreAllocated
  <2> QED
    BY <2>1, <2>2
<1> QED
  BY <1>2, <1>3, ChildrenMove, AttributesMove DEF TreeInv

\* A new last child, a new last attribute.
LEMMA NewItemMoves ==
    ASSUME TreeInv, LinksAgree, Ended(kids), NEW p \in Node, NEW l \in Label,
           NEW c \in Node \cup Attr,
           \/ c \in Node /\ AppendChildStr(p, c, l)
           \/ c \in Attr /\ AppendAttrStr(p, c, l)
    PROVE  Children!Next /\ Attributes!Next
<1>1. /\ Good(kids, Node, Node) /\ Agree(kids) /\ Ordered(kids) /\ DOMAIN kids.owner = Node
      /\ Good(attrs, Node, Attr) /\ Agree(attrs) /\ Ordered(attrs) /\ Ended(attrs)
      /\ DOMAIN attrs.owner = Attr
  BY TreeIsGood DEF TreeInv, LinksAgree
<1>2. doc[p] \in Doc /\ doc[c] = Null /\ doc' = [doc EXCEPT ![c] = doc[p]]
  BY DEF AppendChildStr, AppendAttrStr, Allocated, TreeInv, TreeTypeOK
<1>3. \A y \in Node \cup Attr : doc'[y] = IF y = c THEN doc[p] ELSE doc[y]
  BY <1>2 DEF TreeInv, TreeTypeOK
<1>4. OneMoreAllocated(Node) /\ OneMoreAllocated(Attr)
  BY <1>2, <1>3 DEF OneMoreAllocated
<1>5. CASE c \in Node /\ AppendChildStr(p, c, l)
  <2>1. kids' = AppendTo(kids, p, c) /\ attrs' = attrs
    BY <1>5 DEF AppendChildStr
  <2>2. kids.owner[c] = Null
    BY <1>1, <1>2, <1>5 DEF TreeInv, OwnersShare
  <2>3. Grows(kids, kids', p, c) /\ Others(kids, kids', p)
    BY <1>1, <1>5, <2>1, <2>2, MemoryAssumption, AddGrows
  <2>4. OneListMoves(kids, kids', p, Node) /\ OneListMoves(attrs, attrs', p, Attr)
    BY <1>5, <2>1, <2>3 DEF OneListMoves, Others
  <2> QED
    BY <1>4, <2>4, ChildrenMove, AttributesMove DEF TreeInv
<1>6. CASE c \in Attr /\ AppendAttrStr(p, c, l)
  <2>1. attrs' = AppendTo(attrs, p, c) /\ kids' = kids
    BY <1>6 DEF AppendAttrStr
  <2>2. attrs.owner[c] = Null
    BY <1>1, <1>2, <1>6 DEF TreeInv, OwnersShare
  <2>3. Grows(attrs, attrs', p, c) /\ Others(attrs, attrs', p)
    BY <1>1, <1>6, <2>1, <2>2, MemoryAssumption, AddGrows
  <2>4. OneListMoves(kids, kids', p, Node) /\ OneListMoves(attrs, attrs', p, Attr)
    BY <1>6, <2>1, <2>3 DEF OneListMoves, Others
  <2> QED
    BY <1>4, <2>4, ChildrenMove, AttributesMove DEF TreeInv
<1> QED
  BY <1>5, <1>6

LEMMA AddMoves ==
    ASSUME NEW Item, IsFiniteSet(Item), NEW L, Good(L, Node, Item), Agree(L), Ordered(L),
           Ended(L), NEW p \in Node, NEW c \in Item, L.owner[c] = Null,
           NEW w \in Item \cup {Null}, w # Null => L.owner[w] = p,
           NEW M, M \in {Prepend(L, p, c), AppendTo(L, p, c), InsertBefore(L, p, w, c)}
    PROVE  OneListMoves(L, M, p, Item)
<1>1. Grows(L, M, p, c) /\ Others(L, M, p)
  BY AddGrows
<1> QED
  BY <1>1 DEF OneListMoves

LEMMA TakeMoves ==
    ASSUME NEW Item, IsFiniteSet(Item), NEW L, Good(L, Node, Item), Agree(L), Ordered(L),
           Ended(L), NEW p \in Node, NEW M, \A x \in Item : doc'[x] = doc[x],
           \/ L.first[p] # Null /\ M \in {WithoutFirst(L, p), WithoutLast(L, p)}
           \/ \E c \in Item : L.owner[c] = p /\ M = Without(L, p, c)
           \/ \E c \in Item \cup {Null} :
                 /\ IF c = Null THEN L.first[p] # Null ELSE L.owner[c] = p
                 /\ M = WithoutAll(L, p, c)
    PROVE  OneListMoves(L, M, p, Item)
<1>1. /\ Others(L, M, p)
      /\ Shrinks(L, M, p) \/ IsPrefix(Chain(M, p), Chain(L, p))
  <2>1. CASE L.first[p] # Null /\ M \in {WithoutFirst(L, p), WithoutLast(L, p)}
    BY <2>1, TakeFirstShrinks, TakeLastShrinks
  <2>2. CASE \E c \in Item : L.owner[c] = p /\ M = Without(L, p, c)
    BY <2>2, TakeShrinks
  <2>3. CASE \E c \in Item \cup {Null} :
                /\ IF c = Null THEN L.first[p] # Null ELSE L.owner[c] = p
                /\ M = WithoutAll(L, p, c)
    BY <2>3, TakeAllCuts
  <2> QED
    BY <2>1, <2>2, <2>3
<1> QED
  BY <1>1 DEF OneListMoves

\* Links forgotten of a document, and those of its copy put in their place.
LEMMA ForgottenIsUntouched ==
    ASSUME NEW Item \in SUBSET (Node \cup Attr), NEW L, Good(L, Node, Item), NEW d \in Doc,
           NEW M, M = ForgetLinks(L, Of(d)), NEW S
    PROVE  Untouched(L, M, doc, d, S)
<1>1. \A x \in Node \cup Attr : x \in Of(d) <=> doc[x] = d
  BY DEF Of
<1>2. /\ M.first = Forget(L.first, Of(d)) /\ M.last = Forget(L.last, Of(d))
      /\ M.next = Forget(L.next, Of(d))
  BY ForgetFields DEF Forgotten
<1>3. /\ \A q \in Node : M.first[q] = IF q \in Of(d) THEN Null ELSE L.first[q]
      /\ \A q \in Node : M.last[q] = IF q \in Of(d) THEN Null ELSE L.last[q]
      /\ \A x \in Item : M.next[x] = IF x \in Of(d) THEN Null ELSE L.next[x]
  BY <1>2, GoodLinks DEF Forget
<1> QED
  BY <1>1, <1>3, GoodLinks DEF Untouched

LEMMA CopyIsUntouched ==
    ASSUME NEW Item \in SUBSET (Node \cup Attr), NEW L, Good(L, Node, Item), NEW d \in Doc,
           NEW f, Placing(f, Node, Item),
           NEW M, M = ForgetLinks(L, Of(d)), NEW N, N = Image(L, f, M)
    PROVE  Untouched(L, N, doc, d, Range(f))
<1>1. Untouched(L, M, doc, d, Range(f))
  BY ForgottenIsUntouched
<1>2. Good(M, Node, Item)
  BY ForgetFields
<1>3. ImageOf(L, f, M, N, Node, Item)
  BY <1>2, ImageFields
<1> QED
  BY <1>1, <1>3, GoodLinks DEF ImageOf, Untouched

LEMMA ForgetDoc ==
    ASSUME TreeInv, NEW d \in Doc
    PROVE  /\ DOMAIN Forget(doc, Of(d)) = Node \cup Attr /\ DOMAIN doc = Node \cup Attr
           /\ \A x \in Node \cup Attr :
                 Forget(doc, Of(d))[x] = IF doc[x] = d THEN Null ELSE doc[x]
  BY DEF Forget, Of, TreeInv, TreeTypeOK

LEMMA ClearMoves ==
    ASSUME TreeInv, LinksAgree, TreeInv', LinksAgree', NEW d \in Doc, Clear(d)
    PROVE  Children!Next /\ Attributes!Next
<1>1. Good(kids, Node, Node) /\ Good(attrs, Node, Attr)
  BY TreeIsGood DEF TreeInv
<1>2. kids' = ForgetLinks(kids, Of(d)) /\ attrs' = ForgetLinks(attrs, Of(d))
      /\ doc' = Forget(doc, Of(d))
  BY DEF Clear
<1>3. Untouched(kids, kids', doc, d, {}) /\ Untouched(attrs, attrs', doc, d, {})
  BY <1>1, <1>2, ForgottenIsUntouched
<1>4. \A x \in Node \cup Attr :
         doc'[x] = IF x \in {} THEN d ELSE IF doc[x] = d THEN Null ELSE doc[x]
  BY <1>2, ForgetDoc
<1>5. \A x \in {} : doc[x] = Null
  OBVIOUS
<1> QED
  BY <1>3, <1>4, <1>5, RenewalStep

LEMMA AllocRootMoves ==
    ASSUME TreeInv, LinksAgree, TreeInv', LinksAgree', NEW d \in Doc, NEW n \in Node,
           AllocRoot(d, n)
    PROVE  Children!Next /\ Attributes!Next
<1>1. Good(kids, Node, Node) /\ Good(attrs, Node, Attr)
  BY TreeIsGood DEF TreeInv
<1>2. /\ kids' = ForgetLinks(kids, Of(d)) /\ attrs' = ForgetLinks(attrs, Of(d))
      /\ doc' = [Forget(doc, Of(d)) EXCEPT ![n] = d] /\ doc[n] = Null
  BY DEF AllocRoot
<1>3. Untouched(kids, kids', doc, d, {n}) /\ Untouched(attrs, attrs', doc, d, {n})
  BY <1>1, <1>2, ForgottenIsUntouched
<1>4. \A x \in Node \cup Attr :
         doc'[x] = IF x \in {n} THEN d ELSE IF doc[x] = d THEN Null ELSE doc[x]
  BY <1>2, ForgetDoc
<1>5. \A x \in {n} : doc[x] = Null
  BY <1>2
<1> QED
  BY <1>3, <1>4, <1>5, RenewalStep

LEMMA CopyMoves ==
    ASSUME TreeInv, LinksAgree, TreeInv', LinksAgree', NEW d \in Doc, NEW s \in Doc,
           CopyDocument(d, s)
    PROVE  Children!Next /\ Attributes!Next
<1>1. Good(kids, Node, Node) /\ Good(attrs, Node, Attr) /\ Null \notin Node \cup Attr
  BY TreeIsGood DEF TreeInv
<1>2. PICK f \in Fresh(Ours(s)) :
         /\ kids' = Image(kids, f, ForgetLinks(kids, Of(d)))
         /\ attrs' = Image(attrs, f, ForgetLinks(attrs, Of(d)))
         /\ doc' = [x \in DOMAIN doc |->
                      IF x \in Range(f) THEN d ELSE Forget(doc, Of(d))[x]]
  BY Zenon DEF CopyDocument
<1>3. /\ DOMAIN f = Ours(s)
      /\ \A x \in Ours(s) : /\ f[x] \in Node \cup Attr /\ doc[f[x]] = Null
                            /\ x \in Node <=> f[x] \in Node
      /\ \A x, y \in Ours(s) : f[x] = f[y] => x = y
  BY FreshPlaces
<1>4. Ours(s) \subseteq Node \cup Attr
  BY DEF Ours, InTree
<1>5. Placing(f, Node, Node) /\ Placing(f, Node, Attr)
  BY <1>1, <1>3, <1>4, AddressAssumption DEF Placing
<1>6. \A x \in Range(f) : doc[x] = Null
  BY <1>3 DEF Range
<1>7. /\ Untouched(kids, kids', doc, d, Range(f))
      /\ Untouched(attrs, attrs', doc, d, Range(f))
  BY <1>1, <1>2, <1>5, CopyIsUntouched
<1>8. \A x \in Node \cup Attr :
         doc'[x] = IF x \in Range(f) THEN d ELSE IF doc[x] = d THEN Null ELSE doc[x]
  BY <1>2, ForgetDoc
<1> QED
  BY <1>6, <1>7, <1>8, RenewalStep

LEMMA PromiseStep ==
    ASSUME TreeInv, TreeNext, Ended(kids)
    PROVE  Children!Next /\ Attributes!Next
<1>1. LinksAgree /\ TreeInv' /\ LinksAgree'
  BY TreeStep DEF TreeNext, EndsKept, TreeInv
<1>2. /\ Good(kids, Node, Node) /\ Agree(kids) /\ Ordered(kids) /\ Ended(kids)
      /\ Good(attrs, Node, Attr) /\ Agree(attrs) /\ Ordered(attrs) /\ Ended(attrs)
      /\ IsFiniteSet(Node) /\ IsFiniteSet(Attr)
  BY <1>1, TreeIsGood, MemoryAssumption DEF TreeInv, LinksAgree
<1>3. ASSUME NEW d \in Doc, NEW x \in Node \cup Attr, NEW l \in Label, Alloc(x, d, l)
      PROVE  Children!Next /\ Attributes!Next
  BY <1>3, ListsRest
<1>4. ASSUME NEW x \in Node \cup Attr, NEW l \in Label, SetLabel(x, l)
      PROVE  Children!Next /\ Attributes!Next
  <2>1. doc[x] \in Doc
    BY <1>4 DEF SetLabel, TreeInv, TreeTypeOK
  <2> QED
    BY <1>4, <2>1, ListsRest
<1>5. ASSUME NEW d \in Doc, Exhaust(d)
      PROVE  Children!Next /\ Attributes!Next
  <2>1. kids' = kids /\ attrs' = attrs /\ doc' = doc
    BY <1>5 DEF Exhaust
  <2>2. /\ OneListMoves(kids, kids', Null, Node) /\ OneListMoves(attrs, attrs', Null, Attr)
        /\ OneMoreAllocated(Node) /\ OneMoreAllocated(Attr)
    BY <2>1 DEF OneListMoves, Others, OneMoreAllocated
  <2> QED
    BY <2>2, ChildrenMove, AttributesMove DEF TreeInv
<1>6. ASSUME NEW d \in Doc, Clear(d)
      PROVE  Children!Next /\ Attributes!Next
  BY <1>1, <1>6, ClearMoves
<1>7. ASSUME NEW d \in Doc, NEW n \in Node, AllocRoot(d, n)
      PROVE  Children!Next /\ Attributes!Next
  BY <1>1, <1>7, AllocRootMoves
<1>8. ASSUME NEW d \in Doc, NEW s \in Doc, CopyDocument(d, s)
      PROVE  Children!Next /\ Attributes!Next
  BY <1>1, <1>8, CopyMoves
<1>9. ASSUME NEW p \in Node, NEW c \in Node, NEW w \in Node \cup {Null},
             PrependChild(p, c) \/ AppendChild(p, c) \/ InsertChild(p, w, c)
      PROVE  Children!Next /\ Attributes!Next
  <2>1. /\ kids.owner[c] = Null /\ KidsBecome(kids')
        /\ \/ kids' \in {Prepend(kids, p, c), AppendTo(kids, p, c)}
           \/ (w # Null => kids.owner[w] = p) /\ kids' = InsertBefore(kids, p, w, c)
    BY <1>9 DEF PrependChild, AppendChild, InsertChild, Addable, KidsBecome
  <2>2. OneListMoves(kids, kids', p, Node)
    BY <1>2, <2>1, AddMoves
  <2> QED
    BY <2>1, <2>2, ChildListMoves
<1>10. ASSUME NEW p \in Node, NEW c \in Node, NEW l \in Label, AppendChildStr(p, c, l)
       PROVE  Children!Next /\ Attributes!Next
  BY <1>1, <1>10, NewItemMoves
<1>11. ASSUME NEW p \in Node,
              \/ RemoveFirstChild(p) \/ RemoveLastChild(p)
              \/ \E c \in Node : RemoveChild(p, c)
              \/ \E c \in Node \cup {Null} : RemoveAllChildren(p, c)
       PROVE  Children!Next /\ Attributes!Next
  <2>1. KidsBecome(kids') /\ \A x \in Node : doc'[x] = doc[x]
    BY <1>11
       DEF RemoveFirstChild, RemoveLastChild, RemoveChild, RemoveAllChildren, KidsBecome
  <2>2. \/ kids.first[p] # Null /\ kids' \in {WithoutFirst(kids, p), WithoutLast(kids, p)}
        \/ \E c \in Node : kids.owner[c] = p /\ kids' = Without(kids, p, c)
        \/ \E c \in Node \cup {Null} :
              /\ IF c = Null THEN kids.first[p] # Null ELSE kids.owner[c] = p
              /\ kids' = WithoutAll(kids, p, c)
    BY <1>11
       DEF RemoveFirstChild, RemoveLastChild, RemoveChild, RemoveAllChildren, KidsBecome
  <2>3. OneListMoves(kids, kids', p, Node)
    BY <1>2, <2>1, <2>2, TakeMoves
  <2> QED
    BY <2>1, <2>3, ChildListMoves
<1>12. ASSUME NEW p \in Node,
              \/ RemoveFirstAttr(p) \/ RemoveLastAttr(p) \/ RemoveAllAttrs(p)
              \/ \E a \in Attr : RemoveAttr(p, a)
       PROVE  Children!Next /\ Attributes!Next
  <2>1. AttrsBecome(attrs') /\ \A x \in Attr : doc'[x] = doc[x]
    BY <1>12 DEF RemoveFirstAttr, RemoveLastAttr, RemoveAttr, RemoveAllAttrs, AttrsBecome
  <2>2. \/ attrs.first[p] # Null /\ attrs' \in {WithoutFirst(attrs, p), WithoutLast(attrs, p)}
        \/ \E a \in Attr : attrs.owner[a] = p /\ attrs' = Without(attrs, p, a)
        \/ attrs.first[p] # Null /\ attrs' = WithoutAll(attrs, p, Null)
    BY <1>12 DEF RemoveFirstAttr, RemoveLastAttr, RemoveAttr, RemoveAllAttrs, AttrsBecome
  <2>3. OneListMoves(attrs, attrs', p, Attr)
    BY <1>2, <2>1, <2>2, TakeMoves
  <2> QED
    BY <2>1, <2>3, AttrListMoves
<1>13. ASSUME NEW p \in Node, NEW a \in Attr, NEW w \in Attr \cup {Null},
              PrependAttr(p, a) \/ AppendAttr(p, a) \/ InsertAttr(p, w, a)
       PROVE  Children!Next /\ Attributes!Next
  <2>1. /\ attrs.owner[a] = Null /\ AttrsBecome(attrs')
        /\ \/ attrs' \in {Prepend(attrs, p, a), AppendTo(attrs, p, a)}
           \/ (w # Null => attrs.owner[w] = p) /\ attrs' = InsertBefore(attrs, p, w, a)
    BY <1>13 DEF PrependAttr, AppendAttr, InsertAttr, AttrAddable, AttrsBecome
  <2>2. OneListMoves(attrs, attrs', p, Attr)
    BY <1>2, <2>1, AddMoves
  <2> QED
    BY <2>1, <2>2, AttrListMoves
<1>14. ASSUME NEW p \in Node, NEW a \in Attr, NEW l \in Label, AppendAttrStr(p, a, l)
       PROVE  Children!Next /\ Attributes!Next
  BY <1>1, <1>14, NewItemMoves
<1>15. ASSUME NEW p \in Node, NEW c \in Node, PrependChild(p, c) \/ AppendChild(p, c)
       PROVE  Children!Next /\ Attributes!Next
  BY <1>9, <1>15
<1>16. ASSUME NEW p \in Node, NEW a \in Attr, PrependAttr(p, a) \/ AppendAttr(p, a)
       PROVE  Children!Next /\ Attributes!Next
  BY <1>13, <1>16
<1> QED
  BY <1>3, <1>4, <1>5, <1>6, <1>7, <1>8, <1>9, <1>10, <1>11, <1>12, <1>13, <1>14, <1>15,
     <1>16, Zenon DEF TreeNext, CopyNothing

LEMMA InitIsPromised == TreeInit => Children!Init /\ Attributes!Init
<1> SUFFICES ASSUME TreeInit PROVE Children!Init /\ Attributes!Init
  OBVIOUS
<1>1. /\ Good(kids, Node, Node) /\ Good(attrs, Node, Attr)
      /\ \A p \in Node : kids.first[p] = Null /\ attrs.first[p] = Null
      /\ \A x \in Node \cup Attr : doc[x] = Null
  <2>1. TreeTypeOK
    BY InitHasInv DEF TreeInv
  <2> QED
    BY <2>1, TreeIsGood DEF TreeInit, Unlinked
<1>2. ASSUME NEW Item, IsFiniteSet(Item), NEW L, Good(L, Node, Item), NEW p \in Node,
             L.first[p] = Null
      PROVE  Chain(L, p) = << >>
  <2> DEFINE z == [i \in 1 .. 0 |-> p]
  <2>1. z \in [1 .. 0 -> Item] /\ 1 .. 0 = {} /\ DOMAIN z = {} /\ 0 \in Nat
    OBVIOUS
  <2>2. Follows(L, p, z, 0, Item)
    BY <1>2, <2>1, Zenon DEF Follows, IsInjective
  <2> HIDE DEF z
  <2>3. Chain(L, p) \in Seq(Item) /\ Len(Chain(L, p)) = 0
    BY <1>2, <2>2, ChainIsSequence
  <2> QED
    BY <2>3, EmptySeq
<1>3. \A p \in Node : Chain(kids, p) = << >> /\ Chain(attrs, p) = << >>
  BY <1>1, <1>2, MemoryAssumption
<1> QED
  BY <1>1, <1>3 DEF Children!Init, Attributes!Init

\* The links of a document are an implementation of ordered forests: of nodes and of
\* attributes, each owner has one sequence of items, an item is in one at most, and a
\* call puts one item into one sequence, takes one out, cuts one sequence short, or
\* gives back a whole document with all its lists; as long as lists end with their
\* last item, which one call alone can change.
THEOREM ListsKeepPromise == TreeSpec => PromiseKept
<1>1. ASSUME TreeInv, [TreeNext]_treeVars
      PROVE  [Ended(kids) => Children!Next /\ Attributes!Next]_treeVars
  BY <1>1, PromiseStep
<1>2. TreeSpec => Children!Init /\ Attributes!Init
  BY InitIsPromised DEF TreeSpec
<1>3. TreeSpec => [][Ended(kids) => Children!Next /\ Attributes!Next]_treeVars
  BY <1>1, TreeInvariance, PTL DEF TreeSpec
<1> QED
  BY <1>2, <1>3, BreaksStayKnown DEF PromiseKept

-----------------------------------------------------------------------------
(* The parser *)

\* The bytes references stand for, and another.
Byte ==
    {Letter} \cup UNION {{CodeOf(r) % 256, CodeOf(r), 192 + CodeOf(r) \div 64, Low(CodeOf(r)),
                          224 + CodeOf(r) \div 4096, Low(CodeOf(r) \div 64),
                          240 + CodeOf(r) \div 262144, Low(CodeOf(r) \div 4096)} : r \in Ref}

NodeType == {"document", "element", "declaration", "pi", "comment", "cdata", "doctype", "data"}

TreeNode ==
    [type : NodeType, name : Name \cup {<< >>}, value : Seq(Byte),
     attrs : Seq([name : Name, value : Seq(Byte)]), parent : Nat]

ParserTypeOK ==
    /\ tree \in Seq(TreeNode) /\ open \in Seq(Nat) /\ node \in Nat /\ raw \in Seq(Byte)
    /\ ahead \in AnyLexeme \cup {Nothing}

\* What has no parent in a tree t: the document, the elements o whose contents are
\* being read, one within the other, and the node n that is being read, if any.
Pending(o, n, m) == m = Document \/ m = n \/ \E i \in DOMAIN o : o[i] = m

Rising(o) == \A i, j \in DOMAIN o : i < j => o[i] < o[j]

Nested(t, o, n) ==
    /\ t # << >> /\ t[Document].type = "document"
    /\ Rising(o)
    /\ \A i \in DOMAIN o : o[i] \in 2 .. Len(t) /\ t[o[i]].type = "element"
    /\ n # Nobody => n \in 2 .. Len(t) /\ \A i \in DOMAIN o : o[i] < n
    /\ \A m \in DOMAIN t : t[m].parent = Nobody <=> Pending(o, n, m)

\* Whoever has a parent was begun after it, and it may contain nodes.
Contained(t) ==
    \A m \in DOMAIN t : t[m].parent # Nobody =>
        /\ t[m].parent \in 1 .. m - 1
        /\ t[t[m].parent].type \in {"document", "element"}

Reading(t, o, n) == t \in Seq(TreeNode) /\ o \in Seq(Nat) /\ n \in Nat /\ Nested(t, o, n) /\ Contained(t)

WithinNode == {"name", "attrs", "slash", "equal", "quote", "value", "target", "pi"}
WithinElement == {"contents", "close", "closed", "data"}
Skipping == {"skip", "comment", "cdata", "doctype", "subset", "other"}

\* What is being read, by the place of the parser.
PlaceIsKnown ==
    /\ pc \in WithinNode \cup WithinElement \cup Skipping \cup {"top"}
    /\ pc \in WithinNode <=> node # Nobody
    /\ pc \in {"name", "slash"} => tree[node].type = "element"
    /\ pc \in {"attrs", "equal", "quote", "value"} => tree[node].type \in {"element", "declaration"}
    /\ pc \in {"equal", "quote", "value"} => tree[node].attrs # << >>
    /\ pc \in {"target", "pi"} => tree[node].type = "pi"
    /\ pc \in WithinElement => open # << >>
    /\ pc = "top" => open = << >>

\* The inductive invariant.
ParserInv ==
    /\ ParserTypeOK
    /\ code = "running" =>
          IF pc = "start" THEN tree = << >> /\ open = << >> /\ node = Nobody
          ELSE Reading(tree, open, node) /\ PlaceIsKnown
    /\ code = "OK" => Reading(tree, << >>, Nobody)
    /\ pc = "start" => code = "running"
    /\ CrashesAreKnown

\* What a step does to the parents of nodes.
GoesAround ==
    \A n \in DOMAIN tree' : ~Placed(n) /\ Placed(n)' => tree'[n].parent = Around(n)

ParserGoesOn == ParserInv' /\ GoesAround

-----------------------------------------------------------------------------
(* Trees. *)

\* The innermost of what is being read.
Innermost(o) == IF o = << >> THEN Document ELSE Last(o)

LEMMA LastOfSeq ==
    ASSUME NEW S, NEW o \in Seq(S), o # << >>
    PROVE  /\ Len(o) \in Nat \ {0} /\ Len(o) \in DOMAIN o /\ Last(o) = o[Len(o)]
           /\ Front(o) \in Seq(S) /\ Len(Front(o)) = Len(o) - 1
           /\ \A i \in 1 .. Len(o) - 1 : Front(o)[i] = o[i]
<1>1. Len(o) \in Nat /\ DOMAIN o = 1 .. Len(o)
  OBVIOUS
<1>2. Len(o) # 0
  <2> SUFFICES ASSUME Len(o) = 0 PROVE FALSE
    OBVIOUS
  <2> QED
    BY EmptySeq
<1>3. Last(o) = o[Len(o)] /\ Front(o) = SubSeq(o, 1, Len(o) - 1)
  BY DEF Last, Front
<1>4. SubSeq(o, 1, Len(o) - 1) \in Seq(S)
  BY <1>1, <1>2
<1>5. Len(SubSeq(o, 1, Len(o) - 1)) = Len(o) - 1
  BY <1>1, <1>2
<1>6. \A i \in 1 .. Len(o) - 1 : SubSeq(o, 1, Len(o) - 1)[i] = o[i]
  BY <1>1, <1>2
<1> QED
  BY <1>1, <1>2, <1>3, <1>4, <1>5, <1>6

LEMMA NewNodeIs ==
    ASSUME NEW type \in NodeType
    PROVE  /\ NewNode(type) \in TreeNode /\ NewNode(type).type = type
           /\ NewNode(type).parent = Nobody /\ NewNode(type).name = << >>
  BY DEF NewNode, TreeNode, Nobody

\* A node is begun.
LEMMA BeginNests ==
    ASSUME NEW t, NEW o, Reading(t, o, Nobody), NEW type \in NodeType
    PROVE  Reading(Append(t, NewNode(type)), o, Len(t) + 1)
<1> DEFINE n == Len(t) + 1
           u == Append(t, NewNode(type))
<1>1. /\ t \in Seq(TreeNode) /\ o \in Seq(Nat) /\ t # << >> /\ Len(t) \in Nat /\ Len(t) > 0
      /\ DOMAIN t = 1 .. Len(t)
  BY DEF Reading, Nested
<1>2. u \in Seq(TreeNode) /\ Len(u) = n /\ DOMAIN u = 1 .. n /\ u # << >>
  BY <1>1, NewNodeIs
<1>3. u[n] = NewNode(type) /\ \A m \in DOMAIN t : u[m] = t[m]
  BY <1>1
<1>4. n \in Nat /\ n > 1 /\ n \notin DOMAIN t
  BY <1>1
<1> HIDE DEF u
<1>5. Nested(u, o, n)
  <2>1. u[Document].type = "document"
    BY <1>1, <1>3 DEF Reading, Nested, Document
  <2>2. \A i \in DOMAIN o : o[i] \in 2 .. n /\ o[i] < n /\ u[o[i]].type = "element"
    <3> SUFFICES ASSUME NEW i \in DOMAIN o PROVE o[i] \in 2 .. n /\ o[i] < n /\ u[o[i]].type = "element"
      OBVIOUS
    <3>1. o[i] \in 2 .. Len(t) /\ t[o[i]].type = "element"
      BY DEF Reading, Nested
    <3>2. o[i] \in DOMAIN t
      BY <3>1, <1>1
    <3> QED
      BY <3>1, <3>2, <1>1, <1>3
  <2>3. ASSUME NEW m \in DOMAIN u PROVE u[m].parent = Nobody <=> Pending(o, n, m)
    <3>1. CASE m = n
      BY <3>1, <1>3, NewNodeIs DEF Pending
    <3>2. CASE m # n
      <4>1. m \in DOMAIN t /\ m # Nobody
        BY <3>2, <1>1, <1>2 DEF Nobody
      <4>2. t[m].parent = Nobody <=> Pending(o, Nobody, m)
        BY <4>1 DEF Reading, Nested
      <4> QED
        BY <4>1, <4>2, <3>2, <1>3 DEF Pending
    <3> QED
      BY <3>1, <3>2
  <2>4. Rising(o)
    BY DEF Reading, Nested
  <2> QED
    BY <1>2, <1>4, <2>1, <2>2, <2>3, <2>4 DEF Nested
<1>6. Contained(u)
  <2> SUFFICES ASSUME NEW m \in DOMAIN u, u[m].parent # Nobody
               PROVE  /\ u[m].parent \in 1 .. m - 1
                      /\ u[u[m].parent].type \in {"document", "element"}
    BY DEF Contained
  <2>1. m # n
    BY <1>3, NewNodeIs
  <2>2. m \in DOMAIN t /\ u[m] = t[m]
    BY <2>1, <1>1, <1>2, <1>3
  <2>3. t[m].parent \in 1 .. m - 1 /\ t[t[m].parent].type \in {"document", "element"}
    BY <2>2 DEF Reading, Contained
  <2>4. t[m].parent \in DOMAIN t
    BY <2>2, <2>3, <1>1
  <2> QED
    BY <2>2, <2>3, <2>4, <1>3
<1> HIDE DEF n
<1>7. Reading(u, o, n)
  BY <1>1, <1>2, <1>4, <1>5, <1>6 DEF Reading
<1> QED
  BY <1>7 DEF u, n

\* A node that has been read is put into the innermost element.
LEMMA ReturnNests ==
    ASSUME NEW t, NEW o, NEW n, Reading(t, o, n), n # Nobody
    PROVE  Reading([t EXCEPT ![n].parent = Innermost(o)], o, Nobody)
<1> DEFINE p == Innermost(o)
           u == [t EXCEPT ![n].parent = p]
<1>1. /\ t \in Seq(TreeNode) /\ o \in Seq(Nat) /\ t # << >> /\ Len(t) \in Nat /\ n \in Nat
      /\ DOMAIN t = 1 .. Len(t) /\ n \in 2 .. Len(t) /\ n \in DOMAIN t
      /\ \A i \in DOMAIN o : o[i] < n
  BY DEF Reading, Nested
<1>2. p \in 1 .. n - 1 /\ p \in Nat /\ p # Nobody /\ t[p].type \in {"document", "element"}
  <2>1. CASE o = << >>
    BY <2>1, <1>1 DEF Reading, Nested, Innermost, Document, Nobody
  <2>2. CASE o # << >>
    <3>1. Len(o) \in DOMAIN o /\ p = o[Len(o)]
      BY <2>2, <1>1, LastOfSeq DEF Innermost
    <3>2. o[Len(o)] \in 2 .. Len(t) /\ t[o[Len(o)]].type = "element" /\ o[Len(o)] < n
      BY <3>1, <1>1 DEF Reading, Nested
    <3> HIDE DEF p
    <3> QED
      BY <3>1, <3>2, <1>1 DEF Nobody
  <2> QED
    BY <2>1, <2>2
<1> HIDE DEF p
<1>3. t[n] \in TreeNode
  BY <1>1
<1>4. /\ u \in Seq(TreeNode) /\ Len(u) = Len(t) /\ DOMAIN u = DOMAIN t /\ u # << >>
  <2>1. [t[n] EXCEPT !.parent = p] \in TreeNode
    BY <1>2, <1>3 DEF TreeNode
  <2>2. u = [t EXCEPT ![n] = [t[n] EXCEPT !.parent = p]]
    BY <1>1
  <2> QED
    BY <2>1, <2>2, <1>1
<1>5. /\ \A m \in DOMAIN t : m # n => u[m] = t[m]
      /\ u[n].parent = p /\ u[n].type = t[n].type
  BY <1>1, <1>3 DEF TreeNode
<1>6. \A m \in DOMAIN t : u[m].type = t[m].type
  BY <1>5
<1> HIDE DEF u
<1>7. Nested(u, o, Nobody)
  <2>1. u[Document].type = "document" /\ Document \in DOMAIN t
    BY <1>1, <1>6 DEF Reading, Nested, Document
  <2>2. \A i \in DOMAIN o : o[i] \in 2 .. Len(u) /\ u[o[i]].type = "element"
    <3> SUFFICES ASSUME NEW i \in DOMAIN o PROVE o[i] \in 2 .. Len(u) /\ u[o[i]].type = "element"
      OBVIOUS
    <3>1. o[i] \in 2 .. Len(t) /\ t[o[i]].type = "element"
      BY DEF Reading, Nested
    <3>2. o[i] \in DOMAIN t
      BY <3>1, <1>1
    <3> QED
      BY <3>1, <3>2, <1>4, <1>6
  <2>3. ASSUME NEW m \in DOMAIN u PROVE u[m].parent = Nobody <=> Pending(o, Nobody, m)
    <3>1. m \in DOMAIN t /\ m # Nobody
      BY <1>1, <1>4 DEF Nobody
    <3>2. CASE m = n
      <4>1. ~Pending(o, Nobody, n)
        BY <1>1 DEF Pending, Document, Nobody
      <4> QED
        BY <4>1, <3>2, <1>2, <1>5
    <3>3. CASE m # n
      <4>1. t[m].parent = Nobody <=> Pending(o, n, m)
        BY <3>1 DEF Reading, Nested
      <4> QED
        BY <4>1, <3>1, <3>3, <1>5 DEF Pending
    <3> QED
      BY <3>2, <3>3
  <2>4. Rising(o)
    BY DEF Reading, Nested
  <2> QED
    BY <1>4, <2>1, <2>2, <2>3, <2>4 DEF Nested
<1>8. Contained(u)
  <2> SUFFICES ASSUME NEW m \in DOMAIN u, u[m].parent # Nobody
               PROVE  /\ u[m].parent \in 1 .. m - 1
                      /\ u[u[m].parent].type \in {"document", "element"}
    BY DEF Contained
  <2>1. CASE m = n
    <3>1. p \in DOMAIN t
      BY <1>1, <1>2
    <3> QED
      BY <2>1, <3>1, <1>2, <1>5, <1>6
  <2>2. CASE m # n
    <3>1. m \in DOMAIN t /\ u[m] = t[m]
      BY <2>2, <1>4, <1>5
    <3>2. t[m].parent \in 1 .. m - 1 /\ t[t[m].parent].type \in {"document", "element"}
      BY <3>1 DEF Reading, Contained
    <3>3. t[m].parent \in DOMAIN t
      BY <3>1, <3>2, <1>1
    <3> QED
      BY <3>1, <3>2, <3>3, <1>6
  <2> QED
    BY <2>1, <2>2
<1> QED
  BY <1>1, <1>4, <1>7, <1>8 DEF Reading, p, Nobody, u

\* Other fields of a node do not matter.
SameNodes(t, u) ==
    /\ Len(u) = Len(t)
    /\ \A m \in DOMAIN t : u[m].type = t[m].type /\ u[m].parent = t[m].parent

LEMMA SameNests ==
    ASSUME NEW t, NEW o, NEW n, Reading(t, o, n), NEW u \in Seq(TreeNode), SameNodes(t, u)
    PROVE  Reading(u, o, n)
<1>1. /\ t \in Seq(TreeNode) /\ t # << >> /\ Len(t) \in Nat /\ Len(t) > 0
      /\ DOMAIN t = 1 .. Len(t) /\ DOMAIN u = DOMAIN t /\ Len(u) = Len(t)
  BY DEF Reading, Nested, SameNodes
<1>2. \A m \in DOMAIN t : u[m].type = t[m].type /\ u[m].parent = t[m].parent
  BY DEF SameNodes
<1>3. Nested(u, o, n)
  <2>1. u # << >> /\ u[Document].type = "document"
    BY <1>1, <1>2 DEF Reading, Nested, Document
  <2>2. ASSUME NEW i \in DOMAIN o PROVE o[i] \in 2 .. Len(u) /\ u[o[i]].type = "element"
    <3>1. o[i] \in 2 .. Len(t) /\ t[o[i]].type = "element"
      BY DEF Reading, Nested
    <3>2. o[i] \in DOMAIN t
      BY <3>1, <1>1
    <3> QED
      BY <3>1, <3>2, <1>1, <1>2
  <2>3. ASSUME NEW m \in DOMAIN u PROVE u[m].parent = Nobody <=> Pending(o, n, m)
    BY <1>1, <1>2 DEF Reading, Nested
  <2>4. Rising(o) /\ (n # Nobody => n \in 2 .. Len(u) /\ \A i \in DOMAIN o : o[i] < n)
    BY <1>1 DEF Reading, Nested
  <2> QED
    BY <2>1, <2>2, <2>3, <2>4 DEF Nested
<1>4. Contained(u)
  <2> SUFFICES ASSUME NEW m \in DOMAIN u, u[m].parent # Nobody
               PROVE  /\ u[m].parent \in 1 .. m - 1
                      /\ u[u[m].parent].type \in {"document", "element"}
    BY DEF Contained
  <2>1. m \in DOMAIN t /\ u[m].parent = t[m].parent
    BY <1>1, <1>2
  <2>2. t[m].parent \in 1 .. m - 1 /\ t[t[m].parent].type \in {"document", "element"}
    BY <2>1 DEF Reading, Contained
  <2>3. t[m].parent \in DOMAIN t
    BY <2>1, <2>2, <1>1
  <2> QED
    BY <2>1, <2>2, <2>3, <1>2
<1> QED
  BY <1>3, <1>4 DEF Reading

\* An element's contents are read.
LEMMA OpenNests ==
    ASSUME NEW t, NEW o, NEW n, Reading(t, o, n), n # Nobody, t[n].type = "element"
    PROVE  Reading(t, Append(o, n), Nobody)
<1> DEFINE q == Append(o, n)
<1>1. /\ o \in Seq(Nat) /\ n \in Nat /\ n \in 2 .. Len(t) /\ \A i \in DOMAIN o : o[i] < n
      /\ DOMAIN o = 1 .. Len(o) /\ Len(o) \in Nat
  BY DEF Reading, Nested
<1>2. /\ q \in Seq(Nat) /\ DOMAIN q = 1 .. Len(o) + 1 /\ q[Len(o) + 1] = n
      /\ \A i \in DOMAIN o : q[i] = o[i]
  BY <1>1
<1> HIDE DEF q
<1>3. Rising(q)
  <2> SUFFICES ASSUME NEW i \in DOMAIN q, NEW j \in DOMAIN q, i < j PROVE q[i] < q[j]
    BY DEF Rising
  <2>1. i \in DOMAIN o /\ q[i] = o[i]
    BY <1>1, <1>2
  <2>2. CASE j = Len(o) + 1
    BY <2>1, <2>2, <1>1, <1>2
  <2>3. CASE j # Len(o) + 1
    <3>1. j \in DOMAIN o /\ q[j] = o[j]
      BY <2>3, <1>1, <1>2
    <3>2. o[i] < o[j]
      BY <2>1, <3>1 DEF Reading, Nested, Rising
    <3> QED
      BY <2>1, <3>1, <3>2
  <2> QED
    BY <2>2, <2>3
<1>4. ASSUME NEW i \in DOMAIN q PROVE q[i] \in 2 .. Len(t) /\ t[q[i]].type = "element"
  <2>1. CASE i = Len(o) + 1
    BY <2>1, <1>1, <1>2
  <2>2. CASE i # Len(o) + 1
    <3>1. i \in DOMAIN o /\ q[i] = o[i]
      BY <2>2, <1>1, <1>2
    <3> QED
      BY <3>1 DEF Reading, Nested
  <2> QED
    BY <2>1, <2>2
<1>5. ASSUME NEW m \in DOMAIN t PROVE t[m].parent = Nobody <=> Pending(q, Nobody, m)
  <2>1. t[m].parent = Nobody <=> Pending(o, n, m)
    BY DEF Reading, Nested
  <2>2. m # Nobody
    BY DEF Reading, Nested, Nobody
  <2>3. (\E i \in DOMAIN q : q[i] = m) <=> (m = n \/ \E i \in DOMAIN o : o[i] = m)
    <3>1. Len(o) + 1 \in DOMAIN q /\ DOMAIN o \subseteq DOMAIN q
      BY <1>1, <1>2
    <3>2. ASSUME NEW i \in DOMAIN q, q[i] = m PROVE m = n \/ \E j \in DOMAIN o : o[j] = m
      <4>1. i = Len(o) + 1 \/ i \in DOMAIN o
        BY <1>1, <1>2
      <4> QED
        BY <4>1, <3>2, <1>2
    <3> QED
      BY <3>1, <3>2, <1>2
  <2> QED
    BY <2>1, <2>2, <2>3 DEF Pending
<1>6. t # << >> /\ t[Document].type = "document"
  BY DEF Reading, Nested
<1> QED
  BY <1>2, <1>3, <1>4, <1>5, <1>6 DEF Reading, Nested, Nobody, q

\* An element's contents have been read.
LEMMA CloseNests ==
    ASSUME NEW t, NEW o, Reading(t, o, Nobody), o # << >>
    PROVE  Reading(t, Front(o), Last(o)) /\ Last(o) # Nobody
<1> DEFINE q == Front(o)
           n == Last(o)
           k == Len(o)
<1>1. /\ o \in Seq(Nat) /\ DOMAIN o = 1 .. k /\ k \in Nat /\ k > 0 /\ n = o[k] /\ k \in DOMAIN o
      /\ q \in Seq(Nat) /\ DOMAIN q = 1 .. k - 1 /\ \A i \in DOMAIN q : q[i] = o[i] /\ i \in DOMAIN o
  <2>1. o \in Seq(Nat)
    BY DEF Reading
  <2>2. q \in Seq(Nat) /\ Len(q) = k - 1 /\ k \in Nat \ {0} /\ n = o[k]
        /\ \A i \in 1 .. k - 1 : q[i] = o[i]
    BY <2>1, LastOfSeq
  <2> HIDE DEF q, n, k
  <2>3. DOMAIN q = 1 .. k - 1 /\ DOMAIN o = 1 .. k
    BY <2>1, <2>2 DEF k
  <2>4. k \in 1 .. k /\ \A i \in 1 .. k - 1 : i \in 1 .. k
    BY <2>2
  <2> QED
    BY <2>1, <2>2, <2>3, <2>4
<1> HIDE DEF q, n, k
<1>2. n \in 2 .. Len(t) /\ n \in Nat /\ n # Nobody
  <2>1. o[k] \in 2 .. Len(t)
    BY <1>1 DEF Reading, Nested
  <2> QED
    BY <2>1, <1>1 DEF Nobody
<1>3. Rising(q) /\ \A i \in DOMAIN q : q[i] < n
  <2>1. Rising(o)
    BY DEF Reading, Nested
  <2> QED
    BY <2>1, <1>1 DEF Rising
<1>4. \A i \in DOMAIN q : q[i] \in 2 .. Len(t) /\ t[q[i]].type = "element"
  BY <1>1 DEF Reading, Nested
<1>5. ASSUME NEW m \in DOMAIN t PROVE t[m].parent = Nobody <=> Pending(q, n, m)
  <2>1. t[m].parent = Nobody <=> Pending(o, Nobody, m)
    BY DEF Reading, Nested
  <2>2. m # Nobody
    BY DEF Reading, Nested, Nobody
  <2>3. (\E i \in DOMAIN o : o[i] = m) <=> (m = n \/ \E i \in DOMAIN q : q[i] = m)
    <3>1. ASSUME NEW i \in DOMAIN o, o[i] = m PROVE m = n \/ \E j \in DOMAIN q : q[j] = m
      <4>1. i = k \/ i \in DOMAIN q
        BY <1>1
      <4> QED
        BY <4>1, <3>1, <1>1
    <3> QED
      BY <3>1, <1>1
  <2> QED
    BY <2>1, <2>2, <2>3 DEF Pending
<1>6. t # << >> /\ t[Document].type = "document"
  BY DEF Reading, Nested
<1>7. Reading(t, q, n)
  BY <1>1, <1>2, <1>3, <1>4, <1>5, <1>6 DEF Reading, Nested
<1> QED
  BY <1>2, <1>7 DEF q, n

\* The last of what is being read before n is the innermost.
LEMMA InnermostIsLast ==
    ASSUME NEW o \in Seq(Nat), NEW n \in Nat, NEW S, Rising(o), n > 1,
           \A i \in DOMAIN o : 1 < o[i] /\ o[i] < n,
           \A m : m \in S <=> m \in 1 .. n - 1 /\ (m = Document \/ \E i \in DOMAIN o : o[i] = m)
    PROVE  Max(S) = Innermost(o)
<1> DEFINE p == Innermost(o)
<1>1. DOMAIN o = 1 .. Len(o) /\ Len(o) \in Nat
  OBVIOUS
<1>2. p \in S /\ \A m \in S : p >= m
  <2>1. CASE o = << >>
    <3>1. p = Document /\ DOMAIN o = {}
      BY <2>1 DEF Innermost
    <3> HIDE DEF p
    <3> QED
      BY <3>1 DEF Document
  <2>2. CASE o # << >>
    <3>1. Len(o) \in DOMAIN o /\ p = o[Len(o)]
      BY <2>2, LastOfSeq DEF Innermost
    <3>2. \A i \in DOMAIN o : o[i] \in Nat /\ o[i] <= o[Len(o)]
      <4>1. \A i \in DOMAIN o : i = Len(o) \/ i < Len(o)
        BY <1>1
      <4>2. \A i \in DOMAIN o : o[i] \in Nat
        OBVIOUS
      <4> QED
        BY <4>1, <4>2, <3>1 DEF Rising
    <3> HIDE DEF p
    <3>3. p \in 1 .. n - 1
      BY <3>1, <3>2
    <3>4. p \in S
      BY <3>1, <3>3
    <3>5. ASSUME NEW m \in S PROVE p >= m
      <4>1. m = Document \/ \E i \in DOMAIN o : o[i] = m
        OBVIOUS
      <4>2. CASE m = Document
        BY <4>2, <3>3 DEF Document
      <4>3. ASSUME NEW i \in DOMAIN o, o[i] = m PROVE p >= m
        BY <4>3, <3>1, <3>2, <3>3
      <4> QED
        BY <4>1, <4>2, <4>3
    <3> QED
      BY <3>4, <3>5
  <2> QED
    BY <2>1, <2>2
<1>3. \A m \in S : m \in Nat
  OBVIOUS
<1> HIDE DEF p
<1>4. Max(S) = p
  BY <1>2, <1>3 DEF Max
<1> QED
  BY <1>4 DEF p

\* The node begun last that has not ended is the innermost.
LEMMA InnermostIsAround ==
    ASSUME NEW o, NEW n, Reading(tree, o, n), n # Nobody
    PROVE  Around(n) = Innermost(o)
<1> DEFINE S == {m \in 1 .. (n - 1) : ~Placed(m)}
<1>1. /\ o \in Seq(Nat) /\ n \in Nat /\ n \in 2 .. Len(tree) /\ Rising(o)
      /\ DOMAIN tree = 1 .. Len(tree) /\ Len(tree) \in Nat
      /\ \A i \in DOMAIN o : o[i] \in 2 .. Len(tree) /\ o[i] < n
  BY DEF Reading, Nested
<1>2. ASSUME NEW m \in 1 .. n - 1
      PROVE  ~Placed(m) <=> (m = Document \/ \E i \in DOMAIN o : o[i] = m)
  <2>1. m \in DOMAIN tree /\ m # n
    BY <1>1
  <2>2. tree[m].parent = Nobody <=> Pending(o, n, m)
    BY <2>1 DEF Reading, Nested
  <2> QED
    BY <2>1, <2>2 DEF Placed, Pending
<1>3. \A m : m \in S <=> m \in 1 .. n - 1 /\ (m = Document \/ \E i \in DOMAIN o : o[i] = m)
  BY <1>2
<1>4. n > 1 /\ \A i \in DOMAIN o : 1 < o[i] /\ o[i] < n
  BY <1>1
<1> HIDE DEF S
<1>5. Max(S) = Innermost(o)
  BY <1>1, <1>3, <1>4, InnermostIsLast
<1> QED
  BY <1>5 DEF Around, S

\* So it is for a node that is begun and ends at once.
LEMMA AppendedIsAround ==
    ASSUME NEW o, Reading(tree, o, Nobody)
    PROVE  Around(Len(tree) + 1) = Innermost(o)
<1> DEFINE n == Len(tree) + 1
           S == {m \in 1 .. (n - 1) : ~Placed(m)}
<1>1. /\ o \in Seq(Nat) /\ n \in Nat /\ Rising(o) /\ tree # << >> /\ tree \in Seq(TreeNode)
      /\ DOMAIN tree = 1 .. Len(tree) /\ Len(tree) \in Nat
      /\ \A i \in DOMAIN o : o[i] \in 2 .. Len(tree)
  BY DEF Reading, Nested
<1>2. n - 1 = Len(tree) /\ Len(tree) > 0
  BY <1>1
<1>3. ASSUME NEW m \in 1 .. n - 1
      PROVE  ~Placed(m) <=> (m = Document \/ \E i \in DOMAIN o : o[i] = m)
  <2>1. m \in DOMAIN tree /\ m # Nobody
    BY <1>1, <1>2 DEF Nobody
  <2>2. tree[m].parent = Nobody <=> Pending(o, Nobody, m)
    BY <2>1 DEF Reading, Nested
  <2> QED
    BY <2>1, <2>2 DEF Placed, Pending
<1>4. \A m : m \in S <=> m \in 1 .. n - 1 /\ (m = Document \/ \E i \in DOMAIN o : o[i] = m)
  BY <1>3
<1>5. n > 1 /\ \A i \in DOMAIN o : 1 < o[i] /\ o[i] < n
  BY <1>1, <1>2
<1> HIDE DEF S
<1>6. Max(S) = Innermost(o)
  BY <1>1, <1>4, <1>5, InnermostIsLast
<1> QED
  BY <1>6 DEF Around, S

-----------------------------------------------------------------------------
(* Steps of the parser. *)

LEMMA LexemeIs ==
    ASSUME NEW x \in AnyLexeme
    PROVE  (x.kind = "name" => x.says \in Name) /\ (x.kind = "ref" => x.says \in Ref)
<1> DEFINE kinds == Marker \cup {"</", "/", ">", "=", "'", "?>", "-->", "]]>", "[", "]",
                                 "name", "text", "ref", "end"}
<1>1. x \in Lexemes(kinds)
  BY DEF AnyLexeme
<1> HIDE DEF kinds
<1>2. CASE x \in {Lexeme(k) : k \in kinds \ {"name", "ref"}}
  <2>1. PICK k \in kinds \ {"name", "ref"} : x = Lexeme(k)
    BY <1>2
  <2>2. x.kind = k
    BY <2>1 DEF Lexeme
  <2> QED
    BY <2>1, <2>2
<1>3. CASE x \in {[kind |-> "name", says |-> n] : n \in Name}
  BY <1>3
<1>4. CASE x \in {[kind |-> "ref", says |-> r] : r \in Ref}
  BY <1>4
<1> QED
  BY <1>1, <1>2, <1>3, <1>4 DEF Lexemes

LEMMA TuplesAreSequences ==
    ASSUME NEW S, NEW a \in S, NEW b \in S, NEW c \in S, NEW d \in S
    PROVE  <<a>> \in Seq(S) /\ <<a, b>> \in Seq(S) /\ <<a, b, c>> \in Seq(S) /\ <<a, b, c, d>> \in Seq(S)
  OBVIOUS

LEMMA ElementIs ==
    ASSUME NEW S, NEW s \in Seq(S), NEW k \in DOMAIN s
    PROVE  s[k] \in S /\ \A v \in S : [s EXCEPT ![k] = v] \in Seq(S)
  OBVIOUS

LEMMA ExpandedIs ==
    ASSUME NEW x \in AnyLexeme, RefError(x) = "OK"
    PROVE  Expanded(x) \in Seq(Byte)
<1>1. CASE ~Translated(x)
  <2>1. Letter \in Byte
    BY DEF Byte
  <2> QED
    BY <1>1, <2>1 DEF Expanded
<1>2. CASE Translated(x)
  <2> DEFINE r == x.says
             c == CodeOf(r)
  <2>1. r \in Ref /\ c \in Nat /\ Expanded(x) = Coded(c)
    BY <1>2, LexemeIs, ReferenceAssumption DEF Translated, Expanded
  <2> DEFINE d == c \div 64
             e == c \div 4096
             f == 192 + d
             g == 224 + e
             h == 240 + c \div 262144
             m == c % 256
             lc == Low(c)
             ld == Low(d)
             le == Low(e)
  <2>3. m \in Byte /\ c \in Byte /\ f \in Byte /\ lc \in Byte /\ g \in Byte /\ ld \in Byte /\ h \in Byte /\ le \in Byte
    BY <2>1 DEF Byte
  <2> HIDE DEF c, r
  <2>4. \/ Coded(c) = <<m>> \/ Coded(c) = <<c>> \/ Coded(c) = <<f, lc>> \/ Coded(c) = <<g, ld, lc>>
        \/ Coded(c) = <<h, le, ld, lc>>
    BY DEF Coded
  <2> HIDE DEF d, e, f, g, h, m, lc, ld, le
  <2>5. Coded(c) \in Seq(Byte)
    <3>1. /\ <<m>> \in Seq(Byte) /\ <<c>> \in Seq(Byte) /\ <<f, lc>> \in Seq(Byte)
          /\ <<g, ld, lc>> \in Seq(Byte) /\ <<h, le, ld, lc>> \in Seq(Byte)
      BY <2>3, TuplesAreSequences
    <3> QED
      BY <2>4, <3>1
  <2> QED
    BY <2>1, <2>5
<1> QED
  BY <1>1, <1>2

\* What is known when a lexeme is read at l.
LEMMA PlaceFacts ==
    ASSUME ParserInv, code = "running", pc # "start"
    PROVE  /\ Reading(tree, open, node) /\ PlaceIsKnown
           /\ raw \in Seq(Byte) /\ tree \in Seq(TreeNode) /\ open \in Seq(Nat)
  BY DEF ParserInv, ParserTypeOK

LEMMA LexemeRead ==
    ASSUME NEW x, NEW kinds, Next_(x, kinds)
    PROVE  code = "running"
  BY DEF Next_

\* The parser goes on.
LEMMA RunsOn ==
    ASSUME ParserInv, code' = "running", pc' # "start", Reading(tree', open', node'),
           raw' \in Seq(Byte), ahead' \in AnyLexeme \cup {Nothing}, PlaceIsKnown', GoesAround
    PROVE  ParserGoesOn
<1>1. ParserTypeOK'
  BY DEF ParserTypeOK, Reading
<1>2. CrashesAreKnown'
  BY DEF CrashesAreKnown
<1> QED
  BY <1>1, <1>2 DEF ParserInv, ParserGoesOn

LEMMA FailGoesOn ==
    ASSUME ParserInv, NEW e, Fail(e), e \notin {"running", "OK", "crash"}
    PROVE  ParserGoesOn
<1>1. /\ code' = e /\ tree' = << >> /\ open' = << >> /\ node' = Nobody
      /\ raw' = << >> /\ ahead' = Nothing /\ pc' = "returned"
  BY DEF Fail, Skip
<1>2. ParserTypeOK'
  BY <1>1 DEF ParserTypeOK, Nobody
<1>3. CrashesAreKnown'
  BY <1>1 DEF CrashesAreKnown
<1>4. GoesAround
  BY <1>1 DEF GoesAround
<1> QED
  BY <1>1, <1>2, <1>3, <1>4 DEF ParserInv, ParserGoesOn

\* Nothing is begun and nothing ends; fields of nodes may change.
LEMMA FieldGoesOn ==
    ASSUME ParserInv, code = "running", pc # "start",
           code' = code, open' = open, node' = node, pc' # "start",
           tree' \in Seq(TreeNode), SameNodes(tree, tree'),
           raw' \in Seq(Byte), ahead' \in AnyLexeme \cup {Nothing}, PlaceIsKnown'
    PROVE  ParserGoesOn
<1>1. Reading(tree', open', node')
  BY PlaceFacts, SameNests
<1>2. GoesAround
  <2> SUFFICES ASSUME NEW n \in DOMAIN tree', ~Placed(n), Placed(n)' PROVE FALSE
    BY DEF GoesAround
  <2>1. n \in DOMAIN tree /\ tree'[n].parent = tree[n].parent
    BY PlaceFacts DEF SameNodes
  <2> QED
    BY <2>1 DEF Placed
<1> QED
  BY <1>1, <1>2, RunsOn

LEMMA SameTreeGoesOn ==
    ASSUME ParserInv, code = "running", pc # "start",
           UNCHANGED <<open, node, tree, code>>, pc' # "start",
           raw' \in Seq(Byte), ahead' \in AnyLexeme \cup {Nothing}, PlaceIsKnown'
    PROVE  ParserGoesOn
<1>1. tree' \in Seq(TreeNode) /\ SameNodes(tree, tree')
  BY PlaceFacts DEF SameNodes
<1> QED
  BY <1>1, FieldGoesOn

LEMMA GotoGoesOn ==
    ASSUME ParserInv, code = "running", pc # "start", NEW l, Goto(l),
           \/ l = pc
           \/ pc \in {"top", "contents"} \cup Skipping /\ l \in Skipping
           \/ pc = "attrs" /\ tree[node].type = "element" /\ l = "slash"
           \/ pc = "equal" /\ l = "quote"
           \/ pc = "quote" /\ l = "value"
           \/ pc = "contents" /\ l = "close"
    PROVE  ParserGoesOn
<1>1. UNCHANGED <<open, node, tree, code, raw>> /\ pc' = l /\ ahead' = Nothing
  BY DEF Goto, Skip
<1>2. PlaceIsKnown
  BY PlaceFacts
<1>3. PlaceIsKnown'
  BY <1>1, <1>2 DEF PlaceIsKnown, WithinNode, WithinElement, Skipping
<1>4. pc' # "start"
  BY <1>1, <1>3 DEF PlaceIsKnown, WithinNode, WithinElement, Skipping
<1> QED
  BY <1>1, <1>3, <1>4, PlaceFacts, SameTreeGoesOn

LEMMA BeginGoesOn ==
    ASSUME ParserInv, code = "running", pc # "start", node = Nobody, NEW type, NEW l, Begin(type, l),
           <<type, l>> \in {<<"element", "name">>, <<"declaration", "attrs">>, <<"pi", "target">>}
    PROVE  ParserGoesOn
<1>1. type \in NodeType
  BY DEF NodeType
<1>2. CASE Fail("OOM")
  BY <1>2, FailGoesOn
<1>3. CASE /\ tree' = Append(tree, NewNode(type))
           /\ node' = Len(tree) + 1
           /\ pc' = l /\ Skip
           /\ UNCHANGED <<flags, open, raw, code>>
  <2>1. Reading(tree, open, Nobody) /\ tree \in Seq(TreeNode)
    BY PlaceFacts
  <2>2. Reading(tree', open', node')
    BY <1>1, <1>3, <2>1, BeginNests
  <2>3. /\ Len(tree) \in Nat /\ tree'[Len(tree) + 1].type = type
        /\ \A n \in DOMAIN tree : tree'[n] = tree[n]
        /\ DOMAIN tree' = DOMAIN tree \cup {Len(tree) + 1}
        /\ tree'[Len(tree) + 1].parent = Nobody
    BY <1>1, <1>3, <2>1, NewNodeIs
  <2>4. node' # Nobody
    BY <1>3, <2>3 DEF Nobody
  <2>5. PlaceIsKnown'
    BY <1>3, <2>3, <2>4 DEF PlaceIsKnown, WithinNode, WithinElement, Skipping
  <2>6. GoesAround
    BY <2>3 DEF GoesAround, Placed
  <2>7. pc' # "start" /\ code' = "running" /\ raw' \in Seq(Byte) /\ ahead' = Nothing
    BY <1>3, PlaceFacts DEF Skip
  <2> QED
    BY <2>2, <2>5, <2>6, <2>7, RunsOn
<1> QED
  BY <1>2, <1>3 DEF Begin

\* Only one node gets a parent.
LEMMA OneGoesAround ==
    ASSUME NEW n, NEW t, NEW p, DOMAIN tree' = DOMAIN t,
           tree' = [t EXCEPT ![n].parent = p], p = Around(n), n \in DOMAIN t, t[n] \in TreeNode,
           \A m \in DOMAIN t : m # n => m \in DOMAIN tree /\ t[m] = tree[m]
    PROVE  GoesAround
<1> SUFFICES ASSUME NEW m \in DOMAIN tree', ~Placed(m), Placed(m)' PROVE tree'[m].parent = Around(m)
  BY DEF GoesAround
<1>1. CASE m = n
  <2>1. tree'[n].parent = p
    BY DEF TreeNode
  <2> QED
    BY <1>1, <2>1
<1>2. CASE m # n
  <2>1. m \in DOMAIN tree /\ tree'[m] = tree[m]
    BY <1>2
  <2> QED
    BY <2>1 DEF Placed
<1> QED
  BY <1>1, <1>2

\* A node that was being read is returned.
LEMMA NodeReturned ==
    ASSUME ParserInv, code = "running", pc # "start", node # Nobody, Returned(node, tree), Skip
    PROVE  ParserGoesOn
<1>1. Reading(tree, open, node) /\ node \in DOMAIN tree /\ tree \in Seq(TreeNode) /\ tree[node] \in TreeNode
  <2>1. Reading(tree, open, node) /\ tree \in Seq(TreeNode)
    BY PlaceFacts
  <2>2. node \in DOMAIN tree
    BY <2>1 DEF Reading, Nested
  <2> QED
    BY <2>1, <2>2
<1>2. /\ tree' = [tree EXCEPT ![node].parent = Receiver] /\ node' = Nobody
      /\ pc' = (IF open = << >> THEN "top" ELSE "contents")
      /\ UNCHANGED <<flags, open, raw, code>>
  BY DEF Returned
<1>3. Receiver = Innermost(open)
  BY DEF Receiver, Innermost
<1>4. Reading(tree', open', node')
  BY <1>1, <1>2, <1>3, ReturnNests
<1>5. GoesAround
  <2>1. Receiver = Around(node)
    BY <1>1, <1>3, InnermostIsAround
  <2>2. DOMAIN tree' = DOMAIN tree
    BY <1>2
  <2> QED
    BY <1>1, <1>2, <2>1, <2>2, OneGoesAround
<1>6. PlaceIsKnown'
  BY <1>2 DEF PlaceIsKnown, WithinNode, WithinElement, Skipping
<1>7. pc' # "start" /\ code' = "running" /\ raw' \in Seq(Byte) /\ ahead' = Nothing
  BY <1>2, PlaceFacts DEF Skip
<1> QED
  BY <1>4, <1>5, <1>6, <1>7, RunsOn

\* Where nodes that are not kept are skipped.
Skippable ==
    \/ pc \in {"skip", "other"}
    \/ pc = "comment" /\ "PARSE_COMMENT_NODES" \notin flags
    \/ pc = "doctype" /\ "PARSE_DOCTYPE_NODE" \notin flags
    \/ pc = "cdata" /\ "NO_DATA_NODES" \in flags

\* No node is returned.
LEMMA NobodyReturned ==
    ASSUME ParserInv, code = "running", Skippable, Returned(Nobody, tree),
           ahead' \in AnyLexeme \cup {Nothing}
    PROVE  ParserGoesOn
<1>1. pc \in Skipping /\ pc # "start"
  BY DEF Skippable, Skipping
<1>2. Reading(tree, open, node) /\ PlaceIsKnown /\ raw \in Seq(Byte)
  BY <1>1, PlaceFacts
<1>3. node = Nobody
  BY <1>1, <1>2 DEF PlaceIsKnown, WithinNode, Skipping
<1>4. CASE open # << >> /\ Crash
  <2>1. UNCHANGED <<flags, pc, open, node, raw, tree>> /\ code' = "crash"
    BY <1>4 DEF Crash
  <2>2. CrashesAreKnown'
    BY <1>4, <2>1 DEF CrashesAreKnown, Skippable
  <2>3. ParserTypeOK'
    BY <2>1 DEF ParserInv, ParserTypeOK
  <2>4. GoesAround
    BY <2>1 DEF GoesAround, Placed
  <2> QED
    BY <1>1, <2>1, <2>2, <2>3, <2>4 DEF ParserInv, ParserGoesOn
<1>5. CASE /\ tree' = tree /\ node' = Nobody /\ open = << >>
           /\ pc' = (IF open = << >> THEN "top" ELSE "contents")
           /\ UNCHANGED <<flags, open, raw, code>>
  <2>1. PlaceIsKnown'
    BY <1>5 DEF PlaceIsKnown, WithinNode, WithinElement, Skipping
  <2>2. pc' # "start" /\ UNCHANGED <<open, node, tree, code>> /\ raw' \in Seq(Byte)
    BY <1>2, <1>3, <1>5
  <2> QED
    BY <1>1, <2>1, <2>2, SameTreeGoesOn
<1> QED
  BY <1>4, <1>5 DEF Returned

\* A node that has been skipped to its end is kept, or not.
LEMMA KeptGoesOn ==
    ASSUME ParserInv, code = "running", pc \in Skipping, NEW keep \in BOOLEAN, NEW type \in NodeType,
           Kept(keep, type), ~keep => Skippable, ahead' \in AnyLexeme \cup {Nothing}
    PROVE  ParserGoesOn
<1>1. pc # "start"
  BY DEF Skipping
<1>2. Reading(tree, open, Nobody) /\ PlaceIsKnown /\ raw \in Seq(Byte) /\ tree \in Seq(TreeNode)
  <2>1. PlaceIsKnown /\ Reading(tree, open, node)
    BY <1>1, PlaceFacts
  <2>2. node = Nobody
    BY <2>1 DEF PlaceIsKnown, WithinNode, Skipping
  <2> QED
    BY <1>1, <2>1, <2>2, PlaceFacts
<1>3. CASE ~keep
  BY <1>3, NobodyReturned DEF Kept
<1>4. CASE Fail("OOM")
  BY <1>4, FailGoesOn
<1>5. CASE Returned(Len(tree) + 1, Append(tree, NewNode(type)))
  <2> DEFINE n == Len(tree) + 1
             t == Append(tree, NewNode(type))
  <2>1. n # Nobody /\ Len(tree) \in Nat
    BY <1>2 DEF Nobody
  <2>2. /\ tree' = [t EXCEPT ![n].parent = Receiver] /\ node' = Nobody
        /\ pc' = (IF open = << >> THEN "top" ELSE "contents")
        /\ UNCHANGED <<flags, open, raw, code>>
    BY <1>5, <2>1 DEF Returned
  <2>3. Reading(t, open, n)
    BY <1>2, BeginNests
  <2>4. Receiver = Innermost(open)
    BY DEF Receiver, Innermost
  <2>5. /\ t \in Seq(TreeNode) /\ DOMAIN t = DOMAIN tree \cup {n} /\ n \notin DOMAIN tree
        /\ t[n] \in TreeNode /\ \A m \in DOMAIN tree : t[m] = tree[m]
        /\ DOMAIN tree = 1 .. Len(tree)
    BY <1>2, NewNodeIs
  <2> HIDE DEF t
  <2>6. Reading(tree', open', node')
    BY <2>1, <2>2, <2>3, <2>4, ReturnNests
  <2>7. Around(n) = Innermost(open)
    BY <1>2, AppendedIsAround
  <2>8. GoesAround
    <3>1. DOMAIN tree' = DOMAIN t
      BY <2>2
    <3> HIDE DEF n
    <3> QED
      BY <2>2, <2>4, <2>5, <2>7, <3>1, OneGoesAround
  <2>9. PlaceIsKnown'
    BY <2>2 DEF PlaceIsKnown, WithinNode, WithinElement, Skipping
  <2>10. pc' # "start" /\ code' = "running" /\ raw' \in Seq(Byte)
    BY <2>2, <1>2
  <2> QED
    BY <2>6, <2>8, <2>9, <2>10, RunsOn
<1> QED
  BY <1>3, <1>4, <1>5 DEF Kept

LEMMA StartGoesOn ==
    ASSUME ParserInv, code = "running", Start
    PROVE  ParserGoesOn
<1>1. CASE Fail("OOM")
  BY <1>1, FailGoesOn
<1>2. CASE /\ tree' = <<NewNode("document")>> /\ pc' = "top" /\ Skip
           /\ UNCHANGED <<flags, open, node, raw, code>>
  <2>1. tree = << >> /\ open = << >> /\ node = Nobody /\ raw \in Seq(Byte)
    BY DEF ParserInv, ParserTypeOK, Start
  <2>2. NewNode("document") \in TreeNode /\ NewNode("document").type = "document"
        /\ NewNode("document").parent = Nobody
    BY NewNodeIs DEF NodeType
  <2>3. /\ tree' \in Seq(TreeNode) /\ tree' # << >> /\ DOMAIN tree' = {1}
        /\ tree'[1] = NewNode("document")
    BY <1>2, <2>2
  <2>4. open' = << >> /\ DOMAIN open' = {} /\ open' \in Seq(Nat) /\ node' = 0
    BY <1>2, <2>1 DEF Nobody
  <2>5. Nested(tree', open', node')
    BY <2>2, <2>3, <2>4 DEF Nested, Rising, Pending, Document, Nobody
  <2>6. Contained(tree')
    BY <2>2, <2>3 DEF Contained
  <2>7. Reading(tree', open', node')
    BY <2>3, <2>4, <2>5, <2>6 DEF Reading
  <2>8. PlaceIsKnown'
    BY <1>2, <2>4 DEF PlaceIsKnown, WithinNode, WithinElement, Skipping, Nobody
  <2>9. GoesAround
    BY <2>2, <2>3 DEF GoesAround, Placed
  <2>10. pc' # "start" /\ code' = "running" /\ raw' \in Seq(Byte) /\ ahead' = Nothing
    BY <1>2, <2>1 DEF Skip
  <2> QED
    BY <2>7, <2>8, <2>9, <2>10, RunsOn
<1> QED
  BY <1>1, <1>2 DEF Start

\* A node is begun, or something is to be skipped.
LEMMA NodeGoesOn ==
    ASSUME ParserInv, code = "running", pc \in {"top", "contents"}, NEW x, ParseNode(x)
    PROVE  ParserGoesOn
<1>1. node = Nobody /\ pc # "start"
  BY PlaceFacts DEF PlaceIsKnown, WithinNode
<1>2. CASE Begin("element", "name")
  BY <1>1, <1>2, BeginGoesOn
<1>3. CASE BeginDeclaration
  <2>1. CASE Begin("declaration", "attrs")
    BY <1>1, <2>1, BeginGoesOn
  <2>2. CASE Goto("skip")
    BY <1>1, <2>2, GotoGoesOn DEF Skipping
  <2> QED
    BY <1>3, <2>1, <2>2 DEF BeginDeclaration
<1>4. CASE IF "PARSE_PI_NODES" \in flags THEN Begin("pi", "target") ELSE Goto("skip")
  <2>1. CASE Begin("pi", "target")
    BY <1>1, <2>1, BeginGoesOn
  <2>2. CASE Goto("skip")
    BY <1>1, <2>2, GotoGoesOn DEF Skipping
  <2> QED
    BY <1>4, <2>1, <2>2
<1>5. ASSUME NEW l \in {"comment", "cdata", "doctype", "other"}, Goto(l) PROVE ParserGoesOn
  BY <1>1, <1>5, GotoGoesOn DEF Skipping
<1> QED
  BY <1>2, <1>3, <1>4, <1>5 DEF ParseNode

LEMMA TopGoesOn ==
    ASSUME ParserInv, NEW x \in AnyLexeme, ParseTop(x)
    PROVE  ParserGoesOn
<1>1. code = "running" /\ pc = "top"
  BY LexemeRead DEF ParseTop
<1>2. CASE /\ code' = "OK" /\ pc' = "returned" /\ Skip
           /\ UNCHANGED <<flags, open, node, raw, tree>>
  <2>1. Reading(tree, open, node) /\ PlaceIsKnown
    BY <1>1, PlaceFacts
  <2>2. open = << >> /\ node = Nobody
    BY <1>1, <2>1 DEF PlaceIsKnown, WithinNode
  <2>3. Reading(tree', << >>, Nobody)
    BY <1>2, <2>1, <2>2
  <2>4. ParserTypeOK'
    BY <1>2 DEF ParserInv, ParserTypeOK, Skip
  <2>5. CrashesAreKnown'
    BY <1>2 DEF CrashesAreKnown
  <2>6. GoesAround
    BY <1>2 DEF GoesAround, Placed
  <2> QED
    BY <1>2, <2>3, <2>4, <2>5, <2>6 DEF ParserInv, ParserGoesOn
<1>3. CASE ParseNode(x)
  BY <1>1, <1>3, NodeGoesOn
<1>4. ASSUME NEW e \in {"NODE_NAME_EXPECTED", "OOM", "LBRACKET_EXPECTED"}, Fail(e) PROVE ParserGoesOn
  BY <1>4, FailGoesOn
<1> QED
  BY <1>2, <1>3, <1>4 DEF ParseTop

\* The node that is being read.
LEMMA NodeFacts ==
    ASSUME ParserInv, code = "running", pc \in WithinNode
    PROVE  /\ PlaceIsKnown /\ node \in DOMAIN tree /\ node # Nobody /\ tree[node] \in TreeNode
           /\ tree \in Seq(TreeNode) /\ raw \in Seq(Byte) /\ pc # "start"
<1>1. pc # "start"
  BY DEF WithinNode
<1>2. Reading(tree, open, node) /\ PlaceIsKnown /\ raw \in Seq(Byte) /\ tree \in Seq(TreeNode)
  BY <1>1, PlaceFacts
<1>3. node # Nobody
  BY <1>2 DEF PlaceIsKnown
<1>4. node \in DOMAIN tree
  BY <1>2, <1>3 DEF Reading, Nested
<1> QED
  BY <1>1, <1>2, <1>3, <1>4

\* The node that is being read changes, but for its type and its parent.
LEMMA ChangedGoesOn ==
    ASSUME ParserInv, code = "running", pc \in WithinNode, NEW v \in TreeNode,
           v.type = tree[node].type, v.parent = tree[node].parent,
           tree' = [tree EXCEPT ![node] = v], UNCHANGED <<open, node, code>>,
           raw' \in Seq(Byte), ahead' = Nothing,
           \/ pc = "name" /\ pc' = "attrs"
           \/ pc = "target" /\ pc' = "pi"
           \/ pc = "attrs" /\ pc' = "equal" /\ v.attrs # << >>
           \/ pc = "value" /\ pc' = "attrs"
    PROVE  ParserGoesOn
<1>1. /\ PlaceIsKnown /\ node \in DOMAIN tree /\ tree \in Seq(TreeNode) /\ pc # "start"
  BY NodeFacts
<1>2. tree' \in Seq(TreeNode) /\ SameNodes(tree, tree') /\ tree'[node] = v
  BY <1>1 DEF SameNodes
<1>3. PlaceIsKnown'
  BY <1>1, <1>2 DEF PlaceIsKnown, WithinNode, WithinElement, Skipping
<1>4. pc' # "start"
  OBVIOUS
<1> QED
  BY <1>1, <1>2, <1>3, <1>4, FieldGoesOn

LEMMA NameGoesOn ==
    ASSUME ParserInv, NEW x \in AnyLexeme, ParseName(x)
    PROVE  ParserGoesOn
<1>1. code = "running" /\ pc = "name" /\ pc \in WithinNode
  BY LexemeRead DEF ParseName, WithinNode
<1>2. CASE /\ x.kind = "name"
           /\ tree' = [tree EXCEPT ![node].name = x.says]
           /\ pc' = "attrs" /\ Skip
           /\ UNCHANGED <<flags, open, node, raw, code>>
  <2> DEFINE v == [tree[node] EXCEPT !.name = x.says]
  <2>1. node \in DOMAIN tree /\ tree[node] \in TreeNode /\ raw \in Seq(Byte)
    BY <1>1, NodeFacts
  <2>2. x.says \in Name
    BY <1>2, LexemeIs
  <2>3. v \in TreeNode /\ v.type = tree[node].type /\ v.parent = tree[node].parent
    BY <2>1, <2>2 DEF TreeNode
  <2>4. tree' = [tree EXCEPT ![node] = v]
    BY <1>2
  <2> HIDE DEF v
  <2> QED
    BY <1>1, <1>2, <2>1, <2>3, <2>4, ChangedGoesOn DEF Skip
<1>3. CASE Fail("NODE_NAME_EXPECTED")
  BY <1>3, FailGoesOn
<1> QED
  BY <1>2, <1>3 DEF ParseName

LEMMA TargetGoesOn ==
    ASSUME ParserInv, NEW x \in AnyLexeme, ParseTarget(x)
    PROVE  ParserGoesOn
<1>1. code = "running" /\ pc = "target" /\ pc \in WithinNode
  BY LexemeRead DEF ParseTarget, WithinNode
<1>2. CASE /\ x.kind = "name"
           /\ tree' = [tree EXCEPT ![node].name = x.says]
           /\ pc' = "pi" /\ Skip
           /\ UNCHANGED <<flags, open, node, raw, code>>
  <2> DEFINE v == [tree[node] EXCEPT !.name = x.says]
  <2>1. node \in DOMAIN tree /\ tree[node] \in TreeNode /\ raw \in Seq(Byte)
    BY <1>1, NodeFacts
  <2>2. x.says \in Name
    BY <1>2, LexemeIs
  <2>3. v \in TreeNode /\ v.type = tree[node].type /\ v.parent = tree[node].parent
    BY <2>1, <2>2 DEF TreeNode
  <2>4. tree' = [tree EXCEPT ![node] = v]
    BY <1>2
  <2> HIDE DEF v
  <2> QED
    BY <1>1, <1>2, <2>1, <2>3, <2>4, ChangedGoesOn DEF Skip
<1>3. CASE Fail("PI_TARGET_EXPECTED")
  BY <1>3, FailGoesOn
<1> QED
  BY <1>2, <1>3 DEF ParseTarget

LEMMA AttrGoesOn ==
    ASSUME ParserInv, code = "running", pc = "attrs", NEW x \in AnyLexeme, x.kind = "name", BeginAttr(x)
    PROVE  ParserGoesOn
<1>1. CASE /\ tree' = [tree EXCEPT ![node].attrs =
                         Append(@, [name |-> x.says, value |-> << >>])]
           /\ pc' = "equal" /\ Skip
           /\ UNCHANGED <<flags, open, node, raw, code>>
  <2> DEFINE a == Append(tree[node].attrs, [name |-> x.says, value |-> << >>])
             v == [tree[node] EXCEPT !.attrs = a]
  <2>1. node \in DOMAIN tree /\ tree[node] \in TreeNode /\ raw \in Seq(Byte) /\ pc \in WithinNode
    BY NodeFacts DEF WithinNode
  <2>2. x.says \in Name
    BY LexemeIs
  <2>3. tree' = [tree EXCEPT ![node] = v]
    BY <1>1
  <2>4. a \in Seq([name : Name, value : Seq(Byte)]) /\ a # << >>
    <3>1. tree[node].attrs \in Seq([name : Name, value : Seq(Byte)])
      BY <2>1 DEF TreeNode
    <3>2. [name |-> x.says, value |-> << >>] \in [name : Name, value : Seq(Byte)]
      BY <2>2
    <3> QED
      BY <3>1, <3>2
  <2> HIDE DEF a
  <2>5. v \in TreeNode /\ v.type = tree[node].type /\ v.parent = tree[node].parent /\ v.attrs = a
    BY <2>1, <2>4 DEF TreeNode
  <2> HIDE DEF v
  <2> QED
    BY <1>1, <2>1, <2>3, <2>4, <2>5, ChangedGoesOn DEF Skip
<1>2. CASE Fail("OOM")
  BY <1>2, FailGoesOn
<1> QED
  BY <1>1, <1>2 DEF BeginAttr

LEMMA AttrsGoOn ==
    ASSUME ParserInv, NEW x \in AnyLexeme, ParseAttrs(x)
    PROVE  ParserGoesOn
<1>1. code = "running" /\ pc = "attrs" /\ pc # "start" /\ pc \in WithinNode
  BY LexemeRead DEF ParseAttrs, WithinNode
<1>2. CASE x.kind = "name" /\ BeginAttr(x)
  BY <1>1, <1>2, AttrGoesOn
<1>3. CASE Skip /\ Returned(node, tree)
  BY <1>1, <1>3, NodeFacts, NodeReturned
<1>4. CASE tree[node].type = "element" /\ Goto("slash")
  BY <1>1, <1>4, GotoGoesOn
<1>5. ASSUME NEW e \in {"DECL_END_EXPECTED", "RBRACKET_EXPECTED"}, Fail(e) PROVE ParserGoesOn
  BY <1>5, FailGoesOn
<1>6. CASE /\ tree[node].type = "element"
           /\ open' = Append(open, node) /\ node' = Nobody
           /\ pc' = "contents" /\ Skip
           /\ UNCHANGED <<flags, raw, tree, code>>
  <2>1. Reading(tree, open, node) /\ node # Nobody /\ raw \in Seq(Byte) /\ open \in Seq(Nat) /\ node \in Nat
    <3>1. Reading(tree, open, node) /\ node # Nobody /\ raw \in Seq(Byte)
      BY <1>1, PlaceFacts, NodeFacts
    <3> QED
      BY <3>1 DEF Reading
  <2>2. Reading(tree', open', node')
    BY <1>6, <2>1, OpenNests
  <2>3. open' # << >>
    BY <1>6, <2>1
  <2>4. PlaceIsKnown'
    BY <1>6, <2>3 DEF PlaceIsKnown, WithinNode, WithinElement, Skipping
  <2>5. GoesAround
    BY <1>6 DEF GoesAround, Placed
  <2>6. pc' # "start" /\ code' = "running" /\ raw' \in Seq(Byte) /\ ahead' = Nothing
    BY <1>1, <1>6, <2>1 DEF Skip
  <2> QED
    BY <2>2, <2>4, <2>5, <2>6, RunsOn
<1> QED
  BY <1>2, <1>3, <1>4, <1>5, <1>6 DEF ParseAttrs

LEMMA SlashGoesOn ==
    ASSUME ParserInv, NEW x \in AnyLexeme, ParseSlash(x)
    PROVE  ParserGoesOn
<1>1. code = "running" /\ pc # "start" /\ pc \in WithinNode
  BY LexemeRead DEF ParseSlash, WithinNode
<1>2. CASE Skip /\ Returned(node, tree)
  BY <1>1, <1>2, NodeFacts, NodeReturned
<1>3. CASE Fail("RBRACKET_EXPECTED")
  BY <1>3, FailGoesOn
<1> QED
  BY <1>2, <1>3 DEF ParseSlash

LEMMA EqualGoesOn ==
    ASSUME ParserInv, NEW x \in AnyLexeme, ParseEqual(x) \/ ParseQuote(x)
    PROVE  ParserGoesOn
<1>1. code = "running" /\ pc \in {"equal", "quote"} /\ pc # "start"
  BY LexemeRead DEF ParseEqual, ParseQuote
<1>2. CASE pc = "equal" /\ Goto("quote")
  BY <1>1, <1>2, GotoGoesOn
<1>3. CASE pc = "quote" /\ Goto("value")
  BY <1>1, <1>3, GotoGoesOn
<1>4. ASSUME NEW e \in {"EQUAL_SIGN_EXPECTED", "QUOTE_EXPECTED"}, Fail(e) PROVE ParserGoesOn
  BY <1>4, FailGoesOn
<1> QED
  BY <1>2, <1>3, <1>4 DEF ParseEqual, ParseQuote

\* A reference that is complained about.
LEMMA RefErrorIs ==
    ASSUME NEW x
    PROVE  /\ RefError(x) \in {"OK", "INVALID_CHAR_ENTITY", "NO_SEMICOLON"}
           /\ x.kind # "ref" => RefError(x) = "OK"
<1>1. RefError(x) \in {"OK", "INVALID_CHAR_ENTITY", "NO_SEMICOLON"}
  BY DEF RefError
<1>2. ASSUME x.kind # "ref" PROVE RefError(x) = "OK"
  BY <1>2 DEF RefError, Translated
<1> QED
  BY <1>1, <1>2

\* Text is added to a value.
LEMMA TextGoesOn ==
    ASSUME ParserInv, code = "running", pc # "start", NEW x \in AnyLexeme,
           IF RefError(x) # "OK" THEN Fail(RefError(x))
           ELSE /\ raw' = raw \o Expanded(x) /\ Skip
                /\ UNCHANGED <<flags, pc, open, node, tree, code>>
    PROVE  ParserGoesOn
<1>1. CASE RefError(x) # "OK"
  BY <1>1, RefErrorIs, FailGoesOn
<1>2. CASE RefError(x) = "OK"
  <2>1. raw \in Seq(Byte) /\ PlaceIsKnown
    BY PlaceFacts
  <2>2. Expanded(x) \in Seq(Byte)
    BY <1>2, ExpandedIs
  <2>3. raw' = raw \o Expanded(x) /\ ahead' = Nothing /\ UNCHANGED <<flags, pc, open, node, tree, code>>
    BY <1>2 DEF Skip
  <2> DEFINE e == Expanded(x)
  <2>5. e \in Seq(Byte) /\ raw' = raw \o e
    BY <2>2, <2>3
  <2> HIDE DEF e
  <2>6. raw' \in Seq(Byte)
    BY <2>1, <2>5
  <2>4. PlaceIsKnown'
    BY <2>1, <2>3 DEF PlaceIsKnown
  <2> QED
    BY <2>3, <2>4, <2>6, SameTreeGoesOn
<1> QED
  BY <1>1, <1>2

LEMMA ValueGoesOn ==
    ASSUME ParserInv, NEW x \in AnyLexeme, ParseValue(x)
    PROVE  ParserGoesOn
<1>1. code = "running" /\ pc = "value" /\ pc # "start" /\ pc \in WithinNode
  BY LexemeRead DEF ParseValue, WithinNode
<1>2. CASE x.kind = "'"
  <2> DEFINE k == Len(tree[node].attrs)
             a == [tree[node].attrs EXCEPT ![k].value = raw]
             v == [tree[node] EXCEPT !.attrs = a]
  <2>1. /\ node \in DOMAIN tree /\ tree[node] \in TreeNode /\ raw \in Seq(Byte)
        /\ tree[node].attrs # << >>
    BY <1>1, NodeFacts DEF PlaceIsKnown
  <2>0. RefError(x) = "OK"
    BY <1>2, RefErrorIs
  <2>2. /\ tree' = [tree EXCEPT ![node].attrs[k].value = raw]
        /\ raw' = << >> /\ pc' = "attrs" /\ Skip
        /\ UNCHANGED <<flags, open, node, code>>
    BY <1>2, <2>0 DEF ParseValue
  <2>3. tree' = [tree EXCEPT ![node] = v]
    BY <2>2
  <2>4. a \in Seq([name : Name, value : Seq(Byte)])
    <3> DEFINE s == tree[node].attrs
    <3>1. s \in Seq([name : Name, value : Seq(Byte)])
      BY <2>1 DEF TreeNode
    <3>2. k \in DOMAIN s
      BY <2>1, <3>1, LastOfSeq
    <3> HIDE DEF s
    <3>3. [s[k] EXCEPT !.value = raw] \in [name : Name, value : Seq(Byte)]
      <4> DEFINE r == s[k]
      <4>1. r \in [name : Name, value : Seq(Byte)]
        <5> HIDE DEF k
        <5> QED
          BY <3>1, <3>2, ElementIs
      <4> HIDE DEF r
      <4>2. [r EXCEPT !.value = raw] \in [name : Name, value : Seq(Byte)]
        BY <4>1, <2>1
      <4> QED
        BY <4>2 DEF r
    <3>4. [s EXCEPT ![k] = [s[k] EXCEPT !.value = raw]] \in Seq([name : Name, value : Seq(Byte)])
      <4> HIDE DEF k
      <4> QED
        BY <3>1, <3>2, <3>3, ElementIs
    <3> QED
      BY <3>4 DEF s
  <2> HIDE DEF a
  <2>5. v \in TreeNode /\ v.type = tree[node].type /\ v.parent = tree[node].parent
    BY <2>1, <2>4 DEF TreeNode
  <2> HIDE DEF v
  <2>6. raw' \in Seq(Byte)
    BY <2>2
  <2> QED
    BY <1>1, <2>2, <2>3, <2>5, <2>6, ChangedGoesOn DEF Skip
<1>3. CASE x.kind # "'" /\ x.kind = "end"
  <2>1. RefError(x) = "OK"
    BY <1>3, RefErrorIs
  <2>2. Fail("QUOTE_EXPECTED")
    BY <1>3, <2>1 DEF ParseValue
  <2> QED
    BY <2>2, FailGoesOn
<1>4. CASE x.kind # "'" /\ x.kind # "end"
  <2>1. IF RefError(x) # "OK" THEN Fail(RefError(x))
        ELSE /\ raw' = raw \o Expanded(x) /\ Skip
             /\ UNCHANGED <<flags, pc, open, node, tree, code>>
    BY <1>4 DEF ParseValue
  <2> QED
    BY <1>1, <2>1, TextGoesOn
<1> QED
  BY <1>2, <1>3, <1>4

LEMMA CommentGoesOn ==
    ASSUME ParserInv, NEW x \in AnyLexeme, ParseComment(x)
    PROVE  ParserGoesOn
<1>1. code = "running" /\ pc = "comment" /\ pc \in Skipping /\ pc # "start"
  BY LexemeRead DEF ParseComment, Skipping
<1>2. CASE Skip /\ Kept("PARSE_COMMENT_NODES" \in flags, "comment")
  <2> DEFINE keep == "PARSE_COMMENT_NODES" \in flags
  <2>1. keep \in BOOLEAN /\ "comment" \in NodeType /\ ahead' \in AnyLexeme \cup {Nothing}
    BY <1>2 DEF NodeType, Skip
  <2>2. ~keep => Skippable
    BY <1>1 DEF Skippable
  <2> QED
    BY <1>1, <1>2, <2>1, <2>2, KeptGoesOn
<1>3. CASE Fail("UNEXPECTED_STREAM_END")
  BY <1>3, FailGoesOn
<1>4. CASE Goto(pc)
  BY <1>1, <1>4, GotoGoesOn
<1> QED
  BY <1>2, <1>3, <1>4 DEF ParseComment

LEMMA CDataGoesOn ==
    ASSUME ParserInv, NEW x \in AnyLexeme, ParseCData(x)
    PROVE  ParserGoesOn
<1> DEFINE keep == "NO_DATA_NODES" \notin flags
<1>1. code = "running" /\ pc = "cdata" /\ pc \in Skipping /\ pc # "start"
  BY LexemeRead DEF ParseCData, Skipping
<1>2. CASE ahead' = (IF keep THEN Nothing ELSE x) /\ Kept(keep, "cdata")
  <2>1. keep \in BOOLEAN /\ "cdata" \in NodeType /\ ahead' \in AnyLexeme \cup {Nothing}
    BY <1>2 DEF NodeType
  <2>2. ~keep => Skippable
    BY <1>1 DEF Skippable
  <2> QED
    BY <1>1, <1>2, <2>1, <2>2, KeptGoesOn
<1>3. CASE Fail("UNEXPECTED_CDATA_END")
  BY <1>3, FailGoesOn
<1>4. CASE Goto(pc)
  BY <1>1, <1>4, GotoGoesOn
<1> QED
  BY <1>2, <1>3, <1>4 DEF ParseCData

LEMMA DoctypeGoesOn ==
    ASSUME ParserInv, NEW x \in AnyLexeme, ParseDoctype(x)
    PROVE  ParserGoesOn
<1>1. code = "running" /\ pc = "doctype" /\ pc \in Skipping /\ pc # "start"
  BY LexemeRead DEF ParseDoctype, Skipping
<1>2. CASE Skip /\ Kept("PARSE_DOCTYPE_NODE" \in flags, "doctype")
  <2> DEFINE keep == "PARSE_DOCTYPE_NODE" \in flags
  <2>1. keep \in BOOLEAN /\ "doctype" \in NodeType /\ ahead' \in AnyLexeme \cup {Nothing}
    BY <1>2 DEF NodeType, Skip
  <2>2. ~keep => Skippable
    BY <1>1 DEF Skippable
  <2> QED
    BY <1>1, <1>2, <2>1, <2>2, KeptGoesOn
<1>3. CASE Fail("UNEXPECTED_STREAM_END")
  BY <1>3, FailGoesOn
<1>4. CASE Goto(pc) \/ Goto("subset")
  BY <1>1, <1>4, GotoGoesOn DEF Skipping
<1> QED
  BY <1>2, <1>3, <1>4 DEF ParseDoctype

LEMMA SubsetGoesOn ==
    ASSUME ParserInv, NEW x \in AnyLexeme, ParseSubset(x)
    PROVE  ParserGoesOn
<1>1. code = "running" /\ pc = "subset" /\ pc \in Skipping /\ pc # "start"
  BY LexemeRead DEF ParseSubset, Skipping
<1>2. CASE ahead' = x /\ UNCHANGED <<flags, pc, open, node, raw, tree, code>>
  <2>1. PlaceIsKnown /\ raw \in Seq(Byte)
    BY <1>1, PlaceFacts
  <2>2. PlaceIsKnown'
    BY <1>2, <2>1 DEF PlaceIsKnown
  <2> QED
    BY <1>1, <1>2, <2>1, <2>2, SameTreeGoesOn
<1>3. CASE Fail("UNEXPECTED_STREAM_END")
  BY <1>3, FailGoesOn
<1>4. CASE Goto(pc) \/ Goto("doctype")
  BY <1>1, <1>4, GotoGoesOn DEF Skipping
<1> QED
  BY <1>2, <1>3, <1>4 DEF ParseSubset

LEMMA PiGoesOn ==
    ASSUME ParserInv, NEW x \in AnyLexeme, ParsePi(x)
    PROVE  ParserGoesOn
<1>1. code = "running" /\ pc \in {"pi", "skip"} /\ pc # "start"
  BY LexemeRead DEF ParsePi
<1>2. CASE Skip /\ Returned(IF pc = "pi" THEN node ELSE Nobody, tree)
  <2>1. CASE pc = "pi"
    <3>1. node # Nobody /\ Returned(node, tree)
      BY <1>1, <1>2, <2>1, NodeFacts DEF WithinNode
    <3> QED
      BY <1>1, <1>2, <3>1, NodeReturned
  <2>2. CASE pc = "skip"
    <3>1. Returned(Nobody, tree) /\ Skippable /\ ahead' = Nothing
      BY <1>2, <2>2 DEF Skippable, Skip
    <3> QED
      BY <1>1, <3>1, NobodyReturned
  <2> QED
    BY <1>1, <2>1, <2>2
<1>3. CASE Fail("DECL_END_EXPECTED")
  BY <1>3, FailGoesOn
<1>4. CASE Goto(pc)
  BY <1>1, <1>4, GotoGoesOn
<1> QED
  BY <1>2, <1>3, <1>4 DEF ParsePi

LEMMA OtherGoesOn ==
    ASSUME ParserInv, NEW x \in AnyLexeme, ParseOther(x)
    PROVE  ParserGoesOn
<1>1. code = "running" /\ pc = "other" /\ pc # "start"
  BY LexemeRead DEF ParseOther
<1>2. CASE Skip /\ Returned(Nobody, tree)
  BY <1>1, <1>2, NobodyReturned DEF Skippable, Skip
<1>3. CASE Fail("RBRACKET_EXPECTED")
  BY <1>3, FailGoesOn
<1>4. CASE Goto(pc)
  BY <1>1, <1>4, GotoGoesOn
<1> QED
  BY <1>2, <1>3, <1>4 DEF ParseOther

LEMMA ContentsGoOn ==
    ASSUME ParserInv, NEW x \in AnyLexeme, ParseContents(x)
    PROVE  ParserGoesOn
<1>1. code = "running" /\ pc = "contents" /\ pc # "start"
  BY LexemeRead DEF ParseContents
<1>2. CASE Goto("close")
  BY <1>1, <1>2, GotoGoesOn
<1>3. CASE Fail("UNEXPECTED_STREAM_END")
  BY <1>3, FailGoesOn
<1>4. CASE ParseNode(x)
  BY <1>1, <1>4, NodeGoesOn
<1>5. CASE /\ ahead' = x /\ pc' = "data"
           /\ UNCHANGED <<flags, open, node, raw, tree, code>>
  <2>1. PlaceIsKnown /\ raw \in Seq(Byte)
    BY <1>1, PlaceFacts
  <2>2. PlaceIsKnown'
    BY <1>1, <1>5, <2>1 DEF PlaceIsKnown, WithinNode, WithinElement, Skipping
  <2> QED
    BY <1>1, <1>5, <2>1, <2>2, SameTreeGoesOn
<1> QED
  BY <1>2, <1>3, <1>4, <1>5 DEF ParseContents

LEMMA CloseGoesOn ==
    ASSUME ParserInv, NEW x \in AnyLexeme, ParseClose(x)
    PROVE  ParserGoesOn
<1>1. code = "running" /\ pc = "close" /\ pc # "start"
  BY LexemeRead DEF ParseClose
<1>2. CASE Fail("CLOSING_TAG")
  BY <1>2, FailGoesOn
<1>3. CASE /\ ahead' = IF x.kind = "name" THEN Nothing ELSE x
           /\ pc' = "closed"
           /\ UNCHANGED <<flags, open, node, raw, tree, code>>
  <2>1. PlaceIsKnown /\ raw \in Seq(Byte)
    BY <1>1, PlaceFacts
  <2>2. PlaceIsKnown'
    BY <1>1, <1>3, <2>1 DEF PlaceIsKnown, WithinNode, WithinElement, Skipping
  <2> QED
    BY <1>1, <1>3, <2>1, <2>2, SameTreeGoesOn
<1> QED
  BY <1>2, <1>3 DEF ParseClose

LEMMA ClosedGoesOn ==
    ASSUME ParserInv, NEW x \in AnyLexeme, ParseClosed(x)
    PROVE  ParserGoesOn
<1> DEFINE n == Last(open)
           o == Front(open)
<1>1. code = "running" /\ pc = "closed" /\ pc # "start"
  BY LexemeRead DEF ParseClosed
<1>2. CASE Fail("RBRACKET_EXPECTED")
  BY <1>2, FailGoesOn
<1>3. CASE /\ open' = o
           /\ tree' = [tree EXCEPT ![n].parent = IF o = << >> THEN Document ELSE Last(o)]
           /\ pc' = IF o = << >> THEN "top" ELSE "contents"
           /\ Skip /\ UNCHANGED <<flags, node, raw, code>>
  <2>1. /\ Reading(tree, open, node) /\ raw \in Seq(Byte) /\ tree \in Seq(TreeNode)
        /\ open # << >> /\ node = Nobody
    BY <1>1, PlaceFacts DEF PlaceIsKnown, WithinNode, WithinElement
  <2>2. Reading(tree, o, n) /\ n # Nobody
    BY <2>1, CloseNests
  <2> HIDE DEF n, o
  <2>3. tree' = [tree EXCEPT ![n].parent = Innermost(o)]
    BY <1>3 DEF Innermost
  <2>4. Reading(tree', open', node')
    <3>1. Reading([tree EXCEPT ![n].parent = Innermost(o)], o, Nobody)
      BY <2>2, ReturnNests
    <3>2. open' = o /\ node' = Nobody
      BY <1>3, <2>1
    <3> QED
      BY <2>3, <3>1, <3>2
  <2>5. GoesAround
    <3>1. Innermost(o) = Around(n)
      BY <2>2, InnermostIsAround
    <3>2. n \in DOMAIN tree /\ tree[n] \in TreeNode
      <4>1. n \in DOMAIN tree
        BY <2>2 DEF Reading, Nested
      <4> QED
        BY <4>1, <2>1
    <3>3. DOMAIN tree' = DOMAIN tree
      BY <2>3
    <3> QED
      BY <2>3, <3>1, <3>2, <3>3, OneGoesAround
  <2>6. PlaceIsKnown'
    BY <1>3, <2>1 DEF PlaceIsKnown, WithinNode, WithinElement, Skipping
  <2>7. pc' # "start" /\ code' = "running" /\ raw' \in Seq(Byte) /\ ahead' = Nothing
    BY <1>1, <1>3, <2>1 DEF Skip
  <2> QED
    BY <2>4, <2>5, <2>6, <2>7, RunsOn
<1> QED
  BY <1>2, <1>3 DEF ParseClosed

\* A value of a node of w is set, or not.
LEMMA ValueSets ==
    ASSUME NEW w \in Seq(TreeNode), NEW p \in DOMAIN w, NEW v \in Seq(Byte)
    PROVE  [w EXCEPT ![p].value = v] \in Seq(TreeNode) /\ SameNodes(w, [w EXCEPT ![p].value = v])
<1> DEFINE r == [w[p] EXCEPT !.value = v]
           u == [w EXCEPT ![p] = r]
<1>1. w[p] \in TreeNode
  OBVIOUS
<1>2. r \in TreeNode /\ r.type = w[p].type /\ r.parent = w[p].parent
  BY <1>1 DEF TreeNode
<1>3. u = [w EXCEPT ![p].value = v]
  OBVIOUS
<1> HIDE DEF r
<1>4. u \in Seq(TreeNode) /\ SameNodes(w, u)
  BY <1>2 DEF SameNodes
<1> QED
  BY <1>3, <1>4

\* Text that ends: a node and a value.
LEMMA DataEnds ==
    ASSUME ParserInv, code = "running", pc = "data", NEW w, NEW x \in AnyLexeme,
           \/ w = tree
           \/ w = Append(tree, [NewNode("data") EXCEPT !.parent = Last(open)]),
           tree' = w \/ tree' = [w EXCEPT ![Last(open)].value = raw],
           raw' = << >>, pc' = "contents", ahead' = x,
           UNCHANGED <<flags, open, node, code>>
    PROVE  ParserGoesOn
<1> DEFINE p == Last(open)
           n == Len(tree) + 1
           t == Append(tree, NewNode("data"))
<1>1. /\ Reading(tree, open, Nobody) /\ raw \in Seq(Byte) /\ tree \in Seq(TreeNode)
      /\ open # << >> /\ open \in Seq(Nat) /\ node = Nobody
  BY PlaceFacts DEF PlaceIsKnown, WithinNode, WithinElement
<1>2. p \in DOMAIN tree /\ p = Innermost(open)
  <2>1. Len(open) \in DOMAIN open /\ p = open[Len(open)]
    BY <1>1, LastOfSeq
  <2>2. open[Len(open)] \in 2 .. Len(tree)
    BY <1>1, <2>1 DEF Reading, Nested
  <2>3. p = Innermost(open)
    BY <1>1 DEF Innermost
  <2> HIDE DEF p
  <2> QED
    BY <1>1, <2>1, <2>2, <2>3
<1>3. /\ Len(tree) \in Nat /\ DOMAIN tree = 1 .. Len(tree) /\ n \notin DOMAIN tree /\ n # Nobody
      /\ n \in DOMAIN t /\ DOMAIN t = DOMAIN tree \cup {n} /\ t \in Seq(TreeNode)
      /\ t[n] = NewNode("data") /\ NewNode("data") \in TreeNode
      /\ \A m \in DOMAIN tree : t[m] = tree[m]
  <2>1. "data" \in NodeType
    BY DEF NodeType
  <2>2. NewNode("data") \in TreeNode
    BY <2>1, NewNodeIs
  <2> QED
    BY <1>1, <2>2 DEF Nobody
<1>4. Reading([t EXCEPT ![n].parent = p], open, Nobody)
  <2>1. Reading(t, open, n)
    BY <1>1, BeginNests DEF NodeType
  <2> HIDE DEF t, n, p
  <2> QED
    BY <1>2, <1>3, <2>1, ReturnNests
<1>5. \/ w = tree \/ w = [t EXCEPT ![n].parent = p]
  <2>1. Append(tree, [NewNode("data") EXCEPT !.parent = p]) = [t EXCEPT ![n] = [t[n] EXCEPT !.parent = p]]
    <3> DEFINE r == [NewNode("data") EXCEPT !.parent = p]
    <3>1. [t[n] EXCEPT !.parent = p] = r
      BY <1>3
    <3> HIDE DEF p
    <3>3. r \in TreeNode
      <4>1. p \in Nat
        BY <1>2, <1>3
      <4>2. NewNode("data") \in TreeNode
        BY <1>3
      <4> QED
        BY <4>1, <4>2 DEF TreeNode
    <3> HIDE DEF r
    <3>2. Append(tree, r) = [t EXCEPT ![n] = r]
      <4> DEFINE a == Append(tree, r)
                 b == [t EXCEPT ![n] = r]
      <4>1. a \in Seq(TreeNode) /\ Len(a) = n /\ a[n] = r /\ \A m \in 1 .. Len(tree) : a[m] = tree[m]
        BY <1>1, <3>3
      <4> HIDE DEF t
      <4>2. Len(t) = n
        BY <1>3
      <4>3. b \in Seq(TreeNode) /\ Len(b) = n /\ b[n] = r /\ \A m \in 1 .. Len(tree) : b[m] = tree[m]
        BY <1>3, <3>3, <4>2
      <4> HIDE DEF a, b
      <4>4. \A m \in 1 .. Len(a) : a[m] = b[m]
        BY <1>3, <4>1, <4>3
      <4>5. a = b
        BY <4>1, <4>3, <4>4, SeqEqual
      <4> QED
        BY <4>5 DEF a, b
    <3> QED
      BY <3>1, <3>2 DEF r
  <2> QED
    BY <2>1
<1> HIDE DEF t, p
<1>6. /\ Reading(w, open, Nobody) /\ w \in Seq(TreeNode) /\ DOMAIN tree \subseteq DOMAIN w
      /\ \A m \in DOMAIN w : \/ m \in DOMAIN tree /\ w[m].parent = tree[m].parent
                             \/ m = n /\ w[m].parent = p
  <2>1. CASE w = tree
    BY <2>1, <1>1
  <2>2. CASE w = [t EXCEPT ![n].parent = p]
    <3>1. Reading(w, open, Nobody)
      BY <2>2, <1>4
    <3>2. w[n].parent = p
      BY <2>2, <1>3 DEF TreeNode
    <3>3. DOMAIN w = DOMAIN t /\ \A m \in DOMAIN t : m # n => w[m] = t[m]
      BY <2>2
    <3> HIDE DEF n
    <3> QED
      BY <1>3, <3>1, <3>2, <3>3 DEF Reading
  <2> QED
    BY <1>5, <2>1, <2>2
<1>7. tree' \in Seq(TreeNode) /\ SameNodes(w, tree')
  <2>1. CASE tree' = w
    BY <2>1, <1>6 DEF SameNodes
  <2>2. CASE tree' = [w EXCEPT ![p].value = raw]
    <3>1. p \in DOMAIN w
      BY <1>2, <1>6
    <3> QED
      BY <2>2, <3>1, <1>1, <1>6, ValueSets
  <2> QED
    BY <2>1, <2>2 DEF p
<1>8. Reading(tree', open', node')
  BY <1>1, <1>6, <1>7, SameNests
<1>9. GoesAround
  <2> SUFFICES ASSUME NEW m \in DOMAIN tree', ~Placed(m), Placed(m)' PROVE tree'[m].parent = Around(m)
    BY DEF GoesAround
  <2>1. m \in DOMAIN w /\ tree'[m].parent = w[m].parent
    BY <1>6, <1>7 DEF SameNodes
  <2>2. Around(n) = p
    BY <1>1, <1>2, AppendedIsAround
  <2>3. ~(m \in DOMAIN tree /\ w[m].parent = tree[m].parent)
    BY <2>1 DEF Placed
  <2> QED
    BY <1>6, <2>1, <2>2, <2>3
<1>10. PlaceIsKnown'
  BY <1>1 DEF PlaceIsKnown, WithinNode, WithinElement, Skipping
<1> QED
  BY <1>8, <1>9, <1>10, RunsOn

LEMMA DataGoesOn ==
    ASSUME ParserInv, NEW x \in AnyLexeme, ParseData(x)
    PROVE  ParserGoesOn
<1>1. code = "running" /\ pc = "data" /\ pc # "start"
  BY LexemeRead DEF ParseData
<1>2. CASE x.kind \in Marker \cup {"</", "end"}
  <2>1. CASE Fail("OOM")
    BY <2>1, FailGoesOn
  <2>2. ASSUME ~Fail("OOM") PROVE ParserGoesOn
    <3> DEFINE w == IF "NO_DATA_NODES" \in flags THEN tree
                    ELSE Append(tree, [NewNode("data") EXCEPT !.parent = Last(open)])
    <3>1. /\ tree' = (IF "NO_ELEMENT_VALUES" \notin flags /\ tree[Last(open)].name = << >>
                      THEN [w EXCEPT ![Last(open)].value = raw] ELSE w)
          /\ raw' = << >> /\ pc' = "contents" /\ ahead' = x
          /\ UNCHANGED <<flags, open, node, code>>
      BY <1>2, <2>2 DEF ParseData
    <3>2. \/ w = tree
          \/ w = Append(tree, [NewNode("data") EXCEPT !.parent = Last(open)])
      OBVIOUS
    <3> HIDE DEF w
    <3>3. tree' = w \/ tree' = [w EXCEPT ![Last(open)].value = raw]
      BY <3>1
    <3> QED
      BY <1>1, <3>1, <3>2, <3>3, DataEnds
  <2> QED
    BY <2>1, <2>2
<1>3. CASE x.kind \notin Marker \cup {"</", "end"}
  <2>1. IF RefError(x) # "OK" THEN Fail(RefError(x))
        ELSE /\ raw' = raw \o Expanded(x) /\ Skip
             /\ UNCHANGED <<flags, pc, open, node, tree, code>>
    BY <1>3 DEF ParseData
  <2> QED
    BY <1>1, <2>1, TextGoesOn
<1> QED
  BY <1>2, <1>3

LEMMA ParserStarts ==
    ASSUME ParserInit
    PROVE  ParserInv
<1>1. tree = << >> /\ open = << >> /\ node = 0 /\ raw = << >> /\ code = "running" /\ ahead = Nothing /\ pc = "start"
  BY DEF ParserInit, Nobody
<1>2. ParserTypeOK
  BY <1>1 DEF ParserTypeOK
<1>3. CrashesAreKnown
  BY <1>1 DEF CrashesAreKnown
<1> QED
  BY <1>1, <1>2, <1>3 DEF ParserInv, Nobody

LEMMA ParserSteps ==
    ASSUME ParserInv, ParserNext
    PROVE  ParserGoesOn
<1>1. CASE Start
  <2>1. code = "running"
    BY <1>1 DEF Start, ParserInv
  <2> QED
    BY <1>1, <2>1, StartGoesOn
<1>2. ASSUME NEW x \in AnyLexeme, ParseStep(x) PROVE ParserGoesOn
  <2>1. CASE ParseTop(x) \/ ParseName(x) \/ ParseAttrs(x) \/ ParseSlash(x)
    BY <2>1, TopGoesOn, NameGoesOn, AttrsGoOn, SlashGoesOn
  <2>2. CASE ParseEqual(x) \/ ParseQuote(x) \/ ParseValue(x)
    BY <2>2, EqualGoesOn, ValueGoesOn
  <2>3. CASE ParseComment(x) \/ ParseCData(x) \/ ParseDoctype(x) \/ ParseSubset(x)
    BY <2>3, CommentGoesOn, CDataGoesOn, DoctypeGoesOn, SubsetGoesOn
  <2>4. CASE ParseTarget(x) \/ ParsePi(x) \/ ParseOther(x)
    BY <2>4, TargetGoesOn, PiGoesOn, OtherGoesOn
  <2>5. CASE ParseContents(x) \/ ParseClose(x) \/ ParseClosed(x) \/ ParseData(x)
    BY <2>5, ContentsGoOn, CloseGoesOn, ClosedGoesOn, DataGoesOn
  <2> QED
    BY <1>2, <2>1, <2>2, <2>3, <2>4, <2>5 DEF ParseStep
<1> QED
  BY <1>1, <1>2 DEF ParserNext

LEMMA ParserStutters ==
    ASSUME ParserInv, UNCHANGED parseVars
    PROVE  ParserGoesOn
<1>1. UNCHANGED <<flags, read, ahead, pc, open, node, raw, tree, code>>
  BY DEF parseVars
<1>2. ParserTypeOK' /\ CrashesAreKnown'
  BY <1>1 DEF ParserInv, ParserTypeOK, CrashesAreKnown
<1>3. PlaceIsKnown => PlaceIsKnown'
  BY <1>1 DEF PlaceIsKnown
<1>4. GoesAround
  BY <1>1 DEF GoesAround, Placed
<1> QED
  BY <1>1, <1>2, <1>3, <1>4 DEF ParserInv, ParserGoesOn

\* What is being read is nested at every moment: the document, the elements whose
\* contents are read, one begun within the other, and the node that is read have no
\* parent yet, whoever has one was begun after it, and it is the document or an
\* element.  (ndm_xml_document_parse())
THEOREM ParserInvariance == ParserSpec => []ParserInv
<1>1. ParserInit => ParserInv
  BY ParserStarts
<1>2. ParserInv /\ [ParserNext]_parseVars => ParserInv'
  BY ParserSteps, ParserStutters DEF ParserGoesOn
<1> QED
  BY <1>1, <1>2, PTL DEF ParserSpec

\* Whatever the flags and the text, the parser gives a null pointer to
\* ndm_xml_node_append_child() only where it skips a node within an element.
\* (__ndm_xml_parser_parse_node_contents())
THEOREM CrashesStayKnown == ParserSpec => []CrashesAreKnown
<1>1. ParserInv => CrashesAreKnown
  BY DEF ParserInv
<1> QED
  BY <1>1, ParserInvariance, PTL

\* Whatever the text and whichever allocations fail, a node goes into the node begun
\* last before it that has not ended, and a document that parses has every node
\* within the document or an element.  (ndm_xml_document_parse())
THEOREM NodesStayNested == ParserSpec => NodesAreNested
<1> DEFINE WholeNode == code = "OK" =>
                        \A n \in 2 .. Len(tree) :
                            Placed(n) /\ tree[tree[n].parent].type \in {"document", "element"}
<1>1. ParserInv => WholeNode
  <2> SUFFICES ASSUME ParserInv, code = "OK", NEW n \in 2 .. Len(tree)
               PROVE  Placed(n) /\ tree[tree[n].parent].type \in {"document", "element"}
    OBVIOUS
  <2>1. Reading(tree, << >>, Nobody)
    BY DEF ParserInv
  <2>2. n \in DOMAIN tree /\ n # 0 /\ n # 1
    BY <2>1 DEF Reading
  <2>3. ~Pending(<< >>, Nobody, n)
    BY <2>2 DEF Pending, Document, Nobody
  <2>4. tree[n].parent # Nobody
    BY <2>1, <2>2, <2>3 DEF Reading, Nested
  <2> QED
    BY <2>1, <2>2, <2>4 DEF Reading, Contained, Placed
<1>2. ParserInv /\ [ParserNext]_parseVars =>
          [\A n \in DOMAIN tree' : ~Placed(n) /\ Placed(n)' => tree'[n].parent = Around(n)]_parseVars
  BY ParserSteps DEF ParserGoesOn, GoesAround
<1> QED
  BY <1>1, <1>2, ParserInvariance, PTL DEF ParserSpec, NodesAreNested

=============================================================================
