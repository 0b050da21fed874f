-------------------------- MODULE CoreCacheProofs ---------------------------
(***************************************************************************)
(* Theorems of CoreCache for every set of requests, responses, addresses   *)
(* and every size, proved with TLAPS.                                      *)
(***************************************************************************)
EXTENDS CacheHistory, FiniteSetTheorems, WellFoundedInduction, TLAPS

\* No entry was inserted with an expiration beyond the one an insertion would
\* get now: the clock is monotonic and ttl_msec is a constant.
ExpiresWithinTtl == \A a \in Live : entries[a].expires <= now + Ttl

\* While the core is asked, no entry has the request it is asked about.
MissedIsAbsent == \A a \in Live : entries[a].request # missed

\* The inductive invariant.  ExpiresWithinTtl is what keeps the bound of
\* next_expiration_time when an entry joins others, MissedIsAbsent what keeps
\* the keys unique when the exchange ends.
CacheInv ==
    /\ TypeOK
    /\ ListOrder
    /\ KeysUnique
    /\ NextExpirationIsBound
    /\ ExpiresWithinTtl
    /\ MissedIsAbsent

-----------------------------------------------------------------------------
(* Sizes are integers. *)

\* Sizes are counted as sets: w[a] numbers for each a in A.
Stack(w, A) == UNION {{a} \X (1 .. w[a]) : a \in A}

\* Finitely many sizes add up to a number.
LEMMA StackFinite ==
    ASSUME NEW D, IsFiniteSet(D), NEW w \in [D -> Nat], NEW A \in SUBSET D
    PROVE  IsFiniteSet(Stack(w, A)) /\ Cardinality(Stack(w, A)) \in Nat
PROOF
<1> DEFINE F(a) == {a} \X (1 .. w[a])
           S == {F(a) : a \in A}
           f == [a \in A |-> F(a)]
<1>1. IsFiniteSet(A)
  BY FS_Subset
<1>2. f \in Surjection(A, S)
  BY DEF Surjection
<1>3. IsFiniteSet(S)
  BY <1>1, <1>2, FS_Surjection
<1>4. ASSUME NEW a \in A PROVE IsFiniteSet(F(a))
  <2>1. w[a] \in Nat
    OBVIOUS
  <2>2. IsFiniteSet(1 .. w[a])
    BY <2>1, FS_Interval
  <2>3. IsFiniteSet({a})
    BY FS_Singleton
  <2> QED
    BY <2>2, <2>3, FS_Product
<1>5. \A T \in S : IsFiniteSet(T)
  BY <1>4
<1>6. IsFiniteSet(UNION S)
  BY <1>3, <1>5, FS_UNION
<1>7. IsFiniteSet(Stack(w, A))
  BY <1>6 DEF Stack
<1> QED
  BY <1>7, FS_CardinalityType

\* The sum over a set is the sum over a part and that over the rest.
LEMMA StackSplit ==
    ASSUME NEW D, IsFiniteSet(D), NEW w \in [D -> Nat], NEW A \in SUBSET D,
           NEW B \in SUBSET A
    PROVE  Cardinality(Stack(w, A))
             = Cardinality(Stack(w, B)) + Cardinality(Stack(w, A \ B))
PROOF
<1> DEFINE X == Stack(w, B)
           Y == Stack(w, A \ B)
<1>1. Stack(w, A) = X \cup Y
  BY DEF Stack
<1>2. X \cap Y = {}
  BY DEF Stack
<1>3. /\ IsFiniteSet(X) /\ Cardinality(X) \in Nat
      /\ IsFiniteSet(Y) /\ Cardinality(Y) \in Nat
  <2>1. B \in SUBSET D /\ A \ B \in SUBSET D
    OBVIOUS
  <2> QED
    BY <2>1, StackFinite
<1> HIDE DEF X, Y
<1>4. Cardinality(X \cup Y) = Cardinality(X) + Cardinality(Y) - Cardinality(X \cap Y)
  BY <1>3, FS_Union
<1>5. Cardinality(X \cap Y) = 0
  BY <1>2, FS_EmptySet
<1>6. Cardinality(X \cup Y) = Cardinality(X) + Cardinality(Y)
  BY <1>3, <1>4, <1>5
<1> QED
  BY <1>1, <1>6 DEF X, Y

\* The sum of one more is larger by that one.
LEMMA StackAdd ==
    ASSUME NEW D, IsFiniteSet(D), NEW w \in [D -> Nat], NEW A \in SUBSET D,
           NEW a, a \notin A, NEW n \in Nat
    PROVE  Cardinality(Stack(w, A) \cup ({a} \X (1 .. n)))
             = Cardinality(Stack(w, A)) + n
PROOF
<1> DEFINE X == Stack(w, A)
           Y == {a} \X (1 .. n)
<1>1. X \cap Y = {}
  BY DEF Stack
<1>2. IsFiniteSet(X) /\ Cardinality(X) \in Nat
  BY StackFinite
<1>3. IsFiniteSet(Y) /\ Cardinality(Y) = n
  <2>1. IsFiniteSet(1 .. n) /\ Cardinality(1 .. n) = n
    BY FS_Interval
  <2>2. IsFiniteSet({a}) /\ Cardinality({a}) = 1
    BY FS_Singleton
  <2>3. IsFiniteSet(Y) /\ Cardinality(Y) = 1 * n
    BY <2>1, <2>2, FS_Product
  <2> QED
    BY <2>3
<1> HIDE DEF X, Y
<1>4. Cardinality(X \cup Y) = Cardinality(X) + Cardinality(Y) - Cardinality(X \cap Y)
  BY <1>2, <1>3, FS_Union
<1>5. Cardinality(X \cap Y) = 0
  BY <1>1, FS_EmptySet
<1>6. Cardinality(X \cup Y) = Cardinality(X) + n
  BY <1>2, <1>3, <1>4, <1>5
<1> QED
  BY <1>6 DEF X, Y

\* What the removal of each entry subtracts.
Removals == [a \in Live |-> RemovedSize(entries[a])]

\* It is a size; and Bytes adds up the sizes.
LEMMA RemovalsAreSizes ==
    ASSUME TypeOK
    PROVE  /\ IsFiniteSet(Live)
           /\ Removals \in [Live -> Nat]
           /\ \A A \in SUBSET Live : Bytes(A) = Stack(Removals, A)
PROOF
<1>1. IsFiniteSet(Live)
  BY DEF TypeOK
<1>2. ASSUME NEW a \in Live PROVE RemovedSize(entries[a]) \in Nat
  <2>1. entries[a] \in Entry
    BY DEF TypeOK
  <2> QED
    BY <2>1, SizeAssumption DEF RemovedSize, AccountedSize, Entry
<1>3. Removals \in [Live -> Nat]
  BY <1>2 DEF Removals
<1>4. ASSUME NEW A \in SUBSET Live PROVE Bytes(A) = Stack(Removals, A)
  <2>1. \A a \in A : Removals[a] = RemovedSize(entries[a])
    BY DEF Removals
  <2> QED
    BY <2>1 DEF Bytes, Stack
<1> QED
  BY <1>1, <1>3, <1>4

\* The bytes of finitely many entries are finitely many.
LEMMA BytesFinite ==
    ASSUME TypeOK, NEW A \in SUBSET Live
    PROVE  IsFiniteSet(Bytes(A)) /\ Cardinality(Bytes(A)) \in Nat
PROOF
  BY RemovalsAreSizes, StackFinite

\* cache->size stays a value of size_t.
LEMMA SizeWithoutType ==
    ASSUME TypeOK, NEW A \in SUBSET Live
    PROVE  SizeWithout(A) \in 0 .. SizeRange - 1
PROOF
<1>1. Cardinality(Bytes(A)) \in Nat
  BY BytesFinite
<1>2. SizeRange \in Nat /\ SizeRange > 0
  BY SizeAssumption
<1> DEFINE d == size - Cardinality(Bytes(A))
<1>3. d \in Int
  BY <1>1 DEF TypeOK
<1>4. d % SizeRange \in 0 .. SizeRange - 1
  <2> HIDE DEF d
  <2> QED BY <1>2, <1>3
<1> QED
  BY <1>4 DEF SizeWithout

-----------------------------------------------------------------------------
(* The list under removals and insertions. *)

\* Freeing entries keeps the order, the keys and both bounds on expirations.
LEMMA RemovalKeepsList ==
    ASSUME CacheInv, NEW kept \in SUBSET Live,
           entries' = Keep(kept), newer' = newer \cap (kept \X kept)
    PROVE  /\ Live' = kept
           /\ Live' \subseteq Addr /\ IsFiniteSet(Live')
           /\ entries' \in [Live' -> Entry]
           /\ \A a \in Live' : entries'[a] = entries[a]
           /\ newer' \subseteq Live' \X Live'
           /\ ListOrder'
           /\ KeysUnique'
PROOF
<1>1. Live' = kept
  BY DEF Live, Keep
<1>2. \A a \in kept : entries'[a] = entries[a]
  BY DEF Keep
<1>3. IsFiniteSet(kept)
  BY FS_Subset DEF CacheInv, TypeOK
<1>4. entries' \in [kept -> Entry]
  BY DEF CacheInv, TypeOK, Keep
<1>5. ListOrder'
  BY <1>1 DEF CacheInv, ListOrder
<1>6. KeysUnique'
  BY <1>1, <1>2 DEF CacheInv, KeysUnique
<1> QED
  BY <1>1, <1>2, <1>3, <1>4, <1>5, <1>6 DEF CacheInv, TypeOK

\* Putting an entry at the head of the others yields an order again.
LEMMA HeadKeepsOrder ==
    ASSUME CacheInv, NEW A \in SUBSET Live, NEW e, e \notin A,
           Live' = A \cup {e}, newer' = AtHead(e, A)
    PROVE  newer' \subseteq Live' \X Live' /\ ListOrder'
PROOF
<1>1. newer' = (newer \cap (A \X A)) \cup ({e} \X A)
  BY DEF AtHead
<1>2. newer' \subseteq Live' \X Live'
  BY <1>1
<1>3. \A a \in Live' : <<a, a>> \notin newer'
  BY <1>1 DEF CacheInv, ListOrder
<1>4. \A a, b \in Live' : a # b => <<a, b>> \in newer' \/ <<b, a>> \in newer'
  BY <1>1 DEF CacheInv, ListOrder
<1>5. \A a, b, c \in Live' :
         <<a, b>> \in newer' /\ <<b, c>> \in newer' => <<a, c>> \in newer'
  BY <1>1 DEF CacheInv, ListOrder
<1> QED
  BY <1>2, <1>3, <1>4, <1>5 DEF ListOrder

-----------------------------------------------------------------------------
(* The invariant. *)

\* An empty cache satisfies the invariant.
LEMMA InitCacheInv == Init => CacheInv
PROOF
<1> SUFFICES ASSUME Init PROVE CacheInv
  OBVIOUS
<1>1. Live = {}
  BY DEF Init, Live
<1>2. IsFiniteSet(Live)
  BY <1>1, FS_EmptySet
<1>3. entries \in [Live -> Entry]
  BY <1>1 DEF Init
<1>4. TypeOK
  BY <1>1, <1>2, <1>3, TimeAssumption DEF Init, TypeOK
<1> QED
  BY <1>1, <1>4 DEF CacheInv, ListOrder, KeysUnique, NextExpirationIsBound,
                    ExpiresWithinTtl, MissedIsAbsent

\* A hit keeps the invariant: it frees expired entries and moves one to the head.
LEMMA LookupHitKeepsInv ==
    ASSUME CacheInv, NEW q \in Request, LookupHit(q)
    PROVE  CacheInv'
PROOF
<1>1. PICK e \in Matches(q) :
         LET kept == Live \ {a \in Newer(e) : Expired(a)} IN
         /\ Newer(e) \cap Matches(q) = {}
         /\ entries' = Keep(kept)
         /\ newer' = AtHead(e, kept \ {e})
         /\ size' = SizeWithout(Live \ kept)
         /\ answer' \in {[request |-> q, response |-> entries[e].response,
                          cached |-> TRUE], NoAnswer}
  BY DEF LookupHit
<1> DEFINE kept == Live \ {a \in Newer(e) : Expired(a)}
<1>2. e \in Live /\ e \in kept
  BY DEF Matches
<1>3. kept \in SUBSET Live /\ Live \ kept \in SUBSET Live
  OBVIOUS
<1>4. entries' = Keep(kept) /\ newer' = AtHead(e, kept \ {e})
  BY <1>1
<1>5. size' = SizeWithout(Live \ kept) /\ answer' \in Answer \cup {NoAnswer}
  <2>1. entries[e] \in Entry
    BY <1>2 DEF CacheInv, TypeOK
  <2>2. [request |-> q, response |-> entries[e].response, cached |-> TRUE] \in Answer
    BY <2>1 DEF Answer, Entry
  <2>3. size' = SizeWithout(Live \ kept)
    BY <1>1
  <2> QED
    BY <1>1, <2>2, <2>3
<1> HIDE DEF kept
<1>6. Live' = kept
  BY <1>4 DEF Live, Keep
<1>7. \A a \in kept : entries'[a] = entries[a]
  BY <1>4 DEF Keep
<1>8. newer' \subseteq Live' \X Live' /\ ListOrder'
  <2>1. Live' = (kept \ {e}) \cup {e} /\ kept \ {e} \in SUBSET Live
    BY <1>2, <1>3, <1>6
  <2> QED
    BY <1>4, <2>1, HeadKeepsOrder
<1>3a. UNCHANGED <<now, nextExpiration, missed>>
  BY DEF LookupHit
<1>10. size' \in Int
  <2>1. SizeWithout(Live \ kept) \in 0 .. SizeRange - 1
    BY <1>3, SizeWithoutType DEF CacheInv
  <2> QED
    BY <1>5, <2>1, SizeAssumption
<1>11. TypeOK'
  <2>1. IsFiniteSet(kept)
    BY <1>3, FS_Subset DEF CacheInv, TypeOK
  <2>2. entries' \in [kept -> Entry]
    BY <1>3, <1>4 DEF CacheInv, TypeOK, Keep
  <2> QED
    BY <1>3, <1>5, <1>6, <1>8, <1>3a, <1>10, <2>1, <2>2 DEF CacheInv, TypeOK
<1>12. KeysUnique' /\ NextExpirationIsBound' /\ ExpiresWithinTtl' /\ MissedIsAbsent'
  BY <1>3, <1>6, <1>7, <1>3a DEF CacheInv, KeysUnique, NextExpirationIsBound,
                               ExpiresWithinTtl, MissedIsAbsent
<1> QED
  BY <1>8, <1>11, <1>12 DEF CacheInv

\* A miss keeps it, and frees every entry of the request it waits for.
LEMMA LookupMissKeepsInv ==
    ASSUME CacheInv, NEW q \in Request, LookupMiss(q)
    PROVE  CacheInv'
PROOF
<1> DEFINE kept == {a \in Live : ~Expired(a)}
<1>1. kept \in SUBSET Live /\ Live \ kept \in SUBSET Live
  OBVIOUS
<1>2. /\ entries' = Keep(kept)
      /\ newer' = newer \cap (kept \X kept)
      /\ size' = SizeWithout(Live \ kept)
      /\ missed' = q
      /\ UNCHANGED <<now, nextExpiration, answer>>
  BY DEF LookupMiss
<1>3. \A a \in kept : entries[a].request # q
  BY DEF LookupMiss, Matches
<1> HIDE DEF kept
<1>4. /\ Live' = kept
      /\ Live' \subseteq Addr /\ IsFiniteSet(Live')
      /\ entries' \in [Live' -> Entry]
      /\ \A a \in Live' : entries'[a] = entries[a]
      /\ newer' \subseteq Live' \X Live'
      /\ ListOrder'
      /\ KeysUnique'
  BY <1>1, <1>2, RemovalKeepsList
<1>5. size' \in Int
  <2>1. SizeWithout(Live \ kept) \in 0 .. SizeRange - 1
    BY <1>1, SizeWithoutType DEF CacheInv
  <2> QED
    BY <1>2, <2>1, SizeAssumption
<1>6. TypeOK'
  BY <1>2, <1>4, <1>5 DEF CacheInv, TypeOK
<1>7. NextExpirationIsBound' /\ ExpiresWithinTtl'
  BY <1>1, <1>2, <1>4 DEF CacheInv, NextExpirationIsBound, ExpiresWithinTtl
<1>8. MissedIsAbsent'
  BY <1>2, <1>3, <1>4 DEF MissedIsAbsent
<1> QED
  BY <1>4, <1>6, <1>7, <1>8 DEF CacheInv

\* So does an insertion: the request has no entry, and the new expiration is the
\* latest of all, so a next_expiration_time left as it was is still a bound.
LEMMA ReceiveCachedKeepsInv ==
    ASSUME CacheInv, NEW r \in Response, ReceiveCached(r)
    PROVE  CacheInv'
PROOF
<1> DEFINE kept == Live \ Evicted(Need(r))
           e == [request |-> missed, response |-> r, expires |-> now + Ttl]
<1>1. kept \in SUBSET Live /\ Live \ kept \in SUBSET Live
  OBVIOUS
<1>2. PICK a \in Addr \ kept :
         /\ entries' = [b \in kept \cup {a} |-> IF b = a THEN e ELSE entries[b]]
         /\ newer' = AtHead(a, kept)
         /\ size' = (SizeWithout(Live \ kept) + Need(r)) % SizeRange
         /\ nextExpiration' = IF kept = {} THEN e.expires ELSE nextExpiration
  BY DEF ReceiveCached
<1>3. answer' = Fresh(r) /\ missed' = NoRequest /\ now' = now /\ missed # NoRequest
  BY DEF ReceiveCached, Idle
<1>4. missed \in Request /\ e \in Entry /\ e.expires = now + Ttl /\ e.request = missed
  BY <1>3, TimeAssumption DEF CacheInv, TypeOK, Entry
<1> HIDE DEF kept, e
<1>5. /\ Live' = kept \cup {a}
      /\ entries'[a] = e
      /\ \A b \in kept : entries'[b] = entries[b]
  BY <1>2 DEF Live
<1>6. newer' \subseteq Live' \X Live' /\ ListOrder'
  BY <1>1, <1>2, <1>5, HeadKeepsOrder
<1>7. size' \in Int
  <2>1. SizeWithout(Live \ kept) \in 0 .. SizeRange - 1
    BY <1>1, SizeWithoutType DEF CacheInv
  <2>2. Need(r) \in Nat
    BY <1>4, SizeAssumption DEF Need, AccountedSize
  <2> QED
    BY <1>2, <2>1, <2>2, SizeAssumption
<1>8. nextExpiration' \in Int
  BY <1>2, <1>4, TimeAssumption DEF CacheInv, TypeOK
<1>3a. entries' \in [Live' -> Entry]
  <2>1. \A b \in kept : entries[b] \in Entry
    BY <1>1 DEF CacheInv, TypeOK
  <2> QED
    BY <1>2, <1>4, <1>5, <2>1
<1>10. Live' \subseteq Addr /\ IsFiniteSet(Live')
  <2>1. IsFiniteSet(kept)
    BY <1>1, FS_Subset DEF CacheInv, TypeOK
  <2> QED
    BY <1>1, <1>5, <2>1, FS_AddElement DEF CacheInv, TypeOK
<1>11. answer' \in Answer
  BY <1>3, <1>4 DEF Fresh, Answer
<1>12. TypeOK'
  BY <1>3, <1>6, <1>7, <1>8, <1>3a, <1>10, <1>11 DEF CacheInv, TypeOK
<1>13. KeysUnique'
  <2>1. \A b \in kept : entries[b].request # missed
    BY <1>1 DEF CacheInv, MissedIsAbsent
  <2> QED
    BY <1>1, <1>4, <1>5, <2>1 DEF CacheInv, KeysUnique
<1>14. NextExpirationIsBound'
  <2>1. CASE kept = {}
    BY <1>2, <1>4, <1>5, <2>1, TimeAssumption DEF NextExpirationIsBound, CacheInv, TypeOK
  <2>2. CASE kept # {}
    <3>1. nextExpiration' = nextExpiration
      BY <1>2, <2>2
    <3>2. \A b \in kept : nextExpiration <= entries[b].expires
      BY <1>1 DEF CacheInv, NextExpirationIsBound
    <3>3. PICK b \in kept : TRUE
      BY <2>2
    <3>4. entries[b].expires \in Int /\ entries[b].expires <= now + Ttl
      BY <1>1, <3>3 DEF CacheInv, ExpiresWithinTtl, TypeOK, Entry
    <3>5. nextExpiration <= e.expires
      BY <1>4, <3>2, <3>4, TimeAssumption DEF CacheInv, TypeOK
    <3> QED
      BY <1>5, <3>1, <3>2, <3>5 DEF NextExpirationIsBound
  <2> QED
    BY <2>1, <2>2
<1>15. ExpiresWithinTtl'
  <2>1. \A b \in kept : entries[b].expires <= now + Ttl
    BY <1>1 DEF CacheInv, ExpiresWithinTtl
  <2> QED
    BY <1>3, <1>4, <1>5, <2>1, TimeAssumption DEF ExpiresWithinTtl, CacheInv, TypeOK
<1>16. MissedIsAbsent'
  BY <1>3, <1>3a, ValueAssumption DEF MissedIsAbsent, Entry
<1> QED
  BY <1>6, <1>12, <1>13, <1>14, <1>15, <1>16 DEF CacheInv

\* So does an insertion that evicts and then fails to allocate.
LEMMA ReceiveUnstoredKeepsInv ==
    ASSUME CacheInv, NEW r \in Response, ReceiveUnstored(r)
    PROVE  CacheInv'
PROOF
<1> DEFINE kept == Live \ Evicted(Need(r))
<1>1. kept \in SUBSET Live /\ Live \ kept \in SUBSET Live
  OBVIOUS
<1>2. /\ entries' = Keep(kept)
      /\ newer' = newer \cap (kept \X kept)
      /\ size' = SizeWithout(Live \ kept)
      /\ answer' = Fresh(r)
      /\ missed' = NoRequest
      /\ missed # NoRequest
      /\ UNCHANGED <<now, nextExpiration>>
  BY DEF ReceiveUnstored, Idle
<1> HIDE DEF kept
<1>3. /\ Live' = kept
      /\ Live' \subseteq Addr /\ IsFiniteSet(Live')
      /\ entries' \in [Live' -> Entry]
      /\ \A a \in Live' : entries'[a] = entries[a]
      /\ newer' \subseteq Live' \X Live'
      /\ ListOrder'
      /\ KeysUnique'
  BY <1>1, <1>2, RemovalKeepsList
<1>4. size' \in Int
  <2>1. SizeWithout(Live \ kept) \in 0 .. SizeRange - 1
    BY <1>1, SizeWithoutType DEF CacheInv
  <2> QED
    BY <1>2, <2>1, SizeAssumption
<1>5. answer' \in Answer
  BY <1>2 DEF Fresh, Answer, CacheInv, TypeOK
<1>6. TypeOK'
  BY <1>2, <1>3, <1>4, <1>5 DEF CacheInv, TypeOK
<1>7. NextExpirationIsBound' /\ ExpiresWithinTtl'
  BY <1>1, <1>2, <1>3 DEF CacheInv, NextExpirationIsBound, ExpiresWithinTtl
<1>8. MissedIsAbsent'
  BY <1>2, <1>3, ValueAssumption DEF MissedIsAbsent, Entry
<1> QED
  BY <1>3, <1>6, <1>7, <1>8 DEF CacheInv

\* The ends of an exchange that leave the cache alone.
LEMMA ReceiveKeepsInv ==
    ASSUME CacheInv,
           (\E r \in Response : ReceiveUncached(r)) \/ ReceiveNothing
    PROVE  CacheInv'
PROOF
<1>1. /\ UNCHANGED <<now, entries, newer, size, nextExpiration>>
      /\ missed' = NoRequest
  BY DEF ReceiveUncached, ReceiveNothing, cacheVars
<1>2. answer' \in Answer \cup {NoAnswer}
  <2>1. ASSUME NEW r \in Response, ReceiveUncached(r) PROVE answer' \in Answer
    <3>1. missed \in Request
      BY <2>1 DEF ReceiveUncached, Idle, CacheInv, TypeOK
    <3> QED
      BY <2>1, <3>1 DEF ReceiveUncached, Fresh, Answer
  <2>2. ReceiveNothing => answer' = NoAnswer
    BY DEF ReceiveNothing
  <2> QED
    BY <2>1, <2>2
<1>3. Live' = Live
  BY <1>1 DEF Live
<1>4. TypeOK'
  BY <1>1, <1>2, <1>3 DEF CacheInv, TypeOK
<1>5. MissedIsAbsent'
  BY <1>1, <1>3, ValueAssumption DEF MissedIsAbsent, CacheInv, TypeOK, Entry
<1> QED
  BY <1>1, <1>3, <1>4, <1>5 DEF CacheInv, ListOrder, KeysUnique,
                               NextExpirationIsBound, ExpiresWithinTtl

\* So does the removal of every entry.
LEMMA ClearAllKeepsInv ==
    ASSUME CacheInv, ClearAll
    PROVE  CacheInv'
PROOF
<1>1. /\ entries' = Keep({}) /\ newer' = {} /\ size' = SizeWithout(Live)
      /\ nextExpiration' = TimeMax /\ UNCHANGED <<now, missed, answer>>
  BY DEF ClearAll
<1>2. Live' = {}
  BY <1>1 DEF Live, Keep
<1>3. SizeWithout(Live) \in 0 .. SizeRange - 1
  BY SizeWithoutType DEF CacheInv
<1>4. size' \in Int
  BY <1>1, <1>3, SizeAssumption
<1>5. entries' \in [{} -> Entry]
  BY <1>1 DEF Keep
<1>6. TypeOK'
  BY <1>1, <1>2, <1>4, <1>5, TimeAssumption, FS_EmptySet DEF CacheInv, TypeOK
<1> QED
  BY <1>2, <1>6 DEF CacheInv, ListOrder, KeysUnique, NextExpirationIsBound,
                    ExpiresWithinTtl, MissedIsAbsent

\* So does a clear of expired entries, which may recompute next_expiration_time.
LEMMA ClearExpiredKeepsInv ==
    ASSUME CacheInv, ClearExpired
    PROVE  CacheInv'
PROOF
<1> DEFINE kept == {a \in Live : ~Expired(a)}
           times == {TimeMax} \cup {entries[a].expires : a \in kept}
<1>1. UNCHANGED <<now, missed, answer>>
  BY DEF ClearExpired
<1>2. CASE ~(nextExpiration < now)
  <2>1. UNCHANGED <<entries, newer, size, nextExpiration>>
    BY <1>2 DEF ClearExpired, cacheVars
  <2>2. Live' = Live
    BY <2>1 DEF Live
  <2> QED
    BY <1>1, <2>1, <2>2 DEF CacheInv, TypeOK, ListOrder, KeysUnique,
          NextExpirationIsBound, ExpiresWithinTtl, MissedIsAbsent
<1>3. CASE nextExpiration < now
  <2>1. /\ entries' = Keep(kept)
        /\ newer' = newer \cap (kept \X kept)
        /\ size' = SizeWithout(Live \ kept)
        /\ nextExpiration' \in {t \in times : \A u \in times : t <= u}
    BY <1>3 DEF ClearExpired
  <2>2. kept \in SUBSET Live /\ Live \ kept \in SUBSET Live
    OBVIOUS
  <2>3. \A a \in kept : entries[a].expires \in Int
    BY DEF CacheInv, TypeOK, Entry
  <2>4. nextExpiration' \in Int
    BY <2>1, <2>3, TimeAssumption
  <2>5. \A a \in kept : nextExpiration' <= entries[a].expires
    BY <2>1
  <2> HIDE DEF kept, times
  <2>6. /\ Live' = kept
        /\ Live' \subseteq Addr /\ IsFiniteSet(Live')
        /\ entries' \in [Live' -> Entry]
        /\ \A a \in Live' : entries'[a] = entries[a]
        /\ newer' \subseteq Live' \X Live'
        /\ ListOrder'
        /\ KeysUnique'
    BY <2>1, <2>2, RemovalKeepsList
  <2>7. size' \in Int
    <3>1. SizeWithout(Live \ kept) \in 0 .. SizeRange - 1
      BY <2>2, SizeWithoutType DEF CacheInv
    <3> QED
      BY <2>1, <3>1, SizeAssumption
  <2>8. TypeOK'
    BY <1>1, <2>4, <2>6, <2>7 DEF CacheInv, TypeOK
  <2>9. NextExpirationIsBound'
    BY <2>5, <2>6 DEF NextExpirationIsBound
  <2>10. ExpiresWithinTtl' /\ MissedIsAbsent'
    BY <1>1, <2>2, <2>6 DEF CacheInv, ExpiresWithinTtl, MissedIsAbsent
  <2> QED
    BY <2>6, <2>8, <2>9, <2>10 DEF CacheInv
<1> QED
  BY <1>2, <1>3

\* So does the passing of time.
LEMMA TickKeepsInv ==
    ASSUME CacheInv, Tick \/ UNCHANGED vars
    PROVE  CacheInv'
PROOF
<1>1. /\ UNCHANGED <<entries, newer, size, nextExpiration, missed, answer>>
      /\ now' = now + 1 \/ now' = now
  BY DEF Tick, vars, cacheVars
<1>2. Live' = Live
  BY <1>1 DEF Live
<1>3. TypeOK'
  BY <1>1, <1>2 DEF CacheInv, TypeOK
<1>4. ExpiresWithinTtl'
  BY <1>1, <1>2, TimeAssumption DEF CacheInv, ExpiresWithinTtl, TypeOK, Entry
<1> QED
  BY <1>1, <1>2, <1>3, <1>4 DEF CacheInv, ListOrder, KeysUnique,
                               NextExpirationIsBound, MissedIsAbsent

\* Every step of the cache keeps the invariant.
LEMMA NextKeepsInv == CacheInv /\ [Next]_vars => CacheInv'
PROOF
<1> SUFFICES ASSUME CacheInv, [Next]_vars PROVE CacheInv'
  OBVIOUS
<1>1. CASE Lookup
  BY <1>1, LookupHitKeepsInv, LookupMissKeepsInv DEF Lookup
<1>2. CASE Receive
  BY <1>2, ReceiveCachedKeepsInv, ReceiveUnstoredKeepsInv, ReceiveKeepsInv
     DEF Receive
<1>3. CASE Clear
  BY <1>3, ClearAllKeepsInv, ClearExpiredKeepsInv DEF Clear
<1>4. CASE Tick \/ UNCHANGED vars
  BY <1>4, TickKeepsInv
<1> QED
  BY <1>1, <1>2, <1>3, <1>4 DEF Next

\* The invariant holds in every reachable state: the types, the list being one
\* chain, at most one entry for a request, and next_expiration_time bounding
\* every expiration.
THEOREM CacheInvariance == Spec => []CacheInv
PROOF
<1> QED
  BY InitCacheInv, NextKeepsInv, PTL DEF Spec

\* The cache never holds two entries for one request, for any requests, sizes
\* and time to live.
THEOREM CacheKeysUnique == Spec => []KeysUnique
PROOF
<1>1. CacheInv => KeysUnique
  BY DEF CacheInv
<1> QED
  BY CacheInvariance, <1>1, PTL

\* next_expiration_time is never later than any expiration.
THEOREM CacheNextExpiration == Spec => []NextExpirationIsBound
PROOF
<1>1. CacheInv => NextExpirationIsBound
  BY DEF CacheInv
<1> QED
  BY CacheInvariance, <1>1, PTL

-----------------------------------------------------------------------------
(* The bound on the size, where a copy is as large as its original. *)

\* The condition under which cache->size is exact: it holds for the documents
\* that fit the static block of a response, whose dynamic size is 0, and fails
\* for larger ones (the run CoreCacheOverrun shows what then happens).
CopiesKeepSize == \A r \in Response : CopiedSize[r] = ParsedSize[r]

SizeInv == CacheInv /\ SizeIsAccounted /\ CacheWithinMaxSize

\* The bytes of the entries are those of a part and those of the rest.
LEMMA BytesSplit ==
    ASSUME TypeOK, NEW A \in SUBSET Live
    PROVE  Cardinality(Bytes(Live))
             = Cardinality(Bytes(A)) + Cardinality(Bytes(Live \ A))
PROOF
<1>1. Live \ A \in SUBSET Live /\ Live \in SUBSET Live
  OBVIOUS
<1> QED
  BY <1>1, RemovalsAreSizes, StackSplit

\* With exact accounting, what a removal leaves in cache->size is the size of
\* the entries that stay.
LEMMA SizeAfterRemoval ==
    ASSUME SizeInv, NEW kept \in SUBSET Live
    PROVE  /\ SizeWithout(Live \ kept) = Cardinality(Bytes(kept))
           /\ RoomWithout(Live \ kept) = MaxSize - Cardinality(Bytes(kept))
           /\ Cardinality(Bytes(kept)) \in 0 .. MaxSize
PROOF
<1> DEFINE c == Cardinality(Bytes(kept))
           g == Cardinality(Bytes(Live \ kept))
           w == Cardinality(Bytes(Live))
<1>1. c \in Nat /\ g \in Nat /\ w \in Nat
  BY BytesFinite DEF SizeInv, CacheInv
<1>2. w = c + g
  BY BytesSplit DEF SizeInv, CacheInv
<1>3. size = w /\ w <= MaxSize
  BY DEF SizeInv, SizeIsAccounted, CacheWithinMaxSize
<1>4. MaxSize \in Nat /\ SizeRange \in Nat /\ MaxSize < SizeRange
  BY SizeAssumption
<1>5. SizeWithout(Live \ kept) = (size - g) % SizeRange
  BY DEF SizeWithout
<1>6. RoomWithout(Live \ kept) = (MaxSize - SizeWithout(Live \ kept)) % SizeRange
  BY DEF RoomWithout
<1> HIDE DEF c, g, w
<1>7. size - g = c /\ c \in 0 .. MaxSize
  BY <1>1, <1>2, <1>3, <1>4
<1>8. c % SizeRange = c /\ (MaxSize - c) % SizeRange = MaxSize - c
  BY <1>4, <1>7
<1> QED
  BY <1>5, <1>6, <1>7, <1>8 DEF c

\* The eviction loop ends at the end of the list, or at an entry for which there
\* is room once all the older ones, and no others, are removed.
LEMMA EvictionStops ==
    ASSUME CacheInv, NEW need \in Nat
    PROVE  \/ Evicted(need) = Live
           \/ \E b \in Live : /\ Evicted(need) = Older(b)
                              /\ RoomWithout(Older(b)) >= need
PROOF
<1> DEFINE gone == Evicted(need)
           Fits == {b \in Live : RoomWithout(Older(b)) >= need}
           N == {Cardinality(Older(b)) : b \in Fits}
<1>1. gone \subseteq Live
  BY DEF Evicted
<1>2. \A b \in Live : Older(b) \in SUBSET Live /\ IsFiniteSet(Older(b))
                      /\ Cardinality(Older(b)) \in Nat
  BY FS_Subset, FS_CardinalityType DEF Older, CacheInv, TypeOK
<1>3. \A b \in Live : RoomWithout(Older(b)) \in Int
  <2> TAKE b \in Live
  <2> DEFINE w == SizeWithout(Older(b))
  <2>1. w \in 0 .. SizeRange - 1
    BY <1>2, SizeWithoutType DEF CacheInv
  <2>2. MaxSize \in Int /\ SizeRange \in Nat /\ SizeRange > 0
    BY SizeAssumption
  <2> HIDE DEF w
  <2>3. (MaxSize - w) % SizeRange \in Int
    BY <2>1, <2>2
  <2> QED
    BY <2>3 DEF RoomWithout, w
<1>4. \A b \in Live : b \notin Fits <=> RoomWithout(Older(b)) < need
  <2> SUFFICES ASSUME NEW b \in Live
               PROVE  b \notin Fits <=> RoomWithout(Older(b)) < need
    OBVIOUS
  <2> DEFINE room == RoomWithout(Older(b))
  <2>1. b \notin Fits <=> ~(room >= need)
    OBVIOUS
  <2>2. room \in Int
    BY <1>3
  <2> HIDE DEF room, Fits
  <2>3. b \notin Fits <=> room < need
    BY <2>1, <2>2
  <2> QED
    BY <2>3 DEF room
<1>5. CASE Fits = {}
  <2>1. \A b \in Live : RoomWithout(Older(b)) < need
    BY <1>5, <1>4
  <2>2. gone = Live
    BY <1>1, <2>1 DEF Evicted, Older
  <2> QED
    BY <2>2
<1>6. CASE Fits # {}
  <2>1. N # {} /\ N \subseteq Nat
    BY <1>2, <1>6
  <2>2. PICK n \in N : \A m \in N : ~(<<m, n>> \in OpToRel(<, Nat))
    <3> HIDE DEF N
    <3> QED
      BY <2>1, NatLessThanWellFounded, WFMin
  <2>3. PICK b \in Fits : n = Cardinality(Older(b))
    BY DEF N
  <2>4. \A d \in Older(b) : d \notin Fits
    <3> SUFFICES ASSUME NEW d \in Older(b), d \in Fits PROVE FALSE
      OBVIOUS
    <3>1. b \in Live /\ d \in Live /\ <<b, d>> \in newer
      BY <2>3 DEF Older
    <3>2. Older(d) \subseteq Older(b) /\ d \notin Older(d)
      BY <3>1 DEF Older, CacheInv, ListOrder
    <3>3. Cardinality(Older(d)) < Cardinality(Older(b))
      BY <1>2, <3>1, <3>2, FS_Subset
    <3>4. Cardinality(Older(d)) \in N /\ Cardinality(Older(d)) \in Nat
      BY <1>2, <3>1
    <3> QED
      BY <1>2, <2>2, <2>3, <3>1, <3>3, <3>4 DEF OpToRel
  <2>5. Older(b) \subseteq gone
    <3> SUFFICES ASSUME NEW c \in Older(b) PROVE c \in gone
      OBVIOUS
    <3>1. b \in Live /\ c \in Live
      BY <2>3 DEF Older
    <3>2. \A d \in Older(c) \cup {c} : d \in Older(b) /\ d \in Live
      BY <3>1 DEF Older, CacheInv, ListOrder
    <3>3. \A d \in Older(c) \cup {c} : RoomWithout(Older(d)) < need
      BY <1>4, <2>4, <3>2
    <3> QED
      BY <3>1, <3>3 DEF Evicted
  <2>6. gone \subseteq Older(b)
    <3> SUFFICES ASSUME NEW c \in gone, c \notin Older(b) PROVE FALSE
      OBVIOUS
    <3>1. b \in Live /\ c \in Live /\ ~(RoomWithout(Older(b)) < need)
      BY <1>1, <1>4, <2>3
    <3>2. b \in Older(c) \cup {c}
      BY <3>1 DEF Older, CacheInv, ListOrder
    <3> QED
      BY <3>1, <3>2 DEF Evicted
  <2> QED
    BY <2>3, <2>5, <2>6
<1> QED
  BY <1>5, <1>6

\* With exact accounting, the eviction loop leaves room for the new entry.
LEMMA EvictionMakesRoom ==
    ASSUME SizeInv, NEW need \in Nat, need <= MaxSize
    PROVE  Cardinality(Bytes(Live \ Evicted(need))) + need <= MaxSize
PROOF
<1> DEFINE gone == Evicted(need)
           c == Cardinality(Bytes(Live \ gone))
<1>1. gone = Live \/ \E b \in Live : gone = Older(b) /\ RoomWithout(gone) >= need
  BY EvictionStops DEF SizeInv
<1>2. CASE gone = Live
  <2>1. Bytes(Live \ gone) = {}
    BY <1>2 DEF Bytes
  <2>2. c = 0
    BY <2>1, FS_EmptySet
  <2> HIDE DEF c
  <2>3. c + need <= MaxSize
    BY <2>2
  <2> QED
    BY <2>3 DEF c
<1>3. CASE RoomWithout(gone) >= need
  <2>1. gone = Live \ (Live \ gone) /\ Live \ gone \in SUBSET Live
    BY DEF Evicted
  <2>2. RoomWithout(gone) = MaxSize - c /\ c \in 0 .. MaxSize
    <3> HIDE DEF gone
    <3> QED
      BY <2>1, SizeAfterRemoval
  <2> HIDE DEF c, gone
  <2>3. c + need <= MaxSize
    BY <1>3, <2>2, SizeAssumption
  <2> QED
    BY <2>3 DEF c, gone
<1> QED
  BY <1>1, <1>2, <1>3

\* Removing entries keeps the accounting exact.
LEMMA RemovalKeepsSize ==
    ASSUME SizeInv, NEW kept \in SUBSET Live,
           entries' = Keep(kept), size' = SizeWithout(Live \ kept)
    PROVE  SizeIsAccounted' /\ CacheWithinMaxSize'
PROOF
<1>1. Bytes(Live)' = Bytes(kept)
  BY DEF Bytes, Live, Keep, RemovedSize, AccountedSize
<1>2. /\ size' = Cardinality(Bytes(kept))
      /\ Cardinality(Bytes(kept)) \in 0 .. MaxSize
  BY SizeAfterRemoval
<1> QED
  BY <1>1, <1>2, SizeAssumption DEF SizeIsAccounted, CacheWithinMaxSize

\* The accounting is about the entries and cache->size alone: reordering the
\* list or a change elsewhere keeps it.
LEMMA SameEntriesKeepSize ==
    ASSUME SizeInv, UNCHANGED <<entries, size>>
    PROVE  SizeIsAccounted' /\ CacheWithinMaxSize'
PROOF
<1>1. Bytes(Live)' = Bytes(Live)
  BY DEF Bytes, Live, RemovedSize, AccountedSize
<1> QED
  BY <1>1 DEF SizeInv, SizeIsAccounted, CacheWithinMaxSize

\* The insertion charges what its removal will give back.
LEMMA InsertionKeepsSize ==
    ASSUME CopiesKeepSize, SizeInv, NEW r \in Response, ReceiveCached(r)
    PROVE  SizeIsAccounted' /\ CacheWithinMaxSize'
PROOF
<1> DEFINE need == Need(r)
           kept == Live \ Evicted(need)
           e == [request |-> missed, response |-> r, expires |-> now + Ttl]
           n == Cardinality(Bytes(kept))
<1>1. PICK a \in Addr \ kept :
         /\ entries' = [b \in kept \cup {a} |-> IF b = a THEN e ELSE entries[b]]
         /\ size' = (SizeWithout(Live \ kept) + need) % SizeRange
  BY DEF ReceiveCached
<1>2. missed \in Request
  BY DEF ReceiveCached, Idle, SizeInv, CacheInv, TypeOK
<1>3. need \in Nat /\ need <= MaxSize
  <2>1. Need(r) \in Nat
    BY <1>2, SizeAssumption DEF Need, AccountedSize
  <2> QED
    BY <2>1 DEF ReceiveCached, Cacheable
<1>4. RemovedSize(e) = need
  BY DEF CopiesKeepSize, RemovedSize, Need
<1>5. kept \in SUBSET Live
  OBVIOUS
<1>6. n + need <= MaxSize
  <2> HIDE DEF need
  <2> QED BY <1>3, EvictionMakesRoom
<1>7. SizeWithout(Live \ kept) = n /\ n \in Nat
  <2> HIDE DEF kept
  <2>1. SizeWithout(Live \ kept) = n /\ n \in 0 .. MaxSize
    BY <1>5, SizeAfterRemoval
  <2>2. MaxSize \in Int
    BY SizeAssumption
  <2> HIDE DEF n
  <2> QED
    BY <2>1, <2>2
<1> HIDE DEF need, kept, e
<1>8. Live' = kept \cup {a}
  BY <1>1 DEF Live
<1>9. Bytes(Live)' = Bytes(kept) \cup ({a} \X (1 .. need))
  <2>1. Bytes(Live)' = UNION {{b} \X (1 .. RemovedSize(entries'[b])) : b \in kept \cup {a}}
    BY <1>8 DEF Bytes, RemovedSize, AccountedSize
  <2>2. /\ RemovedSize(entries'[a]) = need
        /\ \A b \in kept : RemovedSize(entries'[b]) = RemovedSize(entries[b])
    <3>1. entries'[a] = e /\ \A b \in kept : entries'[b] = entries[b]
      BY <1>1
    <3> QED
      BY <1>4, <3>1
  <2> QED
    BY <2>1, <2>2 DEF Bytes
<1>10. Cardinality(Bytes(Live)') = n + need
  <2>1. IsFiniteSet(Live) /\ Removals \in [Live -> Nat]
        /\ Bytes(kept) = Stack(Removals, kept)
    BY <1>5, RemovalsAreSizes DEF SizeInv, CacheInv
  <2> QED
    BY <1>1, <1>3, <1>5, <1>9, <2>1, StackAdd
<1>11. size' = n + need
  <2>1. SizeRange \in Nat /\ MaxSize \in Nat /\ MaxSize < SizeRange
    BY SizeAssumption
  <2> HIDE DEF n
  <2>2. n + need \in 0 .. SizeRange - 1
    BY <1>3, <1>6, <1>7, <2>1
  <2>3. (n + need) % SizeRange = n + need
    BY <2>1, <2>2
  <2> QED
    BY <1>1, <1>7, <2>3
<1>12. SizeIsAccounted'
  BY <1>10, <1>11 DEF SizeIsAccounted
<1>13. CacheWithinMaxSize'
  BY <1>6, <1>10 DEF CacheWithinMaxSize
<1> QED
  BY <1>12, <1>13

\* With copies of the size of the original, every step keeps the accounting.
LEMMA NextKeepsSizeInv ==
    ASSUME CopiesKeepSize, SizeInv, [Next]_vars
    PROVE  SizeInv'
PROOF
<1>1. CacheInv'
  BY NextKeepsInv DEF SizeInv
<1>2. ASSUME NEW q \in Request, LookupHit(q)
      PROVE  SizeIsAccounted' /\ CacheWithinMaxSize'
  <2>1. PICK e \in Matches(q) :
           LET kept == Live \ {a \in Newer(e) : Expired(a)} IN
           entries' = Keep(kept) /\ size' = SizeWithout(Live \ kept)
    BY <1>2 DEF LookupHit
  <2> QED
    BY <2>1, RemovalKeepsSize
<1>3. ASSUME NEW q \in Request, LookupMiss(q)
      PROVE  SizeIsAccounted' /\ CacheWithinMaxSize'
  BY <1>3, RemovalKeepsSize DEF LookupMiss
<1>4. ASSUME NEW r \in Response, ReceiveUnstored(r)
      PROVE  SizeIsAccounted' /\ CacheWithinMaxSize'
  BY <1>4, RemovalKeepsSize DEF ReceiveUnstored
<1>5. ASSUME NEW r \in Response, ReceiveCached(r)
      PROVE  SizeIsAccounted' /\ CacheWithinMaxSize'
  BY <1>5, InsertionKeepsSize
<1>6. CASE \/ \E r \in Response : ReceiveUncached(r)
           \/ ReceiveNothing \/ Tick \/ UNCHANGED vars
  <2>1. UNCHANGED <<entries, size>>
    BY <1>6 DEF ReceiveUncached, ReceiveNothing, Tick, vars, cacheVars
  <2> QED
    BY <1>1, <2>1, SameEntriesKeepSize DEF SizeInv
<1>7. ASSUME ClearAll
      PROVE  SizeIsAccounted' /\ CacheWithinMaxSize'
  <2>1. {} \in SUBSET Live /\ Live = Live \ {}
    OBVIOUS
  <2> QED
    BY <1>7, <2>1, RemovalKeepsSize DEF ClearAll
<1>8. ASSUME ClearExpired
      PROVE  SizeIsAccounted' /\ CacheWithinMaxSize'
  <2>1. CASE nextExpiration < now
    BY <1>8, <2>1, RemovalKeepsSize DEF ClearExpired
  <2>2. CASE ~(nextExpiration < now)
    BY <1>8, <2>2, SameEntriesKeepSize DEF ClearExpired, cacheVars
  <2> QED
    BY <2>1, <2>2
<1> QED
  BY <1>1, <1>2, <1>3, <1>4, <1>5, <1>6, <1>7, <1>8
     DEF SizeInv, Next, Lookup, Receive, Clear

\* An empty cache is within its size.
LEMMA InitSizeInv == Init => SizeInv
PROOF
<1> SUFFICES ASSUME Init PROVE SizeInv
  OBVIOUS
<1>1. Live = {} /\ size = 0
  BY DEF Init, Live
<1>2. Bytes(Live) = {}
  BY <1>1 DEF Bytes
<1>3. Cardinality(Bytes(Live)) = 0
  BY <1>2, FS_EmptySet
<1> QED
  BY <1>1, <1>3, InitCacheInv, SizeAssumption
     DEF SizeInv, SizeIsAccounted, CacheWithinMaxSize

\* Where copies are as large as their originals, cache->size is exact and the
\* entries never take more than the size given to ndm_core_open(): the
\* eviction loop frees enough, for any list, any sizes and any max_size.
THEOREM CacheSizeBound ==
    ASSUME CopiesKeepSize
    PROVE  Spec => [](SizeIsAccounted /\ CacheWithinMaxSize)
PROOF
<1>2. SizeInv /\ [Next]_vars => SizeInv'
  BY NextKeepsSizeInv
<1>3. SizeInv => SizeIsAccounted /\ CacheWithinMaxSize
  BY DEF SizeInv
<1> QED
  BY InitSizeInv, <1>2, <1>3, PTL DEF Spec

-----------------------------------------------------------------------------
(* The cache implements ResponseCache. *)

\* What is remembered for the request of an entry is what the entry holds.
LEMMA KnownValue ==
    ASSUME NEW es,
           \A a, b \in DOMAIN es : es[a].request = es[b].request => a = b
    PROVE  /\ DOMAIN KnownIn(es) = {es[a].request : a \in DOMAIN es}
           /\ \A a \in DOMAIN es : KnownIn(es)[es[a].request] =
                 [response |-> es[a].response, expires |-> es[a].expires]
PROOF
<1>1. ASSUME NEW a \in DOMAIN es
      PROVE  (CHOOSE b \in DOMAIN es : es[b].request = es[a].request) = a
  OBVIOUS
<1> QED
  BY <1>1 DEF KnownIn

\* The request of every entry is known.
LEMMA KnownNow ==
    ASSUME KeysUnique
    PROVE  /\ DOMAIN KnownIn(entries) = {entries[a].request : a \in Live}
           /\ \A a \in Live : KnownIn(entries)[entries[a].request] =
                 [response |-> entries[a].response,
                  expires |-> entries[a].expires]
PROOF
<1> QED
  BY KnownValue DEF KeysUnique, Live

\* Freeing entries is forgetting.
LEMMA RemovalForgets ==
    ASSUME KeysUnique, KeysUnique', NEW kept \in SUBSET Live,
           Live' = kept, \A a \in kept : entries'[a] = entries[a]
    PROVE  Promise!Forgets
PROOF
<1>1. /\ DOMAIN KnownIn(entries) = {entries[a].request : a \in Live}
      /\ \A a \in Live : KnownIn(entries)[entries[a].request] =
            [response |-> entries[a].response, expires |-> entries[a].expires]
  BY KnownValue DEF KeysUnique, Live
<1>2. /\ DOMAIN KnownIn(entries') = {entries'[a].request : a \in Live'}
      /\ \A a \in Live' : KnownIn(entries')[entries'[a].request] =
            [response |-> entries'[a].response, expires |-> entries'[a].expires]
  BY KnownValue DEF KeysUnique, Live
<1>3. DOMAIN KnownIn(entries') \subseteq DOMAIN KnownIn(entries)
  BY <1>1, <1>2
<1>4. ASSUME NEW q \in DOMAIN KnownIn(entries')
      PROVE  KnownIn(entries')[q] = KnownIn(entries)[q]
  <2>1. PICK a \in kept : q = entries'[a].request
    BY <1>2
  <2>2. a \in Live /\ a \in Live' /\ entries'[a] = entries[a]
    BY <2>1
  <2>3. KnownIn(entries')[q] = [response |-> entries'[a].response,
                                expires |-> entries'[a].expires]
    BY <1>2, <2>1, <2>2
  <2>4. KnownIn(entries)[q] = [response |-> entries[a].response,
                               expires |-> entries[a].expires]
    BY <1>1, <2>1, <2>2
  <2> QED
    BY <2>2, <2>3, <2>4
<1> QED
  BY <1>3, <1>4 DEF Promise!Forgets, Promise!Known

\* So is freeing all entries outside a set of addresses.
LEMMA KeepForgets ==
    ASSUME CacheInv, CacheInv', NEW kept \in SUBSET Live, entries' = Keep(kept)
    PROVE  Promise!Forgets
PROOF
<1>1. Live' = kept /\ \A a \in kept : entries'[a] = entries[a]
  BY DEF Live, Keep
<1> QED
  BY <1>1, RemovalForgets DEF CacheInv

\* What is known depends on the entries alone.
LEMMA SameEntriesSameKnown ==
    ASSUME UNCHANGED entries
    PROVE  KnownIn(entries') = KnownIn(entries)
PROOF
<1> QED
  OBVIOUS

\* A hit serves what is remembered for the request.
LEMMA HitServes ==
    ASSUME CacheInv, CacheInv', NEW q \in Request, LookupHit(q)
    PROVE  Promise!Serve(q)
PROOF
<1>1. PICK e \in Matches(q) :
         LET kept == Live \ {a \in Newer(e) : Expired(a)} IN
         /\ entries' = Keep(kept)
         /\ answer' \in {[request |-> q, response |-> entries[e].response,
                          cached |-> TRUE], NoAnswer}
  BY DEF LookupHit
<1>2. Promise!Forgets
  BY <1>1, KeepForgets
<1>3. e \in Live /\ entries[e].request = q /\ ~(entries[e].expires < now)
  BY DEF Matches, Expired
<1>4. entries[e].expires \in Int /\ now \in Int
  BY <1>3 DEF CacheInv, TypeOK, Entry
<1>5. /\ q \in DOMAIN KnownIn(entries)
      /\ KnownIn(entries)[q] = [response |-> entries[e].response,
                            expires |-> entries[e].expires]
  BY <1>3, KnownNow DEF CacheInv
<1>6. KnownIn(entries)[q].expires >= now
  BY <1>3, <1>4, <1>5
<1>7. missed = NoRequest /\ UNCHANGED <<now, missed>>
  BY DEF LookupHit, Idle
<1>8. \/ answer' = [request |-> q, response |-> KnownIn(entries)[q].response,
                    cached |-> TRUE]
      \/ answer' = NoAnswer
  BY <1>1, <1>5
<1> QED
  BY <1>2, <1>5, <1>6, <1>7, <1>8 DEF Promise!Serve, Promise!Known

\* A miss asks: no remembered answer was usable.
LEMMA MissAsks ==
    ASSUME CacheInv, CacheInv', NEW q \in Request, LookupMiss(q)
    PROVE  Promise!Ask(q)
PROOF
<1>1. Promise!Forgets
  BY KeepForgets DEF LookupMiss
<1>2. Idle /\ missed' = q /\ UNCHANGED <<now, answer>>
  BY DEF LookupMiss
<1>3. ASSUME q \in DOMAIN KnownIn(entries) PROVE KnownIn(entries)[q].expires < now
  <2>1. PICK a \in Live : entries[a].request = q
    BY <1>3, KnownNow DEF CacheInv
  <2>2. entries[a].expires < now
    BY <2>1 DEF LookupMiss, Matches, Expired
  <2>3. KnownIn(entries)[q] = [response |-> entries[a].response,
                           expires |-> entries[a].expires]
    BY <2>1, KnownNow DEF CacheInv
  <2> QED
    BY <2>2, <2>3
<1>4. q \notin DOMAIN KnownIn(entries')
  <2>1. \A a \in Live' : entries'[a].request # q
    BY <1>2 DEF CacheInv, MissedIsAbsent
  <2>2. DOMAIN KnownIn(entries') = {entries'[a].request : a \in Live'}
    BY KnownValue DEF CacheInv, KeysUnique, Live
  <2> QED
    BY <2>1, <2>2
<1> QED
  BY <1>1, <1>2, <1>3, <1>4 DEF Promise!Ask, Promise!Known, Idle

\* An insertion learns the answer and forgets what it evicts.
LEMMA InsertionLearns ==
    ASSUME CacheInv, CacheInv', NEW r \in Response, ReceiveCached(r)
    PROVE  Promise!Learn(r)
PROOF
<1> DEFINE kept == Live \ Evicted(Need(r))
           e == [request |-> missed, response |-> r, expires |-> now + Ttl]
<1>1. PICK a \in Addr \ kept :
         entries' = [b \in kept \cup {a} |-> IF b = a THEN e ELSE entries[b]]
  BY DEF ReceiveCached
<1>2. /\ missed # NoRequest /\ missed' = NoRequest /\ now' = now
      /\ answer' = [request |-> missed, response |-> r, cached |-> FALSE]
  BY DEF ReceiveCached, Idle, Fresh
<1>3. kept \in SUBSET Live
  OBVIOUS
<1> HIDE DEF kept
<1>4. /\ Live' = kept \cup {a} /\ entries'[a] = e
      /\ \A b \in kept : entries'[b] = entries[b]
  BY <1>1 DEF Live
<1>5. /\ DOMAIN KnownIn(entries) = {entries[b].request : b \in Live}
      /\ \A b \in Live : KnownIn(entries)[entries[b].request] =
            [response |-> entries[b].response, expires |-> entries[b].expires]
  BY KnownValue DEF CacheInv, KeysUnique, Live
<1>6. /\ DOMAIN KnownIn(entries') = {entries'[b].request : b \in Live'}
      /\ \A b \in Live' : KnownIn(entries')[entries'[b].request] =
            [response |-> entries'[b].response, expires |-> entries'[b].expires]
  BY KnownValue DEF CacheInv, KeysUnique, Live
<1>7. missed \in DOMAIN KnownIn(entries')
      /\ KnownIn(entries')[missed] = [response |-> r, expires |-> now + Ttl]
  BY <1>4, <1>6
<1>8. DOMAIN KnownIn(entries') \subseteq DOMAIN KnownIn(entries) \cup {missed}
  BY <1>3, <1>4, <1>5, <1>6
<1>9. ASSUME NEW q \in DOMAIN KnownIn(entries') \ {missed}
      PROVE  KnownIn(entries')[q] = KnownIn(entries)[q]
  <2>1. PICK b \in Live' : q = entries'[b].request
    BY <1>6
  <2>2. b \in kept /\ b \in Live /\ entries'[b] = entries[b]
    BY <1>3, <1>4, <2>1
  <2>3. KnownIn(entries')[q] = [response |-> entries'[b].response,
                                expires |-> entries'[b].expires]
    BY <1>6, <2>1
  <2>4. KnownIn(entries)[q] = [response |-> entries[b].response,
                               expires |-> entries[b].expires]
    BY <1>5, <2>1, <2>2
  <2> QED
    BY <2>2, <2>3, <2>4
<1> QED
  BY <1>2, <1>7, <1>8, <1>9 DEF Promise!Learn, Promise!Known

\* Every step of the cache is a step of ResponseCache.
LEMMA StepSimulation ==
    ASSUME CacheInv, CacheInv', [Next]_vars
    PROVE  [Promise!Next]_(Promise!vars)
PROOF
<1>1. ASSUME NEW q \in Request, LookupHit(q) \/ LookupMiss(q) PROVE Promise!Next
  BY <1>1, HitServes, MissAsks DEF Promise!Next
<1>2. ASSUME NEW r \in Response, ReceiveCached(r) PROVE Promise!Next
  BY <1>2, InsertionLearns DEF Promise!Next
<1>3. ASSUME NEW r \in Response, ReceiveUnstored(r) PROVE Promise!Next
  <2>1. Promise!Forgets
    BY <1>3, KeepForgets DEF ReceiveUnstored
  <2> QED
    BY <1>3, <2>1 DEF ReceiveUnstored, Idle, Fresh, Promise!Learn, Promise!Next
<1>4. ASSUME NEW r \in Response, ReceiveUncached(r) PROVE Promise!Next
  <2>1. Live' = Live /\ entries' = entries
    BY <1>4 DEF ReceiveUncached, cacheVars, Live
  <2>2. Promise!Forgets
    BY <2>1, RemovalForgets DEF CacheInv
  <2> QED
    BY <1>4, <2>2 DEF ReceiveUncached, Idle, Fresh, Promise!Learn, Promise!Next
<1>5. ASSUME ReceiveNothing PROVE Promise!Next
  BY <1>5, SameEntriesSameKnown
     DEF ReceiveNothing, Idle, cacheVars, Promise!Fail, Promise!Next
<1>6. ASSUME Clear PROVE Promise!Next
  <2>1. PICK kept \in SUBSET Live : entries' = Keep(kept)
    <3>1. CASE ClearAll
      BY <3>1 DEF ClearAll
    <3>2. CASE ClearExpired /\ nextExpiration < now
      BY <3>2 DEF ClearExpired
    <3>3. CASE ClearExpired /\ ~(nextExpiration < now)
      <4>1. entries' = entries
        BY <3>3 DEF ClearExpired, cacheVars
      <4>2. entries = Keep(Live)
        BY DEF Keep, CacheInv, TypeOK
      <4> QED
        BY <4>1, <4>2
    <3> QED
      BY <1>6, <3>1, <3>2, <3>3 DEF Clear
  <2>2. Promise!Forgets
    BY <2>1, KeepForgets
  <2> QED
    BY <1>6, <2>2
       DEF Clear, ClearAll, ClearExpired, Promise!Forget, Promise!Next
<1>7. ASSUME Tick PROVE Promise!Next
  BY <1>7, SameEntriesSameKnown
     DEF Tick, cacheVars, Promise!Tick, Promise!Next
<1>8. ASSUME UNCHANGED vars PROVE UNCHANGED Promise!vars
  BY <1>8, SameEntriesSameKnown DEF vars, cacheVars, Promise!vars
<1> QED
  BY <1>1, <1>2, <1>3, <1>4, <1>5, <1>6, <1>7, <1>8
     DEF Next, Lookup, Receive

\* The cache keeps its promise: whatever it evicts and whenever memory runs
\* out, it answers only with the last response stored for the request and
\* within the response's time to live.
THEOREM CacheKeepsPromise == Spec => PromiseKept
PROOF
<1>1. Init => Promise!Init
  <2> SUFFICES ASSUME Init PROVE Promise!Init
    OBVIOUS
  <2>1. Live = {}
    BY DEF Init, Live
  <2>2. KnownIn(entries) = << >>
    BY <2>1 DEF KnownIn, Live
  <2> QED
    BY <2>2 DEF Init, Promise!Init
<1>2. CacheInv /\ CacheInv' /\ [Next]_vars => [Promise!Next]_(Promise!vars)
  BY StepSimulation
<1> QED
  BY <1>1, <1>2, CacheInvariance, PTL DEF Spec, PromiseKept, Promise!Spec
-----------------------------------------------------------------------------
(* Eviction and accounting, for any requests, sizes and order of calls.    *)
(* The list is in the order of the last uses, and evictions take its end.  *)
(* The size of the cache is exact as long as what is removed is what was   *)
(* charged, which is when the loop that evicts finds room.                 *)

\* Nearer to the head means used later.
ListIsRecent ==
    \A a, b \in Live :
       <<a, b>> \in newer => <<entries[a].request, entries[b].request>> \in recent

SizeIsExact == ~drifted => size = Charged(Live) /\ size <= MaxSize

HistoryInv == CacheInv /\ ListIsRecent /\ SizeIsExact

-----------------------------------------------------------------------------
(* The order of use. *)

\* Entries that stay, in their order, stay in the order of their use.
LEMMA FewerEntriesRecent ==
    ASSUME ListIsRecent, NEW kept \in SUBSET Live, entries' = Keep(kept),
           newer' \subseteq newer, recent' = recent
    PROVE  ListIsRecent'
PROOF
<1>1. Live' = kept /\ \A a \in kept : entries'[a] = entries[a]
  BY DEF Live, Keep
<1> QED
  BY <1>1 DEF ListIsRecent

\* The entry that moves, or is put, to the head is that of the request used now,
\* and none of the others is.
LEMMA HeadIsRecent ==
    ASSUME ListIsRecent, NEW q \in Request, Uses(q), NEW A \in SUBSET Live, NEW e,
           Live' = A \cup {e}, e \notin A, newer' = AtHead(e, A),
           entries'[e].request = q,
           \A a \in A : /\ entries'[a] = entries[a]
                        /\ entries[a].request \in Request \ {q}
    PROVE  ListIsRecent'
PROOF
<1> SUFFICES ASSUME NEW a \in Live', NEW b \in Live', <<a, b>> \in newer'
             PROVE  <<entries'[a].request, entries'[b].request>> \in recent'
  BY DEF ListIsRecent
<1>1. CASE <<a, b>> \in newer /\ a \in A /\ b \in A
  BY <1>1 DEF ListIsRecent, Uses
<1>2. CASE a = e /\ b \in A
  BY <1>2 DEF Uses
<1> QED
  BY <1>1, <1>2 DEF AtHead

\* A hit moves the entry of its request to the head.
LEMMA HitKeepsRecent ==
    ASSUME CacheInv, ListIsRecent, NEW q \in Request, LookupHit(q), Uses(q)
    PROVE  ListIsRecent'
PROOF
<1>1. PICK e \in Matches(q) :
         /\ entries' = Keep(Live \ {a \in Newer(e) : Expired(a)})
         /\ newer' = AtHead(e, (Live \ {a \in Newer(e) : Expired(a)}) \ {e})
  BY DEF LookupHit
<1> DEFINE A == (Live \ {a \in Newer(e) : Expired(a)}) \ {e}
<1>2. e \in Live /\ entries[e].request = q /\ ~Expired(e)
  BY DEF Matches
<1>3. Live' = A \cup {e} /\ \A a \in A \cup {e} : entries'[a] = entries[a]
  BY <1>1, <1>2 DEF Live, Keep
<1>4. \A a \in A : entries[a].request \in Request \ {q}
  BY <1>2 DEF CacheInv, KeysUnique, TypeOK, Entry
<1> QED
  BY <1>1, <1>2, <1>3, <1>4, HeadIsRecent

\* An insertion puts the entry of its request there.
LEMMA InsertionKeepsRecent ==
    ASSUME CacheInv, ListIsRecent, NEW r \in Response, ReceiveCached(r), Uses(missed)
    PROVE  ListIsRecent'
PROOF
<1> DEFINE A == Live \ Evicted(Need(r))
<1>1. PICK a \in Addr \ A :
         /\ entries' = [b \in A \cup {a} |->
                           IF b = a THEN [request |-> missed, response |-> r,
                                          expires |-> now + Ttl]
                           ELSE entries[b]]
         /\ newer' = AtHead(a, A)
  BY DEF ReceiveCached
<1>2. missed \in Request
  BY DEF ReceiveCached, Idle, CacheInv, TypeOK
<1>3. /\ Live' = A \cup {a} /\ entries'[a].request = missed
      /\ \A b \in A : entries'[b] = entries[b]
  BY <1>1 DEF Live
<1>4. \A b \in A : entries[b].request \in Request \ {missed}
  BY DEF CacheInv, MissedIsAbsent, TypeOK, Entry
<1> QED
  BY <1>1, <1>2, <1>3, <1>4, HeadIsRecent

\* Every step keeps the list in the order of the last uses.
LEMMA StepKeepsRecent ==
    ASSUME CacheInv, ListIsRecent, [HistoryNext]_historyVars
    PROVE  ListIsRecent'
PROOF
<1>1. ASSUME NEW q \in Request, LookupHit(q), Uses(q) PROVE ListIsRecent'
  BY <1>1, HitKeepsRecent
<1>2. ASSUME NEW q \in Request, LookupMiss(q), UNCHANGED recent PROVE ListIsRecent'
  BY <1>2, FewerEntriesRecent DEF LookupMiss
<1>3. ASSUME NEW r \in Response, ReceiveCached(r), Uses(missed) PROVE ListIsRecent'
  BY <1>3, InsertionKeepsRecent
<1>4. ASSUME NEW r \in Response, ReceiveUnstored(r), UNCHANGED recent
      PROVE  ListIsRecent'
  BY <1>4, FewerEntriesRecent DEF ReceiveUnstored
<1>5. ASSUME Clear, UNCHANGED recent PROVE ListIsRecent'
  <2>1. CASE ClearAll
    BY <1>5, <2>1, FewerEntriesRecent DEF ClearAll
  <2>2. CASE ClearExpired /\ nextExpiration < now
    BY <1>5, <2>2, FewerEntriesRecent DEF ClearExpired
  <2>3. CASE ClearExpired /\ ~(nextExpiration < now)
    BY <1>5, <2>3 DEF ClearExpired, cacheVars, ListIsRecent, Live
  <2> QED
    BY <1>5, <2>1, <2>2, <2>3 DEF Clear
<1>6. ASSUME UNCHANGED <<entries, newer, recent>> PROVE ListIsRecent'
  BY <1>6 DEF ListIsRecent, Live
<1>7. ASSUME NEW r \in Response, ReceiveUncached(r), UNCHANGED recent
      PROVE  ListIsRecent'
  BY <1>6, <1>7 DEF ReceiveUncached, cacheVars
<1>8. CASE (ReceiveNothing \/ Tick) /\ UNCHANGED recent
  BY <1>6, <1>8 DEF ReceiveNothing, Tick, cacheVars
<1>9. CASE UNCHANGED historyVars
  BY <1>6, <1>9 DEF historyVars, vars, cacheVars
<1> QED
  BY <1>1, <1>2, <1>3, <1>4, <1>5, <1>7, <1>8, <1>9
     DEF HistoryNext, LookupUses, ReceiveUses, ClearUses, TickUses

\* An eviction takes the end of the list: what it leaves is newer than what it
\* takes.
LEMMA EvictionTakesOldest ==
    ASSUME CacheInv, NEW need, NEW a \in Evicted(need), NEW b \in Live,
           b \notin Evicted(need)
    PROVE  <<b, a>> \in newer
PROOF
<1>1. a \in Live /\ a # b
  BY DEF Evicted
<1>2. ASSUME <<a, b>> \in newer PROVE FALSE
  <2>1. b \in Older(a) /\ \A c \in Older(b) : c \in Older(a)
    BY <1>1, <1>2 DEF Older, CacheInv, ListOrder
  <2> QED
    BY <2>1 DEF Evicted
<1> QED
  BY <1>1, <1>2 DEF CacheInv, ListOrder

\* What the end of an exchange takes from the cache is what is evicted.
LEMMA ReceiveTakesEvicted ==
    ASSUME CacheInv, ~Idle, [HistoryNext]_historyVars
    PROVE  Kept = Live \/ \E need : Kept = Live \ Evicted(need)
PROOF
<1>1. ASSUME UNCHANGED entries PROVE Kept = Live
  BY <1>1 DEF Kept, Live
<1>2. ASSUME NEW r \in Response, ReceiveUnstored(r)
      PROVE  Kept = Live \ Evicted(Need(r))
  BY <1>2 DEF ReceiveUnstored, Kept, Keep, Live
<1>3. ASSUME NEW r \in Response, ReceiveCached(r)
      PROVE  Kept = Live \ Evicted(Need(r))
  <2> DEFINE A == Live \ Evicted(Need(r))
  <2>1. PICK a \in Addr \ A :
           entries' = [b \in A \cup {a} |->
                          IF b = a THEN [request |-> missed, response |-> r,
                                         expires |-> now + Ttl]
                          ELSE entries[b]]
    BY <1>3 DEF ReceiveCached
  <2>2. a \in Live => entries[a].request # missed
    BY DEF CacheInv, MissedIsAbsent
  <2>3. entries'[a].request = missed
    BY <2>1
  <2>4. Kept = A
    BY <2>1, <2>2, <2>3 DEF Kept
  <2> QED
    BY <2>4
<1>4. ASSUME NEW r \in Response, ReceiveUncached(r) PROVE Kept = Live
  BY <1>1, <1>4 DEF ReceiveUncached, cacheVars
<1>5. CASE ReceiveNothing \/ Tick \/ UNCHANGED historyVars
  BY <1>1, <1>5 DEF ReceiveNothing, Tick, historyVars, vars, cacheVars
<1>6. CASE LookupUses \/ ClearUses
  BY <1>6 DEF LookupUses, LookupHit, LookupMiss, ClearUses, Clear, ClearAll,
              ClearExpired
<1> QED
  BY <1>2, <1>3, <1>4, <1>5, <1>6 DEF HistoryNext, ReceiveUses, TickUses

-----------------------------------------------------------------------------
(* The accounted size. *)

\* What each entry was charged.
Prices == [a \in Live |-> AccountedSize(entries[a].request,
                                        ParsedSize[entries[a].response])]

\* It is a size; and Charges adds up the sizes.
LEMMA PricesAreSizes ==
    ASSUME TypeOK
    PROVE  /\ IsFiniteSet(Live)
           /\ Prices \in [Live -> Nat]
           /\ \A A \in SUBSET Live : Charges(A) = Stack(Prices, A)
PROOF
<1>1. IsFiniteSet(Live)
  BY DEF TypeOK
<1>2. ASSUME NEW a \in Live
      PROVE  AccountedSize(entries[a].request, ParsedSize[entries[a].response]) \in Nat
  <2>1. entries[a] \in Entry
    BY DEF TypeOK
  <2> QED
    BY <2>1, SizeAssumption DEF AccountedSize, Entry
<1>3. Prices \in [Live -> Nat]
  BY <1>2 DEF Prices
<1>4. ASSUME NEW A \in SUBSET Live PROVE Charges(A) = Stack(Prices, A)
  <2>1. \A a \in A : Prices[a] = AccountedSize(entries[a].request,
                                               ParsedSize[entries[a].response])
    BY DEF Prices
  <2> QED
    BY <2>1 DEF Charges, Stack
<1> QED
  BY <1>1, <1>3, <1>4

\* What the entries were charged is what those that stay and those that go were.
LEMMA ChargedSplit ==
    ASSUME TypeOK, NEW kept \in SUBSET Live
    PROVE  /\ Charged(kept) \in Nat /\ Charged(Live \ kept) \in Nat
           /\ Charged(Live) = Charged(kept) + Charged(Live \ kept)
PROOF
<1>1. Live \ kept \in SUBSET Live /\ Live \in SUBSET Live
  OBVIOUS
<1>2. Charged(kept) \in Nat /\ Charged(Live \ kept) \in Nat
  BY <1>1, PricesAreSizes, StackFinite DEF Charged
<1>3. Charged(Live) = Charged(kept) + Charged(Live \ kept)
  BY <1>1, PricesAreSizes, StackSplit DEF Charged
<1> QED
  BY <1>2, <1>3

\* The removal of entries whose copies are as large as the originals gives back
\* what they were charged.
LEMMA ExactRemoval ==
    ASSUME TypeOK, size = Charged(Live), size <= MaxSize, NEW kept \in SUBSET Live,
           \A a \in Live \ kept : CopiedAlike(a)
    PROVE  /\ SizeWithout(Live \ kept) = Charged(kept)
           /\ RoomWithout(Live \ kept) = MaxSize - Charged(kept)
           /\ Charged(kept) \in 0 .. MaxSize
PROOF
<1> DEFINE c == Charged(kept)
           g == Charged(Live \ kept)
<1>1. Bytes(Live \ kept) = Charges(Live \ kept)
  <2>1. \A a \in Live \ kept :
           RemovedSize(entries[a])
             = AccountedSize(entries[a].request, ParsedSize[entries[a].response])
    BY DEF CopiedAlike, RemovedSize, AccountedSize
  <2> QED
    BY <2>1 DEF Bytes, Charges
<1>2. SizeWithout(Live \ kept) = (size - g) % SizeRange
  BY <1>1 DEF SizeWithout, Charged
<1>3. c \in Nat /\ g \in Nat /\ size = c + g
  BY ChargedSplit
<1>4. MaxSize \in Nat /\ SizeRange \in Nat /\ MaxSize < SizeRange
  BY SizeAssumption
<1>5. RoomWithout(Live \ kept) = (MaxSize - SizeWithout(Live \ kept)) % SizeRange
  BY DEF RoomWithout
<1> HIDE DEF c, g
<1>6. size - g = c /\ c \in 0 .. MaxSize
  BY <1>3, <1>4
<1>7. c % SizeRange = c /\ (MaxSize - c) % SizeRange = MaxSize - c
  BY <1>4, <1>6
<1> QED
  BY <1>2, <1>5, <1>6, <1>7 DEF c

\* So a removal keeps the size exact, or the cache has drifted.
LEMMA RemovalKeepsExact ==
    ASSUME TypeOK, SizeIsExact, Drifts, NEW kept \in SUBSET Live,
           entries' = Keep(kept), size' = SizeWithout(Live \ kept)
    PROVE  SizeIsExact'
PROOF
<1> SUFFICES ASSUME ~drifted' PROVE size' = Charged(Live)' /\ size' <= MaxSize
  BY DEF SizeIsExact
<1>1. Live' = kept /\ \A a \in kept : entries'[a] = entries[a]
  BY DEF Live, Keep
<1>2. Kept = kept
  BY <1>1 DEF Kept, Live
<1>3. ~drifted /\ \A a \in Live \ kept : CopiedAlike(a)
  BY <1>2 DEF Drifts
<1>4. size' = Charged(kept) /\ Charged(kept) \in 0 .. MaxSize
  BY <1>3, ExactRemoval DEF SizeIsExact
<1>5. Charges(Live)' = Charges(kept)
  BY <1>1 DEF Charges, AccountedSize
<1> QED
  BY <1>4, <1>5, SizeAssumption DEF Charged

\* An insertion adds what it charges, within the room that evictions made.
LEMMA InsertionKeepsExact ==
    ASSUME CacheInv, SizeIsExact, Drifts, NEW r \in Response, ReceiveCached(r)
    PROVE  SizeIsExact'
PROOF
<1> DEFINE need == Need(r)
           gone == Evicted(need)
           kept == Live \ gone
           n == Charged(kept)
<1> SUFFICES ASSUME ~drifted' PROVE size' = Charged(Live)' /\ size' <= MaxSize
  BY DEF SizeIsExact
<1>1. PICK a \in Addr \ kept :
         /\ entries' = [b \in kept \cup {a} |->
                           IF b = a THEN [request |-> missed, response |-> r,
                                          expires |-> now + Ttl]
                           ELSE entries[b]]
         /\ size' = (SizeWithout(Live \ kept) + need) % SizeRange
  BY DEF ReceiveCached
<1>2. missed \in Request /\ TypeOK
  BY DEF ReceiveCached, Idle, CacheInv, TypeOK
<1>3. need \in Nat /\ need <= MaxSize
  <2>1. Need(r) \in Nat
    BY <1>2, SizeAssumption DEF Need, AccountedSize
  <2> QED
    BY <2>1 DEF ReceiveCached, Cacheable
<1>4. kept \in SUBSET Live /\ gone = Live \ kept
  BY DEF Evicted
<1>5. \A b \in kept : entries'[b] = entries[b]
  BY <1>1
<1>6. entries'[a].request = missed /\ entries'[a].response = r
  BY <1>1
<1>7. Live' = kept \cup {a}
  BY <1>1 DEF Live
<1>8. Kept = kept
  <2>1. a \in Live => entries'[a] # entries[a]
    BY <1>6 DEF CacheInv, MissedIsAbsent
  <2> QED
    BY <1>4, <1>5, <1>7, <2>1 DEF Kept, Live
<1>9. size = Charged(Live) /\ size <= MaxSize /\ \A b \in Live \ kept : CopiedAlike(b)
  BY <1>8 DEF Drifts, SizeIsExact
<1>10. gone = Live \/ RoomWithout(gone) >= need
  <2> HIDE DEF need
  <2> QED
    BY <1>3, EvictionStops
<1> HIDE DEF need, gone, kept
<1>11. /\ SizeWithout(Live \ kept) = n /\ n \in 0 .. MaxSize
       /\ RoomWithout(gone) = MaxSize - n
  BY <1>2, <1>4, <1>9, ExactRemoval
<1>12. MaxSize \in Nat /\ SizeRange \in Nat /\ MaxSize < SizeRange
  BY SizeAssumption
<1>13. n + need <= MaxSize
  <2>1. CASE gone = Live
    <3>1. Charges(kept) = {}
      BY <1>4, <2>1 DEF Charges
    <3>2. n = 0
      BY <3>1, FS_EmptySet DEF Charged
    <3> QED
      BY <1>3, <3>2
  <2>2. CASE RoomWithout(gone) >= need
    <3> HIDE DEF n
    <3> QED
      BY <1>3, <1>11, <1>12, <2>2
  <2> QED
    BY <1>10, <2>1, <2>2
<1>14. Charges(Live)' = Charges(kept) \cup ({a} \X (1 .. need))
  <2>1. Charges(Live)' =
           UNION {{b} \X (1 .. AccountedSize(entries'[b].request,
                                             ParsedSize[entries'[b].response])) :
                     b \in kept \cup {a}}
    BY <1>7 DEF Charges, AccountedSize
  <2>2. AccountedSize(entries'[a].request, ParsedSize[entries'[a].response]) = need
    BY <1>6 DEF need, Need
  <2> QED
    BY <1>5, <2>1, <2>2 DEF Charges
<1>15. Charged(Live)' = n + need
  <2>1. IsFiniteSet(Live) /\ Prices \in [Live -> Nat]
        /\ Charges(kept) = Stack(Prices, kept)
    BY <1>2, <1>4, PricesAreSizes
  <2>2. Cardinality(Charges(Live)') = Cardinality(Charges(kept)) + need
    BY <1>1, <1>3, <1>4, <1>14, <2>1, StackAdd
  <2> QED
    BY <2>2 DEF Charged
<1> HIDE DEF n
<1>16. (n + need) % SizeRange = n + need
  BY <1>3, <1>11, <1>12, <1>13
<1> QED
  BY <1>1, <1>11, <1>13, <1>15, <1>16

\* What changes neither the entries nor the size keeps it exact.
LEMMA SameSizeKeepsExact ==
    ASSUME SizeIsExact, Drifts \/ drifted' = drifted, UNCHANGED <<entries, size>>
    PROVE  SizeIsExact'
PROOF
<1>1. Charges(Live)' = Charges(Live)
  BY DEF Charges, Live, AccountedSize
<1> QED
  BY <1>1 DEF SizeIsExact, Drifts, Charged

\* Every step keeps the size exact until the cache drifts.
LEMMA StepKeepsExact ==
    ASSUME CacheInv, SizeIsExact, [HistoryNext]_historyVars
    PROVE  SizeIsExact'
PROOF
<1>0. TypeOK
  BY DEF CacheInv
<1>1. ASSUME NEW q \in Request, LookupHit(q), Drifts PROVE SizeIsExact'
  <2>1. PICK e \in Matches(q) :
           LET kept == Live \ {a \in Newer(e) : Expired(a)} IN
           entries' = Keep(kept) /\ size' = SizeWithout(Live \ kept)
    BY <1>1 DEF LookupHit
  <2> QED
    BY <1>0, <1>1, <2>1, RemovalKeepsExact
<1>2. ASSUME NEW q \in Request, LookupMiss(q), Drifts PROVE SizeIsExact'
  BY <1>0, <1>2, RemovalKeepsExact DEF LookupMiss
<1>3. ASSUME NEW r \in Response, ReceiveCached(r), Drifts PROVE SizeIsExact'
  BY <1>3, InsertionKeepsExact
<1>4. ASSUME NEW r \in Response, ReceiveUnstored(r), Drifts PROVE SizeIsExact'
  BY <1>0, <1>4, RemovalKeepsExact DEF ReceiveUnstored
<1>5. ASSUME NEW r \in Response, ReceiveUncached(r), Drifts PROVE SizeIsExact'
  BY <1>5, SameSizeKeepsExact DEF ReceiveUncached, cacheVars
<1>6. CASE (ReceiveNothing \/ Tick) /\ Drifts
  BY <1>6, SameSizeKeepsExact DEF ReceiveNothing, Tick, cacheVars
<1>7. ASSUME Clear, Drifts PROVE SizeIsExact'
  <2>1. CASE ClearAll
    <3>1. {} \in SUBSET Live /\ Live = Live \ {}
      OBVIOUS
    <3> QED
      BY <1>0, <1>7, <2>1, <3>1, RemovalKeepsExact DEF ClearAll
  <2>2. CASE ClearExpired /\ nextExpiration < now
    BY <1>0, <1>7, <2>2, RemovalKeepsExact DEF ClearExpired
  <2>3. CASE ClearExpired /\ ~(nextExpiration < now)
    BY <1>7, <2>3, SameSizeKeepsExact DEF ClearExpired, cacheVars
  <2> QED
    BY <1>7, <2>1, <2>2, <2>3 DEF Clear
<1>8. CASE UNCHANGED historyVars
  BY <1>8, SameSizeKeepsExact DEF historyVars, vars, cacheVars
<1> QED
  BY <1>1, <1>2, <1>3, <1>4, <1>5, <1>6, <1>7, <1>8
     DEF HistoryNext, LookupUses, ReceiveUses, ClearUses, TickUses

-----------------------------------------------------------------------------
(* Remainders. *)

\* The remainder is less than the divisor.
LEMMA ModRange ==
    ASSUME NEW R \in Nat \ {0}, NEW a \in Int
    PROVE  a % R \in 0 .. R - 1
PROOF
  OBVIOUS

\* It is what the quotient leaves.
LEMMA ModDiv ==
    ASSUME NEW R \in Nat \ {0}, NEW a \in Int
    PROVE  a \div R \in Int /\ a = R * (a \div R) + (a % R)
PROOF
  OBVIOUS

\* And nothing else is.
LEMMA ModUnique ==
    ASSUME NEW R \in Nat \ {0}, NEW a \in Int, NEW q \in Int, NEW r \in 0 .. R - 1,
           a = R * q + r
    PROVE  a % R = r
PROOF
<1> DEFINE p == a \div R
           s == a % R
<1>1. p \in Int /\ s \in 0 .. R - 1 /\ R * q + r = R * p + s
  BY ModDiv, ModRange
<1> HIDE DEF p, s
<1>2. R * (q - p) = s - r
  BY <1>1
<1>3. q - p = 0
  <2>1. CASE q - p >= 1
    <3>1. R * (q - p) >= R
      BY <1>1, <2>1
    <3> QED
      BY <1>1, <1>2, <3>1
  <2>2. CASE q - p <= -1
    <3>1. R * (q - p) <= -R
      BY <1>1, <2>2
    <3> QED
      BY <1>1, <1>2, <3>1
  <2> QED
    BY <1>1, <2>1, <2>2
<1>4. s = r
  BY <1>1, <1>2, <1>3
<1> QED
  BY <1>4 DEF s

\* A size wrapped below zero leaves the room it lacks, and m more.
LEMMA ModOpposite ==
    ASSUME NEW R \in Nat \ {0}, NEW d \in Int, NEW m \in Nat,
           ((0 - d) % R) + m < R
    PROVE  (m - (d % R)) % R = m + ((0 - d) % R)
PROOF
<1> DEFINE x == d % R
           y == (0 - d) % R
           p == d \div R
           q == (0 - d) \div R
<1>1. x \in 0 .. R - 1 /\ y \in 0 .. R - 1 /\ p \in Int /\ q \in Int
  BY ModRange, ModDiv
<1>2. d = R * p + x /\ 0 - d = R * q + y
  BY ModDiv
<1> HIDE DEF x, y, p, q
<1>3. m - x = R * (p + q) + (m + y)
  BY <1>1, <1>2
<1>4. m + y \in 0 .. R - 1 /\ m - x \in Int /\ p + q \in Int
  BY <1>1 DEF y
<1>5. (m - x) % R = m + y
  BY <1>3, <1>4, ModUnique
<1> QED
  BY <1>5 DEF x, y

-----------------------------------------------------------------------------
\* The history variables take no step of the cache's.
LEMMA HistoryStepIsStep == [HistoryNext]_historyVars => [Next]_vars
PROOF
  BY DEF HistoryNext, LookupUses, ReceiveUses, ClearUses, TickUses, Next, Lookup,
         Receive, historyVars

\* The invariant of the cache and of its history.
THEOREM HistoryInvariance == HistorySpec => []HistoryInv
PROOF
<1>1. HistoryInit => HistoryInv
  <2> SUFFICES ASSUME HistoryInit PROVE HistoryInv
    OBVIOUS
  <2>1. CacheInv
    BY InitCacheInv DEF HistoryInit
  <2>2. Live = {} /\ size = 0
    BY DEF HistoryInit, Init, Live
  <2>3. Charges(Live) = {}
    BY <2>2 DEF Charges
  <2>4. Charged(Live) = 0 /\ 0 <= MaxSize
    BY <2>3, FS_EmptySet, SizeAssumption DEF Charged
  <2> QED
    BY <2>1, <2>2, <2>4 DEF HistoryInv, ListIsRecent, SizeIsExact
<1>2. HistoryInv /\ [HistoryNext]_historyVars => HistoryInv'
  BY HistoryStepIsStep, NextKeepsInv, StepKeepsRecent, StepKeepsExact DEF HistoryInv
<1> QED
  BY <1>1, <1>2, PTL DEF HistorySpec

\* Eviction takes the least recently used, in every cache.
THEOREM EvictionStaysLru == HistorySpec => EvictionIsLru
PROOF
<1> DEFINE Lru == ~Idle => \A a \in Live \ Kept, b \in Kept :
                     <<entries[b].request, entries[a].request>> \in recent
<1>1. HistoryInv /\ [HistoryNext]_historyVars => [Lru]_historyVars
  <2> SUFFICES ASSUME HistoryInv, [HistoryNext]_historyVars, ~Idle,
                      NEW a \in Live \ Kept, NEW b \in Kept
               PROVE  <<entries[b].request, entries[a].request>> \in recent
    OBVIOUS
  <2>1. PICK need : Kept = Live \ Evicted(need)
    BY ReceiveTakesEvicted DEF HistoryInv
  <2>2. a \in Evicted(need) /\ b \in Live /\ b \notin Evicted(need)
    BY <2>1
  <2>3. <<b, a>> \in newer
    BY <2>2, EvictionTakesOldest DEF HistoryInv
  <2> QED
    BY <2>2, <2>3 DEF HistoryInv, ListIsRecent
<1> QED
  BY HistoryInvariance, <1>1, PTL DEF HistorySpec, EvictionIsLru

\* By how much the removal of every entry would take more than size has.
Overdraft == (Cardinality(Bytes(Live)) - size) % SizeRange

InRange == Overdraft + MaxSize < SizeRange

\* cache->size is what the entries were charged until a copy of another size is
\* removed, and the loop that evicts finds room as long as removals have not
\* outrun the charges by almost all values of a size_t.
THEOREM SizeStaysCharged == HistorySpec => [](InRange => SizeIsCharged)
PROOF
<1>1. HistoryInv /\ InRange => SizeIsCharged
  <2> SUFFICES ASSUME HistoryInv, InRange, NEW r \in Response, ~Idle, Cacheable(r)
               PROVE  RoomWithout(Live) >= Need(r)
    BY DEF SizeIsCharged, EvictionFindsRoom, HistoryInv, SizeIsExact
  <2> DEFINE all == Cardinality(Bytes(Live))
  <2>1. all \in Nat /\ size \in Int /\ missed \in Request
    BY BytesFinite DEF HistoryInv, CacheInv, TypeOK, Idle
  <2>2. MaxSize \in Nat /\ SizeRange \in Nat /\ MaxSize < SizeRange
    BY SizeAssumption
  <2>3. Need(r) \in Nat /\ Need(r) <= MaxSize
    BY <2>1, SizeAssumption DEF Cacheable, Need, AccountedSize
  <2>4. RoomWithout(Live) = (MaxSize - ((size - all) % SizeRange)) % SizeRange
    BY DEF RoomWithout, SizeWithout
  <2>5. ((all - size) % SizeRange) + MaxSize < SizeRange
    BY DEF InRange, Overdraft
  <2> HIDE DEF all
  <2> DEFINE d == size - all
  <2>6. d \in Int /\ all - size = 0 - d /\ SizeRange \in Nat \ {0}
    BY <2>1, <2>2
  <2> HIDE DEF d
  <2>7. ((0 - d) % SizeRange) + MaxSize < SizeRange
    BY <2>5, <2>6
  <2>8. (MaxSize - (d % SizeRange)) % SizeRange = MaxSize + ((0 - d) % SizeRange)
    BY <2>2, <2>6, <2>7, ModOpposite
  <2>9. (0 - d) % SizeRange \in 0 .. SizeRange - 1
    BY <2>6, ModRange
  <2>10. RoomWithout(Live) = MaxSize + ((0 - d) % SizeRange)
    BY <2>4, <2>8 DEF d
  <2> QED
    BY <2>2, <2>3, <2>6, <2>9, <2>10
<1> QED
  BY HistoryInvariance, <1>1, PTL
=============================================================================
