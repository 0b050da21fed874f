----------------------------- MODULE JsonProofs -----------------------------
(***************************************************************************)
(* Proofs about JSON documents, for any widths of the types of C, whatever *)
(* is parsed or built, whichever allocations fail, and for any size of the *)
(* buffer of the printer.                                                  *)
(***************************************************************************)
EXTENDS JsonPrinter, FiniteSetTheorems, SequenceTheorems, WellFoundedInduction, TLAPS

-----------------------------------------------------------------------------
(* Powers of two and remainders *)

Positive(x) == x \in Nat /\ x > 0

\* There are as many subsets of n things.
LEMMA PowerIsPositive == ASSUME NEW n \in Nat PROVE Positive(2 ^ n)
<1>1. IsFiniteSet(1 .. n) /\ Cardinality(1 .. n) = n  BY FS_Interval
<1>2. IsFiniteSet(SUBSET (1 .. n)) /\ Cardinality(SUBSET (1 .. n)) = 2 ^ n
  BY <1>1, FS_SUBSET
<1>3. Cardinality(SUBSET (1 .. n)) \in Nat  BY <1>2, FS_CardinalityType
<1>4. {} \in SUBSET (1 .. n)  OBVIOUS
<1>5. Cardinality(SUBSET (1 .. n)) # 0  BY <1>2, <1>4, FS_EmptySet
<1> QED BY <1>2, <1>3, <1>5 DEF Positive

\* A set of n + m things is one of n of them and one of the others.
LEMMA PowersMultiply ==
    ASSUME NEW n \in Nat, NEW m \in Nat PROVE 2 ^ (n + m) = 2 ^ n * 2 ^ m
<1> DEFINE A == 1 .. n
           B == n + 1 .. n + m
           C == 1 .. n + m
           f == [X \in SUBSET C |-> <<X \cap A, X \cap B>>]
<1>1. IsFiniteSet(A) /\ Cardinality(A) = n  BY FS_Interval
<1>0. n + 1 \in Int /\ n + m \in Int /\ 1 \in Int
  OBVIOUS
<1>2. IsFiniteSet(B) /\ Cardinality(B) = m  BY <1>0, FS_Interval
<1>3. IsFiniteSet(C) /\ Cardinality(C) = n + m
  <2>1. PICK k \in Nat : k = n + m  OBVIOUS
  <2>2. IsFiniteSet(1 .. k) /\ Cardinality(1 .. k) = k  BY FS_Interval
  <2> QED BY <2>1, <2>2
<1>4. C = A \cup B /\ A \cap B = {}  OBVIOUS
<1> HIDE DEF A, B, C
<1>5. IsFiniteSet(SUBSET A) /\ Cardinality(SUBSET A) = 2 ^ n  BY <1>1, FS_SUBSET
<1>6. IsFiniteSet(SUBSET B) /\ Cardinality(SUBSET B) = 2 ^ m  BY <1>2, FS_SUBSET
<1>7. IsFiniteSet(SUBSET C) /\ Cardinality(SUBSET C) = 2 ^ (n + m)  BY <1>3, FS_SUBSET
<1>8. Cardinality((SUBSET A) \X (SUBSET B)) = 2 ^ n * 2 ^ m  BY <1>5, <1>6, FS_Product
<1>9. f \in Bijection(SUBSET C, (SUBSET A) \X (SUBSET B))
  <2>1. f \in [SUBSET C -> (SUBSET A) \X (SUBSET B)]  OBVIOUS
  <2>2. \A X, Y \in SUBSET C : f[X] = f[Y] => X = Y
    <3> TAKE X \in SUBSET C, Y \in SUBSET C
    <3> HAVE f[X] = f[Y]
    <3>1. X \cap A = Y \cap A /\ X \cap B = Y \cap B  OBVIOUS
    <3> QED BY <3>1, <1>4
  <2>3. \A t \in (SUBSET A) \X (SUBSET B) : \E X \in SUBSET C : f[X] = t
    <3> TAKE t \in (SUBSET A) \X (SUBSET B)
    <3>1. PICK X \in SUBSET A, Y \in SUBSET B : t = <<X, Y>>  OBVIOUS
    <3>2. (X \cup Y) \cap A = X /\ (X \cup Y) \cap B = Y  BY <1>4
    <3>3. X \cup Y \in SUBSET C  BY <1>4
    <3> QED BY <3>1, <3>2, <3>3
  <2> QED BY <2>1, <2>2, <2>3 DEF Bijection, Injection, Surjection, IsInjective
<1> QED BY <1>7, <1>8, <1>9, FS_Bijection DEF ExistsBijection

\* A narrower remainder of a remainder.
LEMMA RemainderIs ==
    ASSUME NEW q \in Int, NEW r \in Int, NEW a \in Int, Positive(a), 0 <= r, r < a
    PROVE  (q * a + r) % a = r
  BY DEF Positive

LEMMA Divided ==
    ASSUME NEW x \in Int, NEW a \in Int, Positive(a)
    PROVE  \E q \in Int : \E r \in Int : x = q * a + r /\ 0 <= r /\ r < a /\ x % a = r
  BY DEF Positive

LEMMA Regroup ==
    ASSUME NEW q \in Int, NEW a \in Int, NEW b \in Int, NEW p \in Int, NEW s \in Int
    PROVE  q * (a * b) + (p * a + s) = (q * b + p) * a + s
  OBVIOUS

LEMMA ProductIsPositive ==
    ASSUME NEW a \in Int, NEW b \in Int, Positive(a), Positive(b) PROVE Positive(a * b)
  BY DEF Positive

LEMMA RemainderOfRemainder ==
    ASSUME NEW x \in Int, NEW a \in Int, NEW b \in Int, Positive(a), Positive(b)
    PROVE  (x % (a * b)) % a = x % a
<1>1. Positive(a * b) /\ a * b \in Int  BY ProductIsPositive DEF Positive
<1>2. PICK q \in Int, r \in Int : x = q * (a * b) + r /\ x % (a * b) = r
  BY <1>1, Divided
<1>3. PICK p \in Int, s \in Int : r = p * a + s /\ 0 <= s /\ s < a /\ r % a = s
  BY Divided
<1>4. x = (q * b + p) * a + s  BY <1>2, <1>3, Regroup
<1>5. q * b + p \in Int  OBVIOUS
<1>6. x % a = s  BY <1>3, <1>4, <1>5, RemainderIs
<1> QED BY <1>2, <1>3, <1>6

-----------------------------------------------------------------------------
(* Numbers in the types of C *)

LEMMA WidthsGrow ==
    ASSUME NEW i \in 1 .. 5, NEW j \in 1 .. 5, i <= j
    PROVE  Width(i) \in Nat \ {0} /\ Width(j) \in Nat \ {0} /\ Width(i) <= Width(j)
<1> DEFINE w(k) == Width(k)
<1>1. \A k \in 1 .. 5 : w(k) \in Nat \ {0}
  BY WidthAssumption
<1>2. \A k \in 1 .. 4 : w(k) <= w(k + 1)
  BY WidthAssumption
<1> HIDE DEF w
<1>3. w(1) <= w(2) /\ w(2) <= w(3) /\ w(3) <= w(4) /\ w(4) <= w(5)
  <2>1. w(1) <= w(1 + 1) /\ w(2) <= w(2 + 1) /\ w(3) <= w(3 + 1) /\ w(4) <= w(4 + 1)
    BY <1>2
  <2> QED
    BY <2>1
<1>4. w(1) \in Nat /\ w(2) \in Nat /\ w(3) \in Nat /\ w(4) \in Nat /\ w(5) \in Nat
  BY <1>1
<1>5. w(i) <= w(j)
  <2>1. i \in {1, 2, 3, 4, 5} /\ j \in {1, 2, 3, 4, 5}
    OBVIOUS
  <2> QED
    BY <1>3, <1>4, <2>1
<1> QED
  BY <1>1, <1>5 DEF w

LEMMA Doubled ==
    ASSUME NEW w \in Nat \ {0}
    PROVE  Positive(2 ^ (w - 1)) /\ 2 ^ w = 2 * 2 ^ (w - 1)
<1>1. w - 1 \in Nat /\ 1 \in Nat /\ 1 + (w - 1) = w
  OBVIOUS
<1>2. 2 ^ (1 + (w - 1)) = 2 ^ 1 * 2 ^ (w - 1)
  BY <1>1, PowersMultiply
<1>3. 2 ^ 1 = 2
  OBVIOUS
<1>4. Positive(2 ^ (w - 1))
  BY <1>1, PowerIsPositive
<1> QED
  BY <1>1, <1>2, <1>3, <1>4

LEMMA ProductIsLarger ==
    ASSUME NEW a \in Int, NEW b \in Int, Positive(a), Positive(b) PROVE a <= a * b
  BY DEF Positive

\* A wider type has a multiple of the patterns.
LEMMA Wider ==
    ASSUME NEW v \in Nat, NEW w \in Nat, v <= w
    PROVE  \E b \in Int : Positive(b) /\ 2 ^ w = 2 ^ v * b /\ 2 ^ v <= 2 ^ w
<1>1. w - v \in Nat /\ v + (w - v) = w
  OBVIOUS
<1>2. 2 ^ (v + (w - v)) = 2 ^ v * 2 ^ (w - v)
  BY <1>1, PowersMultiply
<1>3. Positive(2 ^ v) /\ Positive(2 ^ (w - v))
  BY <1>1, PowerIsPositive
<1>4. 2 ^ v \in Int /\ 2 ^ (w - v) \in Int
  BY <1>3 DEF Positive
<1>5. 2 ^ v <= 2 ^ v * 2 ^ (w - v)
  BY <1>3, <1>4, ProductIsLarger
<1> QED
  BY <1>1, <1>2, <1>3, <1>4, <1>5

\* The powers of type i: half of its patterns, all of them, and how they compare with
\* those of a wider type.
Powers(h, p) == h \in Int /\ h >= 1 /\ p = 2 * h

LEMMA TypePowers ==
    ASSUME NEW i \in 1 .. 5, NEW j \in 1 .. 5, i <= j
    PROVE  /\ Powers(2 ^ (Width(i) - 1), 2 ^ Width(i))
           /\ Powers(2 ^ (Width(j) - 1), 2 ^ Width(j))
           /\ 2 ^ (Width(i) - 1) <= 2 ^ (Width(j) - 1)
           /\ \E b \in Int : Positive(b) /\ 2 ^ Width(j) = 2 ^ Width(i) * b
<1>1. Width(i) \in Nat \ {0} /\ Width(j) \in Nat \ {0} /\ Width(i) <= Width(j)
  BY WidthsGrow
<1>2. Powers(2 ^ (Width(i) - 1), 2 ^ Width(i)) /\ Powers(2 ^ (Width(j) - 1), 2 ^ Width(j))
  BY <1>1, Doubled DEF Powers, Positive
<1>3. \E b \in Int : Positive(b) /\ 2 ^ Width(j) = 2 ^ Width(i) * b
  BY <1>1, Wider
<1>4. Width(i) - 1 \in Nat /\ Width(j) - 1 \in Nat /\ Width(i) - 1 <= Width(j) - 1
  BY <1>1
<1>5. 2 ^ (Width(i) - 1) <= 2 ^ (Width(j) - 1)
  BY <1>4, Wider
<1> QED
  BY <1>2, <1>3, <1>5

LEMMA TypesGrow ==
    ASSUME NEW i \in 1 .. 5, NEW j \in 1 .. 5, i <= j, NEW n
    PROVE  /\ n \in Signed(i) => n \in Signed(j)
           /\ n \in Unsigned(i) => n \in Unsigned(j)
           /\ n \in Signed(i) /\ n >= 0 => n \in Unsigned(i)
<1> DEFINE a == 2 ^ (Width(i) - 1)
           b == 2 ^ (Width(j) - 1)
           c == 2 ^ Width(i)
           d == 2 ^ Width(j)
<1>1. Powers(a, c) /\ Powers(b, d) /\ a <= b
  BY TypePowers
<1>2. Signed(i) = -a .. a - 1 /\ Signed(j) = -b .. b - 1
  BY DEF Signed
<1>3. Unsigned(i) = 0 .. c - 1 /\ Unsigned(j) = 0 .. d - 1
  BY DEF Unsigned
<1> HIDE DEF a, b, c, d
<1> QED
  BY <1>1, <1>2, <1>3 DEF Powers

\* What a type holds is read back from the word.
LEMMA ReadBack ==
    ASSUME NEW i \in 1 .. 5, NEW n \in Int
    PROVE  /\ n \in Signed(i) => AsSigned(Pattern(n), Width(i)) = n
           /\ n \in Unsigned(i) => AsUnsigned(Pattern(n), Width(i)) = n
<1> DEFINE h == 2 ^ (Width(i) - 1)
           p == 2 ^ Width(i)
           m == Pattern(n) % p
<1>1. Powers(h, p) /\ \E b \in Int : Positive(b) /\ Words = p * b
  BY TypePowers DEF Words
<1>2. Signed(i) = -h .. h - 1 /\ Unsigned(i) = 0 .. p - 1
  BY DEF Signed, Unsigned
<1>3. AsSigned(Pattern(n), Width(i)) = IF m >= h THEN m - p ELSE m
  BY DEF AsSigned
<1>4. AsUnsigned(Pattern(n), Width(i)) = m
  BY DEF AsUnsigned
<1>5. Pattern(n) = n % Words
  BY DEF Pattern
<1> HIDE DEF h, p
<1>6. p \in Int /\ Positive(p)
  BY <1>1 DEF Powers, Positive
<1>7. m = n % p
  <2>1. PICK b \in Int : Positive(b) /\ Words = p * b
    BY <1>1
  <2>2. (n % (p * b)) % p = n % p
    BY <1>6, <2>1, RemainderOfRemainder
  <2> QED
    BY <1>5, <2>1, <2>2
<1> HIDE DEF m
<1>8. n >= 0 /\ n < p => m = n
  BY <1>6, <1>7 DEF Positive
<1>9. n < 0 /\ n >= -p => m = n + p
  BY <1>6, <1>7 DEF Positive
<1> QED
  BY <1>1, <1>2, <1>3, <1>4, <1>8, <1>9 DEF Powers

-----------------------------------------------------------------------------
(* Values and their flags *)

TypeNames == {"null", "boolean", "string", "number", "array", "object"}
Flag == ({"signed", "unsigned"} \X (1 .. 5)) \cup {<<"double", 0>>}
JsonValue ==
    [type : TypeNames, parent : Nat, name : Seq(Nat), text : Seq(Nat), is : SUBSET Flag,
     word : Int]

\* What NumbersFitTheirTypes says of a number.
Stands(r, n) ==
    /\ Pattern(n) = r.word
    /\ \A i \in 1 .. 5 :
          /\ Is(r, <<"signed", i>>) <=> n \in Signed(i)
          /\ Is(r, <<"unsigned", i>>) <=> n \in Unsigned(i)
    /\ \A f \in r.is : NumberAs(r, f[1], f[2]) = n

Fits(r) ==
    r.type = "number" /\ ~Is(r, <<"double", 0>>) =>
        \E n \in Signed(5) \cup Unsigned(5) : Stands(r, n)

\* What a scalar that is read or given to a call is allocated as.
GoodValue(r) == r \in JsonValue /\ Fits(r) /\ r.parent = Absent

LEMMA SignedFlagsAre ==
    ASSUME NEW n, n \in Signed(5)
    PROVE  /\ SignedFlags(n) = {<<"signed", i>> : i \in {j \in 1 .. 5 : n \in Signed(j)}}
<1>1. ASSUME NEW j \in 1 .. 5 PROVE (\A k \in j .. 4 : n \in Signed(k)) <=> n \in Signed(j)
  <2>1. CASE j = 5
    BY <2>1
  <2>2. CASE j # 5
    <3>1. j \in j .. 4
      BY <2>2
    <3>2. \A k \in j .. 4 : k \in 1 .. 5 /\ j <= k
      BY <2>2
    <3> QED
      BY <3>1, <3>2, TypesGrow
  <2> QED
    BY <2>1, <2>2
<1>2. {j \in 1 .. 5 : \A k \in j .. 4 : n \in Signed(k)} = {j \in 1 .. 5 : n \in Signed(j)}
  BY <1>1
<1> QED
  BY <1>2 DEF SignedFlags

LEMMA UnsignedFlagsAre ==
    ASSUME NEW n, n \in Unsigned(5)
    PROVE  /\ UnsignedFlags(n) = {<<"unsigned", i>> : i \in {j \in 1 .. 5 : n \in Unsigned(j)}}
<1>1. ASSUME NEW j \in 1 .. 5
      PROVE  (\A k \in j .. 4 : n \in Unsigned(k)) <=> n \in Unsigned(j)
  <2>1. CASE j = 5
    BY <2>1
  <2>2. CASE j # 5
    <3>1. j \in j .. 4
      BY <2>2
    <3>2. \A k \in j .. 4 : k \in 1 .. 5 /\ j <= k
      BY <2>2
    <3> QED
      BY <3>1, <3>2, TypesGrow
  <2> QED
    BY <2>1, <2>2
<1>2. {j \in 1 .. 5 : \A k \in j .. 4 : n \in Unsigned(k)} = {j \in 1 .. 5 : n \in Unsigned(j)}
  BY <1>1
<1> QED
  BY <1>2 DEF UnsignedFlags

LEMMA Bounds ==
    ASSUME NEW i \in 1 .. 5, NEW n
    PROVE  /\ n \in Signed(i) => n \in Int
           /\ n \in Unsigned(i) => n \in Int /\ n >= 0
<1> DEFINE h == 2 ^ (Width(i) - 1)
           p == 2 ^ Width(i)
<1>1. Powers(h, p)
  BY TypePowers
<1>2. Signed(i) = -h .. h - 1 /\ Unsigned(i) = 0 .. p - 1
  BY DEF Signed, Unsigned
<1> HIDE DEF h, p
<1> QED
  BY <1>1, <1>2 DEF Powers

\* A word of a number n with the flags of exactly the types that hold n.
ExactFlags(n) ==
    {<<"signed", i>> : i \in {j \in 1 .. 5 : n \in Signed(j)}}
    \cup {<<"unsigned", i>> : i \in {j \in 1 .. 5 : n \in Unsigned(j)}}
NumberOf(n) == [Value("number") EXCEPT !.word = Pattern(n), !.is = ExactFlags(n)]

LEMMA LLongIs == ASSUME NEW n, n \in Signed(5) PROVE LLong(n) = NumberOf(n)
<1> DEFINE S == {<<"signed", i>> : i \in {j \in 1 .. 5 : n \in Signed(j)}}
           U == {<<"unsigned", i>> : i \in {j \in 1 .. 5 : n \in Unsigned(j)}}
<1>1. SignedFlags(n) = S
  BY SignedFlagsAre
<1>2. n \in Int
  BY Bounds
<1>3. (IF n >= 0 THEN UnsignedFlags(n) ELSE {}) = U
  <2>1. CASE n >= 0
    <3>1. n \in Unsigned(5)
      BY <2>1, TypesGrow
    <3> QED
      BY <2>1, <3>1, UnsignedFlagsAre
  <2>2. CASE ~(n >= 0)
    <3>1. \A j \in 1 .. 5 : n \notin Unsigned(j)
      BY <2>2, Bounds
    <3> QED
      BY <2>2, <3>1
  <2> QED
    BY <2>1, <2>2
<1> HIDE DEF S, U
<1>4. ExactFlags(n) = S \cup U
  BY DEF ExactFlags, S, U
<1> QED
  BY <1>1, <1>3, <1>4 DEF LLong, NumberOf

LEMMA ULLongIs == ASSUME NEW n, n \in Unsigned(5) PROVE ULLong(n) = NumberOf(n)
<1> DEFINE S == {<<"signed", i>> : i \in {j \in 1 .. 5 : n \in Signed(j)}}
           U == {<<"unsigned", i>> : i \in {j \in 1 .. 5 : n \in Unsigned(j)}}
<1>1. UnsignedFlags(n) = U
  BY UnsignedFlagsAre
<1>2. (IF n \in Signed(5) THEN SignedFlags(n) ELSE {}) = S
  <2>1. CASE n \in Signed(5)
    BY <2>1, SignedFlagsAre
  <2>2. CASE n \notin Signed(5)
    <3>1. \A j \in 1 .. 5 : n \notin Signed(j)
      <4>1. \A j \in 1 .. 5 : j <= 5 /\ 5 \in 1 .. 5
        OBVIOUS
      <4> QED
        BY <2>2, <4>1, TypesGrow
    <3> QED
      BY <2>2, <3>1
  <2> QED
    BY <2>1, <2>2
<1> HIDE DEF S, U
<1>3. ExactFlags(n) = S \cup U
  BY DEF ExactFlags, S, U
<1> QED
  BY <1>1, <1>2, <1>3 DEF ULLong, NumberOf

LEMMA WordsPositive == Words \in Int /\ Positive(Words)
<1>1. Powers(2 ^ (Width(5) - 1), 2 ^ Width(5))
  BY TypePowers
<1> QED
  BY <1>1 DEF Powers, Positive, Words

LEMMA NumberIsGood ==
    ASSUME NEW n \in Signed(5) \cup Unsigned(5) PROVE GoodValue(NumberOf(n))
<1> DEFINE r == NumberOf(n)
<1>1. n \in Int
  BY Bounds
<1>2. r = [type |-> "number", parent |-> Absent, name |-> << >>, text |-> << >>,
           is |-> ExactFlags(n), word |-> Pattern(n)]
  <2> DEFINE E == ExactFlags(n)
             w == Pattern(n)
  <2>1. r = [[type |-> "number", parent |-> Absent, name |-> << >>, text |-> << >>,
              is |-> {}, word |-> 0] EXCEPT !.word = w, !.is = E]
    BY DEF NumberOf, Value
  <2> HIDE DEF E, w, r
  <2>2. r = [type |-> "number", parent |-> Absent, name |-> << >>, text |-> << >>,
             is |-> E, word |-> w]
    BY <2>1
  <2> QED
    BY <2>2 DEF E, w
<1>3. Pattern(n) \in Int
  BY <1>1, WordsPositive DEF Pattern, Positive
<1>4. ExactFlags(n) \in SUBSET Flag
  BY DEF ExactFlags, Flag
<1> HIDE DEF r
<1>5. r \in JsonValue
  BY <1>2, <1>3, <1>4 DEF JsonValue, TypeNames, Absent
<1>6. Stands(r, n)
  <2>1. ASSUME NEW i \in 1 .. 5
        PROVE  /\ <<"signed", i>> \in ExactFlags(n) <=> n \in Signed(i)
               /\ <<"unsigned", i>> \in ExactFlags(n) <=> n \in Unsigned(i)
    BY DEF ExactFlags
  <2>2. ASSUME NEW f \in ExactFlags(n) PROVE NumberAs(r, f[1], f[2]) = n
    <3>1. CASE \E i \in 1 .. 5 : f = <<"signed", i>> /\ n \in Signed(i)
      <4>1. PICK i \in 1 .. 5 : f = <<"signed", i>> /\ n \in Signed(i)
        BY <3>1
      <4> QED
        BY <1>1, <1>2, <4>1, ReadBack DEF NumberAs
    <3>2. CASE \E i \in 1 .. 5 : f = <<"unsigned", i>> /\ n \in Unsigned(i)
      <4>1. PICK i \in 1 .. 5 : f = <<"unsigned", i>> /\ n \in Unsigned(i)
        BY <3>2
      <4> QED
        BY <1>1, <1>2, <4>1, ReadBack DEF NumberAs
    <3> QED
      BY <2>2, <3>1, <3>2 DEF ExactFlags
  <2>3. r.type = "number" /\ r.is = ExactFlags(n) /\ r.word = Pattern(n)
    BY <1>2
  <2> QED
    BY <2>1, <2>2, <2>3 DEF Stands, Is
<1>7. r.parent = Absent
  BY <1>2
<1> QED
  BY <1>5, <1>6, <1>7 DEF GoodValue, Fits, r

-----------------------------------------------------------------------------
(* Sequences joined *)

LEMMA NoneIsFirst ==
    ASSUME NEW B \in SUBSET Nat, \A m \in B : m # 0 /\ m - 1 \in B
    PROVE  B = {}
<1> SUFFICES ASSUME B # {} PROVE FALSE
  OBVIOUS
<1>1. PICK m \in B : \A k \in B : <<k, m>> \notin OpToRel(<, Nat)
  BY NatLessThanWellFounded, WFMin
<1>2. \A k \in B : ~(k < m)
  BY <1>1 DEF OpToRel
<1> QED
  BY <1>2

LEMMA LeastIs ==
    ASSUME NEW T \in SUBSET Nat, T # {}
    PROVE  Min(T) \in T /\ \A y \in T : Min(T) <= y
<1> DEFINE R == {ss \in Nat \X Nat : ss[1] < ss[2]}
<1>1. R = OpToRel(<, Nat)
  BY DEF OpToRel
<1>2. IsWellFoundedOn(R, Nat)
  BY <1>1, NatLessThanWellFounded
<1>3. PICK x \in T : \A y \in T : ~(<<y, x>> \in R)
  BY <1>2, WFMin, Zenon
<1>4. \A y \in T : x <= y
  <2> TAKE y \in T
  <2>1. x \in Nat /\ y \in Nat /\ <<y, x>> \in Nat \X Nat
    OBVIOUS
  <2>2. <<y, x>> \in R <=> y < x
    BY <2>1
  <2> QED
    BY <1>3, <2>1, <2>2
<1> QED
  BY <1>4 DEF Min

\* g lists what the first sequences of s are, joined.
Joins(g, s) ==
    g[0] = << >> /\ \A i \in 1 .. Len(s) : g[i] = g[i - 1] \o s[i]

\* The sequences of a list joined are what has been joined at its end.
LEMMA FlatIs ==
    ASSUME NEW S, NEW s \in Seq(Seq(S)), NEW g \in [0 .. Len(s) -> Seq(S)], Joins(g, s)
    PROVE  FlattenSeq(s) = g[Len(s)]
<1> DEFINE n == Len(s)
           flatten[i \in 1 .. n] == IF i = 1 THEN s[i] ELSE flatten[i - 1] \o s[i]
           Defines(h) == h = [i \in 1 .. n |-> IF i = 1 THEN s[i] ELSE h[i - 1] \o s[i]]
           f == [i \in 1 .. n |-> g[i]]
<1>1. n \in Nat
  OBVIOUS
<1>2. FlattenSeq(s) = IF n = 0 THEN s ELSE flatten[n]
  BY DEF FlattenSeq
<1>3. CASE n = 0
  <2>1. s = << >>
    BY <1>3
  <2> QED
    BY <1>2, <1>3, <2>1 DEF Joins
<1>4. CASE n # 0
  <2>1. \A i \in 1 .. n : s[i] \in Seq(S)
    OBVIOUS
  <2> HIDE DEF n
  <2>2. \A i \in 1 .. n : g[i] = g[i - 1] \o s[i]
    BY DEF Joins, n
  <2>3. \A i \in 1 .. n : i # 1 => i - 1 \in 1 .. n
    BY <1>1
  <2>4. ASSUME NEW i \in 1 .. n
        PROVE  f[i] = IF i = 1 THEN s[i] ELSE f[i - 1] \o s[i]
    <3>1. CASE i = 1
      <4>1. g[0] = << >> /\ i - 1 = 0
        BY <3>1 DEF Joins
      <4>2. << >> \o s[i] = s[i]
        BY <2>1
      <4> QED
        BY <2>2, <3>1, <4>1, <4>2
    <3>2. CASE i # 1
      BY <2>2, <2>3, <3>2
    <3> QED
      BY <3>1, <3>2
  <2>5. Defines(f)
    BY <2>4
  <2>6. flatten = CHOOSE h : Defines(h)
    BY DEF flatten
  <2>7. Defines(flatten)
    BY <2>5, <2>6, Zenon
  <2> HIDE DEF flatten, f
  <2>8. \A i \in 1 .. n : flatten[i] = IF i = 1 THEN s[i] ELSE flatten[i - 1] \o s[i]
    BY <2>7
  <2> DEFINE T == {i \in 1 .. n : flatten[i] # f[i]}
  <2>9. T = {}
    <3> SUFFICES ASSUME T # {} PROVE FALSE
      OBVIOUS
    <3>1. T \in SUBSET Nat
      BY <1>1
    <3> DEFINE i == Min(T)
    <3>2. i \in T /\ \A y \in T : i <= y
      BY <3>1, LeastIs
    <3> HIDE DEF i
    <3>3. i \in 1 .. n /\ flatten[i] # f[i]
      BY <3>2
    <3>4. CASE i = 1
      BY <2>4, <2>8, <3>3, <3>4
    <3>5. CASE i # 1
      <4>1. i - 1 \in 1 .. n
        BY <2>3, <3>3, <3>5
      <4>2. ~(i <= i - 1)
        BY <3>3, <1>1
      <4>3. i - 1 \notin T
        BY <3>2, <4>2
      <4>4. flatten[i - 1] = f[i - 1]
        BY <4>1, <4>3
      <4> QED
        BY <2>4, <2>8, <3>3, <3>5, <4>4
    <3> QED
      BY <3>4, <3>5
  <2>10. n \in 1 .. n
    BY <1>1, <1>4
  <2>11. flatten[n] = f[n]
    BY <2>9, <2>10
  <2> QED
    BY <1>2, <1>4, <2>10, <2>11 DEF n, f
<1> QED
  BY <1>3, <1>4

\* There is such a list.
LEMMA FlatExists ==
    ASSUME NEW S, NEW s \in Seq(Seq(S))
    PROVE  \E g \in [0 .. Len(s) -> Seq(S)] : Joins(g, s)
<1> DEFINE n == Len(s)
           Upto(g, m) == g[0] = << >> /\ \A i \in 1 .. m : g[i] = g[i - 1] \o s[i]
           Has(m) == \E g \in [0 .. m -> Seq(S)] : Upto(g, m)
           B == {m \in 0 .. n : ~Has(m)}
<1>1. n \in Nat /\ \A i \in 1 .. n : s[i] \in Seq(S)
  OBVIOUS
<1> HIDE DEF n
<1>2. Has(0)
  <2> DEFINE g == [i \in 0 .. 0 |-> << >>]
  <2>1. g \in [0 .. 0 -> Seq(S)] /\ Upto(g, 0)
    OBVIOUS
  <2> HIDE DEF g
  <2> QED
    BY <2>1
<1>3. ASSUME NEW m \in 0 .. n, m # 0, Has(m - 1) PROVE Has(m)
  <2>1. m \in 1 .. n /\ m - 1 \in Nat /\ m \in Nat /\ m - 1 \in 0 .. m - 1
    BY <1>1, <1>3
  <2>2. PICK g \in [0 .. m - 1 -> Seq(S)] : Upto(g, m - 1)
    BY <1>3
  <2>3. g[m - 1] \in Seq(S) /\ s[m] \in Seq(S)
    BY <1>1, <2>1
  <2>4. g[m - 1] \o s[m] \in Seq(S)
    BY <2>3, ConcatProperties
  <2> DEFINE h == [i \in 0 .. m |-> IF i = m THEN g[m - 1] \o s[m] ELSE g[i]]
  <2>5. h \in [0 .. m -> Seq(S)]
    <3>1. \A i \in 0 .. m : i # m => i \in 0 .. m - 1
      BY <2>1
    <3> QED
      BY <2>4, <3>1
  <2>6. h[m] = g[m - 1] \o s[m] /\ \A i \in 0 .. m - 1 : h[i] = g[i]
    <3>1. m \in 0 .. m /\ \A i \in 0 .. m - 1 : i \in 0 .. m /\ i # m
      BY <2>1
    <3> QED
      BY <3>1
  <2> HIDE DEF h
  <2>7. Upto(h, m)
    <3>1. h[0] = << >>
      BY <2>1, <2>2, <2>6
    <3>2. ASSUME NEW i \in 1 .. m PROVE h[i] = h[i - 1] \o s[i]
      <4>1. i - 1 \in 0 .. m - 1 /\ (i # m => i \in 1 .. m - 1 /\ i \in 0 .. m - 1)
        BY <2>1
      <4> QED
        BY <2>2, <2>6, <4>1
    <3> QED
      BY <3>1, <3>2
  <2> QED
    BY <2>5, <2>7
<1>4. B = {}
  <2> HIDE DEF Has
  <2>1. \A m \in B : m # 0 /\ m - 1 \in B
    BY <1>1, <1>2, <1>3
  <2>2. B \in SUBSET Nat
    BY <1>1
  <2> QED
    BY <2>1, <2>2, NoneIsFirst
<1>5. Has(n)
  <2> HIDE DEF Has
  <2> QED
    BY <1>1, <1>4
<1> QED
  BY <1>5 DEF Joins, n

LEMMA FlatInSeq ==
    ASSUME NEW S, NEW s \in Seq(Seq(S)) PROVE FlattenSeq(s) \in Seq(S)
<1>1. PICK g \in [0 .. Len(s) -> Seq(S)] : Joins(g, s)
  BY FlatExists
<1>2. Len(s) \in 0 .. Len(s)
  OBVIOUS
<1> QED
  BY <1>1, <1>2, FlatIs

LEMMA FlatNone == FlattenSeq(<< >>) = << >>
  BY DEF FlattenSeq

LEMMA FlatAppend ==
    ASSUME NEW S, NEW s \in Seq(Seq(S)), NEW x \in Seq(S)
    PROVE  FlattenSeq(Append(s, x)) = FlattenSeq(s) \o x
<1> DEFINE n == Len(s)
           t == Append(s, x)
<1>1. t \in Seq(Seq(S)) /\ Len(t) = n + 1 /\ t[n + 1] = x /\ n \in Nat
      /\ \A i \in 1 .. n : t[i] = s[i]
  BY AppendProperties
<1> HIDE DEF t
<1>2. PICK g \in [0 .. Len(t) -> Seq(S)] : Joins(g, t)
  BY <1>1, FlatExists
<1>3. FlattenSeq(t) = g[n + 1]
  BY <1>1, <1>2, FlatIs
<1>4. g[n + 1] = g[n] \o x
  <2>1. n + 1 \in 1 .. Len(t) /\ (n + 1) - 1 = n
    BY <1>1
  <2> QED
    BY <1>1, <1>2, <2>1 DEF Joins
<1> DEFINE h == [i \in 0 .. n |-> g[i]]
<1>5. h \in [0 .. n -> Seq(S)]
  BY <1>1
<1>6. Joins(h, s)
  <2>1. h[0] = << >>
    BY <1>1, <1>2 DEF Joins
  <2>2. ASSUME NEW i \in 1 .. n PROVE h[i] = h[i - 1] \o s[i]
    <3>1. i \in 0 .. n /\ i - 1 \in 0 .. n /\ i \in 1 .. Len(t)
      BY <1>1
    <3> QED
      BY <1>1, <1>2, <3>1 DEF Joins
  <2> QED
    BY <2>1, <2>2 DEF Joins
<1>7. n \in 0 .. n /\ h[n] = g[n]
  BY <1>1
<1> HIDE DEF h
<1>8. FlattenSeq(s) = h[n]
  BY <1>5, <1>6, FlatIs
<1> QED
  BY <1>3, <1>4, <1>7, <1>8 DEF t

\* Joining the first of two lists and then the second joins both.
LEMMA FlatJoin ==
    ASSUME NEW S, NEW s \in Seq(Seq(S)), NEW t \in Seq(Seq(S))
    PROVE  FlattenSeq(s \o t) = FlattenSeq(s) \o FlattenSeq(t)
<1> DEFINE n == Len(t)
           u(m) == SubSeq(t, 1, m)
           Right(m) == FlattenSeq(s \o u(m)) = FlattenSeq(s) \o FlattenSeq(u(m))
           B == {m \in 0 .. n : ~Right(m)}
<1>1. n \in Nat /\ FlattenSeq(s) \in Seq(S)
  BY FlatInSeq
<1>2. Right(0)
  <2>1. u(0) = << >>
    BY SubSeqEmpty
  <2>2. s \o << >> = s /\ FlattenSeq(s) \o << >> = FlattenSeq(s)
    BY <1>1, ConcatEmptySeq
  <2> HIDE DEF u
  <2> QED
    BY <2>1, <2>2, FlatNone
<1>3. ASSUME NEW m \in 0 .. n, m # 0, Right(m - 1) PROVE Right(m)
  <2> DEFINE v == u(m - 1)
             x == t[m]
  <2>1. v \in Seq(Seq(S)) /\ x \in Seq(S)
    BY <1>3, SubSeqProperties
  <2>2. u(m) = v \o <<x>>
    BY <1>3, SubSeqRecursiveSecond
  <2> HIDE DEF v, u, x
  <2>3. u(m) = Append(v, x)
    BY <2>1, <2>2, AppendIsConcat
  <2>4. s \o Append(v, x) = Append(s \o v, x)
    <3>1. <<x>> \in Seq(Seq(S)) /\ s \o v \in Seq(Seq(S))
      BY <2>1, ConcatProperties
    <3>2. (s \o v) \o <<x>> = s \o (v \o <<x>>)
      <4> DEFINE T == Seq(S)
                 z == <<x>>
      <4>1. s \in Seq(T) /\ v \in Seq(T) /\ z \in Seq(T)
        BY <2>1, <3>1
      <4> HIDE DEF T, z
      <4>2. (s \o v) \o z = s \o (v \o z)
        BY <4>1, ConcatAssociative
      <4> QED
        BY <4>2 DEF z
    <3>3. Append(v, x) = v \o <<x>> /\ Append(s \o v, x) = (s \o v) \o <<x>>
      BY <2>1, <3>1, AppendIsConcat
    <3> QED
      BY <3>2, <3>3
  <2>5. FlattenSeq(s \o u(m)) = FlattenSeq(s \o v) \o x
    <3>1. s \o v \in Seq(Seq(S))
      BY <2>1, ConcatProperties
    <3> QED
      BY <2>1, <2>3, <2>4, <3>1, FlatAppend
  <2>6. FlattenSeq(s \o v) = FlattenSeq(s) \o FlattenSeq(v)
    BY <1>3 DEF v
  <2>7. FlattenSeq(u(m)) = FlattenSeq(v) \o x
    BY <2>1, <2>3, FlatAppend
  <2>8. (FlattenSeq(s) \o FlattenSeq(v)) \o x = FlattenSeq(s) \o (FlattenSeq(v) \o x)
    <3>1. FlattenSeq(v) \in Seq(S)
      BY <2>1, FlatInSeq
    <3> QED
      BY <1>1, <2>1, <3>1, ConcatAssociative
  <2> QED
    BY <2>5, <2>6, <2>7, <2>8
<1>4. B = {}
  <2> HIDE DEF Right
  <2>1. \A m \in B : m # 0 /\ m - 1 \in B
    BY <1>1, <1>2, <1>3
  <2>2. B \in SUBSET Nat
    BY <1>1
  <2> QED
    BY <2>1, <2>2, NoneIsFirst
<1>5. Right(n)
  <2> HIDE DEF Right
  <2> QED
    BY <1>1, <1>4
<1>6. u(n) = t
  BY SubSeqFull
<1> QED
  BY <1>5, <1>6

LEMMA FlatOne ==
    ASSUME NEW S, NEW x \in Seq(S) PROVE FlattenSeq(<<x>>) = x
<1>1. << >> \in Seq(Seq(S)) /\ Append(<< >>, x) = <<x>>
  OBVIOUS
<1>2. FlattenSeq(Append(<< >>, x)) = FlattenSeq(<< >>) \o x
  BY <1>1, FlatAppend
<1> QED
  BY <1>1, <1>2, FlatNone, ConcatEmptySeq

-----------------------------------------------------------------------------
(* Strings that are read *)

Bytes == Seq(Nat)

LEMMA CStringIs == ASSUME NEW b \in Bytes PROVE CString(b) \in Bytes
<1> DEFINE I == {j \in 1 .. Len(b) : b[j] = 0}
           i == IF I # {} THEN Min(I) ELSE 0
<1>1. CString(b) = IF i = 0 THEN b ELSE SubSeq(b, 1, i - 1)
  BY DEF CString, SelectInSeq
<1>2. I \in SUBSET Nat
  OBVIOUS
<1> HIDE DEF I
<1>3. i \in Nat /\ (i # 0 => i \in I)
  BY <1>2, LeastIs
<1>4. i # 0 => i \in 1 .. Len(b)
  BY <1>3 DEF I
<1> HIDE DEF i
<1>5. CASE i = 0
  BY <1>1, <1>5 DEF Bytes
<1>6. CASE i # 0
  <2>1. i \in 1 .. Len(b)
    BY <1>4, <1>6
  <2>2. 1 \in 1 .. Len(b) + 1 /\ i - 1 \in 0 .. Len(b) /\ b \in Seq(Nat)
    BY <2>1 DEF Bytes
  <2>3. \A j \in 1 .. i - 1 : b[j] \in Nat
    BY <2>1, <2>2
  <2>4. SubSeq(b, 1, i - 1) \in Seq(Nat)
    BY <2>2, SubSeqProperties
  <2> QED
    BY <1>1, <1>6, <2>4 DEF Bytes
<1> QED
  BY <1>5, <1>6

\* A string without errors has no half of a pair without the other.
LEMMA StringIsRight ==
    ASSUME NEW s \in Seq(Unit), StringError(s) = "OK", NEW i \in DOMAIN s
    PROVE  UnitError(s, i) = "OK"
<1> DEFINE bad == {j \in DOMAIN s : UnitError(s, j) # "OK"}
<1>1. StringError(s) = IF bad = {} THEN "OK" ELSE UnitError(s, Min(bad))
  BY DEF StringError
<1>2. bad \in SUBSET Nat
  OBVIOUS
<1>3. \A j \in bad : UnitError(s, j) # "OK"
  OBVIOUS
<1>4. bad = {}
  <2> HIDE DEF bad
  <2> SUFFICES ASSUME bad # {} PROVE FALSE
    OBVIOUS
  <2>1. Min(bad) \in bad
    BY <1>2, LeastIs
  <2> QED
    BY <1>1, <1>3, <2>1
<1> QED
  BY <1>4

LEMMA UnitIs ==
    ASSUME NEW s \in Seq(Unit), NEW i \in DOMAIN s
    PROVE  s[i] \in Unit /\ s[i].code \in Nat
<1>1. s[i] \in Unit
  OBVIOUS
<1>2. PICK u \in Unit : u = s[i]
  BY <1>1
<1>3. u.code \in Nat
  BY DEF Unit
<1> QED
  BY <1>1, <1>2, <1>3

LEMMA HighIsPaired ==
    ASSUME NEW s \in Seq(Unit), NEW i \in DOMAIN s, UnitError(s, i) = "OK",
           s[i].kind = "u", High(s[i].code)
    PROVE  i + 1 \in DOMAIN s /\ LowHalf(s[i + 1].code)
<1>1. Len(s) \in Nat /\ i \in 1 .. Len(s) /\ DOMAIN s = 1 .. Len(s)
  OBVIOUS
<1>2. s[i].code # NotHex
  <2>1. PICK k \in Nat : k = s[i].code
    BY UnitIs
  <2>2. High(k)
    BY <2>1
  <2>3. k # NotHex
    BY <2>2 DEF High, NotHex
  <2> QED
    BY <2>1, <2>3
<1> DEFINE c == IF i = Len(s) \/ s[i + 1].kind # "u" THEN "CORRUPTED_SURROGATE_PAIR"
                ELSE IF s[i + 1].code = NotHex THEN "INVALID_HEX"
                ELSE IF ~LowHalf(s[i + 1].code) THEN "INVALID_SURROGATE_PAIR"
                ELSE "OK"
<1>3. UnitError(s, i) = c
  <2> HIDE DEF c
  <2>1. UnitError(s, i) =
          CASE s[i].kind = "escape" /\ s[i].code \notin {34, 47, 92, 8, 12, 10, 13, 9} -> "INVALID_ESCAPE_CHAR"
            [] s[i].kind = "byte" /\ s[i].code < 32 -> "UNESCAPED_CHAR"
            [] s[i].kind = "u" /\ s[i].code = NotHex -> "INVALID_HEX"
            [] s[i].kind = "u" /\ High(s[i].code) -> c
            [] OTHER -> "OK"
    BY DEF UnitError, c
  <2>2. ~(s[i].kind = "escape") /\ ~(s[i].kind = "byte")
    OBVIOUS
  <2> DEFINE e == s[i].kind = "escape" /\ s[i].code \notin {34, 47, 92, 8, 12, 10, 13, 9}
             b == s[i].kind = "byte" /\ s[i].code < 32
             n == s[i].kind = "u" /\ s[i].code = NotHex
             h == s[i].kind = "u" /\ High(s[i].code)
  <2>3. ~e /\ ~b /\ ~n /\ h
    BY <1>2, <2>2
  <2>4. UnitError(s, i) = CASE e -> "INVALID_ESCAPE_CHAR" [] b -> "UNESCAPED_CHAR"
                            [] n -> "INVALID_HEX" [] h -> c [] OTHER -> "OK"
    BY <2>1
  <2> HIDE DEF e, b, n, h
  <2> QED
    BY <2>3, <2>4
<1> DEFINE e == i = Len(s) \/ s[i + 1].kind # "u"
           n == s[i + 1].code = NotHex
           l == LowHalf(s[i + 1].code)
<1>4. "OK" = IF e THEN "CORRUPTED_SURROGATE_PAIR" ELSE IF n THEN "INVALID_HEX"
             ELSE IF ~l THEN "INVALID_SURROGATE_PAIR" ELSE "OK"
  BY <1>3
<1>5. ~e /\ l
  <2> HIDE DEF e, n, l
  <2> QED
    BY <1>4
<1> QED
  BY <1>1, <1>5

LEMMA Utf8Is == ASSUME NEW c \in Nat PROVE Utf8(c) \in Bytes
<1>1. \A k \in Nat : Low6(k) \in Nat
  BY DEF Low6
<1>2. c \div 64 \in Nat /\ c \div 4096 \in Nat /\ c \div 262144 \in Nat
  OBVIOUS
<1> DEFINE a == <<c>>
           b == <<192 + (c \div 64), Low6(c)>>
           d == <<224 + (c \div 4096), Low6(c \div 64), Low6(c)>>
           e == <<240 + (c \div 262144), Low6(c \div 4096), Low6(c \div 64), Low6(c)>>
<1>3. a \in Bytes /\ b \in Bytes /\ d \in Bytes /\ e \in Bytes
  BY <1>1, <1>2 DEF Bytes
<1>4. Utf8(c) = IF c < 128 THEN a ELSE IF c < 2048 THEN b ELSE IF c < 65536 THEN d ELSE e
  BY DEF Utf8
<1> HIDE DEF a, b, d, e
<1> QED
  BY <1>3, <1>4

LEMMA UnitBytesAre ==
    ASSUME NEW s \in Seq(Unit), StringError(s) = "OK", NEW i \in DOMAIN s
    PROVE  UnitBytes(s, i) \in Bytes
<1>1. s[i] \in Unit /\ s[i].code \in Nat
  BY UnitIs
<1> DEFINE a == s[i].kind # "u"
           h == High(s[i].code)
           l == LowHalf(s[i].code) /\ i > 1 /\ s[i - 1].kind = "u" /\ High(s[i - 1].code)
           p == Utf8(Pair(s[i].code, s[i + 1].code))
           u == Utf8(s[i].code)
           c == <<s[i].code>>
<1>2. UnitBytes(s, i) = IF a THEN c ELSE IF h THEN p ELSE IF l THEN << >> ELSE u
  BY DEF UnitBytes
<1>3. c \in Bytes /\ u \in Bytes /\ << >> \in Bytes
  BY <1>1, Utf8Is DEF Bytes
<1>4. ~a /\ h => p \in Bytes
  <2> SUFFICES ASSUME ~a, h PROVE p \in Bytes
    OBVIOUS
  <2>1. i + 1 \in DOMAIN s /\ LowHalf(s[i + 1].code)
    BY StringIsRight, HighIsPaired
  <2>2. s[i + 1].code \in Nat
    BY <2>1, UnitIs
  <2>3. Pair(s[i].code, s[i + 1].code) \in Nat
    <3>1. PICK k \in Nat, m \in Nat : k = s[i].code /\ m = s[i + 1].code
      BY <1>1, <2>2
    <3>2. High(k) /\ LowHalf(m)
      BY <2>1, <3>1
    <3>3. Pair(k, m) \in Nat
      BY <3>2 DEF Pair, High, LowHalf
    <3> QED
      BY <3>1, <3>3
  <2> QED
    BY <2>3, Utf8Is
<1> HIDE DEF a, h, l, p, u, c
<1> QED
  BY <1>2, <1>3, <1>4

LEMMA UnquotedIs ==
    ASSUME NEW s \in Seq(Unit), StringError(s) = "OK"
    PROVE  CString(Unquoted(s)) \in Bytes
<1> DEFINE q == [i \in DOMAIN s |-> UnitBytes(s, i)]
<1>1. \A i \in 1 .. Len(s) : UnitBytes(s, i) \in Seq(Nat)
  BY UnitBytesAre DEF Bytes
<1>2. q = [i \in 1 .. Len(s) |-> UnitBytes(s, i)] /\ Len(s) \in Nat
  OBVIOUS
<1>3. q \in Seq(Seq(Nat))
  BY <1>1, <1>2, IsASeq
<1> HIDE DEF q
<1>4. FlattenSeq(q) \in Bytes
  BY <1>3, FlatInSeq DEF Bytes
<1>5. Unquoted(s) = FlattenSeq(q)
  BY DEF Unquoted, q
<1> QED
  BY <1>4, <1>5, CStringIs

-----------------------------------------------------------------------------
(***************************************************************************)
(* Trees.  Whoever is in a container was allocated after it, has it as the *)
(* parent and is in it once.                                               *)
(***************************************************************************)

Lists(val, mem) ==
    /\ \A p \in 1 .. Len(val) : \A i \in 1 .. Len(mem[p]) :
          /\ mem[p][i] \in p + 1 .. Len(val)
          /\ val[mem[p][i]].parent = p
    /\ \A p \in 1 .. Len(val) : \A i, j \in 1 .. Len(mem[p]) : mem[p][i] = mem[p][j] => i = j

IsTree(val, mem) ==
    /\ val \in Seq(JsonValue) /\ mem \in Seq(Seq(Nat)) /\ Len(mem) = Len(val)
    /\ \A v \in 1 .. Len(val) : val[v].parent \in 0 .. v - 1 /\ Fits(val[v])
    /\ Lists(val, mem)

\* The containers that are being read, one within the other, have no parent yet.
Nested(val, nest) ==
    /\ nest \in Seq(Nat)
    /\ \A i \in 1 .. Len(nest) : nest[i] \in 1 .. Len(val) /\ val[nest[i]].parent = Absent
    /\ \A i, j \in 1 .. Len(nest) : i < j => nest[i] < nest[j]

LEMMA LinkedIs ==
    ASSUME NEW mem \in Seq(Seq(Nat)), NEW p, NEW v \in Nat
    PROVE  /\ Linked(mem, p, v) \in Seq(Seq(Nat)) /\ Len(Linked(mem, p, v)) = Len(mem)
           /\ \A i \in 1 .. Len(mem) :
                 Linked(mem, p, v)[i] = IF i = p THEN Append(mem[i], v) ELSE mem[i]
<1> DEFINE n == Len(mem)
           e(i) == IF i = p THEN Append(mem[i], v) ELSE mem[i]
           f == [i \in 1 .. n |-> e(i)]
<1>1. n \in Nat /\ DOMAIN mem = 1 .. n
  OBVIOUS
<1>2. Linked(mem, p, v) = f
  BY <1>1 DEF Linked
<1>3. \A i \in 1 .. n : e(i) \in Seq(Nat)
  <2> TAKE i \in 1 .. n
  <2>1. mem[i] \in Seq(Nat)
    OBVIOUS
  <2>2. Append(mem[i], v) \in Seq(Nat)
    BY <2>1, AppendProperties
  <2> QED
    BY <2>1, <2>2
<1>4. \A i \in 1 .. n : f[i] = e(i)
  OBVIOUS
<1>5. f \in Seq(Seq(Nat)) /\ Len(f) = n
  <2> HIDE DEF e
  <2> QED
    BY <1>1, <1>3, IsASeq
<1> HIDE DEF f
<1> QED
  BY <1>2, <1>4, <1>5

LEMMA ListIs ==
    ASSUME NEW val, NEW mem, IsTree(val, mem), NEW p \in 1 .. Len(val)
    PROVE  /\ Len(val) \in Nat /\ mem[p] \in Seq(Nat) /\ Len(mem[p]) \in Nat
           /\ val[p] \in JsonValue /\ p \in 1 .. Len(mem)
<1>1. val \in Seq(JsonValue) /\ mem \in Seq(Seq(Nat)) /\ Len(mem) = Len(val)
  BY DEF IsTree
<1>2. p \in 1 .. Len(mem) /\ Len(val) \in Nat
  BY <1>1
<1>3. mem[p] \in Seq(Nat) /\ val[p] \in JsonValue
  BY <1>1, <1>2, ElementOfSeq
<1> QED
  BY <1>2, <1>3

\* A value without a parent is added.
LEMMA RootTree ==
    ASSUME NEW val, NEW mem, IsTree(val, mem),
           NEW r \in JsonValue, Fits(r), r.parent = Absent
    PROVE  IsTree(Append(val, r), Append(mem, << >>))
<1> DEFINE n == Len(val)
           w == Append(val, r)
           m == Append(mem, << >>)
<1>1. val \in Seq(JsonValue) /\ mem \in Seq(Seq(Nat)) /\ Len(mem) = n /\ n \in Nat
  BY DEF IsTree
<1>2. w \in Seq(JsonValue) /\ Len(w) = n + 1 /\ w[n + 1] = r
      /\ \A i \in 1 .. n : w[i] = val[i]
  BY <1>1, AppendProperties
<1>3. m \in Seq(Seq(Nat)) /\ Len(m) = n + 1 /\ m[n + 1] = << >>
      /\ \A i \in 1 .. n : m[i] = mem[i]
  <2>1. << >> \in Seq(Nat)
    OBVIOUS
  <2> QED
    BY <1>1, <2>1, AppendProperties
<1>0. \A i \in 1 .. n + 1 : i = n + 1 \/ i \in 1 .. n
  BY <1>1
<1> HIDE DEF w, m, n
<1>4. \A v \in 1 .. n + 1 : w[v].parent \in 0 .. v - 1 /\ Fits(w[v])
  <2> SUFFICES ASSUME NEW v \in 1 .. n + 1
               PROVE  w[v].parent \in 0 .. v - 1 /\ Fits(w[v])
    OBVIOUS
  <2>1. CASE v = n + 1
    BY <1>1, <1>2, <2>1 DEF Absent
  <2>2. CASE v \in 1 .. n
    BY <1>2, <2>2 DEF IsTree, n
  <2> QED
    BY <1>0, <2>1, <2>2
<1>5. Lists(w, m)
  <2>1. ASSUME NEW p \in 1 .. n + 1, NEW i \in 1 .. Len(m[p])
        PROVE  m[p][i] \in p + 1 .. n + 1 /\ w[m[p][i]].parent = p
    <3>1. CASE p = n + 1
      <4>1. Len(m[p]) = 0
        BY <1>3, <3>1
      <4> QED
        BY <4>1
    <3>2. CASE p \in 1 .. n
      <4>1. mem[p][i] \in p + 1 .. n /\ val[mem[p][i]].parent = p
        BY <1>3, <3>2 DEF IsTree, Lists, n
      <4>2. mem[p][i] \in 1 .. n
        BY <1>1, <3>2, <4>1
      <4>3. mem[p][i] \in p + 1 .. n + 1
        BY <1>1, <3>2, <4>1
      <4> QED
        BY <1>2, <1>3, <3>2, <4>1, <4>2, <4>3
    <3> QED
      BY <1>0, <3>1, <3>2
  <2>2. ASSUME NEW p \in 1 .. n + 1, NEW i \in 1 .. Len(m[p]), NEW j \in 1 .. Len(m[p]),
               m[p][i] = m[p][j]
        PROVE  i = j
    <3>1. CASE p = n + 1
      <4>1. Len(m[p]) = 0
        BY <1>3, <3>1
      <4> QED
        BY <4>1
    <3>2. CASE p \in 1 .. n
      BY <1>3, <2>2, <3>2 DEF IsTree, Lists, n
    <3> QED
      BY <1>0, <3>1, <3>2
  <2> QED
    BY <1>2, <2>1, <2>2 DEF Lists
<1>6. Len(w) = n + 1 /\ Len(m) = Len(w)
  BY <1>2, <1>3
<1>7. IsTree(w, m)
  BY <1>2, <1>3, <1>4, <1>5, <1>6 DEF IsTree
<1> QED
  BY <1>7 DEF w, m

\* A value without a parent is put into a container allocated before it.
LEMMA LinkTree ==
    ASSUME NEW val, NEW mem, IsTree(val, mem), NEW p \in 1 .. Len(val),
           NEW k \in 1 .. Len(val), p < k, val[k].parent = Absent
    PROVE  IsTree([val EXCEPT ![k].parent = p], Linked(mem, p, k))
<1> DEFINE n == Len(val)
           w == [val EXCEPT ![k].parent = p]
           m == Linked(mem, p, k)
           r == [val[k] EXCEPT !.parent = p]
<1>1. val \in Seq(JsonValue) /\ mem \in Seq(Seq(Nat)) /\ Len(mem) = n /\ n \in Nat
  BY DEF IsTree
<1>2. val[k] \in JsonValue /\ p \in Nat /\ k \in Nat
  BY ListIs
<1>3. r \in JsonValue /\ r.parent = p
      /\ r.type = val[k].type /\ r.is = val[k].is /\ r.word = val[k].word
  BY <1>2 DEF JsonValue
<1>4. w = [val EXCEPT ![k] = r]
  OBVIOUS
<1> HIDE DEF r, w
<1>5. w \in Seq(JsonValue) /\ Len(w) = n /\ w[k] = r
      /\ \A v \in 1 .. n : v # k => w[v] = val[v]
  BY <1>1, <1>3, <1>4
<1>6. m \in Seq(Seq(Nat)) /\ Len(m) = n
      /\ \A i \in 1 .. n : m[i] = IF i = p THEN Append(mem[i], k) ELSE mem[i]
  BY <1>1, <1>2, LinkedIs
<1> HIDE DEF m
<1>7. Fits(r) <=> Fits(val[k])
  BY <1>3 DEF Fits, Stands, Is, NumberAs
<1>8. \A v \in 1 .. n : w[v].parent \in 0 .. v - 1 /\ Fits(w[v])
  <2> SUFFICES ASSUME NEW v \in 1 .. n PROVE w[v].parent \in 0 .. v - 1 /\ Fits(w[v])
    OBVIOUS
  <2>1. val[v].parent \in 0 .. v - 1 /\ Fits(val[v])
    BY DEF IsTree
  <2>2. CASE v = k
    BY <1>2, <1>3, <1>5, <1>7, <2>1, <2>2
  <2>3. CASE v # k
    BY <1>5, <2>1, <2>3
  <2> QED
    BY <2>2, <2>3
<1>9. \A q \in 1 .. n : \A i \in 1 .. Len(mem[q]) :
         /\ mem[q][i] \in q + 1 .. n /\ mem[q][i] \in 1 .. n /\ mem[q][i] # k
         /\ val[mem[q][i]].parent = q
  <2> SUFFICES ASSUME NEW q \in 1 .. n, NEW i \in 1 .. Len(mem[q])
               PROVE  /\ mem[q][i] \in q + 1 .. n /\ mem[q][i] \in 1 .. n /\ mem[q][i] # k
                      /\ val[mem[q][i]].parent = q
    OBVIOUS
  <2>1. mem[q][i] \in q + 1 .. n /\ val[mem[q][i]].parent = q
    BY DEF IsTree, Lists
  <2>2. mem[q][i] \in 1 .. n
    BY <1>1, <2>1
  <2>3. q # Absent
    BY DEF Absent
  <2> QED
    BY <2>1, <2>2, <2>3
<1>10. \A q \in 1 .. n : mem[q] \in Seq(Nat) /\ Len(mem[q]) \in Nat
  BY ListIs
<1>11. Append(mem[p], k) \in Seq(Nat) /\ Len(Append(mem[p], k)) = Len(mem[p]) + 1
       /\ Append(mem[p], k)[Len(mem[p]) + 1] = k
       /\ \A i \in 1 .. Len(mem[p]) : Append(mem[p], k)[i] = mem[p][i]
  BY <1>2, <1>10, AppendProperties
<1>12. Lists(w, m)
  <2>1. ASSUME NEW q \in 1 .. n, NEW i \in 1 .. Len(m[q])
        PROVE  m[q][i] \in q + 1 .. n /\ w[m[q][i]].parent = q
    <3>1. CASE q # p
      <4>1. m[q] = mem[q]
        BY <1>6, <3>1
      <4>2. mem[q][i] \in q + 1 .. n /\ mem[q][i] \in 1 .. n /\ mem[q][i] # k
            /\ val[mem[q][i]].parent = q
        BY <1>9, <4>1
      <4> QED
        BY <1>5, <4>1, <4>2
    <3>2. CASE q = p
      <4>1. m[q] = Append(mem[p], k)
        BY <1>6, <3>2
      <4>2. CASE i = Len(mem[p]) + 1
        <5>1. m[q][i] = k /\ k \in q + 1 .. n
          BY <1>1, <1>2, <1>11, <3>2, <4>1, <4>2
        <5> QED
          BY <1>3, <1>5, <3>2, <5>1
      <4>3. CASE i \in 1 .. Len(mem[p])
        <5>1. m[q][i] = mem[p][i]
          BY <1>11, <4>1, <4>3
        <5>2. mem[p][i] \in p + 1 .. n /\ mem[p][i] \in 1 .. n /\ mem[p][i] # k
              /\ val[mem[p][i]].parent = p
          BY <1>9, <4>3
        <5> QED
          BY <1>5, <3>2, <5>1, <5>2
      <4>4. i = Len(mem[p]) + 1 \/ i \in 1 .. Len(mem[p])
        BY <1>10, <1>11, <4>1
      <4> QED
        BY <4>2, <4>3, <4>4
    <3> QED
      BY <3>1, <3>2
  <2>2. ASSUME NEW q \in 1 .. n, NEW i \in 1 .. Len(m[q]), NEW j \in 1 .. Len(m[q]),
               m[q][i] = m[q][j]
        PROVE  i = j
    <3>0. \A a, b \in 1 .. Len(mem[q]) : mem[q][a] = mem[q][b] => a = b
      BY DEF IsTree, Lists
    <3>1. CASE q # p
      <4>1. m[q] = mem[q]
        BY <1>6, <3>1
      <4> QED
        BY <2>2, <3>0, <4>1
    <3>2. CASE q = p
      <4>1. m[q] = Append(mem[p], k)
        BY <1>6, <3>2
      <4>2. \A a \in 1 .. Len(m[q]) : a = Len(mem[p]) + 1 \/ a \in 1 .. Len(mem[p])
        BY <1>10, <1>11, <4>1
      <4>3. \A a \in 1 .. Len(mem[p]) : m[q][a] = mem[p][a] /\ mem[p][a] # k
        BY <1>9, <1>11, <4>1
      <4>4. m[q][Len(mem[p]) + 1] = k
        BY <1>11, <4>1
      <4> QED
        BY <2>2, <3>0, <3>2, <4>2, <4>3, <4>4
    <3> QED
      BY <3>1, <3>2
  <2> QED
    BY <1>5, <2>1, <2>2 DEF Lists
<1>13. Len(w) = n /\ Len(m) = Len(w)
  BY <1>5, <1>6
<1>14. IsTree(w, m)
  BY <1>5, <1>6, <1>8, <1>12, <1>13 DEF IsTree
<1> QED
  BY <1>14 DEF w, m

\* Both: what is allocated is put into a container at once.
LEMMA GrowTree ==
    ASSUME NEW val, NEW mem, IsTree(val, mem), NEW p \in 1 .. Len(val),
           NEW r, GoodValue(r), NEW nm \in Bytes
    PROVE  IsTree(Append(val, [r EXCEPT !.parent = p, !.name = nm]),
                  Linked(Append(mem, << >>), p, Len(val) + 1))
<1> DEFINE n == Len(val)
           s == [r EXCEPT !.name = nm]
           t == [r EXCEPT !.parent = p, !.name = nm]
           w == Append(val, s)
           m == Append(mem, << >>)
<1>1. n \in Nat /\ val \in Seq(JsonValue) /\ p \in Nat
  BY DEF IsTree
<1>2. r \in JsonValue /\ Fits(r) /\ r.parent = Absent
  BY DEF GoodValue
<1>3. s \in JsonValue /\ s.parent = Absent
      /\ s.type = r.type /\ s.is = r.is /\ s.word = r.word
  BY <1>2 DEF JsonValue, Bytes
<1>4. t \in JsonValue /\ t = [s EXCEPT !.parent = p]
  BY <1>1, <1>2 DEF JsonValue, Bytes
<1> HIDE DEF s, t
<1>5. Fits(s)
  BY <1>2, <1>3 DEF Fits, Stands, Is, NumberAs
<1>6. IsTree(w, m)
  BY <1>3, <1>5, RootTree
<1>7. w \in Seq(JsonValue) /\ Len(w) = n + 1 /\ w[n + 1] = s
      /\ \A i \in 1 .. n : w[i] = val[i]
  BY <1>1, <1>3, AppendProperties
<1>8. n + 1 \in 1 .. Len(w) /\ p \in 1 .. Len(w) /\ p < n + 1
  BY <1>1, <1>7
<1> DEFINE k == n + 1
<1>9. IsTree([w EXCEPT ![k].parent = p], Linked(m, p, k))
  <2> HIDE DEF w, m
  <2>1. k \in 1 .. Len(w) /\ p < k /\ w[k].parent = Absent
    BY <1>3, <1>7, <1>8
  <2> HIDE DEF k
  <2> QED
    BY <1>6, <1>8, <2>1, LinkTree
<1>10. [w EXCEPT ![k].parent = p] = Append(val, t)
  <2> DEFINE a == [w EXCEPT ![k].parent = p]
             b == Append(val, t)
  <2>1. a = [w EXCEPT ![k] = t]
    <3> HIDE DEF w, k
    <3>1. w[k] = s
      BY <1>7 DEF k
    <3> QED
      BY <1>4, <3>1
  <2>2. b \in Seq(JsonValue) /\ Len(b) = n + 1 /\ b[n + 1] = t
        /\ \A i \in 1 .. n : b[i] = val[i]
    BY <1>1, <1>4, AppendProperties
  <2> HIDE DEF b, w, a
  <2>3. a \in Seq(JsonValue) /\ Len(a) = n + 1 /\ a[n + 1] = t
        /\ \A i \in 1 .. n : a[i] = val[i]
    BY <1>1, <1>4, <1>7, <1>8, <2>1
  <2>4. \A i \in 1 .. n + 1 : i = n + 1 \/ i \in 1 .. n
    BY <1>1
  <2>5. \A i \in 1 .. Len(a) : a[i] = b[i]
    BY <2>2, <2>3, <2>4
  <2>6. a = b
    BY <2>2, <2>3, <2>5
  <2> QED
    BY <2>6 DEF a, b
<1> QED
  BY <1>9, <1>10 DEF t

\* Whatever is added, the containers that are read stay as they are, and one more may
\* be begun.
LEMMA NestedStays ==
    ASSUME NEW val \in Seq(JsonValue), NEW nest, Nested(val, nest), NEW w \in Seq(JsonValue),
           Len(w) = Len(val) + 1, \A i \in 1 .. Len(val) : w[i].parent = val[i].parent
    PROVE  Nested(w, nest)
<1>1. Len(val) \in Nat
  OBVIOUS
<1>2. \A i \in 1 .. Len(val) : i \in 1 .. Len(w)
  BY <1>1
<1> QED
  BY <1>2 DEF Nested

LEMMA NestedEnters ==
    ASSUME NEW val \in Seq(JsonValue), NEW nest, Nested(val, nest), NEW w \in Seq(JsonValue),
           Len(w) = Len(val) + 1, \A i \in 1 .. Len(val) : w[i].parent = val[i].parent,
           w[Len(val) + 1].parent = Absent
    PROVE  Nested(w, Append(nest, Len(val) + 1))
<1> DEFINE n == Len(val)
           l == Len(nest)
           t == Append(nest, n + 1)
<1>1. n \in Nat /\ nest \in Seq(Nat) /\ l \in Nat
  BY DEF Nested
<1>2. t \in Seq(Nat) /\ Len(t) = l + 1 /\ t[l + 1] = n + 1
      /\ \A i \in 1 .. l : t[i] = nest[i]
  BY <1>1, AppendProperties
<1>3. \A i \in 1 .. l + 1 : i = l + 1 \/ i \in 1 .. l
  BY <1>1
<1>4. Nested(w, nest)
  BY NestedStays
<1>5. \A i \in 1 .. l : nest[i] \in 1 .. n
  BY DEF Nested
<1> HIDE DEF t, n, l
<1>6. ASSUME NEW i \in 1 .. l + 1 PROVE t[i] \in 1 .. Len(w) /\ w[t[i]].parent = Absent
  <2>1. CASE i = l + 1
    BY <1>1, <1>2, <2>1 DEF n
  <2>2. CASE i \in 1 .. l
    BY <1>2, <1>4, <2>2 DEF Nested, l
  <2> QED
    BY <1>3, <2>1, <2>2
<1>7. ASSUME NEW i \in 1 .. l + 1, NEW j \in 1 .. l + 1, i < j PROVE t[i] < t[j]
  <2>1. i \in 1 .. l /\ t[i] = nest[i] /\ nest[i] \in 1 .. n
    BY <1>1, <1>2, <1>5, <1>7
  <2>2. CASE j = l + 1
    BY <1>1, <1>2, <2>1, <2>2
  <2>3. CASE j \in 1 .. l
    <3>1. nest[i] < nest[j]
      BY <1>7, <2>1, <2>3 DEF Nested, l
    <3> QED
      BY <1>2, <2>1, <2>3, <3>1
  <2> QED
    BY <1>3, <2>2, <2>3
<1>8. Nested(w, t)
  BY <1>2, <1>6, <1>7 DEF Nested
<1> QED
  BY <1>8 DEF t, n

LEMMA FrontIs ==
    ASSUME NEW s \in Seq(Nat), s # << >>
    PROVE  /\ Front(s) \in Seq(Nat) /\ Len(Front(s)) = Len(s) - 1 /\ Len(s) \in Nat \ {0}
           /\ \A i \in 1 .. Len(s) - 1 : Front(s)[i] = s[i]
           /\ Last(s) = s[Len(s)]
<1>1. Len(s) \in Nat \ {0}
  OBVIOUS
<1>2. Front(s) = SubSeq(s, 1, Len(s) - 1)
  BY DEF Front
<1>3. 1 \in 1 .. Len(s) + 1 /\ Len(s) - 1 \in 0 .. Len(s)
  BY <1>1
<1>4. Front(s) \in Seq(Nat) /\ Len(Front(s)) = Len(s) - 1
      /\ \A i \in 1 .. Len(s) - 1 : Front(s)[i] = s[i]
  <2> DEFINE k == Len(s) - 1
  <2>1. SubSeq(s, 1, k) \in Seq(Nat) /\ Len(SubSeq(s, 1, k)) = (IF 1 <= k THEN k - 1 + 1 ELSE 0)
        /\ \A i \in 1 .. k - 1 + 1 : SubSeq(s, 1, k)[i] = s[1 + i - 1]
    BY <1>3, SubSeqProperties
  <2>2. k \in Nat
    BY <1>1
  <2> HIDE DEF k
  <2>4. k - 1 + 1 = k
    BY <2>2
  <2>5. (IF 1 <= k THEN k - 1 + 1 ELSE 0) = k
    BY <2>2
  <2>6. \A i \in 1 .. k : 1 + i - 1 = i
    BY <2>2
  <2>3. SubSeq(s, 1, k) \in Seq(Nat) /\ Len(SubSeq(s, 1, k)) = k
        /\ \A i \in 1 .. k : SubSeq(s, 1, k)[i] = s[i]
    BY <2>1, <2>4, <2>5, <2>6
  <2> QED
    BY <1>2, <2>3 DEF k
<1> QED
  BY <1>1, <1>4 DEF Last

\* The innermost has been read and is put into the one around it.
LEMMA NestedLeaves ==
    ASSUME NEW val, NEW mem, IsTree(val, mem), NEW nest, Nested(val, nest), nest # << >>
    PROVE  /\ Nested(val, Front(nest))
           /\ Last(nest) \in 1 .. Len(val)
           /\ Front(nest) # << >> =>
                /\ Last(Front(nest)) \in 1 .. Len(val) /\ Last(Front(nest)) < Last(nest)
                /\ val[Last(nest)].parent = Absent
                /\ \A q \in Nat : Nested([val EXCEPT ![Last(nest)].parent = q], Front(nest))
<1> DEFINE l == Len(nest)
           f == Front(nest)
           k == Last(nest)
<1>1. nest \in Seq(Nat) /\ val \in Seq(JsonValue)
  BY DEF Nested, IsTree
<1>2. f \in Seq(Nat) /\ Len(f) = l - 1 /\ l \in Nat \ {0}
      /\ (\A i \in 1 .. l - 1 : f[i] = nest[i]) /\ k = nest[l]
  BY <1>1, FrontIs
<1>3. \A i \in 1 .. l - 1 : i \in 1 .. l /\ i < l /\ l \in 1 .. l
  BY <1>2
<1>4. l \in 1 .. l
  BY <1>2
<1>5. \A i \in 1 .. l : nest[i] \in 1 .. Len(val) /\ val[nest[i]].parent = Absent
  BY DEF Nested
<1>6. \A i, j \in 1 .. l : i < j => nest[i] < nest[j]
  BY DEF Nested
<1> HIDE DEF f, k, l
<1>7. Nested(val, f)
  BY <1>2, <1>3, <1>5, <1>6 DEF Nested
<1>8. k \in 1 .. Len(val) /\ val[k].parent = Absent
  BY <1>2, <1>4, <1>5
<1>9. f # << >> => Last(f) \in 1 .. Len(val) /\ Last(f) < k
  <2> SUFFICES ASSUME f # << >> PROVE Last(f) \in 1 .. Len(val) /\ Last(f) < k
    OBVIOUS
  <2>1. Len(f) \in Nat \ {0} /\ Last(f) = f[Len(f)]
    BY <1>2, FrontIs
  <2>2. Len(f) \in 1 .. l - 1
    BY <1>2, <2>1
  <2> QED
    BY <1>2, <1>3, <1>5, <1>6, <2>1, <2>2
<1>10. ASSUME NEW q \in Nat PROVE Nested([val EXCEPT ![k].parent = q], f)
  <2> DEFINE w == [val EXCEPT ![k].parent = q]
  <2>1. Len(w) = Len(val) /\ \A i \in 1 .. Len(val) : i # k => w[i] = val[i]
    BY <1>1
  <2> HIDE DEF w
  <2>2. \A i \in 1 .. Len(f) : f[i] \in 1 .. Len(val) /\ f[i] # k
    <3>1. \A i \in 1 .. l - 1 : nest[i] < nest[l] /\ nest[i] \in 1 .. Len(val)
      BY <1>3, <1>5, <1>6
    <3>2. \A i \in 1 .. l - 1 : nest[i] # nest[l]
      BY <1>4, <1>5, <3>1
    <3> QED
      BY <1>2, <3>1, <3>2
  <2>3. Nested(w, f)
    BY <1>7, <2>1, <2>2 DEF Nested
  <2> QED
    BY <2>3 DEF w
<1> QED
  BY <1>7, <1>8, <1>9, <1>10 DEF f, k

-----------------------------------------------------------------------------
(* What is read *)

ReadInv ==
    /\ IsTree(value, members) /\ Nested(value, nesting)
    /\ name \in Bytes /\ want \in {"[", "{"}
    /\ place \notin {"start", "trailing"} => nesting # << >>

\* A value without a parent, part by part.
Record(t, s, f, w) ==
    [type |-> t, parent |-> Absent, name |-> << >>, text |-> s, is |-> f, word |-> w]
WithWord(r, w) == [r EXCEPT !.word = w]
WithText(r, s) == [r EXCEPT !.text = s]

LEMMA RecordChanges ==
    ASSUME NEW t, NEW s, NEW f, NEW w, NEW x
    PROVE  /\ WithWord(Record(t, s, f, w), x) = Record(t, s, f, x)
           /\ WithText(Record(t, s, f, w), x) = Record(t, x, f, w)
  BY DEF WithWord, WithText, Record

LEMMA ScalarsAreGood ==
    /\ GoodValue(Value("null")) /\ GoodValue(Value("boolean"))
    /\ GoodValue([Value("boolean") EXCEPT !.word = 1])
    /\ GoodValue(Value("array")) /\ GoodValue(Value("object"))
    /\ \A s \in Bytes : GoodValue([Value("string") EXCEPT !.text = s])
    /\ \A d \in Int : GoodValue(DoubleOf(d))
    /\ \A n \in Signed(5) : GoodValue(LLong(n))
    /\ \A n \in Unsigned(5) : GoodValue(ULLong(n))
<1> DEFINE R(t, s, f, w) == Record(t, s, f, w)
<1>1. ASSUME NEW t \in TypeNames, NEW s \in Bytes, NEW f \in SUBSET Flag, NEW w \in Int,
             t = "number" => <<"double", 0>> \in f
      PROVE  GoodValue(R(t, s, f, w))
  <2> DEFINE r == R(t, s, f, w)
  <2>1. r.type = t /\ r.is = f /\ r.parent = Absent
    BY DEF Record
  <2>2. r \in JsonValue
    BY DEF JsonValue, Absent, Bytes, Record
  <2> HIDE DEF r
  <2>3. Fits(r)
    BY <1>1, <2>1 DEF Fits, Is
  <2>4. GoodValue(r)
    BY <2>1, <2>2, <2>3 DEF GoodValue
  <2> QED
    BY <2>4 DEF r
<1>2. << >> \in Bytes /\ {} \in SUBSET Flag /\ 0 \in Int /\ 1 \in Int
      /\ {<<"double", 0>>} \in SUBSET Flag /\ <<"double", 0>> \in {<<"double", 0>>}
  BY DEF Bytes, Flag
<1>3. \A t \in TypeNames : Value(t) = R(t, << >>, {}, 0)
  BY DEF Value, Record
<1>4. WithWord(Value("boolean"), 1) = R("boolean", << >>, {}, 1)
  BY <1>3, RecordChanges DEF TypeNames
<1>5. \A s : WithText(Value("string"), s) = R("string", s, {}, 0)
  BY <1>3, RecordChanges DEF TypeNames
<1>6. \A d : DoubleOf(d) = R("number", << >>, {<<"double", 0>>}, d)
  <2> TAKE d
  <2> DEFINE f == {<<"double", 0>>}
  <2>1. DoubleOf(d) = [Value("number") EXCEPT !.word = d, !.is = f]
    BY DEF DoubleOf
  <2> HIDE DEF f
  <2>2. DoubleOf(d) = R("number", << >>, f, d)
    BY <2>1 DEF Value, Record
  <2> QED
    BY <2>2 DEF f
<1> HIDE DEF R
<1>7. "null" \in TypeNames /\ "boolean" \in TypeNames /\ "string" \in TypeNames
      /\ "number" \in TypeNames /\ "array" \in TypeNames /\ "object" \in TypeNames
  BY DEF TypeNames
<1>8. GoodValue(Value("null")) /\ GoodValue(Value("boolean"))
      /\ GoodValue(Value("array")) /\ GoodValue(Value("object"))
  BY <1>1, <1>2, <1>3, <1>7
<1>9. GoodValue([Value("boolean") EXCEPT !.word = 1])
  <2>1. GoodValue(WithWord(Value("boolean"), 1))
    BY <1>1, <1>2, <1>4, <1>7
  <2> QED
    BY <2>1 DEF WithWord
<1>10. \A s \in Bytes : GoodValue([Value("string") EXCEPT !.text = s])
  <2>1. \A s \in Bytes : GoodValue(WithText(Value("string"), s))
    BY <1>1, <1>2, <1>5, <1>7
  <2> QED
    BY <2>1 DEF WithText
<1>11. \A d \in Int : GoodValue(DoubleOf(d))
  BY <1>1, <1>2, <1>6, <1>7
<1>12. \A n \in Signed(5) : GoodValue(LLong(n))
  BY LLongIs, NumberIsGood
<1>13. \A n \in Unsigned(5) : GoodValue(ULLong(n))
  BY ULLongIs, NumberIsGood
<1> QED
  BY <1>8, <1>9, <1>10, <1>11, <1>12, <1>13

LEMMA NumberValueIsGood ==
    ASSUME NEW n \in Numeral PROVE GoodValue(NumberValue(n))
<1>1. n.int \in Nat /\ n.double \in Int
  BY NumeralAssumption
<1>2. CASE IsInteger(n) /\ n.minus
  <2>1. -n.int \in Signed(5) /\ NumberValue(n) = LLong(-n.int)
    BY <1>2 DEF IsInteger, NumberValue
  <2> QED
    BY <2>1, ScalarsAreGood
<1>3. CASE IsInteger(n) /\ ~n.minus
  <2>1. n.int \in Unsigned(5) /\ NumberValue(n) = ULLong(n.int)
    BY <1>3 DEF IsInteger, NumberValue
  <2> QED
    BY <2>1, ScalarsAreGood
<1>4. CASE ~IsInteger(n)
  <2>1. NumberValue(n) = DoubleOf(n.double)
    BY <1>4 DEF NumberValue
  <2> QED
    BY <1>1, <2>1, ScalarsAreGood
<1> QED
  BY <1>2, <1>3, <1>4

-----------------------------------------------------------------------------
(* Steps *)

LEMMA NamedIsGood ==
    ASSUME NEW r, GoodValue(r), NEW nm \in Bytes
    PROVE  GoodValue([r EXCEPT !.name = nm])
<1> DEFINE s == [r EXCEPT !.name = nm]
<1>1. r \in JsonValue /\ Fits(r) /\ r.parent = Absent
  BY DEF GoodValue
<1>2. s \in JsonValue /\ s.parent = Absent
      /\ s.type = r.type /\ s.is = r.is /\ s.word = r.word
  BY <1>1 DEF JsonValue, Bytes
<1> HIDE DEF s
<1>3. Fits(s)
  BY <1>1, <1>2 DEF Fits, Stands, Is, NumberAs
<1>4. GoodValue(s)
  BY <1>2, <1>3 DEF GoodValue
<1> QED
  BY <1>4 DEF s

\* A scalar is put into a container that is there; whatever is being read stays.
LEMMA AddKeeps ==
    ASSUME NEW val, NEW mem, IsTree(val, mem), NEW nest, Nested(val, nest),
           NEW p \in 1 .. Len(val), NEW r, GoodValue(r), NEW nm \in Bytes
    PROVE  /\ IsTree(Append(val, [r EXCEPT !.parent = p, !.name = nm]),
                     Linked(Append(mem, << >>), p, Len(val) + 1))
           /\ Nested(Append(val, [r EXCEPT !.parent = p, !.name = nm]), nest)
<1> DEFINE t == [r EXCEPT !.parent = p, !.name = nm]
           w == Append(val, t)
<1>1. IsTree(w, Linked(Append(mem, << >>), p, Len(val) + 1))
  BY GrowTree
<1>2. val \in Seq(JsonValue) /\ p \in Nat /\ r \in JsonValue
  BY DEF IsTree, GoodValue
<1>3. t \in JsonValue
  BY <1>2 DEF JsonValue, Bytes
<1> HIDE DEF t
<1>4. w \in Seq(JsonValue) /\ Len(w) = Len(val) + 1 /\ \A i \in 1 .. Len(val) : w[i] = val[i]
  BY <1>2, <1>3, AppendProperties
<1> HIDE DEF w
<1>5. Nested(w, nest)
  BY <1>2, <1>4, NestedStays
<1> QED
  BY <1>1, <1>5 DEF w, t

\* A value without a parent is allocated.
LEMMA AllocateKeeps ==
    ASSUME NEW val, NEW mem, IsTree(val, mem), NEW nest, Nested(val, nest),
           NEW r, GoodValue(r)
    PROVE  /\ IsTree(Append(val, r), Append(mem, << >>))
           /\ Nested(Append(val, r), nest)
           /\ Nested(Append(val, r), Append(nest, Len(val) + 1))
<1> DEFINE w == Append(val, r)
<1>1. r \in JsonValue /\ Fits(r) /\ r.parent = Absent /\ val \in Seq(JsonValue)
  BY DEF GoodValue, IsTree
<1>2. IsTree(w, Append(mem, << >>))
  BY <1>1, RootTree
<1>3. w \in Seq(JsonValue) /\ Len(w) = Len(val) + 1 /\ w[Len(val) + 1] = r
      /\ \A i \in 1 .. Len(val) : w[i] = val[i]
  BY <1>1, AppendProperties
<1> HIDE DEF w
<1>4. Nested(w, nest) /\ Nested(w, Append(nest, Len(val) + 1))
  BY <1>1, <1>3, NestedStays, NestedEnters
<1> QED
  BY <1>2, <1>4 DEF w

LEMMA RejectKeeps ==
    ASSUME ReadInv, NEW e, Reject(e) PROVE ReadInv'
  BY DEF ReadInv, Reject

LEMMA ProceedKeeps ==
    ASSUME ReadInv, nesting # << >>, NEW l, Proceed(l) PROVE ReadInv'
  BY DEF ReadInv, Proceed

LEMMA PutKeeps ==
    ASSUME ReadInv, nesting # << >>, NEW v, GoodValue(v), Put(v) PROVE ReadInv'
<1>1. IsTree(value, members) /\ Nested(value, nesting) /\ name \in Bytes
  BY DEF ReadInv
<1>2. Here \in 1 .. Len(value)
  BY <1>1, NestedLeaves DEF Here
<1>3. PICK p \in 1 .. Len(value) : p = Here
  BY <1>2
<1>4. value' = Append(value, [v EXCEPT !.parent = p, !.name = name])
      /\ members' = Linked(Append(members, << >>), p, Len(value) + 1)
  BY <1>3 DEF Put, Attached
<1>5. nesting' = nesting /\ name' = name /\ want' = want
  BY DEF Put
<1>6. IsTree(value', members') /\ Nested(value', nesting)
  BY <1>1, <1>4, AddKeeps
<1> QED
  BY <1>5, <1>6 DEF ReadInv

LEMMA EnterKeeps ==
    ASSUME ReadInv, NEW type \in Containers, Enter(type) PROVE ReadInv'
<1>1. IsTree(value, members) /\ Nested(value, nesting) /\ name \in Bytes
  BY DEF ReadInv
<1>2. GoodValue(Value(type))
  BY ScalarsAreGood DEF Containers
<1> DEFINE r == [Value(type) EXCEPT !.name = name]
<1>3. GoodValue(r)
  BY <1>1, <1>2, NamedIsGood
<1>4. value' = Append(value, r) /\ members' = Append(members, << >>)
      /\ nesting' = Append(nesting, Len(value) + 1) /\ name' = << >> /\ want' = want
  BY DEF Enter
<1> HIDE DEF r
<1>5. IsTree(value', members') /\ Nested(value', nesting')
  BY <1>1, <1>3, <1>4, AllocateKeeps
<1>6. nesting' # << >>
  <2>1. nesting \in Seq(Nat) /\ Len(value) + 1 \in Nat
    BY <1>1 DEF Nested, IsTree
  <2>2. Len(nesting') = Len(nesting) + 1 /\ Len(nesting) \in Nat
    BY <1>4, <2>1, AppendProperties
  <2>3. Len(nesting') # 0
    BY <2>2
  <2> QED
    BY <2>3
<1>7. << >> \in Bytes
  BY DEF Bytes
<1> QED
  BY <1>4, <1>5, <1>6, <1>7 DEF ReadInv

LEMMA LeaveKeeps ==
    ASSUME ReadInv, nesting # << >>, Leave PROVE ReadInv'
<1>1. IsTree(value, members) /\ Nested(value, nesting) /\ want \in {"[", "{"}
  BY DEF ReadInv
<1>2. nesting' = Front(nesting) /\ place' = Within(Front(nesting)) /\ name' = << >>
      /\ want' = want
  BY DEF Leave
<1>3. << >> \in Bytes
  BY DEF Bytes
<1>4. place' # "trailing" => nesting' # << >>
  BY <1>2 DEF Within
<1>5. CASE Front(nesting) = << >>
  <2>1. value' = value /\ members' = members
    BY <1>5 DEF Leave
  <2>2. Nested(value, Front(nesting))
    BY <1>1, NestedLeaves
  <2> QED
    BY <1>1, <1>2, <1>3, <1>4, <2>1, <2>2 DEF ReadInv
<1>6. CASE Front(nesting) # << >>
  <2>1. PICK p, k : p = Last(Front(nesting)) /\ k = Last(nesting)
    OBVIOUS
  <2>2. members' = Linked(members, p, k) /\ value' = [value EXCEPT ![k].parent = p]
    BY <1>6, <2>1 DEF Leave, Here
  <2>3. /\ k \in 1 .. Len(value) /\ p \in 1 .. Len(value) /\ p < k
        /\ value[k].parent = Absent
        /\ \A q \in Nat : Nested([value EXCEPT ![k].parent = q], Front(nesting))
    BY <1>1, <1>6, <2>1, NestedLeaves
  <2>4. IsTree(value', members')
    BY <1>1, <2>2, <2>3, LinkTree
  <2>5. Nested(value', nesting')
    <3>1. p \in Nat
      BY <2>3
    <3> QED
      BY <1>2, <2>2, <2>3, <3>1
  <2> QED
    BY <1>1, <1>2, <1>3, <1>4, <2>4, <2>5 DEF ReadInv
<1> QED
  BY <1>5, <1>6

LEMMA TokenIs ==
    ASSUME NEW x \in AnyToken
    PROVE  /\ x.kind = "string" => x.says \in Quoted
           /\ x.kind = "number" => x.says \in Numeral
<1>1. CASE x \in {Mark(k) : k \in Marks \cup {"unended", "end"}}
  <2>1. PICK k \in Marks \cup {"unended", "end"} : x = Mark(k)
    BY <1>1
  <2>2. k # "string" /\ k # "number"
    BY DEF Marks
  <2>3. x.kind = k
    BY <2>1 DEF Mark, Token
  <2> QED
    BY <2>2, <2>3
<1>2. CASE x \in {Token("string", s) : s \in Quoted}
  BY <1>2 DEF Token
<1>3. CASE x \in {Token("number", n) : n \in Numeral}
  BY <1>3 DEF Token
<1> QED
  BY <1>1, <1>2, <1>3 DEF AnyToken

LEMMA ReadValueKeeps ==
    ASSUME ReadInv, NEW x \in AnyToken, ReadValue(x),
           nesting # << >> \/ x.kind \in {"[", "{"}
    PROVE  ReadInv'
<1>1. ASSUME NEW e, Reject(e) PROVE ReadInv'
  BY <1>1, RejectKeeps
<1>2. CASE \E e : Reject(e)
  BY <1>1, <1>2
<1>3. CASE (x.kind = "[" /\ Enter("array")) \/ (x.kind = "{" /\ Enter("object"))
  BY <1>3, EnterKeeps DEF Containers
<1>4. ASSUME NEW v, GoodValue(v), Put(v), x.kind \notin {"[", "{"} PROVE ReadInv'
  BY <1>4, PutKeeps
<1>5. CASE x.kind = "null" /\ Put(Value("null"))
  BY <1>4, <1>5, ScalarsAreGood
<1>6. CASE x.kind = "true" /\ Put([Value("boolean") EXCEPT !.word = 1])
  BY <1>4, <1>6, ScalarsAreGood
<1>7. CASE x.kind = "false" /\ Put(Value("boolean"))
  BY <1>4, <1>7, ScalarsAreGood
<1>8. CASE x.kind = "string" /\ StringError(x.says) = "OK"
           /\ Put([Value("string") EXCEPT !.text = CString(Unquoted(x.says))])
  <2>1. x.says \in Seq(Unit)
    BY <1>8, TokenIs, QuotedAssumption
  <2>2. CString(Unquoted(x.says)) \in Bytes
    BY <1>8, <2>1, UnquotedIs
  <2> QED
    BY <1>4, <1>8, <2>2, ScalarsAreGood
<1>9. CASE x.kind = "number" /\ Put(NumberValue(x.says))
  <2>1. GoodValue(NumberValue(x.says))
    BY <1>9, TokenIs, NumberValueIsGood
  <2> QED
    BY <1>4, <1>9, <2>1
<1>10. \/ \E e : Reject(e)
       \/ x.kind = "[" /\ Enter("array")
       \/ x.kind = "{" /\ Enter("object")
       \/ x.kind = "null" /\ Put(Value("null"))
       \/ x.kind = "true" /\ Put([Value("boolean") EXCEPT !.word = 1])
       \/ x.kind = "false" /\ Put(Value("boolean"))
       \/ /\ x.kind = "string" /\ StringError(x.says) = "OK"
          /\ Put([Value("string") EXCEPT !.text = CString(Unquoted(x.says))])
       \/ x.kind = "number" /\ Put(NumberValue(x.says))
  BY Zenon DEF ReadValue
<1> QED
  BY <1>2, <1>3, <1>5, <1>6, <1>7, <1>8, <1>9, <1>10

LEMMA TokenStepKeeps ==
    ASSUME ReadInv, NEW x \in AnyToken, TokenStep(x) PROVE ReadInv'
<1>1. place \notin {"start", "trailing"} => nesting # << >>
  BY DEF ReadInv
<1>2. ASSUME NEW e, Reject(e) PROVE ReadInv'
  BY <1>2, RejectKeeps
<1>3. CASE ParseStart(x)
  <2>1. want \in {"[", "{"}
    BY DEF ReadInv
  <2>2. CASE x.kind = want
    <3>1. ReadValue(x)
      BY <1>3, <2>1, <2>2 DEF ParseStart
    <3> QED
      BY <2>1, <2>2, <3>1, ReadValueKeeps
  <2>3. CASE x.kind # want
    <3>1. \E e : Reject(e)
      BY <1>3, <2>3 DEF ParseStart
    <3> QED
      BY <1>2, <3>1
  <2> QED
    BY <2>2, <2>3
<1>4. CASE ParseElements(x)
  <2>1. nesting # << >> /\ (Leave \/ ReadValue(x))
    BY <1>1, <1>4 DEF ParseElements
  <2> QED
    BY <2>1, LeaveKeeps, ReadValueKeeps
<1>5. CASE ParseArray(x)
  <2>1. nesting # << >> /\ (Proceed("element") \/ Leave \/ Reject("CORRUPTED_ARRAY"))
    BY <1>1, <1>5 DEF ParseArray
  <2> QED
    BY <1>2, <2>1, LeaveKeeps, ProceedKeeps
<1>6. CASE ParseMembers(x)
  <2> DEFINE named == /\ x.kind = "string" /\ StringError(x.says) = "OK"
                      /\ name' = CString(Unquoted(x.says)) /\ place' = "colon"
                      /\ UNCHANGED <<want, nesting, result, value, members>>
  <2>1. nesting # << >> /\ (Leave \/ (\E e : Reject(e)) \/ named)
    BY <1>1, <1>6 DEF ParseMembers
  <2>2. CASE named
    <3>1. x.says \in Seq(Unit)
      BY <2>2, TokenIs, QuotedAssumption
    <3>2. CString(Unquoted(x.says)) \in Bytes
      BY <2>2, <3>1, UnquotedIs
    <3> QED
      BY <2>1, <2>2, <3>2 DEF ReadInv
  <2> HIDE DEF named
  <2> QED
    BY <1>2, <2>1, <2>2, LeaveKeeps
<1>7. CASE ParseColon(x)
  <2>1. nesting # << >> /\ (Proceed("named") \/ Reject("COLON_EXPECTED"))
    BY <1>1, <1>7 DEF ParseColon
  <2> QED
    BY <1>2, <2>1, ProceedKeeps
<1>8. CASE ParseNamed(x)
  <2>1. nesting # << >> /\ ReadValue(x)
    BY <1>1, <1>8 DEF ParseNamed
  <2> QED
    BY <2>1, ReadValueKeeps
<1>9. CASE ParseObject(x)
  <2>1. nesting # << >> /\ (Proceed("member") \/ Leave \/ Reject("CORRUPTED_OBJECT"))
    BY <1>1, <1>9 DEF ParseObject
  <2> QED
    BY <1>2, <2>1, LeaveKeeps, ProceedKeeps
<1>10. CASE ParseTrailing(x)
  BY <1>2, <1>10 DEF ParseTrailing
<1> QED
  BY <1>3, <1>4, <1>5, <1>6, <1>7, <1>8, <1>9, <1>10 DEF TokenStep

LEMMA ConstructKeeps ==
    ASSUME ReadInv, Construct PROVE ReadInv'
<1>1. IsTree(value, members) /\ Nested(value, nesting)
  BY DEF ReadInv
<1>2. UNCHANGED <<want, place, nesting, name>> /\ Build(Numbers, Strings, Names)
  BY DEF Construct, jsonParseVars
<1>3. \A v \in Scalars(Numbers, Strings) : GoodValue(v)
  <2>1. Strings \subseteq Bytes /\ Double \subseteq Int
    BY ContentAssumption, DoubleAssumption DEF Bytes
  <2>2. \A b \in 0 .. 1 : GoodValue([Value("boolean") EXCEPT !.word = b])
    <3>1. [Value("boolean") EXCEPT !.word = 0] = Value("boolean")
      <4>1. Value("boolean") = Record("boolean", << >>, {}, 0)
        BY DEF Value, Record
      <4>2. WithWord(Value("boolean"), 0) = Value("boolean")
        BY <4>1, RecordChanges
      <4> QED
        BY <4>2 DEF WithWord
    <3>2. \A b \in 0 .. 1 : b = 0 \/ b = 1
      OBVIOUS
    <3> QED
      BY <3>1, <3>2, ScalarsAreGood
  <2> SUFFICES ASSUME NEW v \in Scalars(Numbers, Strings) PROVE GoodValue(v)
    OBVIOUS
  <2>3. \/ v = Value("null")
        \/ \E b \in 0 .. 1 : v = [Value("boolean") EXCEPT !.word = b]
        \/ \E s \in Strings : v = [Value("string") EXCEPT !.text = s]
        \/ \E n \in Signed(5) : v = LLong(n)
        \/ \E n \in Unsigned(5) : v = ULLong(n)
        \/ \E d \in Double : v = DoubleOf(d)
    BY Zenon DEF Scalars
  <2> QED
    BY <2>1, <2>2, <2>3, ScalarsAreGood
<1>4. \A t \in Containers : GoodValue(Value(t))
  BY ScalarsAreGood DEF Containers
<1>5. CASE \E t \in Containers : New(t)
  <2>1. PICK t \in Containers :
            value' = Append(value, Value(t)) /\ members' = Append(members, << >>)
    BY <1>5 DEF New, Allocate
  <2>2. PICK r : r = Value(t) /\ GoodValue(r)
    BY <1>4
  <2>3. IsTree(value', members') /\ Nested(value', nesting)
    BY <1>1, <2>1, <2>2, AllocateKeeps
  <2> QED
    BY <1>2, <2>3 DEF ReadInv
<1>6. CASE \E p \in DOMAIN value,
              v \in Scalars(Numbers, Strings) \cup {Value(t) : t \in Containers} :
              Push(p, v) \/ \E nm \in Names : Set(p, nm, v)
  <2>1. PICK p \in DOMAIN value,
             v \in Scalars(Numbers, Strings) \cup {Value(t) : t \in Containers} :
             Push(p, v) \/ \E nm \in Names : Set(p, nm, v)
    BY <1>6
  <2>2. GoodValue(v)
    BY <1>3, <1>4
  <2>3. p \in 1 .. Len(value)
    BY <1>1 DEF IsTree
  <2>4. PICK nm \in Bytes : Attached(p, nm, v)
    <3>1. << >> \in Bytes /\ Names \subseteq Bytes
      BY ContentAssumption DEF Bytes
    <3> QED
      BY <2>1, <3>1 DEF Push, Set
  <2>5. value' = Append(value, [v EXCEPT !.parent = p, !.name = nm])
        /\ members' = Linked(Append(members, << >>), p, Len(value) + 1)
    BY <2>4 DEF Attached
  <2>6. IsTree(value', members') /\ Nested(value', nesting)
    BY <1>1, <2>2, <2>3, <2>5, AddKeeps
  <2> QED
    BY <1>2, <2>6 DEF ReadInv
<1> QED
  BY <1>2, <1>5, <1>6 DEF Build

\* The tree stays one while it is read, built and printed: whoever is in a container
\* was allocated after it, has it as the parent and is in it once; the containers the
\* parser is within are nested and in none yet; and every number answers for the types
\* that hold it.  (ndm_json_array_push_(), ndm_json_object_set_(), ndm_json_parse_value_())
THEOREM ReadingInvariance == Spec => []ReadInv
<1>1. JsonInit /\ JsonParserInit /\ PrinterInit => ReadInv
  <2> SUFFICES ASSUME JsonInit, JsonParserInit PROVE ReadInv
    OBVIOUS
  <2>1. value = << >> /\ members = << >> /\ nesting = << >> /\ name = << >>
        /\ place = "start" /\ want \in {"[", "{"}
    BY DEF JsonInit, JsonParserInit
  <2>2. IsTree(<< >>, << >>)
    <3>1. << >> \in Seq(JsonValue) /\ << >> \in Seq(Seq(Nat)) /\ Len(<< >>) = 0
      OBVIOUS
    <3> QED
      BY <3>1 DEF IsTree, Lists
  <2>3. Nested(<< >>, << >>) /\ << >> \in Bytes
    BY DEF Nested, Bytes
  <2> QED
    BY <2>1, <2>2, <2>3 DEF ReadInv
<1>2. ReadInv /\ [JsonNext]_documentVars => ReadInv'
  <2> SUFFICES ASSUME ReadInv, [JsonNext]_documentVars PROVE ReadInv'
    OBVIOUS
  <2>1. CASE Parse
    BY <2>1, TokenStepKeeps DEF Parse, JsonParserNext
  <2>2. CASE Construct
    BY <2>2, ConstructKeeps
  <2>3. CASE PrintOut
    <3>1. UNCHANGED <<value, members>> /\ UNCHANGED jsonParseVars
      BY <2>3 DEF PrintOut, PrinterNext, StartPrinting, PrintTask, EndPrinting
    <3> QED
      BY <3>1 DEF ReadInv, jsonParseVars
  <2>4. CASE UNCHANGED documentVars
    BY <2>4 DEF ReadInv, documentVars, jsonVars, jsonParseVars
  <2> QED
    BY <2>1, <2>2, <2>3, <2>4 DEF JsonNext
<1> QED
  BY <1>1, <1>2, PTL DEF Spec

\* A number, parsed or given to a call, answers to exactly the types that hold it, and
\* each of them reads it back whole from the one word it is kept in, whatever the widths
\* of the types are.  (ndm_json_value_append_llong_flags_(), ndm_json_value_char())
THEOREM NumbersStayFit == Spec => []NumbersFitTheirTypes
<1>1. ReadInv => NumbersFitTheirTypes
  <2> SUFFICES ASSUME ReadInv, NEW v \in DOMAIN value, value[v].type = "number",
                      ~Is(value[v], <<"double", 0>>)
               PROVE  \E n \in Signed(5) \cup Unsigned(5) : Stands(value[v], n)
    BY DEF NumbersFitTheirTypes, Stands
  <2>1. IsTree(value, members)
    BY DEF ReadInv
  <2>3. v \in 1 .. Len(value)
    BY <2>1 DEF IsTree
  <2>2. Fits(value[v])
    BY <2>1, <2>3 DEF IsTree
  <2> QED
    BY <2>2 DEF Fits
<1> QED
  BY <1>1, ReadingInvariance, PTL

-----------------------------------------------------------------------------
(* What is printed of a document *)

Signs ==
    {"{", "}", "[", "]", ",", ":", " ", "\n", "\r", "quote", "backslash", "0", "a", "b", "e",
     "f", "l", "n", "r", "s", "t", "u", "double", "number"}
Chars == Int \cup Signs
Task == [do : {"char", "data", "rest", "value"}, text : Seq(Chars), of : Nat, from : Nat]
Plain(t) ==
    /\ t \in Task /\ t.do \in {"char", "data"} /\ (t.do = "char" => Len(t.text) = 1)

LEMMA CharsAre == (\A n \in Int : n \in Chars) /\ (\A c \in Signs : c \in Chars)
  BY DEF Chars

LEMMA ShortTexts ==
    /\ << >> \in Seq(Chars)
    /\ \A c \in Chars : <<c>> \in Seq(Chars)
    /\ \A c, e \in Chars : <<c, e>> \in Seq(Chars)
  OBVIOUS

LEMMA CharIs == ASSUME NEW c \in Chars PROVE Plain(Char(c)) /\ Char(c).text = <<c>>
<1>1. <<c>> \in Seq(Chars) /\ Len(<<c>>) = 1
  OBVIOUS
<1> QED
  BY <1>1 DEF Plain, Char, Task, Absent

LEMMA DataIs == ASSUME NEW s \in Seq(Chars) PROVE Plain(Data(s)) /\ Data(s).text = s
  BY DEF Plain, Data, Task, Absent

LEMMA LettersAre == \A c \in DOMAIN Letters : Letters[c] \in Chars
<1>1. "b" \in Chars /\ "t" \in Chars /\ "n" \in Chars /\ "f" \in Chars /\ "r" \in Chars
      /\ "quote" \in Chars /\ "backslash" \in Chars
  BY CharsAre DEF Signs
<1>2. ASSUME NEW c \in {8, 9, 10, 12, 13, 34, 92}
      PROVE  Letters[c] \in {"b", "t", "n", "f", "r", "quote", "backslash"}
  BY DEF Letters
<1>3. DOMAIN Letters = {8, 9, 10, 12, 13, 34, 92}
  BY DEF Letters
<1> QED
  BY <1>1, <1>2, <1>3

LEMMA EscapedIsPlain == ASSUME NEW c \in Nat PROVE Plain(Escaped(c))
<1>1. "backslash" \in Chars /\ "u" \in Chars /\ "0" \in Chars
  BY CharsAre DEF Signs
<1>2. c \in Chars /\ c \div 16 \in Chars /\ c % 16 \in Chars
  BY CharsAre
<1>3. c \in DOMAIN Letters => <<"backslash", Letters[c]>> \in Seq(Chars)
  BY <1>1, LettersAre
<1>4. <<"backslash", "u", "0", "0", c \div 16, c % 16>> \in Seq(Chars)
  BY <1>1, <1>2
<1> QED
  BY <1>2, <1>3, <1>4, CharIs, DataIs DEF Escaped
Plains(s) == s \in Seq(Task) /\ \A i \in 1 .. Len(s) : Plain(s[i])

LEMMA PlainsJoin ==
    ASSUME NEW s, Plains(s), NEW t, Plains(t) PROVE Plains(s \o t)
<1>1. s \in Seq(Task) /\ t \in Seq(Task)
  BY DEF Plains
<1>2. s \o t \in Seq(Task) /\ Len(s \o t) = Len(s) + Len(t)
      /\ \A i \in 1 .. Len(s) + Len(t) :
            (s \o t)[i] = IF i <= Len(s) THEN s[i] ELSE t[i - Len(s)]
  BY <1>1, ConcatProperties
<1>3. Len(s) \in Nat /\ Len(t) \in Nat
  BY <1>1
<1>4. \A i \in 1 .. Len(s) + Len(t) :
         (i <= Len(s) /\ i \in 1 .. Len(s)) \/ (~(i <= Len(s)) /\ i - Len(s) \in 1 .. Len(t))
  BY <1>3
<1> QED
  BY <1>2, <1>4 DEF Plains

LEMMA PlainsOne == ASSUME NEW x, Plain(x) PROVE Plains(<<x>>)
<1>1. x \in Task
  BY DEF Plain
<1>2. <<x>> \in Seq(Task) /\ Len(<<x>>) = 1 /\ <<x>>[1] = x
  BY <1>1
<1> QED
  BY <1>2 DEF Plains

LEMMA PlainsNone == Plains(<< >>)
  BY DEF Plains

LEMMA StringTasksArePlain == ASSUME NEW s \in Bytes PROVE Plains(StringTasks(s))
<1> DEFINE e == [i \in DOMAIN s |-> Escaped(s[i])]
           q == <<Char("quote")>>
<1>1. Plains(q)
  <2>1. "quote" \in Chars
    BY CharsAre DEF Signs
  <2> QED
    BY <2>1, CharIs, PlainsOne
<1>2. Plains(e)
  <2>1. Len(s) \in Nat /\ DOMAIN s = 1 .. Len(s) /\ \A i \in 1 .. Len(s) : s[i] \in Nat
    BY DEF Bytes
  <2>2. \A i \in 1 .. Len(s) : Plain(Escaped(s[i])) /\ Escaped(s[i]) \in Task
    BY <2>1, EscapedIsPlain DEF Plain
  <2>3. e = [i \in 1 .. Len(s) |-> Escaped(s[i])]
    BY <2>1
  <2>4. e \in Seq(Task)
    BY <2>1, <2>2, <2>3, IsASeq
  <2>5. Len(e) = Len(s) /\ \A i \in 1 .. Len(s) : e[i] = Escaped(s[i])
    BY <2>1
  <2> HIDE DEF e
  <2> QED
    BY <2>2, <2>4, <2>5 DEF Plains
<1>3. StringTasks(s) = q \o e \o q
  BY DEF StringTasks
<1> HIDE DEF q, e
<1> QED
  BY <1>1, <1>2, <1>3, PlainsJoin

LEMMA SpacesAre ==
    ASSUME NEW n \in Nat PROVE [i \in 1 .. n |-> " "] \in Seq(Chars)
<1> DEFINE space == " "
<1>1. space \in Chars
  BY CharsAre DEF Signs
<1> HIDE DEF space
<1>2. [i \in 1 .. n |-> space] \in Seq(Chars)
  BY <1>1, IsASeq
<1> QED
  BY <1>2 DEF space

NewLine == IF CrLf THEN <<"\r", "\n">> ELSE <<"\n">>

LEMMA NewLineIs == NewLine \in Seq(Chars)
<1>1. "\r" \in Chars /\ "\n" \in Chars
  BY CharsAre DEF Signs
<1> QED
  BY <1>1 DEF NewLine

LEMMA IdentTasksArePlain ==
    ASSUME NEW n \in Nat PROVE Plains(IdentTasks(n))
<1> DEFINE c == IF CrLf THEN Data(<<"\r", "\n">>) ELSE Char("\n")
           d == Data([i \in 1 .. n |-> " "])
<1>1. "\r" \in Chars /\ "\n" \in Chars
  BY CharsAre DEF Signs
<1>2. Plain(c) /\ Plain(d)
  <2>1. <<"\r", "\n">> \in Seq(Chars)
    BY <1>1
  <2> QED
    BY <1>1, <2>1, CharIs, DataIs, SpacesAre
<1>3. IdentTasks(n) = IF Compact THEN << >> ELSE <<c>> \o <<d>>
  BY DEF IdentTasks
<1> HIDE DEF c, d
<1> QED
  BY <1>2, <1>3, PlainsOne, PlainsJoin, PlainsNone

LEMMA LineIs == ASSUME NEW n \in Nat PROVE Line(n) \in Seq(Chars)
<1> DEFINE f == [i \in 1 .. 2 * n |-> " "]
<1>1. f \in Seq(Chars)
  <2>1. PICK m \in Nat : m = 2 * n
    OBVIOUS
  <2>2. [i \in 1 .. m |-> " "] \in Seq(Chars)
    BY SpacesAre
  <2> QED
    BY <2>1, <2>2
<1>2. Line(n) = IF Compact THEN << >> ELSE NewLine \o f
  BY DEF Line, NewLine
<1> HIDE DEF f
<1> QED
  BY <1>1, <1>2, NewLineIs, ConcatProperties

\* What a plain sequence prints.
LEMMA TextsOf ==
    ASSUME NEW s, Plains(s)
    PROVE  [i \in DOMAIN s |-> s[i].text] \in Seq(Seq(Chars)) /\ Together(s) \in Seq(Chars)
<1>1. s \in Seq(Task) /\ Len(s) \in Nat /\ DOMAIN s = 1 .. Len(s)
  BY DEF Plains
<1>2. \A i \in 1 .. Len(s) : s[i].text \in Seq(Chars)
  <2> TAKE i \in 1 .. Len(s)
  <2>1. s[i] \in Task
    BY <1>1, ElementOfSeq
  <2> QED
    BY <2>1 DEF Task
<1> DEFINE f == [i \in DOMAIN s |-> s[i].text]
<1>3. f = [i \in 1 .. Len(s) |-> s[i].text]
  BY <1>1
<1>4. f \in Seq(Seq(Chars))
  BY <1>1, <1>2, <1>3, IsASeq
<1>5. Together(s) = FlattenSeq(f)
  BY DEF Together
<1> HIDE DEF f
<1>6. Together(s) \in Seq(Chars)
  BY <1>4, <1>5, FlatInSeq
<1> QED
  BY <1>4, <1>6 DEF f

\* A tree and what is written of it: the values, what each contains, the depth of
\* each and its text.
ItemText(d, p, i) ==
    LET k == d.mem[p][i] IN
    Line(d.depth[p])
    \o (IF d.val[p].type = "array" THEN << >>
        ELSE Together(StringTasks(d.val[k].name))
             \o (IF Compact THEN <<":">> ELSE <<":", " ">>))
    \o d.text[k] \o (IF i = Len(d.mem[p]) THEN << >> ELSE <<",">>)
Items(d, p) == [i \in 1 .. Len(d.mem[p]) |-> ItemText(d, p, i)]
RestText(d, p, i) ==
    FlattenSeq(SubSeq(Items(d, p), i, Len(d.mem[p]))) \o Line(d.depth[p] - 1)
Opening(type) == <<IF type = "array" THEN "[" ELSE "{">>
Closing(type) == <<IF type = "array" THEN "]" ELSE "}">>

Document(d) ==
    /\ IsTree(d.val, d.mem)
    /\ \A v \in 1 .. Len(d.val) :
          /\ d.depth[v] \in Nat \ {0} /\ d.text[v] \in Seq(Chars)
          /\ \A i \in 1 .. Len(d.mem[v]) : d.depth[d.mem[v][i]] = d.depth[v] + 1
          /\ d.val[v].type \in Containers =>
                d.text[v] = Opening(d.val[v].type) \o RestText(d, v, 1) \o Closing(d.val[v].type)

\* What its text is read from is there.
Readable(d, p) ==
    /\ IsTree(d.val, d.mem) /\ p \in 1 .. Len(d.val) /\ d.depth[p] \in Nat \ {0}
    /\ \A i \in 1 .. Len(d.mem[p]) : d.text[d.mem[p][i]] \in Seq(Chars)

LEMMA ItemIs ==
    ASSUME NEW d, NEW p, Readable(d, p), NEW i \in 1 .. Len(d.mem[p])
    PROVE  ItemText(d, p, i) \in Seq(Chars)
<1>1. IsTree(d.val, d.mem) /\ d.depth[p] \in Nat /\ p \in 1 .. Len(d.val)
  BY DEF Readable
<1>2. d.mem[p][i] \in 1 .. Len(d.val)
  <2>1. Len(d.val) \in Nat
    BY <1>1 DEF IsTree
  <2>2. d.mem[p][i] \in p + 1 .. Len(d.val)
    BY <1>1 DEF IsTree, Lists
  <2> QED
    BY <1>1, <2>1, <2>2
<1> DEFINE k == d.mem[p][i]
           a == Line(d.depth[p])
           s == Together(StringTasks(d.val[k].name))
           c == IF Compact THEN <<":">> ELSE <<":", " ">>
           b == IF d.val[p].type = "array" THEN << >> ELSE s \o c
           t == d.text[k]
           e == IF i = Len(d.mem[p]) THEN << >> ELSE <<",">>
<1>3. ItemText(d, p, i) = a \o b \o t \o e
  BY DEF ItemText
<1>4. a \in Seq(Chars)
  BY <1>1, LineIs
<1>5. s \in Seq(Chars)
  <2>1. d.val[k] \in JsonValue
    BY <1>1, <1>2, ListIs
  <2>2. d.val[k].name \in Bytes
    BY <2>1 DEF JsonValue, Bytes
  <2> QED
    BY <2>2, StringTasksArePlain, TextsOf
<1>6. c \in Seq(Chars) /\ e \in Seq(Chars)
  <2>1. ":" \in Chars /\ " " \in Chars /\ "," \in Chars
    BY CharsAre DEF Signs
  <2>2. <<":">> \in Seq(Chars) /\ <<":", " ">> \in Seq(Chars) /\ <<",">> \in Seq(Chars)
        /\ << >> \in Seq(Chars)
    BY <2>1, ShortTexts, Zenon
  <2> QED
    BY <2>2, Zenon
<1>7. t \in Seq(Chars)
  BY DEF Readable
<1> HIDE DEF a, s, c, t, e
<1>8. b \in Seq(Chars)
  BY <1>5, <1>6, ConcatProperties
<1> HIDE DEF b
<1> QED
  BY <1>3, <1>4, <1>6, <1>7, <1>8, ConcatProperties

LEMMA ItemsAre ==
    ASSUME NEW d, NEW p, Readable(d, p)
    PROVE  /\ Items(d, p) \in Seq(Seq(Chars)) /\ Len(Items(d, p)) = Len(d.mem[p])
           /\ Len(d.mem[p]) \in Nat
           /\ \A i \in 1 .. Len(d.mem[p]) : Items(d, p)[i] = ItemText(d, p, i)
<1>1. Len(d.mem[p]) \in Nat
  BY ListIs DEF Readable
<1>2. \A i \in 1 .. Len(d.mem[p]) : ItemText(d, p, i) \in Seq(Chars)
  BY ItemIs
<1>3. Items(d, p) \in Seq(Seq(Chars))
  BY <1>1, <1>2, IsASeq DEF Items
<1> QED
  BY <1>1, <1>3 DEF Items

LEMMA RestIs ==
    ASSUME NEW d, NEW p, Readable(d, p)
    PROVE  /\ \A i \in 1 .. Len(d.mem[p]) + 1 : RestText(d, p, i) \in Seq(Chars)
           /\ \A i \in 1 .. Len(d.mem[p]) :
                 RestText(d, p, i) = ItemText(d, p, i) \o RestText(d, p, i + 1)
           /\ RestText(d, p, Len(d.mem[p]) + 1) = Line(d.depth[p] - 1)
<1> DEFINE n == Len(d.mem[p])
           s == Items(d, p)
           l == Line(d.depth[p] - 1)
           f(i) == FlattenSeq(SubSeq(s, i, n))
<1>1. s \in Seq(Seq(Chars)) /\ Len(s) = n /\ n \in Nat
      /\ \A i \in 1 .. n : s[i] = ItemText(d, p, i)
  BY ItemsAre
<1>2. l \in Seq(Chars)
  <2>1. d.depth[p] - 1 \in Nat
    BY DEF Readable
  <2> QED
    BY <2>1, LineIs
<1>3. \A i : RestText(d, p, i) = f(i) \o l
  BY DEF RestText
<1> HIDE DEF s, l, n
<1>4. \A i \in 1 .. n + 1 : SubSeq(s, i, n) \in Seq(Seq(Chars))
  <2> TAKE i \in 1 .. n + 1
  <2>1. i \in Int /\ n \in Int /\ \A j \in i .. n : s[j] \in Seq(Chars)
    BY <1>1
  <2> QED
    BY <2>1, SubSeqProperties
<1>5. \A i \in 1 .. n + 1 : f(i) \in Seq(Chars)
  BY <1>4, FlatInSeq
<1>6. ASSUME NEW i \in 1 .. n
      PROVE  RestText(d, p, i) = ItemText(d, p, i) \o RestText(d, p, i + 1)
  <2>1. i \in 1 .. Len(s) /\ n \in i .. Len(s) /\ i \in 1 .. n + 1 /\ i + 1 \in 1 .. n + 1
    BY <1>1
  <2>2. SubSeq(s, i, n) = <<s[i]>> \o SubSeq(s, i + 1, n)
    BY <1>1, <2>1, SubSeqRecursiveFirst
  <2>3. s[i] \in Seq(Chars)
    BY <1>1, <2>1, ElementOfSeq
  <2>4. <<s[i]>> \in Seq(Seq(Chars)) /\ FlattenSeq(<<s[i]>>) = s[i]
    BY <2>3, FlatOne
  <2>5. f(i) = s[i] \o f(i + 1)
    BY <1>4, <2>1, <2>2, <2>4, FlatJoin
  <2>6. (s[i] \o f(i + 1)) \o l = s[i] \o (f(i + 1) \o l)
    <3>1. f(i + 1) \in Seq(Chars)
      BY <1>5, <2>1
    <3> HIDE DEF f
    <3>2. PICK a \in Seq(Chars), b \in Seq(Chars) : a = s[i] /\ b = f(i + 1)
      BY <2>3, <3>1
    <3>3. (a \o b) \o l = a \o (b \o l)
      BY <1>2, ConcatAssociative
    <3> QED
      BY <3>2, <3>3
  <2> HIDE DEF f
  <2> QED
    BY <1>1, <1>3, <2>5, <2>6
<1>7. RestText(d, p, n + 1) = l
  <2>1. SubSeq(s, n + 1, n) = << >>
    BY <1>1, SubSeqEmpty
  <2> QED
    BY <1>2, <1>3, <2>1, FlatNone, ConcatEmptySeq
<1>8. \A i \in 1 .. n + 1 : RestText(d, p, i) \in Seq(Chars)
  <2> HIDE DEF f
  <2> QED
    BY <1>2, <1>3, <1>5, ConcatProperties
<1> QED
  BY <1>6, <1>7, <1>8 DEF n, l

\* Tasks that make sense for a tree, and what they print.
GoodTask(d, t) ==
    /\ t \in Task
    /\ t.do \in {"char", "data"} => Plain(t)
    /\ t.do = "value" => t.of \in 1 .. Len(d.val)
    /\ t.do = "rest" => /\ t.of \in 1 .. Len(d.val) /\ d.val[t.of].type \in Containers
                        /\ t.from \in 1 .. Len(d.mem[t.of]) + 1
Goods(d, s) == s \in Seq(Task) /\ \A i \in 1 .. Len(s) : GoodTask(d, s[i])

TextOf(d, t) ==
    IF t.do = "value" THEN d.text[t.of]
    ELSE IF t.do = "rest" THEN RestText(d, t.of, t.from)
    ELSE t.text
TextsFor(d, s) == [i \in 1 .. Len(s) |-> TextOf(d, s[i])]
Out(d, s) == FlattenSeq(TextsFor(d, s))

LEMMA IsReadable ==
    ASSUME NEW d, Document(d), NEW p \in 1 .. Len(d.val) PROVE Readable(d, p)
<1>1. IsTree(d.val, d.mem) /\ d.depth[p] \in Nat \ {0}
  BY DEF Document
<1>2. ASSUME NEW i \in 1 .. Len(d.mem[p]) PROVE d.text[d.mem[p][i]] \in Seq(Chars)
  <2>1. d.mem[p][i] \in p + 1 .. Len(d.val) /\ Len(d.val) \in Nat
    BY <1>1 DEF IsTree, Lists
  <2>2. d.mem[p][i] \in 1 .. Len(d.val)
    BY <2>1
  <2> QED
    BY <2>2 DEF Document
<1> QED
  BY <1>1, <1>2 DEF Readable

LEMMA TextIs ==
    ASSUME NEW d, Document(d), NEW t, GoodTask(d, t) PROVE TextOf(d, t) \in Seq(Chars)
<1>1. t \in Task
  BY DEF GoodTask
<1>2. CASE t.do = "value"
  <2>1. d.text[t.of] \in Seq(Chars)
    BY <1>2 DEF GoodTask, Document
  <2> QED
    BY <1>2, <2>1 DEF TextOf
<1>3. CASE t.do = "rest"
  <2>1. RestText(d, t.of, t.from) \in Seq(Chars)
    BY <1>3, IsReadable, RestIs DEF GoodTask
  <2> QED
    BY <1>3, <2>1 DEF TextOf
<1>4. CASE t.do \notin {"value", "rest"}
  <2>1. t.text \in Seq(Chars)
    BY <1>1 DEF Task
  <2> QED
    BY <1>4, <2>1 DEF TextOf
<1> QED
  BY <1>2, <1>3, <1>4

LEMMA TextsAre ==
    ASSUME NEW d, Document(d), NEW s, Goods(d, s)
    PROVE  /\ s \in Seq(Task) /\ Len(s) \in Nat
           /\ TextsFor(d, s) \in Seq(Seq(Chars)) /\ Len(TextsFor(d, s)) = Len(s)
           /\ \A i \in 1 .. Len(s) : TextsFor(d, s)[i] = TextOf(d, s[i])
           /\ Out(d, s) \in Seq(Chars)
<1>1. s \in Seq(Task) /\ Len(s) \in Nat
  BY DEF Goods
<1>2. \A i \in 1 .. Len(s) : TextOf(d, s[i]) \in Seq(Chars)
  BY TextIs DEF Goods
<1>3. TextsFor(d, s) \in Seq(Seq(Chars))
  BY <1>1, <1>2, IsASeq DEF TextsFor
<1>4. Out(d, s) \in Seq(Chars)
  BY <1>3, FlatInSeq DEF Out
<1> QED
  BY <1>1, <1>3, <1>4 DEF TextsFor

LEMMA GoodsJoin ==
    ASSUME NEW d, NEW s, Goods(d, s), NEW t, Goods(d, t) PROVE Goods(d, s \o t)
<1>1. s \in Seq(Task) /\ t \in Seq(Task)
  BY DEF Goods
<1>2. s \o t \in Seq(Task) /\ Len(s \o t) = Len(s) + Len(t)
      /\ \A i \in 1 .. Len(s) + Len(t) :
            (s \o t)[i] = IF i <= Len(s) THEN s[i] ELSE t[i - Len(s)]
  BY <1>1, ConcatProperties
<1>3. Len(s) \in Nat /\ Len(t) \in Nat
  BY <1>1
<1>4. \A i \in 1 .. Len(s) + Len(t) :
         (i <= Len(s) /\ i \in 1 .. Len(s)) \/ (~(i <= Len(s)) /\ i - Len(s) \in 1 .. Len(t))
  BY <1>3
<1> QED
  BY <1>2, <1>4 DEF Goods

LEMMA OutJoin ==
    ASSUME NEW d, Document(d), NEW s, Goods(d, s), NEW t, Goods(d, t)
    PROVE  Out(d, s \o t) = Out(d, s) \o Out(d, t)
<1> DEFINE a == TextsFor(d, s)
           b == TextsFor(d, t)
           c == TextsFor(d, s \o t)
<1>1. s \in Seq(Task) /\ t \in Seq(Task) /\ Len(s) \in Nat /\ Len(t) \in Nat
  BY TextsAre
<1>2. Len(s \o t) = Len(s) + Len(t)
      /\ \A i \in 1 .. Len(s) + Len(t) :
            (s \o t)[i] = IF i <= Len(s) THEN s[i] ELSE t[i - Len(s)]
  BY <1>1, ConcatProperties
<1>3. Goods(d, s \o t)
  BY GoodsJoin
<1>4. /\ a \in Seq(Seq(Chars)) /\ Len(a) = Len(s)
      /\ \A i \in 1 .. Len(s) : a[i] = TextOf(d, s[i])
  BY TextsAre
<1>5. /\ b \in Seq(Seq(Chars)) /\ Len(b) = Len(t)
      /\ \A i \in 1 .. Len(t) : b[i] = TextOf(d, t[i])
  BY TextsAre
<1>6. /\ c \in Seq(Seq(Chars)) /\ Len(c) = Len(s \o t)
      /\ \A i \in 1 .. Len(s \o t) : c[i] = TextOf(d, (s \o t)[i])
  BY <1>3, TextsAre
<1> HIDE DEF a, b, c
<1>7. a \o b \in Seq(Seq(Chars)) /\ Len(a \o b) = Len(s) + Len(t)
      /\ \A i \in 1 .. Len(s) + Len(t) :
            (a \o b)[i] = IF i <= Len(s) THEN a[i] ELSE b[i - Len(s)]
  <2>1. a \in Seq(Seq(Chars)) /\ b \in Seq(Seq(Chars))
    BY <1>4, <1>5
  <2>2. a \o b \in Seq(Seq(Chars)) /\ Len(a \o b) = Len(a) + Len(b)
        /\ \A i \in 1 .. Len(a) + Len(b) :
              (a \o b)[i] = IF i <= Len(a) THEN a[i] ELSE b[i - Len(a)]
    BY <2>1, ConcatProperties
  <2>3. Len(a) = Len(s) /\ Len(b) = Len(t)
    BY <1>4, <1>5
  <2> QED
    BY <2>2, <2>3
<1>8. \A i \in 1 .. Len(s) + Len(t) :
         (i <= Len(s) /\ i \in 1 .. Len(s)) \/ (~(i <= Len(s)) /\ i - Len(s) \in 1 .. Len(t))
  BY <1>1
<1>9. \A i \in 1 .. Len(s) + Len(t) : c[i] = (a \o b)[i]
  <2> TAKE i \in 1 .. Len(s) + Len(t)
  <2>1. c[i] = TextOf(d, (s \o t)[i])
    BY <1>2, <1>6
  <2>2. CASE i <= Len(s) /\ i \in 1 .. Len(s)
    <3>1. (s \o t)[i] = s[i] /\ (a \o b)[i] = a[i]
      BY <1>2, <1>7, <2>2
    <3> QED
      BY <1>4, <2>1, <2>2, <3>1
  <2>3. CASE ~(i <= Len(s)) /\ i - Len(s) \in 1 .. Len(t)
    <3>1. (s \o t)[i] = t[i - Len(s)] /\ (a \o b)[i] = b[i - Len(s)]
      BY <1>2, <1>7, <2>3
    <3> QED
      BY <1>5, <2>1, <2>3, <3>1
  <2> QED
    BY <1>8, <2>2, <2>3
<1>10. c = a \o b
  BY <1>2, <1>6, <1>7, <1>9, SeqEqual
<1> QED
  BY <1>4, <1>5, <1>10, FlatJoin DEF Out, a, b, c

LEMMA OutOne ==
    ASSUME NEW d, Document(d), NEW t, GoodTask(d, t)
    PROVE  Goods(d, <<t>>) /\ Out(d, <<t>>) = TextOf(d, t)
<1>1. t \in Task
  BY DEF GoodTask
<1>2. <<t>> \in Seq(Task) /\ Len(<<t>>) = 1 /\ <<t>>[1] = t
  BY <1>1
<1>3. Goods(d, <<t>>)
  BY <1>2 DEF Goods
<1>4. TextsFor(d, <<t>>) = <<TextOf(d, t)>>
  <2> DEFINE a == TextsFor(d, <<t>>)
             b == <<TextOf(d, t)>>
  <2>1. a \in Seq(Seq(Chars)) /\ Len(a) = 1 /\ a[1] = TextOf(d, t)
    BY <1>2, <1>3, TextsAre
  <2>2. b \in Seq(Seq(Chars)) /\ Len(b) = 1 /\ b[1] = TextOf(d, t)
    BY TextIs
  <2> HIDE DEF a, b
  <2>3. \A i \in 1 .. Len(a) : a[i] = b[i]
    <3>1. \A i \in 1 .. 1 : i = 1
      OBVIOUS
    <3> QED
      BY <2>1, <2>2, <3>1
  <2>4. a = b
    BY <2>1, <2>2, <2>3, SeqEqual
  <2> QED
    BY <2>4 DEF a, b
<1> QED
  BY <1>3, <1>4, TextIs, FlatOne DEF Out

LEMMA OutPlain ==
    ASSUME NEW d, NEW s, Plains(s)
    PROVE  Goods(d, s) /\ Out(d, s) = Together(s)
<1>1. s \in Seq(Task) /\ DOMAIN s = 1 .. Len(s) /\ \A i \in 1 .. Len(s) : Plain(s[i])
  BY DEF Plains
<1>2. \A i \in 1 .. Len(s) : GoodTask(d, s[i]) /\ TextOf(d, s[i]) = s[i].text
  BY <1>1 DEF Plain, GoodTask, TextOf
<1>3. TextsFor(d, s) = [i \in DOMAIN s |-> s[i].text]
  BY <1>1, <1>2 DEF TextsFor
<1> QED
  BY <1>1, <1>2, <1>3 DEF Goods, Out, Together

\* The containers begun and not ended are the rests that are left: as many from the
\* i-th task on.
RestsFrom(s, i) == {j \in i .. Len(s) : s[j].do = "rest"}
Begun(s, i) == Cardinality(RestsFrom(s, i))

LEMMA ShiftedIs ==
    ASSUME NEW m \in Nat, NEW n \in Nat, NEW A \in SUBSET (1 .. n)
    PROVE  /\ IsFiniteSet(A) /\ IsFiniteSet({m + j : j \in A})
           /\ Cardinality({m + j : j \in A}) = Cardinality(A) /\ Cardinality(A) \in Nat
<1> DEFINE B == {m + j : j \in A}
           f == [j \in A |-> m + j]
<1>1. IsFiniteSet(A)
  <2>1. A \in SUBSET Nat /\ \A x \in A : x <= n
    OBVIOUS
  <2> QED
    BY <2>1, FS_BoundedSetOfNaturals
<1>2. f \in Bijection(A, B)
  <2>1. f \in [A -> B]
    OBVIOUS
  <2>2. \A x, y \in A : f[x] = f[y] => x = y
    OBVIOUS
  <2>3. \A y \in B : \E x \in A : f[x] = y
    OBVIOUS
  <2> QED
    BY <2>1, <2>2, <2>3 DEF Bijection, Injection, Surjection, IsInjective
<1>3. ExistsBijection(A, B)
  BY <1>2 DEF ExistsBijection
<1> QED
  BY <1>1, <1>3, FS_Bijection, FS_CardinalityType

LEMMA BegunIs ==
    ASSUME NEW s \in Seq(Task), NEW i \in 1 .. Len(s) + 1
    PROVE  /\ RestsFrom(s, i) \in SUBSET (1 .. Len(s))
           /\ IsFiniteSet(RestsFrom(s, i)) /\ Begun(s, i) \in Nat
<1>1. Len(s) \in Nat
  OBVIOUS
<1>2. RestsFrom(s, i) \in SUBSET (1 .. Len(s))
  BY <1>1 DEF RestsFrom
<1>3. 0 \in Nat
  OBVIOUS
<1> QED
  BY <1>1, <1>2, <1>3, ShiftedIs DEF Begun

LEMMA BegunJoin ==
    ASSUME NEW s \in Seq(Task), NEW t \in Seq(Task)
    PROVE  /\ \A i \in 1 .. Len(s) + 1 : Begun(s \o t, i) = Begun(s, i) + Begun(t, 1)
           /\ \A k \in 1 .. Len(t) + 1 : Begun(s \o t, Len(s) + k) = Begun(t, k)
<1> DEFINE m == Len(s)
           n == Len(t)
           u == s \o t
<1>1. m \in Nat /\ n \in Nat
  OBVIOUS
<1>2. u \in Seq(Task) /\ Len(u) = m + n
      /\ \A i \in 1 .. m + n : u[i] = IF i <= m THEN s[i] ELSE t[i - m]
  BY ConcatProperties
<1> HIDE DEF m, n, u
<1>3. \A j \in 1 .. m : u[j] = s[j]
  <2>1. \A j \in 1 .. m : j \in 1 .. m + n /\ j <= m
    BY <1>1
  <2> QED
    BY <1>2, <2>1
<1>4. \A j \in 1 .. n : u[m + j] = t[j]
  <2> TAKE j \in 1 .. n
  <2>1. m + j \in 1 .. m + n /\ ~(m + j <= m) /\ (m + j) - m = j
    BY <1>1
  <2>2. u[m + j] = t[(m + j) - m]
    BY <1>2, <2>1
  <2> QED
    BY <2>1, <2>2
<1>5. \A k \in 1 .. n + 1 : RestsFrom(u, m + k) = {m + j : j \in RestsFrom(t, k)}
  <2> TAKE k \in 1 .. n + 1
  <2>1. ASSUME NEW j \in RestsFrom(t, k) PROVE m + j \in RestsFrom(u, m + k)
    <3>1. j \in k .. n /\ t[j].do = "rest"
      BY DEF RestsFrom, n
    <3>2. j \in 1 .. n /\ m + j \in m + k .. m + n
      BY <1>1, <3>1
    <3> QED
      BY <1>2, <1>4, <3>1, <3>2 DEF RestsFrom
  <2>2. ASSUME NEW x \in RestsFrom(u, m + k) PROVE x \in {m + j : j \in RestsFrom(t, k)}
    <3>1. x \in m + k .. m + n /\ u[x].do = "rest"
      BY <1>2 DEF RestsFrom
    <3>2. x - m \in 1 .. n /\ x - m \in k .. n /\ m + (x - m) = x
      BY <1>1, <3>1
    <3>3. t[x - m].do = "rest"
      BY <1>4, <3>1, <3>2
    <3>4. x - m \in RestsFrom(t, k)
      BY <3>2, <3>3 DEF RestsFrom, n
    <3> QED
      BY <3>2, <3>4
  <2> QED
    BY <2>1, <2>2
<1>6. \A k \in 1 .. n + 1 : Begun(u, m + k) = Begun(t, k)
  <2> TAKE k \in 1 .. n + 1
  <2>1. RestsFrom(t, k) \in SUBSET (1 .. n)
    BY BegunIs DEF n
  <2> QED
    BY <1>1, <1>5, <2>1, ShiftedIs DEF Begun
<1>7. \A i \in 1 .. m + 1 : Begun(u, i) = Begun(s, i) + Begun(t, 1)
  <2> TAKE i \in 1 .. m + 1
  <2> DEFINE A == RestsFrom(s, i)
             B == {m + j : j \in RestsFrom(t, 1)}
  <2>1. A \in SUBSET (1 .. m) /\ RestsFrom(t, 1) \in SUBSET (1 .. n) /\ IsFiniteSet(A)
        /\ Begun(s, i) \in Nat
    <3>1. 1 \in 1 .. n + 1
      BY <1>1
    <3> QED
      BY <3>1, BegunIs DEF m, n
  <2>2. IsFiniteSet(B) /\ Cardinality(B) = Begun(t, 1) /\ Begun(t, 1) \in Nat
    BY <1>1, <2>1, ShiftedIs DEF Begun
  <2>3. A \cap B = {}
    BY <1>1, <2>1
  <2>4. RestsFrom(u, i) = A \cup B
    <3>0. RestsFrom(u, m + 1) = B
      <4>1. 1 \in 1 .. n + 1
        BY <1>1
      <4> QED
        BY <1>5, <4>1
    <3>1. ASSUME NEW x \in RestsFrom(u, i) PROVE x \in A \cup B
      <4>1. x \in i .. m + n /\ u[x].do = "rest"
        BY <1>2 DEF RestsFrom
      <4>2. CASE x <= m
        <5>1. x \in 1 .. m /\ x \in i .. m
          BY <1>1, <4>1, <4>2
        <5> QED
          BY <1>3, <4>1, <5>1 DEF RestsFrom, m
      <4>3. CASE ~(x <= m)
        <5>1. x \in m + 1 .. m + n
          BY <1>1, <4>1, <4>3
        <5>2. x \in RestsFrom(u, m + 1)
          BY <1>2, <4>1, <5>1 DEF RestsFrom
        <5> QED
          BY <3>0, <5>2
      <4> QED
        BY <4>2, <4>3
    <3>2. ASSUME NEW x \in A PROVE x \in RestsFrom(u, i)
      <4>1. x \in i .. m /\ s[x].do = "rest"
        BY DEF RestsFrom, m
      <4>2. x \in 1 .. m /\ x \in i .. m + n
        BY <1>1, <4>1
      <4> QED
        BY <1>2, <1>3, <4>1, <4>2 DEF RestsFrom
    <3>3. ASSUME NEW x \in RestsFrom(u, m + 1) PROVE x \in RestsFrom(u, i)
      <4>1. x \in m + 1 .. m + n /\ u[x].do = "rest"
        BY <1>2 DEF RestsFrom
      <4>2. x \in i .. m + n
        BY <1>1, <4>1
      <4> QED
        BY <1>2, <4>1, <4>2 DEF RestsFrom
    <3> HIDE DEF A, B
    <3> QED
      BY <3>0, <3>1, <3>2, <3>3
  <2> HIDE DEF B
  <2>5. Cardinality(A \cup B) = Cardinality(A) + Cardinality(B) - Cardinality(A \cap B)
    BY <2>1, <2>2, FS_Union
  <2>6. Cardinality(A \cap B) = 0
    BY <2>3, FS_EmptySet
  <2> QED
    BY <2>1, <2>2, <2>4, <2>5, <2>6 DEF Begun
<1> QED
  BY <1>6, <1>7 DEF m, n, u

\* s is left to print, with n containers around it: a rest is that of the innermost of
\* the containers begun and not ended, and a value is within it.  s prints x and leaves
\* c containers begun.
Placed(d, s, n) ==
    \A i \in 1 .. Len(s) :
        /\ s[i].do = "rest" => d.depth[s[i].of] = n + Begun(s, i)
        /\ s[i].do = "value" => d.depth[s[i].of] = n + Begun(s, i) + 1
Plan(d, s, n, x, c) ==
    Goods(d, s) /\ Placed(d, s, n) /\ Out(d, s) = x /\ Begun(s, 1) = c

LEMMA PlanIs ==
    ASSUME NEW d, Document(d), NEW s, NEW n, NEW x, NEW c, Plan(d, s, n, x, c)
    PROVE  s \in Seq(Task) /\ Goods(d, s) /\ x \in Seq(Chars) /\ c \in Nat
<1>1. Goods(d, s) /\ Out(d, s) = x /\ Begun(s, 1) = c
  BY DEF Plan
<1>2. s \in Seq(Task) /\ Len(s) \in Nat /\ Out(d, s) \in Seq(Chars)
  BY <1>1, TextsAre
<1>3. 1 \in 1 .. Len(s) + 1
  BY <1>2
<1>4. Begun(s, 1) \in Nat
  BY <1>2, <1>3, BegunIs
<1> QED
  BY <1>1, <1>2, <1>4

LEMMA PlanJoin ==
    ASSUME NEW d, Document(d), NEW n \in Nat,
           NEW s, NEW x, NEW b, NEW t, NEW y, NEW c,
           Plan(d, t, n, y, c), Plan(d, s, n + c, x, b)
    PROVE  Plan(d, s \o t, n, x \o y, b + c)
<1> DEFINE u == s \o t
           l == Len(s)
           m == Len(t)
<1>1. /\ s \in Seq(Task) /\ Goods(d, s) /\ Out(d, s) = x /\ Begun(s, 1) = b /\ b \in Nat
      /\ t \in Seq(Task) /\ Goods(d, t) /\ Out(d, t) = y /\ Begun(t, 1) = c /\ c \in Nat
      /\ Placed(d, s, n + c) /\ Placed(d, t, n)
  <2>1. s \in Seq(Task) /\ b \in Nat
    BY PlanIs
  <2>2. t \in Seq(Task) /\ c \in Nat
    BY PlanIs
  <2> QED
    BY <2>1, <2>2 DEF Plan
<1>2. Goods(d, u) /\ Out(d, u) = x \o y
  BY <1>1, GoodsJoin, OutJoin
<1>3. l \in Nat /\ m \in Nat
  BY <1>1
<1>4. u \in Seq(Task) /\ Len(u) = l + m
      /\ \A i \in 1 .. l + m : u[i] = IF i <= l THEN s[i] ELSE t[i - l]
  BY <1>1, ConcatProperties
<1>5. (\A i \in 1 .. l + 1 : Begun(u, i) = Begun(s, i) + c)
      /\ (\A k \in 1 .. m + 1 : Begun(u, l + k) = Begun(t, k))
  BY <1>1, BegunJoin
<1> HIDE DEF u, l, m
<1>6. Begun(u, 1) = b + c
  <2>1. 1 \in 1 .. l + 1
    BY <1>3
  <2> QED
    BY <1>1, <1>5, <2>1
<1>7. ASSUME NEW i \in 1 .. Len(u)
      PROVE  /\ u[i].do = "rest" => d.depth[u[i].of] = n + Begun(u, i)
             /\ u[i].do = "value" => d.depth[u[i].of] = n + Begun(u, i) + 1
  <2>1. CASE i <= l
    <3>1. i \in 1 .. l /\ i \in 1 .. l + 1 /\ u[i] = s[i]
      BY <1>3, <1>4, <2>1
    <3>2. Begun(u, i) = Begun(s, i) + c /\ Begun(s, i) \in Nat
      BY <1>1, <1>5, <3>1, BegunIs DEF l
    <3>3. /\ s[i].do = "rest" => d.depth[s[i].of] = n + c + Begun(s, i)
          /\ s[i].do = "value" => d.depth[s[i].of] = n + c + Begun(s, i) + 1
      BY <1>1, <3>1 DEF Placed, l
    <3>4. n + c + Begun(s, i) = n + Begun(u, i)
      BY <1>1, <3>2
    <3> QED
      BY <3>1, <3>3, <3>4
  <2>2. CASE ~(i <= l)
    <3>1. i - l \in 1 .. m /\ i - l \in 1 .. m + 1 /\ l + (i - l) = i
      BY <1>3, <1>4, <2>2
    <3>2. u[i] = t[i - l]
      BY <1>4, <2>2
    <3>3. Begun(u, i) = Begun(t, i - l)
      BY <1>5, <3>1
    <3>4. /\ t[i - l].do = "rest" => d.depth[t[i - l].of] = n + Begun(t, i - l)
          /\ t[i - l].do = "value" => d.depth[t[i - l].of] = n + Begun(t, i - l) + 1
      BY <1>1, <3>1 DEF Placed, m
    <3> QED
      BY <3>2, <3>3, <3>4
  <2> QED
    BY <2>1, <2>2
<1>8. Placed(d, u, n)
  BY <1>7 DEF Placed
<1>9. Plan(d, u, n, x \o y, b + c)
  BY <1>2, <1>6, <1>8 DEF Plan
<1> QED
  BY <1>9 DEF u

LEMMA PlanPlain ==
    ASSUME NEW d, Document(d), NEW n \in Nat, NEW s, Plains(s)
    PROVE  Plan(d, s, n, Together(s), 0)
<1>1. s \in Seq(Task) /\ Len(s) \in Nat
  BY DEF Plains
<1>2. \A i \in 1 .. Len(s) : s[i].do # "rest" /\ s[i].do # "value"
  BY DEF Plains, Plain
<1>3. RestsFrom(s, 1) = {}
  BY <1>2 DEF RestsFrom
<1>4. Begun(s, 1) = 0
  BY <1>3, FS_EmptySet DEF Begun
<1> QED
  BY <1>2, <1>4, OutPlain DEF Plan, Placed

\* One task.
LEMMA OneBegun ==
    ASSUME NEW t \in Task
    PROVE  Begun(<<t>>, 1) = (IF t.do = "rest" THEN 1 ELSE 0)
<1>1. Len(<<t>>) = 1 /\ <<t>>[1] = t /\ 1 .. 1 = {1}
  OBVIOUS
<1>2. RestsFrom(<<t>>, 1) = IF t.do = "rest" THEN {1} ELSE {}
  BY <1>1 DEF RestsFrom
<1> QED
  BY <1>2, FS_EmptySet, FS_Singleton DEF Begun

LEMMA PlanOne ==
    ASSUME NEW d, Document(d), NEW n \in Nat, NEW t, GoodTask(d, t),
           t.do \in {"rest", "value"} => d.depth[t.of] = n + 1
    PROVE  Plan(d, <<t>>, n, TextOf(d, t), IF t.do = "rest" THEN 1 ELSE 0)
<1>1. t \in Task
  BY DEF GoodTask
<1>2. Len(<<t>>) = 1 /\ <<t>>[1] = t /\ 1 .. 1 = {1}
  OBVIOUS
<1>3. Begun(<<t>>, 1) = IF t.do = "rest" THEN 1 ELSE 0
  BY <1>1, OneBegun
<1>4. Placed(d, <<t>>, n)
  BY <1>2, <1>3 DEF Placed
<1> QED
  BY <1>3, <1>4, OutOne DEF Plan

\* What is left when the first task is taken, and what that says of the task.
LEMMA PlanTakes ==
    ASSUME NEW d, Document(d), NEW n \in Nat, NEW s, NEW x, NEW c, Plan(d, s, n, x, c),
           s # << >>
    PROVE  \E y, b : /\ Plan(d, Tail(s), n, y, b) /\ GoodTask(d, Head(s))
                     /\ x = TextOf(d, Head(s)) \o y
                     /\ c = b + (IF Head(s).do = "rest" THEN 1 ELSE 0)
                     /\ Head(s).do \in {"rest", "value"} => d.depth[Head(s).of] = n + b + 1
<1>1. /\ s \in Seq(Task) /\ Goods(d, s) /\ Placed(d, s, n) /\ Out(d, s) = x
      /\ Begun(s, 1) = c /\ c \in Nat
  BY PlanIs DEF Plan
<1> DEFINE h == Head(s)
           t == Tail(s)
           m == Len(t)
<1>2. h \in Task /\ t \in Seq(Task) /\ s[1] = h /\ Len(s) = m + 1 /\ m \in Nat
      /\ \A i \in 1 .. m : t[i] = s[i + 1]
  BY <1>1, HeadTailProperties
<1>3. s = <<h>> \o t
  <2>1. <<h>> \o t \in Seq(Task) /\ Len(<<h>> \o t) = m + 1
        /\ \A i \in 1 .. m + 1 : (<<h>> \o t)[i] = IF i <= 1 THEN h ELSE t[i - 1]
    <3>1. <<h>> \in Seq(Task) /\ Len(<<h>>) = 1 /\ <<h>>[1] = h
      BY <1>2
    <3> DEFINE o == <<h>>
    <3> HIDE DEF h, t, o
    <3>2. o \o t \in Seq(Task) /\ Len(o \o t) = 1 + m
          /\ \A i \in 1 .. 1 + m : (o \o t)[i] = IF i <= 1 THEN o[i] ELSE t[i - 1]
      BY <1>2, <3>1, ConcatProperties DEF o
    <3>3. \A i \in 1 .. 1 + m : i <= 1 => i = 1
      BY <1>2
    <3>4. 1 + m = m + 1
      BY <1>2
    <3>5. o \o t \in Seq(Task) /\ Len(o \o t) = m + 1
          /\ \A i \in 1 .. m + 1 : (o \o t)[i] = IF i <= 1 THEN h ELSE t[i - 1]
      BY <3>1, <3>2, <3>3, <3>4 DEF o
    <3> QED
      BY <3>5 DEF o
  <2> DEFINE u == <<h>> \o t
  <2> HIDE DEF u, h, t
  <2>2. \A i \in 1 .. Len(s) : s[i] = u[i]
    <3> TAKE i \in 1 .. Len(s)
    <3>1. CASE i = 1
      BY <1>2, <2>1, <3>1 DEF u
    <3>2. CASE i # 1
      <4>1. ~(i <= 1) /\ i - 1 \in 1 .. m /\ (i - 1) + 1 = i /\ i \in 1 .. m + 1
        BY <1>2, <3>2
      <4>2. u[i] = t[i - 1] /\ t[i - 1] = s[(i - 1) + 1]
        BY <1>2, <2>1, <4>1 DEF u
      <4> QED
        BY <4>1, <4>2
    <3> QED
      BY <3>1, <3>2
  <2>3. s = u
    BY <1>1, <1>2, <2>1, <2>2, SeqEqual DEF u
  <2> QED
    BY <2>3 DEF u
<1> HIDE DEF h, t, m
<1>4. <<h>> \in Seq(Task) /\ Len(<<h>>) = 1
  BY <1>2
<1>5. Begun(s, 1) = Begun(<<h>>, 1) + Begun(t, 1)
      /\ \A k \in 1 .. m + 1 : Begun(s, 1 + k) = Begun(t, k)
  <2>1. PICK o \in Seq(Task) : o = <<h>> /\ Len(o) = 1
    BY <1>4
  <2>2. /\ \A i \in 1 .. Len(o) + 1 : Begun(o \o t, i) = Begun(o, i) + Begun(t, 1)
        /\ \A k \in 1 .. m + 1 : Begun(o \o t, Len(o) + k) = Begun(t, k)
    BY <1>2, BegunJoin DEF m
  <2>3. 1 \in 1 .. Len(o) + 1
    BY <2>1
  <2> QED
    BY <1>3, <2>1, <2>2, <2>3
<1>6. GoodTask(d, h) /\ Goods(d, t)
  <2>1. \A i \in 1 .. m + 1 : GoodTask(d, s[i])
    BY <1>1, <1>2 DEF Goods
  <2>2. 1 \in 1 .. m + 1 /\ \A i \in 1 .. m : i + 1 \in 1 .. m + 1
    BY <1>2
  <2> QED
    BY <1>2, <2>1, <2>2 DEF Goods, m
<1>7. x = TextOf(d, h) \o Out(d, t)
  <2>1. PICK o : o = <<h>> /\ Goods(d, o) /\ Out(d, o) = TextOf(d, h)
    BY <1>6, OutOne
  <2>2. Out(d, o \o t) = Out(d, o) \o Out(d, t)
    BY <1>6, <2>1, OutJoin
  <2> QED
    BY <1>1, <1>3, <2>1, <2>2
<1>8. Placed(d, t, n)
  <2> SUFFICES ASSUME NEW i \in 1 .. m
               PROVE  /\ t[i].do = "rest" => d.depth[t[i].of] = n + Begun(t, i)
                      /\ t[i].do = "value" => d.depth[t[i].of] = n + Begun(t, i) + 1
    BY DEF Placed, m
  <2>1. i + 1 \in 1 .. Len(s) /\ i \in 1 .. m + 1 /\ 1 + i = i + 1
    BY <1>2
  <2>2. Begun(s, i + 1) = Begun(t, i)
    BY <1>5, <2>1
  <2>3. t[i] = s[i + 1]
    BY <1>2
  <2>4. /\ s[i + 1].do = "rest" => d.depth[s[i + 1].of] = n + Begun(s, i + 1)
        /\ s[i + 1].do = "value" => d.depth[s[i + 1].of] = n + Begun(s, i + 1) + 1
    BY <1>1, <2>1 DEF Placed
  <2> QED
    BY <2>2, <2>3, <2>4
<1>9. PICK b \in Nat : b = Begun(t, 1)
  <2>1. 1 \in 1 .. Len(t) + 1
    BY <1>2
  <2> QED
    BY <1>2, <2>1, BegunIs
<1>10. c = b + (IF h.do = "rest" THEN 1 ELSE 0)
  BY <1>1, <1>2, <1>5, <1>9, OneBegun
<1>11. h.do \in {"rest", "value"} => d.depth[h.of] = n + b + 1
  <2>1. 1 \in 1 .. Len(s)
    BY <1>2
  <2>2. /\ h.do = "rest" => d.depth[h.of] = n + c
        /\ h.do = "value" => d.depth[h.of] = n + c + 1
    BY <1>1, <1>2, <2>1 DEF Placed
  <2> QED
    BY <1>9, <1>10, <2>2
<1>12. Plan(d, t, n, Out(d, t), b)
  BY <1>6, <1>8, <1>9 DEF Plan
<1> QED
  BY <1>6, <1>7, <1>10, <1>11, <1>12 DEF h, t
-----------------------------------------------------------------------------
(***************************************************************************)
(* Depth and Written are recursive functions: that they satisfy their      *)
(* equations is shown by tables that grow, the one from the root and the   *)
(* other from the value allocated last.                                    *)
(***************************************************************************)

LEMMA ParentsAre ==
    ASSUME IsTree(value, members)
    PROVE  /\ Len(value) \in Nat /\ DOMAIN value = 1 .. Len(value)
           /\ \A v \in 1 .. Len(value) : value[v].parent \in 0 .. v - 1
  BY DEF IsTree

LEMMA DepthExists ==
    ASSUME IsTree(value, members)
    PROVE  \E g \in [0 .. Len(value) -> Nat] :
              g[0] = 0 /\ \A v \in 1 .. Len(value) : g[v] = g[value[v].parent] + 1
<1> DEFINE n == Len(value)
           Upto(g, m) == g[0] = 0 /\ \A v \in 1 .. m : g[v] = g[value[v].parent] + 1
           Has(m) == \E g \in [0 .. m -> Nat] : Upto(g, m)
           B == {m \in 0 .. n : ~Has(m)}
<1>1. n \in Nat /\ \A v \in 1 .. n : value[v].parent \in 0 .. v - 1
  BY ParentsAre
<1> HIDE DEF n
<1>2. Has(0)
  <2> DEFINE g == [v \in 0 .. 0 |-> 0]
  <2>1. g \in [0 .. 0 -> Nat] /\ Upto(g, 0)
    OBVIOUS
  <2> QED
    BY <2>1
<1>3. ASSUME NEW m \in 1 .. n, Has(m - 1) PROVE Has(m)
  <2>1. PICK g \in [0 .. m - 1 -> Nat] : Upto(g, m - 1)
    BY <1>3
  <2>2. m \in Nat /\ \A v \in 1 .. m : v \in 1 .. n
    BY <1>1
  <2>3. \A v \in 1 .. m : value[v].parent \in 0 .. m - 1 /\ value[v].parent \in 0 .. m
                          /\ value[v].parent # m
    <3> TAKE v \in 1 .. m
    <3>1. value[v].parent \in 0 .. v - 1
      BY <1>1, <2>2
    <3> QED
      BY <2>2, <3>1
  <2> DEFINE h == [v \in 0 .. m |-> IF v = m THEN g[value[m].parent] + 1 ELSE g[v]]
  <2>4. m \in 1 .. m /\ \A v \in 0 .. m : v # m => v \in 0 .. m - 1
    BY <2>2
  <2>5. h \in [0 .. m -> Nat]
    <3>1. g[value[m].parent] + 1 \in Nat
      BY <2>3, <2>4
    <3> QED
      BY <2>4, <3>1
  <2>6. h[m] = g[value[m].parent] + 1 /\ \A v \in 0 .. m - 1 : h[v] = g[v]
    BY <2>2
  <2> HIDE DEF h
  <2>7. h[0] = 0
    BY <2>1, <2>2, <2>6
  <2>8. ASSUME NEW v \in 1 .. m PROVE h[v] = h[value[v].parent] + 1
    <3>1. h[value[v].parent] = g[value[v].parent]
      BY <2>3, <2>6
    <3>2. CASE v = m
      BY <2>6, <3>1, <3>2
    <3>3. CASE v # m
      <4>1. v \in 1 .. m - 1 /\ v \in 0 .. m - 1
        BY <2>2, <3>3
      <4> QED
        BY <2>1, <2>6, <3>1, <4>1
    <3> QED
      BY <3>2, <3>3
  <2>9. Upto(h, m)
    BY <2>7, <2>8
  <2> HIDE DEF Upto
  <2> QED
    BY <2>5, <2>9
<1> HIDE DEF Has
<1>4. B = {}
  <2>1. B \in SUBSET Nat
    OBVIOUS
  <2>2. ASSUME NEW m \in B PROVE m # 0 /\ m - 1 \in B
    <3>1. m # 0
      BY <1>2
    <3>2. m \in 1 .. n /\ m - 1 \in 0 .. n
      BY <1>1, <3>1
    <3> QED
      BY <1>3, <3>1, <3>2
  <2> HIDE DEF B
  <2> QED
    BY <2>1, <2>2, NoneIsFirst
<1>5. Has(n)
  BY <1>1, <1>4
<1> QED
  BY <1>5 DEF Has, n

LEMMA DepthIs ==
    ASSUME IsTree(value, members)
    PROVE  /\ Depth[Absent] = 0
           /\ \A v \in 1 .. Len(value) :
                 Depth[v] \in Nat \ {0} /\ Depth[v] = Depth[value[v].parent] + 1
<1> DEFINE n == Len(value)
           Step(g, v) == IF v = Absent THEN 0 ELSE g[value[v].parent] + 1
           Defines(g) == g = [v \in {Absent} \cup DOMAIN value |->
                                 IF v = Absent THEN 0 ELSE g[value[v].parent] + 1]
<1>1. n \in Nat /\ DOMAIN value = 1 .. n
      /\ \A v \in 1 .. n : value[v].parent \in 0 .. v - 1
  BY ParentsAre
<1>2. {Absent} \cup DOMAIN value = 0 .. n
  BY <1>1 DEF Absent
<1>3. PICK g \in [0 .. n -> Nat] :
          g[0] = 0 /\ \A v \in 1 .. n : g[v] = g[value[v].parent] + 1
  BY DepthExists
<1> HIDE DEF n
<1>4. \A v \in 0 .. n : v = 0 \/ v \in 1 .. n
  BY <1>1
<1>5. Defines(g)
  <2>1. \A v \in 0 .. n : g[v] = Step(g, v)
    <3> TAKE v \in 0 .. n
    <3>1. CASE v = 0
      BY <1>3, <3>1 DEF Absent
    <3>2. CASE v \in 1 .. n
      <4>1. v # Absent
        BY <1>1, <3>2 DEF Absent
      <4> QED
        BY <1>3, <3>2, <4>1
    <3> QED
      BY <1>4, <3>1, <3>2
  <2>2. [v \in 0 .. n |-> g[v]] = [v \in 0 .. n |-> Step(g, v)]
    BY <2>1
  <2>3. g = [v \in 0 .. n |-> g[v]]
    OBVIOUS
  <2> QED
    BY <1>2, <2>2, <2>3
<1>6. Depth = CHOOSE f : Defines(f)
  BY DEF Depth
<1> HIDE DEF Defines
<1>7. Defines(Depth)
  BY <1>5, <1>6
<1>8. \A v \in 0 .. n : Depth[v] = Step(Depth, v)
  BY <1>2, <1>7 DEF Defines
<1>9. Depth[Absent] = 0
  <2>1. Absent \in 0 .. n
    BY <1>1 DEF Absent
  <2> QED
    BY <1>8, <2>1
<1>10. \A v \in 1 .. n : Depth[v] = Depth[value[v].parent] + 1
  <2>1. \A v \in 1 .. n : v \in 0 .. n /\ v # Absent
    BY <1>1 DEF Absent
  <2> QED
    BY <1>8, <2>1
<1> DEFINE B == {m \in 0 .. n : ~ \A v \in 0 .. m : Depth[v] \in Nat}
<1>11. B = {}
  <2>1. B \in SUBSET Nat
    OBVIOUS
  <2>2. ASSUME NEW m \in B PROVE m # 0 /\ m - 1 \in B
    <3>1. m # 0
      <4>1. \A v \in 0 .. 0 : v = Absent
        BY DEF Absent
      <4> QED
        BY <1>9, <4>1
    <3>2. m \in 1 .. n /\ m - 1 \in 0 .. n /\ m \in Nat
      BY <1>1, <3>1
    <3>3. ASSUME \A v \in 0 .. m - 1 : Depth[v] \in Nat PROVE FALSE
      <4>1. value[m].parent \in 0 .. m - 1
        BY <1>1, <3>2
      <4>2. Depth[m] \in Nat
        BY <1>10, <3>2, <3>3, <4>1
      <4>3. \A v \in 0 .. m : v = m \/ v \in 0 .. m - 1
        BY <3>2
      <4> QED
        BY <3>3, <4>2, <4>3
    <3> QED
      BY <3>1, <3>2, <3>3
  <2> HIDE DEF B
  <2> QED
    BY <2>1, <2>2, NoneIsFirst
<1>12. \A v \in 0 .. n : Depth[v] \in Nat
  <2>1. n \in 0 .. n
    BY <1>1
  <2> QED
    BY <1>11, <2>1
<1>13. \A v \in 1 .. n : Depth[v] \in Nat \ {0}
  <2> TAKE v \in 1 .. n
  <2>1. value[v].parent \in 0 .. n
    <3>1. value[v].parent \in 0 .. v - 1
      BY <1>1
    <3> QED
      BY <1>1, <3>1
  <2>2. PICK k \in Nat : k = Depth[value[v].parent]
    BY <1>12, <2>1
  <2>3. Depth[v] = k + 1
    BY <1>10, <2>2
  <2> QED
    BY <2>2, <2>3
<1> QED
  BY <1>9, <1>10, <1>13 DEF n
WrittenItem(W, v, i) ==
    LET k == members[v][i] IN
    Line(Depth[v])
    \o (IF value[v].type = "array" THEN << >>
        ELSE Together(StringTasks(value[k].name))
             \o (IF Compact THEN <<":">> ELSE <<":", " ">>))
    \o W[k] \o (IF k = LastOf(v) THEN << >> ELSE <<",">>)
WrittenBy(W, v) ==
    IF value[v].type \notin Containers THEN Together(ValueTasks(v))
    ELSE <<IF value[v].type = "array" THEN "[" ELSE "{">>
         \o FlattenSeq([i \in DOMAIN members[v] |-> WrittenItem(W, v, i)])
         \o Line(Depth[v] - 1)
         \o <<IF value[v].type = "array" THEN "]" ELSE "}">>

LEMMA WrittenBySame ==
    ASSUME NEW g, NEW h, NEW v,
           \A i \in DOMAIN members[v] : g[members[v][i]] = h[members[v][i]]
    PROVE  WrittenBy(g, v) = WrittenBy(h, v)
<1>1. \A i \in DOMAIN members[v] : WrittenItem(g, v, i) = WrittenItem(h, v, i)
  BY Zenon DEF WrittenItem
<1>2. [i \in DOMAIN members[v] |-> WrittenItem(g, v, i)]
      = [i \in DOMAIN members[v] |-> WrittenItem(h, v, i)]
  BY <1>1
<1> QED
  BY <1>2, Zenon DEF WrittenBy

LEMMA WrittenExists ==
    ASSUME IsTree(value, members)
    PROVE  \E g : g = [v \in 1 .. Len(value) |-> WrittenBy(g, v)]
<1> DEFINE n == Len(value)
           Upto(g, m) == g = [v \in n - m + 1 .. n |-> WrittenBy(g, v)]
           Has(m) == \E g : Upto(g, m)
           B == {m \in 0 .. n : ~Has(m)}
<1>1. n \in Nat
  BY ParentsAre
<1>0. \A v \in 1 .. n : \A i \in DOMAIN members[v] : members[v][i] \in v + 1 .. n
  <2> TAKE v \in 1 .. n
  <2>1. members[v] \in Seq(Nat)
    BY ListIs
  <2>2. DOMAIN members[v] = 1 .. Len(members[v])
    BY <2>1
  <2> QED
    BY <2>2 DEF IsTree, Lists
<1> HIDE DEF n
<1>2. Has(0)
  <2> DEFINE g == [v \in n - 0 + 1 .. n |-> << >>]
  <2>1. \A v \in n - 0 + 1 .. n : << >> = WrittenBy(g, v)
    BY <1>1
  <2>2. g = [v \in n - 0 + 1 .. n |-> WrittenBy(g, v)]
    BY <2>1
  <2> QED
    BY <2>2
<1>3. ASSUME NEW m \in 1 .. n, Has(m - 1) PROVE Has(m)
  <2>1. PICK g : Upto(g, m - 1)
    BY <1>3
  <2> DEFINE k == n - m + 1
             h == [v \in k .. n |-> IF v = k THEN WrittenBy(g, k) ELSE g[v]]
  <2>2. k \in 1 .. n /\ n - (m - 1) + 1 = k + 1
    BY <1>1
  <2> HIDE DEF k
  <2>3. g = [v \in k + 1 .. n |-> WrittenBy(g, v)]
    BY <2>1, <2>2
  <2>4. \A v \in k .. n : v = k \/ v \in k + 1 .. n
    BY <2>2
  <2>5. \A v \in k + 1 .. n : v \in k .. n /\ v # k
    BY <1>1, <2>2
  <2>6. k \in k .. n /\ h[k] = WrittenBy(g, k)
    BY <1>1, <2>2
  <2>7. \A v \in k + 1 .. n : h[v] = g[v]
    BY <2>5
  <2> HIDE DEF h
  <2>8. ASSUME NEW v \in k .. n PROVE WrittenBy(g, v) = WrittenBy(h, v)
    <3>1. \A i \in DOMAIN members[v] : members[v][i] \in k + 1 .. n
      <4>1. v \in 1 .. n /\ \A j \in v + 1 .. n : j \in k + 1 .. n
        BY <1>1, <2>2
      <4> QED
        BY <1>0, <4>1
    <3>2. \A i \in DOMAIN members[v] : g[members[v][i]] = h[members[v][i]]
      BY <2>7, <3>1
    <3> QED
      BY <3>2, WrittenBySame
  <2>9. \A v \in k .. n : h[v] = WrittenBy(h, v)
    <3> TAKE v \in k .. n
    <3>1. CASE v = k
      BY <2>6, <2>8, <3>1
    <3>2. CASE v \in k + 1 .. n
      <4>1. g[v] = WrittenBy(g, v)
        BY <2>3, <3>2
      <4> QED
        BY <2>7, <2>8, <3>2, <4>1
    <3> QED
      BY <2>4, <3>1, <3>2
  <2>10. h = [v \in k .. n |-> h[v]]
    BY DEF h
  <2>11. [v \in k .. n |-> h[v]] = [v \in k .. n |-> WrittenBy(h, v)]
    BY <2>9
  <2>12. Upto(h, m)
    BY <2>10, <2>11 DEF k
  <2> HIDE DEF Upto
  <2> QED
    BY <2>12
<1> HIDE DEF Has
<1>4. B = {}
  <2>1. B \in SUBSET Nat
    OBVIOUS
  <2>2. ASSUME NEW m \in B PROVE m # 0 /\ m - 1 \in B
    <3>1. m # 0
      BY <1>2
    <3>2. m \in 1 .. n /\ m - 1 \in 0 .. n
      BY <1>1, <3>1
    <3> QED
      BY <1>3, <3>1, <3>2
  <2> HIDE DEF B
  <2> QED
    BY <2>1, <2>2, NoneIsFirst
<1>5. Has(n)
  BY <1>1, <1>4
<1>6. n - n + 1 = 1
  BY <1>1
<1> QED
  BY <1>5, <1>6 DEF Has, n

LEMMA WrittenIs ==
    ASSUME IsTree(value, members)
    PROVE  \A v \in 1 .. Len(value) : Written[v] = WrittenBy(Written, v)
<1> DEFINE Defines(g) == g = [v \in DOMAIN value |-> WrittenBy(g, v)]
<1>1. DOMAIN value = 1 .. Len(value)
  BY ParentsAre
<1>2. PICK g : g = [v \in 1 .. Len(value) |-> WrittenBy(g, v)]
  BY WrittenExists
<1>3. Defines(g)
  BY <1>1, <1>2
<1>4. Written = CHOOSE f : Defines(f)
  BY DEF Written, WrittenBy, WrittenItem
<1> HIDE DEF Defines
<1>5. Defines(Written)
  BY <1>3, <1>4
<1>6. Written = [v \in 1 .. Len(value) |-> WrittenBy(Written, v)]
  BY <1>1, <1>5 DEF Defines
<1> DEFINE w == Written
<1>7. w = [v \in 1 .. Len(value) |-> WrittenBy(w, v)]
  BY <1>6
<1> HIDE DEF w
<1>8. \A v \in 1 .. Len(value) : w[v] = WrittenBy(w, v)
  BY <1>7
<1> QED
  BY <1>8 DEF w

LEMMA SpellingIs ==
    ASSUME NEW r \in JsonValue PROVE Spelling(r) \in Seq(Chars)
<1>1. r.word \in Int
  BY DEF JsonValue
<1>2. AsSigned(r.word, Width(5)) \in Int
  <2>1. Width(5) \in Nat
    BY WidthAssumption
  <2>2. PICK p \in Nat : p = 2 ^ Width(5) /\ p > 0
    BY <2>1, PowerIsPositive DEF Positive
  <2>3. r.word % p \in Int
    BY <1>1, <2>2
  <2>4. AsSigned(r.word, Width(5)) \in {r.word % p, (r.word % p) - p}
    BY <2>2 DEF AsSigned
  <2> QED
    BY <2>2, <2>3, <2>4
<1>3. r.word \in Chars /\ AsSigned(r.word, Width(5)) \in Chars
      /\ "double" \in Chars /\ "number" \in Chars
  BY <1>1, <1>2, CharsAre DEF Signs
<1> QED
  BY <1>3, ShortTexts, Zenon DEF Spelling

LEMMA ScalarIsPlain ==
    ASSUME IsTree(value, members), NEW v \in 1 .. Len(value), value[v].type \notin Containers
    PROVE  Plains(ValueTasks(v))
<1>1. value[v] \in JsonValue
  BY ListIs
<1>2. value[v].type \in {"null", "boolean", "string", "number"} /\ value[v].text \in Bytes
  BY <1>1 DEF JsonValue, TypeNames, Containers, Bytes
<1>3. \A s \in Seq(Chars) : Plains(<<Data(s)>>)
  BY DataIs, PlainsOne
<1>4. CASE value[v].type = "string"
  <2>1. ValueTasks(v) = StringTasks(value[v].text)
    BY <1>4 DEF ValueTasks
  <2> QED
    BY <1>2, <2>1, StringTasksArePlain
<1>5. CASE value[v].type = "number"
  <2>1. ValueTasks(v) = <<Data(Spelling(value[v]))>>
    BY <1>5 DEF ValueTasks
  <2> QED
    BY <1>1, <1>3, <2>1, SpellingIs
<1>6. "n" \in Chars /\ "u" \in Chars /\ "l" \in Chars /\ "t" \in Chars /\ "r" \in Chars
      /\ "e" \in Chars /\ "f" \in Chars /\ "a" \in Chars /\ "s" \in Chars
  BY CharsAre DEF Signs
<1>7. CASE value[v].type = "null"
  <2>1. ValueTasks(v) = <<Data(<<"n", "u", "l", "l">>)>>
    BY <1>7 DEF ValueTasks
  <2>2. \A a, b, c, d \in Chars : <<a, b, c, d>> \in Seq(Chars)
    OBVIOUS
  <2>3. <<"n", "u", "l", "l">> \in Seq(Chars)
    BY <1>6, <2>2, Zenon
  <2> QED
    BY <1>3, <2>1, <2>3
<1>8. CASE value[v].type = "boolean"
  <2>1. ValueTasks(v) = <<Data(IF value[v].word = 1 THEN <<"t", "r", "u", "e">>
                                ELSE <<"f", "a", "l", "s", "e">>)>>
    BY <1>8 DEF ValueTasks
  <2>2. (\A a, b, c, d \in Chars : <<a, b, c, d>> \in Seq(Chars))
        /\ \A a, b, c, d, e \in Chars : <<a, b, c, d, e>> \in Seq(Chars)
    OBVIOUS
  <2>3. <<"t", "r", "u", "e">> \in Seq(Chars) /\ <<"f", "a", "l", "s", "e">> \in Seq(Chars)
    BY <1>6, <2>2, Zenon
  <2> QED
    BY <1>3, <2>1, <2>3
<1> QED
  BY <1>2, <1>4, <1>5, <1>7, <1>8

\* The tree of the document, with texts.
TreeOf(W) == [val |-> value, mem |-> members, text |-> W, depth |-> Depth]

LEMMA TreeOfIs ==
    ASSUME NEW W
    PROVE  /\ TreeOf(W).val = value /\ TreeOf(W).mem = members
           /\ TreeOf(W).text = W /\ TreeOf(W).depth = Depth
  BY DEF TreeOf

LEMMA ContainerText ==
    ASSUME IsTree(value, members), NEW W, NEW v \in 1 .. Len(value),
           Readable(TreeOf(W), v), value[v].type \in Containers
    PROVE  /\ WrittenBy(W, v) = Opening(value[v].type) \o RestText(TreeOf(W), v, 1)
                                \o Closing(value[v].type)
           /\ WrittenBy(W, v) \in Seq(Chars)
<1> DEFINE d == TreeOf(W)
           n == Len(members[v])
           a == Opening(value[v].type)
           z == Closing(value[v].type)
           l == Line(Depth[v] - 1)
           f == [i \in DOMAIN members[v] |-> WrittenItem(W, v, i)]
           x == FlattenSeq(f)
<1>1. d.val = value /\ d.mem = members /\ d.text = W /\ d.depth = Depth
  BY TreeOfIs
<1>2. members[v] \in Seq(Nat) /\ n \in Nat /\ DOMAIN members[v] = 1 .. n
  BY ListIs
<1>3. WrittenBy(W, v) = a \o x \o l \o z
  BY Zenon DEF WrittenBy, Opening, Closing
<1>4. a \in Seq(Chars) /\ z \in Seq(Chars)
  <2>1. "[" \in Chars /\ "]" \in Chars /\ "{" \in Chars /\ "}" \in Chars
    BY CharsAre DEF Signs
  <2> QED
    BY <2>1, ShortTexts, Zenon DEF Opening, Closing
<1>5. l \in Seq(Chars)
  <2>1. Depth[v] - 1 \in Nat
    BY DepthIs
  <2> QED
    BY <2>1, LineIs
<1>6. Items(d, v) \in Seq(Seq(Chars)) /\ Len(Items(d, v)) = n
  BY <1>1, ItemsAre
<1>7. \A i \in 1 .. n : WrittenItem(W, v, i) = ItemText(d, v, i)
  <2> TAKE i \in 1 .. n
  <2>1. members[v] # << >> /\ LastOf(v) = members[v][n]
    <3>1. n # 0
      BY <1>2
    <3>2. members[v] # << >>
      BY <1>2, <3>1
    <3> QED
      BY <3>2 DEF LastOf, Last
  <2>2. members[v][i] = LastOf(v) <=> i = n
    <3>1. n \in 1 .. n
      BY <1>2
    <3> QED
      BY <2>1, <3>1 DEF IsTree, Lists
  <2> DEFINE e == IF members[v][i] = LastOf(v) THEN << >> ELSE <<",">>
             g == IF i = n THEN << >> ELSE <<",">>
  <2>3. e = g
    BY <2>2
  <2>4. WrittenItem(W, v, i) =
            Line(Depth[v])
            \o (IF value[v].type = "array" THEN << >>
                ELSE Together(StringTasks(value[members[v][i]].name))
                     \o (IF Compact THEN <<":">> ELSE <<":", " ">>))
            \o W[members[v][i]] \o e
    BY Zenon DEF WrittenItem
  <2>5. ItemText(d, v, i) =
            Line(Depth[v])
            \o (IF value[v].type = "array" THEN << >>
                ELSE Together(StringTasks(value[members[v][i]].name))
                     \o (IF Compact THEN <<":">> ELSE <<":", " ">>))
            \o W[members[v][i]] \o g
    <3> HIDE DEF d
    <3> QED
      BY <1>1, Zenon DEF ItemText
  <2> DEFINE c == Line(Depth[v])
                  \o (IF value[v].type = "array" THEN << >>
                      ELSE Together(StringTasks(value[members[v][i]].name))
                           \o (IF Compact THEN <<":">> ELSE <<":", " ">>))
                  \o W[members[v][i]]
  <2>6. WrittenItem(W, v, i) = c \o e /\ ItemText(d, v, i) = c \o g
    BY <2>4, <2>5, Zenon
  <2> HIDE DEF c, d, e, g
  <2> QED
    BY <2>3, <2>6
<1>8. f = Items(d, v)
  <2>1. Items(d, v) = [i \in 1 .. n |-> ItemText(d, v, i)]
    <3> HIDE DEF d
    <3> QED
      BY <1>1, Zenon DEF Items
  <2>2. f = [i \in 1 .. n |-> WrittenItem(W, v, i)]
    BY <1>2
  <2>3. [i \in 1 .. n |-> WrittenItem(W, v, i)] = [i \in 1 .. n |-> ItemText(d, v, i)]
    BY <1>7
  <2> HIDE DEF d, f
  <2> QED
    BY <2>1, <2>2, <2>3
<1> HIDE DEF d, a, z, l, f
<1>9. x \in Seq(Chars)
  BY <1>6, <1>8, FlatInSeq
<1>10. RestText(d, v, 1) = x \o l
  <2>1. SubSeq(Items(d, v), 1, n) = Items(d, v)
    BY <1>6, SubSeqFull
  <2>2. RestText(d, v, 1) = FlattenSeq(SubSeq(Items(d, v), 1, n)) \o Line(Depth[v] - 1)
    BY <1>1 DEF RestText
  <2> QED
    BY <1>8, <2>1, <2>2 DEF l
<1> HIDE DEF x
<1>11. a \o x \o l = a \o (x \o l)
  <2>1. PICK p \in Seq(Chars), q \in Seq(Chars), r \in Seq(Chars) : p = a /\ q = x /\ r = l
    BY <1>4, <1>5, <1>9
  <2>2. (p \o q) \o r = p \o (q \o r)
    BY ConcatAssociative
  <2> QED
    BY <2>1, <2>2
<1>12. x \o l \in Seq(Chars) /\ a \o (x \o l) \in Seq(Chars)
       /\ a \o (x \o l) \o z \in Seq(Chars)
  <2>1. x \o l \in Seq(Chars)
    BY <1>5, <1>9, ConcatProperties
  <2>2. a \o (x \o l) \in Seq(Chars)
    BY <1>4, <2>1, ConcatProperties
  <2>3. a \o (x \o l) \o z \in Seq(Chars)
    BY <1>4, <2>2, ConcatProperties
  <2> QED
    BY <2>1, <2>2, <2>3
<1> QED
  BY <1>3, <1>10, <1>11, <1>12 DEF d, a, z

LEMMA WrittenIsText ==
    ASSUME IsTree(value, members)
    PROVE  \A v \in 1 .. Len(value) : Written[v] \in Seq(Chars)
<1> DEFINE n == Len(value)
           B == {m \in 0 .. n : ~ \A v \in n - m + 1 .. n : Written[v] \in Seq(Chars)}
<1>1. n \in Nat
  BY ParentsAre
<1>2. ASSUME NEW v \in 1 .. n, \A k \in v + 1 .. n : Written[k] \in Seq(Chars)
      PROVE  Written[v] \in Seq(Chars)
  <2>1. Written[v] = WrittenBy(Written, v)
    BY WrittenIs
  <2>2. CASE value[v].type \notin Containers
    <3>1. WrittenBy(Written, v) = Together(ValueTasks(v))
      BY <2>2 DEF WrittenBy
    <3> QED
      BY <2>1, <2>2, <3>1, ScalarIsPlain, TextsOf
  <2>3. CASE value[v].type \in Containers
    <3>1. Readable(TreeOf(Written), v)
      <4>1. \A i \in 1 .. Len(members[v]) : Written[members[v][i]] \in Seq(Chars)
        <5> TAKE i \in 1 .. Len(members[v])
        <5>1. members[v][i] \in v + 1 .. n
          BY DEF IsTree, Lists
        <5> QED
          BY <1>2, <5>1
      <4>2. Depth[v] \in Nat \ {0}
        BY DepthIs
      <4> QED
        BY <4>1, <4>2, TreeOfIs DEF Readable
    <3> QED
      BY <2>1, <2>3, <3>1, ContainerText
  <2> QED
    BY <2>2, <2>3
<1> HIDE DEF n
<1>3. B = {}
  <2>1. B \in SUBSET Nat
    OBVIOUS
  <2>2. ASSUME NEW m \in B PROVE m # 0 /\ m - 1 \in B
    <3>1. m # 0
      <4>1. \A v : v \notin n - 0 + 1 .. n
        BY <1>1
      <4> QED
        BY <4>1
    <3>2. m \in 1 .. n /\ m - 1 \in 0 .. n /\ m \in Nat
      BY <1>1, <3>1
    <3>3. ASSUME \A v \in n - (m - 1) + 1 .. n : Written[v] \in Seq(Chars) PROVE FALSE
      <4> DEFINE k == n - m + 1
      <4>1. k \in 1 .. n /\ n - (m - 1) + 1 = k + 1
            /\ \A v \in n - m + 1 .. n : v = k \/ v \in k + 1 .. n
        BY <1>1, <3>2
      <4> HIDE DEF k
      <4>2. Written[k] \in Seq(Chars)
        BY <1>2, <3>3, <4>1
      <4>3. \A v \in n - m + 1 .. n : Written[v] \in Seq(Chars)
        BY <3>3, <4>1, <4>2
      <4> QED
        BY <4>3
    <3> QED
      BY <3>1, <3>2, <3>3
  <2> HIDE DEF B
  <2> QED
    BY <2>1, <2>2, NoneIsFirst
<1>4. \A v \in n - n + 1 .. n : Written[v] \in Seq(Chars)
  <2>1. n \in 0 .. n
    BY <1>1
  <2> QED
    BY <1>3, <2>1
<1>5. n - n + 1 = 1
  BY <1>1
<1> QED
  BY <1>4, <1>5 DEF n

LEMMA TreeIsDocument ==
    ASSUME IsTree(value, members)
    PROVE  Document(TreeOf(Written))
<1> DEFINE d == TreeOf(Written)
<1>1. d.val = value /\ d.mem = members /\ d.text = Written /\ d.depth = Depth
  BY TreeOfIs
<1> HIDE DEF d
<1>2. ASSUME NEW v \in 1 .. Len(value)
      PROVE  /\ Depth[v] \in Nat \ {0} /\ Written[v] \in Seq(Chars)
             /\ \A i \in 1 .. Len(members[v]) :
                   members[v][i] \in 1 .. Len(value) /\ Depth[members[v][i]] = Depth[v] + 1
  <2>1. Depth[v] \in Nat \ {0} /\ Written[v] \in Seq(Chars)
    BY DepthIs, WrittenIsText
  <2>2. ASSUME NEW i \in 1 .. Len(members[v])
        PROVE  members[v][i] \in 1 .. Len(value) /\ Depth[members[v][i]] = Depth[v] + 1
    <3>1. members[v][i] \in v + 1 .. Len(value) /\ value[members[v][i]].parent = v
      BY DEF IsTree, Lists
    <3>2. members[v][i] \in 1 .. Len(value)
      BY <3>1, ParentsAre
    <3> QED
      BY <3>1, <3>2, DepthIs
  <2> QED
    BY <2>1, <2>2
<1>3. ASSUME NEW v \in 1 .. Len(value), value[v].type \in Containers
      PROVE  Written[v] = Opening(value[v].type) \o RestText(d, v, 1) \o Closing(value[v].type)
  <2>1. \A i \in 1 .. Len(members[v]) : Written[members[v][i]] \in Seq(Chars)
    BY <1>2
  <2>2. Readable(d, v)
    BY <1>1, <1>2, <2>1 DEF Readable
  <2> QED
    BY <1>3, <2>2, ContainerText, WrittenIs DEF d
<1>4. Document(d)
  BY <1>1, <1>2, <1>3 DEF Document
<1> QED
  BY <1>4 DEF d

-----------------------------------------------------------------------------
(* The tasks of the printer *)

LEMMA TextsJoin ==
    ASSUME NEW d, Document(d), NEW s, Plains(s), NEW t, Plains(t)
    PROVE  Together(s \o t) = Together(s) \o Together(t)
<1>1. Out(d, s \o t) = Together(s \o t)
  BY PlainsJoin, OutPlain
<1>2. Goods(d, s) /\ Out(d, s) = Together(s)
  BY OutPlain
<1>3. Goods(d, t) /\ Out(d, t) = Together(t)
  BY OutPlain
<1>4. Out(d, s \o t) = Out(d, s) \o Out(d, t)
  BY <1>2, <1>3, OutJoin
<1> QED
  BY <1>1, <1>2, <1>3, <1>4

LEMMA TextOfOne ==
    ASSUME NEW d, Document(d), NEW t, Plain(t) PROVE Together(<<t>>) = t.text
<1>1. Plains(<<t>>) /\ t.do \notin {"value", "rest"}
  BY PlainsOne DEF Plain
<1>2. GoodTask(d, t)
  BY <1>1 DEF Plain, GoodTask
<1>3. Out(d, <<t>>) = t.text
  BY <1>1, <1>2, OutOne DEF TextOf
<1> QED
  BY <1>1, <1>3, OutPlain

LEMMA TextOfNone == Together(<< >>) = << >>
<1> DEFINE f == [i \in DOMAIN << >> |-> << >>[i].text]
<1>1. f \in Seq(Seq(Chars)) /\ Len(f) = 0
  BY PlainsNone, TextsOf
<1>2. Together(<< >>) = FlattenSeq(f)
  BY Zenon DEF Together
<1> HIDE DEF f
<1>3. f = << >>
  BY <1>1
<1> QED
  BY <1>2, <1>3, FlatNone

LEMMA IdentIs ==
    ASSUME NEW d, Document(d), NEW m \in Nat
    PROVE  Plains(IdentTasks(2 * m)) /\ Together(IdentTasks(2 * m)) = Line(m)
<1>1. PICK n \in Nat : n = 2 * m
  OBVIOUS
<1> DEFINE spaces == [i \in 1 .. n |-> " "]
           c == IF CrLf THEN Data(<<"\r", "\n">>) ELSE Char("\n")
           s == Data(spaces)
<1>2. Plain(c) /\ c.text = NewLine
  <2>1. "\r" \in Chars /\ "\n" \in Chars
    BY CharsAre DEF Signs
  <2>2. <<"\r", "\n">> \in Seq(Chars)
    BY <2>1, ShortTexts, Zenon
  <2>3. CASE CrLf
    BY <2>2, <2>3, DataIs DEF NewLine
  <2>4. CASE ~CrLf
    BY <2>1, <2>4, CharIs DEF NewLine
  <2> QED
    BY <2>3, <2>4
<1>3. Plain(s) /\ s.text = spaces
  BY SpacesAre, DataIs
<1>4. IdentTasks(n) = IF Compact THEN << >> ELSE <<c>> \o <<s>>
  BY DEF IdentTasks
<1>5. Line(m) = IF Compact THEN << >> ELSE NewLine \o spaces
  BY <1>1 DEF Line, NewLine
<1>6. Plains(IdentTasks(n))
  BY IdentTasksArePlain
<1> HIDE DEF c, s, spaces
<1>7. Plains(<<c>>) /\ Plains(<<s>>) /\ Together(<<c>>) = NewLine /\ Together(<<s>>) = spaces
  BY <1>2, <1>3, PlainsOne, TextOfOne
<1>8. Together(<<c>> \o <<s>>) = NewLine \o spaces
  <2>1. PICK a, b : a = <<c>> /\ b = <<s>>
    OBVIOUS
  <2> QED
    BY <1>7, <2>1, TextsJoin
<1>9. Together(IdentTasks(n)) = Line(m)
  BY <1>4, <1>5, <1>8, TextOfNone
<1> QED
  BY <1>1, <1>6, <1>9

LEMMA PlanJoinPlain ==
    ASSUME NEW d, Document(d), NEW n \in Nat,
           NEW s, NEW x, NEW b, NEW t, NEW y,
           Plan(d, t, n, y, 0), Plan(d, s, n, x, b)
    PROVE  Plan(d, s \o t, n, x \o y, b)
<1>1. PICK c : c = 0
  OBVIOUS
<1>2. b \in Nat
  BY PlanIs
<1>3. n + c = n /\ b + c = b
  BY <1>1, <1>2
<1>4. Plan(d, t, n, y, c) /\ Plan(d, s, n + c, x, b)
  BY <1>1, <1>3
<1>5. Plan(d, s \o t, n, x \o y, b + c)
  BY <1>4, PlanJoin
<1> QED
  BY <1>3, <1>5

LEMMA PlanTask ==
    ASSUME NEW d, Document(d), NEW n \in Nat, NEW t, Plain(t)
    PROVE  Plan(d, <<t>>, n, t.text, 0)
<1>1. PICK s : s = <<t>>
  OBVIOUS
<1>2. Plains(s) /\ Together(s) = t.text
  BY <1>1, PlainsOne, TextOfOne
<1>3. Plan(d, s, n, Together(s), 0)
  BY <1>2, PlanPlain
<1> QED
  BY <1>1, <1>2, <1>3

LEMMA PlanNone == ASSUME NEW d, Document(d), NEW n \in Nat PROVE Plan(d, << >>, n, << >>, 0)
<1>1. PICK s : s = << >>
  OBVIOUS
<1> QED
  BY <1>1, PlainsNone, TextOfNone, PlanPlain

LEMMA RestTaskIs ==
    ASSUME NEW d, Document(d), NEW p \in 1 .. Len(d.val), d.val[p].type \in Containers,
           NEW i \in 1 .. Len(d.mem[p]) + 1, NEW n \in Nat, d.depth[p] = n + 1
    PROVE  Plan(d, <<Rest(p, i)>>, n, RestText(d, p, i), 1)
<1> DEFINE t == Rest(p, i)
<1>1. t.do = "rest" /\ t.of = p /\ t.from = i
  BY DEF Rest
<1>2. t \in Task
  <2>1. p \in Nat /\ i \in Nat /\ << >> \in Seq(Chars)
    <3>1. Len(d.val) \in Nat /\ Len(d.mem[p]) \in Nat
      BY ListIs DEF Document
    <3> QED
      BY <3>1
  <2> QED
    BY <2>1 DEF Rest, Task
<1> HIDE DEF t
<1>3. GoodTask(d, t) /\ TextOf(d, t) = RestText(d, p, i)
  BY <1>1, <1>2 DEF GoodTask, TextOf
<1>4. Plan(d, <<t>>, n, TextOf(d, t), IF t.do = "rest" THEN 1 ELSE 0)
  BY <1>1, <1>3, PlanOne
<1> QED
  BY <1>1, <1>3, <1>4 DEF t

LEMMA ValueTaskIs ==
    ASSUME NEW d, Document(d), NEW v \in 1 .. Len(d.val), NEW n \in Nat, d.depth[v] = n + 1
    PROVE  Plan(d, <<Whole(v)>>, n, d.text[v], 0)
<1> DEFINE t == Whole(v)
<1>1. t.do = "value" /\ t.of = v
  BY DEF Whole
<1>2. t \in Task
  <2>1. v \in Nat /\ << >> \in Seq(Chars)
    <3>1. Len(d.val) \in Nat
      BY ListIs DEF Document
    <3> QED
      BY <3>1
  <2> QED
    BY <2>1 DEF Whole, Task
<1> HIDE DEF t
<1>3. GoodTask(d, t) /\ TextOf(d, t) = d.text[v]
  BY <1>1, <1>2 DEF GoodTask, TextOf
<1>4. Plan(d, <<t>>, n, TextOf(d, t), IF t.do = "rest" THEN 1 ELSE 0)
  BY <1>1, <1>3, PlanOne
<1> QED
  BY <1>1, <1>3, <1>4 DEF t

LEMMA TwoAre ==
    ASSUME NEW S, NEW x \in S, NEW y \in S PROVE  <<x>> \o <<y>> = <<x, y>>
<1>1. PICK s, t : s = <<x>> \o <<y>> /\ t = <<x, y>>
  OBVIOUS
<1>2. s \in Seq(S) /\ Len(s) = 2 /\ s[1] = x /\ s[2] = y
  BY <1>1
<1>3. t \in Seq(S) /\ Len(t) = 2 /\ t[1] = x /\ t[2] = y
  BY <1>1
<1>4. \A i \in 1 .. Len(s) : s[i] = t[i]
  <2>1. 1 .. Len(s) = {1, 2}
    BY <1>2
  <2> QED
    BY <1>2, <1>3, <2>1
<1> QED
  BY <1>1, <1>2, <1>3, <1>4, SeqEqual

LEMMA ThreeAre ==
    ASSUME NEW S, NEW x \in S, NEW y \in S, NEW z \in S
    PROVE  <<x, y, z>> = <<x>> \o (<<y>> \o <<z>>)
<1>1. <<x, y, z>> = <<x>> \o <<y, z>>
  OBVIOUS
<1>2. <<y>> \o <<z>> = <<y, z>>
  BY TwoAre
<1> QED
  BY <1>1, <1>2

\* What the tasks of a value print is the text of the value.
LEMMA ValuePlan ==
    ASSUME IsTree(value, members), NEW v \in 1 .. Len(value), NEW n \in Nat,
           Depth[v] = n + 1
    PROVE  \E c : Plan(TreeOf(Written), ValueTasks(v), n, Written[v], c)
<1> DEFINE d == TreeOf(Written)
           type == value[v].type
           o == IF type = "array" THEN "[" ELSE "{"
           z == IF type = "array" THEN "]" ELSE "}"
           R == RestText(d, v, 1)
           a == <<Char(o)>>
           r == <<Rest(v, 1)>>
           e == <<Char(z)>>
<1>1. d.val = value /\ d.mem = members /\ d.text = Written /\ d.depth = Depth
  BY TreeOfIs
<1>2. Document(d)
  BY TreeIsDocument
<1> HIDE DEF d
<1>3. CASE type \notin Containers
  <2>1. Written[v] = Together(ValueTasks(v))
    BY <1>3, WrittenIs DEF WrittenBy
  <2>2. Plan(d, ValueTasks(v), n, Together(ValueTasks(v)), 0)
    BY <1>2, <1>3, ScalarIsPlain, PlanPlain
  <2> QED
    BY <2>1, <2>2 DEF d
<1>4. CASE type \in Containers
  <2>1. type \in {"array", "object"}
    BY <1>4 DEF Containers
  <2>2. ValueTasks(v) = <<Char(o), Rest(v, 1), Char(z)>>
    BY <2>1 DEF ValueTasks
  <2>3. ValueTasks(v) = a \o (r \o e)
    <3>1. PICK S, k, l, m : k = Char(o) /\ l = Rest(v, 1) /\ m = Char(z) /\ S = {k, l, m}
      OBVIOUS
    <3>2. k \in S /\ l \in S /\ m \in S
      BY <3>1
    <3>3. <<k, l, m>> = <<k>> \o (<<l>> \o <<m>>)
      BY <3>2, ThreeAre
    <3> QED
      BY <2>2, <3>1, <3>3
  <2>4. Written[v] = <<o>> \o R \o <<z>>
    BY <1>1, <1>2, <1>4, Zenon DEF Document, Opening, Closing
  <2>5. o \in Chars /\ z \in Chars
    BY CharsAre DEF Signs
  <2>6. <<o>> \in Seq(Chars) /\ <<z>> \in Seq(Chars)
    BY <2>5, ShortTexts, Zenon
  <2>7. R \in Seq(Chars)
    <3>1. Readable(d, v)
      BY <1>1, <1>2, IsReadable
    <3>2. 1 \in 1 .. Len(d.mem[v]) + 1
      <4>1. Len(members[v]) \in Nat
        BY ListIs
      <4> QED
        BY <1>1, <4>1
    <3> QED
      BY <3>1, <3>2, RestIs
  <2>8. Written[v] = <<o>> \o (R \o <<z>>)
    <3>1. PICK x \in Seq(Chars), y \in Seq(Chars), w \in Seq(Chars) :
             x = <<o>> /\ y = R /\ w = <<z>>
      BY <2>6, <2>7
    <3>2. (x \o y) \o w = x \o (y \o w)
      BY ConcatAssociative
    <3> QED
      BY <2>4, <3>1, <3>2
  <2>9. \A c \in Chars : \A m \in Nat : Plan(d, <<Char(c)>>, m, <<c>>, 0)
    <3> TAKE c \in Chars
    <3> TAKE m \in Nat
    <3>1. PICK t : t = Char(c)
      OBVIOUS
    <3>2. Plain(t) /\ t.text = <<c>>
      BY <3>1, CharIs
    <3>3. Plan(d, <<t>>, m, t.text, 0)
      BY <1>2, <3>2, PlanTask
    <3> QED
      BY <3>1, <3>2, <3>3
  <2>10. Plan(d, a, n + 1, <<o>>, 0) /\ Plan(d, e, n, <<z>>, 0)
    <3>1. n + 1 \in Nat
      OBVIOUS
    <3> HIDE DEF o, z
    <3> QED
      BY <2>5, <2>9, <3>1
  <2>11. Plan(d, r, n, R, 1)
    <3>1. 1 \in 1 .. Len(d.mem[v]) + 1
      <4>1. Len(members[v]) \in Nat
        BY ListIs
      <4> QED
        BY <1>1, <4>1
    <3> QED
      BY <1>1, <1>2, <1>4, <3>1, RestTaskIs
  <2> HIDE DEF a, r, e, R, o, z
  <2>12. Plan(d, r \o e, n, R \o <<z>>, 1)
    <3>1. PICK y : y = <<z>>
      OBVIOUS
    <3> QED
      BY <1>2, <2>10, <2>11, <3>1, PlanJoinPlain
  <2>13. PICK x, y, s : x = <<o>> /\ y = R \o <<z>> /\ s = r \o e
    OBVIOUS
  <2>14. Plan(d, a \o s, n, x \o y, 0 + 1)
    <3>1. PICK one, zero : one = 1 /\ zero = 0
      OBVIOUS
    <3>2. Plan(d, s, n, y, one) /\ Plan(d, a, n + one, x, zero)
      BY <2>10, <2>12, <2>13, <3>1
    <3>3. Plan(d, a \o s, n, x \o y, zero + one)
      BY <1>2, <3>2, PlanJoin
    <3> QED
      BY <3>1, <3>3
  <2> QED
    BY <2>3, <2>8, <2>13, <2>14 DEF d
<1> QED
  BY <1>3, <1>4

\* What the rest of a container prints, as long as nothing failed.
LEMMA RestPlan ==
    ASSUME IsTree(value, members), NEW p \in 1 .. Len(value), value[p].type \in Containers,
           NEW i \in 1 .. Len(members[p]) + 1, NEW n \in Nat, Depth[p] = n + 1,
           Ident = 2 * (n + 1)
    PROVE  \E x, c : /\ Plan(TreeOf(Written), RestTasks(p, i), n, x, c)
                     /\ ok => x = RestText(TreeOf(Written), p, i)
<1> DEFINE d == TreeOf(Written)
<1>1. d.val = value /\ d.mem = members /\ d.text = Written /\ d.depth = Depth
  BY TreeOfIs
<1>2. Document(d) /\ Readable(d, p)
  BY <1>1, TreeIsDocument, IsReadable
<1>3. Len(members[p]) \in Nat /\ Len(value) \in Nat
  BY ListIs
<1> HIDE DEF d
<1>4. CASE i > Len(members[p]) \/ ~ok
  <2>1. RestTasks(p, i) = IdentTasks(2 * n)
    <3>1. Ident - 2 = 2 * n
      OBVIOUS
    <3> QED
      BY <1>4, <3>1 DEF RestTasks
  <2>2. Plan(d, RestTasks(p, i), n, Line(n), 0)
    BY <1>2, <2>1, IdentIs, PlanPlain
  <2>3. ok => Line(n) = RestText(d, p, i)
    <3> SUFFICES ASSUME ok PROVE Line(n) = RestText(d, p, i)
      OBVIOUS
    <3>1. i = Len(d.mem[p]) + 1 /\ d.depth[p] - 1 = n
      BY <1>1, <1>3, <1>4
    <3>2. RestText(d, p, Len(d.mem[p]) + 1) = Line(d.depth[p] - 1)
      BY <1>2, RestIs
    <3> QED
      BY <3>1, <3>2
  <2> QED
    BY <2>2, <2>3 DEF d
<1>5. CASE ~(i > Len(members[p]) \/ ~ok)
  <2> DEFINE k == members[p][i]
             key == StringTasks(value[k].name)
             colon == <<Char(":")>>
             space == IF Compact THEN << >> ELSE <<Char(" ")>>
             A == IdentTasks(2 * (n + 1))
             B == IF value[p].type = "object" THEN key \o colon \o space ELSE << >>
             K == <<Whole(k)>>
             C == IF i < Len(members[p]) THEN <<Char(",")>> ELSE << >>
             R == <<Rest(p, i + 1)>>
             b == IF value[p].type = "array" THEN << >>
                  ELSE Together(StringTasks(value[k].name))
                       \o (IF Compact THEN <<":">> ELSE <<":", " ">>)
             c == IF i = Len(members[p]) THEN << >> ELSE <<",">>
             l == Line(n + 1)
             w == Written[k]
             r == RestText(d, p, i + 1)
  <2>1. RestTasks(p, i) = A \o B \o K \o C \o R
    BY <1>5 DEF RestTasks
  <2>2. i \in 1 .. Len(members[p]) /\ i + 1 \in 1 .. Len(members[p]) + 1 /\ n + 1 \in Nat
    BY <1>3, <1>5
  <2>3. ItemText(d, p, i) = l \o b \o w \o c
    BY <1>1 DEF ItemText
  <2>4. k \in 1 .. Len(value) /\ Depth[k] = (n + 1) + 1 /\ value[k].name \in Bytes
    <3>1. k \in p + 1 .. Len(value)
      BY <2>2 DEF IsTree, Lists
    <3>2. k \in 1 .. Len(value)
      BY <1>3, <3>1
    <3>3. Depth[k] = Depth[p] + 1
      BY <1>1, <1>2, <2>2 DEF Document
    <3>4. value[k] \in JsonValue
      BY <3>2, ListIs
    <3>5. value[k].name \in Bytes
      BY <3>4 DEF JsonValue, Bytes
    <3> QED
      BY <3>2, <3>3, <3>5
  <2>5. Plan(d, A, n + 1, l, 0)
    <3>1. Plains(A) /\ Together(A) = l
      BY <1>2, <2>2, IdentIs
    <3> HIDE DEF A, l
    <3> QED
      BY <1>2, <2>2, <3>1, PlanPlain
  <2>6. \A e \in Chars : Plan(d, <<Char(e)>>, n + 1, <<e>>, 0) /\ Plains(<<Char(e)>>)
                         /\ Together(<<Char(e)>>) = <<e>>
    <3> TAKE e \in Chars
    <3>1. PICK t : t = Char(e)
      OBVIOUS
    <3>2. Plain(t) /\ t.text = <<e>>
      BY <3>1, CharIs
    <3>3. Plan(d, <<t>>, n + 1, t.text, 0)
      BY <1>2, <2>2, <3>2, PlanTask
    <3>4. Plains(<<t>>) /\ Together(<<t>>) = t.text
      BY <1>2, <3>2, PlainsOne, TextOfOne
    <3> QED
      BY <3>1, <3>2, <3>3, <3>4
  <2>7. ":" \in Chars /\ " " \in Chars /\ "," \in Chars
    BY CharsAre DEF Signs
  <2>8. Plan(d, << >>, n + 1, << >>, 0)
    BY <1>2, <2>2, PlanNone
  <2>9. Plan(d, B, n + 1, b, 0)
    <3>1. CASE value[p].type # "object"
      <4>1. value[p].type = "array"
        BY <3>1 DEF Containers
      <4>2. B = << >> /\ b = << >>
        BY <3>1, <4>1
      <4> HIDE DEF B, b
      <4> QED
        BY <2>8, <4>2
    <3>2. CASE value[p].type = "object"
      <4>1. B = key \o colon \o space
            /\ b = Together(key) \o (IF Compact THEN <<":">> ELSE <<":", " ">>)
        BY <3>2
      <4>2. Plains(key) /\ Together(key) \in Seq(Chars)
        BY <2>4, StringTasksArePlain, TextsOf
      <4>3. Plains(colon) /\ Together(colon) = <<":">> /\ <<":">> \in Seq(Chars)
        BY <2>6, <2>7, ShortTexts, Zenon
      <4> HIDE DEF key, colon, B, b
      <4>4. Plains(key \o colon) /\ Together(key \o colon) = Together(key) \o <<":">>
        BY <1>2, <4>2, <4>3, PlainsJoin, TextsJoin
      <4>5. CASE Compact
        <5>1. B = key \o colon /\ b = Together(key) \o <<":">>
          <6>1. key \o colon \o << >> = key \o colon
            <7>1. key \o colon \in Seq(Task)
              BY <4>4 DEF Plains
            <7> QED
              BY <7>1, ConcatEmptySeq
          <6> QED
            BY <4>1, <4>5, <6>1
        <5> QED
          BY <1>2, <2>2, <4>4, <5>1, PlanPlain
      <4>6. CASE ~Compact
        <5>1. PICK s, t : s = <<Char(" ")>> /\ t = key \o colon
          OBVIOUS
        <5>2. Plains(s) /\ Together(s) = <<" ">> /\ <<" ">> \in Seq(Chars)
          BY <2>6, <2>7, <5>1, ShortTexts, Zenon
        <5>3. Plains(t \o s) /\ Together(t \o s) = (Together(key) \o <<":">>) \o <<" ">>
          <6>1. Plains(t) /\ Together(t) = Together(key) \o <<":">>
            BY <4>4, <5>1
          <6>2. Plains(t \o s) /\ Together(t \o s) = Together(t) \o Together(s)
            BY <1>2, <5>2, <6>1, PlainsJoin, TextsJoin
          <6> QED
            BY <5>2, <6>1, <6>2
        <5>4. (Together(key) \o <<":">>) \o <<" ">> = Together(key) \o <<":", " ">>
          <6>1. PICK x \in Seq(Chars), y \in Seq(Chars), z \in Seq(Chars) :
                   x = Together(key) /\ y = <<":">> /\ z = <<" ">>
            BY <4>2, <4>3, <5>2
          <6>2. (x \o y) \o z = x \o (y \o z)
            BY ConcatAssociative
          <6>3. <<":">> \o <<" ">> = <<":", " ">>
            BY <2>7, TwoAre
          <6> QED
            BY <6>1, <6>2, <6>3
        <5>5. B = t \o s /\ b = Together(t \o s)
          BY <4>1, <4>6, <5>1, <5>3, <5>4
        <5> QED
          BY <1>2, <2>2, <5>3, <5>5, PlanPlain
      <4> QED
        BY <4>5, <4>6
    <3> QED
      BY <3>1, <3>2
  <2>10. Plan(d, K, n + 1, w, 0)
    BY <1>1, <1>2, <2>2, <2>4, ValueTaskIs
  <2>11. Plan(d, C, n + 1, c, 0)
    <3>1. i < Len(members[p]) <=> i # Len(members[p])
      BY <1>3, <2>2
    <3> QED
      BY <2>6, <2>7, <2>8, <3>1, Zenon
  <2>12. Plan(d, R, n, r, 1)
    BY <1>1, <1>2, <2>2, RestTaskIs
  <2> HIDE DEF A, B, K, C, R, b, c, l, w, r, k
  <2>13. PICK AB, lb : AB = A \o B /\ lb = l \o b
    OBVIOUS
  <2>14. Plan(d, AB, n + 1, lb, 0)
    BY <1>2, <2>2, <2>5, <2>9, <2>13, PlanJoinPlain
  <2>15. PICK ABK, lbw : ABK = AB \o K /\ lbw = lb \o w
    OBVIOUS
  <2>16. Plan(d, ABK, n + 1, lbw, 0)
    BY <1>2, <2>2, <2>10, <2>14, <2>15, PlanJoinPlain
  <2>17. PICK S, x : S = ABK \o C /\ x = lbw \o c
    OBVIOUS
  <2>18. Plan(d, S, n + 1, x, 0)
    BY <1>2, <2>2, <2>11, <2>16, <2>17, PlanJoinPlain
  <2>19. Plan(d, S \o R, n, x \o r, 1)
    <3>1. PICK one, zero : one = 1 /\ zero = 0
      OBVIOUS
    <3>2. Plan(d, R, n, r, one) /\ Plan(d, S, n + one, x, zero)
      BY <2>12, <2>18, <3>1
    <3>3. Plan(d, S \o R, n, x \o r, zero + one)
      BY <1>2, <3>2, PlanJoin
    <3> QED
      BY <3>1, <3>3
  <2>20. RestText(d, p, i) = x \o r
    <3>1. RestText(d, p, i) = ItemText(d, p, i) \o RestText(d, p, i + 1)
      BY <1>1, <1>2, <2>2, RestIs
    <3> QED
      BY <2>3, <2>13, <2>15, <2>17, <3>1 DEF r
  <2>21. RestTasks(p, i) = S \o R
    BY <2>1, <2>13, <2>15, <2>17
  <2> QED
    BY <2>19, <2>20, <2>21 DEF d
<1> QED
  BY <1>4, <1>5
-----------------------------------------------------------------------------
(* The buffer *)

Buffered ==
    /\ buffer \in Seq(Chars) /\ json \in Seq(Chars) /\ ok \in BOOLEAN
    /\ Len(buffer) < BufSize

\* t is kept in the buffer, or the block grows by all that is there.
Puts(t) ==
    \/ Keep(buffer \o t) /\ Len(buffer \o t) < BufSize
    \/ Grow(json \o (buffer \o t))

LEMMA DataPuts ==
    ASSUME Buffered, NEW t \in Seq(Chars), PutData(t) PROVE Puts(t)
<1>1. buffer \in Seq(Chars) /\ json \in Seq(Chars) /\ BufSize \in Nat
  BY BufferAssumption DEF Buffered
<1>2. Len(buffer \o t) = Len(buffer) + Len(t) /\ Len(buffer) \in Nat /\ Len(t) \in Nat
  BY <1>1, ConcatProperties
<1>3. (json \o buffer) \o t = json \o (buffer \o t)
  BY <1>1, ConcatAssociative
<1>4. CASE Len(t) < BufSize - Len(buffer)
  <2>1. Len(buffer \o t) < BufSize
    BY <1>1, <1>2, <1>4
  <2> QED
    BY <1>4, <2>1 DEF PutData, Puts
<1>5. CASE ~(Len(t) < BufSize - Len(buffer))
  BY <1>3, <1>5 DEF PutData, Puts
<1> QED
  BY <1>4, <1>5

LEMMA CharPuts ==
    ASSUME Buffered, NEW c \in Chars, PutChar(c) PROVE Puts(<<c>>)
<1>1. buffer \in Seq(Chars) /\ BufSize \in Nat /\ <<c>> \in Seq(Chars) /\ Len(<<c>>) = 1
  BY BufferAssumption DEF Buffered
<1>2. Len(buffer) < BufSize /\ Len(buffer) \in Nat
  BY <1>1 DEF Buffered
<1>3. Append(buffer, c) = buffer \o <<c>>
  BY <1>1, AppendIsConcat
<1>4. Len(buffer \o <<c>>) = Len(buffer) + 1
  BY <1>1, ConcatProperties
<1>5. PICK b : b = buffer \o <<c>>
  OBVIOUS
<1>6. IF Len(b) = BufSize THEN Grow(json \o b) ELSE Keep(b)
  BY <1>3, <1>5 DEF PutChar
<1>7. CASE Len(b) = BufSize
  BY <1>5, <1>6, <1>7 DEF Puts
<1>8. CASE Len(b) # BufSize
  <2>1. Len(b) < BufSize
    BY <1>1, <1>2, <1>4, <1>5, <1>8
  <2> QED
    BY <1>5, <1>6, <1>8, <2>1 DEF Puts
<1> QED
  BY <1>7, <1>8

\* Unless something failed, what is put follows what there is.
LEMMA PutsFollow ==
    ASSUME Buffered, NEW t \in Seq(Chars), Puts(t)
    PROVE  /\ Buffered' /\ (ok' => ok)
           /\ ok' => \A y \in Seq(Chars) :
                        (json' \o buffer') \o y = (json \o buffer) \o (t \o y)
<1>1. /\ buffer \in Seq(Chars) /\ json \in Seq(Chars) /\ ok \in BOOLEAN
      /\ BufSize \in Nat \ {0} /\ buffer \o t \in Seq(Chars)
      /\ json \o (buffer \o t) \in Seq(Chars) /\ json \o buffer \in Seq(Chars)
      /\ << >> \in Seq(Chars) /\ Len(<< >>) < BufSize
  BY BufferAssumption, ConcatProperties DEF Buffered
<1>2. ASSUME NEW y \in Seq(Chars)
      PROVE  (json \o (buffer \o t)) \o y = (json \o buffer) \o (t \o y)
  <2>1. json \o (buffer \o t) = (json \o buffer) \o t
    BY <1>1, ConcatAssociative
  <2>2. ((json \o buffer) \o t) \o y = (json \o buffer) \o (t \o y)
    <3>1. PICK j \in Seq(Chars) : j = json \o buffer
      BY <1>1
    <3>2. (j \o t) \o y = j \o (t \o y)
      BY ConcatAssociative
    <3> QED
      BY <3>1, <3>2
  <2> QED
    BY <2>1, <2>2
<1>3. CASE Keep(buffer \o t) /\ Len(buffer \o t) < BufSize
  <2>1. buffer' = buffer \o t /\ json' = json /\ ok' = ok
    BY <1>3 DEF Keep
  <2>2. Buffered'
    BY <1>1, <1>3, <2>1 DEF Buffered
  <2> QED
    BY <1>2, <2>1, <2>2
<1>4. CASE Grow(json \o (buffer \o t))
  <2>1. buffer' = << >> /\ ((json' = json \o (buffer \o t) /\ ok' = ok)
                             \/ (json' = json /\ ok' = FALSE))
    BY <1>4 DEF Grow
  <2>2. Buffered' /\ (ok' => ok)
    <3>1. json' \in Seq(Chars) /\ buffer' \in Seq(Chars) /\ Len(buffer') < BufSize
      BY <1>1, <2>1
    <3>2. ok' \in BOOLEAN /\ (ok' => ok)
      <4>1. ok \in BOOLEAN /\ (ok' = ok \/ ok' = FALSE)
        BY <1>1, <2>1
      <4>2. ok' \in BOOLEAN
        BY <4>1
      <4>3. ok' => ok
        BY <4>1
      <4> QED
        BY <4>2, <4>3
    <3> QED
      BY <3>1, <3>2 DEF Buffered
  <2>3. ok' => json' \o buffer' = json \o (buffer \o t)
    BY <1>1, <2>1, ConcatEmptySeq
  <2> QED
    BY <1>2, <2>2, <2>3
<1> QED
  BY <1>3, <1>4 DEF Puts

-----------------------------------------------------------------------------
(* The text of a document *)

\* What is there and what is left to print are the text of the tree.
PrintInv ==
    /\ Buffered /\ printing \in {"no", "yes", "done"}
    /\ printing = "no" => buffer = << >> /\ json = << >>
    /\ printing # "no" => value # << >>
    /\ printing = "yes" => \E z, c : /\ Plan(TreeOf(Written), todo, 0, z, c)
                                     /\ ok => (json \o buffer) \o z = Written[1]
    /\ printing = "done" => (ok => json = Written[1])

LEMMA WrittenStays ==
    ASSUME UNCHANGED <<value, members>>
    PROVE  Written' = Written /\ TreeOf(Written)' = TreeOf(Written)
<1>1. value' = value /\ members' = members
  OBVIOUS
<1>2. Written' = Written
  BY <1>1 DEF Written, Depth, LastOf, ValueTasks, Spelling, Is, AsSigned
<1>3. Depth' = Depth
  BY <1>1 DEF Depth
<1> QED
  BY <1>1, <1>2, <1>3 DEF TreeOf

LEMMA StartKeeps == ReadInv /\ PrintInv /\ StartPrinting => PrintInv'
<1> SUFFICES ASSUME ReadInv, PrintInv, StartPrinting PROVE PrintInv'
  OBVIOUS
<1>1. printing = "no" /\ value # << >> /\ printing' = "yes" /\ todo' = ValueTasks(1)
      /\ UNCHANGED <<value, members>> /\ UNCHANGED <<buffer, json, ok>>
  BY DEF StartPrinting
<1>2. IsTree(value, members)
  BY DEF ReadInv
<1>3. 1 \in 1 .. Len(value)
  <2>1. value \in Seq(JsonValue)
    BY <1>2 DEF IsTree
  <2>2. Len(value) # 0 /\ Len(value) \in Nat
    BY <1>1, <2>1
  <2> QED
    BY <2>2
<1>4. Depth[1] = 0 + 1
  <2>1. value[1].parent \in 0 .. 1 - 1
    BY <1>2, <1>3, ParentsAre
  <2>2. value[1].parent = Absent
    BY <2>1 DEF Absent
  <2> QED
    BY <1>2, <1>3, <2>2, DepthIs
<1>5. PICK c : Plan(TreeOf(Written), ValueTasks(1), 0, Written[1], c)
  BY <1>2, <1>3, <1>4, ValuePlan
<1>6. Buffered' /\ (json' \o buffer') \o Written[1] = Written[1]
  <2>1. buffer = << >> /\ json = << >> /\ Written[1] \in Seq(Chars)
    BY <1>1, <1>2, <1>3, WrittenIsText DEF PrintInv
  <2>2. (<< >> \o << >>) \o Written[1] = Written[1]
    BY <2>1, ConcatEmptySeq
  <2> QED
    BY <1>1, <2>1, <2>2 DEF PrintInv, Buffered
<1>7. Written' = Written /\ TreeOf(Written)' = TreeOf(Written)
  BY <1>1, WrittenStays
<1> QED
  BY <1>1, <1>5, <1>6, <1>7 DEF PrintInv

\* ctx->ident is that of the containers begun.
LEMMA IdentBegun == ASSUME todo \in Seq(Task) PROVE Ident = 2 * Begun(todo, 1)
<1>1. DOMAIN todo = 1 .. Len(todo)
  OBVIOUS
<1>2. {i \in DOMAIN todo : todo[i].do = "rest"} = RestsFrom(todo, 1)
  BY <1>1 DEF RestsFrom
<1> QED
  BY <1>2 DEF Ident, Begun

LEMMA TaskKeeps == ReadInv /\ PrintInv /\ PrintTask => PrintInv'
<1> SUFFICES ASSUME ReadInv, PrintInv, PrintTask PROVE PrintInv'
  OBVIOUS
<1> DEFINE d == TreeOf(Written)
           h == Head(todo)
<1>1. /\ printing = "yes" /\ todo # << >> /\ UNCHANGED <<value, members>>
      /\ printing' = "yes" /\ value # << >>
  BY DEF PrintTask, PrintInv
<1>2. IsTree(value, members) /\ Buffered
  BY DEF ReadInv, PrintInv
<1>3. d.val = value /\ d.mem = members /\ d.text = Written /\ d.depth = Depth
  BY TreeOfIs
<1>4. Document(d)
  BY <1>2, TreeIsDocument
<1>5. PICK z, c : Plan(d, todo, 0, z, c) /\ (ok => (json \o buffer) \o z = Written[1])
  BY <1>1 DEF PrintInv
<1> HIDE DEF d
<1>6. PICK y, b : /\ Plan(d, Tail(todo), 0, y, b) /\ GoodTask(d, h)
                  /\ z = TextOf(d, h) \o y
                  /\ c = b + (IF h.do = "rest" THEN 1 ELSE 0)
                  /\ h.do \in {"rest", "value"} => d.depth[h.of] = 0 + b + 1
  <2>1. PICK n \in Nat : n = 0
    OBVIOUS
  <2> QED
    BY <1>1, <1>4, <1>5, <2>1, PlanTakes
<1>7. y \in Seq(Chars) /\ b \in Nat
  BY <1>4, <1>6, PlanIs
<1>8. Written' = Written /\ TreeOf(Written)' = d
  BY <1>1, WrittenStays DEF d
<1>9. SUFFICES /\ Buffered'
               /\ \E x, a : /\ Plan(d, todo', 0, x, a)
                            /\ ok' => (json' \o buffer') \o x = Written[1]
  BY <1>1, <1>8 DEF PrintInv
<1>10. h \in Task /\ h.do \in {"char", "data", "rest", "value"}
  BY <1>6 DEF GoodTask, Task
<1>11. CASE h.do \in {"char", "data"}
  <2>1. todo' = Tail(todo) /\ TextOf(d, h) = h.text /\ Plain(h) /\ h.text \in Seq(Chars)
    <3>1. h.do # "rest" /\ h.do # "value"
      BY <1>11
    <3>2. todo' = Tail(todo)
      BY <3>1 DEF PrintTask
    <3> QED
      BY <1>6, <1>10, <1>11, <3>1, <3>2 DEF TextOf, GoodTask, Task
  <2>2. Puts(h.text)
    <3>1. CASE h.do = "data"
      <4>1. PutData(h.text)
        BY <3>1 DEF PrintTask
      <4> QED
        BY <1>2, <2>1, <4>1, DataPuts
    <3>2. CASE h.do = "char"
      <4>1. PutChar(h.text[1])
        BY <3>2 DEF PrintTask
      <4>2. h.text = <<h.text[1]>> /\ h.text[1] \in Chars
        <5>1. Len(h.text) = 1 /\ h.text \in Seq(Chars)
          BY <2>1, <3>2 DEF Plain
        <5> QED
          BY <5>1
      <4> QED
        BY <1>2, <4>1, <4>2, CharPuts
    <3> QED
      BY <1>11, <3>1, <3>2
  <2>3. /\ Buffered' /\ (ok' => ok)
        /\ ok' => (json' \o buffer') \o y = (json \o buffer) \o (h.text \o y)
    BY <1>2, <1>7, <2>1, <2>2, PutsFollow
  <2>4. ok' => (json' \o buffer') \o y = Written[1]
    BY <1>5, <1>6, <2>1, <2>3
  <2> QED
    BY <1>6, <2>1, <2>3, <2>4
<1>12. CASE h.do \in {"rest", "value"}
  <2>1. UNCHANGED <<buffer, json, ok>> /\ d.depth[h.of] = b + 1
    <3>1. h.do # "char" /\ h.do # "data"
      BY <1>12
    <3>2. UNCHANGED <<buffer, json, ok>>
      BY <3>1 DEF PrintTask
    <3> QED
      BY <1>6, <1>7, <1>12, <3>2
  <2>2. Buffered'
    BY <1>2, <2>1 DEF Buffered
  <2> DEFINE Adds(s, x) == /\ todo' = s \o Tail(todo)
                           /\ \E a : Plan(d, s, b, x, a)
                           /\ ok => x = TextOf(d, h)
  <2>3. \E s, x : Adds(s, x)
    <3>1. CASE h.do = "rest"
      <4>1. todo' = RestTasks(h.of, h.from) \o Tail(todo)
        BY <3>1 DEF PrintTask
      <4>2. h.of \in 1 .. Len(value) /\ value[h.of].type \in Containers
            /\ h.from \in 1 .. Len(members[h.of]) + 1
            /\ TextOf(d, h) = RestText(d, h.of, h.from)
        BY <1>3, <1>6, <3>1 DEF GoodTask, TextOf
      <4>3. Ident = 2 * (b + 1) /\ Depth[h.of] = b + 1
        <5>1. Begun(todo, 1) = c /\ c = b + 1
          BY <1>5, <1>6, <3>1 DEF Plan
        <5>2. todo \in Seq(Task)
          BY <1>4, <1>5, PlanIs
        <5> QED
          BY <1>3, <2>1, <5>1, <5>2, IdentBegun
      <4>4. PICK x, a : /\ Plan(d, RestTasks(h.of, h.from), b, x, a)
                        /\ ok => x = RestText(d, h.of, h.from)
        BY <1>2, <1>7, <4>2, <4>3, RestPlan DEF d
      <4> QED
        BY <4>1, <4>2, <4>4
    <3>2. CASE h.do = "value"
      <4>1. todo' = ValueTasks(h.of) \o Tail(todo)
        BY <3>2 DEF PrintTask
      <4>2. h.of \in 1 .. Len(value) /\ TextOf(d, h) = Written[h.of] /\ Depth[h.of] = b + 1
        BY <1>3, <1>6, <2>1, <3>2 DEF GoodTask, TextOf
      <4>3. PICK a : Plan(d, ValueTasks(h.of), b, Written[h.of], a)
        BY <1>2, <1>7, <4>2, ValuePlan DEF d
      <4> QED
        BY <4>1, <4>2, <4>3
    <3> QED
      BY <1>12, <3>1, <3>2
  <2>4. PICK s, x, a : /\ todo' = s \o Tail(todo) /\ Plan(d, s, b, x, a)
                       /\ ok => x = TextOf(d, h)
    BY <2>3
  <2>5. Plan(d, todo', 0, x \o y, a + b)
    <3>1. PICK n \in Nat : n = 0
      OBVIOUS
    <3>2. n + b = b
      BY <1>7, <3>1
    <3>3. PICK t : t = Tail(todo)
      OBVIOUS
    <3>4. Plan(d, t, n, y, b) /\ Plan(d, s, n + b, x, a)
      BY <1>6, <2>4, <3>1, <3>2, <3>3
    <3>5. Plan(d, s \o t, n, x \o y, a + b)
      BY <1>4, <3>4, PlanJoin
    <3> QED
      BY <2>4, <3>1, <3>3, <3>5
  <2>6. ok' => (json' \o buffer') \o (x \o y) = Written[1]
    BY <1>5, <1>6, <2>1, <2>4
  <2> QED
    BY <2>2, <2>5, <2>6
<1> QED
  BY <1>10, <1>11, <1>12

LEMMA EndKeeps == ReadInv /\ PrintInv /\ EndPrinting => PrintInv'
<1> SUFFICES ASSUME ReadInv, PrintInv, EndPrinting PROVE PrintInv'
  OBVIOUS
<1>1. /\ printing = "yes" /\ todo = << >> /\ printing' = "done" /\ Grow(json \o buffer)
      /\ UNCHANGED <<value, members>> /\ value # << >> /\ Buffered
  BY DEF EndPrinting, PrintInv
<1>2. Document(TreeOf(Written))
  BY TreeIsDocument DEF ReadInv
<1>3. PICK z, c : Plan(TreeOf(Written), todo, 0, z, c)
                  /\ (ok => (json \o buffer) \o z = Written[1])
  BY <1>1 DEF PrintInv
<1>4. z = << >>
  <2>1. Goods(TreeOf(Written), << >>) /\ Out(TreeOf(Written), << >>) = z
    BY <1>1, <1>3 DEF Plan
  <2>2. PICK s : s = TextsFor(TreeOf(Written), << >>)
    OBVIOUS
  <2>3. s \in Seq(Seq(Chars)) /\ Len(s) = 0
    <3>1. PICK t : t = << >>
      OBVIOUS
    <3>2. TextsFor(TreeOf(Written), t) \in Seq(Seq(Chars))
          /\ Len(TextsFor(TreeOf(Written), t)) = Len(t)
      BY <1>2, <2>1, <3>1, TextsAre
    <3> QED
      BY <2>2, <3>1, <3>2
  <2>4. s = << >>
    BY <2>3
  <2> QED
    BY <2>1, <2>2, <2>4, FlatNone DEF Out
<1>5. json \in Seq(Chars) /\ buffer \in Seq(Chars) /\ json \o buffer \in Seq(Chars)
      /\ << >> \in Seq(Chars) /\ Len(<< >>) < BufSize /\ ok \in BOOLEAN
  BY <1>1, BufferAssumption, ConcatProperties DEF Buffered
<1>6. ok => json \o buffer = Written[1]
  <2>1. (json \o buffer) \o << >> = json \o buffer
    BY <1>5, ConcatEmptySeq
  <2> QED
    BY <1>3, <1>4, <2>1
<1>7. buffer' = << >> /\ ((json' = json \o buffer /\ ok' = ok)
                          \/ (json' = json /\ ok' = FALSE))
  BY <1>1 DEF Grow
<1>8. Buffered' /\ (ok' => json' = Written[1])
  <2>1. json' \in Seq(Chars) /\ buffer' \in Seq(Chars) /\ Len(buffer') < BufSize
    BY <1>5, <1>7
  <2>2. ok' \in BOOLEAN /\ (ok' => ok /\ json' = json \o buffer)
    <3>1. ok \in BOOLEAN /\ (ok' = ok \/ ok' = FALSE)
      BY <1>5, <1>7
    <3>2. ok' \in BOOLEAN
      BY <3>1
    <3>3. ok' => ok
      BY <3>1
    <3>4. ok' => json' = json \o buffer
      BY <1>7
    <3> QED
      BY <3>2, <3>3, <3>4
  <2> QED
    BY <1>6, <2>1, <2>2 DEF Buffered
<1>9. Written' = Written
  BY <1>1, WrittenStays
<1>10. value' # << >> /\ printing' = "done"
  BY <1>1
<1> QED
  BY <1>8, <1>9, <1>10 DEF PrintInv

LEMMA OthersKeep ==
    PrintInv /\ (Parse \/ Construct \/ UNCHANGED documentVars) => PrintInv'
<1> SUFFICES ASSUME PrintInv, Parse \/ Construct \/ UNCHANGED documentVars PROVE PrintInv'
  OBVIOUS
<1>1. CASE Parse \/ Construct
  <2>1. printing = "no" /\ UNCHANGED printVars
    BY <1>1 DEF Parse, Construct
  <2>2. buffer' = buffer /\ json' = json /\ ok' = ok /\ printing' = "no"
    BY <2>1 DEF printVars
  <2>3. Buffered' /\ buffer = << >> /\ json = << >>
    BY <2>1, <2>2 DEF PrintInv, Buffered
  <2> QED
    BY <2>2, <2>3 DEF PrintInv
<1>2. CASE UNCHANGED documentVars
  <2>1. UNCHANGED <<value, members>> /\ UNCHANGED printVars
    BY <1>2 DEF documentVars, jsonVars
  <2>2. Written' = Written /\ TreeOf(Written)' = TreeOf(Written)
    BY <2>1, WrittenStays
  <2>3. todo' = todo /\ buffer' = buffer /\ json' = json /\ ok' = ok /\ printing' = printing
        /\ value' = value
    BY <2>1 DEF printVars
  <2> QED
    BY <2>2, <2>3 DEF PrintInv, Buffered
<1> QED
  BY <1>1, <1>2

\* Whatever the size of the buffer, wherever its ends fall in the text, and however deep
\* the tree is, nothing is put past the end of the buffer, and what is returned is the
\* text of the whole tree or NULL.  (ndm_json_print_char_(), ndm_json_print_data_())
THEOREM PrintStaysWhole == Spec => []PrintIsWhole
<1>1. JsonInit /\ JsonParserInit /\ PrinterInit => PrintInv
  <2>1. << >> \in Seq(Chars) /\ Len(<< >>) < BufSize
    BY BufferAssumption
  <2> QED
    BY <2>1 DEF PrinterInit, PrintInv, Buffered
<1>2. ReadInv /\ PrintInv /\ [JsonNext]_documentVars => PrintInv'
  <2> SUFFICES ASSUME ReadInv, PrintInv, [JsonNext]_documentVars PROVE PrintInv'
    OBVIOUS
  <2>1. CASE Parse \/ Construct \/ UNCHANGED documentVars
    BY <2>1, OthersKeep
  <2>2. CASE PrintOut
    BY <2>2, StartKeeps, TaskKeeps, EndKeeps DEF PrintOut, PrinterNext
  <2> QED
    BY <2>1, <2>2 DEF JsonNext
<1>3. PrintInv => PrintIsWhole
  <2> SUFFICES ASSUME PrintInv PROVE PrintIsWhole
    OBVIOUS
  <2>1. Len(buffer) < BufSize /\ ok \in BOOLEAN
    BY DEF PrintInv, Buffered
  <2>2. printing = "done" => (ok => json = Written[1])
    BY DEF PrintInv
  <2> QED
    BY <2>1, <2>2 DEF PrintIsWhole, Printed
<1> QED
  BY <1>1, <1>2, <1>3, ReadingInvariance, PTL DEF Spec
=============================================================================
