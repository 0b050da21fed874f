------------------------ MODULE EventConnectionProofs ------------------------
(***************************************************************************)
(* Whatever comes down the stream, the nodes that the reader allocates     *)
(* form a tree: a client can walk it, and free it, and come to an end.     *)
(* What makes it inductive is that the reader stands at one of the nodes   *)
(* allocated, or above them all, where it reads no further.                *)
(*                                                                         *)
(* And while no call fails within an event, the client gets the events     *)
(* raised, whole and in their order, although nothing in the stream says   *)
(* where one ends.  What makes it inductive is that the nodes allocated    *)
(* are those of the first m nodes of the event being read, with a          *)
(* attributes of the last of them, and that what remains of the stream is  *)
(* what the event still has behind that place, and the events behind it.   *)
(***************************************************************************)
EXTENDS EventConnection, SequenceTheorems, WellFoundedInduction, TLAPS

StreamsOK ==
    /\ unwritten \in Seq(Control) /\ socket \in Seq(Control)
    /\ buffer \in Seq(Control) /\ Len(buffer) <= BufferSize

DocOK == doc \in Seq(Node) /\ node \in Nat /\ root \in Nat /\ fresh \in BOOLEAN

HistoryOK ==
    /\ client \in {"polling", "reading", "looping"}
    /\ sent \in Seq(Event) /\ taken \in Nat
    /\ got \in Seq(Seq(Node)) /\ failure \in {"none", "between", "within"}

\* The reader stands at a node of the document, or above its first one.
PlaceOK == client = "reading" => doc # << >> /\ node <= Len(doc)

ConnectionInv == StreamsOK /\ DocOK /\ HistoryOK /\ PlaceOK /\ ReadIsTree

-----------------------------------------------------------------------------
(* Induction, and pieces of a stream. *)

\* A set of numbers without a least one is empty: induction, without a parameter.
LEMMA NoneIsFirst ==
    ASSUME NEW B \in SUBSET Nat, \A m \in B : m # 0 /\ m - 1 \in B
    PROVE  B = {}
<1> SUFFICES ASSUME B # {} PROVE FALSE
  OBVIOUS
<1>1. PICK m \in B : \A k \in B : <<k, m>> \notin OpToRel(<, Nat)
  BY NatLessThanWellFounded, WFMin
<1>2. \A k \in B : ~(k < m)
  BY <1>1 DEF OpToRel
<1> QED
  BY <1>2

\* The first of a set of places is the least of them.
LEMMA FirstIs ==
    ASSUME NEW S \in SUBSET Nat, S # {}
    PROVE  FirstOf(S) \in S /\ \A j \in S : FirstOf(S) <= j
<1>1. PICK m \in S : \A k \in S : <<k, m>> \notin OpToRel(<, Nat)
  BY NatLessThanWellFounded, WFMin
<1>2. \A k \in S : ~(k < m)
  BY <1>1 DEF OpToRel
<1>3. \A k \in S : m <= k
  BY <1>2
<1> QED
  BY <1>3 DEF FirstOf

\* What may come down the connection
Stream == Seq(Control)

\* Two pieces of a stream, joined, are one.
LEMMA Joined ==
    ASSUME NEW a \in Stream, NEW b \in Stream
    PROVE  a \o b \in Stream
  BY ConcatProperties DEF Stream

\* Pieces may be joined in any order of the joints.
InTurn(a, b, c) == (a \o b) \o c = a \o (b \o c)

\* They may, whatever the pieces are.
LEMMA JoinedInTurn ==
    ASSUME NEW a \in Stream, NEW b \in Stream, NEW c \in Stream
    PROVE  InTurn(a, b, c)
  BY ConcatAssociative DEF Stream, InTurn

\* An empty piece adds nothing.
LEMMA NothingJoined ==
    ASSUME NEW a \in Stream
    PROVE  << >> \in Stream /\ << >> \o a = a /\ a \o << >> = a
  BY ConcatEmptySeq DEF Stream

\* A control is a piece of a stream.
LEMMA OneInStream ==
    ASSUME NEW c \in Control
    PROVE  <<c>> \in Stream
  BY DEF Stream

\* What begins with a control.
LEMMA HeadOfJoined ==
    ASSUME NEW c \in Control, NEW a \in Stream
    PROVE  /\ <<c>> \o a # << >>
           /\ Head(<<c>> \o a) = c
           /\ Tail(<<c>> \o a) = a
<1>1. <<c>> \in Seq(Control) /\ a \in Seq(Control) /\ Len(<<c>>) = 1 /\ <<c>>[1] = c
  BY DEF Stream
<1> DEFINE s == <<c>> \o a
<1>2. s \in Seq(Control) /\ Len(s) = 1 + Len(a) /\ s[1] = c
      /\ \A i \in 2 .. Len(s) : s[i] = a[i - 1]
  BY <1>1, ConcatProperties
<1>3. Len(a) \in Nat
  BY <1>1
<1> HIDE DEF s
<1>4. s # << >> /\ Head(s) = c
  BY <1>2, <1>3
<1>5. Tail(s) \in Seq(Control) /\ Len(Tail(s)) = Len(a)
      /\ \A i \in 1 .. Len(a) : Tail(s)[i] = s[i + 1]
  BY <1>2, <1>3, <1>4, HeadTailProperties
<1>6. \A i \in 1 .. Len(a) : Tail(s)[i] = a[i]
  BY <1>2, <1>3, <1>5
<1>7. Tail(s) = a
  BY <1>1, <1>5, <1>6, SeqEqual
<1> QED
  BY <1>4, <1>7 DEF s

\* Taking a control off the buffer takes it off the stream.
LEMMA HeadOfStream ==
    ASSUME NEW b \in Stream, NEW r \in Stream, b # << >>
    PROVE  /\ Head(b) \in Control /\ Tail(b) \in Stream
           /\ b \o r = <<Head(b)>> \o (Tail(b) \o r)
<1>1. b \in Seq(Control) /\ r \in Seq(Control)
  BY DEF Stream
<1>2. Head(b) \in Control /\ Tail(b) \in Seq(Control)
  BY <1>1, HeadTailProperties
<1>3. b = <<Head(b)>> \o Tail(b)
  <2> DEFINE s == <<Head(b)>> \o Tail(b)
  <2>1. <<Head(b)>> \in Seq(Control) /\ Len(<<Head(b)>>) = 1 /\ <<Head(b)>>[1] = Head(b)
    BY <1>2
  <2>2. Len(b) \in Nat /\ Len(b) >= 1 /\ Head(b) = b[1]
    BY <1>1
  <2>3. Len(Tail(b)) = Len(b) - 1 /\ \A i \in 1 .. Len(b) - 1 : Tail(b)[i] = b[i + 1]
    BY <1>1, <2>2, HeadTailProperties
  <2>4. s \in Seq(Control) /\ Len(s) = Len(b) /\ s[1] = b[1]
        /\ \A i \in 2 .. Len(b) : s[i] = Tail(b)[i - 1]
    BY <1>2, <2>1, <2>2, <2>3, ConcatProperties
  <2> HIDE DEF s
  <2>5. \A i \in 1 .. Len(b) : s[i] = b[i]
    BY <2>2, <2>3, <2>4
  <2>6. s = b
    BY <1>1, <2>4, <2>5, SeqEqual
  <2> QED
    BY <2>6 DEF s
<1>4. (<<Head(b)>> \o Tail(b)) \o r = <<Head(b)>> \o (Tail(b) \o r)
  BY <1>1, <1>2, OneInStream, JoinedInTurn DEF Stream, InTurn
<1> QED
  BY <1>2, <1>3, <1>4 DEF Stream

-----------------------------------------------------------------------------
(* What is written. *)

\* A tree, place by place.
LEMMA TreeIs ==
    ASSUME NEW t, IsTree(t)
    PROVE  /\ Len(t) \in Nat /\ Len(t) >= 1 /\ DOMAIN t = 1 .. Len(t)
           /\ \A i \in 1 .. Len(t) : t[i] \in Node
           /\ t[1].parent = 0
           /\ \A i \in 2 .. Len(t) : t[i].parent \in 1 .. i - 1
<1>1. t \in Seq(Node) /\ t # << >>
  BY DEF IsTree
<1> QED
  BY <1>1 DEF IsTree, Null

\* The children and the next siblings of a node come after it.
LEMMA LaterNodes ==
    ASSUME NEW t, IsTree(t), NEW i \in 1 .. Len(t)
    PROVE  /\ Children(t, i) \subseteq i + 1 .. Len(t)
           /\ NextSiblings(t, i) \subseteq i + 1 .. Len(t)
<1>1. Len(t) \in Nat /\ DOMAIN t = 1 .. Len(t) /\ t[1].parent = 0
  BY TreeIs
<1>2. ASSUME NEW j \in Children(t, i) PROVE j \in i + 1 .. Len(t)
  <2>1. j \in 1 .. Len(t) /\ t[j].parent = i
    BY <1>1 DEF Children
  <2>2. j # 1
    BY <1>1, <2>1
  <2>3. j \in 2 .. Len(t)
    BY <1>1, <2>1, <2>2
  <2>4. t[j].parent \in 1 .. j - 1
    BY <2>3, TreeIs
  <2> QED
    BY <1>1, <2>1, <2>4
<1>3. ASSUME NEW j \in NextSiblings(t, i) PROVE j \in i + 1 .. Len(t)
  <2>1. j \in 1 .. Len(t) /\ i < j
    BY <1>1 DEF NextSiblings, Children
  <2> QED
    BY <1>1, <2>1
<1> QED
  BY <1>2, <1>3

\* All that is written for a node is controls.
LEMMA ControlsWritten ==
    ASSUME NEW t, IsTree(t), NEW i \in 1 .. Len(t)
    PROVE  /\ Start(t, i) \in Control
           /\ StoreAttrs(t[i].attrs) \in Stream
           /\ Ends(t, i) \in Stream
           /\ End \in Control
<1>1. t[i] \in Node
  BY TreeIs
<1>2. t[i].type \in NodeType /\ t[i].name \in Name /\ t[i].value \in Value
      /\ t[i].attrs \in Seq(Attr)
  BY <1>1 DEF Node
<1>3. Start(t, i) \in Control
  BY <1>2 DEF Start, Control, Ctrl
<1>4. StoreAttrs(t[i].attrs) \in Stream
  <2> DEFINE a == t[i].attrs
  <2>1. a \in Seq(Attr)
    BY <1>2
  <2> HIDE DEF a
  <2>2. DOMAIN a = 1 .. Len(a) /\ Len(a) \in Nat /\ \A k \in 1 .. Len(a) : a[k] \in Attr
    BY <2>1
  <2>3. ASSUME NEW k \in 1 .. Len(a)
        PROVE  [ctrl |-> "ATTR", type |-> "document",
                name |-> a[k].name, value |-> a[k].value] \in Control
    <3>1. a[k].name \in Name /\ a[k].value \in Value
      BY <2>2 DEF Attr
    <3> QED
      BY <3>1 DEF Control, Ctrl, NodeType
  <2>4. StoreAttrs(a) = [k \in 1 .. Len(a) |-> [ctrl |-> "ATTR", type |-> "document",
                             name |-> a[k].name, value |-> a[k].value]]
    BY <2>2 DEF StoreAttrs
  <2>5. StoreAttrs(a) \in Seq(Control)
    BY <2>2, <2>3, <2>4, IsASeq
  <2> QED
    BY <2>5 DEF a, Stream
<1>5. End \in Control
  BY EmptyAssumption DEF End, Control, Ctrl, NodeType
<1>6. Ends(t, i) \in Stream
  BY <1>5, OneInStream, NothingJoined DEF Ends, Stream
<1> QED
  BY <1>3, <1>4, <1>5, <1>6

\* What is written of the first of some nodes, from what is written of every node
From(s, nodes) == IF nodes = {} THEN << >> ELSE s[FirstOf(nodes)]

\* What is written of a node and its next siblings
StoreStep(t, s, i) ==
    <<Start(t, i)>> \o StoreAttrs(t[i].attrs) \o From(s, Children(t, i)) \o Ends(t, i)
    \o From(s, NextSiblings(t, i))

\* s is what Store() writes from each place on, for the places from lo.
IsStored(t, s, lo) ==
    \A i \in lo .. Len(t) : s[i] = StoreStep(t, s, i) /\ s[i] \in Stream

\* The first of some nodes is one of them.
LEMMA FirstOfLater ==
    ASSUME NEW lo \in Nat, NEW n \in Nat, NEW nodes, nodes \subseteq lo .. n, nodes # {}
    PROVE  FirstOf(nodes) \in nodes /\ FirstOf(nodes) \in lo .. n
           /\ \A j \in nodes : FirstOf(nodes) <= j
<1>1. nodes \in SUBSET Nat
  OBVIOUS
<1>2. FirstOf(nodes) \in nodes /\ \A j \in nodes : FirstOf(nodes) <= j
  BY <1>1, FirstIs
<1> QED
  BY <1>2

\* What is written from the first of some nodes on is a stream.
LEMMA FromIs ==
    ASSUME NEW lo \in Nat, NEW n \in Nat, NEW s, NEW nodes, nodes \subseteq lo .. n,
           \A i \in lo .. n : s[i] \in Stream
    PROVE  From(s, nodes) \in Stream
<1>1. CASE nodes = {}
  BY <1>1 DEF From, Stream
<1>2. CASE nodes # {}
  BY <1>2, FirstOfLater DEF From
<1> QED
  BY <1>1, <1>2

\* Two tables agree from lo to n.
Agree(s, h, lo, n) == \A i \in lo .. n : s[i] = h[i]
\* They write the same for the first of nodes.
SameFrom(s, h, nodes) == From(s, nodes) = From(h, nodes)
\* The nodes come from lo to n.
Within(nodes, lo, n) == nodes \subseteq lo .. n

\* Tables that agree on some nodes write the same from the first of them on.
LEMMA FromSame ==
    ASSUME NEW lo \in Nat, NEW n \in Nat, NEW s, NEW h, Agree(s, h, lo, n),
           NEW nodes, Within(nodes, lo, n)
    PROVE  SameFrom(s, h, nodes)
<1>1. CASE nodes = {}
  BY <1>1 DEF From, SameFrom
<1>2. CASE nodes # {}
  <2>1. nodes \subseteq lo .. n
    BY DEF Within
  <2>2. FirstOf(nodes) \in lo .. n
    BY <1>2, <2>1, FirstOfLater
  <2>3. s[FirstOf(nodes)] = h[FirstOf(nodes)]
    BY <2>2 DEF Agree
  <2> QED
    BY <1>2, <2>3 DEF From, SameFrom
<1> QED
  BY <1>1, <1>2

\* What is written for a node depends only on what is written for those after it.
LEMMA StepSame ==
    ASSUME NEW t, IsTree(t), NEW i \in 1 .. Len(t), NEW s, NEW h,
           \A j \in i + 1 .. Len(t) : s[j] = h[j]
    PROVE  StoreStep(t, s, i) = StoreStep(t, h, i)
<1>1. Len(t) \in Nat /\ i + 1 \in Nat /\ Agree(s, h, i + 1, Len(t))
  BY TreeIs DEF Agree
<1>2. Within(Children(t, i), i + 1, Len(t)) /\ Within(NextSiblings(t, i), i + 1, Len(t))
  BY LaterNodes DEF Within
<1>3. SameFrom(s, h, Children(t, i))
  BY <1>1, <1>2, FromSame
<1>4. SameFrom(s, h, NextSiblings(t, i))
  BY <1>1, <1>2, FromSame
<1> QED
  BY <1>3, <1>4 DEF StoreStep, SameFrom

\* What is written for a node is a stream when that for those after it is.
LEMMA StepInStream ==
    ASSUME NEW t, IsTree(t), NEW i \in 1 .. Len(t), NEW s,
           \A j \in i + 1 .. Len(t) : s[j] \in Stream
    PROVE  /\ From(s, Children(t, i)) \in Stream /\ From(s, NextSiblings(t, i)) \in Stream
           /\ StoreStep(t, s, i) \in Stream
<1>1. Len(t) \in Nat /\ i + 1 \in Nat
  BY TreeIs
<1>2. From(s, Children(t, i)) \in Stream
  BY <1>1, LaterNodes, FromIs
<1>3. From(s, NextSiblings(t, i)) \in Stream
  BY <1>1, LaterNodes, FromIs
<1> DEFINE a == <<Start(t, i)>>
           b == StoreAttrs(t[i].attrs)
           c == From(s, Children(t, i))
           d == Ends(t, i)
           e == From(s, NextSiblings(t, i))
<1>4. a \in Stream /\ b \in Stream /\ c \in Stream /\ d \in Stream /\ e \in Stream
  BY <1>2, <1>3, ControlsWritten, OneInStream
<1>5. StoreStep(t, s, i) = a \o b \o c \o d \o e
  BY DEF StoreStep
<1> HIDE DEF a, b, c, d, e
<1>6. a \o b \in Stream
  BY <1>4, Joined
<1>7. a \o b \o c \in Stream
  BY <1>4, <1>6, Joined
<1>8. a \o b \o c \o d \in Stream
  BY <1>4, <1>7, Joined
<1>9. a \o b \o c \o d \o e \in Stream
  BY <1>4, <1>8, Joined
<1> QED
  BY <1>2, <1>3, <1>5, <1>9

\* There is such a table: it is made from the last node to the first.
LEMMA StoreExists ==
    ASSUME NEW t, IsTree(t)
    PROVE  \E s : IsStored(t, s, 1)
<1> DEFINE n == Len(t)
           Has(m) == \E s : IsStored(t, s, (n - m) + 1)
           Bad == {m \in 0 .. n : ~Has(m)}
<1>0. n \in Nat
  BY TreeIs
<1>1. Has(0)
  <2>1. IsStored(t, << >>, (n - 0) + 1)
    BY <1>0 DEF IsStored
  <2> QED
    BY <2>1
<1>2. ASSUME NEW m \in 0 .. n, m # 0, Has(m - 1) PROVE Has(m)
  <2> DEFINE lo == (n - m) + 1
  <2>1. lo \in 1 .. n /\ (n - (m - 1)) + 1 = lo + 1
    BY <1>0, <1>2
  <2>2. PICK s : IsStored(t, s, lo + 1)
    BY <1>2, <2>1
  <2> HIDE DEF lo
  <2> DEFINE h == [i \in lo .. n |-> IF i = lo THEN StoreStep(t, s, lo) ELSE s[i]]
  <2>3. \A i \in lo + 1 .. n : s[i] = StoreStep(t, s, i) /\ s[i] \in Stream
    BY <2>2 DEF IsStored
  <2>4. \A i \in lo + 1 .. n : h[i] = s[i]
    BY <1>0, <2>1
  <2>5. h[lo] = StoreStep(t, s, lo)
    BY <1>0, <2>1
  <2> HIDE DEF h
  <2>6. ASSUME NEW i \in lo .. n PROVE h[i] = StoreStep(t, h, i) /\ h[i] \in Stream
    <3>1. i \in 1 .. n /\ \A j \in i + 1 .. n : j \in lo + 1 .. n
      BY <1>0, <2>1
    <3>2. \A j \in i + 1 .. n : s[j] = h[j]
      BY <2>4, <3>1
    <3>3. StoreStep(t, s, i) = StoreStep(t, h, i)
      BY <3>1, <3>2, StepSame
    <3>4. CASE i = lo
      <4>1. \A j \in i + 1 .. n : s[j] \in Stream
        BY <2>3, <3>1
      <4>2. StoreStep(t, s, i) \in Stream
        BY <3>1, <4>1, StepInStream
      <4> QED
        BY <2>5, <3>3, <3>4, <4>2
    <3>5. CASE i # lo
      <4>1. i \in lo + 1 .. n
        BY <1>0, <2>1, <3>5
      <4> QED
        BY <2>3, <2>4, <3>3, <4>1
    <3> QED
      BY <3>4, <3>5
  <2>7. IsStored(t, h, lo)
    BY <2>6 DEF IsStored
  <2> QED
    BY <2>7 DEF lo
<1> HIDE DEF Has
<1>3. \A m \in Bad : m # 0 /\ m - 1 \in Bad
  BY <1>0, <1>1, <1>2
<1>4. Bad \in SUBSET Nat
  BY <1>0
<1>5. Bad = {}
  BY <1>3, <1>4, NoneIsFirst
<1>6. Has(n)
  BY <1>0, <1>5
<1>7. (n - n) + 1 = 1
  BY <1>0
<1> QED
  BY <1>6, <1>7 DEF Has

\* What is written of every node of a tree, and so of the tree.
LEMMA StoreIs ==
    ASSUME NEW t, IsTree(t)
    PROVE  \E s : IsStored(t, s, 1) /\ Store(t) = s[1] /\ Store(t) \in Stream
<1> DEFINE Defines(f) == f = [i \in DOMAIN t |->
              <<Start(t, i)>> \o StoreAttrs(t[i].attrs)
               \o (IF Children(t, i) = {} THEN << >> ELSE f[FirstOf(Children(t, i))]) \o Ends(t, i)
               \o (IF NextSiblings(t, i) = {} THEN << >> ELSE f[FirstOf(NextSiblings(t, i))])]
           Z == CHOOSE f : Defines(f)
<1>0. Len(t) \in Nat /\ Len(t) >= 1 /\ DOMAIN t = 1 .. Len(t)
  BY TreeIs
<1>1. Store(t) = Z[1]
  BY DEF Store
<1>2. PICK s : IsStored(t, s, 1)
  BY StoreExists
<1> DEFINE g == [i \in DOMAIN t |-> s[i]]
<1>3. \A i \in DOMAIN t : g[i] = s[i]
  OBVIOUS
<1>4. g = [i \in DOMAIN t |-> g[i]]
  OBVIOUS
<1> HIDE DEF g
<1>5. \A i \in DOMAIN t : g[i] = StoreStep(t, g, i)
  <2> SUFFICES ASSUME NEW i \in DOMAIN t PROVE g[i] = StoreStep(t, g, i)
    OBVIOUS
  <2>1. i \in 1 .. Len(t) /\ \A j \in i + 1 .. Len(t) : j \in DOMAIN t
    BY <1>0
  <2>2. s[i] = StoreStep(t, s, i)
    BY <1>2, <2>1 DEF IsStored
  <2>3. \A j \in i + 1 .. Len(t) : s[j] = g[j]
    BY <1>3, <2>1
  <2>4. StoreStep(t, s, i) = StoreStep(t, g, i)
    BY <2>1, <2>3, StepSame
  <2> QED
    BY <1>3, <2>2, <2>4
<1>6. Defines(g)
  <2>1. g = [i \in DOMAIN t |-> StoreStep(t, g, i)]
    BY <1>4, <1>5
  <2> QED
    BY <2>1 DEF StoreStep, From
<1>7. Defines(Z)
  <2> HIDE DEF Defines
  <2> QED
    BY <1>6
<1>8. \A i \in DOMAIN t : Z[i] = StoreStep(t, Z, i)
  <2>1. Z = [i \in DOMAIN t |-> StoreStep(t, Z, i)]
    <3> HIDE DEF Z
    <3> QED
      BY <1>7 DEF StoreStep, From
  <2> HIDE DEF Z
  <2> QED
    BY <2>1
<1> HIDE DEF Z, Defines
<1> DEFINE n == Len(t)
           Bad == {m \in 0 .. n : ~IsStored(t, Z, (n - m) + 1)}
<1>9. IsStored(t, Z, (n - 0) + 1)
  BY <1>0 DEF IsStored
<1>10. ASSUME NEW m \in 0 .. n, m # 0, IsStored(t, Z, (n - (m - 1)) + 1)
       PROVE  IsStored(t, Z, (n - m) + 1)
  <2> DEFINE lo == (n - m) + 1
  <2>1. lo \in 1 .. n /\ (n - (m - 1)) + 1 = lo + 1
    BY <1>0, <1>10
  <2>2. IsStored(t, Z, lo + 1)
    BY <1>10, <2>1
  <2> HIDE DEF lo
  <2>3. \A i \in lo + 1 .. n : Z[i] = StoreStep(t, Z, i) /\ Z[i] \in Stream
    BY <2>2 DEF IsStored
  <2>4. Z[lo] = StoreStep(t, Z, lo) /\ StoreStep(t, Z, lo) \in Stream
    BY <1>0, <1>8, <2>1, <2>3, StepInStream
  <2>5. \A i \in lo .. n : i = lo \/ i \in lo + 1 .. n
    BY <1>0, <2>1
  <2>6. IsStored(t, Z, lo)
    BY <2>3, <2>4, <2>5 DEF IsStored
  <2> QED
    BY <2>6 DEF lo
<1>11. \A m \in Bad : m # 0 /\ m - 1 \in Bad
  BY <1>0, <1>9, <1>10
<1>12. Bad \in SUBSET Nat
  BY <1>0
<1>13. Bad = {}
  BY <1>11, <1>12, NoneIsFirst
<1>14. IsStored(t, Z, (n - n) + 1) /\ (n - n) + 1 = 1
  BY <1>0, <1>13
<1>15. IsStored(t, Z, 1)
  BY <1>14
<1>16. Z[1] \in Stream
  BY <1>0, <1>15 DEF IsStored
<1> QED
  BY <1>1, <1>15, <1>16

-----------------------------------------------------------------------------
(* The stream. *)

\* An event is written as controls.
LEMMA StoreInStream ==
    ASSUME NEW e \in Event
    PROVE  Store(e) \in Stream
<1>1. IsTree(e)
  BY EventAssumption
<1> QED
  BY <1>1, StoreIs

\* What is written of the first k trees, for every k
FlatTable(s, n, f) ==
    /\ f[0] = << >>
    /\ \A k \in 1 .. n : f[k] = f[k - 1] \o Store(s[k])

\* The table f has streams up to n.
InStream(n, f) == \A k \in 0 .. n : f[k] \in Stream

\* What a table of joined pieces has is a stream at every place.
LEMMA FlatInStream ==
    ASSUME NEW n \in Nat, NEW s, \A k \in 1 .. n : s[k] \in Event, NEW f, FlatTable(s, n, f)
    PROVE  InStream(n, f)
<1> DEFINE B == {k \in 0 .. n : f[k] \notin Stream}
<1>1. ASSUME NEW k \in B PROVE k # 0 /\ k - 1 \in B
  <2>0. << >> \in Stream
    BY DEF Stream
  <2>1. k # 0
    BY <2>0 DEF FlatTable
  <2>2. k \in 1 .. n /\ k - 1 \in 0 .. n
    BY <2>1
  <2>3. f[k] = f[k - 1] \o Store(s[k]) /\ Store(s[k]) \in Stream
    BY <2>2, StoreInStream DEF FlatTable
  <2>4. f[k - 1] \notin Stream
    BY <2>3, Joined
  <2> QED
    BY <2>1, <2>2, <2>4
<1>2. B \in SUBSET Nat
  OBVIOUS
<1>3. B = {}
  BY <1>1, <1>2, NoneIsFirst
<1> QED
  BY <1>3 DEF InStream

\* There is such a table, for every sequence of pieces.
LEMMA FlatExists ==
    ASSUME NEW n \in Nat, NEW s
    PROVE  \E f : FlatTable(s, n, f)
<1> DEFINE B == {m \in 0 .. n : ~\E f : FlatTable(s, m, f)}
<1>1. ASSUME NEW m \in B PROVE m # 0 /\ m - 1 \in B
  <2>1. m # 0
    <3> DEFINE f == [k \in 0 .. 0 |-> << >>]
    <3>1. f[0] = << >> /\ \A k \in 1 .. 0 : f[k] = f[k - 1] \o Store(s[k])
      OBVIOUS
    <3> HIDE DEF f
    <3>2. FlatTable(s, 0, f)
      BY <3>1 DEF FlatTable
    <3> QED
      BY <3>2
  <2>2. m - 1 \in 0 .. n /\ m \in 1 .. n /\ m \in Nat
    BY <2>1
  <2>3. ASSUME NEW f, FlatTable(s, m - 1, f) PROVE FALSE
    <3> DEFINE last == f[m - 1] \o Store(s[m])
               h == [k \in 0 .. m |-> IF k = m THEN last ELSE f[k]]
    <3> HIDE DEF last
    <3>0. 0 \in 0 .. m /\ 0 # m /\ m \in 0 .. m /\ \A k \in 0 .. m - 1 : k \in 0 .. m /\ k # m
      BY <2>2
    <3>1. h[0] = f[0] /\ h[m] = f[m - 1] \o Store(s[m]) /\ \A k \in 0 .. m - 1 : h[k] = f[k]
      BY <3>0 DEF last
    <3> HIDE DEF h
    <3>2. ASSUME NEW k \in 1 .. m PROVE h[k] = h[k - 1] \o Store(s[k])
      <4>1. k - 1 \in 0 .. m - 1 /\ (k = m \/ (k \in 1 .. m - 1 /\ k \in 0 .. m - 1))
        BY <2>2
      <4> QED
        BY <2>3, <3>1, <4>1 DEF FlatTable
    <3>3. FlatTable(s, m, h)
      BY <2>3, <3>1, <3>2 DEF FlatTable
    <3> QED
      BY <3>3
  <2> QED
    BY <2>1, <2>2, <2>3
<1>2. B \in SUBSET Nat
  OBVIOUS
<1>3. B = {}
  BY <1>1, <1>2, NoneIsFirst
<1> QED
  BY <1>3

\* There is one such table only.
LEMMA FlatSame ==
    ASSUME NEW n \in Nat, NEW s, NEW f, FlatTable(s, n, f), NEW g, FlatTable(s, n, g)
    PROVE  f[n] = g[n]
<1> DEFINE B == {k \in 0 .. n : f[k] # g[k]}
<1>1. ASSUME NEW k \in B PROVE k # 0 /\ k - 1 \in B
  <2>1. k # 0
    BY DEF FlatTable
  <2>2. k \in 1 .. n /\ k - 1 \in 0 .. n
    BY <2>1
  <2>3. f[k] = f[k - 1] \o Store(s[k]) /\ g[k] = g[k - 1] \o Store(s[k])
    BY <2>2 DEF FlatTable
  <2> QED
    BY <2>1, <2>2, <2>3
<1>2. B \in SUBSET Nat
  OBVIOUS
<1>3. B = {}
  BY <1>1, <1>2, NoneIsFirst
<1> QED
  BY <1>3

\* What is written of some trees is read off any table.
LEMMA FlattenIs ==
    ASSUME NEW s \in Seq(Event), NEW f, FlatTable(s, Len(s), f)
    PROVE  Flatten(s) = f[Len(s)]
<1> DEFINE n == Len(s)
           q == [k \in DOMAIN s |-> Store(s[k])]
<1>1. n \in Nat /\ DOMAIN s = 1 .. n /\ \A k \in 1 .. n : s[k] \in Event
  BY ElementOfSeq
<1>2. \A k \in 1 .. n : Store(s[k]) \in Stream
  BY <1>1, StoreInStream
<1>3. q \in Seq(Stream) /\ Len(q) = n /\ \A k \in 1 .. n : q[k] = Store(s[k])
  <2>1. q = [k \in 1 .. n |-> Store(s[k])]
    BY <1>1
  <2> QED
    BY <1>1, <1>2, <2>1, IsASeq
<1>4. Flatten(s) = FlattenSeq(q)
  BY DEF Flatten
<1> DEFINE Defines(g) == g = [i \in 1 .. Len(q) |-> IF i = 1 THEN q[i] ELSE g[i - 1] \o q[i]]
           Z == CHOOSE g : Defines(g)
<1>5. FlattenSeq(q) = IF Len(q) = 0 THEN q ELSE Z[Len(q)]
  BY DEF FlattenSeq
<1> HIDE DEF q
<1>6. CASE n = 0
  <2>1. q = << >>
    BY <1>3, <1>6, EmptySeq
  <2> QED
    BY <1>3, <1>4, <1>5, <1>6, <2>1 DEF FlatTable
<1>7. CASE n # 0
  <2>1. InStream(n, f)
    BY <1>1, FlatInStream
  <2> DEFINE g == [i \in 1 .. n |-> f[i]]
  <2>2. \A i \in 1 .. n : g[i] = IF i = 1 THEN q[i] ELSE g[i - 1] \o q[i]
    <3> SUFFICES ASSUME NEW i \in 1 .. n PROVE g[i] = IF i = 1 THEN q[i] ELSE g[i - 1] \o q[i]
      OBVIOUS
    <3>1. f[i] = f[i - 1] \o q[i]
      BY <1>3 DEF FlatTable
    <3>2. CASE i = 1
      <4>1. f[0] = << >> /\ q[1] \in Stream /\ i - 1 = 0
        BY <1>2, <1>3, <3>2 DEF FlatTable
      <4> QED
        BY <3>1, <3>2, <4>1, NothingJoined
    <3>3. CASE i # 1
      <4>1. i - 1 \in 1 .. n
        BY <1>1, <3>3
      <4> QED
        BY <3>1, <3>3, <4>1
    <3> QED
      BY <3>2, <3>3
  <2>3. g = [i \in 1 .. n |-> g[i]]
    OBVIOUS
  <2> HIDE DEF g
  <2>4. Defines(g)
    BY <1>3, <2>2, <2>3
  <2>5. Defines(Z)
    <3> HIDE DEF Defines
    <3> QED
      BY <2>4
  <2> HIDE DEF Z
  <2>6. \A i \in 1 .. n : Z[i] = IF i = 1 THEN q[i] ELSE Z[i - 1] \o q[i]
    BY <1>3, <2>5
  <2> HIDE DEF Defines
  <2> DEFINE h == [i \in 0 .. n |-> IF i = 0 THEN << >> ELSE Z[i]]
  <2>7. h[0] = << >> /\ \A i \in 1 .. n : h[i] = Z[i]
    BY <1>1
  <2> HIDE DEF h
  <2>8. ASSUME NEW k \in 1 .. n PROVE h[k] = h[k - 1] \o Store(s[k])
    <3>1. Z[k] = IF k = 1 THEN Store(s[k]) ELSE Z[k - 1] \o Store(s[k])
      BY <1>3, <2>6
    <3>2. CASE k = 1
      <4>1. << >> \o Store(s[k]) = Store(s[k]) /\ k - 1 = 0
        BY <1>2, <3>2, NothingJoined
      <4> QED
        BY <2>7, <3>1, <3>2, <4>1
    <3>3. CASE k # 1
      <4>1. k - 1 \in 1 .. n
        BY <1>1, <3>3
      <4> QED
        BY <2>7, <3>1, <3>3, <4>1
    <3> QED
      BY <3>2, <3>3
  <2>9. FlatTable(s, n, h)
    BY <2>7, <2>8 DEF FlatTable
  <2>10. h[n] = f[n]
    BY <1>1, <2>9, FlatSame
  <2>11. n \in 1 .. n
    BY <1>1, <1>7
  <2> QED
    BY <1>3, <1>4, <1>5, <1>7, <2>7, <2>10, <2>11
<1> QED
  BY <1>6, <1>7

\* Events, one written behind the other, are a stream.
LEMMA FlattenInStream ==
    ASSUME NEW s \in Seq(Event)
    PROVE  Flatten(s) \in Stream
<1>1. Len(s) \in Nat /\ \A k \in 1 .. Len(s) : s[k] \in Event
  BY ElementOfSeq
<1>2. PICK f : FlatTable(s, Len(s), f)
  BY <1>1, FlatExists
<1>3. InStream(Len(s), f)
  BY <1>1, <1>2, FlatInStream
<1>4. f[Len(s)] \in Stream
  BY <1>1, <1>3 DEF InStream
<1> QED
  BY <1>2, <1>4, FlattenIs

\* No events are written as nothing.
LEMMA FlattenNone == Flatten(<< >>) = << >>
<1>1. << >> \in Seq(Event) /\ Len(<< >>) = 0
  OBVIOUS
<1>2. PICK f : FlatTable(<< >>, 0, f)
  BY FlatExists
<1>3. Flatten(<< >>) = f[0]
  BY <1>1, <1>2, FlattenIs
<1> QED
  BY <1>2, <1>3 DEF FlatTable

\* One tree more.
LEMMA FlattenMore ==
    ASSUME NEW s \in Seq(Event), NEW e \in Event
    PROVE  Flatten(Append(s, e)) = Flatten(s) \o Store(e)
<1> DEFINE n == Len(s)
           w == Append(s, e)
<1>1. n \in Nat /\ w \in Seq(Event) /\ Len(w) = n + 1 /\ w[n + 1] = e
      /\ \A k \in 1 .. n : w[k] = s[k]
  BY AppendProperties
<1> HIDE DEF w
<1>2. PICK f : FlatTable(w, n + 1, f)
  <2>1. n + 1 \in Nat
    BY <1>1
  <2> QED
    BY <2>1, FlatExists
<1>3. Flatten(w) = f[n + 1]
  BY <1>1, <1>2, FlattenIs
<1>4. FlatTable(s, n, f)
  <2>1. \A k \in 1 .. n : k \in 1 .. n + 1
    BY <1>1
  <2> QED
    BY <1>1, <1>2, <2>1 DEF FlatTable
<1>5. Flatten(s) = f[n]
  BY <1>4, FlattenIs
<1>6. n + 1 \in 1 .. n + 1 /\ (n + 1) - 1 = n
  BY <1>1
<1>7. f[n + 1] = f[n] \o Store(e)
  BY <1>1, <1>2, <1>6 DEF FlatTable
<1> QED
  BY <1>3, <1>5, <1>7 DEF w

\* The first of some trees.
LEMMA FlattenFirst ==
    ASSUME NEW s \in Seq(Event), NEW r \in Seq(Event), Len(s) = Len(r) + 1,
           \A k \in 1 .. Len(r) : s[k + 1] = r[k]
    PROVE  Flatten(s) = Store(s[1]) \o Flatten(r)
<1> DEFINE n == Len(r)
<1>1. n \in Nat /\ Len(s) = n + 1 /\ \A k \in 1 .. n + 1 : s[k] \in Event
  BY ElementOfSeq
<1>0. \A k \in 1 .. n : r[k] \in Event /\ s[k + 1] = r[k]
  BY ElementOfSeq
<1>2. PICK f : FlatTable(s, n + 1, f)
  BY <1>1, FlatExists
<1>3. PICK g : FlatTable(r, n, g)
  BY <1>1, FlatExists
<1>4. Flatten(s) = f[n + 1] /\ Flatten(r) = g[n]
  BY <1>1, <1>2, <1>3, FlattenIs
<1>5. InStream(n, g)
  BY <1>0, <1>1, <1>3, FlatInStream
<1> HIDE DEF n
<1>6. 1 \in 1 .. n + 1
  BY <1>1
<1>7. Store(s[1]) \in Stream
  BY <1>1, <1>6, StoreInStream
<1> DEFINE B == {k \in 0 .. n : f[k + 1] # Store(s[1]) \o g[k]}
<1>8. ASSUME NEW k \in B PROVE k # 0 /\ k - 1 \in B
  <2>1. k # 0
    <3> DEFINE a == Store(s[1])
    <3>0. f[0] = << >> /\ g[0] = << >>
      BY <1>2, <1>3 DEF FlatTable
    <3>1. f[1] = f[1 - 1] \o a
      BY <1>2, <1>6 DEF FlatTable
    <3> HIDE DEF a
    <3>3. 1 - 1 = 0 /\ 0 + 1 = 1
      OBVIOUS
    <3>4. f[0 + 1] = << >> \o a
      BY <3>0, <3>1, <3>3
    <3>5. << >> \o a = a /\ a \o << >> = a
      BY <1>7, NothingJoined DEF a
    <3>2. f[0 + 1] = Store(s[1]) \o g[0]
      BY <3>0, <3>4, <3>5 DEF a
    <3> QED
      BY <3>2
  <2>2. k \in 1 .. n /\ k - 1 \in 0 .. n /\ k + 1 \in 1 .. n + 1
        /\ (k + 1) - 1 = k /\ (k - 1) + 1 = k
    BY <1>1, <2>1
  <2>3. f[k + 1] = f[k] \o Store(r[k])
    BY <1>0, <1>2, <2>2 DEF FlatTable
  <2>4. g[k] = g[k - 1] \o Store(r[k])
    BY <1>3, <2>2 DEF FlatTable
  <2>5. ASSUME f[(k - 1) + 1] = Store(s[1]) \o g[k - 1] PROVE FALSE
    <3>1. g[k - 1] \in Stream /\ Store(r[k]) \in Stream
      BY <1>0, <1>5, <2>2, StoreInStream DEF InStream
    <3>2. (Store(s[1]) \o g[k - 1]) \o Store(r[k]) = Store(s[1]) \o (g[k - 1] \o Store(r[k]))
      BY <1>7, <3>1, JoinedInTurn DEF InTurn
    <3>3. f[k + 1] = Store(s[1]) \o g[k]
      BY <2>2, <2>3, <2>4, <2>5, <3>2
    <3> QED
      BY <3>3
  <2> QED
    BY <2>1, <2>2, <2>5
<1>9. B \in SUBSET Nat
  <2>1. \A k \in 0 .. n : k \in Nat
    BY <1>1
  <2> QED
    BY <2>1
<1>10. B = {}
  BY <1>8, <1>9, NoneIsFirst
<1>11. n \in 0 .. n
  BY <1>1
<1> QED
  BY <1>4, <1>10, <1>11

\* What the core wrote of the events after the first k
Left(events, k) == Flatten(SubSeq(events, k + 1, Len(events)))

\* The events not taken, and their stream.
LEMMA LeftIs ==
    ASSUME NEW s \in Seq(Event), NEW k \in 0 .. Len(s)
    PROVE  /\ SubSeq(s, k + 1, Len(s)) \in Seq(Event)
           /\ Len(SubSeq(s, k + 1, Len(s))) = Len(s) - k
           /\ \A i \in 1 .. Len(s) - k : SubSeq(s, k + 1, Len(s))[i] = s[k + i]
           /\ Left(s, k) \in Stream
<1>1. Len(s) \in Nat /\ k \in Nat /\ \A i \in 1 .. Len(s) : s[i] \in Event
  BY ElementOfSeq
<1>2. SubSeq(s, k + 1, Len(s)) = [i \in 1 .. Len(s) - k |-> s[k + i]]
  BY <1>1
<1>3. \A i \in 1 .. Len(s) - k : k + i \in 1 .. Len(s)
  BY <1>1
<1>4. Len(s) - k \in Nat
  BY <1>1
<1> DEFINE r == [i \in 1 .. Len(s) - k |-> s[k + i]]
<1>5. r \in Seq(Event) /\ Len(r) = Len(s) - k /\ \A i \in 1 .. Len(s) - k : r[i] = s[k + i]
  BY <1>1, <1>3, <1>4, IsASeq
<1> HIDE DEF r
<1>6. Flatten(r) \in Stream
  BY <1>5, FlattenInStream
<1> QED
  BY <1>2, <1>5, <1>6 DEF r, Left

\* Another event is raised behind them.
LEMMA LeftMore ==
    ASSUME NEW s \in Seq(Event), NEW k \in 0 .. Len(s), NEW e \in Event
    PROVE  Left(Append(s, e), k) = Left(s, k) \o Store(e)
<1> DEFINE w == Append(s, e)
           n == Len(s)
           a == SubSeq(s, k + 1, n)
           b == SubSeq(w, k + 1, n + 1)
<1>1. n \in Nat /\ w \in Seq(Event) /\ Len(w) = n + 1 /\ w[n + 1] = e
      /\ \A i \in 1 .. n : w[i] = s[i]
  BY AppendProperties
<1>2. a \in Seq(Event) /\ Len(a) = n - k /\ \A i \in 1 .. n - k : a[i] = s[k + i]
  BY LeftIs
<1>3. k \in 0 .. Len(w)
  BY <1>1
<1> HIDE DEF w
<1>4. b \in Seq(Event) /\ Len(b) = (n + 1) - k /\ \A i \in 1 .. (n + 1) - k : b[i] = w[k + i]
  BY <1>1, <1>3, LeftIs
<1> HIDE DEF a, b
<1>5. Append(a, e) \in Seq(Event) /\ Len(Append(a, e)) = (n - k) + 1
      /\ Append(a, e)[(n - k) + 1] = e
      /\ \A i \in 1 .. n - k : Append(a, e)[i] = a[i]
  BY <1>2, AppendProperties
<1>6. ASSUME NEW i \in 1 .. (n + 1) - k PROVE b[i] = Append(a, e)[i]
  <2>1. CASE i \in 1 .. n - k
    <3>1. k + i \in 1 .. n
      BY <1>1, <2>1
    <3> QED
      BY <1>1, <1>2, <1>4, <1>5, <2>1, <3>1
  <2>2. CASE i = (n - k) + 1
    <3>1. k + i = n + 1
      BY <1>1, <2>2
    <3>2. b[i] = w[n + 1]
      BY <1>4, <3>1
    <3> QED
      BY <1>1, <1>5, <2>2, <3>2
  <2>3. i \in 1 .. n - k \/ i = (n - k) + 1
    BY <1>1
  <2> QED
    BY <2>1, <2>2, <2>3
<1>7. Len(b) = Len(Append(a, e))
  BY <1>1, <1>4, <1>5
<1>8. b = Append(a, e)
  BY <1>4, <1>5, <1>6, <1>7, SeqEqual
<1>9. Flatten(Append(a, e)) = Flatten(a) \o Store(e)
  BY <1>2, FlattenMore
<1> QED
  BY <1>1, <1>8, <1>9 DEF Left, a, b, w

\* The first of them is written before the others.
LEMMA LeftFirst ==
    ASSUME NEW s \in Seq(Event), NEW k \in Nat, k < Len(s)
    PROVE  Left(s, k) = Store(s[k + 1]) \o Left(s, k + 1)
<1> DEFINE n == Len(s)
           a == SubSeq(s, k + 1, n)
           b == SubSeq(s, (k + 1) + 1, n)
<1>1. n \in Nat /\ k \in 0 .. n /\ k + 1 \in 0 .. n
  OBVIOUS
<1>2. a \in Seq(Event) /\ Len(a) = n - k /\ \A i \in 1 .. n - k : a[i] = s[k + i]
  BY <1>1, LeftIs
<1>3. b \in Seq(Event) /\ Len(b) = n - (k + 1) /\ \A i \in 1 .. n - (k + 1) : b[i] = s[(k + 1) + i]
  BY <1>1, LeftIs
<1> HIDE DEF a, b
<1>4. Len(a) = Len(b) + 1
  BY <1>1, <1>2, <1>3
<1>5. ASSUME NEW i \in 1 .. Len(b) PROVE a[i + 1] = b[i]
  <2>1. i + 1 \in 1 .. n - k /\ i \in 1 .. n - (k + 1) /\ k + (i + 1) = (k + 1) + i
    BY <1>1, <1>3
  <2> QED
    BY <1>2, <1>3, <2>1
<1>6. a[1] = s[k + 1]
  <2>1. 1 \in 1 .. n - k
    BY <1>1
  <2> QED
    BY <1>2, <2>1
<1>7. Flatten(a) = Store(a[1]) \o Flatten(b)
  BY <1>2, <1>3, <1>4, <1>5, FlattenFirst
<1> QED
  BY <1>6, <1>7 DEF Left, a, b

\* When all were taken there is nothing left.
LEMMA LeftNone ==
    ASSUME NEW s \in Seq(Event)
    PROVE  Left(s, Len(s)) = << >>
<1> DEFINE a == SubSeq(s, Len(s) + 1, Len(s))
<1>1. Len(s) \in Nat /\ Len(s) \in 0 .. Len(s)
  OBVIOUS
<1>2. a \in Seq(Event) /\ Len(a) = Len(s) - Len(s)
  BY <1>1, LeftIs
<1> HIDE DEF a
<1>3. a = << >>
  BY <1>1, <1>2, EmptySeq
<1> QED
  BY <1>3, FlattenNone DEF Left, a

-----------------------------------------------------------------------------
(* What is left of a document. *)

\* What the document still has behind each of its nodes when the node is complete
IsAfter(t, s, A) ==
    /\ A[1] = << >>
    /\ \A i \in 2 .. Len(t) :
          A[i] = From(s, NextSiblings(t, i)) \o (<<End>> \o A[t[i].parent])
    /\ \A i \in 1 .. Len(t) : A[i] \in Stream

\* What is written for each node, and what is behind it
Tables(t, s, A) == IsTree(t) /\ IsStored(t, s, 1) /\ IsAfter(t, s, A)

\* Each part of what is written for a node is a stream.
LEMMA PartsInStream ==
    ASSUME NEW t, IsTree(t), NEW s, IsStored(t, s, 1), NEW i \in 1 .. Len(t)
    PROVE  /\ s[i] \in Stream /\ s[i] = StoreStep(t, s, i)
           /\ From(s, Children(t, i)) \in Stream
           /\ From(s, NextSiblings(t, i)) \in Stream
<1>1. s[i] \in Stream /\ s[i] = StoreStep(t, s, i)
  BY DEF IsStored
<1>2. \A j \in i + 1 .. Len(t) : s[j] \in Stream
  <2>1. \A j \in i + 1 .. Len(t) : j \in 1 .. Len(t)
    BY TreeIs
  <2> QED
    BY <2>1 DEF IsStored
<1> QED
  BY <1>1, <1>2, StepInStream

\* IsAfter, for the first m places
AfterTo(t, s, A, m) ==
    /\ A[1] = << >>
    /\ \A i \in 2 .. m :
          A[i] = From(s, NextSiblings(t, i)) \o (<<End>> \o A[t[i].parent])
    /\ \A i \in 1 .. m : A[i] \in Stream

\* There is such a table: it is made from the first node to the last.
LEMMA AfterExists ==
    ASSUME NEW t, IsTree(t), NEW s, IsStored(t, s, 1)
    PROVE  \E A : Tables(t, s, A)
<1> DEFINE n == Len(t)
           B == {m \in 0 .. n : m >= 1 /\ ~\E A : AfterTo(t, s, A, m)}
<1>0. n \in Nat /\ n >= 1 /\ \A i \in 2 .. n : t[i].parent \in 1 .. i - 1
  BY TreeIs
<1>1. ASSUME NEW m \in B PROVE m # 0 /\ m - 1 \in B
  <2>1. m # 1
    <3> DEFINE f == [k \in 1 .. 1 |-> << >>]
    <3>1. f[1] = << >> /\ (\A k \in 2 .. 1 : FALSE) /\ \A k \in 1 .. 1 : k = 1
      OBVIOUS
    <3>2. << >> \in Stream
      BY DEF Stream
    <3> HIDE DEF f
    <3>3. AfterTo(t, s, f, 1)
      BY <3>1, <3>2 DEF AfterTo
    <3> QED
      BY <3>3
  <2>2. m \in Nat /\ m \in 2 .. n /\ m - 1 \in 0 .. n /\ m - 1 >= 1
    BY <1>0, <2>1
  <2>3. ASSUME NEW A, AfterTo(t, s, A, m - 1) PROVE FALSE
    <3> DEFINE p == t[m].parent
               last == From(s, NextSiblings(t, m)) \o (<<End>> \o A[p])
               h == [k \in 1 .. m |-> IF k = m THEN last ELSE A[k]]
    <3>1. p \in 1 .. m - 1 /\ m \in 1 .. n
      BY <1>0, <2>2
    <3>2. last \in Stream
      <4>1. <<End>> \in Stream
        BY <3>1, ControlsWritten, OneInStream
      <4>2. A[p] \in Stream
        BY <2>3, <3>1 DEF AfterTo
      <4>3. From(s, NextSiblings(t, m)) \in Stream
        BY <3>1, PartsInStream
      <4> HIDE DEF p
      <4>4. <<End>> \o A[p] \in Stream
        BY <4>1, <4>2, Joined
      <4> QED
        BY <4>3, <4>4, Joined
    <3> HIDE DEF last, p
    <3>3. 1 \in 1 .. m /\ 1 # m /\ m \in 1 .. m /\ \A k \in 1 .. m - 1 : k \in 1 .. m /\ k # m
      BY <2>2
    <3>4. h[m] = last /\ \A k \in 1 .. m - 1 : h[k] = A[k]
      BY <3>3
    <3> HIDE DEF h
    <3>5. h[1] = << >>
      <4>1. 1 \in 1 .. m - 1
        BY <2>2
      <4> QED
        BY <2>3, <3>4, <4>1 DEF AfterTo
    <3>6. ASSUME NEW k \in 2 .. m
          PROVE  h[k] = From(s, NextSiblings(t, k)) \o (<<End>> \o h[t[k].parent])
      <4>1. CASE k = m
        <5>1. h[p] = A[p]
          BY <3>1, <3>4
        <5> QED
          BY <3>4, <4>1, <5>1 DEF last, p
      <4>2. CASE k # m
        <5>1. k \in 2 .. m - 1 /\ k \in 1 .. m - 1 /\ k \in 2 .. n
          BY <2>2, <4>2
        <5>2. t[k].parent \in 1 .. k - 1
          BY <1>0, <5>1
        <5>3. t[k].parent \in 1 .. m - 1
          BY <2>2, <5>1, <5>2
        <5>4. A[k] = From(s, NextSiblings(t, k)) \o (<<End>> \o A[t[k].parent])
          BY <2>3, <5>1 DEF AfterTo
        <5> QED
          BY <3>4, <5>1, <5>3, <5>4
      <4> QED
        BY <4>1, <4>2
    <3>7. \A k \in 1 .. m : h[k] \in Stream
      <4>1. \A k \in 1 .. m : k = m \/ k \in 1 .. m - 1
        BY <2>2
      <4> QED
        BY <2>3, <3>2, <3>4, <4>1 DEF AfterTo
    <3>8. AfterTo(t, s, h, m)
      BY <3>5, <3>6, <3>7 DEF AfterTo
    <3> QED
      BY <3>8
  <2>4. m - 1 \in B
    BY <2>2, <2>3
  <2> QED
    BY <2>2, <2>4
<1>2. B \in SUBSET Nat
  <2>1. \A m \in 0 .. n : m \in Nat
    BY <1>0
  <2> QED
    BY <2>1
<1>3. B = {}
  BY <1>1, <1>2, NoneIsFirst
<1>4. n \in 0 .. n
  BY <1>0
<1>5. PICK A : AfterTo(t, s, A, n)
  BY <1>0, <1>3, <1>4
<1>6. IsAfter(t, s, A)
  BY <1>5 DEF AfterTo, IsAfter
<1> QED
  BY <1>6 DEF Tables

\* What follows the first a attributes of a node, up to the end of the node and R
Body(t, s, i, a, R) ==
    SubSeq(StoreAttrs(t[i].attrs), a + 1, Len(t[i].attrs))
    \o (From(s, Children(t, i)) \o (Ends(t, i) \o R))

\* The attributes of a node, one control for each.
LEMMA AttrsAre ==
    ASSUME NEW t, IsTree(t), NEW i \in 1 .. Len(t)
    PROVE  /\ t[i].attrs \in Seq(Attr) /\ Len(t[i].attrs) \in Nat
           /\ StoreAttrs(t[i].attrs) \in Seq(Control)
           /\ Len(StoreAttrs(t[i].attrs)) = Len(t[i].attrs)
<1>1. t[i] \in Node
  BY TreeIs
<1> DEFINE a == t[i].attrs
<1>2. a \in Seq(Attr)
  BY <1>1 DEF Node
<1>3. StoreAttrs(a) \in Seq(Control)
  BY ControlsWritten DEF Stream
<1> HIDE DEF a
<1>4. Len(a) \in Nat /\ DOMAIN a = 1 .. Len(a)
  BY <1>2
<1>5. DOMAIN StoreAttrs(a) = 1 .. Len(a)
  BY <1>4 DEF StoreAttrs
<1>6. Len(StoreAttrs(a)) = Len(a)
  BY <1>3, <1>4, <1>5, LenProperties
<1> QED
  BY <1>2, <1>3, <1>4, <1>6 DEF a

\* Five pieces and what is behind them, however they are joined
FiveInTurn(a, b, c, d, e, z) ==
    (a \o b \o c \o d \o e) \o z = a \o (b \o (c \o (d \o (e \o z))))

\* They may be joined from behind.
LEMMA JoinedByFive ==
    ASSUME NEW a \in Stream, NEW b \in Stream, NEW c \in Stream, NEW d \in Stream,
           NEW e \in Stream, NEW z \in Stream
    PROVE  FiveInTurn(a, b, c, d, e, z)
<1> DEFINE x == a \o b
           y == x \o c
           w == y \o d
           r == e \o z
           q == d \o r
           p == c \o q
<1>1. x \in Stream /\ r \in Stream
  BY Joined
<1> HIDE DEF x, r
<1>2. y \in Stream /\ q \in Stream
  BY <1>1, Joined
<1> HIDE DEF y, q
<1>3. w \in Stream /\ p \in Stream
  BY <1>1, <1>2, Joined
<1> HIDE DEF w, p
<1>4. InTurn(w, e, z) /\ InTurn(y, d, r) /\ InTurn(x, c, q) /\ InTurn(a, b, p)
  BY <1>1, <1>2, <1>3, JoinedInTurn
<1>5. w = y \o d /\ y = x \o c /\ x = a \o b /\ p = c \o q /\ q = d \o r /\ r = e \o z
  BY DEF w, y, x, p, q, r
<1>6. (w \o e) \o z = a \o (b \o p)
  BY <1>4, <1>5 DEF InTurn
<1>7. ((((a \o b) \o c) \o d) \o e) \o z = a \o (b \o (c \o (d \o (e \o z))))
  BY <1>5, <1>6
<1> QED
  BY <1>7 DEF FiveInTurn

\* A node is opened.
LEMMA NodeOpens ==
    ASSUME NEW t, IsTree(t), NEW s, IsStored(t, s, 1), NEW i \in 1 .. Len(t), NEW Z \in Stream
    PROVE  s[i] \o Z = <<Start(t, i)>> \o Body(t, s, i, 0, From(s, NextSiblings(t, i)) \o Z)
<1> DEFINE a == <<Start(t, i)>>
           b == StoreAttrs(t[i].attrs)
           c == From(s, Children(t, i))
           d == Ends(t, i)
           e == From(s, NextSiblings(t, i))
<1>1. a \in Stream /\ b \in Stream /\ c \in Stream /\ d \in Stream /\ e \in Stream
  BY ControlsWritten, OneInStream, PartsInStream
<1>2. s[i] = a \o b \o c \o d \o e
  BY PartsInStream DEF StoreStep
<1>3. SubSeq(StoreAttrs(t[i].attrs), 0 + 1, Len(t[i].attrs)) = b
  <2>1. b \in Seq(Control) /\ Len(b) = Len(t[i].attrs)
    BY AttrsAre
  <2> HIDE DEF b
  <2>2. SubSeq(b, 1, Len(b)) = b
    BY <2>1, SubSeqFull
  <2> QED
    BY <2>1, <2>2 DEF b
<1>4. Body(t, s, i, 0, e \o Z) = b \o (c \o (d \o (e \o Z)))
  BY <1>3 DEF Body
<1> HIDE DEF a, b, c, d, e
<1>5. FiveInTurn(a, b, c, d, e, Z)
  BY <1>1, JoinedByFive
<1>6. s[i] \o Z = a \o Body(t, s, i, 0, e \o Z)
  BY <1>2, <1>4, <1>5 DEF FiveInTurn
<1> QED
  BY <1>6 DEF a, e

\* What is left of a node is a stream.
LEMMA BodyInStream ==
    ASSUME NEW t, IsTree(t), NEW s, IsStored(t, s, 1), NEW i \in 1 .. Len(t),
           NEW a \in 0 .. Len(t[i].attrs), NEW R \in Stream
    PROVE  /\ From(s, Children(t, i)) \o (Ends(t, i) \o R) \in Stream
           /\ Body(t, s, i, a, R) \in Stream
<1> DEFINE c == From(s, Children(t, i))
           d == Ends(t, i)
           b == StoreAttrs(t[i].attrs)
           n == Len(t[i].attrs)
<1>1. c \in Stream /\ d \in Stream /\ b \in Seq(Control) /\ n \in Nat /\ n = Len(b)
  BY ControlsWritten, PartsInStream, AttrsAre
<1>2. Body(t, s, i, a, R) = SubSeq(b, a + 1, n) \o (c \o (d \o R))
  BY DEF Body
<1> HIDE DEF b, c, d, n
<1>3. SubSeq(b, a + 1, n) \in Stream
  BY <1>1, SubSeqProperties DEF Stream, n
<1>4. d \o R \in Stream
  BY <1>1, Joined
<1>5. c \o (d \o R) \in Stream
  BY <1>1, <1>4, Joined
<1> QED
  BY <1>2, <1>3, <1>5, Joined DEF c, d

-----------------------------------------------------------------------------
(* Where the reader stands in a document: at node i, with m nodes read, and *)
(* a attributes of the last of them.                                       *)

\* The nodes from i to m are i and what is within it, and nothing else is.
Covers(t, i, m) ==
    /\ \A k \in i + 1 .. m : i <= t[k].parent
    /\ \A k \in m + 1 .. Len(t) : t[k].parent < i \/ m < t[k].parent

\* A node between another and its child is within the other.
LEMMA ParentsNest ==
    ASSUME NEW t, IsTree(t), NEW i \in 1 .. Len(t), NEW j \in 1 .. Len(t),
           t[j].parent < i, i < j
    PROVE  t[j].parent <= t[i].parent
  BY TreeIs DEF IsTree

\* The first child of a node comes next.
LEMMA FirstIsNext ==
    ASSUME NEW t, IsTree(t), NEW m \in 1 .. Len(t), Children(t, m) # {}
    PROVE  /\ FirstOf(Children(t, m)) = m + 1 /\ m + 1 \in 2 .. Len(t)
           /\ t[m + 1].parent = m /\ IsFirstChild(t, m + 1)
<1> DEFINE n == Len(t)
           c == FirstOf(Children(t, m))
<1>0. n \in Nat /\ DOMAIN t = 1 .. n /\ \A i \in 2 .. n : t[i].parent \in 1 .. i - 1
  BY TreeIs
<1>1. Children(t, m) \subseteq m + 1 .. n /\ m + 1 \in Nat
  BY LaterNodes
<1>2. c \in Children(t, m) /\ c \in m + 1 .. n /\ \A j \in Children(t, m) : c <= j
  BY <1>0, <1>1, FirstOfLater
<1> HIDE DEF c
<1>3. t[c].parent = m
  BY <1>2 DEF Children
<1>4. c = m + 1
  <2> SUFFICES ASSUME c # m + 1 PROVE FALSE
    OBVIOUS
  <2>1. m + 1 \in 2 .. n /\ m + 1 < c /\ c \in 1 .. n /\ m + 1 \in 1 .. n
    BY <1>0, <1>2
  <2>2. t[c].parent < m + 1
    BY <1>3
  <2>3. m <= t[m + 1].parent
    BY <1>3, <2>1, <2>2, ParentsNest
  <2>4. t[m + 1].parent \in 1 .. (m + 1) - 1
    BY <1>0, <2>1
  <2>5. t[m + 1].parent = m
    BY <2>3, <2>4
  <2>6. m + 1 \in Children(t, m)
    BY <1>0, <2>1, <2>5 DEF Children
  <2> QED
    BY <1>2, <2>1, <2>6
<1>5. IsFirstChild(t, c)
  BY <1>2, <1>3 DEF IsFirstChild
<1> QED
  BY <1>0, <1>2, <1>3, <1>4, <1>5 DEF c

\* So does the next sibling of a node that is complete.
LEMMA SiblingIsNext ==
    ASSUME NEW t, IsTree(t), NEW m \in 1 .. Len(t), NEW i \in 2 .. m, Covers(t, i, m),
           NextSiblings(t, i) # {}
    PROVE  /\ FirstOf(NextSiblings(t, i)) = m + 1 /\ m + 1 \in 2 .. Len(t)
           /\ t[m + 1].parent = t[i].parent /\ ~IsFirstChild(t, m + 1)
<1> DEFINE n == Len(t)
           p == t[i].parent
           c == FirstOf(NextSiblings(t, i))
<1>0. n \in Nat /\ DOMAIN t = 1 .. n /\ \A k \in 2 .. n : t[k].parent \in 1 .. k - 1
  BY TreeIs
<1>1. i \in 2 .. n /\ i \in 1 .. n /\ i \in Nat /\ i <= m /\ m \in Nat
  BY <1>0
<1>2. p \in 1 .. i - 1
  BY <1>0, <1>1
<1>3. NextSiblings(t, i) \subseteq i + 1 .. n /\ i + 1 \in Nat
  BY <1>1, LaterNodes
<1>4. /\ c \in NextSiblings(t, i) /\ c \in i + 1 .. n
      /\ \A j \in NextSiblings(t, i) : c <= j
  BY <1>0, <1>3, FirstOfLater
<1>5. t[c].parent = p
  BY <1>4 DEF NextSiblings, Children
<1> HIDE DEF c
<1>6. c \in m + 1 .. n
  <2>1. ~(c \in i + 1 .. m)
    BY <1>1, <1>2, <1>5 DEF Covers
  <2> QED
    BY <1>0, <1>1, <1>4, <2>1
<1>7. c = m + 1
  <2> SUFFICES ASSUME c # m + 1 PROVE FALSE
    OBVIOUS
  <2> DEFINE k == m + 1
             q == t[k].parent
  <2>1. k \in 2 .. n /\ k \in 1 .. n /\ k < c /\ c \in 1 .. n /\ i < k /\ k \in m + 1 .. n
    BY <1>0, <1>1, <1>6
  <2>2. q \in 1 .. k - 1
    BY <1>0, <2>1
  <2>3. t[c].parent < k
    BY <1>1, <1>2, <1>5
  <2>4. p <= q
    <3> HIDE DEF k
    <3>1. t[c].parent <= t[k].parent
      BY <2>1, <2>3, ParentsNest
    <3> QED
      BY <1>5, <3>1
  <2>5. q < i
    <3>1. q < i \/ m < q
      BY <2>1 DEF Covers
    <3> QED
      BY <1>1, <2>2, <3>1
  <2>6. q = p
    <3> SUFFICES ASSUME q # p PROVE FALSE
      OBVIOUS
    <3>1. p < q
      BY <1>2, <2>2, <2>4
    <3> HIDE DEF k
    <3>2. t[k].parent <= t[i].parent
      BY <1>1, <2>1, <2>5, ParentsNest
    <3> QED
      BY <1>2, <2>2, <3>1, <3>2
  <2>7. k \in NextSiblings(t, i)
    BY <1>0, <2>1, <2>6 DEF NextSiblings, Children
  <2> QED
    BY <1>4, <2>1, <2>7
<1>8. ~IsFirstChild(t, c)
  <2>1. i \in Children(t, t[c].parent)
    BY <1>0, <1>1, <1>5 DEF Children
  <2>2. ~(c <= i)
    BY <1>1, <1>4
  <2> QED
    BY <2>1, <2>2 DEF IsFirstChild
<1> QED
  BY <1>0, <1>1, <1>5, <1>6, <1>7, <1>8 DEF c

\* A parent is complete when the last of its children is.
LEMMA ParentCovers ==
    ASSUME NEW t, IsTree(t), NEW m \in 1 .. Len(t), NEW i \in 2 .. m, Covers(t, i, m),
           NextSiblings(t, i) = {}
    PROVE  Covers(t, t[i].parent, m)
<1> DEFINE n == Len(t)
           p == t[i].parent
<1>0. n \in Nat /\ DOMAIN t = 1 .. n /\ \A k \in 2 .. n : t[k].parent \in 1 .. k - 1
  BY TreeIs
<1>1. i \in 2 .. n /\ i \in 1 .. n /\ i \in Nat /\ i <= m /\ m \in Nat
  BY <1>0
<1>2. p \in 1 .. i - 1
  BY <1>0, <1>1
<1>3. ASSUME NEW k \in p + 1 .. m PROVE p <= t[k].parent
  <2>1. k \in 2 .. n /\ k \in 1 .. n
    BY <1>0, <1>1, <1>2
  <2>2. t[k].parent \in 1 .. k - 1
    BY <1>0, <2>1
  <2>3. CASE k = i
    BY <1>2, <2>3
  <2>4. CASE k > i
    <3>1. k \in i + 1 .. m
      BY <1>1, <1>2, <2>4
    <3>2. i <= t[k].parent
      BY <3>1 DEF Covers
    <3> QED
      BY <1>2, <2>2, <3>2
  <2>5. CASE k < i
    <3>1. t[i].parent < k
      BY <1>2
    <3>2. t[i].parent <= t[k].parent
      BY <1>1, <2>1, <2>5, <3>1, ParentsNest
    <3> QED
      BY <3>2
  <2> QED
    BY <1>1, <1>2, <2>3, <2>4, <2>5
<1>4. ASSUME NEW k \in m + 1 .. n PROVE t[k].parent < p \/ m < t[k].parent
  <2> DEFINE q == t[k].parent
  <2>1. k \in 2 .. n /\ k \in 1 .. n /\ i < k
    BY <1>0, <1>1
  <2>2. q \in 1 .. k - 1
    BY <1>0, <2>1
  <2>3. q < i \/ m < q
    BY DEF Covers
  <2>4. q # p
    <3> SUFFICES ASSUME q = p PROVE FALSE
      OBVIOUS
    <3>1. k \in NextSiblings(t, i)
      BY <1>0, <2>1 DEF NextSiblings, Children
    <3> QED
      BY <3>1
  <2>5. ASSUME p < q, q < i PROVE FALSE
    <3>1. t[k].parent <= t[i].parent
      BY <1>1, <2>1, <2>5, ParentsNest
    <3> QED
      BY <1>2, <2>2, <2>5, <3>1
  <2> QED
    BY <1>2, <2>2, <2>3, <2>4, <2>5
<1> QED
  BY <1>3, <1>4 DEF Covers

\* When the first node is complete, every node was read.
LEMMA RootCovers ==
    ASSUME NEW t, IsTree(t), NEW m \in 1 .. Len(t), Covers(t, 1, m)
    PROVE  m = Len(t)
<1>0. Len(t) \in Nat /\ \A k \in 2 .. Len(t) : t[k].parent \in 1 .. k - 1
  BY TreeIs
<1> SUFFICES ASSUME m # Len(t) PROVE FALSE
  OBVIOUS
<1>1. m + 1 \in 2 .. Len(t) /\ m + 1 \in m + 1 .. Len(t)
  BY <1>0
<1>2. t[m + 1].parent \in 1 .. (m + 1) - 1
  BY <1>0, <1>1
<1>3. t[m + 1].parent < 1 \/ m < t[m + 1].parent
  BY <1>1 DEF Covers
<1> QED
  BY <1>2, <1>3

\* A node without children is complete at once.
LEMMA LeafCovers ==
    ASSUME NEW t, IsTree(t), NEW m \in 1 .. Len(t), Children(t, m) = {}
    PROVE  Covers(t, m, m)
<1>0. Len(t) \in Nat /\ DOMAIN t = 1 .. Len(t) /\ \A k \in 2 .. Len(t) : t[k].parent \in 1 .. k - 1
  BY TreeIs
<1>1. \A k \in m + 1 .. m : m <= t[k].parent
  OBVIOUS
<1>2. ASSUME NEW k \in m + 1 .. Len(t) PROVE t[k].parent < m \/ m < t[k].parent
  <2>1. k \in 2 .. Len(t) /\ k \in DOMAIN t
    BY <1>0
  <2>2. t[k].parent \in 1 .. k - 1
    BY <1>0, <2>1
  <2>3. t[k].parent # m
    BY <2>1 DEF Children
  <2> QED
    BY <2>2, <2>3
<1> QED
  BY <1>1, <1>2 DEF Covers

-----------------------------------------------------------------------------
(* What the reader finds next. *)

\* The reader is at the last node it read, with a of its attributes.
Starting(t, s, A, i, m, a, X) ==
    /\ i = m /\ m \in 1 .. Len(t) /\ a \in 0 .. Len(t[m].attrs)
    /\ X = Body(t, s, m, a, A[m])

\* The reader came back to node i, complete with its children.
Complete(t, s, A, i, m, a, X) ==
    /\ m \in 1 .. Len(t) /\ i \in 2 .. m /\ a = Len(t[m].attrs)
    /\ Covers(t, i, m)
    /\ X = A[i]

\* Where the reader may be in t: at node i, with m nodes read, and X behind it.
Place(t, s, A, i, m, a, X) ==
    Starting(t, s, A, i, m, a, X) \/ Complete(t, s, A, i, m, a, X)

\* An attribute comes next.
ToAttr(t, s, A, i, m, a, c, Y) ==
    /\ i = m /\ a + 1 \in 1 .. Len(t[m].attrs) /\ c = StoreAttrs(t[m].attrs)[a + 1]
    /\ Starting(t, s, A, m, m, a + 1, Y)

\* A node comes next, the first child of the node or its next sibling.
ToNode(t, s, A, i, m, a, c, Y) ==
    /\ a = Len(t[m].attrs) /\ m + 1 \in 2 .. Len(t) /\ c = Start(t, m + 1)
    /\ IF c.ctrl = "NODE" THEN t[m + 1].parent = i
       ELSE i # 1 /\ t[m + 1].parent = t[i].parent
    /\ Starting(t, s, A, m + 1, m + 1, 0, Y)

\* The end of the document comes next, and nothing behind it.
ToEnd(t, i, m, a, c, Y) ==
    /\ a = Len(t[m].attrs) /\ m = Len(t) /\ c = End
    /\ i = 1 \/ t[i].parent = 1
    /\ Y = << >>

\* The end of the parent's children comes next, the parent not being the root.
ToParent(t, s, A, i, m, a, c, Y) ==
    /\ a = Len(t[m].attrs) /\ c = End /\ i # 1 /\ t[i].parent # 1
    /\ Complete(t, s, A, t[i].parent, m, a, Y)

\* What comes next, from a place to the next place
Goes(t, s, A, i, m, a, c, Y) ==
    \/ ToAttr(t, s, A, i, m, a, c, Y)
    \/ ToNode(t, s, A, i, m, a, c, Y)
    \/ ToEnd(t, i, m, a, c, Y)
    \/ ToParent(t, s, A, i, m, a, c, Y)

\* X begins with c, and then goes on as Y.
Begins(X, c, Y) == c \in Control /\ Y \in Stream /\ X = <<c>> \o Y

\* Something comes next.
GoesOn(t, s, A, i, m, a, X) ==
    \E c, Y : Begins(X, c, Y) /\ Goes(t, s, A, i, m, a, c, Y)

\* What the places are.
LEMMA PlaceIs ==
    ASSUME NEW t, NEW s, NEW A, Tables(t, s, A), NEW i, NEW m, NEW a, NEW X,
           Place(t, s, A, i, m, a, X)
    PROVE  /\ m \in 1 .. Len(t) /\ i \in 1 .. m /\ a \in 0 .. Len(t[m].attrs)
           /\ X \in Stream
<1>1. IsTree(t) /\ IsStored(t, s, 1) /\ Len(t) \in Nat
  BY TreeIs DEF Tables
<1>2. CASE Starting(t, s, A, i, m, a, X)
  <2>1. m \in 1 .. Len(t) /\ i = m /\ a \in 0 .. Len(t[m].attrs) /\ X = Body(t, s, m, a, A[m])
    BY <1>2 DEF Starting
  <2>2. A[m] \in Stream
    BY <2>1 DEF Tables, IsAfter
  <2>3. X \in Stream
    BY <1>1, <2>1, <2>2, BodyInStream
  <2>4. i \in 1 .. m
    BY <1>1, <2>1
  <2> QED
    BY <2>1, <2>3, <2>4
<1>3. CASE Complete(t, s, A, i, m, a, X)
  <2>1. m \in 1 .. Len(t) /\ i \in 2 .. m /\ a = Len(t[m].attrs) /\ X = A[i]
    BY <1>3 DEF Complete
  <2>2. i \in 1 .. Len(t) /\ i \in 1 .. m
    BY <1>1, <2>1
  <2>3. a \in 0 .. Len(t[m].attrs)
    BY <1>1, <2>1, AttrsAre
  <2>4. X \in Stream
    BY <2>1, <2>2 DEF Tables, IsAfter
  <2> QED
    BY <2>1, <2>2, <2>3, <2>4
<1> QED
  BY <1>2, <1>3 DEF Place

\* A node that comes next is opened.
LEMMA NodeComesNext ==
    ASSUME NEW t, NEW s, NEW A, Tables(t, s, A), NEW c \in 2 .. Len(t), NEW Z \in Stream,
           A[c] = From(s, NextSiblings(t, c)) \o Z, NEW X, X = s[c] \o Z
    PROVE  \E Y : Begins(X, Start(t, c), Y) /\ Starting(t, s, A, c, c, 0, Y)
<1>0. IsTree(t) /\ IsStored(t, s, 1) /\ Len(t) \in Nat /\ c \in 1 .. Len(t)
  BY TreeIs DEF Tables
<1> DEFINE Y == Body(t, s, c, 0, A[c])
<1>1. X = <<Start(t, c)>> \o Y
  <2>1. s[c] \o Z = <<Start(t, c)>> \o Body(t, s, c, 0, From(s, NextSiblings(t, c)) \o Z)
    BY <1>0, NodeOpens
  <2> QED
    BY <2>1
<1>2. Start(t, c) \in Control /\ 0 \in 0 .. Len(t[c].attrs)
  BY <1>0, ControlsWritten, AttrsAre
<1>3. A[c] \in Stream
  BY <1>0 DEF Tables, IsAfter
<1>4. Y \in Stream
  BY <1>0, <1>2, <1>3, BodyInStream
<1>5. Starting(t, s, A, c, c, 0, Y)
  BY <1>0, <1>2 DEF Starting
<1> HIDE DEF Y
<1> QED
  BY <1>1, <1>2, <1>4, <1>5 DEF Begins

\* Behind a complete node comes its sibling or an end.
LEMMA CompleteGoes ==
    ASSUME NEW t, NEW s, NEW A, Tables(t, s, A), NEW i, NEW m, NEW a, NEW X,
           Complete(t, s, A, i, m, a, X)
    PROVE  GoesOn(t, s, A, i, m, a, X)
<1> DEFINE n == Len(t)
           p == t[i].parent
           nodes == NextSiblings(t, i)
           Z == <<End>> \o A[p]
<1>0. /\ IsTree(t) /\ IsStored(t, s, 1) /\ n \in Nat
      /\ m \in 1 .. n /\ i \in 2 .. m /\ i \in 2 .. n /\ i \in 1 .. n /\ a = Len(t[m].attrs)
      /\ Covers(t, i, m) /\ X = A[i]
  BY TreeIs DEF Tables, Complete
<1>1. p \in 1 .. i - 1 /\ p \in 1 .. n /\ p \in 1 .. m
  <2>1. p \in 1 .. i - 1
    BY <1>0, TreeIs
  <2> QED
    BY <1>0, <2>1
<1>2. X = From(s, nodes) \o Z
  BY <1>0 DEF Tables, IsAfter
<1>3. A[p] \in Stream /\ End \in Control /\ Z \in Stream
  <2>1. A[p] \in Stream
    BY <1>1 DEF Tables, IsAfter
  <2>2. <<End>> \in Stream /\ End \in Control
    BY <1>0, ControlsWritten, OneInStream
  <2> HIDE DEF p
  <2> QED
    BY <2>1, <2>2, Joined
<1>4. CASE nodes # {}
  <2>1. FirstOf(nodes) = m + 1 /\ m + 1 \in 2 .. n /\ t[m + 1].parent = p /\ ~IsFirstChild(t, m + 1)
    BY <1>0, <1>4, SiblingIsNext
  <2>2. X = s[m + 1] \o Z
    BY <1>2, <1>4, <2>1 DEF From
  <2>3. A[m + 1] = From(s, NextSiblings(t, m + 1)) \o Z
    BY <2>1 DEF Tables, IsAfter
  <2> HIDE DEF Z
  <2> DEFINE c == m + 1
  <2>4. c \in 2 .. n /\ X = s[c] \o Z /\ A[c] = From(s, NextSiblings(t, c)) \o Z
    BY <2>1, <2>2, <2>3
  <2>5. Start(t, c).ctrl # "NODE" /\ t[c].parent = t[i].parent
    BY <2>1 DEF Start
  <2> HIDE DEF c
  <2>6. PICK Y : Begins(X, Start(t, c), Y) /\ Starting(t, s, A, c, c, 0, Y)
    BY <1>3, <2>4, NodeComesNext
  <2>7. i # 1
    BY <1>0
  <2>8. ToNode(t, s, A, i, m, a, Start(t, c), Y)
    BY <1>0, <2>4, <2>5, <2>6, <2>7 DEF ToNode, c
  <2> QED
    BY <2>6, <2>8 DEF GoesOn, Goes
<1>5. CASE nodes = {}
  <2> DEFINE Y == A[p]
  <2>1. X = << >> \o Z
    BY <1>2, <1>5 DEF From
  <2>2. X = <<End>> \o Y
    <3>1. << >> \o Z = Z
      BY <1>3, NothingJoined
    <3> QED
      BY <2>1, <3>1
  <2>3. Begins(X, End, Y)
    BY <1>3, <2>2 DEF Begins
  <2>4. Covers(t, p, m)
    BY <1>0, <1>5, ParentCovers
  <2>5. CASE p = 1
    <3>1. m = n
      BY <1>0, <2>4, <2>5, RootCovers
    <3>2. Y = << >>
      BY <2>5 DEF Tables, IsAfter
    <3>3. ToEnd(t, i, m, a, End, Y)
      BY <1>0, <2>5, <3>1, <3>2 DEF ToEnd
    <3> QED
      BY <2>3, <3>3 DEF GoesOn, Goes
  <2>6. CASE p # 1
    <3>1. p \in 2 .. m /\ i # 1
      BY <1>0, <1>1, <2>6
    <3>2. Complete(t, s, A, p, m, a, Y)
      BY <1>0, <2>4, <3>1 DEF Complete
    <3>3. ToParent(t, s, A, i, m, a, End, Y)
      BY <1>0, <2>6, <3>1, <3>2 DEF ToParent
    <3> QED
      BY <2>3, <3>3 DEF GoesOn, Goes
  <2> QED
    BY <2>5, <2>6
<1> QED
  BY <1>4, <1>5

\* The attributes behind the first a
LEMMA AttrsNext ==
    ASSUME NEW b \in Seq(Control), NEW a \in Nat, a < Len(b)
    PROVE  /\ b[a + 1] \in Control /\ SubSeq(b, (a + 1) + 1, Len(b)) \in Stream
           /\ SubSeq(b, a + 1, Len(b)) = <<b[a + 1]>> \o SubSeq(b, (a + 1) + 1, Len(b))
<1> DEFINE n == Len(b)
           x == SubSeq(b, a + 1, n)
           y == SubSeq(b, (a + 1) + 1, n)
           w == <<b[a + 1]>> \o y
<1>1. n \in Nat /\ a + 1 \in 1 .. n /\ b[a + 1] \in Control
  BY ElementOfSeq
<1>2. x \in Seq(Control) /\ Len(x) = n - a /\ \A k \in 1 .. n - a : x[k] = b[a + k]
  <2>1. \A k \in a + 1 .. n : b[k] \in Control
    BY <1>1, ElementOfSeq
  <2> QED
    BY <1>1, <2>1, SubSeqProperties
<1>3. y \in Seq(Control) /\ Len(y) = n - (a + 1)
      /\ \A k \in 1 .. n - (a + 1) : y[k] = b[(a + 1) + k]
  <2>1. \A k \in (a + 1) + 1 .. n : b[k] \in Control
    BY <1>1, ElementOfSeq
  <2> QED
    BY <1>1, <2>1, SubSeqProperties
<1> HIDE DEF x, y
<1>4. <<b[a + 1]>> \in Seq(Control) /\ Len(<<b[a + 1]>>) = 1 /\ <<b[a + 1]>>[1] = b[a + 1]
  BY <1>1
<1>5. w \in Seq(Control) /\ Len(w) = 1 + Len(y) /\ w[1] = b[a + 1]
      /\ \A k \in 2 .. 1 + Len(y) : w[k] = y[k - 1]
  BY <1>3, <1>4, ConcatProperties
<1> HIDE DEF w
<1>6. ASSUME NEW k \in 1 .. n - a PROVE x[k] = w[k]
  <2>1. CASE k = 1
    BY <1>2, <1>5, <2>1
  <2>2. CASE k # 1
    <3>1. k - 1 \in 1 .. n - (a + 1) /\ (a + 1) + (k - 1) = a + k /\ k \in 2 .. 1 + Len(y)
      BY <1>1, <1>3, <2>2
    <3> QED
      BY <1>2, <1>3, <1>5, <3>1
  <2> QED
    BY <2>1, <2>2
<1>7. Len(x) = Len(w)
  BY <1>1, <1>2, <1>3, <1>5
<1>8. x = w
  BY <1>2, <1>5, <1>6, <1>7, SeqEqual
<1> QED
  BY <1>1, <1>3, <1>8 DEF x, y, w, Stream

\* Behind a node just begun comes an attribute, a child, a sibling or an end.
LEMMA StartingGoes ==
    ASSUME NEW t, NEW s, NEW A, Tables(t, s, A), NEW i, NEW m, NEW a, NEW X,
           Starting(t, s, A, i, m, a, X)
    PROVE  GoesOn(t, s, A, i, m, a, X)
<1> DEFINE n == Len(t)
           l == Len(t[m].attrs)
           b == StoreAttrs(t[m].attrs)
           R == From(s, Children(t, m)) \o (Ends(t, m) \o A[m])
<1>0. /\ IsTree(t) /\ IsStored(t, s, 1) /\ n \in Nat
      /\ i = m /\ m \in 1 .. n /\ a \in 0 .. l /\ X = Body(t, s, m, a, A[m])
  BY TreeIs DEF Tables, Starting
<1>1. l \in Nat /\ b \in Seq(Control) /\ Len(b) = l
  BY <1>0, AttrsAre
<1>2. A[m] \in Stream
  BY <1>0 DEF Tables, IsAfter
<1>3. R \in Stream
  BY <1>0, <1>2, BodyInStream
<1>4. X = SubSeq(b, a + 1, l) \o R
  BY <1>0 DEF Body
<1>5. CASE a # l
  <2> DEFINE y == SubSeq(b, (a + 1) + 1, l)
             c == b[a + 1]
             Y == y \o R
  <2>1. a \in Nat /\ a < l
    BY <1>0, <1>1, <1>5
  <2>2. c \in Control /\ y \in Stream /\ SubSeq(b, a + 1, l) = <<c>> \o y
    BY <1>1, <2>1, AttrsNext
  <2>3. Y = Body(t, s, m, a + 1, A[m])
    BY DEF Body
  <2>4. a + 1 \in 1 .. l /\ a + 1 \in 0 .. l
    BY <1>1, <2>1
  <2>5. Starting(t, s, A, m, m, a + 1, Y)
    BY <1>0, <2>3, <2>4 DEF Starting
  <2>6. ToAttr(t, s, A, i, m, a, c, Y)
    BY <1>0, <2>4, <2>5 DEF ToAttr
  <2> HIDE DEF c, y, R
  <2>7. Begins(X, c, Y)
    <3>1. <<c>> \in Stream
      BY <2>2, OneInStream
    <3>2. InTurn(<<c>>, y, R) /\ Y \in Stream
      BY <1>3, <2>2, <3>1, JoinedInTurn, Joined
    <3> QED
      BY <1>4, <2>2, <3>2 DEF Begins, InTurn
  <2> QED
    BY <2>6, <2>7 DEF GoesOn, Goes
<1>6. CASE a = l
  <2>1. X = R
    <3>1. SubSeq(b, a + 1, l) = << >>
      BY <1>1, <1>6, SubSeqEmpty
    <3> HIDE DEF R
    <3>2. << >> \o R = R
      BY <1>3, NothingJoined
    <3> QED
      BY <1>4, <3>1, <3>2
  <2>2. CASE Children(t, m) # {}
    <3> DEFINE c == m + 1
               Z == <<End>> \o A[m]
    <3>1. /\ FirstOf(Children(t, m)) = c /\ c \in 2 .. n
          /\ t[c].parent = m /\ IsFirstChild(t, c)
      BY <1>0, <2>2, FirstIsNext
    <3>2. X = s[c] \o Z
      BY <2>1, <2>2, <3>1 DEF From, Ends
    <3>3. A[c] = From(s, NextSiblings(t, c)) \o Z
      BY <3>1 DEF Tables, IsAfter
    <3>4. Z \in Stream
      BY <1>0, <1>2, ControlsWritten, OneInStream, Joined
    <3>5. Start(t, c).ctrl = "NODE"
      BY <3>1 DEF Start
    <3> HIDE DEF c, Z
    <3>6. PICK Y : Begins(X, Start(t, c), Y) /\ Starting(t, s, A, c, c, 0, Y)
      BY <3>1, <3>2, <3>3, <3>4, NodeComesNext
    <3>7. ToNode(t, s, A, i, m, a, Start(t, c), Y)
      BY <1>0, <1>6, <3>1, <3>5, <3>6 DEF ToNode, c
    <3> QED
      BY <3>6, <3>7 DEF GoesOn, Goes
  <2>3. CASE Children(t, m) = {} /\ m # 1
    <3>1. R = A[m]
      <4>1. R = << >> \o (<< >> \o A[m])
        BY <2>3 DEF From, Ends
      <4> QED
        BY <1>2, <4>1, NothingJoined
    <3>2. Covers(t, m, m)
      BY <1>0, <2>3, LeafCovers
    <3>3. m \in 2 .. m
      BY <1>0, <2>3
    <3>4. Complete(t, s, A, i, m, a, X)
      BY <1>0, <1>6, <2>1, <3>1, <3>2, <3>3 DEF Complete
    <3> QED
      BY <3>4, CompleteGoes
  <2>4. CASE Children(t, m) = {} /\ m = 1
    <3>1. R = << >> \o (<<End>> \o << >>)
      BY <2>4 DEF From, Ends, Tables, IsAfter
    <3>2. End \in Control /\ <<End>> \in Stream /\ << >> \in Stream
      BY <1>0, <1>2, ControlsWritten, OneInStream, NothingJoined
    <3>3. R = <<End>> \o << >>
      BY <3>1, <3>2, NothingJoined
    <3>4. Begins(X, End, << >>)
      BY <2>1, <3>2, <3>3 DEF Begins
    <3>5. m = n
      BY <1>0, <2>4, LeafCovers, RootCovers
    <3>6. ToEnd(t, i, m, a, End, << >>)
      BY <1>0, <1>6, <2>4, <3>5 DEF ToEnd
    <3> QED
      BY <3>4, <3>6 DEF GoesOn, Goes
  <2> QED
    BY <2>2, <2>3, <2>4
<1> QED
  BY <1>5, <1>6

\* From every place the document goes on to another, or ends.
LEMMA PlaceGoes ==
    ASSUME NEW t, NEW s, NEW A, Tables(t, s, A), NEW i, NEW m, NEW a, NEW X,
           Place(t, s, A, i, m, a, X)
    PROVE  GoesOn(t, s, A, i, m, a, X)
  BY StartingGoes, CompleteGoes DEF Place

\* A document begins with its first node.
LEMMA DocumentBegins ==
    ASSUME NEW t, NEW s, NEW A, Tables(t, s, A), NEW X, X = s[1]
    PROVE  \E Y : Begins(X, Start(t, 1), Y) /\ Starting(t, s, A, 1, 1, 0, Y)
<1>0. IsTree(t) /\ IsStored(t, s, 1) /\ Len(t) \in Nat /\ 1 \in 1 .. Len(t)
      /\ DOMAIN t = 1 .. Len(t)
  BY TreeIs DEF Tables
<1> DEFINE Y == Body(t, s, 1, 0, A[1])
<1>1. From(s, NextSiblings(t, 1)) = << >>
  <2>1. ASSUME NEW j \in NextSiblings(t, 1) PROVE FALSE
    <3>1. j \in 2 .. Len(t) /\ t[j].parent = t[1].parent
      BY <1>0 DEF NextSiblings, Children
    <3>2. t[j].parent \in 1 .. j - 1 /\ t[1].parent = 0
      BY <1>0, <3>1, TreeIs
    <3> QED
      BY <3>1, <3>2
  <2> QED
    BY <2>1 DEF From
<1>2. s[1] \in Stream /\ << >> \in Stream /\ s[1] \o << >> = s[1] /\ << >> \o << >> = << >>
  <2>1. s[1] \in Stream
    BY <1>0, PartsInStream
  <2> QED
    BY <2>1, NothingJoined
<1>3. A[1] = << >>
  BY DEF Tables, IsAfter
<1>4. s[1] \o << >> = <<Start(t, 1)>> \o Body(t, s, 1, 0, From(s, NextSiblings(t, 1)) \o << >>)
  BY <1>0, <1>2, NodeOpens
<1>5. X = <<Start(t, 1)>> \o Y
  BY <1>1, <1>2, <1>3, <1>4
<1>6. Start(t, 1) \in Control /\ 0 \in 0 .. Len(t[1].attrs)
  BY <1>0, ControlsWritten, AttrsAre
<1>7. Y \in Stream
  BY <1>0, <1>2, <1>3, <1>6, BodyInStream
<1>8. Starting(t, s, A, 1, 1, 0, Y)
  BY <1>0, <1>6 DEF Starting
<1> HIDE DEF Y
<1> QED
  BY <1>5, <1>6, <1>7, <1>8 DEF Begins

-----------------------------------------------------------------------------
(* What was read of a document: the places of its nodes are off later than *)
(* in the tree, by one when a root_parent stands above the first of them.  *)

\* The texts with a value below node k, among the first m nodes
Texts(t, k, m) ==
    {j \in Children(t, k) : j <= m /\ t[j].type = "data" /\ t[j].value # ""}

\* The first of them
TextSoFar(t, k, m) ==
    IF Texts(t, k, m) = {} THEN "" ELSE t[FirstOf(Texts(t, k, m))].value

\* The value that node k has when m nodes are read
ValueSoFar(t, k, m) ==
    IF t[k].value # "" THEN t[k].value ELSE TextSoFar(t, k, m)

\* The attributes that node k has when m nodes are read, a attributes of the last
AttrsSoFar(t, k, m, a) == IF k = m THEN SubSeq(t[k].attrs, 1, a) ELSE t[k].attrs

\* A node, field by field
NodeOf(type, name, value, attrs, parent) ==
    [type |-> type, name |-> name, value |-> value, attrs |-> attrs, parent |-> parent]

\* What the reader has of node k
NodeSoFar(t, k, m, a, off) ==
    NodeOf(t[k].type, t[k].name, ValueSoFar(t, k, m), AttrsSoFar(t, k, m, a),
           t[k].parent + off)

\* What a first node that is text leaves in the root_parent
AboveRoot(t) ==
    IF t[1].type = "data" THEN [RootParent EXCEPT !.value = t[1].value] ELSE RootParent

\* How much later the places are; a first node that is text has no name.
Offset(t, off) ==
    /\ off = IF t[1].type = "document" THEN 0 ELSE 1
    /\ t[1].type = "data" => t[1].name = ""

\* d is what the reader has of t when m nodes are read, a attributes of the last.
DocSoFar(t, m, a, off, d) ==
    /\ d \in Seq(Node) /\ Len(d) = m + off
    /\ Offset(t, off)
    /\ off = 1 => d[1] = AboveRoot(t)
    /\ \A k \in 1 .. m : d[k + off] = NodeSoFar(t, k, m, a, off)

\* A node with another attribute
MoreAttrs(x, v) == [x EXCEPT !.attrs = Append(@, v)]
\* A node with another value
Valued(x, v) == [x EXCEPT !.value = v]

\* A value replaces the value.
LEMMA ValueGiven ==
    ASSUME NEW type, NEW name, NEW value, NEW attrs, NEW parent, NEW v
    PROVE  Valued(NodeOf(type, name, value, attrs, parent), v)
              = NodeOf(type, name, v, attrs, parent)
  BY DEF NodeOf, Valued

\* An attribute comes behind the attributes.
LEMMA AttrAdded ==
    ASSUME NEW type, NEW name, NEW value, NEW attrs, NEW parent, NEW v
    PROVE  MoreAttrs(NodeOf(type, name, value, attrs, parent), v)
              = NodeOf(type, name, value, Append(attrs, v), parent)
  BY DEF NodeOf, MoreAttrs

\* The nodes of a tree, field by field.
LEMMA NodeIs ==
    ASSUME NEW t, IsTree(t), NEW k \in 1 .. Len(t)
    PROVE  /\ t[k].type \in NodeType /\ t[k].name \in Name /\ t[k].value \in Value
           /\ t[k].attrs \in Seq(Attr) /\ t[k].parent \in Nat
           /\ t[k] = NodeOf(t[k].type, t[k].name, t[k].value, t[k].attrs, t[k].parent)
<1>1. t[k] \in Node
  BY TreeIs
<1> QED
  BY <1>1 DEF Node, NodeOf

\* The attributes read are those before the one that comes next.
LEMMA AttrsGrow ==
    ASSUME NEW b \in Seq(Attr), NEW a \in Nat, a < Len(b)
    PROVE  /\ SubSeq(b, 1, a + 1) = Append(SubSeq(b, 1, a), b[a + 1])
           /\ SubSeq(b, 1, a) \in Seq(Attr) /\ b[a + 1] \in Attr
<1> DEFINE x == SubSeq(b, 1, a)
           y == SubSeq(b, 1, a + 1)
           w == Append(x, b[a + 1])
<1>1. Len(b) \in Nat /\ a + 1 \in 1 .. Len(b) /\ a \in 1 .. Len(b) \cup {0}
      /\ \A k \in 1 .. Len(b) : b[k] \in Attr
  BY ElementOfSeq
<1>2. x = [k \in 1 .. a |-> b[k]] /\ y = [k \in 1 .. a + 1 |-> b[k]]
  BY <1>1
<1>3. \A k \in 1 .. a + 1 : k \in 1 .. Len(b)
  BY <1>1
<1>4. x \in Seq(Attr) /\ Len(x) = a /\ \A k \in 1 .. a : x[k] = b[k]
  <2>1. \A k \in 1 .. a : b[k] \in Attr
    BY <1>1, <1>3
  <2> HIDE DEF x
  <2> QED
    BY <1>2, <2>1, IsASeq
<1>5. y \in Seq(Attr) /\ Len(y) = a + 1 /\ \A k \in 1 .. a + 1 : y[k] = b[k]
  <2>1. \A k \in 1 .. a + 1 : b[k] \in Attr
    BY <1>1, <1>3
  <2>2. a + 1 \in Nat
    OBVIOUS
  <2> HIDE DEF y
  <2> QED
    BY <1>2, <2>1, <2>2, IsASeq
<1> HIDE DEF x, y
<1>6. w \in Seq(Attr) /\ Len(w) = a + 1 /\ w[a + 1] = b[a + 1] /\ \A k \in 1 .. a : w[k] = x[k]
  BY <1>1, <1>4, AppendProperties
<1> HIDE DEF w
<1>7. \A k \in 1 .. a + 1 : y[k] = w[k]
  <2>1. \A k \in 1 .. a + 1 : k \in 1 .. a \/ k = a + 1
    OBVIOUS
  <2> QED
    BY <1>4, <1>5, <1>6, <2>1
<1>8. y = w
  BY <1>5, <1>6, <1>7, SeqEqual
<1> QED
  BY <1>1, <1>4, <1>8 DEF x, y, w

\* A document whose node i has another attribute
WithAttr(d, i, v) == [d EXCEPT ![i].attrs = Append(@, v)]
\* A document whose node i has another value
WithValue(d, i, v) == [d EXCEPT ![i].value = v]

\* DocSoFar, place by place
DocPlaces(t, m, a, off, d) ==
    /\ off \in {0, 1} /\ Offset(t, off)
    /\ d \in Seq(Node) /\ Len(d) = m + off /\ DOMAIN d = 1 .. m + off
    /\ \A k \in 1 .. m : k + off \in 1 .. m + off /\ d[k + off] = NodeSoFar(t, k, m, a, off)
    /\ off = 1 => d[1] = AboveRoot(t)

\* It says so.
LEMMA DocIs ==
    ASSUME NEW t, NEW m \in Nat, NEW a, NEW off, NEW d, DocSoFar(t, m, a, off, d)
    PROVE  DocPlaces(t, m, a, off, d)
<1>1. off \in {0, 1}
  BY Zenon DEF DocSoFar, Offset
<1>2. d \in Seq(Node) /\ Len(d) = m + off /\ Offset(t, off) /\ (off = 1 => d[1] = AboveRoot(t))
      /\ \A k \in 1 .. m : d[k + off] = NodeSoFar(t, k, m, a, off)
  BY Zenon DEF DocSoFar
<1>3. DOMAIN d = 1 .. m + off
  <2>1. DOMAIN d = 1 .. Len(d)
    BY <1>2
  <2> QED
    BY <1>2, <2>1
<1>4. \A k \in 1 .. m : k + off \in 1 .. m + off
  BY <1>1
<1> QED
  BY <1>1, <1>2, <1>3, <1>4 DEF DocPlaces

\* w is d with another node at place i.
Placed(d, w, i, x) ==
    DOMAIN w = DOMAIN d /\ w[i] = x /\ \A j \in DOMAIN d : j # i => w[j] = d[j]

\* An attribute changes the one node.
LEMMA AttrPlaced ==
    ASSUME NEW d, NEW i \in DOMAIN d, NEW v
    PROVE  Placed(d, WithAttr(d, i, v), i, MoreAttrs(d[i], v))
  BY DEF WithAttr, MoreAttrs, Placed

\* A value changes the one node.
LEMMA ValuePlaced ==
    ASSUME NEW d, NEW i \in DOMAIN d, NEW v
    PROVE  Placed(d, WithValue(d, i, v), i, Valued(d[i], v))
  BY DEF WithValue, Valued, Placed

\* An attribute is read.
LEMMA DocAttr ==
    ASSUME NEW t, IsTree(t), NEW m \in 1 .. Len(t), NEW a \in Nat, a + 1 \in 1 .. Len(t[m].attrs),
           NEW off, NEW d, DocSoFar(t, m, a, off, d),
           WithAttr(d, m + off, t[m].attrs[a + 1]) \in Seq(Node)
    PROVE  DocSoFar(t, m, a + 1, off, WithAttr(d, m + off, t[m].attrs[a + 1]))
<1> DEFINE v == t[m].attrs[a + 1]
           w == WithAttr(d, m + off, v)
<1>0. d \in Seq(Node) /\ Len(d) = m + off /\ DOMAIN d = 1 .. m + off /\ off \in {0, 1} /\ m \in Nat
  <2>1. m \in Nat
    BY TreeIs
  <2>2. DocPlaces(t, m, a, off, d)
    BY <2>1, DocIs
  <2> QED
    BY <2>1, <2>2 DEF DocPlaces
<1>1. \A k \in 1 .. m : k + off \in 1 .. m + off /\ d[k + off] = NodeSoFar(t, k, m, a, off)
  <2>1. DocPlaces(t, m, a, off, d)
    BY <1>0, DocIs
  <2> QED
    BY <2>1 DEF DocPlaces
<1>2. AttrsSoFar(t, m, m, a + 1) = Append(AttrsSoFar(t, m, m, a), v)
  <2>1. t[m].attrs \in Seq(Attr) /\ a < Len(t[m].attrs)
    BY AttrsAre
  <2> QED
    BY <2>1, AttrsGrow DEF AttrsSoFar
<1>3. DOMAIN w = DOMAIN d /\ w[m + off] = MoreAttrs(d[m + off], v)
      /\ \A j \in 1 .. m + off : j # m + off => w[j] = d[j]
  <2>1. m + off \in DOMAIN d
    BY <1>0
  <2>2. Placed(d, w, m + off, MoreAttrs(d[m + off], v))
    BY <2>1, AttrPlaced
  <2> HIDE DEF v, w
  <2> QED
    BY <1>0, <2>2 DEF Placed
<1>5. Len(w) = m + off
  <2>1. DOMAIN w = DOMAIN d
    BY <1>3
  <2>2. w \in Seq(Node)
    OBVIOUS
  <2> HIDE DEF w
  <2> QED
    BY <1>0, <2>1, <2>2
<1> HIDE DEF v, w
<1>6. ASSUME NEW k \in 1 .. m PROVE w[k + off] = NodeSoFar(t, k, m, a + 1, off)
  <2>1. CASE k = m
    <3>1. d[m + off] = NodeSoFar(t, m, m, a, off)
      BY <1>1
    <3>2. MoreAttrs(NodeSoFar(t, m, m, a, off), v) = NodeSoFar(t, m, m, a + 1, off)
      <4> DEFINE x == AttrsSoFar(t, m, m, a)
                 y == AttrsSoFar(t, m, m, a + 1)
                 q == t[m].parent + off
                 u == ValueSoFar(t, m, m)
      <4>1. y = Append(x, v)
        BY <1>2
      <4>2. NodeSoFar(t, m, m, a, off) = NodeOf(t[m].type, t[m].name, u, x, q)
            /\ NodeSoFar(t, m, m, a + 1, off) = NodeOf(t[m].type, t[m].name, u, y, q)
        BY Zenon DEF NodeSoFar
      <4> HIDE DEF x, y, q, u
      <4> QED
        BY <4>1, <4>2, AttrAdded
    <3> QED
      BY <1>3, <2>1, <3>1, <3>2
  <2>2. CASE k # m
    <3>1. k + off # m + off
      BY <1>0, <2>2
    <3>2. w[k + off] = d[k + off]
      BY <1>1, <1>3, <3>1
    <3>3. d[k + off] = NodeSoFar(t, k, m, a, off)
      BY <1>1
    <3>4. NodeSoFar(t, k, m, a + 1, off) = NodeSoFar(t, k, m, a, off)
      BY <2>2 DEF NodeSoFar, AttrsSoFar
    <3> QED
      BY <3>2, <3>3, <3>4
  <2> QED
    BY <2>1, <2>2
<1>7. off = 1 => w[1] = AboveRoot(t)
  <2>1. off = 1 => 1 # m + off /\ 1 \in 1 .. m + off
    BY <1>0
  <2> QED
    BY <1>3, <2>1 DEF DocSoFar
<1>8. w \in Seq(Node) /\ Offset(t, off)
  BY DEF DocSoFar, w, v
<1> QED
  BY <1>5, <1>6, <1>7, <1>8 DEF DocSoFar, w, v

\* The value of a node that was read is its own or that of its first text.
LEMMA ValueGrows ==
    ASSUME NEW t, IsTree(t), NEW m \in 1 .. Len(t), m + 1 \in 2 .. Len(t), NEW k \in 1 .. m
    PROVE  ValueSoFar(t, k, m + 1) =
              IF t[m + 1].type = "data" /\ t[m + 1].parent = k /\ ValueSoFar(t, k, m) = ""
              THEN t[m + 1].value ELSE ValueSoFar(t, k, m)
<1> DEFINE n == Len(t)
           T == Texts(t, k, m)
           U == Texts(t, k, m + 1)
           isText == t[m + 1].type = "data" /\ t[m + 1].parent = k
<1>0. n \in Nat /\ DOMAIN t = 1 .. n /\ k \in 1 .. n /\ m \in Nat /\ m + 1 \in 1 .. n
  BY TreeIs
<1>1. CASE t[k].value # ""
  BY <1>1 DEF ValueSoFar
<1>2. CASE t[k].value = ""
  <2>1. T \in SUBSET Nat /\ (\A j \in T : j <= m) /\ U \in SUBSET Nat
    <3>1. \A j \in Children(t, k) : j \in Nat
      BY <1>0 DEF Children
    <3>2. \A j \in T : j \in Children(t, k) /\ j <= m
      BY DEF Texts
    <3>3. \A j \in U : j \in Children(t, k)
      BY DEF Texts
    <3> HIDE DEF T, U
    <3> QED
      BY <3>1, <3>2, <3>3
  <2>2. ValueSoFar(t, k, m) = (IF T = {} THEN "" ELSE t[FirstOf(T)].value)
        /\ ValueSoFar(t, k, m + 1) = (IF U = {} THEN "" ELSE t[FirstOf(U)].value)
    BY <1>2 DEF ValueSoFar, TextSoFar
  <2>3. \A j \in T : t[j].value # ""
    BY DEF Texts
  <2>4. \A j : j \in U <=> j \in T \/ (j = m + 1 /\ isText /\ t[m + 1].value # "")
    <3> SUFFICES ASSUME NEW j
                 PROVE  j \in U <=> j \in T \/ (j = m + 1 /\ isText /\ t[m + 1].value # "")
      OBVIOUS
    <3>1. CASE j \in 1 .. n
      <4>1. j <= m + 1 <=> j <= m \/ j = m + 1
        BY <1>0, <3>1
      <4>2. j = m + 1 => ~(j <= m)
        BY <1>0
      <4> QED
        BY <1>0, <3>1, <4>1, <4>2 DEF Texts, Children
    <3>2. CASE j \notin 1 .. n
      BY <1>0, <3>2 DEF Texts, Children
    <3> QED
      BY <3>1, <3>2
  <2>5. CASE isText /\ t[m + 1].value # ""
    <3>1. m + 1 \in U
      BY <2>4, <2>5
    <3>2. FirstOf(U) \in U /\ \A j \in U : FirstOf(U) <= j
      BY <2>1, <3>1, FirstIs
    <3>3. CASE T = {}
      <4>1. FirstOf(U) = m + 1
        BY <2>4, <3>2, <3>3
      <4> QED
        BY <2>2, <2>5, <3>1, <3>3, <4>1
    <3>4. CASE T # {}
      <4>1. FirstOf(T) \in T /\ \A j \in T : FirstOf(T) <= j
        BY <2>1, <3>4, FirstIs
      <4> DEFINE x == FirstOf(T)
                 y == FirstOf(U)
      <4>2. x \in T /\ x \in U /\ x \in Nat /\ x <= m /\ y \in U /\ y \in Nat /\ y <= x
        BY <2>1, <2>4, <3>2, <4>1
      <4> HIDE DEF x, y
      <4>3. y # m + 1
        BY <1>0, <4>2
      <4>4. y \in T
        BY <2>4, <4>2, <4>3
      <4>5. x <= y
        BY <4>1, <4>4 DEF x
      <4>6. x = y
        BY <4>2, <4>5
      <4>7. t[x].value # ""
        BY <2>3, <4>2
      <4> QED
        BY <2>2, <3>1, <3>4, <4>6, <4>7 DEF x, y
    <3> QED
      BY <3>3, <3>4
  <2>6. CASE ~(isText /\ t[m + 1].value # "")
    <3>1. U = T
      BY <2>4, <2>6
    <3> QED
      BY <2>2, <2>6, <3>1
  <2> QED
    BY <2>5, <2>6
<1> QED
  BY <1>1, <1>2

\* The node read last has its own value.
LEMMA ValueOfNew ==
    ASSUME NEW t, IsTree(t), NEW m \in 1 .. Len(t)
    PROVE  ValueSoFar(t, m, m) = t[m].value
<1>1. Texts(t, m, m) = {}
  <2>1. Children(t, m) \subseteq m + 1 .. Len(t)
    BY LaterNodes
  <2>2. \A j \in m + 1 .. Len(t) : ~(j <= m)
    BY TreeIs
  <2> QED
    BY <2>1, <2>2 DEF Texts
<1> QED
  BY <1>1 DEF ValueSoFar, TextSoFar

\* A value is given to a node of a document.
LEMMA ValueKept ==
    ASSUME NEW d \in Seq(Node), NEW i \in 1 .. Len(d), NEW v \in Value
    PROVE  WithValue(d, i, v) \in Seq(Node) /\ Len(WithValue(d, i, v)) = Len(d)
<1> DEFINE x == Valued(d[i], v)
<1>1. d[i] \in Node
  BY ElementOfSeq
<1>2. x \in Node
  BY <1>1 DEF Valued, Node
<1>3. WithValue(d, i, v) = [d EXCEPT ![i] = x]
  BY DEF WithValue, Valued
<1> HIDE DEF x
<1> QED
  BY <1>2, <1>3, ExceptSeq

\* The document when another node has been read
WithNode(d, c, p) ==
    Append(IF c.type = "data" /\ d[p].value = "" THEN WithValue(d, p, c.value) ELSE d,
           NodeOf(c.type, c.name, c.value, << >>, p))

\* A node is read, and its text given to a parent that has none.
LEMMA DocNode ==
    ASSUME NEW t, IsTree(t), NEW m \in 1 .. Len(t), m + 1 \in 2 .. Len(t),
           NEW off, NEW d, DocSoFar(t, m, Len(t[m].attrs), off, d)
    PROVE  DocSoFar(t, m + 1, 0, off, WithNode(d, Start(t, m + 1), t[m + 1].parent + off))
<1> DEFINE n == Len(t)
           par == t[m + 1].parent
           p == par + off
           c == Start(t, m + 1)
           a == Len(t[m].attrs)
           new == NodeOf(c.type, c.name, c.value, << >>, p)
           w == IF c.type = "data" /\ d[p].value = "" THEN WithValue(d, p, c.value) ELSE d
           e == Append(w, new)
<1>0. n \in Nat /\ m \in Nat /\ m + 1 \in 1 .. n /\ m \in 1 .. n /\ 1 \in 1 .. n
  BY TreeIs
<1>1. par \in 1 .. m
  <2>1. t[m + 1].parent \in 1 .. (m + 1) - 1
    BY TreeIs
  <2> QED
    BY <1>0, <2>1
<1>2. DocPlaces(t, m, a, off, d)
  BY <1>0, DocIs
<1>3. off \in {0, 1} /\ Offset(t, off) /\ d \in Seq(Node) /\ Len(d) = m + off
      /\ DOMAIN d = 1 .. m + off /\ (off = 1 => d[1] = AboveRoot(t))
      /\ \A k \in 1 .. m : k + off \in 1 .. m + off /\ d[k + off] = NodeSoFar(t, k, m, a, off)
  BY <1>2 DEF DocPlaces
<1>4. p \in 1 .. m + off /\ (off = 1 => p # 1) /\ p \in DOMAIN d
  BY <1>1, <1>3
<1>5. c.type = t[m + 1].type /\ c.name = t[m + 1].name /\ c.value = t[m + 1].value
  BY DEF Start
<1>6. c.type \in NodeType /\ c.name \in Name /\ c.value \in Value
  BY <1>0, <1>5, NodeIs
<1>7. new \in Node
  <2>1. << >> \in Seq(Attr) /\ p \in Nat
    BY <1>1, <1>3
  <2> QED
    BY <1>6, <2>1 DEF Node, NodeOf
<1>8. w \in Seq(Node) /\ Len(w) = m + off
  <2>1. WithValue(d, p, c.value) \in Seq(Node) /\ Len(WithValue(d, p, c.value)) = Len(d)
    BY <1>3, <1>4, <1>6, ValueKept
  <2> QED
    BY <1>3, <2>1
<1>9. \A j \in 1 .. m + off : j # p => w[j] = d[j]
  <2>1. Placed(d, WithValue(d, p, c.value), p, Valued(d[p], c.value))
    BY <1>4, ValuePlaced
  <2> QED
    BY <1>3, <2>1 DEF Placed
<1>10. w[p] = IF c.type = "data" /\ d[p].value = "" THEN Valued(d[p], c.value) ELSE d[p]
  <2>1. Placed(d, WithValue(d, p, c.value), p, Valued(d[p], c.value))
    BY <1>4, ValuePlaced
  <2> QED
    BY <2>1 DEF Placed
<1> HIDE DEF w
<1>11. ASSUME NEW k \in 1 .. m PROVE w[k + off] = NodeSoFar(t, k, m + 1, 0, off)
  <2> DEFINE u == ValueSoFar(t, k, m)
             v == ValueSoFar(t, k, m + 1)
             q == t[k].parent + off
  <2>1. k \in 1 .. n /\ k # m + 1
    BY <1>0
  <2>2. AttrsSoFar(t, k, m, a) = t[k].attrs /\ AttrsSoFar(t, k, m + 1, 0) = t[k].attrs
    <3>1. SubSeq(t[m].attrs, 1, a) = t[m].attrs
      BY AttrsAre, SubSeqFull
    <3> QED
      BY <2>1, <3>1 DEF AttrsSoFar
  <2>3. d[k + off] = NodeOf(t[k].type, t[k].name, u, t[k].attrs, q)
    BY <1>3, <2>2 DEF NodeSoFar
  <2>4. NodeSoFar(t, k, m + 1, 0, off) = NodeOf(t[k].type, t[k].name, v, t[k].attrs, q)
    BY <2>2 DEF NodeSoFar
  <2>5. v = IF c.type = "data" /\ par = k /\ u = "" THEN c.value ELSE u
    BY <1>5, ValueGrows
  <2>6. d[k + off].value = u
    BY <2>3 DEF NodeOf
  <2> HIDE DEF u, v, q, c, new
  <2>7. CASE k = par
    <3>1. k + off = p
      BY <2>7
    <3>2. Valued(d[p], c.value) = NodeOf(t[k].type, t[k].name, c.value, t[k].attrs, q)
      BY <2>3, <3>1, ValueGiven
    <3> HIDE DEF p, par
    <3> QED
      BY <1>10, <2>3, <2>4, <2>5, <2>6, <2>7, <3>1, <3>2
  <2>8. CASE k # par
    <3>1. k + off # p /\ k + off \in 1 .. m + off
      BY <1>1, <1>3, <2>8
    <3>2. w[k + off] = d[k + off]
      BY <1>9, <3>1
    <3> QED
      BY <2>3, <2>4, <2>5, <2>8, <3>2
  <2> QED
    BY <2>7, <2>8
<1>12. new = NodeSoFar(t, m + 1, m + 1, 0, off)
  <2>1. ValueSoFar(t, m + 1, m + 1) = c.value
    BY <1>0, <1>5, ValueOfNew
  <2>2. AttrsSoFar(t, m + 1, m + 1, 0) = << >>
    <3>1. t[m + 1].attrs \in Seq(Attr)
      BY <1>0, AttrsAre
    <3>2. SubSeq(t[m + 1].attrs, 1, 0) = << >>
      BY <3>1, SubSeqEmpty
    <3> QED
      BY <3>2 DEF AttrsSoFar
  <2> QED
    BY <1>5, <2>1, <2>2 DEF NodeSoFar
<1> HIDE DEF new, c
<1>13. e \in Seq(Node) /\ Len(e) = (m + off) + 1 /\ e[(m + off) + 1] = new
       /\ \A j \in 1 .. m + off : e[j] = w[j]
  BY <1>7, <1>8, AppendProperties
<1> HIDE DEF e
<1>14. (m + off) + 1 = (m + 1) + off
  BY <1>0, <1>3
<1>15. ASSUME NEW k \in 1 .. m + 1 PROVE e[k + off] = NodeSoFar(t, k, m + 1, 0, off)
  <2>1. CASE k = m + 1
    BY <1>12, <1>13, <1>14, <2>1
  <2>2. CASE k # m + 1
    <3>1. k \in 1 .. m
      BY <1>0, <2>2
    <3>2. k + off \in 1 .. m + off
      BY <1>3, <3>1
    <3> QED
      BY <1>11, <1>13, <3>1, <3>2
  <2> QED
    BY <2>1, <2>2
<1>16. off = 1 => e[1] = AboveRoot(t)
  <2>1. 1 \in 1 .. m + off
    BY <1>0, <1>3
  <2> QED
    BY <1>3, <1>4, <1>9, <1>13, <2>1
<1>17. DocSoFar(t, m + 1, 0, off, e)
  BY <1>3, <1>13, <1>14, <1>15, <1>16 DEF DocSoFar
<1> QED
  BY <1>17 DEF e, w, new, c, WithNode

\* What the reader begins with.
LEMMA RootParentIs ==
    /\ RootParent = NodeOf("document", "", "", << >>, 0) /\ RootParent \in Node
    /\ <<RootParent>> \in Seq(Node) /\ Len(<<RootParent>>) = 1 /\ <<RootParent>>[1] = RootParent
<1>1. RootParent \in Node
  <2>1. << >> \in Seq(Attr)
    OBVIOUS
  <2> QED
    BY <2>1, EmptyAssumption DEF RootParent, Node, NodeType, Null
<1>2. RootParent = NodeOf("document", "", "", << >>, 0)
  BY DEF RootParent, NodeOf, Null
<1>3. <<RootParent>> \in Seq(Node) /\ Len(<<RootParent>>) = 1 /\ <<RootParent>>[1] = RootParent
  BY <1>1
<1> QED
  BY <1>1, <1>2, <1>3

\* A node with another name and value
Renamed(x, u, v) == [x EXCEPT !.name = u, !.value = v]

\* They replace the name and the value.
LEMMA NamedAndValued ==
    ASSUME NEW type, NEW name, NEW value, NEW attrs, NEW parent, NEW u, NEW v
    PROVE  Renamed(NodeOf(type, name, value, attrs, parent), u, v)
              = NodeOf(type, u, v, attrs, parent)
<1> DEFINE x == NodeOf(type, name, value, attrs, parent)
           y == NodeOf(type, u, value, attrs, parent)
<1>1. [x EXCEPT !.name = u] = y
  BY DEF NodeOf
<1>2. [y EXCEPT !.value = v] = NodeOf(type, u, v, attrs, parent)
  BY DEF NodeOf
<1> HIDE DEF x, y
<1>3. [x EXCEPT !.name = u, !.value = v] = [[x EXCEPT !.name = u] EXCEPT !.value = v]
  BY SMT
<1> QED
  BY <1>1, <1>2, <1>3 DEF x, Renamed

\* The first node of a document, before any of its attributes
FirstSoFar(t, off) ==
    NodeOf(t[1].type, t[1].name, t[1].value, << >>, off)

\* What the reader has when it read the first node.
LEMMA FirstIsRead ==
    ASSUME NEW t, IsTree(t), NEW off \in {0, 1}
    PROVE  NodeSoFar(t, 1, 1, 0, off) = FirstSoFar(t, off)
<1>1. 1 \in 1 .. Len(t) /\ t[1].parent = 0 /\ 0 + off = off
  BY TreeIs
<1>2. ValueSoFar(t, 1, 1) = t[1].value
  BY <1>1, ValueOfNew
<1>3. AttrsSoFar(t, 1, 1, 0) = << >>
  <2>1. t[1].attrs \in Seq(Attr)
    BY <1>1, AttrsAre
  <2>2. SubSeq(t[1].attrs, 1, 0) = << >>
    BY <2>1, SubSeqEmpty
  <2> QED
    BY <2>2 DEF AttrsSoFar
<1> QED
  BY <1>1, <1>2, <1>3 DEF NodeSoFar, FirstSoFar

\* A document begins with a document node, which the root_parent becomes.
LEMMA DocBeginsAsDocument ==
    ASSUME NEW t, IsTree(t), t[1].type = "document", NEW w,
           w = [<<RootParent>> EXCEPT ![1].name = t[1].name, ![1].value = t[1].value]
    PROVE  DocSoFar(t, 1, 0, 0, w)
<1> DEFINE x == NodeOf("document", t[1].name, t[1].value, << >>, 0)
<1>1. 1 \in 1 .. Len(t)
  BY TreeIs
<1>2. w = <<x>>
  <2>1. w = <<[RootParent EXCEPT !.name = t[1].name, !.value = t[1].value]>>
    OBVIOUS
  <2>2. [RootParent EXCEPT !.name = t[1].name, !.value = t[1].value] = x
    <3>2. Renamed(NodeOf("document", "", "", << >>, 0), t[1].name, t[1].value) = x
      <4> DEFINE ty == "document"
                 em == ""
                 no == << >>
                 u == t[1].name
                 v == t[1].value
                 z == 0
      <4> HIDE DEF ty, em, no, u, v, z
      <4>1. Renamed(NodeOf(ty, em, em, no, z), u, v) = NodeOf(ty, u, v, no, z)
        BY NamedAndValued
      <4> QED
        BY <4>1 DEF ty, em, no, u, v, z
    <3>3. RootParent = NodeOf("document", "", "", << >>, 0)
      BY RootParentIs
    <3>1. Renamed(RootParent, t[1].name, t[1].value) = x
      BY <3>2, <3>3
    <3> HIDE DEF x
    <3> QED
      BY <3>1 DEF Renamed
  <2> QED
    BY <2>1, <2>2
<1>3. x \in Node
  <2>1. << >> \in Seq(Attr) /\ "document" \in NodeType
    BY DEF NodeType
  <2> QED
    BY <1>1, <2>1, NodeIs DEF Node, NodeOf
<1>4. x = FirstSoFar(t, 0)
  BY DEF FirstSoFar
<1> HIDE DEF x
<1>5. w \in Seq(Node) /\ Len(w) = 1 + 0 /\ w[1] = x
  <2>1. <<x>> \in Seq(Node) /\ Len(<<x>>) = 1 + 0 /\ <<x>>[1] = x
    BY <1>3
  <2> QED
    BY <1>2, <2>1
<1>6. \A k \in 1 .. 1 : w[k + 0] = NodeSoFar(t, k, 1, 0, 0)
  <2>1. NodeSoFar(t, 1, 1, 0, 0) = FirstSoFar(t, 0)
    BY FirstIsRead
  <2> QED
    BY <1>4, <1>5, <2>1
<1>7. Offset(t, 0)
  BY DEF Offset
<1> QED
  BY <1>5, <1>6, <1>7 DEF DocSoFar

\* Text without a name
TextHasNoName(t) == t[1].type = "data" => t[1].name = ""

\* A document begins with another node, to which the root_parent is the parent.
LEMMA DocBeginsAsNode ==
    ASSUME NEW t, IsTree(t), t[1].type # "document", TextHasNoName(t)
    PROVE  DocSoFar(t, 1, 0, 1, WithNode(<<RootParent>>, Start(t, 1), 1))
<1> DEFINE c == Start(t, 1)
           d == <<RootParent>>
           new == NodeOf(c.type, c.name, c.value, << >>, 1)
           w == IF c.type = "data" /\ d[1].value = "" THEN WithValue(d, 1, c.value) ELSE d
           e == Append(w, new)
<1>1. 1 \in 1 .. Len(t)
  BY TreeIs
<1>2. c.type = t[1].type /\ c.name = t[1].name /\ c.value = t[1].value
  BY DEF Start
<1>3. c.type \in NodeType /\ c.name \in Name /\ c.value \in Value
  BY <1>1, <1>2, NodeIs
<1>4. new \in Node /\ new = FirstSoFar(t, 1)
  <2>1. << >> \in Seq(Attr)
    OBVIOUS
  <2> QED
    BY <1>2, <1>3, <2>1 DEF Node, NodeOf, FirstSoFar
<1>5. w \in Seq(Node) /\ Len(w) = 1 /\ w[1] = AboveRoot(t)
  <2> DEFINE v == c.value
  <2>1. d \in Seq(Node) /\ Len(d) = 1 /\ d[1] = RootParent /\ DOMAIN d = 1 .. 1 /\ v \in Value
    <3>1. d \in Seq(Node) /\ Len(d) = 1 /\ d[1] = RootParent
      BY RootParentIs
    <3>2. v \in Value
      BY <1>3
    <3> HIDE DEF d
    <3>3. DOMAIN d = 1 .. Len(d)
      BY <3>1
    <3> QED
      BY <3>1, <3>2, <3>3
  <2>2. d[1].value = ""
    BY RootParentIs DEF NodeOf
  <2> HIDE DEF d, v
  <2>3. 1 \in 1 .. Len(d) /\ 1 \in DOMAIN d
    BY <2>1
  <2>4. WithValue(d, 1, v) \in Seq(Node) /\ Len(WithValue(d, 1, v)) = Len(d)
    BY <2>1, <2>3, ValueKept
  <2>5. Placed(d, WithValue(d, 1, v), 1, Valued(d[1], v))
    BY <2>3, ValuePlaced
  <2>6. WithValue(d, 1, v)[1] = [RootParent EXCEPT !.value = v]
    BY <2>1, <2>5 DEF Placed, Valued
  <2>7. w = IF t[1].type = "data" THEN WithValue(d, 1, v) ELSE d
    BY <1>2, <2>2 DEF v
  <2>8. v = t[1].value
    BY <1>2 DEF v
  <2> HIDE DEF w
  <2> QED
    BY <2>1, <2>4, <2>6, <2>7, <2>8 DEF AboveRoot
<1> HIDE DEF w, new, c
<1>6. e \in Seq(Node) /\ Len(e) = 1 + 1 /\ e[2] = new /\ e[1] = AboveRoot(t)
  <2>1. e \in Seq(Node) /\ Len(e) = Len(w) + 1 /\ e[Len(w) + 1] = new
        /\ \A j \in 1 .. Len(w) : e[j] = w[j]
    <3>1. w \in Seq(Node) /\ new \in Node
      BY <1>4, <1>5
    <3> QED
      BY <3>1, AppendProperties
  <2> HIDE DEF e
  <2>2. Len(w) + 1 = 2 /\ 1 \in 1 .. Len(w) /\ 1 + 1 = 2
    BY <1>5
  <2> QED
    BY <1>5, <2>1, <2>2
<1> HIDE DEF e
<1>7. \A k \in 1 .. 1 : e[k + 1] = NodeSoFar(t, k, 1, 0, 1)
  <2>1. NodeSoFar(t, 1, 1, 0, 1) = FirstSoFar(t, 1)
    BY FirstIsRead
  <2> QED
    BY <1>4, <1>6, <2>1
<1>8. Offset(t, 1)
  BY DEF Offset, TextHasNoName
<1>9. DocSoFar(t, 1, 0, 1, e)
  BY <1>6, <1>7, <1>8 DEF DocSoFar
<1> QED
  BY <1>9 DEF e, w, new, c, WithNode

\* A node of a document that was read to its end
LEMMA NodeRead ==
    ASSUME NEW t, IsTree(t), NEW k \in 1 .. Len(t), NEW off \in {0, 1}
    PROVE  NodeSoFar(t, k, Len(t), Len(t[Len(t)].attrs), off)
              = NodeOf(t[k].type, t[k].name,
                       IF t[k].value # "" THEN t[k].value ELSE TextOf(t, k),
                       t[k].attrs, t[k].parent + off)
<1> DEFINE n == Len(t)
<1>0. n \in Nat /\ n \in 1 .. n /\ DOMAIN t = 1 .. n
  BY TreeIs
<1>1. AttrsSoFar(t, k, n, Len(t[n].attrs)) = t[k].attrs
  <2>1. SubSeq(t[n].attrs, 1, Len(t[n].attrs)) = t[n].attrs
    BY <1>0, AttrsAre, SubSeqFull
  <2> QED
    BY <2>1 DEF AttrsSoFar
<1>2. Texts(t, k, n) = {j \in Children(t, k) : t[j].type = "data" /\ t[j].value # ""}
  <2>1. \A j \in Children(t, k) : j <= n
    BY <1>0 DEF Children
  <2> QED
    BY <2>1 DEF Texts
<1>3. TextSoFar(t, k, n) = TextOf(t, k)
  BY <1>2 DEF TextSoFar, TextOf
<1> QED
  BY <1>1, <1>3 DEF NodeSoFar, ValueSoFar

\* What AsRead() has for a node.
LEMMA TextRead ==
    ASSUME NEW t, IsTree(t), NEW k \in 1 .. Len(t)
    PROVE  WithText(t)[k]
              = NodeOf(t[k].type, t[k].name,
                       IF t[k].value # "" THEN t[k].value ELSE TextOf(t, k),
                       t[k].attrs, t[k].parent)
<1>1. k \in DOMAIN t
  BY TreeIs
<1>2. t[k] = NodeOf(t[k].type, t[k].name, t[k].value, t[k].attrs, t[k].parent)
  BY NodeIs
<1>3. WithText(t)[k] = IF t[k].value # "" THEN t[k] ELSE Valued(t[k], TextOf(t, k))
  BY <1>1 DEF WithText, Valued
<1>4. Valued(t[k], TextOf(t, k))
         = NodeOf(t[k].type, t[k].name, TextOf(t, k), t[k].attrs, t[k].parent)
  BY <1>2, ValueGiven
<1> QED
  BY <1>2, <1>3, <1>4

\* Below a root_parent, text without a name is no event.
FirstUnnamed(t) == t[1].name = ""
\* d is t below another node, but for the nodes' values.
Below(t, d) ==
    /\ d \in Seq(Node) /\ Len(d) = Len(t) + 1 /\ d[1].parent = 0
    /\ \A k \in 1 .. Len(t) : d[k + 1].parent = t[k].parent + 1
    /\ \A k \in 1 .. Len(t) : d[k + 1].name = t[k].name

\* The only node at the top is the text, whose name is not that of an event.
LEMMA TextIsNoEvent ==
    ASSUME NEW t, IsTree(t), FirstUnnamed(t), NEW d, Below(t, d)
    PROVE  ~IsEvent(d)
<1>0. Len(t) \in Nat /\ DOMAIN d = 1 .. Len(t) + 1 /\ t[1].parent = 0
      /\ \A k \in 2 .. Len(t) : t[k].parent \in 1 .. k - 1
  <2>1. d \in Seq(Node) /\ Len(d) = Len(t) + 1
    BY DEF Below
  <2>2. DOMAIN d = 1 .. Len(t) + 1
    BY <2>1
  <2> QED
    BY <2>2, TreeIs
<1>1. ASSUME NEW i \in Children(d, 1), d[i].name = EventName PROVE FALSE
  <2>1. i \in 1 .. Len(t) + 1 /\ d[i].parent = 1
    BY <1>0 DEF Children
  <2> DEFINE k == i - 1
  <2>2. k \in 1 .. Len(t) /\ k + 1 = i
    <3>1. i # 1
      BY <2>1 DEF Below
    <3> QED
      BY <1>0, <2>1, <3>1
  <2>3. t[k].parent + 1 = 1
    <3>1. d[k + 1].parent = t[k].parent + 1
      BY <2>2 DEF Below
    <3> QED
      BY <2>1, <2>2, <3>1
  <2>4. k = 1
    <3> SUFFICES ASSUME k # 1 PROVE FALSE
      OBVIOUS
    <3>1. k \in 2 .. Len(t)
      BY <2>2
    <3> HIDE DEF k
    <3>2. t[k].parent \in 1 .. k - 1
      BY <1>0, <3>1
    <3> QED
      BY <2>3, <3>1, <3>2
  <2>5. d[i].name = t[1].name
    <3>1. d[k + 1].name = t[k].name
      BY <2>2, Zenon DEF Below
    <3> QED
      BY <2>2, <2>4, <3>1
  <2> QED
    BY <1>1, <2>5, EventAssumption, Zenon DEF FirstUnnamed
<1>2. {i \in Children(d, 1) : d[i].name = EventName} = {}
  BY <1>1
<1> QED
  BY <1>2 DEF IsEvent

\* A document that was read to its end is given to the client as it was raised, when it is
\* an event.
DocGiven(t, d) == IF IsEvent(AsRead(t)) THEN IsEvent(d) /\ d = AsRead(t) ELSE ~IsEvent(d)

\* So it is, when every node was read with its attributes.
LEMMA DocEnds ==
    ASSUME NEW t, IsTree(t), NEW off, NEW d, DocSoFar(t, Len(t), Len(t[Len(t)].attrs), off, d)
    PROVE  DocGiven(t, d)
<1> DEFINE n == Len(t)
           a == Len(t[n].attrs)
           Given(k) == IF t[k].value # "" THEN t[k].value ELSE TextOf(t, k)
<1>0. n \in Nat /\ DOMAIN t = 1 .. n /\ 1 \in 1 .. n
  BY TreeIs
<1>1. DocPlaces(t, n, a, off, d)
  BY <1>0, DocIs
<1>2. off \in {0, 1} /\ Offset(t, off) /\ d \in Seq(Node) /\ Len(d) = n + off
      /\ DOMAIN d = 1 .. n + off /\ (off = 1 => d[1] = AboveRoot(t))
      /\ \A k \in 1 .. n : k + off \in 1 .. n + off /\ d[k + off] = NodeSoFar(t, k, n, a, off)
  BY <1>1 DEF DocPlaces
<1>3. \A k \in 1 .. n :
         d[k + off] = NodeOf(t[k].type, t[k].name, Given(k), t[k].attrs, t[k].parent + off)
  BY <1>2, NodeRead
<1>4. \A k \in 1 .. n :
         WithText(t)[k] = NodeOf(t[k].type, t[k].name, Given(k), t[k].attrs, t[k].parent)
  BY TextRead
<1>5. \A k \in 1 .. n : t[k].parent \in Nat
  BY NodeIs
<1> HIDE DEF Given
<1>6. CASE t[1].type = "document"
  <2>1. off = 0
    BY <1>2, <1>6 DEF Offset
  <2>2. AsRead(t) = WithText(t)
    BY <1>6 DEF AsRead
  <2>3. \A k \in 1 .. n : d[k] = WithText(t)[k]
    <3> SUFFICES ASSUME NEW k \in 1 .. n PROVE d[k] = WithText(t)[k]
      OBVIOUS
    <3>1. k + off = k /\ t[k].parent + off = t[k].parent
      BY <1>5, <2>1
    <3> QED
      BY <1>3, <1>4, <3>1
  <2>4. DOMAIN WithText(t) = 1 .. n /\ WithText(t) = [k \in 1 .. n |-> WithText(t)[k]]
    BY <1>0 DEF WithText
  <2>5. DOMAIN d = 1 .. n
    BY <1>2, <2>1
  <2>6. d = [k \in 1 .. n |-> d[k]]
    BY <1>2, <2>5
  <2>7. d = AsRead(t)
    BY <2>2, <2>3, <2>4, <2>6
  <2> QED
    BY <2>7 DEF DocGiven
<1>7. CASE t[1].type # "document"
  <2>1. off = 1
    BY <1>2, <1>7 DEF Offset
  <2> DEFINE q == [i \in DOMAIN t |-> [WithText(t)[i] EXCEPT !.parent = @ + 1]]
             r == <<RootParent>> \o q
  <2>2. AsRead(t) = r
    BY <1>7 DEF AsRead
  <2>3. \A k \in 1 .. n : q[k] = d[k + 1] /\ d[k + 1] \in Node
    <3> SUFFICES ASSUME NEW k \in 1 .. n PROVE q[k] = d[k + 1] /\ d[k + 1] \in Node
      OBVIOUS
    <3>1. q[k] = [NodeOf(t[k].type, t[k].name, Given(k), t[k].attrs, t[k].parent)
                     EXCEPT !.parent = @ + 1]
      BY <1>0, <1>4
    <3>2. q[k] = NodeOf(t[k].type, t[k].name, Given(k), t[k].attrs, t[k].parent + 1)
      BY <3>1 DEF NodeOf
    <3>3. d[k + 1] = NodeOf(t[k].type, t[k].name, Given(k), t[k].attrs, t[k].parent + 1)
      BY <1>3, <2>1
    <3>4. k + 1 \in 1 .. Len(d)
      BY <1>2, <2>1
    <3>5. d[k + 1] \in Node
      BY <1>2, <3>4, ElementOfSeq
    <3> QED
      BY <3>2, <3>3, <3>5
  <2>4. q \in Seq(Node) /\ Len(q) = n
    <3>1. q = [k \in 1 .. n |-> q[k]]
      BY <1>0
    <3> HIDE DEF q
    <3>2. \A k \in 1 .. n : q[k] \in Node
      BY <2>3
    <3> QED
      BY <1>0, <3>1, <3>2, IsASeq
  <2> HIDE DEF q
  <2>5. r \in Seq(Node) /\ Len(r) = 1 + n /\ r[1] = RootParent
        /\ \A j \in 2 .. 1 + n : r[j] = q[j - 1]
    <3>1. <<RootParent>> \in Seq(Node) /\ Len(<<RootParent>>) = 1 /\ <<RootParent>>[1] = RootParent
      BY RootParentIs
    <3> QED
      BY <1>0, <2>4, <3>1, ConcatProperties
  <2> HIDE DEF r
  <2>6. \A k \in 1 .. n : r[k + 1] = d[k + 1]
    <3> SUFFICES ASSUME NEW k \in 1 .. n PROVE r[k + 1] = d[k + 1]
      OBVIOUS
    <3>1. k + 1 \in 2 .. 1 + n /\ (k + 1) - 1 = k
      BY <1>0
    <3> QED
      BY <2>3, <2>5, <3>1
  <2>7. Len(d) = n + 1 /\ Len(r) = n + 1
    BY <1>0, <1>2, <2>1, <2>5
  <2>8. CASE t[1].type = "data"
    <3>1. FirstUnnamed(t)
      BY <1>2, <2>8 DEF Offset, FirstUnnamed
    <3>2. d[1].parent = 0 /\ r[1].parent = 0
      <4>1. RootParent.parent = 0 /\ [RootParent EXCEPT !.value = t[1].value].parent = 0
        BY RootParentIs DEF NodeOf
      <4>2. d[1] = [RootParent EXCEPT !.value = t[1].value] /\ r[1] = RootParent
        BY <1>2, <2>1, <2>5, <2>8 DEF AboveRoot
      <4> QED
        BY <4>1, <4>2
    <3>3. ASSUME NEW k \in 1 .. n
          PROVE  d[k + 1].parent = t[k].parent + 1 /\ d[k + 1].name = t[k].name
      <4>1. d[k + 1] = NodeOf(t[k].type, t[k].name, Given(k), t[k].attrs, t[k].parent + 1)
        BY <1>3, <2>1
      <4>2. d[k + 1].parent = t[k].parent + 1
        BY <4>1 DEF NodeOf
      <4>3. d[k + 1].name = t[k].name
        BY <4>1 DEF NodeOf
      <4> QED
        BY <4>2, <4>3
    <3>4. ~IsEvent(d)
      <4>1. Below(t, d)
        BY <1>2, <2>7, <3>2, <3>3 DEF Below
      <4> QED
        BY <3>1, <4>1, TextIsNoEvent
    <3>5. ~IsEvent(r)
      <4>1. Below(t, r)
        BY <2>5, <2>6, <2>7, <3>2, <3>3 DEF Below
      <4> QED
        BY <3>1, <4>1, TextIsNoEvent
    <3> QED
      BY <2>2, <3>4, <3>5 DEF DocGiven
  <2>9. CASE t[1].type # "data"
    <3>1. d[1] = r[1]
      BY <1>2, <2>1, <2>5, <2>9 DEF AboveRoot
    <3>2. ASSUME NEW j \in 1 .. n + 1 PROVE d[j] = r[j]
      <4>1. j = 1 \/ (j - 1 \in 1 .. n /\ (j - 1) + 1 = j)
        BY <1>0
      <4> QED
        BY <2>6, <3>1, <4>1
    <3>3. d = r
      BY <1>2, <2>5, <2>7, <3>2, SeqEqual
    <3> QED
      BY <2>2, <3>3 DEF DocGiven
  <2> QED
    BY <2>8, <2>9
<1> QED
  BY <1>6, <1>7

-----------------------------------------------------------------------------
(* Sequences. *)

\* The first n elements of a sequence and those after them are sequences of
\* the same elements.
LEMMA CutSeq ==
    ASSUME NEW S, NEW s \in Seq(S), NEW n \in 0 .. Len(s)
    PROVE  /\ SubSeq(s, 1, n) \in Seq(S)
           /\ Len(SubSeq(s, 1, n)) = n
           /\ SubSeq(s, n + 1, Len(s)) \in Seq(S)
PROOF
<1>1. Len(s) \in Nat /\ \A i \in 1 .. Len(s) : s[i] \in S
  BY ElementOfSeq, LenProperties
<1>2. SubSeq(s, 1, n) = [i \in 1 .. n |-> s[i]]
  BY <1>1
<1>3. SubSeq(s, 1, n) \in Seq(S)
  BY <1>1, <1>2, IsASeq
<1>4. Len(SubSeq(s, 1, n)) = n
  BY <1>2, <1>1, LenProperties
<1>5. SubSeq(s, n + 1, Len(s)) \in Seq(S)
  BY <1>1, SubSeqProperties
<1> QED
  BY <1>3, <1>4, <1>5

-----------------------------------------------------------------------------
\* A connection just opened satisfies the invariant.
LEMMA OpenInv == Init => ConnectionInv
PROOF
<1> SUFFICES ASSUME Init PROVE ConnectionInv
  OBVIOUS
<1>1. StreamsOK
  BY BufferAssumption DEF Init, StreamsOK
<1>2. DocOK
  BY DEF Init, DocOK, Null
<1>3. HistoryOK
  <2>1. << >> \in Seq(Event) /\ << >> \in Seq(Seq(Node))
    BY EmptySeq
  <2> QED
    BY <2>1 DEF Init, HistoryOK
<1>4. PlaceOK
  BY DEF Init, PlaceOK
<1>5. ReadIsTree
  BY DEF Init, ReadIsTree
<1> QED
  BY <1>1, <1>2, <1>3, <1>4, <1>5 DEF ConnectionInv

-----------------------------------------------------------------------------
(* The reader. *)

\* A document just begun is a tree, of the root_parent alone.
LEMMA BeginReadInv == BeginRead => DocOK' /\ ReadIsTree' /\ doc' # << >> /\ node' <= Len(doc')
PROOF
<1> SUFFICES ASSUME BeginRead
             PROVE  DocOK' /\ ReadIsTree' /\ doc' # << >> /\ node' <= Len(doc')
  OBVIOUS
<1>1. RootParent \in Node
  <2>1. << >> \in Seq(Attr)
    OBVIOUS
  <2> QED
    BY <2>1, EmptyAssumption DEF RootParent, Node, NodeType, Null
<1>2. doc' = <<RootParent>> /\ node' = 1 /\ root' = 0 /\ fresh' = TRUE
  BY DEF BeginRead, Null
<1>3. doc' \in Seq(Node) /\ Len(doc') = 1 /\ doc' # << >>
  BY <1>1, <1>2
<1>4. DOMAIN doc' = {1} /\ doc'[1].parent = Null
  <2>1. DOMAIN doc' = 1 .. 1
    BY <1>3
  <2>2. doc'[1] = RootParent
    BY <1>2
  <2>3. RootParent.parent = Null
    BY DEF RootParent
  <2> QED
    BY <2>1, <2>2, <2>3
<1>5. ReadIsTree'
  BY <1>4 DEF ReadIsTree, Null
<1>6. DocOK'
  BY <1>2, <1>3 DEF DocOK
<1>7. node' <= Len(doc')
  BY <1>2, <1>3
<1> QED
  BY <1>3, <1>5, <1>6, <1>7

\* In a tree the parent of a node is a node before it.
LEMMA ParentPlace ==
    ASSUME DocOK, ReadIsTree, node # Null, node <= Len(doc)
    PROVE  /\ node \in DOMAIN doc
           /\ Parent \in Nat /\ Parent < node
PROOF
<1>1. node \in 1 .. Len(doc) /\ DOMAIN doc = 1 .. Len(doc)
  BY DEF DocOK, Null
<1>2. doc[node].parent \in 0 .. node - 1
  BY <1>1 DEF ReadIsTree, Null
<1> QED
  BY <1>1, <1>2 DEF Parent, DocOK

\* A control that is taken keeps the document a tree and the reader within it.
LEMMA ReadControlInv ==
    ASSUME DocOK, ReadIsTree, doc # << >>, node <= Len(doc), node # Null,
           NEW c \in Control, ReadControl(c)
    PROVE  DocOK' /\ ReadIsTree' /\ doc' # << >> /\ node' <= Len(doc')
PROOF
<1> DEFINE Goal == DocOK' /\ ReadIsTree' /\ doc' # << >> /\ node' <= Len(doc')
<1>0. /\ node \in 1 .. Len(doc) /\ Parent \in Nat /\ Parent < node
      /\ Len(doc) \in Nat /\ DOMAIN doc = 1 .. Len(doc)
      /\ \A i \in 1 .. Len(doc) : doc[i] \in Node
  BY ParentPlace DEF DocOK, Null
<1>a. /\ c.type \in NodeType /\ c.name \in Name /\ c.value \in Value
  BY DEF Control
<1>1. ASSUME ReadDocument(c) PROVE Goal
  <2> DEFINE n == [doc[node] EXCEPT !.name = c.name, !.value = c.value]
  <2>1. n \in Node /\ n.parent = doc[node].parent
    BY <1>0, <1>a DEF Node
  <2>2. doc' = [doc EXCEPT ![node] = n] /\ root' = node /\ fresh' = FALSE
        /\ node' = node
    BY <1>1 DEF ReadDocument
  <2>3. doc' \in Seq(Node) /\ Len(doc') = Len(doc)
    BY <2>1, <2>2, <1>0, ExceptSeq DEF DocOK
  <2>4. \A i \in 1 .. Len(doc) : doc'[i].parent = doc[i].parent
    BY <2>1, <2>2, <1>0
  <2>5. ReadIsTree'
    BY <2>3, <2>4, <1>0 DEF ReadIsTree
  <2>6. doc' # << >> /\ node' <= Len(doc')
    BY <2>2, <2>3, <1>0
  <2>7. DocOK'
    BY <2>2, <2>3, <1>0 DEF DocOK
  <2> QED
    BY <2>5, <2>6, <2>7
<1>2. ASSUME ReadNode(c) PROVE Goal
  <2> DEFINE p == NewParent(c)
             given == GivesText(c, p)
             valued == IF given THEN [doc EXCEPT ![p].value = c.value] ELSE doc
             new == [type |-> c.type, name |-> c.name, value |-> c.value,
                     attrs |-> << >>, parent |-> p]
  <2>1. p \in 1 .. Len(doc)
    <3>1. CASE c.ctrl = "NODE"
      BY <3>1, <1>0 DEF NewParent
    <3>2. CASE c.ctrl # "NODE"
      <4>1. c.ctrl = "SIBL" /\ Parent # Null
        BY <3>2, <1>2 DEF ReadNode, Opens, MayOpen
      <4> QED
        BY <4>1, <3>2, <1>0 DEF NewParent, Null
    <3> QED
      BY <3>1, <3>2
  <2>2. valued \in Seq(Node) /\ Len(valued) = Len(doc)
        /\ \A i \in 1 .. Len(doc) : valued[i].parent = doc[i].parent
    <3>1. CASE given
      <4> DEFINE n == [doc[p] EXCEPT !.value = c.value]
      <4>1. n \in Node /\ n.parent = doc[p].parent
        BY <2>1, <1>0, <1>a DEF Node
      <4>2. valued = [doc EXCEPT ![p] = n]
        BY <3>1
      <4> HIDE DEF n, p
      <4>3. valued \in Seq(Node) /\ Len(valued) = Len(doc)
        <5>1. doc \in Seq(Node)
          BY DEF DocOK
        <5>2. /\ [doc EXCEPT ![p] = n] \in Seq(Node)
              /\ Len([doc EXCEPT ![p] = n]) = Len(doc)
          BY <5>1, <4>1, <2>1, ExceptSeq
        <5> QED
          BY <5>2, <4>2
      <4> QED
        BY <4>1, <4>2, <4>3, <2>1, <1>0
    <3>2. CASE ~given
      BY <3>2 DEF DocOK
    <3> QED
      BY <3>1, <3>2
  <2>3. new \in Node
    <3>1. << >> \in Seq(Attr)
      OBVIOUS
    <3> QED
      BY <3>1, <2>1, <1>0, <1>a DEF Node
  <2>4. /\ doc' = Append(valued, new)
        /\ node' = Len(doc) + 1
        /\ root' = IF root = Null THEN Len(doc) + 1 ELSE root
        /\ fresh' = FALSE
    BY <1>2 DEF ReadNode
  <2> HIDE DEF valued, new, p, given
  <2>5. /\ doc' \in Seq(Node) /\ Len(doc') = Len(doc) + 1 /\ doc' # << >>
        /\ \A i \in 1 .. Len(doc) : doc'[i] = valued[i]
        /\ doc'[Len(doc) + 1] = new
    BY <2>2, <2>3, <2>4, <1>0, AppendProperties
  <2>6. new.parent = p
    BY DEF new
  <2>7. ASSUME NEW i \in DOMAIN doc'
        PROVE  IF i = 1 THEN doc'[i].parent = Null
               ELSE doc'[i].parent \in 1 .. i - 1
    <3>1. i \in 1 .. Len(doc) + 1
      BY <2>5, <1>0
    <3>2. CASE i \in 1 .. Len(doc)
      BY <3>2, <2>2, <2>5, <1>0 DEF ReadIsTree
    <3>3. CASE i = Len(doc) + 1
      BY <3>3, <2>1, <2>5, <2>6, <1>0
    <3> QED
      BY <3>1, <3>2, <3>3, <1>0
  <2>8. ReadIsTree'
    BY <2>7 DEF ReadIsTree
  <2>9. root' \in Nat
    BY <2>4, <1>0 DEF DocOK
  <2>10. DocOK'
    <3>1. node' \in Nat
      BY <2>4, <1>0
    <3>2. fresh' \in BOOLEAN
      BY <2>4, Zenon
    <3> QED
      BY <3>1, <3>2, <2>5, <2>9 DEF DocOK
  <2>11. node' <= Len(doc')
    BY <2>4, <2>5, <1>0
  <2> QED
    BY <2>5, <2>8, <2>10, <2>11
<1>3. ASSUME ReadAttr(c) PROVE Goal
  <2> DEFINE a == [name |-> c.name, value |-> c.value]
             n == [doc[node] EXCEPT !.attrs = Append(@, a)]
  <2>1. n \in Node /\ n.parent = doc[node].parent
    <3>1. a \in Attr
      BY <1>a DEF Attr
    <3>2. Append(doc[node].attrs, a) \in Seq(Attr)
      BY <3>1, <1>0, AppendProperties DEF Node
    <3> QED
      BY <3>2, <1>0 DEF Node
  <2>2. doc' = [doc EXCEPT ![node] = n] /\ root' = root /\ fresh' = FALSE
        /\ node' = node
    BY <1>3 DEF ReadAttr
  <2>3. doc' \in Seq(Node) /\ Len(doc') = Len(doc)
    BY <2>1, <2>2, <1>0, ExceptSeq DEF DocOK
  <2>4. \A i \in 1 .. Len(doc) : doc'[i].parent = doc[i].parent
    BY <2>1, <2>2, <1>0
  <2>5. ReadIsTree'
    BY <2>3, <2>4, <1>0 DEF ReadIsTree
  <2>6. doc' # << >> /\ node' <= Len(doc')
    BY <2>2, <2>3, <1>0
  <2>7. DocOK'
    BY <2>2, <2>3, <1>0 DEF DocOK
  <2> QED
    BY <2>5, <2>6, <2>7
<1>4. ASSUME ReadEnd(c) PROVE Goal
  <2>1. doc' = doc /\ root' = root /\ fresh' = FALSE /\ node' = Parent
    BY <1>4 DEF ReadEnd
  <2>2. ReadIsTree'
    BY <2>1 DEF ReadIsTree
  <2>3. doc' # << >> /\ node' <= Len(doc')
    BY <2>1, <1>0
  <2>4. DocOK'
    BY <2>1, <1>0 DEF DocOK
  <2> QED
    BY <2>2, <2>3, <2>4
<1> QED
  BY <1>1, <1>2, <1>3, <1>4 DEF ReadControl

-----------------------------------------------------------------------------
(* The connection. *)

\* The document and the reader's place in it are left alone.
LEMMA StillInv ==
    ASSUME ConnectionInv, UNCHANGED <<doc, node, root>>, fresh' \in BOOLEAN,
           client' = "reading" => client = "reading"
    PROVE  DocOK' /\ PlaceOK' /\ ReadIsTree'
PROOF
  BY DEF ConnectionInv, DocOK, PlaceOK, ReadIsTree

\* Taking a control off the buffer keeps the streams what they are.
LEMMA TakeInv ==
    ASSUME StreamsOK, buffer # << >>, Take
    PROVE  StreamsOK' /\ Head(buffer) \in Control
PROOF
<1>1. Head(buffer) \in Control /\ Tail(buffer) \in Seq(Control)
      /\ Len(Tail(buffer)) = Len(buffer) - 1
  BY HeadTailProperties DEF StreamsOK
<1>2. Len(buffer) \in Nat
  BY DEF StreamsOK
<1> QED
  BY <1>1, <1>2, BufferAssumption DEF Take, StreamsOK

\* Every step keeps the invariant.
LEMMA StepKeepsInv == ConnectionInv /\ [Next]_vars => ConnectionInv'
PROOF
<1> SUFFICES ASSUME ConnectionInv, [Next]_vars PROVE ConnectionInv'
  OBVIOUS
<1> USE DEF ConnectionInv
<1>1. ASSUME NEW e \in Event, Raise(e) PROVE ConnectionInv'
  <2>1. Store(e) \in Seq(Control)
    BY StoreInStream DEF Stream
  <2>2. UNCHANGED readerVars /\ client' = client /\ UNCHANGED <<socket, buffer, taken, got, failure>>
    BY <1>1 DEF Raise
  <2>3. unwritten' \in Seq(Control) /\ sent' \in Seq(Event)
    <3>1. unwritten' = unwritten \o Store(e) /\ sent' = Append(sent, e)
      BY <1>1 DEF Raise
    <3> QED
      BY <3>1, <2>1, ConcatProperties, AppendProperties DEF StreamsOK, HistoryOK
  <2>4. DocOK' /\ PlaceOK' /\ ReadIsTree'
    BY <2>2, StillInv DEF readerVars, DocOK
  <2> QED
    BY <2>2, <2>3, <2>4 DEF StreamsOK, HistoryOK
<1>2. ASSUME NEW n \in 1 .. Len(unwritten), Write(n) PROVE ConnectionInv'
  <2>1. n \in 0 .. Len(unwritten)
    BY DEF StreamsOK
  <2>2. SubSeq(unwritten, 1, n) \in Seq(Control)
        /\ SubSeq(unwritten, n + 1, Len(unwritten)) \in Seq(Control)
    BY <2>1, CutSeq DEF StreamsOK
  <2>3. UNCHANGED readerVars /\ client' = client /\ UNCHANGED <<buffer, history, failure>>
    BY <1>2 DEF Write
  <2>4. StreamsOK'
    <3>1. socket' = socket \o SubSeq(unwritten, 1, n)
          /\ unwritten' = SubSeq(unwritten, n + 1, Len(unwritten))
      BY <1>2 DEF Write
    <3> QED
      BY <3>1, <2>2, <2>3, ConcatProperties DEF StreamsOK
  <2>5. DocOK' /\ PlaceOK' /\ ReadIsTree'
    BY <2>3, StillInv DEF readerVars, DocOK
  <2> QED
    BY <2>3, <2>4, <2>5 DEF HistoryOK, history
<1>3. ASSUME Get PROVE ConnectionInv'
  <2>1. DocOK' /\ ReadIsTree' /\ PlaceOK'
    BY <1>3, BeginReadInv DEF Get, PlaceOK
  <2> QED
    BY <1>3, <2>1 DEF Get, streams, history, StreamsOK, HistoryOK
<1>4. ASSUME LoopEnds PROVE ConnectionInv'
  <2>1. DocOK' /\ PlaceOK' /\ ReadIsTree'
    BY <1>4, StillInv DEF LoopEnds, readerVars, DocOK
  <2> QED
    BY <1>4, <2>1 DEF LoopEnds, streams, history, StreamsOK, HistoryOK
<1>5. ASSUME Fill PROVE ConnectionInv'
  <2>1. Received \in 0 .. Len(socket) /\ Received <= BufferSize
    BY BufferAssumption DEF Received, StreamsOK
  <2>2. SubSeq(socket, 1, Received) \in Seq(Control)
        /\ Len(SubSeq(socket, 1, Received)) = Received
        /\ SubSeq(socket, Received + 1, Len(socket)) \in Seq(Control)
    BY <2>1, CutSeq DEF StreamsOK
  <2>3. StreamsOK'
    BY <1>5, <2>1, <2>2 DEF Fill, StreamsOK
  <2>4. DocOK' /\ PlaceOK' /\ ReadIsTree'
    BY <1>5, StillInv DEF Fill, readerVars, DocOK
  <2> QED
    BY <1>5, <2>3, <2>4 DEF Fill, history, HistoryOK
<1>6. ASSUME ReadOn PROVE ConnectionInv'
  <2>1. StreamsOK' /\ Head(buffer) \in Control
    BY <1>6, TakeInv DEF ReadOn, Reading
  <2>2. DocOK' /\ ReadIsTree' /\ doc' # << >> /\ node' <= Len(doc')
    BY <1>6, <2>1, ReadControlInv DEF ReadOn, Reading, PlaceOK
  <2> QED
    BY <1>6, <2>1, <2>2 DEF ReadOn, history, HistoryOK, PlaceOK
<1>7. ASSUME ReadStops PROVE ConnectionInv'
  <2>1. StreamsOK'
    BY <1>7, TakeInv DEF ReadStops, Reading
  <2>2. client' = "looping" /\ taken' = taken + 1
        /\ UNCHANGED <<sent, failure, readerVars>>
        /\ got' \in {got, Append(got, doc)}
    BY <1>7 DEF ReadStops
  <2>3. got' \in Seq(Seq(Node))
    <3>1. got \in Seq(Seq(Node)) /\ doc \in Seq(Node)
      BY DEF HistoryOK, DocOK
    <3>2. Append(got, doc) \in Seq(Seq(Node))
      BY <3>1, AppendProperties
    <3> QED
      BY <2>2, <3>1, <3>2
  <2>4. DocOK' /\ PlaceOK' /\ ReadIsTree'
    BY <2>2, StillInv DEF readerVars, DocOK
  <2> QED
    BY <2>1, <2>2, <2>3, <2>4 DEF HistoryOK
<1>8. ASSUME Fail, fresh' \in BOOLEAN, StreamsOK' PROVE ConnectionInv'
  <2>1. DocOK' /\ PlaceOK' /\ ReadIsTree'
    BY <1>8, StillInv DEF Fail
  <2>2. failure' \in {"none", "between", "within"}
    BY <1>8 DEF Fail, HistoryOK
  <2> QED
    BY <1>8, <2>1, <2>2 DEF Fail, history, HistoryOK
<1>9. ASSUME Refuse PROVE ConnectionInv'
  <2>1. StreamsOK'
    BY <1>9, TakeInv DEF Refuse, Reading
  <2> QED
    BY <1>9, <1>8, <2>1 DEF Refuse
<1>10. ASSUME GiveUp PROVE ConnectionInv'
  <2>1. StreamsOK' /\ fresh' \in BOOLEAN
    BY <1>10 DEF GiveUp, streams, StreamsOK, DocOK
  <2> QED
    BY <1>10, <1>8, <2>1 DEF GiveUp
<1>11. ASSUME Reopen PROVE ConnectionInv'
  <2>1. DocOK' /\ PlaceOK' /\ ReadIsTree'
    BY <1>11, StillInv DEF Reopen, readerVars, DocOK
  <2>2. StreamsOK'
    BY <1>11, BufferAssumption DEF Reopen, StreamsOK
  <2>3. << >> \in Seq(Event) /\ << >> \in Seq(Seq(Node))
    BY EmptySeq
  <2>4. HistoryOK'
    BY <1>11, <2>3 DEF Reopen, HistoryOK
  <2> QED
    BY <2>1, <2>2, <2>4
<1>12. CASE UNCHANGED vars
  <2>1. DocOK' /\ PlaceOK' /\ ReadIsTree'
    BY <1>12, StillInv DEF vars, readerVars, DocOK
  <2> QED
    BY <1>12, <2>1 DEF vars, streams, history, StreamsOK, HistoryOK
<1> QED
  BY <1>1, <1>2, <1>3, <1>4, <1>5, <1>6, <1>7, <1>9, <1>10, <1>11, <1>12
     DEF Next, Core, Client

-----------------------------------------------------------------------------
(* The connection's stream. *)

\* What the client has yet to read
Remaining == buffer \o socket \o unwritten

\* It is a stream, however it is joined.
LEMMA RemainingIs ==
    ASSUME StreamsOK
    PROVE  /\ buffer \in Stream /\ socket \in Stream /\ unwritten \in Stream
           /\ Remaining \in Stream
           /\ Remaining = buffer \o (socket \o unwritten)
           /\ socket \o unwritten \in Stream
<1>1. buffer \in Stream /\ socket \in Stream /\ unwritten \in Stream
  BY DEF StreamsOK, Stream
<1>2. InTurn(buffer, socket, unwritten)
  BY <1>1, JoinedInTurn
<1>3. socket \o unwritten \in Stream
  BY <1>1, Joined
<1>4. Remaining = buffer \o (socket \o unwritten)
  BY <1>2 DEF InTurn, Remaining
<1>5. buffer \o (socket \o unwritten) \in Stream
  BY <1>1, <1>3, Joined
<1> QED
  BY <1>1, <1>3, <1>4, <1>5

\* A piece cut in two is the two joined.
LEMMA CutAndJoined ==
    ASSUME NEW u \in Stream, NEW n \in 0 .. Len(u)
    PROVE  /\ SubSeq(u, 1, n) \in Stream /\ SubSeq(u, n + 1, Len(u)) \in Stream
           /\ SubSeq(u, 1, n) \o SubSeq(u, n + 1, Len(u)) = u
<1> DEFINE a == SubSeq(u, 1, n)
           b == SubSeq(u, n + 1, Len(u))
           w == a \o b
<1>1. u \in Seq(Control) /\ Len(u) \in Nat /\ n \in Nat /\ n <= Len(u)
      /\ \A i \in 1 .. Len(u) : u[i] \in Control
  BY ElementOfSeq DEF Stream
<1>2. a \in Seq(Control) /\ Len(a) = n /\ \A k \in 1 .. n : a[k] = u[k]
  <2>1. a \in Seq(Control) /\ Len(a) = n
    BY <1>1, CutSeq
  <2>2. a = [k \in 1 .. n |-> u[k]]
    BY <1>1
  <2> HIDE DEF a
  <2>3. \A k \in 1 .. n : a[k] = u[k]
    BY <2>2
  <2> QED
    BY <2>1, <2>3
<1>3. b \in Seq(Control) /\ Len(b) = Len(u) - n /\ \A k \in 1 .. Len(u) - n : b[k] = u[n + k]
  <2>1. b \in Seq(Control)
    BY <1>1, CutSeq
  <2>2. b = [k \in 1 .. Len(u) - n |-> u[n + k]]
    BY <1>1
  <2>3. Len(u) - n \in Nat
    BY <1>1
  <2> HIDE DEF b
  <2>4. DOMAIN b = 1 .. Len(u) - n /\ \A k \in 1 .. Len(u) - n : b[k] = u[n + k]
    BY <2>2
  <2>5. Len(b) = Len(u) - n
    BY <2>1, <2>3, <2>4, LenProperties
  <2> QED
    BY <2>1, <2>4, <2>5
<1> HIDE DEF a, b
<1>4. w \in Seq(Control) /\ Len(w) = Len(a) + Len(b)
      /\ \A i \in 1 .. Len(a) + Len(b) : w[i] = IF i <= Len(a) THEN a[i] ELSE b[i - Len(a)]
  BY <1>2, <1>3, ConcatProperties
<1> HIDE DEF w
<1>5. Len(w) = Len(u)
  BY <1>1, <1>2, <1>3, <1>4
<1>6. ASSUME NEW i \in 1 .. Len(u) PROVE w[i] = u[i]
  <2>0. i \in 1 .. Len(a) + Len(b)
    BY <1>1, <1>2, <1>3
  <2>1. CASE i <= n
    <3>1. w[i] = a[i] /\ i \in 1 .. n
      BY <1>1, <1>2, <1>4, <2>0, <2>1
    <3> QED
      BY <1>2, <3>1
  <2>2. CASE ~(i <= n)
    <3>1. w[i] = b[i - n] /\ i - n \in 1 .. Len(u) - n /\ n + (i - n) = i
      BY <1>1, <1>2, <1>4, <2>0, <2>2
    <3> QED
      BY <1>3, <3>1
  <2> QED
    BY <2>1, <2>2
<1>7. w = u
  BY <1>1, <1>4, <1>5, <1>6, SeqEqual
<1> QED
  BY <1>2, <1>3, <1>7 DEF a, b, w, Stream

\* The core writes some of what it has to write.
LEMMA WriteKeeps ==
    ASSUME StreamsOK, NEW n \in 1 .. Len(unwritten), Write(n)
    PROVE  Remaining' = Remaining
<1> DEFINE a == SubSeq(unwritten, 1, n)
           b == SubSeq(unwritten, n + 1, Len(unwritten))
<1>1. buffer \in Stream /\ socket \in Stream /\ unwritten \in Stream
      /\ Remaining = buffer \o (socket \o unwritten)
  BY RemainingIs
<1>2. n \in 0 .. Len(unwritten)
  BY <1>1 DEF Stream
<1>3. a \in Stream /\ b \in Stream /\ a \o b = unwritten
  BY <1>1, <1>2, CutAndJoined
<1>4. socket' = socket \o a /\ unwritten' = b /\ buffer' = buffer
  BY DEF Write
<1> HIDE DEF a, b
<1>5. Remaining' = buffer \o (socket \o a) \o b
  BY <1>4 DEF Remaining
<1>6. socket \o a \in Stream
  BY <1>1, <1>3, Joined
<1>7. InTurn(buffer, socket \o a, b) /\ InTurn(socket, a, b)
  BY <1>1, <1>3, <1>6, JoinedInTurn
<1> QED
  BY <1>1, <1>3, <1>5, <1>7 DEF InTurn

\* The buffer is filled.
LEMMA FillKeeps ==
    ASSUME StreamsOK, Fill
    PROVE  Remaining' = Remaining
<1> DEFINE a == SubSeq(socket, 1, Received)
           b == SubSeq(socket, Received + 1, Len(socket))
<1>1. buffer \in Stream /\ socket \in Stream /\ unwritten \in Stream
      /\ socket \o unwritten \in Stream /\ Remaining = buffer \o (socket \o unwritten)
  BY RemainingIs
<1>2. Received \in 0 .. Len(socket)
  BY BufferAssumption DEF Received, StreamsOK
<1>3. a \o b = socket
  BY <1>1, <1>2, CutAndJoined
<1>4. socket' = b /\ unwritten' = unwritten /\ buffer' = a /\ buffer = << >>
  BY DEF Fill
<1> HIDE DEF a, b
<1>5. Remaining' = (a \o b) \o unwritten
  BY <1>4 DEF Remaining
<1>6. << >> \o (socket \o unwritten) = socket \o unwritten
  BY <1>1, NothingJoined
<1> QED
  BY <1>1, <1>3, <1>4, <1>5, <1>6

\* The core raises an event.
LEMMA RaiseAdds ==
    ASSUME StreamsOK, NEW e \in Event, Raise(e)
    PROVE  Remaining' = Remaining \o Store(e)
<1> DEFINE x == buffer \o socket
           z == Store(e)
<1>1. buffer \in Stream /\ socket \in Stream /\ unwritten \in Stream
  BY RemainingIs
<1>2. z \in Stream
  BY StoreInStream
<1>3. x \in Stream
  BY <1>1, Joined
<1>4. socket' = socket /\ unwritten' = unwritten \o z /\ buffer' = buffer
  BY DEF Raise
<1>5. Remaining' = x \o (unwritten \o z) /\ Remaining = x \o unwritten
  BY <1>4 DEF Remaining
<1> HIDE DEF x, z
<1>6. InTurn(x, unwritten, z)
  BY <1>1, <1>2, <1>3, JoinedInTurn
<1> QED
  BY <1>5, <1>6 DEF InTurn, z

\* The reader takes the control that comes next.
LEMMA TakesNext ==
    ASSUME StreamsOK, buffer # << >>, Take, NEW F \in Stream, NEW X, NEW c, NEW Y,
           Begins(X, c, Y), Remaining = X \o F
    PROVE  Head(buffer) = c /\ Remaining' = Y \o F
<1> DEFINE r == socket \o unwritten
           h == Head(buffer)
           b == Tail(buffer)
<1>1. buffer \in Stream /\ socket \in Stream /\ unwritten \in Stream /\ r \in Stream
      /\ Remaining = buffer \o r
  BY RemainingIs
<1>2. h \in Control /\ b \in Stream /\ buffer \o r = <<h>> \o (b \o r)
  BY <1>1, HeadOfStream
<1>3. c \in Control /\ Y \in Stream /\ X = <<c>> \o Y
  BY DEF Begins
<1>4. Remaining = <<c>> \o (Y \o F)
  <2>1. <<c>> \in Stream
    BY <1>3, OneInStream
  <2>2. InTurn(<<c>>, Y, F)
    BY <1>3, <2>1, JoinedInTurn
  <2> QED
    BY <1>3, <2>2 DEF InTurn
<1>5. Remaining' = b \o r
  <2>1. buffer' = b /\ socket' = socket /\ unwritten' = unwritten
    BY DEF Take
  <2>2. Remaining' = (b \o socket) \o unwritten
    BY <2>1 DEF Remaining
  <2>3. InTurn(b, socket, unwritten)
    BY <1>1, <1>2, JoinedInTurn
  <2> QED
    BY <2>2, <2>3 DEF InTurn
<1> HIDE DEF r, h, b
<1>6. Y \o F \in Stream /\ b \o r \in Stream
  BY <1>1, <1>2, <1>3, Joined
<1>7. Head(<<c>> \o (Y \o F)) = c /\ Tail(<<c>> \o (Y \o F)) = Y \o F
  BY <1>3, <1>6, HeadOfJoined
<1>8. Head(<<h>> \o (b \o r)) = h /\ Tail(<<h>> \o (b \o r)) = b \o r
  BY <1>2, <1>6, HeadOfJoined
<1>9. <<h>> \o (b \o r) = <<c>> \o (Y \o F)
  BY <1>1, <1>2, <1>4
<1> QED
  BY <1>5, <1>7, <1>8, <1>9 DEF h

\* There is a control to take only when the core wrote an event.
LEMMA SomethingRemains ==
    ASSUME StreamsOK, buffer # << >>
    PROVE  Remaining # << >>
<1> DEFINE r == socket \o unwritten
           h == Head(buffer)
           b == Tail(buffer)
<1>1. buffer \in Stream /\ r \in Stream /\ Remaining = buffer \o r
  BY RemainingIs
<1>2. h \in Control /\ b \in Stream /\ buffer \o r = <<h>> \o (b \o r)
  BY <1>1, HeadOfStream
<1> HIDE DEF r, h, b
<1>3. b \o r \in Stream
  BY <1>1, <1>2, Joined
<1>4. <<h>> \o (b \o r) # << >>
  BY <1>2, <1>3, HeadOfJoined
<1> QED
  BY <1>1, <1>2, <1>4

-----------------------------------------------------------------------------
(* The reader, where the document that was raised says. *)

\* The reader is at node i of t, with the first m nodes read and a attributes of the last.
AtNode(t, i, m, a, off, d, n, r) ==
    DocSoFar(t, m, a, off, d) /\ n = i + off /\ r = 1 + off

\* So it is, and what comes next is what t has there.
StillAt(t, s, A, off, X, d, n, r) ==
    \E i, m, a : Place(t, s, A, i, m, a, X) /\ AtNode(t, i, m, a, off, d, n, r)

\* The reader stops when an end comes at node i.
StopsAt(t, i) == i = 1 \/ t[i].parent = 1

\* Its parent, and whether it stops, are as in t.
LEMMA NodeAt ==
    ASSUME NEW t, NEW s, NEW A, Tables(t, s, A), NEW i, NEW m, NEW a, NEW X, NEW off,
           Place(t, s, A, i, m, a, X), AtNode(t, i, m, a, off, doc, node, root)
    PROVE  Parent = t[i].parent + off /\ (Stops <=> StopsAt(t, i))
<1>1. m \in 1 .. Len(t) /\ i \in 1 .. m /\ m \in Nat /\ i \in 1 .. Len(t) /\ IsTree(t)
  <2>1. IsTree(t) /\ Len(t) \in Nat
    BY TreeIs DEF Tables
  <2>2. m \in 1 .. Len(t) /\ i \in 1 .. m
    BY PlaceIs
  <2> QED
    BY <2>1, <2>2
<1>2. DocPlaces(t, m, a, off, doc)
  BY <1>1, DocIs DEF AtNode
<1>3. doc[i + off] = NodeSoFar(t, i, m, a, off) /\ off \in {0, 1}
  BY <1>1, <1>2 DEF DocPlaces
<1>4. doc[i + off].parent = t[i].parent + off
  BY <1>3 DEF NodeSoFar, NodeOf
<1>5. Parent = t[i].parent + off
  BY <1>4 DEF Parent, AtNode
<1>6. t[i].parent \in Nat
  BY <1>1, NodeIs
<1>7. Stops <=> i + off = 1 + off \/ t[i].parent + off = 1 + off
  BY <1>5 DEF Stops, AtNode
<1> QED
  BY <1>1, <1>3, <1>5, <1>6, <1>7 DEF StopsAt

\* An attribute is read.
LEMMA AttrIsRead ==
    ASSUME NEW t, NEW s, NEW A, Tables(t, s, A), NEW i, NEW m, NEW a, NEW X, NEW off,
           Place(t, s, A, i, m, a, X), AtNode(t, i, m, a, off, doc, node, root),
           NEW c, NEW Y, ToAttr(t, s, A, i, m, a, c, Y), ReadControl(c), DocOK'
    PROVE  StillAt(t, s, A, off, Y, doc', node', root')
<1> DEFINE v == t[m].attrs[a + 1]
<1>1. IsTree(t) /\ m \in 1 .. Len(t) /\ a \in Nat /\ a + 1 \in 1 .. Len(t[m].attrs) /\ i = m
      /\ Starting(t, s, A, m, m, a + 1, Y)
  <2>1. m \in 1 .. Len(t) /\ a \in 0 .. Len(t[m].attrs)
    BY PlaceIs
  <2> QED
    BY <2>1 DEF ToAttr, Tables
<1>2. c.ctrl = "ATTR" /\ [name |-> c.name, value |-> c.value] = v
  <2>1. t[m].attrs \in Seq(Attr)
    BY <1>1, AttrsAre
  <2>2. v \in Attr /\ a + 1 \in DOMAIN t[m].attrs
    BY <1>1, <2>1, ElementOfSeq
  <2>3. c = [ctrl |-> "ATTR", type |-> "document", name |-> v.name, value |-> v.value]
    BY <2>2 DEF ToAttr, StoreAttrs
  <2>4. v = [name |-> v.name, value |-> v.value]
    BY <2>2 DEF Attr
  <2> HIDE DEF v
  <2> QED
    BY <2>3, <2>4
<1>3. ReadAttr(c)
  BY <1>2 DEF ReadControl, ReadDocument, ReadNode, ReadEnd, Opens
<1>4. doc' = WithAttr(doc, m + off, v) /\ node' = node /\ root' = root
  BY <1>1, <1>2, <1>3 DEF ReadAttr, WithAttr, AtNode
<1>5. WithAttr(doc, m + off, v) \in Seq(Node)
  BY <1>4 DEF DocOK
<1>6. DocSoFar(t, m, a + 1, off, doc')
  BY <1>1, <1>4, <1>5, DocAttr DEF AtNode
<1>7. AtNode(t, m, m, a + 1, off, doc', node', root')
  BY <1>1, <1>4, <1>6 DEF AtNode
<1> QED
  BY <1>1, <1>7 DEF StillAt, Place

\* What the reader allocates for a node
LEMMA NodeAllocated ==
    ASSUME NEW c, ReadNode(c), NEW p, p = NewParent(c)
    PROVE  doc' = WithNode(doc, c, p) /\ node' = Len(doc) + 1
<1>1. c.type # "document"
  BY DEF ReadNode
<1> QED
  BY DEF ReadNode, WithNode, WithValue, NodeOf, GivesText

\* A node is read.
LEMMA NodeIsRead ==
    ASSUME NEW t, NEW s, NEW A, Tables(t, s, A), NEW i, NEW m, NEW a, NEW X, NEW off,
           Place(t, s, A, i, m, a, X), AtNode(t, i, m, a, off, doc, node, root),
           NEW c, NEW Y, ToNode(t, s, A, i, m, a, c, Y), ReadControl(c), fresh = FALSE
    PROVE  StillAt(t, s, A, off, Y, doc', node', root')
<1>1. IsTree(t) /\ m \in 1 .. Len(t) /\ m + 1 \in 2 .. Len(t) /\ a = Len(t[m].attrs)
      /\ c = Start(t, m + 1) /\ Starting(t, s, A, m + 1, m + 1, 0, Y)
      /\ IF c.ctrl = "NODE" THEN t[m + 1].parent = i ELSE t[m + 1].parent = t[i].parent
  BY PlaceIs, Zenon DEF ToNode, Tables
<1>2. c.ctrl \in {"NODE", "SIBL"}
  BY <1>1 DEF Start
<1>3. ReadNode(c)
  BY <1>2 DEF ReadControl, ReadDocument, ReadAttr, ReadEnd, MayOpen
<1>4. NewParent(c) = t[m + 1].parent + off
  <2>1. Parent = t[i].parent + off
    BY NodeAt
  <2>2. node = i + off
    BY DEF AtNode
  <2> QED
    BY <1>1, <2>1, <2>2 DEF NewParent
<1>5. doc' = WithNode(doc, c, t[m + 1].parent + off) /\ node' = Len(doc) + 1
  BY <1>3, <1>4, NodeAllocated
<1>6. DocSoFar(t, m + 1, 0, off, doc')
  BY <1>1, <1>5, DocNode DEF AtNode
<1>7. m \in Nat /\ off \in {0, 1} /\ Len(doc) = m + off
  <2>1. m \in Nat
    BY <1>1, TreeIs
  <2>2. DocPlaces(t, m, a, off, doc)
    BY <2>1, DocIs DEF AtNode
  <2> QED
    BY <2>1, <2>2 DEF DocPlaces
<1>8. node' = (m + 1) + off
  BY <1>5, <1>7
<1>9. root' = 1 + off
  <2>1. root = 1 + off
    BY DEF AtNode
  <2>2. root # Null
    BY <1>7, <2>1 DEF Null
  <2>3. root' = root
    BY <1>3, <2>2 DEF ReadNode
  <2> QED
    BY <2>1, <2>3
<1>10. AtNode(t, m + 1, m + 1, 0, off, doc', node', root')
  BY <1>6, <1>8, <1>9 DEF AtNode
<1> QED
  BY <1>1, <1>10 DEF StillAt, Place

\* An end that is not the last is read.
LEMMA EndIsRead ==
    ASSUME NEW t, NEW s, NEW A, Tables(t, s, A), NEW i, NEW m, NEW a, NEW X, NEW off,
           Place(t, s, A, i, m, a, X), AtNode(t, i, m, a, off, doc, node, root),
           NEW c, NEW Y, ToParent(t, s, A, i, m, a, c, Y), ReadControl(c)
    PROVE  StillAt(t, s, A, off, Y, doc', node', root')
<1>1. c.ctrl = "END" /\ Complete(t, s, A, t[i].parent, m, a, Y)
  BY DEF ToParent, End
<1>2. ReadEnd(c)
  BY <1>1 DEF ReadControl, ReadDocument, ReadAttr, ReadNode, Opens
<1>3. Parent = t[i].parent + off
  BY NodeAt
<1>4. doc' = doc /\ root' = root /\ node' = t[i].parent + off
  BY <1>2, <1>3 DEF ReadEnd
<1>5. AtNode(t, t[i].parent, m, a, off, doc', node', root')
  BY <1>4 DEF AtNode
<1> QED
  BY <1>1, <1>5 DEF StillAt, Place

\* A control that does not end the document brings the reader to its next place.
LEMMA ControlIsRead ==
    ASSUME NEW t, NEW s, NEW A, Tables(t, s, A), NEW i, NEW m, NEW a, NEW X, NEW off,
           Place(t, s, A, i, m, a, X), AtNode(t, i, m, a, off, doc, node, root),
           NEW c, NEW Y, Goes(t, s, A, i, m, a, c, Y), ReadControl(c), fresh = FALSE, DocOK',
           ~(c.ctrl = "END" /\ Stops)
    PROVE  StillAt(t, s, A, off, Y, doc', node', root')
<1>1. CASE ToAttr(t, s, A, i, m, a, c, Y)
  BY <1>1, AttrIsRead
<1>2. CASE ToNode(t, s, A, i, m, a, c, Y)
  BY <1>2, NodeIsRead
<1>3. CASE ToEnd(t, i, m, a, c, Y)
  <2>1. c.ctrl = "END" /\ StopsAt(t, i)
    BY <1>3 DEF ToEnd, End, StopsAt
  <2> QED
    BY <2>1, NodeAt
<1>4. CASE ToParent(t, s, A, i, m, a, c, Y)
  BY <1>4, EndIsRead
<1> QED
  BY <1>1, <1>2, <1>3, <1>4 DEF Goes

\* The first node of a document
LEMMA FirstNodeIsRead ==
    ASSUME NEW t, NEW s, NEW A, Tables(t, s, A), NEW c, c = Start(t, 1), c.ctrl = "NODE",
           NEW Y, Starting(t, s, A, 1, 1, 0, Y), ReadControl(c),
           doc = <<RootParent>>, node = 1, root = Null
    PROVE  \E off : StillAt(t, s, A, off, Y, doc', node', root')
<1>1. IsTree(t) /\ c.type = t[1].type /\ c.name = t[1].name /\ c.value = t[1].value
  BY DEF Tables, Start
<1>2. Place(t, s, A, 1, 1, 0, Y)
  BY DEF Place
<1>3. CASE t[1].type = "document"
  <2>1. ReadDocument(c)
    BY <1>1, <1>3 DEF ReadControl, ReadNode, ReadAttr, ReadEnd
  <2>2. doc' = [<<RootParent>> EXCEPT ![1].name = t[1].name, ![1].value = t[1].value]
        /\ root' = 1 /\ node' = 1
    BY <1>1, <2>1 DEF ReadDocument
  <2>3. DocSoFar(t, 1, 0, 0, doc')
    BY <1>1, <1>3, <2>2, DocBeginsAsDocument
  <2>4. AtNode(t, 1, 1, 0, 0, doc', node', root')
    BY <2>2, <2>3 DEF AtNode
  <2> QED
    BY <1>2, <2>4 DEF StillAt
<1>4. CASE t[1].type # "document"
  <2>1. ReadNode(c)
    BY <1>1, <1>4 DEF ReadControl, ReadDocument, ReadAttr, ReadEnd
  <2>2. TextHasNoName(t)
    <3>1. c.type \in Unnamed => c.name = ""
      BY <2>1, Zenon DEF ReadNode, MayOpen
    <3> QED
      BY <1>1, <3>1 DEF TextHasNoName, Unnamed
  <2>3. 1 = NewParent(c)
    BY DEF NewParent
  <2>4. doc' = WithNode(doc, c, 1) /\ node' = Len(doc) + 1
    <3> DEFINE p == 1
    <3>1. p = NewParent(c)
      BY <2>3
    <3> HIDE DEF p
    <3>2. doc' = WithNode(doc, c, p) /\ node' = Len(doc) + 1
      BY <2>1, <3>1, NodeAllocated
    <3> QED
      BY <3>2 DEF p
  <2>5. DocSoFar(t, 1, 0, 1, doc')
    BY <1>1, <1>4, <2>2, <2>4, DocBeginsAsNode
  <2>6. Len(doc) = 1
    BY RootParentIs
  <2>7. node' = 1 + 1 /\ root' = 1 + 1
    BY <2>1, <2>4, <2>6 DEF ReadNode
  <2>8. AtNode(t, 1, 1, 0, 1, doc', node', root')
    BY <2>5, <2>7 DEF AtNode
  <2> QED
    BY <1>2, <2>8 DEF StillAt
<1> QED
  BY <1>3, <1>4

-----------------------------------------------------------------------------
(* The events raised and the documents given. *)

\* The reader is within t, with F behind it, when R remains of the stream.
IsReading(t, F, d, n, r, R) ==
    \E s, A, off, X : Tables(t, s, A) /\ StillAt(t, s, A, off, X, d, n, r) /\ R = X \o F

\* No control of the next document was read yet.
Beginning ==
    /\ fresh = TRUE /\ doc = <<RootParent>> /\ node = 1 /\ root = Null
    /\ Remaining = Left(sent, taken)

\* The reader is within the first document not yet taken.
WithinDocument ==
    /\ fresh = FALSE /\ taken < Len(sent)
    /\ IsReading(sent[taken + 1], Left(sent, taken + 1), doc, node, root, Remaining)

\* What remains of the stream
Aligned ==
    IF client = "reading" THEN Beginning \/ WithinDocument ELSE Remaining = Left(sent, taken)

\* g[k] is the events among the first k of s.
GotTable(s, n, g) ==
    /\ g[0] = << >>
    /\ \A k \in 1 .. n :
          g[k] = IF IsEvent(AsRead(s[k])) THEN Append(g[k - 1], AsRead(s[k])) ELSE g[k - 1]

\* h is the events among the first n of s.
HasGot(s, n, h) == \E g : GotTable(s, n, g) /\ h = g[n]

\* The inductive invariant, besides ConnectionInv
EventsInv == ~broken => taken <= Len(sent) /\ HasGot(sent, taken, got) /\ Aligned

\* s and w begin with the same n events.
SameTo(s, w, n) == \A k \in 1 .. n : w[k] = s[k]

\* What was got does not depend on what was not yet taken.
LEMMA GotSame ==
    ASSUME NEW s, NEW w, NEW n, NEW h, SameTo(s, w, n), HasGot(s, n, h)
    PROVE  HasGot(w, n, h)
<1>1. PICK g : GotTable(s, n, g) /\ h = g[n]
  BY DEF HasGot
<1>2. GotTable(w, n, g)
  BY <1>1 DEF GotTable, SameTo
<1> QED
  BY <1>1, <1>2 DEF HasGot

\* Nothing was taken, nothing was got.
LEMMA GotNone ==
    ASSUME NEW s
    PROVE  HasGot(s, 0, << >>)
<1> DEFINE g == [k \in {0} |-> << >>]
<1>1. g[0] = << >> /\ \A k \in 1 .. 0 : FALSE
  OBVIOUS
<1> HIDE DEF g
<1>2. GotTable(s, 0, g)
  BY <1>1 DEF GotTable
<1> QED
  BY <1>1, <1>2 DEF HasGot

\* One more document was read to its end.
LEMMA GotMore ==
    ASSUME NEW s, NEW n \in Nat, NEW h, HasGot(s, n, h), NEW d, DocGiven(s[n + 1], d)
    PROVE  HasGot(s, n + 1, IF IsEvent(d) THEN Append(h, d) ELSE h)
<1>1. PICK g : GotTable(s, n, g) /\ h = g[n]
  BY DEF HasGot
<1> DEFINE e == AsRead(s[n + 1])
           last == IF IsEvent(e) THEN Append(h, e) ELSE h
           f == [k \in 0 .. n + 1 |-> IF k = n + 1 THEN last ELSE g[k]]
<1>2. last = IF IsEvent(d) THEN Append(h, d) ELSE h
  BY DEF DocGiven
<1>3. f[n + 1] = last /\ \A k \in 0 .. n : f[k] = g[k]
  <2>1. n + 1 \in 0 .. n + 1 /\ \A k \in 0 .. n : k \in 0 .. n + 1 /\ k # n + 1
    OBVIOUS
  <2> QED
    BY <2>1
<1> HIDE DEF f
<1>4. GotTable(s, n + 1, f)
  <2>1. f[0] = << >>
    <3>1. 0 \in 0 .. n
      OBVIOUS
    <3> QED
      BY <1>1, <1>3, <3>1 DEF GotTable
  <2>2. ASSUME NEW k \in 1 .. n + 1
        PROVE  f[k] = IF IsEvent(AsRead(s[k])) THEN Append(f[k - 1], AsRead(s[k])) ELSE f[k - 1]
    <3>1. CASE k = n + 1
      <4>1. k - 1 = n /\ n \in 0 .. n
        BY <3>1
      <4>2. f[k - 1] = h
        BY <1>1, <1>3, <4>1
      <4> QED
        BY <1>3, <3>1, <4>2
    <3>2. CASE k # n + 1
      <4>1. k \in 1 .. n /\ k \in 0 .. n /\ k - 1 \in 0 .. n
        BY <3>2
      <4>2. f[k] = g[k] /\ f[k - 1] = g[k - 1]
        BY <1>3, <4>1
      <4> QED
        BY <1>1, <4>1, <4>2 DEF GotTable
    <3> QED
      BY <3>1, <3>2
  <2> QED
    BY <2>1, <2>2 DEF GotTable
<1> HIDE DEF last
<1> QED
  BY <1>2, <1>3, <1>4 DEF HasGot

\* More is raised while the reader is within a document.
LEMMA MoreBehind ==
    ASSUME NEW t, NEW F \in Stream, NEW d, NEW n, NEW r, NEW R, IsReading(t, F, d, n, r, R),
           NEW z \in Stream
    PROVE  IsReading(t, F \o z, d, n, r, R \o z)
<1>1. PICK s, A, off, X : Tables(t, s, A) /\ StillAt(t, s, A, off, X, d, n, r) /\ R = X \o F
  BY DEF IsReading
<1>2. PICK i, m, a : Place(t, s, A, i, m, a, X)
  BY <1>1 DEF StillAt
<1>3. X \in Stream
  BY <1>1, <1>2, PlaceIs
<1>4. InTurn(X, F, z)
  BY <1>3, JoinedInTurn
<1>5. R \o z = X \o (F \o z)
  BY <1>1, <1>4 DEF InTurn
<1> QED
  BY <1>1, <1>5 DEF IsReading

\* How a document begins
LEMMA StoreBegins ==
    ASSUME NEW t, IsTree(t)
    PROVE  \E s, A, Y : /\ Tables(t, s, A) /\ Begins(Store(t), Start(t, 1), Y)
                        /\ Starting(t, s, A, 1, 1, 0, Y)
<1>1. PICK s : IsStored(t, s, 1) /\ Store(t) = s[1]
  BY StoreIs
<1>2. PICK A : Tables(t, s, A)
  BY <1>1, AfterExists
<1> DEFINE X == Store(t)
<1>3. X = s[1]
  BY <1>1
<1> HIDE DEF X
<1>4. \E Y : Begins(X, Start(t, 1), Y) /\ Starting(t, s, A, 1, 1, 0, Y)
  BY <1>2, <1>3, DocumentBegins
<1> QED
  BY <1>2, <1>4 DEF X

\* The first node is written as a first child.
LEMMA FirstIsFirst ==
    ASSUME NEW t, IsTree(t)
    PROVE  Start(t, 1).ctrl = "NODE"
<1>1. \A j \in DOMAIN t : 1 <= j
  BY TreeIs
<1>2. IsFirstChild(t, 1)
  BY <1>1 DEF IsFirstChild, Children
<1> QED
  BY <1>2 DEF Start

\* The reader stops only at the document's own end.
LEMMA EndOnlyLast ==
    ASSUME NEW t, NEW s, NEW A, Tables(t, s, A), NEW i, NEW m, NEW a, NEW X, NEW off,
           Place(t, s, A, i, m, a, X), AtNode(t, i, m, a, off, doc, node, root),
           NEW c, NEW Y, Goes(t, s, A, i, m, a, c, Y), c.ctrl = "END", Stops
    PROVE  ToEnd(t, i, m, a, c, Y)
<1>1. ~ToAttr(t, s, A, i, m, a, c, Y)
  <2> SUFFICES ASSUME ToAttr(t, s, A, i, m, a, c, Y) PROVE FALSE
    OBVIOUS
  <2>1. m \in 1 .. Len(t) /\ a + 1 \in 1 .. Len(t[m].attrs) /\ IsTree(t)
    BY PlaceIs DEF ToAttr, Tables
  <2>2. t[m].attrs \in Seq(Attr)
    BY <2>1, AttrsAre
  <2>3. a + 1 \in DOMAIN t[m].attrs
    BY <2>1, <2>2
  <2> QED
    BY <2>3 DEF ToAttr, StoreAttrs
<1>2. ~ToNode(t, s, A, i, m, a, c, Y)
  BY DEF ToNode, Start
<1>3. ~ToParent(t, s, A, i, m, a, c, Y)
  BY NodeAt DEF ToParent, StopsAt
<1> QED
  BY <1>1, <1>2, <1>3 DEF Goes

\* There is a control to take only within a document that was raised.
LEMMA ReaderIs ==
    ASSUME ConnectionInv, taken <= Len(sent), Aligned, Reading
    PROVE  /\ taken \in Nat /\ taken < Len(sent) /\ taken + 1 \in 0 .. Len(sent)
           /\ sent[taken + 1] \in Event /\ Left(sent, taken + 1) \in Stream
           /\ IsTree(sent[taken + 1])
<1>1. sent \in Seq(Event) /\ taken \in Nat /\ StreamsOK /\ buffer # << >> /\ client = "reading"
  BY DEF ConnectionInv, HistoryOK, Reading
<1>2. taken < Len(sent)
  <2>1. CASE WithinDocument
    BY <2>1 DEF WithinDocument
  <2>2. CASE Beginning
    <3>1. Remaining # << >>
      BY <1>1, SomethingRemains
    <3>2. taken # Len(sent)
      BY <1>1, <2>2, <3>1, LeftNone DEF Beginning
    <3> QED
      BY <1>1, <3>2
  <2> QED
    BY <1>1, <2>1, <2>2 DEF Aligned
<1>3. taken + 1 \in 1 .. Len(sent) /\ taken + 1 \in 0 .. Len(sent)
  BY <1>1, <1>2
<1>4. sent[taken + 1] \in Event
  BY <1>1, <1>3, ElementOfSeq
<1>5. Left(sent, taken + 1) \in Stream
  BY <1>1, <1>3, LeftIs
<1> QED
  BY <1>1, <1>2, <1>3, <1>4, <1>5, EventAssumption

\* The reader takes a control, and does not stop.
LEMMA ReadsOn ==
    ASSUME ConnectionInv, taken <= Len(sent), Aligned, ReadOn, DocOK'
    PROVE  WithinDocument'
<1> DEFINE c == Head(buffer)
<1>1. Reading /\ Take /\ ReadControl(c) /\ ~(c.ctrl = "END" /\ Stops) /\ ~IsBad(c)
      /\ sent' = sent /\ taken' = taken /\ StreamsOK /\ buffer # << >> /\ client = "reading"
  BY DEF ReadOn, Reading, history, ConnectionInv
<1> HIDE DEF c
<1>2. taken \in Nat /\ taken < Len(sent) /\ sent[taken + 1] \in Event
      /\ Left(sent, taken + 1) \in Stream /\ IsTree(sent[taken + 1])
  BY <1>1, ReaderIs
<1>3. PICK t : t = sent[taken + 1]
  OBVIOUS
<1>4. PICK F : F = Left(sent, taken + 1)
  OBVIOUS
<1>5. F \in Stream /\ IsTree(t) /\ t \in Event
  BY <1>2, <1>3, <1>4
<1>6. fresh' = FALSE
  BY <1>1 DEF ReadControl, ReadDocument, ReadNode, ReadAttr, ReadEnd
<1>7. IsReading(t, F, doc', node', root', Remaining')
  <2>1. CASE WithinDocument
    <3>1. IsReading(t, F, doc, node, root, Remaining) /\ fresh = FALSE
      BY <2>1, <1>3, <1>4 DEF WithinDocument
    <3>2. PICK s, A, off, X : Tables(t, s, A) /\ StillAt(t, s, A, off, X, doc, node, root)
                              /\ Remaining = X \o F
      BY <3>1 DEF IsReading
    <3>3. PICK i, m, a : Place(t, s, A, i, m, a, X) /\ AtNode(t, i, m, a, off, doc, node, root)
      BY <3>2 DEF StillAt
    <3>4. PICK k, Y : Begins(X, k, Y) /\ Goes(t, s, A, i, m, a, k, Y)
      BY <3>2, <3>3, PlaceGoes DEF GoesOn
    <3>5. c = k /\ Remaining' = Y \o F
      BY <1>1, <1>5, <3>2, <3>4, TakesNext DEF c
    <3>6. StillAt(t, s, A, off, Y, doc', node', root')
      BY <1>1, <3>1, <3>2, <3>3, <3>4, <3>5, ControlIsRead
    <3> QED
      BY <3>2, <3>5, <3>6 DEF IsReading
  <2>2. CASE Beginning
    <3>1. PICK s, A, Y : /\ Tables(t, s, A) /\ Begins(Store(t), Start(t, 1), Y)
                         /\ Starting(t, s, A, 1, 1, 0, Y)
      BY <1>5, StoreBegins
    <3>2. Remaining = Store(t) \o F
      BY <1>2, <1>3, <1>4, <2>2, LeftFirst DEF Beginning, ConnectionInv, HistoryOK
    <3>3. c = Start(t, 1) /\ Remaining' = Y \o F
      BY <1>1, <1>5, <3>1, <3>2, TakesNext DEF c
    <3>4. c.ctrl = "NODE"
      BY <1>5, <3>3, FirstIsFirst
    <3>5. \E off : StillAt(t, s, A, off, Y, doc', node', root')
      BY <1>1, <2>2, <3>1, <3>3, <3>4, FirstNodeIsRead DEF Beginning
    <3> QED
      BY <3>1, <3>3, <3>5 DEF IsReading
  <2> QED
    BY <1>1, <2>1, <2>2 DEF Aligned
<1>8. IsReading(sent'[taken' + 1], Left(sent', taken' + 1), doc', node', root', Remaining')
  BY <1>1, <1>3, <1>4, <1>7
<1>9. taken' < Len(sent')
  BY <1>1, <1>2
<1> QED
  BY <1>6, <1>8, <1>9 DEF WithinDocument

\* The reader takes the end of the document.
LEMMA ReadsTheEnd ==
    ASSUME ConnectionInv, taken <= Len(sent), Aligned, ReadStops
    PROVE  /\ taken \in Nat /\ taken < Len(sent)
           /\ Remaining' = Left(sent, taken + 1) /\ DocGiven(sent[taken + 1], doc)
<1> DEFINE c == Head(buffer)
<1>1. Reading /\ Take /\ c.ctrl = "END" /\ Stops
      /\ StreamsOK /\ buffer # << >> /\ client = "reading"
  BY DEF ReadStops, Reading, ConnectionInv
<1> HIDE DEF c
<1>2. taken \in Nat /\ taken < Len(sent) /\ sent[taken + 1] \in Event
      /\ Left(sent, taken + 1) \in Stream /\ IsTree(sent[taken + 1])
  BY <1>1, ReaderIs
<1>3. PICK t : t = sent[taken + 1]
  OBVIOUS
<1>4. PICK F : F = Left(sent, taken + 1)
  OBVIOUS
<1>5. F \in Stream /\ IsTree(t) /\ t \in Event
  BY <1>2, <1>3, <1>4
<1>6. CASE WithinDocument
  <2>1. IsReading(t, F, doc, node, root, Remaining)
    BY <1>6, <1>3, <1>4 DEF WithinDocument
  <2>2. PICK s, A, off, X : Tables(t, s, A) /\ StillAt(t, s, A, off, X, doc, node, root)
                            /\ Remaining = X \o F
    BY <2>1 DEF IsReading
  <2>3. PICK i, m, a : Place(t, s, A, i, m, a, X) /\ AtNode(t, i, m, a, off, doc, node, root)
    BY <2>2 DEF StillAt
  <2>4. PICK k, Y : Begins(X, k, Y) /\ Goes(t, s, A, i, m, a, k, Y)
    BY <2>2, <2>3, PlaceGoes DEF GoesOn
  <2>5. c = k /\ Remaining' = Y \o F
    BY <1>1, <1>5, <2>2, <2>4, TakesNext DEF c
  <2>6. ToEnd(t, i, m, a, k, Y)
    BY <1>1, <2>2, <2>3, <2>4, <2>5, EndOnlyLast
  <2>7. Y = << >> /\ m = Len(t) /\ a = Len(t[m].attrs)
    BY <2>6 DEF ToEnd
  <2>8. Remaining' = F
    BY <1>5, <2>5, <2>7, NothingJoined
  <2>9. DocSoFar(t, Len(t), Len(t[Len(t)].attrs), off, doc)
    BY <2>3, <2>7 DEF AtNode
  <2>10. DocGiven(t, doc)
    BY <1>5, <2>9, DocEnds
  <2> QED
    BY <1>2, <1>3, <1>4, <2>8, <2>10
<1>7. CASE Beginning
  <2>1. PICK s, A, Y : /\ Tables(t, s, A) /\ Begins(Store(t), Start(t, 1), Y)
                       /\ Starting(t, s, A, 1, 1, 0, Y)
    BY <1>5, StoreBegins
  <2>2. Remaining = Store(t) \o F
    BY <1>2, <1>3, <1>4, <1>7, LeftFirst DEF Beginning, ConnectionInv, HistoryOK
  <2>3. c = Start(t, 1)
    BY <1>1, <1>5, <2>1, <2>2, TakesNext DEF c
  <2> QED
    BY <1>1, <1>5, <2>3, FirstIsFirst
<1> QED
  BY <1>1, <1>6, <1>7 DEF Aligned

\* A connection just opened, or opened again, has nothing to read.
Opened ==
    /\ client # "reading" /\ unwritten = << >> /\ socket = << >> /\ buffer = << >>
    /\ sent = << >> /\ taken = 0 /\ got = << >>

\* It has what it has been sent: nothing.
LEMMA OpenedEvents == Opened => EventsInv
<1> SUFFICES ASSUME Opened PROVE EventsInv
  OBVIOUS
<1> USE DEF Opened
<1>1. sent \in Seq(Event) /\ Len(sent) = 0
  BY EmptySeq
<1>2. Left(sent, taken) = << >>
  <2>1. Left(sent, Len(sent)) = << >>
    BY <1>1, LeftNone
  <2> QED
    BY <1>1, <2>1
<1>3. Remaining = << >>
  <2>1. << >> \o << >> = << >>
    BY NothingJoined DEF Stream
  <2> QED
    BY <2>1 DEF Remaining
<1>4. HasGot(sent, taken, got)
  BY GotNone
<1> QED
  BY <1>1, <1>2, <1>3, <1>4 DEF EventsInv, Aligned

\* The core raises an event.
LEMMA RaiseKeepsEvents ==
    ASSUME ConnectionInv, EventsInv, ~broken, NEW e \in Event, Raise(e)
    PROVE  EventsInv'
<1>1. sent \in Seq(Event) /\ taken \in Nat /\ StreamsOK /\ taken <= Len(sent)
      /\ HasGot(sent, taken, got) /\ Aligned
  BY DEF ConnectionInv, HistoryOK, EventsInv
<1>2. sent' = Append(sent, e) /\ taken' = taken /\ got' = got /\ client' = client
      /\ doc' = doc /\ node' = node /\ root' = root /\ fresh' = fresh
  BY DEF Raise, readerVars
<1>3. Remaining' = Remaining \o Store(e) /\ Store(e) \in Stream
  BY <1>1, RaiseAdds, StoreInStream
<1> DEFINE w == Append(sent, e)
<1>4. Len(sent) \in Nat /\ Len(w) = Len(sent) + 1 /\ \A k \in 1 .. Len(sent) : w[k] = sent[k]
  BY <1>1, AppendProperties
<1>5. Left(w, taken) = Left(sent, taken) \o Store(e)
  BY <1>1, LeftMore
<1>6. taken < Len(sent) => Left(w, taken + 1) = Left(sent, taken + 1) \o Store(e)
                           /\ w[taken + 1] = sent[taken + 1]
  <2> SUFFICES ASSUME taken < Len(sent)
               PROVE  Left(w, taken + 1) = Left(sent, taken + 1) \o Store(e)
                      /\ w[taken + 1] = sent[taken + 1]
    OBVIOUS
  <2> DEFINE k == taken + 1
  <2>1. k \in 0 .. Len(sent) /\ k \in 1 .. Len(sent)
    BY <1>1
  <2> HIDE DEF k
  <2>2. Left(w, k) = Left(sent, k) \o Store(e)
    BY <1>1, <2>1, LeftMore
  <2> QED
    BY <1>4, <2>1, <2>2 DEF k
<1> HIDE DEF w
<1>7. sent' = w
  BY <1>2 DEF w
<1>8. taken' <= Len(sent')
  BY <1>1, <1>2, <1>4, <1>7
<1>9. HasGot(sent', taken', got')
  <2>1. \A k \in 1 .. taken : k \in 1 .. Len(sent)
    BY <1>1
  <2>2. SameTo(sent, w, taken)
    BY <1>4, <2>1 DEF SameTo
  <2>3. HasGot(w, taken, got)
    BY <1>1, <2>2, GotSame
  <2> QED
    BY <1>2, <1>7, <2>3
<1>10. CASE client # "reading"
  <2>1. Remaining' = Left(sent', taken')
    BY <1>1, <1>2, <1>3, <1>5, <1>7, <1>10 DEF Aligned
  <2> QED
    BY <1>2, <1>8, <1>9, <1>10, <2>1 DEF EventsInv, Aligned
<1>11. CASE client = "reading" /\ Beginning
  <2>1. Remaining' = Left(sent', taken')
    BY <1>2, <1>3, <1>5, <1>7, <1>11 DEF Beginning
  <2>2. Beginning'
    BY <1>2, <1>11, <2>1 DEF Beginning
  <2> QED
    BY <1>2, <1>8, <1>9, <1>11, <2>2 DEF EventsInv, Aligned
<1>12. CASE client = "reading" /\ WithinDocument
  <2>1. taken < Len(sent)
        /\ IsReading(sent[taken + 1], Left(sent, taken + 1), doc, node, root, Remaining)
    BY <1>12 DEF WithinDocument
  <2>2. PICK t : t = sent[taken + 1]
    OBVIOUS
  <2>3. PICK F : F = Left(sent, taken + 1)
    OBVIOUS
  <2>4. F \in Stream
    <3>1. taken + 1 \in 0 .. Len(sent)
      BY <1>1, <2>1
    <3> QED
      BY <1>1, <2>3, <3>1, LeftIs
  <2>5. PICK z : z = Store(e)
    OBVIOUS
  <2>6. PICK R : R = Remaining
    OBVIOUS
  <2>7. IsReading(t, F \o z, doc, node, root, R \o z)
    <3>1. IsReading(t, F, doc, node, root, R) /\ z \in Stream
      BY <1>3, <2>1, <2>2, <2>3, <2>5, <2>6
    <3> QED
      BY <2>4, <3>1, MoreBehind
  <2>8. sent'[taken' + 1] = t /\ Left(sent', taken' + 1) = F \o z /\ Remaining' = R \o z
    BY <1>2, <1>3, <1>6, <1>7, <2>1, <2>2, <2>3, <2>5, <2>6
  <2>9. IsReading(sent'[taken' + 1], Left(sent', taken' + 1), doc', node', root', Remaining')
    BY <1>2, <2>7, <2>8
  <2>10. taken' < Len(sent')
    BY <1>1, <1>2, <1>4, <1>7, <2>1
  <2>11. WithinDocument'
    BY <1>2, <1>12, <2>9, <2>10 DEF WithinDocument
  <2> QED
    BY <1>2, <1>8, <1>9, <1>12, <2>11 DEF EventsInv, Aligned
<1> QED
  BY <1>1, <1>10, <1>11, <1>12 DEF Aligned

\* What remains of the stream, and all the rest, is left alone.
LEMMA StillAligned ==
    ASSUME EventsInv, ~broken, Remaining' = Remaining, UNCHANGED <<client, history, readerVars>>
    PROVE  EventsInv'
<1>1. sent' = sent /\ taken' = taken /\ got' = got /\ client' = client
      /\ doc' = doc /\ node' = node /\ root' = root /\ fresh' = fresh
  BY DEF history, readerVars
<1>2. Beginning => Beginning'
  BY <1>1 DEF Beginning
<1>3. WithinDocument => WithinDocument'
  BY <1>1 DEF WithinDocument
<1>4. Aligned => Aligned'
  BY <1>1, <1>2, <1>3 DEF Aligned
<1> QED
  BY <1>1, <1>4 DEF EventsInv

\* Every step keeps what is read aligned with what was raised.
LEMMA StepKeepsEvents == ConnectionInv /\ ConnectionInv' /\ EventsInv /\ [Next]_vars => EventsInv'
<1> SUFFICES ASSUME ConnectionInv, ConnectionInv', EventsInv, [Next]_vars, ~broken'
             PROVE  EventsInv'
  BY DEF EventsInv
<1>0. StreamsOK /\ taken \in Nat /\ client \in {"polling", "reading", "looping"}
  BY DEF ConnectionInv, HistoryOK
<1>1. ASSUME NEW e \in Event, Raise(e) PROVE EventsInv'
  <2>1. ~broken
    BY <1>1 DEF Raise, broken
  <2> QED
    BY <1>1, <2>1, RaiseKeepsEvents
<1>2. ASSUME NEW n \in 1 .. Len(unwritten), Write(n) PROVE EventsInv'
  <2>1. ~broken /\ UNCHANGED <<client, history, readerVars>>
    BY <1>2 DEF Write, broken
  <2> QED
    BY <1>0, <1>2, <2>1, WriteKeeps, StillAligned
<1>3. ASSUME Get PROVE EventsInv'
  <2>1. ~broken /\ client # "reading" /\ client' = "reading"
        /\ sent' = sent /\ taken' = taken /\ got' = got
    BY <1>3 DEF Get, broken, history
  <2>2. taken <= Len(sent) /\ HasGot(sent, taken, got) /\ Remaining = Left(sent, taken)
    BY <2>1 DEF EventsInv, Aligned
  <2>3. Remaining' = Remaining
    BY <1>3 DEF Get, streams, Remaining
  <2>4. Beginning'
    BY <1>3, <2>1, <2>2, <2>3 DEF Get, BeginRead, Beginning
  <2> QED
    BY <2>1, <2>2, <2>4 DEF EventsInv, Aligned
<1>4. ASSUME LoopEnds PROVE EventsInv'
  <2>1. ~broken /\ client # "reading" /\ client' # "reading"
        /\ sent' = sent /\ taken' = taken /\ got' = got
    BY <1>4 DEF LoopEnds, broken, history
  <2>2. taken <= Len(sent) /\ HasGot(sent, taken, got) /\ Remaining = Left(sent, taken)
    BY <2>1 DEF EventsInv, Aligned
  <2>3. Remaining' = Remaining
    BY <1>4 DEF LoopEnds, streams, Remaining
  <2> QED
    BY <2>1, <2>2, <2>3 DEF EventsInv, Aligned
<1>5. ASSUME Fill PROVE EventsInv'
  <2>1. ~broken /\ UNCHANGED <<client, history, readerVars>>
    BY <1>5 DEF Fill, broken
  <2> QED
    BY <1>0, <1>5, <2>1, FillKeeps, StillAligned
<1>6. ASSUME ReadOn PROVE EventsInv'
  <2>1. ~broken /\ client = "reading" /\ client' = client
        /\ sent' = sent /\ taken' = taken /\ got' = got
    BY <1>6 DEF ReadOn, Reading, broken, history
  <2>2. taken <= Len(sent) /\ HasGot(sent, taken, got) /\ Aligned
    BY <2>1 DEF EventsInv
  <2>3. WithinDocument'
    BY <1>6, <2>2, ReadsOn DEF ConnectionInv
  <2> QED
    BY <2>1, <2>2, <2>3 DEF EventsInv, Aligned
<1>7. ASSUME ReadStops PROVE EventsInv'
  <2>1. ~broken /\ client' = "looping" /\ sent' = sent /\ taken' = taken + 1
        /\ got' = IF IsEvent(doc) THEN Append(got, doc) ELSE got
    BY <1>7 DEF ReadStops, broken
  <2>2. taken <= Len(sent) /\ HasGot(sent, taken, got) /\ Aligned
    BY <2>1 DEF EventsInv
  <2>3. taken < Len(sent) /\ Remaining' = Left(sent, taken + 1)
        /\ DocGiven(sent[taken + 1], doc)
    BY <1>7, <2>2, ReadsTheEnd
  <2>4. HasGot(sent, taken + 1, got')
    <3>1. HasGot(sent, taken + 1, IF IsEvent(doc) THEN Append(got, doc) ELSE got)
      BY <1>0, <2>2, <2>3, GotMore
    <3> QED
      BY <2>1, <3>1
  <2>5. taken' <= Len(sent')
    <3>1. Len(sent) \in Nat
      BY DEF ConnectionInv, HistoryOK
    <3> QED
      BY <1>0, <2>1, <2>3, <3>1
  <2>6. HasGot(sent', taken', got') /\ Remaining' = Left(sent', taken')
    BY <2>1, <2>3, <2>4
  <2> QED
    BY <2>1, <2>5, <2>6 DEF EventsInv, Aligned
<1>8. ASSUME Refuse PROVE EventsInv'
  BY <1>8 DEF Refuse, Fail, broken
<1>9. ASSUME GiveUp PROVE EventsInv'
  <2>1. ~broken /\ fresh /\ client = "reading" /\ client' = "looping"
        /\ sent' = sent /\ taken' = taken /\ got' = got
    <3>1. fresh' = fresh /\ Fail /\ client = "reading"
      BY <1>9 DEF GiveUp
    <3>2. ~broken /\ fresh'
      BY <3>1 DEF Fail, broken
    <3> QED
      BY <3>1, <3>2 DEF Fail, history
  <2>2. taken <= Len(sent) /\ HasGot(sent, taken, got) /\ Aligned
    BY <2>1 DEF EventsInv
  <2>3. Beginning
    BY <2>1, <2>2 DEF Aligned, WithinDocument
  <2>4. Remaining' = Remaining
    BY <1>9 DEF GiveUp, streams, Remaining
  <2>5. Remaining' = Left(sent', taken')
    BY <2>1, <2>3, <2>4 DEF Beginning
  <2> QED
    BY <2>1, <2>2, <2>5 DEF EventsInv, Aligned
<1>10. ASSUME Reopen PROVE EventsInv'
  <2>1. Opened'
    BY <1>10 DEF Reopen, Opened
  <2>2. Opened' => EventsInv'
    BY OpenedEvents, PTL
  <2> QED
    BY <2>1, <2>2
<1>11. CASE UNCHANGED vars
  <2>1. ~broken /\ UNCHANGED <<client, history, readerVars>> /\ Remaining' = Remaining
    BY <1>11 DEF vars, streams, broken, Remaining
  <2> QED
    BY <2>1, StillAligned
<1> QED
  BY <1>1, <1>2, <1>3, <1>4, <1>5, <1>6, <1>7, <1>8, <1>9, <1>10, <1>11
     DEF Next, Core, Client

\* What the client got is what EventsOf says.
LEMMA GotIsEventsOf ==
    ASSUME taken \in Nat, HasGot(sent, taken, got)
    PROVE  got = EventsOf[taken]
<1> DEFINE n == taken
           Step(g, k) == IF k = 0 THEN << >>
                         ELSE IF IsEvent(AsRead(sent[k])) THEN Append(g[k - 1], AsRead(sent[k]))
                         ELSE g[k - 1]
           Defines(g) == g = [k \in 0 .. n |->
                                IF k = 0 THEN << >>
                                ELSE IF IsEvent(AsRead(sent[k]))
                                     THEN Append(g[k - 1], AsRead(sent[k]))
                                ELSE g[k - 1]]
<1>1. PICK g : GotTable(sent, n, g) /\ got = g[n]
  BY DEF HasGot
<1> DEFINE h == [k \in 0 .. n |-> g[k]]
<1>2. \A k \in 0 .. n : h[k] = Step(h, k)
  <2> SUFFICES ASSUME NEW k \in 0 .. n PROVE h[k] = Step(h, k)
    OBVIOUS
  <2>1. CASE k = 0
    BY <1>1, <2>1 DEF GotTable
  <2>2. CASE k # 0
    <3>1. k \in 1 .. n /\ k - 1 \in 0 .. n
      BY <2>2
    <3>2. h[k] = g[k] /\ h[k - 1] = g[k - 1]
      BY <3>1
    <3> QED
      BY <1>1, <2>2, <3>1, <3>2 DEF GotTable
  <2> QED
    BY <2>1, <2>2
<1>3. h = [k \in 0 .. n |-> h[k]]
  OBVIOUS
<1>4. h[n] = got
  BY <1>1
<1> HIDE DEF h
<1>5. Defines(h)
  <2>1. [k \in 0 .. n |-> h[k]] = [k \in 0 .. n |-> Step(h, k)]
    BY <1>2
  <2> QED
    BY <1>3, <2>1
<1>6. EventsOf = CHOOSE f : Defines(f)
  BY DEF EventsOf
<1> HIDE DEF Defines
<1>7. Defines(EventsOf)
  BY <1>5, <1>6
<1>8. \A k \in 0 .. n : EventsOf[k] = Step(EventsOf, k)
  BY <1>7 DEF Defines
<1> DEFINE B == {k \in 0 .. n : EventsOf[k] # h[k]}
<1>9. ASSUME NEW k \in B PROVE k # 0 /\ k - 1 \in B
  <2>1. k \in 0 .. n /\ EventsOf[k] # h[k] /\ EventsOf[k] = Step(EventsOf, k) /\ h[k] = Step(h, k)
    BY <1>2, <1>8
  <2>2. k # 0
    BY <2>1
  <2>3. k - 1 \in 0 .. n
    BY <2>1, <2>2
  <2>4. EventsOf[k - 1] # h[k - 1]
    BY <2>1, <2>2
  <2> QED
    BY <2>2, <2>3, <2>4
<1>10. B = {}
  <2>1. B \in SUBSET Nat
    OBVIOUS
  <2> QED
    BY <1>9, <2>1, NoneIsFirst
<1>11. n \in 0 .. n
  OBVIOUS
<1> QED
  BY <1>4, <1>10, <1>11

-----------------------------------------------------------------------------
\* At every moment of every connection the invariant holds.
THEOREM ConnectionInvariance == Spec => []ConnectionInv
PROOF
<1>1. Init => ConnectionInv
  BY OpenInv
<1>2. ConnectionInv /\ [Next]_vars => ConnectionInv'
  BY StepKeepsInv
<1> QED
  BY <1>1, <1>2, PTL DEF Spec

\* Every variable has its type, the buffer never holds more than fits.
THEOREM ConnectionTypes == Spec => []TypeOK
PROOF
<1>1. ConnectionInv => TypeOK
  BY DEF ConnectionInv, StreamsOK, DocOK, HistoryOK, TypeOK
<1> QED
  BY <1>1, ConnectionInvariance, PTL

\* Whatever the core sends and wherever a call fails, what is read is a tree.
THEOREM DocumentsAreTrees == Spec => []ReadIsTree
PROOF
<1>1. ConnectionInv => ReadIsTree
  BY DEF ConnectionInv
<1> QED
  BY <1>1, ConnectionInvariance, PTL

\* Whatever is raised, however the stream is cut and whenever the client calls, what remains
\* of the stream is what the document that the reader is in still has, and the events not yet
\* taken, until a call fails within an event.
THEOREM StreamInvariance == Spec => [](ConnectionInv /\ EventsInv)
<1>1. Init => ConnectionInv /\ EventsInv
  <2>1. Init => EventsInv
    BY OpenedEvents DEF Init, Opened
  <2> QED
    BY <2>1, OpenInv
<1>2. ConnectionInv /\ EventsInv /\ [Next]_vars => (ConnectionInv /\ EventsInv)'
  BY StepKeepsInv, StepKeepsEvents
<1> QED
  BY <1>1, <1>2, PTL DEF Spec

\* So the reader stops where the writer did, and the client gets what was raised, whole and
\* in its order: what ndm_core_event_connection_get() gives is never made of two events.
THEOREM EventsStayWhole == Spec => []EventsAreWhole
<1>1. ConnectionInv /\ EventsInv => EventsAreWhole
  <2> SUFFICES ASSUME ConnectionInv, EventsInv, ~broken PROVE EventsAreWhole
    BY DEF EventsAreWhole, StreamAligned, GotIsSent
  <2>1. taken \in Nat /\ HasGot(sent, taken, got) /\ Aligned
    BY DEF ConnectionInv, HistoryOK, EventsInv
  <2>2. StreamAligned
    BY <2>1 DEF StreamAligned, Aligned, Remaining, Left
  <2>3. GotIsSent
    BY <2>1, GotIsEventsOf DEF GotIsSent
  <2> QED
    BY <2>2, <2>3 DEF EventsAreWhole
<1> QED
  BY <1>1, StreamInvariance, PTL
=============================================================================
