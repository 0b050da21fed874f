------------------------------ MODULE XmlTree ------------------------------
(***************************************************************************)
(* XML documents as the library keeps them: nodes and attributes allocated *)
(* from the pool of their document, joined by hand into lists.  A node has *)
(* the first and the last of its children, a child its parent and both its *)
(* siblings; attributes hang on their node in the same way.  The calls     *)
(* trust these links and check nothing but their assertions, which are the *)
(* guards here.                                                            *)
(*                                                                         *)
(* A name and a value are treated alike and are one label.                 *)
(***************************************************************************)
EXTENDS Integers, SequencesExt

CONSTANTS
    Doc,      \* the documents of the program
    Node,     \* addresses of nodes
    Attr,     \* addresses of attributes
    Label,    \* what a node or an attribute says, Null if nothing
    Null

ASSUME NullAssumption == Null \notin Doc \cup Node \cup Attr \cup Label
ASSUME AddressAssumption == Node \cap Attr = {}
ASSUME MemoryAssumption == IsFiniteSet(Node) /\ IsFiniteSet(Attr)

VARIABLES
    kids,     \* links of nodes
    attrs,    \* links of attributes
    label,    \* the label of every node and attribute
    doc,      \* the document each was allocated from, Null when it is not
    root,     \* __root of every document
    valid     \* ndm_pool_is_valid() of its pool

treeVars == <<kids, attrs, label, doc, root, valid>>

Links(Owner, Item) ==
    [first : [Owner -> Item \cup {Null}], last : [Owner -> Item \cup {Null}],
     owner : [Item -> Owner \cup {Null}],
     next  : [Item -> Item \cup {Null}],  prev : [Item -> Item \cup {Null}]]

Unlinked(Owner, Item) ==
    [first |-> [p \in Owner |-> Null], last |-> [p \in Owner |-> Null],
     owner |-> [c \in Item |-> Null],
     next  |-> [c \in Item |-> Null],  prev |-> [c \in Item |-> Null]]

-----------------------------------------------------------------------------
(* Lists.  L is the links, p the owner of a list, c an item. *)

\* g with x led to y, if there is an x.
Lead(g, x, y) == IF x = Null THEN g ELSE [g EXCEPT ![x] = y]

\* ndm_xml_node_prepend_child()
Prepend(L, p, c) ==
    LET f == L.first[p] IN
    [L EXCEPT !.first[p] = c, !.last[p] = IF f = Null THEN c ELSE @,
              !.owner[c] = p, !.next[c] = f,
              !.prev = [Lead(@, f, c) EXCEPT ![c] = Null]]

\* ndm_xml_node_append_child()
AppendTo(L, p, c) ==
    LET l == IF L.first[p] = Null THEN Null ELSE L.last[p] IN
    [L EXCEPT !.first[p] = IF @ = Null THEN c ELSE @, !.last[p] = c,
              !.owner[c] = p, !.prev[c] = l,
              !.next = [Lead(@, l, c) EXCEPT ![c] = Null]]

\* The last branch of ndm_xml_node_insert_child().
Between(L, p, w, c) ==
    [L EXCEPT !.owner[c] = p,
              !.next = [Lead(@, L.prev[w], c) EXCEPT ![c] = w],
              !.prev = [@ EXCEPT ![c] = L.prev[w], ![w] = c]]

\* ndm_xml_node_insert_child()
InsertBefore(L, p, w, c) ==
    IF w = L.first[p] THEN Prepend(L, p, c)
    ELSE IF w = Null THEN AppendTo(L, p, c)
    ELSE Between(L, p, w, c)

\* ndm_xml_node_remove_first_child()
WithoutFirst(L, p) ==
    LET c == L.first[p] IN
    [L EXCEPT !.first[p] = L.next[c], !.owner[c] = Null,
              !.last[p] = IF L.next[c] = Null THEN Null ELSE @,
              !.prev = Lead(@, L.next[c], Null)]

\* ndm_xml_node_remove_last_child(): the only child stays the last one.
WithoutLast(L, p) ==
    LET c == L.last[p] IN
    [L EXCEPT !.first[p] = IF L.prev[c] = Null THEN Null ELSE @,
              !.last[p] = IF L.prev[c] = Null THEN @ ELSE L.prev[c],
              !.owner[c] = Null,
              !.next = Lead(@, L.prev[c], Null)]

\* The last branch of ndm_xml_node_remove_child().
Inner(L, c) ==
    [L EXCEPT !.owner[c] = Null,
              !.next = Lead(@, L.prev[c], L.next[c]),
              !.prev = Lead(@, L.next[c], L.prev[c])]

\* ndm_xml_node_remove_child()
Without(L, p, c) ==
    IF c = L.first[p] THEN WithoutFirst(L, p)
    ELSE IF c = L.last[p] THEN WithoutLast(L, p)
    ELSE Inner(L, c)

\* The items that the loop of ndm_xml_node_remove_all_children() meets from c
\* on: c and whatever next leads to.
From(L, c) ==
    {x \in DOMAIN L.next :
        \A S \in SUBSET DOMAIN L.next :
            (c \in S /\ \A y \in S : L.next[y] \in S \cup {Null}) => x \in S}

\* ndm_xml_node_remove_all_children(): the item before start still leads to it.
WithoutAll(L, p, start) ==
    LET c == IF start = Null THEN L.first[p] ELSE start
        all == start \in {Null, L.first[p]}
    IN [L EXCEPT !.owner = [x \in DOMAIN @ |->
                              IF x \in From(L, c) THEN Null ELSE @[x]],
                 !.first[p] = IF all THEN Null ELSE @,
                 !.last[p] = IF all THEN Null ELSE L.prev[start]]

Members(L, p) == {c \in DOMAIN L.owner : L.owner[c] = p}

\* The list of p, from its first item to its last.
Chain(L, p) ==
    LET most == Cardinality(DOMAIN L.owner)
        item[n \in 1 .. most] ==
            IF n = 1 THEN L.first[p]
            ELSE IF item[n - 1] \in {Null, L.last[p]} THEN Null
            ELSE L.next[item[n - 1]]
        there == {n \in 1 .. most : item[n] # Null}
    IN [n \in 1 .. Cardinality(there) |-> item[n]]

\* Every list ends where its last item does.
Ended(L) == \A p \in DOMAIN L.first : L.first[p] # Null => L.next[L.last[p]] = Null

-----------------------------------------------------------------------------
(* Calls *)

\* The items met from x on going up: x, its owner, the owner of that.
Above(x) ==
    {y \in Node :
        \A S \in SUBSET Node :
            (x \in S /\ \A z \in S : kids.owner[z] \in S \cup {Null}) => y \in S}

Roots == {root[d] : d \in Doc}

InTree(d) == {n \in Node : root[d] \in Above(n)}

TreeInit ==
    /\ kids = Unlinked(Node, Node)
    /\ attrs = Unlinked(Node, Attr)
    /\ label \in [Node \cup Attr -> {Null}]
    /\ doc = [x \in Node \cup Attr |-> Null]
    /\ root = [d \in Doc |-> Null]
    /\ valid = [d \in Doc |-> TRUE]

Of(d) == {x \in Node \cup Attr : doc[x] = d}

\* f without what it says of the addresses in S.
Forget(f, S) == [x \in DOMAIN f |-> IF x \in S THEN Null ELSE f[x]]

ForgetLinks(L, S) == [k \in DOMAIN L |-> Forget(L[k], S)]

\* An allocation that fails: none succeeds from then on until the document is
\* cleared.
Exhaust(d) ==
    /\ valid' = [valid EXCEPT ![d] = FALSE]
    /\ UNCHANGED <<kids, attrs, label, doc, root>>

\* x is allocated from d with a label.
Allocated(x, d, l) ==
    /\ valid[d] /\ doc[x] = Null
    /\ doc' = [doc EXCEPT ![x] = d]
    /\ label' = [label EXCEPT ![x] = l]
    /\ UNCHANGED <<root, valid>>

\* ndm_xml_document_alloc_node(), ndm_xml_document_alloc_attr()
Alloc(x, d, l) == Allocated(x, d, l) /\ UNCHANGED <<kids, attrs>>

\* ndm_xml_document_clear()
Clear(d) ==
    /\ kids' = ForgetLinks(kids, Of(d))
    /\ attrs' = ForgetLinks(attrs, Of(d))
    /\ label' = Forget(label, Of(d))
    /\ doc' = Forget(doc, Of(d))
    /\ root' = [root EXCEPT ![d] = Null]
    /\ valid' = [valid EXCEPT ![d] = TRUE]

\* ndm_xml_document_alloc_root(), when there is room for the root
AllocRoot(d, n) ==
    /\ doc[n] = Null
    /\ kids' = ForgetLinks(kids, Of(d))
    /\ attrs' = ForgetLinks(attrs, Of(d))
    /\ label' = Forget(label, Of(d))
    /\ doc' = [Forget(doc, Of(d)) EXCEPT ![n] = d]
    /\ root' = [root EXCEPT ![d] = n]
    /\ valid' = [valid EXCEPT ![d] = TRUE]

KidsBecome(L) == kids' = L /\ UNCHANGED <<attrs, label, doc, root, valid>>
AttrsBecome(L) == attrs' = L /\ UNCHANGED <<kids, label, doc, root, valid>>

\* Mutant of Addable: a child may have another parent.
AddableTwice(p, c) ==
    /\ doc[p] # Null /\ doc[c] = doc[p]
    /\ c # root[doc[c]]
    /\ c \notin Above(p)

\* What the assertions ask of a child to come: it has no parent, is no document
\* and belongs to the document of p.  That p is not below it is up to the caller.
Addable(p, c) ==
    /\ doc[p] # Null /\ doc[c] = doc[p]
    /\ kids.owner[c] = Null /\ c # root[doc[c]]
    /\ c \notin Above(p)

PrependChild(p, c) == Addable(p, c) /\ KidsBecome(Prepend(kids, p, c))
AppendChild(p, c) == Addable(p, c) /\ KidsBecome(AppendTo(kids, p, c))

InsertChild(p, w, c) ==
    /\ Addable(p, c)
    /\ w # Null => kids.owner[w] = p
    /\ KidsBecome(InsertBefore(kids, p, w, c))

\* ndm_xml_node_append_child_str(), _int(), _uint() with room for everything
AppendChildStr(p, c, l) ==
    /\ doc[p] # Null
    /\ Allocated(c, doc[p], l)
    /\ kids' = AppendTo(kids, p, c)
    /\ UNCHANGED attrs

RemoveFirstChild(p) ==
    kids.first[p] # Null /\ KidsBecome(WithoutFirst(kids, p))
RemoveLastChild(p) ==
    kids.first[p] # Null /\ KidsBecome(WithoutLast(kids, p))

RemoveChild(p, c) ==
    kids.owner[c] = p /\ KidsBecome(Without(kids, p, c))

RemoveAllChildren(p, start) ==
    /\ IF start = Null THEN kids.first[p] # Null ELSE kids.owner[start] = p
    /\ KidsBecome(WithoutAll(kids, p, start))

AttrAddable(p, a) == doc[p] # Null /\ doc[a] = doc[p] /\ attrs.owner[a] = Null

PrependAttr(p, a) == AttrAddable(p, a) /\ AttrsBecome(Prepend(attrs, p, a))
AppendAttr(p, a) == AttrAddable(p, a) /\ AttrsBecome(AppendTo(attrs, p, a))

InsertAttr(p, w, a) ==
    /\ AttrAddable(p, a)
    /\ w # Null => attrs.owner[w] = p
    /\ AttrsBecome(InsertBefore(attrs, p, w, a))

\* ndm_xml_node_append_attr_str(), _int(), _uint() with room for everything
AppendAttrStr(p, a, l) ==
    /\ doc[p] # Null
    /\ Allocated(a, doc[p], l)
    /\ attrs' = AppendTo(attrs, p, a)
    /\ UNCHANGED kids

RemoveFirstAttr(p) ==
    attrs.first[p] # Null /\ AttrsBecome(WithoutFirst(attrs, p))
RemoveLastAttr(p) ==
    attrs.first[p] # Null /\ AttrsBecome(WithoutLast(attrs, p))
RemoveAttr(p, a) ==
    attrs.owner[a] = p /\ AttrsBecome(Without(attrs, p, a))
RemoveAllAttrs(p) ==
    attrs.first[p] # Null /\ AttrsBecome(WithoutAll(attrs, p, Null))

\* ndm_xml_node_set_name(), _set_value() and those of attributes.
SetLabel(x, l) ==
    /\ doc[x] # Null
    /\ label' = [label EXCEPT ![x] = l]
    /\ UNCHANGED <<kids, attrs, doc, root, valid>>

\* M with the lists of L, each item replaced by what f makes of it.
Image(L, f, M) ==
    LET back(y) == CHOOSE x \in DOMAIN f : f[x] = y
        copied(x) == IF x \in DOMAIN f THEN f[x] ELSE Null
        empty(k, x) == k = "last" /\ L.first[x] = Null
    IN [k \in DOMAIN M |->
          [y \in DOMAIN M[k] |->
             IF y \notin Range(f) THEN M[k][y]
             ELSE IF empty(k, back(y)) THEN Null ELSE copied(L[k][back(y)])]]

\* Addresses for copies of what is in S, if there are enough: which they are does
\* not matter, and the ones just given back are not used at once.
Fresh(S) ==
    LET free == {x \in Node \cup Attr : doc[x] = Null}
        OfKind(f) == \A x \in S : x \in Node <=> f[x] \in Node
        places == {f \in [S -> free] : OfKind(f) /\ IsInjective(f)}
    IN IF places = {} THEN {} ELSE {CHOOSE f \in places : TRUE}

\* Mutant of Ours: the attributes stay behind.
OursWithoutAttrs(s) == InTree(s)

\* What is copied: the tree and its attributes.
Ours(s) == InTree(s) \cup {a \in Attr : attrs.owner[a] \in InTree(s)}

\* ndm_xml_document_copy() of a document that is not empty, with room for all of
\* it.  The copy walks by next_sibling, which must not leave the tree.
CopyDocument(d, s) ==
    /\ Ended(kids) /\ root[s] # Null /\ d # s
    /\ \E f \in Fresh(Ours(s)) :
          LET Back(x) == CHOOSE y \in DOMAIN f : f[y] = x
              new == Range(f)
          IN
          /\ kids' = Image(kids, f, ForgetLinks(kids, Of(d)))
          /\ attrs' = Image(attrs, f, ForgetLinks(attrs, Of(d)))
          /\ label' = [x \in DOMAIN label |->
                         IF x \in new THEN label[Back(x)]
                         ELSE Forget(label, Of(d))[x]]
          /\ doc' = [x \in DOMAIN doc |->
                       IF x \in new THEN d ELSE Forget(doc, Of(d))[x]]
          /\ root' = [root EXCEPT ![d] = f[root[s]]]
          /\ valid' = [valid EXCEPT ![d] = TRUE]

\* ndm_xml_document_copy() otherwise: the destination is cleared first, which
\* empties a document copied to itself.
CopyNothing(d, s) == Clear(d)

\* __ndm_xml_node_is_equal()
NodesEqual(m, n) ==
    LET Same(x, y) == label[x] = label[y]
        equal[x \in Node, y \in Node] ==
           LET ax == Chain(attrs, x)  ay == Chain(attrs, y)
               kx == Chain(kids, x)   ky == Chain(kids, y)
           IN /\ Same(x, y) /\ (x \in Roots <=> y \in Roots)
              /\ Len(ax) = Len(ay) /\ \A i \in DOMAIN ax : Same(ax[i], ay[i])
              /\ Len(kx) = Len(ky) /\ \A i \in DOMAIN kx : equal[kx[i], ky[i]]
    IN equal[m, n]

\* ndm_xml_document_is_equal()
IsEqual(d, s) ==
    /\ valid[d] /\ valid[s]
    /\ root[d] = Null <=> root[s] = Null
    /\ root[d] # Null => NodesEqual(root[d], root[s])

-----------------------------------------------------------------------------
(* Searches.  A search without a name, Null here, takes the first it meets. *)

\* The first from x on, by the links in g, that is labelled l.
Search(g, x, l) ==
    LET most == Cardinality(DOMAIN g)
        met[n \in 0 .. most] ==
            IF n = 0 THEN x
            ELSE IF met[n - 1] = Null THEN Null ELSE g[met[n - 1]]
        hits == {n \in 0 .. most : met[n] = Null \/ l \in {Null, label[met[n]]}}
    IN met[CHOOSE n \in hits : \A k \in hits : n <= k]

FirstItem(L, p, l) == Search(L.next, L.first[p], l)

\* Mutant of LastItem: the name is looked at only if there is no first item.
LastItemUnnamed(L, p, l) ==
    Search(L.prev, L.last[p], IF L.first[p] # Null THEN Null ELSE l)

\* The name is looked at only if there is a first item.
LastItem(L, p, l) ==
    Search(L.prev, L.last[p], IF L.first[p] = Null THEN Null ELSE l)

-----------------------------------------------------------------------------
\* The lists agree with the links: each has a first and a last member or no
\* member at all, and members lead to each other both ways.
Agree(L) ==
    \A p \in DOMAIN L.first :
       /\ L.first[p] = Null <=> Members(L, p) = {}
       /\ L.first[p] # Null =>
             L.first[p] \in Members(L, p) /\ L.last[p] \in Members(L, p)
       /\ \A c \in Members(L, p) :
             /\ IF c = L.first[p] THEN L.prev[c] = Null
                ELSE L.prev[c] \in Members(L, p) /\ L.next[L.prev[c]] = c
             /\ c # L.last[p] =>
                   L.next[c] \in Members(L, p) /\ L.prev[L.next[c]] = c

LinksAgree == Agree(kids) /\ Agree(attrs)

TreeNext ==
    /\ LinksAgree
    /\ \/ \E d \in Doc, x \in Node \cup Attr, l \in Label : Alloc(x, d, l)
       \/ \E x \in Node \cup Attr, l \in Label : SetLabel(x, l)
       \/ \E d \in Doc : Exhaust(d) \/ Clear(d) \/ \E n \in Node : AllocRoot(d, n)
       \/ \E d, s \in Doc : CopyDocument(d, s) \/ CopyNothing(d, s)
       \/ \E p, c \in Node :
             \/ PrependChild(p, c) \/ AppendChild(p, c)
             \/ \E w \in Node \cup {Null} : InsertChild(p, w, c)
             \/ \E l \in Label : AppendChildStr(p, c, l)
             \/ RemoveChild(p, c)
       \/ \E p \in Node :
             \/ RemoveFirstChild(p) \/ RemoveLastChild(p)
             \/ \E c \in Node \cup {Null} : RemoveAllChildren(p, c)
             \/ RemoveFirstAttr(p) \/ RemoveLastAttr(p) \/ RemoveAllAttrs(p)
       \/ \E p \in Node, a \in Attr :
             \/ PrependAttr(p, a) \/ AppendAttr(p, a)
             \/ \E w \in Attr \cup {Null} : InsertAttr(p, w, a)
             \/ \E l \in Label : AppendAttrStr(p, a, l)
             \/ RemoveAttr(p, a)

TreeSpec == TreeInit /\ [][TreeNext]_treeVars

-----------------------------------------------------------------------------
\* The list of p is the sequence s, the same from both ends, of the items that belong
\* to it; searches by label from either end find what the sequence has.  (Of an
\* empty list the last item is the one that ndm_xml_node_remove_last_child() took
\* away.)
IsSequence(L, p, s) ==
    LET n == Len(s)
        Hits(l) == {i \in 1 .. n : label[s[i]] = l}
    IN
    /\ ToSet(s) = Members(L, p) /\ IsInjective(s)
    /\ n > 0 => s[n] = L.last[p]
    /\ \A i \in 1 .. n : L.prev[s[i]] = IF i = 1 THEN Null ELSE s[i - 1]
    /\ \A l \in Label : LET h == Hits(l) IN
          /\ FirstItem(L, p, l) = IF h = {} THEN Null ELSE s[Min(h)]
          /\ n > 0 => LastItem(L, p, l) = IF h = {} THEN Null ELSE s[Max(h)]

\* Links that agree make sequences of the lists, as long as lists end with their
\* last item.
ListsAreSequences ==
    LinksAgree => \A L \in {kids, attrs} :
                     Ended(L) => \A p \in Node : IsSequence(L, p, Chain(L, p))

\* As long as lists end with their last item, every call keeps the links in
\* agreement, and they cease to end there in one way only: by removing all
\* children from one on that is not the first.
BreaksAreKnown ==
    [][Ended(kids) /\ Ended(attrs) =>
          /\ LinksAgree' /\ Ended(attrs)'
          /\ \/ Ended(kids)'
             \/ \E p, c \in Node : c # kids.first[p] /\ RemoveAllChildren(p, c)]_treeVars

Children == INSTANCE OrderedForest
    WITH Owner <- Node, Item <- Node, list <- [p \in Node |-> Chain(kids, p)],
         of <- [x \in Node |-> doc[x]]
Attributes == INSTANCE OrderedForest
    WITH Owner <- Node, Item <- Attr, list <- [p \in Node |-> Chain(attrs, p)],
         of <- [x \in Attr |-> doc[x]]

\* The links keep the promise of OrderedForest as long as lists end with their
\* last item: a call changes one list at one place, or one document; and but for
\* one call that is as long as the program runs.
PromiseKept ==
    /\ Children!Init /\ Attributes!Init
    /\ [][Ended(kids) => Children!Next /\ Attributes!Next]_treeVars
    /\ BreaksAreKnown

\* A copied document is equal to its original, which has not changed.
CopyIsEqual ==
    [][\A d, s \in Doc : CopyDocument(d, s) =>
          NodesEqual(root[d], root[s])' /\ InTree(s)' = InTree(s)]_treeVars
=============================================================================
