----------------------------- MODULE BinaryXml -----------------------------
(***************************************************************************)
(* The binary form of XML trees on the core's sockets: what the library    *)
(* writes for a tree and how it builds a tree from what it reads.          *)
(*                                                                         *)
(* A tree is the sequence of its nodes in document order, each with the    *)
(* place of its parent in the sequence: this is the order in which the     *)
(* reader allocates them, and the children of a node are always appended   *)
(* to it last.  A control is a control byte with the name and the value    *)
(* that follow it; the stream carries no length and no mark of its         *)
(* documents, so that the place where one ends is the reader's opinion.    *)
(***************************************************************************)
EXTENDS Naturals, Sequences, SequencesExt

CONSTANTS
    Name,    \* names of nodes and attributes, "" among them
    Value    \* values of nodes and attributes, "" among them

ASSUME EmptyAssumption == "" \in Name /\ "" \in Value

Named == {"element", "pi"}
Unnamed == {"data", "cdata", "comment", "declaration", "doctype"}
NodeType == {"document"} \cup Named \cup Unnamed

Null == 0

Attr == [name : Name, value : Value]

Node == [type : NodeType, name : Name, value : Value,
         attrs : Seq(Attr), parent : Nat]

Ctrl == {"NODE", "SIBL", "ATTR", "END"}

Control == [ctrl : Ctrl, type : NodeType, name : Name, value : Value]

-----------------------------------------------------------------------------
(* Writing: __ndm_core_request_store_node() *)

Children(tree, p) == {i \in DOMAIN tree : tree[i].parent = p}

\* Where the children of nodes come in the sequence: what stands between a node
\* and a child of it is within the node.
IsTree(tree) ==
    /\ tree \in Seq(Node) /\ tree # << >> /\ tree[1].parent = Null
    /\ \A i \in 2 .. Len(tree) : tree[i].parent \in 1 .. i - 1
    /\ \A i, j \in DOMAIN tree :
          tree[j].parent < i /\ i < j => tree[j].parent <= tree[i].parent

FirstOf(S) == CHOOSE i \in S : \A j \in S : i <= j

NextSiblings(tree, i) == {j \in Children(tree, tree[i].parent) : i < j}

IsFirstChild(tree, i) ==
    \A j \in Children(tree, tree[i].parent) : i <= j

Start(tree, i) ==
    [ctrl |-> IF IsFirstChild(tree, i) THEN "NODE" ELSE "SIBL",
     type |-> tree[i].type, name |-> tree[i].name, value |-> tree[i].value]

StoreAttrs(attrs) ==
    [k \in DOMAIN attrs |-> [ctrl |-> "ATTR", type |-> "document",
                             name |-> attrs[k].name, value |-> attrs[k].value]]

End == [ctrl |-> "END", type |-> "document", name |-> "", value |-> ""]

\* A leaf has an end only when it is the whole tree.
Ends(tree, i) == IF Children(tree, i) # {} \/ i = 1 THEN <<End>> ELSE << >>

\* A node, its attributes, its children and its end, and then its next siblings.
Store(tree) ==
    LET store[i \in DOMAIN tree] ==
            LET from(nodes) == IF nodes = {} THEN << >> ELSE store[FirstOf(nodes)] IN
               <<Start(tree, i)>> \o StoreAttrs(tree[i].attrs)
               \o from(Children(tree, i)) \o Ends(tree, i)
               \o from(NextSiblings(tree, i))
    IN store[1]

-----------------------------------------------------------------------------
(* Reading: __ndm_core_read_xml_children() *)

VARIABLES
    doc,     \* the nodes allocated so far, doc[1] the root_parent
    node,    \* the node the reader is at
    root,    \* the first node read
    fresh    \* no control was read yet (ctrl_index)

readerVars == <<doc, node, root, fresh>>

\* ndm_xml_document_alloc_root()
RootParent == [type |-> "document", name |-> "", value |-> "",
               attrs |-> << >>, parent |-> Null]

BeginRead ==
    /\ doc' = <<RootParent>>
    /\ node' = 1
    /\ root' = Null
    /\ fresh' = TRUE

Parent == doc[node].parent

Opens(c) == c.ctrl \in {"NODE", "SIBL"}

\* The checks before and after the strings of a node are read.
MayOpen(c) ==
    IF c.type = "document"
    THEN fresh /\ node = 1 /\ c.ctrl = "NODE"
    ELSE /\ ~(c.ctrl = "SIBL" /\ Parent = Null)
         /\ (c.name = "" <=> c.type \in Unnamed)

MaySetAttr(c) == Parent # Null /\ c.name # ""

\* What the reader answers with EBADMSG.
IsBad(c) ==
    CASE Opens(c) -> ~MayOpen(c)
      [] c.ctrl = "ATTR" -> ~MaySetAttr(c)
      [] OTHER -> FALSE

\* A document node gives the root_parent its name and value.
ReadDocument(c) ==
    /\ Opens(c) /\ MayOpen(c) /\ c.type = "document"
    /\ doc' = [doc EXCEPT ![node].name = c.name, ![node].value = c.value]
    /\ root' = node
    /\ fresh' = FALSE
    /\ UNCHANGED node

\* A child of the node the reader is at, or its sibling.
NewParent(c) == IF c.ctrl = "NODE" THEN node ELSE Parent

\* Mutant of GivesText: the last text wins.
GivesTextAlways(c, p) == c.type = "data" /\ p \in DOMAIN doc

\* Text is the value of a parent that has none.
GivesText(c, p) == c.type = "data" /\ doc[p].value = ""

\* Another node.
ReadNode(c) ==
    /\ Opens(c) /\ MayOpen(c) /\ c.type # "document"
    /\ LET new == Len(doc) + 1
           p == NewParent(c)
       IN
       /\ doc' = Append(IF GivesText(c, p) THEN [doc EXCEPT ![p].value = c.value] ELSE doc,
                        [type |-> c.type, name |-> c.name, value |-> c.value,
                         attrs |-> << >>, parent |-> p])
       /\ node' = new
       /\ root' = IF root = Null THEN new ELSE root
    /\ fresh' = FALSE

ReadAttr(c) ==
    /\ c.ctrl = "ATTR" /\ MaySetAttr(c)
    /\ doc' = [doc EXCEPT ![node].attrs =
                  Append(@, [name |-> c.name, value |-> c.value])]
    /\ fresh' = FALSE
    /\ UNCHANGED <<node, root>>

\* The end read now is that of the root; a leaf has none of its own, so the
\* reader may still be at a child of the root.
Stops == node = root \/ Parent = root

\* An end that is not the last goes up one level.
ReadEnd(c) ==
    /\ c.ctrl = "END"
    /\ node' = Parent
    /\ fresh' = FALSE
    /\ UNCHANGED <<doc, root>>

ReadControl(c) == ReadDocument(c) \/ ReadNode(c) \/ ReadAttr(c) \/ ReadEnd(c)

-----------------------------------------------------------------------------
(* What a tree written and read again becomes. *)

\* The first text with a value.
TextOf(tree, i) ==
    LET texts == {j \in Children(tree, i) :
                      tree[j].type = "data" /\ tree[j].value # ""}
    IN IF texts = {} THEN ""
       ELSE tree[FirstOf(texts)].value

WithText(tree) ==
    [i \in DOMAIN tree |->
        IF tree[i].value # "" THEN tree[i]
        ELSE [tree[i] EXCEPT !.value = TextOf(tree, i)]]

AsRead(tree) ==
    IF tree[1].type = "document" THEN WithText(tree)
    ELSE <<RootParent>>
         \o [i \in DOMAIN tree |-> [WithText(tree)[i] EXCEPT !.parent = @ + 1]]
=============================================================================
