----------------------------- MODULE XmlParser -----------------------------
(***************************************************************************)
(* The parser of XML text, ndm_xml_document_parse().  The text is a        *)
(* sequence of lexemes, which the model chooses as the parser asks for     *)
(* them: what opens or closes a node, names, text, references to           *)
(* characters, marks.  White space is skipped by the code between any two  *)
(* lexemes of a tag and between nodes, and is left out; what is only       *)
(* searched for its end is a run of "text".                                *)
(*                                                                         *)
(* The recursion of the code is the stack of the elements whose contents   *)
(* are being read.  A node gets its parent when it has been read as a      *)
(* whole; the list of its siblings is module XmlTree's concern.            *)
(***************************************************************************)
EXTENDS Integers, SequencesExt

CONSTANTS
    Flags,      \* sets of parse flags to parse with
    Name,       \* names, sequences of letters
    Ref,        \* references to characters, [base, digits, ended]
    MaxText     \* bound: lexemes of a text

VARIABLES
    flags,
    read,       \* number of lexemes read so far
    ahead,      \* a lexeme looked at and not skipped yet
    pc,         \* where the parser is
    open,       \* the elements whose contents are being read
    node,       \* the node being read
    raw,        \* the value being read, references expanded
    tree,       \* the nodes allocated, in this order, the document first
    code        \* what ndm_xml_document_parse() returns, "running" or "crash"

parseVars == <<flags, read, ahead, pc, open, node, raw, tree, code>>

\* A lexeme is a kind and what it says.
Lexeme(k) == [kind |-> k, says |-> << >>]
Lexemes(kinds) ==
    {Lexeme(k) : k \in kinds \ {"name", "ref"}}
    \cup (IF "name" \in kinds THEN {[kind |-> "name", says |-> n] : n \in Name} ELSE {})
    \cup (IF "ref" \in kinds THEN {[kind |-> "ref", says |-> r] : r \in Ref} ELSE {})

Marker == {"<", "<?xml", "<?", "<!--", "<![CDATA[", "<!DOCTYPE", "<!"}

Nothing == Lexeme("nothing")
Nobody == 0
Document == 1

NewNode(type) ==
    [type |-> type, name |-> << >>, value |-> << >>, attrs |-> << >>,
     parent |-> Nobody]

ParserInit ==
    /\ flags \in Flags
    /\ read = 0 /\ ahead = Nothing
    /\ pc = "start" /\ open = << >> /\ node = Nobody
    /\ raw = << >> /\ tree = << >> /\ code = "running"

-----------------------------------------------------------------------------
(* References to characters *)

\* What a digit, a number below 16, counts: the distance of its character, in
\* lower case, from '0'.
Weight(d) == IF d < 10 THEN d ELSE 97 + (d - 10) - 48

\* The code a reference stands for.  References of the model are too short for
\* the 32 bits of the counter.
CodeOf(r) == FoldLeft(LAMBDA c, d : c * r.base + Weight(d), 0, r.digits)

ASSUME ReferenceAssumption == \A r \in Ref : CodeOf(r) \in Nat

\* (c | 0x80) & 0xbf
Low(c) == 128 + (c % 64)

\* __ndm_xml_parser_insert_coded_character(): the bytes of a code, which is a
\* character's, below 1114112, but for NO_UTF8.
Coded(c) ==
    IF "NO_UTF8" \in flags THEN <<c % 256>>
    ELSE IF c < 128   THEN <<c>>
    ELSE IF c < 2048  THEN <<192 + c \div 64, Low(c)>>
    ELSE IF c < 65536 THEN <<224 + c \div 4096, Low(c \div 64), Low(c)>>
    ELSE <<240 + c \div 262144, Low(c \div 4096), Low(c \div 64), Low(c)>>

\* Any byte of text but of a reference.
Letter == 120

Translated(x) == x.kind = "ref" /\ "NO_ENTITY_TRANSLATION" \notin flags

\* What __ndm_xml_parser_skip_and_expand_character_refs() complains about.
RefError(x) ==
    IF ~Translated(x) THEN "OK"
    ELSE IF "NO_UTF8" \notin flags /\ CodeOf(x.says) >= 1114112 THEN "INVALID_CHAR_ENTITY"
    ELSE IF x.says.ended THEN "OK" ELSE "NO_SEMICOLON"

\* What it writes for a lexeme.
Expanded(x) == IF Translated(x) THEN Coded(CodeOf(x.says)) ELSE <<Letter>>

-----------------------------------------------------------------------------
(* Steps *)

\* The next lexeme is x, one looked at before or any of these kinds.  A text ends
\* somewhere.
Next_(x, kinds) ==
    /\ code = "running"
    /\ IF ahead # Nothing THEN x = ahead
       ELSE x \in Lexemes(IF read < MaxText THEN kinds ELSE {}) \cup {Lexeme("end")}
    /\ read' = IF ahead # Nothing THEN read ELSE read + 1

Skip == ahead' = Nothing

\* ndm_xml_document_parse(): an error leaves the document empty.
Fail(e) ==
    /\ code' = e /\ tree' = << >> /\ open' = << >> /\ node' = Nobody
    /\ raw' = << >> /\ pc' = "returned" /\ Skip
    /\ UNCHANGED flags

\* A null pointer is given to ndm_xml_node_append_child().
Crash ==
    /\ code' = "crash" /\ UNCHANGED <<flags, pc, open, node, raw, tree>>

Goto(l) == pc' = l /\ Skip /\ UNCHANGED <<flags, open, node, raw, tree, code>>

\* A node of a type is allocated and read from l on.
Begin(type, l) ==
    \/ /\ tree' = Append(tree, NewNode(type))
       /\ node' = Len(tree) + 1
       /\ pc' = l /\ Skip
       /\ UNCHANGED <<flags, open, raw, code>>
    \/ Fail("OOM")

\* Mutant of Receiver: nodes go to the element that contains the innermost.
ReceiverOuter == IF open = << >> THEN Document ELSE open[1]

\* The node a node that has been read is appended to.
Receiver == IF open = << >> THEN Document ELSE Last(open)

\* A node n of t has been read, or Nobody where nodes of its type are skipped:
\* only __ndm_xml_parser_do() looks, __ndm_xml_parser_parse_node_contents()
\* appends whatever it gets.
Returned(n, t) ==
    IF n = Nobody /\ open # << >> THEN Crash
    ELSE /\ tree' = IF n = Nobody THEN t ELSE [t EXCEPT ![n].parent = Receiver]
         /\ node' = Nobody
         /\ pc' = IF open = << >> THEN "top" ELSE "contents"
         /\ UNCHANGED <<flags, open, raw, code>>

\* Mutant of Kept: a node that is kept is not returned.
KeptUnreturned(keep, type) == Returned(Nobody, tree)

\* A node that has been skipped to its end is kept as one of a type, or not.
Kept(keep, type) ==
    IF ~keep THEN Returned(Nobody, tree)
    ELSE Returned(Len(tree) + 1, Append(tree, NewNode(type))) \/ Fail("OOM")

\* __ndm_xml_parser_do(): the root.
Start ==
    /\ pc = "start" /\ UNCHANGED read
    /\ \/ /\ tree' = <<NewNode("document")>> /\ pc' = "top" /\ Skip
          /\ UNCHANGED <<flags, open, node, raw, code>>
       \/ Fail("OOM")

\* __ndm_xml_parser_parse_xml_declaration(): attributes up to "?>", or what is there
\* is skipped.
BeginDeclaration ==
    IF "PARSE_DECLARATION_NODE" \in flags THEN Begin("declaration", "attrs") ELSE Goto("skip")

\* __ndm_xml_parser_parse_node(): an element, or by what follows '<' something else.
ParseNode(x) ==
    \/ x.kind = "<" /\ Begin("element", "name")
    \/ x.kind = "<?xml" /\ BeginDeclaration
    \/ x.kind = "<?" /\ IF "PARSE_PI_NODES" \in flags
                        THEN Begin("pi", "target") ELSE Goto("skip")
    \/ x.kind = "<!--" /\ Goto("comment")
    \/ x.kind = "<![CDATA[" /\ Goto("cdata")
    \/ x.kind = "<!DOCTYPE" /\ Goto("doctype")
    \/ x.kind = "<!" /\ Goto("other")

\* The loop of __ndm_xml_parser_do().  "</" opens an element without a name.
ParseTop(x) ==
    /\ pc = "top" /\ Next_(x, Marker \cup {"</", "text", "]]>"})
    /\ \/ /\ x.kind = "end" /\ code' = "OK" /\ pc' = "returned" /\ Skip
          /\ UNCHANGED <<flags, open, node, raw, tree>>
       \/ ParseNode(x)
       \/ x.kind = "</" /\ (Fail("NODE_NAME_EXPECTED") \/ Fail("OOM"))
       \/ x.kind \in {"text", "]]>"} /\ Fail("LBRACKET_EXPECTED")

\* __ndm_xml_parser_parse_element(), the name.
ParseName(x) ==
    /\ pc = "name" /\ Next_(x, {"name", ">"})
    /\ \/ /\ x.kind = "name"
          /\ tree' = [tree EXCEPT ![node].name = x.says]
          /\ pc' = "attrs" /\ Skip
          /\ UNCHANGED <<flags, open, node, raw, code>>
       \/ x.kind # "name" /\ Fail("NODE_NAME_EXPECTED")

\* __ndm_xml_parser_parse_node_attributes(): a name.
BeginAttr(x) ==
    \/ /\ tree' = [tree EXCEPT ![node].attrs =
                      Append(@, [name |-> x.says, value |-> << >>])]
       /\ pc' = "equal" /\ Skip
       /\ UNCHANGED <<flags, open, node, raw, code>>
    \/ Fail("OOM")

\* What follows the attributes: __ndm_xml_parser_parse_element() and
\* __ndm_xml_parser_parse_xml_declaration().
ParseAttrs(x) ==
    /\ pc = "attrs" /\ Next_(x, {"name", "/", ">", "?>", "="})
    /\ \/ x.kind = "name" /\ BeginAttr(x)
       \/ /\ tree[node].type = "declaration" /\ x.kind # "name"
          /\ IF x.kind = "?>" THEN Skip /\ Returned(node, tree)
             ELSE Fail("DECL_END_EXPECTED")
       \/ /\ tree[node].type = "element"
          /\ \/ /\ x.kind = ">"
                /\ open' = Append(open, node) /\ node' = Nobody
                /\ pc' = "contents" /\ Skip
                /\ UNCHANGED <<flags, raw, tree, code>>
             \/ x.kind = "/" /\ Goto("slash")
             \/ x.kind \notin {"name", ">", "/"} /\ Fail("RBRACKET_EXPECTED")

ParseSlash(x) ==
    /\ pc = "slash" /\ Next_(x, {">", "name"})
    /\ IF x.kind = ">" THEN Skip /\ Returned(node, tree)
       ELSE Fail("RBRACKET_EXPECTED")

ParseEqual(x) ==
    /\ pc = "equal" /\ Next_(x, {"=", ">"})
    /\ IF x.kind = "=" THEN Goto("quote") ELSE Fail("EQUAL_SIGN_EXPECTED")

ParseQuote(x) ==
    /\ pc = "quote" /\ Next_(x, {"'", "name"})
    /\ IF x.kind = "'" THEN Goto("value") ELSE Fail("QUOTE_EXPECTED")

\* The value of an attribute, up to its quote.
ParseValue(x) ==
    /\ pc = "value" /\ Next_(x, {"'", "text", "ref"})
    /\ CASE x.kind = "'" ->
            /\ tree' = [tree EXCEPT ![node].attrs[Len(tree[node].attrs)].value = raw]
            /\ raw' = << >> /\ pc' = "attrs" /\ Skip
            /\ UNCHANGED <<flags, open, node, code>>
         [] x.kind = "end" -> Fail("QUOTE_EXPECTED")
         [] RefError(x) # "OK" -> Fail(RefError(x))
         [] OTHER -> /\ raw' = raw \o Expanded(x) /\ Skip
                     /\ UNCHANGED <<flags, pc, open, node, tree, code>>

\* __ndm_xml_parser_parse_comment()
ParseComment(x) ==
    /\ pc = "comment" /\ Next_(x, {"text", "-->"})
    /\ CASE x.kind = "-->" -> Skip /\ Kept("PARSE_COMMENT_NODES" \in flags, "comment")
         [] x.kind = "end" -> Fail("UNEXPECTED_STREAM_END")
         [] OTHER -> Goto(pc)

\* __ndm_xml_parser_parse_cdata(): what is not kept ends before its "]]>".
ParseCData(x) ==
    LET keep == "NO_DATA_NODES" \notin flags IN
    /\ pc = "cdata" /\ Next_(x, {"text", "]]>"})
    /\ CASE x.kind = "]]>" -> /\ ahead' = IF keep THEN Nothing ELSE x
                              /\ Kept(keep, "cdata")
         [] x.kind = "end" -> Fail("UNEXPECTED_CDATA_END")
         [] OTHER -> Goto(pc)

\* __ndm_xml_parser_parse_doctype()
ParseDoctype(x) ==
    /\ pc = "doctype" /\ Next_(x, {"text", "[", ">"})
    /\ CASE x.kind = ">" -> Skip /\ Kept("PARSE_DOCTYPE_NODE" \in flags, "doctype")
         [] x.kind = "[" -> Goto("subset")
         [] x.kind = "end" -> Fail("UNEXPECTED_STREAM_END")
         [] OTHER -> Goto(pc)

\* Mutant of ParseSubset: no bracket is advanced over before the depth is zero,
\* and the depth starts at zero.
ParseSubsetStuck(x) ==
    /\ pc = "subset" /\ Next_(x, {"text", "[", "]"})
    /\ CASE x.kind \in {"[", "]"} ->
            /\ ahead' = x
            /\ UNCHANGED <<flags, pc, open, node, raw, tree, code>>
         [] x.kind = "end" -> Fail("UNEXPECTED_STREAM_END")
         [] OTHER -> Goto(pc)

\* Its brackets: the text is not advanced over '[', which is counted for ever
\* (depth is an int and overflows).
ParseSubset(x) ==
    /\ pc = "subset" /\ Next_(x, {"text", "[", "]"})
    /\ CASE x.kind = "[" -> /\ ahead' = x
                            /\ UNCHANGED <<flags, pc, open, node, raw, tree, code>>
         [] x.kind = "]" -> Goto("doctype")
         [] x.kind = "end" -> Fail("UNEXPECTED_STREAM_END")
         [] OTHER -> Goto(pc)

\* __ndm_xml_parser_parse_pi()
ParseTarget(x) ==
    /\ pc = "target" /\ Next_(x, {"name", "?>"})
    /\ \/ /\ x.kind = "name"
          /\ tree' = [tree EXCEPT ![node].name = x.says]
          /\ pc' = "pi" /\ Skip
          /\ UNCHANGED <<flags, open, node, raw, code>>
       \/ x.kind # "name" /\ Fail("PI_TARGET_EXPECTED")

\* The end of an instruction, or of one, or a declaration, that is skipped.
ParsePi(x) ==
    /\ pc \in {"pi", "skip"} /\ Next_(x, {"text", "?>"})
    /\ CASE x.kind = "?>" -> Skip /\ Returned(IF pc = "pi" THEN node ELSE Nobody, tree)
         [] x.kind = "end" -> Fail("DECL_END_EXPECTED")
         [] OTHER -> Goto(pc)

\* "<!" and anything else, up to '>'.
ParseOther(x) ==
    /\ pc = "other" /\ Next_(x, {"text", ">"})
    /\ CASE x.kind = ">" -> Skip /\ Returned(Nobody, tree)
         [] x.kind = "end" -> Fail("RBRACKET_EXPECTED")
         [] OTHER -> Goto(pc)

\* __ndm_xml_parser_parse_node_contents()
ParseContents(x) ==
    /\ pc = "contents" /\ Next_(x, Marker \cup {"</", "text", "ref"})
    /\ CASE x.kind = "</" -> Goto("close")
         [] x.kind = "end" -> Fail("UNEXPECTED_STREAM_END")
         [] x.kind \in Marker -> ParseNode(x)
         [] OTHER -> /\ ahead' = x /\ pc' = "data"
                     /\ UNCHANGED <<flags, open, node, raw, tree, code>>

\* A closing tag's name is compared over its own length.
Closes(name, n) == IsPrefix(name, n)

\* A closing tag.  The element itself is returned and appended.
ParseClose(x) ==
    LET n == Last(open)
        name == IF x.kind = "name" THEN x.says ELSE << >>
    IN
    /\ pc = "close" /\ Next_(x, {"name", ">", "/"})
    /\ IF "CHECK_CLOSING_TAGS" \in flags /\ ~Closes(name, tree[n].name)
       THEN Fail("CLOSING_TAG")
       ELSE /\ ahead' = IF x.kind = "name" THEN Nothing ELSE x
            /\ pc' = "closed"
            /\ UNCHANGED <<flags, open, node, raw, tree, code>>

ParseClosed(x) ==
    LET outer == Front(open) IN
    /\ pc = "closed" /\ Next_(x, {">", "="})
    /\ IF x.kind # ">" THEN Fail("RBRACKET_EXPECTED")
       ELSE /\ open' = outer
            /\ tree' = [tree EXCEPT ![Last(open)].parent =
                           IF outer = << >> THEN Document ELSE Last(outer)]
            /\ pc' = IF outer = << >> THEN "top" ELSE "contents"
            /\ Skip /\ UNCHANGED <<flags, node, raw, code>>

\* __ndm_xml_parser_parse_and_append_data(): text, up to '<' or the end, becomes a
\* node without a value.  The element's value is set where its name is empty.
ParseData(x) ==
    LET p == Last(open) IN
    /\ pc = "data" /\ Next_(x, Marker \cup {"</", "text", "ref"})
    /\ IF x.kind \in Marker \cup {"</", "end"}
       THEN \/ /\ tree' = LET with == IF "NO_DATA_NODES" \in flags THEN tree
                                      ELSE Append(tree, [NewNode("data") EXCEPT !.parent = p])
                          IN IF "NO_ELEMENT_VALUES" \notin flags /\ tree[p].name = << >>
                             THEN [with EXCEPT ![p].value = raw] ELSE with
               /\ raw' = << >> /\ pc' = "contents" /\ ahead' = x
               /\ UNCHANGED <<flags, open, node, code>>
            \/ "NO_DATA_NODES" \notin flags /\ Fail("OOM")
       ELSE IF RefError(x) # "OK" THEN Fail(RefError(x))
       ELSE /\ raw' = raw \o Expanded(x) /\ Skip
            /\ UNCHANGED <<flags, pc, open, node, tree, code>>

ParseStep(x) ==
    \/ ParseTop(x) \/ ParseName(x) \/ ParseAttrs(x) \/ ParseSlash(x)
    \/ ParseEqual(x) \/ ParseQuote(x) \/ ParseValue(x)
    \/ ParseComment(x) \/ ParseCData(x) \/ ParseDoctype(x) \/ ParseSubset(x)
    \/ ParseTarget(x) \/ ParsePi(x) \/ ParseOther(x)
    \/ ParseContents(x) \/ ParseClose(x) \/ ParseClosed(x) \/ ParseData(x)

AnyLexeme ==
    Lexemes(Marker \cup {"</", "/", ">", "=", "'", "?>", "-->", "]]>", "[", "]",
                         "name", "text", "ref", "end"})

ParserNext == Start \/ \E x \in AnyLexeme : ParseStep(x)

\* The parser is a loop that runs until it returns.
ParserSpec == ParserInit /\ [][ParserNext]_parseVars /\ WF_parseVars(ParserNext)

-----------------------------------------------------------------------------
(* Properties *)

Placed(n) == n \in DOMAIN tree /\ tree[n].parent # Nobody

\* The node begun last, before n, that has not ended.
Around(n) == Max({m \in 1 .. (n - 1) : ~Placed(m)})

\* A node that has been read is appended to the node begun last that has not ended,
\* and a document that parses has every node that was begun.  Only the document
\* and elements contain nodes.  (ndm_xml_document_parse())
NodesAreNested ==
    /\ [][\A n \in DOMAIN tree' :
              ~Placed(n) /\ Placed(n)' => tree'[n].parent = Around(n)]_parseVars
    /\ [](code = "OK" =>
              \A n \in 2 .. Len(tree) :
                  Placed(n) /\ tree[tree[n].parent].type \in {"document", "element"})

\* The parser dereferences a null pointer only at a node it skips within an element:
\* a comment, an instruction, a declaration, a type or data that are not kept, or a
\* node it does not know.
CrashesAreKnown ==
    code = "crash" =>
        /\ open # << >>
        /\ pc \in {"skip", "other"}
              \cup (IF "PARSE_COMMENT_NODES" \in flags THEN {} ELSE {"comment"})
              \cup (IF "PARSE_DOCTYPE_NODE" \in flags THEN {} ELSE {"doctype"})
              \cup (IF "NO_DATA_NODES" \in flags THEN {"cdata"} ELSE {})

\* The parser comes to an end, except in a declaration of a document's type with a
\* bracket within brackets.
ParseEnds == <>(code # "running" \/ (pc = "subset" /\ ahead = Lexeme("[")))

\* Text in an element whose values are wanted is the element's value, or there was
\* some already: "Add data to parent node if no data exists yet."
DataReachesParent ==
    code = "OK" /\ "NO_ELEMENT_VALUES" \notin flags =>
        \A n \in 2 .. Len(tree) :
            tree[n].type = "data" => tree[tree[n].parent].value # << >>
=============================================================================
