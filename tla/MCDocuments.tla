----------------------------- MODULE MCDocuments -----------------------------
(***************************************************************************)
(* XML and JSON from both sides: a text of either is parsed, or documents  *)
(* are built by calls; XML documents are changed and copied, JSON values   *)
(* are printed.  A behaviour has one subject; the other stays as it is.    *)
(***************************************************************************)
EXTENDS XmlTree, XmlParser, JsonPrinter

CONSTANTS
    built, copy,            \* the documents: one is built, the other holds copies
    x, y,                   \* the labels
    MaxNodes, MaxAttrs,     \* bounds on what is allocated from the document built
    MaxValues               \* bound on the JSON values that are built

VARIABLE subject

xmlVars == <<parseVars, treeVars>>

-----------------------------------------------------------------------------
(* XML *)

Usual == {"PARSE_DECLARATION_NODE", "PARSE_COMMENT_NODES", "PARSE_DOCTYPE_NODE",
          "PARSE_PI_NODES", "CHECK_CLOSING_TAGS"}
MCFlags == {Usual, {"NO_DATA_NODES"}, {"NO_ELEMENT_VALUES", "NO_ENTITY_TRANSLATION"}}

\* One is a prefix of the other.
MCName == {<<"a">>, <<"a", "b">>}

\* Two bytes, a code that is too large, and one without its semicolon.
R(b, d, e) == [base |-> b, digits |-> d, ended |-> e]
MCRef == {R(10, <<2, 0, 4, 8>>, TRUE), R(16, <<1, 1, 0, 0, 0, 0>>, TRUE),
          R(10, <<6>>, FALSE)}

\* References are interesting once each.
Parsing ==
    /\ ParserNext /\ (raw # << >> => raw' \in {raw, << >>})
    /\ UNCHANGED treeVars

Held(S, d) == {a \in S : doc'[a] = d}
Stands(a) == IF a % 2 = 0 THEN x ELSE y

\* Addresses are taken in order and have one label each.
Bounded ==
    /\ Cardinality(Held(Node, built)) <= MaxNodes
    /\ Cardinality(Held(Attr, built)) <= MaxAttrs
    /\ Cardinality(Held(Node \cup Attr, built)) <= MaxNodes
    /\ \A a \in Held(Node \cup Attr, built) :
          /\ label'[a] \in {Null, Stands(a)}
          /\ \A b \in Node \cup Attr : b < a /\ (b \in Node <=> a \in Node) => doc'[b] # Null
    /\ valid'[copy]
    /\ Held(Node \cup Attr, copy) # {} => Of(copy) = {} /\ root'[copy] # Null

Building == TreeNext /\ Bounded /\ UNCHANGED parseVars

\* Documents are built while nothing is being parsed.
Unparsed ==
    /\ flags = {} /\ read = 0 /\ ahead = Nothing /\ pc = "returned"
    /\ open = << >> /\ node = Nobody /\ raw = << >> /\ tree = << >>
    /\ code = "none"

\* Links that nothing leads to: of items in no list, and of empty lists.
Seen(links) ==
    LET live == {c \in DOMAIN links.owner :
                   \E m \in DOMAIN links.owner :
                       links.owner[m] # Null /\ c \in From(links, m)}
    IN [links EXCEPT
          !.next = [c \in DOMAIN @ |-> IF c \in live THEN @[c] ELSE Null],
          !.prev = [c \in DOMAIN @ |-> IF links.owner[c] # Null THEN @[c] ELSE Null],
          !.last = [p \in DOMAIN @ |-> IF links.first[p] # Null THEN @[p] ELSE Null]]

-----------------------------------------------------------------------------
(* JSON *)

MCBits == [char |-> 2, short |-> 3, int |-> 4, long |-> 5, llong |-> 5]

N(minus, zero, digits, int, frac, exp, double) ==
    [minus |-> minus, zero |-> zero, digits |-> digits, int |-> int, frac |-> frac,
     exp |-> exp, double |-> double]

\* Integers at the bounds of the types, one that is too wide, -0, and texts that lack
\* digits.
MCNumeral ==
    {N(FALSE, FALSE, 2, 31, -1, -1, 31), N(FALSE, FALSE, 2, 32, -1, -1, 32),
     N(TRUE, FALSE, 2, 17, -1, -1, 17), N(TRUE, TRUE, 1, 0, -1, -1, 0),
     N(FALSE, TRUE, 2, 0, -1, -1, 0), N(TRUE, FALSE, 0, 0, -1, -1, 0),
     N(FALSE, FALSE, 1, 5, 0, -1, 5), N(FALSE, FALSE, 1, 5, 1, -1, 5),
     N(FALSE, FALSE, 1, 5, -1, 0, 5), N(FALSE, FALSE, 1, 5, -1, 3, -1)}

B(c) == [kind |-> "byte", code |-> c]
U(c) == [kind |-> "u", code |-> c]
\* Not four digits.
NoDigits == 65536
\* A byte, an escape, pairs of surrogates, a zero, and texts with errors.
MCQuoted ==
    {<<B(97)>>, <<U(0), B(97)>>, <<U(2048), U(55358), U(56333)>>,
     <<[kind |-> "escape", code |-> 10]>>, <<[kind |-> "escape", code |-> 107]>>,
     <<U(55296), B(97)>>, <<U(55296), U(97)>>, <<U(NoDigits)>>, <<B(9)>>}
ASSUME NoDigits = NotHex
MCStrings == {<<97>>, <<9, 27>>}
MCNames == {<<97>>}
MCNumbers == {-16, -2, 1, 7, 16}

\* Only the texts that are long are free of errors in their strings and numbers.
Short == Len(tokens) > 2 /\ tokens' # tokens => LexicalError(Last(tokens')) = "OK"

MCJson == JsonNext /\ Short /\ (tokens = << >> => Len(value') <= MaxValues)

-----------------------------------------------------------------------------
MCInit ==
    /\ TreeInit /\ JsonInit /\ JsonParserInit /\ PrinterInit
    /\ \/ subject = "xml text" /\ ParserInit /\ want = "["
       \/ subject = "xml tree" /\ Unparsed /\ want = "["
       \/ subject = "json" /\ Unparsed

XmlNext == subject = "xml text" /\ Parsing /\ UNCHANGED <<subject, documentVars>>

MCNext ==
    \/ XmlNext
    \/ subject = "xml tree" /\ Building /\ UNCHANGED <<subject, documentVars>>
    \/ subject = "json" /\ MCJson /\ UNCHANGED <<subject, xmlVars>>

docVars == <<subject, xmlVars, documentVars>>

MCSpec == MCInit /\ [][MCNext]_docVars /\ WF_docVars(XmlNext)

View ==
    IF subject # "xml tree" THEN <<subject, parseVars, documentVars>>
    ELSE <<subject, Seen(kids), Seen(attrs), label, doc, root, valid>>

-----------------------------------------------------------------------------
\* What is parsed is what JSON is, and what it says.
TextsAreRead == AcceptsJson /\ TreeIsText
=============================================================================
