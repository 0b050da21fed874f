----------------------------- MODULE JsonParser -----------------------------
(***************************************************************************)
(* Parsing JSON text in place, ndm_json_array_parse() and                  *)
(* ndm_json_object_parse().  The text is a sequence of tokens which the    *)
(* model chooses as the parser asks for them: marks, strings, numbers,     *)
(* words, and what begins none of these.  White space is skipped between   *)
(* any two of them and left out.                                           *)
(*                                                                         *)
(* The recursion of the code is the stack of the containers being read.  A *)
(* container is put into the one around it when it has been read.          *)
(***************************************************************************)
EXTENDS JsonTree

CONSTANTS
    Numeral,        \* texts of numbers, see NumberError
    Quoted,         \* texts of strings: sequences of units, see Unit
    MaxTokens       \* bound: tokens of a text

ASSUME NumeralAssumption ==
    Numeral \subseteq [minus : BOOLEAN, zero : BOOLEAN, digits : Nat, int : Nat,
                       frac : Int, exp : Int, double : Int]

VARIABLES
    want,       \* what the caller wants parsed: "[" or "{"
    tokens,     \* the tokens read
    place,      \* where the parser is
    nesting,    \* the containers being read
    name,       \* the name of the member being read
    result      \* NDM_JSON_PARSE_ERROR_..., or "running"

jsonParseVars == <<want, tokens, place, nesting, name, result>>

JsonParserInit ==
    /\ want \in {"[", "{"} /\ tokens = << >> /\ place = "start"
    /\ nesting = << >> /\ name = << >> /\ result = "running"

Token(kind, says) == [kind |-> kind, says |-> says]
Mark(k) == Token(k, << >>)
Marks == {"[", "]", "{", "}", ",", ":", "null", "true", "false",
          "n", "t", "f", "other"}

-----------------------------------------------------------------------------
(* Strings *)

\* A unit of a string's text: a byte, a letter escaped, or \u and four digits, or
\* fewer (more: those are bytes).
Unit == [kind : {"byte", "escape", "u"}, code : Nat]
ASSUME QuotedAssumption == Quoted \subseteq Seq(Unit)
High(c) == c \in 55296 .. 56319
LowHalf(c) == c \in 56320 .. 57343

\* Where an escape of four digits lacks one.
NotHex == 65536

\* What ndm_json_parse_string_() complains about at the i-th unit of s.
UnitError(s, i) ==
    LET u == s[i] IN
    CASE u.kind = "escape" /\ u.code \notin {34, 47, 92, 8, 12, 10, 13, 9} -> "INVALID_ESCAPE_CHAR"
      [] u.kind = "byte" /\ u.code < 32 -> "UNESCAPED_CHAR"
      [] u.kind = "u" /\ u.code = NotHex -> "INVALID_HEX"
      [] u.kind = "u" /\ High(u.code) ->
            IF i = Len(s) \/ s[i + 1].kind # "u" THEN "CORRUPTED_SURROGATE_PAIR"
            ELSE IF s[i + 1].code = NotHex THEN "INVALID_HEX"
            ELSE IF ~LowHalf(s[i + 1].code) THEN "INVALID_SURROGATE_PAIR"
            ELSE "OK"
      [] OTHER -> "OK"

\* The error of the first unit that has one.
StringError(s) ==
    LET bad == {i \in DOMAIN s : UnitError(s, i) # "OK"} IN
    IF bad = {} THEN "OK" ELSE UnitError(s, Min(bad))

\* A code in UTF-8.
Low6(c) == 128 + (c % 64)
Utf8(c) ==
    IF c < 128 THEN <<c>>
    ELSE IF c < 2048 THEN <<192 + (c \div 64), Low6(c)>>
    ELSE IF c < 65536 THEN <<224 + (c \div 4096), Low6(c \div 64), Low6(c)>>
    ELSE <<240 + (c \div 262144), Low6(c \div 4096), Low6(c \div 64), Low6(c)>>

\* The code of a surrogate pair.
Pair(high, low) == (high - 55296) * 1024 + (low - 56320) + 65536

\* What is written for the i-th unit.  The second half of a pair is read with the
\* first.
UnitBytes(s, i) ==
    LET u == s[i] IN
    IF u.kind # "u" THEN <<u.code>>
    ELSE IF High(u.code) THEN Utf8(Pair(u.code, s[i + 1].code))
    ELSE IF LowHalf(u.code) /\ i > 1 /\ s[i - 1].kind = "u" /\ High(s[i - 1].code) THEN << >>
    ELSE Utf8(u.code)

Unquoted(s) == FlattenSeq([i \in DOMAIN s |-> UnitBytes(s, i)])

\* What a program reads of it: strings end at their first zero byte, and "\u0000"
\* is one.
CString(b) == LET i == SelectInSeq(b, LAMBDA c : c = 0) IN
              IF i = 0 THEN b ELSE SubSeq(b, 1, i - 1)

-----------------------------------------------------------------------------
(* Numbers *)

\* The text of a number: its sign, its digits as a number and how many there are, of
\* the fraction and of the exponent (-1: there is none), and the double it is, or
\* none where that is out of range.
NumberError(n) ==
    IF n.digits > 1 /\ n.zero THEN "NUMBER_LEADING_ZERO"
    ELSE IF n.digits = 0 THEN "NUMBER_EXPECTED"
    ELSE IF n.frac = 0 THEN "NUMBER_FRAC_EXPECTED"
    ELSE IF n.exp = 0 THEN "NUMBER_EXP_EXPECTED"
    ELSE "OK"

\* An integer is one with no fraction and exponent that fits the widest types.
IsInteger(n) ==
    /\ n.frac = -1 /\ n.exp = -1
    /\ IF n.minus THEN -n.int \in Signed(5) ELSE n.int \in Unsigned(5)

NumberValue(n) ==
    IF IsInteger(n) THEN (IF n.minus THEN LLong(-n.int) ELSE ULLong(n.int))
    ELSE DoubleOf(n.double)
NoDouble == -1

-----------------------------------------------------------------------------
(* Steps *)

\* The next token is x.  A text ends somewhere.
NextIs(x) ==
    /\ result = "running"
    /\ Len(tokens) < MaxTokens \/ x.kind = "end"
    /\ tokens' = Append(tokens, x)

Reject(e) == result' = e /\ UNCHANGED <<want, place, nesting, name, value, members>>

Proceed(l) == place' = l /\ UNCHANGED <<want, nesting, name, result, value, members>>

Here == Last(nesting)
Within(stack) ==
    IF stack = << >> THEN "trailing"
    ELSE IF value[Last(stack)].type = "array" THEN "array" ELSE "object"

\* A scalar that was read is put into its container: an element, or a member of the
\* name read before.
Put(v) ==
    /\ Attached(Here, name, v)
    /\ place' = Within(nesting) /\ UNCHANGED <<want, nesting, name, result>>

\* A container is allocated and read, and will be a member of this name.
Enter(type) ==
    /\ value' = Append(value, [Value(type) EXCEPT !.name = name])
    /\ members' = Append(members, << >>)
    /\ nesting' = Append(nesting, Len(value) + 1) /\ name' = << >>
    /\ place' = IF type = "array" THEN "elements" ELSE "members"
    /\ UNCHANGED <<want, result>>

\* A container has been read and is put into the one around it.
Leave ==
    LET outer == Front(nesting) IN
    /\ nesting' = outer /\ place' = Within(outer) /\ name' = << >>
    /\ IF outer = << >> THEN UNCHANGED <<value, members>>
       ELSE /\ members' = Linked(members, Last(outer), Here)
            /\ value' = [value EXCEPT ![Here].parent = Last(outer)]
    /\ UNCHANGED <<want, result>>

\* Every container around looks at the place of an error of unknown type.
Inside(type) == \E i \in DOMAIN nesting : value[nesting[i]].type = type

\* ndm_json_parse_value_()
ReadValue(x) ==
    \/ x.kind = "null" /\ (Put(Value("null")) \/ Reject("OOM"))
    \/ x.kind = "true" /\ (Put([Value("boolean") EXCEPT !.word = 1]) \/ Reject("OOM"))
    \/ x.kind = "false" /\ (Put(Value("boolean")) \/ Reject("OOM"))
    \/ x.kind = "n" /\ Reject("NULL_EXPECTED")
    \/ x.kind = "t" /\ Reject("TRUE_EXPECTED")
    \/ x.kind = "f" /\ Reject("FALSE_EXPECTED")
    \/ x.kind = "[" /\ (Enter("array") \/ Reject("OOM"))
    \/ x.kind = "{" /\ (Enter("object") \/ Reject("OOM"))
    \/ x.kind = "unended" /\ Reject("UNTERMINATED_STRING")
    \/ x.kind = "string" /\
          IF StringError(x.says) # "OK" THEN Reject(StringError(x.says))
          ELSE \/ Put([Value("string") EXCEPT !.text = CString(Unquoted(x.says))])
               \/ Reject("OOM")
    \/ x.kind = "number" /\
          IF NumberError(x.says) # "OK" THEN Reject(NumberError(x.says))
          ELSE IF ~IsInteger(x.says) /\ x.says.double = NoDouble THEN Reject("NUMBER_RANGE")
          ELSE Put(NumberValue(x.says)) \/ Reject("OOM")
    \/ x.kind \in {"]", "}", ",", ":", "other", "end"} /\
          Reject(CASE x.kind = "]" /\ Inside("array") -> "CORRUPTED_ARRAY"
                 [] x.kind = "}" /\ Inside("object") -> "CORRUPTED_OBJECT"
                 [] OTHER -> "UNKNOWN_TYPE")

\* ndm_json_parse_(): the first character.
ParseStart(x) ==
    /\ place = "start" /\ NextIs(x)
    /\ CASE x.kind = want -> ReadValue(x)
         [] x.kind = "end" -> Reject("EMPTY_DOCUMENT")
         [] OTHER -> Reject(IF want = "[" THEN "ARRAY" ELSE "OBJECT")

\* Mutant of ParseElements: an array may end where an element must follow.
ParseElementsLoose(x) ==
    /\ place \in {"elements", "element"} /\ NextIs(x)
    /\ IF x.kind = "]" THEN Leave ELSE ReadValue(x)

\* ndm_json_parse_array_(): its first element or end, and an element that must follow.
ParseElements(x) ==
    /\ place \in {"elements", "element"} /\ NextIs(x)
    /\ IF x.kind = "]" /\ place = "elements" THEN Leave ELSE ReadValue(x)

ParseArray(x) ==
    /\ place = "array" /\ NextIs(x)
    /\ CASE x.kind = "," -> Proceed("element")
         [] x.kind = "]" -> Leave
         [] OTHER -> Reject("CORRUPTED_ARRAY")

\* ndm_json_parse_object_(): its first member or end, and a member that must follow.
ParseMembers(x) ==
    /\ place \in {"members", "member"} /\ NextIs(x)
    /\ CASE x.kind = "}" /\ place = "members" -> Leave
         [] x.kind = "unended" -> Reject("UNTERMINATED_STRING")
         [] x.kind = "string" ->
            IF StringError(x.says) # "OK" THEN Reject(StringError(x.says))
            ELSE /\ name' = CString(Unquoted(x.says)) /\ place' = "colon"
                 /\ UNCHANGED <<want, nesting, result, value, members>>
         [] OTHER -> Reject("STRING_EXPECTED")

ParseColon(x) ==
    /\ place = "colon" /\ NextIs(x)
    /\ IF x.kind = ":" THEN Proceed("named") ELSE Reject("COLON_EXPECTED")

ParseNamed(x) == place = "named" /\ NextIs(x) /\ ReadValue(x)

ParseObject(x) ==
    /\ place = "object" /\ NextIs(x)
    /\ CASE x.kind = "," -> Proceed("member")
         [] x.kind = "}" -> Leave
         [] OTHER -> Reject("CORRUPTED_OBJECT")

\* ndm_json_parse_(): "Nothing should follow the root object or array."
ParseTrailing(x) ==
    /\ place = "trailing" /\ NextIs(x)
    /\ Reject(IF x.kind = "end" THEN "OK" ELSE "TRAILING_SYMBOLS")

TokenStep(x) ==
    \/ ParseStart(x) \/ ParseElements(x) \/ ParseArray(x) \/ ParseMembers(x)
    \/ ParseColon(x) \/ ParseNamed(x) \/ ParseObject(x) \/ ParseTrailing(x)

AnyToken ==
    {Mark(k) : k \in Marks \cup {"unended", "end"}}
    \cup {Token("string", s) : s \in Quoted} \cup {Token("number", n) : n \in Numeral}

JsonParserNext == \E x \in AnyToken : TokenStep(x)

-----------------------------------------------------------------------------
(* Properties *)

LexicalError(x) ==
    CASE x.kind = "string" -> StringError(x.says)
      [] x.kind = "number" ->
            IF NumberError(x.says) # "OK" THEN NumberError(x.says)
            ELSE IF ~IsInteger(x.says) /\ x.says.double = NoDouble THEN "NUMBER_RANGE"
            ELSE "OK"
      [] OTHER -> "OK"

\* What the grammar of JSON tells apart.
Kind(x) ==
    IF LexicalError(x) # "OK" THEN "bad"
    ELSE IF x.kind \in {"null", "true", "false", "number"} THEN "scalar"
    ELSE x.kind

Joined(S, T) == {s \o t : s \in S, t \in T}

\* Texts of n tokens by the grammar the comments of the parser quote: a value, one or
\* more values, one or more members.
Texts[n \in 0 .. MaxTokens] ==
    LET Pairs == {<<"string", ":">> \o s : s \in (IF n < 3 THEN {} ELSE Texts[n - 2].value)}
        Split(a, b) ==
            UNION {Joined(Joined(a[k], {<<",">>}), b[n - 1 - k]) : k \in 1 .. n - 2}
        V == [k \in 0 .. n - 1 |-> Texts[k].value]
        E == [k \in 0 .. n - 1 |-> Texts[k].values]
        P == [k \in 0 .. n - 1 |-> Texts[k].pair]
        M == [k \in 0 .. n - 1 |-> Texts[k].members]
        Within2(open_, close, S) ==
            IF n < 2 THEN {}
            ELSE {<<open_>> \o s \o <<close>> : s \in IF n = 2 THEN {<< >>} ELSE S[n - 2]}
        value_ == (IF n = 1 THEN {<<"scalar">>, <<"string">>} ELSE {})
                  \cup Within2("[", "]", E) \cup Within2("{", "}", M)
    IN [value |-> value_,
        values |-> value_ \cup Split(V, E),
        pair |-> Pairs,
        members |-> Pairs \cup Split(P, M)]

Documents ==
    {s \in UNION {Texts[n].value : n \in 2 .. MaxTokens} : s[1] = want}

\* The parser accepts the texts of the grammar and gives up only at a token no such
\* text goes on with, memory permitting.  (ndm_json_parse_())
AcceptsJson ==
    LET kinds == [i \in DOMAIN tokens |-> Kind(tokens[i])]
        texts == {Append(s, "end") : s \in Documents} IN
    /\ result = "OK" => kinds \in texts
    /\ result \notin {"running", "OK", "OOM"} => \A s \in texts : ~IsPrefix(kinds, s)

\* The codes UTF-8 stands for.
Codes(bytes) ==
    FoldLeft(LAMBDA s, b :
                 IF b < 128 THEN Append(s, b)
                 ELSE IF b < 192 THEN Append(Front(s), Last(s) * 64 + (b - 128))
                 ELSE Append(s, b - (IF b < 224 THEN 192 ELSE IF b < 240 THEN 224 ELSE 240)),
             << >>, bytes)

\* The codes a string's text stands for, up to one of zero.
Meant(s) ==
    CString(FlattenSeq([i \in DOMAIN s |->
        IF s[i].kind = "u" /\ High(s[i].code)
        THEN <<65536 + (s[i].code % 1024) * 1024 + (s[i + 1].code % 1024)>>
        ELSE IF s[i].kind = "u" /\ i > 1 /\ s[i - 1].kind = "u" /\ High(s[i - 1].code)
        THEN << >> ELSE <<s[i].code>>]))

\* What a token says, and what a value of the tree says, as tokens.
Says(x) ==
    CASE x.kind = "string" -> <<"string", Meant(x.says)>>
      [] x.kind = "number" ->
            IF IsInteger(x.says)
            THEN <<"integer", IF x.says.minus THEN -x.says.int ELSE x.says.int>>
            ELSE <<"double", x.says.double>>
      [] OTHER -> <<x.kind>>

Spelled[v \in DOMAIN value] ==
    LET r == value[v]
        Named(k) == (IF r.type = "object"
                     THEN <<<<"string", Codes(value[k].name)>>, <<":">>>> ELSE << >>)
                    \o Spelled[k] \o (IF k = LastOf(v) THEN << >> ELSE <<<<",">>>>) IN
    CASE r.type \in Containers ->
            <<IF r.type = "array" THEN <<"[">> ELSE <<"{">>>>
            \o FlattenSeq([i \in DOMAIN members[v] |-> Named(members[v][i])])
            \o <<IF r.type = "array" THEN <<"]">> ELSE <<"}">>>>
      [] r.type = "string" -> <<<<"string", Codes(r.text)>>>>
      [] r.type = "number" ->
            IF Is(r, <<"double", 0>>) THEN <<<<"double", r.word>>>>
            ELSE IF Is(r, <<"signed", 5>>) THEN <<<<"integer", AsSigned(r.word, Width(5))>>>>
            ELSE <<<<"integer", r.word>>>>
      [] r.type = "boolean" -> <<IF r.word = 1 THEN <<"true">> ELSE <<"false">>>>
      [] OTHER -> <<<<r.type>>>>

\* A text that is accepted is the tree's, spelled out: every value where it was
\* written, integers and strings as they were meant, strings up to "\u0000".
\* (ndm_json_parse_value_(), ndm_json_parse_string_())
TreeIsText ==
    result = "OK" => Spelled[1] = [i \in 1 .. Len(tokens) - 1 |-> Says(tokens[i])]
=============================================================================
