---------------------------- MODULE JsonPrinter ----------------------------
(***************************************************************************)
(* Printing a JSON tree, ndm_json_array_print() and                        *)
(* ndm_json_object_print(): text is collected in a buffer of fixed size    *)
(* and moved to a block of the heap that grows, which may fail at any      *)
(* time.  The recursion of the code is a stack of what is left to print.   *)
(*                                                                         *)
(* Text is a sequence of characters: bytes of strings, and marks.  A       *)
(* number is printed as one run of characters, the same for each length.   *)
(*                                                                         *)
(* Spec is the life of a document: it is parsed from a text or built by    *)
(* calls, and then printed.                                                *)
(***************************************************************************)
EXTENDS JsonParser

CONSTANTS
    BufSize,        \* NDM_JSON_PRINT_BUFSIZE_, not 0
    Compact,        \* NDM_JSON_PRINT_FLAGS_COMPACT is set, TRUE or FALSE
    CrLf,           \* NDM_JSON_PRINT_FLAGS_CRLF
    Numbers, Strings, Names     \* what documents are built from

ASSUME BufferAssumption == BufSize \in Nat \ {0}
ASSUME ContentAssumption ==
    Numbers \subseteq Int /\ Strings \subseteq Seq(Nat) /\ Names \subseteq Seq(Nat)

VARIABLES
    todo,       \* what is left to print, first
    buffer,     \* the characters up to ctx->pp
    json,       \* the block: ctx->json, ctx->json_size characters
    ok,         \* ctx->ok
    printing    \* "no", "yes" or "done"

printVars == <<todo, buffer, json, ok, printing>>

PrinterInit ==
    /\ todo = << >> /\ buffer = << >> /\ json = << >> /\ ok = TRUE
    /\ printing = "no"

\* What may be left: characters that are copied one by one or as a run, the rest of
\* a container from its i-th value on, the whole of a value.
Char(c) == [do |-> "char", text |-> <<c>>, of |-> Absent, from |-> 0]
Data(s) == [do |-> "data", text |-> s, of |-> Absent, from |-> 0]
Rest(p, i) == [do |-> "rest", text |-> << >>, of |-> p, from |-> i]
Whole(v) == [do |-> "value", text |-> << >>, of |-> v, from |-> 0]

-----------------------------------------------------------------------------
(* What is printed *)

\* Bytes with an escape of a letter; the others below 32 are written as \u00XX.
Letters ==
    [c \in {8, 9, 10, 12, 13, 34, 92} |->
        CASE c = 8 -> "b" [] c = 9 -> "t" [] c = 10 -> "n" [] c = 12 -> "f"
          [] c = 13 -> "r" [] c = 34 -> "quote" [] c = 92 -> "backslash"]

\* ndm_json_print_string_()
Escaped(c) ==
    IF c \in DOMAIN Letters THEN Data(<<"backslash", Letters[c]>>)
    ELSE IF c < 32 THEN Data(<<"backslash", "u", "0", "0", c \div 16, c % 16>>)
    ELSE Char(c)
StringTasks(s) ==
    <<Char("quote")>> \o [i \in DOMAIN s |-> Escaped(s[i])] \o <<Char("quote")>>

\* ctx->ident: two for every container begun.
Ident == 2 * Cardinality({i \in DOMAIN todo : todo[i].do = "rest"})

\* ndm_json_print_ident_()
IdentTasks(n) ==
    IF Compact THEN << >>
    ELSE <<IF CrLf THEN Data(<<"\r", "\n">>) ELSE Char("\n")>>
         \o <<Data([i \in 1 .. n |-> " "])>>

\* What %lli, %llu and %g write: a run of characters that stands for the number.
Spelling(v) ==
    IF Is(v, <<"double", 0>>) THEN <<"double", v.word>>
    ELSE IF Is(v, <<"signed", 5>>) THEN <<"number", AsSigned(v.word, Width(5))>>
    ELSE <<"number", v.word>>

\* ndm_json_print_value_()
ValueTasks(v) ==
    LET r == value[v] IN
    CASE r.type = "object" -> <<Char("{"), Rest(v, 1), Char("}")>>
      [] r.type = "array" -> <<Char("["), Rest(v, 1), Char("]")>>
      [] r.type = "string" -> StringTasks(r.text)
      [] r.type = "null" -> <<Data(<<"n", "u", "l", "l">>)>>
      [] r.type = "boolean" -> <<Data(IF r.word = 1 THEN <<"t", "r", "u", "e">>
                                      ELSE <<"f", "a", "l", "s", "e">>)>>
      [] r.type = "number" -> <<Data(Spelling(r))>>

\* One turn of the loops of ndm_json_print_array_() and ndm_json_print_object_(),
\* and the rest of them.  The last ident is that of the container itself.
RestTasks(p, i) ==
    IF i > Len(members[p]) \/ ~ok THEN IdentTasks(Ident - 2)
    ELSE IdentTasks(Ident)
         \o (IF value[p].type = "object"
             THEN StringTasks(value[members[p][i]].name) \o <<Char(":")>>
                  \o (IF Compact THEN << >> ELSE <<Char(" ")>>)
             ELSE << >>)
         \o <<Whole(members[p][i])>>
         \o (IF i < Len(members[p]) THEN <<Char(",")>> ELSE << >>)
         \o <<Rest(p, i + 1)>>

-----------------------------------------------------------------------------
(* Steps *)

\* The block becomes s, or realloc() fails: the buffer is emptied either way.
Grow(s) ==
    /\ buffer' = << >>
    /\ \/ json' = s /\ ok' = ok
       \/ json' = json /\ ok' = FALSE

Keep(s) == buffer' = s /\ UNCHANGED <<json, ok>>

\* Mutant of PutChar: the buffer is flushed when the next character finds no room,
\* and the character is lost.
PutCharLate(c) ==
    IF Len(buffer) = BufSize THEN Grow(json \o buffer) ELSE Keep(Append(buffer, c))

\* ndm_json_print_char_()
PutChar(c) ==
    LET b == Append(buffer, c) IN
    IF Len(b) = BufSize THEN Grow(json \o b) ELSE Keep(b)

\* ndm_json_print_data_(), and ndm_json_print_fill_() of as many spaces
PutData(s) ==
    IF Len(s) < BufSize - Len(buffer) THEN Keep(buffer \o s)
    ELSE Grow(json \o buffer \o s)

\* ndm_json_array_print(), ndm_json_object_print() of the root.
StartPrinting ==
    /\ printing = "no" /\ value # << >>
    /\ printing' = "yes" /\ todo' = ValueTasks(1)
    /\ UNCHANGED <<buffer, json, ok, value, members>>

\* ndm_json_print_array_(), ndm_json_print_object_(), ndm_json_print_value_(),
\* ndm_json_print_ident_(), ndm_json_print_string_()
PrintTask ==
    LET t == Head(todo) IN
    /\ printing = "yes" /\ todo # << >>
    /\ todo' = CASE t.do = "rest" -> RestTasks(t.of, t.from) \o Tail(todo)
                 [] t.do = "value" -> ValueTasks(t.of) \o Tail(todo)
                 [] OTHER -> Tail(todo)
    /\ CASE t.do = "char" -> PutChar(t.text[1])
         [] t.do = "data" -> PutData(t.text)
         [] OTHER -> UNCHANGED <<buffer, json, ok>>
    /\ UNCHANGED <<printing, value, members>>

\* ndm_json_print_done_()
EndPrinting ==
    /\ printing = "yes" /\ todo = << >>
    /\ printing' = "done" /\ Grow(json \o buffer)
    /\ UNCHANGED <<todo, value, members>>

\* What is returned: the block, or NULL once anything failed.
Printed == IF ok THEN json ELSE << >>

PrinterNext == StartPrinting \/ PrintTask \/ EndPrinting

-----------------------------------------------------------------------------
(* Documents *)

\* A text is parsed into a tree that is there for it alone.
Parse ==
    /\ printing = "no" /\ (value = << >> \/ tokens # << >>)
    /\ JsonParserNext /\ UNCHANGED printVars

Construct ==
    /\ printing = "no" /\ tokens = << >>
    /\ Build(Numbers, Strings, Names) /\ UNCHANGED <<jsonParseVars, printVars>>

\* What was parsed with success, or built.
PrintOut ==
    /\ result = "OK" \/ tokens = << >>
    /\ PrinterNext /\ UNCHANGED jsonParseVars

JsonNext == Parse \/ Construct \/ PrintOut

documentVars == <<jsonVars, jsonParseVars, printVars>>

Spec ==
    /\ JsonInit /\ JsonParserInit /\ PrinterInit
    /\ [][JsonNext]_documentVars

-----------------------------------------------------------------------------
(* Properties *)

Depth[v \in {Absent} \cup DOMAIN value] ==
    IF v = Absent THEN 0 ELSE Depth[value[v].parent] + 1

Line(n) ==
    IF Compact THEN << >>
    ELSE (IF CrLf THEN <<"\r", "\n">> ELSE <<"\n">>) \o [i \in 1 .. 2 * n |-> " "]
Together(tasks) == FlattenSeq([i \in DOMAIN tasks |-> tasks[i].text])

\* The text of each value of the tree.
Written[v \in DOMAIN value] ==
    IF value[v].type \notin Containers THEN Together(ValueTasks(v))
    ELSE LET Item(i) ==
                 LET k == members[v][i] IN
                 Line(Depth[v])
                 \o (IF value[v].type = "array" THEN << >>
                     ELSE Together(StringTasks(value[k].name))
                          \o (IF Compact THEN <<":">> ELSE <<":", " ">>))
                 \o Written[k] \o (IF k = LastOf(v) THEN << >> ELSE <<",">>)
         IN <<IF value[v].type = "array" THEN "[" ELSE "{">>
            \o FlattenSeq([i \in DOMAIN members[v] |-> Item(i)])
            \o Line(Depth[v] - 1)
            \o <<IF value[v].type = "array" THEN "]" ELSE "}">>

\* "There is always at least the one free symbol in a buffer": nothing is put past its
\* end, and what is returned is the text of the whole tree, wherever the ends of the
\* buffer fall in it, or NULL.  (ndm_json_print_char_(), ndm_json_print_data_())
PrintIsWhole ==
    /\ Len(buffer) < BufSize
    /\ printing = "done" => Printed \in {Written[1], << >>}
=============================================================================
