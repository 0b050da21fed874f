------------------------------ MODULE JsonTree ------------------------------
(***************************************************************************)
(* JSON values of ndm_json: the tree a program builds with                 *)
(* ndm_json_array_push_*() and ndm_json_object_set_*(), and what it reads   *)
(* back.  Values are numbered in the order they are allocated from the     *)
(* pool; the circular list of a container's elements or members is the     *)
(* sequence of their numbers.                                              *)
(*                                                                         *)
(* Integers keep their width: a number is kept as a pattern of the widest  *)
(* type, with a flag for every type of C that holds it.                    *)
(***************************************************************************)
EXTENDS Integers, SequencesExt

CONSTANTS
    Bits,       \* width of "char", "short", "int", "long" and "llong"
    Double      \* double values

IntTypes == <<"char", "short", "int", "long", "llong">>
Width(i) == Bits[IntTypes[i]]
Words == 2 ^ Width(5)       \* patterns of the widest type

ASSUME WidthAssumption ==
    /\ \A i \in 1 .. 5 : Width(i) \in Nat \ {0}
    /\ \A i \in 1 .. 4 : Width(i) <= Width(i + 1)
ASSUME DoubleAssumption == Double \subseteq Int

VARIABLES
    value,      \* the values allocated
    members     \* the elements or members of each, in order

jsonVars == <<value, members>>

Absent == 0
Containers == {"array", "object"}

\* A value, its flags and data.  What its type does not use is not initialized by
\* the code, and not read by it.
Value(type) ==
    [type |-> type, parent |-> Absent, name |-> << >>, text |-> << >>,
     is |-> {}, word |-> 0]

JsonInit == value = << >> /\ members = << >>

-----------------------------------------------------------------------------
(* Numbers *)

Signed(i) == -(2 ^ (Width(i) - 1)) .. 2 ^ (Width(i) - 1) - 1
Unsigned(i) == 0 .. 2 ^ Width(i) - 1

\* The pattern of a number and the numbers it stands for, in w bits.
Pattern(n) == n % Words
AsUnsigned(word, w) == word % 2 ^ w
AsSigned(word, w) ==
    LET n == word % 2 ^ w IN IF n >= 2 ^ (w - 1) THEN n - 2 ^ w ELSE n

\* Mutant of SignedFlags: a type is tried whether or not the wider ones hold n, by
\* the bound of the unsigned type.
SignedFlagsLoose(n) ==
    {<<"signed", i>> : i \in {j \in 1 .. 5 : n >= -(2 ^ (Width(j) - 1)) /\ n < 2 ^ Width(j)}}

\* ndm_json_value_append_llong_flags_(), ndm_json_value_append_ullong_flags_(): a
\* narrower type is tried if all wider ones hold the number.
SignedFlags(n) ==
    {<<"signed", i>> : i \in {j \in 1 .. 5 : \A k \in j .. 4 : n \in Signed(k)}}
UnsignedFlags(n) ==
    {<<"unsigned", i>> : i \in {j \in 1 .. 5 : \A k \in j .. 4 : n \in Unsigned(k)}}

\* ndm_json_value_alloc_llong_()
LLong(n) ==
    [Value("number") EXCEPT
        !.word = Pattern(n),
        !.is = SignedFlags(n) \cup (IF n >= 0 THEN UnsignedFlags(n) ELSE {})]

\* ndm_json_value_alloc_ullong_()
ULLong(n) ==
    [Value("number") EXCEPT
        !.word = Pattern(n),
        !.is = UnsignedFlags(n) \cup (IF n \in Signed(5) THEN SignedFlags(n) ELSE {})]

\* ndm_json_value_alloc_double_()
DoubleOf(d) == [Value("number") EXCEPT !.word = d, !.is = {<<"double", 0>>}]

\* ndm_json_value_is_char() .. _is_ullong(), _is_double()
Is(v, type) == v.type = "number" /\ type \in v.is

\* ndm_json_value_char() .. ndm_json_value_ullong(): a conversion of the data, which
\* does not ask for the flags.
NumberAs(v, sign, i) ==
    IF sign = "signed" THEN AsSigned(v.word, Width(i)) ELSE AsUnsigned(v.word, Width(i))

-----------------------------------------------------------------------------
(* Reading *)

\* ndm_json_array_element_first() .. _prev(), and of members: 0 at the end.
FirstOf(p) == IF members[p] = << >> THEN Absent ELSE members[p][1]
LastOf(p) == IF members[p] = << >> THEN Absent ELSE Last(members[p])
Place(v) == CHOOSE i \in DOMAIN members[value[v].parent] : members[value[v].parent][i] = v
NextOf(v) ==
    LET s == members[value[v].parent] IN IF v = Last(s) THEN Absent ELSE s[Place(v) + 1]
PrevOf(v) ==
    LET s == members[value[v].parent] IN IF v = s[1] THEN Absent ELSE s[Place(v) - 1]

\* ndm_json_object_get(): the first member of a name.
Get(o, name) ==
    LET i == SelectInSeq(members[o], LAMBDA v : value[v].name = name) IN
    IF i = 0 THEN Absent ELSE members[o][i]

-----------------------------------------------------------------------------
(* Building *)

\* A value without a parent yet.
Allocate(v) == value' = Append(value, v) /\ members' = Append(members, << >>)

\* ndm_dlist_insert_before() of the head: v is the last of p's.
Linked(k, p, v) ==
    [i \in DOMAIN k |-> IF i = p THEN Append(k[i], v) ELSE k[i]]

\* ndm_json_array_push_() and ndm_json_object_set_() of a value that was just
\* allocated.  The name of an element is not used.
Attached(p, name, v) ==
    /\ value' = Append(value, [v EXCEPT !.parent = p, !.name = name])
    /\ members' = Linked(Append(members, << >>), p, Len(value) + 1)

\* What a number, a string or a container given to the calls is allocated as.
Scalars(numbers, strings) ==
    {Value("null")} \cup {[Value("boolean") EXCEPT !.word = b] : b \in 0 .. 1}
    \cup {[Value("string") EXCEPT !.text = s] : s \in strings}
    \cup {LLong(n) : n \in {m \in numbers : m \in Signed(5)}}
    \cup {ULLong(n) : n \in {m \in numbers : m \in Unsigned(5)}}
    \cup {DoubleOf(d) : d \in Double}

\* ndm_json_array_new(), ndm_json_object_new(): the root.  A call that gets no memory
\* returns NULL and leaves every list as it was: so do those below.
New(type) ==
    /\ value = << >> /\ type \in Containers
    /\ Allocate(Value(type))

\* ndm_json_array_push_null() .. ndm_json_array_push_object()
Push(a, v) ==
    /\ a \in DOMAIN value /\ value[a].type = "array"
    /\ Attached(a, << >>, v)

\* ndm_json_object_set_null() .. ndm_json_object_set_object(): a name that is there
\* is not looked for.
Set(o, name, v) ==
    /\ o \in DOMAIN value /\ value[o].type = "object"
    /\ Attached(o, name, v)

Build(numbers, strings, names) ==
    \/ \E t \in Containers : New(t)
    \/ \E p \in DOMAIN value,
          v \in Scalars(numbers, strings) \cup {Value(t) : t \in Containers} :
          Push(p, v) \/ \E name \in names : Set(p, name, v)

-----------------------------------------------------------------------------
(* Properties *)

\* A number answers to exactly the types that hold it, and each of them reads it back
\* whole from the word it is kept in, whichever sign it was stored with.
\* (ndm_json_value_append_llong_flags_(), ndm_json_value_char())
NumbersFitTheirTypes ==
    \A v \in DOMAIN value :
        value[v].type = "number" /\ ~Is(value[v], <<"double", 0>>) =>
            \E n \in Signed(5) \cup Unsigned(5) :
                /\ Pattern(n) = value[v].word
                /\ \A i \in 1 .. 5 :
                      /\ Is(value[v], <<"signed", i>>) <=> n \in Signed(i)
                      /\ Is(value[v], <<"unsigned", i>>) <=> n \in Unsigned(i)
                /\ \A f \in value[v].is : NumberAs(value[v], f[1], f[2]) = n
=============================================================================
