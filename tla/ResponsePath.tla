---------------------------- MODULE ResponsePath ----------------------------
(***************************************************************************)
(* The accessors of a response, ndm_core_response_first_*(): a path of     *)
(* names, with an attribute at its end for all but the first of them,      *)
(* leads to a value, which is read as a text, a number or a truth.         *)
(***************************************************************************)
EXTENDS Integers, Sequences, FiniteSetsExt, SequencesExt

CONSTANTS
    Response,   \* trees: sequences of nodes, a root first, the children of a
                \* node in their order, [parent, name, attrs, value],
                \* and attributes a sequence of [name, value]
    PathChar,   \* characters of paths, "/" and "@" among them
    MaxPath,    \* bound: the length of a path
    Number,     \* the texts that are integers, with their values
    Truth,      \* the words of a truth, with their values
    NoValue     \* no attribute, or no value

ASSUME ResponseAssumption ==
    /\ \A r \in Response :
          /\ r \in Seq(Range(r)) /\ r # << >>
          /\ \A n \in DOMAIN r : r[n].attrs \in Seq(Range(r[n].attrs))
    /\ MaxPath \in Nat /\ NoValue \notin BoundedSeq(PathChar, MaxPath)

VARIABLES
    response, path, kind,   \* what the accessor is given
    accPc,                  \* where it is
    left,                   \* value_path: what is left of the path
    attr,                   \* attr_name
    at,                     \* the node reached
    accError, accValue      \* what it returns

accVars == <<response, path, kind, accPc, left, attr, at, accError, accValue>>

Kind == {"node", "str", "int", "bool", "tag"}

Children(n, name) == {m \in DOMAIN response : response[m].parent = n /\ response[m].name = name}

\* ndm_xml_node_first_child()
FirstChild(n, name) == Min(Children(n, name))

\* ndm_xml_node_first_attr(): an empty name is that of any attribute.
Attrs(n, name) == {i \in DOMAIN response[n].attrs :
                     name = << >> \/ response[n].attrs[i].name = name}
FirstAttr(n, name) == response[n].attrs[Min(Attrs(n, name))].value

AccessInit ==
    /\ response \in Response /\ path \in BoundedSeq(PathChar, MaxPath) /\ kind \in Kind
    /\ accPc = "format" /\ left = << >> /\ attr = NoValue /\ at = 1
    /\ accError = "none" /\ accValue = NoValue

Answers(error, v) == accPc' = "returned" /\ accError' = error /\ accValue' = v

-----------------------------------------------------------------------------
\* Mutant of AttrMark: the search does not stop at a slash.
AttrMarkAny ==
    LET marks == {k \in DOMAIN path : path[k] = "@"}
    IN IF marks = {} THEN 0 ELSE Max(marks)

\* Where the path's last name is one of an attribute, or 0.
AttrMark ==
    LET marks == {k \in DOMAIN path : path[k] \in {"@", "/"}}
    IN IF marks # {} /\ path[Max(marks)] = "@" THEN Max(marks) ELSE 0

\* A path that cannot be formatted is an error; first_node() takes no attribute.
Format ==
    /\ accPc = "format"
    /\ \/ Answers("SYSTEM", NoValue) /\ UNCHANGED <<left, attr>>
       \/ /\ accPc' = "walk"
          /\ IF kind # "node" /\ AttrMark > 0
             THEN /\ left' = SubSeq(path, 1, AttrMark - 1)
                  /\ attr' = SubSeq(path, AttrMark + 1, Len(path))
             ELSE left' = path /\ attr' = NoValue
          /\ UNCHANGED <<accError, accValue>>
    /\ UNCHANGED <<response, path, kind, at>>

\* __ndm_core_response_find_end()
NameEnd == Min({k \in DOMAIN left : left[k] \in {"/", "@"}} \cup {Len(left) + 1})
WalkedName == SubSeq(left, 1, NameEnd - 1)

\* An error, which is also no tag for who asks for one only.
Fails(error) ==
    IF kind = "tag" /\ error = "NOT_FOUND" THEN Answers("OK", FALSE) ELSE Answers(error, NoValue)

\* The next name of the path; an empty one is skipped.
Walk ==
    /\ accPc = "walk"
    /\ \/ /\ NameEnd \in DOMAIN left /\ left[NameEnd] = "@"
          /\ Fails("SYNTAX") /\ UNCHANGED <<left, at>>
       \/ /\ NameEnd \in DOMAIN left => left[NameEnd] = "/"
          /\ left' = SubSeq(left, NameEnd + 1, Len(left))
          /\ IF WalkedName # << >> /\ Children(at, WalkedName) = {}
             THEN Fails("NOT_FOUND") /\ UNCHANGED at
             ELSE /\ at' = IF WalkedName = << >> THEN at ELSE FirstChild(at, WalkedName)
                  /\ accPc' = IF left' = << >> THEN "read" ELSE "walk"
                  /\ UNCHANGED <<accError, accValue>>
    /\ UNCHANGED <<response, path, kind, attr>>

\* The text read, by what was asked for.
ReadAs(text) ==
    CASE kind = "str" -> Answers("OK", text)
      [] kind = "tag" -> Answers("OK", TRUE)
      [] kind = "int" -> IF text \in DOMAIN Number THEN Answers("OK", Number[text])
                         ELSE Answers("FORMAT", NoValue)
      [] kind = "bool" -> IF text \in DOMAIN Number THEN Answers("OK", Number[text] # 0)
                          ELSE IF text \in DOMAIN Truth THEN Answers("OK", Truth[text])
                          ELSE Answers("FORMAT", NoValue)

ReadValue ==
    /\ accPc = "read"
    /\ IF kind = "node" THEN Answers("OK", at)
       ELSE IF attr = NoValue THEN ReadAs(response[at].value)
       ELSE IF Attrs(at, attr) # {} THEN ReadAs(FirstAttr(at, attr))
       ELSE Fails("NOT_FOUND")
    /\ UNCHANGED <<response, path, kind, left, attr, at>>

AccessNext == Format \/ Walk \/ ReadValue
AccessSpec == AccessInit /\ [][AccessNext]_accVars

-----------------------------------------------------------------------------
(* What a path means, name by name from its first character on.            *)

\* The attribute a path ends with begins at its last "@", no "/" being after it.
MeantAttr ==
    {k \in DOMAIN path : kind # "node" /\ path[k] = "@"
                         /\ \A j \in k + 1..Len(path) : path[j] \notin {"@", "/"}}
MeantNames == IF MeantAttr = {} THEN path ELSE SubSeq(path, 1, Max(MeantAttr) - 1)

First(S) == IF S = {} THEN {} ELSE {Min(S)}
Enter(nodes, name) ==
    IF name = << >> THEN nodes ELSE UNION {First(Children(n, name)) : n \in nodes}

\* What is before the k-th character, from the last slash on.
NameBefore(names, k) ==
    SubSeq(names, Max({0} \cup {j \in 1..k - 1 : names[j] = "/"}) + 1, k - 1)

\* The node that names lead to, none or one, from character to character.
Lead(names) ==
    LET whole == Append(names, "/")
        reached[k \in 0..Len(whole)] ==
            IF k = 0 THEN {1}
            ELSE IF whole[k] = "/" THEN Enter(reached[k - 1], NameBefore(whole, k))
            ELSE reached[k - 1]
    IN reached[Len(whole)]
MeantNodes == Lead(MeantNames)

\* The names before the first that has an "@" in it.
Sound ==
    LET mark == Min({k \in DOMAIN MeantNames : MeantNames[k] = "@"})
    IN SubSeq(MeantNames, 1, Max({0} \cup {k \in 1..mark : MeantNames[k] = "/"}))

MeantTexts ==
    IF MeantAttr = {} THEN {response[n].value : n \in MeantNodes}
    ELSE LET name == SubSeq(path, Max(MeantAttr) + 1, Len(path))
         IN UNION {{response[n].attrs[i].value : i \in First(Attrs(n, name))} :
                     n \in MeantNodes}

\* The answer is that of the node and the attribute the path means: the first
\* child of each name and no other, however the next name fares; "/" as often as
\* one likes; and an "@" before the last name is an error, unless a name before
\* the one it stands in is missing.
AnswerIsOfPath ==
    accPc = "returned" =>
       /\ accError = "OK" =>
             CASE kind = "node" -> MeantNodes = {accValue}
               [] kind = "str" -> MeantTexts = {accValue}
               [] kind = "tag" -> accValue = (MeantTexts # {})
               [] kind = "int" -> \E t \in MeantTexts : accValue = Number[t]
               [] kind = "bool" -> \E t \in MeantTexts :
                     accValue = IF t \in DOMAIN Number THEN Number[t] # 0 ELSE Truth[t]
       /\ accError = "NOT_FOUND" =>
             /\ (IF kind = "node" THEN MeantNodes ELSE MeantTexts) = {}
             /\ "@" \in Range(MeantNames) => Lead(Sound) = {}
       /\ accError = "SYNTAX" => "@" \in Range(MeantNames) /\ Lead(Sound) # {}
       /\ accError = "FORMAT" => \E t \in MeantTexts : t \notin DOMAIN Number
=============================================================================
