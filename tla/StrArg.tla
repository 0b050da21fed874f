------------------------------- MODULE StrArg -------------------------------
(***************************************************************************)
(* ndm_strarg_parse(): a command is split into arguments at white space    *)
(* outside quotes.  It is done in place, in a copy: quotes and backslashes *)
(* are removed by moving the rest of the text down over them while the     *)
(* arguments found so far are kept as places in it.                        *)
(***************************************************************************)
EXTENDS Integers, Sequences

CONSTANTS
    Char,       \* characters of commands
    Space,      \* those isspace() knows
    Quote,      \* ' and "
    Backslash,
    Escaped,    \* what stands for itself, or for another, after a backslash
    MaxLength   \* bound on the length of a command

Nul == "nul"

ASSUME CharAssumption ==
    /\ Quote \subseteq Char /\ Backslash \in Char /\ MaxLength \in Nat
    /\ Backslash \notin Quote \cup Space /\ Quote \cap Space = {}
    /\ DOMAIN Escaped \subseteq Char
    /\ Nul \notin Char \cup Space /\ \A c \in DOMAIN Escaped : Escaped[c] # Nul

VARIABLES
    command,    \* the command
    args,       \* the vector of the caller: its arguments, none if it is empty
    answer,     \* what the call returned
    argPc,      \* where the call is: at which loop, or before or behind it
    argText,    \* s, the copy
    argPlace,   \* p
    argQuote,   \* q
    argv        \* where the arguments found so far begin

argVars == <<command, args, answer, argPc, argText, argPlace, argQuote, argv>>

\* *p, of the text b from its p-th character
Char_(b, p) == IF p > Len(b) THEN Nul ELSE b[p]

Here == Char_(argText, argPlace)

\* __ndm_strarg_remove_symbol()
Removed(b, p) == SubSeq(b, 1, p - 1) \o SubSeq(b, p + 1, Len(b))

\* The string at a place.
StringAt(b, p) ==
    LET end == CHOOSE e \in p .. Len(b) + 1 :
                  Char_(b, e) = Nul /\ \A k \in p .. e - 1 : b[k] # Nul
    IN SubSeq(b, p, end - 1)

-----------------------------------------------------------------------------
ArgInit ==
    /\ command \in UNION {[1 .. n -> Char] : n \in 0 .. MaxLength}
    /\ args = <<<<"old">>>> /\ answer = "called"
    /\ argPc = "called" /\ argText = << >> /\ argPlace = 1 /\ argQuote = Nul /\ argv = << >>

Yields(error) ==
    /\ answer' = error /\ argPc' = "returned"
    /\ UNCHANGED <<command, argText, argPlace, argQuote, argv>>

Refuses(error) == Yields(error) /\ UNCHANGED args

\* The text, the place in it and the loop that goes on there.
Continues(text, place, loop) ==
    /\ argText' = text /\ argPlace' = place /\ argPc' = loop
    /\ UNCHANGED <<command, args, answer>>

Skip == Continues(argText, argPlace + 1, argPc) /\ UNCHANGED <<argQuote, argv>>

\* __ndm_strarg_parse_escape_sequence()
Escape ==
    LET rest == Removed(argText, argPlace)
        c    == Char_(rest, argPlace)
    IN IF c \in DOMAIN Escaped
       THEN /\ Continues([rest EXCEPT ![argPlace] = Escaped[c]], argPlace + 1, argPc)
            /\ UNCHANGED <<argQuote, argv>>
       ELSE Refuses("EINVAL")

Copy ==
    /\ argPc = "called"
    /\ \/ Refuses("ENOMEM")
       \/ Continues(command, 1, "between") /\ UNCHANGED <<argQuote, argv>>

\* White space is skipped, and an argument begun behind it.
Between ==
    /\ argPc = "between"
    /\ \/ Here \in Space /\ Skip
       \/ Here = Nul /\ Continues(argText, argPlace, "read") /\ UNCHANGED <<argQuote, argv>>
       \/ /\ Here \notin Space \cup {Nul}
          /\ \/ Refuses("ENOMEM")
             \/ /\ Continues(argText, argPlace, "argument")
                /\ argv' = Append(argv, argPlace) /\ UNCHANGED argQuote

\* A character of an argument, or the one behind it.
Argument ==
    /\ argPc = "argument"
    /\ \/ /\ Here \in Quote
          /\ Continues(Removed(argText, argPlace), argPlace, "quoted")
          /\ argQuote' = Here /\ UNCHANGED argv
       \/ Here = Backslash /\ Escape
       \/ Here \notin Quote \cup Space \cup {Backslash, Nul} /\ Skip
       \/ /\ Here \in Space
          /\ Continues([argText EXCEPT ![argPlace] = Nul], argPlace + 1, "between")
          /\ UNCHANGED <<argQuote, argv>>
       \/ Here = Nul /\ Continues(argText, argPlace, "read") /\ UNCHANGED <<argQuote, argv>>

\* The quote that was open is found, or the text ends without it.
Unquote ==
    \/ Here = Nul /\ Refuses("EINVAL")
    \/ /\ Here = argQuote
       /\ Continues(Removed(argText, argPlace), argPlace, "argument")
       /\ argQuote' = Nul /\ UNCHANGED argv

\* Mutant of Quoted: a backslash is left to the caller.
QuotedPlain ==
    /\ argPc = "quoted"
    /\ \/ Unquote
       \/ Here \notin {Nul, argQuote} /\ Skip

\* __ndm_strarg_parse_quoted_string()
Quoted ==
    /\ argPc = "quoted"
    /\ \/ Unquote
       \/ Here = Backslash /\ Escape
       \/ Here \notin {Nul, argQuote, Backslash} /\ Skip

\* The vector is empty when there is no memory for the arguments.
Assign ==
    /\ argPc = "read"
    /\ \/ argv # << >> /\ Yields("ENOMEM") /\ args' = << >>
       \/ Yields("done") /\ args' = [k \in DOMAIN argv |-> StringAt(argText, argv[k])]

ArgNext == Copy \/ Between \/ Argument \/ Quoted \/ Assign

ArgSpec == ArgInit /\ [][ArgNext]_argVars

-----------------------------------------------------------------------------
\* A command read once, character by character: within which quote, whether a
\* backslash was last, within an argument or between two, and the arguments.
Read(r, c) ==
    LET list == IF r.inside THEN r.list ELSE Append(r.list, << >>)
        inner(ch) == [r EXCEPT !.inside = TRUE, !.escape = FALSE,
                            !.list = [list EXCEPT ![Len(list)] = Append(@, ch)]]
    IN IF r.bad THEN r
       ELSE IF r.escape
            THEN IF c \in DOMAIN Escaped THEN inner(Escaped[c]) ELSE [r EXCEPT !.bad = TRUE]
       ELSE IF c = Backslash THEN [r EXCEPT !.escape = TRUE, !.inside = TRUE, !.list = list]
       ELSE IF r.quote # Nul THEN IF c = r.quote THEN [r EXCEPT !.quote = Nul] ELSE inner(c)
       ELSE IF c \in Quote THEN [r EXCEPT !.quote = c, !.inside = TRUE, !.list = list]
       ELSE IF c \in Space THEN [r EXCEPT !.inside = FALSE]
       ELSE inner(c)

Unread == [quote |-> Nul, escape |-> FALSE, inside |-> FALSE, bad |-> FALSE, list |-> << >>]

ReadSoFar[k \in 0 .. Len(command)] ==
    IF k = 0 THEN Unread ELSE Read(ReadSoFar[k - 1], command[k])

\* The arguments are those of a command read from left to right, whatever was
\* removed before and within them: a space within quotes, or made by a
\* backslash, does not end one, and two quotes are an empty one.  A quote that
\* is not closed and a backslash before nothing it knows are refused, and leave
\* the vector as it was.
ArgumentsAreRead ==
    LET w == ReadSoFar[Len(command)]
        good == ~w.bad /\ ~w.escape /\ w.quote = Nul
    IN /\ answer = "done" => good /\ args = w.list
       /\ answer = "EINVAL" => ~good /\ args = <<<<"old">>>>
       /\ answer = "ENOMEM" => args \in {<< >>, <<<<"old">>>>}

\* The copy is read to its end, or the call fails.
ParseReturns == <>(argPc = "returned")
=============================================================================
