------------------------------- MODULE MCData -------------------------------
(***************************************************************************)
(* The containers and the conversions that programs use by themselves:     *)
(* maps, pools, vectors and accumulators of strings, tables of tagged      *)
(* values, character sets and times.  A behaviour has one subject; the     *)
(* others stay as they are.                                                *)
(***************************************************************************)
EXTENDS StrMap, Pool, StrVec, StrAcc, TlvTable, Time, TLC

CONSTANTS
    lower, upper, other, short, long,   \* of maps
    MaxItems, MaxGiven,                 \* bounds on maps and on pools
    MaxPrinted,                         \* a bound on what is printed
    Lower, Pairs, Spelling, HostOrder, Byte, MaxText, Room

VARIABLES
    subject,
    cd, text, fed, taken, out, room, count, said, fault

C == INSTANCE Conv

convVars == <<cd, text, fed, taken, out, room, count, said, fault>>
dataVars == <<subject, mapVars, poolVars, vecVars, accVars, tlvVars, convVars, timeVars>>

-----------------------------------------------------------------------------
\* Two maps, three keys of which two differ in case only, and two values of
\* different lengths, in blocks of two.
MCFolded == [k \in Key |-> IF k = upper THEN lower ELSE k]
MCSize == [x \in Value |-> IF x = short THEN 1 ELSE 2]
MCAddr == 1 .. 2 * MaxItems

\* States that differ in the addresses of entries only are one state: addresses
\* are compared, nothing else.
Anonymous ==
    <<[m \in Map |-> [i \in DOMAIN Items(m) |->
          IF Items(m)[i] \in DOMAIN heap THEN <<heap[Items(m)[i]]>> ELSE << >>]],
      [m \in Map |-> vec[m].block], flags, done,
      Cardinality(DOMAIN heap), EntriesAreOwned>>

View ==
    IF subject = "map" THEN <<subject, Anonymous>>
    ELSE <<subject, poolVars, vecVars, accVars, tlvVars, convVars, timeVars>>

\* Texts with and without a zero within.
MCPrinted == {<< >>, <<1>>, <<1, 2, 0>>, <<0>>, <<2, 0, 1>>}

\* Values of no, of an odd and of an even number of units.
MCTagValue == {<< >>, <<1>>, <<2, 3, 1>>}

-----------------------------------------------------------------------------
(* Names stand for UTF-8, UTF-16, UTF-16BE, UTF-32LE, ISO 8859-5 and a     *)
(* charset of EBCDIC, and are spelled in other ways.                       *)

Coding(kind, order, table) == [kind |-> kind, order |-> order, table |-> table]
Named(name, coding) == [name |-> name, coding |-> coding]

MCLower == [c \in {"u", "U", "b", "c", "l", "1", "3", "5", "8"} |-> IF c = "U" THEN "u" ELSE c]

Cyrillic == (63 :> 63) @@ (65 :> 65) @@ (176 :> 1040)
Ebcdic == (111 :> 63) @@ (193 :> 65) @@ (63 :> 26)

MCPairs ==
    <<Named(<<"u", "-", "8">>, Coding("utf8", "be", << >>)),
      Named(<<"u", "-", "1">>, Coding("utf16", "host", << >>)),
      Named(<<"u", "-", "1", "b">>, Coding("utf16", "be", << >>)),
      Named(<<"u", "-", "3", "l">>, Coding("utf32", "le", << >>)),
      Named(<<"8", "-", "5">>, Coding("single", "be", Cyrillic)),
      Named(<<"c">>, Coding("single", "be", Ebcdic))>>

\* To and from; the last does not exist.
MCSpelling ==
    {<<<<"u", "1">>, <<"U", "8">>>>, <<<<"U", "8">>, <<"u", "1">>>>,
     <<<<"8", "5">>, <<"u", "1", "_", "b">>>>, <<<<"U", "8">>, <<"u", "3", "l">>>>,
     <<<<"8", "5">>, <<"U", "8">>>>, <<<<"U", "8">>, <<"8", "5">>>>,
     <<<<"c">>, <<"u", "1">>>>, <<<<"b">>, <<"U", "8">>>>}

\* Both sides of what the standard allows in each place of a character.
MCByte ==
    [utf8 |-> {65, 128, 144, 160, 194, 224, 237, 240, 244},
     utf16 |-> {0, 65, 4, 216, 220}, utf32 |-> {0, 1, 16, 65, 216},
     single |-> {65, 176, 1}]

-----------------------------------------------------------------------------
Subjects == {"map", "pool", "vector", "accumulator", "table", "charset", "time"}

Unconverted ==
    /\ cd = -1 /\ text = << >> /\ fed = 0 /\ room = 0 /\ taken = 0 /\ out = << >>
    /\ count = 0 /\ said = "not open" /\ fault = FALSE

MCInit ==
    /\ subject \in Subjects
    /\ MapInit /\ (subject # "map" => flags = [m \in Map |-> FALSE])
    /\ PoolInit /\ VecInit /\ AccInit /\ TlvInit
    /\ IF subject = "charset" THEN C!ConvInit ELSE Unconverted
    /\ TimeInit /\ (subject # "time" => time = Of(0, 0))

MCNext ==
    \/ /\ subject = "map" /\ MapNext /\ Cardinality(DOMAIN heap') <= MaxItems
       /\ UNCHANGED <<subject, poolVars, vecVars, accVars, tlvVars, convVars, timeVars>>
    \/ /\ subject = "pool" /\ PoolNext /\ Len(given') <= MaxGiven
       /\ UNCHANGED <<subject, mapVars, vecVars, accVars, tlvVars, convVars, timeVars>>
    \/ /\ subject = "vector" /\ VecNext
       /\ UNCHANGED <<subject, mapVars, poolVars, accVars, tlvVars, convVars, timeVars>>
    \/ /\ subject = "accumulator" /\ AccNext /\ \A a \in Acc : accSize'[a] <= MaxPrinted
       /\ UNCHANGED <<subject, mapVars, poolVars, vecVars, tlvVars, convVars, timeVars>>
    \/ /\ subject = "table" /\ TlvNext
       /\ UNCHANGED <<subject, mapVars, poolVars, vecVars, accVars, convVars, timeVars>>
    \/ /\ subject = "charset" /\ C!ConvNext
       /\ UNCHANGED <<subject, mapVars, poolVars, vecVars, accVars, tlvVars, timeVars>>
    \/ /\ subject = "time" /\ TimeNext
       /\ UNCHANGED <<subject, mapVars, poolVars, vecVars, accVars, tlvVars, convVars>>

MCSpec == MCInit /\ [][MCNext]_dataVars

-----------------------------------------------------------------------------
\* The properties of the modules that are instantiated.
CharactersAreConverted == C!CharactersAreConverted
CodesAreLegal == C!CodesAreLegal
=============================================================================
