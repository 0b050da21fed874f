-------------------------------- MODULE Conv --------------------------------
(***************************************************************************)
(* ndm_conv(), the library's iconv(): a text that comes in portions is     *)
(* converted into a buffer that is drained when it is full.  Every         *)
(* character is decoded to a code point and encoded again, and an error    *)
(* leaves the pointers at the character it is about.                       *)
(***************************************************************************)
EXTENDS Integers, Sequences, FiniteSetsExt, SequencesExt

CONSTANTS
    Lower,      \* letters and digits, each with its lower case
    Pairs,      \* NDM_CONV_PAIRS_: [name, coding] in the order of the table
    Spelling,   \* <<to, from>>: the names ndm_conv_open() is called with
    HostOrder,  \* ndm_endian_is_le(): "le" or "be"
    Byte,       \* what texts are made of, for each kind of coding
    MaxText,    \* bound: their length
    Room        \* sizes of the output buffer

VARIABLES
    cd,         \* the descriptor
    text,       \* all that is to be converted
    fed, taken, \* how much of it was passed, and taken
    out,        \* what was written
    room,       \* out_bytes_left
    count,      \* nonidentical_count, of all calls
    said,       \* what the last call returned, "none" while it runs
    fault       \* the program was stopped by an assertion

convVars == <<cd, text, fed, taken, out, room, count, said, fault>>

UnicodeMax == 1114111
SurHigh == 55296..56319
SurLow == 56320..57343
IsLegal(cp) == cp <= UnicodeMax /\ cp \notin SurHigh \cup SurLow

Question == 63

-----------------------------------------------------------------------------
(* Decoders: a size, a size of 0 for too few bytes, or a negative one.     *)

Decoded(size, cp) == [size |-> size, cp |-> cp]
Rejected(size) == Decoded(size, 0)

IsContinuation(b) == b \div 64 = 2

Utf8Length(b) ==
    CASE b < 128 -> 1 [] b < 194 -> -2 [] b < 224 -> 2 [] b < 240 -> 3 [] b < 245 -> 4
      [] OTHER -> -1

\* Second bytes of codes that have a shorter form, or are too large.
IsOutOfRange(b, c) ==
    \/ b = 224 /\ c < 160
    \/ b = 240 /\ c < 144
    \/ b = 244 /\ c >= 144

FromUtf8(in) ==
    LET n == Utf8Length(in[1])
        bad == {i \in 2..n : ~IsContinuation(in[i]) \/ (i = 2 /\ IsOutOfRange(in[1], in[2]))}
        high == IF n = 1 THEN in[1] ELSE in[1] % 2^(7 - n)
    IN CASE n < 0 -> Rejected(n)
         [] n > Len(in) -> Rejected(0)
         [] n <= Len(in) /\ bad # {} -> Rejected(-Min(bad))
         [] OTHER -> Decoded(n, FoldLeft(LAMBDA cp, b : (cp * 64) + (b % 64), high,
                                         SubSeq(in, 2, n)))

Order(coding) == IF coding.order = "host" THEN HostOrder ELSE coding.order

\* The bytes from the most significant on.
BigFirst(order, bytes) == IF order = "be" THEN bytes ELSE Reverse(bytes)
Word(order, bytes) ==
    LET b == BigFirst(order, bytes) IN b[1] * 256 + b[2]

FromUtf16(order, in) ==
    LET w == Word(order, SubSeq(in, 1, 2))
        v == Word(order, SubSeq(in, 3, 4))
    IN CASE Len(in) < 2 -> Rejected(0)
         [] Len(in) >= 2 /\ w \notin SurHigh \cup SurLow -> Decoded(2, w)
         [] Len(in) >= 2 /\ w \in SurLow -> Rejected(-1)
         [] Len(in) \in {2, 3} /\ w \in SurHigh -> Rejected(0)
         [] Len(in) >= 4 /\ w \in SurHigh /\ v \notin SurLow -> Rejected(-3)
         [] OTHER -> Decoded(4, ((w % 1024) * 1024) + (v % 1024) + 65536)

\* A code with a bit in its first byte is too large, however large it is.
FromUtf32(order, in) ==
    LET b == BigFirst(order, SubSeq(in, 1, 4))
        cp == IF b[1] > 0 THEN UnicodeMax + 1 ELSE (b[2] * 256 + b[3]) * 256 + b[4]
    IN CASE Len(in) < 4 -> Rejected(0)
         [] Len(in) >= 4 /\ IsLegal(cp) -> Decoded(4, cp)
         [] OTHER -> Rejected(-1)

\* The charsets of one byte, by the tables generated for them.
FromSingle(table, in) ==
    IF in[1] \in DOMAIN table THEN Decoded(1, table[in[1]]) ELSE Rejected(-1)

ToUni(coding, in) ==
    CASE coding.kind = "utf8" -> FromUtf8(in)
      [] coding.kind = "utf16" -> FromUtf16(Order(coding), in)
      [] coding.kind = "utf32" -> FromUtf32(Order(coding), in)
      [] coding.kind = "single" -> FromSingle(coding.table, in)

-----------------------------------------------------------------------------
(* Encoders: the bytes, or none for a code the charset does not have.      *)

\* Mutant of Utf8Size: the first code of three bytes takes two.
Utf8SizeShort(cp) == IF cp < 128 THEN 1 ELSE IF cp < 2049 THEN 2 ELSE IF cp < 65536 THEN 3 ELSE 4

Utf8Size(cp) == IF cp < 128 THEN 1 ELSE IF cp < 2048 THEN 2 ELSE IF cp < 65536 THEN 3 ELSE 4

\* The marks of the first byte and of the others have no bits in common with
\* those of the code.
AsUtf8(cp) ==
    LET n == Utf8Size(cp)
        Mark == <<0, 192, 224, 240>>
    IN [i \in 1..n |-> IF i = 1 THEN Mark[n] + (cp \div 64^(n - 1))
                                ELSE 128 + ((cp \div 64^(n - i)) % 64)]

AsWord(order, w) == BigFirst(order, <<w \div 256, w % 256>>)

AsUtf16(order, cp) ==
    IF cp < 65536 THEN AsWord(order, cp)
    ELSE LET c == cp - 65536
         IN AsWord(order, 55296 + ((c \div 1024) % 1024)) \o AsWord(order, 56320 + (c % 1024))

AsUtf32(order, cp) ==
    BigFirst(order, <<0, cp \div 65536, (cp \div 256) % 256, cp % 256>>)

AsSingle(table, cp) ==
    LET codes == {b \in DOMAIN table : table[b] = cp}
    IN IF codes = {} THEN << >> ELSE <<Min(codes)>>

UniTo(coding, cp) ==
    CASE coding.kind = "utf8" -> AsUtf8(cp)
      [] coding.kind = "utf16" -> AsUtf16(Order(coding), cp)
      [] coding.kind = "utf32" -> AsUtf32(Order(coding), cp)
      [] coding.kind = "single" -> AsSingle(coding.table, cp)

-----------------------------------------------------------------------------
(* The descriptor: two indexes of the table, from 0, a byte each.          *)

Canonical(name) ==
    LET alnum == SelectSeq(name, LAMBDA c : c \in DOMAIN Lower)
    IN [i \in DOMAIN alnum |-> Lower[alnum[i]]]

Indexes(name) == {i \in DOMAIN Pairs : Canonical(Pairs[i].name) = Canonical(name)}

\* ndm_conv_find_(): the first name that differs in case and punctuation only.
Find(name) == IF Indexes(name) = {} THEN -1 ELSE Min(Indexes(name)) - 1

Open(to, from) ==
    IF Find(to) < 0 \/ Find(from) < 0 THEN -1 ELSE Find(from) * 256 + Find(to) * 65536

FromCoding == Pairs[1 + ((cd \div 256) % 256)].coding
ToCoding == Pairs[1 + ((cd \div 65536) % 256)].coding

\* The first portion is passed with the first buffer.
ConvInit ==
    /\ \E s \in Spelling : cd = Open(s[1], s[2])
    /\ IF cd < 0 THEN text = << >> ELSE text \in BoundedSeq(Byte[FromCoding.kind], MaxText)
    /\ fed \in 0..Len(text) /\ room \in Room
    /\ taken = 0 /\ out = << >> /\ count = 0
    /\ said = (IF cd < 0 THEN "not open" ELSE "none") /\ fault = FALSE

Returns(r) == said' = r /\ UNCHANGED <<cd, text, fed, taken, out, room, count, fault>>

-----------------------------------------------------------------------------
Passed == SubSeq(text, taken + 1, fed)

\* The loop has come to the end of the portion.
Finish == said = "none" /\ Passed = << >> /\ Returns("converted")

Reject ==
    /\ said = "none" /\ Passed # << >>
    /\ LET d == ToUni(FromCoding, Passed)
       IN d.size <= 0 /\ Returns(IF d.size = 0 THEN "EINVAL" ELSE "EILSEQ")

\* A code that has no place in the charset becomes a question mark.
Written(cp) == IF UniTo(ToCoding, cp) = << >> THEN <<Question>> ELSE UniTo(ToCoding, cp)

Take ==
    /\ said = "none" /\ Passed # << >>
    /\ LET d == ToUni(FromCoding, Passed)
       IN /\ d.size > 0
          /\ \/ ~IsLegal(d.cp) /\ fault' = TRUE /\ said' = "stopped"
                /\ UNCHANGED <<cd, text, fed, taken, out, room, count>>
             \/ IsLegal(d.cp) /\ Len(Written(d.cp)) > room /\ Returns("E2BIG")
             \/ /\ IsLegal(d.cp) /\ Len(Written(d.cp)) <= room
                /\ taken' = taken + d.size
                /\ out' = out \o Written(d.cp)
                /\ room' = room - Len(Written(d.cp))
                /\ count' = count + (IF UniTo(ToCoding, d.cp) = << >> THEN 1 ELSE 0)
                /\ UNCHANGED <<cd, text, fed, said, fault>>

\* The caller: more of the text, or an empty buffer, and ndm_conv() again.
Feed ==
    /\ said \in {"converted", "EINVAL"} /\ fed < Len(text)
    /\ fed' = Len(text) /\ said' = "none"
    /\ UNCHANGED <<cd, text, taken, out, room, count, fault>>

Drain ==
    /\ said = "E2BIG" /\ room' \in {r \in Room : r > room} /\ said' = "none"
    /\ UNCHANGED <<cd, text, fed, taken, out, count, fault>>

ConvNext == Finish \/ Reject \/ Take \/ Feed \/ Drain
ConvSpec == ConvInit /\ [][ConvNext]_convVars

-----------------------------------------------------------------------------
(* What a character is, by the Unicode standard's own table.               *)

Tail8 == 128..191
WellFormedUtf8 ==
    {<<0..127>>, <<194..223, Tail8>>, <<{224}, 160..191, Tail8>>,
     <<225..236, Tail8, Tail8>>, <<{237}, 128..159, Tail8>>, <<238..239, Tail8, Tail8>>,
     <<{240}, 144..191, Tail8, Tail8>>, <<241..243, Tail8, Tail8, Tail8>>,
     <<{244}, 128..143, Tail8, Tail8>>}

IsCharacter(coding, s) ==
    CASE coding.kind = "utf8" ->
           \E row \in WellFormedUtf8 :
              Len(s) = Len(row) /\ \A i \in DOMAIN s : s[i] \in row[i]
      [] coding.kind = "utf16" ->
           \/ Len(s) = 2 /\ Word(Order(coding), s) \notin SurHigh \cup SurLow
           \/ /\ Len(s) = 4 /\ Word(Order(coding), SubSeq(s, 1, 2)) \in SurHigh
              /\ Word(Order(coding), SubSeq(s, 3, 4)) \in SurLow
      [] coding.kind = "utf32" ->
           Len(s) = 4 /\ LET b == BigFirst(Order(coding), s)
                         IN b[1] = 0 /\ IsLegal((b[2] * 256 + b[3]) * 256 + b[4])
      [] coding.kind = "single" -> Len(s) = 1 /\ s[1] \in DOMAIN coding.table

\* A call that stops at a character has not got one: what it was passed does not
\* begin with a character of the charset.  Only a surrogate in three bytes of
\* UTF-8 stops the program.
WholeWhenStopped ==
    /\ said \in {"EINVAL", "EILSEQ"} =>
          \A n \in 1..Len(Passed) : ~IsCharacter(FromCoding, SubSeq(Passed, 1, n))
    /\ fault => FromCoding.kind = "utf8" /\ Passed[1] = 237 /\ Passed[2] \in 160..191

RevertWhenTaken ==
    taken' # taken =>
       LET in == SubSeq(text, taken + 1, taken')
           written == SubSeq(out', Len(out) + 1, Len(out'))
           back == ToUni(ToCoding, written)
       IN /\ IsCharacter(FromCoding, in)
          /\ \/ count' = count /\ IsCharacter(ToCoding, written)
                /\ back.size = Len(written) /\ UniTo(FromCoding, back.cp) = in
             \/ count' = count + 1 /\ written = <<Question>>

\* However the text is cut and the buffer sized, ndm_conv() takes a character at
\* a time, and what it writes is a character that converts back, or a question
\* mark that is counted; and it stops (EINVAL, EILSEQ) only where the text has
\* no character.
CharactersAreConverted == []WholeWhenStopped /\ [][RevertWhenTaken]_convVars

\* assert() in ndm_conv(): "cp is always a legal UTF-32 code point".
CodesAreLegal == ~fault
=============================================================================
