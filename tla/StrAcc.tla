------------------------------- MODULE StrAcc -------------------------------
(***************************************************************************)
(* The string accumulator, struct ndm_stracc_t: what is printed to it is   *)
(* kept behind what was printed before.  Texts may end with a null, so     *)
(* that the accumulator is a list of strings.  Once there is no memory it  *)
(* is invalid, and stays so until it is cleared or assigned to.            *)
(***************************************************************************)
EXTENDS Integers, SequencesExt

CONSTANTS
    Acc,      \* the accumulators
    Printed   \* what is printed: sequences of characters

ASSUME PrintedAssumption == Printed \subseteq Seq(Nat)

Nul == 0      \* the null character
Junk == -1    \* what malloc() leaves in a byte

VARIABLES
    data,     \* __data, with the byte behind the text; << >> is NULL
    accSize,  \* __size
    valid,    \* __is_valid
    printed,  \* all that was printed since an accumulator was cleared
    answer,   \* what the last call returned
    accFault  \* what went wrong for good

accVars == <<data, accSize, valid, printed, answer, accFault>>

AccInit ==
    /\ data = [a \in Acc |-> << >>] /\ accSize = [a \in Acc |-> 0]
    /\ valid = [a \in Acc |-> TRUE] /\ printed = [a \in Acc |-> << >>]
    /\ answer = TRUE /\ accFault = "none"

AccBecomes(a, d, n, v, s) ==
    /\ data' = [data EXCEPT ![a] = d] /\ accSize' = [accSize EXCEPT ![a] = n]
    /\ valid' = [valid EXCEPT ![a] = v] /\ printed' = [printed EXCEPT ![a] = s]

Answers(r) == answer' = r /\ accFault' = "none"

AccSame == UNCHANGED <<data, accSize, valid, printed>>

\* What follows is undefined, or lost for good, and is not followed further.
Breaks(why) == accFault' = why /\ answer' = FALSE /\ AccSame

\* __ndm_stracc_invalidate()
Invalidate(a) == AccBecomes(a, << >>, 0, FALSE, << >>) /\ Answers(FALSE)

\* ndm_stracc_clear()
ClearText(a) == AccBecomes(a, << >>, 0, TRUE, << >>) /\ Answers(TRUE)

\* The bytes of a string s, up to its null.
Cstr(s) == LET nul == {k \in DOMAIN s : s[k] = Nul} IN
           IF nul = {} THEN s ELSE SubSeq(s, 1, Min(nul) - 1)

\* Mutant of Printing: the terminating null is counted.
PrintingCounted(d, n, s) == [data |-> SubSeq(d, 1, n) \o s \o <<Nul>>, size |-> n + Len(s) + 1]

\* realloc() to n + Len(s) + 1 bytes and snprintf() of "%s" behind the first n.
Printing(d, n, s) ==
    [data |-> SubSeq(d, 1, n) \o Cstr(s) \o <<Nul>> \o [k \in 1 .. Len(s) - Len(Cstr(s)) |-> Junk],
     size |-> n + Len(s)]

\* Characters behind a null are counted and not copied.
Cut(s) == Len(Cstr(s)) + 1 < Len(s)

\* ndm_stracc_append()
AppendText(a, s) ==
    \/ ~valid[a] /\ Answers(FALSE) /\ AccSame
    \/ valid[a] /\ Invalidate(a)
    \/ valid[a] /\ s = << >> /\ Answers(TRUE) /\ AccSame
    \/ /\ valid[a] /\ s # << >>
       /\ IF Cut(s) THEN Breaks("not copied")
          ELSE LET p == Printing(data[a], accSize[a], s) IN
               AccBecomes(a, p.data, p.size, TRUE, printed[a] \o s) /\ Answers(TRUE)

\* ndm_stracc_assign(): what a held is not freed, and a copied to itself is read
\* from its new block.
AssignText(a, b) ==
    \/ accSize[b] = 0 /\ AccBecomes(a, << >>, 0, IF a = b THEN TRUE ELSE valid[b], << >>) /\ Answers(TRUE)
    \/ accSize[b] # 0 /\ Answers(FALSE) /\ AccSame
    \/ accSize[b] # 0 /\ a = b /\ Breaks("copied from nothing")
    \/ /\ accSize[b] # 0 /\ a # b
       /\ IF data[a] # << >> THEN Breaks("block lost")
          ELSE AccBecomes(a, data[b], accSize[b], valid[b], printed[b]) /\ Answers(TRUE)

\* ndm_stracc_swap()
SwapTexts(a, b) ==
    /\ data' = [data EXCEPT ![a] = data[b], ![b] = data[a]]
    /\ accSize' = [accSize EXCEPT ![a] = accSize[b], ![b] = accSize[a]]
    /\ valid' = [valid EXCEPT ![a] = valid[b], ![b] = valid[a]]
    /\ printed' = [printed EXCEPT ![a] = printed[b], ![b] = printed[a]]
    /\ Answers(TRUE)

\* ndm_stracc_is_equal()
EqualTexts(a, b) ==
    /\ Answers(\/ ~valid[a] /\ ~valid[b]
               \/ /\ valid[a] /\ valid[b] /\ accSize[a] = accSize[b]
                  /\ SubSeq(data[a], 1, accSize[a]) = SubSeq(data[b], 1, accSize[b]))
    /\ AccSame

AccNext ==
    /\ accFault = "none"
    /\ \E a \in Acc :
          \/ ClearText(a)
          \/ \E s \in Printed : AppendText(a, s)
          \/ \E b \in Acc : AssignText(a, b) \/ SwapTexts(a, b) \/ EqualTexts(a, b)

AccSpec == AccInit /\ [][AccNext]_accVars

-----------------------------------------------------------------------------
\* ndm_stracc_next_cstr(): the string at the p-th byte, and where the next begins.
NoCstr == -1

StringAt(a, p) == Cstr(SubSeq(data[a], p + 1, Len(data[a])))

NextCstr(a, p) ==
    IF ~valid[a] \/ p >= accSize[a] THEN NoCstr
    ELSE LET q == p + Len(StringAt(a, p)) + 1 IN IF q >= accSize[a] THEN NoCstr ELSE q

\* Strings begin with what was printed and behind its nulls, and go up to the next
\* null or to the end.
BeginsAt(s, p) == p \in 0 .. Len(s) - 1 /\ (p > 0 => s[p] = Nul)

EndsAt(s, p, e) ==
    /\ e \in p .. Len(s) /\ \A k \in p + 1 .. e : s[k] # Nul
    /\ e = Len(s) \/ s[e + 1] = Nul

\* Wherever a string begins in what was printed, by one call or by several, it is
\* read, and the next place is that of the next string; so a program that goes on
\* from the first place reads them all.  None is left of an accumulator that is
\* invalid.
StringsAreRead ==
    accFault = "none" => \A a \in Acc :
       /\ accSize[a] = Len(printed[a])
       /\ accSize[a] > 0 => valid[a]
       /\ \A p \in 0 .. accSize[a] - 1 : BeginsAt(printed[a], p) =>
             \E e \in p .. accSize[a] :
                /\ EndsAt(printed[a], p, e)
                /\ StringAt(a, p) = SubSeq(printed[a], p + 1, e)
                /\ NextCstr(a, p) = IF e + 1 < accSize[a] THEN e + 1 ELSE NoCstr
=============================================================================
