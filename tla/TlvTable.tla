------------------------------ MODULE TlvTable ------------------------------
(***************************************************************************)
(* A table of tagged values kept as one image that may be stored and read  *)
(* back: a header, then entries one behind the other, each a tag, a length *)
(* and a value padded with zeros.  An entry is found by walking over those *)
(* before it, and grows or shrinks in place by moving those behind it.     *)
(*                                                                         *)
(* The image is counted in units of four bytes: a tag, a length, a CRC and *)
(* a size take one each, the magic two, and entries are aligned to two.    *)
(* The CRC is what it is computed from.                                    *)
(***************************************************************************)
EXTENDS Integers, Sequences

CONSTANTS
    Tag, TagValue,  \* tags, and values: sequences of units
    Magic, Other,   \* the magic of the table's images, and of others
    ImgLenMax,      \* img_len_max
    IntMax          \* INT32_MAX

HdrSize == 4        \* sizeof(struct ndm_tlv_hdr_t)
TlvSize == 2        \* sizeof(struct ndm_tlv_t)
Unset == -1         \* what realloc() leaves in a unit it adds

ASSUME TableAssumption ==
    /\ Tag \subseteq Nat /\ \A x \in TagValue : x \in Seq(Nat)
    /\ ImgLenMax \in Nat /\ ImgLenMax % 2 = 0 /\ HdrSize <= ImgLenMax
    /\ IntMax \in Nat /\ ImgLenMax <= IntMax

VARIABLES
    hdr,        \* the header: magic, crc32 and size
    tlv,        \* the units behind it
    tlvAnswer   \* what the last call returned

tlvVars == <<hdr, tlv, tlvAnswer>>

Aligned(n) == n + (n % 2)
EntrySize(len) == TlvSize + Aligned(len)

\* Offsets are from the first entry.
UnitAt(t, i) == t[i + 1]
SizeAt(t, i) == EntrySize(UnitAt(t, i + 1))
Behind(t, i) == i + SizeAt(t, i)

\* An entry at i lies within the first size units of t.
IsEntry(t, size, i) == i + TlvSize <= size /\ Behind(t, i) <= size

\* Where a walk over the first size units comes to: entries, and where it ends.
Visited(t, size) ==
    LET from[i \in 0 .. size] ==
            {i} \cup (IF IsEntry(t, size, i) THEN from[Behind(t, i)] ELSE {})
    IN from[0]

Starts(t, size) == {i \in Visited(t, size) : IsEntry(t, size, i)}

\* ndm_tlv_hdr_find_(): the first entry of that tag, or the end
Find(t, tag) ==
    LET hits == {i \in Starts(t, Len(t)) : UnitAt(t, i) = tag}
    IN IF hits = {} THEN Len(t) ELSE CHOOSE i \in hits : \A j \in hits : i <= j

Crc(magic, size, t) == <<magic, size, SubSeq(t, 1, size)>>

\* ndm_tlv_hdr_update_(): h goes before t now
Sealed(h, t) == [h EXCEPT !.size = Len(t), !.crc = Crc(h.magic, Len(t), t)]

Tells(code, val) == tlvAnswer' = [code |-> code, val |-> val]

-----------------------------------------------------------------------------
(* Bytes. *)

\* memcpy() of s to offset i
Paste(t, i, s) ==
    [k \in DOMAIN t |-> IF k \in i + 1 .. i + Len(s) THEN s[k - i] ELSE t[k]]

\* memmove() of n units
Move(t, to, from, n) == Paste(t, to, SubSeq(t, from + 1, from + n))

EntryAt(t, i) == SubSeq(t, i + 1, Behind(t, i))
ValueAt(t, i) == SubSeq(t, i + TlvSize + 1, i + TlvSize + UnitAt(t, i + 1))

\* The length, the value and the zeros after it.
Filled(t, i, val) ==
    Paste(t, i + 1, <<Len(val)>> \o val \o (IF Len(val) % 2 = 0 THEN << >> ELSE <<0>>))

-----------------------------------------------------------------------------
\* ndm_tlv_table_new()
TlvInit == /\ tlv = << >>
           /\ hdr = [magic |-> Magic, size |-> 0, crc |-> Crc(Magic, 0, << >>)]
           /\ tlvAnswer = [code |-> "done", val |-> << >>]

Fails(code) == Tells(code, << >>) /\ UNCHANGED <<hdr, tlv>>

Completed(t) == tlv' = t /\ hdr' = Sealed(hdr, t) /\ Tells("done", << >>)

\* Mutant of Reverted: the entry is put back before what lay behind it is.
RevertedEarly(t, i, dup, to, from, n) == Move(Paste(t, i, dup), to, from, n)

\* What was moved down is moved back up, and the entry put back from its copy.
Reverted(t, i, dup, to, from, n) == Paste(Move(t, to, from, n), i, dup)

\* The entry at i becomes shorter by cut.
Shrink(t, i, cut, val) ==
    LET next  == Behind(t, i)
        tail  == Len(t) - next
        moved == Move(t, next - cut, next, tail)
    IN \/ Fails("ENOMEM")
       \/ /\ tlv' = Reverted(moved, i, EntryAt(t, i), next, next - cut, tail)
          /\ Tells("ENOMEM", << >>) /\ UNCHANGED hdr
       \/ Completed(Filled(SubSeq(moved, 1, Len(t) - cut), i, val))

\* Room for more units behind the entry at i, or for a new entry at the end.
Widened(t, i, more, tag) ==
    LET next  == IF i = Len(t) THEN i ELSE Behind(t, i)
        tail  == Len(t) - next
        longer == t \o [k \in 1 .. more |-> Unset]
    IN IF tail > 0 THEN Move(longer, next + more, next, tail) ELSE Paste(longer, i, <<tag>>)

\* ndm_tlv_table_set()
Set(tag, len, val) ==
    LET i    == Find(tlv, tag)
        diff == EntrySize(len) - (IF i = Len(tlv) THEN 0 ELSE SizeAt(tlv, i))
    IN IF len > IntMax THEN Fails("EINVAL")
       ELSE IF HdrSize + Len(tlv) + diff > ImgLenMax THEN Fails("EMSGSIZE")
       ELSE \/ diff < 0 /\ Shrink(tlv, i, -diff, val)
            \/ diff > 0 /\ (Fails("ENOMEM") \/ Completed(Filled(Widened(tlv, i, diff, tag), i, val)))
            \/ diff = 0 /\ Completed(Filled(tlv, i, val))

\* ndm_tlv_table_del()
Del(tag) ==
    LET i     == Find(tlv, tag)
        next  == Behind(tlv, i)
        tail  == Len(tlv) - next
        moved == Move(tlv, i, next, tail)
    IN IF i = Len(tlv) THEN Fails("ENOENT")
       ELSE \/ Fails("ENOMEM")
            \/ /\ tlv' = Reverted(moved, i, EntryAt(tlv, i), next, i, tail)
               /\ Tells("ENOMEM", << >>) /\ UNCHANGED hdr
            \/ Completed(SubSeq(moved, 1, Len(tlv) - SizeAt(tlv, i)))

\* ndm_tlv_table_get(); ndm_tlv_table_img_offs_val() finds the same units.
Get(tag) ==
    LET i == Find(tlv, tag)
    IN /\ IF i = Len(tlv) THEN Tells("none", << >>)
          ELSE Tells("done", ValueAt(tlv, i))
       /\ UNCHANGED <<hdr, tlv>>

-----------------------------------------------------------------------------
(* Images read back. *)

\* What the walk over the size units of t comes to.
Walked(t, size) ==
    LET end == CHOOSE i \in Visited(t, size) : ~IsEntry(t, size, i)
    IN IF end = size THEN "done" ELSE IF size - end < TlvSize THEN "EBADMSG" ELSE "E2BIG"

\* Mutant of Twice: only neighbours are compared.
TwiceInARow(t, size) ==
    \E i \in Starts(t, size) : Behind(t, i) \in Starts(t, size) /\ UnitAt(t, i) = UnitAt(t, Behind(t, i))

Twice(t, size) == \E i, j \in Starts(t, size) : i # j /\ UnitAt(t, i) = UnitAt(t, j)

\* ndm_tlv_table_parse_img(): an image of a header h and the units t, of which
\* a table of at most max units is to be made.
Parsed(h, t, max) ==
    IF HdrSize + h.size > max THEN "EMSGSIZE"
    ELSE IF h.magic # Magic \/ h.size > Len(t) \/ h.size % 2 # 0 THEN "EILSEQ"
    ELSE IF h.crc # Crc(h.magic, h.size, t) THEN "EILSEQ"
    ELSE IF Walked(t, h.size) # "done" THEN Walked(t, h.size)
    ELSE IF Twice(t, h.size) THEN "EEXIST"
    ELSE "done"

\* Images as they come from storage: whole and perhaps followed by more, cut,
\* changed in the header, or with one unit changed, sealed again or not.
Images ==
    {<<hdr, tlv>>, <<hdr, tlv \o <<Unset>>>>,
     <<[hdr EXCEPT !.magic = Other, !.crc = Crc(Other, hdr.size, tlv)], tlv>>}
    \cup {<<hdr, SubSeq(tlv, 1, n)>> : n \in 0 .. Len(tlv) - 1}
    \cup {<<[hdr EXCEPT !.size = n, !.crc = Crc(hdr.magic, n, tlv)], tlv>> : n \in 0 .. Len(tlv)}
    \cup {<<hdr, [tlv EXCEPT ![k] = u]>> : k \in DOMAIN tlv, u \in Tag}
    \cup {LET t == [tlv EXCEPT ![k] = u] IN <<Sealed(hdr, t), t>> : k \in DOMAIN tlv, u \in Tag}

\* A table is made from an image and freed again, or cannot be made.
Parse(h, t) ==
    LET code == Parsed(h, t, ImgLenMax)
    IN Fails(code) \/ (code = "done" /\ Fails("ENOMEM"))

\* The table is freed once another one has been made from its image.
Reload ==
    /\ Parsed(hdr, tlv, ImgLenMax) = "done"
    /\ tlv' = SubSeq(tlv, 1, hdr.size) /\ hdr' = Sealed(hdr, tlv')
    /\ Tells("done", << >>)

TlvNext ==
    \/ Reload
    \/ \E tag \in Tag :
          \/ Del(tag) \/ Get(tag) \/ Set(tag, IntMax + 1, << >>)
          \/ \E x \in TagValue : Set(tag, Len(x), x)
    \/ \E img \in Images : Parse(img[1], img[2])

TlvSpec == TlvInit /\ [][TlvNext]_tlvVars

-----------------------------------------------------------------------------
\* Entries that fill the size units of t and have tags of their own.
IsTable(t, size) ==
    /\ size <= Len(t)
    /\ \E S \in SUBSET {i \in 0 .. size : i % 2 = 0} :
          /\ {0, size} \subseteq S
          /\ \A i \in S \ {size} :
                /\ i + TlvSize <= size /\ Behind(t, i) \in S
                /\ \A j \in S \ {size} : UnitAt(t, i) = UnitAt(t, j) => i = j

\* The table's image can be read back after whatever calls, failed ones too, and
\* of what comes from storage exactly the images of tables are taken: entries
\* that fill it to the unit, no tag twice, the CRC of what it holds.
ImagesAreTables ==
    /\ Parsed(hdr, tlv, ImgLenMax) = "done"
    /\ \A img \in Images :
          LET h == img[1] t == img[2]
          IN Parsed(h, t, ImgLenMax) = "done" <=>
                h.magic = Magic /\ IsTable(t, h.size) /\ h.crc = Crc(Magic, h.size, t)

\* The entries, as a map.
Held == [tag \in {UnitAt(tlv, i) : i \in Starts(tlv, Len(tlv))} |-> ValueAt(tlv, Find(tlv, tag))]

Answered == [tlvAnswer EXCEPT !.code = IF @ \in {"done", "none"} THEN @ ELSE "failed"]

Tags == INSTANCE TagMap WITH Value <- TagValue, map <- Held, answer <- Answered

\* A set or a deletion moves what lies behind the entry and no other tag's
\* value changes; one that runs out of memory, even once everything has been
\* moved, leaves the map as it was.
TablesAreKept == Tags!TagMapSpec
=============================================================================
