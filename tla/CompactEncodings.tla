-------------------------- MODULE CompactEncodings --------------------------
(***************************************************************************)
(* Ziplists (ziplist.c): a list of strings in one block of memory.  Every  *)
(* entry starts with the length of the entry before it, in a field of one  *)
(* byte, or of PrevSizeLarge bytes when that length is not below BigLen.   *)
(* A change of one field may so cascade through the fields that follow.    *)
(* An entry is a record: the size of its field, the length the field tells *)
(* and its string.  What the code keeps besides the entries is kept here:  *)
(* the number of bytes and the offset of the last entry.  `lost` is set    *)
(* when the block is shrunk before its contents were moved: the last bytes *)
(* are then gone.                                                          *)
(***************************************************************************)
EXTENDS RedisObject

CONSTANTS BigLen, PrevSizeLarge, HeaderSize

ASSUME ZiplistAssumption ==
    /\ {BigLen, PrevSizeLarge, HeaderSize} \subseteq Nat
    /\ PrevSizeLarge > 1

(* string2ll: the one way in which an integer is written. *)
IsInteger(s) == s # <<>> /\ IsLong(s) /\ StringOf(Value(s)) = s

(* The bytes of an entry after its field: one with the encoding, and the
   string; or the integer, in its smallest encoding, 0 to 12 in the encoding
   itself.  Larger integers take a byte here, for the six widths. *)
ContentSize(s) ==
    IF ~IsInteger(s) THEN 1 + Len(s) ELSE IF Value(s) \in 0..12 THEN 1 ELSE 2

zipPrevEncodeLength(len) == IF len < BigLen THEN 1 ELSE PrevSizeLarge
zipRawEntryLength(e) == e.prevsize + ContentSize(e.val)

ziplistNew == [entries |-> <<>>, tail |-> HeaderSize, bytes |-> HeaderSize + 1, lost |-> FALSE]
ziplistLen(zl) == Len(zl.entries)
ziplistGet(zl, i) == zl.entries[i].val
Strings(zl) == [i \in DOMAIN zl.entries |-> zl.entries[i].val]

(* The offset of an entry, and of the end: what zipRawEntryLength adds up to
   from the head. *)
Offset(zl, i) ==
    LET offset[j \in 1..i] ==
            IF j = 1 THEN HeaderSize ELSE offset[j - 1] + zipRawEntryLength(zl.entries[j - 1])
    IN  offset[i]

(* ziplistIndex, from 0; from the tail, by the lengths in the fields, when
   negative; 0 when there is no such entry. *)
EntryAt(zl, offset) ==
    Max({0} \cup { i \in DOMAIN zl.entries : Offset(zl, i) = offset })

RECURSIVE FromTail(_, _, _)
FromTail(zl, i, n) ==
    IF i = 0 \/ n = 0 THEN i
    ELSE IF zl.entries[i].prevlen = 0 THEN 0
    ELSE FromTail(zl, EntryAt(zl, Offset(zl, i) - zl.entries[i].prevlen), n - 1)

ziplistIndex(zl, index) ==
    IF index < 0 THEN FromTail(zl, EntryAt(zl, zl.tail), -index - 1)
    ELSE IF index < ziplistLen(zl) THEN index + 1
    ELSE 0

(* The field of an entry tells rawlen, in extra bytes more. *)
Told(zl, p, rawlen, extra) ==
    [zl EXCEPT !.entries[p].prevsize = @ + extra,
               !.entries[p].prevlen = rawlen,
               !.bytes = @ + extra,
               !.tail = IF p = ziplistLen(zl) THEN @ ELSE @ + extra]
Extra(zl, p, rawlen) == Max({0, zipPrevEncodeLength(rawlen) - zl.entries[p].prevsize})

(* Mutant: the loop ends after the first field that had to grow. *)
CascadeOnce(zl, p) ==
    LET rawlen == zipRawEntryLength(zl.entries[p])
    IN  IF p >= ziplistLen(zl) THEN zl ELSE Told(zl, p + 1, rawlen, Extra(zl, p + 1, rawlen))

(* The entry at p has changed its length: let the entries that follow tell
   it.  Fields grow, and never shrink. *)
RECURSIVE ziplistCascadeUpdate(_, _), Cascade(_, _, _, _)
Cascade(zl, p, rawlen, extra) ==
    IF zl.entries[p].prevlen = rawlen THEN zl
    ELSE IF extra > 0 THEN ziplistCascadeUpdate(Told(zl, p, rawlen, extra), p)
    ELSE Told(zl, p, rawlen, 0)

CascadeFrom(zl, p, rawlen) == Cascade(zl, p, rawlen, Extra(zl, p, rawlen))

ziplistCascadeUpdate(zl, p) ==
    IF p >= ziplistLen(zl) THEN zl
    ELSE CascadeFrom(zl, p + 1, zipRawEntryLength(zl.entries[p]))

(* Delete the entries from the first-th on, before the last-th: the entry
   that follows tells the length of the one before them, in a field that is
   made as wide as it needs. *)
CutBefore(zl, first, last, size, prevlen) ==
    LET totlen   == Offset(zl, last) - Offset(zl, first)
        nextdiff == size - zl.entries[last].prevsize
    IN  [zl EXCEPT !.entries = SubSeq(@, 1, first - 1)
                               \o <<[@[last] EXCEPT !.prevsize = size, !.prevlen = prevlen]>>
                               \o SubSeq(@, last + 1, Len(@)),
                   !.bytes = @ - totlen + nextdiff,
                   !.tail = @ - totlen + (IF last < ziplistLen(zl) THEN nextdiff ELSE 0)]

CutAtEnd(zl, first, prevlen) ==
    [zl EXCEPT !.entries = SubSeq(@, 1, first - 1),
               !.bytes = @ - (Offset(zl, ziplistLen(zl) + 1) - Offset(zl, first)),
               !.tail = Offset(zl, first) - prevlen]

DeleteBefore(zl, first, last, prevlen) ==
    LET size == zipPrevEncodeLength(prevlen)
    IN  IF last > ziplistLen(zl) THEN CutAtEnd(zl, first, prevlen)
        ELSE IF size # zl.entries[last].prevsize
        THEN ziplistCascadeUpdate(CutBefore(zl, first, last, size, prevlen), first)
        ELSE CutBefore(zl, first, last, size, prevlen)

(* Delete num entries from the i-th on. *)
ziplistDeleteRange(zl, i, num) ==
    IF i = 0 \/ i > ziplistLen(zl) \/ num <= 0 THEN zl
    ELSE DeleteBefore(zl, i, Min({i + num, ziplistLen(zl) + 1}), zl.entries[i].prevlen)

ziplistDelete(zl, i) == ziplistDeleteRange(zl, i, 1)

(* Insert a string before the i-th entry, or at the end. *)
EntryAfter(prevlen, s) ==
    [prevsize |-> zipPrevEncodeLength(prevlen), prevlen |-> prevlen, val |-> s]

AppendEntry(zl, e) ==
    [zl EXCEPT !.entries = Append(@, e), !.bytes = @ + zipRawEntryLength(e), !.tail = zl.bytes - 1]

(* The entry takes reqlen bytes, and the field of the next one nextdiff more. *)
GrowBefore(zl, i, e, reqlen, nextdiff) ==
    [zl EXCEPT !.entries = SubSeq(@, 1, i - 1)
                           \o <<e, [@[i] EXCEPT !.prevsize = @ + nextdiff, !.prevlen = reqlen]>>
                           \o SubSeq(@, i + 1, Len(@)),
               !.bytes = @ + reqlen + nextdiff,
               !.tail = @ + reqlen + (IF i < ziplistLen(zl) THEN nextdiff ELSE 0),
               !.lost = @ \/ reqlen + nextdiff < 0]

InsertEntry(zl, i, e, reqlen) ==
    LET nextdiff == zipPrevEncodeLength(reqlen) - zl.entries[i].prevsize
    IN  IF nextdiff = 0 THEN GrowBefore(zl, i, e, reqlen, 0)
        ELSE ziplistCascadeUpdate(GrowBefore(zl, i, e, reqlen, nextdiff), i + 1)

InsertBefore(zl, i, e) == InsertEntry(zl, i, e, zipRawEntryLength(e))

ziplistInsert(zl, i, s) ==
    IF i <= ziplistLen(zl) THEN InsertBefore(zl, i, EntryAfter(zl.entries[i].prevlen, s))
    ELSE LET last == ziplistIndex(zl, -1)
         IN  AppendEntry(zl, EntryAfter(IF last = 0 THEN 0 ELSE zipRawEntryLength(zl.entries[last]), s))

ziplistPush(zl, s, where) == ziplistInsert(zl, IF where = "head" THEN 1 ELSE ziplistLen(zl) + 1, s)

(* Find a string, comparing every (skip + 1)-th entry from the i-th on. *)
ziplistFind(zl, s, skip) ==
    LET at == { i \in DOMAIN zl.entries : (i - 1) % (skip + 1) = 0 /\ zl.entries[i].val = s }
    IN  IF at = {} THEN 0 ELSE Min(at)

(* A ziplist is well formed when it can be walked in both directions: every
   field tells the length of the entry before it and is wide enough for it,
   the offset of the last entry and the number of bytes are right. *)
IsZiplist(zl) ==
    /\ \A i \in DOMAIN zl.entries :
          /\ zl.entries[i].prevlen = IF i = 1 THEN 0 ELSE zipRawEntryLength(zl.entries[i - 1])
          /\ zl.entries[i].prevsize >= zipPrevEncodeLength(zl.entries[i].prevlen)
    /\ zl.bytes = Offset(zl, ziplistLen(zl) + 1) + 1
    /\ zl.tail = IF zl.entries = <<>> THEN HeaderSize ELSE Offset(zl, ziplistLen(zl))

-----------------------------------------------------------------------------
(***************************************************************************)
(* Sets of integers (intset.c): a sorted array, whose elements all have    *)
(* the width that the widest of them has needed.  Widths[i] is the largest *)
(* integer of the i-th encoding (int16_t, int32_t, int64_t in the code).   *)
(***************************************************************************)
CONSTANT Widths

ASSUME IntsetAssumption == Widths \in Seq(Nat) /\ Len(Widths) = 3

intsetValueEncoding(v) == Min({ e \in 1..3 : v \in -Widths[e] - 1 .. Widths[e] })

intsetNew == [encoding |-> 1, contents |-> <<>>]
intsetLen(is) == Len(is.contents)

(* The loop of intsetSearch: the positions are from 0, as in the code. *)
RECURSIVE Bisect(_, _, _, _)
Bisect(is, v, min, max) ==
    LET mid == (min + max) \div 2
        cur == is.contents[mid + 1]
    IN  IF max < min THEN [found |-> FALSE, pos |-> min]
        ELSE IF v > cur THEN Bisect(is, v, mid + 1, max)
        ELSE IF v < cur THEN Bisect(is, v, min, mid - 1)
        ELSE [found |-> TRUE, pos |-> mid]

intsetSearch(is, v) ==
    IF is.contents = <<>> THEN [found |-> FALSE, pos |-> 0]
    ELSE IF v > Last(is.contents) THEN [found |-> FALSE, pos |-> intsetLen(is)]
    ELSE IF v < Head(is.contents) THEN [found |-> FALSE, pos |-> 0]
    ELSE Bisect(is, v, 0, intsetLen(is) - 1)

(* A value wider than all the others goes to one of the ends. *)
intsetUpgradeAndAdd(is, v) ==
    [encoding |-> intsetValueEncoding(v),
     contents |-> IF v < 0 THEN <<v>> \o is.contents ELSE Append(is.contents, v)]

intsetAdd(is, v) ==
    LET at == intsetSearch(is, v)
    IN  IF intsetValueEncoding(v) > is.encoding THEN intsetUpgradeAndAdd(is, v)
        ELSE IF at.found THEN is
        ELSE [is EXCEPT !.contents = InsertAt(@, at.pos + 1, v)]

intsetFind(is, v) == intsetValueEncoding(v) <= is.encoding /\ intsetSearch(is, v).found

intsetRemove(is, v) ==
    IF intsetFind(is, v)
    THEN [is EXCEPT !.contents = RemoveAt(@, intsetSearch(is, v).pos + 1)]
    ELSE is

(* Sorted, without duplicates, and every element fits the width. *)
IsIntset(is) ==
    /\ \A i \in 1..intsetLen(is) - 1 : is.contents[i] < is.contents[i + 1]
    /\ \A i \in DOMAIN is.contents : intsetValueEncoding(is.contents[i]) <= is.encoding
=============================================================================
