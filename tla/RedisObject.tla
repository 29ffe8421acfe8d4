---------------------------- MODULE RedisObject ----------------------------
(***************************************************************************)
(* Redis values and strings (object.c, util.c).                            *)
(*                                                                         *)
(* A string is a sequence of bytes.  A value is a record with one field,   *)
(* named after its type: str, list, set, hash (fields to strings) or zset  *)
(* (members to scores).  The encodings of a value are the subject of       *)
(* module Encodings: here a value is what its commands make of it.         *)
(* MaxLong stands for LLONG_MAX and Infinity for the double +inf.          *)
(***************************************************************************)
EXTENDS Integers, Sequences, FiniteSets, SequencesExt, FiniteSetsExt, Functions

CONSTANTS MaxLong, Infinity

ASSUME ObjectAssumption ==
    /\ MaxLong \in Nat \ {0}
    /\ Infinity \in Nat /\ Infinity > 4 * MaxLong

Str(s) == [str |-> s]
List(l) == [list |-> l]
Set(x) == [set |-> x]
Hash(h) == [hash |-> h]
ZSet(z) == [zset |-> z]

TypeOf(v) == CHOOSE t \in {"str", "list", "set", "hash", "zset"} : t \in DOMAIN v

(* An aggregate without elements: never left in the keyspace. *)
IsEmptyAggregate(v) ==
    CASE TypeOf(v) = "list" -> v.list = <<>>
      [] TypeOf(v) = "set"  -> v.set = {}
      [] TypeOf(v) = "hash" -> DOMAIN v.hash = {}
      [] TypeOf(v) = "zset" -> DOMAIN v.zset = {}
      [] OTHER              -> FALSE

(***************************************************************************)
(* Numbers in strings.                                                     *)
(***************************************************************************)
Minus == 45
Plus == 43
IsDigit(b) == b \in 48..57

Digits(n) == IF n < 10 THEN <<48 + n>> ELSE <<48 + (n \div 10), 48 + (n % 10)>>

(* ll2string; the model's numbers have at most two digits. *)
StringOf(n) == IF n < 0 THEN <<Minus>> \o Digits(-n) ELSE Digits(n)

Magnitude(s) ==
    LET upTo[i \in 0..Len(s)] == IF i = 0 THEN 0 ELSE 10 * upTo[i - 1] + (s[i] - 48)
    IN  upTo[Len(s)]

Signed(s) == s # <<>> /\ Head(s) \in {Minus, Plus}
Unsigned(s) == IF Signed(s) THEN Tail(s) ELSE s
Value(s) ==
    IF Signed(s) /\ Head(s) = Minus THEN -Magnitude(Tail(s)) ELSE Magnitude(Unsigned(s))

(* strtoll as getLongLongFromObject uses it: a sign, then digits up to the
   end of the string, within the range of a long long; no string at all is
   0, and so is the empty string. *)
IsLong(s) ==
    \/ s = <<>>
    \/ /\ Unsigned(s) # <<>>
       /\ \A i \in DOMAIN Unsigned(s) : IsDigit(Unsigned(s)[i])
       /\ Value(s) \in -MaxLong - 1 .. MaxLong

(* strtod accepts more: here the digits without the bound, and "inf". *)
Inf == <<105, 110, 102>>
IsDouble(s) ==
    \/ Unsigned(s) = Inf
    \/ s = <<>>
    \/ /\ Unsigned(s) # <<>>
       /\ \A i \in DOMAIN Unsigned(s) : IsDigit(Unsigned(s)[i])

DoubleOf(s) ==
    IF Unsigned(s) = Inf
    THEN IF Head(s) = Minus THEN -Infinity ELSE Infinity
    ELSE Value(s)

(***************************************************************************)
(* Doubles: integers, with two infinities; NaN is a number out of range.   *)
(***************************************************************************)
NaN == Infinity + 1
AddDouble(x, y) ==
    CASE {x, y} = {-Infinity, Infinity} -> NaN
      [] x \in {-Infinity, Infinity}    -> x
      [] y \in {-Infinity, Infinity}    -> y
      [] OTHER                          -> x + y

MulDouble(x, y) ==
    CASE {-Infinity, Infinity} \cap {x, y} = {} -> x * y
      [] 0 \in {x, y}                           -> NaN
      [] (x < 0) = (y < 0)                      -> Infinity
      [] OTHER                                  -> -Infinity

OrZero(x) == IF x = NaN THEN 0 ELSE x

(* compareStringObjects: bytes first, then length.  (With an operand encoded
   as an integer the code stops at a NUL byte, which no string compared in
   the model has.) *)
LessString(s, t) ==
    \/ \E i \in DOMAIN s \cap DOMAIN t :
          /\ s[i] < t[i]
          /\ \A j \in 1..i-1 : s[j] = t[j]
    \/ Len(s) < Len(t) /\ IsPrefix(s, t)

(* Negative indexes count from the end: the part of 1..len that the
   zero-based range start..end covers. *)
FromEnd(i, len) == IF i < 0 THEN len + i ELSE i
IndexRange(start, end, len) ==
    { i \in 1..len : /\ i - 1 >= FromEnd(start, len)
                     /\ i - 1 <= FromEnd(end, len) }

Slice(s, range) ==
    IF range = {} THEN <<>> ELSE SubSeq(s, Min(range), Max(range))
=============================================================================
