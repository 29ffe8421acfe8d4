----------------------------- MODULE Dict_proofs -----------------------------
(***************************************************************************)
(* Placed and AnswersAsASet hold of every dictionary: for all keys, hashes *)
(* and sizes.                                                              *)
(***************************************************************************)
EXTENDS Dict, SequenceTheorems, FiniteSetTheorems, FunctionTheorems,
        WellFoundedInduction, TLAPS

----------------------------------------------------------------------------
(* One table: what it must be, whatever it contains. *)

Tables == UNION { [size : {m}, table : [0..m - 1 -> Seq(Keys)], used : Int] : m \in Nat }

Hashed(h) ==
    \A i \in 0..h.size - 1 : \A n \in 1..Len(h.table[i]) : Hash[h.table[i][n]] % h.size = i

NoTwins(h) ==
    \A i \in 0..h.size - 1 : \A m, n \in 1..Len(h.table[i]) :
        h.table[i][m] = h.table[i][n] => m = n

KeysIn(h) ==
    { k \in Keys : \E i \in 0..h.size - 1 : \E n \in 1..Len(h.table[i]) : h.table[i][n] = k }

Counted(h) == IsFiniteSet(KeysIn(h)) /\ h.used = Cardinality(KeysIn(h))

TableOK(h) == h \in Tables /\ Hashed(h) /\ NoTwins(h) /\ Counted(h)

(* A key hashes to a bucket of the table. *)
LEMMA SlotIn ==
    ASSUME NEW k \in Keys, NEW m \in Nat \ {0}
    PROVE  Hash[k] % m \in 0..m - 1
  BY DictAssumption DEF Keys

(* The fields of a table. *)
LEMMA TableShape ==
    ASSUME NEW h \in Tables
    PROVE  /\ h.size \in Nat
           /\ h.table \in [0..h.size - 1 -> Seq(Keys)]
           /\ h.used \in Int
           /\ \A i \in 0..h.size - 1 :
                  /\ h.table[i] \in Seq(Keys)
                  /\ Len(h.table[i]) \in Nat
                  /\ \A n \in 1..Len(h.table[i]) : h.table[i][n] \in Keys
  BY DEF Tables

(* A key of the table is in the bucket it hashes to. *)
LEMMA InItsSlot ==
    ASSUME NEW h \in Tables, Hashed(h), NEW k \in KeysIn(h)
    PROVE  /\ h.size # 0
           /\ Hash[k] % h.size \in 0..h.size - 1
           /\ \E n \in 1..Len(h.table[Hash[k] % h.size]) : h.table[Hash[k] % h.size][n] = k
  BY TableShape DEF Hashed, KeysIn

(* Every entry of a bucket is a key of the table. *)
LEMMA EntryIsKey ==
    ASSUME NEW h \in Tables, NEW i \in 0..h.size - 1, NEW n \in 1..Len(h.table[i])
    PROVE  h.table[i][n] \in KeysIn(h)
  BY TableShape DEF KeysIn

(* A table with buckets that are all empty. *)
LEMMA NewTableOK ==
    ASSUME NEW m \in Nat
    PROVE  TableOK(NewTable(m)) /\ KeysIn(NewTable(m)) = {} /\ NewTable(m).size = m
  <1>1. NewTable(m) \in Tables /\ NewTable(m).size = m
    BY DEF Tables, NewTable
  <1>2. \A i \in 0..m - 1 : NewTable(m).table[i] = <<>>
    BY DEF NewTable
  <1>3. Hashed(NewTable(m)) /\ NoTwins(NewTable(m)) /\ KeysIn(NewTable(m)) = {}
    BY <1>1, <1>2 DEF Hashed, NoTwins, KeysIn
  <1>4. Counted(NewTable(m))
    BY <1>3, FS_EmptySet DEF Counted, NewTable
  <1> QED BY <1>1, <1>3, <1>4 DEF TableOK

(* The table that is not there. *)
LEMMA ResetOK == TableOK(_dictReset) /\ KeysIn(_dictReset) = {} /\ _dictReset.size = 0
  <1>1. <<>> \in [0..-1 -> Seq(Keys)]
    OBVIOUS
  <1>2. _dictReset \in Tables /\ _dictReset.size = 0
    BY <1>1 DEF Tables, _dictReset
  <1>3. Hashed(_dictReset) /\ NoTwins(_dictReset) /\ KeysIn(_dictReset) = {}
    BY <1>2 DEF Hashed, NoTwins, KeysIn
  <1>4. Counted(_dictReset)
    BY <1>3, FS_EmptySet DEF Counted, _dictReset
  <1> QED BY <1>2, <1>3, <1>4 DEF TableOK

(* Linked puts the key before those of its bucket and leaves the others. *)
LEMMA LinkedShape ==
    ASSUME NEW h \in Tables, h.size # 0, NEW k \in Keys
    PROVE  /\ Linked(h, k) \in Tables
           /\ Linked(h, k).size = h.size
           /\ Linked(h, k).used = h.used + 1
           /\ \A i \in 0..h.size - 1 :
                 i # Hash[k] % h.size => Linked(h, k).table[i] = h.table[i]
           /\ LET i == Hash[k] % h.size IN
                 /\ i \in 0..h.size - 1
                 /\ Linked(h, k).table[i] \in Seq(Keys)
                 /\ Len(Linked(h, k).table[i]) = Len(h.table[i]) + 1
                 /\ Linked(h, k).table[i][1] = k
                 /\ \A n \in 1..Len(h.table[i]) : Linked(h, k).table[i][n + 1] = h.table[i][n]
                 /\ \A n \in 2..Len(h.table[i]) + 1 :
                       Linked(h, k).table[i][n] = h.table[i][n - 1]
  <1> DEFINE i == Hash[k] % h.size
             c == <<k>> \o h.table[i]
  <1>1. i \in 0..h.size - 1
    BY SlotIn, TableShape
  <1>2. PICK m \in Nat : h \in [size : {m}, table : [0..m - 1 -> Seq(Keys)], used : Int]
    BY DEF Tables
  <1>3. h.table[i] \in Seq(Keys) /\ c \in Seq(Keys)
    BY <1>1, TableShape
  <1>4. Linked(h, k) = [h EXCEPT !.table = [h.table EXCEPT ![i] = c], !.used = h.used + 1]
    BY DEF Linked
  <1> HIDE DEF i, c
  <1>5. [h.table EXCEPT ![i] = c] \in [0..m - 1 -> Seq(Keys)]
    BY <1>2, <1>3
  <1>6. /\ Linked(h, k) \in [size : {m}, table : [0..m - 1 -> Seq(Keys)], used : Int]
        /\ Linked(h, k).size = h.size
        /\ Linked(h, k).used = h.used + 1
        /\ Linked(h, k).table = [h.table EXCEPT ![i] = c]
    <2>1. Linked(h, k) = [size |-> h.size, table |-> [h.table EXCEPT ![i] = c],
                          used |-> h.used + 1]
      BY <1>2, <1>4
    <2> QED BY <1>2, <1>5, <2>1
  <1>7. Linked(h, k) \in Tables
    BY <1>6 DEF Tables
  <1>8. Linked(h, k).table[i] = c
    BY <1>1, <1>6, TableShape
  <1>9. \A j \in 0..h.size - 1 : j # i => Linked(h, k).table[j] = h.table[j]
    BY <1>6, TableShape
  <1> USE DEF c
  <1>10. /\ Len(c) = Len(h.table[i]) + 1
         /\ c[1] = k
         /\ \A n \in 1..Len(h.table[i]) : c[n + 1] = h.table[i][n]
         /\ \A n \in 2..Len(h.table[i]) + 1 : c[n] = h.table[i][n - 1]
    BY <1>3
  <1> HIDE DEF c
  <1>11. /\ Len(Linked(h, k).table[i]) = Len(h.table[i]) + 1
         /\ Linked(h, k).table[i][1] = k
         /\ \A n \in 1..Len(h.table[i]) : Linked(h, k).table[i][n + 1] = h.table[i][n]
         /\ \A n \in 2..Len(h.table[i]) + 1 : Linked(h, k).table[i][n] = h.table[i][n - 1]
         /\ Linked(h, k).table[i] \in Seq(Keys)
    BY <1>3, <1>8, <1>10
  <1> QED BY <1>1, <1>6, <1>7, <1>9, <1>11 DEF i

(* A key that the table does not have may be linked in. *)
LEMMA LinkedOK ==
    ASSUME NEW h, TableOK(h), h.size # 0, NEW k \in Keys, k \notin KeysIn(h)
    PROVE  /\ TableOK(Linked(h, k))
           /\ KeysIn(Linked(h, k)) = KeysIn(h) \cup {k}
  <1> DEFINE i == Hash[k] % h.size
             g == Linked(h, k)
  <1>1. h \in Tables /\ Hashed(h) /\ NoTwins(h) /\ Counted(h)
    BY DEF TableOK
  <1>2. /\ g \in Tables /\ g.size = h.size /\ g.used = h.used + 1
        /\ \A j \in 0..h.size - 1 : j # i => g.table[j] = h.table[j]
        /\ i \in 0..h.size - 1
        /\ Len(g.table[i]) = Len(h.table[i]) + 1
        /\ g.table[i][1] = k
        /\ \A n \in 1..Len(h.table[i]) : g.table[i][n + 1] = h.table[i][n]
        /\ \A n \in 2..Len(h.table[i]) + 1 : g.table[i][n] = h.table[i][n - 1]
    BY <1>1, LinkedShape
  <1>3. \A j \in 0..h.size - 1 : Len(h.table[j]) \in Nat /\ Len(g.table[j]) \in Nat
    BY <1>1, <1>2, TableShape
  <1> HIDE DEF g
  <1>3a. \A n \in 1..Len(g.table[i]) :
            n # 1 => n - 1 \in 1..Len(h.table[i]) /\ g.table[i][n] = h.table[i][n - 1]
    <2>1. Len(h.table[i]) \in Nat /\ Len(g.table[i]) = Len(h.table[i]) + 1
      BY <1>2, <1>3
    <2> SUFFICES ASSUME NEW n \in 1..Len(g.table[i]), n # 1
                 PROVE  n - 1 \in 1..Len(h.table[i]) /\ g.table[i][n] = h.table[i][n - 1]
      OBVIOUS
    <2>2. n \in 2..Len(h.table[i]) + 1 /\ n - 1 \in 1..Len(h.table[i])
      BY <2>1
    <2> QED BY <2>2, <1>2
  <1>4. Hashed(g)
    <2> SUFFICES ASSUME NEW j \in 0..h.size - 1, NEW n \in 1..Len(g.table[j])
                 PROVE  Hash[g.table[j][n]] % h.size = j
      BY <1>2 DEF Hashed
    <2>1. CASE j # i
      BY <2>1, <1>1, <1>2 DEF Hashed
    <2>2. CASE j = i /\ n = 1
      BY <2>2, <1>2 DEF i
    <2>3. CASE j = i /\ n # 1
      <3>1. n - 1 \in 1..Len(h.table[i]) /\ g.table[i][n] = h.table[i][n - 1]
        BY <2>3, <1>2, <1>3
      <3> QED BY <3>1, <2>3, <1>1 DEF Hashed
    <2> QED BY <2>1, <2>2, <2>3
  <1>5. \A n \in 1..Len(h.table[i]) : h.table[i][n] # k
    BY <1>1, <1>2, EntryIsKey
  <1>6. NoTwins(g)
    <2> SUFFICES ASSUME NEW j \in 0..h.size - 1, NEW m \in 1..Len(g.table[j]),
                        NEW n \in 1..Len(g.table[j]), g.table[j][m] = g.table[j][n]
                 PROVE  m = n
      BY <1>2 DEF NoTwins
    <2>1. CASE j # i
      BY <2>1, <1>1, <1>2 DEF NoTwins
    <2>2. CASE j = i
      <3>1. m # 1 => m - 1 \in 1..Len(h.table[i]) /\ g.table[i][m] = h.table[i][m - 1]
        BY <2>2, <1>3a
      <3>2. n # 1 => n - 1 \in 1..Len(h.table[i]) /\ g.table[i][n] = h.table[i][n - 1]
        BY <2>2, <1>3a
      <3>3. ASSUME m # 1, n # 1  PROVE m - 1 = n - 1
        <4>1. h.table[i][m - 1] = h.table[i][n - 1]
          BY <3>1, <3>2, <3>3, <2>2
        <4> QED BY <4>1, <3>1, <3>2, <3>3, <1>1, <1>2 DEF NoTwins
      <3>4. m = 1 <=> n = 1
        BY <3>1, <3>2, <2>2, <1>2, <1>5
      <3> QED BY <3>3, <3>4
    <2> QED BY <2>1, <2>2
  <1>7. KeysIn(g) = KeysIn(h) \cup {k}
    <2>1. ASSUME NEW j \in Keys, j \in KeysIn(g)
          PROVE  j \in KeysIn(h) \/ j = k
      <3>1. PICK b \in 0..h.size - 1 : \E n \in 1..Len(g.table[b]) : g.table[b][n] = j
        BY <2>1, <1>2 DEF KeysIn
      <3>2. PICK n \in 1..Len(g.table[b]) : g.table[b][n] = j
        BY <3>1
      <3>3. CASE b # i
        BY <3>2, <3>3, <1>1, <1>2, EntryIsKey
      <3>4. CASE b = i /\ n = 1
        BY <3>2, <3>4, <1>2
      <3>5. CASE b = i /\ n # 1
        <4>1. n - 1 \in 1..Len(h.table[i]) /\ g.table[i][n] = h.table[i][n - 1]
          BY <3>5, <1>2, <1>3
        <4> QED BY <4>1, <3>2, <3>5, <1>1, <1>2, EntryIsKey
      <3> QED BY <3>3, <3>4, <3>5
    <2>2. ASSUME NEW j \in KeysIn(h)
          PROVE  j \in KeysIn(g)
      <3>1. PICK b \in 0..h.size - 1 : \E n \in 1..Len(h.table[b]) : h.table[b][n] = j
        BY <2>2 DEF KeysIn
      <3>2. PICK n \in 1..Len(h.table[b]) : h.table[b][n] = j
        BY <3>1
      <3>3. CASE b # i
        BY <3>2, <3>3, <1>2, EntryIsKey
      <3>4. CASE b = i
        <4>1. n + 1 \in 1..Len(g.table[i]) /\ g.table[i][n + 1] = h.table[i][n]
          BY <3>4, <1>2, <1>3
        <4> QED BY <4>1, <3>2, <3>4, <1>2, EntryIsKey
      <3> QED BY <3>3, <3>4
    <2>3. k \in KeysIn(g)
      <3>1. 1 \in 1..Len(g.table[i]) /\ g.table[i][1] = k
        BY <1>2, <1>3
      <3>2. i \in 0..g.size - 1
        BY <1>2
      <3>3. g.table[i][1] \in KeysIn(g)
        BY <3>1, <3>2, <1>2, EntryIsKey
      <3> QED BY <3>1, <3>3
    <2> QED BY <2>1, <2>2, <2>3 DEF KeysIn
  <1>8. Counted(g)
    <2>1. IsFiniteSet(KeysIn(h)) /\ h.used = Cardinality(KeysIn(h))
      BY <1>1 DEF Counted
    <2>2. /\ IsFiniteSet(KeysIn(h) \cup {k})
          /\ Cardinality(KeysIn(h) \cup {k}) = Cardinality(KeysIn(h)) + 1
      BY <2>1, FS_AddElement
    <2> QED BY <1>2, <1>7, <2>1, <2>2 DEF Counted
  <1> QED BY <1>2, <1>4, <1>6, <1>7, <1>8 DEF TableOK, g

(* What is left of a sequence when its n-th element goes. *)
LEMMA RemoveAtShape ==
    ASSUME NEW S, NEW s \in Seq(S), NEW n \in 1..Len(s)
    PROVE  LET r == RemoveAt(s, n) IN
           /\ r \in Seq(S)
           /\ Len(r) = Len(s) - 1
           /\ \A j \in 1..Len(r) : r[j] = IF j < n THEN s[j] ELSE s[j + 1]
  <1> DEFINE a == SubSeq(s, 1, n - 1)
             b == SubSeq(s, n + 1, Len(s))
  <1>1. /\ a \in Seq(S) /\ Len(a) = n - 1
        /\ \A j \in 1..n - 1 : a[j] = s[j]
    OBVIOUS
  <1>2. /\ b \in Seq(S) /\ Len(b) = Len(s) - n
        /\ \A j \in 1..Len(s) - n : b[j] = s[n + j]
    OBVIOUS
  <1>3. RemoveAt(s, n) = a \o b
    BY DEF RemoveAt
  <1> HIDE DEF a, b
  <1>4. /\ a \o b \in Seq(S) /\ Len(a \o b) = Len(s) - 1
        /\ \A j \in 1..Len(s) - 1 : (a \o b)[j] = IF j <= n - 1 THEN a[j] ELSE b[j - (n - 1)]
    <2>1. Len(s) \in Nat /\ Len(a) + Len(b) = Len(s) - 1
      BY <1>1, <1>2
    <2>2. /\ a \o b \in Seq(S)
          /\ Len(a \o b) = Len(a) + Len(b)
          /\ \A j \in 1..Len(a) + Len(b) :
                 (a \o b)[j] = IF j <= Len(a) THEN a[j] ELSE b[j - Len(a)]
      BY <1>1, <1>2, ConcatProperties
    <2> QED BY <1>1, <2>1, <2>2
  <1>5. ASSUME NEW j \in 1..Len(s) - 1
        PROVE  (a \o b)[j] = IF j < n THEN s[j] ELSE s[j + 1]
    <2>1. CASE j < n
      BY <2>1, <1>1, <1>4
    <2>2. CASE ~(j < n)
      <3>1. j - (n - 1) \in 1..Len(s) - n /\ n + (j - (n - 1)) = j + 1
        BY <2>2
      <3> QED BY <3>1, <2>2, <1>2, <1>4
    <2> QED BY <2>1, <2>2
  <1> QED BY <1>3, <1>4, <1>5

(* Unlinked takes one entry out of the bucket of its key. *)
LEMMA UnlinkedShape ==
    ASSUME NEW h \in Tables, Hashed(h), NEW k \in KeysIn(h)
    PROVE  LET i == Hash[k] % h.size
               g == Unlinked(h, k) IN
           /\ g \in Tables
           /\ g.size = h.size
           /\ g.used = h.used - 1
           /\ i \in 0..h.size - 1
           /\ \A j \in 0..h.size - 1 : j # i => g.table[j] = h.table[j]
           /\ \E m \in 1..Len(h.table[i]) :
                 /\ h.table[i][m] = k
                 /\ Len(g.table[i]) = Len(h.table[i]) - 1
                 /\ \A n \in 1..Len(g.table[i]) :
                       g.table[i][n] = IF n < m THEN h.table[i][n] ELSE h.table[i][n + 1]
  <1> DEFINE i == Hash[k] % h.size
             m == CHOOSE m \in DOMAIN h.table[i] : h.table[i][m] = k
             c == RemoveAt(h.table[i], m)
  <1>1. /\ i \in 0..h.size - 1
        /\ \E n \in 1..Len(h.table[i]) : h.table[i][n] = k
    BY InItsSlot
  <1>2. h.table[i] \in Seq(Keys)
    BY <1>1, TableShape
  <1>3. m \in 1..Len(h.table[i]) /\ h.table[i][m] = k
    BY <1>1, <1>2
  <1>4. Unlinked(h, k) = [h EXCEPT !.table = [h.table EXCEPT ![i] = c], !.used = h.used - 1]
    BY DEF Unlinked
  <1> HIDE DEF i, m, c
  <1>5. /\ c \in Seq(Keys) /\ Len(c) = Len(h.table[i]) - 1
        /\ \A n \in 1..Len(c) : c[n] = IF n < m THEN h.table[i][n] ELSE h.table[i][n + 1]
    BY <1>2, <1>3, RemoveAtShape DEF c
  <1>6. PICK l \in Nat : h \in [size : {l}, table : [0..l - 1 -> Seq(Keys)], used : Int]
    BY DEF Tables
  <1>7. [h.table EXCEPT ![i] = c] \in [0..l - 1 -> Seq(Keys)]
    BY <1>5, <1>6
  <1>8. Unlinked(h, k) = [size |-> h.size, table |-> [h.table EXCEPT ![i] = c],
                          used |-> h.used - 1]
    BY <1>4, <1>6
  <1>9. /\ Unlinked(h, k) \in [size : {l}, table : [0..l - 1 -> Seq(Keys)], used : Int]
        /\ Unlinked(h, k).size = h.size
        /\ Unlinked(h, k).used = h.used - 1
        /\ Unlinked(h, k).table = [h.table EXCEPT ![i] = c]
    BY <1>6, <1>7, <1>8
  <1>10. Unlinked(h, k) \in Tables
    BY <1>9 DEF Tables
  <1>11. /\ Unlinked(h, k).table[i] = c
         /\ \A j \in 0..h.size - 1 : j # i => Unlinked(h, k).table[j] = h.table[j]
    BY <1>1, <1>9, TableShape
  <1> QED BY <1>1, <1>3, <1>5, <1>9, <1>10, <1>11 DEF i

(* A key of the table may be taken out. *)
LEMMA UnlinkedOK ==
    ASSUME NEW h, TableOK(h), NEW k \in KeysIn(h)
    PROVE  /\ TableOK(Unlinked(h, k))
           /\ KeysIn(Unlinked(h, k)) = KeysIn(h) \ {k}
  <1> DEFINE i == Hash[k] % h.size
             g == Unlinked(h, k)
  <1>1. h \in Tables /\ Hashed(h) /\ NoTwins(h) /\ Counted(h)
    BY DEF TableOK
  <1>2. /\ g \in Tables /\ g.size = h.size /\ g.used = h.used - 1
        /\ i \in 0..h.size - 1
        /\ \A j \in 0..h.size - 1 : j # i => g.table[j] = h.table[j]
    BY <1>1, UnlinkedShape
  <1>3. PICK m \in 1..Len(h.table[i]) :
            /\ h.table[i][m] = k
            /\ Len(g.table[i]) = Len(h.table[i]) - 1
            /\ \A n \in 1..Len(g.table[i]) :
                  g.table[i][n] = IF n < m THEN h.table[i][n] ELSE h.table[i][n + 1]
    BY <1>1, UnlinkedShape
  <1>4. \A j \in 0..h.size - 1 : Len(h.table[j]) \in Nat /\ Len(g.table[j]) \in Nat
    BY <1>1, <1>2, TableShape
  <1> HIDE DEF g
  <1> DEFINE old(n) == IF n < m THEN n ELSE n + 1
  <1>5. \A n \in 1..Len(g.table[i]) :
            /\ old(n) \in 1..Len(h.table[i])
            /\ old(n) # m
            /\ g.table[i][n] = h.table[i][old(n)]
    BY <1>2, <1>3, <1>4
  <1>6. \A n \in 1..Len(h.table[i]) :
            n # m => \E p \in 1..Len(g.table[i]) : old(p) = n
    <2> SUFFICES ASSUME NEW n \in 1..Len(h.table[i]), n # m
                 PROVE  \E p \in 1..Len(g.table[i]) : old(p) = n
      OBVIOUS
    <2>1. CASE n < m
      BY <2>1, <1>2, <1>3, <1>4
    <2>2. CASE ~(n < m)
      <3>1. n - 1 \in 1..Len(g.table[i]) /\ old(n - 1) = n
        BY <2>2, <1>2, <1>3, <1>4
      <3> QED BY <3>1
    <2> QED BY <2>1, <2>2
  <1>7. \A p, q \in 1..Len(g.table[i]) : old(p) = old(q) => p = q
    BY <1>2, <1>3, <1>4
  <1> HIDE DEF old
  <1>8. Hashed(g)
    <2> SUFFICES ASSUME NEW j \in 0..h.size - 1, NEW n \in 1..Len(g.table[j])
                 PROVE  Hash[g.table[j][n]] % h.size = j
      BY <1>2 DEF Hashed
    <2>1. CASE j # i
      BY <2>1, <1>1, <1>2 DEF Hashed
    <2>2. CASE j = i
      <3>1. g.table[i][n] = h.table[i][old(n)] /\ old(n) \in 1..Len(h.table[i])
        BY <2>2, <1>5
      <3>2. Hash[h.table[i][old(n)]] % h.size = i
        BY <3>1, <1>1, <1>2 DEF Hashed
      <3> QED BY <2>2, <3>1, <3>2
    <2> QED BY <2>1, <2>2
  <1>9. NoTwins(g)
    <2> SUFFICES ASSUME NEW j \in 0..h.size - 1, NEW p \in 1..Len(g.table[j]),
                        NEW q \in 1..Len(g.table[j]), g.table[j][p] = g.table[j][q]
                 PROVE  p = q
      BY <1>2 DEF NoTwins
    <2>1. CASE j # i
      BY <2>1, <1>1, <1>2 DEF NoTwins
    <2>2. CASE j = i
      <3>1. h.table[i][old(p)] = h.table[i][old(q)]
        BY <2>2, <1>5
      <3>2. old(p) = old(q)
        BY <3>1, <2>2, <1>1, <1>2, <1>5 DEF NoTwins
      <3> QED BY <3>2, <2>2, <1>7
    <2> QED BY <2>1, <2>2
  <1>10. KeysIn(g) = KeysIn(h) \ {k}
    <2>1. ASSUME NEW j \in KeysIn(g)
          PROVE  j \in KeysIn(h) \ {k}
      <3>1. PICK b \in 0..h.size - 1 : \E n \in 1..Len(g.table[b]) : g.table[b][n] = j
        BY <1>2 DEF KeysIn
      <3>2. PICK n \in 1..Len(g.table[b]) : g.table[b][n] = j
        BY <3>1
      <3>3. CASE b # i
        <4>1. n \in 1..Len(h.table[b]) /\ h.table[b][n] = j
          BY <3>2, <3>3, <1>2
        <4>2. Hash[j] % h.size = b
          BY <4>1, <1>1 DEF Hashed
        <4> QED BY <4>1, <4>2, <3>3, <1>1, EntryIsKey DEF i
      <3>4. CASE b = i
        <4>1. old(n) \in 1..Len(h.table[i]) /\ old(n) # m /\ h.table[i][old(n)] = j
          BY <3>2, <3>4, <1>5
        <4>2. j # k
          BY <4>1, <1>1, <1>2, <1>3 DEF NoTwins
        <4> QED BY <4>1, <4>2, <1>1, <1>2, EntryIsKey
      <3> QED BY <3>3, <3>4
    <2>2. ASSUME NEW j \in KeysIn(h), j # k
          PROVE  j \in KeysIn(g)
      <3>1. PICK b \in 0..h.size - 1 : \E n \in 1..Len(h.table[b]) : h.table[b][n] = j
        BY DEF KeysIn
      <3>2. PICK n \in 1..Len(h.table[b]) : h.table[b][n] = j
        BY <3>1
      <3>3. CASE b # i
        BY <3>2, <3>3, <1>2, EntryIsKey
      <3>4. CASE b = i
        <4>1. PICK p \in 1..Len(g.table[i]) : old(p) = n
          BY <3>2, <3>4, <2>2, <1>3, <1>6
        <4>2. g.table[i][p] = j
          BY <4>1, <3>2, <3>4, <1>5
        <4> QED BY <4>1, <4>2, <1>2, EntryIsKey
      <3> QED BY <3>3, <3>4
    <2> QED BY <2>1, <2>2
  <1>11. Counted(g)
    <2>1. IsFiniteSet(KeysIn(h)) /\ h.used = Cardinality(KeysIn(h))
      BY <1>1 DEF Counted
    <2>2. /\ IsFiniteSet(KeysIn(h) \ {k})
          /\ Cardinality(KeysIn(h) \ {k}) = Cardinality(KeysIn(h)) - 1
      BY <2>1, FS_RemoveElement
    <2> QED BY <1>2, <1>10, <2>1, <2>2 DEF Counted
  <1> QED BY <1>2, <1>8, <1>9, <1>10, <1>11 DEF TableOK, g

(* The elements of a sequence without repetitions are as many as it is long. *)
LEMMA ElementsCounted ==
    ASSUME NEW S, NEW s \in Seq(S), \A m, n \in 1..Len(s) : s[m] = s[n] => m = n
    PROVE  IsFiniteSet(ToSet(s)) /\ Cardinality(ToSet(s)) = Len(s)
  <1>1. IsFiniteSet(1..Len(s)) /\ Cardinality(1..Len(s)) = Len(s)
    <2>1. Len(s) \in Nat
      OBVIOUS
    <2>2. 1 \in Int /\ Len(s) \in Int
      BY <2>1
    <2>3. /\ IsFiniteSet(1..Len(s))
          /\ Cardinality(1..Len(s)) = IF 1 > Len(s) THEN 0 ELSE Len(s) - 1 + 1
      BY <2>2, FS_Interval, Zenon
    <2> QED BY <2>1, <2>3
  <1>2. s \in [1..Len(s) -> ToSet(s)] /\ DOMAIN s = 1..Len(s)
    BY DEF ToSet
  <1>3. s \in Bijection(1..Len(s), ToSet(s))
    <2>1. s \in Injection(1..Len(s), ToSet(s))
      BY <1>2 DEF Injection, IsInjective
    <2>2. s \in Surjection(1..Len(s), ToSet(s))
      BY <1>2 DEF Surjection, ToSet
    <2> QED BY <2>1, <2>2 DEF Bijection
  <1>4. ExistsBijection(1..Len(s), ToSet(s))
    BY <1>3 DEF ExistsBijection
  <1> QED BY <1>1, <1>4, FS_Bijection

(* A bucket may be emptied. *)
LEMMA EmptiedOK ==
    ASSUME NEW h, TableOK(h), NEW i \in 0..h.size - 1
    PROVE  LET g == [h EXCEPT !.table[i] = <<>>, !.used = @ - Len(h.table[i])] IN
           /\ TableOK(g)
           /\ g.size = h.size
           /\ g.table[i] = <<>>
           /\ \A j \in 0..h.size - 1 : j # i => g.table[j] = h.table[j]
           /\ KeysIn(g) = KeysIn(h) \ ToSet(h.table[i])
  <1> DEFINE g == [h EXCEPT !.table[i] = <<>>, !.used = @ - Len(h.table[i])]
  <1>1. h \in Tables /\ Hashed(h) /\ NoTwins(h) /\ Counted(h)
    BY DEF TableOK
  <1>2. PICK l \in Nat : h \in [size : {l}, table : [0..l - 1 -> Seq(Keys)], used : Int]
    BY <1>1 DEF Tables
  <1>3. h.table[i] \in Seq(Keys) /\ Len(h.table[i]) \in Nat
    BY <1>1, TableShape
  <1>4. g = [size |-> h.size, table |-> [h.table EXCEPT ![i] = <<>>],
             used |-> h.used - Len(h.table[i])]
    <2>1. g = [h EXCEPT !.table = [h.table EXCEPT ![i] = <<>>],
                        !.used = h.used - Len(h.table[i])]
      OBVIOUS
    <2> HIDE DEF g
    <2> QED BY <1>2, <2>1
  <1> HIDE DEF g
  <1>5. [h.table EXCEPT ![i] = <<>>] \in [0..l - 1 -> Seq(Keys)]
    BY <1>2
  <1>6. /\ g \in [size : {l}, table : [0..l - 1 -> Seq(Keys)], used : Int]
        /\ g.size = h.size
        /\ g.used = h.used - Len(h.table[i])
        /\ g.table = [h.table EXCEPT ![i] = <<>>]
    BY <1>2, <1>3, <1>4, <1>5
  <1>7. g \in Tables
    BY <1>6 DEF Tables
  <1>8. /\ g.table[i] = <<>>
        /\ \A j \in 0..h.size - 1 : j # i => g.table[j] = h.table[j]
    BY <1>1, <1>6, TableShape
  <1>9. Len(g.table[i]) = 0
    BY <1>8
  <1>10. Hashed(g) /\ NoTwins(g)
    <2>1. ASSUME NEW j \in 0..h.size - 1, NEW n \in 1..Len(g.table[j])
          PROVE  j # i /\ g.table[j] = h.table[j]
      BY <1>8, <1>9
    <2>2. Hashed(g)
      BY <2>1, <1>1, <1>6 DEF Hashed
    <2>3. NoTwins(g)
      BY <2>1, <1>1, <1>6 DEF NoTwins
    <2> QED BY <2>2, <2>3
  <1>11. KeysIn(g) = KeysIn(h) \ ToSet(h.table[i])
    <2>1. ASSUME NEW j \in KeysIn(g)
          PROVE  j \in KeysIn(h) \ ToSet(h.table[i])
      <3>1. PICK b \in 0..h.size - 1 : \E n \in 1..Len(g.table[b]) : g.table[b][n] = j
        BY <1>6 DEF KeysIn
      <3>2. PICK n \in 1..Len(g.table[b]) : g.table[b][n] = j
        BY <3>1
      <3>3. b # i
        BY <3>2, <1>9
      <3>4. n \in 1..Len(h.table[b]) /\ h.table[b][n] = j
        BY <3>2, <3>3, <1>8
      <3>5. Hash[j] % h.size = b /\ j \in KeysIn(h)
        BY <3>4, <1>1, EntryIsKey DEF Hashed
      <3>6. \A n2 \in 1..Len(h.table[i]) : Hash[h.table[i][n2]] % h.size = i
        BY <1>1 DEF Hashed
      <3>7. DOMAIN h.table[i] = 1..Len(h.table[i])
        BY <1>3
      <3> QED BY <3>3, <3>5, <3>6, <3>7 DEF ToSet
    <2>2. ASSUME NEW j \in KeysIn(h), j \notin ToSet(h.table[i])
          PROVE  j \in KeysIn(g)
      <3>1. PICK b \in 0..h.size - 1 : \E n \in 1..Len(h.table[b]) : h.table[b][n] = j
        BY DEF KeysIn
      <3>2. PICK n \in 1..Len(h.table[b]) : h.table[b][n] = j
        BY <3>1
      <3>3. b # i
        BY <3>2, <2>2, <1>3 DEF ToSet
      <3> QED BY <3>2, <3>3, <1>6, <1>7, <1>8, EntryIsKey
    <2> QED BY <2>1, <2>2
  <1>12. Counted(g)
    <2>1. IsFiniteSet(KeysIn(h)) /\ h.used = Cardinality(KeysIn(h))
      BY <1>1 DEF Counted
    <2>2. Cardinality(ToSet(h.table[i])) = Len(h.table[i])
      <3>1. \A m, n \in 1..Len(h.table[i]) : h.table[i][m] = h.table[i][n] => m = n
        BY <1>1 DEF NoTwins
      <3> QED BY <3>1, <1>3, ElementsCounted
    <2>3. ToSet(h.table[i]) \subseteq KeysIn(h)
      BY <1>1, <1>3, EntryIsKey, SMTT(40) DEF ToSet
    <2>4. /\ IsFiniteSet(KeysIn(h) \ ToSet(h.table[i]))
          /\ Cardinality(KeysIn(h) \ ToSet(h.table[i]))
             = Cardinality(KeysIn(h)) - Cardinality(KeysIn(h) \cap ToSet(h.table[i]))
      BY <2>1, FS_Difference
    <2>5. KeysIn(h) \cap ToSet(h.table[i]) = ToSet(h.table[i])
      BY <2>3
    <2> QED BY <1>6, <1>11, <2>1, <2>2, <2>4, <2>5 DEF Counted
  <1> QED BY <1>6, <1>7, <1>8, <1>10, <1>11, <1>12 DEF TableOK, g

(* A set of naturals has a least element. *)
LEMMA LeastNatural ==
    ASSUME NEW S, S \subseteq Nat, S # {}
    PROVE  \E n \in S : \A m \in S : n <= m
  <1>1. PICK n \in S : \A m \in S : ~(<<m, n>> \in OpToRel(<, Nat))
    BY NatLessThanWellFounded, WFMin
  <1>2. OpToRel(<, Nat) = { p \in Nat \X Nat : p[1] < p[2] }
    BY Zenon DEF OpToRel
  <1>3. \A m \in S : m < n => <<m, n>> \in { p \in Nat \X Nat : p[1] < p[2] }
    OBVIOUS
  <1>4. \A m \in S : ~(m < n)
    BY <1>1, <1>2, <1>3, Zenon
  <1> QED BY <1>4

(* Min finds it. *)
LEMMA MinIsLeast ==
    ASSUME NEW S, S \subseteq Nat, S # {}
    PROVE  Min(S) \in S /\ \A m \in S : Min(S) <= m
  BY LeastNatural DEF Min

(* Induction, for a set of naturals in the place of a predicate. *)
LEMMA Induction ==
    ASSUME NEW P, P \subseteq Nat, 0 \in P, \A n \in P : n + 1 \in P
    PROVE  P = Nat
  <1> SUFFICES ASSUME P # Nat PROVE FALSE
    OBVIOUS
  <1>1. PICK n \in Nat \ P : \A m \in Nat \ P : n <= m
    BY LeastNatural
  <1>2. n # 0 /\ n - 1 \in P /\ (n - 1) + 1 = n
    BY <1>1
  <1> QED BY <1>1, <1>2

(* A function given by its first value and by steps within a set exists. *)
Recursive(first, n, step, f) ==
    \A i \in 0..n : f[i] = IF i = 0 THEN first ELSE step[i][f[i - 1]]

(* There is such a function for all steps: a definition by recursion has a
   value. *)
LEMMA Recursion ==
    ASSUME NEW S, NEW first \in S, NEW n \in Nat, NEW step \in [1..n -> [S -> S]]
    PROVE  \E f \in [0..n -> S] : Recursive(first, n, step, f)
  <1> DEFINE Fits(f, k) == Recursive(first, k, step, f)
             P == { k \in Nat : k <= n => \E f \in [0..k -> S] : Fits(f, k) }
  <1>1. 0 \in P
    <2>1. [i \in 0..0 |-> first] \in [0..0 -> S] /\ Fits([i \in 0..0 |-> first], 0)
      BY DEF Recursive
    <2> QED BY <2>1
  <1>2. ASSUME NEW k \in P  PROVE k + 1 \in P
    <2> SUFFICES ASSUME k + 1 <= n
                 PROVE  \E f \in [0..k + 1 -> S] : Fits(f, k + 1)
      OBVIOUS
    <2>1. PICK f \in [0..k -> S] : Fits(f, k)
      OBVIOUS
    <2> DEFINE g == [i \in 0..k + 1 |-> IF i <= k THEN f[i] ELSE step[k + 1][f[k]]]
    <2>2. k \in 0..k /\ k + 1 \in 1..n /\ f[k] \in S /\ step[k + 1] \in [S -> S]
      OBVIOUS
    <2>3. step[k + 1][f[k]] \in S
      BY <2>2
    <2>4. g \in [0..k + 1 -> S]
      BY <2>3
    <2>5. ASSUME NEW i \in 0..k + 1
          PROVE  g[i] = IF i = 0 THEN first ELSE step[i][g[i - 1]]
      <3>1. CASE i = 0
        BY <2>1, <3>1 DEF Recursive
      <3>2. CASE i # 0 /\ i <= k
        <4>1. g[i] = f[i] /\ g[i - 1] = f[i - 1]
          BY <3>2
        <4>2. f[i] = step[i][f[i - 1]]
          BY <2>1, <3>2 DEF Recursive
        <4> QED BY <3>2, <4>1, <4>2
      <3>3. CASE i = k + 1
        <4>1. g[i] = step[k + 1][f[k]] /\ g[i - 1] = f[k]
          BY <3>3
        <4> QED BY <3>3, <4>1
      <3> QED BY <3>1, <3>2, <3>3
    <2> HIDE DEF g
    <2> QED BY <2>4, <2>5 DEF Recursive
  <1>3. P = Nat
    <2> HIDE DEF P
    <2> QED BY <1>1, <1>2, Induction DEF P
  <1>4. n \in P /\ n <= n
    BY <1>3
  <1> QED BY <1>4

(* The size of a new table. *)
LEMMA NextPowerType ==
    ASSUME NEW size \in Nat
    PROVE  _dictNextPower(size) \in Nat \ {0}
  <1> DEFINE S == Nat \ {0}
             Fits(f) == f = [n \in 0..size |-> IF n = 0 THEN InitialSize
                                               ELSE IF f[n - 1] >= size THEN f[n - 1]
                                               ELSE 2 * f[n - 1]]
             step == [n \in 1..size |-> [m \in S |-> IF m >= size THEN m ELSE 2 * m]]
  <1>1. InitialSize \in S /\ step \in [1..size -> [S -> S]]
    BY DictAssumption
  <1>2. PICK f \in [0..size -> S] : Recursive(InitialSize, size, step, f)
    <2> HIDE DEF S, step
    <2> QED BY <1>1, Recursion
  <1>3. ASSUME NEW i \in 0..size
        PROVE  f[i] = IF i = 0 THEN InitialSize
                      ELSE IF f[i - 1] >= size THEN f[i - 1] ELSE 2 * f[i - 1]
    <2>1. CASE i = 0
      BY <1>2, <2>1 DEF Recursive
    <2>2. CASE i # 0
      <3>1. i \in 1..size /\ i - 1 \in 0..size
        BY <2>2
      <3>2. f[i - 1] \in S /\ f[i] = step[i][f[i - 1]]
        <4> HIDE DEF step, S
        <4> QED BY <3>1, <2>2, <1>2 DEF Recursive
      <3> QED BY <3>1, <3>2, <2>2
    <2> QED BY <2>1, <2>2
  <1>4. Fits(f)
    BY <1>3
  <1> DEFINE i == CHOOSE i : Fits(i)
  <1>5. _dictNextPower(size) = i[size]
    BY DEF _dictNextPower
  <1>6. Fits(i)
    <2> HIDE DEF Fits
    <2> QED BY <1>4
  <1> HIDE DEF i
  <1> DEFINE P == { n \in Nat : n <= size => i[n] \in S }
  <1>7. \A n \in 0..size : i[n] = IF n = 0 THEN InitialSize
                                  ELSE IF i[n - 1] >= size THEN i[n - 1] ELSE 2 * i[n - 1]
    BY <1>6
  <1> HIDE DEF Fits
  <1>8. 0 \in P
    BY <1>1, <1>7
  <1>9. ASSUME NEW n \in P  PROVE n + 1 \in P
    <2> SUFFICES ASSUME n + 1 <= size PROVE i[n + 1] \in S
      OBVIOUS
    <2>1. /\ n + 1 \in 0..size /\ (n + 1) - 1 = n /\ n + 1 # 0
          /\ i[n] \in S
      OBVIOUS
    <2>2. i[n + 1] = IF i[n] >= size THEN i[n] ELSE 2 * i[n]
      BY <1>7, <2>1
    <2> QED BY <2>1, <2>2
  <1>10. P = Nat
    <2> HIDE DEF P
    <2> QED BY <1>8, <1>9, Induction DEF P
  <1> QED BY <1>5, <1>10

(* Entries linked in one after the other. *)
LinkedAll(h, c, f) ==
    f = [n \in 0..Len(c) |-> IF n = 0 THEN h ELSE Linked(f[n - 1], c[n])]

(* There is such a function for every bucket: it is the one that Moved recurs
   on. *)
LEMMA LinkedAllExists ==
    ASSUME NEW h \in Tables, h.size # 0, NEW c \in Seq(Keys)
    PROVE  \E f : LinkedAll(h, c, f)
  <1> DEFINE S == { g \in Tables : g.size # 0 }
             N == Len(c)
             step == [n \in 1..N |-> [g \in S |-> Linked(g, c[n])]]
  <1>1. N \in Nat /\ h \in S
    OBVIOUS
  <1>2. ASSUME NEW n \in 1..N, NEW g \in S  PROVE Linked(g, c[n]) \in S
    <2>1. c[n] \in Keys /\ g \in Tables /\ g.size # 0
      OBVIOUS
    <2> QED BY <2>1, LinkedShape
  <1>3. step \in [1..N -> [S -> S]]
    BY <1>2
  <1>4. PICK f \in [0..N -> S] : Recursive(h, N, step, f)
    <2> HIDE DEF S, step, N
    <2> QED BY <1>1, <1>3, Recursion
  <1> HIDE DEF S, N
  <1>5. \A n \in 0..N : f[n] = IF n = 0 THEN h ELSE Linked(f[n - 1], c[n])
    <2> SUFFICES ASSUME NEW n \in 0..N, n # 0
                 PROVE  f[n] = Linked(f[n - 1], c[n])
      BY <1>1, <1>4 DEF Recursive
    <2>1. n \in 1..N /\ n - 1 \in 0..N
      BY <1>1
    <2>2. f[n - 1] \in S /\ f[n] = step[n][f[n - 1]]
      <3> HIDE DEF step
      <3> QED BY <2>1, <1>4 DEF Recursive
    <2> QED BY <2>1, <2>2
  <1> HIDE DEF step
  <1>6. LinkedAll(h, c, f)
    BY <1>5 DEF LinkedAll, N
  <1> QED BY <1>6

(* New keys, one after the other, may be linked in. *)
LEMMA LinkedAllOK ==
    ASSUME NEW h, TableOK(h), h.size # 0, NEW c \in Seq(Keys),
           \A m, n \in 1..Len(c) : c[m] = c[n] => m = n,
           ToSet(c) \cap KeysIn(h) = {},
           NEW f, LinkedAll(h, c, f)
    PROVE  /\ TableOK(f[Len(c)])
           /\ f[Len(c)].size = h.size
           /\ KeysIn(f[Len(c)]) = KeysIn(h) \cup ToSet(c)
  <1> DEFINE N == Len(c)
             first(n) == { c[m] : m \in 1..n }
             P == { n \in Nat : n <= N => /\ TableOK(f[n]) /\ f[n].size = h.size
                                          /\ KeysIn(f[n]) = KeysIn(h) \cup first(n) }
  <1>1. N \in Nat /\ \A n \in 0..N : f[n] = IF n = 0 THEN h ELSE Linked(f[n - 1], c[n])
    <2>1. N \in Nat
      OBVIOUS
    <2> HIDE DEF N
    <2> QED BY <2>1 DEF LinkedAll, N
  <1>2. ToSet(c) = first(N)
    BY DEF ToSet
  <1>3. 0 \in P
    <2>1. first(0) = {} /\ f[0] = h
      BY <1>1
    <2> QED BY <2>1
  <1>4. ASSUME NEW n \in P  PROVE n + 1 \in P
    <2> SUFFICES ASSUME n + 1 <= N
                 PROVE  /\ TableOK(f[n + 1]) /\ f[n + 1].size = h.size
                        /\ KeysIn(f[n + 1]) = KeysIn(h) \cup first(n + 1)
      OBVIOUS
    <2>1. /\ TableOK(f[n]) /\ f[n].size = h.size
          /\ KeysIn(f[n]) = KeysIn(h) \cup first(n)
      BY <1>1
    <2>2. f[n + 1] = Linked(f[n], c[n + 1])
      <3>1. n + 1 \in 0..N /\ n + 1 # 0 /\ (n + 1) - 1 = n
        BY <1>1
      <3> QED BY <3>1, <1>1
    <2>3. c[n + 1] \in Keys /\ c[n + 1] \in ToSet(c)
      BY <1>1 DEF ToSet
    <2>4. c[n + 1] \notin first(n)
      BY <1>1
    <2>5. c[n + 1] \notin KeysIn(f[n])
      BY <2>1, <2>3, <2>4
    <2>6. TableOK(f[n + 1]) /\ KeysIn(f[n + 1]) = KeysIn(f[n]) \cup {c[n + 1]}
      BY <2>1, <2>2, <2>3, <2>5, LinkedOK
    <2>7. f[n + 1].size = h.size
      BY <2>1, <2>2, <2>3, LinkedShape DEF TableOK
    <2>8. first(n + 1) = first(n) \cup {c[n + 1]}
      BY <1>1
    <2> QED BY <2>1, <2>6, <2>7, <2>8
  <1> HIDE DEF N, first
  <1>5. P = Nat
    <2> HIDE DEF P
    <2> QED BY <1>3, <1>4, Induction DEF P
  <1>6. /\ TableOK(f[N]) /\ f[N].size = h.size
        /\ KeysIn(f[N]) = KeysIn(h) \cup first(N)
    BY <1>1, <1>5
  <1> QED BY <1>2, <1>6 DEF N

----------------------------------------------------------------------------
(* A dictionary: two such tables, of which the second is there during a      *)
(* rehash only, has other keys than the first, and has those that were in    *)
(* the buckets before rehashidx.                                             *)

Dicts == [ht : [0..1 -> Tables], rehashidx : Int, iterators : Int]

Rehashing(x) ==
    /\ x.rehashidx \in Nat /\ x.ht[0].size # 0 /\ x.ht[1].size # 0
    /\ \A i \in 0..x.ht[0].size - 1 : i < x.rehashidx => x.ht[0].table[i] = <<>>

DictOK(x) ==
    /\ x \in Dicts
    /\ TableOK(x.ht[0]) /\ TableOK(x.ht[1])
    /\ KeysIn(x.ht[0]) \cap KeysIn(x.ht[1]) = {}
    /\ IF x.rehashidx = -1 THEN x.ht[1] = _dictReset ELSE Rehashing(x)

Members(x) == KeysIn(x.ht[0]) \cup KeysIn(x.ht[1])

(* The counter of a table is a natural number, zero when it has no key. *)
LEMMA UsedType ==
    ASSUME NEW h, TableOK(h)
    PROVE  h.used \in Nat /\ h.size \in Nat /\ (h.used = 0 <=> KeysIn(h) = {})
  BY FS_CardinalityType, FS_EmptySet, TableShape DEF TableOK, Counted

(* A table without buckets has no key. *)
LEMMA NoBucketsNoKeys ==
    ASSUME NEW h, TableOK(h), h.size = 0
    PROVE  KeysIn(h) = {}
  BY DEF KeysIn

(* A search finds the tables that have the key. *)
LEMMA TablesOf ==
    ASSUME NEW x, DictOK(x), NEW k \in Keys
    PROVE  TablesWith(x, k) = { t \in 0..1 : k \in KeysIn(x.ht[t]) }
  <1>1. \A t \in 0..1 : TableOK(x.ht[t]) /\ x.ht[t] \in Tables /\ Hashed(x.ht[t])
    BY DEF DictOK, TableOK
  <1>2. ASSUME NEW t \in 0..1, t \in Searched(x)
        PROVE  Contains(Chain(x, t, k), k) <=> k \in KeysIn(x.ht[t])
    <2>1. x.ht[t].size # 0
      BY <1>2 DEF Searched, DictOK, Rehashing, dictIsRehashing
    <2>2. Slot(x, t, k) \in 0..x.ht[t].size - 1
      BY <2>1, <1>1, SlotIn, TableShape DEF Slot
    <2>3. ASSUME Contains(Chain(x, t, k), k)  PROVE k \in KeysIn(x.ht[t])
      <3>1. PICK n \in 1..Len(x.ht[t].table[Slot(x, t, k)]) : x.ht[t].table[Slot(x, t, k)][n] = k
        BY <2>3 DEF Contains, Chain
      <3> QED BY <3>1, <2>2, <1>1, EntryIsKey
    <2>4. ASSUME k \in KeysIn(x.ht[t])  PROVE Contains(Chain(x, t, k), k)
      BY <2>4, <1>1, InItsSlot DEF Contains, Chain, Slot
    <2> QED BY <2>3, <2>4
  <1>3. ASSUME NEW t \in 0..1, t \notin Searched(x)
        PROVE  k \notin KeysIn(x.ht[t])
    <2>1. CASE x.ht[0].size = 0
      <3>1. x.rehashidx = -1 /\ x.ht[1] = _dictReset
        BY <2>1 DEF DictOK, Rehashing
      <3> QED BY <3>1, <2>1, <1>1, NoBucketsNoKeys, ResetOK
    <2>2. CASE x.ht[0].size # 0
      <3>1. t = 1 /\ x.rehashidx = -1
        BY <2>2, <1>3 DEF Searched, dictIsRehashing
      <3> QED BY <3>1, ResetOK DEF DictOK
    <2> QED BY <2>1, <2>2
  <1>4. Searched(x) \subseteq 0..1
    BY DEF Searched
  <1> QED BY <1>2, <1>3, <1>4 DEF TablesWith

(* A search finds something when the key is a member, and in one table only. *)
LEMMA Found ==
    ASSUME NEW x, DictOK(x), NEW k \in Keys
    PROVE  /\ TablesWith(x, k) # {} <=> k \in Members(x)
           /\ \A t \in TablesWith(x, k) : TablesWith(x, k) = {t}
  <1>1. TablesWith(x, k) = { t \in 0..1 : k \in KeysIn(x.ht[t]) }
    BY TablesOf
  <1>2. KeysIn(x.ht[0]) \cap KeysIn(x.ht[1]) = {}
    BY DEF DictOK
  <1>3. ~(0 \in TablesWith(x, k) /\ 1 \in TablesWith(x, k)) /\ TablesWith(x, k) \subseteq {0, 1}
    BY <1>1, <1>2
  <1>4. \A t \in TablesWith(x, k) : TablesWith(x, k) = {t}
    BY <1>3
  <1> QED BY <1>1, <1>4 DEF Members

(* The members are the keys that a search finds. *)
LEMMA MembersFound ==
    ASSUME NEW x, DictOK(x)
    PROVE  Present(x) = Members(x)
  BY Found DEF Members, KeysIn, Present

(* A table in the place of another. *)
LEMMA Replaced ==
    ASSUME NEW x \in Dicts, NEW t \in 0..1, NEW h \in Tables
    PROVE  LET y == [x EXCEPT !.ht[t] = h] IN
           /\ y \in Dicts
           /\ y.ht[t] = h
           /\ \A u \in 0..1 : u # t => y.ht[u] = x.ht[u]
           /\ y.rehashidx = x.rehashidx
           /\ y.iterators = x.iterators
  BY DEF Dicts

(* A key that is added is a member. *)
LEMMA AddedOK ==
    ASSUME NEW x, DictOK(x), NEW k \in Keys, x.ht[0].size # 0
    PROVE  /\ DictOK(Added(x, k))
           /\ Members(Added(x, k)) = Members(x) \cup {k}
           /\ Added(x, k).iterators = x.iterators
  <1>1. CASE k \in Members(x)
    <2>1. Added(x, k) = x
      BY <1>1, Found DEF Added
    <2> QED BY <2>1, <1>1
  <1>2. CASE k \notin Members(x)
    <2> DEFINE t == IF dictIsRehashing(x) THEN 1 ELSE 0
               h == Linked(x.ht[t], k)
               y == [x EXCEPT !.ht[t] = h]
    <2>1. Added(x, k) = y
      BY <1>2, Found DEF Added
    <2>2. /\ t \in 0..1 /\ TableOK(x.ht[t]) /\ x.ht[t].size # 0 /\ x.ht[t] \in Tables
          /\ k \notin KeysIn(x.ht[t])
      BY <1>2 DEF DictOK, Rehashing, dictIsRehashing, TableOK, Members
    <2>3. /\ TableOK(h) /\ KeysIn(h) = KeysIn(x.ht[t]) \cup {k}
          /\ h \in Tables /\ h.size # 0
      <3> HIDE DEF t
      <3>1. TableOK(h) /\ KeysIn(h) = KeysIn(x.ht[t]) \cup {k}
        BY <2>2, LinkedOK
      <3>2. h.size = x.ht[t].size
        BY <2>2, LinkedShape
      <3> QED BY <3>1, <3>2, <2>2 DEF TableOK
    <2> HIDE DEF h
    <2>4. /\ y \in Dicts /\ y.ht[t] = h /\ \A u \in 0..1 : u # t => y.ht[u] = x.ht[u]
          /\ y.rehashidx = x.rehashidx /\ y.iterators = x.iterators
      <3> HIDE DEF t
      <3> QED BY <2>2, <2>3, Replaced DEF DictOK
    <2> HIDE DEF y
    <2>5. CASE dictIsRehashing(x)
      <3>1. /\ t = 1 /\ y.ht[1] = h /\ y.ht[0] = x.ht[0] /\ y.rehashidx # -1
            /\ Rehashing(x)
        BY <2>4, <2>5 DEF dictIsRehashing, DictOK
      <3>2. Rehashing(y)
        BY <3>1, <2>3, <2>4 DEF Rehashing
      <3> QED BY <3>1, <3>2, <1>2, <2>1, <2>3, <2>4 DEF DictOK, Members
    <2>6. CASE ~dictIsRehashing(x)
      <3>1. /\ t = 0 /\ y.ht[0] = h /\ y.ht[1] = x.ht[1] /\ y.rehashidx = -1
            /\ x.ht[1] = _dictReset
        BY <2>4, <2>6 DEF dictIsRehashing, DictOK
      <3> QED BY <3>1, <1>2, <2>1, <2>3, <2>4 DEF DictOK, Members
    <2> QED BY <2>5, <2>6
  <1> QED BY <1>1, <1>2

(* A key that is removed is no member. *)
LEMMA RemovedOK ==
    ASSUME NEW x, DictOK(x), NEW k \in Keys
    PROVE  /\ DictOK(Removed(x, k))
           /\ Members(Removed(x, k)) = Members(x) \ {k}
           /\ Removed(x, k).iterators = x.iterators
  <1>1. CASE k \notin Members(x)
    <2>1. Removed(x, k) = x
      BY <1>1, Found DEF Removed
    <2> QED BY <2>1, <1>1
  <1>2. CASE k \in Members(x)
    <2>1. PICK t \in TablesWith(x, k) : TablesWith(x, k) = {t}
      BY <1>2, Found
    <2>2. t \in 0..1 /\ k \in KeysIn(x.ht[t])
      BY TablesOf
    <2>3. Min({t}) = t
      BY <2>2, MinIsLeast
    <2> DEFINE h == Unlinked(x.ht[t], k)
               y == [x EXCEPT !.ht[t] = h]
    <2>4. Removed(x, k) = y
      BY <2>1, <2>3 DEF Removed
    <2>5. TableOK(x.ht[t]) /\ x.ht[t] \in Tables /\ Hashed(x.ht[t])
      BY <2>2 DEF DictOK, TableOK
    <2>6. /\ TableOK(h) /\ KeysIn(h) = KeysIn(x.ht[t]) \ {k}
          /\ h \in Tables /\ h.size = x.ht[t].size
      BY <2>2, <2>5, UnlinkedOK, UnlinkedShape DEF TableOK
    <2>7. \A i \in 0..x.ht[t].size - 1 : x.ht[t].table[i] = <<>> => h.table[i] = <<>>
      <3> SUFFICES ASSUME NEW i \in 0..x.ht[t].size - 1, x.ht[t].table[i] = <<>>
                   PROVE  h.table[i] = <<>>
        OBVIOUS
      <3>1. i # Hash[k] % x.ht[t].size
        BY <2>2, <2>5, InItsSlot
      <3> QED BY <3>1, <2>2, <2>5, UnlinkedShape
    <2> HIDE DEF h
    <2>8. /\ y \in Dicts /\ y.ht[t] = h /\ \A u \in 0..1 : u # t => y.ht[u] = x.ht[u]
          /\ y.rehashidx = x.rehashidx /\ y.iterators = x.iterators
      BY <2>2, <2>6, Replaced DEF DictOK
    <2> HIDE DEF y
    <2>9. CASE t = 0
      <3>1. y.ht[0] = h /\ y.ht[1] = x.ht[1]
        BY <2>8, <2>9
      <3>2. x.rehashidx # -1 => Rehashing(y)
        BY <3>1, <2>6, <2>7, <2>8, <2>9 DEF DictOK, Rehashing
      <3>3. k \notin KeysIn(x.ht[1])
        BY <2>2, <2>9 DEF DictOK
      <3> QED BY <3>1, <3>2, <3>3, <2>4, <2>6, <2>8, <2>9 DEF DictOK, Members
    <2>10. CASE t = 1
      <3>1. y.ht[1] = h /\ y.ht[0] = x.ht[0]
        BY <2>8, <2>10
      <3>2. x.rehashidx # -1
        BY <2>2, <2>10, ResetOK DEF DictOK
      <3>3. Rehashing(y)
        BY <3>1, <3>2, <2>6, <2>8, <2>10 DEF DictOK, Rehashing
      <3>4. k \notin KeysIn(x.ht[0])
        BY <2>2, <2>10 DEF DictOK
      <3> QED BY <3>1, <3>2, <3>3, <3>4, <2>4, <2>6, <2>8, <2>10 DEF DictOK, Members
    <2> QED BY <2>2, <2>9, <2>10
  <1> QED BY <1>1, <1>2

(* The greater of two sizes is no less than either. *)
LEMMA MaxIsUpper ==
    ASSUME NEW a \in Nat, NEW b \in Nat
    PROVE  Max({a, b}) \in Nat /\ Max({a, b}) >= a /\ Max({a, b}) >= b
  <1>1. \E m \in {a, b} : \A n \in {a, b} : m >= n
    OBVIOUS
  <1> QED BY <1>1 DEF Max

(* What may become of the tables when they are expanded: nothing; the first
   table comes; or the second comes, empty. *)
Expanded(x, y) ==
    \/ y = x
    \/ /\ y \in Dicts /\ y.iterators = x.iterators
       /\ x.rehashidx = -1 /\ TableOK(y.ht[0]) /\ TableOK(y.ht[1])
       /\ y.ht[0].size # 0
       /\ \/ x.ht[0].size = 0 /\ KeysIn(y.ht[0]) = {} /\ y.rehashidx = -1 /\ y.ht[1] = x.ht[1]
          \/ y.ht[0] = x.ht[0] /\ KeysIn(y.ht[1]) = {} /\ y.rehashidx = 0 /\ y.ht[1].size # 0

(* A dictionary that expands, or does not, stays one, with the same members.
   *)
LEMMA ExpandedOK ==
    ASSUME NEW x, DictOK(x), NEW y, Expanded(x, y)
    PROVE  DictOK(y) /\ Members(y) = Members(x) /\ y.iterators = x.iterators
  <1>1. CASE y = x
    BY <1>1
  <1>2. CASE x.ht[0].size = 0 /\ KeysIn(y.ht[0]) = {} /\ y.rehashidx = -1 /\ y.ht[1] = x.ht[1] /\ y # x
    <2>1. KeysIn(x.ht[0]) = {} /\ x.rehashidx = -1
      BY <1>2, NoBucketsNoKeys DEF DictOK, Expanded
    <2> QED BY <1>2, <2>1 DEF DictOK, Members, Expanded
  <1>3. CASE y.ht[0] = x.ht[0] /\ KeysIn(y.ht[1]) = {} /\ y.rehashidx = 0 /\ y # x
    <2>1. KeysIn(x.ht[1]) = {}
      BY <1>3, ResetOK DEF DictOK, Expanded
    <2>2. Rehashing(y)
      BY <1>3 DEF Expanded, Rehashing
    <2> QED BY <1>3, <2>1, <2>2 DEF DictOK, Members, Expanded
  <1> QED BY <1>1, <1>2, <1>3 DEF Expanded

(* dictExpand does one of these. *)
LEMMA ExpandShape ==
    ASSUME NEW x, DictOK(x), NEW size \in Nat
    PROVE  Expanded(x, dictExpand(x, size))
  <1> DEFINE new == NewTable(_dictNextPower(size))
             y == dictExpand(x, size)
  <1>1. TableOK(new) /\ new \in Tables /\ KeysIn(new) = {} /\ new.size # 0
    BY NextPowerType, NewTableOK DEF TableOK
  <1>2. x \in Dicts /\ TableOK(x.ht[0]) /\ TableOK(x.ht[1])
    BY DEF DictOK
  <1>3. CASE dictIsRehashing(x) \/ x.ht[0].used > size
    BY <1>3 DEF dictExpand, Expanded
  <1>4. CASE ~(dictIsRehashing(x) \/ x.ht[0].used > size) /\ x.ht[0].size = 0
    <2>1. y = [x EXCEPT !.ht[0] = new]
      BY <1>4 DEF dictExpand
    <2> HIDE DEF y, new
    <2>2. /\ y \in Dicts /\ y.ht[0] = new /\ y.ht[1] = x.ht[1]
          /\ y.rehashidx = x.rehashidx /\ y.iterators = x.iterators
      BY <1>1, <1>2, <2>1, Replaced
    <2>3. x.rehashidx = -1
      BY <1>4 DEF dictIsRehashing
    <2>4. Expanded(x, y)
      BY <1>1, <1>2, <1>4, <2>2, <2>3 DEF Expanded
    <2> QED BY <2>4 DEF y
  <1>5. CASE ~(dictIsRehashing(x) \/ x.ht[0].used > size) /\ x.ht[0].size # 0
    <2> DEFINE z == [x EXCEPT !.ht[1] = new]
    <2>1. y = [z EXCEPT !.rehashidx = 0]
      BY <1>5 DEF dictExpand
    <2> HIDE DEF y, new
    <2>2. z \in Dicts /\ z.ht[1] = new /\ z.ht[0] = x.ht[0] /\ z.iterators = x.iterators
      BY <1>1, <1>2, Replaced
    <2> HIDE DEF z
    <2>3. /\ y \in Dicts /\ y.ht[1] = new /\ y.ht[0] = x.ht[0]
          /\ y.rehashidx = 0 /\ y.iterators = x.iterators
      BY <2>1, <2>2 DEF Dicts
    <2>4. x.rehashidx = -1
      BY <1>5 DEF dictIsRehashing
    <2>5. Expanded(x, y)
      BY <1>1, <1>2, <1>5, <2>3, <2>4 DEF Expanded
    <2> QED BY <2>5 DEF y
  <1> QED BY <1>3, <1>4, <1>5

(* The callers of dictExpand, in the operations and in the cron. *)
LEMMA ExpandIfNeededShape ==
    ASSUME NEW x, DictOK(x)
    PROVE  /\ Expanded(x, _dictExpandIfNeeded(x))
           /\ _dictExpandIfNeeded(x).ht[0].size # 0
  <1>1. /\ x.ht[0].used \in Nat /\ x.ht[0].size \in Nat
        /\ x.ht[0].size = 0 => x.ht[0].used = 0
        /\ InitialSize \in Nat \ {0}
    BY UsedType, NoBucketsNoKeys, DictAssumption DEF DictOK
  <1>2. Max({x.ht[0].size, x.ht[0].used}) \in Nat
    BY <1>1, MaxIsUpper
  <1>3. 2 * Max({x.ht[0].size, x.ht[0].used}) \in Nat
    BY <1>2
  <1>4. CASE dictIsRehashing(x)
    <2>1. x.ht[0].size # 0
      BY <1>4 DEF DictOK, Rehashing, dictIsRehashing
    <2> QED BY <1>4, <2>1 DEF _dictExpandIfNeeded, Expanded
  <1>5. CASE ~dictIsRehashing(x) /\ x.ht[0].size = 0
    <2>1. _dictExpandIfNeeded(x) = dictExpand(x, InitialSize)
      BY <1>5 DEF _dictExpandIfNeeded
    <2>2. dictExpand(x, InitialSize).ht[0] = NewTable(_dictNextPower(InitialSize))
      BY <1>1, <1>5 DEF dictExpand, DictOK, Dicts
    <2>3. NewTable(_dictNextPower(InitialSize)).size # 0
      BY <1>1, NextPowerType, NewTableOK
    <2> QED BY <1>1, <2>1, <2>2, <2>3, ExpandShape
  <1>6. CASE ~dictIsRehashing(x) /\ x.ht[0].size # 0
    <2>1. \/ _dictExpandIfNeeded(x) = x
          \/ _dictExpandIfNeeded(x) = dictExpand(x, 2 * Max({x.ht[0].size, x.ht[0].used}))
      BY <1>6 DEF _dictExpandIfNeeded
    <2>2. Expanded(x, _dictExpandIfNeeded(x))
      BY <1>3, <2>1, ExpandShape DEF Expanded
    <2> QED BY <1>6, <2>2 DEF Expanded
  <1> QED BY <1>4, <1>5, <1>6

(* dictResize expands, or leaves the dictionary as it is. *)
LEMMA ResizeShape ==
    ASSUME NEW x, DictOK(x)
    PROVE  Expanded(x, dictResize(x))
  <1>1. x.ht[0].used \in Nat /\ InitialSize \in Nat
    BY UsedType, DictAssumption DEF DictOK
  <1>2. Max({x.ht[0].used, InitialSize}) \in Nat
    BY <1>1, MaxIsUpper
  <1> QED BY <1>2, ExpandShape DEF dictResize, Expanded

(* One bucket is moved: the dictionary stays one, with the same members. *)
LEMMA MovedOK ==
    ASSUME NEW x, DictOK(x), x.rehashidx # -1, NEW i \in 0..x.ht[0].size - 1,
           \A j \in 0..x.ht[0].size - 1 : j < i => x.ht[0].table[j] = <<>>
    PROVE  /\ DictOK(Moved(x, i))
           /\ Members(Moved(x, i)) = Members(x)
           /\ Moved(x, i).iterators = x.iterators
  <1> DEFINE old == x.ht[0].table[i]
             g == [x.ht[0] EXCEPT !.table[i] = <<>>, !.used = @ - Len(old)]
             new == CHOOSE f : LinkedAll(x.ht[1], old, f)
             h == new[Len(old)]
             y == Moved(x, i)
  <1>1. /\ x \in Dicts /\ TableOK(x.ht[0]) /\ TableOK(x.ht[1])
        /\ KeysIn(x.ht[0]) \cap KeysIn(x.ht[1]) = {} /\ Rehashing(x)
    BY DEF DictOK
  <1>2. x.ht[0] \in Tables /\ x.ht[1] \in Tables /\ x.ht[1].size # 0 /\ x.ht[0].size # 0
    BY <1>1 DEF TableOK, Rehashing
  <1>3. /\ old \in Seq(Keys) /\ ToSet(old) \subseteq KeysIn(x.ht[0])
        /\ \A m, n \in 1..Len(old) : old[m] = old[n] => m = n
    <2>1. old \in Seq(Keys)
      BY <1>2, TableShape
    <2>2. \A m, n \in 1..Len(old) : old[m] = old[n] => m = n
      BY <1>1 DEF TableOK, NoTwins
    <2>3. \A n \in 1..Len(old) : old[n] \in KeysIn(x.ht[0])
      BY <1>2, EntryIsKey
    <2> HIDE DEF old
    <2>4. ToSet(old) \subseteq KeysIn(x.ht[0])
      BY <2>1, <2>3 DEF ToSet
    <2> QED BY <2>1, <2>2, <2>4
  <1>4. /\ TableOK(g) /\ g.size = x.ht[0].size /\ g.table[i] = <<>>
        /\ \A j \in 0..x.ht[0].size - 1 : j # i => g.table[j] = x.ht[0].table[j]
        /\ KeysIn(g) = KeysIn(x.ht[0]) \ ToSet(old)
    BY <1>1, EmptiedOK
  <1>5. LinkedAll(x.ht[1], old, new)
    <2> HIDE DEF old
    <2> QED BY <1>2, <1>3, LinkedAllExists
  <1>6. ToSet(old) \cap KeysIn(x.ht[1]) = {}
    BY <1>1, <1>3
  <1>7. TableOK(h) /\ h.size = x.ht[1].size /\ KeysIn(h) = KeysIn(x.ht[1]) \cup ToSet(old)
    <2> HIDE DEF old, new
    <2> QED BY <1>1, <1>2, <1>3, <1>5, <1>6, LinkedAllOK
  <1>8. y = [x EXCEPT !.ht[0].table[i] = <<>>, !.ht[0].used = @ - Len(old),
                      !.ht[1] = h, !.rehashidx = i + 1]
    BY DEF Moved, LinkedAll
  <1> HIDE DEF h, new
  <1>9. /\ y \in Dicts /\ y.ht[0] = g /\ y.ht[1] = h
        /\ y.rehashidx = i + 1 /\ y.iterators = x.iterators
    <2> DEFINE z == [x EXCEPT !.ht[0] = g]
               w == [z EXCEPT !.ht[1] = h]
    <2>1. y = [w EXCEPT !.rehashidx = i + 1]
      BY <1>1, <1>8 DEF Dicts
    <2> HIDE DEF y, g
    <2>2. /\ z \in Dicts /\ z.ht[0] = g /\ z.iterators = x.iterators
      BY <1>1, <1>4, Replaced DEF TableOK
    <2> HIDE DEF z
    <2>3. /\ w \in Dicts /\ w.ht[0] = g /\ w.ht[1] = h /\ w.iterators = x.iterators
      BY <1>7, <2>2, Replaced DEF TableOK
    <2> HIDE DEF w
    <2> QED BY <2>1, <2>3 DEF Dicts
  <1> HIDE DEF y, g
  <1>10. Rehashing(y)
    <2>1. \A j \in 0..y.ht[0].size - 1 : j < y.rehashidx => y.ht[0].table[j] = <<>>
      <3> SUFFICES ASSUME NEW j \in 0..x.ht[0].size - 1, j < i + 1
                   PROVE  g.table[j] = <<>>
        BY <1>4, <1>9
      <3>1. j = i \/ (j < i /\ j # i)
        OBVIOUS
      <3> QED BY <3>1, <1>4
    <2> QED BY <2>1, <1>2, <1>4, <1>7, <1>9 DEF Rehashing
  <1>11. DictOK(y)
    <2>1. KeysIn(y.ht[0]) \cap KeysIn(y.ht[1]) = {}
      BY <1>1, <1>4, <1>7, <1>9
    <2>2. y.rehashidx # -1
      BY <1>9
    <2> QED BY <2>1, <2>2, <1>4, <1>7, <1>9, <1>10 DEF DictOK
  <1>12. Members(y) = Members(x)
    BY <1>3, <1>4, <1>7, <1>9 DEF Members
  <1> QED BY <1>9, <1>11, <1>12 DEF y

(* dictRehash(d, 1): the tables change, the dictionary does not. *)
LEMMA Rehash1OK ==
    ASSUME NEW x, DictOK(x)
    PROVE  /\ DictOK(dictRehash1(x))
           /\ Members(dictRehash1(x)) = Members(x)
           /\ dictRehash1(x).iterators = x.iterators
  <1> DEFINE y == dictRehash1(x)
             left == { i \in x.rehashidx..x.ht[0].size - 1 : x.ht[0].table[i] # <<>> }
  <1>1. CASE ~dictIsRehashing(x)
    BY <1>1 DEF dictRehash1
  <1>2. CASE dictIsRehashing(x) /\ x.ht[0].used = 0
    <2> DEFINE z == [x EXCEPT !.ht[0] = x.ht[1]]
               w == [z EXCEPT !.ht[1] = _dictReset]
    <2>1. /\ x \in Dicts /\ TableOK(x.ht[1]) /\ KeysIn(x.ht[0]) = {}
      BY <1>2, UsedType DEF DictOK
    <2>2. y = [w EXCEPT !.rehashidx = -1]
      BY <1>2, <2>1 DEF dictRehash1, Dicts
    <2> HIDE DEF y
    <2>3. z \in Dicts /\ z.ht[0] = x.ht[1] /\ z.iterators = x.iterators
      BY <2>1, Replaced DEF TableOK
    <2> HIDE DEF z
    <2>4. w \in Dicts /\ w.ht[0] = x.ht[1] /\ w.ht[1] = _dictReset /\ w.iterators = x.iterators
      BY <2>3, ResetOK, Replaced DEF TableOK
    <2> HIDE DEF w
    <2>5. /\ y \in Dicts /\ y.ht[0] = x.ht[1] /\ y.ht[1] = _dictReset
          /\ y.rehashidx = -1 /\ y.iterators = x.iterators
      BY <2>2, <2>4 DEF Dicts
    <2>6. DictOK(y) /\ Members(y) = Members(x) /\ y.iterators = x.iterators
      BY <2>1, <2>5, ResetOK DEF DictOK, Members
    <2> QED BY <2>6 DEF y
  <1>3. CASE dictIsRehashing(x) /\ x.ht[0].used # 0
    <2>1. y = Moved(x, Min(left))
      BY <1>3 DEF dictRehash1
    <2>2. TableOK(x.ht[0]) /\ x.ht[0] \in Tables /\ Rehashing(x) /\ x.rehashidx # -1
      BY <1>3 DEF DictOK, dictIsRehashing, TableOK
    <2>3. KeysIn(x.ht[0]) # {}
      BY <1>3, <2>2, UsedType
    <2>4. PICK k \in KeysIn(x.ht[0]) : TRUE
      BY <2>3
    <2>5. PICK i \in 0..x.ht[0].size - 1 : \E n \in 1..Len(x.ht[0].table[i]) : x.ht[0].table[i][n] = k
      BY <2>4 DEF KeysIn
    <2>6. x.ht[0].table[i] # <<>>
      BY <2>5
    <2>7. i \in left
      BY <2>2, <2>6 DEF Rehashing
    <2>8. left \subseteq Nat /\ left \subseteq 0..x.ht[0].size - 1
      BY <2>2, TableShape DEF Rehashing
    <2>9. Min(left) \in left /\ \A j \in left : Min(left) <= j
      <3> HIDE DEF left
      <3> QED BY <2>7, <2>8, MinIsLeast
    <2>10. \A j \in 0..x.ht[0].size - 1 : j < Min(left) => x.ht[0].table[j] = <<>>
      <3> SUFFICES ASSUME NEW j \in 0..x.ht[0].size - 1, j < Min(left), x.ht[0].table[j] # <<>>
                   PROVE  FALSE
        OBVIOUS
      <3>1. j \in left
        BY <2>2, TableShape DEF Rehashing
      <3> HIDE DEF left
      <3>2. j \in Nat /\ Min(left) \in Nat
        BY <2>8, <2>9, <3>1
      <3> QED BY <3>1, <3>2, <2>9
    <2>11. Min(left) \in 0..x.ht[0].size - 1
      BY <2>8, <2>9
    <2> HIDE DEF left
    <2> QED BY <2>1, <2>2, <2>10, <2>11, MovedOK
  <1> QED BY <1>1, <1>2, <1>3

(* dictRehash: as many buckets as asked. *)
LEMMA RehashOK ==
    ASSUME NEW x, DictOK(x), NEW n \in Nat
    PROVE  /\ DictOK(dictRehash(x, n))
           /\ Members(dictRehash(x, n)) = Members(x)
           /\ dictRehash(x, n).iterators = x.iterators
  <1> DEFINE S == { y \in Dicts : DictOK(y) /\ Members(y) = Members(x)
                                  /\ y.iterators = x.iterators }
             step == [i \in 1..n |-> [y \in S |-> dictRehash1(y)]]
             Fits(f) == f = [i \in 0..n |-> IF i = 0 THEN x ELSE dictRehash1(f[i - 1])]
             after == CHOOSE f : Fits(f)
  <1>1. x \in S
    BY DEF DictOK
  <1>2. ASSUME NEW y \in S  PROVE dictRehash1(y) \in S
    BY Rehash1OK DEF DictOK
  <1>3. step \in [1..n -> [S -> S]]
    BY <1>2
  <1>4. PICK f \in [0..n -> S] : Recursive(x, n, step, f)
    <2> HIDE DEF S, step
    <2> QED BY <1>1, <1>3, Recursion
  <1>5. \A i \in 0..n : f[i] = IF i = 0 THEN x ELSE dictRehash1(f[i - 1])
    <2> HIDE DEF S
    <2> SUFFICES ASSUME NEW i \in 0..n, i # 0
                 PROVE  f[i] = dictRehash1(f[i - 1])
      BY <1>4 DEF Recursive
    <2>1. i \in 1..n /\ i - 1 \in 0..n
      OBVIOUS
    <2>2. f[i - 1] \in S /\ f[i] = step[i][f[i - 1]]
      <3> HIDE DEF step
      <3> QED BY <2>1, <1>4 DEF Recursive
    <2> QED BY <2>1, <2>2
  <1> HIDE DEF S
  <1>6. Fits(f)
    BY <1>5
  <1>7. dictRehash(x, n) = after[n]
    BY DEF dictRehash
  <1>8. Fits(after)
    <2> HIDE DEF Fits
    <2> QED BY <1>6
  <1> HIDE DEF after
  <1>9. \A i \in 0..n : after[i] = IF i = 0 THEN x ELSE dictRehash1(after[i - 1])
    BY <1>8
  <1> HIDE DEF Fits
  <1> DEFINE P == { i \in Nat : i <= n => after[i] \in S }
  <1>10. 0 \in P
    BY <1>1, <1>9
  <1>11. ASSUME NEW i \in P  PROVE i + 1 \in P
    <2> SUFFICES ASSUME i + 1 <= n PROVE after[i + 1] \in S
      OBVIOUS
    <2>1. i + 1 \in 0..n /\ (i + 1) - 1 = i /\ i + 1 # 0 /\ after[i] \in S
      OBVIOUS
    <2>2. after[i + 1] = dictRehash1(after[i])
      BY <1>9, <2>1
    <2> QED BY <2>1, <2>2, <1>2
  <1>12. P = Nat
    <2> HIDE DEF P
    <2> QED BY <1>10, <1>11, Induction DEF P
  <1>13. after[n] \in S
    BY <1>12
  <1> QED BY <1>7, <1>13 DEF S

(* The step of rehashing that begins an operation: none while an iterator is
   in use. *)
LEMMA RehashStepOK ==
    ASSUME NEW x, DictOK(x)
    PROVE  /\ DictOK(_dictRehashStep(x))
           /\ Members(_dictRehashStep(x)) = Members(x)
           /\ _dictRehashStep(x).iterators = x.iterators
           /\ x.iterators # 0 => _dictRehashStep(x) = x
  BY Rehash1OK DEF _dictRehashStep

(* A dictionary is created without tables. *)
LEMMA CreateOK == DictOK(dictCreate) /\ Members(dictCreate) = {} /\ dictCreate.iterators = 0
  <1>1. dictCreate \in Dicts
    BY ResetOK DEF dictCreate, Dicts, TableOK
  <1>2. dictCreate.ht[0] = _dictReset /\ dictCreate.ht[1] = _dictReset
    BY DEF dictCreate
  <1>3. dictCreate.rehashidx = -1 /\ dictCreate.iterators = 0
    BY DEF dictCreate
  <1> QED BY <1>1, <1>2, <1>3, ResetOK DEF DictOK, Members

----------------------------------------------------------------------------
(* An iteration: what it has still to return. *)

Iterators == [on : BOOLEAN, table : 0..1, index : Int, nextEntry : Keys \cup {Nobody}]

(* Key k is in the chain, at the entry e or after it. *)
NotBefore(c, e, k) == \E m, n \in 1..Len(c) : m <= n /\ c[m] = e /\ c[n] = k

AheadIn(h, t, it) ==
    { k \in KeysIn(h) :
        \/ t > it.table
        \/ t = it.table /\ Hash[k] % h.size > it.index
        \/ /\ t = it.table /\ Hash[k] % h.size = it.index
           /\ NotBefore(h.table[Hash[k] % h.size], it.nextEntry, k) }

Ahead(x, it) == AheadIn(x.ht[0], 0, it) \cup AheadIn(x.ht[1], 1, it)

(* The iterator is at a bucket of its table, and its next entry in it. *)
Within(h, it) ==
    /\ it.index \in 0..h.size - 1
    /\ it.nextEntry # Nobody =>
          it.nextEntry \in KeysIn(h) /\ Hash[it.nextEntry] % h.size = it.index

IterOK(x, it, sn, ow) ==
    /\ it \in Iterators
    /\ IF it.on
       THEN /\ Within(x.ht[it.table], it)
            /\ ow \subseteq Ahead(x, it)
            /\ sn \subseteq Members(x) \ Ahead(x, it)
       ELSE it = NoIteration /\ sn = {} /\ ow = {}

(* An entry linked in before those of its bucket is never ahead of the
   iterator, unless its whole bucket is. *)
LEMMA AheadLinked ==
    ASSUME NEW h, TableOK(h), h.size # 0, NEW k \in Keys, k \notin KeysIn(h),
           NEW t \in 0..1, NEW it \in Iterators, it.nextEntry # k
    PROVE  /\ AheadIn(h, t, it) \subseteq AheadIn(Linked(h, k), t, it)
           /\ AheadIn(Linked(h, k), t, it) \subseteq AheadIn(h, t, it) \cup {k}
  <1> DEFINE i == Hash[k] % h.size
             g == Linked(h, k)
  <1>1. h \in Tables
    BY DEF TableOK
  <1>2. /\ g.size = h.size /\ KeysIn(g) = KeysIn(h) \cup {k}
        /\ \A b \in 0..h.size - 1 : b # i => g.table[b] = h.table[b]
        /\ i \in 0..h.size - 1
        /\ Len(g.table[i]) = Len(h.table[i]) + 1
        /\ g.table[i][1] = k
        /\ \A n \in 1..Len(h.table[i]) : g.table[i][n + 1] = h.table[i][n]
        /\ \A n \in 2..Len(h.table[i]) + 1 : g.table[i][n] = h.table[i][n - 1]
        /\ Len(h.table[i]) \in Nat
    BY <1>1, LinkedOK, LinkedShape, TableShape
  <1> HIDE DEF g
  <1>2a. Len(h.table[i]) \in Nat /\ Len(g.table[i]) = Len(h.table[i]) + 1
    BY <1>2
  <1>3. ASSUME NEW j \in Keys, j # k
        PROVE  NotBefore(h.table[i], it.nextEntry, j) <=> NotBefore(g.table[i], it.nextEntry, j)
    <2>1. ASSUME NotBefore(h.table[i], it.nextEntry, j)
          PROVE  NotBefore(g.table[i], it.nextEntry, j)
      <3>1. PICK m \in 1..Len(h.table[i]), n \in 1..Len(h.table[i]) :
                m <= n /\ h.table[i][m] = it.nextEntry /\ h.table[i][n] = j
        BY <2>1 DEF NotBefore
      <3>2. m + 1 \in 1..Len(g.table[i]) /\ n + 1 \in 1..Len(g.table[i]) /\ m + 1 <= n + 1
        BY <3>1, <1>2a
      <3>3. g.table[i][m + 1] = it.nextEntry /\ g.table[i][n + 1] = j
        BY <3>1, <1>2
      <3> QED BY <3>2, <3>3 DEF NotBefore
    <2>2. ASSUME NotBefore(g.table[i], it.nextEntry, j)
          PROVE  NotBefore(h.table[i], it.nextEntry, j)
      <3>1. PICK m \in 1..Len(g.table[i]), n \in 1..Len(g.table[i]) :
                m <= n /\ g.table[i][m] = it.nextEntry /\ g.table[i][n] = j
        BY <2>2 DEF NotBefore
      <3>2. m # 1 /\ n # 1
        BY <3>1, <1>2, <1>3
      <3>3. m \in 2..Len(h.table[i]) + 1 /\ n \in 2..Len(h.table[i]) + 1
        BY <3>2, <1>2
      <3>4. m - 1 \in 1..Len(h.table[i]) /\ n - 1 \in 1..Len(h.table[i]) /\ m - 1 <= n - 1
        BY <3>1, <3>3, <1>2a
      <3>5. h.table[i][m - 1] = it.nextEntry /\ h.table[i][n - 1] = j
        BY <3>1, <3>3, <1>2
      <3> QED BY <3>4, <3>5 DEF NotBefore
    <2> QED BY <2>1, <2>2
  <1>4. ASSUME NEW j \in KeysIn(h)
        PROVE  j \in AheadIn(h, t, it) <=> j \in AheadIn(g, t, it)
    <2>1. j \in Keys /\ j # k /\ j \in KeysIn(g)
      BY <1>2 DEF KeysIn
    <2>2. Hash[j] % h.size \in 0..h.size - 1
      BY <1>1, InItsSlot DEF TableOK
    <2>3. NotBefore(h.table[Hash[j] % h.size], it.nextEntry, j)
          <=> NotBefore(g.table[Hash[j] % h.size], it.nextEntry, j)
      BY <1>2, <1>3, <2>1, <2>2
    <2> QED BY <1>2, <2>1, <2>3 DEF AheadIn
  <1>5. AheadIn(h, t, it) \subseteq KeysIn(h) /\ AheadIn(g, t, it) \subseteq KeysIn(g)
    BY DEF AheadIn
  <1> QED BY <1>2, <1>4, <1>5 DEF g

(* An entry taken out was ahead or not; the others stay where they were. *)
LEMMA AheadUnlinked ==
    ASSUME NEW h, TableOK(h), NEW k \in KeysIn(h),
           NEW t \in 0..1, NEW it \in Iterators, it.nextEntry # k
    PROVE  AheadIn(Unlinked(h, k), t, it) = AheadIn(h, t, it) \ {k}
  <1> DEFINE i == Hash[k] % h.size
             g == Unlinked(h, k)
  <1>1. h \in Tables /\ Hashed(h) /\ NoTwins(h)
    BY DEF TableOK
  <1>2. /\ g.size = h.size /\ KeysIn(g) = KeysIn(h) \ {k}
        /\ i \in 0..h.size - 1
        /\ \A b \in 0..h.size - 1 : b # i => g.table[b] = h.table[b]
        /\ Len(h.table[i]) \in Nat
    BY <1>1, UnlinkedOK, UnlinkedShape, TableShape
  <1>3. PICK p \in 1..Len(h.table[i]) :
            /\ h.table[i][p] = k
            /\ Len(g.table[i]) = Len(h.table[i]) - 1
            /\ \A n \in 1..Len(g.table[i]) :
                  g.table[i][n] = IF n < p THEN h.table[i][n] ELSE h.table[i][n + 1]
    BY <1>1, UnlinkedShape
  <1> HIDE DEF g
  <1>3a. Len(h.table[i]) \in Nat /\ Len(g.table[i]) = Len(h.table[i]) - 1
    BY <1>2, <1>3
  <1>4. ASSUME NEW j \in Keys, j # k
        PROVE  NotBefore(h.table[i], it.nextEntry, j) <=> NotBefore(g.table[i], it.nextEntry, j)
    <2>1. ASSUME NotBefore(h.table[i], it.nextEntry, j)
          PROVE  NotBefore(g.table[i], it.nextEntry, j)
      <3>1. PICK m \in 1..Len(h.table[i]), n \in 1..Len(h.table[i]) :
                m <= n /\ h.table[i][m] = it.nextEntry /\ h.table[i][n] = j
        BY <2>1 DEF NotBefore
      <3>2. m # p /\ n # p
        BY <3>1, <1>3, <1>4
      <3> DEFINE new(q) == IF q < p THEN q ELSE q - 1
      <3>3. \A q \in 1..Len(h.table[i]) :
                q # p => new(q) \in 1..Len(g.table[i]) /\ g.table[i][new(q)] = h.table[i][q]
        <4> SUFFICES ASSUME NEW q \in 1..Len(h.table[i]), q # p
                     PROVE  new(q) \in 1..Len(g.table[i]) /\ g.table[i][new(q)] = h.table[i][q]
          OBVIOUS
        <4>1. CASE q < p
          BY <4>1, <1>3, <1>3a
        <4>2. CASE ~(q < p)
          <5>1. q - 1 \in 1..Len(g.table[i]) /\ ~(q - 1 < p) /\ (q - 1) + 1 = q
            BY <4>2, <1>3, <1>3a
          <5>2. g.table[i][q - 1] = h.table[i][q]
            BY <5>1, <1>3
          <5> QED BY <4>2, <5>1, <5>2
        <4> QED BY <4>1, <4>2
      <3>4. new(m) <= new(n)
        BY <3>1, <3>2
      <3> HIDE DEF new
      <3> QED BY <3>1, <3>2, <3>3, <3>4 DEF NotBefore
    <2>2. ASSUME NotBefore(g.table[i], it.nextEntry, j)
          PROVE  NotBefore(h.table[i], it.nextEntry, j)
      <3>1. PICK m \in 1..Len(g.table[i]), n \in 1..Len(g.table[i]) :
                m <= n /\ g.table[i][m] = it.nextEntry /\ g.table[i][n] = j
        BY <2>2 DEF NotBefore
      <3> DEFINE old(q) == IF q < p THEN q ELSE q + 1
      <3>2. \A q \in 1..Len(g.table[i]) :
                old(q) \in 1..Len(h.table[i]) /\ g.table[i][q] = h.table[i][old(q)]
        BY <1>3, <1>3a
      <3>3. old(m) <= old(n)
        BY <3>1
      <3> HIDE DEF old
      <3> QED BY <3>1, <3>2, <3>3 DEF NotBefore
    <2> QED BY <2>1, <2>2
  <1>5. ASSUME NEW j \in KeysIn(h), j # k
        PROVE  j \in AheadIn(h, t, it) <=> j \in AheadIn(g, t, it)
    <2>1. j \in Keys /\ j \in KeysIn(g)
      BY <1>2, <1>5 DEF KeysIn
    <2>2. Hash[j] % h.size \in 0..h.size - 1
      BY <1>1, InItsSlot
    <2>3. NotBefore(h.table[Hash[j] % h.size], it.nextEntry, j)
          <=> NotBefore(g.table[Hash[j] % h.size], it.nextEntry, j)
      BY <1>2, <1>4, <1>5, <2>1, <2>2
    <2> QED BY <1>2, <2>1, <2>3 DEF AheadIn
  <1>6. AheadIn(h, t, it) \subseteq KeysIn(h) /\ AheadIn(g, t, it) \subseteq KeysIn(g)
    BY DEF AheadIn
  <1> QED BY <1>2, <1>5, <1>6 DEF g

(* A table without keys has none ahead; before the first bucket all are. *)
LEMMA AheadOfNone ==
    ASSUME NEW h, KeysIn(h) = {}, NEW t, NEW it
    PROVE  AheadIn(h, t, it) = {}
  BY DEF AheadIn

(* Before an iteration every member is ahead. *)
LEMMA AheadOfAll ==
    ASSUME NEW x, DictOK(x)
    PROVE  Ahead(x, NoIteration) = Members(x)
  <1>1. ASSUME NEW t \in 0..1, NEW k \in KeysIn(x.ht[t])
        PROVE  Hash[k] % x.ht[t].size > -1
    <2>1. x.ht[t] \in Tables /\ Hashed(x.ht[t])
      BY DEF DictOK, TableOK
    <2>2. Hash[k] % x.ht[t].size \in 0..x.ht[t].size - 1
      BY <2>1, InItsSlot
    <2> QED BY <2>2
  <1>2. NoIteration.table = 0 /\ NoIteration.index = -1
    BY DEF NoIteration
  <1>3. AheadIn(x.ht[0], 0, NoIteration) = KeysIn(x.ht[0])
    BY <1>1, <1>2 DEF AheadIn
  <1>4. AheadIn(x.ht[1], 1, NoIteration) = KeysIn(x.ht[1])
    BY <1>2 DEF AheadIn
  <1> QED BY <1>3, <1>4 DEF Ahead, Members

(* An iterator that is on is at a bucket of a table that is there. *)
LEMMA WhereIterating ==
    ASSUME NEW x, DictOK(x), NEW it, NEW sn, NEW ow, IterOK(x, it, sn, ow), it.on
    PROVE  /\ it \in Iterators /\ it.table \in 0..1 /\ Within(x.ht[it.table], it)
           /\ x.ht[it.table].size # 0
           /\ it.table = 1 => Rehashing(x)
  <1>1. it \in Iterators /\ it.table \in 0..1 /\ Within(x.ht[it.table], it)
    BY DEF IterOK, Iterators
  <1>2. it.index \in 0..x.ht[it.table].size - 1
    BY <1>1 DEF Within
  <1>3. x.ht[it.table].size # 0
    BY <1>2
  <1>4. it.table = 1 => x.rehashidx # -1
    BY <1>3, ResetOK DEF DictOK
  <1> QED BY <1>1, <1>3, <1>4 DEF DictOK

(* Tables may be expanded under an iterator. *)
LEMMA IterExpanded ==
    ASSUME NEW x, DictOK(x), NEW y, Expanded(x, y),
           NEW it, NEW sn, NEW ow, IterOK(x, it, sn, ow)
    PROVE  IterOK(y, it, sn, ow)
  <1>1. Members(y) = Members(x)
    BY ExpandedOK
  <1>2. CASE ~it.on
    BY <1>2 DEF IterOK
  <1>3. CASE it.on /\ y # x
    <2>1. /\ it \in Iterators /\ Within(x.ht[it.table], it) /\ x.ht[it.table].size # 0
          /\ it.table \in 0..1 /\ (it.table = 1 => Rehashing(x))
      BY <1>3, WhereIterating
    <2>2. x.rehashidx = -1
      BY <1>3 DEF Expanded
    <2>3. it.table = 0 /\ x.ht[1] = _dictReset
      BY <2>1, <2>2 DEF Rehashing, DictOK
    <2>4. y.ht[0] = x.ht[0] /\ KeysIn(y.ht[1]) = {}
      BY <1>3, <2>1, <2>3 DEF Expanded
    <2>5. Ahead(y, it) = Ahead(x, it)
      BY <2>3, <2>4, ResetOK, AheadOfNone DEF Ahead
    <2> QED BY <1>1, <1>3, <2>1, <2>3, <2>4, <2>5 DEF IterOK
  <1> QED BY <1>2, <1>3

(* Keys may be added under an iterator: it will return them or not. *)
LEMMA IterAdded ==
    ASSUME NEW x, DictOK(x), NEW k \in Keys, x.ht[0].size # 0,
           NEW it, NEW sn, NEW ow, IterOK(x, it, sn, ow)
    PROVE  IterOK(Added(x, k), it, sn, ow)
  <1>1. Members(Added(x, k)) = Members(x) \cup {k}
    BY AddedOK
  <1>2. CASE ~it.on
    BY <1>2 DEF IterOK
  <1>3. CASE it.on /\ k \in Members(x)
    <2>1. Added(x, k) = x
      BY <1>3, Found DEF Added
    <2> QED BY <2>1
  <1>4. CASE it.on /\ k \notin Members(x)
    <2> DEFINE t == IF dictIsRehashing(x) THEN 1 ELSE 0
               h == Linked(x.ht[t], k)
               y == [x EXCEPT !.ht[t] = h]
    <2>1. Added(x, k) = y
      BY <1>4, Found DEF Added
    <2>2. /\ t \in 0..1 /\ TableOK(x.ht[t]) /\ x.ht[t].size # 0 /\ x.ht[t] \in Tables
          /\ k \notin KeysIn(x.ht[t])
      BY <1>4 DEF DictOK, Rehashing, dictIsRehashing, TableOK, Members
    <2> HIDE DEF t
    <2>3. /\ it \in Iterators /\ it.table \in 0..1 /\ Within(x.ht[it.table], it)
      BY <1>4, WhereIterating
    <2>4. it.nextEntry # k
      <3>1. it.nextEntry # Nobody => it.nextEntry \in Members(x)
        BY <2>3 DEF Within, Members
      <3>2. k # Nobody
        BY DictAssumption
      <3> QED BY <1>4, <3>1, <3>2
    <2>5. /\ KeysIn(h) = KeysIn(x.ht[t]) \cup {k} /\ h.size = x.ht[t].size /\ h \in Tables
      BY <2>2, LinkedOK, LinkedShape
    <2>6. /\ AheadIn(x.ht[t], t, it) \subseteq AheadIn(h, t, it)
          /\ AheadIn(h, t, it) \subseteq AheadIn(x.ht[t], t, it) \cup {k}
      BY <2>2, <2>3, <2>4, AheadLinked
    <2> HIDE DEF h
    <2>7. y.ht[t] = h /\ \A u \in 0..1 : u # t => y.ht[u] = x.ht[u]
      <3>1. x \in Dicts
        BY DEF DictOK
      <3> QED BY <2>2, <2>5, <3>1, Replaced, ZenonT(40)
    <2> HIDE DEF y
    <2>8. Ahead(x, it) \subseteq Ahead(y, it) /\ Ahead(y, it) \subseteq Ahead(x, it) \cup {k}
      <3>1. CASE t = 0
        BY <3>1, <2>6, <2>7 DEF Ahead
      <3>2. CASE t = 1
        BY <3>2, <2>6, <2>7 DEF Ahead
      <3> QED BY <3>1, <3>2, <2>2
    <2>9. Within(y.ht[it.table], it)
      BY <2>2, <2>3, <2>5, <2>7 DEF Within
    <2>10. sn \subseteq Members(x) \ Ahead(x, it) /\ ow \subseteq Ahead(x, it)
      BY <1>4 DEF IterOK
    <2> QED BY <1>1, <1>4, <2>1, <2>3, <2>8, <2>9, <2>10 DEF IterOK
  <1> QED BY <1>2, <1>3, <1>4

(* Keys may be removed under an iterator, but for its next entry. *)
LEMMA IterRemoved ==
    ASSUME NEW x, DictOK(x), NEW k \in Keys,
           NEW it, NEW sn, NEW ow, IterOK(x, it, sn, ow), k # it.nextEntry
    PROVE  IterOK(Removed(x, k), it, sn \ {k}, ow \ {k})
  <1>1. Members(Removed(x, k)) = Members(x) \ {k}
    BY RemovedOK
  <1>2. CASE ~it.on
    BY <1>2 DEF IterOK
  <1>3. CASE it.on /\ k \notin Members(x)
    <2>1. Removed(x, k) = x
      BY <1>3, Found DEF Removed
    <2> QED BY <2>1, <1>3 DEF IterOK
  <1>4. CASE it.on /\ k \in Members(x)
    <2>1. PICK t \in TablesWith(x, k) : TablesWith(x, k) = {t}
      BY <1>4, Found
    <2>2. t \in 0..1 /\ k \in KeysIn(x.ht[t])
      BY TablesOf
    <2>3. Min({t}) = t
      BY <2>2, MinIsLeast
    <2> DEFINE h == Unlinked(x.ht[t], k)
               y == [x EXCEPT !.ht[t] = h]
    <2>4. Removed(x, k) = y
      BY <2>1, <2>3 DEF Removed
    <2>5. TableOK(x.ht[t]) /\ x.ht[t] \in Tables /\ Hashed(x.ht[t])
      BY <2>2 DEF DictOK, TableOK
    <2>6. /\ it \in Iterators /\ it.table \in 0..1 /\ Within(x.ht[it.table], it)
      BY <1>4, WhereIterating
    <2>7. KeysIn(h) = KeysIn(x.ht[t]) \ {k} /\ h.size = x.ht[t].size /\ h \in Tables
      BY <2>2, <2>5, UnlinkedOK, UnlinkedShape
    <2>8. AheadIn(h, t, it) = AheadIn(x.ht[t], t, it) \ {k}
      BY <2>2, <2>5, <2>6, AheadUnlinked
    <2> HIDE DEF h
    <2>9. y.ht[t] = h /\ \A u \in 0..1 : u # t => y.ht[u] = x.ht[u]
      <3>1. x \in Dicts
        BY DEF DictOK
      <3> QED BY <2>2, <2>7, <3>1, Replaced, ZenonT(40)
    <2> HIDE DEF y
    <2>10. \A u \in 0..1 : u # t => k \notin AheadIn(x.ht[u], u, it)
      BY <2>2 DEF AheadIn, DictOK
    <2>11. Ahead(y, it) = Ahead(x, it) \ {k}
      <3>1. CASE t = 0
        BY <3>1, <2>8, <2>9, <2>10 DEF Ahead
      <3>2. CASE t = 1
        BY <3>2, <2>8, <2>9, <2>10 DEF Ahead
      <3> QED BY <3>1, <3>2, <2>2
    <2>12. Within(y.ht[it.table], it)
      BY <2>2, <2>6, <2>7, <2>9 DEF Within
    <2>13. sn \subseteq Members(x) \ Ahead(x, it) /\ ow \subseteq Ahead(x, it)
      BY <1>4 DEF IterOK
    <2> QED BY <1>1, <1>4, <2>4, <2>6, <2>11, <2>12, <2>13 DEF IterOK
  <1> QED BY <1>2, <1>3, <1>4

(* A rehash does not happen under an iterator. *)
LEMMA IterRehashed ==
    ASSUME NEW x, NEW y, NEW it, NEW sn, NEW ow, IterOK(x, it, sn, ow), it.on => y = x
    PROVE  IterOK(y, it, sn, ow)
  BY DEF IterOK

----------------------------------------------------------------------------
(* The next entry *)

(* The entry after the p-th of a chain. *)
After(c, p) == IF p < Len(c) THEN c[p + 1] ELSE Nobody

(* Past an entry are those that were not before it, but for itself. *)
LEMMA PastOne ==
    ASSUME NEW c \in Seq(Keys), \A m, n \in 1..Len(c) : c[m] = c[n] => m = n,
           NEW p \in 1..Len(c), NEW k \in Keys
    PROVE  NotBefore(c, After(c, p), k) <=> NotBefore(c, c[p], k) /\ k # c[p]
  <1>1. Len(c) \in Nat /\ \A n \in 1..Len(c) : c[n] \in Keys /\ c[n] # Nobody
    BY DictAssumption
  <1>2. ASSUME NotBefore(c, After(c, p), k)  PROVE NotBefore(c, c[p], k) /\ k # c[p]
    <2>1. PICK m \in 1..Len(c), n \in 1..Len(c) : m <= n /\ c[m] = After(c, p) /\ c[n] = k
      BY <1>2 DEF NotBefore
    <2>2. p < Len(c) /\ c[m] = c[p + 1]
      BY <1>1, <2>1 DEF After
    <2>3. p + 1 \in 1..Len(c)
      BY <1>1, <2>2
    <2>4. m = p + 1
      BY <2>2, <2>3
    <2>5. p <= n /\ n # p
      BY <2>1, <2>4
    <2> QED BY <2>1, <2>5 DEF NotBefore
  <1>3. ASSUME NotBefore(c, c[p], k), k # c[p]  PROVE NotBefore(c, After(c, p), k)
    <2>1. PICK m \in 1..Len(c), n \in 1..Len(c) : m <= n /\ c[m] = c[p] /\ c[n] = k
      BY <1>3 DEF NotBefore
    <2>2. m = p /\ n # p
      BY <1>3, <2>1
    <2>3. p < Len(c) /\ p + 1 \in 1..Len(c) /\ p + 1 <= n
      BY <1>1, <2>1, <2>2
    <2>4. After(c, p) = c[p + 1]
      BY <2>3 DEF After
    <2> QED BY <2>1, <2>3, <2>4 DEF NotBefore
  <1> QED BY <1>2, <1>3

(* IsNext is the entry after the key's in the one chain that has it. *)
LEMMA NextIsAfter ==
    ASSUME DictOK(d), NEW k \in Keys, NEW n, IsNext(n, k),
           NEW t \in 0..1, k \in KeysIn(d.ht[t])
    PROVE  \E p \in 1..Len(Chain(d, t, k)) :
               Chain(d, t, k)[p] = k /\ n = After(Chain(d, t, k), p)
  <1> DEFINE c == Chain(d, t, k)
  <1>1. TablesWith(d, k) = {t}
    BY Found, TablesOf
  <1>2. c \in Seq(Keys)
    <2>1. d.ht[t] \in Tables /\ Hashed(d.ht[t])
      BY DEF DictOK, TableOK
    <2> QED BY <2>1, InItsSlot, TableShape DEF Chain, Slot
  <1>3. PICK i \in DOMAIN (c \o <<Nobody>>) \ {1} :
            (c \o <<Nobody>>)[i - 1] = k /\ (c \o <<Nobody>>)[i] = n
    BY <1>1 DEF IsNext
  <1> HIDE DEF c
  <1>4. /\ Len(c) \in Nat /\ DOMAIN (c \o <<Nobody>>) = 1..Len(c) + 1
        /\ \A j \in 1..Len(c) : (c \o <<Nobody>>)[j] = c[j]
        /\ (c \o <<Nobody>>)[Len(c) + 1] = Nobody
    <2>1. c \in Seq(Keys \cup {Nobody}) /\ <<Nobody>> \in Seq(Keys \cup {Nobody})
      BY <1>2
    <2>2. Len(<<Nobody>>) = 1 /\ <<Nobody>>[1] = Nobody
      OBVIOUS
    <2>3. Len(c) \in Nat
      BY <1>2
    <2>4. /\ c \o <<Nobody>> \in Seq(Keys \cup {Nobody})
          /\ Len(c \o <<Nobody>>) = Len(c) + Len(<<Nobody>>)
          /\ \A j \in 1..Len(c) + Len(<<Nobody>>) :
                (c \o <<Nobody>>)[j] = IF j <= Len(c) THEN c[j] ELSE <<Nobody>>[j - Len(c)]
      BY <2>1, ConcatProperties
    <2> QED BY <2>2, <2>3, <2>4
  <1>5. i - 1 \in 1..Len(c) /\ c[i - 1] = k
    BY <1>3, <1>4
  <1>6. n = After(c, i - 1)
    BY <1>3, <1>4, <1>5 DEF After
  <1> QED BY <1>5, <1>6 DEF c

(* The iterator after the entry of k, the p-th of the i-th bucket of table t. *)
Past(t, i, p) ==
    [on |-> TRUE, table |-> t, index |-> i, nextEntry |-> After(d.ht[t].table[i], p)]

(* The iterator that has returned the p-th entry of a bucket is one. *)
LEMMA PastOK ==
    ASSUME DictOK(d), NEW t \in 0..1, NEW i \in 0..d.ht[t].size - 1,
           NEW p \in 1..Len(d.ht[t].table[i])
    PROVE  Past(t, i, p) \in Iterators /\ Within(d.ht[t], Past(t, i, p))
  <1> DEFINE h == d.ht[t]
             c == h.table[i]
             it == Past(t, i, p)
  <1>1. h \in Tables /\ Hashed(h) /\ h.size \in Nat /\ c \in Seq(Keys)
    BY TableShape DEF DictOK, TableOK
  <1>2. /\ it.on = TRUE /\ it.table = t /\ it.index = i /\ it.nextEntry = After(c, p)
        /\ it = [on |-> TRUE, table |-> t, index |-> i, nextEntry |-> After(c, p)]
    BY DEF Past
  <1>3. After(c, p) # Nobody =>
            /\ After(c, p) \in KeysIn(h)
            /\ Hash[After(c, p)] % h.size = i
    <2> SUFFICES ASSUME p < Len(c)
                 PROVE  c[p + 1] \in KeysIn(h) /\ Hash[c[p + 1]] % h.size = i
      BY DEF After
    <2>1. p + 1 \in 1..Len(c)
      BY <1>1
    <2> QED BY <1>1, <2>1, EntryIsKey DEF Hashed
  <1>4. After(c, p) \in Keys \cup {Nobody}
    BY <1>3 DEF KeysIn
  <1> QED BY <1>1, <1>2, <1>3, <1>4 DEF Iterators, Within

(* The keys of table u in the later buckets, or after that entry in its own. *)
Beyond(t, i, p, u) ==
    { k \in KeysIn(d.ht[u]) :
        \/ u > t
        \/ u = t /\ Hash[k] % d.ht[u].size > i
        \/ /\ u = t /\ Hash[k] % d.ht[u].size = i
           /\ NotBefore(d.ht[t].table[i], d.ht[t].table[i][p], k)
           /\ k # d.ht[t].table[i][p] }

(* What is ahead of it: the buckets that follow, and the rest of its own. *)
LEMMA AheadOfPast ==
    ASSUME DictOK(d), NEW t \in 0..1, NEW i \in 0..d.ht[t].size - 1,
           NEW p \in 1..Len(d.ht[t].table[i])
    PROVE  \A u \in 0..1 : AheadIn(d.ht[u], u, Past(t, i, p)) = Beyond(t, i, p, u)
  <1> SUFFICES ASSUME NEW u \in 0..1, NEW k \in KeysIn(d.ht[u])
               PROVE  k \in AheadIn(d.ht[u], u, Past(t, i, p)) <=> k \in Beyond(t, i, p, u)
    BY DEF AheadIn, Beyond
  <1> DEFINE it == Past(t, i, p)
             c == d.ht[t].table[i]
  <1>1. it.table = t /\ it.index = i /\ it.nextEntry = After(c, p)
    BY DEF Past
  <1>2. d.ht[t] \in Tables /\ NoTwins(d.ht[t])
    BY DEF DictOK, TableOK
  <1>3. c \in Seq(Keys) /\ \A m, n \in 1..Len(c) : c[m] = c[n] => m = n
    BY <1>2, TableShape DEF NoTwins
  <1>4. k \in Keys
    BY DEF KeysIn
  <1>5. NotBefore(c, it.nextEntry, k) <=> NotBefore(c, c[p], k) /\ k # c[p]
    BY <1>1, <1>3, <1>4, PastOne, SMTT(40)
  <1> HIDE DEF it, c
  <1>6. k \in AheadIn(d.ht[u], u, it) <=>
           \/ u > t
           \/ u = t /\ Hash[k] % d.ht[u].size > i
           \/ u = t /\ Hash[k] % d.ht[u].size = i /\ NotBefore(c, it.nextEntry, k)
    BY <1>1 DEF AheadIn, c
  <1>7. k \in Beyond(t, i, p, u) <=>
           \/ u > t
           \/ u = t /\ Hash[k] % d.ht[u].size > i
           \/ u = t /\ Hash[k] % d.ht[u].size = i /\ NotBefore(c, c[p], k) /\ k # c[p]
    BY DEF Beyond, c
  <1> QED BY <1>5, <1>6, <1>7 DEF it

(* Later are the buckets beyond the iterator's that are not empty. *)
LEMMA LaterIs ==
    ASSUME DictOK(d), NEW t \in 0..1, NEW i
    PROVE  <<t, i>> \in Later <=>
              /\ i \in 0..d.ht[t].size - 1
              /\ d.ht[t].table[i] # <<>>
              /\ t > iter.table \/ (t = iter.table /\ i > iter.index)
  <1>1. \A u \in 0..1 : d.ht[u].size \in Nat /\ DOMAIN d.ht[u].table = 0..d.ht[u].size - 1
    BY TableShape DEF DictOK, TableOK
  <1>2. 0..d.ht[t].size - 1 \subseteq 0..Max({d.ht[0].size, d.ht[1].size})
    <2>1. /\ Max({d.ht[0].size, d.ht[1].size}) \in Nat
          /\ Max({d.ht[0].size, d.ht[1].size}) >= d.ht[t].size
      <3>1. d.ht[0].size \in Nat /\ d.ht[1].size \in Nat
        BY <1>1
      <3>2. /\ Max({d.ht[0].size, d.ht[1].size}) \in Nat
            /\ Max({d.ht[0].size, d.ht[1].size}) >= d.ht[0].size
            /\ Max({d.ht[0].size, d.ht[1].size}) >= d.ht[1].size
        BY <3>1, MaxIsUpper
      <3> QED BY <3>2
    <2> QED BY <1>1, <2>1
  <1> DEFINE places == { <<u, j>> : u \in 0..1, j \in 0..Max({d.ht[0].size, d.ht[1].size}) }
  <1>3. <<t, i>> \in places <=> i \in 0..Max({d.ht[0].size, d.ht[1].size})
    OBVIOUS
  <1>4. <<t, i>> \in Later <=>
           /\ <<t, i>> \in places
           /\ i \in DOMAIN d.ht[t].table
           /\ d.ht[t].table[i] # <<>>
           /\ t > iter.table \/ (t = iter.table /\ i > iter.index)
    <2> HIDE DEF places
    <2>1. Later = { p \in places :
                      /\ p[2] \in DOMAIN d.ht[p[1]].table
                      /\ d.ht[p[1]].table[p[2]] # <<>>
                      /\ p[1] > iter.table \/ (p[1] = iter.table /\ p[2] > iter.index) }
      BY DEF Later, places
    <2> QED BY <2>1
  <1>5. i \in DOMAIN d.ht[t].table <=> i \in 0..d.ht[t].size - 1
    BY <1>1
  <1>6. i \in 0..d.ht[t].size - 1 => <<t, i>> \in places
    BY <1>2, <1>3
  <1> HIDE DEF places
  <1> QED BY <1>4, <1>5, <1>6

----------------------------------------------------------------------------
(* The invariant: the tables are a dictionary, and the iterator has ahead of *)
(* it what it owes and nothing that it has returned.                         *)

Inv ==
    /\ DictOK(d)
    /\ d.iterators = IF iter.on THEN 1 ELSE 0
    /\ IterOK(d, iter, seen, owed)

(* It holds of a new dictionary. *)
LEMMA InvInit == Init => Inv
  <1> SUFFICES ASSUME Init PROVE Inv
    OBVIOUS
  <1>1. NoIteration \in Iterators /\ ~NoIteration.on
    BY DEF NoIteration, Iterators
  <1> QED BY <1>1, CreateOK DEF Init, Inv, IterOK

(* The invariant of the state reached when an operation leaves the tables x. *)
LEMMA Kept ==
    ASSUME NEW x, DictOK(x), x.iterators = d.iterators, IterOK(x, iter, seen, owed),
           d.iterators = IF iter.on THEN 1 ELSE 0,
           d' = x, UNCHANGED <<iter, seen, owed>>
    PROVE  Inv' /\ Present(d') = Members(x)
  BY MembersFound DEF Inv

(* The step of rehashing that operations begin with. *)
LEMMA FirstStep ==
    ASSUME Inv, NEW x, DictOK(x), Members(x) = Members(d), x.iterators = d.iterators,
           IterOK(x, iter, seen, owed)
    PROVE  LET y == _dictRehashStep(x) IN
           /\ DictOK(y) /\ Members(y) = Members(d) /\ y.iterators = d.iterators
           /\ IterOK(y, iter, seen, owed)
  <1> DEFINE y == _dictRehashStep(x)
  <1>1. DictOK(y) /\ Members(y) = Members(d) /\ y.iterators = d.iterators
    BY RehashStepOK
  <1>2. iter.on => y = x
    BY RehashStepOK DEF Inv
  <1> QED BY <1>1, <1>2, IterRehashed

(* That step and, before an entry is added, the tables expanded. *)
LEMMA FirstSteps ==
    ASSUME Inv
    PROVE  LET x == _dictExpandIfNeeded(_dictRehashStep(d)) IN
           /\ DictOK(x) /\ Members(x) = Members(d) /\ x.iterators = d.iterators
           /\ IterOK(x, iter, seen, owed) /\ x.ht[0].size # 0
  <1> DEFINE y == _dictRehashStep(d)
             x == _dictExpandIfNeeded(y)
  <1>1. /\ DictOK(y) /\ Members(y) = Members(d) /\ y.iterators = d.iterators
        /\ IterOK(y, iter, seen, owed)
    BY FirstStep DEF Inv
  <1>2. Expanded(y, x) /\ x.ht[0].size # 0
    BY <1>1, ExpandIfNeededShape
  <1> HIDE DEF x, y
  <1>3. /\ DictOK(x) /\ Members(x) = Members(d) /\ x.iterators = d.iterators
        /\ IterOK(x, iter, seen, owed)
    BY <1>1, <1>2, ExpandedOK, IterExpanded
  <1> QED BY <1>2, <1>3 DEF x, y

(* dictAdd answers as a set does. *)
LEMMA AddStep ==
    ASSUME Inv, NEW k \in Keys, dictAdd(k)
    PROVE  Inv' /\ Set!Add(k)
  <1> DEFINE x == _dictExpandIfNeeded(_dictRehashStep(d))
  <1>1. /\ DictOK(x) /\ Members(x) = Members(d) /\ x.iterators = d.iterators
        /\ IterOK(x, iter, seen, owed) /\ x.ht[0].size # 0
    BY FirstSteps
  <1>2. /\ d' = Added(x, k) /\ answer' = Is(TablesWith(x, k) = {})
        /\ UNCHANGED <<iter, seen, owed>>
    BY DEF dictAdd, Returns, KeepIteration
  <1> HIDE DEF x
  <1>3. /\ DictOK(Added(x, k)) /\ Members(Added(x, k)) = Members(d) \cup {k}
        /\ Added(x, k).iterators = d.iterators /\ IterOK(Added(x, k), iter, seen, owed)
    BY <1>1, AddedOK, IterAdded
  <1>4. Inv' /\ Present(d') = Members(d) \cup {k}
    BY <1>2, <1>3, Kept DEF Inv
  <1>5. Present(d) = Members(d)
    BY MembersFound DEF Inv
  <1>6. answer' = Is(k \notin Members(d))
    <2>1. TablesWith(x, k) = {} <=> k \notin Members(d)
      BY <1>1, Found
    <2> QED BY <1>2, <2>1 DEF Is
  <1> QED BY <1>2, <1>4, <1>5, <1>6 DEF Set!Add, Set!Is, Set!iteration, Is

(* dictReplace answers as dictAdd: it rehashes once more, which shows
   nowhere. *)
LEMMA ReplaceStep ==
    ASSUME Inv, NEW k \in Keys, dictReplace(k)
    PROVE  Inv' /\ Set!Add(k)
  <1> DEFINE x == _dictExpandIfNeeded(_dictRehashStep(d))
             y == IF TablesWith(x, k) = {} THEN Added(x, k) ELSE _dictRehashStep(x)
  <1>1. /\ DictOK(x) /\ Members(x) = Members(d) /\ x.iterators = d.iterators
        /\ IterOK(x, iter, seen, owed) /\ x.ht[0].size # 0
    BY FirstSteps
  <1>2. /\ d' = y /\ answer' = Is(TablesWith(x, k) = {})
        /\ UNCHANGED <<iter, seen, owed>>
    BY DEF dictReplace, Returns, KeepIteration
  <1> HIDE DEF x
  <1>3. TablesWith(x, k) = {} <=> k \notin Members(d)
    BY <1>1, Found
  <1>4. /\ DictOK(y) /\ Members(y) = Members(d) \cup {k}
        /\ y.iterators = d.iterators /\ IterOK(y, iter, seen, owed)
    <2>1. CASE TablesWith(x, k) = {}
      BY <2>1, <1>1, AddedOK, IterAdded
    <2>2. CASE TablesWith(x, k) # {}
      <3>1. k \in Members(d) /\ y = _dictRehashStep(x)
        BY <2>2, <1>3
      <3> QED BY <3>1, <1>1, FirstStep
    <2> QED BY <2>1, <2>2
  <1> HIDE DEF y
  <1>5. Inv' /\ Present(d') = Members(d) \cup {k}
    BY <1>2, <1>4, Kept DEF Inv
  <1>6. Present(d) = Members(d)
    BY MembersFound DEF Inv
  <1>7. answer' = Is(k \notin Members(d))
    BY <1>2, <1>3 DEF Is
  <1> QED BY <1>2, <1>5, <1>6, <1>7 DEF Set!Add, Set!Is, Set!iteration, Is

(* dictFind answers as a set does, although it rehashes. *)
LEMMA FindStep ==
    ASSUME Inv, NEW k \in Keys, dictFind(k)
    PROVE  Inv' /\ Set!Find(k)
  <1> DEFINE x == _dictRehashStep(d)
  <1>1. /\ DictOK(x) /\ Members(x) = Members(d) /\ x.iterators = d.iterators
        /\ IterOK(x, iter, seen, owed)
    BY FirstStep DEF Inv
  <1>2. /\ d' = x /\ answer' = Is(TablesWith(x, k) # {})
        /\ UNCHANGED <<iter, seen, owed>>
    BY DEF dictFind, Returns, KeepIteration
  <1> HIDE DEF x
  <1>3. Inv' /\ Present(d') = Members(d)
    BY <1>1, <1>2, Kept DEF Inv
  <1>4. Present(d) = Members(d)
    BY MembersFound DEF Inv
  <1>5. answer' = Is(k \in Members(d))
    <2>1. TablesWith(x, k) # {} <=> k \in Members(d)
      BY <1>1, Found
    <2> QED BY <1>2, <2>1 DEF Is
  <1> QED BY <1>2, <1>3, <1>4, <1>5 DEF Set!Find, Set!Is, Set!iteration, Is

(* dictDelete answers as a set does, also when the table shrinks at once. *)
LEMMA DeleteStep ==
    ASSUME Inv, NEW k \in Keys, NEW shrink \in BOOLEAN, dictDelete(k, shrink)
    PROVE  Inv' /\ Set!Delete(k)
  <1> DEFINE x == _dictRehashStep(d)
             y == Removed(x, k)
             found == TablesWith(x, k) # {}
             z == IF shrink /\ found /\ htNeedsResize(y) THEN dictResize(y) ELSE y
  <1>1. /\ DictOK(x) /\ Members(x) = Members(d) /\ x.iterators = d.iterators
        /\ IterOK(x, iter, seen, owed)
    BY FirstStep DEF Inv
  <1>2. /\ d' = z /\ answer' = Is(found) /\ k # iter.nextEntry
        /\ iter' = iter /\ seen' = seen \ {k} /\ owed' = owed \ {k}
    BY DEF dictDelete, Returns
  <1> HIDE DEF x
  <1>3. /\ DictOK(y) /\ Members(y) = Members(d) \ {k} /\ y.iterators = d.iterators
        /\ IterOK(y, iter, seen \ {k}, owed \ {k})
    BY <1>1, <1>2, RemovedOK, IterRemoved
  <1>4. found <=> k \in Members(d)
    BY <1>1, Found
  <1> HIDE DEF y, found
  <1>5. Expanded(y, z)
    BY <1>3, ResizeShape DEF Expanded
  <1> HIDE DEF z
  <1>6. /\ DictOK(z) /\ Members(z) = Members(d) \ {k} /\ z.iterators = d.iterators
        /\ IterOK(z, iter, seen \ {k}, owed \ {k})
    BY <1>3, <1>5, ExpandedOK, IterExpanded
  <1>7. Inv' /\ Present(d') = Members(d) \ {k}
    BY <1>2, <1>6, MembersFound DEF Inv
  <1>8. Present(d) = Members(d)
    BY MembersFound DEF Inv
  <1>9. answer' = Is(k \in Members(d))
    BY <1>2, <1>4 DEF Is
  <1> QED BY <1>2, <1>7, <1>8, <1>9 DEF Set!Delete, Set!Is, Is

(* dictGetRandomKey draws a member, in whichever table it is. *)
LEMMA DrawStep ==
    ASSUME Inv, dictGetRandomKey
    PROVE  Inv' /\ Set!Draw
  <1> DEFINE x == _dictRehashStep(d)
             chains(t) == { x.ht[t].table[i] : i \in DOMAIN x.ht[t].table }
             entries == UNION { ToSet(c) : c \in chains(0) \cup chains(1) }
  <1>1. /\ DictOK(x) /\ Members(x) = Members(d) /\ x.iterators = d.iterators
        /\ IterOK(x, iter, seen, owed)
    BY FirstStep DEF Inv
  <1>2. /\ \/ d.ht[0].used + d.ht[1].used = 0 /\ d' = d /\ answer' = Nobody
           \/ d.ht[0].used + d.ht[1].used # 0 /\ \E k \in entries : d' = x /\ answer' = k
        /\ UNCHANGED <<iter, seen, owed>>
    BY DEF dictGetRandomKey, Returns, KeepIteration
  <1> HIDE DEF x
  <1>3. entries = Members(d)
    <2>1. ASSUME NEW t \in 0..1
          PROVE  /\ DOMAIN x.ht[t].table = 0..x.ht[t].size - 1
                 /\ \A i \in 0..x.ht[t].size - 1 :
                       /\ DOMAIN x.ht[t].table[i] = 1..Len(x.ht[t].table[i])
                       /\ \A n \in 1..Len(x.ht[t].table[i]) :
                             x.ht[t].table[i][n] \in KeysIn(x.ht[t])
      <3>1. x.ht[t] \in Tables
        BY <1>1 DEF DictOK, TableOK
      <3>2. \A i \in 0..x.ht[t].size - 1 : \A n \in 1..Len(x.ht[t].table[i]) :
                x.ht[t].table[i][n] \in KeysIn(x.ht[t])
        BY <3>1, EntryIsKey
      <3>3. /\ DOMAIN x.ht[t].table = 0..x.ht[t].size - 1
            /\ \A i \in 0..x.ht[t].size - 1 : x.ht[t].table[i] \in Seq(Keys)
        BY <3>1, TableShape
      <3> QED BY <3>2, <3>3
    <2>2. ASSUME NEW k \in entries  PROVE k \in Members(x)
      <3>1. PICK c \in chains(0) \cup chains(1) : k \in ToSet(c)
        OBVIOUS
      <3>2. PICK t \in 0..1 : c \in chains(t)
        OBVIOUS
      <3>3. PICK i \in DOMAIN x.ht[t].table : c = x.ht[t].table[i]
        BY <3>2
      <3>4. PICK n \in DOMAIN x.ht[t].table[i] : k = x.ht[t].table[i][n]
        BY <3>1, <3>3 DEF ToSet
      <3>5. i \in 0..x.ht[t].size - 1 /\ n \in 1..Len(x.ht[t].table[i])
        BY <2>1, <3>4
      <3>6. k \in KeysIn(x.ht[t])
        BY <2>1, <3>4, <3>5
      <3> QED BY <3>6 DEF Members
    <2>3. ASSUME NEW k \in Members(x)  PROVE k \in entries
      <3>1. PICK t \in 0..1 : k \in KeysIn(x.ht[t])
        BY DEF Members
      <3>2. PICK i \in 0..x.ht[t].size - 1 : \E n \in 1..Len(x.ht[t].table[i]) : x.ht[t].table[i][n] = k
        BY <3>1 DEF KeysIn
      <3>3. k \in ToSet(x.ht[t].table[i])
        BY <2>1, <3>2 DEF ToSet
      <3>4. x.ht[t].table[i] \in chains(t)
        BY <2>1
      <3>5. x.ht[t].table[i] \in chains(0) \cup chains(1)
        BY <3>4
      <3> HIDE DEF chains
      <3> QED BY <3>3, <3>5
    <2> HIDE DEF entries
    <2> QED BY <1>1, <2>2, <2>3
  <1> HIDE DEF entries, chains
  <1>4. d.ht[0].used + d.ht[1].used = 0 <=> Members(d) = {}
    BY UsedType DEF Inv, DictOK, Members
  <1>5. Inv' /\ Present(d') = Members(d)
    BY <1>1, <1>2, Kept DEF Inv
  <1>6. Present(d) = Members(d)
    BY MembersFound DEF Inv
  <1>7. \E k \in Members(d) \cup {Nobody} : (k = Nobody <=> Members(d) = {}) /\ answer' = k
    <2>1. Nobody \notin Members(d)
      BY DictAssumption DEF Members, KeysIn
    <2> QED BY <1>2, <1>3, <1>4, <2>1
  <1> QED BY <1>2, <1>5, <1>6, <1>7 DEF Set!Draw, Set!iteration

(* dictEmpty leaves no member. *)
LEMMA EmptyStep ==
    ASSUME Inv, dictEmpty
    PROVE  Inv' /\ Set!Clear
  <1>1. d' = dictCreate /\ answer' = Nobody /\ UNCHANGED <<iter, seen, owed>> /\ d.iterators = 0
    BY DEF dictEmpty, Returns, KeepIteration
  <1>2. ~iter.on
    BY <1>1 DEF Inv
  <1>3. IterOK(dictCreate, iter, seen, owed)
    BY <1>2, IterRehashed DEF Inv
  <1>4. Inv' /\ Present(d') = {}
    BY <1>1, <1>3, CreateOK, Kept DEF Inv
  <1> QED BY <1>1, <1>4 DEF Set!Clear, Set!iteration

(* An iteration that stops early owes nothing more. *)
LEMMA GiveUpStep ==
    ASSUME Inv, GiveUp
    PROVE  Inv' /\ Set!GiveUp
  <1>1. /\ iter.on /\ iter' = NoIteration /\ d' = [d EXCEPT !.iterators = @ - 1]
        /\ seen' = {} /\ owed' = {} /\ answer' = Nobody
    BY DEF GiveUp, dictReleaseIterator
  <1>2. d \in Dicts /\ d.iterators = 1
    BY <1>1 DEF Inv, DictOK
  <1>3. d' \in Dicts /\ d'.ht = d.ht /\ d'.rehashidx = d.rehashidx /\ d'.iterators = 0
    BY <1>1, <1>2 DEF Dicts
  <1>4. DictOK(d')
    BY <1>3 DEF Inv, DictOK, Rehashing
  <1>5. Members(d') = Members(d)
    BY <1>3 DEF Members
  <1>6. NoIteration \in Iterators /\ NoIteration.on = FALSE
    BY DEF NoIteration, Iterators
  <1>7. Inv'
    BY <1>1, <1>3, <1>4, <1>6 DEF Inv, IterOK
  <1>8. Present(d') = Present(d)
    BY <1>4, <1>5, MembersFound DEF Inv
  <1> QED BY <1>1, <1>6, <1>7, <1>8 DEF Set!GiveUp

(* What is still owed, whether the iteration is on or about to begin, is
   ahead; what was returned is not. *)
LEMMA OwedAhead ==
    ASSUME Inv
    PROVE  /\ (IF iter.on THEN owed ELSE Members(d)) \subseteq Ahead(d, iter)
           /\ seen \subseteq Members(d) \ Ahead(d, iter)
           /\ iter \in Iterators /\ iter.on \in BOOLEAN
           /\ iter.nextEntry # Nobody => iter.on
  <1>1. CASE iter.on
    BY <1>1 DEF Inv, IterOK, Iterators
  <1>2. CASE ~iter.on
    <2>1. iter = NoIteration /\ seen = {} /\ iter \in Iterators
      BY <1>2 DEF Inv, IterOK
    <2>2. Ahead(d, iter) = Members(d)
      BY <2>1, AheadOfAll DEF Inv
    <2> QED BY <1>2, <2>1, <2>2 DEF Iterators, NoIteration
  <1> QED BY <1>1, <1>2

(* The iterator returns the p-th entry of a bucket, when that is the first
   of those ahead. *)
LEMMA ReturnStep ==
    ASSUME Inv, NEW t \in 0..1, NEW i \in 0..d.ht[t].size - 1,
           NEW p \in 1..Len(d.ht[t].table[i]),
           Return(t, i, d.ht[t].table[i][p]),
           d.ht[t].table[i][p] \in Ahead(d, iter),
           Ahead(d, Past(t, i, p)) = Ahead(d, iter) \ {d.ht[t].table[i][p]}
    PROVE  Inv' /\ d.ht[t].table[i][p] \in Keys /\ Set!Give(d.ht[t].table[i][p])
  <1> DEFINE c == d.ht[t].table[i]
             k == c[p]
             it == Past(t, i, p)
  <1>1. DictOK(d) /\ d.ht[t] \in Tables /\ Hashed(d.ht[t]) /\ NoTwins(d.ht[t])
    BY DEF Inv, DictOK, TableOK
  <1>2. k \in KeysIn(d.ht[t]) /\ k \in Keys /\ Hash[k] % d.ht[t].size = i
    BY <1>1, EntryIsKey, TableShape DEF Hashed
  <1>3. Chain(d, t, k) = c
    BY <1>2 DEF Chain, Slot
  <1>4. PICK n : /\ IsNext(n, k)
                 /\ iter' = [on |-> TRUE, table |-> t, index |-> i, nextEntry |-> n]
    BY DEF Return
  <1>5. n = After(c, p)
    <2>1. PICK q \in 1..Len(Chain(d, t, k)) : Chain(d, t, k)[q] = k /\ n = After(Chain(d, t, k), q)
      BY <1>1, <1>2, <1>4, NextIsAfter, ZenonT(40)
    <2>2. q \in 1..Len(c) /\ c[q] = c[p] /\ n = After(c, q)
      BY <1>3, <2>1
    <2>3. q = p
      BY <1>1, <2>2 DEF NoTwins
    <2> QED BY <2>2, <2>3
  <1>6. iter' = it
    BY <1>4, <1>5 DEF Past
  <1>7. /\ d' = [d EXCEPT !.iterators = IF iter.on THEN @ ELSE @ + 1]
        /\ answer' = Nobody
        /\ seen' = seen \cup {k}
        /\ owed' = (IF iter.on THEN owed ELSE Present(d)) \ {k}
    BY DEF Return
  <1>8. it \in Iterators /\ Within(d.ht[t], it) /\ it.on = TRUE /\ it.table = t
    BY <1>1, PastOK DEF Past
  <1>9. Present(d) = Members(d)
    BY <1>1, MembersFound
  <1>10. /\ (IF iter.on THEN owed ELSE Members(d)) \subseteq Ahead(d, iter)
         /\ seen \subseteq Members(d) \ Ahead(d, iter)
    BY OwedAhead
  <1>11. k \in Ahead(d, iter) /\ Ahead(d, it) = Ahead(d, iter) \ {k}
    OBVIOUS
  <1> HIDE DEF it, c, k
  <1>12. /\ d' \in Dicts /\ d'.ht = d.ht /\ d'.rehashidx = d.rehashidx /\ d'.iterators = 1
    <2>1. d \in Dicts /\ d.iterators = IF iter.on THEN 1 ELSE 0
      BY DEF Inv, DictOK
    <2> QED BY <1>7, <2>1 DEF Dicts
  <1>13. DictOK(d') /\ Members(d') = Members(d) /\ Ahead(d', it) = Ahead(d, it)
    BY <1>1, <1>12 DEF DictOK, Rehashing, Members, Ahead
  <1>14. Present(d') = Members(d)
    BY <1>13, MembersFound
  <1>15. k \in Members(d)
    BY <1>2 DEF Members
  <1>16. IterOK(d', it, seen', owed')
    <2>1. owed' \subseteq Ahead(d', it)
      BY <1>7, <1>9, <1>10, <1>11, <1>13
    <2>2. seen' \subseteq Members(d') \ Ahead(d', it)
      BY <1>7, <1>10, <1>11, <1>13, <1>15
    <2> QED BY <1>8, <1>12, <2>1, <2>2 DEF IterOK
  <1>17. Inv'
    BY <1>6, <1>8, <1>12, <1>13, <1>16 DEF Inv
  <1>18. Set!Give(k)
    BY <1>6, <1>7, <1>8, <1>9, <1>10, <1>11, <1>14, <1>15 DEF Set!Give
  <1> QED BY <1>2, <1>17, <1>18 DEF k, c

(* Case of an iterator with a next entry. *)
LEMMA NextInBucket ==
    ASSUME Inv, iter.nextEntry # Nobody, Return(iter.table, iter.index, iter.nextEntry)
    PROVE  Inv' /\ \E k \in Keys : Set!Give(k)
  <1> DEFINE t == iter.table
             i == iter.index
             k == iter.nextEntry
             h == d.ht[t]
  <1>1. DictOK(d) /\ iter.on /\ IterOK(d, iter, seen, owed)
    BY OwedAhead DEF Inv
  <1>2. /\ t \in 0..1 /\ Within(h, iter)
    BY <1>1, WhereIterating
  <1>3. /\ i \in 0..h.size - 1 /\ k \in KeysIn(h) /\ Hash[k] % h.size = i
    BY <1>2 DEF Within
  <1>4. h \in Tables /\ Hashed(h)
    BY <1>1, <1>2 DEF DictOK, TableOK
  <1>5. PICK p \in 1..Len(h.table[i]) : h.table[i][p] = k
    <2>1. \E n \in 1..Len(h.table[Hash[k] % h.size]) : h.table[Hash[k] % h.size][n] = k
      <3> HIDE DEF h, k
      <3> QED BY <1>3, <1>4, InItsSlot
    <2> QED BY <1>3, <2>1
  <1>6. ASSUME NEW u \in 0..1, NEW j \in KeysIn(d.ht[u])
        PROVE  j \in AheadIn(d.ht[u], u, Past(t, i, p)) <=> j \in AheadIn(d.ht[u], u, iter) /\ j # k
    <2>1. j \in AheadIn(d.ht[u], u, Past(t, i, p)) <=>
             \/ u > t
             \/ u = t /\ Hash[j] % d.ht[u].size > i
             \/ u = t /\ Hash[j] % d.ht[u].size = i /\ NotBefore(h.table[i], k, j) /\ j # k
      <3> DEFINE e == d.ht[t].table[i][p]
      <3>1. j \in AheadIn(d.ht[u], u, Past(t, i, p)) <=>
               \/ u > t
               \/ u = t /\ Hash[j] % d.ht[u].size > i
               \/ u = t /\ Hash[j] % d.ht[u].size = i /\ NotBefore(d.ht[t].table[i], e, j) /\ j # e
        <4>1. /\ DictOK(d) /\ t \in 0..1 /\ i \in 0..d.ht[t].size - 1
              /\ p \in 1..Len(d.ht[t].table[i])
          BY <1>1, <1>2, <1>3, <1>5
        <4> HIDE DEF t, i, e
        <4>2. AheadIn(d.ht[u], u, Past(t, i, p)) = Beyond(t, i, p, u)
          BY <4>1, AheadOfPast
        <4> QED BY <4>2 DEF Beyond, e
      <3>2. e = k
        BY <1>5
      <3> HIDE DEF e, k
      <3> QED BY <3>1, <3>2
    <2>2. j \in AheadIn(d.ht[u], u, iter) <=>
             \/ u > t
             \/ u = t /\ Hash[j] % d.ht[u].size > i
             \/ u = t /\ Hash[j] % d.ht[u].size = i /\ NotBefore(h.table[i], k, j)
      BY DEF AheadIn
    <2>3. u > t => j # k
      <3>1. KeysIn(d.ht[0]) \cap KeysIn(d.ht[1]) = {}
        BY <1>1 DEF DictOK
      <3> QED BY <1>2, <1>3, <3>1
    <2>4. u = t /\ Hash[j] % d.ht[u].size > i => j # k
      BY <1>3
    <2> QED BY <2>1, <2>2, <2>3, <2>4
  <1>7. Ahead(d, Past(t, i, p)) = Ahead(d, iter) \ {k}
    <2>1. \A u \in 0..1 : AheadIn(d.ht[u], u, Past(t, i, p)) = AheadIn(d.ht[u], u, iter) \ {k}
      <3>1. \A u \in 0..1 : /\ AheadIn(d.ht[u], u, Past(t, i, p)) \subseteq KeysIn(d.ht[u])
                            /\ AheadIn(d.ht[u], u, iter) \subseteq KeysIn(d.ht[u])
        BY DEF AheadIn
      <3> QED BY <1>6, <3>1
    <2> QED BY <2>1 DEF Ahead
  <1>8. k \in Ahead(d, iter)
    <2>1. NotBefore(h.table[Hash[k] % h.size], k, k)
      <3>1. p <= p
        OBVIOUS
      <3>2. NotBefore(h.table[i], k, k)
        <4> HIDE DEF h, k, i
        <4> QED BY <1>5, <3>1 DEF NotBefore
      <3> QED BY <1>3, <3>2
    <2>2. k \in AheadIn(h, t, iter)
      BY <1>3, <2>1 DEF AheadIn
    <2> QED BY <1>2, <2>2 DEF Ahead
  <1> HIDE DEF t, i, k, h
  <1>9. Return(t, i, d.ht[t].table[i][p])
    BY <1>5 DEF t, i, k, h
  <1>10. /\ d.ht[t].table[i][p] = k /\ i \in 0..d.ht[t].size - 1
         /\ p \in 1..Len(d.ht[t].table[i])
    BY <1>3, <1>5 DEF h
  <1>11. Inv' /\ d.ht[t].table[i][p] \in Keys /\ Set!Give(d.ht[t].table[i][p])
    BY <1>2, <1>7, <1>8, <1>9, <1>10, ReturnStep
  <1> QED BY <1>11

(* With no next entry, the keys ahead are those of the later buckets. *)
LEMMA AheadIsLater ==
    ASSUME Inv, iter.nextEntry = Nobody, NEW u \in 0..1, NEW j \in KeysIn(d.ht[u])
    PROVE  /\ j \in AheadIn(d.ht[u], u, iter) <=> <<u, Hash[j] % d.ht[u].size>> \in Later
           /\ Hash[j] % d.ht[u].size \in 0..d.ht[u].size - 1
           /\ d.ht[u].table[Hash[j] % d.ht[u].size] # <<>>
  <1> DEFINE h == d.ht[u]
             b == Hash[j] % h.size
  <1>1. h \in Tables /\ Hashed(h)
    BY DEF Inv, DictOK, TableOK
  <1>2. b \in 0..h.size - 1 /\ \E n \in 1..Len(h.table[b]) : h.table[b][n] = j
    BY <1>1, InItsSlot
  <1>3. h.table[b] # <<>> /\ h.table[b] \in Seq(Keys)
    BY <1>1, <1>2, TableShape
  <1>4. ~NotBefore(h.table[b], Nobody, j)
    <2>1. Nobody \notin Keys
      BY DictAssumption
    <2>2. \A n \in 1..Len(h.table[b]) : h.table[b][n] \in Keys
      BY <1>3
    <2> QED BY <2>1, <2>2 DEF NotBefore
  <1>5. j \in AheadIn(h, u, iter) <=> u > iter.table \/ (u = iter.table /\ b > iter.index)
    BY <1>4 DEF AheadIn
  <1>6. <<u, b>> \in Later <=>
           /\ b \in 0..h.size - 1
           /\ h.table[b] # <<>>
           /\ u > iter.table \/ (u = iter.table /\ b > iter.index)
    BY LaterIs DEF Inv
  <1> QED BY <1>2, <1>3, <1>5, <1>6

(* A bucket that comes later is one of a table. *)
LEMMA LaterPairs ==
    ASSUME NEW q \in Later
    PROVE  \E t \in 0..1 : \E i : q = <<t, i>>
  BY SMT DEF Later

(* Case of an iterator that goes on to the next bucket. *)
LEMMA NextBucket ==
    ASSUME Inv, iter.nextEntry = Nobody, NEW q \in Later,
           \A r \in Later : q[1] < r[1] \/ (q[1] = r[1] /\ q[2] <= r[2]),
           Return(q[1], q[2], d.ht[q[1]].table[q[2]][1])
    PROVE  Inv' /\ \E k \in Keys : Set!Give(k)
  <1>0. PICK t \in 0..1 : \E i : q = <<t, i>>
    BY LaterPairs
  <1>1. PICK i : q = <<t, i>>
    BY <1>0
  <1>2. DictOK(d) /\ iter \in Iterators
    BY OwedAhead DEF Inv
  <1> DEFINE h == d.ht[t]
             c == h.table[i]
             k == c[1]
  <1>3. /\ i \in 0..h.size - 1 /\ c # <<>>
        /\ t > iter.table \/ (t = iter.table /\ i > iter.index)
    BY <1>1, <1>2, LaterIs
  <1>4. h \in Tables /\ Hashed(h)
    BY <1>2 DEF DictOK, TableOK
  <1>5. c \in Seq(Keys) /\ 1 \in 1..Len(c) /\ Len(c) \in Nat
    <2>1. c \in Seq(Keys)
      BY <1>3, <1>4, TableShape
    <2>2. Len(c) # 0
      <3> HIDE DEF c
      <3> QED BY <1>3, <2>1
    <2> HIDE DEF c
    <2> QED BY <2>1, <2>2
  <1>6. k \in KeysIn(h) /\ Hash[k] % h.size = i
    <2>1. \A n \in 1..Len(c) : c[n] \in KeysIn(h) /\ Hash[c[n]] % h.size = i
      BY <1>3, <1>4, EntryIsKey DEF Hashed
    <2> QED BY <1>5, <2>1
  <1>7. ASSUME NEW u \in 0..1, NEW j \in KeysIn(d.ht[u])
        PROVE  /\ j \in AheadIn(d.ht[u], u, iter) <=>
                     u > t \/ (u = t /\ Hash[j] % d.ht[u].size >= i)
               /\ Hash[j] % d.ht[u].size \in Nat
    <2> DEFINE b == Hash[j] % d.ht[u].size
    <2>1. /\ j \in AheadIn(d.ht[u], u, iter) <=> <<u, b>> \in Later
          /\ b \in 0..d.ht[u].size - 1 /\ d.ht[u].table[b] # <<>>
      BY AheadIsLater
    <2>2. <<u, b>> \in Later => t < u \/ (t = u /\ i <= b)
      BY <1>1
    <2>3. <<u, b>> \in Later <=>
             /\ b \in 0..d.ht[u].size - 1
             /\ d.ht[u].table[b] # <<>>
             /\ u > iter.table \/ (u = iter.table /\ b > iter.index)
      BY <1>2, LaterIs
    <2>4. t < u \/ (t = u /\ i <= b) => u > iter.table \/ (u = iter.table /\ b > iter.index)
      <3>1. iter.table \in 0..1 /\ iter.index \in Int /\ b \in Nat /\ i \in Nat
        <4> HIDE DEF b
        <4>1. iter.table \in 0..1 /\ iter.index \in Int
          BY <1>2 DEF Iterators
        <4>2. b \in Nat /\ i \in Nat
          BY <1>3, <2>1
        <4> QED BY <4>1, <4>2
      <3> HIDE DEF b
      <3> QED BY <1>3, <3>1
    <2>5. b \in Nat
      BY <2>1
    <2> HIDE DEF b
    <2>6. <<u, b>> \in Later <=> u > t \/ (u = t /\ b >= i)
      BY <1>3, <2>1, <2>2, <2>3, <2>4, <2>5
    <2> QED BY <2>1, <2>5, <2>6 DEF b
  <1>8. ASSUME NEW u \in 0..1, NEW j \in KeysIn(d.ht[u])
        PROVE  j \in AheadIn(d.ht[u], u, Past(t, i, 1)) <=> j \in AheadIn(d.ht[u], u, iter) /\ j # k
    <2> DEFINE b == Hash[j] % d.ht[u].size
    <2>1. j \in AheadIn(d.ht[u], u, Past(t, i, 1)) <=>
             \/ u > t
             \/ u = t /\ b > i
             \/ u = t /\ b = i /\ NotBefore(c, k, j) /\ j # k
      <3>1. j \in AheadIn(d.ht[u], u, Past(t, i, 1)) <=>
               \/ u > t
               \/ u = t /\ Hash[j] % d.ht[u].size > i
               \/ /\ u = t /\ Hash[j] % d.ht[u].size = i
                  /\ NotBefore(d.ht[t].table[i], d.ht[t].table[i][1], j)
                  /\ j # d.ht[t].table[i][1]
        <4>1. DictOK(d) /\ i \in 0..d.ht[t].size - 1 /\ 1 \in 1..Len(d.ht[t].table[i])
          BY <1>2, <1>3, <1>5
        <4>2. AheadIn(d.ht[u], u, Past(t, i, 1)) = Beyond(t, i, 1, u)
          BY <4>1, AheadOfPast
        <4> QED BY <4>2 DEF Beyond
      <3> QED BY <3>1
    <2>2. j \in AheadIn(d.ht[u], u, iter) <=> u > t \/ (u = t /\ b >= i)
      BY <1>7
    <2>3. b \in Nat /\ i \in Nat
      BY <1>3, <1>7
    <2>4. u > t => j # k
      <3>1. KeysIn(d.ht[0]) \cap KeysIn(d.ht[1]) = {}
        BY <1>2 DEF DictOK
      <3>2. u > t => u = 1 /\ t = 0
        OBVIOUS
      <3> QED BY <1>6, <3>1, <3>2
    <2>5. u = t /\ b > i => j # k
      <3>1. u = t /\ j = k => b = i
        BY <1>6
      <3> HIDE DEF b, k
      <3> QED BY <2>3, <3>1
    <2>6. u = t /\ b = i => NotBefore(c, k, j)
      <3> SUFFICES ASSUME u = t, b = i PROVE NotBefore(c, k, j)
        OBVIOUS
      <3>1. PICK n \in 1..Len(c) : c[n] = j
        BY <1>4, InItsSlot
      <3>2. 1 <= n
        BY <1>5
      <3> QED BY <1>5, <3>1, <3>2 DEF NotBefore
    <2> HIDE DEF b, c, k
    <2> QED BY <2>1, <2>2, <2>3, <2>4, <2>5, <2>6
  <1>9. Ahead(d, Past(t, i, 1)) = Ahead(d, iter) \ {k}
    <2>1. \A u \in 0..1 : AheadIn(d.ht[u], u, Past(t, i, 1)) = AheadIn(d.ht[u], u, iter) \ {k}
      <3>1. \A u \in 0..1 : /\ AheadIn(d.ht[u], u, Past(t, i, 1)) \subseteq KeysIn(d.ht[u])
                            /\ AheadIn(d.ht[u], u, iter) \subseteq KeysIn(d.ht[u])
        BY DEF AheadIn
      <3> QED BY <1>8, <3>1
    <2> QED BY <2>1 DEF Ahead
  <1>10. k \in Ahead(d, iter)
    <2>1. k \in AheadIn(h, t, iter)
      <3>1. k \in KeysIn(d.ht[t]) /\ Hash[k] % d.ht[t].size = i
        BY <1>6
      <3> HIDE DEF k
      <3>2. i >= i
        BY <1>3
      <3> QED BY <1>7, <3>1, <3>2
    <2>2. t = 0 \/ t = 1
      BY <1>1
    <2> QED BY <2>1, <2>2 DEF Ahead
  <1>11. Return(t, i, k)
    BY <1>1
  <1>12. Inv' /\ k \in Keys /\ Set!Give(k)
    BY <1>3, <1>5, <1>9, <1>10, <1>11, ReturnStep
  <1> QED BY <1>12

(* Case of an iterator at its end. *)
LEMMA NoNext ==
    ASSUME Inv, iter.nextEntry = Nobody, Later = {}, dictReleaseIterator, answer' = Nobody
    PROVE  Inv' /\ Set!End
  <1>1. Ahead(d, iter) = {}
    <2>1. \A u \in 0..1 : AheadIn(d.ht[u], u, iter) = {}
      <3>1. \A u \in 0..1 : AheadIn(d.ht[u], u, iter) \subseteq KeysIn(d.ht[u])
        BY DEF AheadIn
      <3> QED BY <3>1, AheadIsLater
    <2> QED BY <2>1 DEF Ahead
  <1>2. Present(d) = Members(d)
    BY MembersFound DEF Inv
  <1>3. (IF iter.on THEN owed ELSE Present(d)) = {}
    BY <1>1, <1>2, OwedAhead
  <1>4. /\ iter' = NoIteration /\ d' = [d EXCEPT !.iterators = IF iter.on THEN @ - 1 ELSE @]
        /\ seen' = {} /\ owed' = {}
    BY DEF dictReleaseIterator
  <1>5. d \in Dicts /\ d.iterators = IF iter.on THEN 1 ELSE 0
    BY DEF Inv, DictOK
  <1>6. d' \in Dicts /\ d'.ht = d.ht /\ d'.rehashidx = d.rehashidx /\ d'.iterators = 0
    BY <1>4, <1>5 DEF Dicts
  <1>7. DictOK(d')
    BY <1>6 DEF Inv, DictOK, Rehashing
  <1>8. Members(d') = Members(d)
    BY <1>6 DEF Members
  <1>9. NoIteration \in Iterators /\ NoIteration.on = FALSE
    BY DEF NoIteration, Iterators
  <1>10. Inv'
    BY <1>4, <1>6, <1>7, <1>9 DEF Inv, IterOK
  <1>11. Present(d') = Present(d)
    BY <1>2, <1>7, <1>8, MembersFound
  <1> QED BY <1>3, <1>4, <1>9, <1>10, <1>11 DEF Set!End

(* dictNext gives a member that it owes, or ends when it owes none. *)
LEMMA NextStep ==
    ASSUME Inv, dictNext
    PROVE  Inv' /\ (Set!End \/ \E k \in Keys : Set!Give(k))
  <1>1. CASE iter.nextEntry # Nobody
    BY <1>1, NextInBucket DEF dictNext
  <1>2. CASE iter.nextEntry = Nobody /\ Later = {}
    BY <1>2, NoNext DEF dictNext
  <1>3. CASE iter.nextEntry = Nobody /\ Later # {}
    <2>1. PICK q \in Later :
              /\ \A r \in Later : q[1] < r[1] \/ (q[1] = r[1] /\ q[2] <= r[2])
              /\ Return(q[1], q[2], d.ht[q[1]].table[q[2]][1])
      BY <1>3, Zenon DEF dictNext
    <2> QED BY <1>3, <2>1, NextBucket
  <1> QED BY <1>1, <1>2, <1>3

(* What the cron does changes no member and happens under no iterator. *)
LEMMA CronStep ==
    ASSUME Inv, tryResizeHashTables \/ incrementallyRehash
    PROVE  Inv' /\ UNCHANGED Set!vars
  <1>1. /\ d.iterators = 0 /\ UNCHANGED <<iter, answer, seen, owed>>
        /\ d' = dictResize(d) \/ d' = dictRehash(d, CronSteps)
    BY DEF tryResizeHashTables, incrementallyRehash
  <1>2. ~iter.on
    BY <1>1 DEF Inv
  <1>3. DictOK(d') /\ Members(d') = Members(d) /\ d'.iterators = d.iterators
    <2>1. DictOK(d) /\ CronSteps \in Nat
      BY DictAssumption DEF Inv
    <2>2. CASE d' = dictResize(d)
      <3>1. Expanded(d, d')
        BY <2>1, <2>2, ResizeShape
      <3> QED BY <2>1, <3>1, ExpandedOK
    <2>3. CASE d' = dictRehash(d, CronSteps)
      BY <2>1, <2>3, RehashOK
    <2> QED BY <1>1, <2>2, <2>3
  <1>4. IterOK(d', iter, seen, owed)
    BY <1>2, IterRehashed DEF Inv
  <1>5. Inv'
    BY <1>1, <1>3, <1>4 DEF Inv
  <1>6. Present(d') = Present(d)
    BY <1>3, MembersFound DEF Inv
  <1> QED BY <1>1, <1>5, <1>6 DEF Set!vars

(* Every step keeps the invariant and is one of the set, or none. *)
LEMMA Step ==
    ASSUME Inv, [Next]_vars
    PROVE  Inv' /\ [Set!Next]_Set!vars
  <1>1. ASSUME NEW k \in Keys, dictAdd(k) \/ dictReplace(k)
        PROVE  Inv' /\ [Set!Next]_Set!vars
    <2>1. Inv' /\ Set!Add(k)
      BY <1>1, AddStep, ReplaceStep
    <2> QED BY <2>1 DEF Set!Next
  <1>2. ASSUME NEW k \in Keys, dictFind(k)
        PROVE  Inv' /\ [Set!Next]_Set!vars
    <2>1. Inv' /\ Set!Find(k)
      BY <1>2, FindStep
    <2> QED BY <2>1 DEF Set!Next
  <1>3. ASSUME NEW k \in Keys, NEW shrink \in BOOLEAN, dictDelete(k, shrink)
        PROVE  Inv' /\ [Set!Next]_Set!vars
    <2>1. Inv' /\ Set!Delete(k)
      BY <1>3, DeleteStep
    <2> QED BY <2>1 DEF Set!Next
  <1>4. CASE dictGetRandomKey
    BY <1>4, DrawStep DEF Set!Next
  <1>5. CASE dictEmpty
    BY <1>5, EmptyStep DEF Set!Next
  <1>6. CASE dictNext
    BY <1>6, NextStep DEF Set!Next
  <1>7. CASE GiveUp
    BY <1>7, GiveUpStep DEF Set!Next
  <1>8. CASE tryResizeHashTables \/ incrementallyRehash
    BY <1>8, CronStep
  <1>9. CASE updateDictResizePolicy \/ UNCHANGED vars
    <2>1. UNCHANGED <<d, iter, answer, seen, owed>>
      BY <1>9 DEF updateDictResizePolicy, vars
    <2>2. Inv'
      BY <2>1 DEF Inv
    <2>3. Present(d') = Present(d)
      BY <2>1
    <2> QED BY <2>1, <2>2, <2>3 DEF Set!vars
  <1> QED BY <1>1, <1>2, <1>3, <1>4, <1>5, <1>6, <1>7, <1>8, <1>9 DEF Next

(* The dictionary is one at every moment, and its iterator owes what is ahead
   of it. *)
LEMMA Invariant == Spec => []Inv
  <1>1. Inv /\ [Next]_vars => Inv'
    BY Step
  <1> QED BY <1>1, InvInit, PTL DEF Spec

(* Whatever dict.c does behind the operations - a second table, a bucket
   moved by each of them and by the cron, expansions, shrinks, the policy
   that forbids them - dictAdd, dictReplace, dictFind, dictDelete and
   dictGetRandomKey answer as the operations of a set do, and the loop over
   a safe iterator returns every key that stays, once, although keys are
   added and deleted meanwhile. *)
THEOREM DictIsASet == Spec => AnswersAsASet
  <1>1. Init => Set!Init
    <2> SUFFICES ASSUME Init PROVE Set!Init
      OBVIOUS
    <2>1. Present(d) = {}
      BY CreateOK, MembersFound DEF Init
    <2> QED BY <2>1 DEF Init, Set!Init, NoIteration
  <1>2. Inv /\ [Next]_vars => [Set!Next]_Set!vars
    BY Step
  <1> QED BY <1>1, <1>2, Invariant, PTL DEF Spec, AnswersAsASet, Set!Spec

----------------------------------------------------------------------------
(* The places of a table *)

PlacesIn(t) ==
    UNION { { <<t, i, n>> : n \in DOMAIN d.ht[t].table[i] } : i \in DOMAIN d.ht[t].table }

(* They are as many as the keys, each of which has one. *)
LEMMA PlacesCounted ==
    ASSUME DictOK(d), NEW t \in 0..1
    PROVE  /\ d.ht[t].used = Cardinality(PlacesIn(t))
           /\ \A p \in PlacesIn(t) :
                 /\ p[1] = t
                 /\ p[2] \in 0..d.ht[t].size - 1
                 /\ p[3] \in 1..Len(d.ht[t].table[p[2]])
                 /\ p = <<p[1], p[2], p[3]>>
                 /\ d.ht[t].table[p[2]][p[3]] \in KeysIn(d.ht[t])
                 /\ Hash[d.ht[t].table[p[2]][p[3]]] % d.ht[t].size = p[2]
           /\ \A p, q \in PlacesIn(t) :
                 d.ht[t].table[p[2]][p[3]] = d.ht[t].table[q[2]][q[3]] => p = q
  <1> DEFINE h == d.ht[t]
             key == [p \in PlacesIn(t) |-> h.table[p[2]][p[3]]]
  <1>1. h \in Tables /\ Hashed(h) /\ NoTwins(h) /\ Counted(h)
    BY DEF DictOK, TableOK
  <1>2. /\ DOMAIN h.table = 0..h.size - 1
        /\ \A i \in 0..h.size - 1 : DOMAIN h.table[i] = 1..Len(h.table[i])
    BY <1>1, TableShape
  <1>3. ASSUME NEW p \in PlacesIn(t)
        PROVE  /\ p[1] = t /\ p[2] \in 0..h.size - 1 /\ p[3] \in 1..Len(h.table[p[2]])
               /\ p = <<p[1], p[2], p[3]>>
               /\ h.table[p[2]][p[3]] \in KeysIn(h)
               /\ Hash[h.table[p[2]][p[3]]] % h.size = p[2]
    <2>1. PICK i \in DOMAIN h.table : p \in { <<t, i, n>> : n \in DOMAIN h.table[i] }
      BY DEF PlacesIn
    <2>2. PICK n \in DOMAIN h.table[i] : p = <<t, i, n>>
      BY <2>1
    <2>3. i \in 0..h.size - 1 /\ n \in 1..Len(h.table[i])
      BY <1>2, <2>1, <2>2
    <2>4. h.table[i][n] \in KeysIn(h) /\ Hash[h.table[i][n]] % h.size = i
      BY <1>1, <2>3, EntryIsKey DEF Hashed
    <2> HIDE DEF h
    <2> QED BY <2>2, <2>3, <2>4
  <1>4. ASSUME NEW p \in PlacesIn(t), NEW q \in PlacesIn(t),
               h.table[p[2]][p[3]] = h.table[q[2]][q[3]]
        PROVE  p = q
    <2>1. /\ Hash[h.table[p[2]][p[3]]] % h.size = p[2] /\ Hash[h.table[q[2]][q[3]]] % h.size = q[2]
          /\ p[2] \in 0..h.size - 1 /\ p[3] \in 1..Len(h.table[p[2]])
          /\ q[3] \in 1..Len(h.table[q[2]])
          /\ p = <<t, p[2], p[3]>> /\ q = <<t, q[2], q[3]>>
      <3> HIDE DEF h
      <3> QED BY <1>3
    <2> HIDE DEF h
    <2>2. p[2] = q[2]
      BY <1>4, <2>1
    <2>3. p[3] = q[3]
      BY <1>1, <1>4, <2>1, <2>2 DEF NoTwins
    <2> QED BY <2>1, <2>2, <2>3
  <1>5. ASSUME NEW k \in KeysIn(h)
        PROVE  \E p \in PlacesIn(t) : key[p] = k
    <2>1. PICK i \in 0..h.size - 1 : \E n \in 1..Len(h.table[i]) : h.table[i][n] = k
      BY DEF KeysIn
    <2>2. PICK n \in 1..Len(h.table[i]) : h.table[i][n] = k
      BY <2>1
    <2>3. <<t, i, n>> \in PlacesIn(t)
      BY <1>2 DEF PlacesIn
    <2> QED BY <2>2, <2>3
  <1>6. key \in Bijection(PlacesIn(t), KeysIn(h))
    <2>1. key \in [PlacesIn(t) -> KeysIn(h)]
      BY <1>3
    <2>2. \A p, q \in PlacesIn(t) : key[p] = key[q] => p = q
      BY <1>4
    <2> HIDE DEF key, h
    <2>3. key \in Injection(PlacesIn(t), KeysIn(h))
      BY <2>1, <2>2 DEF Injection, IsInjective
    <2>4. key \in Surjection(PlacesIn(t), KeysIn(h))
      BY <2>1, <1>5 DEF Surjection
    <2> QED BY <2>3, <2>4 DEF Bijection
  <1>7. h.used = Cardinality(PlacesIn(t))
    <2>1. ExistsBijection(PlacesIn(t), KeysIn(h))
      BY <1>6 DEF ExistsBijection
    <2>2. ExistsBijection(KeysIn(h), PlacesIn(t))
      BY <2>1, Fun_ExistsBijSymmetric
    <2> QED BY <1>1, <2>2, FS_Bijection DEF Counted
  <1> QED BY <1>3, <1>4, <1>7

(* What a dictionary is, said of the places of its entries. *)
LEMMA InvPlaced == Inv => Placed
  <1> SUFFICES ASSUME Inv PROVE Placed
    OBVIOUS
  <1> DEFINE bucket(t, i) == { <<t, i, n>> : n \in DOMAIN d.ht[t].table[i] }
             places == UNION { UNION { bucket(t, i) : i \in DOMAIN d.ht[t].table } : t \in 0..1 }
             key(p) == d.ht[p[1]].table[p[2]][p[3]]
  <1>1. DictOK(d)
    BY DEF Inv
  <1>2. \A p : p \in places <=> \E t \in 0..1 : p \in PlacesIn(t)
    BY DEF PlacesIn
  <1> HIDE DEF bucket, places
  <1>3. \A t \in 0..1 : \A p \in PlacesIn(t) :
            /\ p[1] = t /\ p[2] \in 0..d.ht[t].size - 1 /\ p[3] \in 1..Len(d.ht[t].table[p[2]])
            /\ key(p) \in KeysIn(d.ht[t])
            /\ Hash[key(p)] % d.ht[t].size = p[2]
    BY <1>1, PlacesCounted
  <1>4. \A p \in places : Slot(d, p[1], key(p)) = p[2]
    <2> SUFFICES ASSUME NEW p \in places  PROVE Slot(d, p[1], key(p)) = p[2]
      OBVIOUS
    <2>1. PICK t \in 0..1 : p \in PlacesIn(t)
      BY <1>2
    <2>2. p[1] = t /\ Hash[key(p)] % d.ht[t].size = p[2]
      BY <1>3, <2>1
    <2> HIDE DEF key
    <2> QED BY <2>2 DEF Slot
  <1>5. ASSUME NEW p \in places, NEW q \in places, key(p) = key(q)
        PROVE  p = q
    <2>1. PICK t \in 0..1 : p \in PlacesIn(t)
      BY <1>2
    <2>2. PICK u \in 0..1 : q \in PlacesIn(u)
      BY <1>2
    <2>3. t = u
      <3>1. key(p) \in KeysIn(d.ht[t]) /\ key(p) \in KeysIn(d.ht[u])
        BY <1>3, <1>5, <2>1, <2>2
      <3>2. KeysIn(d.ht[0]) \cap KeysIn(d.ht[1]) = {}
        BY <1>1 DEF DictOK
      <3> QED BY <3>1, <3>2
    <2>4. d.ht[t].table[p[2]][p[3]] = d.ht[t].table[q[2]][q[3]]
      BY <1>3, <1>5, <2>1, <2>2, <2>3
    <2> QED BY <1>1, <2>1, <2>2, <2>3, <2>4, PlacesCounted
  <1>6. ASSUME NEW t \in 0..1
        PROVE  d.ht[t].used = Cardinality({ p \in places : p[1] = t })
    <2> HIDE DEF key
    <2>1. \A p : p \in places /\ p[1] = t <=> p \in PlacesIn(t)
      BY <1>2, <1>3
    <2>2. { p \in places : p[1] = t } = PlacesIn(t)
      BY <2>1
    <2> QED BY <1>1, <2>2, PlacesCounted
  <1>7. dictIsRehashing(d) <=> d.ht[1].size # 0
    BY <1>1, ResetOK DEF DictOK, Rehashing, dictIsRehashing
  <1>8. ASSUME NEW p \in places, p[1] = 0
        PROVE  p[2] >= d.rehashidx
    <2> HIDE DEF key
    <2>1. p \in PlacesIn(0)
      BY <1>2, <1>3, <1>8
    <2>2. p[2] \in 0..d.ht[0].size - 1 /\ p[3] \in 1..Len(d.ht[0].table[p[2]])
      BY <1>3, <2>1
    <2>3. CASE d.rehashidx = -1
      BY <2>2, <2>3
    <2>4. CASE d.rehashidx # -1
      <3>1. d.rehashidx \in Nat
        BY <1>1, <2>4 DEF DictOK, Rehashing
      <3>2. d.ht[0].table[p[2]] # <<>>
        BY <2>2
      <3>3. ~(p[2] < d.rehashidx)
        BY <1>1, <2>2, <2>4, <3>2 DEF DictOK, Rehashing
      <3> QED BY <2>2, <3>1, <3>3
    <2> QED BY <2>3, <2>4
  <1>9. d.iterators = IF iter.on THEN 1 ELSE 0
    BY DEF Inv
  <1> HIDE DEF key
  <1> QED BY <1>4, <1>5, <1>6, <1>7, <1>8, <1>9 DEF Placed, places, bucket, key

(* The tables are always what dictFind, dictGenericDelete and dictNext
   assume: an entry is in the bucket it hashes to, of the table that they
   look in, there is one entry of a key, `used` counts the entries, and no
   bucket before rehashidx has any. *)
THEOREM AlwaysPlaced == Spec => []Placed
  BY Invariant, InvPlaced, PTL
=============================================================================
