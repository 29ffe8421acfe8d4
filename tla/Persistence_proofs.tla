------------------------- MODULE Persistence_proofs -------------------------
(* Proofs about Persistence, for every set of configurations: the file, the *)
(* rewrite under way and the count of unsaved changes always agree with the *)
(* dataset, and what was acknowledged survives the end of the process.      *)
(*                                                                          *)
(* First what loading a file computes, by induction on the number of        *)
(* commands (over a set of numbers, so that no lemma needs an operator as a *)
(* parameter); then the inductive invariant IInv, kept by one lemma per     *)
(* action; then the theorems.                                               *)
EXTENDS Persistence, SequenceTheorems, WellFoundedInduction, TLAPS

(* What the lists of the model hold: datasets, commands, fake clients.      *)
Datasets == Seq(Nat \X Nat)

Commands == [op : {"select", "write", "dataset"}, n : Nat, all : Datasets]

Clients == [data : Datasets, db : Nat]

(* The fake client before the first command.                                *)
Start == [data |-> <<>>, db |-> 0]

(* The sequence s is what t was before: IsPrefix, element by element.       *)
IsPast(s, t) == Len(s) <= Len(t) /\ \A i \in 1 .. Len(s) : s[i] = t[i]

-----------------------------------------------------------------------------
(* A set of naturals that is not empty has a least element.                 *)
LEMMA LeastNatural ==
  ASSUME NEW S, S \subseteq Nat, S # {}
  PROVE  \E n \in S : \A m \in S : n <= m
<1>1. PICK n \in S : \A m \in S : ~(<<m, n>> \in OpToRel(<, Nat))
  BY NatLessThanWellFounded, WFMin
<1>2. OpToRel(<, Nat) = {p \in Nat \X Nat : p[1] < p[2]}
  BY Zenon DEF OpToRel
<1>3. \A m \in S : m < n => <<m, n>> \in {p \in Nat \X Nat : p[1] < p[2]}
  OBVIOUS
<1>4. \A m \in S : ~(m < n)
  BY <1>1, <1>2, <1>3, Zenon
<1>5. QED
  BY <1>4

(* Induction over the naturals, for a set in the place of a predicate.      *)
LEMMA Induction ==
  ASSUME NEW P, P \subseteq Nat, 0 \in P, \A n \in P : n + 1 \in P
  PROVE  P = Nat
<1> SUFFICES ASSUME P # Nat PROVE FALSE
  OBVIOUS
<1>1. PICK n \in Nat \ P : \A m \in Nat \ P : n <= m
  BY LeastNatural
<1>2. n # 0 /\ n - 1 \in P
  BY <1>1
<1>3. (n - 1) + 1 = n
  OBVIOUS
<1>4. QED
  BY <1>1, <1>2, <1>3

(* IsPast is the IsPrefix of the community modules.                         *)
LEMMA PrefixByElements ==
  ASSUME NEW S, NEW s \in Seq(S), NEW t \in Seq(S)
  PROVE  IsPrefix(s, t) <=> IsPast(s, t)
<1> SUFFICES ASSUME Len(s) <= Len(t)
             PROVE  SubSeq(s, 1, Len(s)) = SubSeq(t, 1, Len(s)) <=> \A i \in 1 .. Len(s) : s[i] = t[i]
  BY DEF IsPrefix, IsPast
<1>1. Len(s) \in Nat /\ Len(t) \in Nat
  BY LenProperties
<1>2. SubSeq(s, 1, Len(s)) = s
  BY SubSeqFull
<1> DEFINE f == SubSeq(t, 1, Len(s))
<1>3. f \in Seq(S) /\ Len(f) = Len(s) /\ \A i \in 1 .. Len(s) : f[i] = t[i]
  BY <1>1, SubSeqProperties
<1> HIDE DEF f
<1>4. s = f <=> \A i \in 1 .. Len(s) : s[i] = f[i]
  BY <1>1, <1>3, SeqEqual
<1>5. QED
  BY <1>2, <1>3, <1>4 DEF f

(* IsPast is transitive ...                                                 *)
LEMMA PastOfPast ==
  ASSUME NEW S, NEW r \in Seq(S), NEW s \in Seq(S), NEW t \in Seq(S), IsPast(r, s), IsPast(s, t)
  PROVE  IsPast(r, t)
BY LenProperties DEF IsPast

(* ... and reflexive, and appending a sequence goes on from its past.       *)
LEMMA SameIsPast ==
  ASSUME NEW s
  PROVE  IsPast(s, s)
BY DEF IsPast

(* A sequence is a past of whatever continues it.                           *)
LEMMA ConcatIsPast ==
  ASSUME NEW S, NEW s \in Seq(S), NEW t \in Seq(S)
  PROVE  s \o t \in Seq(S) /\ IsPast(s, s \o t)
<1>1. Len(s) \in Nat /\ Len(t) \in Nat
  BY LenProperties
<1>2. /\ s \o t \in Seq(S) /\ Len(s \o t) = Len(s) + Len(t)
      /\ \A i \in 1 .. Len(s) + Len(t) :
            (s \o t)[i] = IF i <= Len(s) THEN s[i] ELSE t[i - Len(s)]
  BY ConcatProperties
<1> DEFINE r == s \o t
<1> HIDE DEF r
<1>3. IsPast(s, r)
  BY <1>1, <1>2 DEF IsPast, r
<1>4. QED
  BY <1>2, <1>3 DEF r

(* Two sequences of one, one after the other.                               *)
LEMMA PairOfSingles ==
  ASSUME NEW S, NEW a \in S, NEW b \in S
  PROVE  <<a>> \o <<b>> = <<a, b>>
<1>1. /\ <<a>> \in Seq(S) /\ <<b>> \in Seq(S) /\ <<a, b>> \in Seq(S)
      /\ Len(<<a>>) = 1 /\ Len(<<b>>) = 1 /\ Len(<<a, b>>) = 2
  OBVIOUS
<1>2. /\ <<a>> \o <<b>> \in Seq(S)
      /\ Len(<<a>> \o <<b>>) = 2
      /\ \A i \in 1 .. 2 : (<<a>> \o <<b>>)[i] = <<a, b>>[i]
  BY <1>1
<1>3. QED
  BY <1>1, <1>2, SeqEqual

-----------------------------------------------------------------------------
(* Loading a file                                                           *)

\* The fake client at the start of a file is one.
LEMMA StartTyped == Start \in Clients
<1>1. <<>> \in Datasets
  BY EmptySeq DEF Datasets
<1>2. QED
  BY <1>1 DEF Start, Clients

(* A command keeps the client well typed and takes nothing back.            *)
LEMMA StepIs ==
  ASSUME NEW c \in Clients, NEW cmd \in Commands
  PROVE  Step(c, cmd) \in Clients /\ IsPast(c.data, Step(c, cmd).data)
<1>1. CASE cmd.op = "select"
  BY <1>1 DEF Step, Clients, Commands, IsPast
<1>2. CASE cmd.op = "write"
  <2>1. Step(c, cmd) = [data |-> Append(c.data, <<c.db, cmd.n>>), db |-> c.db]
    BY <1>2 DEF Step, Clients
  <2>2. <<c.db, cmd.n>> \in Nat \X Nat /\ c.data \in Datasets
    BY DEF Clients, Commands
  <2>3. /\ Append(c.data, <<c.db, cmd.n>>) \in Datasets
        /\ IsPast(c.data, Append(c.data, <<c.db, cmd.n>>))
    BY <2>2 DEF Datasets, IsPast
  <2>4. QED
    BY <2>1, <2>3 DEF Clients
<1>3. CASE cmd.op = "dataset"
  <2>1. Step(c, cmd) = [data |-> c.data \o cmd.all, db |-> cmd.n]
    BY <1>3 DEF Step
  <2>2. c.data \in Datasets /\ cmd.all \in Datasets /\ cmd.n \in Nat
    BY DEF Clients, Commands
  <2>3. c.data \o cmd.all \in Datasets /\ IsPast(c.data, c.data \o cmd.all)
    BY <2>2, ConcatIsPast DEF Datasets
  <2>4. QED
    BY <2>1, <2>2, <2>3 DEF Clients
<1>4. QED
  BY <1>1, <1>2, <1>3 DEF Commands

(* The clients of a load, one after each command: the recursive function in *)
(* FakeClient.                                                              *)
History(cmds, n, st) ==
  st = [i \in 0 .. n |-> IF i = 0 THEN Start ELSE Step(st[i - 1], cmds[i])]

(* There is such a function: it is built one command at a time.             *)
LEMMA HistoryExists ==
  ASSUME NEW cmds, NEW n \in Nat
  PROVE  \E st : History(cmds, n, st)
<1> DEFINE P == {k \in Nat : \E st : History(cmds, k, st)}
<1>1. 0 \in P
  <2>1. History(cmds, 0, [i \in 0 .. 0 |-> Start])
    BY DEF History
  <2>2. QED
    BY <2>1
<1>2. ASSUME NEW k \in P PROVE k + 1 \in P
  <2>1. PICK st : History(cmds, k, st)
    OBVIOUS
  <2> DEFINE tt == [i \in 0 .. k + 1 |-> IF i <= k THEN st[i] ELSE Step(st[k], cmds[k + 1])]
  <2>2. /\ DOMAIN st = 0 .. k
        /\ \A i \in 0 .. k : st[i] = IF i = 0 THEN Start ELSE Step(st[i - 1], cmds[i])
    BY <2>1 DEF History
  <2>3. \A i \in 0 .. k + 1 : tt[i] = IF i = 0 THEN Start ELSE Step(tt[i - 1], cmds[i])
    <3> SUFFICES ASSUME NEW i \in 0 .. k + 1
                 PROVE  tt[i] = IF i = 0 THEN Start ELSE Step(tt[i - 1], cmds[i])
      OBVIOUS
    <3>1. CASE i = 0
      BY <2>2, <3>1
    <3>2. CASE i # 0 /\ i <= k
      <4>1. tt[i] = st[i] /\ tt[i - 1] = st[i - 1]
        BY <3>2
      <4>2. st[i] = Step(st[i - 1], cmds[i])
        BY <2>2, <3>2
      <4>3. QED
        BY <3>2, <4>1, <4>2
    <3>3. CASE i = k + 1
      <4>1. tt[i] = Step(st[k], cmds[k + 1]) /\ tt[i - 1] = st[k]
        BY <3>3
      <4>2. QED
        BY <3>3, <4>1
    <3>4. QED
      BY <3>1, <3>2, <3>3
  <2>4. DOMAIN tt = 0 .. k + 1 /\ tt = [i \in DOMAIN tt |-> tt[i]]
    OBVIOUS
  <2> HIDE DEF tt
  <2>5. History(cmds, k + 1, tt)
    BY <2>3, <2>4 DEF History
  <2>6. QED
    BY <2>5
<1>3. P = Nat
  BY <1>1, <1>2, Induction
<1>4. QED
  BY <1>3

Begins(cmds, n, more) == \A i \in 1 .. n : cmds[i] = more[i]

(* Loads of two files that begin alike go through the same clients.         *)
LEMMA HistoriesAgree ==
  ASSUME NEW cmds, NEW more, NEW n \in Nat, NEW k \in Nat, n <= k, Begins(cmds, n, more),
         NEW st, History(cmds, n, st), NEW tt, History(more, k, tt)
  PROVE  st[n] = tt[n]
<1> DEFINE P == {i \in Nat : i <= n => st[i] = tt[i]}
<1>1. /\ \A i \in 0 .. n : st[i] = IF i = 0 THEN Start ELSE Step(st[i - 1], cmds[i])
      /\ \A i \in 0 .. k : tt[i] = IF i = 0 THEN Start ELSE Step(tt[i - 1], more[i])
      /\ \A i \in 1 .. n : cmds[i] = more[i]
  BY DEF History, Begins
<1>2. 0 \in P
  BY <1>1
<1>3. ASSUME NEW i \in P PROVE i + 1 \in P
  <2>1. CASE i + 1 <= n
    <3>1. /\ st[i] = tt[i] /\ cmds[i + 1] = more[i + 1]
          /\ i + 1 \in 0 .. n /\ i + 1 \in 0 .. k /\ i + 1 # 0
      BY <1>1, <2>1
    <3>2. /\ st[i + 1] = Step(st[(i + 1) - 1], cmds[i + 1])
          /\ tt[i + 1] = Step(tt[(i + 1) - 1], more[i + 1])
      BY <1>1, <3>1
    <3>3. (i + 1) - 1 = i
      OBVIOUS
    <3>4. st[i + 1] = tt[i + 1]
      BY <3>1, <3>2, <3>3
    <3>5. QED
      BY <3>4
  <2>2. QED
    BY <2>1
<1>4. P = Nat
  BY <1>2, <1>3, Induction
<1>5. QED
  BY <1>4

(* FakeClient is the last client of such a history.                         *)
LEMMA FakeClientIs ==
  ASSUME NEW cmds \in Seq(Commands)
  PROVE  \E st : History(cmds, Len(cmds), st) /\ FakeClient(cmds) = st[Len(cmds)]
<1> DEFINE st == CHOOSE f : History(cmds, Len(cmds), f)
<1>1. FakeClient(cmds) = st[Len(cmds)]
  BY DEF FakeClient, History, Start
<1>2. Len(cmds) \in Nat
  BY LenProperties
<1>3. History(cmds, Len(cmds), st)
  BY <1>2, HistoryExists
<1>4. QED
  BY <1>1, <1>3

(* All the clients of a load are well typed ...                             *)
LEMMA HistoryTyped ==
  ASSUME NEW cmds \in Seq(Commands), NEW st, History(cmds, Len(cmds), st)
  PROVE  \A i \in 0 .. Len(cmds) : st[i] \in Clients
<1> DEFINE n == Len(cmds)
           P == {i \in Nat : i <= n => st[i] \in Clients}
<1>1. n \in Nat /\ \A i \in 1 .. n : cmds[i] \in Commands
  BY LenProperties
<1> HIDE DEF n
<1>2. \A i \in 0 .. n : st[i] = IF i = 0 THEN Start ELSE Step(st[i - 1], cmds[i])
  BY DEF History, n
<1>3. 0 \in P
  BY <1>1, <1>2, StartTyped
<1>4. ASSUME NEW i \in P PROVE i + 1 \in P
  <2>1. CASE i + 1 <= n
    <3>1. st[i] \in Clients /\ cmds[i + 1] \in Commands /\ i + 1 \in 0 .. n /\ i + 1 # 0
      BY <1>1, <2>1
    <3>2. st[i + 1] = Step(st[(i + 1) - 1], cmds[i + 1])
      BY <1>2, <3>1
    <3>3. (i + 1) - 1 = i
      OBVIOUS
    <3>4. st[i + 1] \in Clients
      BY <3>1, <3>2, <3>3, StepIs
    <3>5. QED
      BY <3>4
  <2>2. QED
    BY <2>1
<1>5. P = Nat
  BY <1>3, <1>4, Induction
<1>6. QED
  BY <1>5 DEF n

(* ... and the dataset of each is the past of the last one's.               *)
LEMMA HistoryGrows ==
  ASSUME NEW cmds \in Seq(Commands), NEW st, History(cmds, Len(cmds), st), NEW k \in 0 .. Len(cmds)
  PROVE  IsPast(st[k].data, st[Len(cmds)].data)
<1> DEFINE n == Len(cmds)
           P == {i \in Nat : k <= i /\ i <= n => IsPast(st[k].data, st[i].data)}
<1>1. /\ n \in Nat /\ \A i \in 1 .. n : cmds[i] \in Commands
      /\ \A i \in 0 .. n : st[i] \in Clients
  BY LenProperties, HistoryTyped
<1> HIDE DEF n
<1>2. \A i \in 0 .. n : st[i] = IF i = 0 THEN Start ELSE Step(st[i - 1], cmds[i])
  BY DEF History, n
<1>3. k \in 0 .. n
  BY DEF n
<1>4. 0 \in P
  <2>1. k = 0 => IsPast(st[k].data, st[0].data)
    BY SameIsPast
  <2>2. QED
    BY <1>1, <1>3, <2>1
<1>5. ASSUME NEW i \in P PROVE i + 1 \in P
  <2>1. CASE k = i + 1
    BY <2>1, SameIsPast
  <2>2. CASE k <= i /\ i + 1 <= n
    <3>1. /\ st[i] \in Clients /\ st[k] \in Clients /\ cmds[i + 1] \in Commands
          /\ i + 1 \in 0 .. n /\ i + 1 # 0
      BY <1>1, <1>3, <2>2
    <3>2. st[i + 1] = Step(st[(i + 1) - 1], cmds[i + 1])
      BY <1>2, <3>1
    <3>3. (i + 1) - 1 = i
      OBVIOUS
    <3>4. st[i + 1] \in Clients /\ IsPast(st[i].data, st[i + 1].data)
      BY <3>1, <3>2, <3>3, StepIs
    <3>5. IsPast(st[k].data, st[i].data)
      <4>1. i <= n /\ k <= i
        BY <1>1, <2>2
      <4>2. QED
        BY <4>1
    <3>6. IsPast(st[k].data, st[i + 1].data)
      BY <3>1, <3>4, <3>5, PastOfPast DEF Clients, Datasets
    <3>7. QED
      BY <3>6
  <2>3. CASE ~(k <= i + 1 /\ i + 1 <= n)
    BY <2>3
  <2>4. k = i + 1 \/ (k <= i /\ i + 1 <= n) \/ ~(k <= i + 1 /\ i + 1 <= n)
    BY <1>1, <1>3
  <2>5. QED
    BY <2>1, <2>2, <2>3, <2>4
<1>6. P = Nat
  BY <1>4, <1>5, Induction
<1>7. n \in P /\ k <= n
  BY <1>1, <1>3, <1>6
<1>8. QED
  BY <1>1, <1>7 DEF n

(* What a file loads to is well typed; an empty file loads to the client    *)
(* before the first command, and a longer one goes on from a shorter one.   *)
LEMMA ClientTyped ==
  ASSUME NEW cmds \in Seq(Commands)
  PROVE  FakeClient(cmds) \in Clients
<1>1. PICK st : History(cmds, Len(cmds), st) /\ FakeClient(cmds) = st[Len(cmds)]
  BY FakeClientIs
<1>2. Len(cmds) \in 0 .. Len(cmds)
  BY LenProperties
<1>3. QED
  BY <1>1, <1>2, HistoryTyped

(* The fake client that has read nothing has an empty dataset and selects   *)
(* nothing yet.                                                             *)
LEMMA ClientOfNothing == FakeClient(<<>>) = Start
<1>1. <<>> \in Seq(Commands) /\ Len(<<>>) = 0
  OBVIOUS
<1>2. PICK st : History(<<>>, 0, st) /\ FakeClient(<<>>) = st[0]
  BY <1>1, FakeClientIs
<1>3. QED
  BY <1>2 DEF History

(* Reading one command more is one step of the fake client more.            *)
LEMMA ClientGoesOn ==
  ASSUME NEW cmds \in Seq(Commands), NEW cmd \in Commands
  PROVE  FakeClient(Append(cmds, cmd)) = Step(FakeClient(cmds), cmd)
<1> DEFINE n == Len(cmds)
           more == Append(cmds, cmd)
<1>1. /\ n \in Nat /\ more \in Seq(Commands) /\ Len(more) = n + 1
      /\ more[n + 1] = cmd /\ \A i \in 1 .. n : cmds[i] = more[i]
  BY LenProperties, AppendProperties
<1> HIDE DEF more
<1>2. PICK st : History(cmds, n, st) /\ FakeClient(cmds) = st[n]
  BY FakeClientIs
<1>3. PICK tt : History(more, n + 1, tt) /\ FakeClient(more) = tt[n + 1]
  BY <1>1, FakeClientIs
<1> HIDE DEF n
<1>4. st[n] = tt[n]
  <2>1. n \in Nat /\ n + 1 \in Nat /\ n <= n + 1 /\ Begins(cmds, n, more)
    BY <1>1 DEF Begins
  <2>2. QED
    BY <1>2, <1>3, <2>1, HistoriesAgree
<1>5. tt[n + 1] = Step(tt[(n + 1) - 1], more[n + 1])
  BY <1>1, <1>3 DEF History
<1>6. (n + 1) - 1 = n
  BY <1>1
<1>7. QED
  BY <1>1, <1>2, <1>3, <1>4, <1>5, <1>6 DEF more

(* Cutting a file short loses the last writes only.                         *)
LEMMA ClientOfPrefix ==
  ASSUME NEW cmds \in Seq(Commands), NEW k \in 0 .. Len(cmds)
  PROVE  IsPast(FakeClient(SubSeq(cmds, 1, k)).data, FakeClient(cmds).data)
<1> DEFINE n == Len(cmds)
           less == SubSeq(cmds, 1, k)
<1>1. n \in Nat /\ k \in Nat /\ k <= n
  BY LenProperties
<1>2. less \in Seq(Commands) /\ Len(less) = k /\ \A i \in 1 .. k : less[i] = cmds[i]
  BY <1>1, SubSeqProperties
<1> HIDE DEF less
<1>3. PICK st : History(cmds, n, st) /\ FakeClient(cmds) = st[n]
  BY FakeClientIs
<1>4. PICK tt : History(less, k, tt) /\ FakeClient(less) = tt[k]
  BY <1>2, FakeClientIs
<1>5. tt[k] = st[k]
  <2>1. Begins(less, k, cmds)
    BY <1>2 DEF Begins
  <2>2. QED
    BY <1>1, <1>3, <1>4, <2>1, HistoriesAgree
<1>6. QED
  BY <1>3, <1>4, <1>5, HistoryGrows DEF less

(* A longer file loads a dataset that continues the one of the shorter.     *)
LEMMA ClientOfConcat ==
  ASSUME NEW cmds \in Seq(Commands), NEW more \in Seq(Commands)
  PROVE  IsPast(FakeClient(cmds).data, FakeClient(cmds \o more).data)
<1> DEFINE all == cmds \o more
<1>1. Len(cmds) \in Nat /\ Len(more) \in Nat
  BY LenProperties
<1>2. all \in Seq(Commands) /\ Len(all) = Len(cmds) + Len(more)
      /\ \A i \in 1 .. Len(cmds) : all[i] = cmds[i]
  BY <1>1, ConcatProperties
<1> HIDE DEF all
<1>3. /\ SubSeq(all, 1, Len(cmds)) \in Seq(Commands)
      /\ Len(SubSeq(all, 1, Len(cmds))) = Len(cmds)
      /\ \A i \in 1 .. Len(cmds) : SubSeq(all, 1, Len(cmds))[i] = all[i]
  BY <1>1, <1>2, SubSeqProperties
<1>4. SubSeq(all, 1, Len(cmds)) = cmds
  BY <1>1, <1>2, <1>3, SeqEqual
<1>5. Len(cmds) \in 0 .. Len(all)
  BY <1>1, <1>2
<1>6. QED
  BY <1>2, <1>4, <1>5, ClientOfPrefix DEF all

-----------------------------------------------------------------------------
(* What is written to the file                                              *)

\* A SELECT is a command of the file.
LEMMA SelectTyped ==
  ASSUME NEW db \in Nat
  PROVE  Select(db) \in Commands
<1>1. <<>> \in Datasets
  BY EmptySeq DEF Datasets
<1>2. QED
  BY <1>1 DEF Select, Command, Commands

(* The commands feedAppendOnlyFile adds for a write.                        *)
Fed(at, db, n) ==
  (IF db # at THEN <<Select(db)>> ELSE <<>>) \o <<Command("write", n, <<>>)>>

(* After them the client has the write, in its database, and has selected   *)
(* that database: the SELECT is there whenever it is needed.                *)
LEMMA ClientFed ==
  ASSUME NEW cmds \in Seq(Commands), NEW at, NEW db \in Nat, NEW n \in Nat,
         at # NoDb => FakeClient(cmds).db = at
  PROVE  /\ Fed(at, db, n) \in Seq(Commands)
         /\ FakeClient(cmds \o Fed(at, db, n)) =
              [data |-> Append(FakeClient(cmds).data, <<db, n>>), db |-> db]
<1> DEFINE w == Command("write", n, <<>>)
           c == FakeClient(cmds)
<1>1. w \in Commands /\ Select(db) \in Commands
  <2>1. <<>> \in Datasets
    BY EmptySeq DEF Datasets
  <2>2. QED
    BY <2>1, SelectTyped DEF Command, Commands
<1>2. c \in Clients
  BY ClientTyped
<1>3. ASSUME NEW e \in Clients, e.db = db
      PROVE  Step(e, w) = [data |-> Append(e.data, <<db, n>>), db |-> db]
  BY <1>3 DEF Step, Command, Clients
<1>4. Step(c, Select(db)) = [data |-> c.data, db |-> db]
  BY <1>2 DEF Step, Select, Command, Clients
<1> HIDE DEF w, c
<1>5. CASE db # at
  <2> DEFINE mid == Append(cmds, Select(db))
  <2>1. <<Select(db)>> \o <<w>> = <<Select(db), w>>
    BY <1>1, PairOfSingles
  <2>2. <<Select(db), w>> \in Seq(Commands)
    BY <1>1
  <2>3. cmds \o <<Select(db), w>> = Append(mid, w) /\ mid \in Seq(Commands)
    BY <1>1
  <2>4. FakeClient(mid) = [data |-> c.data, db |-> db]
    BY <1>1, <1>4, ClientGoesOn DEF c
  <2>5. FakeClient(mid) \in Clients /\ FakeClient(mid).db = db /\ FakeClient(mid).data = c.data
    BY <1>2, <2>4 DEF Clients
  <2> HIDE DEF mid
  <2>6. FakeClient(Append(mid, w)) = [data |-> Append(c.data, <<db, n>>), db |-> db]
    BY <1>1, <1>3, <2>3, <2>5, ClientGoesOn
  <2>7. QED
    BY <1>5, <2>1, <2>2, <2>3, <2>6 DEF Fed, w, c
<1>6. CASE db = at
  <2>1. <<>> \o <<w>> = <<w>> /\ <<w>> \in Seq(Commands) /\ cmds \o <<w>> = Append(cmds, w)
    BY <1>1
  <2>2. c.db = db
    BY <1>6 DEF NoDb, c
  <2>3. FakeClient(Append(cmds, w)) = [data |-> Append(c.data, <<db, n>>), db |-> db]
    BY <1>1, <1>2, <1>3, <2>2, ClientGoesOn DEF c
  <2>4. QED
    BY <1>6, <2>1, <2>3 DEF Fed, w, c
<1>7. QED
  BY <1>5, <1>6

(* Finitely many numbers have a bound ...                                   *)
LEMMA Bounded ==
  ASSUME NEW f, NEW n \in Nat, \A i \in 1 .. n : f[i] \in Nat
  PROVE  \E b \in Nat : \A i \in 1 .. n : f[i] <= b
<1> DEFINE Bound(k, b) == \A i \in 1 .. n : i <= k => f[i] <= b
           P == {k \in Nat : \E b \in Nat : Bound(k, b)}
<1>1. Bound(0, 0)
  OBVIOUS
<1>2. ASSUME NEW k \in Nat, NEW b \in Nat, Bound(k, b)
      PROVE  \E c \in Nat : Bound(k + 1, c)
  <2>1. CASE k + 1 \in 1 .. n
    <3> DEFINE x == f[k + 1]
    <3>1. x \in Nat
      BY <2>1
    <3>2. PICK c \in Nat : b <= c /\ x <= c
      BY <3>1
    <3>3. ASSUME NEW i \in 1 .. n, i <= k + 1 PROVE f[i] <= c
      <4>1. CASE i = k + 1
        BY <3>2, <4>1
      <4>2. CASE i <= k
        <5>1. f[i] <= b /\ f[i] \in Nat
          BY <1>2, <4>2
        <5>2. QED
          BY <3>2, <5>1
      <4>3. QED
        BY <3>3, <4>1, <4>2
    <3>4. QED
      BY <3>3
  <2>2. CASE k + 1 \notin 1 .. n
    <3>1. ASSUME NEW i \in 1 .. n, i <= k + 1 PROVE i <= k
      BY <2>2, <3>1
    <3>2. Bound(k + 1, b)
      BY <1>2, <3>1
    <3>3. QED
      BY <3>2
  <2>3. QED
    BY <2>1, <2>2
<1> HIDE DEF Bound
<1>3. 0 \in P
  BY <1>1
<1>4. ASSUME NEW k \in P PROVE k + 1 \in P
  <2>1. PICK b \in Nat : Bound(k, b)
    OBVIOUS
  <2>2. QED
    BY <1>2, <2>1
<1>5. P = Nat
  BY <1>3, <1>4, Induction
<1>6. PICK b \in Nat : Bound(n, b)
  BY <1>5
<1>7. QED
  BY <1>6 DEF Bound

(* ... and with a bound, a greatest one, which Max finds.                   *)
LEMMA GreatestIn ==
  ASSUME NEW D, D \subseteq Nat, D # {}, NEW b \in Nat, \A d \in D : d <= b
  PROVE  Max(D) \in D
<1> DEFINE B == {c \in Nat : \A d \in D : d <= c}
<1>1. B \subseteq Nat /\ B # {}
  OBVIOUS
<1>2. PICK m \in B : \A n \in B : m <= n
  <2> HIDE DEF B
  <2>1. QED
    BY <1>1, LeastNatural
<1>3. m \in Nat /\ \A d \in D : d \in Nat /\ d <= m
  OBVIOUS
<1>4. m \in D
  <2> SUFFICES ASSUME m \notin D PROVE FALSE
    OBVIOUS
  <2>1. \A d \in D : d < m
    BY <1>3
  <2>2. PICK d \in D : TRUE
    OBVIOUS
  <2>3. m - 1 \in Nat
    BY <1>3, <2>1
  <2>4. \A e \in D : e <= m - 1
    BY <1>3, <2>1
  <2>5. m - 1 \in B
    BY <2>3, <2>4
  <2>6. m <= m - 1
    BY <1>2, <2>5
  <2>7. QED
    BY <1>3, <2>6
<1>5. \E x \in D : \A y \in D : x >= y
  BY <1>3, <1>4
<1>6. QED
  BY <1>5 DEF Max

(* So the database a rewritten file ends in is a number.                    *)
LEMMA GreatestDb ==
  ASSUME NEW s \in Datasets, s # <<>>
  PROVE  Max({w[1] : w \in ToSet(s)}) \in Nat
<1> DEFINE D == {w[1] : w \in ToSet(s)}
           n == Len(s)
           f == [i \in 1 .. n |-> s[i][1]]
<1>1. /\ n \in Nat /\ n # 0 /\ DOMAIN s = 1 .. n
      /\ \A i \in 1 .. n : s[i] \in Nat \X Nat
  BY LenProperties, EmptySeq DEF Datasets
<1> HIDE DEF n
<1>2. /\ \A i \in 1 .. n : f[i] \in Nat
      /\ \A i \in 1 .. n : s[i][1] = f[i]
  BY <1>1
<1>3. \A w \in ToSet(s) : \E i \in 1 .. n : w = s[i]
  BY <1>1 DEF ToSet
<1>4. s[1] \in ToSet(s)
  <2>1. 1 \in DOMAIN s
    BY <1>1
  <2>2. QED
    BY <2>1 DEF ToSet
<1> HIDE DEF f
<1>5. PICK b \in Nat : \A i \in 1 .. n : f[i] <= b
  BY <1>1, <1>2, Bounded
<1>6. D # {}
  BY <1>4
<1>7. ASSUME NEW d \in D PROVE d \in Nat /\ d <= b
  <2>1. PICK w \in ToSet(s) : d = w[1]
    OBVIOUS
  <2>2. PICK i \in 1 .. n : w = s[i]
    BY <1>3
  <2>3. QED
    BY <1>2, <1>5, <2>1, <2>2
<1> HIDE DEF D
<1>8. Max(D) \in D
  BY <1>6, <1>7, GreatestIn
<1>9. QED
  BY <1>7, <1>8 DEF D

(* The child's file loads to the dataset it was written for.                *)
LEMMA Rewritten ==
  ASSUME NEW s \in Datasets
  PROVE  /\ rewriteAppendOnlyFile(s) \in Seq(Commands)
         /\ FakeClient(rewriteAppendOnlyFile(s)).data = s
<1>1. CASE s = <<>>
  BY <1>1, ClientOfNothing DEF rewriteAppendOnlyFile, Start
<1>2. CASE s # <<>>
  <2> DEFINE m == Max({w[1] : w \in ToSet(s)})
             cmd == Command("dataset", m, s)
  <2>1. m \in Nat
    BY <1>2, GreatestDb
  <2> HIDE DEF m
  <2>2. cmd \in Commands
    BY <2>1 DEF Command, Commands
  <2>3. Step(Start, cmd).data = <<>> \o s
    BY DEF Step, Command, Start
  <2>4. rewriteAppendOnlyFile(s) = <<cmd>>
    BY <1>2 DEF rewriteAppendOnlyFile, m
  <2> HIDE DEF cmd
  <2>5. <<cmd>> \in Seq(Commands) /\ <<cmd>> = Append(<<>>, cmd) /\ <<>> \in Seq(Commands)
    BY <2>2
  <2>6. FakeClient(<<cmd>>) = Step(Start, cmd)
    BY <2>2, <2>5, ClientGoesOn, ClientOfNothing
  <2>7. <<>> \o s = s
    BY ConcatEmptySeq DEF Datasets
  <2>8. QED
    BY <2>3, <2>4, <2>5, <2>6, <2>7
<1>3. QED
  BY <1>1, <1>2

-----------------------------------------------------------------------------
(* A file loads to the dataset d, and leaves the database at selected, when *)
(* the server counts on one.                                                *)
Loads(cmds, at, d) ==
  /\ FakeClient(cmds).data = d
  /\ at # NoDb => FakeClient(cmds).db = at

(* What loads from some database loads also when the database is not known. *)
LEMMA LoadsAnywhere ==
  ASSUME NEW cmds, NEW at, NEW d, Loads(cmds, at, d)
  PROVE  Loads(cmds, NoDb, d)
BY DEF Loads

(* Nothing is added by an empty buffer.                                     *)
LEMMA LoadsAlone ==
  ASSUME NEW cmds \in Seq(Commands)
  PROVE  cmds \o <<>> = cmds
BY ConcatEmptySeq

(* Where the buffer is split between file and memory does not matter.       *)
LEMMA Regrouped ==
  ASSUME NEW a \in Seq(Commands), NEW b \in Seq(Commands), NEW c \in Seq(Commands)
  PROVE  (a \o b) \o c = a \o (b \o c)
BY ConcatAssociative

(* A write that is fed to a buffer keeps what is in front of it and the     *)
(* buffer together in step with the dataset.                                *)
LEMMA LoadsFed ==
  ASSUME NEW cmds \in Seq(Commands), NEW more \in Seq(Commands), NEW at, NEW d,
         NEW db \in Nat, NEW n \in Nat, Loads(cmds \o more, at, d)
  PROVE  /\ more \o Fed(at, db, n) \in Seq(Commands)
         /\ Loads(cmds \o (more \o Fed(at, db, n)), db, Append(d, <<db, n>>))
<1> DEFINE fed == Fed(at, db, n)
           all == cmds \o more
<1>1. all \in Seq(Commands)
  BY ConcatProperties
<1>2. at # NoDb => FakeClient(all).db = at
  BY DEF Loads
<1>3. FakeClient(all).data = d
  BY DEF Loads
<1> HIDE DEF all
<1>4. /\ fed \in Seq(Commands)
      /\ FakeClient(all \o fed) = [data |-> Append(d, <<db, n>>), db |-> db]
  BY <1>1, <1>2, <1>3, ClientFed
<1> HIDE DEF fed
<1>5. all \o fed = cmds \o (more \o fed) /\ more \o fed \in Seq(Commands)
  <2>1. more \o fed \in Seq(Commands)
    BY <1>4, ConcatProperties
  <2>2. (cmds \o more) \o fed = cmds \o (more \o fed)
    BY <1>4, Regrouped
  <2>3. QED
    BY <2>1, <2>2 DEF all
<1>6. Loads(all \o fed, db, Append(d, <<db, n>>))
  BY <1>4 DEF Loads
<1>7. QED
  BY <1>5, <1>6 DEF fed

-----------------------------------------------------------------------------
(* The children: a slot holds one child or none.                            *)
Statuses == {"running", "done", "failed", "whitelisted", "reaped"}

Children == [status : Statuses, snapshot : Datasets]

Slots == {<<>>} \cup {<<c>> : c \in Children}

(* An occupied slot holds one child.                                        *)
LEMMA SlotIs ==
  ASSUME NEW x \in Slots, x # <<>>
  PROVE  x[1] \in Children /\ Len(x) = 1 /\ DOMAIN x = {1} /\ x = <<x[1]>>
<1>1. PICK c \in Children : x = <<c>>
  BY DEF Slots
<1>2. QED
  BY <1>1

(* There is at most one child of a kind.                                    *)
LEMMA SlotLength ==
  ASSUME NEW x \in Slots
  PROVE  Len(x) <= 1
BY SlotIs

(* A child just forked is running, with the dataset of its parent.          *)
LEMMA NewChild ==
  ASSUME NEW d \in Datasets
  PROVE  /\ Child(d) \in Slots /\ Child(d) # <<>>
         /\ Child(d)[1].snapshot = d /\ Child(d)[1].status = "running"
BY DEF Child, Slots, Children, Statuses

(* Changing the status of a child leaves its snapshot alone.                *)
LEMMA Marked ==
  ASSUME NEW x \in Slots, x # <<>>, NEW s \in Statuses
  PROVE  /\ [x EXCEPT ![1].status = s] \in Slots /\ [x EXCEPT ![1].status = s] # <<>>
         /\ [x EXCEPT ![1].status = s][1].snapshot = x[1].snapshot
         /\ [x EXCEPT ![1].status = s][1].status = s
<1>1. PICK c \in Children : x = <<c>>
  BY DEF Slots
<1> DEFINE e == [c EXCEPT !.status = s]
<1>2. [x EXCEPT ![1].status = s] = <<e>>
  BY <1>1
<1>3. e \in Children /\ e.snapshot = c.snapshot /\ e.status = s
  BY DEF Children
<1> HIDE DEF e
<1>4. x[1] = c /\ <<e>> \in Slots /\ <<e>> # <<>> /\ <<e>>[1] = e
  BY <1>1, <1>3 DEF Slots
<1>5. QED
  BY <1>2, <1>3, <1>4

(* What FLUSHALL does to a child that is still saving.                      *)
Spared(x) ==
  [i \in DOMAIN x |->
      IF x[i].status = "running" THEN [x[i] EXCEPT !.status = "whitelisted"] ELSE x[i]]

(* A child that FLUSHALL has killed, and whose end nobody has seen yet,     *)
(* still fits its slot.                                                     *)
LEMMA SparedTyped ==
  ASSUME NEW x \in Slots
  PROVE  Spared(x) \in Slots /\ (Spared(x) # <<>> => x # <<>>)
<1>1. CASE x = <<>>
  BY <1>1 DEF Spared, Slots
<1>2. CASE x # <<>>
  <2>1. PICK c \in Children : x = <<c>>
    BY <1>2 DEF Slots
  <2> DEFINE e == IF c.status = "running" THEN [c EXCEPT !.status = "whitelisted"] ELSE c
  <2>2. e \in Children
    BY DEF Children, Statuses
  <2>3. Spared(x) = <<e>>
    BY <2>1 DEF Spared
  <2>4. QED
    BY <1>2, <2>2, <2>3 DEF Slots
<1>3. QED
  BY <1>1, <1>2

(* The fsync jobs of a file that is no longer the current one.              *)
Stale(js) == [i \in DOMAIN js |-> FALSE]

(* The fsync jobs of a replaced file remain jobs.                           *)
LEMMA StaleTyped ==
  ASSUME NEW js \in Seq(BOOLEAN)
  PROVE  Stale(js) \in Seq(BOOLEAN)
<1>1. DOMAIN js = 1 .. Len(js) /\ Len(js) \in Nat
  BY LenProperties
<1>2. [i \in 1 .. Len(js) |-> FALSE] \in Seq(BOOLEAN)
  BY <1>1
<1>3. QED
  BY <1>1, <1>2 DEF Stale

-----------------------------------------------------------------------------
(* The inductive invariant                                                  *)

Budgets == {"writes", "flushes", "saves", "rewrites", "configs", "shutdowns", "mishaps"}

Policies == {"always", "everysec", "no"}

Configured == shape \in Shapes /\ left \in [Budgets -> Nat]

(* While a child saves, what was dirty when it was forked is at most what   *)
(* is dirty now; if it is just as much, there was no write since, and the   *)
(* child's snapshot is the dataset; and so is dump.rdb once it is done,     *)
(* until the child of a killed server renames its own.                      *)
Saved ==
  /\ CleanMeansSaved
  /\ saver # <<>> =>
       /\ before <= dirty
       /\ dirty = before => data = saver[1].snapshot
       /\ dirty = before /\ saver[1].status = "done" => dump = data \/ overwritten

Saving ==
  /\ data \in Datasets /\ dump \in Datasets /\ orphans \subseteq Datasets
  /\ overwritten \in BOOLEAN
  /\ dirty \in Nat /\ before \in Nat /\ status \in {"ok", "err"} /\ saver \in Slots
  /\ Saved

(* The file and the buffer load to the dataset and to the database last     *)
(* selected, without which the next write would go to another one.          *)
Logged == state = "on" => Loads(file.cmds \o buf, selected, data)

(* Under "always" nothing is postponed, and nothing written is unsynced.    *)
Synced ==
  shape.fsync = "always" =>
    /\ ~postponed
    /\ ~shape.noFsyncOnRewrite => file.synced = Len(file.cmds)

FileTyped ==
  /\ state \in {"off", "wait_rewrite", "on"}
  /\ state # "off" => opened
  /\ state # "on" => buf = <<>>
  /\ buf \in Seq(Commands) /\ selected \in shape.dbs \cup {NoDb} /\ postponed \in BOOLEAN
  /\ file \in [cmds : Seq(Commands), synced : Nat] /\ file.synced \in 0 .. Len(file.cmds)
  /\ size \in Nat /\ base \in Nat /\ jobs \in Seq(BOOLEAN)

Writing == FileTyped /\ Logged /\ Synced

(* The child's file and the differences load to the dataset too, unless the *)
(* file is off: a rewrite then collects no differences at all.              *)
RewriteFile == rewriteAppendOnlyFile(rewriter[1].snapshot) \o rwbuf

Rewriting ==
  /\ rewriter \in Slots /\ rwbuf \in Seq(Commands) /\ scheduled \in BOOLEAN
  /\ rewriter = <<>> \/ state = "off" => rwbuf = <<>>
  /\ rewriter # <<>> /\ state # "off" => Loads(RewriteFile, selected, data)

(* What was acknowledged is in the dataset and, unless its write was        *)
(* postponed, in the file.                                                  *)
Acknowledged ==
  /\ acked \in Datasets /\ told \in Datasets /\ IsPast(acked, data)
  /\ state = "on" /\ ~postponed => IsPast(acked, FakeClient(file.cmds).data)

IInv == Configured /\ Saving /\ Writing /\ Rewriting /\ Acknowledged

(* What the invariant says of the configuration.                            *)
LEMMA ShapeFacts ==
  ASSUME Configured
  PROVE  /\ shape.dbs \subseteq Nat /\ shape.appendonly \in BOOLEAN
         /\ shape.fsync \in Policies /\ left \in [Budgets -> Nat]
BY ShapesAssumption DEF Configured, Policies

(* It implies the invariants of the specification.                          *)
LEMMA InvTyped ==
  ASSUME IInv
  PROVE  TypeOK
<1>1. Len(saver) <= 1 /\ Len(rewriter) <= 1
  BY SlotLength DEF IInv, Saving, Rewriting
<1>2. QED
  BY <1>1 DEF IInv, Configured, Saving, Writing, FileTyped, Rewriting, Acknowledged, TypeOK, Datasets

(* The invariant implies that the log is the dataset.                       *)
LEMMA InvLogIsData ==
  ASSUME IInv
  PROVE  LogIsData
BY InvTyped DEF IInv, Writing, Logged, Loads, LogIsData, loadAppendOnlyFile

(* It implies that the rewrite is the dataset.                              *)
LEMMA InvRewriteIsData ==
  ASSUME IInv
  PROVE  RewriteIsData
BY DEF IInv, Rewriting, RewriteFile, Loads, RewriteIsData, loadAppendOnlyFile

(* It implies that a clean dataset has been saved.                          *)
LEMMA InvCleanMeansSaved ==
  ASSUME IInv
  PROVE  CleanMeansSaved
BY DEF IInv, Saving, Saved

-----------------------------------------------------------------------------
(* It holds at the start.                                                   *)
LEMMA Initially ==
  ASSUME Init
  PROVE  IInv
<1> USE DEF Init
<1>1. <<>> \in Seq(Commands) /\ <<>> \in Datasets /\ <<>> \in Seq(BOOLEAN) /\ <<>> \in Slots
  BY EmptySeq DEF Datasets, Slots
<1>2. Len(<<>>) = 0 /\ <<>> \o <<>> = <<>>
  BY LoadsAlone, <1>1
<1>3. Configured
  BY ShapesAssumption DEF Configured, Budgets
<1>4. Saving
  BY <1>1 DEF Saving, Saved, CleanMeansSaved
<1>5. FileTyped
  <2>1. state \in {"off", "wait_rewrite", "on"} /\ (state # "off" => opened)
    BY <1>3, ShapeFacts
  <2>2. /\ file \in [cmds : Seq(Commands), synced : Nat]
        /\ file.synced = 0 /\ Len(file.cmds) = 0 /\ 0 \in 0 .. 0
    BY <1>1, <1>2
  <2>3. QED
    BY <1>1, <2>1, <2>2 DEF FileTyped
<1>6. Logged
  BY <1>2, ClientOfNothing DEF Logged, Loads, Start
<1>7. Synced
  BY <1>2 DEF Synced
<1>8. Rewriting
  BY <1>1 DEF Rewriting
<1>9. Acknowledged
  BY <1>1, ClientOfNothing, SameIsPast DEF Acknowledged, Start
<1>10. QED
  BY <1>3, <1>4, <1>5, <1>6, <1>7, <1>8, <1>9 DEF IInv, Writing

(* Spending from a budget keeps it one.                                     *)
LEMMA SpendTyped ==
  ASSUME Configured, NEW b \in Budgets, Spend(b), shape' = shape
  PROVE  Configured'
BY DEF Configured, Spend

(* A mishap leaves the configuration and its budgets well typed.            *)
LEMMA MishapTyped ==
  ASSUME Configured, NEW m, Mishap(m), shape' = shape
  PROVE  Configured'
BY SpendTyped DEF Mishap, Budgets

(* Each part of the invariant holds on while its variables keep still.      *)
LEMMA StillConfigured ==
  ASSUME Configured, shape' = shape, left' = left
  PROVE  Configured'
BY DEF Configured

(* What is said of snapshots depends on these variables only.               *)
LEMMA StillSaving ==
  ASSUME Saving, UNCHANGED <<data, rdbvars>>
  PROVE  Saving'
BY DEF Saving, Saved, CleanMeansSaved, rdbvars

(* What is said of the log depends on these variables only.                 *)
LEMMA StillWriting ==
  ASSUME Writing, UNCHANGED <<shape, data, state, opened, selected, base, logvars>>
  PROVE  Writing'
BY DEF Writing, FileTyped, Logged, Synced, logvars

(* What is said of the rewrite depends on these variables only.             *)
LEMMA StillRewriting ==
  ASSUME Rewriting, UNCHANGED <<data, state, selected, rewritevars>>
  PROVE  Rewriting'
BY DEF Rewriting, RewriteFile, rewritevars

(* What is said of acknowledged commands depends on these variables only.   *)
LEMMA StillAcknowledged ==
  ASSUME Acknowledged, UNCHANGED <<replies, data, state, postponed, file>>
  PROVE  Acknowledged'
BY DEF Acknowledged, replies

(* A step of the snapshots alone leaves the rest of the invariant as it is. *)
LEMMA OnlySaving ==
  ASSUME IInv, UNCHANGED <<shape, data, replies, state, opened, selected, base, logvars, rewritevars>>
  PROVE  Writing' /\ Rewriting' /\ Acknowledged'
BY StillWriting, StillRewriting, StillAcknowledged DEF IInv, logvars, rewritevars

-----------------------------------------------------------------------------
(* Writes                                                                   *)

(* Feeding a write keeps the file and the rewrite in step with the dataset. *)
LEMMA Feeds ==
  ASSUME Writing, Rewriting, shape.dbs \subseteq Nat,
         NEW db \in shape.dbs, NEW n \in Nat, data' = Append(data, <<db, n>>),
         feedAppendOnlyFile(db, Command("write", n, <<>>)),
         UNCHANGED <<shape, state, opened, postponed, file, size, base, jobs, rewriter, scheduled>>
  PROVE  Writing' /\ Rewriting'
<1> DEFINE fed == Fed(selected, db, n)
<1>1. db \in Nat
  OBVIOUS
<1>2. CASE state = "off"
  <2>1. selected' = selected /\ buf' = buf /\ rwbuf' = rwbuf
    BY <1>2 DEF feedAppendOnlyFile
  <2>2. Writing'
    BY <1>2, <2>1 DEF Writing, FileTyped, Logged, Synced
  <2>3. Rewriting'
    BY <1>2, <2>1 DEF Rewriting
  <2>4. QED
    BY <2>2, <2>3
<1>3. CASE state # "off"
  <2>1. /\ selected' = db
        /\ buf' = IF state = "on" THEN buf \o fed ELSE buf
        /\ rwbuf' = IF rewriter # <<>> THEN rwbuf \o fed ELSE rwbuf
    BY <1>3 DEF feedAppendOnlyFile, Fed
  <2> HIDE DEF fed
  <2>2. Writing'
    <3>1. state = "on" => /\ buf \o fed \in Seq(Commands)
                          /\ Loads(file.cmds \o (buf \o fed), db, data')
      BY <1>1, LoadsFed DEF Writing, FileTyped, Logged, fed
    <3>2. FileTyped'
      BY <2>1, <3>1 DEF Writing, FileTyped
    <3>3. Logged'
      BY <2>1, <3>1 DEF Logged
    <3>4. Synced'
      BY DEF Writing, Synced
    <3>5. QED
      BY <3>2, <3>3, <3>4 DEF Writing
  <2>3. Rewriting'
    <3>1. CASE rewriter = <<>>
      BY <2>1, <3>1 DEF Rewriting
    <3>2. CASE rewriter # <<>>
      <4> DEFINE written == rewriteAppendOnlyFile(rewriter[1].snapshot)
      <4>1. rewriter[1].snapshot \in Datasets
        BY <3>2, SlotIs DEF Rewriting, Children
      <4>2. written \in Seq(Commands)
        BY <4>1, Rewritten
      <4>3. written' = written
        OBVIOUS
      <4>4. Loads(written \o rwbuf, selected, data)
        BY <1>3, <3>2 DEF Rewriting, RewriteFile
      <4> HIDE DEF written
      <4>5. /\ rwbuf \o fed \in Seq(Commands)
            /\ Loads(written \o (rwbuf \o fed), db, data')
        BY <1>1, <4>2, <4>4, LoadsFed DEF Rewriting, fed
      <4>6. Loads(RewriteFile, selected, data)'
        BY <2>1, <3>2, <4>5 DEF RewriteFile, written
      <4>7. QED
        BY <1>3, <2>1, <3>2, <4>5, <4>6 DEF Rewriting
    <3>3. QED
      BY <3>1, <3>2
  <2>4. QED
    BY <2>2, <2>3
<1>4. QED
  BY <1>2, <1>3

(* What was acknowledged stays behind a dataset that only grows.            *)
LEMMA GrownIsPast ==
  ASSUME Acknowledged, data \in Datasets, NEW w \in Nat \X Nat, data' = Append(data, w),
         UNCHANGED <<replies, state, postponed, file>>
  PROVE  Acknowledged' /\ data' \in Datasets
<1>1. Append(data, w) \in Datasets /\ IsPast(data, Append(data, w))
  BY DEF Datasets, IsPast
<1>2. IsPast(acked, data')
  BY <1>1, PastOfPast DEF Acknowledged, Datasets
<1>3. QED
  BY <1>1, <1>2 DEF Acknowledged, replies

(* A write command changes the dataset and feeds the log and the rewrite    *)
(* buffer.                                                                  *)
LEMMA WriteKeeps ==
  ASSUME IInv, Write
  PROVE  IInv'
<1> USE DEF IInv
<1>1. PICK db \in shape.dbs : /\ data' = Append(data, <<db, left.writes>>)
                              /\ feedAppendOnlyFile(db, Command("write", left.writes, <<>>))
  BY DEF Write
<1>2. left.writes \in Nat /\ db \in Nat /\ shape.dbs \subseteq Nat
  BY ShapeFacts DEF Budgets
<1>3. Configured'
  BY SpendTyped DEF Write, Budgets
<1>4. Writing' /\ Rewriting'
  BY <1>1, <1>2, Feeds DEF Write
<1>5. Acknowledged' /\ data' \in Datasets
  BY <1>1, <1>2, GrownIsPast DEF Write, Saving
<1>6. Saving'
  BY <1>5 DEF Saving, Saved, CleanMeansSaved, Write
<1>7. QED
  BY <1>3, <1>4, <1>5, <1>6

(* FLUSHALL does too, kills the child that saves, and saves the dataset     *)
(* itself if there are save points.                                         *)
LEMMA FlushallKeeps ==
  ASSUME IInv, flushall
  PROVE  IInv'
<1> USE DEF IInv
<1>1. PICK db \in shape.dbs : /\ data' = Append(data, <<db, 0>>)
                              /\ feedAppendOnlyFile(db, Command("write", 0, <<>>))
  BY DEF flushall
<1>2. db \in Nat /\ shape.dbs \subseteq Nat /\ 0 \in Nat
  BY ShapeFacts
<1>3. Configured'
  BY SpendTyped DEF flushall, Budgets
<1>4. Writing' /\ Rewriting'
  BY <1>1, <1>2, Feeds DEF flushall
<1>5. Acknowledged' /\ data' \in Datasets
  BY <1>1, <1>2, GrownIsPast DEF flushall, Saving
<1>6. Saving'
  <2>1. saver' \in Slots /\ (saver' # <<>> => saver # <<>>)
    BY SparedTyped DEF Saving, flushall, Spared
  <2>2. /\ dump' \in Datasets /\ status' \in {"ok", "err"}
        /\ dirty' = dirty + 1 /\ before' = before /\ overwritten' \in BOOLEAN
        /\ orphans' \subseteq Datasets
    BY <1>5 DEF Saving, flushall, rdbSave
  <2>3. Saved'
    BY <2>1, <2>2 DEF Saving, Saved, CleanMeansSaved
  <2>4. QED
    BY <1>5, <2>1, <2>2, <2>3 DEF Saving
<1>7. QED
  BY <1>3, <1>4, <1>5, <1>6

-----------------------------------------------------------------------------
(* Flushing                                                                 *)

\* A file is its commands and how many of them are on the disk.
LEMMA FileIs ==
  ASSUME NEW c \in Seq(Commands), NEW n \in Nat
  PROVE  [cmds |-> c, synced |-> n] \in [cmds : Seq(Commands), synced : Nat]
OBVIOUS

(* A flush moves the buffer to the file, syncs what the policy says, or     *)
(* puts the write off.                                                      *)
LEMMA Flushed ==
  ASSUME Writing, flushAppendOnlyFile, shape.fsync \in Policies,
         UNCHANGED <<shape, state, opened, selected, base, data>>
  PROVE  Writing' /\ (postponed' \/ buf' = <<>>)
<1>1. CASE buf = <<>> /\ UNCHANGED logvars
  BY <1>1, StillWriting DEF logvars
<1>2. CASE /\ buf # <<>> /\ shape.fsync = "everysec" /\ jobs # <<>>
           /\ postponed' = TRUE
           /\ UNCHANGED <<buf, file, size, jobs>>
  BY <1>2 DEF Writing, FileTyped, Logged, Synced
<1>3. CASE /\ buf # <<>>
           /\ postponed' = FALSE
           /\ buf' = <<>>
           /\ size' = size + Len(buf)
           /\ file' = Appended(IF shape.fsync = "always" /\ ~SyncSuspended
                               THEN Len(file.cmds) + Len(buf) ELSE file.synced)
           /\ \E newSecond \in BOOLEAN : \/ jobs' = Append(jobs, TRUE)
                                        \/ jobs' = jobs
  <2> DEFINE cmds == file.cmds \o buf
  <2>1. /\ Len(file.cmds) \in Nat /\ Len(buf) \in Nat
        /\ cmds \in Seq(Commands) /\ Len(cmds) = Len(file.cmds) + Len(buf)
    BY LenProperties, ConcatProperties DEF Writing, FileTyped
  <2>2. /\ file'.cmds = cmds
        /\ file'.synced = IF shape.fsync = "always" /\ ~SyncSuspended
                          THEN Len(file.cmds) + Len(buf) ELSE file.synced
    BY <1>3 DEF Appended
  <2>3. file' = [cmds |-> cmds, synced |-> file'.synced]
    BY <1>3 DEF Appended
  <2>4. cmds \o <<>> = cmds
    BY <2>1, LoadsAlone
  <2>5. Logged'
    BY <1>3, <2>2, <2>4 DEF Writing, Logged
  <2> HIDE DEF cmds
  <2>6. shape.fsync = "always" /\ ~shape.noFsyncOnRewrite => file'.synced = Len(cmds)
    BY <2>1, <2>2 DEF SyncSuspended
  <2>7. Synced'
    BY <1>3, <2>2, <2>6 DEF Synced
  <2>8. file'.synced \in 0 .. Len(cmds)
    BY <2>1, <2>2 DEF Writing, FileTyped
  <2>9. file' \in [cmds : Seq(Commands), synced : Nat]
    <3>1. PICK m : m = file'.synced
      OBVIOUS
    <3>2. m \in Nat
      BY <2>1, <2>8, <3>1
    <3>3. [cmds |-> cmds, synced |-> m] \in [cmds : Seq(Commands), synced : Nat]
      BY <2>1, <3>2, FileIs
    <3>4. file' = [cmds |-> cmds, synced |-> m]
      BY <2>3, <3>1
    <3>5. QED
      BY <3>3, <3>4
  <2>10. jobs' \in Seq(BOOLEAN)
    <3>1. jobs \in Seq(BOOLEAN) /\ (jobs' = Append(jobs, TRUE) \/ jobs' = jobs)
      BY <1>3 DEF Writing, FileTyped
    <3>2. Append(jobs, TRUE) \in Seq(BOOLEAN)
      BY <3>1, AppendProperties
    <3>3. QED
      BY <3>1, <3>2
  <2>11. <<>> \in Seq(Commands) /\ size' \in Nat
    BY <1>3, <2>1 DEF Writing, FileTyped
  <2>12. FileTyped'
    BY <1>3, <2>2, <2>8, <2>9, <2>10, <2>11 DEF Writing, FileTyped
  <2>13. QED
    BY <1>3, <2>5, <2>7, <2>12 DEF Writing
<1>4. QED
  BY <1>1, <1>2, <1>3, Zenon DEF flushAppendOnlyFile

(* A file whose buffer is empty loads what it should.                       *)
LEMMA FileReplays ==
  ASSUME NEW cmds \in Seq(Commands), NEW at, NEW d, Loads(cmds \o <<>>, at, d)
  PROVE  FakeClient(cmds).data = d
BY LoadsAlone DEF Loads

(* With an empty buffer the file alone has all that was acknowledged.       *)
LEMMA AcknowledgedByFile ==
  ASSUME Writing', acked' \in Datasets, told' \in Datasets, IsPast(acked', data'),
         postponed' \/ buf' = <<>>
  PROVE  Acknowledged'
<1>1. CASE postponed'
  BY <1>1 DEF Acknowledged
<1>2. CASE buf' = <<>> /\ state' = "on"
  <2>1. file'.cmds \in Seq(Commands) /\ Loads(file'.cmds \o <<>>, selected', data')
    BY <1>2 DEF Writing, FileTyped, Logged
  <2>2. FakeClient(file'.cmds).data = data'
    BY <2>1, FileReplays
  <2>3. QED
    BY <2>2 DEF Acknowledged
<1>3. CASE state' # "on"
  BY <1>3 DEF Acknowledged
<1>4. QED
  BY <1>1, <1>2, <1>3

(* beforeSleep flushes the buffer; only then are the clients answered.      *)
LEMMA BeforeSleepKeeps ==
  ASSUME IInv, beforeSleep
  PROVE  IInv'
<1> USE DEF IInv
<1>1. Configured' /\ Saving' /\ Rewriting'
  BY StillConfigured, StillSaving, StillRewriting DEF beforeSleep, rdbvars
<1>2. Writing' /\ (postponed' \/ buf' = <<>>)
  BY ShapeFacts, Flushed DEF beforeSleep
<1>3. acked' \in Datasets /\ told' \in Datasets /\ IsPast(acked', data')
  BY SameIsPast DEF beforeSleep, Saving
<1>4. QED
  BY <1>1, <1>2, <1>3, AcknowledgedByFile

(* A reply that leaves before the flush is not one of those that count.     *)
LEMMA ProcessEventsKeeps ==
  ASSUME IInv, aeProcessEvents
  PROVE  IInv'
<1> USE DEF IInv, aeProcessEvents
<1>1. Configured' /\ Saving' /\ Writing' /\ Rewriting'
  BY StillConfigured, StillSaving, StillWriting, StillRewriting
<1>2. Acknowledged'
  BY DEF Acknowledged, Saving, logvars
<1>3. QED
  BY <1>1, <1>2

(* serverCron flushes a buffer whose write was postponed.                   *)
LEMMA FlushPostponedKeeps ==
  ASSUME IInv, FlushPostponed
  PROVE  IInv'
<1> USE DEF IInv
<1>1. Configured' /\ Saving' /\ Rewriting'
  BY StillConfigured, StillSaving, StillRewriting DEF FlushPostponed, rdbvars
<1>2. Writing' /\ (postponed' \/ buf' = <<>>)
  BY ShapeFacts, Flushed DEF FlushPostponed
<1>3. acked' \in Datasets /\ told' \in Datasets /\ IsPast(acked', data')
  BY DEF FlushPostponed, Acknowledged, replies
<1>4. QED
  BY <1>1, <1>2, <1>3, AcknowledgedByFile

(* The background thread has done a job: more of the file is synced, or a   *)
(* replaced file is.                                                        *)
LEMMA BioKeeps ==
  ASSUME IInv, bioProcessBackgroundJobs
  PROVE  IInv'
<1> USE DEF IInv
<1>1. Configured' /\ Saving' /\ Rewriting'
  BY StillConfigured, StillSaving, StillRewriting DEF bioProcessBackgroundJobs, rdbvars
<1>2. /\ jobs # <<>> /\ jobs' = Tail(jobs)
      /\ file' = [file EXCEPT !.synced = IF Head(jobs) THEN Len(file.cmds) ELSE @]
      /\ UNCHANGED <<shape, data, replies, state, opened, buf, selected, postponed, size, base>>
  BY DEF bioProcessBackgroundJobs, rewritevars
<1>3. jobs' \in Seq(BOOLEAN)
  BY <1>2, HeadTailProperties DEF Writing, FileTyped
<1>4. /\ Len(file.cmds) \in Nat /\ file.synced \in Nat
      /\ file.synced \in 0 .. Len(file.cmds) /\ Len(file.cmds) \in 0 .. Len(file.cmds)
  <2>1. Len(file.cmds) \in Nat
    BY LenProperties DEF Writing, FileTyped
  <2>2. file.synced \in 0 .. Len(file.cmds)
    BY DEF Writing, FileTyped
  <2>3. QED
    BY <2>1, <2>2
<1> DEFINE n == IF Head(jobs) THEN Len(file.cmds) ELSE file.synced
<1>5. n = file.synced \/ n = Len(file.cmds)
  BY Zenon
<1>6. n \in Nat /\ n \in 0 .. Len(file.cmds)
  BY <1>4, <1>5, Zenon
<1>7. file' = [file EXCEPT !.synced = n]
  BY <1>2
<1> HIDE DEF n
<1>8. /\ file' \in [cmds : Seq(Commands), synced : Nat]
      /\ file'.cmds = file.cmds /\ file'.synced = n
  BY <1>6, <1>7 DEF Writing, FileTyped
<1>9. FileTyped'
  BY <1>2, <1>3, <1>6, <1>8 DEF Writing, FileTyped
<1>10. Logged' /\ Synced'
  BY <1>2, <1>5, <1>8 DEF Writing, Logged, Synced
<1>11. Acknowledged'
  BY <1>2, <1>8 DEF Acknowledged, replies
<1>12. QED
  BY <1>1, <1>9, <1>10, <1>11 DEF Writing

-----------------------------------------------------------------------------
(* Rewrites                                                                 *)

(* A rewrite starts from the dataset, with no differences.                  *)
LEMMA RewriteStarts ==
  ASSUME data \in Datasets, Rewriting, rewriter = <<>>, rewriteAppendOnlyFileBackground,
         data' = data
  PROVE  Rewriting'
<1> USE DEF rewriteAppendOnlyFileBackground
<1>1. rewriter' \in Slots /\ rewriter'[1].snapshot = data
  BY NewChild
<1>2. rwbuf' = <<>> /\ rwbuf' \in Seq(Commands)
  BY DEF Rewriting
<1>3. rewriteAppendOnlyFile(data) \in Seq(Commands) /\ FakeClient(rewriteAppendOnlyFile(data)).data = data
  BY Rewritten
<1>4. rewriteAppendOnlyFile(data) \o <<>> = rewriteAppendOnlyFile(data)
  BY <1>3, LoadsAlone
<1>5. Loads(rewriteAppendOnlyFile(data) \o <<>>, NoDb, data)
  BY <1>3, <1>4 DEF Loads
<1>6. Loads(RewriteFile, selected, data)'
  BY <1>1, <1>2, <1>5 DEF RewriteFile
<1>7. QED
  BY <1>1, <1>2, <1>6 DEF Rewriting

(* Forgetting the selected database asks less of the file.                  *)
LEMMA Unselected ==
  ASSUME Writing, selected' = NoDb,
         UNCHANGED <<shape, data, state, opened, base, logvars>>
  PROVE  Writing'
<1>1. Logged'
  BY LoadsAnywhere DEF Writing, Logged, logvars
<1>2. QED
  BY <1>1 DEF Writing, FileTyped, Synced, logvars

(* BGREWRITEAOF forks the rewriter, or schedules it.                        *)
LEMMA BgrewriteaofKeeps ==
  ASSUME IInv, bgrewriteaofCommand
  PROVE  IInv'
<1> USE DEF IInv, bgrewriteaofCommand
<1>1. Configured' /\ Saving' /\ Acknowledged'
  BY SpendTyped, StillSaving, StillAcknowledged DEF Budgets, rdbvars, logvars
<1>2. CASE saver # <<>>
  <2>1. scheduled' = TRUE /\ UNCHANGED <<rewriter, rwbuf, selected>>
    BY <1>2
  <2>2. Writing'
    BY <2>1, StillWriting
  <2>3. Rewriting'
    BY <2>1 DEF Rewriting, RewriteFile
  <2>4. QED
    BY <1>1, <2>2, <2>3
<1>3. CASE saver = <<>>
  <2>1. rewriteAppendOnlyFileBackground
    BY <1>3
  <2>2. Rewriting'
    BY <2>1, RewriteStarts DEF Saving
  <2>3. Writing'
    BY <2>1, Unselected DEF rewriteAppendOnlyFileBackground
  <2>4. QED
    BY <1>1, <2>2, <2>3
<1>4. QED
  BY <1>2, <1>3

(* serverCron does so when the file has grown, or a rewrite was scheduled.  *)
LEMMA CronRewriteKeeps ==
  ASSUME IInv, CronRewrite
  PROVE  IInv'
<1> USE DEF IInv, CronRewrite
<1>1. Configured' /\ Saving' /\ Acknowledged'
  BY StillConfigured, StillSaving, StillAcknowledged DEF rdbvars, logvars
<1>2. Rewriting'
  BY RewriteStarts DEF Saving
<1>3. Writing'
  BY Unselected DEF rewriteAppendOnlyFileBackground
<1>4. QED
  BY <1>1, <1>2, <1>3

(* The child ends: it has written its snapshot, or failed.                  *)
LEMMA RewriterEndsKeeps ==
  ASSUME IInv, RewriterEnds
  PROVE  IInv'
<1> USE DEF IInv, RewriterEnds
<1>1. Saving' /\ Acknowledged' /\ Writing'
  BY StillSaving, StillAcknowledged, StillWriting DEF rdbvars, logvars
<1>2. Configured'
  BY StillConfigured, MishapTyped
<1>3. PICK s \in {"done", "failed"} : rewriter' = [rewriter EXCEPT ![1].status = s]
  OBVIOUS
<1>4. rewriter' \in Slots /\ rewriter'[1].snapshot = rewriter[1].snapshot
  <2>1. s \in Statuses /\ rewriter \in Slots /\ rewriter # <<>>
    BY DEF Rewriting, Statuses
  <2>2. QED
    BY <1>3, <2>1, Marked
<1>5. Rewriting'
  BY <1>4 DEF Rewriting, RewriteFile
<1>6. QED
  BY <1>1, <1>2, <1>5

(* The new file has what the old one and the buffer had: if the file is on  *)
(* or about to be, because the rewrite was kept in step; if it is off, the  *)
(* file claims nothing.                                                     *)
LEMMA SwitchKeeps ==
  ASSUME IInv, rewriter # <<>>, SwitchFile, shape.fsync \in Policies,
         UNCHANGED <<shape, data, replies, opened, postponed>>
  PROVE  Writing' /\ Acknowledged' /\ (state' = "off" <=> state = "off")
<1> USE DEF IInv
<1> DEFINE written == rewriteAppendOnlyFile(rewriter[1].snapshot)
           cmds == written \o rwbuf
<1>1. /\ file' = [cmds |-> cmds, synced |-> IF opened /\ shape.fsync = "always"
                                         THEN Len(cmds) ELSE Len(written)]
      /\ state' = IF state = "wait_rewrite" THEN "on" ELSE state
      /\ opened => /\ jobs' = Append(Stale(jobs), TRUE) \/ jobs' = Stale(jobs)
                   /\ selected' = NoDb /\ buf' = <<>>
                   /\ size' = Len(cmds) /\ base' = Len(cmds)
      /\ ~opened => jobs' = Stale(jobs) /\ UNCHANGED <<selected, size, base, buf>>
  BY DEF SwitchFile, Stale
<1>2. written \in Seq(Commands) /\ rwbuf \in Seq(Commands)
  <2>1. rewriter[1].snapshot \in Datasets
    BY SlotIs DEF Rewriting, Children
  <2>2. QED
    BY <2>1, Rewritten DEF Rewriting
<1>3. state # "off" => Loads(cmds, selected, data)
  BY DEF Rewriting, RewriteFile
<1> HIDE DEF written
<1>4. /\ cmds \in Seq(Commands) /\ Len(cmds) = Len(written) + Len(rwbuf)
      /\ Len(written) \in Nat /\ Len(rwbuf) \in Nat
  BY <1>2, ConcatProperties, LenProperties
<1>5. state = "off" => cmds = written /\ Len(cmds) = Len(written)
  BY <1>2, LoadsAlone DEF Rewriting
<1> HIDE DEF cmds
<1>6. /\ file'.cmds = cmds
      /\ file'.synced \in 0 .. Len(cmds) /\ file'.synced \in Nat
      /\ shape.fsync = "always" => file'.synced = Len(cmds)
  <2>1. file'.cmds = cmds /\ (file'.synced = Len(cmds) \/ file'.synced = Len(written))
    BY <1>1
  <2>2. shape.fsync = "always" /\ state # "off" => file'.synced = Len(cmds)
    BY <1>1 DEF Writing, FileTyped
  <2>3. state = "off" => file'.synced = Len(cmds)
    BY <1>5, <2>1
  <2>4. QED
    BY <1>4, <2>1, <2>2, <2>3
<1>7. file' \in [cmds : Seq(Commands), synced : Nat]
  <2>1. file' = [cmds |-> cmds, synced |-> file'.synced]
    BY <1>1
  <2>2. QED
    BY <1>4, <1>6, <2>1
<1>8. jobs' \in Seq(BOOLEAN)
  <2>1. Stale(jobs) \in Seq(BOOLEAN)
    BY StaleTyped DEF Writing, FileTyped
  <2>2. Append(Stale(jobs), TRUE) \in Seq(BOOLEAN)
    BY <2>1, AppendProperties
  <2>3. jobs' = Append(Stale(jobs), TRUE) \/ jobs' = Stale(jobs)
    BY <1>1
  <2>4. QED
    BY <2>1, <2>2, <2>3
<1>9. state' \in {"off", "wait_rewrite", "on"} /\ (state' = "off" <=> state = "off")
  BY <1>1 DEF Writing, FileTyped
<1>10. state' # "off" => opened /\ buf' = <<>> /\ selected' = NoDb
  BY <1>1, <1>9 DEF Writing, FileTyped
<1>11. /\ buf' \in Seq(Commands) /\ selected' \in shape'.dbs \cup {NoDb}
       /\ size' \in Nat /\ base' \in Nat /\ (state' # "on" => buf' = <<>>)
  <2>1. <<>> \in Seq(Commands)
    OBVIOUS
  <2>2. CASE opened
    BY <1>1, <1>4, <2>1, <2>2
  <2>3. CASE ~opened
    BY <1>1, <2>3 DEF Writing, FileTyped
  <2>4. QED
    BY <2>2, <2>3
<1>12. FileTyped'
  BY <1>6, <1>7, <1>8, <1>9, <1>10, <1>11 DEF Writing, FileTyped
<1>13. Logged'
  <2>1. state # "off" => Loads(cmds \o <<>>, NoDb, data)
    BY <1>3, <1>4, LoadsAlone, LoadsAnywhere
  <2>2. QED
    BY <1>6, <1>9, <1>10, <2>1 DEF Logged
<1>14. Synced'
  BY <1>6 DEF Writing, Synced
<1>15. Writing'
  BY <1>12, <1>13, <1>14 DEF Writing
<1>16. Acknowledged'
  BY <1>3, <1>6, <1>9 DEF Acknowledged, Loads, replies
<1>17. QED
  BY <1>9, <1>15, <1>16

(* The parent appends the rewrite's differences and puts the new file in    *)
(* place.                                                                   *)
LEMMA RewriteDoneKeeps ==
  ASSUME IInv, backgroundRewriteDoneHandler
  PROVE  IInv'
<1> USE DEF IInv
<1>1. Saving'
  BY StillSaving DEF backgroundRewriteDoneHandler, rdbvars
<1>2. Configured'
  BY StillConfigured, MishapTyped DEF backgroundRewriteDoneHandler
<1>3. Writing' /\ Acknowledged'
  <2>1. CASE SwitchFile
    BY <2>1, SwitchKeeps, ShapeFacts DEF backgroundRewriteDoneHandler, Ended
  <2>2. CASE UNCHANGED <<file, state, jobs, selected, size, base, buf>>
    <3>1. UNCHANGED <<shape, data, replies, opened, postponed>>
      BY DEF backgroundRewriteDoneHandler
    <3>2. QED
      BY <2>2, <3>1, StillWriting, StillAcknowledged DEF logvars
  <2>3. QED
    BY <2>1, <2>2 DEF backgroundRewriteDoneHandler
<1>4. Rewriting'
  <2>1. rewriter' = <<>> /\ rwbuf' = <<>> /\ scheduled' \in BOOLEAN
    BY DEF backgroundRewriteDoneHandler
  <2>2. <<>> \in Slots /\ <<>> \in Seq(Commands)
    BY DEF Slots
  <2>3. QED
    BY <2>1, <2>2 DEF Rewriting
<1>5. QED
  BY <1>1, <1>2, <1>3, <1>4

-----------------------------------------------------------------------------
(* CONFIG SET appendonly                                                    *)

\* Stopping syncs what is buffered and forgets the rewrite.
LEMMA StopKeeps ==
  ASSUME IInv, stopAppendOnly
  PROVE  IInv'
<1> USE DEF IInv
<1> DEFINE cmds == file.cmds \o buf
<1>1. Configured'
  BY SpendTyped DEF stopAppendOnly, Budgets
<1>2. saver' \in Slots /\ (saver' # <<>> =>
          /\ saver # <<>> /\ saver'[1].snapshot = saver[1].snapshot
          /\ saver'[1].status = "done" => saver[1].status = "done")
  <2>1. CASE saver' = saver
    BY <2>1 DEF Saving
  <2>2. CASE saver # <<>> /\ saver' = [saver EXCEPT ![1].status = "reaped"]
    <3>1. "reaped" \in Statuses /\ saver \in Slots
      BY DEF Statuses, Saving
    <3>2. /\ saver' \in Slots /\ saver'[1].snapshot = saver[1].snapshot
          /\ saver'[1].status = "reaped"
      BY <2>2, <3>1, Marked
    <3>3. QED
      BY <2>2, <3>2
  <2>3. QED
    BY <2>1, <2>2 DEF stopAppendOnly, Ended
<1>3. Saving'
  <2>1. UNCHANGED <<data, dirty, before, status, dump, orphans, overwritten>>
    BY DEF stopAppendOnly
  <2>2. Saved'
    BY <1>2, <2>1 DEF Saving, Saved, CleanMeansSaved
  <2>3. QED
    BY <1>2, <2>1, <2>2 DEF Saving
<1>4. /\ Len(file.cmds) \in Nat /\ Len(buf) \in Nat
      /\ cmds \in Seq(Commands) /\ Len(cmds) = Len(file.cmds) + Len(buf)
  BY LenProperties, ConcatProperties DEF Writing, FileTyped
<1>5. file' = [cmds |-> cmds, synced |-> Len(file.cmds) + Len(buf)]
  BY DEF stopAppendOnly, Appended
<1> HIDE DEF cmds
<1>6. /\ file' \in [cmds : Seq(Commands), synced : Nat]
      /\ file'.cmds = cmds /\ file'.synced = Len(cmds) /\ file'.synced \in 0 .. Len(cmds)
  BY <1>4, <1>5
<1>7. jobs' \in Seq(BOOLEAN)
  BY StaleTyped DEF Writing, FileTyped, stopAppendOnly, Stale
<1>8. postponed' \in BOOLEAN /\ (~postponed => ~postponed')
  BY DEF Writing, FileTyped, stopAppendOnly
<1>9. /\ state' = "off" /\ buf' = <<>> /\ buf' \in Seq(Commands) /\ selected' = NoDb
      /\ size' \in Nat /\ base' \in Nat /\ shape' = shape
  BY <1>4 DEF Writing, FileTyped, stopAppendOnly
<1>10. FileTyped'
  BY <1>6, <1>7, <1>8, <1>9 DEF FileTyped
<1>11. Logged'
  BY <1>9 DEF Logged
<1>12. Synced'
  BY <1>6, <1>8, <1>9 DEF Writing, Synced
<1>13. Rewriting'
  <2>1. rewriter' = <<>> /\ rwbuf' = <<>> /\ scheduled' \in BOOLEAN
    BY DEF stopAppendOnly, Rewriting
  <2>2. <<>> \in Slots /\ <<>> \in Seq(Commands)
    BY DEF Slots
  <2>3. QED
    BY <2>1, <2>2 DEF Rewriting
<1>14. Acknowledged'
  BY <1>9 DEF stopAppendOnly, Acknowledged, replies
<1>15. QED
  BY <1>1, <1>3, <1>10, <1>11, <1>12, <1>13, <1>14 DEF Writing

(* CONFIG SET appendonly yes opens a file and forks a rewriter.             *)
LEMMA StartKeeps ==
  ASSUME IInv, startAppendOnly
  PROVE  IInv'
<1> USE DEF IInv
<1>1. Configured' /\ Saving'
  BY SpendTyped, StillSaving DEF startAppendOnly, Budgets, rdbvars
<1>2. UNCHANGED <<shape, data, replies, base, logvars>> /\ state = "off" /\ opened' = TRUE
  BY DEF startAppendOnly
<1>3. CASE /\ rewriter = <<>> /\ rewriteAppendOnlyFileBackground /\ state' = "wait_rewrite"
  <2>1. Rewriting'
    BY <1>2, <1>3, RewriteStarts DEF Saving
  <2>2. selected' = NoDb
    BY <1>3 DEF rewriteAppendOnlyFileBackground
  <2>3. Writing'
    BY <1>2, <1>3, <2>2 DEF Writing, FileTyped, Logged, Synced, logvars
  <2>4. Acknowledged'
    BY <1>2, <1>3 DEF Acknowledged, replies
  <2>5. QED
    BY <1>1, <2>1, <2>3, <2>4
<1>4. CASE UNCHANGED <<state, rewriter, rwbuf, scheduled, selected>>
  <2>1. Rewriting'
    BY <1>2, <1>4, StillRewriting DEF rewritevars
  <2>2. Writing'
    BY <1>2, <1>4 DEF Writing, FileTyped, Logged, Synced, logvars
  <2>3. Acknowledged'
    BY <1>2, <1>4, StillAcknowledged DEF logvars
  <2>4. QED
    BY <1>1, <2>1, <2>2, <2>3
<1>5. QED
  BY <1>3, <1>4 DEF startAppendOnly

-----------------------------------------------------------------------------
(* Snapshots                                                                *)

\* A child that saves starts from the present dataset.
LEMMA SaveStarts ==
  ASSUME Saving, rdbSaveBackground, data' = data
  PROVE  Saving'
<1>1. saver' \in Slots /\ saver'[1].snapshot = data /\ saver'[1].status = "running"
  BY NewChild DEF Saving, rdbSaveBackground
<1>2. QED
  BY <1>1 DEF Saving, Saved, CleanMeansSaved, rdbSaveBackground

(* SAVE writes the dataset itself.                                          *)
LEMMA SaveCommandKeeps ==
  ASSUME IInv, saveCommand
  PROVE  IInv'
<1> USE DEF IInv
<1>1. Configured' /\ Writing' /\ Rewriting' /\ Acknowledged'
  BY SpendTyped, OnlySaving DEF saveCommand, Budgets
<1>2. Saving'
  BY DEF saveCommand, rdbSave, Saving, Saved, CleanMeansSaved
<1>3. QED
  BY <1>1, <1>2

(* BGSAVE forks a child that does.                                          *)
LEMMA BgsaveKeeps ==
  ASSUME IInv, bgsaveCommand
  PROVE  IInv'
<1> USE DEF IInv
<1>1. Configured' /\ Writing' /\ Rewriting' /\ Acknowledged'
  BY SpendTyped, OnlySaving DEF bgsaveCommand, Budgets
<1>2. Saving'
  BY SaveStarts DEF bgsaveCommand
<1>3. QED
  BY <1>1, <1>2

(* serverCron forks it when a save point is reached.                        *)
LEMMA CronSaveKeeps ==
  ASSUME IInv, CronSave
  PROVE  IInv'
<1> USE DEF IInv
<1>1. Writing' /\ Rewriting' /\ Acknowledged'
  BY OnlySaving DEF CronSave
<1>2. Configured'
  BY StillConfigured, MishapTyped DEF CronSave, ForkFails
<1>3. Saving'
  <2>1. CASE rdbSaveBackground
    BY <2>1, SaveStarts DEF CronSave
  <2>2. CASE ForkFails
    BY <2>2 DEF CronSave, ForkFails, Saving, Saved, CleanMeansSaved
  <2>3. QED
    BY <2>1, <2>2 DEF CronSave
<1>4. QED
  BY <1>1, <1>2, <1>3

(* A child that ends well has renamed its snapshot to dump.rdb.             *)
LEMMA SaverEndsKeeps ==
  ASSUME IInv, SaverEnds
  PROVE  IInv'
<1> USE DEF IInv
<1>1. Writing' /\ Rewriting' /\ Acknowledged'
  BY OnlySaving DEF SaverEnds
<1>2. Configured'
  BY StillConfigured, MishapTyped DEF SaverEnds
<1>3. UNCHANGED <<data, dirty, before, status, orphans>> /\ saver # <<>> /\ saver \in Slots
  BY DEF SaverEnds, Saving
<1>4. saver[1].snapshot \in Datasets
  BY <1>3, SlotIs DEF Children
<1>5. CASE saver' = [saver EXCEPT ![1].status = "done"] /\ dump' = saver[1].snapshot
            /\ overwritten' = FALSE
  <2>1. /\ saver' \in Slots /\ saver'[1].snapshot = saver[1].snapshot
        /\ saver'[1].status = "done"
    BY <1>3, <1>5, Marked DEF Statuses
  <2>2. Saved'
    BY <1>3, <1>5, <2>1 DEF Saving, Saved, CleanMeansSaved
  <2>3. Saving'
    BY <1>3, <1>4, <1>5, <2>1, <2>2 DEF Saving
  <2>4. QED
    BY <1>1, <1>2, <2>3
<1>6. CASE saver' = [saver EXCEPT ![1].status = "failed"] /\ UNCHANGED <<dump, overwritten>>
  <2>1. /\ saver' \in Slots /\ saver'[1].snapshot = saver[1].snapshot
        /\ saver'[1].status = "failed"
    BY <1>3, <1>6, Marked DEF Statuses
  <2>2. Saved'
    BY <1>3, <1>6, <2>1 DEF Saving, Saved, CleanMeansSaved
  <2>3. Saving'
    BY <1>3, <1>6, <2>1, <2>2 DEF Saving
  <2>4. QED
    BY <1>1, <1>2, <2>3
<1>7. QED
  BY <1>5, <1>6 DEF SaverEnds

(* The count is brought down by what the child has saved: to nothing only   *)
(* if there was no write since the fork.                                    *)
LEMMA SaveDoneKeeps ==
  ASSUME IInv, backgroundSaveDoneHandler
  PROVE  IInv'
<1> USE DEF IInv
<1>1. Configured' /\ Writing' /\ Rewriting' /\ Acknowledged'
  BY StillConfigured, OnlySaving DEF backgroundSaveDoneHandler
<1>2. /\ saver # <<>> /\ saver' = <<>> /\ UNCHANGED <<data, dump, before, orphans, overwritten>>
      /\ dirty' = IF saver[1].status = "done" THEN dirty - before ELSE dirty
  BY DEF backgroundSaveDoneHandler, Ended
<1>3. saver[1].status \in {"done", "failed", "whitelisted"}
  BY SlotIs DEF backgroundSaveDoneHandler, Ended, Saving, Children, Statuses
<1>4. status' \in {"ok", "err"}
  BY <1>3 DEF backgroundSaveDoneHandler, Saving
<1>5. dirty' \in Nat
  BY <1>2 DEF Saving, Saved
<1>6. Saved'
  BY <1>2 DEF Saving, Saved, CleanMeansSaved
<1>7. Saving'
  BY <1>2, <1>4, <1>5, <1>6 DEF Saving, Slots
<1>8. QED
  BY <1>1, <1>7

-----------------------------------------------------------------------------
(* The end of the process                                                   *)

(* A server that loads a file, or a dump, starts in the invariant.          *)
LEMMA LoadKeeps ==
  ASSUME Configured, Configured', NEW kind, NEW cmds \in Seq(Commands), NEW synced \in 0 .. Len(cmds),
         NEW snapshot \in Datasets, loadDataFromDisk(kind, cmds, synced, snapshot),
         orphans' \subseteq Datasets,
         shape.fsync = "always" /\ ~shape.noFsyncOnRewrite => synced = Len(cmds)
  PROVE  IInv'
<1> DEFINE loaded == IF shape.appendonly THEN loadAppendOnlyFile(cmds) ELSE snapshot
<1>1. /\ data' = loaded /\ acked' = loaded /\ told' = loaded
      /\ dump' = snapshot /\ overwritten' = FALSE
      /\ file' = [cmds |-> cmds, synced |-> synced]
      /\ dirty' = IF shape.appendonly THEN Len(loaded) ELSE 0
      /\ before' = 0 /\ status' = "ok" /\ saver' = <<>>
      /\ state' = IF shape.appendonly THEN "on" ELSE "off"
      /\ opened' = shape.appendonly
      /\ buf' = <<>> /\ selected' = NoDb /\ postponed' = FALSE
      /\ size' = IF shape.appendonly THEN Len(cmds) ELSE 0
      /\ base' = size'
      /\ jobs' = <<>>
      /\ rewriter' = <<>> /\ rwbuf' = <<>> /\ scheduled' = FALSE
      /\ shape' = shape
  BY DEF loadDataFromDisk
<1>2. shape.appendonly \in BOOLEAN
  BY ShapeFacts
<1>3. /\ <<>> \in Slots /\ <<>> \in Seq(Commands) /\ <<>> \in Seq(BOOLEAN)
      /\ Len(cmds) \in Nat
  BY LenProperties DEF Slots
<1>4. loadAppendOnlyFile(cmds) \in Datasets
  BY ClientTyped DEF Clients, loadAppendOnlyFile
<1>5. /\ loaded \in Datasets
      /\ shape.appendonly => loaded = FakeClient(cmds).data
      /\ ~shape.appendonly => loaded = snapshot
  BY <1>2, <1>4 DEF loadAppendOnlyFile
<1> HIDE DEF loaded
<1>6. Len(loaded) \in Nat /\ (Len(loaded) = 0 => loaded = <<>>)
  BY <1>5, LenProperties, EmptySeq DEF Datasets
<1>7. Saving'
  <2>1. CleanMeansSaved'
    BY <1>1, <1>2, <1>5, <1>6 DEF CleanMeansSaved
  <2>2. dirty' \in Nat /\ before' \in Nat
    BY <1>1, <1>2, <1>6
  <2>3. QED
    BY <1>1, <1>3, <1>5, <2>1, <2>2 DEF Saving, Saved
<1>8. /\ file' \in [cmds : Seq(Commands), synced : Nat]
      /\ file'.cmds = cmds /\ file'.synced = synced
  BY <1>1, <1>3
<1>9. /\ state' \in {"off", "wait_rewrite", "on"}
      /\ state' # "off" => opened'
      /\ state' = "on" => shape.appendonly
      /\ size' \in Nat
  BY <1>1, <1>2, <1>3
<1>10. FileTyped'
  BY <1>1, <1>3, <1>8, <1>9 DEF FileTyped
<1>11. Logged'
  <2>1. cmds \o <<>> = cmds
    BY LoadsAlone
  <2>2. QED
    BY <1>1, <1>5, <1>8, <1>9, <2>1 DEF Logged, Loads
<1>12. Synced'
  BY <1>1, <1>8 DEF Synced
<1>13. Rewriting'
  BY <1>1, <1>3 DEF Rewriting
<1>14. Acknowledged'
  BY <1>1, <1>5, <1>8, <1>9, SameIsPast DEF Acknowledged
<1>15. QED
  BY <1>7, <1>10, <1>11, <1>12, <1>13, <1>14 DEF IInv, Writing

(* What the invariant says of the file when the server stops.               *)
LEMMA FileFacts ==
  ASSUME IInv
  PROVE  /\ file.cmds \in Seq(Commands) /\ file.synced \in 0 .. Len(file.cmds)
         /\ Len(file.cmds) \in Nat /\ Len(file.cmds) \in 0 .. Len(file.cmds)
         /\ data \in Datasets /\ dump \in Datasets /\ acked \in Datasets
         /\ orphans \subseteq Datasets
         /\ IsPast(acked, data)
         /\ shape.fsync = "always" /\ ~shape.noFsyncOnRewrite => file.synced = Len(file.cmds)
         /\ shape.fsync = "always" => ~postponed
<1>1. file.cmds \in Seq(Commands) /\ file.synced \in 0 .. Len(file.cmds)
  BY DEF IInv, Writing, FileTyped
<1>2. Len(file.cmds) \in Nat
  BY <1>1, LenProperties
<1>3. QED
  BY <1>1, <1>2 DEF IInv, Writing, Synced, Saving, Acknowledged

(* What a child that saves leaves behind is a dataset.                      *)
LEMMA OrphansTyped ==
  ASSUME IInv, NEW k \in ToSet(saver)
  PROVE  k.snapshot \in Datasets
<1>1. saver \in Slots
  BY DEF IInv, Saving
<1>2. k \in Children
  <2>1. CASE saver = <<>>
    BY <2>1 DEF ToSet
  <2>2. CASE saver # <<>>
    <3>1. DOMAIN saver = {1} /\ saver[1] \in Children
      BY <1>1, <2>2, SlotIs
    <3>2. QED
      BY <3>1 DEF ToSet
  <2>3. QED
    BY <2>1, <2>2
<1>3. QED
  BY <1>2 DEF Children

(* The child of a killed server renames its dump over the one there is.     *)
LEMMA OrphanEndsKeeps ==
  ASSUME IInv, OrphanEnds
  PROVE  IInv'
<1> USE DEF IInv
<1>1. Configured' /\ Writing' /\ Rewriting' /\ Acknowledged'
  BY StillConfigured, OnlySaving DEF OrphanEnds
<1>2. dump' \in Datasets /\ orphans' \subseteq Datasets /\ overwritten' = TRUE
  BY DEF OrphanEnds, Saving
<1>3. UNCHANGED <<data, dirty, before, status, saver>>
  BY DEF OrphanEnds
<1>4. Saving'
  BY <1>2, <1>3 DEF Saving, Saved, CleanMeansSaved
<1>5. QED
  BY <1>1, <1>4

(* What SHUTDOWN, a crash and a power loss have in common: the server       *)
(* starts again with a file that is cut after k commands, all that was      *)
(* synced among them, and only by a power loss short of all.                *)
Loaded(k, kind, n) ==
  \E d \in Datasets : loadDataFromDisk(kind, SubSeq(file.cmds, 1, k), n, d)

Restarts ==
  /\ orphans' \subseteq Datasets
  /\ \E k \in file.synced .. Len(file.cmds), kind \in {"shutdown", "kill", "power"} :
        /\ kind # "power" => k = Len(file.cmds)
        /\ \E n \in 0 .. k : /\ shape.fsync = "always" /\ ~shape.noFsyncOnRewrite => n = k
                            /\ Loaded(k, kind, n)

(* With nothing lost, the file found at the next start is the file.         *)
LEMMA WholeFile ==
  ASSUME IInv
  PROVE  SubSeq(file.cmds, 1, Len(file.cmds)) = file.cmds
BY FileFacts, SubSeqFull

(* After SHUTDOWN the server starts from the file or the snapshot it left.  *)
LEMMA ShutdownRestarts ==
  ASSUME IInv, prepareForShutdown
  PROVE  Restarts /\ Configured'
<1>1. PICK save \in BOOLEAN :
        loadDataFromDisk("shutdown", file.cmds,
                         IF state # "off" THEN Len(file.cmds) ELSE file.synced,
                         IF save THEN data ELSE dump)
  BY DEF prepareForShutdown
<1> DEFINE n == IF state # "off" THEN Len(file.cmds) ELSE file.synced
           d == IF save THEN data ELSE dump
           k == Len(file.cmds)
<1>2. d \in Datasets
  BY FileFacts
<1>3. n \in 0 .. k /\ (shape.fsync = "always" /\ ~shape.noFsyncOnRewrite => n = k)
  BY FileFacts
<1>4. k \in file.synced .. Len(file.cmds)
  BY FileFacts
<1>5. loadDataFromDisk("shutdown", SubSeq(file.cmds, 1, k), n, d)
  BY <1>1, WholeFile, Zenon
<1>6. shape' = shape
  BY <1>1 DEF loadDataFromDisk
<1> HIDE DEF n, d, k
<1>7. Loaded(k, "shutdown", n)
  BY <1>2, <1>5 DEF Loaded
<1>8. Restarts
  BY <1>3, <1>4, <1>7, FileFacts DEF Restarts, k, prepareForShutdown
<1>9. QED
  BY <1>6, <1>8, SpendTyped DEF prepareForShutdown, IInv, Budgets

(* After a kill it starts from what was written.                            *)
LEMMA KillRestarts ==
  ASSUME IInv, Kill
  PROVE  Restarts /\ Configured'
<1>1. loadDataFromDisk("kill", file.cmds, file.synced, dump)
  BY DEF Kill
<1> DEFINE k == Len(file.cmds)
<1>2. dump \in Datasets /\ orphans' \subseteq Datasets
  BY OrphansTyped, FileFacts DEF Kill
<1>3. /\ file.synced \in 0 .. k
      /\ (shape.fsync = "always" /\ ~shape.noFsyncOnRewrite => file.synced = k)
  BY FileFacts
<1>4. k \in file.synced .. Len(file.cmds)
  BY FileFacts
<1>5. loadDataFromDisk("kill", SubSeq(file.cmds, 1, k), file.synced, dump)
  BY <1>1, WholeFile, Zenon
<1>6. shape' = shape
  BY <1>1 DEF loadDataFromDisk
<1> HIDE DEF k
<1>7. Loaded(k, "kill", file.synced)
  BY <1>2, <1>5 DEF Loaded
<1>8. Restarts
  BY <1>2, <1>3, <1>4, <1>7 DEF Restarts, k
<1>9. QED
  BY <1>6, <1>8, MishapTyped DEF Kill, IInv

(* After a power loss it starts from what was synced, or more.              *)
LEMMA PowerLossRestarts ==
  ASSUME IInv, PowerLoss
  PROVE  Restarts /\ Configured'
<1>1. PICK k \in file.synced .. Len(file.cmds) :
        loadDataFromDisk("power", SubSeq(file.cmds, 1, k), k, dump)
  BY DEF PowerLoss
<1>2. /\ k \in 0 .. k /\ k \in Nat /\ dump \in Datasets
  BY FileFacts
<1>3. shape' = shape
  BY <1>1 DEF loadDataFromDisk
<1>4. Loaded(k, "power", k)
  BY <1>1, <1>2 DEF Loaded
<1>5. Restarts
  BY <1>2, <1>4 DEF Restarts, PowerLoss
<1>6. QED
  BY <1>3, <1>5, MishapTyped DEF PowerLoss, IInv

(* A file that is cut is a file.                                            *)
LEMMA CutTyped ==
  ASSUME IInv, NEW k \in 0 .. Len(file.cmds)
  PROVE  /\ SubSeq(file.cmds, 1, k) \in Seq(Commands)
         /\ Len(SubSeq(file.cmds, 1, k)) = k
<1>1. k \in Nat /\ k <= Len(file.cmds)
  BY FileFacts
<1>2. \A i \in 1 .. k : file.cmds[i] \in Commands
  BY <1>1, FileFacts, ElementOfSeq
<1>3. QED
  BY <1>1, <1>2, SubSeqProperties

(* However the server stopped, the invariant holds when it has loaded.      *)
LEMMA RestartKeeps ==
  ASSUME IInv, Restarts, Configured'
  PROVE  IInv'
<1>1. PICK k \in file.synced .. Len(file.cmds), kind \in {"shutdown", "kill", "power"} :
         \E n \in 0 .. k : /\ shape.fsync = "always" /\ ~shape.noFsyncOnRewrite => n = k
                           /\ Loaded(k, kind, n)
  BY DEF Restarts
<1>2. PICK n \in 0 .. k : /\ shape.fsync = "always" /\ ~shape.noFsyncOnRewrite => n = k
                         /\ Loaded(k, kind, n)
  BY <1>1
<1>3. PICK d \in Datasets : loadDataFromDisk(kind, SubSeq(file.cmds, 1, k), n, d)
  BY <1>2 DEF Loaded
<1> DEFINE cmds == SubSeq(file.cmds, 1, k)
<1>4. cmds \in Seq(Commands) /\ Len(cmds) = k
  <2>1. k \in 0 .. Len(file.cmds)
    BY FileFacts
  <2>2. QED
    BY <2>1, CutTyped
<1> HIDE DEF cmds
<1>5. Configured
  BY DEF IInv
<1>6. loadDataFromDisk(kind, cmds, n, d)
  BY <1>3 DEF cmds
<1>7. orphans' \subseteq Datasets
  BY DEF Restarts
<1>8. QED
  BY <1>2, <1>4, <1>5, <1>6, <1>7, LoadKeeps

(* The server finds the past of its dataset, and what was acknowledged in   *)
(* it: in the whole file if its write was not postponed, and with a power   *)
(* loss under "always", when the whole file is there.                       *)
LEMMA RestartKeepsAcked ==
  ASSUME IInv, Restarts, state = "on", shape.appendonly
  PROVE  /\ IsPrefix(data', data)
         /\ restart'.kind # "power" /\ ~postponed => IsPrefix(acked, data')
         /\ restart'.kind = "power" /\ shape.fsync = "always" /\ ~shape.noFsyncOnRewrite =>
               IsPrefix(acked, data')
<1>1. PICK k \in file.synced .. Len(file.cmds), kind \in {"shutdown", "kill", "power"} :
         /\ kind # "power" => k = Len(file.cmds)
         /\ \E n \in 0 .. k : /\ shape.fsync = "always" /\ ~shape.noFsyncOnRewrite => n = k
                             /\ Loaded(k, kind, n)
  BY DEF Restarts
<1>2. PICK n \in 0 .. k, d \in Datasets : loadDataFromDisk(kind, SubSeq(file.cmds, 1, k), n, d)
  BY <1>1 DEF Loaded
<1> DEFINE cmds == SubSeq(file.cmds, 1, k)
<1>3. data' = FakeClient(cmds).data /\ restart'.kind = kind
  BY <1>2 DEF loadDataFromDisk, loadAppendOnlyFile
<1>4. k \in 0 .. Len(file.cmds)
  BY FileFacts
<1>5. IsPast(FakeClient(cmds).data, FakeClient(file.cmds).data)
  BY <1>4, FileFacts, ClientOfPrefix
<1>6. FakeClient(file.cmds).data \in Datasets
  BY FileFacts, ClientTyped DEF Clients
<1>7. cmds \in Seq(Commands)
  BY <1>4, CutTyped
<1> HIDE DEF cmds
<1>8. data' \in Datasets
  BY <1>3, <1>7, ClientTyped DEF Clients
<1>9. IsPast(FakeClient(file.cmds).data, data)
  <2>1. buf \in Seq(Commands) /\ FakeClient(file.cmds \o buf).data = data
    BY DEF IInv, Writing, FileTyped, Logged, Loads
  <2>2. QED
    BY <2>1, FileFacts, ClientOfConcat
<1>10. IsPrefix(data', data)
  <2>1. IsPast(data', data)
    BY <1>3, <1>5, <1>6, <1>8, <1>9, FileFacts, PastOfPast DEF Datasets
  <2>2. QED
    BY <1>8, <2>1, FileFacts, PrefixByElements DEF Datasets
<1>11. ASSUME k = Len(file.cmds), ~postponed PROVE IsPrefix(acked, data')
  <2>1. cmds = file.cmds
    BY <1>11, WholeFile DEF cmds
  <2>2. IsPast(acked, data')
    BY <1>3, <1>11, <2>1 DEF IInv, Acknowledged
  <2>3. QED
    BY <1>8, <2>2, FileFacts, PrefixByElements DEF Datasets
<1>12. shape.fsync = "always" /\ ~shape.noFsyncOnRewrite => k = Len(file.cmds) /\ ~postponed
  BY FileFacts
<1>13. QED
  BY <1>1, <1>3, <1>10, <1>11, <1>12

-----------------------------------------------------------------------------
(* The theorems                                                             *)

\* Every step keeps the invariant.
LEMMA NextKeeps ==
  ASSUME IInv, [Next]_vars
  PROVE  IInv'
<1>1. CASE UNCHANGED vars
  BY <1>1, StillConfigured, StillSaving, OnlySaving DEF IInv, vars, rdbvars
<1>2. CASE Write \/ flushall
  BY <1>2, WriteKeeps, FlushallKeeps
<1>3. CASE beforeSleep \/ aeProcessEvents \/ FlushPostponed \/ bioProcessBackgroundJobs
  BY <1>3, BeforeSleepKeeps, ProcessEventsKeeps, FlushPostponedKeeps, BioKeeps
<1>4. CASE \/ bgrewriteaofCommand \/ CronRewrite \/ RewriterEnds
           \/ backgroundRewriteDoneHandler
  BY <1>4, BgrewriteaofKeeps, CronRewriteKeeps, RewriterEndsKeeps, RewriteDoneKeeps
<1>5. CASE stopAppendOnly \/ startAppendOnly
  BY <1>5, StopKeeps, StartKeeps
<1>6. CASE saveCommand \/ bgsaveCommand \/ CronSave \/ SaverEnds \/ backgroundSaveDoneHandler
  BY <1>6, SaveCommandKeeps, BgsaveKeeps, CronSaveKeeps, SaverEndsKeeps, SaveDoneKeeps
<1>7. CASE prepareForShutdown \/ Kill \/ OrphanEnds \/ PowerLoss
  BY <1>7, ShutdownRestarts, KillRestarts, PowerLossRestarts, RestartKeeps, OrphanEndsKeeps
<1>8. QED
  BY <1>1, <1>2, <1>3, <1>4, <1>5, <1>6, <1>7 DEF Next

(* Only these three steps are restarts.                                     *)
LEMMA OnlyRestartsRestart ==
  ASSUME [Next]_vars, restart'.n # restart.n
  PROVE  prepareForShutdown \/ Kill \/ PowerLoss
<1>1. restart' # restart
  OBVIOUS
<1>2. QED
  BY <1>1 DEF Next, vars, Write, flushall, beforeSleep, aeProcessEvents, OrphanEnds, FlushPostponed, bioProcessBackgroundJobs,
       bgrewriteaofCommand, CronRewrite, RewriterEnds, backgroundRewriteDoneHandler,
       stopAppendOnly, startAppendOnly, saveCommand, bgsaveCommand, CronSave, SaverEnds,
       backgroundSaveDoneHandler

(* The invariant is one.                                                    *)
THEOREM Invariance == Spec => []IInv
<1>1. Init => IInv
  BY Initially
<1>2. IInv /\ [Next]_vars => IInv'
  BY NextKeeps
<1>3. QED
  BY <1>1, <1>2, PTL DEF Spec

(* While the append only file is on, it and the buffer replay to the        *)
(* dataset, through rewrites, failed renames, postponed writes, changes of  *)
(* database, CONFIG SETs and restarts (aof.c:229-320, 384-432, 1042-1176).  *)
THEOREM LogIsAlwaysData == Spec => []LogIsData
<1>1. IInv => LogIsData
  BY InvLogIsData
<1>2. QED
  BY <1>1, Invariance, PTL

(* What a rewrite would leave if it were switched to now replays to the     *)
(* dataset too (aof.c:88-126, 955-1003).                                    *)
THEOREM RewriteIsAlwaysData == Spec => []RewriteIsData
<1>1. IInv => RewriteIsData
  BY InvRewriteIsData
<1>2. QED
  BY <1>1, Invariance, PTL

(* A server that counts no unsaved change has its dataset in dump.rdb,      *)
(* unless the child of a server that was killed has renamed its own since   *)
(* (rdb.c:704-707, 726, 1183-1188; db.c:217-233).                           *)
THEOREM CleanAlwaysMeansSaved == Spec => []CleanMeansSaved
<1>1. IInv => CleanMeansSaved
  BY InvCleanMeansSaved
<1>2. QED
  BY <1>1, Invariance, PTL

(* A restart finds what clients that wait for their replies were told,      *)
(* unless its write was postponed or lost with the power under a policy     *)
(* that allows it, and never more than there was (aof.c:211-320).           *)
THEOREM AckedAlwaysSurvives == Spec => AckedSurvives
<1> DEFINE Survives ==
      restart'.n # restart.n /\ state = "on" /\ shape.appendonly =>
          /\ IsPrefix(data', data)
          /\ restart'.kind # "power" /\ ~postponed => IsPrefix(acked, data')
          /\ restart'.kind = "power" /\ shape.fsync = "always" /\ ~shape.noFsyncOnRewrite =>
                IsPrefix(acked, data')
<1>1. IInv /\ [Next]_vars => [Survives]_vars
  <2> SUFFICES ASSUME IInv, [Next]_vars, restart'.n # restart.n, state = "on", shape.appendonly
               PROVE  Survives
    OBVIOUS
  <2>1. Restarts
    BY OnlyRestartsRestart, ShutdownRestarts, KillRestarts, PowerLossRestarts
  <2>2. QED
    BY <2>1, RestartKeepsAcked
<1>2. QED
  BY <1>1, Invariance, PTL DEF Spec, AckedSurvives
=============================================================================
