--------------------------- MODULE DatasetRunProofs ---------------------------
(***************************************************************************)
(* Theorems about DatasetRun for each of the four datasets and any number  *)
(* of objects, scopes, workers and faults.                                 *)
(***************************************************************************)
EXTENDS DatasetRun, FiniteSetTheorems, SequenceTheorems, WellFoundedInduction, TLAPS

----------------------------------------------------------------------------
(* Numbers and sequences.                                                  *)

\* Among some numbers one is the least.
LEMMA Least ==
  ASSUME NEW T, T \subseteq Nat, T # {}
  PROVE  \E x \in T : \A y \in T : x <= y
<1> DEFINE R == {ss \in Nat \X Nat : ss[1] < ss[2]}
<1>1. IsWellFoundedOn(R, Nat)
  BY NatLessThanWellFounded DEF OpToRel
<1>2. PICK x \in T : \A y \in T : ~ (<<y, x>> \in R)
  <2> HIDE DEF R
  <2> QED BY <1>1, WFMin
<1>3. ASSUME NEW y \in T PROVE x <= y
  <2>1. <<y, x>> \in Nat \X Nat /\ ~(<<y, x>> \in R)
    BY <1>2
  <2>2. ~(y < x)
    BY <2>1
  <2> QED BY <2>2
<1>4. QED
  BY <1>3

\* Sequences that agree element by element are the same.
LEMMA Same ==
  ASSUME NEW S, NEW s \in Seq(S), NEW t \in Seq(S),
         Len(s) = Len(t), \A i \in 1..Len(s) : s[i] = t[i]
  PROVE  s = t
OBVIOUS

\* A sequence with one element more is what Append makes, and what SubSeq takes back.
LEMMA PushPop ==
  ASSUME NEW S, NEW s \in Seq(S), NEW a \in S, NEW t \in Seq(S),
         Len(t) = Len(s) + 1, \A i \in 1..Len(s) : t[i] = s[i], t[Len(t)] = a
  PROVE  Append(s, a) = t /\ SubSeq(t, 1, Len(t) - 1) = s
<1> DEFINE u == Append(s, a)
           v == SubSeq(t, 1, Len(t) - 1)
<1>1. u \in Seq(S) /\ Len(u) = Len(t) /\ \A i \in 1..Len(u) : u[i] = t[i]
  OBVIOUS
<1>2. v \in Seq(S) /\ Len(v) = Len(s) /\ \A i \in 1..Len(v) : v[i] = s[i]
  OBVIOUS
<1> HIDE DEF u, v
<1>3. u = t /\ v = s
  BY <1>1, <1>2, Same
<1>4. QED
  BY <1>3 DEF u, v

\* The same, spelled out for stacks of one to four blocks.
LEMMA Stacks1 ==
  ASSUME NEW S, NEW a \in S
  PROVE  Append(<<>>, a) = <<a>> /\ SubSeq(<<a>>, 1, 0) = <<>>
<1> DEFINE s == <<>>
           t == <<a>>
<1>1. s \in Seq(S) /\ Len(s) = 0 /\ t \in Seq(S) /\ Len(t) = 1
  OBVIOUS
<1>2. t[1] = a
  OBVIOUS
<1> HIDE DEF s, t
<1>3. /\ Len(t) = Len(s) + 1 /\ t[Len(t)] = a
      /\ \A i \in 1..Len(s) : t[i] = s[i]
  BY <1>1, <1>2
<1>4. Append(s, a) = t /\ SubSeq(t, 1, Len(t) - 1) = s
  BY <1>1, <1>3, PushPop
<1>5. QED
  BY <1>1, <1>4 DEF s, t

\* ... of two blocks,
LEMMA Stacks2 ==
  ASSUME NEW S, NEW a \in S, NEW b \in S
  PROVE  Append(<<a>>, b) = <<a, b>> /\ SubSeq(<<a, b>>, 1, 1) = <<a>>
<1> DEFINE s == <<a>>
           t == <<a, b>>
<1>1. s \in Seq(S) /\ Len(s) = 1 /\ t \in Seq(S) /\ Len(t) = 2
  OBVIOUS
<1>2. t[2] = b /\ t[1] = s[1]
  OBVIOUS
<1> HIDE DEF s, t
<1>3. /\ Len(t) = Len(s) + 1 /\ t[Len(t)] = b
      /\ \A i \in 1..Len(s) : t[i] = s[i]
  BY <1>1, <1>2
<1>4. Append(s, b) = t /\ SubSeq(t, 1, Len(t) - 1) = s
  BY <1>1, <1>3, PushPop
<1>5. QED
  BY <1>1, <1>4 DEF s, t

\* ... of three,
LEMMA Stacks3 ==
  ASSUME NEW S, NEW a \in S, NEW b \in S, NEW c \in S
  PROVE  Append(<<a, b>>, c) = <<a, b, c>> /\ SubSeq(<<a, b, c>>, 1, 2) = <<a, b>>
<1> DEFINE s == <<a, b>>
           t == <<a, b, c>>
<1>1. s \in Seq(S) /\ Len(s) = 2 /\ t \in Seq(S) /\ Len(t) = 3
  OBVIOUS
<1>2. t[3] = c /\ t[1] = s[1] /\ t[2] = s[2]
  OBVIOUS
<1> HIDE DEF s, t
<1>3. /\ Len(t) = Len(s) + 1 /\ t[Len(t)] = c
      /\ \A i \in 1..Len(s) : t[i] = s[i]
  BY <1>1, <1>2
<1>4. Append(s, c) = t /\ SubSeq(t, 1, Len(t) - 1) = s
  BY <1>1, <1>3, PushPop
<1>5. QED
  BY <1>1, <1>4 DEF s, t

\* ... of four.
LEMMA Stacks4 ==
  ASSUME NEW S, NEW a \in S, NEW b \in S, NEW c \in S, NEW d \in S
  PROVE  Append(<<a, b, c>>, d) = <<a, b, c, d>> /\ SubSeq(<<a, b, c, d>>, 1, 3) = <<a, b, c>>
<1> DEFINE s == <<a, b, c>>
           t == <<a, b, c, d>>
<1>1. s \in Seq(S) /\ Len(s) = 3 /\ t \in Seq(S) /\ Len(t) = 4
  OBVIOUS
<1>2. t[4] = d /\ t[1] = s[1] /\ t[2] = s[2] /\ t[3] = s[3]
  OBVIOUS
<1> HIDE DEF s, t
<1>3. /\ Len(t) = Len(s) + 1 /\ t[Len(t)] = d
      /\ \A i \in 1..Len(s) : t[i] = s[i]
  BY <1>1, <1>2
<1>4. Append(s, d) = t /\ SubSeq(t, 1, Len(t) - 1) = s
  BY <1>1, <1>3, PushPop
<1>5. QED
  BY <1>1, <1>4 DEF s, t

\* A concatenation, known by its elements.
LEMMA Joined ==
  ASSUME NEW S, NEW x \in Seq(S), NEW y \in Seq(S), NEW u \in Seq(S),
         Len(u) = Len(x) + Len(y),
         \A i \in 1..Len(x) : u[i] = x[i],
         \A i \in 1..Len(y) : u[Len(x) + i] = y[i]
  PROVE  x \o y = u
<1> DEFINE v == x \o y
<1>1. /\ v \in Seq(S) /\ Len(v) = Len(u)
      /\ \A i \in 1..Len(v) : v[i] = IF i <= Len(x) THEN x[i] ELSE y[i - Len(x)]
  BY ConcatProperties
<1>2. \A i \in 1..Len(v) : v[i] = u[i]
  <2> HIDE DEF v
  <2>1. TAKE i \in 1..Len(v)
  <2>2. CASE i <= Len(x)
    BY <1>1, <2>2
  <2>3. CASE i > Len(x)
    <3>1. PICK j \in 1..Len(y) : Len(x) + j = i /\ j = i - Len(x)
      BY <1>1, <2>3
    <3>2. v[i] = y[j] /\ u[i] = y[j]
      BY <1>1, <2>3, <3>1
    <3> QED BY <3>2
  <2>4. QED
    BY <1>1, <2>2, <2>3
<1> HIDE DEF v
<1>3. v = u
  BY <1>1, <1>2, Same
<1>4. QED
  BY <1>3 DEF v

\* A sequence with one element put before it and one after it.
LEMMA Around ==
  ASSUME NEW S, NEW a \in S, NEW b \in S, NEW x \in Seq(S), NEW u \in Seq(S),
         Len(u) = Len(x) + 2, u[1] = a, u[Len(u)] = b,
         \A i \in 1..Len(x) : u[i + 1] = x[i]
  PROVE  <<a>> \o x \o <<b>> = u
<1> DEFINE p == <<a>>
           q == <<b>>
           v == SubSeq(u, 1, Len(x) + 1)
<1>1. /\ p \in Seq(S) /\ Len(p) = 1 /\ p[1] = a
      /\ q \in Seq(S) /\ Len(q) = 1 /\ q[1] = b
  OBVIOUS
<1>2. v \in Seq(S) /\ Len(v) = Len(x) + 1 /\ \A i \in 1..Len(x) + 1 : v[i] = u[i]
  OBVIOUS
<1> HIDE DEF p, q, v
<1>3. p \o x = v
  <2>1. Len(v) = Len(p) + Len(x) /\ \A i \in 1..Len(p) : v[i] = p[i]
    BY <1>1, <1>2
  <2>2. ASSUME NEW i \in 1..Len(x) PROVE v[Len(p) + i] = x[i]
    <3>1. Len(p) + i = i + 1 /\ i + 1 \in 1..Len(x) + 1
      BY <1>1
    <3>2. v[i + 1] = u[i + 1] /\ u[i + 1] = x[i]
      BY <1>2, <3>1
    <3>3. QED
      BY <3>1, <3>2
  <2>3. QED
    BY <1>1, <1>2, <2>1, <2>2, Joined
<1>4. v \o q = u
  <2>1. Len(u) = Len(v) + Len(q) /\ \A i \in 1..Len(v) : u[i] = v[i]
    BY <1>1, <1>2
  <2>2. \A i \in 1..Len(q) : u[Len(v) + i] = q[i]
    BY <1>1, <1>2
  <2>3. QED
    BY <1>1, <1>2, <2>1, <2>2, Joined
<1>5. QED
  BY <1>3, <1>4 DEF p, q

----------------------------------------------------------------------------
(* The steps of a source.                                                  *)

StepName ==
  {"csv", "tarball", "view", "begin", "unlink", "cleanup", "drop", "end", "check", "parse",
   "members", "validate", "record", "parsed", "delete", "insert", "ingested"}

\* What the sources make of them, piece by piece.
Snap4 == <<"record", "parsed", "insert", "ingested">>
Snap6 == <<"begin", "record", "parsed", "insert", "ingested", "end">>
Snap8 == <<"view", "begin", "record", "parsed", "insert", "ingested", "end", "drop">>
FuzzworkSteps == <<"check", "view", "begin", "record", "parsed", "insert",
                   "ingested", "end", "drop">>
OrdersSteps == <<"csv", "check", "view", "begin", "record", "parsed", "insert",
                 "ingested", "end", "drop", "unlink">>
Write2 == <<"delete", "insert">>
Write4 == <<"begin", "delete", "insert", "end">>
Write5 == <<"validate", "begin", "delete", "insert", "end">>
Replace2 == <<"record", "parsed">>
Replace7 == <<"record", "parsed", "validate", "begin", "delete", "insert", "end">>
Replace8 == <<"record", "parsed", "validate", "begin", "delete", "insert", "end",
              "ingested">>
Replace10 == <<"begin", "record", "parsed", "validate", "begin", "delete", "insert",
               "end", "ingested", "end">>
ReplaceSteps == <<"view", "begin", "record", "parsed", "validate", "begin", "delete",
                  "insert", "end", "ingested", "end", "drop">>
HistorySteps == <<"parse", "view", "begin", "record", "parsed", "validate", "begin",
                  "delete", "insert", "end", "ingested", "end", "drop">>
Archive3 == <<"tarball", "members", "cleanup">>
ReferencesSteps == <<"tarball", "members", "cleanup", "view", "begin", "record",
                     "parsed", "validate", "begin", "delete", "insert", "end",
                     "ingested", "end", "drop">>
None3 == <<"record", "parsed", "ingested">>
None5 == <<"begin", "record", "parsed", "ingested", "end">>
EmptySteps == <<"tarball", "members", "cleanup", "begin", "record", "parsed",
                "ingested", "end">>

\* Each piece is put together from smaller ones.
LEMMA Combined ==
  /\ InTransaction(Snap4) = Snap6
  /\ InView(Snap6) = Snap8
  /\ InTransaction(Write2) = Write4
  /\ InTransaction(Replace8) = Replace10
  /\ InView(Replace10) = ReplaceSteps
  /\ InTransaction(None3) = None5
  /\ <<"csv">> \o FuzzworkSteps \o <<"unlink">> = OrdersSteps
  /\ <<"check">> \o Snap8 = FuzzworkSteps
  /\ <<"validate">> \o Write4 = Write5
  /\ Replace2 \o Write5 = Replace7
  /\ Replace7 \o <<"ingested">> = Replace8
  /\ <<"parse">> \o ReplaceSteps = HistorySteps
  /\ Archive3 \o ReplaceSteps = ReferencesSteps
  /\ Archive3 \o None5 = EmptySteps
<1>1. InTransaction(Snap4) = Snap6
  <2>1. /\ Snap4 \in Seq(StepName) /\ Len(Snap4) = 4
        /\ Snap6 \in Seq(StepName) /\ Len(Snap6) = 6
        /\ "begin" \in StepName /\ "end" \in StepName
    BY DEF StepName, Snap4, Snap6
  <2>2. Snap6[1] = "begin" /\ Snap6[6] = "end" /\ \A i \in 1..4 : Snap6[i + 1] = Snap4[i]
    BY DEF Snap4, Snap6
  <2>3. /\ Len(Snap6) = Len(Snap4) + 2 /\ Snap6[1] = "begin" /\ Snap6[Len(Snap6)] = "end"
        /\ \A i \in 1..Len(Snap4) : Snap6[i + 1] = Snap4[i]
    BY <2>1, <2>2
  <2>4. <<"begin">> \o Snap4 \o <<"end">> = Snap6
    BY <2>1, <2>3, Around
  <2>5. QED
    BY <2>4 DEF InTransaction
<1>2. InView(Snap6) = Snap8
  <2>1. /\ Snap6 \in Seq(StepName) /\ Len(Snap6) = 6
        /\ Snap8 \in Seq(StepName) /\ Len(Snap8) = 8
        /\ "view" \in StepName /\ "drop" \in StepName
    BY DEF StepName, Snap6, Snap8
  <2>2. Snap8[1] = "view" /\ Snap8[8] = "drop" /\ \A i \in 1..6 : Snap8[i + 1] = Snap6[i]
    BY DEF Snap6, Snap8
  <2>3. /\ Len(Snap8) = Len(Snap6) + 2 /\ Snap8[1] = "view" /\ Snap8[Len(Snap8)] = "drop"
        /\ \A i \in 1..Len(Snap6) : Snap8[i + 1] = Snap6[i]
    BY <2>1, <2>2
  <2>4. <<"view">> \o Snap6 \o <<"drop">> = Snap8
    BY <2>1, <2>3, Around
  <2>5. QED
    BY <2>4 DEF InView
<1>3. InTransaction(Write2) = Write4
  <2>1. /\ Write2 \in Seq(StepName) /\ Len(Write2) = 2
        /\ Write4 \in Seq(StepName) /\ Len(Write4) = 4
        /\ "begin" \in StepName /\ "end" \in StepName
    BY DEF StepName, Write2, Write4
  <2>2. Write4[1] = "begin" /\ Write4[4] = "end" /\ \A i \in 1..2 : Write4[i + 1] = Write2[i]
    BY DEF Write2, Write4
  <2>3. /\ Len(Write4) = Len(Write2) + 2 /\ Write4[1] = "begin" /\ Write4[Len(Write4)] = "end"
        /\ \A i \in 1..Len(Write2) : Write4[i + 1] = Write2[i]
    BY <2>1, <2>2
  <2>4. <<"begin">> \o Write2 \o <<"end">> = Write4
    BY <2>1, <2>3, Around
  <2>5. QED
    BY <2>4 DEF InTransaction
<1>4. InTransaction(Replace8) = Replace10
  <2>1. /\ Replace8 \in Seq(StepName) /\ Len(Replace8) = 8
        /\ Replace10 \in Seq(StepName) /\ Len(Replace10) = 10
        /\ "begin" \in StepName /\ "end" \in StepName
    BY DEF StepName, Replace8, Replace10
  <2>2. Replace10[1] = "begin" /\ Replace10[10] = "end" /\ \A i \in 1..8 : Replace10[i + 1] = Replace8[i]
    BY DEF Replace8, Replace10
  <2>3. /\ Len(Replace10) = Len(Replace8) + 2 /\ Replace10[1] = "begin" /\ Replace10[Len(Replace10)] = "end"
        /\ \A i \in 1..Len(Replace8) : Replace10[i + 1] = Replace8[i]
    BY <2>1, <2>2
  <2>4. <<"begin">> \o Replace8 \o <<"end">> = Replace10
    BY <2>1, <2>3, Around
  <2>5. QED
    BY <2>4 DEF InTransaction
<1>5. InView(Replace10) = ReplaceSteps
  <2>1. /\ Replace10 \in Seq(StepName) /\ Len(Replace10) = 10
        /\ ReplaceSteps \in Seq(StepName) /\ Len(ReplaceSteps) = 12
        /\ "view" \in StepName /\ "drop" \in StepName
    BY DEF StepName, Replace10, ReplaceSteps
  <2>2. ReplaceSteps[1] = "view" /\ ReplaceSteps[12] = "drop" /\ \A i \in 1..10 : ReplaceSteps[i + 1] = Replace10[i]
    BY DEF Replace10, ReplaceSteps
  <2>3. /\ Len(ReplaceSteps) = Len(Replace10) + 2 /\ ReplaceSteps[1] = "view" /\ ReplaceSteps[Len(ReplaceSteps)] = "drop"
        /\ \A i \in 1..Len(Replace10) : ReplaceSteps[i + 1] = Replace10[i]
    BY <2>1, <2>2
  <2>4. <<"view">> \o Replace10 \o <<"drop">> = ReplaceSteps
    BY <2>1, <2>3, Around
  <2>5. QED
    BY <2>4 DEF InView
<1>6. InTransaction(None3) = None5
  <2>1. /\ None3 \in Seq(StepName) /\ Len(None3) = 3
        /\ None5 \in Seq(StepName) /\ Len(None5) = 5
        /\ "begin" \in StepName /\ "end" \in StepName
    BY DEF StepName, None3, None5
  <2>2. None5[1] = "begin" /\ None5[5] = "end" /\ \A i \in 1..3 : None5[i + 1] = None3[i]
    BY DEF None3, None5
  <2>3. /\ Len(None5) = Len(None3) + 2 /\ None5[1] = "begin" /\ None5[Len(None5)] = "end"
        /\ \A i \in 1..Len(None3) : None5[i + 1] = None3[i]
    BY <2>1, <2>2
  <2>4. <<"begin">> \o None3 \o <<"end">> = None5
    BY <2>1, <2>3, Around
  <2>5. QED
    BY <2>4 DEF InTransaction
<1>7. <<"csv">> \o FuzzworkSteps \o <<"unlink">> = OrdersSteps
  <2>1. /\ FuzzworkSteps \in Seq(StepName) /\ Len(FuzzworkSteps) = 9
        /\ OrdersSteps \in Seq(StepName) /\ Len(OrdersSteps) = 11
        /\ "csv" \in StepName /\ "unlink" \in StepName
    BY DEF StepName, FuzzworkSteps, OrdersSteps
  <2>2. OrdersSteps[1] = "csv" /\ OrdersSteps[11] = "unlink" /\ \A i \in 1..9 : OrdersSteps[i + 1] = FuzzworkSteps[i]
    BY DEF FuzzworkSteps, OrdersSteps
  <2>3. /\ Len(OrdersSteps) = Len(FuzzworkSteps) + 2 /\ OrdersSteps[1] = "csv" /\ OrdersSteps[Len(OrdersSteps)] = "unlink"
        /\ \A i \in 1..Len(FuzzworkSteps) : OrdersSteps[i + 1] = FuzzworkSteps[i]
    BY <2>1, <2>2
  <2>4. <<"csv">> \o FuzzworkSteps \o <<"unlink">> = OrdersSteps
    BY <2>1, <2>3, Around
  <2>5. QED
    BY <2>4
<1>8. <<"check">> \o Snap8 = FuzzworkSteps
  <2> DEFINE one == <<"check">>
  <2>1. /\ one \in Seq(StepName) /\ Len(one) = 1
        /\ Snap8 \in Seq(StepName) /\ Len(Snap8) = 8
        /\ FuzzworkSteps \in Seq(StepName) /\ Len(FuzzworkSteps) = 9
    BY DEF StepName, Snap8, FuzzworkSteps
  <2>2. /\ \A i \in 1..1 : FuzzworkSteps[i] = one[i]
        /\ \A i \in 1..8 : FuzzworkSteps[1 + i] = Snap8[i]
    BY DEF Snap8, FuzzworkSteps
  <2> HIDE DEF one
  <2>3. /\ Len(FuzzworkSteps) = Len(one) + Len(Snap8)
        /\ \A i \in 1..Len(one) : FuzzworkSteps[i] = one[i]
        /\ \A i \in 1..Len(Snap8) : FuzzworkSteps[Len(one) + i] = Snap8[i]
    BY <2>1, <2>2
  <2>4. one \o Snap8 = FuzzworkSteps
    BY <2>1, <2>3, Joined
  <2>5. QED
    BY <2>4 DEF one
<1>9. <<"validate">> \o Write4 = Write5
  <2> DEFINE one == <<"validate">>
  <2>1. /\ one \in Seq(StepName) /\ Len(one) = 1
        /\ Write4 \in Seq(StepName) /\ Len(Write4) = 4
        /\ Write5 \in Seq(StepName) /\ Len(Write5) = 5
    BY DEF StepName, Write4, Write5
  <2>2. /\ \A i \in 1..1 : Write5[i] = one[i]
        /\ \A i \in 1..4 : Write5[1 + i] = Write4[i]
    BY DEF Write4, Write5
  <2> HIDE DEF one
  <2>3. /\ Len(Write5) = Len(one) + Len(Write4)
        /\ \A i \in 1..Len(one) : Write5[i] = one[i]
        /\ \A i \in 1..Len(Write4) : Write5[Len(one) + i] = Write4[i]
    BY <2>1, <2>2
  <2>4. one \o Write4 = Write5
    BY <2>1, <2>3, Joined
  <2>5. QED
    BY <2>4 DEF one
<1>10. Replace2 \o Write5 = Replace7
  <2>1. /\ Replace2 \in Seq(StepName) /\ Len(Replace2) = 2
        /\ Write5 \in Seq(StepName) /\ Len(Write5) = 5
        /\ Replace7 \in Seq(StepName) /\ Len(Replace7) = 7
    BY DEF StepName, Replace2, Write5, Replace7
  <2>2. /\ \A i \in 1..2 : Replace7[i] = Replace2[i]
        /\ \A i \in 1..5 : Replace7[2 + i] = Write5[i]
    BY DEF Replace2, Write5, Replace7
  <2>3. /\ Len(Replace7) = Len(Replace2) + Len(Write5)
        /\ \A i \in 1..Len(Replace2) : Replace7[i] = Replace2[i]
        /\ \A i \in 1..Len(Write5) : Replace7[Len(Replace2) + i] = Write5[i]
    BY <2>1, <2>2
  <2>4. Replace2 \o Write5 = Replace7
    BY <2>1, <2>3, Joined
  <2>5. QED
    BY <2>4
<1>11. Replace7 \o <<"ingested">> = Replace8
  <2> DEFINE one == <<"ingested">>
  <2>1. /\ Replace7 \in Seq(StepName) /\ Len(Replace7) = 7
        /\ one \in Seq(StepName) /\ Len(one) = 1
        /\ Replace8 \in Seq(StepName) /\ Len(Replace8) = 8
    BY DEF StepName, Replace7, Replace8
  <2>2. /\ \A i \in 1..7 : Replace8[i] = Replace7[i]
        /\ \A i \in 1..1 : Replace8[7 + i] = one[i]
    BY DEF Replace7, Replace8
  <2> HIDE DEF one
  <2>3. /\ Len(Replace8) = Len(Replace7) + Len(one)
        /\ \A i \in 1..Len(Replace7) : Replace8[i] = Replace7[i]
        /\ \A i \in 1..Len(one) : Replace8[Len(Replace7) + i] = one[i]
    BY <2>1, <2>2
  <2>4. Replace7 \o one = Replace8
    BY <2>1, <2>3, Joined
  <2>5. QED
    BY <2>4 DEF one
<1>12. <<"parse">> \o ReplaceSteps = HistorySteps
  <2> DEFINE one == <<"parse">>
  <2>1. /\ one \in Seq(StepName) /\ Len(one) = 1
        /\ ReplaceSteps \in Seq(StepName) /\ Len(ReplaceSteps) = 12
        /\ HistorySteps \in Seq(StepName) /\ Len(HistorySteps) = 13
    BY DEF StepName, ReplaceSteps, HistorySteps
  <2>2. /\ \A i \in 1..1 : HistorySteps[i] = one[i]
        /\ \A i \in 1..12 : HistorySteps[1 + i] = ReplaceSteps[i]
    BY DEF ReplaceSteps, HistorySteps
  <2> HIDE DEF one
  <2>3. /\ Len(HistorySteps) = Len(one) + Len(ReplaceSteps)
        /\ \A i \in 1..Len(one) : HistorySteps[i] = one[i]
        /\ \A i \in 1..Len(ReplaceSteps) : HistorySteps[Len(one) + i] = ReplaceSteps[i]
    BY <2>1, <2>2
  <2>4. one \o ReplaceSteps = HistorySteps
    BY <2>1, <2>3, Joined
  <2>5. QED
    BY <2>4 DEF one
<1>13. Archive3 \o ReplaceSteps = ReferencesSteps
  <2>1. /\ Archive3 \in Seq(StepName) /\ Len(Archive3) = 3
        /\ ReplaceSteps \in Seq(StepName) /\ Len(ReplaceSteps) = 12
        /\ ReferencesSteps \in Seq(StepName) /\ Len(ReferencesSteps) = 15
    BY DEF StepName, Archive3, ReplaceSteps, ReferencesSteps
  <2>2. /\ \A i \in 1..3 : ReferencesSteps[i] = Archive3[i]
        /\ \A i \in 1..12 : ReferencesSteps[3 + i] = ReplaceSteps[i]
    BY DEF Archive3, ReplaceSteps, ReferencesSteps
  <2>3. /\ Len(ReferencesSteps) = Len(Archive3) + Len(ReplaceSteps)
        /\ \A i \in 1..Len(Archive3) : ReferencesSteps[i] = Archive3[i]
        /\ \A i \in 1..Len(ReplaceSteps) : ReferencesSteps[Len(Archive3) + i] = ReplaceSteps[i]
    BY <2>1, <2>2
  <2>4. Archive3 \o ReplaceSteps = ReferencesSteps
    BY <2>1, <2>3, Joined
  <2>5. QED
    BY <2>4
<1>14. Archive3 \o None5 = EmptySteps
  <2>1. /\ Archive3 \in Seq(StepName) /\ Len(Archive3) = 3
        /\ None5 \in Seq(StepName) /\ Len(None5) = 5
        /\ EmptySteps \in Seq(StepName) /\ Len(EmptySteps) = 8
    BY DEF StepName, Archive3, None5, EmptySteps
  <2>2. /\ \A i \in 1..3 : EmptySteps[i] = Archive3[i]
        /\ \A i \in 1..5 : EmptySteps[3 + i] = None5[i]
    BY DEF Archive3, None5, EmptySteps
  <2>3. /\ Len(EmptySteps) = Len(Archive3) + Len(None5)
        /\ \A i \in 1..Len(Archive3) : EmptySteps[i] = Archive3[i]
        /\ \A i \in 1..Len(None5) : EmptySteps[Len(Archive3) + i] = None5[i]
    BY <2>1, <2>2
  <2>4. Archive3 \o None5 = EmptySteps
    BY <2>1, <2>3, Joined
  <2>5. QED
    BY <2>4
<1>15. QED
  BY <1>1, <1>2, <1>3, <1>4, <1>5, <1>6, <1>7, <1>8, <1>9, <1>10, <1>11, <1>12, <1>13, <1>14

\* The steps of each of the sources, as publish_one takes them.
LEMMA StepsOf ==
  ASSUME NEW o
  PROVE  /\ kind = "orders" => Steps(o) = OrdersSteps
         /\ kind = "fuzzwork" => Steps(o) = FuzzworkSteps
         /\ kind = "history" => Steps(o) = HistorySteps
         /\ kind = "references" /\ content[o] # "empty" => Steps(o) = ReferencesSteps
         /\ kind = "references" /\ content[o] = "empty" => Steps(o) = EmptySteps
<1>1. AppendSnapshot = FuzzworkSteps /\ PublishOrders = OrdersSteps
  BY Combined DEF AppendSnapshot, PublishOrders, Snap4
<1>2. WritePreparedSource = Write5
  BY Combined DEF WritePreparedSource, Write2
<1>3. ReplacePartition = ReplaceSteps
  BY <1>2, Combined DEF ReplacePartition, Replace2
<1>4. PublishHistory = HistorySteps
  BY <1>3, Combined DEF PublishHistory
<1>5. InTransaction(<<"record", "parsed", "ingested">>) = None5
  BY Combined DEF None3
<1>6. /\ PublishReferences("empty") = EmptySteps
      /\ \A c : c # "empty" => PublishReferences(c) = ReferencesSteps
  BY <1>3, <1>5, Combined DEF PublishReferences, ReplaceTables, Archive3
<1>7. QED
  BY <1>1, <1>4, <1>6 DEF Steps, PublishFuzzwork
----------------------------------------------------------------------------
(* The inductive invariant.                                                *)

\* Only a thread that is there writes a temporary file; between runs, and once
\* everything is acquired, there is none; and what has been collected is done.
Threads ==
  /\ \A o \in Object : temp[o] = "body" => job[o] \in {"streaming", "moving"}
  /\ pool \in {"closed", "acquired"} => job = NoJobs
  /\ \A o \in Object : o \notin objects => job[o] = "idle"
  /\ pool = "collecting" => \A o \in objects : o < next => job[o] = "done"
  /\ pc # "acquiring" => pool = "acquired"

\* A session is open in its phase only, and a step is that of some object.
Sessions ==
  /\ pc # "publishing" => Closed /\ tmp = {}
  /\ step > 0 => batch # {}
  /\ raising => step > 0

InWork(o) == step > 0 /\ o = cur

\* What is not committed is in a transaction, and a copy in its block.
Blocked ==
  /\ work # db => \E i \in 1..Len(stack) : stack[i] = "tx"
  /\ tmp # {} => \E i \in 1..Len(stack) : stack[i] \in {"csv", "tarball"}
  /\ \A o \in tmp : InWork(o)

Done(o) == [rows |-> RowsOf(o), status |-> "ingested"]

\* An object is there in full, or not at all.
Sound(r, o) == r = Absent \/ (r = Done(o) /\ content[o] \in {"good", "empty"})

\* Only the object in work is in between, and what is ingested is not in work.
Data ==
  /\ \A o \in Object : Sound(db[o], o)
  /\ \A o \in Object : ~InWork(o) => Sound(work[o], o) /\ (~Snapshot => work[o] = db[o])
  /\ Snapshot => \A o \in Object : db[o].status = "ingested" => work[o] = db[o]

\* What is called a success is one, or will be by the COMMIT of its batch.
Successes ==
  /\ good \cap batch = {}
  /\ ~Snapshot \/ pc # "publishing" => \A o \in good : db[o].status = "ingested"
  /\ Snapshot /\ ~raising => \A o \in good : work[o].status = "ingested"
  /\ pc = "publishing" /\ Snapshot /\ stack # <<>> => InScope \subseteq batch \cup good
  /\ \A o \in marked : db[o].status = "ingested"

(***************************************************************************)
(* Where the object in work is: the blocks around the step that comes      *)
(* next, and what the open transaction has made of the object.             *)
(***************************************************************************)
OrdersBlocks ==
  /\ step \in 1..12
  /\ step \in {1, 12} => stack = <<"tx">>
  /\ step \in {2, 3, 11} => stack = <<"tx", "csv">>
  /\ step \in {4, 10} => stack = <<"tx", "csv", "view">>
  /\ step \in {5, 6, 7, 8, 9} => stack = <<"tx", "csv", "view", "tx">>

OrdersWork(r) ==
  /\ step \in {1, 2} => Sound(r, cur)
  /\ step \in {3, 4, 5} => r = Absent
  /\ step = 6 => r = [rows |-> 0, status |-> "downloaded"]
  /\ step = 7 => r = [rows |-> 0, status |-> "parsed"]
  /\ step = 8 => r = [rows |-> RowsOf(cur), status |-> "parsed"]
  /\ step >= 9 => r = Done(cur)
  /\ step >= 2 => content[cur] # "torn"
  /\ step >= 8 => content[cur] # "wrong"

FuzzworkBlocks ==
  /\ step \in 1..10
  /\ step \in {1, 2, 10} => stack = <<"tx">>
  /\ step \in {3, 9} => stack = <<"tx", "view">>
  /\ step \in {4, 5, 6, 7, 8} => stack = <<"tx", "view", "tx">>

FuzzworkWork(r) ==
  /\ step = 1 => Sound(r, cur)
  /\ step \in {2, 3, 4} => r = Absent
  /\ step = 5 => r = [rows |-> 0, status |-> "downloaded"]
  /\ step = 6 => r = [rows |-> 0, status |-> "parsed"]
  /\ step = 7 => r = [rows |-> RowsOf(cur), status |-> "parsed"]
  /\ step >= 8 => r = Done(cur)
  /\ step >= 7 => content[cur] \in {"good", "empty"}

HistoryBlocks ==
  /\ step \in 1..14
  /\ step \in {1, 2, 14} => stack = <<>>
  /\ step \in {3, 13} => stack = <<"view">>
  /\ step \in {4, 5, 6, 7, 11, 12} => stack = <<"view", "tx">>
  /\ step \in {8, 9, 10} => stack = <<"view", "tx", "tx">>

HistoryWork(r) ==
  /\ step \in {1, 2, 3, 4, 13, 14} => r = db[cur]
  /\ step = 5 => r.status = "downloaded"
  /\ step \in {6, 7, 8, 9} => r.status = "parsed"
  /\ step = 9 => r.rows = 0
  /\ step \in {10, 11} => r = [rows |-> RowsOf(cur), status |-> "parsed"]
  /\ step >= 12 => r = Done(cur)
  /\ step >= 2 => content[cur] # "torn"
  /\ step >= 7 => content[cur] # "wrong"

ReferencesBlocks ==
  /\ step \in 1..16
  /\ step \in {1, 4, 16} => stack = <<>>
  /\ step \in {2, 3} => stack = <<"tarball">>
  /\ step \in {5, 15} => stack = <<"view">>
  /\ step \in {6, 7, 8, 9, 13, 14} => stack = <<"view", "tx">>
  /\ step \in {10, 11, 12} => stack = <<"view", "tx", "tx">>

ReferencesWork(r) ==
  /\ step \in {1, 2, 3, 4, 5, 6, 15, 16} => r = db[cur]
  /\ step = 7 => r.status = "downloaded"
  /\ step \in {8, 9, 10, 11} => r.status = "parsed"
  /\ step = 11 => r.rows = 0
  /\ step \in {12, 13} => r = [rows |-> RowsOf(cur), status |-> "parsed"]
  /\ step >= 14 => r = Done(cur)
  /\ step >= 2 => content[cur] # "torn"
  /\ step >= 3 => content[cur] # "wrong"

EmptyBlocks ==
  /\ step \in 1..9
  /\ step \in {1, 4, 9} => stack = <<>>
  /\ step \in {2, 3} => stack = <<"tarball">>
  /\ step \in {5, 6, 7, 8} => stack = <<"tx">>

EmptyWork(r) ==
  /\ step \in {1, 2, 3, 4, 5, 9} => r = db[cur]
  /\ step = 6 => r = [rows |-> 0, status |-> "downloaded"]
  /\ step = 7 => r = [rows |-> 0, status |-> "parsed"]
  /\ step >= 8 => r = Done(cur)

\* Between two objects.
Base == stack = IF Snapshot THEN <<"tx">> ELSE <<>>

\* The batch of a snapshot scope is over, committed or not.
Over == Snapshot /\ batch = {} /\ stack = <<>>

Progress ==
  pc = "publishing" /\ ~raising =>
    /\ step = 0 => Base \/ Over
    /\ step > 0 /\ kind = "orders" => OrdersBlocks /\ OrdersWork(work[cur])
    /\ step > 0 /\ kind = "fuzzwork" => FuzzworkBlocks /\ FuzzworkWork(work[cur])
    /\ step > 0 /\ kind = "history" => HistoryBlocks /\ HistoryWork(work[cur])
    /\ step > 0 /\ kind = "references" =>
         IF content[cur] = "empty"
           THEN EmptyBlocks /\ EmptyWork(work[cur])
           ELSE ReferencesBlocks /\ ReferencesWork(work[cur])

IInv == Threads /\ Sessions /\ Blocked /\ Data /\ Successes /\ Progress

\* Where a step is in the sequence of its source.
LEMMA AtOrders ==
  ASSUME kind = "orders", NEW s, At(s)
  PROVE  \/ s = "csv" /\ step = 1
         \/ s = "check" /\ step = 2
         \/ s = "view" /\ step = 3
         \/ s = "begin" /\ step = 4
         \/ s = "record" /\ step = 5
         \/ s = "parsed" /\ step = 6
         \/ s = "insert" /\ step = 7
         \/ s = "ingested" /\ step = 8
         \/ s = "end" /\ step = 9
         \/ s = "drop" /\ step = 10
         \/ s = "unlink" /\ step = 11
BY StepsOf DEF At, OrdersSteps

\* ... one of a CSV of EVERef's Fuzzwork mirror,
LEMMA AtFuzzwork ==
  ASSUME kind = "fuzzwork", NEW s, At(s)
  PROVE  \/ s = "check" /\ step = 1
         \/ s = "view" /\ step = 2
         \/ s = "begin" /\ step = 3
         \/ s = "record" /\ step = 4
         \/ s = "parsed" /\ step = 5
         \/ s = "insert" /\ step = 6
         \/ s = "ingested" /\ step = 7
         \/ s = "end" /\ step = 8
         \/ s = "drop" /\ step = 9
BY StepsOf DEF At, FuzzworkSteps

\* ... a day of the market history,
LEMMA AtHistory ==
  ASSUME kind = "history", NEW s, At(s)
  PROVE  \/ s = "parse" /\ step = 1
         \/ s = "view" /\ step = 2
         \/ s = "begin" /\ step \in {3, 7}
         \/ s = "record" /\ step = 4
         \/ s = "parsed" /\ step = 5
         \/ s = "validate" /\ step = 6
         \/ s = "delete" /\ step = 8
         \/ s = "insert" /\ step = 9
         \/ s = "end" /\ step \in {10, 12}
         \/ s = "ingested" /\ step = 11
         \/ s = "drop" /\ step = 13
BY StepsOf DEF At, HistorySteps

\* ... an archive of the reference data,
LEMMA AtReferences ==
  ASSUME kind = "references", content[cur] # "empty", NEW s, At(s)
  PROVE  \/ s = "tarball" /\ step = 1
         \/ s = "members" /\ step = 2
         \/ s = "cleanup" /\ step = 3
         \/ s = "view" /\ step = 4
         \/ s = "begin" /\ step \in {5, 9}
         \/ s = "record" /\ step = 6
         \/ s = "parsed" /\ step = 7
         \/ s = "validate" /\ step = 8
         \/ s = "delete" /\ step = 10
         \/ s = "insert" /\ step = 11
         \/ s = "end" /\ step \in {12, 14}
         \/ s = "ingested" /\ step = 13
         \/ s = "drop" /\ step = 15
BY StepsOf DEF At, ReferencesSteps

\* ... an archive without rows for any table.
LEMMA AtEmpty ==
  ASSUME kind = "references", content[cur] = "empty", NEW s, At(s)
  PROVE  \/ s = "tarball" /\ step = 1
         \/ s = "members" /\ step = 2
         \/ s = "cleanup" /\ step = 3
         \/ s = "begin" /\ step = 4
         \/ s = "record" /\ step = 5
         \/ s = "parsed" /\ step = 6
         \/ s = "ingested" /\ step = 7
         \/ s = "end" /\ step = 8
BY StepsOf DEF At, EmptySteps

\* The stacks there are, and what opening and closing a block makes of them.
LEMMA BlockStacks ==
  /\ Append(<<>>, "view") = <<"view">> /\ SubSeq(<<"view">>, 1, 0) = <<>>
  /\ Append(<<>>, "tarball") = <<"tarball">> /\ SubSeq(<<"tarball">>, 1, 0) = <<>>
  /\ Append(<<>>, "tx") = <<"tx">> /\ SubSeq(<<"tx">>, 1, 0) = <<>>
  /\ Append(<<"tx">>, "csv") = <<"tx", "csv">> /\ SubSeq(<<"tx", "csv">>, 1, 1) = <<"tx">>
  /\ Append(<<"tx">>, "view") = <<"tx", "view">> /\ SubSeq(<<"tx", "view">>, 1, 1) = <<"tx">>
  /\ Append(<<"view">>, "tx") = <<"view", "tx">> /\ SubSeq(<<"view", "tx">>, 1, 1) = <<"view">>
  /\ Append(<<"tx", "csv">>, "view") = <<"tx", "csv", "view">>
  /\ SubSeq(<<"tx", "csv", "view">>, 1, 2) = <<"tx", "csv">>
  /\ Append(<<"tx", "view">>, "tx") = <<"tx", "view", "tx">>
  /\ SubSeq(<<"tx", "view", "tx">>, 1, 2) = <<"tx", "view">>
  /\ Append(<<"view", "tx">>, "tx") = <<"view", "tx", "tx">>
  /\ SubSeq(<<"view", "tx", "tx">>, 1, 2) = <<"view", "tx">>
  /\ Append(<<"tx", "csv", "view">>, "tx") = <<"tx", "csv", "view", "tx">>
  /\ SubSeq(<<"tx", "csv", "view", "tx">>, 1, 3) = <<"tx", "csv", "view">>
<1> DEFINE csv == "csv"  tarball == "tarball"  view == "view"  tx == "tx"
<1>1. csv \in Blocks /\ tarball \in Blocks /\ view \in Blocks /\ tx \in Blocks
  BY DEF Blocks
<1> HIDE DEF csv, tarball, view, tx
<1>2. /\ Append(<<>>, view) = <<view>> /\ SubSeq(<<view>>, 1, 0) = <<>>
      /\ Append(<<>>, tarball) = <<tarball>> /\ SubSeq(<<tarball>>, 1, 0) = <<>>
      /\ Append(<<>>, tx) = <<tx>> /\ SubSeq(<<tx>>, 1, 0) = <<>>
  BY <1>1, Stacks1
<1>3. /\ Append(<<tx>>, csv) = <<tx, csv>> /\ SubSeq(<<tx, csv>>, 1, 1) = <<tx>>
      /\ Append(<<tx>>, view) = <<tx, view>> /\ SubSeq(<<tx, view>>, 1, 1) = <<tx>>
      /\ Append(<<view>>, tx) = <<view, tx>> /\ SubSeq(<<view, tx>>, 1, 1) = <<view>>
  BY <1>1, Stacks2
<1>4. /\ Append(<<tx, csv>>, view) = <<tx, csv, view>>
      /\ SubSeq(<<tx, csv, view>>, 1, 2) = <<tx, csv>>
  BY <1>1, Stacks3
<1>5. /\ Append(<<tx, view>>, tx) = <<tx, view, tx>>
      /\ SubSeq(<<tx, view, tx>>, 1, 2) = <<tx, view>>
  BY <1>1, Stacks3
<1>6. /\ Append(<<view, tx>>, tx) = <<view, tx, tx>>
      /\ SubSeq(<<view, tx, tx>>, 1, 2) = <<view, tx>>
  BY <1>1, Stacks3
<1>7. /\ Append(<<tx, csv, view>>, tx) = <<tx, csv, view, tx>>
      /\ SubSeq(<<tx, csv, view, tx>>, 1, 3) = <<tx, csv, view>>
  BY <1>1, Stacks4
<1>8. QED
  BY <1>2, <1>3, <1>4, <1>5, <1>6, <1>7 DEF csv, tarball, view, tx

Shape(n, top, outermost) == Len(stack) = n /\ Top = top /\ (Outermost <=> outermost)

\* What there is to know of each stack.
LEMMA Shapes ==
  /\ stack = <<>> => Len(stack) = 0 /\ Outermost
  /\ stack = <<"tx">> => Shape(1, "tx", TRUE) /\ stack[1] = "tx"
  /\ stack = <<"view">> => Shape(1, "view", TRUE)
  /\ stack = <<"tarball">> => Shape(1, "tarball", TRUE)
  /\ stack = <<"tx", "csv">> => Shape(2, "csv", FALSE) /\ stack[1] = "tx"
  /\ stack = <<"tx", "view">> => Shape(2, "view", FALSE) /\ stack[1] = "tx"
  /\ stack = <<"view", "tx">> => Shape(2, "tx", TRUE)
  /\ stack = <<"tx", "csv", "view">> => Shape(3, "view", FALSE) /\ stack[1] = "tx"
  /\ stack = <<"tx", "view", "tx">> => Shape(3, "tx", FALSE) /\ stack[1] = "tx"
  /\ stack = <<"view", "tx", "tx">> => Shape(3, "tx", FALSE)
  /\ stack = <<"tx", "csv", "view", "tx">> => Shape(4, "tx", FALSE) /\ stack[1] = "tx"
<1>1. stack = <<>> => Len(stack) = 0 /\ Outermost
  BY DEF Outermost
<1>2. stack = <<"tx">> => Shape(1, "tx", TRUE) /\ stack[1] = "tx"
  BY DEF Shape, Top, Outermost
<1>3. stack = <<"view">> => Shape(1, "view", TRUE)
  BY DEF Shape, Top, Outermost
<1>4. stack = <<"tarball">> => Shape(1, "tarball", TRUE)
  BY DEF Shape, Top, Outermost
<1>5. stack = <<"tx", "csv">> => Shape(2, "csv", FALSE) /\ stack[1] = "tx"
  BY DEF Shape, Top, Outermost
<1>6. stack = <<"tx", "view">> => Shape(2, "view", FALSE) /\ stack[1] = "tx"
  BY DEF Shape, Top, Outermost
<1>7. stack = <<"view", "tx">> => Shape(2, "tx", TRUE)
  BY DEF Shape, Top, Outermost
<1>8. stack = <<"tx", "csv", "view">> => Shape(3, "view", FALSE) /\ stack[1] = "tx"
  BY DEF Shape, Top, Outermost
<1>9. stack = <<"tx", "view", "tx">> => Shape(3, "tx", FALSE) /\ stack[1] = "tx"
  BY DEF Shape, Top, Outermost
<1>10. stack = <<"view", "tx", "tx">> => Shape(3, "tx", FALSE)
  BY DEF Shape, Top, Outermost
<1>11. stack = <<"tx", "csv", "view", "tx">> => Shape(4, "tx", FALSE) /\ stack[1] = "tx"
  BY DEF Shape, Top, Outermost
<1>12. QED
  BY <1>1, <1>2, <1>3, <1>4, <1>5, <1>6, <1>7, <1>8, <1>9, <1>10, <1>11

\* The object in work is one of the batch.
LEMMA CurInBatch ==
  ASSUME batch # {}, batch \subseteq Object
  PROVE  cur \in batch /\ cur \in Object
<1>1. batch \subseteq Nat
  BY NAssumption DEF Object
<1>2. \E o \in batch : \A other \in batch : o <= other
  BY <1>1, Least
<1>3. QED
  BY <1>2 DEF cur

\* It stays the same as long as the batch does.
LEMMA SameCur ==
  ASSUME batch' = batch
  PROVE  cur' = cur
BY DEF cur

\* The blocks around the step that comes next.
Framed(s) ==
  /\ s = "drop" => Len(stack) > 0 /\ Top = "view"
  /\ s = "unlink" => Len(stack) > 0 /\ Top = "csv"
  /\ s = "cleanup" => Len(stack) > 0 /\ Top = "tarball"
  /\ s \in {"record", "parsed", "delete", "insert", "ingested", "end"} => Len(stack) > 0 /\ Top = "tx"
  /\ Snapshot => Len(stack) > 0 /\ stack[1] = "tx"
  /\ s = "end" /\ Snapshot => ~Outermost
  /\ s = "check" => Snapshot
  /\ s = "delete" => ~Snapshot

\* What the step finds of the object in work.
Found(s) ==
  /\ s = "insert" => work[cur] = [rows |-> 0, status |-> "parsed"]
  /\ s \in {"record", "parsed", "insert", "ingested"} /\ Snapshot => work[cur].status # "ingested"
  /\ s = "end" /\ Outermost => work[cur] = Done(cur) /\ content[cur] \in {"good", "empty"}

\* A step that comes next is a step of an object that is begun.
LEMMA Begun ==
  ASSUME kind \in Kinds, NEW s, At(s)
  PROVE  step > 0
<1>1. CASE kind = "orders"
  BY <1>1, AtOrders
<1>2. CASE kind = "fuzzwork"
  BY <1>2, AtFuzzwork
<1>3. CASE kind = "history"
  BY <1>3, AtHistory
<1>4. CASE kind = "references" /\ content[cur] # "empty"
  BY <1>4, AtReferences
<1>5. CASE kind = "references" /\ content[cur] = "empty"
  BY <1>5, AtEmpty
<1>6. QED
  BY <1>1, <1>2, <1>3, <1>4, <1>5 DEF Kinds

\* The next step finds the blocks and the rows it needs.
LEMMA Places ==
  ASSUME TypeOK, IInv, NEW s, At(s), pc = "publishing"
  PROVE  Framed(s) /\ Found(s)
<1>1. /\ ~raising /\ step > 0 /\ batch # {} /\ step \in Nat
  BY Begun DEF At, TypeOK, PublicationOK
<1>2. cur \in Object /\ content[cur] \in Contents /\ work[cur] \in Published
  BY <1>1, CurInBatch DEF TypeOK, PublicationOK
<1>3. Progress
  BY DEF IInv
<1>4. CASE kind = "orders"
  <2>1. OrdersBlocks /\ OrdersWork(work[cur]) /\ Snapshot
    BY <1>1, <1>3, <1>4 DEF Progress, Snapshot
  <2>2. Framed(s)
    BY <1>1, <1>4, <2>1, AtOrders, Shapes DEF OrdersBlocks, Framed, Shape
  <2>3. Found(s)
    BY <1>1, <1>2, <1>4, <2>1, <2>2, AtOrders DEF OrdersWork, Found, Absent, Done, Contents,
       Published
  <2>4. QED
    BY <2>2, <2>3
<1>5. CASE kind = "fuzzwork"
  <2>1. FuzzworkBlocks /\ FuzzworkWork(work[cur]) /\ Snapshot
    BY <1>1, <1>3, <1>5 DEF Progress, Snapshot
  <2>2. Framed(s)
    BY <1>1, <1>5, <2>1, AtFuzzwork, Shapes DEF FuzzworkBlocks, Framed, Shape
  <2>3. Found(s)
    BY <1>1, <1>2, <1>5, <2>1, <2>2, AtFuzzwork DEF FuzzworkWork, Found, Absent, Done,
       Contents, Published
  <2>4. QED
    BY <2>2, <2>3
<1>6. CASE kind = "history"
  <2>1. HistoryBlocks /\ HistoryWork(work[cur]) /\ ~Snapshot
    BY <1>1, <1>3, <1>6 DEF Progress, Snapshot
  <2>2. Framed(s)
    <3>1. /\ s \notin {"unlink", "cleanup", "check"}
          /\ s = "drop" => stack = <<"view">>
          /\ s \in {"record", "parsed", "delete", "insert", "ingested", "end"} =>
               stack = <<"view", "tx">> \/ stack = <<"view", "tx", "tx">>
      BY <1>1, <1>6, <2>1, AtHistory DEF HistoryBlocks
    <3>2. s = "drop" => Len(stack) > 0 /\ Top = "view"
      BY <3>1, Shapes DEF Shape
    <3>3. s \in {"record", "parsed", "delete", "insert", "ingested", "end"} => Len(stack) > 0 /\ Top = "tx"
      BY <3>1, Shapes DEF Shape
    <3>4. QED
      BY <2>1, <3>1, <3>2, <3>3 DEF Framed
  <2>3. s = "end" /\ Outermost => step = 12
    BY <1>1, <1>6, <2>1, AtHistory, Shapes DEF HistoryBlocks, Shape
  <2>4. Found(s)
    BY <1>1, <1>2, <1>6, <2>1, <2>3, AtHistory DEF HistoryWork, Found, Absent, Done,
       Contents, Published
  <2>5. QED
    BY <2>2, <2>4
<1>7. CASE kind = "references" /\ content[cur] # "empty"
  <2>1. ReferencesBlocks /\ ReferencesWork(work[cur]) /\ ~Snapshot
    BY <1>1, <1>3, <1>7 DEF Progress, Snapshot
  <2>2. Framed(s)
    <3>1. /\ s \notin {"unlink", "check"}
          /\ s = "drop" => stack = <<"view">>
          /\ s = "cleanup" => stack = <<"tarball">>
          /\ s \in {"record", "parsed", "delete", "insert", "ingested", "end"} =>
               stack = <<"view", "tx">> \/ stack = <<"view", "tx", "tx">>
      BY <1>1, <1>7, <2>1, AtReferences DEF ReferencesBlocks
    <3>2. s = "drop" => Len(stack) > 0 /\ Top = "view"
      BY <3>1, Shapes DEF Shape
    <3>3. s = "cleanup" => Len(stack) > 0 /\ Top = "tarball"
      BY <3>1, Shapes DEF Shape
    <3>4. s \in {"record", "parsed", "delete", "insert", "ingested", "end"} => Len(stack) > 0 /\ Top = "tx"
      BY <3>1, Shapes DEF Shape
    <3>5. QED
      BY <2>1, <3>1, <3>2, <3>3, <3>4 DEF Framed
  <2>3. s = "end" /\ Outermost => step = 14
    BY <1>1, <1>7, <2>1, AtReferences, Shapes DEF ReferencesBlocks, Shape
  <2>4. s = "insert" => work[cur] = [rows |-> 0, status |-> "parsed"]
    <3>1. s = "insert" => work[cur].rows = 0 /\ work[cur].status = "parsed"
      BY <1>1, <1>7, <2>1, AtReferences DEF ReferencesWork
    <3>2. QED
      BY <1>2, <3>1 DEF Published
  <2>5. Found(s)
    BY <1>1, <1>2, <1>7, <2>1, <2>3, <2>4, AtReferences DEF ReferencesWork, Found, Contents
  <2>6. QED
    BY <2>2, <2>5
<1>8. CASE kind = "references" /\ content[cur] = "empty"
  <2>1. EmptyBlocks /\ EmptyWork(work[cur]) /\ ~Snapshot
    BY <1>1, <1>3, <1>8 DEF Progress, Snapshot
  <2>2. Framed(s)
    <3>1. /\ s \notin {"unlink", "drop", "check", "delete", "insert"}
          /\ s = "cleanup" => stack = <<"tarball">>
          /\ s \in {"record", "parsed", "delete", "insert", "ingested", "end"} =>
               stack = <<"tx">>
      BY <1>1, <1>8, <2>1, AtEmpty DEF EmptyBlocks
    <3>2. s = "cleanup" => Len(stack) > 0 /\ Top = "tarball"
      BY <3>1, Shapes DEF Shape
    <3>3. s \in {"record", "parsed", "delete", "insert", "ingested", "end"} => Len(stack) > 0 /\ Top = "tx"
      BY <3>1, Shapes DEF Shape
    <3>4. QED
      BY <2>1, <3>1, <3>2, <3>3 DEF Framed
  <2>3. s = "end" /\ Outermost => step = 8
    BY <1>1, <1>8, <2>1, AtEmpty, Shapes DEF EmptyBlocks, Shape
  <2>4. Found(s)
    BY <1>1, <1>2, <1>8, <2>1, <2>3, AtEmpty DEF EmptyWork, Found, Absent, Done, Contents,
       Published, RowsOf
  <2>5. QED
    BY <2>2, <2>4
<1>9. QED
  BY <1>4, <1>5, <1>6, <1>7, <1>8 DEF TypeOK, Kinds

\* The same of the stack as it is.
LEMMA Pushed ==
  /\ stack = <<>> => Append(stack, "tx") = <<"tx">>
  /\ stack = <<>> => Append(stack, "view") = <<"view">>
  /\ stack = <<>> => Append(stack, "tarball") = <<"tarball">>
  /\ stack = <<"tx">> => Append(stack, "csv") = <<"tx", "csv">>
  /\ stack = <<"tx">> => Append(stack, "view") = <<"tx", "view">>
  /\ stack = <<"view">> => Append(stack, "tx") = <<"view", "tx">>
  /\ stack = <<"tx", "csv">> => Append(stack, "view") = <<"tx", "csv", "view">>
  /\ stack = <<"tx", "view">> => Append(stack, "tx") = <<"tx", "view", "tx">>
  /\ stack = <<"view", "tx">> => Append(stack, "tx") = <<"view", "tx", "tx">>
  /\ stack = <<"tx", "csv", "view">> => Append(stack, "tx") = <<"tx", "csv", "view", "tx">>
BY BlockStacks

\* ... and by leaving one, whose place the block below takes.
LEMMA Popped ==
  /\ stack = <<"tx">> => Pop = <<>>
  /\ stack = <<"view">> => Pop = <<>>
  /\ stack = <<"tarball">> => Pop = <<>>
  /\ stack = <<"tx", "csv">> => Pop = <<"tx">>
  /\ stack = <<"tx", "view">> => Pop = <<"tx">>
  /\ stack = <<"view", "tx">> => Pop = <<"view">>
  /\ stack = <<"tx", "csv", "view">> => Pop = <<"tx", "csv">>
  /\ stack = <<"tx", "view", "tx">> => Pop = <<"tx", "view">>
  /\ stack = <<"view", "tx", "tx">> => Pop = <<"view", "tx">>
  /\ stack = <<"tx", "csv", "view", "tx">> => Pop = <<"tx", "csv", "view">>
<1>1. stack = <<"tx">> => Pop = <<>>
  <2>1. stack = <<"tx">> => Len(stack) - 1 = 0
    BY Shapes DEF Shape
  <2>2. QED
    BY <2>1, BlockStacks DEF Pop
<1>2. stack = <<"view">> => Pop = <<>>
  <2>1. stack = <<"view">> => Len(stack) - 1 = 0
    BY Shapes DEF Shape
  <2>2. QED
    BY <2>1, BlockStacks DEF Pop
<1>3. stack = <<"tarball">> => Pop = <<>>
  <2>1. stack = <<"tarball">> => Len(stack) - 1 = 0
    BY Shapes DEF Shape
  <2>2. QED
    BY <2>1, BlockStacks DEF Pop
<1>4. stack = <<"tx", "csv">> => Pop = <<"tx">>
  <2>1. stack = <<"tx", "csv">> => Len(stack) - 1 = 1
    BY Shapes DEF Shape
  <2>2. QED
    BY <2>1, BlockStacks DEF Pop
<1>5. stack = <<"tx", "view">> => Pop = <<"tx">>
  <2>1. stack = <<"tx", "view">> => Len(stack) - 1 = 1
    BY Shapes DEF Shape
  <2>2. QED
    BY <2>1, BlockStacks DEF Pop
<1>6. stack = <<"view", "tx">> => Pop = <<"view">>
  <2>1. stack = <<"view", "tx">> => Len(stack) - 1 = 1
    BY Shapes DEF Shape
  <2>2. QED
    BY <2>1, BlockStacks DEF Pop
<1>7. stack = <<"tx", "csv", "view">> => Pop = <<"tx", "csv">>
  <2>1. stack = <<"tx", "csv", "view">> => Len(stack) - 1 = 2
    BY Shapes DEF Shape
  <2>2. QED
    BY <2>1, BlockStacks DEF Pop
<1>8. stack = <<"tx", "view", "tx">> => Pop = <<"tx", "view">>
  <2>1. stack = <<"tx", "view", "tx">> => Len(stack) - 1 = 2
    BY Shapes DEF Shape
  <2>2. QED
    BY <2>1, BlockStacks DEF Pop
<1>9. stack = <<"view", "tx", "tx">> => Pop = <<"view", "tx">>
  <2>1. stack = <<"view", "tx", "tx">> => Len(stack) - 1 = 2
    BY Shapes DEF Shape
  <2>2. QED
    BY <2>1, BlockStacks DEF Pop
<1>10. stack = <<"tx", "csv", "view", "tx">> => Pop = <<"tx", "csv", "view">>
  <2>1. stack = <<"tx", "csv", "view", "tx">> => Len(stack) - 1 = 3
    BY Shapes DEF Shape
  <2>2. QED
    BY <2>1, BlockStacks DEF Pop
<1>11. QED
  BY <1>1, <1>2, <1>3, <1>4, <1>5, <1>6, <1>7, <1>8, <1>9, <1>10

Writes == {"parse", "members", "validate", "record", "parsed", "delete", "insert", "ingested"}

\* A step that does not raise.
Moved(s) ==
  /\ Fine(s) /\ UNCHANGED <<kind, content, batch, raising, good>>
  /\ stack' = IF s \in {"csv", "tarball", "view"} THEN Append(stack, s)
              ELSE IF s = "begin" THEN Append(stack, "tx")
              ELSE IF s \in {"unlink", "cleanup", "drop", "end"} THEN Pop
              ELSE stack
  /\ step' = IF s = "check" /\ work[cur].status = "ingested" THEN AfterSkip(cur) ELSE step + 1
  /\ work' = [work EXCEPT ![cur] = IF s \in Writes THEN Written(s, @) ELSE @]
  /\ db' = IF s = "end" /\ Outermost THEN work ELSE db
  /\ tmp' = IF s \in {"csv", "tarball"} THEN tmp \cup {cur}
            ELSE IF s \in {"unlink", "cleanup", "drop"} /\ Top \in {"csv", "tarball"} THEN tmp \ {cur}
            ELSE tmp

\* What a statement makes of what it finds.
LEMMA WrittenIs ==
  ASSUME NEW r \in Published
  PROVE  /\ Written("record", r) = [rows |-> r.rows, status |-> "downloaded"]
         /\ Written("parsed", r) = [rows |-> r.rows, status |-> "parsed"]
         /\ Written("delete", r) = [rows |-> 0, status |-> r.status]
         /\ Written("ingested", r) = [rows |-> r.rows, status |-> "ingested"]
         /\ r.rows = 0 => Written("insert", r) = [rows |-> RowsOf(cur), status |-> r.status]
         /\ Written("parse", r) = r /\ Written("members", r) = r /\ Written("validate", r) = r
BY DEF Written, Published, RowsOf

\* A step that does not raise leads to the next row of the table of its source.
LEMMA OrdersMoved ==
  ASSUME kind = "orders", NEW s, Moved(s), step \in Nat,
         cur \in Object, work \in [Object -> Published],
         content[cur] \in Contents, db \in [Object -> Published], OrdersBlocks, OrdersWork(work[cur])
  PROVE  OrdersBlocks' /\ OrdersWork(work[cur])'
<1>1. At(s) /\ cur' = cur /\ content' = content
  BY SameCur DEF Moved, Fine
<1>2. /\ work[cur] \in Published
      /\ work'[cur] = IF s \in Writes THEN Written(s, work[cur]) ELSE work[cur]
      /\ db'[cur] = IF s = "end" /\ Outermost THEN work[cur] ELSE db[cur]
  BY DEF Moved
<1>3. step' = IF s = "check" /\ work[cur].status = "ingested" THEN 11 ELSE step + 1
  <2>1. Len(Steps(cur)) = 11
    BY StepsOf DEF OrdersSteps
  <2>2. QED
    BY <2>1 DEF Moved, AfterSkip
<1>4. OrdersBlocks'
  <2>1. CASE s \in {"check", "record", "parsed", "insert", "ingested"}
    BY <1>1, <1>3, <2>1, AtOrders DEF Moved, OrdersBlocks
  <2>2. CASE s \in {"csv", "view", "begin"}
    BY <1>1, <1>3, <2>2, AtOrders, Pushed DEF Moved, OrdersBlocks
  <2>3. CASE s \in {"end", "drop", "unlink"}
    BY <1>1, <1>3, <2>3, AtOrders, Popped DEF Moved, OrdersBlocks
  <2>4. QED
    BY <1>1, <2>1, <2>2, <2>3, AtOrders
<1>5. OrdersWork(work[cur])'
  <2>1. CASE s \in {"csv", "check", "view", "begin"}
    BY <1>2, <1>1, <1>3, <2>1, AtOrders DEF Writes, Moved, Fine, Raises, OrdersWork,
       Sound, Done, Absent, Contents, RowsOf
  <2>2. CASE s \in {"record", "parsed", "insert", "ingested"}
    <3>1. RowsOf(cur)' = RowsOf(cur) /\ RowsOf(cur) \in 0..1 /\ step' = step + 1
      BY <1>1, <1>3, <2>2 DEF RowsOf
    <3>2. work'[cur] = Written(s, work[cur])
      BY <1>2, <2>2 DEF Writes
    <3>3. CASE s = "record"
      BY <1>1, <1>2, <3>1, <3>2, <3>3, AtOrders, WrittenIs DEF OrdersWork, Absent
    <3>4. CASE s = "parsed"
      BY <1>1, <1>2, <3>1, <3>2, <3>4, AtOrders, WrittenIs DEF OrdersWork
    <3>5. CASE s = "insert"
      <4>1. content[cur] # "wrong"
        BY <1>1, <3>5, AtOrders DEF Moved, Fine, Raises, Snapshot
      <4>2. QED
        BY <1>1, <1>2, <3>1, <3>2, <3>5, <4>1, AtOrders, WrittenIs DEF OrdersWork
    <3>6. CASE s = "ingested"
      BY <1>1, <1>2, <3>1, <3>2, <3>6, AtOrders, WrittenIs DEF OrdersWork, Done
    <3>7. QED
      BY <2>2, <3>3, <3>4, <3>5, <3>6
  <2>3. CASE s \in {"end", "drop", "unlink"}
    BY <1>2, <1>1, <1>3, <2>3, AtOrders DEF Writes, OrdersWork, Done, Absent, RowsOf
  <2>4. QED
    BY <1>1, <2>1, <2>2, <2>3, AtOrders
<1>6. QED
  BY <1>4, <1>5

\* ... for a CSV of the Fuzzwork mirror,
LEMMA FuzzworkMoved ==
  ASSUME kind = "fuzzwork", NEW s, Moved(s), step \in Nat,
         cur \in Object, work \in [Object -> Published],
         content[cur] \in Contents, db \in [Object -> Published], FuzzworkBlocks, FuzzworkWork(work[cur])
  PROVE  FuzzworkBlocks' /\ FuzzworkWork(work[cur])'
<1>1. At(s) /\ cur' = cur /\ content' = content
  BY SameCur DEF Moved, Fine
<1>2. /\ work[cur] \in Published
      /\ work'[cur] = IF s \in Writes THEN Written(s, work[cur]) ELSE work[cur]
      /\ db'[cur] = IF s = "end" /\ Outermost THEN work[cur] ELSE db[cur]
  BY DEF Moved
<1>3. step' = IF s = "check" /\ work[cur].status = "ingested" THEN 10 ELSE step + 1
  <2>1. Len(Steps(cur)) = 9
    BY StepsOf DEF FuzzworkSteps
  <2>2. QED
    BY <2>1 DEF Moved, AfterSkip
<1>4. FuzzworkBlocks'
  BY <1>1, <1>3, AtFuzzwork, Pushed, Popped DEF Moved, FuzzworkBlocks
<1>5. FuzzworkWork(work[cur])'
  BY <1>2, <1>1, <1>3, AtFuzzwork, WrittenIs DEF Writes, Moved, Fine, Raises, FuzzworkWork,
     Snapshot, Sound, Done, Absent, Contents, Published, RowsOf
<1>6. QED
  BY <1>4, <1>5

\* ... for a day of the market history,
LEMMA HistoryMoved ==
  ASSUME kind = "history", NEW s, Moved(s), step \in Nat,
         cur \in Object, work \in [Object -> Published],
         content[cur] \in Contents, db \in [Object -> Published], HistoryBlocks, HistoryWork(work[cur])
  PROVE  HistoryBlocks' /\ HistoryWork(work[cur])'
<1>1. At(s) /\ cur' = cur /\ content' = content
  BY SameCur DEF Moved, Fine
<1>2. /\ work[cur] \in Published
      /\ work'[cur] = IF s \in Writes THEN Written(s, work[cur]) ELSE work[cur]
      /\ db'[cur] = IF s = "end" /\ Outermost THEN work[cur] ELSE db[cur]
  BY DEF Moved
<1>3. s # "check" /\ step' = step + 1
  BY <1>1, AtHistory DEF Moved
<1>4. HistoryBlocks'
  BY <1>1, <1>3, AtHistory, Pushed, Popped DEF Moved, HistoryBlocks
<1>5. s = "end" /\ step = 12 => Outermost
  BY <1>1, Shapes DEF HistoryBlocks, Shape
<1>6. HistoryWork(work[cur])'
  BY <1>2, <1>1, <1>3, <1>5, AtHistory, WrittenIs DEF Writes, Moved, Fine, Raises,
     HistoryWork, Snapshot, Done, Contents, Published, RowsOf
<1>7. QED
  BY <1>4, <1>6

\* ... for an archive of the reference data,
LEMMA ReferencesMoved ==
  ASSUME kind = "references", content[cur] # "empty", NEW s, Moved(s), step \in Nat,
         cur \in Object, work \in [Object -> Published],
         content[cur] \in Contents, db \in [Object -> Published], ReferencesBlocks, ReferencesWork(work[cur])
  PROVE  ReferencesBlocks' /\ ReferencesWork(work[cur])'
<1>1. At(s) /\ cur' = cur /\ content' = content
  BY SameCur DEF Moved, Fine
<1>2. /\ work[cur] \in Published
      /\ work'[cur] = IF s \in Writes THEN Written(s, work[cur]) ELSE work[cur]
      /\ db'[cur] = IF s = "end" /\ Outermost THEN work[cur] ELSE db[cur]
  BY DEF Moved
<1>3. s # "check" /\ step' = step + 1
  BY <1>1, AtReferences DEF Moved
<1>4. ReferencesBlocks'
  BY <1>1, <1>3, AtReferences, Pushed, Popped DEF Moved, ReferencesBlocks
<1>5. s = "end" /\ step = 14 => Outermost
  BY <1>1, Shapes DEF ReferencesBlocks, Shape
<1>6. ReferencesWork(work[cur])'
  BY <1>2, <1>1, <1>3, <1>5, AtReferences, WrittenIs DEF Writes, Moved, Fine, Raises,
     ReferencesWork, Snapshot, Done, Contents, Published, RowsOf
<1>7. QED
  BY <1>4, <1>6

\* ... for an archive without rows.
LEMMA EmptyMoved ==
  ASSUME kind = "references", content[cur] = "empty", NEW s, Moved(s), step \in Nat,
         cur \in Object, work \in [Object -> Published],
         content[cur] \in Contents, Sound(db[cur], cur), db \in [Object -> Published], EmptyBlocks, EmptyWork(work[cur])
  PROVE  EmptyBlocks' /\ EmptyWork(work[cur])'
<1>1. At(s) /\ cur' = cur /\ content' = content
  BY SameCur DEF Moved, Fine
<1>2. /\ work[cur] \in Published
      /\ work'[cur] = IF s \in Writes THEN Written(s, work[cur]) ELSE work[cur]
      /\ db'[cur] = IF s = "end" /\ Outermost THEN work[cur] ELSE db[cur]
  BY DEF Moved
<1>3. s # "check" /\ step' = step + 1
  BY <1>1, AtEmpty DEF Moved
<1>4. EmptyBlocks'
  BY <1>1, <1>3, AtEmpty, Pushed, Popped DEF Moved, EmptyBlocks
<1>5. s = "end" /\ step = 8 => Outermost
  BY <1>1, Shapes DEF EmptyBlocks, Shape
<1>6. EmptyWork(work[cur])'
  BY <1>2, <1>1, <1>3, <1>5, AtEmpty, WrittenIs DEF Writes, Moved, Fine, Raises, EmptyWork,
     Snapshot, Done, Contents, Published, RowsOf, Sound, Absent
<1>7. QED
  BY <1>4, <1>6

----------------------------------------------------------------------------
(* What the steps of a session keep.                                       *)

\* A session is open, and what is around it stays as it is.
InSession ==
  /\ TypeOK /\ IInv /\ pc = "publishing"
  /\ UNCHANGED <<kind, content, poolVars, scopeOf, pc, todo, scope, marked>>

Kept == PublicationOK /\ Sessions /\ Blocked /\ Data /\ Successes /\ Progress

\* The object in work has the types of its components.
LEMMA Current ==
  ASSUME TypeOK, IInv, batch # {}
  PROVE  /\ cur \in batch /\ cur \in Object /\ content[cur] \in Contents
         /\ db[cur] \in Published /\ work[cur] \in Published
         /\ Sound(db[cur], cur)
<1>1. cur \in batch /\ cur \in Object
  BY CurInBatch DEF TypeOK, PublicationOK
<1>2. QED
  BY <1>1 DEF TypeOK, PublicationOK, IInv, Data

\* The actions that are steps of this form.
LEMMA Moves ==
  ASSUME InSession
  PROVE  /\ Check => Moved("check")
         /\ \A s \in {"csv", "tarball", "view", "begin"} : Open(s) => Moved(s)
         /\ \A s \in {"unlink", "cleanup", "drop"} : Close(s) => Moved(s)
         /\ \A s \in Writes : Write(s) => Moved(s)
         /\ End => Moved("end")
<1>1. ASSUME NEW s, Fine(s), s \notin Writes
      PROVE  work = [work EXCEPT ![cur] = IF s \in Writes THEN Written(s, @) ELSE @]
  BY <1>1 DEF InSession, TypeOK, PublicationOK
<1>2. Check => Moved("check")
  BY <1>1 DEF InSession, Check, Moved, Writes
<1>3. ASSUME NEW s \in {"csv", "tarball", "view", "begin"}, Open(s)
      PROVE  Moved(s)
  BY <1>1, <1>3 DEF InSession, Open, Moved, Writes
<1>4. ASSUME NEW s \in {"unlink", "cleanup", "drop"}, Close(s)
      PROVE  Moved(s)
  BY <1>1, <1>4 DEF InSession, Close, LeaveBlock, Moved, Writes
<1>5. ASSUME NEW s \in Writes, Write(s)
      PROVE  Moved(s)
  BY <1>5 DEF InSession, Write, Moved, Writes
<1>6. End => Moved("end")
  BY <1>1 DEF InSession, End, Moved, Writes
<1>7. QED
  BY <1>2, <1>3, <1>4, <1>5, <1>6

\* Whatever the source, a step that does not raise leads to the next row.
LEMMA ProgressMoved ==
  ASSUME InSession, NEW s, Moved(s)
  PROVE  step' > 0 /\ step' \in 1..16 /\ Progress'
<1>1. /\ At(s) /\ ~raising /\ batch # {} /\ step \in Nat /\ step > 0 /\ pc' = "publishing"
      /\ db \in [Object -> Published] /\ work \in [Object -> Published]
      /\ kind \in Kinds /\ kind' = kind /\ ~raising' /\ content' = content /\ cur' = cur
  BY Begun, SameCur DEF InSession, Moved, Fine, At, TypeOK, PublicationOK
<1>2. cur \in Object /\ content[cur] \in Contents /\ Sound(db[cur], cur)
  BY <1>1, Current DEF InSession
<1>3. Progress
  BY DEF InSession, IInv
<1>4. CASE kind = "orders"
  <2>1. OrdersBlocks' /\ OrdersWork(work[cur])'
    BY <1>1, <1>2, <1>3, <1>4, OrdersMoved DEF InSession, Progress
  <2>2. step' > 0 /\ step' \in 1..16
    BY <2>1 DEF OrdersBlocks
  <2>3. QED
    BY <1>1, <1>4, <2>1, <2>2 DEF Progress
<1>5. CASE kind = "fuzzwork"
  <2>1. FuzzworkBlocks' /\ FuzzworkWork(work[cur])'
    BY <1>1, <1>2, <1>3, <1>5, FuzzworkMoved DEF InSession, Progress
  <2>2. step' > 0 /\ step' \in 1..16
    BY <2>1 DEF FuzzworkBlocks
  <2>3. QED
    BY <1>1, <1>5, <2>1, <2>2 DEF Progress
<1>6. CASE kind = "history"
  <2>1. HistoryBlocks' /\ HistoryWork(work[cur])'
    BY <1>1, <1>2, <1>3, <1>6, HistoryMoved DEF InSession, Progress
  <2>2. step' > 0 /\ step' \in 1..16
    BY <2>1 DEF HistoryBlocks
  <2>3. QED
    BY <1>1, <1>6, <2>1, <2>2 DEF Progress
<1>7. CASE kind = "references" /\ content[cur] # "empty"
  <2>1. ReferencesBlocks' /\ ReferencesWork(work[cur])'
    BY <1>1, <1>2, <1>3, <1>7, ReferencesMoved DEF InSession, Progress
  <2>2. step' > 0 /\ step' \in 1..16
    BY <2>1 DEF ReferencesBlocks
  <2>3. QED
    BY <1>1, <1>7, <2>1, <2>2 DEF Progress
<1>8. CASE kind = "references" /\ content[cur] = "empty"
  <2>1. EmptyBlocks' /\ EmptyWork(work[cur])'
    BY <1>1, <1>2, <1>3, <1>8, EmptyMoved DEF InSession, Progress
  <2>2. step' > 0 /\ step' \in 1..16
    BY <2>1 DEF EmptyBlocks
  <2>3. QED
    BY <1>1, <1>8, <2>1, <2>2 DEF Progress
<1>9. QED
  BY <1>1, <1>4, <1>5, <1>6, <1>7, <1>8 DEF Kinds

\* What kinds of steps there are.
LEMMA StepKinds ==
  ASSUME kind \in Kinds, NEW s, At(s)
  PROVE  \/ s \in {"csv", "tarball", "view", "begin"} \/ s \in {"unlink", "cleanup", "drop"}
         \/ s \in Writes \/ s \in {"check", "end"}
<1>1. CASE kind = "orders"
  BY <1>1, AtOrders DEF Writes
<1>2. CASE kind = "fuzzwork"
  BY <1>2, AtFuzzwork DEF Writes
<1>3. CASE kind = "history"
  BY <1>3, AtHistory DEF Writes
<1>4. CASE kind = "references" /\ content[cur] # "empty"
  BY <1>4, AtReferences DEF Writes
<1>5. CASE kind = "references" /\ content[cur] = "empty"
  BY <1>5, AtEmpty DEF Writes
<1>6. QED
  BY <1>1, <1>2, <1>3, <1>4, <1>5 DEF Kinds

\* Leaving a block keeps the others.
LEMMA Popping ==
  ASSUME stack \in Seq(Blocks), Len(stack) > 0
  PROVE  /\ Len(stack) \in Nat /\ Pop \in Seq(Blocks) /\ Len(Pop) = Len(stack) - 1
         /\ \A i \in 1..Len(stack) - 1 : Pop[i] = stack[i]
<1>1. PICK n \in Nat : Len(stack) = n + 1 /\ Len(stack) - 1 = n
  OBVIOUS
<1>2. Pop = SubSeq(stack, 1, n)
  BY <1>1 DEF Pop
<1>3. /\ SubSeq(stack, 1, n) \in Seq(Blocks) /\ Len(SubSeq(stack, 1, n)) = n
      /\ \A i \in 1..n : SubSeq(stack, 1, n)[i] = stack[i]
  BY <1>1, SubSeqProperties
<1>4. QED
  BY <1>1, <1>2, <1>3

\* A step that does not raise keeps the invariant.
LEMMA MovedKeeps ==
  ASSUME InSession, NEW s, Moved(s)
  PROVE  Kept'
<1>1. /\ At(s) /\ ~raising /\ batch # {} /\ step \in Nat /\ step > 0 /\ pc' = "publishing"
      /\ batch' = batch /\ good' = good /\ marked' = marked /\ content' = content /\ kind' = kind
      /\ ~raising' /\ cur' = cur /\ todo' = todo /\ scope' = scope /\ scopeOf' = scopeOf
      /\ pc = "publishing" /\ PublicationOK
  BY Begun, SameCur DEF InSession, Moved, Fine, At, TypeOK, PublicationOK
<1>2. /\ cur \in batch /\ cur \in Object /\ content[cur] \in Contents
      /\ work[cur] \in Published /\ db[cur] \in Published
  BY <1>1, Current DEF InSession
<1>3. Framed(s) /\ Found(s)
  BY <1>1, Places DEF InSession
<1>4. step' > 0 /\ step' \in 1..16 /\ Progress'
  BY ProgressMoved
<1>5. /\ Sessions /\ Blocked /\ Data /\ Successes
      /\ (Snapshot' <=> Snapshot) /\ (\A o : Done(o)' = Done(o))
  BY <1>1 DEF InSession, IInv, Snapshot, Done, RowsOf
<1>6. PublicationOK'
  <2>1. work' \in [Object -> Published]
    <3>1. s \in Writes => Written(s, work[cur]) \in Published
      <4>1. s = "insert" => work[cur].rows = 0
        BY <1>3 DEF Found
      <4>2. QED
        BY <1>2, <4>1 DEF Written, Writes, Published, RowsOf
    <3>2. QED
      BY <1>1, <3>1 DEF Moved, PublicationOK
  <2>2. db' \in [Object -> Published] /\ tmp' \subseteq Object
    BY <1>1, <1>2 DEF Moved, PublicationOK
  <2>3. stack' \in Seq(Blocks)
    <3>1. "csv" \in Blocks /\ "tarball" \in Blocks /\ "view" \in Blocks /\ "tx" \in Blocks
      BY DEF Blocks
    <3>2. s \in {"unlink", "cleanup", "drop", "end"} => Pop \in Seq(Blocks)
      <4>1. s \in {"unlink", "cleanup", "drop", "end"} => Len(stack) > 0
        BY <1>3 DEF Framed
      <4>2. QED
        BY <1>1, <4>1 DEF Pop, PublicationOK
    <3>3. QED
      BY <1>1, <3>1, <3>2 DEF Moved, PublicationOK
  <2>4. QED
    BY <1>1, <1>4, <2>1, <2>2, <2>3 DEF Moved, PublicationOK
<1>7. Sessions'
  BY <1>1 DEF Sessions
<1>8. Blocked'
  <2>1. work' # db' => \E i \in 1..Len(stack') : stack'[i] = "tx"
    <3>1. CASE s \in {"csv", "tarball", "view", "begin"}
      <4>1. work' = work /\ db' = db /\ Len(stack') = Len(stack) + 1
            /\ \A i \in 1..Len(stack) : stack'[i] = stack[i]
        BY <1>1, <3>1 DEF Moved, PublicationOK, Writes, Blocks
      <4>2. QED
        BY <1>1, <1>5, <4>1 DEF Blocked, PublicationOK
    <3>2. CASE s \in {"unlink", "cleanup", "drop", "end"}
      <4>1. /\ work' = work /\ Len(stack) > 0 /\ Len(stack) \in Nat /\ Len(stack') = Len(stack) - 1
            /\ \A i \in 1..Len(stack') : stack'[i] = stack[i]
        <5>1. Len(stack) > 0 /\ stack \in Seq(Blocks)
          BY <1>1, <1>3, <3>2 DEF Framed, PublicationOK
        <5>2. work' = work /\ stack' = Pop
          BY <1>1, <3>2 DEF Moved, PublicationOK, Writes
        <5>3. QED
          BY <5>1, <5>2, Popping
      <4>2. CASE work # db /\ Top # "tx"
        BY <1>5, <4>1, <4>2 DEF Blocked, Top
      <4>3. CASE work # db /\ s = "end" /\ ~Outermost
        BY <4>1, <4>3 DEF Outermost
      <4>4. CASE s = "end" /\ Outermost
        BY <4>1, <4>4 DEF Moved
      <4>5. CASE work = db
        BY <4>1, <4>5 DEF Moved
      <4>6. QED
        BY <1>3, <3>2, <4>2, <4>3, <4>4, <4>5 DEF Framed
    <3>4. CASE s \in {"record", "parsed", "delete", "insert", "ingested"}
      BY <1>1, <1>3, <3>4 DEF Moved, PublicationOK, Framed, Top
    <3>5. CASE s \in {"check", "parse", "members", "validate"}
      BY <1>1, <1>2, <1>5, <3>5, WrittenIs DEF Moved, Blocked, PublicationOK, Writes
    <3>6. QED
      BY <1>1, <3>1, <3>2, <3>4, <3>5, StepKinds DEF InSession, TypeOK, Writes
  <2>2. tmp' # {} => \E i \in 1..Len(stack') : stack'[i] \in {"csv", "tarball"}
    <3>1. CASE s \in {"csv", "tarball", "view", "begin"}
      BY <1>1, <1>5, <3>1 DEF Moved, Blocked, PublicationOK, Blocks
    <3>2. CASE s \in {"unlink", "cleanup", "drop", "end"}
      <4>1. CASE s # "end" /\ Top \in {"csv", "tarball"}
        BY <1>5, <3>2, <4>1 DEF Moved, Blocked, InWork
      <4>2. CASE Top = "view" \/ Top = "tx"
        BY <1>1, <1>3, <1>5, <3>2, <4>2 DEF Moved, Blocked, PublicationOK, Framed, Pop, Top
      <4>3. QED
        BY <1>3, <3>2, <4>1, <4>2 DEF Framed
    <3>3. CASE s \in Writes \cup {"check"}
      BY <1>5, <3>3 DEF Moved, Blocked, Writes
    <3>4. QED
      BY <1>1, <3>1, <3>2, <3>3, StepKinds DEF InSession, TypeOK
  <2>3. \A o \in tmp' : InWork(o)'
    BY <1>1, <1>4, <1>5 DEF Moved, Blocked, InWork
  <2>4. QED
    BY <2>1, <2>2, <2>3 DEF Blocked
<1>9. /\ \A o \in Object : o # cur => work'[o] = work[o]
      /\ work'[cur] = IF s \in Writes THEN Written(s, work[cur]) ELSE work[cur]
      /\ s = "end" => work' = work
  BY <1>1, <1>2 DEF Moved, PublicationOK, Writes
<1>10. db' = db \/ (db' = work /\ s = "end" /\ Outermost /\ ~Snapshot)
  BY <1>3 DEF Moved, Framed
<1>11. \A o \in Object : InWork(o)' <=> o = cur
  BY <1>1, <1>4 DEF InWork
<1>12. \A o \in Object : o # cur => Sound(work[o], o) /\ (~Snapshot => work[o] = db[o])
  BY <1>5 DEF Data, InWork
<1>13. Data'
  <2>1. ASSUME NEW o \in Object PROVE Sound(db'[o], o)
    <3>1. CASE db' = db
      BY <1>5, <3>1 DEF Data
    <3>2. CASE db' = work /\ s = "end" /\ Outermost
      <4>1. o = cur => Sound(work[o], o)
        BY <1>3, <3>2 DEF Found, Sound
      <4>2. QED
        BY <1>12, <3>2, <4>1
    <3>3. QED
      BY <1>10, <3>1, <3>2
  <2>2. ASSUME NEW o \in Object, o # cur
        PROVE  Sound(work'[o], o) /\ (~Snapshot => work'[o] = db'[o])
    BY <1>9, <1>10, <1>12, <2>2
  <2>3. ASSUME Snapshot, NEW o \in Object, db'[o].status = "ingested"
        PROVE  work'[o] = db'[o]
    <3>1. db' = db /\ work[o] = db[o]
      BY <1>5, <1>10, <2>3 DEF Data
    <3>2. o = cur => work'[cur] = work[cur]
      BY <1>2, <1>3, <1>9, <2>3, <3>1, WrittenIs DEF Found, Framed, Writes
    <3>3. QED
      BY <1>9, <3>1, <3>2
  <2>4. QED
    BY <1>1, <1>5, <1>11, <2>1, <2>2, <2>3 DEF Data, Sound, Absent, Done, RowsOf
<1>14. Successes'
  <2>1. \A o \in good : o \in Object /\ o # cur
    BY <1>1, <1>2, <1>5 DEF Successes, PublicationOK
  <2>2. ~Snapshot => \A o \in good : db'[o].status = "ingested"
    BY <1>5, <1>10, <1>12, <2>1 DEF Successes
  <2>3. Snapshot => \A o \in good : work'[o].status = "ingested"
    BY <1>1, <1>5, <1>9, <2>1 DEF Successes
  <2>4. Snapshot => InScope \subseteq batch \cup good
    <3>1. Snapshot => stack # <<>>
      BY <1>3 DEF Framed
    <3>2. QED
      BY <1>1, <1>5, <3>1 DEF Successes
  <2>5. InScope' = InScope
    BY <1>1 DEF InScope
  <2>6. \A o \in marked : db'[o].status = "ingested"
    <3>1. ASSUME NEW o \in marked, db' = work, s = "end", Outermost, ~Snapshot
          PROVE  work[o].status = "ingested"
      <4>1. o \in Object /\ db[o].status = "ingested"
        BY <1>5 DEF InSession, TypeOK, Successes
      <4>2. CASE o = cur
        BY <1>3, <3>1, <4>2 DEF Found, Done
      <4>3. CASE o # cur
        BY <1>12, <3>1, <4>1, <4>3
      <4>4. QED
        BY <4>2, <4>3
    <3>2. QED
      BY <1>5, <1>10, <3>1 DEF Successes
  <2>7. QED
    BY <1>1, <1>5, <2>2, <2>3, <2>4, <2>5, <2>6 DEF Successes
<1>15. QED
  BY <1>4, <1>6, <1>7, <1>8, <1>13, <1>14 DEF Kept

\* What a step of a session finds, and what it leaves alone.
LEMMA SameSession ==
  ASSUME InSession
  PROVE  /\ pc = "publishing" /\ pc' = "publishing" /\ marked' = marked /\ kind' = kind
         /\ PublicationOK /\ Sessions /\ Blocked /\ Data /\ Successes /\ Progress
         /\ content' = content /\ (Snapshot' <=> Snapshot) /\ InScope' = InScope
         /\ \A o, r : Sound(r, o)' <=> Sound(r, o)
         /\ marked \subseteq Object /\ kind \in Kinds
BY DEF InSession, TypeOK, IInv, Snapshot, InScope, Sound, Absent, Done, RowsOf

\* A step that raises leaves its traces to the blocks around it.
LEMMA RaiseKeeps ==
  ASSUME InSession, NEW s, Raise(s)
  PROVE  Kept'
<1>1. /\ At(s) /\ batch # {} /\ step > 0 /\ raising' = TRUE /\ batch' = batch /\ cur' = cur
      /\ step' = step /\ good' = good /\ db' = db /\ (work' = work \/ work' = db)
  BY Begun, SameCur, SameSession DEF Raise, At
<1>2. cur \in batch /\ cur \in Object
  BY <1>1, Current DEF InSession
<1>3. Framed(s)
  BY <1>1, Places DEF InSession
<1>4. PublicationOK'
  <2>1. "csv" \in Blocks
    BY DEF Blocks
  <2>2. s \in {"drop", "end"} => Pop \in Seq(Blocks)
    BY <1>3, SameSession, Popping DEF Framed, PublicationOK
  <2>3. stack' \in Seq(Blocks) /\ tmp' \subseteq Object
    BY <1>2, <2>1, <2>2, SameSession DEF Raise, PublicationOK
  <2>4. QED
    BY <1>1, <2>3, SameSession DEF PublicationOK
<1>5. Sessions'
  BY <1>1, SameSession DEF Sessions
<1>6. Blocked'
  <2>1. CASE s = "csv"
    <3>1. /\ work' = work /\ Len(stack') = Len(stack) + 1 /\ stack'[Len(stack) + 1] = "csv"
          /\ \A i \in 1..Len(stack) : stack'[i] = stack[i]
      BY <2>1, SameSession DEF Raise, PublicationOK
    <3>2. \A o \in tmp' : InWork(o)'
      BY <1>1, <2>1, SameSession DEF Raise, Blocked, InWork, PublicationOK
    <3>3. QED
      BY <1>1, <3>1, <3>2, SameSession DEF Blocked, PublicationOK
  <2>2. CASE s \in {"drop", "end"}
    <3>1. /\ Len(stack) > 0 /\ stack' = Pop /\ tmp' = tmp /\ Top \in {"view", "tx"}
          /\ (work' # db' => Top = "view" /\ work' = work)
      BY <1>1, <1>3, <2>2 DEF Framed, Raise
    <3>2. /\ Len(stack) \in Nat /\ Len(stack') = Len(stack) - 1
          /\ \A i \in 1..Len(stack) - 1 : stack'[i] = stack[i]
      BY <3>1, SameSession, Popping DEF PublicationOK
    <3>3. \A i \in 1..Len(stack) : i \in 1..Len(stack') \/ stack[i] = Top
      BY <3>2 DEF Top
    <3>4. QED
      BY <1>1, <3>1, <3>2, <3>3, SameSession DEF Blocked, InWork
  <2>3. CASE s \notin {"csv", "drop", "end"}
    BY <1>1, <2>3, SameSession DEF Raise, Blocked, InWork
  <2>4. QED
    BY <2>1, <2>2, <2>3
<1>7. Data'
  BY <1>1, SameSession DEF Data, InWork
<1>8. Successes'
  <2>1. Snapshot => stack # <<>>
    BY <1>3 DEF Framed
  <2>2. QED
    BY <1>1, <2>1, SameSession DEF Successes
<1>9. QED
  BY <1>1, <1>4, <1>5, <1>6, <1>7, <1>8 DEF Kept, Progress

\* A COMMIT that raises and has committed: the object was complete.
LEMMA EndInDoubtKeeps ==
  ASSUME InSession, EndInDoubt
  PROVE  Kept'
<1>1. /\ At("end") /\ batch # {} /\ step > 0 /\ raising' = TRUE /\ batch' = batch /\ cur' = cur
      /\ step' = step /\ good' = good /\ db' = work /\ work' = work /\ Outermost
      /\ stack' = Pop /\ tmp' = tmp
  BY Begun, SameCur, SameSession DEF EndInDoubt, Fine, At
<1>2. cur \in batch /\ cur \in Object
  BY <1>1, Current DEF InSession
<1>3. /\ ~Snapshot /\ Len(stack) > 0 /\ Top = "tx"
      /\ work[cur] = Done(cur) /\ content[cur] \in {"good", "empty"}
  BY <1>1, Places DEF InSession, Framed, Found
<1>4. PublicationOK'
  BY <1>1, <1>3, SameSession, Popping DEF PublicationOK
<1>5. Sessions'
  BY <1>1, SameSession DEF Sessions
<1>6. Blocked'
  <2>1. /\ Len(stack) \in Nat /\ Len(stack') = Len(stack) - 1
        /\ \A i \in 1..Len(stack) - 1 : stack'[i] = stack[i]
    BY <1>1, <1>3, SameSession, Popping DEF PublicationOK
  <2>2. \A i \in 1..Len(stack) : i \in 1..Len(stack') \/ stack[i] = "tx"
    BY <1>3, <2>1 DEF Top
  <2>3. QED
    BY <1>1, <2>1, <2>2, SameSession DEF Blocked, InWork
<1>7. \A o \in Object : Sound(work[o], o) /\ (o # cur => work[o] = db[o])
  <2>1. Sound(work[cur], cur)
    BY <1>3 DEF Sound
  <2>2. QED
    BY <1>3, <2>1, SameSession DEF Data, InWork
<1>8. Data'
  BY <1>1, <1>3, <1>7, SameSession DEF Data
<1>9. Successes'
  <2>1. \A o \in Object : db[o].status = "ingested" => work[o].status = "ingested"
    BY <1>3, <1>7 DEF Done
  <2>2. QED
    BY <1>1, <1>3, <2>1, SameSession DEF Successes, PublicationOK
<1>10. QED
  BY <1>1, <1>4, <1>5, <1>6, <1>8, <1>9 DEF Kept, Progress

\* An object is begun between two objects.
LEMMA PublishOneKeeps ==
  ASSUME InSession, PublishOne
  PROVE  Kept'
<1>1. /\ batch # {} /\ step = 0 /\ step' = 1 /\ ~raising /\ batch' = batch /\ cur' = cur
      /\ UNCHANGED <<db, work, batch, stack, raising, tmp, good>>
  BY SameCur, SameSession DEF PublishOne, Sessions
<1>2. cur \in Object /\ content[cur] \in Contents
  BY <1>1, Current DEF InSession
<1>3. PublicationOK' /\ Sessions' /\ Blocked' /\ Successes'
  BY <1>1, SameSession DEF PublicationOK, Sessions, Blocked, InWork, Successes
<1>4. Data'
  BY <1>1, SameSession DEF Data, InWork
<1>5. Base /\ Sound(work[cur], cur) /\ (~Snapshot => work[cur] = db[cur])
  BY <1>1, <1>2, SameSession DEF Progress, Over, Data, InWork
<1>6. Progress'
  <2>1. kind = "orders" => (OrdersBlocks /\ OrdersWork(work[cur]))'
    BY <1>1, <1>5, SameSession DEF OrdersBlocks, OrdersWork, Base, Snapshot
  <2>2. kind = "fuzzwork" => (FuzzworkBlocks /\ FuzzworkWork(work[cur]))'
    BY <1>1, <1>5, SameSession DEF FuzzworkBlocks, FuzzworkWork, Base, Snapshot
  <2>3. kind = "history" => (HistoryBlocks /\ HistoryWork(work[cur]))'
    BY <1>1, <1>5, SameSession DEF HistoryBlocks, HistoryWork, Base, Snapshot
  <2>4. kind = "references" => (ReferencesBlocks /\ ReferencesWork(work[cur]))'
    BY <1>1, <1>5, SameSession DEF ReferencesBlocks, ReferencesWork, Base, Snapshot
  <2>5. kind = "references" => (EmptyBlocks /\ EmptyWork(work[cur]))'
    BY <1>1, <1>5, SameSession DEF EmptyBlocks, EmptyWork, Base, Snapshot
  <2>6. QED
    BY <1>1, <2>1, <2>2, <2>3, <2>4, <2>5, SameSession DEF Progress
<1>7. QED
  BY <1>3, <1>4, <1>6 DEF Kept

\* Every step of the object in work has been taken.
LEMMA Finished ==
  ASSUME InSession, batch # {}, step = Len(Steps(cur)) + 1, ~raising
  PROVE  /\ Base /\ work[cur] = Done(cur) /\ content[cur] \in {"good", "empty"}
         /\ ~Snapshot => db[cur] = work[cur]
<1>1. content[cur] \in Contents
  BY Current DEF InSession
<1>2. CASE kind = "orders"
  <2>1. step = 12
    <3>1. Len(Steps(cur)) = 11
      BY <1>2, StepsOf DEF OrdersSteps
    <3>2. QED
      BY <3>1
  <2>2. QED
    BY <1>1, <1>2, <2>1, SameSession DEF Progress, OrdersBlocks, OrdersWork, Base, Snapshot,
       Contents
<1>3. CASE kind = "fuzzwork"
  <2>1. step = 10
    <3>1. Len(Steps(cur)) = 9
      BY <1>3, StepsOf DEF FuzzworkSteps
    <3>2. QED
      BY <3>1
  <2>2. QED
    BY <1>1, <1>3, <2>1, SameSession DEF Progress, FuzzworkBlocks, FuzzworkWork, Base, Snapshot
<1>4. CASE kind = "history"
  <2>1. step = 14
    <3>1. Len(Steps(cur)) = 13
      BY <1>4, StepsOf DEF HistorySteps
    <3>2. QED
      BY <3>1
  <2>2. QED
    BY <1>1, <1>4, <2>1, SameSession DEF Progress, HistoryBlocks, HistoryWork, Base,
       Snapshot, Contents
<1>5. CASE kind = "references" /\ content[cur] # "empty"
  <2>1. step = 16
    <3>1. Len(Steps(cur)) = 15
      BY <1>5, StepsOf DEF ReferencesSteps
    <3>2. QED
      BY <3>1
  <2>2. QED
    BY <1>1, <1>5, <2>1, SameSession
    DEF Progress, ReferencesBlocks, ReferencesWork, Base, Snapshot, Contents
<1>6. CASE kind = "references" /\ content[cur] = "empty"
  <2>1. step = 9
    <3>1. Len(Steps(cur)) = 8
      BY <1>6, StepsOf DEF EmptySteps
    <3>2. QED
      BY <3>1
  <2>2. QED
    BY <1>6, <2>1, SameSession DEF Progress, EmptyBlocks, EmptyWork, Base, Snapshot
<1>7. QED
  BY <1>2, <1>3, <1>4, <1>5, <1>6, SameSession DEF Kinds

\* publish_one returns.
LEMMA SucceedKeeps ==
  ASSUME InSession, Succeed
  PROVE  Kept'
<1>1. /\ batch # {} /\ ~raising /\ step = Len(Steps(cur)) + 1 /\ step' = 0 /\ raising' = raising
      /\ good' = good \cup {cur} /\ batch' = batch \ {cur}
      /\ UNCHANGED <<db, work, stack, tmp>>
  BY DEF Succeed
<1>2. cur \in batch /\ cur \in Object /\ batch \subseteq Object
  BY <1>1, Current, SameSession DEF InSession, PublicationOK
<1>3. /\ Base /\ work[cur] = Done(cur) /\ content[cur] \in {"good", "empty"}
      /\ ~Snapshot => db[cur] = work[cur]
  BY <1>1, Finished
<1>4. tmp = {}
  BY <1>3, SameSession DEF Base, Blocked
<1>5. PublicationOK'
  BY <1>1, <1>2, SameSession DEF PublicationOK
<1>6. Sessions' /\ Blocked'
  BY <1>1, <1>4, SameSession DEF Sessions, Blocked
<1>7. Data'
  BY <1>1, <1>3, SameSession DEF Data, InWork, Sound
<1>8. Successes'
  <2>1. good' \cap batch' = {} /\ batch' \cup good' = batch \cup good
    BY <1>1, <1>2, SameSession DEF Successes
  <2>2. work[cur].status = "ingested" /\ (~Snapshot => db[cur].status = "ingested")
    BY <1>3 DEF Done
  <2>3. QED
    BY <1>1, <2>1, <2>2, SameSession DEF Successes
<1>9. Progress'
  BY <1>1, <1>3, SameSession DEF Progress, Base
<1>10. QED
  BY <1>5, <1>6, <1>7, <1>8, <1>9 DEF Kept

\* The transaction of a batch with nothing left to publish.
LEMMA BatchOver ==
  ASSUME InSession, batch = {}, stack = <<"tx">>, ~raising
  PROVE  /\ Snapshot /\ step = 0 /\ tmp = {} /\ InScope \subseteq good
         /\ \A o \in Object : Sound(work[o], o) /\ (db[o].status = "ingested" => work[o] = db[o])
         /\ \A o \in good : work[o].status = "ingested"
<1>1. step = 0
  BY SameSession DEF Sessions, PublicationOK
<1>2. Base
  BY <1>1, SameSession DEF Progress, Over
<1>3. Snapshot
  BY <1>2 DEF Base
<1>4. tmp = {}
  BY SameSession DEF Blocked
<1>5. QED
  BY <1>1, <1>3, <1>4, SameSession DEF Data, InWork, Successes

\* The batch is committed.
LEMMA CommitBatchKeeps ==
  ASSUME InSession, CommitBatch
  PROVE  Kept'
<1>1. /\ batch = {} /\ stack = <<"tx">> /\ ~raising /\ db' = work /\ stack' = <<>>
      /\ UNCHANGED <<work, batch, step, raising, tmp, good>>
  BY DEF CommitBatch
<1>2. PublicationOK' /\ Sessions'
  BY <1>1, SameSession DEF PublicationOK, Sessions
<1>3. Blocked' /\ Data' /\ Successes'
  BY <1>1, BatchOver, SameSession DEF Blocked, Data, Successes
<1>4. Progress'
  BY <1>1, BatchOver, SameSession DEF Progress, Over
<1>5. QED
  BY <1>2, <1>3, <1>4 DEF Kept

\* The COMMIT of the batch raises, and has committed or not.
LEMMA CommitBatchFailsKeeps ==
  ASSUME InSession, CommitBatchFails
  PROVE  Kept'
<1>1. /\ batch = {} /\ stack = <<"tx">> /\ ~raising /\ (db' = db \/ db' = work) /\ work' = db'
      /\ stack' = <<>> /\ good' = {} /\ UNCHANGED <<batch, step, raising, tmp>>
  BY DEF CommitBatchFails
<1>2. PublicationOK' /\ Sessions'
  BY <1>1, SameSession DEF PublicationOK, Sessions
<1>3. Blocked' /\ Data' /\ Successes'
  BY <1>1, BatchOver, SameSession DEF Blocked, Data, Successes
<1>4. Progress'
  BY <1>1, BatchOver, SameSession DEF Progress, Over
<1>5. QED
  BY <1>2, <1>3, <1>4 DEF Kept

\* An exception leaves a block: a copy goes with its own, the writes with the outermost transaction.
LEMMA UnwindKeeps ==
  ASSUME InSession, Unwind
  PROVE  Kept'
<1>1. /\ raising /\ raising' = raising /\ stack # <<>> /\ stack' = Pop
      /\ tmp' = IF Top \in {"csv", "tarball"} THEN tmp \ {cur} ELSE tmp
      /\ work' = IF Top = "tx" /\ Outermost THEN db ELSE work
      /\ UNCHANGED <<db, batch, step, good>> /\ cur' = cur
  BY SameCur DEF Unwind, LeaveBlock
<1>2. /\ Len(stack) > 0 /\ Len(stack) \in Nat /\ stack' \in Seq(Blocks) /\ Len(stack') = Len(stack) - 1
      /\ \A i \in 1..Len(stack) - 1 : stack'[i] = stack[i]
  <2>1. stack \in Seq(Blocks) /\ Len(stack) > 0
    BY <1>1, SameSession DEF PublicationOK
  <2>2. QED
    BY <1>1, <2>1, Popping
<1>3. \A i \in 1..Len(stack) : i \in 1..Len(stack') \/ stack[i] = Top
  BY <1>2 DEF Top
<1>4. PublicationOK' /\ Sessions' /\ Data'
  BY <1>1, <1>2, SameSession DEF PublicationOK, Sessions, Data, InWork
<1>5. Blocked'
  <2>1. work' # db' => \E i \in 1..Len(stack') : stack'[i] = "tx"
    BY <1>1, <1>2, <1>3, SameSession DEF Blocked, Outermost
  <2>2. tmp' # {} => tmp' = tmp /\ Top \notin {"csv", "tarball"}
    BY <1>1, SameSession DEF Blocked, InWork
  <2>3. QED
    BY <1>1, <1>2, <1>3, <2>1, <2>2, SameSession DEF Blocked, InWork
<1>6. Successes'
  BY <1>1, SameSession DEF Successes
<1>7. QED
  BY <1>1, <1>4, <1>5, <1>6 DEF Kept, Progress

\* The exception is caught, with no block left.
LEMMA CatchKeeps ==
  ASSUME InSession, Catch
  PROVE  Kept'
<1>1. /\ raising /\ stack = <<>> /\ raising' = FALSE /\ step' = 0
      /\ IF Snapshot THEN batch' = {} /\ good' = {} ELSE batch' = batch \ {cur} /\ good' = good
      /\ UNCHANGED <<db, work, stack, tmp>>
  BY DEF Catch
<1>2. work = db /\ tmp = {}
  BY <1>1, SameSession DEF Blocked
<1>3. PublicationOK'
  <2>1. batch' \subseteq Object /\ good' \subseteq Object
    BY <1>1, SameSession DEF PublicationOK
  <2>2. raising' \in BOOLEAN
    BY <1>1, Zenon
  <2>3. step' \in 0..20 /\ stack' = stack /\ db' = db /\ work' = work /\ tmp' = tmp
    BY DEF Catch
  <2>4. QED
    BY <2>1, <2>2, <2>3, SameSession DEF PublicationOK
<1>4. Sessions' /\ Blocked'
  BY <1>1, <1>2, SameSession DEF Sessions, Blocked
<1>5. Data' /\ Successes'
  BY <1>1, <1>2, SameSession DEF Data, Successes
<1>6. Progress'
  BY <1>1, SameSession DEF Progress, Base, Over
<1>7. QED
  BY <1>3, <1>4, <1>5, <1>6 DEF Kept

\* In the end: every step of a session.
LEMMA SessionKeeps ==
  ASSUME InSession, PublicationStep \/ StatementFault
  PROVE  Kept'
<1>1. CASE PublishOne
  BY <1>1, PublishOneKeeps
<1>2. CASE Check
  BY <1>2, Moves, MovedKeeps
<1>3. CASE End
  BY <1>3, Moves, MovedKeeps
<1>4. CASE Succeed
  BY <1>4, SucceedKeeps
<1>5. CASE CommitBatch
  BY <1>5, CommitBatchKeeps
<1>6. CASE Unwind
  BY <1>6, UnwindKeeps
<1>7. CASE Catch
  BY <1>7, CatchKeeps
<1>8. CASE \E s \in {"csv", "tarball", "view", "begin"} : Open(s)
  BY <1>8, Moves, MovedKeeps
<1>9. CASE \E s \in {"unlink", "cleanup", "drop"} : Close(s)
  BY <1>9, Moves, MovedKeeps
<1>10. CASE \E s \in Writes : Write(s)
  BY <1>10, Moves, MovedKeeps
<1>11. CASE \E s : Raise(s)
  BY <1>11, RaiseKeeps
<1>12. CASE EndInDoubt
  BY <1>12, EndInDoubtKeeps
<1>13. CASE CommitBatchFails
  BY <1>13, CommitBatchFailsKeeps
<1>14. QED
  BY <1>1, <1>2, <1>3, <1>4, <1>5, <1>6, <1>7, <1>8, <1>9, <1>10, <1>11, <1>12, <1>13
  DEF PublicationStep, StatementFault, Writes

----------------------------------------------------------------------------
(* What the rest of a run keeps.                                           *)

\* Outside of a session nothing is in work.
LEMMA Outside ==
  ASSUME TypeOK, IInv, UNCHANGED <<kind, content, db>>, pc' # "publishing", Closed', tmp' = {},
         \A o \in good' \cup marked' : db[o].status = "ingested"
  PROVE  Sessions' /\ Blocked' /\ Data' /\ Successes' /\ Progress'
<1>1. /\ work' = db /\ db' = db /\ batch' = {} /\ step' = 0 /\ ~raising' /\ stack' = <<>>
  BY DEF Closed
<1>2. \A o \in Object : Sound(db[o], o)' /\ (Snapshot' <=> Snapshot)
  BY DEF IInv, Data, Sound, Absent, Done, RowsOf, Snapshot
<1>3. Sessions' /\ Blocked' /\ Progress'
  BY <1>1 DEF Sessions, Blocked, Progress, Closed
<1>4. Data'
  BY <1>1, <1>2 DEF Data, Sound, Absent, Done, RowsOf
<1>5. Successes'
  BY <1>1 DEF Successes
<1>6. QED
  BY <1>3, <1>4, <1>5

\* The run ends: nothing in work, no thread, and nothing acquired.
LEMMA RunOver ==
  ASSUME TypeOK, IInv, EndRun, UNCHANGED <<kind, content, workers, stored, file, db, scopeOf, scope>>,
         tmp' = {}, temp' \in [Object -> {"none", "body", "left"}],
         \A o \in Object : temp'[o] # "body",
         marked' \subseteq Object, \A o \in marked' : db[o].status = "ingested",
         faults' \in 0..MaxFaults
  PROVE  TypeOK' /\ IInv'
<1>1. TypeOK'
  <2>1. 1..0 = {} /\ 0 \in 0..N /\ 1 \in 1..N + 1 /\ N \in Nat
    BY NAssumption
  <2>2. PoolOK'
    <3>1. NoJobs \in [Object -> Jobs]
      BY DEF NoJobs, Jobs
    <3>2. {} \in {1..n : n \in 0..N}
      BY <2>1
    <3>3. QED
      BY <2>1, <3>1, <3>2 DEF EndRun, TypeOK, PoolOK, Object
  <2>3. PublicationOK'
    <3>1. raising' \in BOOLEAN
      BY Zenon DEF EndRun
    <3>2. stack' \in Seq(Blocks) /\ batch' = {} /\ good' = {} /\ step' \in 0..20 /\ work' = db
      BY DEF EndRun
    <3>3. QED
      BY <3>1, <3>2 DEF TypeOK, PublicationOK
  <2>4. QED
    BY <2>2, <2>3 DEF EndRun, TypeOK
<1>2. Threads'
  BY DEF EndRun, Threads, NoJobs, Object
<1>3. Closed'
  BY DEF EndRun, Closed
<1>4. Sessions' /\ Blocked' /\ Data' /\ Successes' /\ Progress'
  <2>1. pc' # "publishing" /\ good' = {}
    BY DEF EndRun
  <2>2. QED
    BY <1>3, <2>1, Outside
<1>5. QED
  BY <1>1, <1>2, <1>4 DEF IInv

\* What the pool does, and the rest of the run does not.
LEMMA ThreadsKeep ==
  ASSUME TypeOK, IInv, UNCHANGED <<kind, content, publicationVars, scopeOf, pc, todo, scope, marked>>,
         Threads', PoolOK', faults' \in 0..MaxFaults
  PROVE  TypeOK' /\ IInv'
<1>1. TypeOK'
  BY DEF TypeOK, PublicationOK, publicationVars
<1>2. Sessions' /\ Blocked' /\ Successes'
  BY DEF IInv, Sessions, Closed, Blocked, InWork, Successes, publicationVars, InScope, cur,
     Snapshot
<1>3. Data'
  BY DEF IInv, Data, Sound, Absent, Done, RowsOf, InWork, cur, Snapshot, publicationVars
<1>4. Progress'
  BY DEF IInv, publicationVars, Progress, OrdersBlocks, OrdersWork, FuzzworkBlocks, FuzzworkWork,
         HistoryBlocks, HistoryWork, ReferencesBlocks, ReferencesWork, EmptyBlocks, EmptyWork,
         Base, Over, Snapshot, Sound, Absent, Done, RowsOf, cur
<1>5. QED
  BY <1>1, <1>2, <1>3, <1>4 DEF IInv

\* What the main thread and the download threads do.
LEMMA PoolKeeps ==
  ASSUME TypeOK, IInv, UNCHANGED <<pc, kind>>,
         PoolStep \/ \E o \in Object : ThreadStep(o) \/ ThreadFault(o)
  PROVE  PoolOK' /\ Threads'
<1>1. PoolOK /\ Threads /\ N \in Nat
  BY NAssumption DEF TypeOK, IInv
<1>2. CASE PoolStep
  <2>1. CASE Collect
    <3>1. next' \in 1..N + 1
      BY <1>1, <2>1 DEF Collect, PoolOK
    <3>2. PoolOK'
      BY <1>1, <2>1, <3>1 DEF Collect, PoolOK
    <3>3. pool = "collecting" => \A o \in objects : o < next' => job[o] = "done"
      BY <1>1, <2>1 DEF Collect, PoolOK, Threads
    <3>4. QED
      BY <1>1, <2>1, <3>2, <3>3 DEF Collect, Threads
  <2>2. CASE CollectRaises
    <3>1. PoolOK'
      BY <1>1, <2>2 DEF CollectRaises, PoolOK, Jobs
    <3>2. Threads'
      BY <1>1, <2>2 DEF CollectRaises, PoolOK, Threads
    <3>3. QED
      BY <3>1, <3>2
  <2>3. CASE Acquired
    <3>1. NoJobs \in [Object -> Jobs]
      BY DEF NoJobs, Jobs
    <3>2. PoolOK'
      BY <1>1, <2>3, <3>1 DEF Acquired, PoolOK
    <3>3. \A o \in objects : job[o] = "done"
      BY <1>1, <2>3 DEF Acquired, PoolOK, Threads
    <3>4. \A o \in Object : temp[o] # "body"
      BY <1>1, <3>3 DEF Threads
    <3>5. QED
      BY <1>1, <2>3, <3>2, <3>4 DEF Acquired, Threads, NoJobs
  <2>4. CASE Drained
    <3>1. NoJobs \in [Object -> Jobs]
      BY DEF NoJobs, Jobs
    <3>2. {} \in {1..n : n \in 0..N} /\ 1 \in 1..N + 1
      <4>1. 1..0 = {} /\ 0 \in 0..N
        BY <1>1
      <4>2. QED
        BY <1>1, <4>1
    <3>3. PoolOK'
      BY <1>1, <2>4, <3>1, <3>2 DEF Drained, PoolOK
    <3>4. \A o \in Object : temp[o] # "body"
      BY <1>1, <2>4 DEF Drained, Threads, Running
    <3>5. QED
      BY <1>1, <2>4, <3>3, <3>4 DEF Drained, Threads, NoJobs
  <2>5. QED
    BY <1>2, <2>1, <2>2, <2>3, <2>4 DEF PoolStep
<1>3. ASSUME NEW o \in Object, ThreadStep(o) \/ ThreadFault(o)
      PROVE  PoolOK' /\ Threads'
  <2>1. /\ job[o] \in Running \cup {"queued"}
        /\ UNCHANGED <<workers, objects, next, pool>>
        /\ stored' \subseteq Object /\ file' \subseteq Object
        /\ \E j \in Jobs : job' = [job EXCEPT ![o] = j]
        /\ \/ temp' = temp /\ (temp[o] = "body" => job'[o] \in {"streaming", "moving"})
           \/ temp' = [temp EXCEPT ![o] = "body"] /\ job'[o] = "streaming"
           \/ temp' = [temp EXCEPT ![o] = "none"]
           \/ temp' = [temp EXCEPT ![o] = "left"]
    <3>1. CASE GetFromPlan(o)
      BY <1>1, <3>1 DEF GetFromPlan, Free, Job, PoolOK, Threads, Jobs, Running
    <3>2. CASE NotModified(o)
      BY <1>1, <3>2 DEF NotModified, Job, PoolOK, Threads, Jobs, Running
    <3>3. CASE Respond(o)
      BY <1>1, <3>3 DEF Respond, Job, PoolOK, Jobs, Running
    <3>4. CASE Streamed(o)
      BY <1>1, <3>4 DEF Streamed, Job, PoolOK, Jobs, Running
    <3>5. CASE ReadFails(o)
      BY <1>1, <3>5 DEF ReadFails, Job, PoolOK, Jobs, Running
    <3>6. CASE Move(o)
      BY <1>1, <3>6 DEF Move, Job, PoolOK, Jobs, Running
    <3>7. CASE MoveFails(o)
      BY <1>1, <3>7 DEF MoveFails, Job, PoolOK, Jobs, Running
    <3>8. CASE RecordStore(o)
      BY <1>1, <3>8 DEF RecordStore, Job, PoolOK, Threads, Jobs, Running
    <3>9. CASE RecordFails(o)
      BY <1>1, <3>9 DEF RecordFails, Job, PoolOK, Threads, Jobs, Running
    <3>10. CASE RecordHit(o)
      BY <1>1, <3>10 DEF RecordHit, Job, PoolOK, Threads, Jobs, Running
    <3>11. CASE RecordHitFails(o)
      BY <1>1, <3>11 DEF RecordHitFails, Job, PoolOK, Threads, Jobs, Running
    <3>12. QED
      BY <1>3, <3>1, <3>2, <3>3, <3>4, <3>5, <3>6, <3>7, <3>8, <3>9, <3>10, <3>11
      DEF ThreadStep, ThreadFault
  <2>2. PoolOK'
    BY <1>1, <2>1 DEF PoolOK
  <2>3. job[o] # "idle" /\ job[o] # "done"
    BY <2>1 DEF Running
  <2>4. o \in objects /\ pool \notin {"closed", "acquired"}
    BY <1>1, <2>3 DEF Threads, NoJobs
  <2>5. pool = "collecting" => ~(o < next)
    BY <1>1, <2>3, <2>4 DEF Threads
  <2>6. \A other \in Object : other # o => job'[other] = job[other] /\ temp'[other] = temp[other]
    BY <1>1, <2>1 DEF PoolOK
  <2>7. temp'[o] = "body" => job'[o] \in {"streaming", "moving"}
    BY <1>1, <2>1 DEF PoolOK
  <2>8. objects \subseteq Object
    BY <1>1 DEF PoolOK, Object
  <2>9. Threads'
    BY <1>1, <2>1, <2>4, <2>5, <2>6, <2>7, <2>8 DEF Threads
  <2>10. QED
    BY <2>2, <2>9
<1>4. QED
  BY <1>2, <1>3

----------------------------------------------------------------------------
(* The invariant.                                                          *)

\* It holds initially.
LEMMA InitKept ==
  ASSUME Init
  PROVE  TypeOK /\ IInv
<1>1. N \in Nat /\ 1 \in 1..N + 1 /\ 1 \in Object /\ 1..0 = {} /\ 0 \in 0..N
  BY NAssumption DEF Object
<1>2. {} \in {1..n : n \in 0..N}
  BY <1>1
<1>3. PoolOK
  BY <1>1, <1>2 DEF Init, PoolInit, PoolOK, NoJobs, Jobs
<1>4. PublicationOK
  <2>1. Absent \in Published
    BY DEF Absent, Published
  <2>2. raising \in BOOLEAN
    BY Zenon DEF Init, PublicationInit
  <2>3. QED
    BY <2>1, <2>2 DEF Init, PublicationInit, PublicationOK
<1>5. TypeOK
  BY <1>1, <1>3, <1>4, MaxFaultsAssumption DEF Init, TypeOK, Scopes
<1>6. IInv
  BY DEF Init, PoolInit, PublicationInit, IInv, Threads, NoJobs, Sessions, Closed, Blocked, Data,
         Sound, Successes, Progress
<1>7. QED
  BY <1>5, <1>6

\* Without threads nobody writes a temporary file.
LEMMA NobodyWrites ==
  ASSUME Threads, job = NoJobs
  PROVE  \A o \in Object : temp[o] # "body"
BY DEF Threads, NoJobs

\* The count of faults stays within its bound.
LEMMA FaultCounts ==
  ASSUME faults \in 0..MaxFaults, Fault
  PROVE  faults' \in 0..MaxFaults
BY MaxFaultsAssumption DEF Fault

\* Every step of every actor keeps it.
LEMMA NextKept ==
  ASSUME TypeOK, IInv, [Next]_vars
  PROVE  TypeOK' /\ IInv'
<1>1. /\ Threads /\ Sessions /\ Successes /\ faults \in 0..MaxFaults
      /\ pc # "publishing" => Closed /\ tmp = {} /\ work = db
      /\ \A o \in marked \cup good : pc # "publishing" => db[o].status = "ingested"
  BY DEF IInv, TypeOK, Sessions, Closed, Successes
<1>2. CASE Discover
  <2>1. PICK n \in Object : Submit(n) /\ UNCHANGED <<kind, content, publicationVars, runVars>>
    BY <1>2 DEF Discover
  <2>2. PoolOK'
    <3>1. 1..n \in {1..m : m \in 0..N} /\ 1 \in 1..N + 1
      BY NAssumption DEF Object
    <3>2. QED
      BY <2>1, <3>1 DEF TypeOK, PoolOK, Submit, Jobs
  <2>3. Threads'
    BY <1>1, <1>2, <2>1 DEF Submit, Threads, NoJobs, Discover, Idle, runVars, Object,
       TypeOK, PoolOK
  <2>4. QED
    BY <1>1, <2>1, <2>2, <2>3, ThreadsKeep DEF runVars
<1>3. CASE PoolSteps
  BY <1>1, <1>3, PoolKeeps, ThreadsKeep DEF PoolSteps, runVars
<1>4. CASE ThreadFaults
  <2>1. UNCHANGED <<kind, content, publicationVars, scopeOf, pc, todo, scope, marked>> /\ Fault
    BY <1>4 DEF ThreadFaults
  <2>2. \E o \in Object : ThreadFault(o)
    BY <1>4 DEF ThreadFaults
  <2>3. PoolOK' /\ Threads'
    BY <2>1, <2>2, PoolKeeps
  <2>4. QED
    BY <1>1, <2>1, <2>3, FaultCounts, ThreadsKeep
<1>5. CASE LoseFile
  <2>1. PoolOK' /\ Threads'
    BY <1>1, <1>5 DEF LoseFile, TypeOK, PoolOK, Threads
  <2>2. QED
    BY <1>1, <1>5, <2>1, FaultCounts, ThreadsKeep DEF LoseFile
<1>6. CASE FilterUnpublished
  <2>1. pc # "publishing" /\ pc' = "scopes" /\ todo' \subseteq objects
    BY <1>6 DEF FilterUnpublished
  <2>2. objects \subseteq Object
    BY NAssumption DEF TypeOK, PoolOK, Object
  <2>3. TypeOK' /\ Threads'
    BY <1>1, <1>6, <2>1, <2>2
    DEF FilterUnpublished, poolVars, publicationVars, TypeOK, PoolOK, PublicationOK, Threads
  <2>4. QED
    BY <1>1, <1>6, <2>1, <2>3, Outside DEF FilterUnpublished, publicationVars, Closed, IInv
<1>7. CASE TakeLocks
  <2>1. pc # "publishing" /\ pc # "acquiring" /\ pc' = "locked" /\ scope' \in Object
    BY <1>7 DEF TakeLocks, TypeOK
  <2>2. TypeOK' /\ Threads'
    BY <1>1, <1>7, <2>1
    DEF TakeLocks, poolVars, publicationVars, TypeOK, PoolOK, PublicationOK, Threads
  <2>3. QED
    BY <1>1, <1>7, <2>1, <2>2, Outside DEF TakeLocks, publicationVars, Closed, IInv
<1>8. CASE FilterScopeResultsAfterLock
  <2>1. /\ pc = "locked" /\ pc' = "publishing" /\ Closed /\ tmp = {} /\ work = db
        /\ OpenSession(InScope)
        /\ UNCHANGED <<kind, content, poolVars, scopeOf, todo, scope, marked, faults>>
    BY <1>1, <1>8 DEF FilterScopeResultsAfterLock
  <2>2. /\ UNCHANGED <<db, work, step, raising, tmp>> /\ batch' = InScope /\ good' = {}
        /\ stack' = IF Snapshot THEN <<"tx">> ELSE <<>>
    BY <2>1 DEF OpenSession
  <2>3. InScope' = InScope /\ InScope \subseteq Object /\ (Snapshot' <=> Snapshot)
    BY <2>1 DEF InScope, Snapshot, TypeOK
  <2>4. TypeOK'
    <3>1. stack' \in Seq(Blocks)
      <4>1. "tx" \in Blocks
        BY DEF Blocks
      <4>2. QED
        BY <2>2, <4>1
    <3>2. PublicationOK'
      BY <2>2, <2>3, <3>1 DEF TypeOK, PublicationOK
    <3>3. QED
      BY <1>1, <2>1, <3>2 DEF TypeOK, PoolOK, poolVars
  <2>5. Threads'
    BY <1>1, <2>1 DEF Threads, poolVars
  <2>6. Sessions' /\ Blocked' /\ Progress'
    BY <2>1, <2>2, <2>3 DEF Closed, Sessions, Blocked, Progress, Base
  <2>7. Data'
    BY <2>1, <2>2, <2>3 DEF Closed, IInv, Data, Sound, Absent, Done, RowsOf
  <2>8. Successes'
    BY <1>1, <2>1, <2>2, <2>3 DEF Successes
  <2>9. QED
    BY <2>4, <2>5, <2>6, <2>7, <2>8 DEF IInv
<1>9. CASE CloseSession
  <2>1. /\ pc = "publishing" /\ Closed /\ pc' \in {"scopes", "marking"} /\ todo' \subseteq Object
        /\ UNCHANGED <<kind, content, poolVars, publicationVars, scopeOf, scope, marked, faults>>
    BY <1>9 DEF CloseSession, TypeOK
  <2>2. TypeOK' /\ Threads'
    BY <1>1, <2>1 DEF poolVars, publicationVars, TypeOK, PoolOK, PublicationOK, Threads
  <2>3. Closed' /\ tmp' = {} /\ UNCHANGED <<db, good, marked>>
    BY <2>1 DEF Closed, publicationVars, IInv, Blocked
  <2>4. \A o \in good : db[o].status = "ingested"
    BY <1>1, <2>1 DEF Closed, Successes
  <2>5. QED
    BY <1>1, <2>1, <2>2, <2>3, <2>4, Outside DEF Successes, IInv
<1>10. CASE MarkPublished
  <2>1. /\ pc = "marking" /\ pc' = "scopes" /\ good' = {} /\ marked' = marked \cup good
        /\ UNCHANGED <<kind, content, poolVars, db, work, batch, step, stack, raising, tmp, scopeOf,
                       todo, scope, faults>>
    BY <1>10 DEF MarkPublished
  <2>2. TypeOK' /\ Threads'
    BY <1>1, <2>1 DEF poolVars, TypeOK, PoolOK, PublicationOK, Threads
  <2>3. QED
    BY <1>1, <2>1, <2>2, Outside DEF Closed, IInv
<1>11. CASE Return \/ FileNotFound
  <2>1. /\ pc \in {"scopes", "locked"} /\ EndRun
        /\ UNCHANGED <<kind, content, workers, stored, file, temp, db, tmp, scopeOf, scope, marked, faults>>
    BY <1>11 DEF Return, FileNotFound
  <2>2. job = NoJobs
    BY <1>1, <2>1 DEF Threads
  <2>3. QED
    BY <1>1, <2>1, <2>2, NobodyWrites, RunOver DEF TypeOK, PoolOK
<1>12. CASE RunRaises
  <2>1. /\ pc # "publishing" /\ pool = "acquired" /\ EndRun /\ faults' \in 0..MaxFaults
        /\ UNCHANGED <<kind, content, workers, stored, file, temp, db, tmp, scopeOf, scope, marked>>
    BY <1>1, <1>12, FaultCounts DEF RunRaises
  <2>2. job = NoJobs
    BY <1>1, <2>1 DEF Threads
  <2>3. QED
    BY <1>1, <2>1, <2>2, NobodyWrites, RunOver DEF TypeOK, PoolOK
<1>13. CASE MarkRaises
  <2>1. /\ pc = "marking" /\ EndRun /\ faults' \in 0..MaxFaults
        /\ marked' \subseteq marked \cup good
        /\ UNCHANGED <<kind, content, workers, stored, file, temp, db, tmp, scopeOf, scope>>
    BY <1>1, <1>13, FaultCounts DEF MarkRaises
  <2>2. job = NoJobs
    BY <1>1, <2>1 DEF Threads
  <2>3. marked' \subseteq Object
    BY <2>1 DEF TypeOK, PublicationOK
  <2>4. QED
    BY <1>1, <2>1, <2>2, <2>3, NobodyWrites, RunOver DEF TypeOK, PoolOK
<1>14. CASE Crash
  <2>1. /\ EndRun /\ faults' \in 0..MaxFaults /\ tmp' = {}
        /\ temp' = [o \in Object |-> IF temp[o] = "body" THEN "left" ELSE temp[o]]
        /\ UNCHANGED <<kind, content, workers, stored, file, db, scopeOf, scope, marked>>
    BY <1>1, <1>14, FaultCounts DEF Crash
  <2>2. temp' \in [Object -> {"none", "body", "left"}] /\ \A o \in Object : temp'[o] # "body"
    BY <2>1 DEF TypeOK, PoolOK
  <2>3. marked' \subseteq Object /\ \A o \in marked' : db[o].status = "ingested"
    BY <1>1, <2>1 DEF TypeOK, Successes
  <2>4. QED
    BY <2>1, <2>2, <2>3, RunOver
<1>15. CASE Publish \/ StatementFaults
  <2>1. /\ InSession /\ faults' \in 0..MaxFaults
        /\ PublicationStep \/ StatementFault
    <3>1. CASE Publish
      BY <1>1, <3>1 DEF Publish, InSession, runVars
    <3>2. CASE StatementFaults
      BY <1>1, <3>2, FaultCounts DEF StatementFaults, InSession
    <3>3. QED
      BY <1>15, <3>1, <3>2
  <2>2. Kept'
    BY <2>1, SessionKeeps
  <2>3. TypeOK' /\ Threads'
    BY <1>1, <2>1, <2>2 DEF InSession, Kept, TypeOK, PoolOK, poolVars, Threads
  <2>4. QED
    BY <2>2, <2>3 DEF Kept, IInv
<1>16. CASE UNCHANGED vars
  <2>1. PoolOK' /\ Threads'
    BY <1>1, <1>16 DEF vars, poolVars, runVars, TypeOK, PoolOK, Threads
  <2>2. QED
    BY <1>1, <1>16, <2>1, ThreadsKeep DEF vars, runVars
<1>17. QED
  BY <1>2, <1>3, <1>4, <1>5, <1>6, <1>7, <1>8, <1>9, <1>10, <1>11, <1>12, <1>13, <1>14,
     <1>15, <1>16
  DEF Next


\* IInv holds in every state, and with it the types.
THEOREM Invariant == Spec => [](TypeOK /\ IInv)
<1>1. Init => TypeOK /\ IInv
  BY InitKept
<1>2. TypeOK /\ IInv /\ [Next]_vars => (TypeOK /\ IInv)'
  BY NextKept
<1>3. QED
  BY <1>1, <1>2, PTL DEF Spec

----------------------------------------------------------------------------
(* The theorems.                                                           *)

\* Every variable keeps its type: no object is in its table twice, even in a
\* transaction that is open.
THEOREM TypeCorrect == Spec => []TypeOK
BY Invariant, PTL

\* However many objects, scopes, workers, runs and faults: an object is there
\* in full with an ingested provenance, or not at all, and what has a marker
\* is there.
THEOREM PublishedOnceHolds == Spec => []PublishedOnce
<1>1. TypeOK /\ IInv => PublishedOnce
  BY DEF IInv, Data, Sound, Done, Successes, PublishedOnce
<1>2. QED
  BY <1>1, Invariant, PTL

\* No run leaves a thread, a half-written download or a temporary copy behind.
THEOREM NothingLeftBehindHolds == Spec => []NothingLeftBehind
<1>1. ASSUME TypeOK, IInv PROVE NothingLeftBehind
  <2>1. Idle => /\ \A o \in Object : job[o] \notin Running /\ temp[o] # "body"
                /\ tmp = {} /\ Closed
    BY <1>1 DEF IInv, Threads, Sessions, Idle, NoJobs, Running
  <2>2. Cardinality(tmp) <= 1
    <3>1. CASE tmp = {}
      BY <3>1, FS_EmptySet
    <3>2. CASE tmp # {}
      <4>1. tmp = {cur}
        BY <1>1, <3>2 DEF IInv, Blocked, InWork
      <4>2. QED
        BY <4>1, FS_Singleton
    <3>3. QED
      BY <3>1, <3>2
  <2>3. QED
    BY <2>1, <2>2 DEF NothingLeftBehind
<1>2. QED
  BY <1>1, Invariant, PTL

\* What WholeScopes says of a step.
Whole ==
  /\ \A o \in Object : db[o].status = "ingested" => db'[o] = db[o]
  /\ Snapshot /\ db' # db => \A o \in InScope : db'[o].status = "ingested"

\* The steps that commit.
LEMMA SessionWhole ==
  ASSUME InSession, PublicationStep \/ StatementFault
  PROVE  Whole
<1>1. CASE CommitBatch \/ CommitBatchFails
  <2>1. batch = {} /\ stack = <<"tx">> /\ ~raising /\ (db' = work \/ db' = db)
    BY <1>1 DEF CommitBatch, CommitBatchFails
  <2>2. InScope \subseteq good /\ \A o \in good : work[o].status = "ingested"
    BY <2>1, BatchOver
  <2>3. \A o \in Object : db[o].status = "ingested" => work[o] = db[o]
    BY <2>1, BatchOver
  <2>4. QED
    BY <2>1, <2>2, <2>3 DEF Whole
<1>2. CASE (End \/ EndInDoubt) /\ Outermost
  <2>1. At("end") /\ db' = work /\ batch # {}
    BY <1>2 DEF End, EndInDoubt, Fine, At
  <2>2. ~Snapshot /\ work[cur] = Done(cur)
    BY <1>2, <2>1, Places DEF InSession, Framed, Found
  <2>3. ASSUME NEW o \in Object, db[o].status = "ingested" PROVE work[o] = db[o]
    <3>1. CASE o = cur
      <4>1. db[o] = Done(o)
        BY <2>3, SameSession DEF Data, Sound, Absent
      <4>2. QED
        BY <2>2, <3>1, <4>1
    <3>2. CASE o # cur
      BY <2>2, <3>2, SameSession DEF Data, InWork
    <3>3. QED
      BY <3>1, <3>2
  <2>4. QED
    BY <2>1, <2>2, <2>3 DEF Whole
<1>3. CASE ~(CommitBatch \/ CommitBatchFails) /\ ~((End \/ EndInDoubt) /\ Outermost)
  <2>1. db' = db
    BY <1>3 DEF PublicationStep, StatementFault, PublishOne, Check, End, EndInDoubt,
       Succeed, Unwind, Catch,
         Open, Close, Write, Raise
  <2>2. QED
    BY <2>1 DEF Whole
<1>4. QED
  BY <1>1, <1>2, <1>3

\* Every step is like that.
LEMMA StepWhole == ASSUME TypeOK, IInv, [Next]_vars PROVE [Whole]_vars
<1>1. CASE Publish \/ StatementFaults
  <2>1. InSession /\ (PublicationStep \/ StatementFault)
    BY <1>1 DEF Publish, StatementFaults, InSession, runVars
  <2>2. QED
    BY <2>1, SessionWhole
<1>2. CASE Next /\ ~(Publish \/ StatementFaults)
  <2>1. db' = db
    BY <1>2 DEF Next, Discover, PoolSteps, FilterUnpublished, Return, TakeLocks,
       FilterScopeResultsAfterLock,
         OpenSession, FileNotFound, CloseSession, MarkPublished, ThreadFaults, RunRaises, MarkRaises, Crash,
         LoseFile, publicationVars
  <2>2. QED
    BY <2>1 DEF Whole
<1>3. QED
  BY <1>1, <1>2

\* A snapshot scope is committed whole, and what is ingested is left alone.
THEOREM WholeScopesHolds == Spec => WholeScopes
<1>1. TypeOK /\ IInv /\ [Next]_vars => [Whole]_vars
  BY StepWhole
<1>2. QED
  BY <1>1, Invariant, PTL DEF Spec, WholeScopes, Whole

----------------------------------------------------------------------------
(* The catalog.                                                            *)

\* A step leaves the contents alone, and either the markers or the tables.
LEMMA TablesOrMarkers ==
  ASSUME [Next]_vars
  PROVE  content' = content /\ (marked' = marked \/ (marked \subseteq marked' /\ db' = db))
<1>1. CASE MarkPublished \/ MarkRaises
  BY <1>1 DEF MarkPublished, MarkRaises, EndRun
<1>2. CASE Next /\ ~(MarkPublished \/ MarkRaises)
  BY <1>2 DEF Next, Discover, PoolSteps, FilterUnpublished, Return, TakeLocks,
     FilterScopeResultsAfterLock, FileNotFound, Publish, CloseSession, ThreadFaults,
     StatementFaults, RunRaises, Crash, LoseFile, publicationVars, runVars
<1>3. CASE UNCHANGED vars
  BY <1>3 DEF vars, publicationVars, runVars
<1>4. QED
  BY <1>1, <1>2, <1>3

\* What the catalog sees of an object that is there, and of one that is not.
LEMMA InCatalog ==
  ASSUME TypeOK, Data, NEW o \in Object
  PROVE  /\ db[o].status = "ingested" => CatalogChecksum(o) = content[o] /\ CatalogCopies(o) = 1
         /\ db[o].status # "ingested" => CatalogChecksum(o) = "none" /\ CatalogCopies(o) = 0
<1>1. db[o] = Absent \/ db[o] = Done(o)
  BY DEF Data, Sound
<1>2. QED
  BY <1>1 DEF Absent, Done, CatalogChecksum, CatalogCopies, RowsOf

\* A commit appends what was not there; the ledger's transaction marks what is.
LEMMA CatalogStep ==
  ASSUME TypeOK, IInv, TypeOK', IInv', [Next]_vars
  PROVE  [Catalog!Next]_(Catalog!vars)
<1>1. content' = content /\ (marked' = marked \/ (marked \subseteq marked' /\ db' = db))
  BY TablesOrMarkers
<1>2. \A o \in Object : db[o].status = "ingested" => db'[o].status = "ingested"
  BY StepWhole DEF Whole, vars, publicationVars
<1>3. \A o \in Object :
        /\ db[o].status = "ingested" => CatalogChecksum(o) = content[o] /\ CatalogCopies(o) = 1
        /\ db[o].status # "ingested" => CatalogChecksum(o) = "none" /\ CatalogCopies(o) = 0
  BY InCatalog DEF IInv
<1>4. \A o \in Object :
        /\ db'[o].status = "ingested" => CatalogChecksum(o)' = content[o] /\ CatalogCopies(o)' = 1
        /\ db'[o].status # "ingested" => CatalogChecksum(o)' = "none" /\ CatalogCopies(o)' = 0
  <2> SUFFICES ASSUME NEW o \in Object
               PROVE  /\ db'[o].status = "ingested" =>
                           CatalogChecksum(o)' = content[o] /\ CatalogCopies(o)' = 1
                      /\ db'[o].status # "ingested" =>
                           CatalogChecksum(o)' = "none" /\ CatalogCopies(o)' = 0
    OBVIOUS
  <2>1. RowsOf(o)' = RowsOf(o) /\ RowsOf(o) \in {0, 1}
    BY <1>1 DEF RowsOf
  <2>2. CatalogChecksum(o)' = (IF db'[o].status = "ingested" THEN content[o] ELSE "none")
    BY <1>1 DEF CatalogChecksum
  <2>3. CatalogCopies(o)' =
          IF db'[o].status = "ingested" /\ RowsOf(o) = 0 THEN 1 ELSE db'[o].rows
    BY <2>1 DEF CatalogCopies
  <2>4. db'[o] = Absent \/ db'[o] = [rows |-> RowsOf(o), status |-> "ingested"]
    <3>1. Sound(db[o], o)'
      BY DEF IInv, Data
    <3>2. QED
      BY <2>1, <3>1 DEF Sound, Done, Absent
  <2>5. QED
    BY <2>1, <2>2, <2>3, <2>4 DEF Absent
<1>5. \A o \in Object : content[o] \in Contents
  BY DEF TypeOK
<1>6. CASE marked' = marked
  <2> DEFINE S == {o \in Object : db'[o].status = "ingested" /\ db[o].status # "ingested"}
             sha == [o \in S |-> content[o]]
             before == [o \in Object |-> CatalogChecksum(o)]
             counted == [o \in Object |-> CatalogCopies(o)]
  <2>1. S \in SUBSET Object /\ sha \in [S -> Contents]
    BY <1>5
  <2>2. \A o \in S : before[o] = "none"
    BY <1>3
  <2>3. before' = [o \in Object |-> IF o \in S THEN sha[o] ELSE before[o]]
    BY <1>2, <1>3, <1>4
  <2>4. counted' = [o \in Object |-> IF o \in S THEN counted[o] + 1 ELSE counted[o]]
    BY <1>2, <1>3, <1>4
  <2>5. Catalog!Append(S, sha)
    BY <1>1, <1>6, <2>2, <2>3, <2>4 DEF Catalog!Append
  <2>6. QED
    BY <2>1, <2>5 DEF Catalog!Next
<1>7. CASE marked \subseteq marked' /\ db' = db
  <2>0. PICK M : M = {<<o, content[o]>> : o \in marked'}
    OBVIOUS
  <2>1. \A o \in marked' : o \in Object /\ db'[o].status = "ingested"
    BY DEF TypeOK, IInv, Successes
  <2>2. M \in SUBSET (Object \X Contents)
    BY <1>5, <2>0, <2>1
  <2>3. \A m \in M : [o \in Object |-> CatalogChecksum(o)][m[1]] = m[2]
    BY <1>3, <1>7, <2>0, <2>1
  <2>4. {<<o, content[o]>> : o \in marked}' = {<<o, content[o]>> : o \in marked} \cup M
    BY <1>1, <1>7, <2>0
  <2>5. /\ [o \in Object |-> CatalogChecksum(o)]' = [o \in Object |-> CatalogChecksum(o)]
        /\ [o \in Object |-> CatalogCopies(o)]' = [o \in Object |-> CatalogCopies(o)]
    BY <1>1, <1>7 DEF CatalogChecksum, CatalogCopies, RowsOf
  <2>6. Catalog!Mark(M)
    BY <2>3, <2>4, <2>5 DEF Catalog!Mark
  <2>7. Catalog!Next
    BY <2>2, <2>6, Zenon DEF Catalog!Next
  <2>8. QED
    BY <2>7
<1>8. QED
  BY <1>1, <1>6, <1>7

\* With all its threads, blocks, exceptions and faults, a run is what the
\* catalog promises of it.
THEOREM Refinement == Spec => ImplementsSnapshotCatalog
<1>1. Init => Catalog!Init
  <2>1. SUFFICES ASSUME Init PROVE Catalog!Init
    OBVIOUS
  <2>2. marked = {} /\ \A o \in Object : db[o] = Absent
    BY <2>1 DEF Init, PublicationInit
  <2>3. \A o \in Object : CatalogChecksum(o) = "none" /\ CatalogCopies(o) = 0
    BY <2>2 DEF CatalogChecksum, CatalogCopies, Absent
  <2>4. QED
    BY <2>2, <2>3 DEF Catalog!Init
<1>2. TypeOK /\ IInv /\ (TypeOK /\ IInv)' /\ [Next]_vars => [Catalog!Next]_(Catalog!vars)
  BY CatalogStep
<1>3. QED
  BY <1>1, <1>2, Invariant, PTL DEF Spec, ImplementsSnapshotCatalog, Catalog!Spec
=============================================================================
