-------------------------- MODULE CompactionProofs --------------------------
(***************************************************************************)
(* The safety of Compaction, for any number of turns and compactions, any  *)
(* trigger and budget, any texts and images of the outputs of tools and    *)
(* any images of the queries.                                              *)
(***************************************************************************)
EXTENDS Compaction, DataFacts, FiniteSetTheorems

-----------------------------------------------------------------------------
(* Rows *)

LEMMA RowFacts ==
  ASSUME NEW h \in Seq(Rows)
  PROVE  /\ Len(h) \in Nat /\ DOMAIN h = 1..Len(h) /\ (h = <<>> <=> Len(h) = 0)
         /\ \A i \in 1..Len(h) : /\ h[i] \in Rows /\ h[i].kind \in Kinds /\ h[i].batch \in 0..MaxBatches
                                 /\ h[i].text \in Nat /\ h[i].image \in Nat /\ h[i].gen \in Nat
<1>1. Len(h) \in Nat /\ DOMAIN h = 1..Len(h) /\ (h = <<>> <=> Len(h) = 0)
  BY LenProperties, EmptySeq
<1>2. \A i \in 1..Len(h) : h[i] \in Rows
  BY ElementOfSeq
<1> QED
  BY <1>1, <1>2 DEF Rows

\* A row, whatever was cut from its text.
Alike(r, s) == r.kind = s.kind /\ r.batch = s.batch /\ r.gen = s.gen

\* q is the rows of h from the k-th on, texts and images aside.
SuffixFrom(q, h, k) ==
  /\ q \in Seq(Rows) /\ k \in 1..(Len(h) + 1) /\ Len(q) = Len(h) - k + 1
  /\ \A i \in 1..Len(q) : Alike(q[i], h[i + k - 1])

\* Partial sums, as Tokens makes them.
Summing(h, f) == f = [i \in 0..Len(h) |-> IF i = 0 THEN 0 ELSE f[i - 1] + Size(h[i])]

LEMMA TokensFacts ==
  /\ Tokens(<<>>) = 0
  /\ \A row \in Rows : Size(row) \in Nat /\ Tokens(<<row>>) = Size(row)
<1>1. Tokens(<<>>) = 0
  <2> DEFINE f == CHOOSE g : Summing(<<>>, g)
  <2>1. Summing(<<>>, [i \in 0..0 |-> 0])
    BY DEF Summing
  <2>2. Summing(<<>>, f)
    BY <2>1
  <2>3. Tokens(<<>>) = f[Len(<<>>)]
    BY DEF Tokens, Summing
  <2> HIDE DEF f
  <2> QED
    BY <2>2, <2>3 DEF Summing
<1>2. ASSUME NEW row \in Rows PROVE Size(row) \in Nat /\ Tokens(<<row>>) = Size(row)
  <2> DEFINE q == <<row>>
             f == CHOOSE g : Summing(q, g)
  <2>1. Len(q) = 1 /\ q[1] = row /\ Size(row) \in Nat
    BY DEF Rows, Size, Frame
  <2> HIDE DEF q
  <2>2. Summing(q, [i \in 0..1 |-> IF i = 0 THEN 0 ELSE Size(row)])
    <3> DEFINE g == [i \in 0..1 |-> IF i = 0 THEN 0 ELSE Size(row)]
    <3>1. \A i \in 0..1 : g[i] = IF i = 0 THEN 0 ELSE g[i - 1] + Size(q[i])
      BY <2>1
    <3>2. g = [i \in 0..1 |-> g[i]]
      OBVIOUS
    <3> HIDE DEF g
    <3>3. g = [i \in 0..1 |-> IF i = 0 THEN 0 ELSE g[i - 1] + Size(q[i])]
      BY <3>1, <3>2
    <3>4. Summing(q, g)
      BY <2>1, <3>3 DEF Summing
    <3> QED
      BY <3>4 DEF g
  <2>3. Summing(q, f)
    BY <2>2
  <2>4. Tokens(q) = f[1]
    BY <2>1 DEF Tokens, Summing
  <2> HIDE DEF f
  <2>5. f[0] = 0 /\ f[1] = f[0] + Size(q[1])
    <3>1. 0 \in 0..1 /\ 1 \in 0..1 /\ 1 - 1 = 0 /\ 1 # 0
      OBVIOUS
    <3> QED
      BY <2>1, <2>3, <3>1 DEF Summing
  <2> QED
    BY <2>1, <2>4, <2>5 DEF q
<1> QED
  BY <1>1, <1>2

-----------------------------------------------------------------------------
(* The kept tail *)

LEMMA SplitFacts ==
  ASSUME NEW h \in Seq(Rows)
  PROVE  /\ SplitIndex(h) \in 1..(Len(h) + 1)
         /\ SplitIndex(h) > 1 => SplitIndex(h) \in 1..Len(h) /\ h[SplitIndex(h)].kind = "query"
<1> DEFINE queries == {i \in DOMAIN h : h[i].kind = "query"}
           later(i) == {j \in queries : j >= i}
           Nth(i) == Cardinality(later(i)) = KeepRecentUsers
<1>1. Len(h) \in Nat /\ DOMAIN h = 1..Len(h)
  BY RowFacts
<1>2. SplitIndex(h) = IF \E i \in queries : Nth(i) THEN CHOOSE i \in queries : Nth(i) ELSE 1
  BY DEF SplitIndex
<1>3. SplitIndex(h) \in queries \/ SplitIndex(h) = 1
  <2> HIDE DEF queries, later
  <2> QED
    BY <1>2
<1> QED
  BY <1>1, <1>3

\* Within its budget, or a single row whose text is.
Fits(q) == Tokens(q) <= TailBudget \/ (Len(q) = 1 /\ q[1].text <= TailBudget)

\* What truncation leaves of a row.
LEMMA TruncatedFacts ==
  ASSUME NEW row \in Rows
  PROVE  Truncated(row) \in Rows /\ Alike(Truncated(row), row) /\ Truncated(row).text <= TailBudget
<1>1. TailBudget \in Nat /\ row.text \in Nat
  BY CompactionAssumption DEF Rows
<1>2. CASE row.text > TailBudget
  <2>1. Truncated(row) = [row EXCEPT !.text = TailBudget, !.image = 0]
    BY <1>2 DEF Truncated
  <2>2. /\ Truncated(row).kind = row.kind /\ Truncated(row).batch = row.batch
        /\ Truncated(row).gen = row.gen /\ Truncated(row).text = TailBudget
    BY <2>1 DEF Rows
  <2>3. [row EXCEPT !.text = TailBudget, !.image = 0] \in Rows
    BY <1>1 DEF Rows
  <2> QED
    BY <1>1, <2>1, <2>2, <2>3 DEF Alike
<1>3. CASE ~(row.text > TailBudget)
  <2>1. Truncated(row) = row
    BY <1>3 DEF Truncated
  <2> QED
    BY <1>1, <1>3, <2>1 DEF Alike
<1> QED
  BY <1>2, <1>3

LEMMA FitFacts ==
  ASSUME NEW h \in Seq(Rows), NEW split \in 1..(Len(h) + 1),
         split <= Len(h) => IsUser(h[split])
  PROVE  /\ \E k : SuffixFrom(FitTail(h, split), h, k) /\ (k <= Len(h) => IsUser(h[k]))
         /\ Fits(FitTail(h, split))
         /\ split <= Len(h) /\ Tokens(SubSeq(h, split, Len(h))) <= TailBudget =>
              FitTail(h, split) = SubSeq(h, split, Len(h))
<1> DEFINE fits(i) == i >= Len(h) \/ Tokens(SubSeq(h, i, Len(h))) <= TailBudget
           starts == TurnStarts(h, split)
           First(i) == fits(i) /\ \A j \in starts : j < i => ~fits(j)
           start == CHOOSE i \in starts : First(i)
           kept == SubSeq(h, start, Len(h))
<1>1. /\ Len(h) \in Nat /\ DOMAIN h = 1..Len(h)
      /\ \A i \in 1..Len(h) : h[i] \in Rows
  BY RowFacts
<1>b. TailBudget \in Nat
  BY CompactionAssumption
<1>2. FitTail(h, split) = IF Len(kept) = 1 /\ Tokens(kept) > TailBudget
                          THEN <<Truncated(kept[1])>> ELSE kept
  BY DEF FitTail
<1>3. /\ starts \subseteq 1..(Len(h) + 1) /\ split \in starts /\ Len(h) + 1 \in starts
      /\ \A i \in starts : split <= i /\ (i <= Len(h) => IsUser(h[i]))
  BY <1>1 DEF TurnStarts
<1>4. start \in starts /\ First(start)
  <2> DEFINE T == {i \in starts : fits(i)}
  <2>1. Len(h) + 1 \in T
    BY <1>1, <1>3
  <2>2. T \subseteq Nat
    BY <1>1, <1>3
  <2>3. PICK i \in T : \A j \in T : i <= j
    BY <2>1, <2>2, LeastNat
  <2>4. i \in starts /\ fits(i) /\ i \in Nat
    BY <2>2, <2>3
  <2>5. ASSUME NEW j \in starts, j < i, fits(j) PROVE FALSE
    <3>1. j \in T
      BY <2>5
    <3>2. i <= j /\ j \in Nat
      BY <2>2, <2>3, <3>1
    <3> QED
      BY <2>4, <2>5, <3>2
  <2>6. First(i)
    BY <2>4, <2>5
  <2> HIDE DEF starts, First
  <2> QED
    BY <2>4, <2>6
<1> HIDE DEF starts, start
<1>5. start \in 1..(Len(h) + 1) /\ (start <= Len(h) => IsUser(h[start]))
  BY <1>3, <1>4
<1>6. /\ kept \in Seq(Rows) /\ Len(kept) = Len(h) - start + 1
      /\ \A i \in 1..Len(kept) : kept[i] = h[i + start - 1] /\ i + start - 1 \in 1..Len(h)
  <2>1. start \in Int /\ Len(h) \in Int /\ \A i \in start..Len(h) : h[i] \in Rows
    BY <1>1, <1>5
  <2>2. /\ kept \in Seq(Rows)
        /\ Len(kept) = IF start <= Len(h) THEN Len(h) - start + 1 ELSE 0
        /\ \A i \in 1..(Len(h) - start + 1) : kept[i] = h[start + i - 1]
    BY <2>1, SubSeqProperties
  <2> HIDE DEF kept
  <2>3. Len(kept) = Len(h) - start + 1
    <3>1. start \in Nat /\ (~(start <= Len(h)) => Len(h) - start + 1 = 0)
      BY <1>1, <1>5
    <3> QED
      BY <2>2, <3>1
  <2>4. \A i \in 1..(Len(h) - start + 1) : start + i - 1 = i + start - 1 /\ i + start - 1 \in 1..Len(h)
    BY <1>1, <1>5
  <2> QED
    BY <2>2, <2>3, <2>4
<1>7. First(start)
  BY <1>4
<1> HIDE DEF kept, First
<1>8. Len(kept) = 1 => kept = <<kept[1]>> /\ kept[1] \in Rows /\ Tokens(kept) \in Nat
  <2>1. SUFFICES ASSUME Len(kept) = 1
                 PROVE  kept = <<kept[1]>> /\ kept[1] \in Rows /\ Tokens(kept) \in Nat
    OBVIOUS
  <2>2. kept \in [1..1 -> Rows]
    BY <1>6, <2>1, LenProperties
  <2>3. kept = <<kept[1]>> /\ kept[1] \in Rows
    BY <2>2
  <2>4. Tokens(<<kept[1]>>) \in Nat
    BY <2>3, TokensFacts
  <2> QED
    BY <2>3, <2>4
<1>9. Len(kept) # 1 => Tokens(kept) <= TailBudget
  <2>0. Len(h) \in Nat /\ start \in 1..(Len(h) + 1)
    BY <1>1, <1>5
  <2>1. start >= Len(h) => start = Len(h) \/ start = Len(h) + 1
    BY ONLY <2>0
  <2>2. CASE start = Len(h)
    BY <1>1, <1>6, <2>2
  <2>3. CASE start = Len(h) + 1
    <3>1. Len(kept) = 0
      BY <1>1, <1>6, <2>3
    <3>2. kept = <<>>
      BY <1>6, <3>1, RowFacts
    <3> QED
      BY <1>b, <3>2, TokensFacts
  <2>4. CASE ~(start >= Len(h))
    BY <1>7, <2>4 DEF First, kept
  <2> QED
    BY <2>1, <2>2, <2>3, <2>4
<1> DEFINE cut == <<Truncated(kept[1])>>
<1>10. CASE Len(kept) = 1 /\ Tokens(kept) > TailBudget
  <2>1. FitTail(h, split) = cut
    BY <1>2, <1>10
  <2>2. /\ Truncated(kept[1]) \in Rows /\ Alike(Truncated(kept[1]), kept[1])
        /\ Truncated(kept[1]).text <= TailBudget
    BY <1>8, <1>10, TruncatedFacts
  <2>3. cut \in Seq(Rows) /\ Len(cut) = 1 /\ cut[1] = Truncated(kept[1])
    BY <2>2
  <2>4. Fits(cut)
    BY <2>2, <2>3 DEF Fits
  <2> HIDE DEF cut
  <2>5. SuffixFrom(cut, h, start)
    <3>0. Len(kept) = 1 /\ Len(kept) = Len(h) - start + 1
      BY <1>6, <1>10
    <3>1. 1 \in 1..Len(kept) /\ Len(cut) = Len(h) - start + 1
      BY <2>3, <3>0
    <3>2. kept[1] = h[1 + start - 1]
      BY <1>6, <3>1
    <3>3. Alike(cut[1], h[1 + start - 1])
      BY <2>2, <2>3, <3>2
    <3>4. \A i \in 1..Len(cut) : i = 1
      BY <2>3
    <3> QED
      BY <1>5, <2>3, <3>1, <3>3, <3>4 DEF SuffixFrom
  <2>6. split <= Len(h) => ~(Tokens(SubSeq(h, split, Len(h))) <= TailBudget)
    <3>1. CASE start = split
      <4>1. Tokens(kept) \in Nat /\ SubSeq(h, split, Len(h)) = kept
        BY <1>8, <1>10, <3>1 DEF kept
      <4> QED
        BY <1>b, <1>10, <4>1
    <3>2. CASE start # split
      <4>1. split < start
        BY <1>3, <1>4, <1>5, <3>2
      <4> QED
        BY <1>3, <1>7, <4>1 DEF First
    <3> QED
      BY <3>1, <3>2
  <2> QED
    BY <1>5, <2>1, <2>4, <2>5, <2>6
<1>11. CASE ~(Len(kept) = 1 /\ Tokens(kept) > TailBudget)
  <2>1. FitTail(h, split) = kept
    BY <1>2, <1>11
  <2>2. Fits(kept)
    BY <1>8, <1>9, <1>11, <1>b DEF Fits
  <2>3. SuffixFrom(kept, h, start)
    BY <1>5, <1>6 DEF SuffixFrom, Alike
  <2>4. split <= Len(h) /\ Tokens(SubSeq(h, split, Len(h))) <= TailBudget => start = split
    <3>1. start # split => split < start
      BY <1>3, <1>4, <1>5
    <3> QED
      BY <1>3, <1>7, <3>1 DEF First
  <2>5. start = split => kept = SubSeq(h, split, Len(h))
    BY DEF kept
  <2> QED
    BY <1>5, <2>1, <2>2, <2>3, <2>4, <2>5
<1> QED
  BY <1>10, <1>11

LEMMA TailFacts ==
  ASSUME NEW h \in Seq(Rows)
  PROVE  /\ \E k : SuffixFrom(TailOf(h), h, k) /\ (k <= Len(h) => IsUser(h[k]))
         /\ Fits(TailOf(h))
         /\ SplitIndex(h) > 1 /\ Tokens(SubSeq(h, SplitIndex(h), Len(h))) <= TailBudget =>
              TailOf(h) = SubSeq(h, SplitIndex(h), Len(h))
<1> DEFINE split == IF SplitIndex(h) > 1 THEN SplitIndex(h) ELSE Len(h) + 1
<1>1. Len(h) \in Nat
  BY RowFacts
<1>2. /\ split \in 1..(Len(h) + 1) /\ (split <= Len(h) => IsUser(h[split]))
      /\ SplitIndex(h) > 1 => split = SplitIndex(h) /\ split <= Len(h)
  BY <1>1, SplitFacts DEF IsUser
<1>3. TailOf(h) = FitTail(h, split)
  BY DEF TailOf
<1> HIDE DEF split
<1> QED
  BY <1>2, <1>3, FitFacts

\* Between a call and the answer to it nothing is recorded as an unlinked output.
Tight(h) ==
  \A c, i \in 1..Len(h) :
    h[c].kind = "call" /\ h[i].kind = "tool" /\ h[c].batch = h[i].batch =>
      \A o \in c..i : h[o].kind # "output"

LEMMA LinkedKept ==
  ASSUME NEW h \in Seq(Rows), Tight(h), Linked(h),
         NEW q, NEW k, SuffixFrom(q, h, k), k <= Len(h) => IsUser(h[k])
  PROVE  Linked(q)
<1>1. /\ Len(h) \in Nat /\ DOMAIN h = 1..Len(h) /\ DOMAIN q = 1..Len(q) /\ k \in 1..(Len(h) + 1)
      /\ Len(q) = Len(h) - k + 1 /\ Len(q) \in Nat
      /\ \A i \in 1..Len(q) : q[i].kind = h[i + k - 1].kind /\ q[i].batch = h[i + k - 1].batch
  BY RowFacts DEF SuffixFrom, Alike
<1>2. SUFFICES ASSUME NEW i \in 1..Len(q), q[i].kind = "tool"
               PROVE  \E c \in 1 .. i - 1 : /\ q[c].kind = "call" /\ q[c].batch = q[i].batch
                                            /\ \A x \in c .. i : q[x].kind # "query"
  BY <1>1 DEF Linked
<1> DEFINE j == i + k - 1
<1>3. j \in 1..Len(h) /\ k <= j /\ k \in 1..Len(h) /\ k <= Len(h)
  <2>1. Len(h) \in Nat /\ k \in 1..(Len(h) + 1) /\ i \in 1..(Len(h) - k + 1)
    BY <1>1
  <2> QED
    BY <2>1
<1>4. h[j].kind = "tool" /\ h[j].batch = q[i].batch
  BY <1>1, <1>2
<1>5. PICK c \in 1 .. j - 1 : /\ h[c].kind = "call" /\ h[c].batch = h[j].batch
                             /\ \A x \in c .. j : h[x].kind # "query"
  BY <1>1, <1>3, <1>4 DEF Linked
<1>6. c \in 1..Len(h) /\ c \in Nat /\ c < j
  BY <1>1, <1>3
<1>7. k <= c
  <2>1. SUFFICES ASSUME c < k PROVE FALSE
    BY <1>3, <1>6
  <2>2. k \in c..j
    BY <1>3, <1>6, <2>1
  <2>3. h[k].kind # "query"
    BY <1>5, <2>2
  <2>4. h[k].kind = "output"
    BY <1>3, <2>3 DEF IsUser
  <2> HIDE DEF j
  <2>5. h[k].kind # "output"
    BY <1>3, <1>4, <1>5, <1>6, <2>2 DEF Tight
  <2> QED
    BY <2>4, <2>5
<1> DEFINE d == c - k + 1
<1>8. d \in 1 .. i - 1 /\ d + k - 1 = c /\ d \in 1..Len(q)
  <2>1. c \in Nat /\ k \in Nat /\ i \in Nat /\ c < i + k - 1 /\ k <= c /\ i <= Len(q) /\ Len(q) \in Nat
    BY <1>1, <1>6, <1>7
  <2> QED
    BY <2>1
<1>9. q[d].kind = "call" /\ q[d].batch = q[i].batch
  BY <1>1, <1>4, <1>5, <1>8
<1>10. ASSUME NEW x \in d .. i PROVE q[x].kind # "query"
  <2>1. x \in 1..Len(q) /\ x + k - 1 \in c .. j
    <3>1. c \in Nat /\ k \in Nat /\ i \in 1..Len(q) /\ Len(q) \in Nat /\ d \in 1..i
      BY <1>1, <1>6, <1>8
    <3> QED
      BY <3>1
  <2> QED
    BY <1>1, <1>5, <2>1
<1> QED
  BY <1>8, <1>9, <1>10

-----------------------------------------------------------------------------
(* Sound histories *)

\* History h, with the ids st staged and those of dr thrown away, after ba batches and
\* in generation g.
Sound(h, st, dr, ba, g) ==
  /\ h \in Seq(Rows)
  /\ \A i \in 1..Len(h) : /\ h[i].gen = g /\ h[i].batch <= ba
                          /\ h[i].kind = "call" => h[i].batch >= 1
  \* A call comes before its answers.
  /\ \A i, j \in 1..Len(h) : h[i].kind = "call" /\ h[j].kind = "tool" /\ h[i].batch = h[j].batch => i < j
  /\ Tight(h)
  /\ st # 0 => \A c \in 1..Len(h) : h[c].kind = "call" /\ h[c].batch = st =>
                 \A o \in c..Len(h) : h[o].kind # "output"
  \* A call is answered, staged or thrown away.
  /\ \A i \in 1..Len(h) : h[i].kind = "call" =>
        h[i].batch = st \/ h[i].batch \in dr
          \/ \E j \in 1..Len(h) : h[j].kind = "tool" /\ h[j].batch = h[i].batch

LEMMA SoundAppend ==
  ASSUME NEW h, NEW st \in Nat, NEW dr, NEW ba \in Nat, NEW g, Sound(h, st, dr, ba, g),
         NEW row \in Rows, NEW st2 \in Nat, NEW dr2, NEW ba2 \in Nat,
         row.gen = g, row.batch <= ba2, ba <= ba2, dr \subseteq dr2,
         row.kind = "call" => row.batch >= 1 /\ row.batch > ba /\ row.batch \in {st2} \cup dr2,
         row.kind = "tool" => st # 0 /\ row.batch = st,
         st2 = 0 \/ (st2 = st /\ row.kind # "output") \/ (row.kind = "call" /\ row.batch = st2),
         st = 0 \/ st2 = st \/ st \in dr2 \/ (row.kind = "tool" /\ row.batch = st)
  PROVE  Sound(Append(h, row), st2, dr2, ba2, g)
<1> DEFINE w == Append(h, row)
           n == Len(h)
<1>1. h \in Seq(Rows) /\ n \in Nat
  BY RowFacts DEF Sound
<1>2. \A i \in 1..n : h[i].batch \in Nat /\ h[i].batch <= ba
  BY <1>1, RowFacts DEF Sound
<1>3. row.batch \in Nat
  BY DEF Rows
<1>4. /\ w \in Seq(Rows) /\ Len(w) = n + 1
      /\ \A i \in 1..n : w[i] = h[i]
      /\ w[n + 1] = row
  BY <1>1, AppendProperties
<1>5. \A i \in 1..(n + 1) : i \in 1..n \/ i = n + 1
  BY <1>1
<1> HIDE DEF w, n
<1>6. \A i \in 1..(n + 1) : /\ w[i].gen = g /\ w[i].batch <= ba2
                            /\ w[i].kind = "call" => w[i].batch >= 1
  <2>1. ASSUME NEW i \in 1..n PROVE w[i].gen = g /\ w[i].batch <= ba2 /\ (w[i].kind = "call" => w[i].batch >= 1)
    <3>1. h[i].gen = g /\ h[i].batch <= ba /\ (h[i].kind = "call" => h[i].batch >= 1)
      BY DEF Sound, n
    <3> QED
      BY <1>2, <1>4, <3>1
  <2> QED
    BY <1>4, <1>5, <2>1
<1>7. ASSUME NEW i \in 1..(n + 1), NEW j \in 1..(n + 1),
             w[i].kind = "call", w[j].kind = "tool", w[i].batch = w[j].batch
      PROVE  i < j
  <2>1. CASE i \in 1..n /\ j \in 1..n
    BY <1>4, <1>7, <2>1 DEF Sound, n
  <2>2. CASE i = n + 1 /\ j \in 1..n
    <3>1. w[j].batch <= ba /\ w[j].batch \in Nat /\ w[i].batch > ba
      BY <1>2, <1>4, <1>7, <2>2
    <3> QED
      BY <1>7, <3>1
  <2>3. CASE i \in 1..n /\ j = n + 1
    BY <1>1, <2>3
  <2>4. i = n + 1 /\ j = n + 1 => FALSE
    BY <1>4, <1>7
  <2> QED
    BY <1>5, <2>1, <2>2, <2>3, <2>4
\* What follows the call of staged ids, in the old history.
<1>8. ASSUME NEW c \in 1..n, h[c].kind = "call", h[c].batch = st, st # 0, NEW o \in c..n
      PROVE  h[o].kind # "output"
  BY <1>8 DEF Sound, n
<1>9. ASSUME NEW c \in 1..(n + 1), NEW i \in 1..(n + 1),
             w[c].kind = "call", w[i].kind = "tool", w[c].batch = w[i].batch, NEW o \in c..i
      PROVE  w[o].kind # "output"
  <2>1. c < i /\ c \in 1..n
    BY <1>1, <1>7, <1>9
  <2>2. CASE i \in 1..n
    <3>1. o \in 1..n
      BY <1>1, <2>2
    <3> QED
      BY <1>4, <1>9, <2>1, <2>2, <3>1 DEF Sound, Tight, n
  <2>3. CASE i = n + 1
    <3>1. h[c].kind = "call" /\ h[c].batch = st /\ st # 0
      BY <1>4, <1>9, <2>1, <2>3
    <3>2. o \in c..n \/ o = n + 1
      BY <1>1, <2>3
    <3>3. o \in c..n => o \in 1..n
      BY <1>1
    <3> QED
      BY <1>4, <1>8, <1>9, <2>1, <2>3, <3>1, <3>2, <3>3
  <2> QED
    BY <1>5, <2>2, <2>3
<1>10. ASSUME st2 # 0, NEW c \in 1..(n + 1), w[c].kind = "call", w[c].batch = st2, NEW o \in c..(n + 1)
       PROVE  w[o].kind # "output"
  <2>1. CASE st2 = st /\ row.kind # "output"
    <3>1. CASE c \in 1..n
      <4>1. h[c].kind = "call" /\ h[c].batch = st /\ st # 0
        BY <1>4, <1>10, <2>1, <3>1
      <4>2. (o \in c..n /\ o \in 1..n) \/ o = n + 1
        BY <1>1
      <4> QED
        BY <1>4, <1>8, <2>1, <3>1, <4>1, <4>2
    <3>2. CASE c = n + 1
      <4>1. o = n + 1
        BY <1>1, <3>2
      <4> QED
        BY <1>4, <2>1, <4>1
    <3> QED
      BY <1>5, <3>1, <3>2
  <2>2. CASE row.kind = "call" /\ row.batch = st2
    <3>1. c = n + 1
      <4>1. c \in 1..n => w[c].batch <= ba /\ w[c].batch \in Nat
        BY <1>2, <1>4
      <4> QED
        BY <1>5, <1>10, <2>2, <4>1
    <3>2. o = n + 1
      BY <1>1, <3>1
    <3> QED
      BY <1>4, <2>2, <3>2
  <2> QED
    BY <1>10, <2>1, <2>2
<1>11. ASSUME NEW i \in 1..(n + 1), w[i].kind = "call"
       PROVE  w[i].batch = st2 \/ w[i].batch \in dr2
                \/ \E j \in 1..(n + 1) : w[j].kind = "tool" /\ w[j].batch = w[i].batch
  <2>1. CASE i = n + 1
    BY <1>4, <1>11, <2>1
  <2>2. CASE i \in 1..n
    <3>1. h[i].kind = "call" /\ w[i] = h[i] /\ h[i].batch >= 1 /\ h[i].batch \in Nat
      BY <1>2, <1>4, <1>11, <2>2 DEF Sound, n
    <3>2. \/ h[i].batch = st \/ h[i].batch \in dr
          \/ \E j \in 1..n : h[j].kind = "tool" /\ h[j].batch = h[i].batch
      BY <2>2, <3>1 DEF Sound, n
    <3>3. CASE \E j \in 1..n : h[j].kind = "tool" /\ h[j].batch = h[i].batch
      <4>1. PICK j \in 1..n : h[j].kind = "tool" /\ h[j].batch = h[i].batch
        BY <3>3
      <4>2. j \in 1..(n + 1) /\ w[j] = h[j]
        BY <1>1, <1>4
      <4> QED
        BY <3>1, <4>1, <4>2
    <3>4. CASE h[i].batch = st
      <4>1. st # 0
        BY <3>1, <3>4
      <4>2. row.kind = "tool" /\ row.batch = st => w[n + 1].kind = "tool" /\ w[n + 1].batch = w[i].batch
                                                 /\ n + 1 \in 1..(n + 1)
        BY <1>1, <1>4, <3>1, <3>4
      <4> QED
        BY <3>1, <3>4, <4>1, <4>2
    <3> QED
      BY <3>1, <3>2, <3>3, <3>4
  <2> QED
    BY <1>5, <2>1, <2>2
<1>12. Tight(w)
  BY <1>4, <1>9 DEF Tight
<1>13. Sound(w, st2, dr2, ba2, g)
  <2>0. Len(w) = n + 1
    BY <1>4
  <2>1. w \in Seq(Rows) /\ 1..(n + 1) = 1..Len(w)
    BY <1>4
  <2>2. ASSUME st2 # 0, NEW c \in 1..Len(w), w[c].kind = "call", w[c].batch = st2, NEW o \in c..Len(w)
        PROVE  w[o].kind # "output"
    BY <1>4, <1>10, <2>2
  <2>3. \A k \in 1..Len(w) : w[k].kind = "call" =>
           w[k].batch = st2 \/ w[k].batch \in dr2
             \/ \E j \in 1..Len(w) : w[j].kind = "tool" /\ w[j].batch = w[k].batch
    BY <1>11, <2>0
  <2>4. \A k, j \in 1..Len(w) :
           w[k].kind = "call" /\ w[j].kind = "tool" /\ w[k].batch = w[j].batch => k < j
    BY <1>7, <2>0
  <2>5. \A k \in 1..Len(w) : /\ w[k].gen = g /\ w[k].batch <= ba2
                             /\ w[k].kind = "call" => w[k].batch >= 1
    BY <1>6, <2>0
  <2>6. st2 # 0 => \A c \in 1..Len(w) : w[c].kind = "call" /\ w[c].batch = st2 =>
                     \A o \in c..Len(w) : w[o].kind # "output"
    BY <2>2
  <2> HIDE DEF w, n
  <2> QED
    BY <1>12, <2>1, <2>3, <2>4, <2>5, <2>6 DEF Sound
<1> QED
  BY <1>13 DEF w

\* A summary followed by the last rows of a sound history.
LEMMA SoundReplaced ==
  ASSUME NEW h, NEW st \in Nat, NEW dr, NEW ba \in Nat, NEW g, Sound(h, st, dr, ba, g),
         NEW r \in Seq(Rows), r # <<>>, r[1].kind = "summary", r[1].gen = g, r[1].batch = 0,
         NEW d \in Int, Len(r) + d = Len(h),
         \A j \in 2..Len(r) : j + d \in 1..Len(h) /\ Alike(r[j], h[j + d])
  PROVE  Sound(r, 0, dr \cup ({st} \ {0}), ba, g)
<1>1. h \in Seq(Rows) /\ Len(h) \in Nat /\ Len(r) \in Nat /\ Len(r) >= 1
  BY RowFacts DEF Sound
<1>2. \A j \in 1..Len(r) : r[j].kind \in {"call", "tool", "output"} => j \in 2..Len(r)
  <2>1. \A j \in 1..Len(r) : j = 1 \/ j \in 2..Len(r)
    BY <1>1
  <2> QED
    BY <2>1
<1>3. \A j \in 2..Len(r) : /\ j \in 1..Len(r) /\ j + d \in 1..Len(h)
                            /\ r[j].kind = h[j + d].kind /\ r[j].batch = h[j + d].batch /\ r[j].gen = h[j + d].gen
  BY <1>1 DEF Alike
<1>4. ASSUME NEW i \in 1..Len(r) PROVE r[i].gen = g /\ r[i].batch <= ba /\ (r[i].kind = "call" => r[i].batch >= 1)
  <2>1. CASE i = 1
    BY <2>1
  <2>2. CASE i \in 2..Len(r)
    BY <1>3, <2>2 DEF Sound
  <2>3. i = 1 \/ i \in 2..Len(r)
    BY <1>1
  <2> QED
    BY <2>1, <2>2, <2>3
<1>5. ASSUME NEW i \in 1..Len(r), NEW j \in 1..Len(r),
             r[i].kind = "call", r[j].kind = "tool", r[i].batch = r[j].batch
      PROVE  i < j
  <2>1. i \in 2..Len(r) /\ j \in 2..Len(r)
    BY <1>2, <1>5
  <2>2. i + d < j + d
    BY <1>3, <1>5, <2>1 DEF Sound
  <2> QED
    BY <1>1, <2>1, <2>2
<1>6. ASSUME NEW c \in 1..Len(r), NEW i \in 1..Len(r),
             r[c].kind = "call", r[i].kind = "tool", r[c].batch = r[i].batch, NEW o \in c..i
      PROVE  r[o].kind # "output"
  <2>1. c \in 2..Len(r) /\ i \in 2..Len(r)
    BY <1>2, <1>6
  <2>2. o \in 2..Len(r) /\ o + d \in (c + d)..(i + d)
    BY <1>1, <2>1
  <2>3. h[o + d].kind # "output"
    BY <1>3, <1>6, <2>1, <2>2 DEF Sound, Tight
  <2> QED
    BY <1>3, <2>2, <2>3
<1>7. ASSUME NEW i \in 1..Len(r), r[i].kind = "call"
      PROVE  r[i].batch \in dr \cup ({st} \ {0})
               \/ \E j \in 1..Len(r) : r[j].kind = "tool" /\ r[j].batch = r[i].batch
  <2>1. i \in 2..Len(r) /\ i + d \in 1..Len(h) /\ h[i + d].kind = "call" /\ h[i + d].batch = r[i].batch
    BY <1>2, <1>3, <1>7
  <2>2. r[i].batch # 0
    BY <1>4, <1>7
  <2>3. \/ r[i].batch = st \/ r[i].batch \in dr
        \/ \E j \in 1..Len(h) : h[j].kind = "tool" /\ h[j].batch = r[i].batch
    BY <2>1 DEF Sound
  <2>4. ASSUME NEW j \in 1..Len(h), h[j].kind = "tool", h[j].batch = r[i].batch
        PROVE  \E m \in 1..Len(r) : r[m].kind = "tool" /\ r[m].batch = r[i].batch
    <3>1. i + d < j
      BY <2>1, <2>4 DEF Sound
    <3>2. j - d \in 2..Len(r) /\ (j - d) + d = j
      BY <1>1, <2>1, <3>1
    <3> QED
      BY <1>3, <2>4, <3>2
  <2> QED
    BY <2>2, <2>3, <2>4
<1>8. Tight(r)
  BY <1>6 DEF Tight
<1> QED
  BY <1>4, <1>5, <1>7, <1>8 DEF Sound

-----------------------------------------------------------------------------
(* The inductive invariant *)

Summarising == {"pre", "mid", "retry", "empty", "manual"}
Active == {"ask", "tools"} \cup Summarising
Places == {"new", "lock", "ending", "done"} \cup Active

\* The job that holds the lock is the one that is past its beginning.
Control ==
  /\ pc \in [Jobs -> Places] /\ holder \in Jobs \cup {None}
  /\ \A j \in Jobs : holder = j <=> pc[j] \in Active
  /\ attempts \in 0..MaxAttempts
  /\ \A j \in Jobs : pc[j] \in {"retry", "empty"} => attempts < MaxAttempts

\* What a summary in flight, or the last one, was made from.
Summaries ==
  /\ snap \in Seq(Rows) /\ Tight(snap) /\ tail = TailOf(snap)
  /\ \A j \in Jobs : pc[j] \in Summarising => snap # <<>>

Counts ==
  /\ batches \in 0..MaxBatches /\ staged \in 0..batches /\ gen \in Nat
  /\ dropped \subseteq 1..batches

SoundNow == Counts /\ Sound(history, staged, dropped, batches, gen)

CompactionInv == Control /\ Summaries /\ SoundNow

-----------------------------------------------------------------------------
(* Jobs *)

LEMMA NoRows ==
  /\ <<>> \in Seq(Rows) /\ Len(<<>>) = 0 /\ Tight(<<>>) /\ TailOf(<<>>) = <<>>
<1>1. <<>> \in Seq(Rows) /\ Len(<<>>) = 0
  BY EmptySeq
<1>2. Tight(<<>>)
  BY <1>1 DEF Tight
<1>3. PICK k : SuffixFrom(TailOf(<<>>), <<>>, k)
  BY <1>1, TailFacts
<1>4. TailOf(<<>>) \in Seq(Rows) /\ k \in 1..1 /\ Len(TailOf(<<>>)) = 0 - k + 1
  BY <1>1, <1>3 DEF SuffixFrom
<1>5. Len(TailOf(<<>>)) = 0
  BY <1>4
<1> QED
  BY <1>1, <1>2, <1>4, <1>5, RowFacts

\* One job goes to another place.
LEMMA JobMoves ==
  ASSUME Control, Summaries, NEW j \in Jobs, NEW next \in Places, pc' = [pc EXCEPT ![j] = next],
         holder' = IF next \in Active THEN j ELSE IF holder = j THEN None ELSE holder,
         next \in Active => holder \in {j, None},
         attempts' \in 0..MaxAttempts, attempts' = attempts \/ holder = j,
         next \in {"retry", "empty"} => attempts' < MaxAttempts,
         \/ next \notin Summarising /\ UNCHANGED <<snap, tail>>
         \/ next \notin Summarising /\ NoSummary /\ holder \in {j, None}
         \/ /\ next \in Summarising /\ holder \in {j, None}
            /\ snap' \in Seq(Rows) /\ snap' # <<>> /\ Tight(snap') /\ tail' = TailOf(snap')
  PROVE  Control' /\ Summaries'
<1>1. /\ pc' \in [Jobs -> Places] /\ pc'[j] = next
      /\ \A k \in Jobs \ {j} : pc'[k] = pc[k]
      /\ None \notin Jobs
  BY CompactionAssumption DEF Control, Jobs
<1>2. holder \in {j, None} => \A k \in Jobs \ {j} : pc'[k] \notin Active
  BY <1>1 DEF Control
<1>3. holder' \in Jobs \cup {None} /\ \A k \in Jobs : holder' = k <=> pc'[k] \in Active
  <2>1. CASE next \in Active
    BY <1>1, <1>2, <2>1
  <2>2. CASE next \notin Active
    BY <1>1, <2>2 DEF Control
  <2> QED
    BY <2>1, <2>2
<1>4. ASSUME NEW k \in Jobs, pc'[k] \in {"retry", "empty"} PROVE attempts' < MaxAttempts
  <2>1. CASE k = j
    BY <1>1, <1>4, <2>1
  <2>2. CASE k # j
    BY <1>1, <1>2, <1>4, <2>2 DEF Control, Active, Summarising
  <2> QED
    BY <2>1, <2>2
<1>5. Control'
  BY <1>1, <1>3, <1>4 DEF Control
<1>6. Summaries'
  <2>1. CASE next \notin Summarising /\ UNCHANGED <<snap, tail>>
    <3>1. \A k \in Jobs : pc'[k] \in Summarising => pc[k] \in Summarising
      BY <1>1, <2>1
    <3> QED
      BY <2>1, <3>1 DEF Summaries
  <2>2. CASE next \notin Summarising /\ NoSummary /\ holder \in {j, None}
    <3>1. \A k \in Jobs : pc'[k] \notin Summarising
      BY <1>1, <1>2, <2>2 DEF Active
    <3> QED
      BY <2>2, <3>1, NoRows DEF Summaries, NoSummary
  <2>3. CASE snap' \in Seq(Rows) /\ snap' # <<>> /\ Tight(snap') /\ tail' = TailOf(snap')
    <3>1. TailOf(snap)' = TailOf(snap') /\ Tight(snap)' = Tight(snap')
      BY DEF TailOf, Tight, FitTail, Truncated, SplitIndex, TurnStarts, Tokens, Size, Frame, IsUser
    <3> QED
      BY <2>3, <3>1 DEF Summaries
  <2> QED
    BY <2>1, <2>2, <2>3
<1> QED
  BY <1>5, <1>6

-----------------------------------------------------------------------------
(* The history *)

\* What tools and queries bring.
LEMMA Images ==
  /\ \A t \in Turns : QueryImage[t] \in Nat
  /\ \A out \in Outputs : out.text \in Nat /\ out.image \in Nat
BY CompactionAssumption

\* A query or an answer.
LEMMA AddSound ==
  ASSUME SoundNow, Add("answer", 0) \/ (\E t \in Turns : AddQuery(t)),
         UNCHANGED <<staged, dropped, batches, gen>>
  PROVE  SoundNow'
<1>0. PICK kind \in {"query", "answer"}, image \in Nat : history' = Append1(history, kind, 0, 0, image)
  <2>1. CASE Add("answer", 0)
    <3>1. history' = Append1(history, "answer", 0, 0, 0)
      BY <2>1 DEF Add
    <3> QED
      BY <3>1
  <2>2. ASSUME NEW t \in Turns, AddQuery(t)
        PROVE  \E kind \in {"query", "answer"}, image \in Nat : history' = Append1(history, kind, 0, 0, image)
    <3>1. history' = Append1(history, "query", 0, 0, QueryImage[t]) /\ QueryImage[t] \in Nat
      BY <2>2, Images DEF AddQuery
    <3> QED
      BY <3>1
  <2> QED
    BY <2>1, <2>2
<1> DEFINE row == Row(kind, 0, 0, image, gen)
<1>1. /\ batches \in Nat /\ MaxBatches \in Nat /\ staged \in Nat /\ gen \in Nat
      /\ Sound(history, staged, dropped, batches, gen)
  BY CompactionAssumption DEF SoundNow, Counts
<1>2. row \in Rows /\ row.gen = gen /\ row.batch = 0 /\ row.kind = kind
  BY <1>1 DEF Kinds, Rows, Row
<1>3. history' = Append(history, row)
  BY <1>0 DEF Append1
<1> HIDE DEF row
<1>4. Sound(Append(history, row), staged, dropped, batches, gen)
  BY <1>1, <1>2, SoundAppend
<1> QED
  BY <1>3, <1>4 DEF SoundNow, Counts

LEMMA CallSound ==
  ASSUME SoundNow, batches < MaxBatches, Add("call", batches + 1), staged' = batches + 1,
         dropped' = dropped \cup ({staged} \ {0}), batches' = batches + 1, gen' = gen
  PROVE  SoundNow'
<1> DEFINE b == batches + 1
           row == Row("call", b, 0, 0, gen)
           more == dropped \cup ({staged} \ {0})
<1>1. /\ batches \in Nat /\ MaxBatches \in Nat /\ staged \in 0..batches /\ gen \in Nat /\ b \in 0..MaxBatches
      /\ b \in Nat /\ b >= 1 /\ b > batches
      /\ Sound(history, staged, dropped, batches, gen) /\ dropped \subseteq 1..batches
  BY CompactionAssumption DEF SoundNow, Counts
<1>2. row \in Rows /\ row.gen = gen /\ row.batch = b /\ row.kind = "call"
  BY <1>1 DEF Kinds, Rows, Row
<1>3. history' = Append(history, row)
  BY DEF Add, Append1
<1>4. dropped \subseteq more /\ (staged = 0 \/ staged \in more) /\ more \subseteq 1..b
  BY <1>1
<1>5. staged' = b /\ dropped' = more /\ batches' = b
  OBVIOUS
<1> HIDE DEF row, b, more
<1>6. /\ staged \in Nat /\ row.batch <= b /\ batches <= b
      /\ row.batch >= 1 /\ row.batch > batches /\ row.batch \in {b} \cup more
      /\ row.kind # "tool"
      /\ row.kind = "call" /\ row.batch = b
  BY <1>1, <1>2
<1>7. Sound(Append(history, row), b, more, b, gen)
  BY <1>1, <1>2, <1>4, <1>6, SoundAppend
<1>8. Counts'
  BY <1>1, <1>4, <1>5 DEF Counts
<1>9. Sound(history', staged', dropped', batches', gen')
  BY <1>3, <1>5, <1>7
<1> QED
  BY <1>8, <1>9 DEF SoundNow

\* The rows that answer staged ids, or an output nobody's call is left for.
LEMMA AnswerSound ==
  ASSUME SoundNow, NEW text \in Nat, NEW image \in Nat, NEW batch \in 0..batches,
         UNCHANGED <<dropped, batches, gen>>
  PROVE  /\ staged # 0 => Sound(Append1(history, "tool", staged, text, image), 0, dropped, batches, gen)
         /\ staged = 0 => Sound(Append1(history, "output", batch, text, image), 0, dropped, batches, gen)
<1>1. /\ batches \in Nat /\ batches <= MaxBatches /\ MaxBatches \in Nat /\ staged \in 0..batches /\ gen \in Nat
      /\ Sound(history, staged, dropped, batches, gen)
  BY CompactionAssumption DEF SoundNow, Counts
<1>2. ASSUME staged # 0
      PROVE  Sound(Append1(history, "tool", staged, text, image), 0, dropped, batches, gen)
  <2> DEFINE row == Row("tool", staged, text, image, gen)
  <2>1. row \in Rows /\ row.gen = gen /\ row.batch = staged /\ row.kind = "tool"
    BY <1>1 DEF Kinds, Rows, Row
  <2>2. Append1(history, "tool", staged, text, image) = Append(history, row)
    BY DEF Append1
  <2>3. staged \in Nat /\ 0 \in Nat /\ row.batch <= batches /\ batches <= batches /\ row.kind # "call"
    BY <1>1, <2>1
  <2> HIDE DEF row
  <2>4. Sound(Append(history, row), 0, dropped, batches, gen)
    BY <1>1, <1>2, <2>1, <2>3, SoundAppend
  <2> QED
    BY <2>2, <2>4
<1>3. ASSUME staged = 0
      PROVE  Sound(Append1(history, "output", batch, text, image), 0, dropped, batches, gen)
  <2> DEFINE row == Row("output", batch, text, image, gen)
  <2>1. row \in Rows /\ row.gen = gen /\ row.batch <= batches /\ row.kind = "output"
    BY <1>1 DEF Kinds, Rows, Row
  <2>2. Append1(history, "output", batch, text, image) = Append(history, row)
    BY DEF Append1
  <2>3. staged \in Nat /\ 0 \in Nat /\ row.batch <= batches /\ batches <= batches
        /\ row.kind # "call" /\ row.kind # "tool"
    BY <1>1, <2>1
  <2> HIDE DEF row
  <2>4. Sound(Append(history, row), 0, dropped, batches, gen)
    BY <1>1, <1>3, <2>1, <2>3, SoundAppend
  <2> QED
    BY <2>2, <2>4
<1> QED
  BY <1>2, <1>3

LEMMA OutputsSound ==
  ASSUME SoundNow, NEW out \in Outputs, NEW both \in BOOLEAN, ToolOutputs(batches, out, both),
         UNCHANGED <<dropped, batches, gen>>
  PROVE  SoundNow'
<1> DEFINE first == Append1(history, IF staged # 0 THEN "tool" ELSE "output",
                            IF staged # 0 THEN staged ELSE batches, out.text, out.image)
           row == Row("output", batches, 0, 0, gen)
<1>1. /\ batches \in Nat /\ batches <= MaxBatches /\ MaxBatches \in Nat /\ gen \in Nat
      /\ batches \in 0..batches /\ out.text \in Nat /\ out.image \in Nat
  BY CompactionAssumption, Images DEF SoundNow, Counts
<1>2. Sound(first, 0, dropped, batches, gen)
  BY <1>1, AnswerSound
<1>3. history' = (IF both THEN Append(first, row) ELSE first) /\ staged' = 0
  BY DEF ToolOutputs, Append1
<1> HIDE DEF first
<1>4. row \in Rows /\ row.gen = gen /\ row.batch = batches /\ row.kind = "output"
  BY <1>1 DEF Kinds, Rows, Row
<1> HIDE DEF row
<1>5. Sound(Append(first, row), 0, dropped, batches, gen)
  BY <1>1, <1>2, <1>4, SoundAppend
<1> QED
  BY <1>2, <1>3, <1>5 DEF SoundNow, Counts

LEMMA FinalizeSound ==
  ASSUME SoundNow, FinalizePending, UNCHANGED <<dropped, batches, gen>>
  PROVE  SoundNow'
<1>1. CASE staged = 0
  BY <1>1 DEF FinalizePending, SoundNow, Counts
<1>2. CASE staged # 0
  <2>1. batches \in Nat /\ 0 \in 0..batches
    BY DEF SoundNow, Counts
  <2>2. Sound(Append1(history, "tool", staged, 0, 0), 0, dropped, batches, gen)
    BY <1>2, <2>1, AnswerSound
  <2> QED
    BY <1>2, <2>1, <2>2 DEF FinalizePending, SoundNow, Counts
<1> QED
  BY <1>1, <1>2

LEMMA PrefixFacts ==
  ASSUME NEW r \in Seq(Rows), NEW h \in Seq(Rows)
  PROVE  IsPrefix(r, h) <=> Len(r) <= Len(h) /\ \A i \in 1..Len(r) : r[i] = h[i]
<1>1. Len(r) \in Nat /\ Len(h) \in Nat /\ \A i \in 1..Len(r) : r[i] \in Rows
  BY RowFacts
<1>2. ASSUME Len(r) <= Len(h)
      PROVE  SubSeq(r, 1, Len(r)) = SubSeq(h, 1, Len(r)) <=> \A i \in 1..Len(r) : r[i] = h[i]
  <2> DEFINE u == SubSeq(r, 1, Len(r))
             v == SubSeq(h, 1, Len(r))
  <2>1. 1 \in Int /\ Len(r) \in Int /\ \A i \in 1..Len(r) : r[i] \in Rows /\ h[i] \in Rows
    BY <1>1, <1>2, RowFacts
  <2>2. /\ u \in Seq(Rows) /\ Len(u) = IF 1 <= Len(r) THEN Len(r) - 1 + 1 ELSE 0
        /\ \A i \in 1..(Len(r) - 1 + 1) : u[i] = r[1 + i - 1]
    BY <2>1, SubSeqProperties
  <2>3. /\ v \in Seq(Rows) /\ Len(v) = IF 1 <= Len(r) THEN Len(r) - 1 + 1 ELSE 0
        /\ \A i \in 1..(Len(r) - 1 + 1) : v[i] = h[1 + i - 1]
    BY <2>1, SubSeqProperties
  <2> HIDE DEF u, v
  <2>4. Len(u) = Len(r) /\ Len(v) = Len(r)
    BY <1>1, <2>2, <2>3
  <2>5. \A i \in 1..Len(r) : u[i] = r[i] /\ v[i] = h[i]
    BY <1>1, <2>2, <2>3
  <2>6. u \in [1..Len(r) -> Rows] /\ v \in [1..Len(r) -> Rows]
    BY <2>2, <2>3, <2>4, LenProperties
  <2>7. u = v <=> \A i \in 1..Len(r) : r[i] = h[i]
    BY <2>5, <2>6
  <2> QED
    BY <2>7 DEF u, v
<1> QED
  BY <1>2 DEF IsPrefix

LEMMA RowsConcat ==
  ASSUME NEW r \in Seq(Rows), NEW q \in Seq(Rows)
  PROVE  /\ r \o q \in Seq(Rows) /\ Len(r \o q) = Len(r) + Len(q)
         /\ \A i \in 1..Len(r) : (r \o q)[i] = r[i]
         /\ \A i \in 1..Len(q) : (r \o q)[Len(r) + i] = q[i]
BY ConcatFacts

\* What compact installs, unless the history was cleared or installed meanwhile: the
\* summary, the tail of what was summarised, and the rows appended since.
Condensed == <<Summary>> \o tail
LEMMA ReplacementFacts ==
  ASSUME SoundNow, Summaries, snap # <<>>, ~Stale
  PROVE  /\ Replacement = Condensed \o Appended /\ Condensed \in Seq(Rows) /\ Appended \in Seq(Rows)
         /\ Replacement # <<>>
         /\ Sound(Replacement, 0, dropped \cup ({staged} \ {0}), batches, gen)
<1> DEFINE m == Len(snap)
           n == Len(history)
<1>1. /\ history \in Seq(Rows) /\ snap \in Seq(Rows) /\ batches \in Nat /\ staged \in Nat /\ gen \in Nat
      /\ Sound(history, staged, dropped, batches, gen)
  BY CompactionAssumption DEF SoundNow, Counts, Summaries, Sound
<1>2. m \in Nat /\ n \in Nat /\ m >= 1 /\ m <= n /\ \A i \in 1..m : snap[i] = history[i]
  BY <1>1, PrefixFacts, RowFacts DEF Stale
<1>3. /\ Summary \in Rows /\ Summary.kind = "summary" /\ Summary.batch = 0 /\ Summary.gen = gen
  <2>1. snap[1].gen = gen
    BY <1>2 DEF SoundNow, Sound
  <2>2. 0 \in 0..MaxBatches
    BY CompactionAssumption
  <2> QED
    BY <1>1, <2>1, <2>2 DEF Summary, Rows, Row, Kinds
<1>4. PICK k : SuffixFrom(tail, snap, k)
  BY <1>1, TailFacts DEF Summaries
<1>5. /\ tail \in Seq(Rows) /\ k \in 1..(m + 1) /\ Len(tail) = m - k + 1 /\ Len(tail) \in Nat
      /\ \A i \in 1..Len(tail) : Alike(tail[i], snap[i + k - 1])
  BY <1>4, RowFacts DEF SuffixFrom
<1>6. /\ Appended \in Seq(Rows) /\ Len(Appended) = n - m
      /\ \A i \in 1..(n - m) : Appended[i] = history[m + i]
  <2>1. m + 1 \in Int /\ n \in Int /\ \A i \in (m + 1)..n : history[i] \in Rows
    BY <1>1, <1>2, RowFacts
  <2>2. /\ Appended \in Seq(Rows)
        /\ Len(Appended) = IF m + 1 <= n THEN n - (m + 1) + 1 ELSE 0
        /\ \A i \in 1..(n - (m + 1) + 1) : Appended[i] = history[m + 1 + i - 1]
    BY <2>1, SubSeqProperties DEF Appended
  <2>3. (IF m + 1 <= n THEN n - (m + 1) + 1 ELSE 0) = n - m /\ n - (m + 1) + 1 = n - m
    BY <1>2
  <2>4. \A i \in 1..(n - m) : m + 1 + i - 1 = m + i
    BY <1>2
  <2> QED
    BY <2>2, <2>3, <2>4
<1> HIDE DEF m, n
<1>7. /\ Condensed \in Seq(Rows) /\ Len(Condensed) = Len(tail) + 1 /\ Condensed[1] = Summary
      /\ \A i \in 1..Len(tail) : Condensed[1 + i] = tail[i]
  <2>1. <<Summary>> \in Seq(Rows) /\ Len(<<Summary>>) = 1 /\ <<Summary>>[1] = Summary
    BY <1>3
  <2> DEFINE one == <<Summary>>
  <2> HIDE DEF one
  <2>2. one \in Seq(Rows) /\ Len(one) = 1 /\ one[1] = Summary /\ 1 \in 1..1
    BY <2>1 DEF one
  <2>3. /\ one \o tail \in Seq(Rows) /\ Len(one \o tail) = Len(one) + Len(tail)
        /\ \A i \in 1..Len(one) : (one \o tail)[i] = one[i]
        /\ \A i \in 1..Len(tail) : (one \o tail)[Len(one) + i] = tail[i]
    <3>1. one \in Seq(Rows) /\ tail \in Seq(Rows)
      BY <1>5, <2>2
    <3> QED
      BY <3>1, RowsConcat
  <2>4. Condensed = one \o tail
    BY DEF Condensed, one
  <2> QED
    BY <1>5, <2>2, <2>3, <2>4
<1>8. Replacement = Condensed \o Appended
  BY DEF Replacement, Condensed, Appended
<1> DEFINE r == Replacement
           d == k - 2
<1>9. /\ r \in Seq(Rows) /\ Len(r) = Len(tail) + 1 + (n - m)
      /\ \A i \in 1..(Len(tail) + 1) : r[i] = Condensed[i]
      /\ \A i \in 1..(n - m) : r[Len(tail) + 1 + i] = Appended[i]
  <2>1. /\ Condensed \o Appended \in Seq(Rows)
        /\ Len(Condensed \o Appended) = Len(Condensed) + Len(Appended)
        /\ \A i \in 1..Len(Condensed) : (Condensed \o Appended)[i] = Condensed[i]
        /\ \A i \in 1..Len(Appended) : (Condensed \o Appended)[Len(Condensed) + i] = Appended[i]
    <3>1. Condensed \in Seq(Rows) /\ Appended \in Seq(Rows)
      BY <1>6, <1>7
    <3> QED
      BY <3>1, RowsConcat
  <2> QED
    BY <1>6, <1>7, <1>8, <2>1
<1> HIDE DEF r
<1>10. Len(r) >= 1 /\ Len(r) + d = n /\ d \in Int
  BY <1>2, <1>5, <1>9
<1>11. ASSUME NEW j \in 2..Len(r)
       PROVE  j + d \in 1..n /\ Alike(r[j], history[j + d])
  <2>0. j \in Nat /\ j >= 2 /\ j <= Len(tail) + 1 + (n - m) /\ k \in Nat /\ k >= 1
    BY <1>2, <1>5, <1>9
  <2>1. CASE j <= Len(tail) + 1
    <3>1. /\ j - 1 \in 1..Len(tail) /\ 1 + (j - 1) = j /\ j \in 1..(Len(tail) + 1)
          /\ (j - 1) + k - 1 = j + d /\ j + d \in 1..m /\ j + d \in 1..n
      BY <1>2, <1>5, <2>0, <2>1
    <3>2. r[j] = tail[j - 1]
      <4>1. r[j] = Condensed[j]
        BY <1>9, <3>1
      <4>2. Condensed[1 + (j - 1)] = tail[j - 1]
        BY <1>7, <3>1
      <4> QED
        BY <3>1, <4>1, <4>2
    <3>3. Alike(tail[j - 1], snap[(j - 1) + k - 1])
      BY <1>5, <3>1
    <3>4. snap[j + d] = history[j + d]
      BY <1>2, <3>1
    <3> HIDE DEF d
    <3> QED
      BY <3>1, <3>2, <3>3, <3>4
  <2>2. CASE ~(j <= Len(tail) + 1)
    <3> DEFINE i == j - (Len(tail) + 1)
    <3>1. i \in 1..(n - m) /\ Len(tail) + 1 + i = j /\ m + i = j + d /\ j + d \in 1..n
      BY <1>2, <1>5, <2>0, <2>2
    <3> HIDE DEF i, d
    <3>2. r[j] = history[j + d]
      BY <1>6, <1>9, <3>1
    <3> QED
      BY <3>1, <3>2 DEF Alike
  <2> QED
    BY <2>1, <2>2
<1>12. r # <<>> /\ r[1] = Summary
  <2>1. 1 \in 1..(Len(tail) + 1)
    BY <1>5
  <2> QED
    BY <1>7, <1>9, <1>10, <2>1, RowFacts
<1>13. Sound(r, 0, dropped \cup ({staged} \ {0}), batches, gen)
  <2>1. Len(r) + d = Len(history) /\ \A j \in 2..Len(r) : j + d \in 1..Len(history) /\ Alike(r[j], history[j + d])
    BY <1>10, <1>11 DEF n
  <2> HIDE DEF d
  <2>2. r[1].kind = "summary" /\ r[1].gen = gen /\ r[1].batch = 0 /\ d \in Int
    BY <1>3, <1>10, <1>12
  <2> QED
    BY <1>1, <1>9, <1>12, <2>1, <2>2, SoundReplaced
<1> QED
  BY <1>6, <1>7, <1>8, <1>12, <1>13 DEF r

LEMMA ApplySound ==
  ASSUME SoundNow, Summaries, snap # <<>>, Apply, UNCHANGED <<batches, gen>>
  PROVE  SoundNow'
<1>1. CASE Stale
  BY <1>1 DEF Apply, SoundNow, Counts
<1>2. CASE ~Stale
  <2>1. history' = Replacement /\ staged' = 0 /\ dropped' = dropped \cup ({staged} \ {0})
    BY <1>2 DEF Apply, ReplaceWith
  <2>2. Sound(Replacement, 0, dropped \cup ({staged} \ {0}), batches, gen)
    BY <1>2, ReplacementFacts
  <2>3. Counts'
    BY <2>1, CompactionAssumption DEF SoundNow, Counts
  <2> QED
    BY <2>1, <2>2, <2>3 DEF SoundNow
<1> QED
  BY <1>1, <1>2

\* A history that starts anew: nothing, or a transcript of a query and its answer.
LEMMA FreshSound ==
  ASSUME NEW dr, NEW ba \in Nat, NEW g \in Nat
  PROVE  /\ Sound(<<>>, 0, dr, ba, g)
         /\ Sound(<<Row("query", 0, 0, 0, g),
                    Row("answer", 0, 0, 0, g)>>, 0, dr, ba, g)
<1>1. Sound(<<>>, 0, dr, ba, g)
  BY NoRows DEF Sound
<1> DEFINE q == Row("query", 0, 0, 0, g)
           a == Row("answer", 0, 0, 0, g)
           h == <<q, a>>
<1>2. q \in Rows /\ a \in Rows
  BY CompactionAssumption DEF Kinds, Rows, Row
<1>3. h \in Seq(Rows) /\ Len(h) = 2 /\ h[1] = q /\ h[2] = a
  BY <1>2
<1>4. \A i \in 1..2 : h[i].gen = g /\ h[i].batch = 0 /\ h[i].kind \in {"query", "answer"}
  BY <1>3 DEF Row
<1> HIDE DEF h, q, a
<1>5. \A i \in 1..Len(h) : /\ h[i].gen = g /\ h[i].batch <= ba
                           /\ h[i].kind # "call" /\ h[i].kind # "tool" /\ h[i].kind # "output"
  <2>1. 0 <= ba
    OBVIOUS
  <2> QED
    BY <1>3, <1>4, <2>1
<1>6. Sound(h, 0, dr, ba, g)
  BY <1>3, <1>5 DEF Sound, Tight
<1> QED
  BY <1>1, <1>6 DEF h, q, a

-----------------------------------------------------------------------------
(* The steps of the jobs *)

\* What every step may rely on.
LEMMA Ready ==
  ASSUME CompactionInv
  PROVE  /\ Control /\ Summaries /\ SoundNow
         /\ history \in Seq(Rows) /\ Tight(history)
         /\ attempts \in 0..MaxAttempts /\ MaxAttempts \in Nat /\ 0 \in 0..MaxAttempts
         /\ None \notin Jobs
         /\ \A j \in Jobs : /\ pc[j] \in Active <=> holder = j
                            /\ pc[j] \in Summarising => snap # <<>> /\ holder = j
                            /\ pc[j] \in {"retry", "empty"} => attempts < MaxAttempts
BY CompactionAssumption
   DEF CompactionInv, Control, Summaries, SoundNow, Sound, Jobs, Active, Summarising

LEMMA Untouched ==
  ASSUME SoundNow, UNCHANGED <<history, staged, dropped, batches, gen>>
  PROVE  SoundNow'
BY DEF SoundNow, Counts

\* The lock is left with the turn.
LEMMA ReleaseMoves ==
  ASSUME CompactionInv, NEW j \in Jobs, NEW next \in {"done", "ending"}, Release(j, next)
  PROVE  Control' /\ Summaries'
<1>1. /\ Control /\ Summaries /\ attempts \in 0..MaxAttempts /\ 0 \in 0..MaxAttempts
  BY Ready
<1>2. next \in Places /\ next \notin Active /\ next \notin Summarising /\ next \notin {"retry", "empty"}
  BY DEF Places, Active, Summarising
<1>3. /\ pc' = [pc EXCEPT ![j] = next]
      /\ holder' = (IF holder = j THEN None ELSE holder)
      /\ attempts' = (IF holder = j THEN 0 ELSE attempts)
      /\ IF holder = j THEN NoSummary ELSE UNCHANGED <<snap, tail>>
  BY DEF Release
<1>4. attempts' \in 0..MaxAttempts /\ (attempts' = attempts \/ holder = j)
  BY <1>1, <1>3
<1>5. CASE holder = j
  BY <1>1, <1>2, <1>3, <1>4, <1>5, JobMoves
<1>6. CASE holder # j
  BY <1>1, <1>2, <1>3, <1>4, <1>6, JobMoves
<1> QED
  BY <1>5, <1>6

\* A request is about to be made, or another summary.
LEMMA LoopMoves ==
  ASSUME Control, Summaries, NEW t \in Jobs, NEW h \in Seq(Rows), Tight(h), NEW provider,
         LoopTop(t, h, provider), holder = t, holder' = t, attempts' \in 0..MaxAttempts
  PROVE  Control' /\ Summaries'
<1>1. CASE pc' = [pc EXCEPT ![t] = "ask"] /\ NoSummary
  <2>1. "ask" \in Places /\ "ask" \in Active /\ "ask" \notin Summarising /\ "ask" \notin {"retry", "empty"}
    BY DEF Places, Active, Summarising
  <2> QED
    BY <1>1, <2>1, JobMoves
<1>2. CASE HasInput(h, FALSE) /\ StartSummary(t, h, "mid")
  <2>1. "mid" \in Places /\ "mid" \in Active /\ "mid" \in Summarising /\ "mid" \notin {"retry", "empty"}
    BY DEF Places, Active, Summarising
  <2>2. /\ pc' = [pc EXCEPT ![t] = "mid"] /\ snap' \in Seq(Rows) /\ snap' # <<>> /\ Tight(snap')
        /\ tail' = TailOf(snap')
    BY <1>2 DEF StartSummary, HasInput
  <2> QED
    BY <2>1, <2>2, JobMoves
<1> QED
  BY <1>1, <1>2 DEF LoopTop

\* The history is about to be summarised.
LEMMA SummaryMoves ==
  ASSUME CompactionInv, NEW j \in Jobs, NEW where \in Summarising, StartSummary(j, history, where),
         history # <<>>, holder \in {j, None}, holder' = j, UNCHANGED attempts,
         where \in {"retry", "empty"} => attempts < MaxAttempts
  PROVE  Control' /\ Summaries'
<1>1. Control /\ Summaries /\ history \in Seq(Rows) /\ Tight(history) /\ attempts \in 0..MaxAttempts
  BY Ready
<1>2. where \in Places /\ where \in Active
  BY DEF Places, Active
<1>3. /\ pc' = [pc EXCEPT ![j] = where] /\ snap' = history /\ tail' = TailOf(history)
  BY DEF StartSummary
<1>4. snap' \in Seq(Rows) /\ snap' # <<>> /\ Tight(snap') /\ tail' = TailOf(snap')
  BY <1>1, <1>3
<1>5. attempts' \in 0..MaxAttempts /\ (where \in {"retry", "empty"} => attempts' < MaxAttempts)
  BY <1>1
<1> QED
  BY <1>1, <1>2, <1>3, <1>4, <1>5, JobMoves

\* A request is about to be made.
LEMMA AskMoves ==
  ASSUME CompactionInv, NEW t \in Jobs, NEW next \in {"ask", "tools"}, pc' = [pc EXCEPT ![t] = next],
         holder \in {t, None}, holder' = t, UNCHANGED attempts, NoSummary \/ UNCHANGED <<snap, tail>>
  PROVE  Control' /\ Summaries'
<1>1. Control /\ Summaries /\ attempts \in 0..MaxAttempts
  BY Ready
<1>2. next \in Places /\ next \in Active /\ next \notin Summarising /\ next \notin {"retry", "empty"}
  BY DEF Places, Active, Summarising
<1> QED
  BY <1>1, <1>2, JobMoves

LEMMA ReceiveStep ==
  ASSUME CompactionInv, NEW j \in Jobs, Receive(j)
  PROVE  CompactionInv'
<1>1. Control /\ Summaries /\ SoundNow /\ attempts \in 0..MaxAttempts
  BY Ready
<1>2. holder # j
  BY Ready DEF Receive, Active, Summarising
<1>3. PICK next \in {"lock", "done"} : pc' = [pc EXCEPT ![j] = next]
  BY DEF Receive
<1>4. next \in Places /\ next \notin Active /\ next \notin Summarising /\ next \notin {"retry", "empty"}
  BY DEF Places, Active, Summarising
<1>5. UNCHANGED <<history, staged, dropped, batches, gen, holder, attempts, snap, tail>>
  BY DEF Receive
<1>6. Control' /\ Summaries'
  BY <1>1, <1>2, <1>3, <1>4, <1>5, JobMoves
<1> QED
  BY <1>1, <1>5, <1>6, Untouched DEF CompactionInv

LEMMA BeginTurnStep ==
  ASSUME CompactionInv, NEW t \in Turns, BeginTurn(t)
  PROVE  CompactionInv'
<1>1. SoundNow /\ t \in Jobs /\ holder = None /\ holder' = t
  BY Ready DEF Jobs, BeginTurn
<1>2. UNCHANGED <<staged, attempts, batches, gen, dropped>>
  BY DEF BeginTurn
<1>3. CASE HasInput(history, FALSE) /\ StartSummary(t, history, "pre") /\ UNCHANGED history
  <2>1. "pre" \in Summarising /\ "pre" \notin {"retry", "empty"} /\ history # <<>>
    BY <1>3 DEF Summarising, HasInput
  <2>2. Control' /\ Summaries'
    BY <1>1, <1>2, <1>3, <2>1, SummaryMoves
  <2> QED
    BY <1>1, <1>2, <1>3, <2>2, Untouched DEF CompactionInv
<1>4. CASE AddQuery(t) /\ pc' = [pc EXCEPT ![t] = "ask"] /\ NoSummary
  <2>1. Control' /\ Summaries'
    BY <1>1, <1>2, <1>4, AskMoves
  <2>2. SoundNow'
    BY <1>1, <1>2, <1>4, AddSound
  <2> QED
    BY <2>1, <2>2 DEF CompactionInv
<1> QED
  BY <1>3, <1>4 DEF BeginTurn

LEMMA PreSummaryStep ==
  ASSUME CompactionInv, NEW t \in Turns, PreSummary(t)
  PROVE  CompactionInv'
<1>1. SoundNow /\ Summaries /\ t \in Jobs /\ holder = t /\ snap # <<>>
  BY Ready DEF Jobs, PreSummary, Active, Summarising
<1>2. UNCHANGED <<attempts, batches, gen>> /\ holder' = t /\ pc' = [pc EXCEPT ![t] = "ask"] /\ NoSummary
  BY <1>1 DEF PreSummary
<1>3. Control' /\ Summaries'
  BY <1>1, <1>2, AskMoves
<1> DEFINE row == Row("query", 0, 0, QueryImage[t], gen)
           more == dropped \cup ({staged} \ {0})
<1>4. CASE ~Stale /\ ReplaceWith(Append(Replacement, row))
  <2>1. history' = Append(Replacement, row) /\ staged' = 0 /\ dropped' = more
    BY <1>4 DEF ReplaceWith
  <2>2. Sound(Replacement, 0, more, batches, gen)
    BY <1>1, <1>4, ReplacementFacts
  <2>3. batches \in Nat /\ gen \in Nat /\ staged \in 0..batches /\ dropped \subseteq 1..batches /\ batches \in 0..MaxBatches
    BY <1>1, CompactionAssumption DEF SoundNow, Counts
  <2>4. row \in Rows /\ row.gen = gen /\ row.batch = 0 /\ row.kind = "query" /\ row.batch <= batches
    BY <2>3, CompactionAssumption, Images DEF Kinds, Rows, Row
  <2>5. Counts'
    BY <1>2, <2>1, <2>3 DEF Counts
  <2> HIDE DEF row, more
  <2>6. /\ 0 \in Nat /\ batches <= batches /\ more \subseteq more /\ row.kind # "call" /\ row.kind # "tool"
    BY <2>3, <2>4
  <2>7. Sound(Append(Replacement, row), 0, more, batches, gen)
    BY <2>2, <2>3, <2>4, <2>6, SoundAppend
  <2> QED
    BY <1>2, <1>3, <2>1, <2>5, <2>7 DEF CompactionInv, SoundNow
<1>5. CASE AddQuery(t) /\ UNCHANGED <<staged, dropped>>
  <2>1. SoundNow'
    BY <1>1, <1>2, <1>5, AddSound
  <2> QED
    BY <1>3, <2>1 DEF CompactionInv
<1> QED
  BY <1>4, <1>5 DEF PreSummary, Append1

LEMMA MidSummaryStep ==
  ASSUME CompactionInv, NEW t \in Turns, MidSummary(t)
  PROVE  CompactionInv'
<1>1. SoundNow /\ Summaries /\ t \in Jobs /\ holder = t /\ snap # <<>>
  BY Ready DEF Jobs, MidSummary, Active, Summarising
<1>2. UNCHANGED <<attempts, batches, gen>> /\ holder' = t /\ pc' = [pc EXCEPT ![t] = "ask"] /\ NoSummary
  BY <1>1 DEF MidSummary
<1>3. Control' /\ Summaries'
  BY <1>1, <1>2, AskMoves
<1>4. SoundNow'
  BY <1>1, <1>2, ApplySound, Untouched DEF MidSummary
<1> QED
  BY <1>3, <1>4 DEF CompactionInv

LEMMA RecoverySummaryStep ==
  ASSUME CompactionInv, NEW t \in Turns, RecoverySummary(t)
  PROVE  CompactionInv'
<1>1. /\ Control /\ SoundNow /\ Summaries /\ t \in Jobs /\ holder = t /\ snap # <<>>
      /\ attempts < MaxAttempts /\ attempts \in Nat /\ MaxAttempts \in Nat
  BY Ready DEF Jobs, RecoverySummary, Active, Summarising
<1>2. UNCHANGED <<batches, gen>>
  BY DEF RecoverySummary
<1>3. CASE ~Stale /\ Apply /\ attempts' = attempts + 1 /\ LoopTop(t, Replacement, 0) /\ UNCHANGED holder
  <2>1. Replacement \in Seq(Rows) /\ Tight(Replacement)
    BY <1>1, <1>3, ReplacementFacts DEF Sound
  <2>2. attempts' \in 0..MaxAttempts /\ holder' = t
    BY <1>1, <1>3
  <2>3. Control' /\ Summaries'
    BY <1>1, <1>3, <2>1, <2>2, LoopMoves
  <2>4. SoundNow'
    BY <1>1, <1>2, <1>3, ApplySound
  <2> QED
    BY <2>3, <2>4 DEF CompactionInv
<1>4. CASE Add("answer", 0) /\ Release(t, "done") /\ UNCHANGED <<staged, dropped>>
  <2>1. SoundNow'
    BY <1>1, <1>2, <1>4, AddSound
  <2>2. Control' /\ Summaries'
    BY <1>1, <1>4, ReleaseMoves
  <2> QED
    BY <2>1, <2>2 DEF CompactionInv
<1> QED
  BY <1>3, <1>4 DEF RecoverySummary

LEMMA AnswerStep ==
  ASSUME CompactionInv, NEW t \in Turns, Answer(t)
  PROVE  CompactionInv'
<1>1. SoundNow /\ t \in Jobs
  BY Ready DEF Jobs
<1>2. Add("answer", 0) /\ Release(t, "done") /\ UNCHANGED <<staged, dropped, batches, gen>>
  BY DEF Answer
<1>3. SoundNow'
  BY <1>1, <1>2, AddSound
<1>4. Control' /\ Summaries'
  BY <1>1, <1>2, ReleaseMoves
<1> QED
  BY <1>3, <1>4 DEF CompactionInv

LEMMA CallToolsStep ==
  ASSUME CompactionInv, NEW t \in Turns, CallTools(t)
  PROVE  CompactionInv'
<1>1. SoundNow /\ t \in Jobs /\ holder = t
  BY Ready DEF Jobs, CallTools, Active
<1>2. SoundNow'
  BY <1>1, CallSound DEF CallTools
<1>3. pc' = [pc EXCEPT ![t] = "tools"] /\ holder' = t /\ UNCHANGED <<attempts, snap, tail>>
  BY <1>1 DEF CallTools
<1>4. Control' /\ Summaries'
  BY <1>1, <1>3, AskMoves
<1> QED
  BY <1>2, <1>4 DEF CompactionInv

LEMMA ResultsStep ==
  ASSUME CompactionInv, NEW t \in Turns, Results(t)
  PROVE  CompactionInv'
<1>1. Control /\ SoundNow /\ Summaries /\ t \in Jobs /\ holder = t /\ attempts \in 0..MaxAttempts
  BY Ready DEF Jobs, Results, Active
<1>2. PICK out \in Outputs, both \in BOOLEAN : ToolOutputs(batches, out, both)
  BY DEF Results
<1>3. LoopTop(t, history', mark) /\ UNCHANGED <<holder, attempts, batches, gen, dropped>>
  BY DEF Results
<1>4. SoundNow'
  BY <1>1, <1>2, <1>3, OutputsSound
<1>5. history' \in Seq(Rows) /\ Tight(history')
  BY <1>4 DEF SoundNow, Sound
<1>6. holder' = t /\ attempts' \in 0..MaxAttempts
  BY <1>1, <1>3
<1>7. Control' /\ Summaries'
  BY <1>1, <1>3, <1>5, <1>6, LoopMoves
<1> QED
  BY <1>4, <1>7 DEF CompactionInv

\* A summary is to rescue the turn, or the turn gives up.
LEMMA RecoverStep ==
  ASSUME CompactionInv, NEW t \in Turns, pc[t] = "ask", NEW force, NEW where \in {"retry", "empty"},
         Recover(t, force, where) \/ GiveUp(t), UNCHANGED <<staged, batches, gen, dropped>>
  PROVE  CompactionInv'
<1>1. SoundNow /\ t \in Jobs /\ holder = t
  BY Ready DEF Jobs, Active
<1>2. CASE Recover(t, force, where)
  <2>1. /\ where \in Summarising /\ attempts < MaxAttempts /\ history # <<>> /\ holder' = t
        /\ StartSummary(t, history, where) /\ UNCHANGED <<history, attempts>>
    BY <1>1, <1>2 DEF Recover, HasInput, Summarising
  <2>2. Control' /\ Summaries'
    BY <1>1, <2>1, SummaryMoves
  <2> QED
    BY <1>1, <2>1, <2>2, Untouched DEF CompactionInv
<1>3. CASE GiveUp(t)
  <2>1. SoundNow'
    BY <1>1, <1>3, AddSound DEF GiveUp
  <2>2. Control' /\ Summaries'
    BY <1>1, <1>3, ReleaseMoves DEF GiveUp
  <2> QED
    BY <2>1, <2>2 DEF CompactionInv
<1> QED
  BY <1>2, <1>3

LEMMA StopStep ==
  ASSUME CompactionInv, NEW t \in Turns, Stop(t)
  PROVE  CompactionInv'
<1>1. SoundNow /\ t \in Jobs
  BY Ready DEF Jobs
<1>2. UNCHANGED <<batches, gen, dropped>>
  BY DEF Stop
<1>3. CASE Release(t, "ending") /\ UNCHANGED <<history, staged>>
  <2>1. Control' /\ Summaries'
    BY <1>1, <1>3, ReleaseMoves
  <2> QED
    BY <1>1, <1>2, <1>3, <2>1, Untouched DEF CompactionInv
<1>4. CASE Release(t, "done") /\ FinalizePending
  <2>1. Control' /\ Summaries'
    BY <1>1, <1>4, ReleaseMoves
  <2>2. SoundNow'
    BY <1>1, <1>2, <1>4, FinalizeSound
  <2> QED
    BY <2>1, <2>2 DEF CompactionInv
<1> QED
  BY <1>3, <1>4 DEF Stop

LEMMA FinalizeStep ==
  ASSUME CompactionInv, NEW t \in Turns, Finalize(t)
  PROVE  CompactionInv'
<1>1. Control /\ Summaries /\ SoundNow /\ t \in Jobs /\ attempts \in 0..MaxAttempts /\ holder # t
  BY Ready DEF Jobs, Finalize, Active, Summarising
<1>2. /\ pc' = [pc EXCEPT ![t] = "done"] /\ UNCHANGED <<holder, snap, tail, attempts>>
      /\ FinalizePending /\ UNCHANGED <<batches, gen, dropped>>
  BY DEF Finalize
<1>3. "done" \in Places /\ "done" \notin Active /\ "done" \notin Summarising /\ "done" \notin {"retry", "empty"}
  BY DEF Places, Active, Summarising
<1>4. Control' /\ Summaries'
  BY <1>1, <1>2, <1>3, JobMoves
<1>5. SoundNow'
  BY <1>1, <1>2, FinalizeSound
<1> QED
  BY <1>4, <1>5 DEF CompactionInv

LEMMA BeginManualStep ==
  ASSUME CompactionInv, NEW m \in Manuals, BeginManual(m)
  PROVE  CompactionInv'
<1>1. Control /\ Summaries /\ SoundNow /\ m \in Jobs /\ attempts \in 0..MaxAttempts /\ holder = None /\ None \notin Jobs
  BY Ready DEF Jobs, BeginManual
<1>2. UNCHANGED <<history, staged, dropped, attempts, batches, gen>>
  BY DEF BeginManual
<1>3. CASE HasInput(history, TRUE) /\ holder' = m /\ StartSummary(m, history, "manual")
  <2>1. "manual" \in Summarising /\ "manual" \notin {"retry", "empty"} /\ history # <<>>
    BY <1>3 DEF Summarising, HasInput
  <2>2. Control' /\ Summaries'
    BY <1>1, <1>2, <1>3, <2>1, SummaryMoves
  <2> QED
    BY <1>1, <1>2, <2>2, Untouched DEF CompactionInv
<1>4. CASE pc' = [pc EXCEPT ![m] = "done"] /\ UNCHANGED <<holder, snap, tail>>
  <2>1. "done" \in Places /\ "done" \notin Active /\ "done" \notin Summarising /\ "done" \notin {"retry", "empty"}
    BY DEF Places, Active, Summarising
  <2>2. holder # m
    BY <1>1
  <2>3. Control' /\ Summaries'
    BY <1>1, <1>2, <1>4, <2>1, <2>2, JobMoves
  <2> QED
    BY <1>1, <1>2, <2>3, Untouched DEF CompactionInv
<1> QED
  BY <1>3, <1>4 DEF BeginManual

LEMMA ManualSummaryStep ==
  ASSUME CompactionInv, NEW m \in Manuals, ManualSummary(m)
  PROVE  CompactionInv'
<1>1. SoundNow /\ Summaries /\ m \in Jobs /\ snap # <<>>
  BY Ready DEF Jobs, ManualSummary, Active, Summarising
<1>2. UNCHANGED <<batches, gen>> /\ Release(m, "done")
  BY DEF ManualSummary
<1>3. Control' /\ Summaries'
  BY <1>1, <1>2, ReleaseMoves
<1>4. SoundNow'
  BY <1>1, <1>2, ApplySound, Untouched DEF ManualSummary
<1> QED
  BY <1>3, <1>4 DEF CompactionInv

LEMMA InstallStep ==
  ASSUME CompactionInv, Rehydrate \/ ClearHistory
  PROVE  CompactionInv'
<1>1. /\ Control /\ Summaries /\ batches \in Nat /\ gen \in Nat /\ gen' = gen + 1
      /\ staged \in 0..batches /\ dropped \subseteq 1..batches /\ batches \in 0..MaxBatches
  BY Ready, CompactionAssumption DEF SoundNow, Counts, Rehydrate, ClearHistory
<1>2. UNCHANGED <<holder, pc, snap, tail, attempts, batches>>
  BY DEF Rehydrate, ClearHistory
<1>3. Control' /\ Summaries'
  BY <1>1, <1>2 DEF Control, Summaries
<1>4. staged' = 0 /\ dropped' = dropped \cup ({staged} \ {0})
  BY DEF Rehydrate, ClearHistory, ReplaceWith
<1>5. Counts'
  BY <1>1, <1>2, <1>4 DEF Counts
<1>6. gen + 1 \in Nat
  BY <1>1
<1>7. Sound(history', 0, dropped', batches, gen + 1)
  BY <1>1, <1>6, FreshSound DEF Rehydrate, ClearHistory, ReplaceWith
<1> QED
  BY <1>1, <1>2, <1>3, <1>4, <1>5, <1>7 DEF CompactionInv, SoundNow

LEMMA CompactionStep == CompactionInv /\ [Next]_vars => CompactionInv'
<1> SUFFICES ASSUME CompactionInv, [Next]_vars PROVE CompactionInv'
  OBVIOUS
<1>1. ASSUME NEW t \in Turns, Overflow(t) \/ EmptyFailed(t) PROVE CompactionInv'
  <2>1. CASE Overflow(t)
    BY <2>1, RecoverStep DEF Overflow
  <2>2. CASE EmptyFailed(t)
    BY <2>2, RecoverStep DEF EmptyFailed
  <2> QED
    BY <1>1, <2>1, <2>2
<1>2. ASSUME NEW t \in Turns, Turn(t) \/ Stop(t) PROVE CompactionInv'
  BY <1>1, <1>2, BeginTurnStep, PreSummaryStep, MidSummaryStep, RecoverySummaryStep, AnswerStep,
     CallToolsStep, ResultsStep, FinalizeStep, StopStep DEF Turn
<1>3. ASSUME NEW m \in Manuals, BeginManual(m) \/ ManualSummary(m) PROVE CompactionInv'
  BY <1>3, BeginManualStep, ManualSummaryStep
<1>4. CASE UNCHANGED vars
  BY <1>4 DEF vars, CompactionInv, Control, Summaries, SoundNow, Counts
<1> QED
  BY <1>2, <1>3, <1>4, ReceiveStep, InstallStep DEF Next

LEMMA CompactionStart == Init => CompactionInv
<1> SUFFICES ASSUME Init PROVE CompactionInv
  OBVIOUS
<1>1. Control
  BY CompactionAssumption DEF Init, Control, Places, Active, Summarising, Jobs
<1>2. Summaries
  BY NoRows DEF Init, Summaries, Summarising
<1>3. Counts
  BY CompactionAssumption DEF Init, Counts
<1>4. Sound(<<>>, 0, {}, 0, 0)
  BY FreshSound
<1>5. SoundNow
  BY <1>3, <1>4 DEF Init, SoundNow
<1> QED
  BY <1>1, <1>2, <1>5 DEF CompactionInv

THEOREM CompactionInvariant == Spec => []CompactionInv
BY CompactionStart, CompactionStep, PTL DEF Spec

-----------------------------------------------------------------------------
(* What the runs check *)

\* NothingClearedReturns (compact's stale check): a compaction that was in flight while
\* the history was cleared or another was installed brings back no row of the old one.
THEOREM NothingReturnsTheorem == Spec => []NothingClearedReturns
<1>1. CompactionInv => NothingClearedReturns
  <2> SUFFICES ASSUME CompactionInv, NEW row \in ToSet(history) PROVE row.gen = gen
    BY DEF NothingClearedReturns
  <2>1. history \in Seq(Rows) /\ \A i \in 1..Len(history) : history[i].gen = gen
    BY DEF CompactionInv, SoundNow, Sound
  <2>2. PICK i \in 1..Len(history) : row = history[i]
    BY <2>1, RowFacts DEF ToSet
  <2> QED
    BY <2>1, <2>2
<1> QED
  BY <1>1, CompactionInvariant, PTL

\* TailSound (_fit_tail_to_target_budget): the rows kept beside a summary fit their budget
\* or are a single row whose text does, are all of the recent turns if those fit, and hold
\* no output of a tool without the call it answers.
THEOREM TailTheorem == Spec => []TailSound
<1>1. CompactionInv => TailSound
  <2> SUFFICES ASSUME CompactionInv PROVE TailSound
    OBVIOUS
  <2>1. snap \in Seq(Rows) /\ Tight(snap) /\ tail = TailOf(snap)
    BY DEF CompactionInv, Summaries
  <2>2. PICK k : SuffixFrom(tail, snap, k) /\ (k <= Len(snap) => IsUser(snap[k]))
    BY <2>1, TailFacts
  <2>3. TailLinked
    BY <2>1, <2>2, LinkedKept DEF TailLinked
  <2>4. TailFits
    BY <2>1, TailFacts DEF TailFits, Fits
  <2> QED
    BY <2>3, <2>4 DEF TailSound
<1> QED
  BY <1>1, CompactionInvariant, PTL

LEMMA WellTyped == CompactionInv => TypeOK
<1> SUFFICES ASSUME CompactionInv PROVE TypeOK
  OBVIOUS
<1>1. Control /\ Summaries /\ Counts /\ history \in Seq(Rows)
  BY DEF CompactionInv, SoundNow, Sound
<1>2. PICK k : SuffixFrom(tail, snap, k)
  BY <1>1, TailFacts DEF Summaries
<1>3. tail \in Seq(Rows)
  BY <1>2 DEF SuffixFrom
<1>4. \A j \in Jobs : (holder = j) <=> pc[j] \in {"pre", "ask", "tools", "mid", "retry", "empty", "manual"}
  BY <1>1 DEF Control, Active, Summarising
<1> QED
  BY <1>1, <1>3, <1>4 DEF TypeOK, Control, Summaries, Counts

\* OpenCallsStaged (finalize_pending_tool_calls_as_cancelled): a call of the history is
\* answered, or its id is staged and will be, or was thrown away with a replaced history
\* or by the next call.
THEOREM OpenCallsTheorem == Spec => []OpenCallsStaged
<1>1. CompactionInv => OpenCallsStaged
  <2> SUFFICES ASSUME CompactionInv, NEW b \in Batches(history, "call")
               PROVE  b \in Batches(history, "tool") \cup {staged} \cup dropped
    BY WellTyped DEF OpenCallsStaged
  <2>1. /\ history \in Seq(Rows)
        /\ \A i \in 1..Len(history) : history[i].kind = "call" =>
             history[i].batch = staged \/ history[i].batch \in dropped
               \/ \E j \in 1..Len(history) : history[j].kind = "tool" /\ history[j].batch = history[i].batch
    BY DEF CompactionInv, SoundNow, Sound
  <2>2. DOMAIN history = 1..Len(history)
    BY <2>1, RowFacts
  <2>3. PICK i \in 1..Len(history) : history[i].kind = "call" /\ history[i].batch = b
    BY <2>2 DEF Batches
  <2>4. ASSUME NEW j \in 1..Len(history), history[j].kind = "tool", history[j].batch = b
        PROVE  b \in Batches(history, "tool")
    BY <2>2, <2>4 DEF Batches
  <2> QED
    BY <2>1, <2>3, <2>4
<1> QED
  BY <1>1, CompactionInvariant, PTL

-----------------------------------------------------------------------------
(* Rows appended while a summary is in flight *)

LEMMA Unextended ==
  ASSUME NEW q \in Seq(Rows)
  PROVE  IsPrefix(q, q)
<1>1. Len(q) \in Nat
  BY RowFacts
<1> QED
  BY <1>1, PrefixFacts

LEMMA Extends ==
  ASSUME NEW q \in Seq(Rows), NEW row \in Rows
  PROVE  Append(q, row) \in Seq(Rows) /\ IsPrefix(q, Append(q, row)) /\ Append(q, row) # <<>>
<1> DEFINE h == Append(q, row)
<1>1. Len(q) \in Nat
  BY RowFacts
<1>2. h \in Seq(Rows) /\ Len(h) = Len(q) + 1 /\ \A i \in 1..Len(q) : h[i] = q[i]
  BY <1>1, AppendProperties
<1> HIDE DEF h
<1>3. Len(q) <= Len(h) /\ Len(h) # 0 /\ \A i \in 1..Len(q) : q[i] = h[i]
  BY <1>1, <1>2
<1>4. IsPrefix(q, h) /\ h # <<>>
  BY <1>2, <1>3, PrefixFacts, RowFacts
<1> QED
  BY <1>2, <1>4 DEF h

LEMMA PrefixOfPrefix ==
  ASSUME NEW q \in Seq(Rows), NEW r \in Seq(Rows), NEW h \in Seq(Rows), IsPrefix(q, r), IsPrefix(r, h)
  PROVE  IsPrefix(q, h)
<1>1. Len(q) \in Nat /\ Len(r) \in Nat /\ Len(h) \in Nat
  BY RowFacts
<1>2. Len(q) <= Len(r) /\ \A i \in 1..Len(q) : q[i] = r[i]
  BY PrefixFacts
<1>3. Len(r) <= Len(h) /\ \A i \in 1..Len(r) : r[i] = h[i]
  BY PrefixFacts
<1>4. Len(q) <= Len(h) /\ \A i \in 1..Len(q) : q[i] = h[i]
  BY <1>1, <1>2, <1>3
<1> QED
  BY <1>4, PrefixFacts

\* rows are somewhere in h, together and in order.
Follows(rows, h) == \E i \in 1..Len(h) : IsPrefix(rows, SubSeq(h, i, Len(h)))

LEMMA FollowsFacts ==
  ASSUME NEW r \in Seq(Rows), NEW rows \in Seq(Rows), NEW h \in Seq(Rows), h # <<>>, IsPrefix(r \o rows, h)
  PROVE  Follows(rows, h)
<1>1. /\ Len(r) \in Nat /\ Len(rows) \in Nat /\ Len(h) \in Nat /\ Len(h) >= 1
  BY RowFacts
<1>2. /\ r \o rows \in Seq(Rows) /\ Len(r \o rows) = Len(r) + Len(rows)
      /\ \A i \in 1..Len(rows) : (r \o rows)[Len(r) + i] = rows[i]
  BY RowsConcat
<1>3. Len(r) + Len(rows) <= Len(h) /\ \A i \in 1..(Len(r) + Len(rows)) : (r \o rows)[i] = h[i]
  BY <1>2, PrefixFacts
<1>4. PICK k \in 1..Len(h) : Len(rows) = 0 \/ k = Len(r) + 1
  <2>1. CASE Len(rows) = 0
    BY <1>1, <2>1
  <2>2. CASE Len(rows) # 0
    <3>1. Len(r) + 1 \in 1..Len(h)
      BY <1>1, <1>3, <2>2
    <3> QED
      BY <3>1
  <2> QED
    BY <2>1, <2>2
<1> DEFINE rest == SubSeq(h, k, Len(h))
<1>5. /\ rest \in Seq(Rows) /\ Len(rest) = Len(h) - k + 1
      /\ \A i \in 1..(Len(h) - k + 1) : rest[i] = h[k + i - 1]
  <2>1. k \in Int /\ Len(h) \in Int /\ k <= Len(h) /\ \A i \in k..Len(h) : h[i] \in Rows
    BY <1>1, RowFacts
  <2> QED
    BY <2>1, SubSeqProperties
<1> HIDE DEF rest
<1>6. Len(rows) <= Len(rest)
  BY <1>1, <1>3, <1>4, <1>5
<1>7. ASSUME NEW i \in 1..Len(rows) PROVE rows[i] = rest[i]
  <2>1. k = Len(r) + 1 /\ k + i - 1 = Len(r) + i /\ Len(r) + i \in 1..(Len(r) + Len(rows))
        /\ i \in 1..(Len(h) - k + 1)
    BY <1>1, <1>3, <1>4
  <2>2. rest[i] = h[Len(r) + i]
    BY <1>5, <2>1
  <2> QED
    BY <1>2, <1>3, <2>1, <2>2
<1>8. IsPrefix(rows, rest)
  BY <1>5, <1>6, <1>7, PrefixFacts
<1> QED
  BY <1>8 DEF Follows, rest

LEMMA HistoryGrows ==
  ASSUME CompactionInv
  PROVE  /\ \A kind \in Kinds, batch \in 0..MaxBatches : Add(kind, batch) => IsPrefix(history, history')
         /\ \A t \in Turns : AddQuery(t) => IsPrefix(history, history')
         /\ \A out \in Outputs, both \in BOOLEAN :
              ToolOutputs(batches, out, both) => IsPrefix(history, history')
         /\ FinalizePending => IsPrefix(history, history')
         /\ UNCHANGED history => IsPrefix(history, history')
<1>1. /\ history \in Seq(Rows) /\ batches \in 0..MaxBatches /\ staged \in 0..MaxBatches /\ gen \in Nat
      /\ MaxBatches \in Nat
  BY Ready, CompactionAssumption DEF SoundNow, Counts
<1>2. ASSUME NEW kind \in Kinds, NEW batch \in 0..MaxBatches, NEW text \in Nat,
             NEW image \in Nat
      PROVE  /\ Append1(history, kind, batch, text, image) \in Seq(Rows)
             /\ IsPrefix(history, Append1(history, kind, batch, text, image))
  <2> DEFINE row == Row(kind, batch, text, image, gen)
  <2>1. row \in Rows
    BY <1>1 DEF Rows, Row
  <2>2. Append1(history, kind, batch, text, image) = Append(history, row)
    BY DEF Append1
  <2> HIDE DEF row
  <2> QED
    BY <1>1, <2>1, <2>2, Extends
<1>3. ASSUME NEW kind \in Kinds, NEW batch \in 0..MaxBatches, Add(kind, batch)
      PROVE  IsPrefix(history, history')
  BY <1>2, <1>3 DEF Add
<1>4. ASSUME NEW t \in Turns, AddQuery(t)
      PROVE  IsPrefix(history, history')
  <2>1. "query" \in Kinds /\ 0 \in 0..MaxBatches /\ 0 \in Nat /\ QueryImage[t] \in Nat
    BY <1>1, Images DEF Kinds
  <2> QED
    BY <1>2, <1>4, <2>1 DEF AddQuery
<1>5. ASSUME NEW out \in Outputs, NEW both \in BOOLEAN, ToolOutputs(batches, out, both)
      PROVE  IsPrefix(history, history')
  <2> DEFINE kind == IF staged # 0 THEN "tool" ELSE "output"
             batch == IF staged # 0 THEN staged ELSE batches
             first == Append1(history, kind, batch, out.text, out.image)
             row == Row("output", batches, 0, 0, gen)
  <2>1. kind \in Kinds /\ batch \in 0..MaxBatches /\ out.text \in Nat /\ out.image \in Nat
    BY <1>1, Images DEF Kinds
  <2>2. history' = (IF both THEN Append(first, row) ELSE first)
    BY <1>5 DEF ToolOutputs, Append1
  <2>3. row \in Rows
    BY <1>1 DEF Kinds, Rows, Row
  <2> HIDE DEF kind, batch, row
  <2>4. first \in Seq(Rows) /\ IsPrefix(history, first)
    BY <1>2, <2>1
  <2> HIDE DEF first
  <2>5. Append(first, row) \in Seq(Rows) /\ IsPrefix(first, Append(first, row))
    BY <2>3, <2>4, Extends
  <2>6. IsPrefix(history, Append(first, row))
    BY <1>1, <2>4, <2>5, PrefixOfPrefix
  <2> QED
    BY <2>2, <2>4, <2>6
<1>6. ASSUME FinalizePending PROVE IsPrefix(history, history')
  <2>1. CASE staged = 0
    BY <1>1, <1>6, <2>1, Unextended DEF FinalizePending
  <2>2. CASE staged # 0
    <3>1. "tool" \in Kinds /\ 1 \in Nat
      BY DEF Kinds
    <3> QED
      BY <1>1, <1>2, <1>6, <2>2, <3>1 DEF FinalizePending
  <2> QED
    BY <2>1, <2>2
<1>7. UNCHANGED history => IsPrefix(history, history')
  BY <1>1, Unextended
<1> QED
  BY <1>3, <1>4, <1>5, <1>6, <1>7

\* The history only grows, or it is replaced by what compact installs and grows from there.
Grows == IsPrefix(history, history')
Rewrites == ~Stale /\ history' # <<>> /\ history' \in Seq(Rows) /\ IsPrefix(Replacement, history')

LEMMA SummaryRewrites ==
  ASSUME CompactionInv, snap # <<>>
  PROVE  /\ Apply => Grows \/ Rewrites
         /\ \A t \in Turns : PreSummary(t) => Grows \/ Rewrites
<1>1. Summaries /\ SoundNow /\ gen \in Nat /\ 0 \in 0..MaxBatches
  BY Ready, CompactionAssumption DEF SoundNow, Counts
<1>2. ~Stale => Replacement \in Seq(Rows) /\ Replacement # <<>>
  BY <1>1, ReplacementFacts DEF Sound
<1>3. ASSUME Apply PROVE Grows \/ Rewrites
  <2>1. CASE Stale
    BY <1>3, <2>1, HistoryGrows DEF Apply, Grows
  <2>2. CASE ~Stale
    <3>1. history' = Replacement
      BY <1>3, <2>2 DEF Apply, ReplaceWith
    <3> QED
      BY <1>2, <2>2, <3>1, Unextended DEF Rewrites
  <2> QED
    BY <2>1, <2>2
<1>4. ASSUME NEW t \in Turns, PreSummary(t) PROVE Grows \/ Rewrites
  <2> DEFINE row == Row("query", 0, 0, QueryImage[t], gen)
  <2>1. CASE ~Stale /\ history' = Append(Replacement, row)
    <3>1. row \in Rows
      BY <1>1, Images DEF Kinds, Rows, Row
    <3> HIDE DEF row
    <3>2. /\ Append(Replacement, row) \in Seq(Rows) /\ IsPrefix(Replacement, Append(Replacement, row))
          /\ Append(Replacement, row) # <<>>
      BY <1>2, <2>1, <3>1, Extends
    <3> QED
      BY <2>1, <3>2 DEF Rewrites
  <2>2. CASE AddQuery(t)
    <3>1. "query" \in Kinds
      BY DEF Kinds
    <3> QED
      BY <1>1, <2>2, <3>1, HistoryGrows DEF Grows
  <2> QED
    BY <1>4, <2>1, <2>2 DEF PreSummary, ReplaceWith, Append1
<1> QED
  BY <1>3, <1>4

LEMMA GrowsOrRewrites ==
  ASSUME CompactionInv, [Next]_vars, snap # <<>>, gen' = gen
  PROVE  Grows \/ Rewrites
<1>1. batches \in 0..MaxBatches /\ gen \in Nat /\ MaxBatches \in Nat
  BY CompactionAssumption DEF CompactionInv, SoundNow, Counts
<1>2. "query" \in Kinds /\ "answer" \in Kinds /\ "call" \in Kinds /\ 0 \in 0..MaxBatches
      /\ (batches < MaxBatches => batches + 1 \in 0..MaxBatches)
  BY <1>1 DEF Kinds
<1>3. ASSUME NEW t \in Turns, Turn(t) PROVE Grows \/ Rewrites
  <2>1. CASE BeginTurn(t)
    BY <1>2, <2>1, HistoryGrows DEF BeginTurn, Grows
  <2>2. CASE PreSummary(t)
    BY <2>2, SummaryRewrites
  <2>3. CASE MidSummary(t)
    BY <2>3, SummaryRewrites, HistoryGrows DEF MidSummary, Grows
  <2>4. CASE RecoverySummary(t)
    BY <1>2, <2>4, SummaryRewrites, HistoryGrows DEF RecoverySummary, Grows
  <2>5. CASE Answer(t)
    BY <1>2, <2>5, HistoryGrows DEF Answer, Grows
  <2>6. CASE CallTools(t)
    BY <1>2, <2>6, HistoryGrows DEF CallTools, Grows
  <2>7. CASE Results(t)
    BY <2>7, HistoryGrows DEF Results, Grows
  <2>8. CASE Overflow(t)
    BY <1>2, <2>8, HistoryGrows DEF Overflow, Recover, GiveUp, Grows
  <2>9. CASE EmptyFailed(t)
    BY <1>2, <2>9, HistoryGrows DEF EmptyFailed, Recover, GiveUp, Grows
  <2>10. CASE Finalize(t)
    BY <2>10, HistoryGrows DEF Finalize, Grows
  <2> QED
    BY <1>3, <2>1, <2>2, <2>3, <2>4, <2>5, <2>6, <2>7, <2>8, <2>9, <2>10 DEF Turn
<1>4. ASSUME NEW t \in Turns, Stop(t) PROVE Grows
  BY <1>4, HistoryGrows DEF Stop, Grows
<1>5. ASSUME NEW m \in Manuals, BeginManual(m) \/ ManualSummary(m) PROVE Grows \/ Rewrites
  BY <1>5, SummaryRewrites, HistoryGrows DEF BeginManual, ManualSummary, Grows
<1>6. ASSUME NEW j \in Jobs, Receive(j) PROVE Grows
  BY <1>6, HistoryGrows DEF Receive, Grows
<1>7. ~(Rehydrate \/ ClearHistory)
  <2>1. gen + 1 # gen
    BY <1>1
  <2> QED
    BY <2>1 DEF Rehydrate, ClearHistory
<1>8. CASE UNCHANGED vars
  BY <1>8, HistoryGrows DEF vars, Grows
<1> QED
  BY <1>3, <1>4, <1>5, <1>6, <1>7, <1>8 DEF Next

\* ConcurrentRowsSurvive (compact's current_messages[len(..):]): rows appended while a
\* summary is in flight are still there, in order, after any step but a clearing.
THEOREM SurvivalTheorem == Spec => ConcurrentRowsSurvive
<1> DEFINE Survive == snap # <<>> /\ IsPrefix(snap, history) /\ gen' = gen =>
              \/ IsPrefix(history, history')
              \/ \E i \in 1 .. Len(history') : IsPrefix(Appended, SubSeq(history', i, Len(history')))
<1>1. CompactionInv /\ [Next]_vars => Survive
  <2> SUFFICES ASSUME CompactionInv, [Next]_vars, snap # <<>>, gen' = gen
               PROVE  Grows \/ Follows(Appended, history')
    BY DEF Grows, Follows
  <2>1. ASSUME Rewrites PROVE Follows(Appended, history')
    <3>1. Replacement = Condensed \o Appended /\ Condensed \in Seq(Rows) /\ Appended \in Seq(Rows)
      BY <2>1, Ready, ReplacementFacts DEF Rewrites
    <3> QED
      BY <2>1, <3>1, FollowsFacts DEF Rewrites
  <2> QED
    BY <2>1, GrowsOrRewrites
<1>2. CompactionInv /\ [Next]_vars => [Survive]_vars
  BY <1>1
<1> QED
  BY <1>2, CompactionInvariant, PTL DEF Spec, ConcurrentRowsSurvive

=============================================================================
