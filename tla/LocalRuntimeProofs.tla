------------------------- MODULE LocalRuntimeProofs -------------------------
(***************************************************************************)
(* The safety of the parts of the local runtime, for any number of shells, *)
(* of requests about them and of characters they print, and for any number *)
(* of MCP calls, registration passes, clients, processes and launch keys.  *)
(***************************************************************************)
EXTENDS ShellProcesses, McpClients, DataFacts, FiniteSetTheorems

-----------------------------------------------------------------------------
(* ShellProcesses: buffers of chunks *)

Chunk == Nat \X Nat

\* The chunks of q are the characters from + 1 to `to`, in their order.
Covers(q, from, to) ==
  /\ q \in Seq(Chunk)
  /\ \A i \in DOMAIN q : /\ q[i][1] = IF i = 1 THEN from + 1 ELSE q[i - 1][2] + 1
                         /\ q[i][2] >= q[i][1]
  /\ IF q = <<>> THEN to = from ELSE q[Len(q)][2] = to

LEMMA SeqFacts ==
  ASSUME NEW q \in Seq(Chunk)
  PROVE  /\ Len(q) \in Nat /\ DOMAIN q = 1..Len(q) /\ (q = <<>> <=> Len(q) = 0)
         /\ \A i \in 1..Len(q) : q[i] \in Chunk /\ q[i][1] \in Nat /\ q[i][2] \in Nat
BY LenProperties, EmptySeq DEF Chunk

LEMMA CoversFacts ==
  ASSUME NEW from, NEW to, NEW q, Covers(q, from, to)
  PROVE  /\ \A i \in 1..Len(q) : /\ i = 1 => q[i][1] = from + 1
                                 /\ i # 1 => q[i][1] = q[i - 1][2] + 1
                                 /\ q[i][2] >= q[i][1]
         /\ q # <<>> => q[Len(q)][2] = to
<1>1. DOMAIN q = 1..Len(q)
  BY SeqFacts DEF Covers
<1> QED
  BY <1>1 DEF Covers

\* Partial sums, as TotalSize makes them.
Summing(q, f) ==
  f = [i \in 0..Len(q) |-> IF i = 0 THEN 0 ELSE f[i - 1] + Size(q[i])]

LEMMA TotalSizeFacts ==
  ASSUME NEW from \in Nat, NEW to \in Nat, NEW q, Covers(q, from, to)
  PROVE  TotalSize(q) = to - from
<1>1. /\ Len(q) \in Nat /\ DOMAIN q = 1..Len(q) /\ (q = <<>> <=> Len(q) = 0)
      /\ \A i \in 1..Len(q) : q[i] \in Chunk /\ q[i][1] \in Nat /\ q[i][2] \in Nat
  BY SeqFacts DEF Covers
\* The partial sums in closed form.
<1> DEFINE End(i) == IF i = 0 THEN from ELSE q[i][2]
           g == [i \in 0..Len(q) |-> End(i) - from]
           f == CHOOSE h : Summing(q, h)
<1>2. \A i \in 1..Len(q) : /\ i - 1 \in 0..Len(q) /\ End(i) \in Nat /\ End(i - 1) \in Nat
                           /\ Size(q[i]) = End(i) - End(i - 1)
  <2> SUFFICES ASSUME NEW i \in 1..Len(q)
               PROVE  /\ i - 1 \in 0..Len(q) /\ End(i) \in Nat /\ End(i - 1) \in Nat
                      /\ Size(q[i]) = End(i) - End(i - 1)
    OBVIOUS
  <2>1. i \in Nat /\ i # 0 /\ i - 1 \in 0..Len(q) /\ (i # 1 => i - 1 # 0 /\ i - 1 \in 1..Len(q))
    BY <1>1
  <2>2. q[i][1] \in Nat /\ q[i][2] \in Nat /\ Size(q[i]) = q[i][2] - q[i][1] + 1
    BY <1>1 DEF Size
  <2>3. q[i][1] = IF i = 1 THEN from + 1 ELSE q[i - 1][2] + 1
    BY <1>1 DEF Covers
  <2>4. End(i) = q[i][2] /\ End(i - 1) = IF i = 1 THEN from ELSE q[i - 1][2]
    BY <2>1
  <2>5. End(i - 1) \in Nat
    BY <1>1, <2>1, <2>4
  <2> HIDE DEF End
  <2> QED
    BY <2>1, <2>2, <2>3, <2>4, <2>5
<1>3. Summing(q, g)
  <2>1. ASSUME NEW i \in 0..Len(q) PROVE g[i] = IF i = 0 THEN 0 ELSE g[i - 1] + Size(q[i])
    <3>1. CASE i = 0
      BY <3>1
    <3>2. CASE i # 0
      <4>1. i \in 1..Len(q)
        BY <1>1, <3>2
      <4>2. g[i] = End(i) - from /\ g[i - 1] = End(i - 1) - from
        BY <1>2, <4>1
      <4> HIDE DEF g, End
      <4> QED
        BY <1>2, <3>2, <4>1, <4>2
    <3> QED
      BY <3>1, <3>2
  <2>2. g = [i \in 0..Len(q) |-> g[i]]
    OBVIOUS
  <2> HIDE DEF g
  <2> QED
    BY <2>1, <2>2 DEF Summing
<1>4. Summing(q, f)
  BY <1>3
<1>5. TotalSize(q) = f[Len(q)]
  BY DEF TotalSize, Summing
<1> HIDE DEF f, g
<1>6. ASSUME NEW m \in 0..Len(q) PROVE f[m] = End(m) - from
  <2> DEFINE T == {k \in 0..Len(q) : f[k] # End(k) - from}
  <2>1. SUFFICES ASSUME T # {} PROVE FALSE
    OBVIOUS
  <2>2. PICK k \in T : \A y \in T : k <= y
    <3>1. T \subseteq Nat
      BY <1>1
    <3> HIDE DEF T
    <3> QED
      BY <2>1, <3>1, LeastNat
  <2>3. k \in 0..Len(q) /\ f[k] # End(k) - from
    OBVIOUS
  <2>4. f[k] = IF k = 0 THEN 0 ELSE f[k - 1] + Size(q[k])
    BY <1>4, <2>3 DEF Summing
  <2>5. k # 0
    BY <2>3, <2>4
  <2>6. k \in 1..Len(q) /\ k - 1 \in 0..Len(q) /\ ~(k <= k - 1)
    BY <1>1, <2>3, <2>5
  <2>7. f[k - 1] = End(k - 1) - from
    BY <2>2, <2>6
  <2> HIDE DEF End
  <2> QED
    BY <1>2, <2>3, <2>4, <2>5, <2>6, <2>7
<1>7. f[Len(q)] = End(Len(q)) - from
  BY <1>1, <1>6
<1> QED
  BY <1>1, <1>5, <1>7 DEF Covers

LEMMA CoversMore ==
  ASSUME NEW from \in Nat, NEW to \in Nat, NEW q, Covers(q, from, to), NEW n \in Nat \ {0}
  PROVE  Covers(q \o << <<to + 1, to + n>> >>, from, to + n)
<1> DEFINE last == << <<to + 1, to + n>> >>
           w == q \o last
<1>1. /\ Len(q) \in Nat /\ DOMAIN q = 1..Len(q) /\ (q = <<>> <=> Len(q) = 0)
      /\ \A i \in 1..Len(q) : q[i] \in Chunk /\ q[i][1] \in Nat /\ q[i][2] \in Nat
      /\ q \in Seq(Chunk)
  BY SeqFacts DEF Covers
<1>2. last \in Seq(Chunk) /\ Len(last) = 1 /\ last[1] = <<to + 1, to + n>>
  BY DEF Chunk
<1> HIDE DEF last
<1>3. /\ w \in Seq(Chunk) /\ Len(w) = Len(q) + 1
      /\ \A i \in 1..Len(q) : w[i] = q[i]
      /\ w[Len(q) + 1] = <<to + 1, to + n>>
  <2>0. q \in Seq(Chunk) /\ last \in Seq(Chunk)
    BY <1>1, <1>2
  <2>1. /\ q \o last \in Seq(Chunk) /\ Len(q \o last) = Len(q) + Len(last)
        /\ \A i \in 1..Len(q) : (q \o last)[i] = q[i]
        /\ \A i \in 1..Len(last) : (q \o last)[Len(q) + i] = last[i]
    BY <2>0, ConcatFacts
  <2>2. 1 \in 1..Len(last)
    BY <1>2
  <2> QED
    BY <1>2, <2>1, <2>2
<1> HIDE DEF w
<1>4. DOMAIN w = 1..(Len(q) + 1) /\ w # <<>>
  BY <1>1, <1>3, SeqFacts
<1>5. ASSUME NEW i \in 1..(Len(q) + 1)
      PROVE  /\ w[i][1] = IF i = 1 THEN from + 1 ELSE w[i - 1][2] + 1
             /\ w[i][2] >= w[i][1]
  <2>1. CASE i <= Len(q)
    <3>1. i \in 1..Len(q) /\ (i # 1 => i - 1 \in 1..Len(q))
      BY <1>1, <2>1
    <3> QED
      BY <1>1, <1>3, <3>1 DEF Covers
  <2>2. CASE i = Len(q) + 1
    <3>1. i # 1 => q # <<>> /\ i - 1 = Len(q) /\ i - 1 \in 1..Len(q)
      BY <1>1, <2>2
    <3>2. i = 1 => q = <<>>
      BY <1>1, <2>2
    <3> QED
      BY <1>1, <1>3, <2>2, <3>1, <3>2 DEF Covers
  <2> QED
    BY <1>1, <2>1, <2>2
<1>6. w[Len(w)][2] = to + n
  BY <1>3
<1> QED
  BY <1>3, <1>4, <1>5, <1>6 DEF Covers, w, last

\* The chunks from the k-th on, the first of them cut to begin after `at`.
LEMMA CoversCut ==
  ASSUME NEW from \in Nat, NEW to \in Nat, NEW q, Covers(q, from, to),
         NEW k \in 1..Len(q), NEW at \in Nat, at + 1 <= q[k][2]
  PROVE  Covers(<< <<at + 1, q[k][2]>> >> \o SubSeq(q, k + 1, Len(q)), at, to)
<1> DEFINE first == << <<at + 1, q[k][2]>> >>
           rest == SubSeq(q, k + 1, Len(q))
           w == first \o rest
<1>1. /\ Len(q) \in Nat /\ DOMAIN q = 1..Len(q) /\ q # <<>> /\ q[Len(q)][2] = to
      /\ \A i \in 1..Len(q) : q[i] \in Chunk /\ q[i][1] \in Nat /\ q[i][2] \in Nat
      /\ q \in Seq(Chunk)
  BY SeqFacts DEF Covers
<1>n. Len(q) \in Nat /\ k \in Nat /\ 1 <= k /\ k <= Len(q)
  BY <1>1
<1>2. first \in Seq(Chunk) /\ Len(first) = 1 /\ first[1] = <<at + 1, q[k][2]>>
  BY <1>1 DEF Chunk
<1>3. /\ rest \in Seq(Chunk) /\ Len(rest) = Len(q) - k
      /\ \A i \in 1..(Len(q) - k) : rest[i] = q[k + i]
  <2>1. k + 1 \in Int /\ Len(q) \in Int /\ \A i \in (k + 1)..Len(q) : q[i] \in Chunk
    BY <1>1
  <2>2. /\ rest \in Seq(Chunk)
        /\ Len(rest) = IF k + 1 <= Len(q) THEN Len(q) - (k + 1) + 1 ELSE 0
        /\ \A i \in 1..(Len(q) - (k + 1) + 1) : rest[i] = q[(k + 1) + i - 1]
    BY <2>1, SubSeqProperties
  <2> HIDE DEF rest
  <2>3. Len(q) - (k + 1) + 1 = Len(q) - k /\ (~(k + 1 <= Len(q)) => Len(q) - k = 0)
    BY <1>n
  <2>4. \A i \in 1..(Len(q) - k) : (k + 1) + i - 1 = k + i
    BY <1>n
  <2> QED
    BY <2>2, <2>3, <2>4
<1> HIDE DEF first, rest
<1>4. /\ w \in Seq(Chunk) /\ Len(w) = 1 + (Len(q) - k)
      /\ w[1] = <<at + 1, q[k][2]>>
      /\ \A i \in 1..(Len(q) - k) : w[1 + i] = q[k + i]
  <2>0. first \in Seq(Chunk) /\ rest \in Seq(Chunk)
    BY <1>2, <1>3
  <2>1. /\ first \o rest \in Seq(Chunk) /\ Len(first \o rest) = Len(first) + Len(rest)
        /\ \A i \in 1..Len(first) : (first \o rest)[i] = first[i]
        /\ \A i \in 1..Len(rest) : (first \o rest)[Len(first) + i] = rest[i]
    BY <2>0, ConcatFacts
  <2>2. 1 \in 1..Len(first)
    BY <1>2
  <2> QED
    BY <1>2, <1>3, <2>1, <2>2
<1> HIDE DEF w
<1>5. DOMAIN w = 1..(1 + (Len(q) - k)) /\ w # <<>>
  BY <1>1, <1>4, SeqFacts
<1>6. ASSUME NEW i \in 1..(1 + (Len(q) - k))
      PROVE  /\ w[i][1] = IF i = 1 THEN at + 1 ELSE w[i - 1][2] + 1
             /\ w[i][2] >= w[i][1]
  <2>1. CASE i = 1
    BY <1>1, <1>4, <2>1
  <2>2. CASE i # 1
    <3>1. /\ i - 1 \in 1..(Len(q) - k) /\ 1 + (i - 1) = i
          /\ k + (i - 1) \in 1..Len(q) /\ k + (i - 1) # 1
      BY <1>n, <2>2
    <3>2. w[i] = q[k + (i - 1)]
      BY <1>4, <3>1
    <3>3. w[i - 1][2] = q[k + (i - 1) - 1][2]
      <4>1. CASE i = 2
        <5>1. i - 1 = 1 /\ k + (i - 1) - 1 = k
          BY <1>n, <4>1
        <5> QED
          BY <1>4, <5>1
      <4>2. CASE i # 2
        <5>1. /\ i - 2 \in 1..(Len(q) - k) /\ 1 + (i - 2) = i - 1
              /\ k + (i - 2) = k + (i - 1) - 1
          BY <1>n, <2>2, <4>2
        <5> QED
          BY <1>4, <5>1
      <4> QED
        BY <4>1, <4>2
    <3>4. /\ q[k + (i - 1)][1] = q[k + (i - 1) - 1][2] + 1
          /\ q[k + (i - 1)][2] >= q[k + (i - 1)][1]
      <4>1. \A j \in 1..Len(q) : /\ j # 1 => q[j][1] = q[j - 1][2] + 1
                                 /\ q[j][2] >= q[j][1]
        BY CoversFacts
      <4> HIDE DEF w, first, rest
      <4> QED
        BY <3>1, <4>1
    <3> QED
      BY <2>2, <3>2, <3>3, <3>4
  <2> QED
    BY <2>1, <2>2
<1>7. w[Len(w)][2] = to
  <2>1. CASE k = Len(q)
    BY <1>1, <1>4, <2>1
  <2>2. CASE k # Len(q)
    <3>0. Len(q) - k \in 1..(Len(q) - k) /\ k + (Len(q) - k) = Len(q)
      BY <1>n, <2>2
    <3>1. /\ Len(q) - k \in 1..(Len(q) - k) /\ k + (Len(q) - k) = Len(q)
          /\ 1 + (Len(q) - k) = Len(w)
      BY <1>4, <3>0
    <3>2. w[1 + (Len(q) - k)] = q[k + (Len(q) - k)]
      BY <1>4, <3>1
    <3> QED
      BY <1>1, <3>1, <3>2
  <2> QED
    BY <2>1, <2>2
<1> QED
  BY <1>4, <1>5, <1>6, <1>7 DEF Covers, w, first, rest

\* The chunks from the k-th on.
LEMMA CoversFrom ==
  ASSUME NEW from \in Nat, NEW to \in Nat, NEW q, Covers(q, from, to), NEW k \in 1..Len(q)
  PROVE  /\ q[k][1] \in Nat /\ q[k][1] >= 1 /\ q[k][1] - 1 \in Nat
         /\ Covers(SubSeq(q, k, Len(q)), q[k][1] - 1, to)
<1> DEFINE w == SubSeq(q, k, Len(q))
<1>1. /\ Len(q) \in Nat /\ DOMAIN q = 1..Len(q) /\ q # <<>> /\ q[Len(q)][2] = to
      /\ \A i \in 1..Len(q) : q[i] \in Chunk /\ q[i][1] \in Nat /\ q[i][2] \in Nat
      /\ q \in Seq(Chunk)
  BY SeqFacts DEF Covers
<1>n. Len(q) \in Nat /\ k \in Nat /\ 1 <= k /\ k <= Len(q)
  BY <1>1
<1>2. /\ w \in Seq(Chunk) /\ Len(w) = Len(q) - k + 1
      /\ \A i \in 1..(Len(q) - k + 1) : w[i] = q[k + i - 1]
  <2>1. k \in Int /\ Len(q) \in Int /\ k <= Len(q) /\ \A i \in k..Len(q) : q[i] \in Chunk
    BY <1>1, <1>n
  <2> QED
    BY <2>1, SubSeqProperties
<1> HIDE DEF w
<1>3. DOMAIN w = 1..(Len(q) - k + 1) /\ w # <<>>
  <2>1. Len(q) - k + 1 # 0
    BY <1>n
  <2> QED
    BY <1>2, <2>1, SeqFacts
<1>4. q[k][1] \in Nat /\ q[k][1] >= 1
  <2>1. CASE k = 1
    BY <1>1, <1>n, <2>1 DEF Covers
  <2>2. CASE k # 1
    <3>1. k - 1 \in 1..Len(q)
      BY <1>n, <2>2
    <3>2. q[k][1] = q[k - 1][2] + 1
      BY <2>2, CoversFacts
    <3>3. q[k - 1][2] \in Nat
      BY <1>1, <3>1
    <3> QED
      BY <3>2, <3>3
  <2> QED
    BY <2>1, <2>2
<1>5. ASSUME NEW i \in 1..(Len(q) - k + 1)
      PROVE  /\ w[i][1] = IF i = 1 THEN (q[k][1] - 1) + 1 ELSE w[i - 1][2] + 1
             /\ w[i][2] >= w[i][1]
  <2>1. k + i - 1 \in 1..Len(q)
    BY <1>n
  <2>2. w[i] = q[k + i - 1] /\ w[i][2] >= w[i][1]
    BY <1>1, <1>2, <2>1 DEF Covers
  <2>3. CASE i = 1
    <3>1. k + i - 1 = k
      BY <1>n, <2>3
    <3> QED
      BY <1>4, <2>2, <2>3, <3>1
  <2>4. CASE i # 1
    <3>1. /\ i - 1 \in 1..(Len(q) - k + 1) /\ k + (i - 1) - 1 = (k + i - 1) - 1
          /\ k + i - 1 # 1
      BY <1>n, <2>4
    <3>2. w[i - 1] = q[(k + i - 1) - 1]
      BY <1>2, <3>1
    <3>3. q[k + i - 1][1] = q[(k + i - 1) - 1][2] + 1
      BY <1>1, <2>1, <3>1 DEF Covers
    <3> QED
      BY <2>2, <2>4, <3>2, <3>3
  <2> QED
    BY <2>3, <2>4
<1>6. w[Len(w)][2] = to
  <2>1. /\ Len(w) \in 1..(Len(q) - k + 1) /\ k + Len(w) - 1 = Len(q)
    BY <1>n, <1>2
  <2>2. w[Len(w)] = q[k + Len(w) - 1]
    BY <1>2, <2>1
  <2> QED
    BY <1>1, <2>1, <2>2
<1>7. Covers(w, q[k][1] - 1, to)
  BY <1>2, <1>3, <1>5, <1>6 DEF Covers
<1> QED
  BY <1>4, <1>7 DEF w

\* _cap_pending_buffer keeps the last cap characters of what is longer.
LEMMA CapFacts ==
  ASSUME NEW from \in Nat, NEW to \in Nat, NEW q, Covers(q, from, to),
         NEW cap \in Nat \ {0}, to - from > cap
  PROVE  Covers(CapPendingBuffer(q, cap), to - cap, to)
<1> DEFINE Rest(i) == TotalSize(SubSeq(q, i, Len(q)))
           K == {i \in DOMAIN q : Rest(i) >= cap}
<1>1. /\ Len(q) \in Nat /\ DOMAIN q = 1..Len(q) /\ q # <<>> /\ q[Len(q)][2] = to /\ Len(q) >= 1
      /\ \A i \in 1..Len(q) : q[i] \in Chunk /\ q[i][1] \in Nat /\ q[i][2] \in Nat
      /\ q \in Seq(Chunk)
  BY SeqFacts DEF Covers
<1>2. ASSUME NEW i \in 1..Len(q) PROVE Rest(i) = to - q[i][1] + 1 /\ q[i][1] >= 1
  <2>1. /\ q[i][1] \in Nat /\ q[i][1] >= 1 /\ q[i][1] - 1 \in Nat
        /\ Covers(SubSeq(q, i, Len(q)), q[i][1] - 1, to)
    BY CoversFrom
  <2>2. Rest(i) = to - (q[i][1] - 1)
    BY <2>1, TotalSizeFacts
  <2> HIDE DEF Rest
  <2> QED
    BY <2>1, <2>2
<1> HIDE DEF Rest
<1>3. 1 \in K
  <2>1. 1 \in 1..Len(q) /\ q[1][1] = from + 1
    BY <1>1 DEF Covers
  <2> QED
    BY <1>1, <1>2, <2>1
<1>4. Max(K) \in K /\ \A i \in K : Max(K) >= i
  <2>1. K \subseteq Nat /\ \A i \in K : i <= Len(q)
    BY <1>1
  <2> HIDE DEF K
  <2>2. \E x \in K : \A y \in K : y <= x
    BY <1>1, <1>3, <2>1, GreatestNat
  <2>3. \E x \in K : \A y \in K : x >= y
    BY <2>1, <2>2
  <2> QED
    BY <2>3 DEF Max
<1> DEFINE keep == Max(K)
<1>5. keep \in 1..Len(q) /\ Rest(keep) >= cap
  BY <1>1, <1>4
<1>6. keep + 1 \in 1..Len(q) => ~(Rest(keep + 1) >= cap)
  <2>1. keep + 1 \in K => FALSE
    <3> HIDE DEF K
    <3>1. keep \in Nat
      BY <1>5
    <3> QED
      BY <1>4, <3>1
  <2> QED
    BY <1>1, <2>1
<1>7. CapPendingBuffer(q, cap) = << <<q[keep][1] + Rest(keep) - cap, q[keep][2]>> >> \o SubSeq(q, keep + 1, Len(q))
  BY DEF CapPendingBuffer, Rest
<1> HIDE DEF K, keep
<1>8. q[keep][1] + Rest(keep) - cap = (to - cap) + 1 /\ to - cap \in Nat
  BY <1>1, <1>2, <1>5
<1>9. (to - cap) + 1 <= q[keep][2]
  <2>1. CASE keep = Len(q)
    BY <1>1, <2>1
  <2>2. CASE keep # Len(q)
    <3>1. keep + 1 \in 1..Len(q) /\ keep + 1 # 1 /\ (keep + 1) - 1 = keep
      <4>1. Len(q) \in Nat /\ keep \in 1..Len(q)
        BY <1>1, <1>5
      <4> QED
        BY <2>2, <4>1
    <3>2. q[keep + 1][1] = q[keep][2] + 1
      BY <1>1, <3>1 DEF Covers
    <3>3. Rest(keep + 1) = to - q[keep + 1][1] + 1 /\ ~(Rest(keep + 1) >= cap)
      BY <1>2, <1>6, <3>1
    <3> QED
      BY <1>1, <1>5, <3>1, <3>2, <3>3
  <2> QED
    BY <2>1, <2>2
<1> QED
  BY <1>5, <1>7, <1>8, <1>9, CoversCut

-----------------------------------------------------------------------------
(* ShellProcesses: the inductive invariant *)

Requested == {"yield"} \cup Killers
Places == {"wait", "sigterm", "sigkill", "join", "forget"}

CallTypes ==
  /\ call \in [Callers -> [op : {"none"} \cup Requested, at : {"idle"} \cup Places, on : SUBSET Shells]]
  /\ \A c \in Callers : \/ call[c] = Idle
                        \/ /\ call[c].op \in Requested /\ call[c].at \in Places
                           /\ \E s \in Shells : call[c].on = {s}

Types ==
  /\ child \in [Shells -> {"new", "up"} \cup ExitCodes]
  /\ printed \in [Shells -> 0..MaxPrinted] /\ read \in [Shells -> Nat]
  /\ pendingOut \in [Shells -> Seq(Chunk)] /\ truncated \in [Shells -> BOOLEAN]
  /\ reader \in [Shells -> {"none", "reading", "eof", "cancelled"}]
  /\ waiter \in [Shells -> {"none", "process", "drain", "done", "cancelled"}]
  /\ background \in [Shells -> BOOLEAN] /\ exited \in [Shells -> BOOLEAN]
  /\ running \subseteq Shells
  /\ finished \in [Shells -> {"absent", "completed", "failed"}]
  /\ kept \in [Shells -> 0..MaxPrinted] /\ shown \in [Shells -> Nat]
  /\ CallTypes

\* Where the output of s that a poll will return begins.
From(s) == IF shown[s] >= read[s] - PendingCap THEN shown[s] ELSE read[s] - PendingCap

Output(s) ==
  /\ shown[s] <= read[s] /\ read[s] <= printed[s]
  /\ Covers(pendingOut[s], From(s), read[s])
  /\ read[s] - shown[s] > PendingCap \/ read[s] > AggregatedCap => truncated[s]
  /\ truncated[s] => read[s] > PendingCap

\* A process, its reader and its wait task agree with the registries.
Life(s) ==
  /\ child[s] = "new" =>
       /\ waiter[s] = "none" /\ reader[s] = "none" /\ ~background[s] /\ ~exited[s]
       /\ s \notin running /\ finished[s] = "absent"
  /\ child[s] # "new" => waiter[s] # "none" /\ reader[s] # "none"
  /\ child[s] = "new" \/ Waiting(s) \/ reader[s] \in {"eof", "cancelled"}
  /\ reader[s] = "eof" => read[s] = printed[s]
  /\ Waiting(s) => s \in running
  /\ waiter[s] = "done" => exited[s]
  /\ exited[s] => ~Waiting(s)
  /\ s \in running => ~exited[s]
  /\ finished[s] # "absent" => exited[s]
  /\ finished[s] # "absent" /\ reader[s] # "cancelled" => kept[s] = printed[s]
  /\ finished[s] = "completed" => child[s] = "zero"
  \* Only a removal takes the wait task away before the registry entry.
  /\ s \in running /\ ~Waiting(s) => \E c \in Callers : At(c, {"remove"}, "forget", s)

\* What the place of a request implies.
Called(s) ==
  /\ \A c \in Callers : call[c].on = {s} =>
       /\ child[s] # "new"
       /\ call[c].at = "forget" => call[c].op = "remove" /\ ~Waiting(s)
       /\ call[c].at = "join" => call[c].op # "remove"
       /\ call[c].op = "foreground" => ~background[s]
  /\ \A c, d \in Callers :
       /\ call[c].on = {s} /\ call[d].on = {s}
       /\ {call[c].op, call[d].op} \subseteq {"yield", "foreground"}
       => c = d

ShellInv == Types /\ \A s \in Shells : Output(s) /\ Life(s) /\ Called(s)

-----------------------------------------------------------------------------
(* Steps *)

\* Nothing about t changes but the requests.
Same(t) ==
  /\ child'[t] = child[t] /\ printed'[t] = printed[t] /\ read'[t] = read[t]
  /\ pendingOut'[t] = pendingOut[t] /\ truncated'[t] = truncated[t] /\ shown'[t] = shown[t]
  /\ reader'[t] = reader[t] /\ waiter'[t] = waiter[t] /\ background'[t] = background[t]
  /\ exited'[t] = exited[t] /\ (t \in running' <=> t \in running)
  /\ finished'[t] = finished[t] /\ kept'[t] = kept[t]

SameOutput(s) ==
  /\ printed'[s] = printed[s] /\ read'[s] = read[s] /\ pendingOut'[s] = pendingOut[s]
  /\ truncated'[s] = truncated[s] /\ shown'[s] = shown[s]

LEMMA OutputKept ==
  ASSUME NEW s, Output(s), SameOutput(s)
  PROVE  Output(s)'
BY DEF Output, SameOutput, From

\* A step about one session, by at most one request.
LEMMA SessionStep ==
  ASSUME ShellInv, NEW s \in Shells, Types', Output(s)', Life(s)', Called(s)',
         \A t \in Shells \ {s} : Same(t),
         \/ call' = call
         \/ \E c \in Callers : /\ \A d \in Callers \ {c} : call'[d] = call[d]
                               /\ call[c].on \subseteq {s} /\ call'[c].on \subseteq {s}
  PROVE  ShellInv'
<1>1. ASSUME NEW t \in Shells \ {s}
      PROVE  Output(t)' /\ Life(t)' /\ Called(t)'
  <2>1. Same(t) /\ Output(t) /\ Life(t) /\ Called(t)
    BY DEF ShellInv
  <2>2. \A d \in Callers : (call'[d].on = {t} \/ call[d].on = {t}) => call'[d] = call[d]
    OBVIOUS
  <2>3. Output(t)'
    BY <2>1, OutputKept DEF Same, SameOutput
  <2>4. Life(t)'
    BY <2>1, <2>2 DEF Same, Life, Waiting, At
  <2>5. Called(t)'
    BY <2>1, <2>2 DEF Same, Called, Waiting
  <2> QED
    BY <2>3, <2>4, <2>5
<1> QED
  BY <1>1 DEF ShellInv

LEMMA IdleFacts ==
  /\ Idle.op = "none" /\ Idle.at = "idle" /\ Idle.on = {}
  /\ Idle \in [op : {"none"} \cup Requested, at : {"idle"} \cup Places, on : SUBSET Shells]
BY DEF Idle

\* How a caller's request changes.
LEMMA CallFacts ==
  ASSUME CallTypes, NEW c \in Callers, NEW s \in Shells, NEW op, NEW at
  PROVE  /\ Return(c) =>
              /\ CallTypes' /\ call'[c] = Idle /\ call'[c].on = {} /\ call'[c].op = "none" /\ call'[c].at = "idle"
              /\ \A d \in Callers \ {c} : call'[d] = call[d]
         /\ Goto(c, op, at, s) /\ op \in Requested /\ at \in Places =>
              /\ CallTypes' /\ call'[c].op = op /\ call'[c].at = at /\ call'[c].on = {s}
              /\ \A d \in Callers \ {c} : call'[d] = call[d]
<1>1. Idle \in [op : {"none"} \cup Requested, at : {"idle"} \cup Places, on : SUBSET Shells]
  BY IdleFacts
<1>2. ASSUME Return(c)
      PROVE  /\ CallTypes' /\ call'[c] = Idle
             /\ \A d \in Callers \ {c} : call'[d] = call[d]
  <2>1. /\ call' \in [Callers -> [op : {"none"} \cup Requested, at : {"idle"} \cup Places, on : SUBSET Shells]]
        /\ call'[c] = Idle /\ \A d \in Callers \ {c} : call'[d] = call[d]
    BY <1>1, <1>2 DEF CallTypes, Return
  <2> QED
    BY <2>1 DEF CallTypes
<1>3. ASSUME Goto(c, op, at, s), op \in Requested, at \in Places
      PROVE  /\ CallTypes' /\ call'[c].op = op /\ call'[c].at = at /\ call'[c].on = {s}
             /\ \A d \in Callers \ {c} : call'[d] = call[d]
  <2>1. /\ call' \in [Callers -> [op : {"none"} \cup Requested, at : {"idle"} \cup Places, on : SUBSET Shells]]
        /\ call'[c].op = op /\ call'[c].at = at /\ call'[c].on = {s}
        /\ \A d \in Callers \ {c} : call'[d] = call[d]
    BY <1>3 DEF CallTypes, Goto
  <2> QED
    BY <1>3, <2>1 DEF CallTypes
<1> QED
  BY <1>2, <1>3, IdleFacts

LEMMA AppendFacts ==
  ASSUME ShellInv, NEW s \in Shells, NEW n \in 1..(printed[s] - read[s]), AppendOutput(s, n),
         UNCHANGED <<printed, shown>>
  PROVE  /\ read' \in [Shells -> Nat] /\ pendingOut' \in [Shells -> Seq(Chunk)]
         /\ truncated' \in [Shells -> BOOLEAN] /\ Output(s)'
         /\ \A t \in Shells \ {s} : SameOutput(t)
<1> DEFINE r == read[s]
           f == From(s)
           buffer == pendingOut[s] \o << <<r + 1, r + n>> >>
           over == TotalSize(buffer) > PendingCap
           trimmed == Shorter(r, AggregatedCap) + n > AggregatedCap
           kept2 == IF over THEN CapPendingBuffer(buffer, PendingCap) ELSE buffer
<1>1. /\ Types /\ Output(s) /\ r \in Nat /\ shown[s] \in Nat /\ printed[s] \in Nat /\ n \in Nat \ {0}
      /\ PendingCap \in Nat \ {0} /\ AggregatedCap \in Nat /\ PendingCap <= AggregatedCap
      /\ r + n <= printed[s] /\ shown[s] <= r
      /\ Covers(pendingOut[s], f, r)
      /\ r - shown[s] > PendingCap \/ r > AggregatedCap => truncated[s]
      /\ truncated[s] => r > PendingCap
      /\ truncated[s] \in BOOLEAN
  BY ShellAssumption DEF ShellInv, Types, Output
<1>2. /\ f = IF shown[s] >= r - PendingCap THEN shown[s] ELSE r - PendingCap
      /\ f \in Nat
  BY <1>1 DEF From
<1>3. /\ read' = [read EXCEPT ![s] = r + n]
      /\ pendingOut' = [pendingOut EXCEPT ![s] = kept2]
      /\ truncated' = [truncated EXCEPT ![s] = truncated[s] \/ over \/ trimmed]
  BY DEF AppendOutput
<1>3a. buffer = pendingOut[s] \o << <<r + 1, r + n>> >>
  OBVIOUS
<1> HIDE DEF r, f, buffer
<1>4. Covers(buffer, f, r + n) /\ r + n \in Nat
  <2>1. f \in Nat /\ r \in Nat /\ n \in Nat \ {0} /\ Covers(pendingOut[s], f, r)
    BY <1>1, <1>2
  <2>2. Covers(pendingOut[s] \o << <<r + 1, r + n>> >>, f, r + n)
    BY <2>1, CoversMore
  <2> QED
    BY <1>3a, <2>1, <2>2
<1>5. TotalSize(buffer) = (r + n) - f
  BY <1>2, <1>4, TotalSizeFacts
<1>6. over <=> (r + n) - f > PendingCap
  BY <1>5
<1>7. trimmed => r + n > AggregatedCap
  BY <1>1 DEF Shorter
<1>8. r <= AggregatedCap /\ r + n > AggregatedCap => trimmed
  BY <1>1 DEF Shorter
<1> DEFINE g == IF shown[s] >= (r + n) - PendingCap THEN shown[s] ELSE (r + n) - PendingCap
<1>9. g = IF over THEN (r + n) - PendingCap ELSE f
  BY <1>1, <1>2, <1>6
<1> HIDE DEF over, trimmed
<1>10. Covers(kept2, g, r + n)
  <2>1. CASE over
    <3>1. Covers(CapPendingBuffer(buffer, PendingCap), (r + n) - PendingCap, r + n)
      BY <1>1, <1>2, <1>4, <1>6, <2>1, CapFacts
    <3> QED
      BY <1>9, <2>1, <3>1
  <2>2. CASE ~over
    BY <1>4, <1>9, <2>2
  <2> QED
    BY <2>1, <2>2
<1>11. kept2 \in Seq(Chunk)
  BY <1>10 DEF Covers
<1> HIDE DEF kept2
<1> DEFINE cut == truncated[s] \/ over \/ trimmed
<1>12. /\ (r + n) - shown[s] > PendingCap \/ r + n > AggregatedCap => cut
       /\ cut => r + n > PendingCap
       /\ cut \in BOOLEAN
  <2>1. (r + n) - shown[s] > PendingCap => cut
    BY <1>1, <1>2, <1>6
  <2>2. r + n > AggregatedCap => cut
    BY <1>1, <1>8
  <2>3. cut => r + n > PendingCap
    BY <1>1, <1>2, <1>6, <1>7
  <2>4. over \in BOOLEAN /\ trimmed \in BOOLEAN
    BY DEF over, trimmed
  <2> QED
    BY <1>1, <2>1, <2>2, <2>3, <2>4
<1>13. truncated' = [truncated EXCEPT ![s] = cut]
  BY <1>3
<1> HIDE DEF cut
<1>14. /\ read' \in [Shells -> Nat] /\ read'[s] = r + n /\ \A t \in Shells \ {s} : read'[t] = read[t]
       /\ pendingOut' \in [Shells -> Seq(Chunk)] /\ pendingOut'[s] = kept2
       /\ \A t \in Shells \ {s} : pendingOut'[t] = pendingOut[t]
       /\ truncated' \in [Shells -> BOOLEAN] /\ truncated'[s] = cut
       /\ \A t \in Shells \ {s} : truncated'[t] = truncated[t]
  BY <1>1, <1>3, <1>4, <1>11, <1>12, <1>13 DEF Types
<1>15. From(s)' = g
  BY <1>14 DEF From
<1> HIDE DEF g
<1>16. Output(s)'
  BY <1>1, <1>10, <1>12, <1>14, <1>15 DEF Output
<1> QED
  BY <1>14, <1>16 DEF SameOutput

LEMMA OutputSteps ==
  ASSUME ShellInv, NEW s \in Shells, PrintChar(s) \/ ReadStream(s) \/ ReadEof(s) \/ Exit(s)
  PROVE  ShellInv'
<1>0. Types /\ Output(s) /\ Life(s) /\ Called(s) /\ call' = call
  BY DEF ShellInv, PrintChar, ReadStream, ReadEof, Exit
<1>1. CASE PrintChar(s)
  <2>1. /\ reader[s] = "reading" /\ printed[s] < MaxPrinted /\ printed' = [printed EXCEPT ![s] = @ + 1]
        /\ UNCHANGED <<child, read, pendingOut, truncated, shown, reader, waiter, background,
                       exited, running, finished, kept, call>>
    BY <1>1 DEF PrintChar
  <2>2. Types'
    BY <1>0, <2>1, ShellAssumption DEF Types, CallTypes
  <2>3. printed'[s] = printed[s] + 1 /\ \A t \in Shells \ {s} : Same(t)
    BY <1>0, <2>1 DEF Types, Same
  <2>4. Output(s)'
    BY <1>0, <2>1, <2>3 DEF Output, From, Types
  <2>5. Life(s)' /\ Called(s)'
    BY <1>0, <2>1, <2>3 DEF Life, Called, Waiting, At
  <2> QED
    BY <1>0, <2>2, <2>3, <2>4, <2>5, SessionStep
<1>2. CASE ReadStream(s)
  <2>1. PICK n \in 1..(printed[s] - read[s]) : AppendOutput(s, n)
    BY <1>2 DEF ReadStream
  <2>2. /\ reader[s] = "reading"
        /\ UNCHANGED <<child, printed, shown, reader, waiter, background, exited, running,
                       finished, kept, call>>
    BY <1>2 DEF ReadStream
  <2>3. /\ read' \in [Shells -> Nat] /\ pendingOut' \in [Shells -> Seq(Chunk)]
        /\ truncated' \in [Shells -> BOOLEAN] /\ Output(s)'
        /\ \A t \in Shells \ {s} : SameOutput(t)
    BY <2>1, <2>2, AppendFacts
  <2>4. Types'
    BY <1>0, <2>2, <2>3 DEF Types, CallTypes
  <2>5. \A t \in Shells \ {s} : Same(t)
    BY <2>2, <2>3 DEF Same, SameOutput
  <2>6. Life(s)' /\ Called(s)'
    <3>1. finished[s] = "absent" \/ kept[s] = printed[s]
      BY <1>0, <2>2 DEF Life
    <3> QED
      BY <1>0, <2>2, <3>1 DEF Life, Called, Waiting, At
  <2> QED
    BY <1>0, <2>3, <2>4, <2>5, <2>6, SessionStep
<1>3. CASE ReadEof(s)
  <2>1. /\ reader[s] = "reading" /\ read[s] = printed[s] /\ child[s] \in ExitCodes
        /\ reader' = [reader EXCEPT ![s] = "eof"]
        /\ UNCHANGED <<child, output, waiter, background, exited, running, finished, kept, call>>
    BY <1>3 DEF ReadEof
  <2>2. Types'
    BY <1>0, <2>1 DEF Types, CallTypes, output
  <2>3. reader'[s] = "eof" /\ \A t \in Shells \ {s} : Same(t)
    BY <1>0, <2>1 DEF Types, Same, output
  <2>4. Output(s)'
    BY <1>0, <2>1, OutputKept DEF SameOutput, output
  <2>5. Life(s)' /\ Called(s)'
    BY <1>0, <2>1, <2>3 DEF Life, Called, Waiting, At, output
  <2> QED
    BY <1>0, <2>2, <2>3, <2>4, <2>5, SessionStep
<1>4. CASE Exit(s)
  <2>1. PICK code \in ExitCodes : child' = [child EXCEPT ![s] = code]
    BY <1>4 DEF Exit
  <2>2. /\ child[s] = "up"
        /\ UNCHANGED <<output, reader, waiter, background, exited, running, finished, kept, call>>
    BY <1>4 DEF Exit
  <2>3. Types'
    BY <1>0, <2>1, <2>2 DEF Types, CallTypes, output
  <2>4. child'[s] \in ExitCodes /\ \A t \in Shells \ {s} : Same(t)
    BY <1>0, <2>1, <2>2 DEF Types, Same, output
  <2>5. Output(s)'
    BY <1>0, <2>2, OutputKept DEF SameOutput, output
  <2>6. Life(s)' /\ Called(s)'
    BY <1>0, <2>2, <2>4 DEF Life, Called, Waiting, At, output, ExitCodes
  <2> QED
    BY <1>0, <2>3, <2>4, <2>5, <2>6, SessionStep
<1> QED
  BY <1>1, <1>2, <1>3, <1>4

-----------------------------------------------------------------------------
(* The wait task *)

\* What MarkExited leaves in the registries, for a session without a wait task.
LEMMA MarkFacts ==
  ASSUME Types, NEW s \in Shells, Output(s), MarkExited(s), UNCHANGED background
  PROVE  /\ exited' \in [Shells -> BOOLEAN] /\ exited'[s]
         /\ running' \subseteq Shells /\ s \notin running'
         /\ finished' \in [Shells -> {"absent", "completed", "failed"}]
         /\ kept' \in [Shells -> 0..MaxPrinted]
         /\ \/ ~background[s] /\ finished'[s] = finished[s] /\ kept'[s] = kept[s]
            \/ /\ background[s] /\ finished'[s] = Status(child[s]) /\ finished'[s] # "absent"
               /\ kept'[s] = read[s]
         /\ \A t \in Shells \ {s} : /\ exited'[t] = exited[t] /\ (t \in running' <=> t \in running)
                                    /\ finished'[t] = finished[t] /\ kept'[t] = kept[t]
<1>1. Status(child[s]) \in {"completed", "failed"}
  BY DEF Status
<1>2. read[s] \in 0..MaxPrinted
  BY ShellAssumption DEF Types, Output
<1>3. /\ exited' = [exited EXCEPT ![s] = TRUE] /\ running' = running \ {s}
      /\ finished' = [finished EXCEPT ![s] = IF background[s] THEN Status(child[s]) ELSE finished[s]]
      /\ kept' = [kept EXCEPT ![s] = IF background[s] THEN read[s] ELSE kept[s]]
  BY DEF MarkExited
<1>4. kept' \in [Shells -> 0..MaxPrinted]
  BY <1>2, <1>3 DEF Types
<1> QED
  BY <1>1, <1>3, <1>4 DEF Types

LEMMA WaitSteps ==
  ASSUME ShellInv, NEW s \in Shells, WaitProcess(s) \/ WaitReaders(s) \/ WaitReadersTimeout(s)
  PROVE  ShellInv'
<1>0. /\ Types /\ Output(s) /\ Life(s) /\ Called(s)
      /\ UNCHANGED <<child, output, background, call>>
  BY DEF ShellInv, WaitProcess, WaitReaders, WaitReadersTimeout
<1>1. Output(s)'
  BY <1>0, OutputKept DEF SameOutput, output
<1>2. CASE WaitProcess(s)
  <2>1. /\ waiter[s] = "process" /\ waiter' = [waiter EXCEPT ![s] = "drain"]
        /\ UNCHANGED <<child, output, reader, background, exited, running, finished, kept, call>>
    BY <1>2 DEF WaitProcess
  <2>2. Types'
    BY <1>0, <2>1 DEF Types, CallTypes, output
  <2>3. waiter'[s] = "drain" /\ \A t \in Shells \ {s} : Same(t)
    BY <1>0, <2>1 DEF Types, Same, output
  <2>4. Life(s)' /\ Called(s)'
    BY <1>0, <2>1, <2>3 DEF Life, Called, Waiting, At, output
  <2> QED
    BY <1>0, <1>1, <2>2, <2>3, <2>4, SessionStep
<1>3. CASE WaitReaders(s) \/ WaitReadersTimeout(s)
  <2>1. /\ waiter[s] = "drain" /\ waiter' = [waiter EXCEPT ![s] = "done"] /\ MarkExited(s)
        /\ \/ reader[s] # "reading" /\ reader' = reader
           \/ reader[s] = "reading" /\ reader' = [reader EXCEPT ![s] = "cancelled"]
    BY <1>0, <1>3 DEF WaitReaders, WaitReadersTimeout, StopReader, Types
  <2>2. /\ exited' \in [Shells -> BOOLEAN] /\ exited'[s]
        /\ running' \subseteq Shells /\ s \notin running'
        /\ finished' \in [Shells -> {"absent", "completed", "failed"}]
        /\ kept' \in [Shells -> 0..MaxPrinted]
        /\ \/ ~background[s] /\ finished'[s] = finished[s] /\ kept'[s] = kept[s]
           \/ /\ background[s] /\ finished'[s] = Status(child[s]) /\ finished'[s] # "absent"
              /\ kept'[s] = read[s]
        /\ \A t \in Shells \ {s} : /\ exited'[t] = exited[t] /\ (t \in running' <=> t \in running)
                                   /\ finished'[t] = finished[t] /\ kept'[t] = kept[t]
    BY <1>0, <2>1, MarkFacts
  <2>3. Types'
    <3>1. /\ waiter' \in [Shells -> {"none", "process", "drain", "done", "cancelled"}]
          /\ reader' \in [Shells -> {"none", "reading", "eof", "cancelled"}]
      BY <1>0, <2>1 DEF Types
    <3>2. CallTypes'
      BY <1>0 DEF Types, CallTypes
    <3> QED
      BY <1>0, <2>2, <3>1, <3>2 DEF Types, output
  <2>4. /\ waiter'[s] = "done" /\ reader'[s] \in {reader[s], "cancelled"} /\ reader'[s] # "reading"
        /\ \A t \in Shells \ {s} : Same(t)
    BY <1>0, <2>1, <2>2 DEF Types, Same, output
  <2>5. child[s] # "new" /\ ~exited[s] /\ finished[s] = "absent"
    BY <1>0, <2>1 DEF Life, Waiting
  <2>6. Life(s)'
    <3>1. finished'[s] = "completed" => child[s] = "zero"
      BY <2>2, <2>5 DEF Status
    <3>2. reader'[s] \in {"eof", "cancelled"} /\ (reader'[s] = "eof" => read[s] = printed[s])
      BY <1>0, <2>4, <2>5, <2>1 DEF Life, Types
    <3>3. finished'[s] # "absent" /\ reader'[s] # "cancelled" => kept'[s] = printed[s]
      BY <2>2, <2>5, <3>2
    <3> QED
      BY <1>0, <2>2, <2>4, <2>5, <3>1, <3>2, <3>3 DEF Life, Waiting, output
  <2>7. Called(s)'
    BY <1>0, <2>4 DEF Called, Waiting
  <2> QED
    BY <1>0, <1>1, <2>3, <2>4, <2>6, <2>7, SessionStep
<1> QED
  BY <1>2, <1>3

-----------------------------------------------------------------------------
(* Requests *)

LEMMA StartSteps ==
  ASSUME ShellInv, NEW s \in Shells, NEW c \in Callers, RunInBackground(c, s) \/ RunAndWait(c, s)
  PROVE  ShellInv'
<1>0. /\ Types /\ Output(s) /\ Life(s) /\ Called(s) /\ call[c] = Idle
      /\ UNCHANGED <<output, exited, finished, kept>>
  BY DEF ShellInv, RunInBackground, RunAndWait, Start
<1>1. Output(s)'
  BY <1>0, OutputKept DEF SameOutput, output
<1>2. PICK bg \in BOOLEAN :
        /\ Start(s, bg)
        /\ \/ call' = call
           \/ ~bg /\ \E op \in {"yield", "foreground"} : Goto(c, op, "wait", s)
  BY DEF RunInBackground, RunAndWait
<1>3. /\ child[s] = "new" /\ child' = [child EXCEPT ![s] = "up"]
      /\ reader' = [reader EXCEPT ![s] = "reading"] /\ waiter' = [waiter EXCEPT ![s] = "process"]
      /\ background' = [background EXCEPT ![s] = bg] /\ running' = running \cup {s}
  BY <1>2 DEF Start
<1>4. /\ child'[s] = "up" /\ reader'[s] = "reading" /\ waiter'[s] = "process"
      /\ background'[s] = bg /\ s \in running'
      /\ \A t \in Shells \ {s} : Same(t)
  BY <1>0, <1>3 DEF Types, Same, output
<1>5. ~exited[s] /\ finished[s] = "absent" /\ \A d \in Callers : call[d].on # {s}
  BY <1>0, <1>3 DEF Life, Called
<1>6. Life(s)'
  BY <1>0, <1>4, <1>5 DEF Life, Waiting
<1>7. CASE call' = call
  <2>1. Types'
    BY <1>0, <1>3, <1>7 DEF Types, CallTypes, output
  <2>2. Called(s)'
    BY <1>5, <1>7 DEF Called
  <2> QED
    BY <1>1, <1>4, <1>6, <1>7, <2>1, <2>2, SessionStep
<1>8. CASE call' # call
  <2>1. PICK op \in {"yield", "foreground"} : Goto(c, op, "wait", s)
    BY <1>2, <1>8
  <2>2. /\ ~bg /\ op \in Requested /\ "wait" \in Places
    BY <1>2, <1>8 DEF Requested, Killers, Places
  <2>3. /\ CallTypes' /\ call'[c].op = op /\ call'[c].at = "wait" /\ call'[c].on = {s}
        /\ \A d \in Callers \ {c} : call'[d] = call[d]
    BY <1>0, <2>1, <2>2, CallFacts DEF Types
  <2>4. Types'
    BY <1>0, <1>3, <2>3 DEF Types, output
  <2>5. Called(s)'
    BY <1>4, <1>5, <2>2, <2>3 DEF Called
  <2>6. call[c].on \subseteq {s} /\ call'[c].on \subseteq {s}
    BY <1>0, <2>3, IdleFacts
  <2> QED
    BY <1>1, <1>4, <1>6, <2>3, <2>4, <2>5, <2>6, SessionStep
<1> QED
  BY <1>7, <1>8

LEMMA SmallSteps ==
  ASSUME ShellInv, NEW s \in Shells, NEW c \in Callers,
         RunFinished(c, s) \/ JoinCancelled(c, s) \/ YieldTimeout(c, s)
  PROVE  ShellInv'
<1>0. /\ Types /\ Output(s) /\ Life(s) /\ Called(s) /\ Return(c)
      /\ UNCHANGED <<child, output, reader, waiter, exited, running, finished, kept>>
      /\ call[c].on = {s} /\ call[c].at # "forget"
  BY DEF ShellInv, RunFinished, JoinCancelled, YieldTimeout, registry, At
<1>1. Output(s)'
  BY <1>0, OutputKept DEF SameOutput, output
<1>2. /\ CallTypes' /\ call'[c] = Idle /\ call'[c].on = {}
      /\ \A d \in Callers \ {c} : call'[d] = call[d]
  BY <1>0, CallFacts DEF Types
<1>3. \/ background' = background
      \/ At(c, {"yield"}, "wait", s) /\ background' = [background EXCEPT ![s] = TRUE]
  BY DEF RunFinished, JoinCancelled, YieldTimeout, registry
<1>4. Types'
  <2>1. background' \in [Shells -> BOOLEAN]
    BY <1>0, <1>3 DEF Types
  <2> QED
    BY <1>0, <1>2, <2>1 DEF Types, output
<1>5. \A t \in Shells \ {s} : Same(t)
  BY <1>0, <1>3 DEF Types, Same, output
<1>6. Life(s)'
  <2>1. s \in running /\ ~Waiting(s) => \E d \in Callers : At(d, {"remove"}, "forget", s)'
    <3>1. SUFFICES ASSUME s \in running, ~Waiting(s)
                   PROVE  \E d \in Callers : At(d, {"remove"}, "forget", s)'
      OBVIOUS
    <3>2. PICK d \in Callers : At(d, {"remove"}, "forget", s)
      BY <1>0, <3>1 DEF Life
    <3>3. d # c
      BY <1>0, <3>2 DEF At
    <3> QED
      BY <1>2, <3>2, <3>3 DEF At
  <2>2. child[s] # "new"
    BY <1>0 DEF Called
  <2> QED
    BY <1>0, <2>1, <2>2 DEF Life, Waiting, output
<1>7. Called(s)'
  <2>1. \A d \in Callers : call'[d].on = {s} => d # c /\ call'[d] = call[d]
    BY <1>2
  <2>2. background' = background \/ \A d \in Callers \ {c} : call[d].on = {s} => call[d].op # "foreground"
    BY <1>0, <1>3 DEF Called, At
  <2> QED
    BY <1>0, <2>1, <2>2 DEF Called, Waiting
<1>8. call[c].on \subseteq {s} /\ call'[c].on \subseteq {s}
  BY <1>0, <1>2
<1> QED
  BY <1>1, <1>2, <1>4, <1>5, <1>6, <1>7, <1>8, SessionStep

\* The wait task of s is over, or cancelled with the reader.
Stopped(s) ==
  /\ waiter' \in [Shells -> {"none", "process", "drain", "done", "cancelled"}]
  /\ reader' \in [Shells -> {"none", "reading", "eof", "cancelled"}]
  /\ ~Waiting(s)' /\ waiter'[s] \in {waiter[s], "cancelled"}
  /\ reader'[s] \in {reader[s], "cancelled"} /\ reader'[s] \in {"eof", "cancelled"}
  /\ \A t \in Shells \ {s} : waiter'[t] = waiter[t] /\ reader'[t] = reader[t]

LEMMA StoppedFacts ==
  ASSUME Types, NEW s \in Shells, Life(s), child[s] # "new",
         CancelSessionTasks(s) \/ (~Waiting(s) /\ UNCHANGED <<reader, waiter>>)
  PROVE  Stopped(s)
<1>1. CASE CancelSessionTasks(s)
  <2>1. /\ waiter' = [waiter EXCEPT ![s] = IF Waiting(s) THEN "cancelled" ELSE waiter[s]]
        /\ reader' = [reader EXCEPT ![s] = IF reader[s] = "reading" THEN "cancelled" ELSE reader[s]]
    BY <1>1 DEF CancelSessionTasks, StopReader
  <2>2. reader[s] # "none"
    BY DEF Life
  <2>3. /\ waiter' \in [Shells -> {"none", "process", "drain", "done", "cancelled"}]
        /\ waiter'[s] = IF Waiting(s) THEN "cancelled" ELSE waiter[s]
        /\ \A t \in Shells \ {s} : waiter'[t] = waiter[t]
    BY <2>1 DEF Types
  <2>4. /\ reader' \in [Shells -> {"none", "reading", "eof", "cancelled"}]
        /\ reader'[s] = IF reader[s] = "reading" THEN "cancelled" ELSE reader[s]
        /\ \A t \in Shells \ {s} : reader'[t] = reader[t]
    BY <2>1 DEF Types
  <2> QED
    BY <2>2, <2>3, <2>4 DEF Stopped, Waiting
<1>2. CASE ~Waiting(s) /\ UNCHANGED <<reader, waiter>>
  BY <1>2 DEF Stopped, Types, Life, Waiting
<1> QED
  BY <1>1, <1>2

\* The request of c about s, as a request of kind op, may go on to end the session.
Ending(c, op, s) ==
  /\ child[s] # "new" /\ op \in Killers
  /\ \/ call[c] = Idle /\ op # "foreground"
     \/ call[c].on = {s} /\ call[c].op = op /\ call[c].at # "forget"

LEMMA EndingFacts ==
  ASSUME ShellInv, NEW s \in Shells, NEW c \in Callers, NEW op, Ending(c, op, s)
  PROVE  /\ Types /\ CallTypes /\ Output(s) /\ Life(s) /\ Called(s)
         /\ child[s] # "new" /\ op \in Killers /\ call[c].on \subseteq {s} /\ call[c].at # "forget"
         /\ op = "foreground" => /\ ~background[s] /\ call[c].on = {s}
                                 /\ \A d \in Callers \ {c} : call[d].on = {s} =>
                                      call[d].op \notin {"yield", "foreground"}
<1>1. Types /\ CallTypes /\ Output(s) /\ Life(s) /\ Called(s)
  BY DEF ShellInv, Types
<1>2. child[s] # "new" /\ op \in Killers /\ call[c].on \subseteq {s} /\ call[c].at # "forget"
  BY IdleFacts DEF Ending
<1>3. ASSUME op = "foreground"
      PROVE  /\ ~background[s] /\ call[c].on = {s}
             /\ \A d \in Callers \ {c} : call[d].on = {s} =>
                  call[d].op \notin {"yield", "foreground"}
  <2>1. call[c].on = {s} /\ call[c].op = "foreground"
    BY <1>3 DEF Ending
  <2>2. ~background[s]
    BY <1>1, <2>1 DEF Called
  <2>3. ASSUME NEW d \in Callers \ {c}, call[d].on = {s}, call[d].op \in {"yield", "foreground"}
        PROVE  FALSE
    <3>1. {call[c].op, call[d].op} \subseteq {"yield", "foreground"}
      BY <2>1, <2>3
    <3> QED
      BY <1>1, <2>1, <2>3, <3>1 DEF Called
  <2> QED
    BY <2>1, <2>2, <2>3
<1> QED
  BY <1>1, <1>2, <1>3

LEMMA FinishStep ==
  ASSUME ShellInv, NEW s \in Shells, NEW c \in Callers, NEW op, Ending(c, op, s),
         Stopped(s), FinishKill(c, s), UNCHANGED <<child, output, background>>
  PROVE  ShellInv'
<1>0. /\ Types /\ CallTypes /\ Output(s) /\ Life(s) /\ Called(s) /\ child[s] # "new"
      /\ call[c].on \subseteq {s} /\ call[c].at # "forget"
  BY EndingFacts
<1>1. Output(s)'
  BY <1>0, OutputKept DEF SameOutput, output
<1>2. /\ CallTypes' /\ call'[c] = Idle /\ call'[c].on = {}
      /\ \A d \in Callers \ {c} : call'[d] = call[d]
  BY <1>0, CallFacts DEF FinishKill
<1>3. /\ exited' \in [Shells -> BOOLEAN] /\ exited'[s]
      /\ running' \subseteq Shells /\ s \notin running'
      /\ finished' \in [Shells -> {"absent", "completed", "failed"}]
      /\ kept' \in [Shells -> 0..MaxPrinted]
      /\ \/ finished'[s] = finished[s] /\ kept'[s] = kept[s]
         \/ /\ finished'[s] = Status(child[s]) /\ finished'[s] # "absent"
            /\ kept'[s] = read[s]
      /\ \A t \in Shells \ {s} : /\ exited'[t] = exited[t] /\ (t \in running' <=> t \in running)
                                 /\ finished'[t] = finished[t] /\ kept'[t] = kept[t]
  <2>1. CASE exited[s]
    <3>1. UNCHANGED <<exited, running, finished, kept>> /\ s \notin running
      BY <1>0, <2>1 DEF FinishKill, Life
    <3> QED
      BY <1>0, <2>1, <3>1 DEF Types
  <2>2. CASE ~exited[s]
    <3>1. MarkExited(s)
      BY <2>2 DEF FinishKill
    <3> QED
      BY <1>0, <3>1, MarkFacts
  <2> QED
    BY <2>1, <2>2
<1>4. Types'
  <2>1. /\ child' \in [Shells -> {"new", "up"} \cup ExitCodes]
        /\ printed' \in [Shells -> 0..MaxPrinted] /\ read' \in [Shells -> Nat]
        /\ pendingOut' \in [Shells -> Seq(Chunk)] /\ truncated' \in [Shells -> BOOLEAN]
        /\ background' \in [Shells -> BOOLEAN] /\ shown' \in [Shells -> Nat]
    BY <1>0 DEF Types, output
  <2> QED
    BY <1>2, <1>3, <2>1 DEF Types, Stopped
<1>5. \A t \in Shells \ {s} : Same(t)
  BY <1>3 DEF Same, Stopped, output
<1>6. Life(s)'
  <2>1. reader'[s] # "cancelled" => reader[s] = "eof" /\ read[s] = printed[s]
    BY <1>0 DEF Stopped, Life
  <2>2. finished'[s] = "completed" => child[s] = "zero"
    BY <1>0, <1>3 DEF Status, Life
  <2>3. finished'[s] # "absent" /\ reader'[s] # "cancelled" => kept'[s] = printed[s]
    BY <1>0, <1>3, <2>1 DEF Life
  <2>4. waiter'[s] # "none" /\ reader'[s] # "none" /\ reader'[s] \in {"eof", "cancelled"} /\ ~Waiting(s)'
    BY <1>0 DEF Stopped, Life
  <2>5. reader'[s] = "eof" => read[s] = printed[s]
    BY <2>1
  <2> QED
    BY <1>0, <1>3, <2>2, <2>3, <2>4, <2>5 DEF Life, output
<1>7. Called(s)'
  <2>1. \A d \in Callers : call'[d].on = {s} => d # c /\ call'[d] = call[d]
    BY <1>2
  <2>2. ~Waiting(s)'
    BY DEF Stopped
  <2> QED
    BY <1>0, <2>1, <2>2 DEF Called
<1> QED
  BY <1>0, <1>1, <1>2, <1>4, <1>5, <1>6, <1>7, SessionStep

\* A request goes on to another place, and the tasks of a removed session are cancelled.
LEMMA GotoStep ==
  ASSUME ShellInv, NEW s \in Shells, NEW c \in Callers, NEW op, NEW at, Ending(c, op, s), at \in Places,
         Goto(c, op, at, s), UNCHANGED <<child, output, registry>>,
         \/ UNCHANGED <<reader, waiter>> /\ at # "forget" /\ (at = "join" => op # "remove")
         \/ Stopped(s) /\ op = "remove" /\ at = "forget"
  PROVE  ShellInv'
<1>0. /\ Types /\ CallTypes /\ Output(s) /\ Life(s) /\ Called(s) /\ child[s] # "new" /\ op \in Requested
      /\ call[c].on \subseteq {s} /\ call[c].at # "forget"
      /\ op = "foreground" => /\ ~background[s]
                              /\ \A d \in Callers \ {c} : call[d].on = {s} =>
                                   call[d].op \notin {"yield", "foreground"}
  BY EndingFacts DEF Requested
<1>1. Output(s)'
  BY <1>0, OutputKept DEF SameOutput, output
<1>2. /\ CallTypes' /\ call'[c].op = op /\ call'[c].at = at /\ call'[c].on = {s}
      /\ \A d \in Callers \ {c} : call'[d] = call[d]
  BY <1>0, CallFacts
<1>3. /\ waiter' \in [Shells -> {"none", "process", "drain", "done", "cancelled"}]
      /\ reader' \in [Shells -> {"none", "reading", "eof", "cancelled"}]
      /\ \A t \in Shells \ {s} : waiter'[t] = waiter[t] /\ reader'[t] = reader[t]
  BY <1>0 DEF Types, Stopped
<1>4. Types'
  BY <1>0, <1>2, <1>3 DEF Types, output, registry
<1>5. \A t \in Shells \ {s} : Same(t)
  BY <1>3 DEF Same, output, registry
<1>6. Life(s)'
  <2>1. CASE UNCHANGED <<reader, waiter>>
    <3>1. \A d \in Callers : At(d, {"remove"}, "forget", s) => At(d, {"remove"}, "forget", s)'
      BY <1>0, <1>2 DEF At
    <3> QED
      BY <1>0, <2>1, <3>1 DEF Life, Waiting, output, registry
  <2>2. CASE Stopped(s) /\ op = "remove" /\ at = "forget"
    <3>1. At(c, {"remove"}, "forget", s)'
      BY <1>2, <2>2 DEF At
    <3>2. /\ reader'[s] # "cancelled" => reader[s] = "eof"
          /\ waiter'[s] # "none" /\ reader'[s] \in {"eof", "cancelled"} /\ ~Waiting(s)'
          /\ waiter'[s] = "done" => waiter[s] = "done"
      BY <1>0, <2>2 DEF Life, Stopped
    <3> QED
      BY <1>0, <3>1, <3>2 DEF Life, output, registry
  <2> QED
    BY <2>1, <2>2
<1>7. Called(s)'
  <2>1. Waiting(s)' => Waiting(s)
    BY DEF Stopped, Waiting
  <2>2. ASSUME NEW d \in Callers, call'[d].on = {s}
        PROVE  /\ child'[s] # "new"
               /\ call'[d].at = "forget" => call'[d].op = "remove" /\ ~Waiting(s)'
               /\ call'[d].at = "join" => call'[d].op # "remove"
               /\ call'[d].op = "foreground" => ~background'[s]
    <3>1. CASE d = c
      BY <1>0, <1>2, <3>1 DEF Stopped, registry
    <3>2. CASE d # c
      BY <1>0, <1>2, <2>1, <2>2, <3>2 DEF Called, registry
    <3> QED
      BY <3>1, <3>2
  <2>3. ASSUME NEW d \in Callers, NEW e \in Callers, call'[d].on = {s}, call'[e].on = {s},
               {call'[d].op, call'[e].op} \subseteq {"yield", "foreground"}
        PROVE  d = e
    <3>1. op \in {"yield", "foreground"} => op = "foreground"
      BY EndingFacts DEF Killers
    <3> QED
      BY <1>0, <1>2, <2>3, <3>1 DEF Called
  <2> QED
    BY <2>2, <2>3 DEF Called
<1>8. call'[c].on \subseteq {s}
  BY <1>2
<1> QED
  BY <1>0, <1>1, <1>2, <1>4, <1>5, <1>6, <1>7, <1>8, SessionStep

\* What follows when the process is dead or has been given up.
LEMMA TerminatedStep ==
  ASSUME ShellInv, NEW s \in Shells, NEW c \in Callers, NEW op, Ending(c, op, s),
         Terminated(c, op, s), UNCHANGED <<child, output, background>>
  PROVE  ShellInv'
<1>0. Types /\ Life(s) /\ child[s] # "new"
  BY EndingFacts
<1>1. CASE op = "remove" /\ CancelSessionTasks(s) /\ Goto(c, op, "forget", s)
           /\ UNCHANGED <<exited, running, finished, kept>>
  <2>1. Stopped(s)
    BY <1>0, <1>1, StoppedFacts
  <2> QED
    BY <1>1, <2>1, GotoStep DEF registry, Places
<1>2. CASE op # "remove" /\ Goto(c, op, "join", s)
           /\ UNCHANGED <<reader, waiter, exited, running, finished, kept>>
  BY <1>2, GotoStep DEF registry, Places
<1>3. CASE ~Waiting(s) /\ FinishKill(c, s) /\ UNCHANGED <<reader, waiter>>
  <2>1. Stopped(s)
    BY <1>0, <1>3, StoppedFacts
  <2> QED
    BY <1>3, <2>1, FinishStep
<1> QED
  BY <1>1, <1>2, <1>3 DEF Terminated

LEMMA TerminateStep ==
  ASSUME ShellInv, NEW s \in Shells, NEW c \in Callers, NEW op, Ending(c, op, s),
         Terminate(c, op, s), UNCHANGED <<child, output, background>>
  PROVE  ShellInv'
<1>1. CASE child[s] = "up"
  <2>1. Goto(c, op, "sigterm", s) /\ UNCHANGED <<reader, waiter, exited, running, finished, kept>>
    BY <1>1 DEF Terminate
  <2> QED
    BY <2>1, GotoStep DEF registry, Places
<1>2. CASE child[s] # "up"
  BY <1>2, TerminatedStep DEF Terminate
<1> QED
  BY <1>1, <1>2

\* A request that waits for a session to die may go on to end it.
LEMMA KillersEnd ==
  ASSUME ShellInv, NEW s \in Shells, NEW c \in Callers, NEW place, place # "forget",
         At(c, Killers, place, s)
  PROVE  Ending(c, call[c].op, s)
BY DEF ShellInv, Called, At, Ending

LEMMA EndSteps ==
  ASSUME ShellInv, NEW s \in Shells, NEW c \in Callers,
         \/ ForegroundTimeout(c, s) \/ ChildSeenDead(c, s) \/ SigtermTimeout(c, s)
         \/ SigkillTimeout(c, s) \/ Joined(c, s) \/ JoinTimeout(c, s)
         \/ Kill(c, s) \/ RemoveRunning(c, s)
  PROVE  ShellInv'
<1>0. Types /\ Life(s)
  BY DEF ShellInv
<1>1. CASE ForegroundTimeout(c, s)
  <2>1. /\ At(c, Killers, "wait", s) /\ call[c].op = "foreground" /\ Terminate(c, "foreground", s)
        /\ UNCHANGED <<child, output, background>>
    BY <1>1 DEF ForegroundTimeout, At, Killers
  <2> QED
    BY <2>1, KillersEnd, TerminateStep
<1>2. CASE ChildSeenDead(c, s) \/ SigkillTimeout(c, s)
  <2>1. /\ At(c, Killers, "sigterm", s) \/ At(c, Killers, "sigkill", s)
        /\ Terminated(c, call[c].op, s) /\ UNCHANGED <<child, output, background>>
    BY <1>2 DEF ChildSeenDead, SigkillTimeout
  <2>2. Ending(c, call[c].op, s)
    BY <2>1, KillersEnd
  <2> QED
    BY <2>1, <2>2, TerminatedStep
<1>3. CASE SigtermTimeout(c, s)
  <2>1. /\ At(c, Killers, "sigterm", s) /\ Goto(c, call[c].op, "sigkill", s)
        /\ UNCHANGED <<child, output, reader, waiter, registry>>
    BY <1>3 DEF SigtermTimeout
  <2>2. Ending(c, call[c].op, s)
    BY <2>1, KillersEnd
  <2> QED
    BY <2>1, <2>2, GotoStep DEF Places
<1>4. CASE Joined(c, s) \/ JoinTimeout(c, s)
  <2>1. /\ At(c, Killers, "join", s) /\ FinishKill(c, s) /\ UNCHANGED <<child, output, background>>
        /\ CancelSessionTasks(s) \/ (~Waiting(s) /\ UNCHANGED <<reader, waiter>>)
    BY <1>4 DEF Joined, JoinTimeout, Waiting
  <2>2. Ending(c, call[c].op, s)
    BY <2>1, KillersEnd
  <2>3. Stopped(s)
    BY <1>0, <2>1, <2>2, StoppedFacts DEF Ending
  <2> QED
    BY <2>1, <2>2, <2>3, FinishStep
<1>5. CASE Kill(c, s)
  <2>1. Ending(c, "kill", s) /\ Terminate(c, "kill", s) /\ UNCHANGED <<child, output, background>>
    BY <1>0, <1>5 DEF Kill, Ending, Life, Killers
  <2> QED
    BY <2>1, TerminateStep
<1>6. CASE RemoveRunning(c, s)
  <2>1. Ending(c, "remove", s) /\ Terminate(c, "remove", s) /\ UNCHANGED <<child, output, background>>
    BY <1>0, <1>6 DEF RemoveRunning, Ending, Life, Killers
  <2> QED
    BY <2>1, TerminateStep
<1> QED
  BY <1>1, <1>2, <1>3, <1>4, <1>5, <1>6

LEMMA DeleteSteps ==
  ASSUME ShellInv, NEW s \in Shells, NEW c \in Callers, RemoveFinished(c, s) \/ Forget(c, s)
  PROVE  ShellInv'
<1>0. /\ Types /\ CallTypes /\ Output(s) /\ Life(s) /\ Called(s) /\ DeleteSession(s)
      /\ UNCHANGED <<child, output, reader, waiter, background, exited>>
  BY DEF ShellInv, Types, RemoveFinished, Forget
<1>1. Output(s)'
  BY <1>0, OutputKept DEF SameOutput, output
<1>2. /\ CallTypes'
      /\ \/ call' = call /\ s \notin running
         \/ /\ call[c].on = {s} /\ call[c].at = "forget" /\ call'[c].on = {}
            /\ \A d \in Callers \ {c} : call'[d] = call[d]
  <2>1. CASE RemoveFinished(c, s)
    BY <1>0, <2>1 DEF RemoveFinished, CallTypes
  <2>2. CASE Forget(c, s)
    <3>1. call[c].on = {s} /\ call[c].at = "forget" /\ Return(c)
      BY <2>2 DEF Forget, At
    <3> QED
      BY <1>0, <3>1, CallFacts
  <2> QED
    BY <2>1, <2>2
<1>3. /\ running' \subseteq Shells /\ s \notin running'
      /\ finished' \in [Shells -> {"absent", "completed", "failed"}] /\ finished'[s] = "absent"
      /\ kept' \in [Shells -> 0..MaxPrinted]
      /\ \A t \in Shells \ {s} : /\ (t \in running' <=> t \in running)
                                 /\ finished'[t] = finished[t] /\ kept'[t] = kept[t]
  BY <1>0, ShellAssumption DEF Types, DeleteSession
<1>4. Types'
  BY <1>0, <1>2, <1>3 DEF Types, output
<1>5. \A t \in Shells \ {s} : Same(t)
  BY <1>0, <1>3 DEF Same, output
<1>6. ~Waiting(s)
  BY <1>0, <1>2 DEF Life, Called
<1>7. Life(s)'
  BY <1>0, <1>3, <1>6 DEF Life, Waiting, output
<1>8. Called(s)'
  <2>1. \A d \in Callers : call'[d].on = {s} => call'[d] = call[d]
    BY <1>2
  <2> QED
    BY <1>0, <2>1 DEF Called, Waiting
<1> QED
  BY <1>0, <1>1, <1>2, <1>4, <1>5, <1>7, <1>8, SessionStep

LEMMA PollStep ==
  ASSUME ShellInv, NEW s \in Shells, NEW c \in Callers, Poll(c, s)
  PROVE  ShellInv'
<1>0. /\ Types /\ Output(s) /\ Life(s) /\ Called(s)
      /\ pendingOut' = [pendingOut EXCEPT ![s] = <<>>] /\ shown' = [shown EXCEPT ![s] = read[s]]
      /\ UNCHANGED <<child, printed, read, truncated, reader, waiter, registry, call>>
  BY DEF ShellInv, Poll
<1>1. /\ pendingOut' \in [Shells -> Seq(Chunk)] /\ shown' \in [Shells -> Nat]
      /\ pendingOut'[s] = <<>> /\ shown'[s] = read[s]
      /\ \A t \in Shells \ {s} : pendingOut'[t] = pendingOut[t] /\ shown'[t] = shown[t]
  BY <1>0, EmptySeq DEF Types
<1>2. Types'
  BY <1>0, <1>1 DEF Types, CallTypes, registry
<1>3. \A t \in Shells \ {s} : Same(t)
  BY <1>0, <1>1 DEF Same, registry
<1>4. Output(s)'
  <2>1. /\ read[s] \in Nat /\ PendingCap \in Nat /\ AggregatedCap \in Nat
        /\ PendingCap # 0
    BY <1>0, ShellAssumption DEF Types
  <2>2. From(s)' = read[s]
    BY <1>0, <1>1, <2>1 DEF From
  <2>3. Covers(<<>>, read[s], read[s])
    <3>1. <<>> \in Seq(Chunk) /\ DOMAIN <<>> = {}
      BY EmptySeq
    <3> QED
      BY <3>1 DEF Covers
  <2> QED
    BY <1>0, <1>1, <2>1, <2>2, <2>3 DEF Output
<1>5. Life(s)' /\ Called(s)'
  BY <1>0 DEF Life, Called, Waiting, At, registry
<1> QED
  BY <1>0, <1>2, <1>3, <1>4, <1>5, SessionStep

LEMMA DropStep ==
  ASSUME ShellInv, NEW gone \in SUBSET Shells, DropFinished(gone)
  PROVE  ShellInv'
<1>0. /\ Types /\ \A s \in Shells : Output(s) /\ Life(s) /\ Called(s)
      /\ finished' = [s \in Shells |-> IF s \in gone THEN "absent" ELSE finished[s]]
      /\ kept' = [s \in Shells |-> IF s \in gone THEN 0 ELSE kept[s]]
      /\ UNCHANGED <<child, output, reader, waiter, background, exited, running, call>>
  BY DEF ShellInv, DropFinished
<1>1. Types'
  BY <1>0, ShellAssumption DEF Types, CallTypes, output
<1>2. ASSUME NEW s \in Shells PROVE Output(s)' /\ Life(s)' /\ Called(s)'
  <2>1. Output(s)'
    BY <1>0, OutputKept DEF SameOutput, output
  <2>2. finished'[s] = "absent" \/ (finished'[s] = finished[s] /\ kept'[s] = kept[s])
    BY <1>0
  <2>3. Life(s)'
    BY <1>0, <2>2 DEF Life, Waiting, At, output
  <2>4. Called(s)'
    BY <1>0 DEF Called, Waiting
  <2> QED
    BY <2>1, <2>3, <2>4
<1> QED
  BY <1>1, <1>2 DEF ShellInv

-----------------------------------------------------------------------------
(* ShellProcesses: the properties of the runs *)

LEMMA ShellStart ==
  ASSUME ShellInit
  PROVE  ShellInv
<1>1. Types
  <2>1. CallTypes
    BY IdleFacts DEF ShellInit, CallTypes
  <2> QED
    BY <2>1, EmptySeq, ShellAssumption DEF ShellInit, Types
<1>2. ASSUME NEW s \in Shells PROVE Output(s) /\ Life(s) /\ Called(s)
  <2>1. From(s) = 0
    BY ShellAssumption DEF ShellInit, From
  <2>2. Covers(<<>>, 0, 0)
    <3>1. <<>> \in Seq(Chunk) /\ DOMAIN <<>> = {}
      BY EmptySeq
    <3> QED
      BY <3>1 DEF Covers
  <2>3. Output(s)
    BY <2>1, <2>2, ShellAssumption DEF ShellInit, Output
  <2>4. \A c \in Callers : call[c].on # {s}
    BY IdleFacts DEF ShellInit
  <2>5. Life(s) /\ Called(s)
    BY <2>4 DEF ShellInit, Life, Called, Waiting
  <2> QED
    BY <2>3, <2>5
<1> QED
  BY <1>1, <1>2 DEF ShellInv

LEMMA ShellKept ==
  ASSUME ShellInv, [ShellNext]_shellVars
  PROVE  ShellInv'
<1>1. CASE UNCHANGED shellVars
  <2>1. Types'
    BY <1>1 DEF ShellInv, Types, CallTypes, shellVars
  <2>2. ASSUME NEW s \in Shells PROVE Output(s)' /\ Life(s)' /\ Called(s)'
    <3>1. Output(s)'
      BY <1>1, OutputKept DEF ShellInv, SameOutput, shellVars
    <3> QED
      BY <1>1, <3>1 DEF ShellInv, Life, Called, Waiting, At, shellVars
  <2> QED
    BY <2>1, <2>2 DEF ShellInv
<1>2. ASSUME NEW s \in Shells, Exit(s) \/ PrintChar(s) \/ Tasks(s) PROVE ShellInv'
  BY <1>2, OutputSteps, WaitSteps DEF Tasks
<1>3. ASSUME NEW c \in Callers, NEW s \in Shells,
             \/ Requests(c, s)
             \/ RunInBackground(c, s) \/ RunAndWait(c, s)
             \/ Kill(c, s) \/ RemoveRunning(c, s) \/ RemoveFinished(c, s) \/ Poll(c, s)
      PROVE  ShellInv'
  <2>1. CASE RunFinished(c, s) \/ JoinCancelled(c, s) \/ YieldTimeout(c, s)
    BY <2>1, SmallSteps
  <2>2. CASE \/ ForegroundTimeout(c, s) \/ ChildSeenDead(c, s) \/ SigtermTimeout(c, s)
             \/ SigkillTimeout(c, s) \/ Joined(c, s) \/ JoinTimeout(c, s)
             \/ Kill(c, s) \/ RemoveRunning(c, s)
    BY <2>2, EndSteps
  <2>3. CASE RemoveFinished(c, s) \/ Forget(c, s)
    BY <2>3, DeleteSteps
  <2>4. CASE Poll(c, s)
    BY <2>4, PollStep
  <2>5. CASE RunInBackground(c, s) \/ RunAndWait(c, s)
    BY <2>5, StartSteps
  <2> QED
    BY <1>3, <2>1, <2>2, <2>3, <2>4, <2>5 DEF Requests
<1>4. ASSUME \E gone \in SUBSET Held : DropFinished(gone) PROVE ShellInv'
  BY <1>4, DropStep DEF Held
<1>5. \A c \in Callers : ClearFinished(c) => \E gone \in SUBSET Held : DropFinished(gone)
  BY DEF ClearFinished
<1> QED
  BY <1>1, <1>2, <1>3, <1>4, <1>5 DEF ShellNext, PruneFinished

\* At every moment what the agent is told of a shell session is true: the new output,
\* or the last of it, comes whole and in order; a loss is flagged; a finished record
\* holds the output and the outcome; and a running entry is taken out by someone.
\* (exec_process_registry.py, exec_process_session.py, exec_background.py)
THEOREM ShellTruthTheorem == ShellSpec => []SessionTellsTruth
<1>1. ShellInv => SessionTellsTruth
  <2> SUFFICES ASSUME ShellInv PROVE SessionTellsTruth
    OBVIOUS
  <2>0. Types /\ \A s \in Shells : Output(s) /\ Life(s) /\ Called(s)
    BY DEF ShellInv
  <2>1. ASSUME NEW s \in Shells
        PROVE  LET from == Max({shown[s], read[s] - PendingCap}) IN
                 /\ TotalSize(pendingOut[s]) = read[s] - from
                 /\ \A i \in DOMAIN pendingOut[s] :
                      /\ pendingOut[s][i][1] = IF i = 1 THEN from + 1 ELSE pendingOut[s][i - 1][2] + 1
                      /\ pendingOut[s][i][2] >= pendingOut[s][i][1]
    <3>1. /\ shown[s] \in Nat /\ read[s] \in Nat /\ PendingCap \in Nat
          /\ Covers(pendingOut[s], From(s), read[s])
      BY <2>0, ShellAssumption DEF Types, Output
    <3>2. From(s) \in Nat
      BY <3>1 DEF From
    <3>3. Max({shown[s], read[s] - PendingCap}) = From(s)
      <4> DEFINE K == {shown[s], read[s] - PendingCap}
      <4>1. From(s) \in K /\ \A y \in K : From(s) >= y
        BY <3>1 DEF From
      <4>2. Max(K) \in K /\ \A y \in K : Max(K) >= y
        BY <4>1 DEF Max
      <4>3. K \subseteq Int
        BY <3>1
      <4> QED
        BY <4>1, <4>2, <4>3
    <3>4. TotalSize(pendingOut[s]) = read[s] - From(s)
      BY <3>1, <3>2, TotalSizeFacts
    <3> QED
      BY <3>1, <3>3, <3>4 DEF Covers
  <2>2. PendingIsRecent
    BY <2>1 DEF PendingIsRecent
  <2>3. TruncatedTellsLoss
    BY <2>0 DEF TruncatedTellsLoss, Output
  <2>4. FinishedIsTrue
    BY <2>0 DEF FinishedIsTrue, Life
  <2>5. NoZombieEntry
    <3>1. ASSUME NEW s \in running
          PROVE  /\ finished[s] = "absent"
                 /\ Waiting(s) \/ \E c \in Callers : call[c].on = {s} /\ call[c].op \in Killers
      <4>1. s \in Shells
        BY <2>0 DEF Types
      <4> QED
        BY <2>0, <4>1 DEF Life, At, Killers
    <3> QED
      BY <3>1 DEF NoZombieEntry
  <2>6. ShellTypeOK
    <3>1. \A s \in Shells : read[s] \in 0..printed[s] /\ shown[s] \in 0..MaxPrinted
      BY <2>0, ShellAssumption DEF Types, Output
    <3>2. \A s \in Shells : TotalSize(pendingOut[s]) <= PendingCap
      <4> SUFFICES ASSUME NEW s \in Shells PROVE TotalSize(pendingOut[s]) <= PendingCap
        OBVIOUS
      <4>1. /\ shown[s] \in Nat /\ read[s] \in Nat /\ PendingCap \in Nat /\ shown[s] <= read[s]
            /\ Covers(pendingOut[s], From(s), read[s])
        BY <2>0, ShellAssumption DEF Types, Output
      <4>2. From(s) \in Nat /\ read[s] - From(s) <= PendingCap
        BY <4>1 DEF From
      <4> QED
        BY <4>1, <4>2, TotalSizeFacts
    <3>3. \A c \in Callers : call[c] = Idle
            \/ /\ call[c].op \in {"yield"} \cup Killers
               /\ call[c].at \in {"wait", "sigterm", "sigkill", "join", "forget"}
               /\ \E s \in Shells : call[c].on = {s}
      BY <2>0 DEF Types, CallTypes, Requested, Places
    <3>4. shown \in [Shells -> 0..MaxPrinted]
      BY <2>0, <3>1 DEF Types
    <3> QED
      BY <2>0, <3>1, <3>2, <3>3, <3>4 DEF Types, ShellTypeOK
  <2> QED
    BY <2>2, <2>3, <2>4, <2>5, <2>6 DEF SessionTellsTruth
<1> QED
  BY <1>1, ShellStart, ShellKept, PTL DEF ShellSpec

\* A session about which no kill is under way, once it has left both registries.
Gone(s) ==
  /\ child[s] # "new" /\ s \notin running /\ finished[s] = "absent"
  /\ ~ \E c \in Callers : call[c].op = "kill" /\ call[c].on = {s}

LEMMA GoneKept ==
  ASSUME ShellInv, ShellNext, NEW s \in Shells, Gone(s)
  PROVE  s \notin running' /\ finished'[s] = "absent"
<1>0. /\ Types /\ Life(s) /\ Called(s) /\ ~Waiting(s)
      /\ child[s] # "new" /\ s \notin running /\ finished[s] = "absent"
  BY DEF ShellInv, Life, Gone
<1>1. UNCHANGED <<running, finished>> => s \notin running' /\ finished'[s] = "absent"
  BY <1>0
\* A session that finishes is a background one.
<1>2. ASSUME NEW t \in Shells, MarkExited(t), t = s => ~background[s]
      PROVE  s \notin running' /\ finished'[s] = "absent"
  BY <1>0, <1>2 DEF MarkExited, Types
<1>3. ASSUME NEW t \in Shells, DeleteSession(t)
      PROVE  s \notin running' /\ finished'[s] = "absent"
  BY <1>0, <1>3 DEF DeleteSession, Types
<1>4. ASSUME NEW gone, DropFinished(gone)
      PROVE  s \notin running' /\ finished'[s] = "absent"
  BY <1>0, <1>4 DEF DropFinished
\* Only a kill could finish s again, and none is under way.
<1>5. ASSUME NEW t \in Shells, NEW c \in Callers, FinishKill(c, t),
             t = s => call[c].on = {s} /\ call[c].op = "foreground"
      PROVE  s \notin running' /\ finished'[s] = "absent"
  BY <1>0, <1>1, <1>2, <1>5 DEF FinishKill, Called
<1>6. ASSUME NEW t \in Shells, NEW c \in Callers, NEW op, Terminated(c, op, t),
             t = s => call[c].on = {s} /\ op = call[c].op /\ op \in Killers
      PROVE  s \notin running' /\ finished'[s] = "absent"
  <2>1. t = s /\ op # "remove" => op = "foreground"
    BY <1>6 DEF Gone, Killers
  <2> QED
    BY <1>1, <1>5, <1>6, <2>1 DEF Terminated
<1>7. ASSUME NEW t \in Shells, NEW c \in Callers, NEW op, Terminate(c, op, t),
             t = s => call[c].on = {s} /\ op = call[c].op /\ op \in Killers
      PROVE  s \notin running' /\ finished'[s] = "absent"
  BY <1>1, <1>6, <1>7 DEF Terminate
<1>8. ASSUME NEW t \in Shells, Exit(t) \/ PrintChar(t) \/ Tasks(t)
      PROVE  s \notin running' /\ finished'[s] = "absent"
  <2>1. CASE WaitReaders(t) \/ WaitReadersTimeout(t)
    BY <1>0, <1>2, <2>1 DEF WaitReaders, WaitReadersTimeout, Waiting
  <2>2. CASE UNCHANGED <<running, finished>>
    BY <1>1, <2>2
  <2> QED
    BY <1>8, <2>1, <2>2 DEF Exit, PrintChar, Tasks, ReadStream, ReadEof, WaitProcess
<1>9. ASSUME NEW t \in Shells, NEW c \in Callers, Requests(c, t)
      PROVE  s \notin running' /\ finished'[s] = "absent"
  <2>1. CASE Forget(c, t)
    BY <1>3, <2>1 DEF Forget
  <2>2. CASE ForegroundTimeout(c, t)
    <3>1. Terminate(c, "foreground", t) /\ call[c].on = {t} /\ call[c].op = "foreground"
      BY <2>2 DEF ForegroundTimeout, At
    <3> QED
      BY <1>7, <3>1 DEF Killers
  <2>3. CASE ChildSeenDead(c, t) \/ SigkillTimeout(c, t)
    <3>1. Terminated(c, call[c].op, t) /\ call[c].on = {t} /\ call[c].op \in Killers
      BY <2>3 DEF ChildSeenDead, SigkillTimeout, At
    <3> QED
      BY <1>6, <3>1
  <2>4. CASE Joined(c, t) \/ JoinTimeout(c, t)
    <3>1. FinishKill(c, t) /\ call[c].on = {t} /\ call[c].op \in Killers /\ call[c].at = "join"
      BY <2>4 DEF Joined, JoinTimeout, At
    <3>2. t = s => call[c].op = "foreground"
      BY <1>0, <3>1 DEF Called, Gone, Killers
    <3> QED
      BY <1>5, <3>1, <3>2
  <2>5. CASE RunFinished(c, t) \/ YieldTimeout(c, t) \/ SigtermTimeout(c, t) \/ JoinCancelled(c, t)
    BY <1>1, <2>5 DEF RunFinished, YieldTimeout, SigtermTimeout, JoinCancelled, registry
  <2> QED
    BY <1>9, <2>1, <2>2, <2>3, <2>4, <2>5 DEF Requests
<1>10. ASSUME NEW t \in Shells, NEW c \in Callers,
              \/ RunInBackground(c, t) \/ RunAndWait(c, t)
              \/ Kill(c, t) \/ RemoveRunning(c, t) \/ RemoveFinished(c, t) \/ Poll(c, t)
       PROVE  s \notin running' /\ finished'[s] = "absent"
  <2>1. CASE RunInBackground(c, t) \/ RunAndWait(c, t)
    <3>1. child[t] = "new" /\ running' = running \cup {t} /\ finished' = finished
      BY <2>1 DEF RunInBackground, RunAndWait, Start
    <3> QED
      BY <1>0, <3>1
  <2>2. CASE Kill(c, t) \/ RemoveRunning(c, t)
    <3>1. t # s /\ \E op : Terminate(c, op, t)
      BY <1>0, <2>2 DEF Kill, RemoveRunning
    <3> QED
      BY <1>7, <3>1
  <2>3. CASE RemoveFinished(c, t)
    BY <1>3, <2>3 DEF RemoveFinished
  <2>4. CASE Poll(c, t)
    BY <1>1, <2>4 DEF Poll, registry
  <2> QED
    BY <1>10, <2>1, <2>2, <2>3, <2>4
<1> QED
  BY <1>4, <1>8, <1>9, <1>10 DEF ShellNext, ClearFinished, PruneFinished

\* A session that has left both registries is not put back by a step, whichever of its
\* tasks and requests are still to run, except by a kill under way on it.
\* (mark_exited, delete_session, terminate_session_process_tree)
THEOREM GoneStaysTheorem == ShellSpec => GoneStaysGone
<1>1. ShellInv /\ [ShellNext]_shellVars =>
        [\A s \in Shells :
           /\ child[s] # "new" /\ s \notin running /\ finished[s] = "absent"
           /\ ~ \E c \in Callers : call[c].op = "kill" /\ call[c].on = {s}
           => s \notin running' /\ finished'[s] = "absent"]_shellVars
  BY GoneKept DEF Gone
<1> QED
  BY <1>1, ShellStart, ShellKept, PTL DEF ShellSpec, GoneStaysGone

-----------------------------------------------------------------------------
(* McpClients: the inductive invariant *)

Task ==
  [at : {"new", "spawn", "wait", "expired", "answered", "failed", "notifying", "closing", "done"},
   of : SUBSET Clients, step : Steps, id : Nat]
Reader == [at : {"none", "start", "read", "done"}, on : SUBSET Procs]
Message == Nat \X Steps \X ClientTasks
Atmost1(S) == \A x \in S : S = {x}

Shape ==
  /\ registered \subseteq Clients /\ tools \subseteq Clients
  /\ Atmost1(registered) /\ Atmost1(tools)
  /\ spec \in Keys \cup {"none"} /\ status \in {"none", "ready", "error"}
  /\ proc \in [Clients -> SUBSET Procs]
  /\ nextId \in [Clients -> Nat] /\ pending \subseteq ClientTasks
  /\ task \in [ClientTasks -> Task]
  /\ owner \in [Procs -> SUBSET Clients] /\ alive \subseteq Procs
  /\ inbox \in [Procs -> SUBSET Message] /\ answers \in [Procs -> SUBSET Message]
  /\ readTask \in [Procs -> Reader]
  /\ wanted \in [Passes -> Keys \cup {"off", "none"}]

\* A process belongs to the client that started it, for good: the client's process, the
\* processes a reader reads from and those that run or have answered do.
OwnerInv ==
  /\ \A c \in Clients : \A p \in proc[c] : owner[p] = {c}
  /\ \A p \in Procs :
       /\ Atmost1(owner[p])
       /\ owner[p] = {} => answers[p] = {} /\ readTask[p] = NoReader
       /\ \A q \in readTask[p].on : owner[q] = owner[p]
       /\ readTask[p].at = "read" <=> readTask[p].on # {}
       /\ inbox[p] # {} => p \in alive
       /\ p \in alive => owner[p] # {}

PlaceInv == \A t \in ClientTasks : task[t].of = {} <=> task[t].at \in {"new", "done"}

\* Every number a client has given out is below the next one, and no two requests that
\* wait have the same.
IdInv ==
  /\ \A t \in pending, c \in Clients : task[t].of = {c} => task[t].id < nextId[c]
  /\ \A t, u \in pending : task[t].of = task[u].of /\ task[t].id = task[u].id => t = u

\* What is on its way to or from a process of a client: if its number is that of a
\* request that waits, it is of that request.
MessageInv ==
  \A p \in Procs, c \in Clients : owner[p] = {c} =>
    \A m \in inbox[p] \cup answers[p] :
      /\ m[1] < nextId[c]
      /\ \A t \in pending : task[t].of = {c} /\ task[t].id = m[1]
                              => m = <<task[t].id, task[t].step, t>>

\* Who waits in drain has sent a request or a notification, whatever became of it.
Writing == {"wait", "answered", "failed", "notifying"}

DrainInv ==
  /\ draining \in [Procs -> SUBSET ClientTasks]
  /\ \A p \in Procs : \A t \in draining[p] : task[t].at \in Writing

\* Until two passes overlap there is one at most, and it is the last one: the registered
\* client is the one it works on, with no tools until it is done; of the client it closes
\* nobody else takes the process away.
PassInv ==
  ~overlapped =>
    /\ \A r, s \in Passes : InProgress(r) /\ InProgress(s) => r = s
    /\ (\A r \in Passes : ~InProgress(r)) /\ tools # {} => tools = registered /\ spec = latest
    /\ \A r \in Passes : InProgress(r) =>
         /\ wanted[r] = latest
         /\ task[r].at # "closing" => task[r].of = registered /\ spec = latest /\ tools = {}
         /\ \A c \in Clients : task[r].at = "closing" /\ task[r].of = {c} => proc[c] # {}

RequestInv == Shape /\ OwnerInv /\ PlaceInv /\ PendingIsWaiting /\ IdInv /\ MessageInv

-----------------------------------------------------------------------------
(* The operators *)

LEMMA PutFacts ==
  ASSUME task \in [ClientTasks -> Task], NEW t \in ClientTasks, NEW c \in Clients,
         NEW at \in {"new", "spawn", "wait", "expired", "answered", "failed", "notifying",
                    "closing", "done"},
         NEW step \in Steps, NEW id \in Nat, Put(t, at, c, step, id)
  PROVE  /\ task' \in [ClientTasks -> Task]
         /\ task'[t].at = at /\ task'[t].of = {c} /\ task'[t].step = step /\ task'[t].id = id
         /\ \A u \in ClientTasks : u # t => task'[u] = task[u]
<1> DEFINE new == [at |-> at, of |-> {c}, step |-> step, id |-> id]
<1>1. new \in Task /\ new.at = at /\ new.of = {c} /\ new.step = step /\ new.id = id
  BY DEF Task
<1>2. task' = [task EXCEPT ![t] = new]
  BY DEF Put
<1> HIDE DEF new
<1> QED
  BY <1>1, <1>2

LEMMA FailingFacts ==
  ASSUME task \in [ClientTasks -> Task], NEW ts
  PROVE  /\ Failing(ts) \in [ClientTasks -> Task]
         /\ \A t \in ClientTasks :
              /\ Failing(ts)[t].of = task[t].of /\ Failing(ts)[t].step = task[t].step
              /\ IF t \in ts /\ task[t].at = "wait" THEN Failing(ts)[t].at = "failed"
                                                    ELSE Failing(ts)[t] = task[t]
<1> DEFINE failed(t) == [task[t] EXCEPT !.at = "failed", !.id = 0]
<1>1. ASSUME NEW t \in ClientTasks
      PROVE  failed(t) \in Task /\ failed(t).at = "failed"
             /\ failed(t).of = task[t].of /\ failed(t).step = task[t].step
  <2>1. task[t] \in Task
    OBVIOUS
  <2> QED
    BY <2>1 DEF Task
<1>2. Failing(ts) = [t \in ClientTasks |-> IF t \in ts /\ task[t].at = "wait" THEN failed(t) ELSE task[t]]
  BY DEF Failing
<1> HIDE DEF failed
<1>3. \A t \in ClientTasks : Failing(ts)[t] = IF t \in ts /\ task[t].at = "wait" THEN failed(t) ELSE task[t]
  BY <1>2
<1>4. Failing(ts) \in [ClientTasks -> Task]
  BY <1>1, <1>2
<1>5. ASSUME NEW t \in ClientTasks
      PROVE  /\ Failing(ts)[t].of = task[t].of /\ Failing(ts)[t].step = task[t].step
             /\ IF t \in ts /\ task[t].at = "wait" THEN Failing(ts)[t].at = "failed"
                                                   ELSE Failing(ts)[t] = task[t]
  BY <1>1, <1>3
<1> QED
  BY <1>4, <1>5

LEMMA ReadOnFacts ==
  ASSUME Shape, OwnerInv, NEW p \in Procs, NEW c \in owner[p]
  PROVE  /\ ReadOn(p, c).next \in Reader
         /\ ReadOn(p, c).next.at = "read" <=> ReadOn(p, c).next.on # {}
         /\ \A q \in ReadOn(p, c).next.on : owner[q] = owner[p]
<1>1. c \in Clients /\ owner[p] = {c} /\ proc[c] \subseteq Procs
  BY DEF Shape, OwnerInv, Atmost1
<1>2. \/ ReadOn(p, c).next = [at |-> "done", on |-> {}]
      \/ proc[c] # {} /\ ReadOn(p, c).next = [at |-> "read", on |-> proc[c]]
  BY DEF ReadOn
<1>3. CASE ReadOn(p, c).next = [at |-> "done", on |-> {}]
  BY <1>3 DEF Reader
<1>4. CASE proc[c] # {} /\ ReadOn(p, c).next = [at |-> "read", on |-> proc[c]]
  BY <1>1, <1>4 DEF Reader, OwnerInv
<1> QED
  BY <1>2, <1>3, <1>4

LEMMA OfFacts ==
  ASSUME NEW c, pending \subseteq ClientTasks
  PROVE  /\ Of(c) \subseteq pending
         /\ \A t \in pending : t \in Of(c) <=> task[t].of = {c}
BY DEF Of

LEMMA NewClientFacts == NewClient \subseteq Clients
BY DEF NewClient

LEMMA DoneFacts ==
  /\ Done \in Task /\ Done.at = "done" /\ Done.of = {}
  /\ NewTask \in Task /\ NewTask.at = "new" /\ NewTask.of = {}
BY DEF Done, NewTask, Task, Steps

LEMMA SpawningFacts ==
  ASSUME NEW c \in Clients
  PROVE  Spawning(c) \in Task /\ Spawning(c).at = "spawn" /\ Spawning(c).of = {c}
BY DEF Spawning, Task, Steps

-----------------------------------------------------------------------------
(* Two kinds of steps *)

\* What messages a step may leave with a process: those it had, and one that t sends to
\* a process of c.
Mail(t, c, step) ==
  \A p \in Procs, d \in Clients : owner'[p] = {d} =>
    \A m \in inbox'[p] \cup answers'[p] :
      \/ owner[p] = {d} /\ m \in inbox[p] \cup answers[p]
      \/ d = c /\ m = <<nextId[c], step, t>>

\* The task t sends a request to a process of c, and waits.
Asks(t, c, step) ==
  /\ t \notin pending /\ pending' = pending \cup {t}
  /\ nextId' = [nextId EXCEPT ![c] = nextId[c] + 1]
  /\ task'[t].at = "wait" /\ task'[t].of = {c} /\ task'[t].step = step
  /\ task'[t].id = nextId[c]
  /\ \A u \in ClientTasks : u # t => task'[u] = task[u]
  /\ Mail(t, c, step)

\* No request is sent, and those that still wait do so as before.
Settles ==
  /\ pending' \subseteq pending /\ \A c \in Clients : nextId'[c] >= nextId[c]
  /\ \A t \in pending' :
       /\ task'[t].of = task[t].of /\ task'[t].step = task[t].step /\ task'[t].id = task[t].id
       /\ task'[t].at \in {"wait", "expired"}
  /\ \A t \in ClientTasks : task'[t].at = "wait" => t \in pending'
  /\ \A p \in Procs : /\ owner'[p] = owner[p]
                      /\ inbox'[p] \cup answers'[p] \subseteq inbox[p] \cup answers[p]

LEMMA AsksKeeps ==
  ASSUME RequestInv, NEW t \in ClientTasks, NEW c \in Clients, NEW step \in Steps,
         Asks(t, c, step)
  PROVE  PendingIsWaiting' /\ IdInv' /\ MessageInv'
<1> USE DEF RequestInv
<1>1. /\ t \notin pending /\ pending' = pending \cup {t}
      /\ task'[t].at = "wait" /\ task'[t].of = {c} /\ task'[t].step = step
      /\ task'[t].id = nextId[c]
      /\ \A u \in ClientTasks : u # t => task'[u] = task[u]
  BY DEF Asks
<1>2. /\ nextId'[c] = nextId[c] + 1 /\ \A d \in Clients : d # c => nextId'[d] = nextId[d]
      /\ \A d \in Clients : nextId[d] \in Nat /\ nextId'[d] >= nextId[d]
  BY DEF Asks, Shape
<1>3. \A u \in pending : u \in ClientTasks /\ u # t /\ task'[u] = task[u] /\ task[u].id \in Nat
  BY <1>1 DEF Shape, Task
<1>4. PendingIsWaiting'
  BY <1>1 DEF PendingIsWaiting
<1>5. \A u \in pending : task[u].of = {c} => task[u].id < nextId[c]
  BY DEF IdInv
<1>6. IdInv'
  <2>1. ASSUME NEW u \in pending', NEW d \in Clients, task'[u].of = {d}
        PROVE  task'[u].id < nextId'[d]
    <3>1. CASE u = t
      BY <1>1, <1>2, <2>1, <3>1
    <3>2. CASE u # t
      <4>1. u \in pending /\ task[u].of = {d}
        BY <1>1, <1>3, <2>1, <3>2
      <4>2. task[u].id < nextId[d]
        BY <4>1 DEF IdInv
      <4> QED
        BY <4>1, <4>2, <1>2, <1>3
    <3> QED
      BY <3>1, <3>2
  <2>2. ASSUME NEW u \in pending', NEW v \in pending', u # v, task'[u].of = task'[v].of,
               task'[u].id = task'[v].id
        PROVE  FALSE
    <3>1. CASE u = t
      BY <1>1, <1>2, <1>3, <1>5, <2>2, <3>1
    <3>2. CASE v = t
      BY <1>1, <1>2, <1>3, <1>5, <2>2, <3>2
    <3>3. CASE u # t /\ v # t
      BY <1>1, <1>3, <2>2, <3>3 DEF IdInv
    <3> QED
      BY <3>1, <3>2, <3>3
  <2> QED
    BY <2>1, <2>2 DEF IdInv
<1>7. MessageInv'
  <2> SUFFICES ASSUME NEW p \in Procs, NEW d \in Clients, owner'[p] = {d},
                      NEW m \in inbox'[p] \cup answers'[p]
               PROVE  /\ m[1] < nextId'[d]
                      /\ \A u \in pending' : task'[u].of = {d} /\ task'[u].id = m[1]
                                               => m = <<task'[u].id, task'[u].step, u>>
    BY DEF MessageInv
  <2>1. CASE owner[p] = {d} /\ m \in inbox[p] \cup answers[p]
    <3>1. /\ m[1] < nextId[d]
          /\ \A u \in pending : task[u].of = {d} /\ task[u].id = m[1]
                                  => m = <<task[u].id, task[u].step, u>>
      BY <2>1 DEF MessageInv
    <3>2. m[1] \in Nat
      BY <2>1 DEF Shape, Message
    <3>3. m[1] < nextId'[d]
      BY <3>1, <3>2, <1>2
    <3>4. \A u \in pending' : task'[u].of = {d} /\ task'[u].id = m[1]
                                => m = <<task'[u].id, task'[u].step, u>>
      <4>1. task'[t].of = {d} => task'[t].id # m[1]
        BY <1>1, <1>2, <3>1, <3>2
      <4> QED
        BY <1>1, <1>3, <3>1, <4>1
    <3> QED
      BY <3>3, <3>4
  <2>2. CASE d = c /\ m = <<nextId[c], step, t>>
    <3>1. m[1] = nextId[c]
      BY <2>2
    <3>2. \A u \in pending' : task'[u].of = {d} /\ task'[u].id = m[1] => u = t
      BY <1>1, <1>2, <1>3, <1>5, <2>2, <3>1
    <3>3. m = <<task'[t].id, task'[t].step, t>>
      BY <1>1, <2>2
    <3> QED
      BY <1>2, <2>2, <3>1, <3>2, <3>3
  <2> QED
    BY <2>1, <2>2 DEF Asks, Mail
<1> QED
  BY <1>4, <1>6, <1>7

LEMMA SettlesKeeps ==
  ASSUME RequestInv, nextId' \in [Clients -> Nat], Settles
  PROVE  PendingIsWaiting' /\ IdInv' /\ MessageInv'
<1> USE DEF RequestInv
<1>1. /\ pending' \subseteq pending /\ \A c \in Clients : nextId'[c] >= nextId[c]
      /\ \A t \in pending' :
           /\ task'[t].of = task[t].of /\ task'[t].step = task[t].step /\ task'[t].id = task[t].id
           /\ task'[t].at \in {"wait", "expired"}
      /\ \A t \in ClientTasks : task'[t].at = "wait" => t \in pending'
      /\ \A p \in Procs : /\ owner'[p] = owner[p]
                          /\ inbox'[p] \cup answers'[p] \subseteq inbox[p] \cup answers[p]
  BY DEF Settles
<1>2. \A c \in Clients : nextId[c] \in Nat /\ nextId'[c] \in Nat
  BY DEF Shape
<1>3. \A t \in pending : t \in ClientTasks /\ task[t].id \in Nat
  BY DEF Shape, Task
<1>4. PendingIsWaiting'
  BY <1>1, <1>3 DEF PendingIsWaiting
<1>5. IdInv'
  <2>1. ASSUME NEW u \in pending', NEW d \in Clients, task'[u].of = {d}
        PROVE  task'[u].id < nextId'[d]
    <3>1. u \in pending /\ task[u].of = {d} /\ task'[u].id = task[u].id
      BY <1>1, <2>1
    <3>2. task[u].id < nextId[d]
      BY <3>1 DEF IdInv
    <3> QED
      BY <1>1, <1>2, <1>3, <3>1, <3>2
  <2>2. \A u, v \in pending' : task'[u].of = task'[v].of /\ task'[u].id = task'[v].id => u = v
    BY <1>1 DEF IdInv
  <2> QED
    BY <2>1, <2>2 DEF IdInv
<1>6. MessageInv'
  <2> SUFFICES ASSUME NEW p \in Procs, NEW d \in Clients, owner'[p] = {d},
                      NEW m \in inbox'[p] \cup answers'[p]
               PROVE  /\ m[1] < nextId'[d]
                      /\ \A u \in pending' : task'[u].of = {d} /\ task'[u].id = m[1]
                                               => m = <<task'[u].id, task'[u].step, u>>
    BY DEF MessageInv
  <2>1. owner[p] = {d} /\ m \in inbox[p] \cup answers[p]
    BY <1>1
  <2>2. /\ m[1] < nextId[d]
        /\ \A u \in pending : task[u].of = {d} /\ task[u].id = m[1]
                                => m = <<task[u].id, task[u].step, u>>
    BY <2>1 DEF MessageInv
  <2>5. m[1] \in Nat
    BY <2>1 DEF Shape, Message
  <2>3. m[1] < nextId'[d]
    BY <1>1, <1>2, <2>2, <2>5
  <2>4. \A u \in pending' : task'[u].of = {d} /\ task'[u].id = m[1]
                              => m = <<task'[u].id, task'[u].step, u>>
    BY <1>1, <2>2
  <2> QED
    BY <2>3, <2>4
<1> QED
  BY <1>4, <1>5, <1>6

-----------------------------------------------------------------------------
(* Requests *)

\* t goes on with a request to c: it waits for the answer or a process, or has failed.
GoesOn(t, c) ==
  /\ task' \in [ClientTasks -> Task]
  /\ task'[t].of = {c} /\ task'[t].at \in {"wait", "failed", "spawn"}
  /\ \A u \in ClientTasks : u # t => task'[u] = task[u]
  /\ nextId' \in [Clients -> Nat] /\ pending' \subseteq ClientTasks
  /\ inbox' \in [Procs -> SUBSET Message]
  /\ \A q \in Procs : inbox'[q] # {} => inbox[q] # {} \/ q \in alive
  /\ Settles \/ \E step \in Steps : Asks(t, c, step)

LEMMA SendEffect ==
  ASSUME RequestInv, NEW t \in ClientTasks, t \notin pending, NEW c \in Clients,
         NEW step \in Steps, NEW p \in proc[c], Send(t, c, step, p),
         UNCHANGED <<owner, answers>>
  PROVE  GoesOn(t, c)
<1> USE DEF RequestInv
<1> DEFINE n == nextId[c]
           new == <<n, step, t>>
<1>1. n \in Nat /\ p \in Procs /\ owner[p] = {c} /\ new \in Message
  BY DEF Shape, OwnerInv, Message
<1>2. nextId' = [nextId EXCEPT ![c] = n + 1]
  BY DEF Send
<1>3. /\ nextId' \in [Clients -> Nat] /\ nextId'[c] = n + 1
      /\ \A d \in Clients : nextId'[d] >= nextId[d]
  BY <1>1, <1>2 DEF Shape
<1>4. CASE /\ pending' = pending \cup {t}
           /\ Put(t, "wait", c, step, RequestId(c))
           /\ inbox' = IF p \in alive THEN [inbox EXCEPT ![p] = @ \cup {<<RequestId(c), step, t>>}]
                                      ELSE inbox
  <2>1. Put(t, "wait", c, step, n) /\ task \in [ClientTasks -> Task]
    BY <1>4 DEF RequestId, Shape
  <2>2. /\ task' \in [ClientTasks -> Task]
        /\ task'[t].at = "wait" /\ task'[t].of = {c} /\ task'[t].step = step /\ task'[t].id = n
        /\ \A u \in ClientTasks : u # t => task'[u] = task[u]
    BY <1>1, <2>1, PutFacts
  <2>3. inbox' = IF p \in alive THEN [inbox EXCEPT ![p] = inbox[p] \cup {new}] ELSE inbox
    BY <1>4 DEF RequestId
  <2> HIDE DEF new
  <2>4. /\ inbox' \in [Procs -> SUBSET Message]
        /\ \A q \in Procs : q # p \/ p \notin alive => inbox'[q] = inbox[q]
        /\ inbox'[p] \subseteq inbox[p] \cup {new}
    BY <1>1, <2>3 DEF Shape
  <2>5. \A q \in Procs : inbox'[q] # {} => inbox[q] # {} \/ q \in alive
    BY <2>4
  <2>6. Mail(t, c, step)
    <3> SUFFICES ASSUME NEW q \in Procs, NEW d \in Clients, owner'[q] = {d},
                        NEW m \in inbox'[q] \cup answers'[q]
                 PROVE  \/ owner[q] = {d} /\ m \in inbox[q] \cup answers[q]
                        \/ d = c /\ m = new
      BY DEF Mail, new
    <3> QED
      BY <1>1, <2>4
  <2>7. Asks(t, c, step)
    BY <1>2, <1>4, <2>2, <2>6 DEF Asks
  <2>8. pending' \subseteq ClientTasks
    BY <1>4 DEF Shape
  <2> QED
    BY <1>3, <2>2, <2>4, <2>5, <2>7, <2>8 DEF GoesOn
<1>5. CASE /\ p \notin alive
           /\ Put(t, "failed", c, step, 0)
           /\ UNCHANGED <<pending, inbox>>
  <2>1. task \in [ClientTasks -> Task]
    BY DEF Shape
  <2>2. /\ task' \in [ClientTasks -> Task]
        /\ task'[t].at = "failed" /\ task'[t].of = {c}
        /\ \A u \in ClientTasks : u # t => task'[u] = task[u]
    BY <1>5, <2>1, PutFacts
  <2>3. Settles
    BY <1>3, <1>5, <2>2 DEF Settles, PendingIsWaiting, Shape
  <2>4. pending' \subseteq ClientTasks /\ inbox' \in [Procs -> SUBSET Message]
        /\ \A q \in Procs : inbox'[q] # {} => inbox[q] # {}
    BY <1>5 DEF Shape
  <2> QED
    BY <1>3, <2>2, <2>3, <2>4 DEF GoesOn
<1> QED
  BY <1>4, <1>5 DEF Send

LEMMA RequestEffect ==
  ASSUME RequestInv, NEW t \in ClientTasks, t \notin pending, NEW c \in Clients,
         NEW step \in Steps, Request(t, c, step), UNCHANGED <<owner, answers>>
  PROVE  GoesOn(t, c)
<1> USE DEF RequestInv
<1>3. CASE /\ proc[c] = {}
           /\ Put(t, "spawn", c, step, 0)
           /\ UNCHANGED <<requests, inbox>>
  <2>1. task \in [ClientTasks -> Task]
    BY DEF Shape
  <2>2. /\ task' \in [ClientTasks -> Task]
        /\ task'[t].at = "spawn" /\ task'[t].of = {c}
        /\ \A u \in ClientTasks : u # t => task'[u] = task[u]
    BY <1>3, <2>1, PutFacts
  <2>3. UNCHANGED <<pending, nextId, inbox>>
    BY <1>3 DEF requests
  <2>4. Settles
    BY <2>2, <2>3 DEF Settles, PendingIsWaiting, Shape
  <2>5. pending' \subseteq ClientTasks /\ inbox' \in [Procs -> SUBSET Message]
        /\ nextId' \in [Clients -> Nat]
        /\ \A q \in Procs : inbox'[q] # {} => inbox[q] # {}
    BY <2>3 DEF Shape
  <2> QED
    BY <2>2, <2>4, <2>5 DEF GoesOn
<1>4. CASE \E p \in proc[c] : Send(t, c, step, p)
  BY <1>4, SendEffect
<1> QED
  BY <1>3, <1>4 DEF Request

LEMMA BeginRequests ==
  ASSUME NEW t, NEW c, Begin(t, c) PROVE \E step \in Steps : Request(t, c, step)
<1> DEFINE step == IF initialized[c] THEN "main" ELSE "initialize"
<1>1. step \in Steps
  BY DEF Steps
<1>2. Request(t, c, step)
  BY Zenon DEF Begin
<1> QED
  BY <1>1, <1>2

LEMMA BeginEffect ==
  ASSUME RequestInv, NEW t \in ClientTasks, t \notin pending, NEW c \in Clients,
         Begin(t, c), UNCHANGED <<owner, answers>>
  PROVE  GoesOn(t, c)
BY BeginRequests, RequestEffect

\* A step that goes on with a request keeps the invariant, if it leaves the processes.
LEMMA GoesOnKeeps ==
  ASSUME RequestInv, NEW t \in ClientTasks, NEW c \in Clients, GoesOn(t, c),
         UNCHANGED <<proc, owner, alive, answers, readTask>>,
         registered' \subseteq Clients /\ tools' \subseteq Clients,
         Atmost1(registered') /\ Atmost1(tools'),
         spec' \in Keys \cup {"none"} /\ status' \in {"none", "ready", "error"},
         wanted' \in [Passes -> Keys \cup {"off", "none"}]
  PROVE  RequestInv'
<1> USE DEF RequestInv
<1>1. /\ task' \in [ClientTasks -> Task]
      /\ task'[t].of = {c} /\ task'[t].at \in {"wait", "failed", "spawn"}
      /\ \A u \in ClientTasks : u # t => task'[u] = task[u]
      /\ nextId' \in [Clients -> Nat] /\ pending' \subseteq ClientTasks
      /\ inbox' \in [Procs -> SUBSET Message]
      /\ \A q \in Procs : inbox'[q] # {} => inbox[q] # {} \/ q \in alive
  BY DEF GoesOn
<1>2. PendingIsWaiting' /\ IdInv' /\ MessageInv'
  BY <1>1, AsksKeeps, SettlesKeeps DEF GoesOn
<1>3. Shape'
  BY <1>1 DEF Shape, Atmost1
<1>4. OwnerInv'
  BY <1>1 DEF OwnerInv, Atmost1
<1>5. PlaceInv'
  BY <1>1 DEF PlaceInv
<1> QED
  BY <1>2, <1>3, <1>4, <1>5

LEMMA SpawnedKeeps ==
  ASSUME RequestInv, NEW t \in ClientTasks, NEW c \in Clients, Spawned(t, c)
  PROVE  RequestInv'
<1> USE DEF RequestInv
<1> DEFINE n == nextId[c]
           step == IF task[t].step = "notify" THEN "main" ELSE task[t].step
           new == <<n, step, t>>
<1>1. task[t] \in Task /\ task[t].at = "spawn" /\ task[t].of = {c} /\ t \notin pending
  BY DEF Spawned, Is, Shape, PendingIsWaiting
<1>2. step \in Steps /\ n \in Nat
  BY <1>1 DEF Task, Steps, Shape
<1>3. new \in Message
  BY <1>2 DEF Message
<1>4. PICK p \in Procs :
       /\ owner[p] = {}
       /\ owner' = [owner EXCEPT ![p] = {c}] /\ alive' = alive \cup {p}
       /\ readTask' = [readTask EXCEPT ![p].at = "start"]
       /\ proc' = [proc EXCEPT ![c] = {p}]
       /\ nextId' = [nextId EXCEPT ![c] = n + 1] /\ pending' = pending \cup {t}
       /\ Put(t, "wait", c, step, n)
       /\ inbox' = [inbox EXCEPT ![p] = {new}]
  BY Zenon DEF Spawned, RequestId
<1>5. UNCHANGED <<registered, tools, spec, status, answers, wanted>>
  BY DEF Spawned, daemon, payloads
<1> HIDE DEF new, step
<1>6. /\ task' \in [ClientTasks -> Task]
      /\ task'[t].at = "wait" /\ task'[t].of = {c} /\ task'[t].step = step /\ task'[t].id = n
      /\ \A u \in ClientTasks : u # t => task'[u] = task[u]
  <2>1. task \in [ClientTasks -> Task]
    BY DEF Shape
  <2> QED
    BY <1>2, <1>4, <2>1, PutFacts
<1>7. /\ owner' \in [Procs -> SUBSET Clients] /\ owner'[p] = {c}
      /\ \A q \in Procs : q # p => owner'[q] = owner[q]
  BY <1>4 DEF Shape
<1>8. /\ inbox' \in [Procs -> SUBSET Message] /\ inbox'[p] = {new}
      /\ \A q \in Procs : q # p => inbox'[q] = inbox[q]
  BY <1>3, <1>4 DEF Shape
<1>9. answers[p] = {} /\ readTask[p] = NoReader
  BY <1>4 DEF OwnerInv
<1>10. /\ readTask' \in [Procs -> Reader] /\ readTask'[p] = [at |-> "start", on |-> {}]
       /\ \A q \in Procs : q # p => readTask'[q] = readTask[q]
  <2> DEFINE start == [at |-> "start", on |-> {}]
  <2>1. start \in Reader
    BY DEF Reader
  <2>2. [readTask[p] EXCEPT !.at = "start"] = start
    BY <1>9 DEF NoReader
  <2>3. readTask' = [readTask EXCEPT ![p] = start]
    BY <1>4, <2>2
  <2>4. readTask \in [Procs -> Reader]
    BY DEF Shape
  <2> HIDE DEF start
  <2>5. /\ readTask' \in [Procs -> Reader] /\ readTask'[p] = start
        /\ \A q \in Procs : q # p => readTask'[q] = readTask[q]
    BY <2>1, <2>3, <2>4
  <2> QED
    BY <2>5 DEF start
<1>11. /\ proc' \in [Clients -> SUBSET Procs] /\ proc'[c] = {p}
       /\ \A d \in Clients : d # c => proc'[d] = proc[d]
  BY <1>4 DEF Shape
<1>12. Asks(t, c, step)
  <2>1. Mail(t, c, step)
    <3> SUFFICES ASSUME NEW q \in Procs, NEW d \in Clients, owner'[q] = {d},
                        NEW m \in inbox'[q] \cup answers'[q]
                 PROVE  \/ owner[q] = {d} /\ m \in inbox[q] \cup answers[q]
                        \/ d = c /\ m = new
      BY DEF Mail, new
    <3> QED
      BY <1>5, <1>7, <1>8, <1>9
  <2> QED
    BY <1>1, <1>4, <1>6, <2>1 DEF Asks
<1>13. PendingIsWaiting' /\ IdInv' /\ MessageInv'
  BY <1>2, <1>12, AsksKeeps
<1>14. Shape'
  <2>1. nextId' \in [Clients -> Nat] /\ pending' \subseteq ClientTasks /\ alive' \subseteq Procs
    BY <1>2, <1>4 DEF Shape
  <2>2. /\ registered' \subseteq Clients /\ tools' \subseteq Clients
        /\ Atmost1(registered)' /\ Atmost1(tools)'
        /\ spec' \in Keys \cup {"none"} /\ status' \in {"none", "ready", "error"}
        /\ wanted' \in [Passes -> Keys \cup {"off", "none"}]
        /\ answers' \in [Procs -> SUBSET Message]
    BY <1>5 DEF Shape, Atmost1
  <2> QED
    BY Zenon, <1>6, <1>7, <1>8, <1>10, <1>11, <2>1, <2>2 DEF Shape
<1>15. OwnerInv'
  <2>1. \A d \in Clients : \A q \in proc'[d] : owner'[q] = {d}
    <3> SUFFICES ASSUME NEW d \in Clients, NEW q \in proc'[d] PROVE owner'[q] = {d}
      OBVIOUS
    <3>1. CASE d = c
      BY <1>7, <1>11, <3>1
    <3>2. CASE d # c
      <4>1. q \in proc[d] /\ q \in Procs
        BY <1>11, <3>2 DEF Shape
      <4>2. owner[q] = {d} /\ q # p
        BY <1>4, <4>1 DEF OwnerInv
      <4> QED
        BY <1>7, <4>1, <4>2
    <3> QED
      BY <3>1, <3>2
  <2>2. ASSUME NEW q \in Procs
        PROVE  /\ Atmost1(owner'[q])
               /\ owner'[q] = {} => answers'[q] = {} /\ readTask'[q] = NoReader
               /\ \A r \in readTask'[q].on : owner'[r] = owner'[q]
               /\ readTask'[q].at = "read" <=> readTask'[q].on # {}
               /\ inbox'[q] # {} => q \in alive'
               /\ q \in alive' => owner'[q] # {}
    <3>1. CASE q = p
      BY <1>4, <1>7, <1>8, <1>10, <3>1 DEF Atmost1
    <3>2. CASE q # p
      <4>1. \A r \in readTask[q].on : r \in Procs /\ owner[r] = owner[q] /\ owner[q] # {}
        BY DEF OwnerInv, Shape, Reader, NoReader
      <4>2. \A r \in readTask'[q].on : owner'[r] = owner'[q]
        BY <1>4, <1>7, <1>10, <3>2, <4>1
      <4> QED
        BY <1>4, <1>5, <1>7, <1>8, <1>10, <3>2, <4>2 DEF OwnerInv, Atmost1
    <3> QED
      BY <3>1, <3>2
  <2> QED
    BY <2>1, <2>2 DEF OwnerInv, Atmost1
<1>16. PlaceInv'
  BY <1>6 DEF PlaceInv
<1> QED
  BY <1>13, <1>14, <1>15, <1>16

-----------------------------------------------------------------------------
(* Steps without a request *)

DaemonTyped ==
  /\ registered' \subseteq Clients /\ tools' \subseteq Clients
  /\ Atmost1(registered') /\ Atmost1(tools')
  /\ spec' \in Keys \cup {"none"} /\ status' \in {"none", "ready", "error"}
  /\ wanted' \in [Passes -> Keys \cup {"off", "none"}]

\* Processes end and clients drop theirs.
ProcsDrop ==
  /\ proc' \in [Clients -> SUBSET Procs] /\ \A c \in Clients : proc'[c] \subseteq proc[c]
  /\ alive' \subseteq alive /\ inbox' \in [Procs -> SUBSET Message]
  /\ \A p \in Procs : inbox'[p] \subseteq inbox[p] /\ (inbox'[p] # {} => p \in alive')

\* The task r goes on to another place than a request; requests of others may fail.
Moved(r) ==
  /\ task' \in [ClientTasks -> Task] /\ pending' \subseteq pending
  /\ r \in pending' => /\ task'[r].at = "expired" /\ task'[r].of = task[r].of
                       /\ task'[r].step = task[r].step /\ task'[r].id = task[r].id
  /\ task'[r].at # "wait" /\ (task'[r].of = {} <=> task'[r].at \in {"new", "done"})
  /\ \A u \in ClientTasks \ {r} :
       \/ u \in pending \ pending' /\ task'[u].of = task[u].of
                                   /\ task'[u].at \in {"expired", "failed"}
       \/ (u \in pending => u \in pending') /\ task'[u] = task[u]

LEMMA MovedKeeps ==
  ASSUME RequestInv, NEW r \in ClientTasks, Moved(r), ProcsDrop, DaemonTyped,
         UNCHANGED <<nextId, owner, answers, readTask>>
  PROVE  RequestInv'
<1> USE DEF RequestInv
<1>1. /\ task' \in [ClientTasks -> Task] /\ pending' \subseteq pending
      /\ pending \subseteq ClientTasks /\ pending' \subseteq ClientTasks
      /\ r \in pending' => /\ task'[r].at = "expired" /\ task'[r].of = task[r].of
                           /\ task'[r].step = task[r].step /\ task'[r].id = task[r].id
      /\ task'[r].at # "wait" /\ (task'[r].of = {} <=> task'[r].at \in {"new", "done"})
      /\ \A u \in ClientTasks \ {r} :
           \/ u \in pending \ pending' /\ task'[u].of = task[u].of
                                       /\ task'[u].at \in {"expired", "failed"}
           \/ (u \in pending => u \in pending') /\ task'[u] = task[u]
  BY DEF Moved, Shape
<1>2. Settles
  <2>1. \A c \in Clients : nextId'[c] >= nextId[c]
    BY DEF Shape
  <2>2. ASSUME NEW u \in pending'
        PROVE  /\ task'[u].of = task[u].of /\ task'[u].step = task[u].step /\ task'[u].id = task[u].id
               /\ task'[u].at \in {"wait", "expired"}
    BY <1>1 DEF PendingIsWaiting
  <2>3. \A u \in ClientTasks : task'[u].at = "wait" => u \in pending'
    BY <1>1 DEF PendingIsWaiting
  <2>4. \A p \in Procs : inbox'[p] \cup answers'[p] \subseteq inbox[p] \cup answers[p]
    BY DEF ProcsDrop
  <2> QED
    BY <1>1, <2>1, <2>2, <2>3, <2>4 DEF Settles
<1>3. nextId' \in [Clients -> Nat]
  BY DEF Shape
<1>4. PendingIsWaiting' /\ IdInv' /\ MessageInv'
  BY <1>2, <1>3, SettlesKeeps
<1>5. Shape'
  BY <1>1, <1>3 DEF Shape, ProcsDrop, DaemonTyped, Atmost1
<1>6. OwnerInv'
  BY DEF OwnerInv, ProcsDrop, Atmost1
<1>7. PlaceInv'
  <2>1. ASSUME NEW u \in ClientTasks
        PROVE  task'[u].of = {} <=> task'[u].at \in {"new", "done"}
    BY <1>1 DEF PlaceInv, PendingIsWaiting
  <2> QED
    BY <2>1 DEF PlaceInv
<1> QED
  BY <1>4, <1>5, <1>6, <1>7

\* The daemon's maps are as they were, or the clients' processes.
LEMMA SameDaemon ==
  ASSUME Shape, UNCHANGED <<registered, tools, spec, status, wanted>>
  PROVE  DaemonTyped
BY DEF Shape, DaemonTyped, Atmost1

LEMMA SameProcs ==
  ASSUME Shape, OwnerInv, UNCHANGED <<proc, alive, inbox>>
  PROVE  ProcsDrop
BY DEF Shape, OwnerInv, ProcsDrop

\* One task changes, and its request, if it has one, is over.
LEMMA OneMoves ==
  ASSUME RequestInv, NEW r \in ClientTasks, NEW x \in Task,
         task' = [task EXCEPT ![r] = x], pending' \in {pending, pending \ {r}}, r \notin pending',
         x.at # "wait", x.of = {} <=> x.at \in {"new", "done"}
  PROVE  Moved(r)
<1>1. /\ task' \in [ClientTasks -> Task] /\ task'[r] = x
      /\ \A u \in ClientTasks : u # r => task'[u] = task[u]
  BY DEF RequestInv, Shape
<1>2. pending' \subseteq pending /\ \A u \in ClientTasks \ {r} : u \in pending => u \in pending'
  OBVIOUS
<1> QED
  BY <1>1, <1>2 DEF Moved

\* A client is closed: its requests fail, and the task that closes it goes on.
LEMMA CloseMoves ==
  ASSUME RequestInv, NEW r \in ClientTasks, r \notin pending, NEW c \in Clients, NEW x \in Task,
         task' = [Failing(Of(c)) EXCEPT ![r] = x], pending' = pending \ Of(c),
         x.at # "wait", x.of = {} <=> x.at \in {"new", "done"}
  PROVE  Moved(r)
<1> DEFINE ts == Failing(Of(c))
<1>1. task \in [ClientTasks -> Task] /\ pending \subseteq ClientTasks
  BY DEF RequestInv, Shape
<1>2. /\ ts \in [ClientTasks -> Task]
      /\ \A u \in ClientTasks :
           /\ ts[u].of = task[u].of
           /\ IF u \in Of(c) /\ task[u].at = "wait" THEN ts[u].at = "failed" ELSE ts[u] = task[u]
  BY <1>1, FailingFacts
<1>3. Of(c) \subseteq pending
  BY <1>1, OfFacts
<1> HIDE DEF ts
<1>4. /\ task' \in [ClientTasks -> Task] /\ task'[r] = x
      /\ \A u \in ClientTasks : u # r => task'[u] = ts[u]
  BY <1>2 DEF ts
<1>5. ASSUME NEW u \in ClientTasks \ {r}
      PROVE  \/ u \in pending \ pending' /\ task'[u].of = task[u].of
                                         /\ task'[u].at \in {"expired", "failed"}
             \/ (u \in pending => u \in pending') /\ task'[u] = task[u]
  <2>1. CASE u \in Of(c)
    <3>1. u \in pending /\ u \notin pending' /\ task[u].at \in {"wait", "expired"}
      BY <1>3, <2>1 DEF RequestInv, PendingIsWaiting
    <3> QED
      BY <1>2, <1>4, <2>1, <3>1
  <2>2. CASE u \notin Of(c)
    BY <1>2, <1>4, <2>2
  <2> QED
    BY <2>1, <2>2
<1> QED
  BY <1>4, <1>5 DEF Moved

-----------------------------------------------------------------------------
(* The steps of a client's coroutine *)

LEMMA OfClients ==
  ASSUME RequestInv, NEW t \in ClientTasks PROVE task[t].of \subseteq Clients
BY DEF RequestInv, Shape, Task

LEMMA ClientStepKeeps ==
  ASSUME RequestInv, NEW t \in ClientTasks, ClientStep(t)
  PROVE  RequestInv'
<1> USE DEF RequestInv
<1>1. PICK c \in Clients :
        \/ Spawned(t, c) \/ SpawnFails(t, c) \/ TimeoutFires(t, c) \/ TimeoutRaises(t, c)
        \/ DrainRaises(t, c) \/ Initialized(t, c) \/ Notified(t, c)
  BY OfClients DEF ClientStep
<1>2. task[t] \in Task /\ task[t].step \in Steps /\ task[t].id \in Nat /\ pending \subseteq ClientTasks
  BY DEF Shape, Task
<1> DEFINE place(at, step) == [at |-> at, of |-> {c}, step |-> step, id |-> 0]
<1>3. ASSUME NEW step \in Steps
      PROVE  /\ place("failed", step) \in Task /\ place("spawn", step) \in Task
             /\ place("notifying", step) \in Task /\ place("notifying", step).at = "notifying"
             /\ place("notifying", step).of = {c}
             /\ place("failed", step).at = "failed" /\ place("spawn", step).at = "spawn"
             /\ place("failed", step).of = {c} /\ place("spawn", step).of = {c}
  BY DEF Task
<1> HIDE DEF place
<1>4. CASE Spawned(t, c)
  BY <1>4, SpawnedKeeps
<1>5. CASE SpawnFails(t, c)
  <2>1. /\ task[t].at = "spawn" /\ task' = [task EXCEPT ![t] = place("failed", task[t].step)]
        /\ UNCHANGED <<registered, spec, status, tools, wanted>>
        /\ UNCHANGED <<proc, nextId, pending, owner, alive, inbox, answers, readTask>>
    BY <1>5 DEF SpawnFails, Is, Put, place, daemon, requests, wire, payloads
  <2>2. t \notin pending'
    BY <2>1 DEF PendingIsWaiting
  <2>3. Moved(t)
    BY <1>2, <1>3, <2>1, <2>2, OneMoves
  <2> QED
    BY <2>1, <2>3, SameDaemon, SameProcs, MovedKeeps
<1>6. CASE TimeoutFires(t, c)
  <2>1. /\ task[t].at = "wait" /\ task[t].of = {c} /\ task' = [task EXCEPT ![t].at = "expired"]
        /\ UNCHANGED <<registered, spec, status, tools, wanted>>
        /\ UNCHANGED <<proc, nextId, pending, owner, alive, inbox, answers, readTask>>
    BY <1>6 DEF TimeoutFires, Is, daemon, requests, wire, payloads
  <2>2. /\ task' \in [ClientTasks -> Task] /\ task'[t].at = "expired"
        /\ task'[t].of = task[t].of /\ task'[t].step = task[t].step /\ task'[t].id = task[t].id
        /\ \A u \in ClientTasks : u # t => task'[u] = task[u]
    <3> DEFINE x == [task[t] EXCEPT !.at = "expired"]
    <3>1. x \in Task /\ x.at = "expired" /\ x.of = task[t].of /\ x.step = task[t].step
          /\ x.id = task[t].id
      BY <1>2 DEF Task
    <3>2. task' = [task EXCEPT ![t] = x]
      BY <2>1
    <3>3. task \in [ClientTasks -> Task]
      BY DEF Shape
    <3> HIDE DEF x
    <3> QED
      BY <3>1, <3>2, <3>3
  <2>3. Moved(t)
    BY <2>1, <2>2 DEF Moved
  <2> QED
    BY <2>1, <2>3, SameDaemon, SameProcs, MovedKeeps
<1>7. CASE TimeoutRaises(t, c) \/ DrainRaises(t, c)
  <2>1. /\ pending' = pending \ {t}
        /\ task' = [task EXCEPT ![t] = place("failed", task[t].step)]
        /\ UNCHANGED <<registered, spec, status, tools, wanted>>
        /\ UNCHANGED <<proc, nextId, owner, alive, inbox, answers, readTask>>
    BY <1>7 DEF TimeoutRaises, DrainRaises, Put, place, daemon, wire, payloads
  <2>2. t \notin pending'
    BY <2>1
  <2>3. Moved(t)
    BY <1>2, <1>3, <2>1, <2>2, OneMoves
  <2> QED
    BY <2>1, <2>3, SameDaemon, SameProcs, MovedKeeps
<1>8. CASE Initialized(t, c)
  <2>1. task[t].at = "answered" /\ t \notin pending
        /\ UNCHANGED <<registered, spec, status, tools, wanted>>
        /\ UNCHANGED <<proc, owner, alive, answers, readTask>>
    BY <1>8 DEF Initialized, Is, daemon, payloads, PendingIsWaiting
  <2>2. DaemonTyped
    BY <2>1, SameDaemon
  <2>3. "notify" \in Steps /\ "main" \in Steps
    BY DEF Steps
  <2>4. CASE \E at \in {"spawn", "notifying", "failed"} :
               Put(t, at, c, "notify", 0) /\ UNCHANGED <<requests, inbox>>
    <3>1. /\ \E at \in {"spawn", "notifying", "failed"} : task' = [task EXCEPT ![t] = place(at, "notify")]
          /\ UNCHANGED <<nextId, pending, inbox>>
      BY <2>4 DEF Put, place, requests
    <3>2. Moved(t)
      BY <1>3, <2>1, <2>3, <3>1, OneMoves
    <3> QED
      BY <2>1, <2>2, <3>1, <3>2, SameProcs, MovedKeeps
  <2>5. CASE \E p \in proc[c] : Send(t, c, "main", p)
    <3>1. GoesOn(t, c)
      BY <2>1, <2>3, <2>5, SendEffect
    <3> QED
      BY <2>1, <2>2, <3>1, GoesOnKeeps DEF DaemonTyped
  <2> QED
    BY <1>8, <2>4, <2>5 DEF Initialized
<1>9. CASE Notified(t, c)
  <2>1. task[t].at = "notifying" /\ t \notin pending /\ Request(t, c, "main")
        /\ UNCHANGED <<registered, spec, status, tools, wanted>>
        /\ UNCHANGED <<proc, owner, alive, answers, readTask>>
    BY <1>9 DEF Notified, Is, daemon, payloads, PendingIsWaiting
  <2>2. DaemonTyped
    BY <2>1, SameDaemon
  <2>3. "main" \in Steps
    BY DEF Steps
  <2>4. GoesOn(t, c)
    BY <2>1, <2>3, RequestEffect
  <2> QED
    BY <2>1, <2>2, <2>4, GoesOnKeeps DEF DaemonTyped
<1> QED
  BY <1>1, <1>4, <1>5, <1>6, <1>7, <1>8, <1>9

-----------------------------------------------------------------------------
(* The steps of the server process and its reader *)

LEMMA AnswerKeeps ==
  ASSUME RequestInv, NEW p \in Procs, Answer(p) PROVE RequestInv'
<1> USE DEF RequestInv
<1>1. PICK m \in inbox[p] : /\ inbox' = [inbox EXCEPT ![p] = inbox[p] \ {m}]
                            /\ answers' = [answers EXCEPT ![p] = answers[p] \cup {m}]
  BY DEF Answer
<1>2. /\ p \in alive /\ UNCHANGED <<registered, spec, status, tools, wanted>>
      /\ UNCHANGED <<proc, nextId, pending, task, owner, alive, readTask>>
  BY DEF Answer, daemon, requests, payloads
<1>3. /\ inbox' \in [Procs -> SUBSET Message] /\ answers' \in [Procs -> SUBSET Message]
      /\ \A q \in Procs : q # p => inbox'[q] = inbox[q] /\ answers'[q] = answers[q]
      /\ inbox'[p] = inbox[p] \ {m} /\ answers'[p] = answers[p] \cup {m}
  BY <1>1 DEF Shape
<1>4. Settles
  <2>1. \A q \in Procs : inbox'[q] \cup answers'[q] \subseteq inbox[q] \cup answers[q]
    BY <1>1, <1>3
  <2>2. \A c \in Clients : nextId'[c] >= nextId[c]
    BY <1>2 DEF Shape
  <2> QED
    BY <1>2, <2>1, <2>2 DEF Settles, PendingIsWaiting, Shape
<1>5. nextId' \in [Clients -> Nat]
  BY <1>2 DEF Shape
<1>6. PendingIsWaiting' /\ IdInv' /\ MessageInv'
  BY <1>4, <1>5, SettlesKeeps
<1>7. Shape'
  BY <1>2, <1>3 DEF Shape, Atmost1
<1>8. OwnerInv'
  BY <1>1, <1>2, <1>3 DEF OwnerInv, Atmost1
<1>9. PlaceInv'
  BY <1>2 DEF PlaceInv
<1> QED
  BY <1>6, <1>7, <1>8, <1>9

LEMMA DieFacts ==
  ASSUME RequestInv, NEW ps, Die(ps)
  PROVE  /\ alive' \subseteq alive /\ inbox' \in [Procs -> SUBSET Message]
         /\ \A p \in Procs : inbox'[p] \subseteq inbox[p] /\ (inbox'[p] # {} => p \in alive')
BY DEF Die, RequestInv, Shape, OwnerInv

LEMMA StillKeeps ==
  ASSUME RequestInv, ProcsDrop, DaemonTyped,
         UNCHANGED <<task, pending, nextId, owner, answers, readTask>>
  PROVE  RequestInv'
<1> USE DEF RequestInv
<1>1. Settles
  <2>1. \A c \in Clients : nextId'[c] >= nextId[c]
    BY DEF Shape
  <2> QED
    BY <2>1 DEF Settles, PendingIsWaiting, Shape, ProcsDrop
<1>2. nextId' \in [Clients -> Nat]
  BY DEF Shape
<1>3. PendingIsWaiting' /\ IdInv' /\ MessageInv'
  BY <1>1, <1>2, SettlesKeeps
<1>4. Shape'
  BY DEF Shape, ProcsDrop, DaemonTyped, Atmost1
<1>5. OwnerInv' /\ PlaceInv'
  BY DEF OwnerInv, ProcsDrop, Atmost1, PlaceInv
<1> QED
  BY <1>3, <1>4, <1>5

LEMMA DrainedKeeps ==
  ASSUME RequestInv, NEW p \in Procs, Drained(p) PROVE RequestInv'
<1>1. /\ UNCHANGED <<registered, spec, status, tools, wanted>>
      /\ UNCHANGED <<proc, nextId, pending, task, owner, alive, inbox, answers, readTask>>
  BY DEF Drained, daemon, requests, payloads
<1> QED
  BY <1>1, SameDaemon, SameProcs, StillKeeps DEF RequestInv

LEMMA ServerDiesKeeps ==
  ASSUME RequestInv, NEW p \in Procs, ServerDies(p) PROVE RequestInv'
<1>1. /\ Die({p}) /\ UNCHANGED <<registered, spec, status, tools, wanted>>
      /\ UNCHANGED <<proc, nextId, pending, task, owner, answers, readTask>>
  BY DEF ServerDies, daemon, requests, payloads
<1>2. ProcsDrop
  BY <1>1, DieFacts DEF ProcsDrop, RequestInv, Shape
<1> QED
  BY <1>1, <1>2, SameDaemon, StillKeeps DEF RequestInv

\* The reader r goes on, or ends and fails the requests of its client; the hit ones were
\* answered.
Reads(r, c) ==
  /\ readTask' \in [Procs -> Reader]
  /\ \A p \in Procs : p # r => readTask'[p] = readTask[p]
  /\ readTask'[r].at = "read" <=> readTask'[r].on # {}
  /\ \A q \in readTask'[r].on : owner[q] = owner[r]
  /\ task' \in [ClientTasks -> Task] /\ pending' \subseteq pending
  /\ \A u \in ClientTasks :
       \/ u \in pending \ pending' /\ task'[u].of = task[u].of
                                   /\ task'[u].at \in {"expired", "failed", "answered"}
       \/ (u \in pending => u \in pending') /\ task'[u] = task[u]
  /\ answers' \in [Procs -> SUBSET Message] /\ \A p \in Procs : answers'[p] \subseteq answers[p]
  /\ UNCHANGED <<registered, spec, status, tools, wanted, proc, nextId, owner, alive, inbox>>

LEMMA ReadsKeeps ==
  ASSUME RequestInv, NEW r \in Procs, NEW c \in owner[r], Reads(r, c) PROVE RequestInv'
<1> USE DEF RequestInv
<1>1. /\ readTask' \in [Procs -> Reader]
      /\ \A p \in Procs : p # r => readTask'[p] = readTask[p]
      /\ readTask'[r].at = "read" <=> readTask'[r].on # {}
      /\ \A q \in readTask'[r].on : owner[q] = owner[r]
      /\ task' \in [ClientTasks -> Task] /\ pending' \subseteq pending
      /\ answers' \in [Procs -> SUBSET Message] /\ \A p \in Procs : answers'[p] \subseteq answers[p]
      /\ UNCHANGED <<registered, spec, status, tools, wanted, proc, nextId, owner, alive, inbox>>
  BY DEF Reads
<1>2. \A u \in ClientTasks :
        \/ u \in pending \ pending' /\ task'[u].of = task[u].of
                                    /\ task'[u].at \in {"expired", "failed", "answered"}
        \/ (u \in pending => u \in pending') /\ task'[u] = task[u]
  BY DEF Reads
<1>3. pending \subseteq ClientTasks /\ nextId \in [Clients -> Nat]
  BY DEF Shape
<1>4. Settles
  <2>1. \A u \in pending' :
          /\ task'[u].of = task[u].of /\ task'[u].step = task[u].step /\ task'[u].id = task[u].id
          /\ task'[u].at \in {"wait", "expired"}
    BY <1>1, <1>2, <1>3 DEF PendingIsWaiting
  <2>2. \A u \in ClientTasks : task'[u].at = "wait" => u \in pending'
    BY <1>2 DEF PendingIsWaiting
  <2>3. \A d \in Clients : nextId'[d] >= nextId[d]
    BY <1>1, <1>3
  <2> QED
    BY <1>1, <2>1, <2>2, <2>3 DEF Settles
<1>5. PendingIsWaiting' /\ IdInv' /\ MessageInv'
  BY <1>1, <1>3, <1>4, SettlesKeeps
<1>6. Shape'
  <2>1. pending' \subseteq ClientTasks
    BY <1>1, <1>3
  <2> QED
    BY <1>1, <2>1 DEF Shape, Atmost1
<1>7. OwnerInv'
  <2>1. ASSUME NEW q \in Procs
        PROVE  /\ owner[q] = {} => answers'[q] = {} /\ readTask'[q] = NoReader
               /\ \A p \in readTask'[q].on : owner[p] = owner[q]
               /\ readTask'[q].at = "read" <=> readTask'[q].on # {}
    BY <1>1 DEF OwnerInv
  <2> QED
    BY <1>1, <2>1 DEF OwnerInv, Atmost1
<1>8. PlaceInv'
  <2>1. \A u \in pending : task[u].of # {}
    BY <1>3 DEF PendingIsWaiting, PlaceInv
  <2> QED
    BY <1>2, <2>1 DEF PlaceInv
<1> QED
  BY <1>5, <1>6, <1>7, <1>8

LEMMA ReaderStartsReads ==
  ASSUME RequestInv, NEW p \in Procs, ReaderStarts(p)
  PROVE  \E c \in owner[p] : Reads(p, c)
<1> USE DEF RequestInv
<1>1. PICK c \in owner[p] :
       /\ readTask' = [readTask EXCEPT ![p] = ReadOn(p, c).next]
       /\ IF ReadOn(p, c).ends /\ proc[c] # {}
            THEN task' = Failing(Of(c)) /\ pending' = pending \ Of(c)
            ELSE UNCHANGED <<task, pending>>
  BY Zenon DEF ReaderStarts
<1>2. UNCHANGED <<registered, spec, status, tools, wanted, proc, nextId, owner, alive, inbox, answers>>
  BY DEF ReaderStarts, daemon, wire, payloads
<1>3. task \in [ClientTasks -> Task] /\ pending \subseteq ClientTasks
  BY DEF Shape
<1> DEFINE next == ReadOn(p, c).next
<1>4. /\ next \in Reader /\ (next.at = "read" <=> next.on # {})
      /\ \A q \in next.on : owner[q] = owner[p]
  BY ReadOnFacts
<1>5. readTask' = [readTask EXCEPT ![p] = next]
  BY <1>1
<1> HIDE DEF next
<1>6. /\ readTask' \in [Procs -> Reader] /\ readTask'[p] = next
      /\ \A q \in Procs : q # p => readTask'[q] = readTask[q]
  BY <1>4, <1>5 DEF Shape
<1>7. Of(c) \subseteq pending
  BY <1>3, OfFacts
<1>8. /\ task' \in [ClientTasks -> Task] /\ pending' \subseteq pending
      /\ \A u \in ClientTasks :
           \/ u \in pending \ pending' /\ task'[u].of = task[u].of
                                       /\ task'[u].at \in {"expired", "failed", "answered"}
           \/ (u \in pending => u \in pending') /\ task'[u] = task[u]
  <2>1. CASE task' = Failing(Of(c)) /\ pending' = pending \ Of(c)
    <3>1. /\ task' \in [ClientTasks -> Task]
          /\ \A u \in ClientTasks :
               /\ task'[u].of = task[u].of
               /\ IF u \in Of(c) /\ task[u].at = "wait" THEN task'[u].at = "failed"
                                                        ELSE task'[u] = task[u]
      BY <1>3, <2>1, FailingFacts
    <3> QED
      BY <1>7, <2>1, <3>1 DEF PendingIsWaiting
  <2>2. CASE UNCHANGED <<task, pending>>
    BY <1>3, <2>2
  <2> QED
    BY <1>1, <2>1, <2>2
<1>9. answers' \in [Procs -> SUBSET Message] /\ \A q \in Procs : answers'[q] \subseteq answers[q]
  BY <1>2 DEF Shape
<1>10. Reads(p, c)
  BY <1>2, <1>4, <1>6, <1>8, <1>9 DEF Reads
<1> QED
  BY <1>10

LEMMA ReaderEofReads ==
  ASSUME RequestInv, NEW p \in Procs, ReaderEof(p)
  PROVE  \E c \in owner[p] : Reads(p, c)
<1> USE DEF RequestInv
<1> DEFINE end == [at |-> "done", on |-> {}]
<1>1. end \in Reader /\ end.at # "read" /\ end.on = {}
  BY DEF Reader
<1>2. readTask' = [readTask EXCEPT ![p] = end] /\ readTask[p].at = "read"
  BY DEF ReaderEof
<1>3. UNCHANGED <<registered, spec, status, tools, wanted, proc, nextId, owner, alive, inbox, answers,
                  task, pending>>
  BY DEF ReaderEof, daemon, wire, payloads, requests
<1> HIDE DEF end
<1>4. /\ readTask' \in [Procs -> Reader] /\ readTask'[p] = end
      /\ \A q \in Procs : q # p => readTask'[q] = readTask[q]
  BY <1>1, <1>2 DEF Shape
<1>5. readTask[p] # NoReader
  BY <1>2 DEF NoReader
<1>6. PICK c \in owner[p] : TRUE
  BY <1>5 DEF OwnerInv
<1>7. task' \in [ClientTasks -> Task] /\ answers' \in [Procs -> SUBSET Message]
  BY <1>3 DEF Shape
<1>8. Reads(p, c)
  BY <1>1, <1>3, <1>4, <1>7 DEF Reads
<1> QED
  BY <1>6, <1>8

\* The reader answers the request of its client that has the number of the line, if it
\* waits; then the line was the answer to it.
LEMMA ReadLineReads ==
  ASSUME RequestInv, NEW p \in Procs, ReadLine(p)
  PROVE  /\ \E c \in owner[p] : Reads(p, c)
         /\ \A t \in ClientTasks : task[t].at = "wait" /\ task'[t].at = "answered" =>
              \E q \in Procs : <<task[t].id, task[t].step, t>> \in answers[q] \ answers'[q]
         /\ \A t \in ClientTasks : task'[t].at \in {task[t].at, "answered", "failed"}
<1> USE DEF RequestInv
<1> DEFINE hits(c, m) == {t \in Of(c) : task[t].id = m[1]}
           lates(c, m) == \E t \in hits(c, m) : task[t].at = "expired"
           endss(c, m) == lates(c, m) \/ ReadOn(p, c).ends
           fails(c, m) == Failing(IF endss(c, m) THEN Of(c) \ hits(c, m) ELSE {})
<1>1. PICK c \in owner[p], q \in readTask[p].on, at \in {"answered", "failed"} : \E m \in answers[q] :
       /\ answers' = [answers EXCEPT ![q] = answers[q] \ {m}]
       /\ readTask' = [readTask EXCEPT ![p] =
                       IF endss(c, m) THEN [at |-> "done", on |-> {}] ELSE ReadOn(p, c).next]
       /\ task' = [t \in ClientTasks |-> IF t \in hits(c, m) /\ ~lates(c, m)
                                         THEN [task[t] EXCEPT !.at = at] ELSE fails(c, m)[t]]
       /\ pending' = pending \ (IF endss(c, m) THEN Of(c) ELSE hits(c, m))
  BY Zenon DEF ReadLine
<1>0. PICK m \in answers[q] :
       /\ answers' = [answers EXCEPT ![q] = answers[q] \ {m}]
       /\ readTask' = [readTask EXCEPT ![p] =
                       IF endss(c, m) THEN [at |-> "done", on |-> {}] ELSE ReadOn(p, c).next]
       /\ task' = [t \in ClientTasks |-> IF t \in hits(c, m) /\ ~lates(c, m)
                                         THEN [task[t] EXCEPT !.at = at] ELSE fails(c, m)[t]]
       /\ pending' = pending \ (IF endss(c, m) THEN Of(c) ELSE hits(c, m))
  BY Zenon, <1>1
<1> DEFINE hit == hits(c, m)
           late == lates(c, m)
           ends == endss(c, m)
           failing == fails(c, m)
<1>2. UNCHANGED <<registered, spec, status, tools, wanted, proc, nextId, owner, alive, inbox>>
  BY DEF ReadLine, daemon, payloads
<1>3. task \in [ClientTasks -> Task] /\ pending \subseteq ClientTasks /\ c \in Clients /\ q \in Procs
      /\ owner[p] = {c} /\ owner[q] = {c}
  BY DEF Shape, Reader, OwnerInv, Atmost1
<1>4. Of(c) \subseteq pending /\ hit \subseteq Of(c) /\ \A t \in Of(c) : task[t].of = {c}
  BY <1>3, OfFacts
<1>5. \A t \in hit : task[t].id = m[1]
  OBVIOUS
<1>6. late <=> \E t \in hit : task[t].at = "expired"
  OBVIOUS
<1>7. late => ends
  OBVIOUS
<1>8. /\ failing \in [ClientTasks -> Task]
      /\ \A t \in ClientTasks :
           /\ failing[t].of = task[t].of
           /\ IF ends /\ t \in Of(c) \ hit /\ task[t].at = "wait"
              THEN failing[t].at = "failed" ELSE failing[t] = task[t]
  <2> DEFINE fs == IF ends THEN Of(c) \ hit ELSE {}
  <2>1. \A t \in ClientTasks : t \in fs <=> ends /\ t \in Of(c) \ hit
    BY Zenon
  <2>2. failing = Failing(fs)
    BY Zenon
  <2> HIDE DEF fs, failing, ends
  <2>3. /\ Failing(fs) \in [ClientTasks -> Task]
        /\ \A t \in ClientTasks :
             /\ Failing(fs)[t].of = task[t].of
             /\ IF t \in fs /\ task[t].at = "wait" THEN Failing(fs)[t].at = "failed"
                                                   ELSE Failing(fs)[t] = task[t]
    BY <1>3, FailingFacts
  <2> QED
    BY <2>1, <2>2, <2>3
<1>9. /\ answers' = [answers EXCEPT ![q] = answers[q] \ {m}]
      /\ readTask' = [readTask EXCEPT ![p] =
                      IF ends THEN [at |-> "done", on |-> {}] ELSE ReadOn(p, c).next]
      /\ task' = [t \in ClientTasks |-> IF t \in hit /\ ~late
                                        THEN [task[t] EXCEPT !.at = at] ELSE failing[t]]
      /\ pending' = pending \ (IF ends THEN Of(c) ELSE hit)
  BY Zenon, <1>0
<1> HIDE DEF hit, late, ends, failing
<1>10. /\ answers' \in [Procs -> SUBSET Message]
       /\ \A r \in Procs : answers'[r] \subseteq answers[r]
       /\ m \in answers[q] /\ m \notin answers'[q]
  BY <1>3, <1>9 DEF Shape
<1>11. /\ readTask' \in [Procs -> Reader]
       /\ \A r \in Procs : r # p => readTask'[r] = readTask[r]
       /\ readTask'[p].at = "read" <=> readTask'[p].on # {}
       /\ \A r \in readTask'[p].on : owner[r] = owner[p]
  <2> DEFINE next == IF ends THEN [at |-> "done", on |-> {}] ELSE ReadOn(p, c).next
  <2>1. /\ next \in Reader /\ (next.at = "read" <=> next.on # {})
        /\ \A r \in next.on : owner[r] = owner[p]
    <3>1. CASE ends
      BY <3>1 DEF Reader
    <3>2. CASE ~ends
      BY <3>2, ReadOnFacts
    <3> QED
      BY <3>1, <3>2
  <2>2. readTask' = [readTask EXCEPT ![p] = next]
    BY <1>9
  <2> HIDE DEF next
  <2> QED
    BY <2>1, <2>2 DEF Shape
<1>12. ASSUME NEW t \in ClientTasks
       PROVE  LET x == [task[t] EXCEPT !.at = at] IN
              x \in Task /\ x.at = at /\ x.of = task[t].of
  <2>1. task[t] \in Task
    BY <1>3
  <2> QED
    BY <2>1 DEF Task
<1>13. /\ task' \in [ClientTasks -> Task]
       /\ \A t \in ClientTasks :
            IF t \in hit /\ ~late THEN task'[t].at = at /\ task'[t].of = task[t].of
                                  ELSE task'[t] = failing[t]
  BY <1>8, <1>9, <1>12
\* One request has the number: if it has expired, none is passed over.
<1>14. ASSUME NEW t \in hit, NEW u \in hit PROVE t = u
  <2>1. t \in pending /\ u \in pending /\ task[t].of = {c} /\ task[u].of = {c}
    BY <1>4
  <2>2. task[t].id = task[u].id
    BY <1>5
  <2> QED
    BY <2>1, <2>2 DEF IdInv
<1>15. ASSUME NEW u \in ClientTasks
       PROVE  \/ u \in pending \ pending' /\ task'[u].of = task[u].of
                                          /\ task'[u].at \in {"expired", "failed", "answered"}
              \/ (u \in pending => u \in pending') /\ task'[u] = task[u]
  <2>1. CASE u \in hit /\ ~late
    BY <1>4, <1>9, <1>13, <2>1
  <2>2. CASE u \in hit /\ late
    <3>1. task[u].at = "expired"
      BY <1>6, <1>14, <2>2
    <3>2. task'[u] = task[u]
      BY <1>8, <1>13, <2>2
    <3> QED
      BY <1>4, <1>7, <1>9, <2>2, <3>1, <3>2
  <2>3. CASE u \in Of(c) \ hit /\ ends
    <3>1. u \in pending \ pending' /\ task[u].at \in {"wait", "expired"}
      BY <1>4, <1>9, <2>3 DEF PendingIsWaiting
    <3> QED
      BY <1>8, <1>13, <2>3, <3>1
  <2>4. CASE u \notin hit /\ ~(u \in Of(c) /\ ends)
    BY <1>8, <1>9, <1>13, <2>4
  <2> QED
    BY <1>4, <2>1, <2>2, <2>3, <2>4
<1>16. pending' \subseteq pending
  BY <1>9
<1>17. Reads(p, c)
  BY <1>2, <1>10, <1>11, <1>13, <1>15, <1>16 DEF Reads
<1>18. ASSUME NEW t \in ClientTasks, task[t].at = "wait", task'[t].at = "answered"
       PROVE  <<task[t].id, task[t].step, t>> \in answers[q] \ answers'[q]
  <2>1. t \in hit
    BY <1>8, <1>13, <1>18
  <2>2. t \in pending /\ task[t].of = {c} /\ task[t].id = m[1]
    BY <1>4, <1>5, <2>1
  <2>3. m = <<task[t].id, task[t].step, t>>
    BY <1>3, <1>10, <2>2 DEF MessageInv
  <2> QED
    BY <1>10, <2>3
<1>19. \A t \in ClientTasks : task'[t].at \in {task[t].at, "answered", "failed"}
  BY <1>8, <1>13
<1> QED
  BY <1>3, <1>17, <1>18, <1>19

-----------------------------------------------------------------------------
(* The steps of the passes and the calls *)

LEMMA LaunchFacts == Launch \subseteq Keys
BY McpAssumption DEF Launch

LEMMA PayloadFacts ==
  ASSUME RequestInv, NEW r \in Passes, NEW w \in Keys \cup {"off"}, Payload(r, w)
  PROVE  /\ r \in ClientTasks /\ r \notin pending /\ task[r].at = "new" /\ task[r].of = {}
         /\ wanted' \in [Passes -> Keys \cup {"off", "none"}] /\ wanted'[r] = w
         /\ \A s \in Passes : s # r => wanted'[s] = wanted[s]
         /\ latest' = w
         /\ ~overlapped' => ~overlapped /\ \A o \in Passes : ~InProgress(o)
<1>1. r \in ClientTasks /\ task[r].at = "new" /\ latest' = w /\ wanted' = [wanted EXCEPT ![r] = w]
      /\ overlapped' = (overlapped \/ \E o \in Passes : InProgress(o))
  BY DEF Payload, ClientTasks
<1>2. r \notin pending /\ task[r].of = {}
  BY <1>1 DEF RequestInv, PendingIsWaiting, PlaceInv
<1>3. /\ wanted' \in [Passes -> Keys \cup {"off", "none"}] /\ wanted'[r] = w
      /\ \A s \in Passes : s # r => wanted'[s] = wanted[s]
  BY <1>1 DEF RequestInv, Shape
<1>4. ~overlapped' => ~overlapped /\ \A o \in Passes : ~InProgress(o)
  BY Zenon, <1>1
<1> QED
  BY <1>1, <1>2, <1>3, <1>4

LEMMA OneClient == \A c \in Clients : {c} \subseteq Clients /\ Atmost1({c}) /\ Atmost1({})
BY DEF Atmost1

LEMMA EnableKeeps ==
  ASSUME RequestInv, NEW r \in Passes, Enable(r) PROVE RequestInv'
<1> USE DEF RequestInv
<1>1. PICK w \in Launch : Payload(r, w) /\ spec' = w
  BY DEF Enable
<1>2. PICK c \in IF registered = {} THEN NewClient ELSE registered :
       /\ registered' = {c}
       /\ \/ Begin(r, c) /\ tools' = {} /\ UNCHANGED status
          \/ /\ tools' = {c} /\ status' = "ready" /\ task' = [task EXCEPT ![r] = Done]
             /\ UNCHANGED <<requests, inbox, draining>>
  BY DEF Enable
<1>3. UNCHANGED <<proc, initialized, owner, alive, answers, readTask>>
  BY DEF Enable
<1>4. w \in Keys /\ c \in Clients
  BY LaunchFacts, NewClientFacts, <1>1, <1>2 DEF Shape
<1>5. /\ r \in ClientTasks /\ r \notin pending
      /\ wanted' \in [Passes -> Keys \cup {"off", "none"}]
  BY <1>1, <1>4, PayloadFacts
<1>6. DaemonTyped
  <2>1. status' \in {"none", "ready", "error"}
    BY <1>2 DEF Shape
  <2>2. registered' = {c} /\ (tools' = {c} \/ tools' = {})
    BY <1>2
  <2> QED
    BY <1>1, <1>4, <1>5, <2>1, <2>2, OneClient DEF DaemonTyped
<1>7. CASE Begin(r, c)
  <2>1. GoesOn(r, c)
    BY <1>3, <1>4, <1>5, <1>7, BeginEffect
  <2> QED
    BY <1>3, <1>4, <1>5, <1>6, <2>1, GoesOnKeeps DEF DaemonTyped
<1>8. CASE /\ task' = [task EXCEPT ![r] = Done] /\ UNCHANGED <<requests, inbox>>
  <2>1. UNCHANGED <<pending, nextId, inbox>>
    BY <1>8 DEF requests
  <2>2. Moved(r)
    BY <1>5, <1>8, <2>1, DoneFacts, OneMoves
  <2> QED
    BY <1>3, <1>5, <1>6, <2>1, <2>2, SameProcs, MovedKeeps
<1> QED
  BY <1>2, <1>7, <1>8

LEMMA DisableUnknownKeeps ==
  ASSUME RequestInv, NEW r \in Passes, DisableUnknown(r) PROVE RequestInv'
<1> USE DEF RequestInv
<1>1. /\ Payload(r, "off") /\ spec' = (IF status = "none" THEN spec ELSE "none")
      /\ status' = "none" /\ task' = [task EXCEPT ![r] = Done]
      /\ UNCHANGED <<registered, tools, proc, nextId, pending, owner, alive, inbox, answers, readTask>>
  BY DEF DisableUnknown, requests, wire
<1>2. /\ r \in ClientTasks /\ r \notin pending
      /\ wanted' \in [Passes -> Keys \cup {"off", "none"}]
  BY <1>1, PayloadFacts
<1>3. DaemonTyped
  BY <1>1, <1>2 DEF DaemonTyped, Shape, Atmost1
<1>4. Moved(r)
  BY <1>1, <1>2, DoneFacts, OneMoves
<1> QED
  BY <1>1, <1>2, <1>3, <1>4, SameProcs, MovedKeeps

\* EnableNew and Disable move the pass to a place without a request.
LEMMA EnableNewFacts ==
  ASSUME NEW r, NEW w, NEW ts, EnableNew(r, w, ts)
  PROVE  \E c \in Clients : /\ registered' = {c} /\ spec' = w
                            /\ \/ /\ tools' = {} /\ UNCHANGED status
                                  /\ task' = [ts EXCEPT ![r] = Spawning(c)]
                               \/ /\ tools' = {c} /\ status' = "ready"
                                  /\ task' = [ts EXCEPT ![r] = Done]
BY NewClientFacts DEF EnableNew

LEMMA ResetFacts ==
  ASSUME Shape, NEW c, Reset(c)
  PROVE  /\ proc' \in [Clients -> SUBSET Procs]
         /\ \A d \in Clients : proc'[d] \subseteq proc[d]
BY DEF Shape, Reset

LEMMA CloseBeginsKeeps ==
  ASSUME RequestInv, NEW r \in Passes, CloseBegins(r) PROVE RequestInv'
<1> USE DEF RequestInv
<1>1. PICK w \in Keys \cup {"off"}, c \in registered :
       /\ CloseWanted(r, c, w)
       /\ task' = [Failing(Of(c)) EXCEPT ![r] =
                     [at |-> "closing", of |-> {c}, step |-> "main", id |-> 0]]
       /\ \/ w = "off" /\ registered' = {} /\ status' = "none"
             /\ spec' = (IF status = "none" THEN spec ELSE "none")
          \/ w # "off" /\ UNCHANGED <<registered, spec, status>>
  BY DEF CloseBegins
<1>2. Payload(r, w) /\ pending' = pending \ Of(c)
  BY <1>1 DEF CloseWanted
<1>3. UNCHANGED <<tools, proc, nextId, owner, alive, inbox, answers, readTask>>
  BY DEF CloseBegins, wire
<1>4. /\ r \in ClientTasks /\ r \notin pending /\ c \in Clients
      /\ wanted' \in [Passes -> Keys \cup {"off", "none"}]
  BY <1>2, PayloadFacts DEF Shape
<1>5. DaemonTyped
  BY <1>1, <1>3, <1>4 DEF DaemonTyped, Shape, Atmost1
<1> DEFINE x == [at |-> "closing", of |-> {c}, step |-> "main", id |-> 0]
<1>6. x \in Task /\ x.at = "closing" /\ x.of = {c}
  BY <1>4 DEF Task, Steps
<1>7. task' = [Failing(Of(c)) EXCEPT ![r] = x]
  BY <1>1
<1> HIDE DEF x
<1>8. Moved(r)
  BY <1>2, <1>4, <1>6, <1>7, CloseMoves
<1> QED
  BY <1>3, <1>4, <1>5, <1>8, SameProcs, MovedKeeps

LEMMA CloseEndsKeeps ==
  ASSUME RequestInv, NEW r \in Passes, NEW c \in Clients, CloseEnds(r, c) PROVE RequestInv'
<1> USE DEF RequestInv
<1>1. /\ task[r].at = "closing"
      /\ Die(proc[c]) \/ UNCHANGED <<alive, inbox>>
      /\ Reset(c)
      /\ \/ Disable(r, task) /\ UNCHANGED registered
         \/ wanted[r] # "off" /\ EnableNew(r, wanted[r], task)
      /\ UNCHANGED <<nextId, pending, owner, answers, readTask, wanted>>
  BY DEF CloseEnds, Is, requests, payloads
<1>2. r \in ClientTasks /\ r \notin pending
  BY <1>1 DEF PendingIsWaiting, ClientTasks
<1>3. ProcsDrop
  <2>1. CASE Die(proc[c])
    BY <1>1, <2>1, DieFacts, ResetFacts DEF ProcsDrop
  <2>2. CASE UNCHANGED <<alive, inbox>>
    BY <1>1, <2>2, ResetFacts DEF ProcsDrop, Shape, OwnerInv
  <2> QED
    BY <1>1, <2>1, <2>2
<1>4. wanted' \in [Passes -> Keys \cup {"off", "none"}]
  BY <1>1 DEF Shape
<1>5. CASE Disable(r, task) /\ UNCHANGED registered
  <2>1. /\ spec' = "none" /\ status' = "none" /\ tools' = {}
        /\ task' = [task EXCEPT ![r] = Done] /\ registered' = registered
    BY <1>5 DEF Disable
  <2>2. DaemonTyped
    BY <1>4, <2>1 DEF DaemonTyped, Shape, Atmost1
  <2>3. Moved(r)
    BY <1>1, <1>2, <2>1, DoneFacts, OneMoves
  <2> QED
    BY <1>1, <1>2, <1>3, <2>2, <2>3, MovedKeeps
<1>6. CASE wanted[r] # "off" /\ EnableNew(r, wanted[r], task)
  <2>1. PICK d \in Clients :
          /\ registered' = {d} /\ spec' = wanted[r]
          /\ \/ /\ tools' = {} /\ UNCHANGED status
                /\ task' = [task EXCEPT ![r] = Spawning(d)]
             \/ /\ tools' = {d} /\ status' = "ready"
                /\ task' = [task EXCEPT ![r] = Done]
    BY <1>6, EnableNewFacts
  <2>2. wanted[r] \in Keys \cup {"none"}
    BY <1>6 DEF Shape
  <2>3. DaemonTyped
    <3>1. status' \in {"none", "ready", "error"}
      BY <2>1 DEF Shape
    <3>2. registered' = {d} /\ (tools' = {d} \/ tools' = {})
      BY <2>1
    <3> QED
      BY <1>4, <2>1, <2>2, <3>1, <3>2, OneClient DEF DaemonTyped
  <2>4. Moved(r)
    BY <1>1, <1>2, <2>1, DoneFacts, SpawningFacts, OneMoves
  <2> QED
    BY <1>1, <1>2, <1>3, <2>3, <2>4, MovedKeeps
<1> QED
  BY <1>1, <1>5, <1>6

LEMMA CloseAtOnceKeeps ==
  ASSUME RequestInv, NEW r \in Passes, CloseAtOnce(r) PROVE RequestInv'
<1> USE DEF RequestInv
<1>1. PICK w \in Keys \cup {"off"}, c \in registered :
       /\ CloseWanted(r, c, w) /\ Reset(c)
       /\ \/ w = "off" /\ Disable(r, Failing(Of(c))) /\ registered' = {}
          \/ w # "off" /\ EnableNew(r, w, Failing(Of(c)))
  BY DEF CloseAtOnce
<1>2. Payload(r, w) /\ pending' = pending \ Of(c)
  BY <1>1 DEF CloseWanted
<1>3. UNCHANGED <<nextId, owner, alive, inbox, answers, readTask>>
  BY DEF CloseAtOnce, wire
<1>4. /\ r \in ClientTasks /\ r \notin pending /\ c \in Clients
      /\ wanted' \in [Passes -> Keys \cup {"off", "none"}]
  BY <1>2, PayloadFacts DEF Shape
<1>5. ProcsDrop
  BY <1>1, <1>3, ResetFacts DEF ProcsDrop, Shape, OwnerInv
<1>6. CASE Disable(r, Failing(Of(c))) /\ registered' = {}
  <2>1. /\ spec' = "none" /\ status' = "none" /\ tools' = {}
        /\ task' = [Failing(Of(c)) EXCEPT ![r] = Done]
    BY <1>6 DEF Disable
  <2>2. DaemonTyped
    BY <1>4, <1>6, <2>1 DEF DaemonTyped, Atmost1
  <2>3. Moved(r)
    BY <1>2, <1>4, <2>1, DoneFacts, CloseMoves
  <2> QED
    BY <1>3, <1>4, <1>5, <2>2, <2>3, MovedKeeps
<1>7. CASE w # "off" /\ EnableNew(r, w, Failing(Of(c)))
  <2>1. PICK d \in Clients :
          /\ registered' = {d} /\ spec' = w
          /\ \/ /\ tools' = {} /\ UNCHANGED status
                /\ task' = [Failing(Of(c)) EXCEPT ![r] = Spawning(d)]
             \/ /\ tools' = {d} /\ status' = "ready"
                /\ task' = [Failing(Of(c)) EXCEPT ![r] = Done]
    BY <1>7, EnableNewFacts
  <2>2. DaemonTyped
    <3>1. status' \in {"none", "ready", "error"}
      BY <2>1 DEF Shape
    <3>2. registered' = {d} /\ (tools' = {d} \/ tools' = {}) /\ w \in Keys
      BY <1>7, <2>1
    <3> QED
      BY <1>4, <2>1, <3>1, <3>2, OneClient DEF DaemonTyped
  <2>3. Moved(r)
    BY <1>2, <1>4, <2>1, DoneFacts, SpawningFacts, CloseMoves
  <2> QED
    BY <1>3, <1>4, <1>5, <2>2, <2>3, MovedKeeps
<1> QED
  BY <1>1, <1>6, <1>7

LEMMA CloseRaisesKeeps ==
  ASSUME RequestInv, NEW r \in Passes, NEW c \in Clients, CloseRaises(r, c) PROVE RequestInv'
<1> USE DEF RequestInv
<1>1. /\ task[r].at = "closing" /\ task' = [task EXCEPT ![r] = Done]
      /\ status' \in {status, "error"}
      /\ UNCHANGED <<registered, spec, tools, proc, nextId, pending, owner, alive, inbox, answers,
                     readTask, wanted>>
  BY DEF CloseRaises, Is, requests, wire, payloads
<1>2. r \in ClientTasks /\ r \notin pending
  BY <1>1 DEF PendingIsWaiting, ClientTasks
<1>3. DaemonTyped
  BY <1>1 DEF DaemonTyped, Shape, Atmost1
<1>4. Moved(r)
  BY <1>1, <1>2, DoneFacts, OneMoves
<1> QED
  BY <1>1, <1>2, <1>3, <1>4, SameProcs, MovedKeeps

LEMMA NextPageFacts ==
  ASSUME RequestInv, NEW r \in Passes, NEW c \in Clients, NextPage(r, c)
  PROVE  r \in ClientTasks /\ r \notin pending /\ task[r].at = "answered" /\ GoesOn(r, c)
<1>1. task[r].at = "answered" /\ Request(r, c, "main") /\ UNCHANGED <<owner, answers>>
  BY DEF NextPage, Is
<1>2. r \in ClientTasks /\ r \notin pending /\ "main" \in Steps
  BY <1>1 DEF RequestInv, PendingIsWaiting, ClientTasks, Steps
<1> QED
  BY <1>1, <1>2, RequestEffect

LEMMA NextPageKeeps ==
  ASSUME RequestInv, NEW r \in Passes, NEW c \in Clients, NextPage(r, c) PROVE RequestInv'
<1>1. /\ UNCHANGED <<registered, spec, status, tools, wanted>>
      /\ UNCHANGED <<proc, owner, alive, answers, readTask>>
  BY DEF NextPage, daemon, payloads
<1>2. DaemonTyped
  BY <1>1, SameDaemon DEF RequestInv
<1> QED
  BY <1>1, <1>2, NextPageFacts, GoesOnKeeps DEF DaemonTyped

LEMMA PassEndsKeeps ==
  ASSUME RequestInv, NEW r \in Passes, NEW c \in Clients, PassEnds(r, c) PROVE RequestInv'
<1> USE DEF RequestInv
<1>1. /\ task[r].at \in {"answered", "failed"} /\ task' = [task EXCEPT ![r] = Done]
      /\ tools' \in {tools, {c}} /\ status' \in {"ready", "error"}
      /\ UNCHANGED <<registered, spec, proc, nextId, pending, owner, alive, inbox, answers,
                     readTask, wanted>>
  BY DEF PassEnds, Is, requests, wire, payloads
<1>2. r \in ClientTasks /\ r \notin pending
  BY <1>1 DEF PendingIsWaiting, ClientTasks
<1>3. DaemonTyped
  BY <1>1, OneClient DEF DaemonTyped, Shape, Atmost1
<1>4. Moved(r)
  BY <1>1, <1>2, DoneFacts, OneMoves
<1> QED
  BY <1>1, <1>2, <1>3, <1>4, SameProcs, MovedKeeps

LEMMA CallBeginsKeeps ==
  ASSUME RequestInv, NEW t \in Calls, CallBegins(t)
  PROVE  RequestInv' /\ \A u \in ClientTasks : u # t => task'[u] = task[u]
<1> USE DEF RequestInv
<1>1. PICK c \in tools : Begin(t, c)
  BY DEF CallBegins
<1>2. /\ task[t].at = "new" /\ UNCHANGED <<registered, spec, status, tools, wanted>>
      /\ UNCHANGED <<proc, owner, alive, answers, readTask>>
  BY DEF CallBegins, daemon, payloads
<1>3. t \in ClientTasks /\ t \notin pending /\ c \in Clients
  BY <1>2 DEF PendingIsWaiting, ClientTasks, Shape
<1>4. GoesOn(t, c)
  BY <1>1, <1>2, <1>3, BeginEffect
<1>5. DaemonTyped
  BY <1>2, SameDaemon
<1>6. RequestInv'
  BY <1>2, <1>3, <1>4, <1>5, GoesOnKeeps DEF DaemonTyped
<1> QED
  BY <1>4, <1>6 DEF GoesOn

LEMMA CallEndsKeeps ==
  ASSUME RequestInv, NEW t \in Calls, NEW c \in Clients, CallEnds(t, c) PROVE RequestInv'
<1> USE DEF RequestInv
<1>1. /\ task[t].at \in {"answered", "failed"} /\ task' = [task EXCEPT ![t] = Done]
      /\ UNCHANGED <<registered, tools, spec, status, proc, nextId, pending, owner, alive, inbox,
                     answers, readTask, wanted>>
  BY DEF CallEnds, Is, daemon, requests, wire, payloads
<1>2. t \in ClientTasks /\ t \notin pending
  BY <1>1 DEF PendingIsWaiting, ClientTasks
<1>3. Moved(t)
  BY <1>1, <1>2, DoneFacts, OneMoves
<1> QED
  BY <1>1, <1>2, <1>3, SameDaemon, SameProcs, MovedKeeps

LEMMA RequestInit == McpInit => RequestInv
<1> SUFFICES ASSUME McpInit PROVE RequestInv
  OBVIOUS
<1>1. NoReader \in Reader /\ NoReader.at = "none" /\ NoReader.on = {}
  BY DEF NoReader, Reader
<1>2. /\ registered = {} /\ spec = "none" /\ status = "none" /\ tools = {}
      /\ proc = [c \in Clients |-> {}] /\ nextId = [c \in Clients |-> 1]
      /\ pending = {} /\ task = [t \in ClientTasks |-> NewTask]
      /\ owner = [p \in Procs |-> {}] /\ alive = {}
      /\ inbox = [p \in Procs |-> {}] /\ answers = [p \in Procs |-> {}]
      /\ readTask = [p \in Procs |-> NoReader]
      /\ wanted = [r \in Passes |-> "none"]
  BY DEF McpInit
<1>3. Shape
  BY <1>1, <1>2, DoneFacts DEF Shape, Atmost1
<1>4. OwnerInv
  BY <1>1, <1>2 DEF OwnerInv, Atmost1
<1>5. PlaceInv /\ PendingIsWaiting
  BY <1>2, DoneFacts DEF PlaceInv, PendingIsWaiting
<1>6. IdInv
  BY <1>2 DEF IdInv
<1>7. MessageInv
  BY <1>2 DEF MessageInv
<1> QED
  BY <1>3, <1>4, <1>5, <1>6, <1>7 DEF RequestInv

\* The steps of McpNext by the kind of actor.
CallStep(t) == CallBegins(t) \/ \E c \in Clients : CallEnds(t, c)

PassStep(r) ==
  \/ Enable(r) \/ DisableUnknown(r) \/ CloseBegins(r) \/ CloseAtOnce(r)
  \/ \E c \in Clients : CloseEnds(r, c) \/ CloseRaises(r, c) \/ NextPage(r, c) \/ PassEnds(r, c)

ServerStep(p) ==
  \/ Drained(p) \/ Answer(p) \/ ServerDies(p)
  \/ ReaderStarts(p) \/ ReadLine(p) \/ ReaderEof(p)

LEMMA McpSteps ==
  ASSUME RequestInv, [McpNext]_mcpVars
  PROVE  \/ \E t \in ClientTasks : ClientStep(t)
         \/ \E t \in Calls : CallStep(t)
         \/ \E r \in Passes : PassStep(r)
         \/ \E p \in Procs : ServerStep(p)
         \/ UNCHANGED mcpVars
<1>1. \A t \in ClientTasks : task[t].of \subseteq Clients
  BY OfClients
<1>2. Calls \subseteq ClientTasks /\ Passes \subseteq ClientTasks
  BY DEF ClientTasks
<1> QED
  BY <1>1, <1>2 DEF McpNext, PassContinues, CallStep, PassStep, ServerStep

LEMMA RequestNext == ASSUME RequestInv, [McpNext]_mcpVars PROVE RequestInv'
<1>1. ASSUME NEW t \in ClientTasks, ClientStep(t) PROVE RequestInv'
  BY <1>1, ClientStepKeeps
<1>2. ASSUME NEW t \in Calls, CallStep(t) PROVE RequestInv'
  BY <1>2, CallBeginsKeeps, CallEndsKeeps DEF CallStep
<1>3. ASSUME NEW r \in Passes, PassStep(r) PROVE RequestInv'
  BY <1>3, EnableKeeps, DisableUnknownKeeps, CloseBeginsKeeps, CloseAtOnceKeeps, CloseEndsKeeps,
     CloseRaisesKeeps, NextPageKeeps, PassEndsKeeps DEF PassStep
<1>4. ASSUME NEW p \in Procs, ServerStep(p) PROVE RequestInv'
  BY <1>4, DrainedKeeps, AnswerKeeps, ServerDiesKeeps, ReaderStartsReads, ReadLineReads,
     ReaderEofReads, ReadsKeeps DEF ServerStep
<1>5. CASE UNCHANGED mcpVars
  BY <1>5 DEF mcpVars, RequestInv, Shape, Atmost1, OwnerInv, PlaceInv, PendingIsWaiting, IdInv,
     MessageInv
<1> QED
  BY <1>1, <1>2, <1>3, <1>4, <1>5, McpSteps

-----------------------------------------------------------------------------
(* The passes *)

\* A step that none of the passes is concerned with.
Undisturbed ==
  /\ UNCHANGED <<registered, spec, tools, wanted, latest>> /\ (overlapped' <=> overlapped)
  /\ \A c \in Clients : proc[c] # {} => proc'[c] # {}
  /\ \A r \in Passes :
       \/ task'[r] = task[r]
       \/ /\ task[r].at \notin {"new", "done", "closing"}
          /\ task'[r].at \notin {"new", "done", "closing"}
          /\ task'[r].of = task[r].of

LEMMA UndisturbedKeeps == ASSUME PassInv, Undisturbed PROVE PassInv'
<1>1. CASE overlapped
  BY <1>1 DEF PassInv, Undisturbed
<1>2. CASE ~overlapped
  <2>1. /\ UNCHANGED <<registered, spec, tools, wanted, latest>>
        /\ \A c \in Clients : proc[c] # {} => proc'[c] # {}
    BY DEF Undisturbed
  <2>2. \A r \in Passes : /\ InProgress(r)' <=> InProgress(r)
                          /\ task'[r].at = "closing" <=> task[r].at = "closing"
                          /\ task'[r].of = task[r].of
    BY DEF Undisturbed, InProgress
  <2>3. /\ \A r, s \in Passes : InProgress(r) /\ InProgress(s) => r = s
        /\ (\A r \in Passes : ~InProgress(r)) /\ tools # {} => tools = registered /\ spec = latest
        /\ \A r \in Passes : InProgress(r) =>
             /\ wanted[r] = latest
             /\ task[r].at # "closing" => task[r].of = registered /\ spec = latest /\ tools = {}
             /\ \A c \in Clients : task[r].at = "closing" /\ task[r].of = {c} => proc[c] # {}
    BY <1>2 DEF PassInv
  <2> HIDE DEF InProgress
  <2>4. \A r, s \in Passes : InProgress(r)' /\ InProgress(s)' => r = s
    BY <2>2, <2>3
  <2>5. (\A r \in Passes : ~InProgress(r)') /\ tools' # {} => tools' = registered' /\ spec' = latest'
    BY <2>1, <2>2, <2>3
  <2>6. \A r \in Passes : InProgress(r)' =>
          /\ wanted'[r] = latest'
          /\ task'[r].at # "closing" => task'[r].of = registered' /\ spec' = latest' /\ tools' = {}
          /\ \A c \in Clients : task'[r].at = "closing" /\ task'[r].of = {c} => proc'[c] # {}
    BY <2>1, <2>2, <2>3
  <2> QED
    BY <2>4, <2>5, <2>6 DEF PassInv
<1> QED
  BY <1>1, <1>2

\* Where a step of its own takes a task that has a request.
LEMMA ClientStepMoves ==
  ASSUME RequestInv, DrainInv, NEW t \in ClientTasks, ClientStep(t)
  PROVE  /\ task[t].at \in {"spawn", "wait", "expired", "answered", "failed", "notifying"}
         /\ task'[t].at \in {"spawn", "wait", "expired", "failed", "notifying"}
         /\ task'[t].of = task[t].of
         /\ \A u \in ClientTasks : u # t => task'[u] = task[u]
<1> USE DEF RequestInv
<1>1. PICK c \in Clients :
        \/ Spawned(t, c) \/ SpawnFails(t, c) \/ TimeoutFires(t, c) \/ TimeoutRaises(t, c)
        \/ DrainRaises(t, c) \/ Initialized(t, c) \/ Notified(t, c)
  BY OfClients DEF ClientStep
<1>2. task[t].of = {c}
  BY <1>1 DEF Spawned, SpawnFails, TimeoutFires, TimeoutRaises, DrainRaises, Initialized, Notified, Is
<1>3. task[t].at \in {"spawn", "wait", "expired", "answered", "failed", "notifying"}
  <2>1. CASE DrainRaises(t, c)
    BY <2>1 DEF DrainRaises, DrainInv, Writing
  <2> QED
    BY <1>1, <2>1 DEF Spawned, SpawnFails, TimeoutFires, TimeoutRaises, Initialized, Notified, Is
<1>4. \E at \in {"spawn", "wait", "expired", "failed", "notifying"} : \E step, id :
        \/ Put(t, at, c, step, id)
        \/ at = "expired" /\ task' = [task EXCEPT ![t].at = "expired"]
  <2>1. CASE Spawned(t, c) \/ SpawnFails(t, c) \/ TimeoutRaises(t, c) \/ DrainRaises(t, c)
    BY <2>1 DEF Spawned, SpawnFails, TimeoutRaises, DrainRaises
  <2>2. CASE TimeoutFires(t, c)
    BY <2>2 DEF TimeoutFires
  <2>3. CASE Initialized(t, c)
    BY <2>3 DEF Initialized, Send
  <2>4. CASE Notified(t, c)
    BY <2>4 DEF Notified, Request, Send
  <2> QED
    BY <1>1, <2>1, <2>2, <2>3, <2>4
<1>5. /\ \A u \in ClientTasks : u # t => task'[u] = task[u]
      /\ task'[t].of = {c} /\ task'[t].at \in {"spawn", "wait", "expired", "failed", "notifying"}
  <2>1. task \in [ClientTasks -> Task] /\ task[t] \in Task
    BY DEF Shape
  <2>2. ASSUME NEW at \in {"spawn", "wait", "expired", "failed", "notifying"}, NEW step, NEW id,
               Put(t, at, c, step, id)
        PROVE  /\ \A u \in ClientTasks : u # t => task'[u] = task[u]
               /\ task'[t].of = {c} /\ task'[t].at = at
    BY <2>1, <2>2 DEF Put
  <2>3. ASSUME task' = [task EXCEPT ![t].at = "expired"]
        PROVE  /\ \A u \in ClientTasks : u # t => task'[u] = task[u]
               /\ task'[t].of = {c} /\ task'[t].at = "expired"
    BY <1>2, <2>1, <2>3 DEF Task
  <2> QED
    BY <1>4, <2>2, <2>3
<1> QED
  BY <1>2, <1>3, <1>5

LEMMA ClientStepUndisturbed ==
  ASSUME RequestInv, DrainInv, NEW t \in ClientTasks, ClientStep(t) PROVE Undisturbed
<1>1. PICK c \in Clients :
        \/ Spawned(t, c) \/ SpawnFails(t, c) \/ TimeoutFires(t, c) \/ TimeoutRaises(t, c)
        \/ DrainRaises(t, c) \/ Initialized(t, c) \/ Notified(t, c)
  BY OfClients DEF ClientStep
<1>2. UNCHANGED <<registered, spec, tools, wanted, latest>> /\ overlapped' = overlapped
  BY <1>1 DEF Spawned, SpawnFails, TimeoutFires, TimeoutRaises, DrainRaises, Initialized, Notified,
     daemon, payloads
<1>3. \A d \in Clients : proc[d] # {} => proc'[d] # {}
  <2>1. UNCHANGED proc \/ \E p \in Procs : proc' = [proc EXCEPT ![c] = {p}]
    BY <1>1 DEF Spawned, SpawnFails, TimeoutFires, TimeoutRaises, DrainRaises, Initialized, Notified
  <2> QED
    BY <2>1 DEF RequestInv, Shape
<1>4. ASSUME NEW r \in Passes
      PROVE  \/ task'[r] = task[r]
             \/ /\ task[r].at \notin {"new", "done", "closing"}
                /\ task'[r].at \notin {"new", "done", "closing"}
                /\ task'[r].of = task[r].of
  BY ClientStepMoves DEF ClientTasks
<1>5. overlapped' <=> overlapped
  BY <1>2
<1> QED
  BY <1>2, <1>3, <1>4, <1>5 DEF Undisturbed

LEMMA ServerUndisturbed ==
  ASSUME RequestInv, NEW p \in Procs, ServerStep(p)
  PROVE  Undisturbed
<1> USE DEF RequestInv
<1>1. /\ UNCHANGED <<registered, spec, tools, wanted, latest, proc>>
      /\ overlapped' = overlapped
  BY DEF ServerStep, Drained, Answer, ServerDies, ReaderStarts, ReadLine, ReaderEof, daemon, payloads
<1>2. CASE Drained(p) \/ Answer(p) \/ ServerDies(p)
  <2>1. task' = task
    BY <1>2 DEF Drained, Answer, ServerDies
  <2> QED
    BY <1>1, <2>1 DEF Undisturbed
<1>3. CASE ReaderStarts(p) \/ ReadLine(p) \/ ReaderEof(p)
  <2>1. PICK c \in owner[p] : Reads(p, c)
    BY <1>3, ReaderStartsReads, ReadLineReads, ReaderEofReads
  <2>2. \A u \in ClientTasks :
          \/ u \in pending \ pending' /\ task'[u].of = task[u].of
                                      /\ task'[u].at \in {"expired", "failed", "answered"}
          \/ task'[u] = task[u]
    BY <2>1 DEF Reads
  <2>3. ASSUME NEW r \in Passes
        PROVE  \/ task'[r] = task[r]
               \/ /\ task[r].at \notin {"new", "done", "closing"}
                  /\ task'[r].at \notin {"new", "done", "closing"}
                  /\ task'[r].of = task[r].of
    BY <2>2 DEF ClientTasks, PendingIsWaiting
  <2>4. overlapped' <=> overlapped
    BY <1>1
  <2> QED
    BY <1>1, <2>3, <2>4 DEF Undisturbed
<1> QED
  BY <1>2, <1>3 DEF ServerStep

LEMMA CallsUndisturbed ==
  ASSUME RequestInv, NEW t \in Calls, CallStep(t)
  PROVE  Undisturbed
<1>1. UNCHANGED <<registered, spec, tools, wanted, latest, proc>> /\ overlapped' = overlapped
  BY DEF CallStep, CallBegins, CallEnds, daemon, payloads
<1>2. \A u \in ClientTasks : u # t => task'[u] = task[u]
  <2>1. CASE CallBegins(t)
    BY <2>1, CallBeginsKeeps
  <2>2. CASE \E c \in Clients : CallEnds(t, c)
    BY <2>2 DEF CallEnds, RequestInv, Shape
  <2> QED
    BY <2>1, <2>2 DEF CallStep
<1>3. \A r \in Passes : task'[r] = task[r]
  BY <1>2, McpAssumption DEF ClientTasks
<1>4. overlapped' <=> overlapped
  BY <1>1
<1> QED
  BY <1>1, <1>3, <1>4 DEF Undisturbed

\* A pass that begins alone: what it leaves.
LEMMA AlonePass ==
  ASSUME NEW r \in Passes,
         \A s \in Passes : s # r => ~InProgress(s)',
         InProgress(r)' => /\ wanted'[r] = latest'
                           /\ task'[r].at # "closing" =>
                                task'[r].of = registered' /\ spec' = latest' /\ tools' = {}
                           /\ \A c \in Clients :
                                task'[r].at = "closing" /\ task'[r].of = {c} => proc'[c] # {},
         ~InProgress(r)' /\ tools' # {} => tools' = registered' /\ spec' = latest'
  PROVE  PassInv'
<1> HIDE DEF InProgress
<1> QED
  BY DEF PassInv

LEMMA EnablePass ==
  ASSUME RequestInv, PassInv, NEW r \in Passes, Enable(r) PROVE PassInv'
<1> USE DEF RequestInv
<1>1. CASE overlapped'
  BY <1>1 DEF PassInv
<1>2. CASE ~overlapped'
  <2>1. PICK w \in Launch : Payload(r, w) /\ spec' = w
    BY DEF Enable
  <2>2. PICK c \in IF registered = {} THEN NewClient ELSE registered :
         /\ registered' = {c}
         /\ \/ Begin(r, c) /\ tools' = {}
            \/ tools' = {c} /\ task' = [task EXCEPT ![r] = Done]
    BY DEF Enable
  <2>3. w \in Keys /\ c \in Clients
    BY LaunchFacts, NewClientFacts, <2>1, <2>2 DEF Shape
  <2>4. /\ r \in ClientTasks /\ r \notin pending
        /\ wanted'[r] = w /\ latest' = w /\ \A o \in Passes : ~InProgress(o)
    BY <1>2, <2>1, <2>3, PayloadFacts
  <2>5. CASE Begin(r, c) /\ tools' = {}
    <3>1. UNCHANGED <<owner, answers>>
      BY DEF Enable
    <3>2. GoesOn(r, c)
      BY <2>3, <2>4, <2>5, <3>1, BeginEffect
    <3>3. task'[r].of = {c} /\ task'[r].at \in {"wait", "failed", "spawn"}
          /\ \A u \in ClientTasks : u # r => task'[u] = task[u]
      BY <3>2 DEF GoesOn
    <3>4. \A s \in Passes : s # r => ~InProgress(s)'
      BY <2>4, <3>3 DEF InProgress, ClientTasks
    <3>5. InProgress(r)'
      BY <3>3 DEF InProgress
    <3> QED
      BY <2>1, <2>2, <2>4, <2>5, <3>3, <3>4, <3>5, AlonePass
  <2>6. CASE tools' = {c} /\ task' = [task EXCEPT ![r] = Done]
    <3>1. task'[r] = Done /\ \A u \in ClientTasks : u # r => task'[u] = task[u]
      BY <2>4, <2>6 DEF Shape
    <3>2. \A s \in Passes : s # r => ~InProgress(s)'
      BY <2>4, <3>1 DEF InProgress, ClientTasks
    <3>3. ~InProgress(r)'
      BY <3>1, DoneFacts DEF InProgress
    <3> QED
      BY <2>1, <2>2, <2>4, <2>6, <3>2, <3>3, AlonePass
  <2> QED
    BY <2>2, <2>5, <2>6
<1> QED
  BY <1>1, <1>2

LEMMA DisableUnknownPass ==
  ASSUME RequestInv, PassInv, NEW r \in Passes, DisableUnknown(r) PROVE PassInv'
<1> USE DEF RequestInv
<1>1. CASE overlapped'
  BY <1>1 DEF PassInv
<1>2. CASE ~overlapped'
  <2>1. /\ registered = {} /\ Payload(r, "off") /\ task' = [task EXCEPT ![r] = Done]
        /\ UNCHANGED <<registered, tools>>
    BY DEF DisableUnknown
  <2>2. /\ r \in ClientTasks /\ ~overlapped /\ \A o \in Passes : ~InProgress(o)
    BY <1>2, <2>1, PayloadFacts
  <2>3. tools = {}
    BY <2>1, <2>2 DEF PassInv
  <2>4. task'[r] = Done /\ \A u \in ClientTasks : u # r => task'[u] = task[u]
    BY <2>1, <2>2 DEF Shape
  <2>5. \A s \in Passes : s # r => ~InProgress(s)'
    BY <2>2, <2>4 DEF InProgress, ClientTasks
  <2>6. ~InProgress(r)'
    BY <2>4, DoneFacts DEF InProgress
  <2> QED
    BY <2>1, <2>3, <2>5, <2>6, AlonePass
<1> QED
  BY <1>1, <1>2

\* Where a pass that closes a client goes.
LEMMA ClosingTask ==
  ASSUME RequestInv, NEW r \in Passes, NEW c, NEW x, task' = [Failing(Of(c)) EXCEPT ![r] = x],
         \A o \in Passes : ~InProgress(o)
  PROVE  task'[r] = x /\ \A s \in Passes : s # r => ~InProgress(s)'
<1> DEFINE ts == Failing(Of(c))
<1>1. task \in [ClientTasks -> Task] /\ r \in ClientTasks
  BY DEF RequestInv, Shape, ClientTasks
<1>2. /\ ts \in [ClientTasks -> Task]
      /\ \A t \in ClientTasks : IF t \in Of(c) /\ task[t].at = "wait" THEN ts[t].at = "failed"
                                                                      ELSE ts[t] = task[t]
  BY <1>1, FailingFacts
<1> HIDE DEF ts
<1>3. task'[r] = x /\ \A u \in ClientTasks : u # r => task'[u] = ts[u]
  BY <1>1, <1>2 DEF ts
<1>4. ASSUME NEW s \in Passes, s # r PROVE ~InProgress(s)'
  BY <1>2, <1>3, <1>4 DEF InProgress, ClientTasks
<1> QED
  BY <1>3, <1>4

LEMMA CloseBeginsPass ==
  ASSUME RequestInv, PassInv, NEW r \in Passes, CloseBegins(r) PROVE PassInv'
<1>1. CASE overlapped'
  BY <1>1 DEF PassInv
<1>2. CASE ~overlapped'
  <2>1. PICK w \in Keys \cup {"off"}, c \in registered :
         /\ CloseWanted(r, c, w) /\ proc[c] # {}
         /\ task' = [Failing(Of(c)) EXCEPT ![r] =
                       [at |-> "closing", of |-> {c}, step |-> "main", id |-> 0]]
    BY DEF CloseBegins
  <2>2. Payload(r, w)
    BY <2>1 DEF CloseWanted
  <2>3. wanted'[r] = w /\ latest' = w /\ \A o \in Passes : ~InProgress(o)
    BY <1>2, <2>2, PayloadFacts
  <2> DEFINE x == [at |-> "closing", of |-> {c}, step |-> "main", id |-> 0]
  <2>4. x.at = "closing" /\ x.of = {c} /\ proc' = proc
    BY DEF CloseBegins
  <2>5. task' = [Failing(Of(c)) EXCEPT ![r] = x]
    BY <2>1
  <2> HIDE DEF x
  <2>6. task'[r] = x /\ \A s \in Passes : s # r => ~InProgress(s)'
    BY <2>3, <2>5, ClosingTask
  <2>7. InProgress(r)'
    BY <2>4, <2>6 DEF InProgress
  <2>8. \A d \in Clients : task'[r].of = {d} => proc'[d] # {}
    BY <2>1, <2>4, <2>6
  <2> QED
    BY <2>3, <2>4, <2>6, <2>7, <2>8, AlonePass
<1> QED
  BY <1>1, <1>2

LEMMA CloseAtOncePass ==
  ASSUME RequestInv, PassInv, NEW r \in Passes, CloseAtOnce(r) PROVE PassInv'
<1>1. CASE overlapped'
  BY <1>1 DEF PassInv
<1>2. CASE ~overlapped'
  <2>1. PICK w \in Keys \cup {"off"}, c \in registered :
         /\ CloseWanted(r, c, w)
         /\ \/ w = "off" /\ Disable(r, Failing(Of(c)))
            \/ w # "off" /\ EnableNew(r, w, Failing(Of(c)))
    BY DEF CloseAtOnce
  <2>2. Payload(r, w)
    BY <2>1 DEF CloseWanted
  <2>3. wanted'[r] = w /\ latest' = w /\ \A o \in Passes : ~InProgress(o)
    BY <1>2, <2>2, PayloadFacts
  <2>4. CASE Disable(r, Failing(Of(c)))
    <3>1. tools' = {} /\ task' = [Failing(Of(c)) EXCEPT ![r] = Done]
      BY <2>4 DEF Disable
    <3>2. task'[r] = Done /\ \A s \in Passes : s # r => ~InProgress(s)'
      BY <2>3, <3>1, ClosingTask
    <3>3. ~InProgress(r)'
      BY <3>2, DoneFacts DEF InProgress
    <3> QED
      BY <3>1, <3>2, <3>3, AlonePass
  <2>5. CASE EnableNew(r, w, Failing(Of(c)))
    <3>1. PICK d \in Clients :
            /\ registered' = {d} /\ spec' = w
            /\ \/ /\ tools' = {} /\ UNCHANGED status
                  /\ task' = [Failing(Of(c)) EXCEPT ![r] = Spawning(d)]
               \/ /\ tools' = {d} /\ status' = "ready"
                  /\ task' = [Failing(Of(c)) EXCEPT ![r] = Done]
      BY <2>5, EnableNewFacts
    <3>2. CASE tools' = {} /\ task' = [Failing(Of(c)) EXCEPT ![r] = Spawning(d)]
      <4>1. task'[r] = Spawning(d) /\ \A s \in Passes : s # r => ~InProgress(s)'
        BY <2>3, <3>2, ClosingTask
      <4>2. task'[r].at = "spawn" /\ task'[r].of = {d}
        BY <4>1, SpawningFacts
      <4>3. InProgress(r)'
        BY <4>2 DEF InProgress
      <4> QED
        BY <2>3, <3>1, <3>2, <4>1, <4>2, <4>3, AlonePass
    <3>3. CASE tools' = {d} /\ task' = [Failing(Of(c)) EXCEPT ![r] = Done]
      <4>1. task'[r] = Done /\ \A s \in Passes : s # r => ~InProgress(s)'
        BY <2>3, <3>3, ClosingTask
      <4>2. ~InProgress(r)'
        BY <4>1, DoneFacts DEF InProgress
      <4> QED
        BY <2>3, <3>1, <3>3, <4>1, <4>2, AlonePass
    <3> QED
      BY <3>1, <3>2, <3>3
  <2> QED
    BY <2>1, <2>4, <2>5
<1> QED
  BY <1>1, <1>2

LEMMA CloseEndsPass ==
  ASSUME RequestInv, PassInv, NEW r \in Passes, NEW c \in Clients, CloseEnds(r, c)
  PROVE  PassInv'
<1>1. /\ task[r].at = "closing"
      /\ \/ wanted[r] = "off" /\ Disable(r, task) /\ UNCHANGED registered
         \/ wanted[r] # "off" /\ EnableNew(r, wanted[r], task)
      /\ UNCHANGED <<wanted, latest>> /\ overlapped' = overlapped
  BY DEF CloseEnds, Is, payloads
<1>2. CASE overlapped
  BY <1>1, <1>2 DEF PassInv
<1>3. CASE ~overlapped
  <2>1. InProgress(r)
    BY <1>1 DEF InProgress
  <2>2. wanted[r] = latest /\ \A s \in Passes : s # r => ~InProgress(s)
    BY <1>3, <2>1 DEF PassInv
  <2>3. task \in [ClientTasks -> Task] /\ r \in ClientTasks
    BY DEF RequestInv, Shape, ClientTasks
  <2>4. ASSUME NEW x, task' = [task EXCEPT ![r] = x]
        PROVE  task'[r] = x /\ \A s \in Passes : s # r => ~InProgress(s)'
    <3>1. task'[r] = x /\ \A u \in ClientTasks : u # r => task'[u] = task[u]
      BY <2>3, <2>4
    <3> QED
      BY <2>2, <3>1 DEF InProgress, ClientTasks
  <2>5. CASE Disable(r, task)
    <3>1. tools' = {} /\ task' = [task EXCEPT ![r] = Done]
      BY <2>5 DEF Disable
    <3>2. task'[r] = Done /\ \A s \in Passes : s # r => ~InProgress(s)'
      BY <2>4, <3>1
    <3>3. ~InProgress(r)'
      BY <3>2, DoneFacts DEF InProgress
    <3> QED
      BY <3>1, <3>2, <3>3, AlonePass
  <2>6. CASE EnableNew(r, wanted[r], task)
    <3>1. PICK d \in Clients :
            /\ registered' = {d} /\ spec' = wanted[r]
            /\ \/ /\ tools' = {} /\ UNCHANGED status
                  /\ task' = [task EXCEPT ![r] = Spawning(d)]
               \/ /\ tools' = {d} /\ status' = "ready"
                  /\ task' = [task EXCEPT ![r] = Done]
      BY <2>6, EnableNewFacts
    <3>2. CASE tools' = {} /\ task' = [task EXCEPT ![r] = Spawning(d)]
      <4>1. task'[r] = Spawning(d) /\ \A s \in Passes : s # r => ~InProgress(s)'
        BY <2>4, <3>2
      <4>2. task'[r].at = "spawn" /\ task'[r].of = {d}
        BY <4>1, SpawningFacts
      <4>3. InProgress(r)'
        BY <4>2 DEF InProgress
      <4> QED
        BY <1>1, <2>2, <3>1, <3>2, <4>1, <4>2, <4>3, AlonePass
    <3>3. CASE tools' = {d} /\ task' = [task EXCEPT ![r] = Done]
      <4>1. task'[r] = Done /\ \A s \in Passes : s # r => ~InProgress(s)'
        BY <2>4, <3>3
      <4>2. ~InProgress(r)'
        BY <4>1, DoneFacts DEF InProgress
      <4> QED
        BY <1>1, <2>2, <3>1, <3>3, <4>1, <4>2, AlonePass
    <3> QED
      BY <3>1, <3>2, <3>3
  <2> QED
    BY <1>1, <2>5, <2>6
<1> QED
  BY <1>2, <1>3

\* Alone, no pass finds that the client it closes has been closed.
LEMMA CloseRaisesPass ==
  ASSUME PassInv, NEW r \in Passes, NEW c \in Clients, CloseRaises(r, c) PROVE PassInv'
<1>1. /\ task[r].at = "closing" /\ task[r].of = {c} /\ proc[c] = {} /\ overlapped' = overlapped
  BY DEF CloseRaises, Is, payloads
<1>2. InProgress(r)
  BY <1>1 DEF InProgress
<1>3. overlapped
  BY <1>1, <1>2 DEF PassInv
<1> QED
  BY <1>1, <1>3 DEF PassInv

LEMMA NextPageUndisturbed ==
  ASSUME RequestInv, NEW r \in Passes, NEW c \in Clients, NextPage(r, c) PROVE Undisturbed
<1>1. UNCHANGED <<registered, spec, tools, wanted, latest, proc>> /\ overlapped' = overlapped
  BY DEF NextPage, daemon, payloads
<1>2. task[r].at = "answered" /\ task[r].of = {c} /\ GoesOn(r, c)
  BY NextPageFacts DEF NextPage, Is
<1>3. \A s \in Passes : \/ task'[s] = task[s]
                        \/ /\ task[s].at \notin {"new", "done", "closing"}
                           /\ task'[s].at \notin {"new", "done", "closing"}
                           /\ task'[s].of = task[s].of
  BY <1>2 DEF GoesOn, ClientTasks
<1>4. overlapped' <=> overlapped
  BY <1>1
<1> QED
  BY <1>1, <1>3, <1>4 DEF Undisturbed

LEMMA PassEndsPass ==
  ASSUME RequestInv, PassInv, NEW r \in Passes, NEW c \in Clients, PassEnds(r, c)
  PROVE  PassInv'
<1>1. /\ \/ task[r].at = "answered" /\ task[r].of = {c} /\ tools' = {c}
         \/ task[r].at = "failed" /\ UNCHANGED tools
      /\ task' = [task EXCEPT ![r] = Done]
      /\ UNCHANGED <<registered, spec, wanted, latest>> /\ overlapped' = overlapped
  BY DEF PassEnds, Is, payloads
<1>2. CASE overlapped
  BY <1>1, <1>2 DEF PassInv
<1>3. CASE ~overlapped
  <2>1. InProgress(r)
    BY <1>1 DEF InProgress
  <2>2. /\ task[r].of = registered /\ spec = latest /\ tools = {}
        /\ \A s \in Passes : s # r => ~InProgress(s)
    BY <1>1, <1>3, <2>1 DEF PassInv
  <2>3. task'[r] = Done /\ \A u \in ClientTasks : u # r => task'[u] = task[u]
    BY <1>1 DEF RequestInv, Shape, ClientTasks
  <2>4. \A s \in Passes : s # r => ~InProgress(s)'
    BY <2>2, <2>3 DEF InProgress, ClientTasks
  <2>5. ~InProgress(r)'
    BY <2>3, DoneFacts DEF InProgress
  <2>6. tools' # {} => tools' = registered' /\ spec' = latest'
    BY <1>1, <2>2
  <2> QED
    BY <2>4, <2>5, <2>6, AlonePass
<1> QED
  BY <1>2, <1>3

LEMMA PassNext == ASSUME RequestInv, DrainInv, PassInv, [McpNext]_mcpVars PROVE PassInv'
<1>1. ASSUME NEW t \in ClientTasks, ClientStep(t) PROVE PassInv'
  BY <1>1, ClientStepUndisturbed, UndisturbedKeeps
<1>2. ASSUME NEW t \in Calls, CallStep(t) PROVE PassInv'
  BY <1>2, CallsUndisturbed, UndisturbedKeeps
<1>3. ASSUME NEW r \in Passes, PassStep(r) PROVE PassInv'
  BY <1>3, EnablePass, DisableUnknownPass, CloseBeginsPass, CloseAtOncePass, CloseEndsPass,
     CloseRaisesPass, NextPageUndisturbed, UndisturbedKeeps, PassEndsPass DEF PassStep
<1>4. ASSUME NEW p \in Procs, ServerStep(p) PROVE PassInv'
  BY <1>4, ServerUndisturbed, UndisturbedKeeps
<1>5. CASE UNCHANGED mcpVars
  <2>1. UNCHANGED <<registered, spec, tools, wanted, latest, task, proc>> /\ overlapped' = overlapped
    BY <1>5 DEF mcpVars
  <2>2. Undisturbed
    BY <2>1 DEF Undisturbed
  <2> QED
    BY <2>2, UndisturbedKeeps
<1> QED
  BY <1>1, <1>2, <1>3, <1>4, <1>5, McpSteps

-----------------------------------------------------------------------------
(* The tasks in drain *)

\* t may begin to wait in drain, and other tasks are answered or failed there.
Drains(t) ==
  /\ draining' \in [Procs -> SUBSET ClientTasks]
  /\ \A p \in Procs : draining'[p] \subseteq draining[p] \cup {t}
  /\ \A u \in ClientTasks : u # t => task'[u].at \in {task[u].at, "answered", "failed"}
  /\ (\A p \in Procs : t \notin draining'[p]) \/ task'[t].at \in Writing

LEMMA DrainsKeeps == ASSUME DrainInv, NEW t, Drains(t) PROVE DrainInv'
<1>1. ASSUME NEW p \in Procs, NEW u \in draining'[p] PROVE task'[u].at \in Writing
  <2>1. CASE u = t
    BY <2>1 DEF Drains
  <2>2. CASE u # t
    <3>1. u \in draining[p] /\ u \in ClientTasks
      BY <2>2 DEF Drains
    <3> QED
      BY <2>2, <3>1 DEF Drains, DrainInv, Writing
  <2> QED
    BY <2>1, <2>2
<1> QED
  BY <1>1 DEF DrainInv, Drains

\* A task that is not in drain makes a step and does not write.
LEMMA QuietDrains ==
  ASSUME DrainInv, NEW t, ~Draining(t), UNCHANGED draining,
         \A u \in ClientTasks : u # t => task'[u].at \in {task[u].at, "answered", "failed"}
  PROVE  DrainInv'
<1>1. Drains(t)
  BY DEF Drains, DrainInv, Draining
<1> QED
  BY <1>1, DrainsKeeps

\* A step of which the tasks only get their answers.
LEMMA StillDrains ==
  ASSUME DrainInv, draining' \in [Procs -> SUBSET ClientTasks],
         \A p \in Procs : draining'[p] \subseteq draining[p],
         \A u \in ClientTasks : task'[u].at \in {task[u].at, "answered", "failed"}
  PROVE  DrainInv'
<1>1. ASSUME NEW p \in Procs, NEW u \in draining'[p] PROVE task'[u].at \in Writing
  BY DEF DrainInv, Writing
<1> QED
  BY <1>1 DEF DrainInv

LEMMA NewDrains ==
  ASSUME DrainInv, NEW t \in ClientTasks, task[t].at = "new" PROVE ~Draining(t)
BY DEF DrainInv, Draining, Writing

\* Whoever writes may have to wait; one that has to start the process first does not.
LEMMA DrainFacts ==
  ASSUME DrainInv, NEW t \in ClientTasks, NEW step, NEW p \in Procs, Drain(t, step, p)
  PROVE  /\ draining' \in [Procs -> SUBSET ClientTasks]
         /\ \A q \in Procs : draining'[q] \subseteq draining[q] \cup {t}
BY DEF Drain, DrainInv

LEMMA SendDrains ==
  ASSUME RequestInv, DrainInv, NEW t \in ClientTasks, NEW c \in Clients, NEW step,
         NEW p \in Procs, Send(t, c, step, p)
  PROVE  Drains(t)
<1>1. \E at \in {"wait", "failed"} : \E id : Put(t, at, c, step, id)
  BY DEF Send
<1>2. task'[t].at \in {"wait", "failed"} /\ \A u \in ClientTasks : u # t => task'[u] = task[u]
  BY <1>1 DEF Put, RequestInv, Shape
<1>3. Drain(t, step, p) \/ UNCHANGED draining
  BY DEF Send
<1>4. /\ draining' \in [Procs -> SUBSET ClientTasks]
      /\ \A q \in Procs : draining'[q] \subseteq draining[q] \cup {t}
  BY <1>3, DrainFacts DEF DrainInv
<1> QED
  BY <1>2, <1>4 DEF Drains, Writing

LEMMA RequestDrains ==
  ASSUME RequestInv, DrainInv, NEW t \in ClientTasks, ~Draining(t), NEW c \in Clients, NEW step,
         Request(t, c, step)
  PROVE  DrainInv'
<1>1. CASE Put(t, "spawn", c, step, 0) /\ UNCHANGED draining
  <2>1. \A u \in ClientTasks : u # t => task'[u] = task[u]
    BY <1>1 DEF Put, RequestInv, Shape
  <2> QED
    BY <1>1, <2>1, QuietDrains
<1>2. CASE \E p \in proc[c] : Send(t, c, step, p)
  <2>1. \E p \in Procs : Send(t, c, step, p)
    BY <1>2 DEF RequestInv, Shape
  <2> QED
    BY <2>1, SendDrains, DrainsKeeps
<1> QED
  BY <1>1, <1>2 DEF Request

LEMMA ClientStepDrains ==
  ASSUME RequestInv, DrainInv, NEW t \in ClientTasks, ClientStep(t) PROVE DrainInv'
<1>1. PICK c \in Clients :
        \/ Spawned(t, c) \/ SpawnFails(t, c) \/ TimeoutFires(t, c) \/ TimeoutRaises(t, c)
        \/ DrainRaises(t, c) \/ Initialized(t, c) \/ Notified(t, c)
  BY OfClients DEF ClientStep
<1>2. /\ \A u \in ClientTasks : u # t => task'[u] = task[u]
      /\ task \in [ClientTasks -> Task] /\ task[t] \in Task
      /\ task'[t].at \in {"spawn", "wait", "expired", "failed", "notifying"}
  BY ClientStepMoves DEF RequestInv, Shape
<1>3. CASE Spawned(t, c)
  <2>1. PICK p \in Procs : \E step : Put(t, "wait", c, step, RequestId(c)) /\ Drain(t, step, p)
    BY <1>3 DEF Spawned
  <2>2. task'[t].at = "wait"
    BY <1>2, <2>1 DEF Put
  <2>3. Drains(t)
    BY <1>2, <2>1, <2>2, DrainFacts DEF Drains, Writing
  <2> QED
    BY <2>3, DrainsKeeps
<1>4. CASE SpawnFails(t, c) \/ TimeoutFires(t, c) \/ TimeoutRaises(t, c)
  <2>1. ~Draining(t) /\ UNCHANGED draining
    BY <1>4 DEF SpawnFails, TimeoutFires, TimeoutRaises, Is, wire
  <2> QED
    BY <1>2, <2>1, QuietDrains
<1>5. CASE DrainRaises(t, c)
  <2>1. PICK p \in Procs : draining' = [draining EXCEPT ![p] = draining[p] \ {t}]
    BY <1>5 DEF DrainRaises
  <2>2. /\ draining' \in [Procs -> SUBSET ClientTasks]
        /\ \A q \in Procs : draining'[q] \subseteq draining[q] \cup {t}
    BY <2>1 DEF DrainInv
  <2>3. task'[t].at = "failed"
    BY <1>2, <1>5 DEF DrainRaises, Put
  <2>4. Drains(t)
    BY <1>2, <2>2, <2>3 DEF Drains, Writing
  <2> QED
    BY <2>4, DrainsKeeps
<1>6. CASE Initialized(t, c)
  <2>1. ~Draining(t)
    BY <1>6 DEF Initialized, Is
  <2>2. CASE UNCHANGED draining
    BY <1>2, <2>1, <2>2, QuietDrains
  <2>3. CASE \E p \in proc[c] : Send(t, c, "main", p)
    <3>1. \E p \in Procs : Send(t, c, "main", p)
      BY <2>3 DEF RequestInv, Shape
    <3> QED
      BY <3>1, SendDrains, DrainsKeeps
  <2>4. CASE \E p \in proc[c] : /\ draining' = [draining EXCEPT ![p] = draining[p] \cup {t}]
                               /\ Put(t, "notifying", c, "notify", 0)
    <3>1. PICK p \in proc[c] : draining' = [draining EXCEPT ![p] = draining[p] \cup {t}]
      BY <2>4
    <3>2. /\ draining' \in [Procs -> SUBSET ClientTasks]
          /\ \A q \in Procs : draining'[q] \subseteq draining[q] \cup {t}
      BY <3>1 DEF DrainInv
    <3>3. task'[t].at = "notifying"
      BY <1>2, <2>4 DEF Put
    <3>4. Drains(t)
      BY <1>2, <3>2, <3>3 DEF Drains, Writing
    <3> QED
      BY <3>4, DrainsKeeps
  <2> QED
    BY <1>6, <2>2, <2>3, <2>4 DEF Initialized
<1>7. CASE Notified(t, c)
  BY <1>7, RequestDrains DEF Notified, Is
<1> QED
  BY <1>1, <1>3, <1>4, <1>5, <1>6, <1>7

LEMMA ServerDrains ==
  ASSUME RequestInv, DrainInv, NEW p \in Procs, ServerStep(p) PROVE DrainInv'
<1> USE DEF RequestInv
<1>1. /\ draining' \in [Procs -> SUBSET ClientTasks]
      /\ \A q \in Procs : draining'[q] \subseteq draining[q]
  <2>1. CASE Drained(p)
    BY <2>1 DEF Drained, DrainInv
  <2>2. CASE UNCHANGED draining
    BY <2>2 DEF DrainInv
  <2> QED
    BY <2>1, <2>2 DEF ServerStep, Answer, ServerDies, ReaderStarts, ReadLine, ReaderEof, wire
<1>2. ASSUME NEW u \in ClientTasks PROVE task'[u].at \in {task[u].at, "answered", "failed"}
  <2>1. CASE Drained(p) \/ Answer(p) \/ ServerDies(p) \/ ReaderEof(p)
    BY <2>1 DEF Drained, Answer, ServerDies, ReaderEof
  <2>2. CASE ReaderStarts(p)
    <3>1. task' = task \/ \E c : task' = Failing(Of(c))
      BY <2>2 DEF ReaderStarts
    <3> QED
      BY <3>1, FailingFacts DEF Shape
  <2>3. CASE ReadLine(p)
    BY <2>3, ReadLineReads
  <2> QED
    BY <2>1, <2>2, <2>3 DEF ServerStep
<1> QED
  BY <1>1, <1>2, StillDrains

LEMMA CallDrains ==
  ASSUME RequestInv, DrainInv, NEW t \in Calls, CallStep(t) PROVE DrainInv'
<1>1. t \in ClientTasks
  BY DEF ClientTasks
<1>2. CASE CallBegins(t)
  <2>1. PICK c \in Clients : Begin(t, c)
    BY <1>2 DEF CallBegins, RequestInv, Shape
  <2>2. ~Draining(t)
    BY <1>1, <1>2, NewDrains DEF CallBegins
  <2> QED
    BY <1>1, <2>1, <2>2, BeginRequests, RequestDrains
<1>3. CASE \E c \in Clients : CallEnds(t, c)
  <2>1. ~Draining(t) /\ UNCHANGED draining /\ task' = [task EXCEPT ![t] = Done]
    BY <1>3 DEF CallEnds, Is, wire
  <2>2. \A u \in ClientTasks : u # t => task'[u] = task[u]
    BY <2>1 DEF RequestInv, Shape
  <2> QED
    BY <2>1, <2>2, QuietDrains
<1> QED
  BY <1>2, <1>3 DEF CallStep

LEMMA PassDrains ==
  ASSUME RequestInv, DrainInv, NEW r \in Passes, PassStep(r) PROVE DrainInv'
<1> USE DEF RequestInv
<1>1. r \in ClientTasks /\ task \in [ClientTasks -> Task]
  BY DEF ClientTasks, Shape
<1>2. CASE Enable(r)
  <2>1. task[r].at = "new"
    BY <1>2 DEF Enable, Payload
  <2>2. ~Draining(r)
    BY <1>1, <2>1, NewDrains
  <2>3. PICK c \in IF registered = {} THEN NewClient ELSE registered :
          Begin(r, c) \/ (task' = [task EXCEPT ![r] = Done] /\ UNCHANGED draining)
    BY <1>2 DEF Enable
  <2>4. c \in Clients
    BY <2>3, NewClientFacts DEF Shape
  <2>5. CASE Begin(r, c)
    BY <1>1, <2>2, <2>4, <2>5, BeginRequests, RequestDrains
  <2>6. CASE task' = [task EXCEPT ![r] = Done] /\ UNCHANGED draining
    <3>1. \A u \in ClientTasks : u # r => task'[u] = task[u]
      BY <1>1, <2>6
    <3> QED
      BY <2>2, <2>6, <3>1, QuietDrains
  <2> QED
    BY <2>3, <2>5, <2>6
<1>3. CASE \E c \in Clients : NextPage(r, c)
  BY <1>1, <1>3, RequestDrains DEF NextPage, Is
<1>4. CASE \/ DisableUnknown(r) \/ CloseBegins(r) \/ CloseAtOnce(r)
           \/ \E c \in Clients : CloseEnds(r, c) \/ CloseRaises(r, c) \/ PassEnds(r, c)
  <2>1. UNCHANGED draining
    BY <1>4 DEF DisableUnknown, CloseBegins, CloseAtOnce, CloseEnds, CloseRaises, PassEnds, wire
  <2>2. ~Draining(r)
    <3>1. task[r].at = "new" \/ ~Draining(r)
      BY <1>4 DEF DisableUnknown, CloseBegins, CloseAtOnce, CloseWanted, Payload, CloseEnds,
         CloseRaises, PassEnds, Is
    <3> QED
      BY <1>1, <3>1, NewDrains
  <2>3. PICK ts, x : task' = [ts EXCEPT ![r] = x] /\ (ts = task \/ \E c : ts = Failing(Of(c)))
    BY <1>4 DEF DisableUnknown, CloseBegins, CloseAtOnce, CloseEnds, CloseRaises, PassEnds, Disable,
       EnableNew
  <2>4. ts \in [ClientTasks -> Task] /\ \A u \in ClientTasks : ts[u].at \in {task[u].at, "failed"}
    BY <1>1, <2>3, FailingFacts
  <2>5. \A u \in ClientTasks : u # r => task'[u] = ts[u]
    BY <2>3, <2>4
  <2> QED
    BY <2>1, <2>2, <2>4, <2>5, QuietDrains
<1> QED
  BY <1>2, <1>3, <1>4 DEF PassStep

LEMMA DrainNext == ASSUME RequestInv, DrainInv, [McpNext]_mcpVars PROVE DrainInv'
<1>1. CASE UNCHANGED mcpVars
  BY <1>1 DEF mcpVars, DrainInv
<1> QED
  BY <1>1, McpSteps, ClientStepDrains, CallDrains, PassDrains, ServerDrains

-----------------------------------------------------------------------------
(* McpClients: the properties of the runs *)

FlagsOK == initialized \in [Clients -> BOOLEAN]

\* What a step may do to the flags.
Flagged ==
  \/ UNCHANGED initialized
  \/ \E c \in Clients, t \in ClientTasks :
       initialized' = [initialized EXCEPT ![c] = initialized[c] \/ task[t].step = "notify"]
  \/ \E c \in Clients : initialized' = [initialized EXCEPT ![c] = TRUE]
  \/ \E c \in Clients : initialized' = [initialized EXCEPT ![c] = FALSE]

LEMMA FlagsNext == ASSUME RequestInv, FlagsOK, [McpNext]_mcpVars PROVE FlagsOK'
<1>1. ASSUME NEW t \in ClientTasks, ClientStep(t) PROVE Flagged
  <2>1. PICK c \in Clients :
          \/ Spawned(t, c) \/ SpawnFails(t, c) \/ TimeoutFires(t, c) \/ TimeoutRaises(t, c)
          \/ DrainRaises(t, c) \/ Initialized(t, c) \/ Notified(t, c)
    BY <1>1, OfClients DEF ClientStep
  <2>2. CASE Spawned(t, c)
    BY Zenon, <2>2 DEF Spawned, Flagged
  <2>3. CASE SpawnFails(t, c) \/ TimeoutFires(t, c) \/ TimeoutRaises(t, c) \/ DrainRaises(t, c)
    BY <2>3 DEF SpawnFails, TimeoutFires, TimeoutRaises, DrainRaises, Flagged
  <2>4. CASE Initialized(t, c)
    BY Zenon, <2>4 DEF Initialized, Flagged
  <2>5. CASE Notified(t, c)
    BY Zenon, <2>5 DEF Notified, Flagged
  <2> QED
    BY <2>1, <2>2, <2>3, <2>4, <2>5
<1>2. ASSUME NEW t \in Calls, CallStep(t) PROVE Flagged
  BY <1>2 DEF CallStep, CallBegins, CallEnds, Flagged
<1>3. ASSUME NEW r \in Passes, PassStep(r) PROVE Flagged
  <2>1. CASE \/ Enable(r) \/ DisableUnknown(r) \/ CloseBegins(r)
             \/ \E c \in Clients : CloseRaises(r, c) \/ NextPage(r, c) \/ PassEnds(r, c)
    BY <2>1 DEF Enable, DisableUnknown, CloseBegins, CloseRaises, NextPage, PassEnds, Flagged
  <2>2. CASE CloseAtOnce(r)
    BY Zenon, <2>2 DEF CloseAtOnce, Reset, Flagged, RequestInv, Shape
  <2>3. CASE \E c \in Clients : CloseEnds(r, c)
    BY Zenon, <2>3 DEF CloseEnds, Reset, Flagged
  <2> QED
    BY <1>3, <2>1, <2>2, <2>3 DEF PassStep
<1>4. ASSUME NEW p \in Procs, ServerStep(p) PROVE Flagged
  BY <1>4 DEF ServerStep, Drained, Answer, ServerDies, ReaderStarts, ReadLine, ReaderEof, Flagged
<1>5. ASSUME UNCHANGED mcpVars PROVE Flagged
  BY <1>5 DEF mcpVars, Flagged
<1>6. Flagged
  BY <1>1, <1>2, <1>3, <1>4, <1>5, McpSteps
<1>7. ASSUME NEW c \in Clients, NEW b \in BOOLEAN, initialized' = [initialized EXCEPT ![c] = b]
      PROVE  FlagsOK'
  BY <1>7 DEF FlagsOK
<1>8. CASE \E c \in Clients, t \in ClientTasks :
             initialized' = [initialized EXCEPT ![c] = initialized[c] \/ task[t].step = "notify"]
  <2>1. PICK c \in Clients, t \in ClientTasks :
          initialized' = [initialized EXCEPT ![c] = initialized[c] \/ task[t].step = "notify"]
    BY <1>8
  <2> DEFINE b == initialized[c] \/ task[t].step = "notify"
  <2>2. b \in BOOLEAN
    BY Zenon
  <2>3. initialized' = [initialized EXCEPT ![c] = b]
    BY Zenon, <2>1
  <2> HIDE DEF b
  <2> QED
    BY Zenon, <1>7, <2>2, <2>3
<1>9. CASE UNCHANGED initialized
  BY Zenon, <1>9 DEF FlagsOK
<1> QED
  BY Zenon, <1>6, <1>7, <1>8, <1>9 DEF Flagged

LEMMA McpInvariant == McpSpec => [](RequestInv /\ DrainInv /\ PassInv /\ FlagsOK)
<1>1. McpInit => FlagsOK
  BY Zenon DEF McpInit, FlagsOK
<1>2. McpInit => PassInv
  <2> SUFFICES ASSUME McpInit PROVE PassInv
    OBVIOUS
  <2>1. tools = {} /\ \A r \in Passes : task[r] = NewTask
    BY DEF McpInit, ClientTasks
  <2>2. \A r \in Passes : ~InProgress(r)
    BY <2>1, DoneFacts DEF InProgress
  <2> QED
    BY <2>1, <2>2 DEF PassInv
<1>3. McpInit => DrainInv
  BY DEF McpInit, DrainInv
<1>4. RequestInv /\ DrainInv /\ PassInv /\ FlagsOK /\ [McpNext]_mcpVars
        => (RequestInv /\ DrainInv /\ PassInv /\ FlagsOK)'
  BY RequestNext, DrainNext, PassNext, FlagsNext
<1> QED
  BY RequestInit, <1>1, <1>2, <1>3, <1>4, PTL DEF McpSpec

\* Tools are registered only for a server that the last pass wanted, through its client,
\* once no pass is in progress and unless two have overlapped; and the clients' maps hold
\* what waits and nothing else.
THEOREM ToolsTheorem == McpSpec => []ToolsOfEnabledServer
<1>1. RequestInv /\ DrainInv /\ PassInv /\ FlagsOK => ToolsOfEnabledServer
  <2> SUFFICES ASSUME RequestInv, DrainInv, PassInv, FlagsOK PROVE ToolsOfEnabledServer
    OBVIOUS
  <2> USE DEF RequestInv
  <2>1. ASSUME NEW S, Atmost1(S) PROVE Cardinality(S) <= 1
    <3>1. CASE S = {}
      BY <3>1, FS_EmptySet
    <3>2. CASE S # {}
      <4>1. PICK x : S = {x}
        BY <2>1, <3>2 DEF Atmost1
      <4> QED
        BY <4>1, FS_Singleton
    <3> QED
      BY <3>1, <3>2
  <2>2. Cardinality(registered) <= 1 /\ Cardinality(tools) <= 1
    BY <2>1 DEF Shape
  <2>3. \A c \in Clients : proc[c] \subseteq {p \in Procs : owner[p] = {c}}
    BY DEF Shape, OwnerInv
  <2>4. ASSUME NEW t \in ClientTasks
        PROVE  /\ task[t].at \in {"new", "spawn", "wait", "expired", "answered", "failed",
                                  "notifying", "closing", "done"}
               /\ task[t].step \in Steps /\ task[t].id \in Nat
               /\ (task[t].of = {} <=> task[t].at \in {"new", "done"})
    <3>1. task[t] \in Task
      BY DEF Shape
    <3> QED
      BY <3>1 DEF Task, PlaceInv
  <2>5. ASSUME NEW p \in Procs
        PROVE  /\ readTask[p].at \in {"none", "start", "read", "done"}
               /\ readTask[p].on \subseteq Procs /\ (readTask[p].at = "read" <=> readTask[p].on # {})
               /\ draining[p] \subseteq ClientTasks
               /\ (inbox[p] # {} => p \in alive) /\ (p \in alive => owner[p] # {})
    BY DEF Shape, Reader, OwnerInv, DrainInv
  <2>6. McpTypeOK
    BY Zenon, <2>2, <2>3, <2>4, <2>5 DEF McpTypeOK, Shape, FlagsOK
  <2>7. ~overlapped /\ (\A r \in Passes : ~InProgress(r)) /\ tools # {}
          => tools = registered /\ spec = latest
    BY Zenon DEF PassInv
  <2> QED
    BY <2>6, <2>7 DEF ToolsOfEnabledServer
<1> QED
  BY <1>1, McpInvariant, PTL

\* A request is answered with the answer to it and to no other, also after timeouts and
\* across restarts of the process (request, _read_stdout and the ids they share).
THEOREM AnswerTheorem == McpSpec => AnswerIsOwn
<1> DEFINE Own ==
      \A t \in ClientTasks :
        task[t].at = "wait" /\ task'[t].at = "answered"
          => \E p \in Procs : <<task[t].id, task[t].step, t>> \in answers[p] \ answers'[p]
<1>1. RequestInv /\ DrainInv /\ [McpNext]_mcpVars => [Own]_mcpVars
  <2> SUFFICES ASSUME RequestInv, DrainInv, McpNext, ~UNCHANGED mcpVars, NEW t \in ClientTasks,
                      task[t].at = "wait", task'[t].at = "answered"
               PROVE  \E p \in Procs : <<task[t].id, task[t].step, t>> \in answers[p] \ answers'[p]
    BY DEF mcpVars
  <2> USE DEF RequestInv
  <2>0. task \in [ClientTasks -> Task] /\ t \in pending
    BY DEF Shape, PendingIsWaiting
  <2>1. CASE \E p \in Procs : ReadLine(p)
    BY <2>1, ReadLineReads
  <2>2. ASSUME NEW u \in ClientTasks, ClientStep(u) PROVE FALSE
    BY <2>2, ClientStepMoves
  <2>3. ASSUME NEW u \in Calls, CallStep(u) PROVE FALSE
    <3>1. t # u => task'[t] = task[t]
      BY <2>0, <2>3, CallBeginsKeeps DEF CallEnds, CallStep
    <3>2. t # u
      BY <2>3 DEF CallBegins, CallEnds, Is, CallStep
    <3> QED
      BY <3>1, <3>2
  <2>4. ASSUME NEW r \in Passes, PassStep(r) PROVE FALSE
    <3>1. task[r].at # "wait"
      BY <2>4 DEF PassStep, Enable, DisableUnknown, CloseBegins, CloseAtOnce, CloseWanted, Payload,
         CloseEnds, CloseRaises, NextPage, PassEnds, Is
    <3>2. t # r
      BY <3>1
    <3>3. \/ Enable(r) \/ \E c \in Clients : NextPage(r, c)
          \/ \E ts, x : task' = [ts EXCEPT ![r] = x] /\ (ts = task \/ \E c : ts = Failing(Of(c)))
      BY <2>4 DEF PassStep, DisableUnknown, CloseBegins, CloseAtOnce, CloseEnds, CloseRaises,
         PassEnds, Disable, EnableNew
    <3>4. CASE \E ts, x : task' = [ts EXCEPT ![r] = x] /\ (ts = task \/ \E c : ts = Failing(Of(c)))
      <4>1. PICK ts, x : task' = [ts EXCEPT ![r] = x] /\ (ts = task \/ \E c : ts = Failing(Of(c)))
        BY <3>4
      <4>2. ts \in [ClientTasks -> Task] /\ ts[t].at # "answered"
        BY <2>0, <4>1, FailingFacts
      <4> QED
        BY <3>2, <4>1, <4>2
    <3>5. CASE Enable(r)
      <4>1. PICK w \in Launch : Payload(r, w)
        BY <3>5 DEF Enable
      <4>2. PICK c \in IF registered = {} THEN NewClient ELSE registered :
              Begin(r, c) \/ task' = [task EXCEPT ![r] = Done]
        BY <3>5 DEF Enable
      <4>3. c \in Clients /\ w \in Keys
        BY <4>1, <4>2, NewClientFacts, LaunchFacts DEF Shape
      <4>4. r \in ClientTasks /\ r \notin pending
        BY <4>1, <4>3, PayloadFacts
      <4>5. UNCHANGED <<owner, answers>>
        BY <3>5 DEF Enable
      <4>6. task'[t] = task[t]
        BY <2>0, <3>2, <4>2, <4>3, <4>4, <4>5, BeginEffect DEF GoesOn
      <4> QED
        BY <4>6
    <3>6. CASE \E c \in Clients : NextPage(r, c)
      BY <2>0, <3>2, <3>6, NextPageFacts DEF GoesOn
    <3> QED
      BY <3>3, <3>4, <3>5, <3>6
  <2>5. ASSUME NEW p \in Procs, Drained(p) \/ Answer(p) \/ ServerDies(p) \/ ReaderEof(p) PROVE FALSE
    BY <2>5 DEF Drained, Answer, ServerDies, ReaderEof
  <2>6. ASSUME NEW p \in Procs, ReaderStarts(p) PROVE FALSE
    <3>1. task' = task \/ \E c : task' = Failing(Of(c))
      BY <2>6 DEF ReaderStarts
    <3> QED
      BY <2>0, <3>1, FailingFacts
  <2> QED
    BY <2>1, <2>2, <2>3, <2>4, <2>5, <2>6, McpSteps DEF ServerStep
<1>2. McpSpec => [][Own]_mcpVars
  BY <1>1, McpInvariant, PTL DEF McpSpec
<1> QED
  BY <1>2 DEF AnswerIsOwn

=============================================================================
