------------------------------ MODULE DataFacts ------------------------------
(***************************************************************************)
(* Facts about numbers and sequences that proofs in other modules cite.    *)
(***************************************************************************)
EXTENDS Integers, Sequences, SequenceTheorems, WellFoundedInduction, TLAPS

\* A set of numbers has a least one: what induction over the naturals comes to
\* when it is done on a counterexample.
LEMMA LeastNat ==
  ASSUME NEW T, T \subseteq Nat, T # {}
  PROVE  \E x \in T : \A y \in T : x <= y
<1>1. IsWellFoundedOn(OpToRel(<, Nat), Nat)
  BY NatLessThanWellFounded
<1>2. \E x \in T : \A y \in T : ~(<<y, x>> \in OpToRel(<, Nat))
  BY <1>1, WFMin
<1>3. PICK x \in T : \A y \in T : ~(<<y, x>> \in OpToRel(<, Nat))
  BY <1>2
<1>4. ASSUME NEW y \in T PROVE x <= y
  <2>1. ~ <<y, x>> \in {ss \in Nat \X Nat : ss[1] < ss[2]}
    BY <1>3 DEF OpToRel
  <2>2. <<y, x>> \in Nat \X Nat
    OBVIOUS
  <2> QED
    BY <2>1, <2>2
<1> QED
  BY <1>3, <1>4

\* And one that is bounded has a greatest.
LEMMA GreatestNat ==
  ASSUME NEW T, T \subseteq Nat, T # {}, NEW n \in Nat, \A x \in T : x <= n
  PROVE  \E x \in T : \A y \in T : y <= x
<1> DEFINE Rest == {n - x : x \in T}
<1>1. \A x \in T : n - x \in Nat
  OBVIOUS
<1>2. PICK d \in Rest : \A e \in Rest : d <= e
  <2>1. Rest \subseteq Nat /\ Rest # {}
    BY <1>1
  <2> QED
    BY <2>1, LeastNat
<1>3. PICK x \in T : d = n - x
  BY <1>2
<1>4. ASSUME NEW y \in T PROVE y <= x
  <2>1. n - y \in Rest
    OBVIOUS
  <2>2. n - x <= n - y
    BY <1>2, <1>3, <2>1
  <2> QED
    BY <2>2
<1> QED
  BY <1>4

\* The elements of a concatenation.
LEMMA ConcatFacts ==
  ASSUME NEW S, NEW r \in Seq(S), NEW s \in Seq(S)
  PROVE  /\ r \o s \in Seq(S) /\ Len(r \o s) = Len(r) + Len(s)
         /\ \A i \in 1..Len(r) : (r \o s)[i] = r[i]
         /\ \A i \in 1..Len(s) : (r \o s)[Len(r) + i] = s[i]
<1>1. Len(r) \in Nat /\ Len(s) \in Nat
  BY LenProperties
<1>2. \A i \in 1..(Len(r) + Len(s)) : (r \o s)[i] = IF i <= Len(r) THEN r[i] ELSE s[i - Len(r)]
  BY ConcatProperties
<1>3. ASSUME NEW i \in 1..Len(s) PROVE (r \o s)[Len(r) + i] = s[i]
  <2>1. /\ Len(r) + i \in 1..(Len(r) + Len(s))
        /\ ~(Len(r) + i <= Len(r)) /\ (Len(r) + i) - Len(r) = i
    BY <1>1
  <2> QED
    BY <1>2, <2>1
<1>4. \A i \in 1..Len(r) : (r \o s)[i] = r[i]
  BY <1>1, <1>2
<1> QED
  BY <1>3, <1>4, ConcatProperties

\* A function that a loop builds from x step by step.
LEMMA IterationExists ==
  ASSUME NEW D, NEW x \in D, NEW n \in Nat, NEW step \in [1..n -> [D -> D]]
  PROVE  \E f \in [0..n -> D] : f[0] = x /\ \A i \in 1..n : f[i] = step[i][f[i - 1]]
<1> DEFINE Reaches(k, f) == f[0] = x /\ \A i \in 1..k : f[i] = step[i][f[i - 1]]
           T == {k \in 0..n : ~ \E f \in [0..k -> D] : Reaches(k, f)}
<1>1. SUFFICES ASSUME T # {} PROVE FALSE
  <2>1. n \notin T /\ n \in 0..n
    BY <1>1
  <2> QED
    BY <2>1
<1>2. PICK k \in T : \A y \in T : k <= y
  <2>1. T \subseteq Nat
    OBVIOUS
  <2> HIDE DEF T
  <2> QED
    BY <1>1, <2>1, LeastNat
<1>3. k \in 0..n /\ ~ \E f \in [0..k -> D] : Reaches(k, f)
  OBVIOUS
<1>4. CASE k = 0
  <2>1. [i \in 0..0 |-> x] \in [0..0 -> D] /\ Reaches(0, [i \in 0..0 |-> x])
    OBVIOUS
  <2> QED
    BY <1>3, <1>4, <2>1
<1>5. CASE k # 0
  <2>1. k \in 1..n /\ k - 1 \in 0..n /\ ~(k <= k - 1)
    BY <1>3, <1>5
  <2>2. k - 1 \notin T
    BY <1>2, <2>1
  <2>3. PICK f \in [0..(k - 1) -> D] : Reaches(k - 1, f)
    BY <2>1, <2>2
  <2> DEFINE g == [i \in 0..k |-> IF i = k THEN step[k][f[k - 1]] ELSE f[i]]
  <2>4. k - 1 \in 0..(k - 1) /\ f[k - 1] \in D /\ step[k] \in [D -> D]
    BY <2>1
  <2>5. \A i \in 0..k : i = k \/ i \in 0..(k - 1)
    BY <2>1
  <2>6. g \in [0..k -> D]
    BY <2>4, <2>5
  <2>7. \A i \in 0..(k - 1) : g[i] = f[i] /\ i \in 0..k /\ i # k
    BY <2>1
  <2>8. g[k] = step[k][f[k - 1]]
    BY <2>1
  <2> HIDE DEF g
  <2>9. Reaches(k, g)
    <3>1. g[0] = x
      BY <2>1, <2>3, <2>7
    <3>2. ASSUME NEW i \in 1..k PROVE g[i] = step[i][g[i - 1]]
      <4>1. i - 1 \in 0..(k - 1) /\ (i = k \/ (i \in 1..(k - 1) /\ i \in 0..(k - 1)))
        BY <2>1
      <4>2. g[i - 1] = f[i - 1]
        BY <2>7, <4>1
      <4> QED
        BY <2>3, <2>7, <2>8, <4>1, <4>2
    <3> QED
      BY <3>1, <3>2
  <2> QED
    BY <1>3, <2>6, <2>9
<1> QED
  BY <1>4, <1>5

=============================================================================
