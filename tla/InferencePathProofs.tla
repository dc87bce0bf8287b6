------------------------ MODULE InferencePathProofs ------------------------
(***************************************************************************)
(* Proofs about InferencePath, for any boards, nodes, endpoints, limits    *)
(* and timeouts: how the time of a request is shared, who is blamed for a  *)
(* failure, that every attempt comes to its end, that requests fit and     *)
(* texts are cut fairly.  The first sections are about the operators of    *)
(* AnalysisInput, for texts, blocks, lengths and limits of any number and  *)
(* size; its sums, selections and turns are recursive functions.           *)
(***************************************************************************)
EXTENDS InferencePath, SequenceTheorems, FiniteSetTheorems, WellFoundedInduction, TLAPS

-----------------------------------------------------------------------------
(* Induction and recursion *)

\* A set of numbers has a least member.
LEMMA LeastMember ==
  ASSUME NEW S \in SUBSET Nat, S # {}
  PROVE  \E n \in S : \A m \in S : n <= m
<1>1. \E n \in S : \A m \in S : ~(<<m, n>> \in OpToRel(<, Nat))
  BY WFMin, NatLessThanWellFounded
<1>2. \A m, n \in Nat : m < n => <<m, n>> \in OpToRel(<, Nat)
  BY Zenon DEF OpToRel
<1>3. \A m, n \in S : ~(<<m, n>> \in OpToRel(<, Nat)) => ~(m < n)
  BY <1>2, Zenon
<1>4. \E n \in S : \A m \in S : ~(m < n)
  BY <1>1, <1>3, Zenon
<1> QED
  BY <1>4

\* What holds at 0 and goes on holding up to a bound holds up to it: there is no least
\* number for which it does not.
LEMMA InductionUpTo ==
  ASSUME NEW bound \in Nat, NEW S, 0 \in S,
         \A n \in 1..bound : n - 1 \in S => n \in S
  PROVE  \A n \in 0..bound : n \in S
<1> DEFINE T == 0..bound \ S
<1> SUFFICES ASSUME T # {} PROVE FALSE
  OBVIOUS
<1>1. PICK n \in T : \A m \in T : n <= m
  <2>1. T \in SUBSET Nat
    OBVIOUS
  <2> HIDE DEF T
  <2> QED
    BY <2>1, LeastMember
<1>2. n \in 1..bound /\ n - 1 \in S
  BY <1>1
<1> QED
  BY <1>1, <1>2

\* f is given by its value at 0 and by a step from each value to the next.
Unfolds(f, base, step, bound) ==
  f = [n \in 0..bound |-> IF n = 0 THEN base ELSE step[n][f[n - 1]]]

\* A function can be given by its value at 0 and by a step from each value to the next.
LEMMA RecursionExists ==
  ASSUME NEW base, NEW step, NEW bound \in Nat
  PROVE  \E f : Unfolds(f, base, step, bound)
<1> DEFINE Lengths == {k \in Nat : \E f : Unfolds(f, base, step, k)}
<1>1. 0 \in Lengths
  <2> DEFINE f == [n \in 0..0 |-> base]
  <2>1. Unfolds(f, base, step, 0)
    BY DEF Unfolds
  <2> QED
    BY <2>1
<1>2. ASSUME NEW k \in 1..bound, k - 1 \in Lengths PROVE k \in Lengths
  <2>1. PICK f : Unfolds(f, base, step, k - 1)
    BY <1>2
  <2> DEFINE g == [n \in 0..k |-> IF n < k THEN f[n] ELSE step[k][f[k - 1]]]
             h == [n \in 0..k |-> IF n = 0 THEN base ELSE step[n][g[n - 1]]]
  <2>2. ASSUME NEW n \in 0..k PROVE g[n] = h[n]
    <3>1. CASE n = 0
      <4>1. f[0] = base
        BY <2>1 DEF Unfolds
      <4> QED
        BY <3>1, <4>1
    <3>2. CASE n \in 1..(k - 1)
      <4>1. f[n] = step[n][f[n - 1]]
        BY <2>1, <3>2 DEF Unfolds
      <4>2. g[n] = f[n] /\ g[n - 1] = f[n - 1]
        BY <3>2
      <4> HIDE DEF g
      <4> QED
        BY <3>2, <4>1, <4>2
    <3>3. CASE n = k
      <4>1. g[n] = step[k][f[k - 1]] /\ g[n - 1] = f[k - 1]
        BY <3>3
      <4> HIDE DEF g
      <4> QED
        BY <3>3, <4>1
    <3> QED
      BY <3>1, <3>2, <3>3
  <2>3. g = h
    BY <2>2
  <2>4. Unfolds(g, base, step, k)
    <3> HIDE DEF g
    <3> QED
      BY <2>3 DEF Unfolds
  <2>5. \E f1 : Unfolds(f1, base, step, k)
    <3> HIDE DEF g
    <3> QED
      BY <2>4
  <2> QED
    BY <2>5
<1>3. bound \in Lengths
  <2> HIDE DEF Lengths
  <2> QED
    BY <1>1, <1>2, InductionUpTo
<1> QED
  BY <1>3

\* What such a function takes from one value to the next.
LEMMA RecursionStep ==
  ASSUME NEW base, NEW step, NEW bound \in Nat, NEW f, Unfolds(f, base, step, bound),
         NEW n \in 1..bound
  PROVE  f[n] = step[n][f[n - 1]]
<1>1. n \in 0..bound /\ n # 0
  OBVIOUS
<1> QED
  BY <1>1 DEF Unfolds

\* The steps do not leave V.
Stays(step, bound, V) == \A n \in 1..bound : \A v \in V : step[n][v] \in V

\* If the steps stay in a set, so does the function.
LEMMA RecursionIn ==
  ASSUME NEW base, NEW step, NEW bound \in Nat, NEW f, Unfolds(f, base, step, bound),
         NEW V, base \in V, Stays(step, bound, V)
  PROVE  \A n \in 0..bound : f[n] \in V
<1> DEFINE S == {n \in 0..bound : f[n] \in V}
<1>1. f[0] = base /\ 0 \in 0..bound
  BY DEF Unfolds
<1>2. 0 \in S
  BY <1>1
<1>3. ASSUME NEW n \in 1..bound, n - 1 \in S PROVE n \in S
  <2>1. f[n] = step[n][f[n - 1]]
    BY RecursionStep
  <2>2. f[n - 1] \in V /\ n \in 0..bound
    BY <1>3
  <2> QED
    BY <2>1, <2>2 DEF Stays
<1>4. \A n \in 0..bound : n \in S
  <2> HIDE DEF S
  <2> QED
    BY <1>2, <1>3, InductionUpTo
<1> QED
  BY <1>4

-----------------------------------------------------------------------------
(* Sums *)

\* The sums of a sequence of numbers start at 0 and grow by its members.
LEMMA SumsUnfold ==
  ASSUME NEW s \in Seq(Nat)
  PROVE  /\ Sums(s)[0] = 0
         /\ \A n \in 1..Len(s) : Sums(s)[n] = Sums(s)[n - 1] + s[n]
         /\ \A n \in 0..Len(s) : Sums(s)[n] \in Nat
<1> DEFINE step == [n \in 1..Len(s) |-> [v \in Nat |-> v + s[n]]]
           Sum(f) == f = [n \in 0..Len(s) |-> IF n = 0 THEN 0 ELSE f[n - 1] + s[n]]
<1>1. Len(s) \in Nat /\ \A n \in 1..Len(s) : s[n] \in Nat
  OBVIOUS
<1>2. \A n \in 1..Len(s) : \A v \in Nat : step[n][v] = v + s[n]
  OBVIOUS
<1>2a. \A n \in 1..Len(s) : \A v \in Nat : step[n][v] \in Nat
  <2> SUFFICES ASSUME NEW n \in 1..Len(s), NEW v \in Nat PROVE step[n][v] \in Nat
    OBVIOUS
  <2>1. step[n][v] = v + s[n] /\ s[n] \in Nat
    BY <1>1, <1>2
  <2> HIDE DEF step
  <2> QED
    BY <2>1
<1>3. PICK f : Unfolds(f, 0, step, Len(s))
  <2> HIDE DEF step
  <2> QED
    BY <1>1, RecursionExists
<1>4. /\ f = [n \in 0..Len(s) |-> f[n]] /\ f[0] = 0
      /\ \A n \in 1..Len(s) : f[n] = step[n][f[n - 1]]
      /\ \A n \in 0..Len(s) : f[n] \in Nat
  <2> HIDE DEF step
  <2>1. Stays(step, Len(s), Nat)
    BY <1>2a DEF Stays
  <2>2. \A n \in 0..Len(s) : f[n] \in Nat
    BY <1>1, <1>3, <2>1, RecursionIn
  <2>3. f = [n \in 0..Len(s) |-> f[n]]
    BY <1>1, <1>3 DEF Unfolds
  <2>4. f[0] = 0
    BY <1>1, <1>3 DEF Unfolds
  <2>5. ASSUME NEW n \in 1..Len(s) PROVE f[n] = step[n][f[n - 1]]
    <3>1. n \in 0..Len(s) /\ n # 0
      BY <1>1
    <3> QED
      BY <1>3, <3>1 DEF Unfolds
  <2> QED
    BY <2>2, <2>3, <2>4, <2>5
<1>5. \A n \in 1..Len(s) : f[n] = f[n - 1] + s[n]
  <2> SUFFICES ASSUME NEW n \in 1..Len(s) PROVE f[n] = f[n - 1] + s[n]
    OBVIOUS
  <2>1. n - 1 \in 0..Len(s)
    BY <1>1
  <2>2. f[n] = step[n][f[n - 1]] /\ f[n - 1] \in Nat
    BY <1>4, <2>1
  <2> HIDE DEF step
  <2> QED
    BY <1>2, <2>2
<1>6. Sum(f)
  <2> DEFINE g == [n \in 0..Len(s) |-> IF n = 0 THEN 0 ELSE f[n - 1] + s[n]]
  <2>1. ASSUME NEW n \in 0..Len(s) PROVE f[n] = g[n]
    <3>1. n = 0 \/ n \in 1..Len(s)
      BY <1>1
    <3> QED
      BY <1>4, <1>5, <3>1
  <2>2. f = [n \in 0..Len(s) |-> f[n]] /\ g = [n \in 0..Len(s) |-> g[n]]
    BY <1>4
  <2>3. f = g
    <3> HIDE DEF g
    <3> QED
      BY <2>1, <2>2
  <2> QED
    BY <2>3
<1>7. Sum(Sums(s))
  <2>1. Sums(s) = CHOOSE g : Sum(g)
    BY DEF Sums
  <2> HIDE DEF Sum
  <2> QED
    BY <1>6, <2>1
<1>8. Sums(s)[0] = 0 /\ \A n \in 1..Len(s) : Sums(s)[n] = Sums(s)[n - 1] + s[n]
  <2> DEFINE F == Sums(s)
  <2>1. F = [n \in 0..Len(s) |-> IF n = 0 THEN 0 ELSE F[n - 1] + s[n]]
    BY <1>7
  <2> HIDE DEF F
  <2>2. F[0] = 0 /\ \A n \in 1..Len(s) : F[n] = F[n - 1] + s[n]
    BY <1>1, <2>1
  <2> QED
    BY <2>2 DEF F
<1> DEFINE S == {n \in 0..Len(s) : Sums(s)[n] \in Nat}
<1>9. 0 \in S
  BY <1>8
<1>10. ASSUME NEW n \in 1..Len(s), n - 1 \in S PROVE n \in S
  <2> HIDE DEF step, Sum
  <2>1. n \in 0..Len(s) /\ s[n] \in Nat
    BY <1>1
  <2>2. Sums(s)[n - 1] \in Nat
    BY <1>10
  <2>3. Sums(s)[n] = Sums(s)[n - 1] + s[n]
    BY <1>8
  <2>4. Sums(s)[n] \in Nat
    <3> HIDE DEF S
    <3> QED
      BY <2>1, <2>2, <2>3
  <2> QED
    BY <2>1, <2>4
<1>11. \A n \in 0..Len(s) : n \in S
  <2> HIDE DEF S
  <2> QED
    BY <1>1, <1>9, <1>10, InductionUpTo
<1> QED
  BY <1>8, <1>11

\* Numbers that grow as the sums do are the sums.
LEMMA SumIs ==
  ASSUME NEW s \in Seq(Nat), NEW g \in [0..Len(s) -> Nat], g[0] = 0,
         \A n \in 1..Len(s) : g[n] = g[n - 1] + s[n]
  PROVE  SumSeq(s) = g[Len(s)]
<1> DEFINE S == {n \in 0..Len(s) : Sums(s)[n] = g[n]}
<1>1. Len(s) \in Nat
  OBVIOUS
<1>2. /\ Sums(s)[0] = 0
      /\ \A n \in 1..Len(s) : Sums(s)[n] = Sums(s)[n - 1] + s[n]
  BY SumsUnfold
<1>3. 0 \in S
  BY <1>1, <1>2
<1>4. ASSUME NEW n \in 1..Len(s), n - 1 \in S PROVE n \in S
  BY <1>1, <1>2, <1>4
<1>5. \A n \in 0..Len(s) : n \in S
  <2> HIDE DEF S
  <2> QED
    BY <1>1, <1>3, <1>4, InductionUpTo
<1> QED
  BY <1>1, <1>5 DEF SumSeq

\* A sum of numbers is a number.
LEMMA SumNat ==
  ASSUME NEW s \in Seq(Nat)
  PROVE  SumSeq(s) \in Nat
<1>1. Len(s) \in 0..Len(s)
  OBVIOUS
<1> QED
  BY <1>1, SumsUnfold DEF SumSeq

\* Greater members have a greater sum.
LEMMA SumGrows ==
  ASSUME NEW s \in Seq(Nat), NEW t \in Seq(Nat), Len(s) = Len(t),
         \A i \in 1..Len(s) : s[i] <= t[i]
  PROVE  SumSeq(s) <= SumSeq(t)
<1> DEFINE S == {n \in 0..Len(s) : Sums(s)[n] <= Sums(t)[n]}
<1>1. Len(s) \in Nat /\ \A n \in 1..Len(s) : s[n] \in Nat /\ t[n] \in Nat
  OBVIOUS
<1>2. /\ Sums(s)[0] = 0
      /\ \A n \in 1..Len(s) : Sums(s)[n] = Sums(s)[n - 1] + s[n]
      /\ \A n \in 0..Len(s) : Sums(s)[n] \in Nat
  BY SumsUnfold
<1>3. /\ Sums(t)[0] = 0
      /\ \A n \in 1..Len(s) : Sums(t)[n] = Sums(t)[n - 1] + t[n]
      /\ \A n \in 0..Len(s) : Sums(t)[n] \in Nat
  BY SumsUnfold
<1>4. 0 \in S
  BY <1>1, <1>2, <1>3
<1>5. ASSUME NEW n \in 1..Len(s), n - 1 \in S PROVE n \in S
  <2>1. n - 1 \in 0..Len(s) /\ n \in 0..Len(s) /\ s[n] \in Nat /\ t[n] \in Nat /\ s[n] <= t[n]
    BY <1>1
  <2>2. Sums(s)[n] = Sums(s)[n - 1] + s[n] /\ Sums(s)[n - 1] \in Nat
    BY <1>2, <2>1
  <2>3. Sums(t)[n] = Sums(t)[n - 1] + t[n] /\ Sums(t)[n - 1] \in Nat
    BY <1>3, <2>1
  <2>4. Sums(s)[n - 1] <= Sums(t)[n - 1]
    BY <1>5
  <2>5. Sums(s)[n] <= Sums(t)[n]
    BY <2>1, <2>2, <2>3, <2>4, SMTT(30)
  <2> QED
    BY <2>1, <2>5
<1>6. \A n \in 0..Len(s) : n \in S
  <2> HIDE DEF S
  <2> QED
    BY <1>1, <1>4, <1>5, InductionUpTo
<1> QED
  BY <1>1, <1>6 DEF SumSeq

\* The sum of member-wise sums.
LEMMA SumAdds ==
  ASSUME NEW r \in Seq(Nat), NEW s \in Seq(Nat), NEW t \in Seq(Nat),
         Len(s) = Len(r), Len(t) = Len(r),
         \A i \in 1..Len(r) : r[i] = s[i] + t[i]
  PROVE  SumSeq(r) = SumSeq(s) + SumSeq(t)
<1> DEFINE g == [n \in 0..Len(r) |-> Sums(s)[n] + Sums(t)[n]]
<1>1. Len(r) \in Nat /\ \A n \in 1..Len(r) : s[n] \in Nat /\ t[n] \in Nat
  OBVIOUS
<1>2. /\ Sums(s)[0] = 0
      /\ \A n \in 1..Len(r) : Sums(s)[n] = Sums(s)[n - 1] + s[n]
      /\ \A n \in 0..Len(r) : Sums(s)[n] \in Nat
  BY SumsUnfold
<1>3. /\ Sums(t)[0] = 0
      /\ \A n \in 1..Len(r) : Sums(t)[n] = Sums(t)[n - 1] + t[n]
      /\ \A n \in 0..Len(r) : Sums(t)[n] \in Nat
  BY SumsUnfold
<1>4. g \in [0..Len(r) -> Nat] /\ g[0] = 0
  BY <1>1, <1>2, <1>3
<1>5. ASSUME NEW n \in 1..Len(r) PROVE g[n] = g[n - 1] + r[n]
  <2>1. n - 1 \in 0..Len(r) /\ n \in 0..Len(r)
    BY <1>1
  <2>2. g[n] = Sums(s)[n] + Sums(t)[n] /\ g[n - 1] = Sums(s)[n - 1] + Sums(t)[n - 1]
    BY <2>1
  <2>3. Sums(s)[n] = Sums(s)[n - 1] + s[n] /\ Sums(s)[n - 1] \in Nat
    BY <1>2, <2>1
  <2>4. Sums(t)[n] = Sums(t)[n - 1] + t[n] /\ Sums(t)[n - 1] \in Nat
    BY <1>3, <2>1
  <2>5. s[n] \in Nat /\ t[n] \in Nat /\ r[n] = s[n] + t[n]
    BY <1>1
  <2>7. g[n] = (Sums(s)[n - 1] + s[n]) + (Sums(t)[n - 1] + t[n])
    BY <2>2, <2>3, <2>4, Zenon
  <2>8. (Sums(s)[n - 1] + s[n]) + (Sums(t)[n - 1] + t[n])
        = (Sums(s)[n - 1] + Sums(t)[n - 1]) + (s[n] + t[n])
    <3> DEFINE a == Sums(s)[n - 1]
               b == Sums(t)[n - 1]
               c == s[n]
               d == t[n]
    <3>1. a \in Nat /\ b \in Nat /\ c \in Nat /\ d \in Nat
      BY <2>3, <2>4, <2>5
    <3> HIDE DEF a, b, c, d
    <3>2. (a + c) + (b + d) = (a + b) + (c + d)
      BY <3>1
    <3> QED
      BY <3>2 DEF a, b, c, d
  <2> HIDE DEF g
  <2> QED
    BY <2>2, <2>5, <2>7, <2>8, Zenon
<1>6. SumSeq(r) = g[Len(r)]
  <2> HIDE DEF g
  <2> QED
    BY <1>4, <1>5, SumIs
<1> QED
  BY <1>1, <1>6 DEF SumSeq

\* The sum over a concatenation.
LEMMA SumConcat ==
  ASSUME NEW s \in Seq(Nat), NEW t \in Seq(Nat)
  PROVE  s \o t \in Seq(Nat) /\ SumSeq(s \o t) = SumSeq(s) + SumSeq(t)
<1> DEFINE r == s \o t
           g == [n \in 0..Len(r) |-> IF n <= Len(s) THEN Sums(s)[n]
                                     ELSE SumSeq(s) + Sums(t)[n - Len(s)]]
<1>1. /\ Len(s) \in Nat /\ Len(t) \in Nat
      /\ r \in Seq(Nat) /\ Len(r) = Len(s) + Len(t)
      /\ \A n \in 1..Len(r) : r[n] = IF n <= Len(s) THEN s[n] ELSE t[n - Len(s)]
  OBVIOUS
<1>2. /\ Sums(s)[0] = 0
      /\ \A n \in 1..Len(s) : Sums(s)[n] = Sums(s)[n - 1] + s[n]
      /\ \A n \in 0..Len(s) : Sums(s)[n] \in Nat
  BY SumsUnfold
<1>3. /\ Sums(t)[0] = 0
      /\ \A n \in 1..Len(t) : Sums(t)[n] = Sums(t)[n - 1] + t[n]
      /\ \A n \in 0..Len(t) : Sums(t)[n] \in Nat
  BY SumsUnfold
<1>3a. SumSeq(s) \in Nat /\ SumSeq(s) = Sums(s)[Len(s)]
  BY SumNat DEF SumSeq
<1>3b. \A n \in 1..Len(t) : t[n] \in Nat
  <2> HIDE DEF g
  <2> QED
    OBVIOUS
<1> HIDE DEF r
<1>4. g \in [0..Len(r) -> Nat] /\ g[0] = 0
  <2>1. ASSUME NEW n \in 0..Len(r) PROVE g[n] \in Nat
    <3>1. CASE n <= Len(s)
      BY <1>1, <1>2, <3>1
    <3>2. CASE ~(n <= Len(s))
      <4>1. n - Len(s) \in 0..Len(t)
        BY <1>1, <3>2, SMTT(30)
      <4>2. g[n] = SumSeq(s) + Sums(t)[n - Len(s)]
        BY <3>2
      <4>3. Sums(t)[n - Len(s)] \in Nat
        BY <1>3, <4>1
      <4> HIDE DEF g
      <4> QED
        BY <1>3a, <4>2, <4>3
    <3> QED
      BY <3>1, <3>2
  <2> QED
    BY <1>1, <1>2, <2>1
<1>5. ASSUME NEW n \in 1..Len(r) PROVE g[n] = g[n - 1] + r[n]
  <2>1. n - 1 \in 0..Len(r) /\ n \in 0..Len(r)
    BY <1>1
  <2>2. CASE n <= Len(s)
    <3>1. g[n] = Sums(s)[n] /\ g[n - 1] = Sums(s)[n - 1] /\ r[n] = s[n]
      BY <1>1, <2>1, <2>2
    <3> HIDE DEF g
    <3> QED
      BY <1>1, <1>2, <2>2, <3>1
  <2>3. CASE n = Len(s) + 1
    <3>0. n - Len(s) = 1 /\ 1 \in 1..Len(t)
      BY <1>1, <2>3
    <3>1. g[n] = SumSeq(s) + Sums(t)[1] /\ g[n - 1] = SumSeq(s) /\ r[n] = t[1]
      <4>1. ~(n <= Len(s)) /\ n - 1 <= Len(s) /\ n - 1 = Len(s)
        BY <1>1, <2>3
      <4>2. g[n] = SumSeq(s) + Sums(t)[n - Len(s)] /\ g[n - 1] = Sums(s)[n - 1]
        BY <2>1, <4>1
      <4>3. r[n] = t[n - Len(s)]
        BY <1>1, <4>1
      <4> HIDE DEF g
      <4> QED
        BY <1>3a, <3>0, <4>1, <4>2, <4>3
    <3>2. Sums(t)[1] = Sums(t)[0] + t[1] /\ t[1] \in Nat
      <4> HIDE DEF g
      <4>1. Sums(t)[1] = Sums(t)[1 - 1] + t[1]
        BY <1>3, <3>0, Zenon
      <4>2. 1 - 1 = 0 /\ t[1] \in Nat
        BY <1>3b, <3>0
      <4> QED
        BY <4>1, <4>2
    <3> HIDE DEF g
    <3> QED
      BY <1>3, <1>3a, <3>1, <3>2
  <2>4. CASE n > Len(s) + 1
    <3> DEFINE m == n - Len(s)
    <3>0. m \in 1..Len(t) /\ m - 1 \in 0..Len(t) /\ m \in 0..Len(t) /\ (n - 1) - Len(s) = m - 1
      BY <1>1, <2>4, SMTT(30)
    <3>1. g[n] = SumSeq(s) + Sums(t)[m] /\ r[n] = t[m]
      <4>1. ~(n <= Len(s))
        BY <1>1, <2>4
      <4>2. g[n] = SumSeq(s) + Sums(t)[n - Len(s)]
        BY <2>1, <4>1
      <4>3. r[n] = t[n - Len(s)]
        BY <1>1, <4>1
      <4> QED
        BY <4>2, <4>3, Zenon
    <3>1a. g[n - 1] = SumSeq(s) + Sums(t)[m - 1]
      <4>1. ~(n - 1 <= Len(s))
        BY <1>1, <2>4
      <4>2. g[n - 1] = SumSeq(s) + Sums(t)[(n - 1) - Len(s)]
        BY <2>1, <4>1
      <4> HIDE DEF g, m
      <4> QED
        BY <3>0, <4>2
    <3>2. Sums(t)[m] = Sums(t)[m - 1] + t[m] /\ t[m] \in Nat /\ Sums(t)[m - 1] \in Nat
      <4> HIDE DEF m
      <4>1. t[m] \in Nat
        BY <1>3b, <3>0, Zenon
      <4>2. Sums(t)[m] = Sums(t)[m - 1] + t[m]
        BY <1>3, <3>0, Zenon
      <4>3. Sums(t)[m - 1] \in Nat
        BY <1>3, <3>0, Zenon
      <4> QED
        BY <4>1, <4>2, <4>3
    <3> HIDE DEF g, m
    <3> QED
      BY <1>3a, <3>1, <3>1a, <3>2, SMTT(30)
  <2> QED
    BY <1>1, <2>2, <2>3, <2>4
<1>6. SumSeq(r) = g[Len(r)]
  <2> HIDE DEF g
  <2> QED
    BY <1>1, <1>4, <1>5, SumIs
<1>7. g[Len(r)] = SumSeq(s) + SumSeq(t)
  <2>1. CASE Len(t) = 0
    <3>1. g[Len(r)] = Sums(s)[Len(s)] /\ SumSeq(t) = 0
      BY <1>1, <1>3, <2>1 DEF SumSeq
    <3> HIDE DEF g
    <3> QED
      BY <1>3a, <3>1
  <2>2. CASE Len(t) # 0
    <3>1. Len(r) - Len(s) = Len(t) /\ Len(r) \in 0..Len(r) /\ ~(Len(r) <= Len(s))
      BY <1>1, <2>2
    <3>2. g[Len(r)] = SumSeq(s) + Sums(t)[Len(t)]
      BY <3>1
    <3> HIDE DEF g
    <3> QED
      BY <3>2 DEF SumSeq
  <2> QED
    BY <2>1, <2>2
<1> QED
  BY <1>1, <1>6, <1>7 DEF r

\* The sum of one number.
LEMMA SumOne ==
  ASSUME NEW x \in Nat
  PROVE  <<x>> \in Seq(Nat) /\ SumSeq(<<x>>) = x
<1> DEFINE s == <<x>>
           g == [n \in 0..1 |-> IF n = 0 THEN 0 ELSE x]
<1>1. s \in Seq(Nat) /\ Len(s) = 1 /\ s[1] = x
  OBVIOUS
<1> HIDE DEF s
<1>2. g \in [0..Len(s) -> Nat] /\ g[0] = 0 /\ g[1] = x
  BY <1>1
<1>3. \A n \in 1..Len(s) : g[n] = g[n - 1] + s[n]
  <2>1. \A n \in 1..Len(s) : n = 1
    BY <1>1
  <2>2. 1 - 1 = 0 /\ 0 + x = x
    OBVIOUS
  <2> HIDE DEF g
  <2> QED
    BY <1>1, <1>2, <2>1, <2>2
<1>4. SumSeq(s) = g[Len(s)]
  <2> HIDE DEF g
  <2> QED
    BY <1>1, <1>2, <1>3, SumIs
<1> QED
  BY <1>1, <1>2, <1>4 DEF s

\* The members of A up to n.
UpTo(A, n) == {i \in A : i <= n}

\* How many members of a set of numbers are no greater than n.
LEMMA UpToGrows ==
  ASSUME NEW bound \in Nat, NEW A \in SUBSET (1..bound)
  PROVE  /\ Cardinality(UpTo(A, 0)) = 0
         /\ \A n \in 0..bound : Cardinality(UpTo(A, n)) \in Nat
         /\ \A n \in 1..bound :
              Cardinality(UpTo(A, n)) = Cardinality(UpTo(A, n - 1)) + (IF n \in A THEN 1 ELSE 0)
         /\ \A n \in 1..bound : {j \in A : j < n} = UpTo(A, n - 1)
         /\ UpTo(A, bound) = A /\ IsFiniteSet(A)
<1>0. \A i \in A : i \in Nat /\ 1 <= i /\ i <= bound
  OBVIOUS
<1>1. IsFiniteSet(A)
  <2>1. IsFiniteSet(1..bound)
    BY FS_Interval
  <2> QED
    BY <2>1, FS_Subset
<1>2. \A n \in Nat : IsFiniteSet(UpTo(A, n))
  <2> SUFFICES ASSUME NEW n \in Nat PROVE IsFiniteSet(UpTo(A, n))
    OBVIOUS
  <2>1. UpTo(A, n) \subseteq A
    BY DEF UpTo
  <2> QED
    BY <1>1, <2>1, FS_Subset
<1>3. Cardinality(UpTo(A, 0)) = 0
  <2>0. \A i \in A : ~(i <= 0)
    BY <1>0
  <2>1. UpTo(A, 0) = {}
    BY <2>0, Zenon DEF UpTo
  <2> QED
    BY <2>1, FS_EmptySet
<1>4. \A n \in 0..bound : Cardinality(UpTo(A, n)) \in Nat
  BY <1>2, FS_CardinalityType
<1>5. ASSUME NEW n \in 1..bound
      PROVE  Cardinality(UpTo(A, n)) = Cardinality(UpTo(A, n - 1)) + (IF n \in A THEN 1 ELSE 0)
  <2>0. n - 1 \in Nat /\ Cardinality(UpTo(A, n - 1)) \in Nat
    BY <1>4
  <2>1. CASE n \in A
    <3>0. /\ ~(n <= n - 1) /\ n <= n
          /\ \A i \in A : i <= n <=> (i <= n - 1 \/ i = n)
      BY <1>0
    <3>1. UpTo(A, n) = UpTo(A, n - 1) \cup {n} /\ n \notin UpTo(A, n - 1)
      BY <2>1, <3>0, Zenon DEF UpTo
    <3>2. Cardinality(UpTo(A, n - 1) \cup {n}) = Cardinality(UpTo(A, n - 1)) + 1
      BY <1>2, <2>0, <3>1, FS_AddElement
    <3> QED
      BY <2>1, <3>1, <3>2
  <2>2. CASE n \notin A
    <3>0. \A i \in A : i <= n <=> i <= n - 1
      BY <1>0, <2>2
    <3>1. UpTo(A, n) = UpTo(A, n - 1)
      BY <3>0, Zenon DEF UpTo
    <3> QED
      BY <2>0, <2>2, <3>1
  <2> QED
    BY <2>1, <2>2
<1>6. ASSUME NEW n \in 1..bound PROVE {j \in A : j < n} = UpTo(A, n - 1)
  <2>1. \A j \in A : j < n <=> j <= n - 1
    BY <1>0
  <2> QED
    BY <2>1, Zenon DEF UpTo
<1>7. UpTo(A, bound) = A
  BY <1>0, Zenon DEF UpTo
<1> QED
  BY <1>1, <1>3, <1>4, <1>5, <1>6, <1>7

\* A number for each member of a set.
LEMMA SumEqual ==
  ASSUME NEW bound \in Nat, NEW A \in SUBSET (1..bound), NEW c \in Nat
  PROVE  LET s == [i \in 1..bound |-> IF i \in A THEN c ELSE 0]
         IN  s \in Seq(Nat) /\ Len(s) = bound /\ SumSeq(s) = Cardinality(A) * c
<1> DEFINE s == [i \in 1..bound |-> IF i \in A THEN c ELSE 0]
           count(n) == Cardinality(UpTo(A, n))
           g == [n \in 0..bound |-> count(n) * c]
<1>1. s \in Seq(Nat) /\ Len(s) = bound /\ \A n \in 1..bound : s[n] = IF n \in A THEN c ELSE 0
  OBVIOUS
<1>2. /\ count(0) = 0
      /\ \A n \in 0..bound : count(n) \in Nat
      /\ \A n \in 1..bound : count(n) = count(n - 1) + (IF n \in A THEN 1 ELSE 0)
      /\ count(bound) = Cardinality(A)
  BY UpToGrows
<1> HIDE DEF s, count
<1>3. g \in [0..bound -> Nat] /\ g[0] = 0
  <2>1. \A n \in 0..bound : count(n) * c \in Nat
    BY <1>2
  <2>2. 0 * c = 0
    OBVIOUS
  <2> QED
    BY <1>2, <2>1, <2>2
<1>4. ASSUME NEW n \in 1..bound PROVE g[n] = g[n - 1] + s[n]
  <2>1. n \in 0..bound /\ n - 1 \in 0..bound
    OBVIOUS
  <2>2. g[n] = count(n) * c /\ g[n - 1] = count(n - 1) * c
    BY <2>1
  <2> HIDE DEF g
  <2>3. PICK k \in Nat : k = count(n - 1)
    BY <1>2, <2>1
  <2>4. CASE n \in A
    <3>1. count(n) = k + 1 /\ s[n] = c
      BY <1>1, <1>2, <2>3, <2>4
    <3>2. (k + 1) * c = k * c + c
      OBVIOUS
    <3> QED
      BY <2>2, <2>3, <3>1, <3>2
  <2>5. CASE n \notin A
    <3>1. count(n) = k /\ s[n] = 0
      BY <1>1, <1>2, <2>3, <2>5
    <3>2. k * c + 0 = k * c
      OBVIOUS
    <3> QED
      BY <2>2, <2>3, <3>1, <3>2
  <2> QED
    BY <2>4, <2>5
<1>5. SumSeq(s) = g[bound]
  <2> HIDE DEF g
  <2> QED
    BY <1>1, <1>3, <1>4, SumIs
<1>6. g[bound] = Cardinality(A) * c
  BY <1>2
<1>7. SumSeq(s) = Cardinality(A) * c
  BY <1>5, <1>6
<1> QED
  BY <1>1, <1>7 DEF s

\* The first `extra' members of a set get one more.
LEMMA SumRemainder ==
  ASSUME NEW bound \in Nat, NEW A \in SUBSET (1..bound), NEW extra \in 0..Cardinality(A)
  PROVE  LET s == [i \in 1..bound |->
                     IF i \in A /\ Cardinality({j \in A : j < i}) < extra THEN 1 ELSE 0]
         IN  s \in Seq(Nat) /\ Len(s) = bound /\ SumSeq(s) = extra
<1> DEFINE s == [i \in 1..bound |->
                   IF i \in A /\ Cardinality({j \in A : j < i}) < extra THEN 1 ELSE 0]
           count(n) == Cardinality(UpTo(A, n))
           g == [n \in 0..bound |-> IF count(n) < extra THEN count(n) ELSE extra]
<1>0. Cardinality(A) \in Nat
  BY UpToGrows, FS_CardinalityType
<1>1. s \in Seq(Nat) /\ Len(s) = bound
  OBVIOUS
<1>2. /\ count(0) = 0
      /\ \A n \in 0..bound : count(n) \in Nat
      /\ \A n \in 1..bound : count(n) = count(n - 1) + (IF n \in A THEN 1 ELSE 0)
      /\ count(bound) = Cardinality(A)
  BY UpToGrows
<1>2a. \A n \in 1..bound : s[n] = IF n \in A /\ count(n - 1) < extra THEN 1 ELSE 0
  <2> SUFFICES ASSUME NEW n \in 1..bound
               PROVE  s[n] = IF n \in A /\ count(n - 1) < extra THEN 1 ELSE 0
    OBVIOUS
  <2>1. {j \in A : j < n} = UpTo(A, n - 1)
    BY UpToGrows, ZenonT(40)
  <2> QED
    BY <2>1
<1> HIDE DEF s, count
<1>3. g \in [0..bound -> Nat] /\ g[0] = 0
  BY <1>0, <1>2
<1>4. ASSUME NEW n \in 1..bound PROVE g[n] = g[n - 1] + s[n]
  <2>1. n \in 0..bound /\ n - 1 \in 0..bound
    OBVIOUS
  <2>2. /\ g[n] = (IF count(n) < extra THEN count(n) ELSE extra)
        /\ g[n - 1] = (IF count(n - 1) < extra THEN count(n - 1) ELSE extra)
    BY <2>1
  <2> HIDE DEF g
  <2>3. PICK k \in Nat : k = count(n - 1)
    BY <1>2, <2>1
  <2>4. CASE n \in A
    <3>1. count(n) = k + 1 /\ s[n] = IF k < extra THEN 1 ELSE 0
      BY <1>2, <1>2a, <2>3, <2>4
    <3> QED
      BY <1>0, <2>2, <2>3, <3>1
  <2>5. CASE n \notin A
    <3>1. count(n) = k /\ s[n] = 0
      BY <1>2, <1>2a, <2>3, <2>5
    <3> QED
      BY <1>0, <2>2, <2>3, <3>1
  <2> QED
    BY <2>4, <2>5
<1>5. SumSeq(s) = g[bound]
  <2> HIDE DEF g
  <2> QED
    BY <1>1, <1>3, <1>4, SumIs
<1>6. g[bound] = extra
  BY <1>0, <1>2
<1>7. SumSeq(s) = extra
  BY <1>5, <1>6
<1> QED
  BY <1>1, <1>7 DEF s

-----------------------------------------------------------------------------
(* Picking members *)

\* Picking takes the members one by one.
LEMMA PicksUnfold ==
  ASSUME NEW T, NEW s \in Seq(T), NEW S
  PROVE  /\ Picks(s, S)[0] = <<>>
         /\ \A n \in 1..Len(s) :
              Picks(s, S)[n] = IF n \in S THEN Append(Picks(s, S)[n - 1], s[n])
                               ELSE Picks(s, S)[n - 1]
<1> DEFINE V == Seq(T)
           step == [n \in 1..Len(s) |->
                      [v \in V |-> IF n \in S THEN Append(v, s[n]) ELSE v]]
           Collects(f) == f = [n \in 0..Len(s) |->
             IF n = 0 THEN <<>> ELSE IF n \in S THEN Append(f[n - 1], s[n]) ELSE f[n - 1]]
<1>1. Len(s) \in Nat /\ \A n \in 1..Len(s) : s[n] \in T
  OBVIOUS
<1>2. \A n \in 1..Len(s) : \A v \in V :
        step[n][v] = IF n \in S THEN Append(v, s[n]) ELSE v
  OBVIOUS
<1>3. \A n \in 1..Len(s) : \A v \in V : step[n][v] \in V
  <2> SUFFICES ASSUME NEW n \in 1..Len(s), NEW v \in V PROVE step[n][v] \in V
    OBVIOUS
  <2>1. step[n][v] = (IF n \in S THEN Append(v, s[n]) ELSE v) /\ s[n] \in T
    BY <1>1, <1>2
  <2>2. Append(v, s[n]) \in V
    BY <2>1
  <2> HIDE DEF step
  <2> QED
    BY <2>1, <2>2
<1>4. PICK f : Unfolds(f, <<>>, step, Len(s))
  <2> HIDE DEF step
  <2> QED
    BY <1>1, RecursionExists
<1>5. \A n \in 0..Len(s) : f[n] \in V
  <2>1. <<>> \in V
    OBVIOUS
  <2> HIDE DEF step, V
  <2>2. Stays(step, Len(s), V)
    BY <1>3 DEF Stays
  <2> QED
    BY <1>1, <1>4, <2>1, <2>2, RecursionIn
<1>6. f = [n \in 0..Len(s) |-> f[n]] /\ f[0] = <<>>
  <2> HIDE DEF step
  <2>1. f = [n \in 0..Len(s) |-> f[n]]
    BY <1>1, <1>4 DEF Unfolds
  <2>2. f[0] = <<>>
    BY <1>1, <1>4 DEF Unfolds
  <2> QED
    BY <2>1, <2>2
<1>7. \A n \in 1..Len(s) : f[n] = IF n \in S THEN Append(f[n - 1], s[n]) ELSE f[n - 1]
  <2> SUFFICES ASSUME NEW n \in 1..Len(s)
               PROVE  f[n] = IF n \in S THEN Append(f[n - 1], s[n]) ELSE f[n - 1]
    OBVIOUS
  <2> HIDE DEF step, V
  <2>1. f[n] = step[n][f[n - 1]]
    BY <1>1, <1>4, RecursionStep
  <2>2. f[n - 1] \in V
    BY <1>1, <1>5
  <2>3. step[n][f[n - 1]] = IF n \in S THEN Append(f[n - 1], s[n]) ELSE f[n - 1]
    BY <1>2, <2>2, Zenon
  <2> QED
    BY <2>1, <2>3, Zenon
<1>8. Collects(f)
  <2> DEFINE g == [n \in 0..Len(s) |->
        IF n = 0 THEN <<>> ELSE IF n \in S THEN Append(f[n - 1], s[n]) ELSE f[n - 1]]
  <2>1. ASSUME NEW n \in 0..Len(s) PROVE f[n] = g[n]
    <3>1. CASE n = 0
      BY <1>6, <3>1
    <3>2. CASE n # 0
      <4>1. n \in 1..Len(s)
        BY <1>1, <3>2
      <4>2. g[n] = IF n \in S THEN Append(f[n - 1], s[n]) ELSE f[n - 1]
        BY <3>2, Zenon
      <4> HIDE DEF g
      <4> QED
        BY <1>7, <4>1, <4>2, Zenon
    <3> QED
      BY <3>1, <3>2
  <2>2. g = [n \in 0..Len(s) |-> g[n]]
    OBVIOUS
  <2>3. f = g
    <3> HIDE DEF g
    <3> QED
      BY <1>6, <2>1, <2>2
  <2> QED
    BY <2>3
<1>9. Collects(Picks(s, S))
  <2>1. Picks(s, S) = CHOOSE g : Collects(g)
    BY DEF Picks
  <2> HIDE DEF Collects
  <2> QED
    BY <1>8, <2>1
<1> DEFINE F == Picks(s, S)
<1>10. F = [n \in 0..Len(s) |->
              IF n = 0 THEN <<>> ELSE IF n \in S THEN Append(F[n - 1], s[n]) ELSE F[n - 1]]
  BY <1>9
<1> HIDE DEF F
<1>11. F[0] = <<>>
  BY <1>1, <1>10
<1>12. ASSUME NEW n \in 1..Len(s)
       PROVE  F[n] = IF n \in S THEN Append(F[n - 1], s[n]) ELSE F[n - 1]
  <2>1. n \in 0..Len(s) /\ n # 0
    BY <1>1
  <2> QED
    BY <1>10, <2>1
<1> QED
  BY <1>11, <1>12 DEF F

\* What is picked is of the type of the members at the picked places.
LEMMA PickTyped ==
  ASSUME NEW T, NEW s \in Seq(T), NEW S, NEW U, \A i \in 1..Len(s) : i \in S => s[i] \in U
  PROVE  Pick(s, S) \in Seq(U) /\ Len(Pick(s, S)) <= Len(s)
<1> DEFINE F == Picks(s, S)
           Q == {n \in 0..Len(s) : F[n] \in Seq(U) /\ Len(F[n]) <= n}
<1>1. Len(s) \in Nat
  OBVIOUS
<1>2. F[0] = <<>>
  BY PicksUnfold
<1>3. \A n \in 1..Len(s) : F[n] = IF n \in S THEN Append(F[n - 1], s[n]) ELSE F[n - 1]
  BY PicksUnfold
<1> HIDE DEF F
<1>4. 0 \in Q
  <2>1. <<>> \in Seq(U) /\ Len(<<>>) = 0 /\ 0 <= 0 /\ 0 \in 0..Len(s)
    BY <1>1
  <2>2. F[0] \in Seq(U) /\ Len(F[0]) <= 0
    BY <1>2, <2>1, Zenon
  <2> QED
    BY <2>1, <2>2
<1>5. ASSUME NEW n \in 1..Len(s), n - 1 \in Q PROVE n \in Q
  <2>1. F[n - 1] \in Seq(U) /\ Len(F[n - 1]) <= n - 1 /\ Len(F[n - 1]) \in Nat
    BY <1>5
  <2>2. CASE n \in S
    <3>1. F[n] = Append(F[n - 1], s[n]) /\ s[n] \in U
      BY <1>3, <2>2
    <3>2. Append(F[n - 1], s[n]) \in Seq(U) /\ Len(Append(F[n - 1], s[n])) = Len(F[n - 1]) + 1
      BY <2>1, <3>1
    <3>3. F[n] \in Seq(U) /\ Len(F[n]) = Len(F[n - 1]) + 1
      BY <3>1, <3>2, Zenon
    <3> HIDE DEF Q
    <3>4. Len(F[n]) <= n /\ n \in 0..Len(s)
      BY <1>1, <2>1, <3>3
    <3> QED
      BY <3>3, <3>4 DEF Q
  <2>3. CASE n \notin S
    <3>1. F[n] = F[n - 1]
      BY <1>3, <2>3
    <3> QED
      BY <1>1, <2>1, <3>1
  <2> QED
    BY <2>2, <2>3
<1>6. \A n \in 0..Len(s) : n \in Q
  <2> HIDE DEF Q
  <2> QED
    BY <1>1, <1>4, <1>5, InductionUpTo
<1>7. Len(s) \in Q
  BY <1>1, <1>6
<1> QED
  BY <1>7 DEF F, Pick

\* Something is picked if there is something to pick.
LEMMA PickSome ==
  ASSUME NEW T, NEW s \in Seq(T), NEW S, NEW i \in 1..Len(s), i \in S
  PROVE  Pick(s, S) # <<>>
<1> DEFINE F == Picks(s, S)
           Q == {n \in 0..Len(s) : F[n] \in Seq(T) /\ (n >= i => Len(F[n]) >= 1)}
<1>1. Len(s) \in Nat /\ \A n \in 1..Len(s) : s[n] \in T
  OBVIOUS
<1>2. F[0] = <<>>
  BY PicksUnfold
<1>3. \A n \in 1..Len(s) : F[n] = IF n \in S THEN Append(F[n - 1], s[n]) ELSE F[n - 1]
  BY PicksUnfold
<1> HIDE DEF F
<1>4. 0 \in Q
  <2>1. <<>> \in Seq(T) /\ ~(0 >= i) /\ 0 \in 0..Len(s)
    BY <1>1
  <2>2. F[0] \in Seq(T)
    BY <1>2, <2>1, Zenon
  <2> QED
    BY <2>1, <2>2
<1>5. ASSUME NEW n \in 1..Len(s), n - 1 \in Q PROVE n \in Q
  <2>1. F[n - 1] \in Seq(T) /\ Len(F[n - 1]) \in Nat /\ (n - 1 >= i => Len(F[n - 1]) >= 1)
    BY <1>5
  <2>2. CASE n \in S
    <3>1. F[n] = Append(F[n - 1], s[n]) /\ s[n] \in T
      BY <1>1, <1>3, <2>2
    <3>2. Append(F[n - 1], s[n]) \in Seq(T) /\ Len(Append(F[n - 1], s[n])) = Len(F[n - 1]) + 1
      BY <2>1, <3>1
    <3>3. F[n] \in Seq(T) /\ Len(F[n]) = Len(F[n - 1]) + 1
      BY <3>1, <3>2, Zenon
    <3> HIDE DEF Q
    <3>4. Len(F[n]) >= 1 /\ n \in 0..Len(s)
      BY <1>1, <2>1, <3>3
    <3> QED
      BY <3>3, <3>4 DEF Q
  <2>3. CASE n \notin S
    <3>1. F[n] = F[n - 1]
      BY <1>3, <2>3
    <3>2. n # i
      BY <2>3
    <3> QED
      BY <1>1, <2>1, <3>1, <3>2
  <2> QED
    BY <2>2, <2>3
<1>6. \A n \in 0..Len(s) : n \in Q
  <2> HIDE DEF Q
  <2> QED
    BY <1>1, <1>4, <1>5, InductionUpTo
<1>7. Len(s) \in Q /\ Len(s) >= i
  BY <1>1, <1>6
<1>8. Len(F[Len(s)]) >= 1
  BY <1>7
<1> QED
  BY <1>8 DEF F, Pick

\* The sum with one more member.
LEMMA SumAppend ==
  ASSUME NEW v \in Seq(Nat), NEW x \in Nat
  PROVE  SumSeq(Append(v, x)) = SumSeq(v) + x
<1>1. Append(v, x) = v \o <<x>>
  OBVIOUS
<1>2. SumSeq(v \o <<x>>) = SumSeq(v) + SumSeq(<<x>>)
  BY SumOne, SumConcat
<1> QED
  BY <1>1, <1>2, SumOne

\* What is picked has no greater sum than the whole.
LEMMA PickSum ==
  ASSUME NEW s \in Seq(Nat), NEW S
  PROVE  /\ Pick(s, S) \in Seq(Nat) /\ Len(Pick(s, S)) <= Len(s)
         /\ SumSeq(Pick(s, S)) <= SumSeq(s)
<1> DEFINE F == Picks(s, S)
           G == Sums(s)
           Q == {n \in 0..Len(s) : F[n] \in Seq(Nat) /\ SumSeq(F[n]) <= G[n]}
<1>1. Len(s) \in Nat /\ \A n \in 1..Len(s) : s[n] \in Nat
  OBVIOUS
<1>2. F[0] = <<>> /\ G[0] = 0
  BY PicksUnfold, SumsUnfold
<1>3. \A n \in 1..Len(s) : F[n] = IF n \in S THEN Append(F[n - 1], s[n]) ELSE F[n - 1]
  BY PicksUnfold
<1>4. \A n \in 1..Len(s) : G[n] = G[n - 1] + s[n]
  BY SumsUnfold
<1>5. \A n \in 0..Len(s) : G[n] \in Nat
  BY SumsUnfold
<1> HIDE DEF F, G
<1>6. 0 \in Q
  <2>1. <<>> \in Seq(Nat) /\ Len(<<>>) = 0
    OBVIOUS
  <2>2. Sums(<<>>)[0] = 0
    BY <2>1, SumsUnfold
  <2>3. SumSeq(<<>>) = 0
    BY <2>1, <2>2, Zenon DEF SumSeq
  <2>4. F[0] \in Seq(Nat) /\ SumSeq(F[0]) = 0
    BY <1>2, <2>1, <2>3, Zenon
  <2>5. 0 \in 0..Len(s) /\ SumSeq(F[0]) <= G[0]
    BY <1>1, <1>2, <2>4
  <2> QED
    BY <2>4, <2>5
<1>7. ASSUME NEW n \in 1..Len(s), n - 1 \in Q PROVE n \in Q
  <2>1. F[n - 1] \in Seq(Nat) /\ SumSeq(F[n - 1]) <= G[n - 1]
    BY <1>7
  <2>2. SumSeq(F[n - 1]) \in Nat /\ s[n] \in Nat
    BY <1>1, <2>1, SumNat
  <2>3. n - 1 \in 0..Len(s) /\ n \in 0..Len(s)
    BY <1>1
  <2>4. G[n] = G[n - 1] + s[n] /\ G[n - 1] \in Nat
    BY <1>4, <1>5, <2>3
  <2>5. CASE n \in S
    <3>1. F[n] = Append(F[n - 1], s[n])
      BY <1>3, <2>5
    <3>2. Append(F[n - 1], s[n]) \in Seq(Nat)
      BY <2>1, <2>2
    <3>3. SumSeq(Append(F[n - 1], s[n])) = SumSeq(F[n - 1]) + s[n]
      BY <2>1, <2>2, SumAppend
    <3>4. SumSeq(F[n - 1]) + s[n] <= G[n]
      BY <2>1, <2>2, <2>4
    <3> QED
      BY <2>3, <3>1, <3>2, <3>3, <3>4
  <2>6. CASE n \notin S
    <3>1. F[n] = F[n - 1]
      BY <1>3, <2>6
    <3>2. SumSeq(F[n - 1]) <= G[n]
      BY <2>1, <2>2, <2>4
    <3> QED
      BY <2>1, <2>3, <3>1, <3>2
  <2> QED
    BY <2>5, <2>6
<1>8. \A n \in 0..Len(s) : n \in Q
  <2> HIDE DEF Q
  <2> QED
    BY <1>1, <1>6, <1>7, InductionUpTo
<1>9. Len(s) \in Q
  BY <1>1, <1>8
<1>10. Pick(s, S) \in Seq(Nat) /\ SumSeq(Pick(s, S)) <= SumSeq(s)
  BY <1>9 DEF F, G, Pick, SumSeq
<1>11. Len(Pick(s, S)) <= Len(s)
  BY <1>1, PickTyped
<1> QED
  BY <1>10, <1>11

\* Leaving out what was cut to nothing.
LEMMA NonZeroFits ==
  ASSUME NEW s \in Seq(Nat)
  PROVE  /\ NonZero(s) \in Seq(Nat \ {0}) /\ Len(NonZero(s)) <= Len(s)
         /\ SumSeq(NonZero(s)) <= SumSeq(s)
<1> DEFINE S == {i \in DOMAIN s : s[i] > 0}
<1>1. \A i \in 1..Len(s) : i \in S => s[i] \in Nat \ {0}
  OBVIOUS
<1>2. NonZero(s) = Pick(s, S)
  BY DEF NonZero
<1> HIDE DEF S
<1>3. Pick(s, S) \in Seq(Nat \ {0})
  BY <1>1, PickTyped
<1> QED
  BY <1>2, <1>3, PickSum

-----------------------------------------------------------------------------
(* Clipping and selecting *)

\* A clipped value is no longer than it may be, and is something if it may.
LEMMA ClipFits ==
  ASSUME NEW len \in Nat, NEW max \in Nat
  PROVE  /\ ClipMiddle(len, max) \in Nat /\ ClipMiddle(len, max) <= max
         /\ len > 0 /\ max > 0 => ClipMiddle(len, max) > 0
<1> DEFINE head == (2 * (max - 1) + 2) \div 3
           tail == max - 1 - head
<1>1. CASE len <= max
  BY <1>1 DEF ClipMiddle
<1>2. CASE ~(len <= max) /\ max <= 3
  BY <1>2 DEF ClipMiddle
<1>3. CASE ~(len <= max) /\ max > 3
  <2>1. head \in Nat /\ head <= max - 1
    BY <1>3
  <2>2. ClipMiddle(len, max) = head + 1 + (IF tail > 0 THEN tail ELSE 0)
    BY <1>3 DEF ClipMiddle
  <2> HIDE DEF head
  <2> QED
    BY <1>3, <2>1, <2>2
<1> QED
  BY <1>1, <1>2, <1>3

\* As many parts are kept as leave each of them a character and pay the newlines
\* between them.
LEMMA SelectionFits ==
  ASSUME NEW T, NEW parts \in Seq(T), parts # <<>>, NEW budget \in Nat \ {0}
  PROVE  LET selected == SelectBodyParts(parts, budget)
         IN  /\ selected \in Seq(T)
             /\ Len(selected) \in 1..budget
<1> DEFINE fit == (budget + 1) \div (MinPart + 1)
           most == IF fit > 1 THEN fit ELSE 1
           head == (most + 1) \div 2
           tail == most - head
           selected == SelectBodyParts(parts, budget)
<1>1. MinPart \in Nat \ {0}
  BY InputAssumption
<1>2. fit \in Nat /\ fit * (MinPart + 1) <= budget + 1
  BY <1>1
<1> HIDE DEF fit
<1>3. fit > 1 => fit <= budget
  <2>1. fit * (MinPart + 1) = fit * MinPart + fit
    BY <1>1, <1>2
  <2>2. fit * MinPart >= fit
    <3>1. \A a, b \in Nat : a * b >= 0
      OBVIOUS
    <3>2. fit * (MinPart - 1) >= 0
      BY <1>1, <1>2, <3>1
    <3> QED
      BY <1>1, <1>2, <3>2
  <2>3. fit * MinPart \in Nat
    BY <1>1, <1>2
  <2> QED
    BY <1>2, <2>1, <2>2, <2>3
<1>4. most \in 1..budget
  BY <1>2, <1>3
<1> HIDE DEF most
<1>5. head \in 1..most /\ tail \in 0..most /\ head + tail = most
  BY <1>4
<1> HIDE DEF head
<1>6. Len(parts) \in Nat \ {0}
  OBVIOUS
<1>7. selected = IF Len(parts) <= most THEN parts
                 ELSE SubSeq(parts, 1, head) \o SubSeq(parts, Len(parts) - tail + 1, Len(parts))
  BY DEF SelectBodyParts, fit, most, head
<1> HIDE DEF selected, tail
<1>8. CASE Len(parts) <= most
  <2>1. selected = parts
    BY <1>7, <1>8
  <2>2. parts \in Seq(T) /\ Len(parts) \in 1..budget
    BY <1>4, <1>6, <1>8
  <2> QED
    BY <2>1, <2>2 DEF selected
<1>9. CASE Len(parts) > most
  <2> DEFINE a == SubSeq(parts, 1, head)
             b == SubSeq(parts, Len(parts) - tail + 1, Len(parts))
  <2>1. a \in Seq(T) /\ Len(a) = head
    BY <1>4, <1>5, <1>6, <1>9
  <2>2. b \in Seq(T) /\ Len(b) = tail
    BY <1>4, <1>5, <1>6, <1>9
  <2>3. selected = a \o b
    <3>1. ~(Len(parts) <= most)
      BY <1>4, <1>6, <1>9
    <3> QED
      BY <1>7, <3>1, Zenon
  <2> HIDE DEF a, b
  <2>4. a \o b \in Seq(T) /\ Len(a \o b) = most
    BY <1>5, <2>1, <2>2
  <2> QED
    BY <1>4, <2>3, <2>4 DEF selected
<1> QED
  BY <1>4, <1>6, <1>8, <1>9

-----------------------------------------------------------------------------
(* The turns of the fair division *)

\* The lengths of parts, none of them empty.
Lengths(lengths) == lengths \in Seq(Nat \ {0})

\* What is left, shared among those who have no limit yet.
Share(s) == s.remaining \div Cardinality(s.active)

\* The lengths of those outside A.
Outside(lengths, A) == [i \in DOMAIN lengths |-> IF i \in A THEN 0 ELSE lengths[i]]

\* The states of the division.
FairStates(lengths) == [active: SUBSET DOMAIN lengths, remaining: Nat]

\* Whoever has a limit has the whole length, which is no more than a share.
FairState(lengths, budget, s) ==
  /\ s \in FairStates(lengths)
  /\ SumSeq(Outside(lengths, s.active)) + s.remaining = budget
  /\ s.active # {} => \A i \in DOMAIN lengths \ s.active : lengths[i] <= Share(s)

\* Nobody else fits into a share.
Settled(lengths, s) == \A i \in s.active : lengths[i] > Share(s)

\* A quotient is the greatest of its kind.
LEMMA DivisionAtLeast ==
  ASSUME NEW a \in Nat, NEW n \in Nat \ {0}, NEW q \in Nat, n * q <= a
  PROVE  q <= a \div n
<1> DEFINE d == a \div n
<1>1. d \in Nat /\ a < n * d + n
  OBVIOUS
<1> HIDE DEF d
<1>2. ASSUME d + 1 <= q PROVE FALSE
  <2>1. q - (d + 1) \in Nat
    BY <1>1, <1>2
  <2>2. n * (q - (d + 1)) >= 0
    BY <2>1
  <2>3. n * (q - (d + 1)) = n * q - (n * d + n)
    BY <1>1
  <2>4. n * q \in Nat /\ n * d \in Nat
    BY <1>1
  <2> QED
    BY <1>1, <2>2, <2>3, <2>4
<1>3. q <= d
  BY <1>1, <1>2
<1> QED
  BY <1>3 DEF d

\* Places and members of lengths.
LEMMA LengthsTyped ==
  ASSUME NEW lengths, Lengths(lengths)
  PROVE  /\ Len(lengths) \in Nat /\ DOMAIN lengths = 1..Len(lengths)
         /\ \A i \in DOMAIN lengths : lengths[i] \in Nat \ {0}
<1> QED
  BY DEF Lengths

\* The lengths of those outside a set are as many as all.
LEMMA OutsideTyped ==
  ASSUME NEW lengths, Lengths(lengths), NEW A
  PROVE  Outside(lengths, A) \in Seq(Nat) /\ Len(Outside(lengths, A)) = Len(lengths)
<1>1. /\ Len(lengths) \in Nat /\ DOMAIN lengths = 1..Len(lengths)
      /\ \A i \in DOMAIN lengths : lengths[i] \in Nat
  BY LengthsTyped
<1>2. Outside(lengths, A) = [i \in 1..Len(lengths) |-> IF i \in A THEN 0 ELSE lengths[i]]
  BY <1>1, Zenon DEF Outside
<1> QED
  BY <1>1, <1>2

\* One turn.
LEMMA FairTurnKeeps ==
  ASSUME NEW lengths, Lengths(lengths), NEW budget \in Nat,
         NEW s, FairState(lengths, budget, s)
  PROVE  LET next == FairTurn(lengths, s)
         IN  /\ FairState(lengths, budget, next)
             /\ Settled(lengths, s) => Settled(lengths, next)
             /\ ~Settled(lengths, s) => Cardinality(next.active) < Cardinality(s.active)
<1> DEFINE A == s.active
           R == s.remaining
           n == Cardinality(A)
           L == Len(lengths)
<1>1. /\ L \in Nat /\ DOMAIN lengths = 1..L
      /\ \A i \in DOMAIN lengths : lengths[i] \in Nat \ {0}
  BY LengthsTyped
<1>2. s \in FairStates(lengths) /\ A \in SUBSET (1..L) /\ R \in Nat
  BY <1>1 DEF FairState, FairStates
<1>3. IsFiniteSet(A) /\ n \in Nat
  <2>1. IsFiniteSet(A)
    BY <1>1, <1>2, UpToGrows
  <2> QED
    BY <2>1, FS_CardinalityType
<1>4. CASE A = {} \/ R <= 0
  <2>1. FairTurn(lengths, s) = s
    BY <1>4 DEF FairTurn
  <2>2. Settled(lengths, s)
    <3>1. CASE A = {}
      BY <3>1 DEF Settled
    <3>2. CASE A # {} /\ R = 0
      <4>1. n # 0
        BY <1>3, <3>2, FS_EmptySet
      <4>2. 0 \div n = 0
        BY <1>3, <4>1
      <4> QED
        BY <1>1, <1>2, <3>2, <4>2 DEF Settled, Share
    <3> QED
      BY <1>2, <1>4, <3>1, <3>2
  <2> QED
    BY <2>1, <2>2
<1>5. CASE A # {} /\ R > 0
  <2> DEFINE q == R \div n
             fit == {i \in A : lengths[i] <= q}
             B == A \ fit
             c == [i \in 1..L |-> IF i \in fit THEN lengths[i] ELSE 0]
             e == [i \in 1..L |-> IF i \in fit THEN q ELSE 0]
             next == FairTurn(lengths, s)
             m == Cardinality(B)
  <2>1. n \in Nat \ {0}
    BY <1>3, <1>5, FS_EmptySet
  <2>2. q \in Nat /\ n * q <= R
    <3> HIDE DEF n
    <3> QED
      BY <1>2, <2>1
  <2>3. q = Share(s)
    BY DEF Share
  <2> HIDE DEF q, n
  <2>4. fit \subseteq A /\ IsFiniteSet(fit) /\ IsFiniteSet(B)
    BY <1>3, FS_Subset
  <2>5. Cardinality(fit) \in Nat /\ m \in Nat /\ Cardinality(fit) + m = n
    <3>1. fit \cup B = A /\ fit \cap B = {}
      OBVIOUS
    <3> HIDE DEF fit, B
    <3>2. Cardinality(fit) \in Nat /\ Cardinality(B) \in Nat
      BY <2>4, FS_CardinalityType
    <3>3. Cardinality(fit \cup B) = Cardinality(fit) + Cardinality(B) - Cardinality(fit \cap B)
      BY <2>4, FS_Union
    <3>4. Cardinality({}) = 0
      BY FS_EmptySet
    <3>5. Cardinality(A) = Cardinality(fit) + Cardinality(B) - 0
      BY <3>1, <3>3, <3>4, Zenon
    <3>6. Cardinality(fit) + Cardinality(B) = Cardinality(A)
      BY <3>2, <3>5
    <3> QED
      BY <3>2, <3>6 DEF n
  <2>6. /\ next = [active |-> B, remaining |-> R - SumSeq(c)]
        /\ next.active = B /\ next.remaining = R - SumSeq(c)
    <3>1. c = [i \in DOMAIN lengths |-> IF i \in fit THEN lengths[i] ELSE 0]
      BY <1>1, Zenon
    <3>2. ~(A = {} \/ R <= 0)
      BY <1>2, <1>5
    <3> HIDE DEF c
    <3>3. next = [active |-> B, remaining |-> R - SumSeq(c)]
      BY <3>1, <3>2, Zenon DEF FairTurn, q, n
    <3> HIDE DEF next
    <3> QED
      BY <3>3
  <2>7. \A i \in fit : lengths[i] <= q
    OBVIOUS
  <2>8. \A i \in 1..L : i \in fit => lengths[i] \in Nat
    BY <1>1
  <2>9. \A i \in B : lengths[i] > q
    BY <1>1, <1>2, <2>2
  <2>10. \A i \in 1..L : i \notin B => i \notin A \/ i \in fit
    OBVIOUS
  <2>10a. B \subseteq A
    OBVIOUS
  <2>11. fit \subseteq 1..L /\ B \subseteq 1..L
    BY <1>2
  <2>12. (fit = {}) <=> Settled(lengths, s)
    BY <1>1, <1>2, <2>2, <2>3 DEF Settled
  <2> HIDE DEF fit, B, next
  <2>13. c \in Seq(Nat) /\ e \in Seq(Nat) /\ Len(c) = L /\ Len(e) = L
    BY <1>1, <2>2, <2>8
  <2>14. SumSeq(e) = Cardinality(fit) * q
    BY <1>1, <2>2, <2>11, SumEqual
  <2>15. SumSeq(c) <= SumSeq(e)
    <3>1. \A i \in 1..Len(c) : c[i] <= e[i]
      BY <1>1, <2>2, <2>7, <2>8, <2>13
    <3> HIDE DEF c, e
    <3> QED
      BY <2>13, <3>1, SumGrows
  <2> HIDE DEF e
  <2>16. SumSeq(c) \in Nat
    <3> HIDE DEF c
    <3> QED
      BY <2>13, SumNat
  <2>17. R - SumSeq(c) \in Nat /\ m * q <= R - SumSeq(c)
    <3> HIDE DEF m, c
    <3>0. PICK k \in Nat : k = Cardinality(fit)
      BY <2>5
    <3>1. n * q = k * q + m * q
      <4>1. (k + m) * q = k * q + m * q
        BY <2>2, <2>5
      <4> QED
        BY <2>5, <3>0, <4>1
    <3>2. k * q \in Nat /\ m * q \in Nat
      BY <2>2, <2>5
    <3>3. SumSeq(c) <= k * q
      BY <2>14, <2>15, <3>0
    <3> QED
      BY <1>2, <2>2, <2>16, <3>1, <3>2, <3>3
  <2>18. next \in FairStates(lengths)
    BY <1>1, <2>6, <2>11, <2>17 DEF FairStates
  <2>19. SumSeq(Outside(lengths, B)) = SumSeq(Outside(lengths, A)) + SumSeq(c)
    <3> DEFINE u == Outside(lengths, B)
               v == Outside(lengths, A)
    <3>1. u \in Seq(Nat) /\ v \in Seq(Nat) /\ Len(u) = L /\ Len(v) = L
      BY OutsideTyped
    <3>2. ASSUME NEW i \in 1..L PROVE u[i] = v[i] + c[i]
      <4>1. u[i] = (IF i \in B THEN 0 ELSE lengths[i]) /\ v[i] = (IF i \in A THEN 0 ELSE lengths[i])
        BY <1>1 DEF Outside
      <4>2. c[i] = IF i \in fit THEN lengths[i] ELSE 0
        OBVIOUS
      <4>3. lengths[i] \in Nat
        BY <1>1
      <4>4. (i \in B => i \in A /\ i \notin fit) /\ (i \in fit => i \in A /\ i \notin B)
        BY DEF B, fit
      <4> HIDE DEF u, v, c
      <4> QED
        BY <2>10, <4>1, <4>2, <4>3, <4>4
    <3> HIDE DEF u, v, c
    <3>3. SumSeq(u) = SumSeq(v) + SumSeq(c)
      BY <2>13, <3>1, <3>2, SumAdds
    <3> QED
      BY <3>3 DEF u, v
  <2>20. SumSeq(Outside(lengths, B)) + (R - SumSeq(c)) = budget
    <3>1. SumSeq(Outside(lengths, A)) + R = budget /\ SumSeq(Outside(lengths, A)) \in Nat
      <4>1. Outside(lengths, A) \in Seq(Nat)
        BY OutsideTyped
      <4>2. SumSeq(Outside(lengths, A)) \in Nat
        BY <4>1, SumNat
      <4>3. SumSeq(Outside(lengths, A)) + R = budget
        BY DEF FairState
      <4> QED
        BY <4>2, <4>3
    <3> HIDE DEF c
    <3> QED
      BY <1>2, <2>16, <2>19, <3>1
  <2>21. ASSUME B # {} PROVE \A i \in DOMAIN lengths \ B : lengths[i] <= Share(next)
    <3>1. m \in Nat \ {0}
      BY <2>4, <2>5, <2>21, FS_EmptySet
    <3> HIDE DEF m, c
    <3>2. q <= (R - SumSeq(c)) \div m
      BY <2>2, <2>17, <3>1, DivisionAtLeast
    <3>3. Share(next) = (R - SumSeq(c)) \div m
      BY <2>6 DEF Share, m
    <3>4. Share(next) \in Nat
      BY <2>17, <3>1, <3>3
    <3>5. ASSUME NEW i \in DOMAIN lengths \ B PROVE lengths[i] <= Share(next)
      <4>1. i \in 1..L /\ lengths[i] \in Nat
        BY <1>1
      <4>2. lengths[i] <= q
        <5>1. CASE i \in fit
          BY <2>7, <5>1
        <5>2. CASE i \notin A
          BY <1>1, <1>5, <2>3, <5>2 DEF FairState
        <5> QED
          BY <2>10, <4>1, <5>1, <5>2
      <4> QED
        BY <2>2, <3>2, <3>3, <3>4, <4>1, <4>2
    <3> QED
      BY <3>5
  <2>22. FairState(lengths, budget, next)
    <3> HIDE DEF c, m
    <3> QED
      BY <2>6, <2>18, <2>20, <2>21 DEF FairState
  <2>23. ASSUME fit = {} PROVE Settled(lengths, next)
    <3>1. Cardinality(fit) = 0
      BY <2>23, FS_EmptySet
    <3>2. SumSeq(c) = 0
      <4>1. 0 * q = 0
        BY <2>2
      <4> HIDE DEF c
      <4> QED
        BY <2>14, <2>15, <2>16, <3>1, <4>1
    <3>3. B = A
      BY <2>23 DEF B
    <3>4. R - SumSeq(c) = R
      <4> HIDE DEF c
      <4> QED
        BY <1>2, <3>2
    <3>5. Share(next) = q
      <4> HIDE DEF c
      <4> QED
        BY <2>3, <2>6, <3>3, <3>4 DEF Share
    <3> QED
      BY <2>6, <2>9, <3>3, <3>5 DEF Settled
  <2>24. ASSUME fit # {} PROVE m < n
    <3>1. Cardinality(fit) # 0
      BY <2>4, <2>24, FS_EmptySet
    <3> HIDE DEF m
    <3> QED
      BY <2>1, <2>5, <3>1
  <2> QED
    BY <2>6, <2>12, <2>22, <2>23, <2>24 DEF next, n
<1> QED
  BY <1>2, <1>4, <1>5

\* The division starts in a state of its own.
LEMMA FairStart ==
  ASSUME NEW lengths, Lengths(lengths), NEW budget \in Nat
  PROVE  FairState(lengths, budget, [active |-> DOMAIN lengths, remaining |-> budget])
<1> DEFINE s == [active |-> DOMAIN lengths, remaining |-> budget]
           L == Len(lengths)
           zero == [i \in 1..L |-> IF i \in {} THEN 0 ELSE 0]
<1>1. /\ L \in Nat /\ DOMAIN lengths = 1..L
      /\ \A i \in DOMAIN lengths : lengths[i] \in Nat
  BY LengthsTyped
<1>2. Outside(lengths, DOMAIN lengths) = zero
  BY <1>1 DEF Outside
<1>3. SumSeq(zero) = 0
  <2>1. SumSeq(zero) = Cardinality({}) * 0
    BY <1>1, SumEqual
  <2>2. Cardinality({}) = 0 /\ 0 * 0 = 0
    BY FS_EmptySet
  <2> HIDE DEF zero
  <2> QED
    BY <2>1, <2>2
<1>4. SumSeq(Outside(lengths, s.active)) + s.remaining = budget
  <2> HIDE DEF zero
  <2> QED
    BY <1>2, <1>3
<1>5. s \in FairStates(lengths)
  BY DEF FairStates
<1>6. \A i \in DOMAIN lengths \ s.active : lengths[i] <= Share(s)
  OBVIOUS
<1> QED
  BY <1>4, <1>5, <1>6 DEF FairState

\* What the recursion of FairTurns asks of a function.
Turns(f, lengths, budget) ==
  f = [k \in 0..Len(lengths) |->
         IF k = 0 THEN [active |-> DOMAIN lengths, remaining |-> budget]
         ELSE FairTurn(lengths, f[k - 1])]

\* The turns are what their recursion asks for.
LEMMA FairTurnsExist ==
  ASSUME NEW lengths, Lengths(lengths), NEW budget \in Nat
  PROVE  Turns(FairTurns(lengths, budget), lengths, budget)
<1> DEFINE start == [active |-> DOMAIN lengths, remaining |-> budget]
           V == {s \in FairStates(lengths) : FairState(lengths, budget, s)}
           L == Len(lengths)
           step == [k \in 1..L |-> [v \in V |-> FairTurn(lengths, v)]]
<1>1. L \in Nat
  BY LengthsTyped
<1>2. start \in V
  BY FairStart DEF FairState
<1>3. \A v \in V : FairTurn(lengths, v) \in V
  BY FairTurnKeeps DEF FairState
<1> HIDE DEF start, V
<1>4. \A k \in 1..L : \A v \in V : step[k][v] = FairTurn(lengths, v)
  OBVIOUS
<1> HIDE DEF step, L
<1>5. Stays(step, L, V)
  BY <1>3, <1>4 DEF Stays
<1>6. PICK f : Unfolds(f, start, step, L)
  BY <1>1, RecursionExists
<1>7. \A k \in 0..L : f[k] \in V
  BY <1>1, <1>2, <1>5, <1>6, RecursionIn
<1>8. f = [k \in 0..L |-> f[k]] /\ f[0] = start
  <2>1. f = [k \in 0..L |-> f[k]]
    BY <1>1, <1>6 DEF Unfolds
  <2>2. f[0] = start
    BY <1>1, <1>6 DEF Unfolds
  <2> QED
    BY <2>1, <2>2
<1>9. ASSUME NEW k \in 1..L PROVE f[k] = FairTurn(lengths, f[k - 1])
  <2>1. f[k] = step[k][f[k - 1]]
    BY <1>1, <1>6, RecursionStep
  <2>2. f[k - 1] \in V
    BY <1>1, <1>7
  <2> QED
    BY <1>4, <2>1, <2>2
<1>10. Turns(f, lengths, budget)
  <2> DEFINE g == [k \in 0..L |-> IF k = 0 THEN start ELSE FairTurn(lengths, f[k - 1])]
  <2>1. ASSUME NEW k \in 0..L PROVE f[k] = g[k]
    <3>1. CASE k = 0
      BY <1>8, <3>1
    <3>2. CASE k # 0
      <4>1. k \in 1..L
        BY <1>1, <3>2
      <4>2. g[k] = FairTurn(lengths, f[k - 1])
        BY <3>2, Zenon
      <4> HIDE DEF g
      <4> QED
        BY <1>9, <4>1, <4>2, Zenon
    <3> QED
      BY <3>1, <3>2
  <2>2. g = [k \in 0..L |-> g[k]]
    OBVIOUS
  <2>3. f = g
    <3> HIDE DEF g
    <3> QED
      BY <1>8, <2>1, <2>2
  <2> QED
    BY <2>3 DEF Turns, start, L
<1>11. Turns(FairTurns(lengths, budget), lengths, budget)
  <2>1. FairTurns(lengths, budget) = CHOOSE g : Turns(g, lengths, budget)
    BY DEF FairTurns, Turns
  <2> QED
    BY <1>10, <2>1
<1> QED
  BY <1>11

\* Before the first turn nobody has a limit.
LEMMA FairTurnsStart ==
  ASSUME NEW lengths, Lengths(lengths), NEW budget \in Nat
  PROVE  FairTurns(lengths, budget)[0] = [active |-> DOMAIN lengths, remaining |-> budget]
<1> DEFINE F == FairTurns(lengths, budget)
<1>1. Turns(F, lengths, budget) /\ 0 \in 0..Len(lengths)
  BY FairTurnsExist, LengthsTyped
<1> HIDE DEF F
<1>2. F[0] = [active |-> DOMAIN lengths, remaining |-> budget]
  BY <1>1 DEF Turns
<1> QED
  BY <1>2 DEF F

\* Each turn follows from the one before.
LEMMA FairTurnsUnfold ==
  ASSUME NEW lengths, Lengths(lengths), NEW budget \in Nat, NEW m \in 1..Len(lengths)
  PROVE  FairTurns(lengths, budget)[m] = FairTurn(lengths, FairTurns(lengths, budget)[m - 1])
<1> DEFINE F == FairTurns(lengths, budget)
<1>1. Turns(F, lengths, budget) /\ m \in 0..Len(lengths) /\ m # 0
  BY FairTurnsExist, LengthsTyped
<1> HIDE DEF F
<1>2. F[m] = FairTurn(lengths, F[m - 1])
  BY <1>1 DEF Turns
<1> QED
  BY <1>2 DEF F

\* After as many turns as there are parts, nobody else fits.
LEMMA FairTurnsSettle ==
  ASSUME NEW lengths, Lengths(lengths), NEW budget \in Nat
  PROVE  LET last == FairTurns(lengths, budget)[Len(lengths)]
         IN  FairState(lengths, budget, last) /\ Settled(lengths, last)
<1> DEFINE F == FairTurns(lengths, budget)
           L == Len(lengths)
           Fewer(k) == Cardinality(F[k].active) + k <= L
           Q == {k \in 0..L : /\ FairState(lengths, budget, F[k])
                              /\ Settled(lengths, F[k]) \/ Fewer(k)}
<1>1. L \in Nat /\ DOMAIN lengths = 1..L
  BY LengthsTyped
<1>2. F[0] = [active |-> DOMAIN lengths, remaining |-> budget]
  BY FairTurnsStart
<1>3. \A k \in 1..L : F[k] = FairTurn(lengths, F[k - 1])
  BY FairTurnsUnfold
<1>4. FairState(lengths, budget, F[0])
  BY <1>2, FairStart
<1> HIDE DEF F, L
<1>5. 0 \in Q
  <2>1. F[0].active = 1..L
    BY <1>1, <1>2
  <2>2. Cardinality(1..L) = L
    <3>1. Cardinality(1..L) = IF 1 > L THEN 0 ELSE L - 1 + 1
      BY <1>1, FS_Interval
    <3> QED
      BY <1>1, <3>1
  <2>3. Fewer(0)
    BY <1>1, <2>1, <2>2
  <2> QED
    BY <1>1, <1>4, <2>3
<1>6. ASSUME NEW s, FairState(lengths, budget, s)
      PROVE  /\ s.active \subseteq 1..L /\ IsFiniteSet(s.active)
             /\ Cardinality(s.active) \in Nat
             /\ Cardinality(s.active) = 0 => s.active = {}
  <2>1. s.active \in SUBSET (1..L)
    BY <1>1, <1>6 DEF FairState, FairStates
  <2>2. IsFiniteSet(s.active)
    BY <1>1, <2>1, UpToGrows
  <2> QED
    BY <2>1, <2>2, FS_CardinalityType, FS_EmptySet
<1>7. ASSUME NEW k \in 1..L, k - 1 \in Q PROVE k \in Q
  <2>1. /\ FairState(lengths, budget, F[k - 1])
        /\ Settled(lengths, F[k - 1]) \/ Fewer(k - 1)
    BY <1>7
  <2>2. F[k] = FairTurn(lengths, F[k - 1])
    BY <1>3
  <2>3. /\ FairState(lengths, budget, F[k])
        /\ Settled(lengths, F[k - 1]) => Settled(lengths, F[k])
        /\ ~Settled(lengths, F[k - 1]) =>
             Cardinality(F[k].active) < Cardinality(F[k - 1].active)
    BY <2>1, <2>2, FairTurnKeeps
  <2>4. Cardinality(F[k].active) \in Nat /\ Cardinality(F[k - 1].active) \in Nat
    BY <1>6, <2>1, <2>3
  <2>5. Settled(lengths, F[k]) \/ Fewer(k)
    <3>1. ASSUME ~Settled(lengths, F[k - 1]) PROVE Fewer(k)
      BY <1>1, <2>1, <2>3, <2>4, <3>1
    <3> QED
      BY <2>3, <3>1
  <2>6. k \in 0..L
    BY <1>1
  <2> QED
    BY <2>3, <2>5, <2>6
<1>8. \A k \in 0..L : k \in Q
  <2> HIDE DEF Q
  <2> QED
    BY <1>1, <1>5, <1>7, InductionUpTo
<1>9. L \in Q
  BY <1>1, <1>8
<1>10. FairState(lengths, budget, F[L]) /\ (Settled(lengths, F[L]) \/ Fewer(L))
  BY <1>9
<1>11. ASSUME Fewer(L) PROVE Settled(lengths, F[L])
  <2>1. Cardinality(F[L].active) \in Nat /\ (Cardinality(F[L].active) = 0 => F[L].active = {})
    BY <1>6, <1>10
  <2>2. Cardinality(F[L].active) = 0
    BY <1>1, <1>11, <2>1
  <2>3. F[L].active = {}
    BY <2>1, <2>2
  <2> QED
    BY <2>3, Zenon DEF Settled
<1> QED
  BY <1>10, <1>11 DEF F, L

-----------------------------------------------------------------------------
(* The limits that the fair division gives *)

\* _fair_part_limits shares any budget among any number of parts of any length max-min
\* fairly: nobody gets more than its length, whoever gets less than its length gets at
\* least what anyone gets but for one character, and the whole budget is used up unless
\* all parts fit.
THEOREM LimitsAreFair ==
  ASSUME NEW lengths, Lengths(lengths), NEW budget \in Nat
  PROVE  /\ FairPartLimits(lengths, budget) \in Seq(Nat)
         /\ Len(FairPartLimits(lengths, budget)) = Len(lengths)
         /\ MaxMinFair(lengths, FairPartLimits(lengths, budget), budget)
<1> DEFINE last == FairTurns(lengths, budget)[Len(lengths)]
           A == last.active
           R == last.remaining
           n == Cardinality(A)
           L == Len(lengths)
           q == R \div n
           extra == R % n
           more(i) == Cardinality({j \in A : j < i}) < extra
           limits == FairPartLimits(lengths, budget)
           u == Outside(lengths, A)
           e == [i \in 1..L |-> IF i \in A THEN q ELSE 0]
           x == [i \in 1..L |-> IF i \in A /\ more(i) THEN 1 ELSE 0]
           v == [i \in 1..L |-> e[i] + x[i]]
<1>1. /\ L \in Nat /\ DOMAIN lengths = 1..L
      /\ \A i \in DOMAIN lengths : lengths[i] \in Nat \ {0}
  BY LengthsTyped
<1>2. FairState(lengths, budget, last) /\ Settled(lengths, last)
  BY FairTurnsSettle
<1>3. limits = [i \in 1..L |->
         IF i \notin A THEN lengths[i]
         ELSE IF R <= 0 THEN 0
         ELSE q + (IF more(i) THEN 1 ELSE 0)]
  BY <1>1, Zenon DEF FairPartLimits
<1> HIDE DEF last, limits
<1>4. A \in SUBSET (1..L) /\ R \in Nat
  BY <1>1, <1>2 DEF FairState, FairStates
<1>5. IsFiniteSet(A) /\ n \in Nat /\ (n = 0 <=> A = {})
  <2>1. IsFiniteSet(A)
    BY <1>1, <1>4, UpToGrows
  <2> QED
    BY <2>1, FS_CardinalityType, FS_EmptySet
<1>6. lengths \in Seq(Nat) /\ SumSeq(lengths) \in Nat
  <2>1. lengths \in Seq(Nat)
    BY DEF Lengths
  <2> QED
    BY <2>1, SumNat
<1>7. u \in Seq(Nat) /\ Len(u) = L /\ SumSeq(u) \in Nat /\ SumSeq(u) + R = budget
  <2>1. u \in Seq(Nat) /\ Len(u) = L
    BY OutsideTyped
  <2>2. SumSeq(u) + R = budget
    BY <1>2 DEF FairState
  <2> HIDE DEF u
  <2> QED
    BY <2>1, <2>2, SumNat
<1>8. \A i \in 1..L : u[i] = IF i \in A THEN 0 ELSE lengths[i]
  BY <1>1 DEF Outside
<1>9. CASE A = {}
  <2>1. limits = lengths
    <3>1. \A i \in 1..L : limits[i] = lengths[i]
      BY <1>3, <1>9
    <3>2. lengths = [i \in 1..L |-> lengths[i]]
      BY <1>1, <1>6
    <3>3. limits = [i \in 1..L |-> limits[i]]
      BY <1>3
    <3> QED
      BY <3>1, <3>2, <3>3
  <2>2. u = lengths
    <3>1. \A i \in 1..L : u[i] = lengths[i]
      BY <1>8, <1>9
    <3> HIDE DEF u
    <3> QED
      BY <1>1, <1>6, <1>7, <3>1
  <2>3. SumSeq(lengths) <= budget
    <3> HIDE DEF u
    <3> QED
      BY <1>4, <1>7, <2>2
  <2>4. SumSeq(limits) = IF SumSeq(lengths) < budget THEN SumSeq(lengths) ELSE budget
    BY <1>6, <2>1, <2>3
  <2>5. ASSUME NEW i \in DOMAIN lengths, NEW j \in DOMAIN lengths
        PROVE  /\ limits[i] <= lengths[i]
               /\ limits[i] < lengths[i] => limits[j] <= limits[i] + 1
    BY <1>1, <2>1
  <2> QED
    BY <1>6, <2>1, <2>4, <2>5 DEF MaxMinFair, limits
<1>10. CASE A # {}
  <2>1. n \in Nat \ {0} /\ q \in Nat /\ extra \in 0..(n - 1) /\ R = n * q + extra
    <3>1. n \in Nat \ {0}
      BY <1>5, <1>10
    <3> HIDE DEF n
    <3>2. q \in Nat
      BY <1>4, <3>1
    <3>3. extra \in 0..(n - 1)
      BY <1>4, <3>1
    <3>4. R = n * q + extra
      BY <1>4, <3>1
    <3> QED
      BY <3>1, <3>2, <3>3, <3>4
  <2>2. q = Share(last)
    BY DEF Share
  <2> HIDE DEF q, extra, n, more
  <2>3. ASSUME NEW i \in 1..L PROVE limits[i] = u[i] + v[i]
    <3>1. CASE i \notin A
      <4>1. limits[i] = lengths[i] /\ u[i] = lengths[i] /\ v[i] = 0 /\ lengths[i] \in Nat
        BY <1>1, <1>3, <1>8, <3>1
      <4> HIDE DEF u, v
      <4> QED
        BY <4>1
    <3>2. CASE i \in A
      <4>1. u[i] = 0 /\ v[i] = q + (IF more(i) THEN 1 ELSE 0)
        BY <1>8, <3>2
      <4>2. R = 0 => q = 0 /\ extra = 0
        <5>1. \A a, b \in Nat : a * b + extra = 0 => extra = 0
          <6>1. \A a, b \in Nat : a * b \in Nat
            OBVIOUS
          <6> QED
            BY <2>1, <6>1
        <5>2. R = 0 => q = 0
          <6>1. 0 \div n = 0
            BY <2>1
          <6> QED
            BY <6>1 DEF q, n
        <5> QED
          BY <2>1, <5>1, <5>2
      <4>3. extra = 0 => ~more(i)
        <5>1. {j \in A : j < i} \subseteq A
          OBVIOUS
        <5>2. Cardinality({j \in A : j < i}) \in Nat
          BY <1>5, <5>1, FS_Subset, FS_CardinalityType
        <5> QED
          BY <5>2 DEF more
      <4>4. limits[i] = IF R <= 0 THEN 0 ELSE q + (IF more(i) THEN 1 ELSE 0)
        BY <1>3, <3>2
      <4> HIDE DEF u, v
      <4>5. q \in Nat /\ R \in Nat
        BY <1>4, <2>1
      <4> QED
        BY <4>1, <4>2, <4>3, <4>4, <4>5
    <3> QED
      BY <3>1, <3>2
  <2>4. e \in Seq(Nat) /\ Len(e) = L /\ SumSeq(e) = n * q
    BY <1>1, <1>4, <2>1, SumEqual, ZenonT(40) DEF n
  <2>5. x \in Seq(Nat) /\ Len(x) = L /\ SumSeq(x) = extra
    <3>1. extra \in 0..Cardinality(A)
      BY <2>1 DEF n
    <3> QED
      BY <1>1, <1>4, <3>1, SumRemainder, ZenonT(40) DEF more
  <2>6. v \in Seq(Nat) /\ Len(v) = L /\ \A i \in 1..L : v[i] = e[i] + x[i]
    <3>1. \A i \in 1..L : e[i] \in Nat /\ x[i] \in Nat
      BY <2>1
    <3> HIDE DEF e, x
    <3> QED
      BY <1>1, <3>1
  <2>6a. \A i \in 1..L : v[i] = IF i \in A THEN q + (IF more(i) THEN 1 ELSE 0) ELSE 0
    BY <2>1
  <2> HIDE DEF e, x, v, u
  <2>7. SumSeq(v) = R
    <3>1. SumSeq(v) = SumSeq(e) + SumSeq(x)
      BY <2>4, <2>5, <2>6, SumAdds
    <3> QED
      BY <2>1, <2>4, <2>5, <3>1
  <2>8. limits \in Seq(Nat) /\ Len(limits) = L
    <3>1. \A i \in 1..L : limits[i] \in Nat
      <4>1. \A i \in 1..L : u[i] \in Nat /\ v[i] \in Nat
        BY <1>7, <2>6
      <4> QED
        BY <2>3, <4>1
    <3>2. limits = [i \in 1..L |-> limits[i]]
      BY <1>3
    <3> QED
      BY <1>1, <3>1, <3>2
  <2>9. SumSeq(limits) = budget
    <3>1. SumSeq(limits) = SumSeq(u) + SumSeq(v)
      BY <1>7, <2>3, <2>6, <2>8, SumAdds
    <3> QED
      BY <1>7, <2>7, <3>1
  <2>10. ASSUME NEW i \in A PROVE lengths[i] > q /\ limits[i] \in q..(q + 1)
    <3>1. lengths[i] > q
      BY <1>2, <2>2 DEF Settled
    <3>2. u[i] = 0 /\ v[i] = q + (IF more(i) THEN 1 ELSE 0) /\ limits[i] = u[i] + v[i]
      BY <1>4, <1>8, <2>3, <2>6a
    <3> QED
      BY <2>1, <3>1, <3>2
  <2>11. ASSUME NEW i \in 1..L, i \notin A PROVE lengths[i] <= q /\ limits[i] = lengths[i]
    <3>1. lengths[i] <= q
      BY <1>1, <1>2, <1>10, <2>2, <2>11 DEF FairState
    <3> QED
      BY <1>3, <2>11, <3>1
  <2>12. \A i \in 1..L : limits[i] <= lengths[i]
    <3>1. ASSUME NEW i \in 1..L PROVE limits[i] <= lengths[i]
      <4>1. lengths[i] \in Nat
        BY <1>1
      <4> QED
        BY <2>1, <2>10, <2>11, <4>1
    <3> QED
      BY <3>1
  <2>13. budget <= SumSeq(lengths)
    BY <1>6, <2>8, <2>9, <2>12, SumGrows
  <2>14. SumSeq(limits) = IF SumSeq(lengths) < budget THEN SumSeq(lengths) ELSE budget
    BY <1>6, <2>9, <2>13
  <2>15. ASSUME NEW i \in 1..L, NEW j \in 1..L, limits[i] < lengths[i]
         PROVE  limits[j] <= limits[i] + 1
    <3>1. lengths[i] \in Nat /\ lengths[j] \in Nat /\ q \in Nat
      BY <1>1, <2>1
    <3>2. i \in A
      BY <2>11, <2>15, <3>1
    <3>3. limits[i] >= q /\ limits[i] \in Nat
      BY <2>10, <3>1, <3>2
    <3>4. limits[j] <= q + 1 /\ limits[j] \in Nat
      BY <2>10, <2>11, <3>1
    <3> QED
      BY <3>1, <3>3, <3>4
  <2>16. MaxMinFair(lengths, limits, budget)
    BY <1>1, <2>12, <2>14, <2>15 DEF MaxMinFair
  <2> QED
    BY <2>8, <2>16 DEF limits
<1> QED
  BY <1>9, <1>10

-----------------------------------------------------------------------------
(* A cut text *)

\* What is left of the parts between the first one and the marker.
Clipped(parts, budget) ==
  LET selected == SelectBodyParts(parts, budget)
      limits == FairPartLimits(selected, budget - Len(selected) + 1)
  IN  NonZero([i \in DOMAIN selected |-> ClipMiddle(selected[i], limits[i])])

\* The parts that are left fit into their budget together with their newlines.
LEMMA ClippedFits ==
  ASSUME NEW parts, Lengths(parts), parts # <<>>, NEW budget \in Nat \ {0}
  PROVE  /\ Clipped(parts, budget) \in Seq(Nat \ {0})
         /\ Len(Clipped(parts, budget)) \in Nat /\ SumSeq(Clipped(parts, budget)) \in Nat
         /\ SumSeq(Clipped(parts, budget)) + Len(Clipped(parts, budget)) <= budget + 1
<1> DEFINE selected == SelectBodyParts(parts, budget)
           content == budget - Len(selected) + 1
           limits == FairPartLimits(selected, content)
           clipped == [i \in DOMAIN selected |-> ClipMiddle(selected[i], limits[i])]
<1>1. Lengths(selected) /\ Len(selected) \in 1..budget
  BY SelectionFits DEF Lengths
<1>2. content \in Nat /\ content + Len(selected) = budget + 1
  <2> HIDE DEF selected
  <2> QED
    BY <1>1
<1>3. SumSeq(limits) <= content /\ limits \in Seq(Nat) /\ Len(limits) = Len(selected)
  <2> HIDE DEF selected, content
  <2>1. /\ limits \in Seq(Nat) /\ Len(limits) = Len(selected)
        /\ MaxMinFair(selected, limits, content)
    BY <1>1, <1>2, LimitsAreFair
  <2>2. selected \in Seq(Nat)
    BY <1>1 DEF Lengths
  <2>3. SumSeq(selected) \in Nat
    BY <2>2, SumNat
  <2>4. SumSeq(limits) = IF SumSeq(selected) < content THEN SumSeq(selected) ELSE content
    BY <2>1, Zenon DEF MaxMinFair
  <2> HIDE DEF limits
  <2> QED
    BY <1>2, <2>1, <2>3, <2>4
<1> HIDE DEF limits, content
<1>4. /\ clipped \in Seq(Nat) /\ Len(clipped) = Len(selected)
      /\ \A i \in 1..Len(clipped) : clipped[i] <= limits[i]
  <2>1. Len(selected) \in Nat /\ DOMAIN selected = 1..Len(selected)
    BY <1>1, LengthsTyped
  <2>2. \A i \in 1..Len(selected) : selected[i] \in Nat /\ limits[i] \in Nat
    <3>1. \A i \in DOMAIN selected : selected[i] \in Nat
      BY <1>1, LengthsTyped
    <3> HIDE DEF selected
    <3> QED
      BY <1>3, <2>1, <3>1
  <2> HIDE DEF selected
  <2>3. \A i \in 1..Len(selected) : /\ ClipMiddle(selected[i], limits[i]) \in Nat
                                    /\ ClipMiddle(selected[i], limits[i]) <= limits[i]
    BY <2>2, ClipFits
  <2> QED
    BY <2>1, <2>3
<1>5. Clipped(parts, budget) = NonZero(clipped)
  BY DEF Clipped, limits, content
<1> HIDE DEF clipped
<1>6. /\ NonZero(clipped) \in Seq(Nat \ {0}) /\ Len(NonZero(clipped)) <= Len(clipped)
      /\ SumSeq(NonZero(clipped)) <= SumSeq(clipped)
  BY <1>4, NonZeroFits
<1>7. SumSeq(clipped) <= SumSeq(limits)
  BY <1>3, <1>4, SumGrows
<1>8. /\ SumSeq(NonZero(clipped)) \in Nat /\ SumSeq(clipped) \in Nat
      /\ SumSeq(limits) \in Nat /\ Len(NonZero(clipped)) \in Nat
  <2>1. NonZero(clipped) \in Seq(Nat) /\ Len(NonZero(clipped)) \in Nat
    BY <1>6
  <2> QED
    BY <1>3, <1>4, <2>1, SumNat
<1> DEFINE s == SumSeq(NonZero(clipped))
           k == Len(NonZero(clipped))
           n == Len(selected)
<1>9. s <= content /\ k <= n /\ n \in Nat /\ s \in Nat /\ k \in Nat
  BY <1>1, <1>2, <1>3, <1>4, <1>6, <1>7, <1>8
<1>10. content + n = budget + 1
  BY <1>2
<1> HIDE DEF s, k, n
<1>11. s + k <= budget + 1
  BY <1>2, <1>9, <1>10
<1> QED
  BY <1>5, <1>6, <1>8, <1>11 DEF s, k

\* A text of one line.
LEMMA RenderedOne ==
  ASSUME NEW x \in Nat
  PROVE  <<x>> \in Seq(Nat) /\ <<x>> # <<>> /\ Rendered(<<x>>) = x
<1>1. <<x>> \in Seq(Nat) /\ <<x>> # <<>> /\ Len(<<x>>) = 1
  OBVIOUS
<1>2. SumSeq(<<x>>) = x
  BY SumOne
<1>3. Rendered(<<x>>) = SumSeq(<<x>>) + Len(<<x>>) - 1
  BY <1>1 DEF Rendered
<1> QED
  BY <1>1, <1>2, <1>3

\* A text of parts, all of some length, has a length.
LEMMA RenderedSome ==
  ASSUME NEW parts, Lengths(parts), parts # <<>>
  PROVE  Rendered(parts) \in Nat \ {0}
<1>1. parts \in Seq(Nat) /\ Len(parts) \in Nat /\ Len(parts) # 0
  BY EmptySeq DEF Lengths
<1>2. Rendered(parts) = SumSeq(parts) + Len(parts) - 1
  BY DEF Rendered
<1> DEFINE ones == [i \in 1..Len(parts) |-> IF i \in 1..1 THEN 1 ELSE 0]
<1>3. ones \in Seq(Nat) /\ Len(ones) = Len(parts) /\ SumSeq(ones) = 1
  <2>1. 1..1 \in SUBSET (1..Len(parts)) /\ 1 \in Nat
    BY <1>1
  <2>2. /\ ones \in Seq(Nat) /\ Len(ones) = Len(parts)
        /\ SumSeq(ones) = Cardinality(1..1) * 1
    BY <1>1, <2>1, SumEqual, SMTT(30)
  <2>3. Cardinality(1..1) = 1
    <3>1. 1..1 = {1}
      OBVIOUS
    <3> QED
      BY <3>1, FS_Singleton
  <2> HIDE DEF ones
  <2> QED
    BY <2>2, <2>3
<1>4. \A i \in 1..Len(ones) : ones[i] <= parts[i]
  <2>1. \A i \in 1..Len(parts) : parts[i] \in Nat \ {0}
    BY LengthsTyped
  <2>2. \A i \in 1..Len(parts) : ones[i] \in {0, 1}
    OBVIOUS
  <2> HIDE DEF ones
  <2> QED
    BY <1>3, <2>1, <2>2
<1> HIDE DEF ones
<1>5. SumSeq(ones) <= SumSeq(parts) /\ SumSeq(parts) \in Nat
  BY <1>1, <1>3, <1>4, SumGrows, SumNat
<1> QED
  BY <1>1, <1>2, <1>3, <1>5

\* The first part, what is left of the others, and the marker.
LEMMA AssembledFits ==
  ASSUME NEW h \in Nat \ {0}, NEW middle \in Seq(Nat \ {0})
  PROVE  LET result == <<h>> \o middle \o <<Marker>>
         IN  /\ Lengths(result) /\ result # <<>>
             /\ Head(result) = h /\ Last(result) = Marker
             /\ Rendered(result) = h + SumSeq(middle) + Marker + Len(middle) + 1
<1> DEFINE front == <<h>> \o middle
           result == front \o <<Marker>>
<1>1. Marker \in Nat \ {0}
  BY InputAssumption
<1>2. /\ <<h>> \in Seq(Nat \ {0}) /\ <<Marker>> \in Seq(Nat \ {0})
      /\ Len(<<h>>) = 1 /\ Len(<<Marker>>) = 1
  BY <1>1
<1>3. /\ front \in Seq(Nat \ {0}) /\ Len(front) = 1 + Len(middle) /\ front[1] = h
      /\ Len(middle) \in Nat
  BY <1>2
<1>4. SumSeq(front) = h + SumSeq(middle) /\ SumSeq(middle) \in Nat
  <2>1. middle \in Seq(Nat) /\ h \in Nat
    OBVIOUS
  <2>2. <<h>> \in Seq(Nat) /\ SumSeq(<<h>>) = h
    BY <2>1, SumOne
  <2>3. SumSeq(front) = SumSeq(<<h>>) + SumSeq(middle)
    BY <2>1, <2>2, SumConcat
  <2>4. SumSeq(middle) \in Nat
    BY <2>1, SumNat
  <2> QED
    BY <2>2, <2>3, <2>4
<1> HIDE DEF front
<1>5. /\ result \in Seq(Nat \ {0}) /\ Len(result) = Len(middle) + 2
      /\ result[1] = h /\ result[Len(middle) + 2] = Marker
  BY <1>1, <1>2, <1>3
<1>6. SumSeq(result) = h + SumSeq(middle) + Marker
  <2>1. front \in Seq(Nat) /\ <<Marker>> \in Seq(Nat)
    BY <1>1, <1>3
  <2>2. SumSeq(result) = SumSeq(front) + SumSeq(<<Marker>>)
    BY <2>1, SumConcat
  <2> QED
    BY <1>1, <1>4, <2>2, SumOne
<1>7. result = <<h>> \o middle \o <<Marker>>
  BY DEF front
<1> HIDE DEF result
<1>8. result # <<>>
  BY <1>3, <1>5
<1>9. Head(result) = h /\ Last(result) = Marker
  BY <1>5 DEF Last
<1>10. Rendered(result) = h + SumSeq(middle) + Marker + Len(middle) + 1
  <2>1. Rendered(result) = SumSeq(result) + Len(result) - 1
    BY <1>8 DEF Rendered
  <2> DEFINE s == SumSeq(middle)
             n == Len(middle)
  <2>2. s \in Nat /\ n \in Nat /\ Rendered(result) = (h + s + Marker) + (n + 2) - 1
    BY <1>3, <1>4, <1>5, <1>6, <2>1
  <2> HIDE DEF s, n
  <2>3. Rendered(result) = h + s + Marker + n + 1
    BY <1>1, <2>2
  <2> QED
    BY <2>3 DEF s, n
<1> QED
  BY <1>5, <1>7, <1>8, <1>9, <1>10 DEF Lengths

\* A cut text of any parts has between one character and as many as its limit allows,
\* so that no model is sent a blank or an overlong text.  Where there is room for it, it
\* starts with the first part and ends with the marker, which the last slice of
\* truncate_analysis_parts could otherwise take away.
THEOREM CutFits ==
  ASSUME NEW parts, Lengths(parts), parts # <<>>, NEW max \in Nat \ {0}
  PROVE  /\ Lengths(Cut(parts, max)) /\ Cut(parts, max) # <<>>
         /\ Rendered(Cut(parts, max)) \in 1..max
         /\ max - Head(parts) - Marker - 2 > 0 /\ Len(parts) > 1 =>
              /\ Head(Cut(parts, max)) = Head(parts)
              /\ Last(Cut(parts, max)) = Marker
<1> DEFINE budget == max - Head(parts) - Marker - 2
           selected == SelectBodyParts(Tail(parts), budget)
           content == budget - (IF Len(selected) > 1 THEN Len(selected) - 1 ELSE 0)
           limits == FairPartLimits(selected, IF content > 0 THEN content ELSE 0)
           clipped == [i \in DOMAIN selected |-> ClipMiddle(selected[i], limits[i])]
           result == <<Head(parts)>> \o NonZero(clipped) \o <<Marker>>
           short == Head(parts) + Marker + 2 >= max \/ Len(parts) = 1
<1>1. /\ Head(parts) \in Nat \ {0} /\ Marker \in Nat \ {0} /\ Len(parts) \in Nat \ {0}
      /\ Tail(parts) \in Seq(Nat \ {0}) /\ Len(Tail(parts)) = Len(parts) - 1
  BY InputAssumption, EmptySeq, HeadTailProperties DEF Lengths
<1>2. Cut(parts, max) = IF short THEN <<ClipMiddle(Head(parts), max)>>
                        ELSE IF Rendered(result) <= max THEN result ELSE <<max>>
  <2>1. Cut(parts, max) = IF max <= 0 THEN <<>>
                          ELSE IF short THEN <<ClipMiddle(Head(parts), max)>>
                          ELSE IF Rendered(result) <= max THEN result ELSE <<max>>
    BY Zenon DEF Cut
  <2> HIDE DEF short, result
  <2>2. ~(max <= 0)
    OBVIOUS
  <2> QED
    BY <2>1, <2>2
<1>3. CASE short
  <2>1. ClipMiddle(Head(parts), max) \in 1..max
    <3> DEFINE c == ClipMiddle(Head(parts), max)
    <3>1. Head(parts) > 0 /\ max > 0 /\ Head(parts) \in Nat /\ max \in Nat
      BY <1>1
    <3>2. c \in Nat /\ c <= max /\ c > 0
      BY <3>1, ClipFits
    <3> HIDE DEF c
    <3>3. c \in 1..max
      BY <3>2
    <3> QED
      BY <3>3 DEF c
  <2>2. Lengths(<<ClipMiddle(Head(parts), max)>>)
    BY <2>1 DEF Lengths
  <2>3. Cut(parts, max) = <<ClipMiddle(Head(parts), max)>>
    BY <1>2, <1>3
  <2>4. ~(budget > 0 /\ Len(parts) > 1)
    <3> DEFINE h == Head(parts)
    <3>1. h \in Nat /\ Marker \in Nat /\ (h + Marker + 2 >= max \/ Len(parts) = 1)
      BY <1>1, <1>3
    <3>2. budget = max - h - Marker - 2
      OBVIOUS
    <3> HIDE DEF h, budget
    <3> QED
      BY <1>1, <3>1, <3>2
  <2> HIDE DEF budget, selected, content, limits, clipped, result, short
  <2> QED
    BY <2>1, <2>2, <2>3, <2>4, RenderedOne DEF budget
<1>4. CASE ~short
  <2>1. budget \in Nat \ {0} /\ budget + Head(parts) + Marker + 2 = max
    BY <1>1, <1>4, SMTT(30)
  <2>2. Tail(parts) # <<>> /\ Lengths(Tail(parts))
    <3> HIDE DEF budget, selected, content, limits, clipped, result
    <3>1. Len(parts) # 1
      BY <1>4
    <3>2. Len(Tail(parts)) # 0
      BY <1>1, <3>1
    <3> QED
      BY <1>1, <3>2, EmptySeq DEF Lengths
  <2> DEFINE middle == Clipped(Tail(parts), budget)
  <2>3. NonZero(clipped) = middle
    <3>1. Len(selected) \in 1..budget
      <4> HIDE DEF budget
      <4> QED
        BY <2>1, <2>2, SelectionFits DEF Lengths
    <3> HIDE DEF selected, budget
    <3>2. content = budget - Len(selected) + 1 /\ content > 0
      <4> DEFINE n == Len(selected)
      <4>1. content = budget - (IF n > 1 THEN n - 1 ELSE 0) /\ n \in 1..budget
        BY <3>1
      <4> HIDE DEF n, content
      <4>2. content = budget - n + 1 /\ content > 0
        BY <2>1, <4>1
      <4> QED
        BY <4>2 DEF n
    <3>3. (IF content > 0 THEN content ELSE 0) = budget - Len(selected) + 1
      BY <3>2
    <3>4. limits = FairPartLimits(selected, budget - Len(selected) + 1)
      <4> HIDE DEF content
      <4> QED
        BY <3>3
    <3> QED
      BY <3>4, Zenon DEF Clipped, selected
  <2> HIDE DEF budget, selected, content, limits, clipped, short
  <2>4. /\ middle \in Seq(Nat \ {0}) /\ Len(middle) \in Nat /\ SumSeq(middle) \in Nat
        /\ SumSeq(middle) + Len(middle) <= budget + 1
    BY <2>1, <2>2, ClippedFits
  <2> HIDE DEF middle
  <2>5. /\ Lengths(result) /\ result # <<>>
        /\ Head(result) = Head(parts) /\ Last(result) = Marker
        /\ Rendered(result) = Head(parts) + SumSeq(middle) + Marker + Len(middle) + 1
    BY <1>1, <2>3, <2>4, AssembledFits
  <2> HIDE DEF result
  <2>6. Rendered(result) <= max
    <3> DEFINE a == Head(parts)
               b == SumSeq(middle)
               c == Len(middle)
    <3>1. /\ a \in Nat /\ b \in Nat /\ c \in Nat /\ Marker \in Nat /\ budget \in Nat
          /\ b + c <= budget + 1 /\ budget + a + Marker + 2 = max
          /\ Rendered(result) = a + b + Marker + c + 1
      BY <1>1, <2>1, <2>4, <2>5
    <3> HIDE DEF a, b, c
    <3> QED
      BY <3>1
  <2>7. Cut(parts, max) = result
    BY <1>2, <1>4, <2>6
  <2>8. Rendered(result) \in Nat \ {0}
    BY <2>5, RenderedSome
  <2> QED
    BY <2>5, <2>6, <2>7, <2>8
<1> QED
  BY <1>3, <1>4

\* What a model is sent has between one character and as many as it may.
LEMMA TruncationFits ==
  ASSUME NEW parts, Lengths(parts), parts # <<>>, NEW max \in Nat \ {0}
  PROVE  /\ Lengths(TruncateAnalysisParts(parts, max))
         /\ TruncateAnalysisParts(parts, max) # <<>>
         /\ Rendered(TruncateAnalysisParts(parts, max)) \in 1..max
         /\ TruncateAnalysisContent(parts, max) = TruncateAnalysisParts(parts, max)
<1>1. Rendered(parts) \in Nat \ {0}
  BY RenderedSome
<1>2. /\ Lengths(Cut(parts, max)) /\ Cut(parts, max) # <<>>
      /\ Rendered(Cut(parts, max)) \in 1..max
  BY CutFits
<1> QED
  BY <1>1, <1>2 DEF TruncateAnalysisParts, TruncateAnalysisContent

-----------------------------------------------------------------------------
(* The blocks of a board *)

\* The texts of a block.
LEMMA BlocksFields ==
  ASSUME NEW b \in Block
  PROVE  /\ b.kind \in MediaKinds \cup {"text"} /\ b.text \in Text \cup {NoText}
         /\ b.alt \in Text \cup {NoText}
         /\ FirstText(b.text, b.alt) \in Text \cup {NoText}
         /\ FirstText(b.text, b.alt) = NoText => b.text = NoText /\ b.alt = NoText
  BY DEF Block, FirstText

\* Normalised contents are blocks.
LEMMA NormalizedTyped ==
  ASSUME NEW contents \in Seq(Block)
  PROVE  NormalizeContents(contents) \in Seq(Block)
<1> DEFINE normal == [i \in DOMAIN contents |-> NormalizeBlock(contents[i])]
           kept == {i \in DOMAIN normal : ~Empty(normal[i])}
<1>1. ASSUME NEW b \in Block PROVE NormalizeBlock(b) \in Block
  <2>1. FirstText(b.text, b.alt) \in Text \cup {NoText}
    BY BlocksFields
  <2>2. TextBlock(FirstText(b.text, b.alt)) \in Block
    BY <2>1 DEF TextBlock, Block
  <2> QED
    BY <2>2 DEF NormalizeBlock
<1>2. normal \in Seq(Block)
  <2>1. DOMAIN contents = 1..Len(contents) /\ Len(contents) \in Nat
        /\ \A i \in 1..Len(contents) : contents[i] \in Block
    OBVIOUS
  <2>2. \A i \in 1..Len(contents) : NormalizeBlock(contents[i]) \in Block
    BY <1>1, <2>1
  <2> QED
    BY <2>1, <2>2
<1>3. NormalizeContents(contents) = Pick(normal, kept)
  BY DEF NormalizeContents
<1> HIDE DEF normal, kept
<1>4. \A i \in 1..Len(normal) : i \in kept => normal[i] \in Block
  BY <1>2
<1> QED
  BY <1>2, <1>3, <1>4, PickTyped

\* What was read is joined to a text as another text.
LEMMA JoinedTyped ==
  ASSUME NEW t \in Text, NEW v \in Text
  PROVE  Joined(t, v) \in Text
<1>1. /\ t.signal \in Seq(Nat) /\ v.signal \in Seq(Nat)
      /\ t.len \in Nat \ {0} /\ v.len \in Nat \ {0}
      /\ t.chars \in Nat /\ v.chars \in Nat /\ t.letters \in Nat /\ v.letters \in Nat
      /\ v.ref \in {"no", "url", "path"}
  BY DEF Text
<1>2. t.signal \o v.signal \in Seq(Nat)
  BY <1>1
<1>3. t.len + 1 + v.len \in Nat \ {0} /\ t.chars + v.chars \in Nat /\ t.letters + v.letters \in Nat
  <2>1. \A a, b \in Nat : a + b \in Nat
    OBVIOUS
  <2>2. \A a, b \in Nat \ {0} : a + 1 + b \in Nat \ {0}
    OBVIOUS
  <2> QED
    BY <1>1, <2>1, <2>2, Zenon
<1> QED
  BY <1>1, <1>2, <1>3 DEF Joined, Text

\* A block with what was read on it is a block.
LEMMA EnrichedTyped ==
  ASSUME NEW s \in Seq(Block), NEW i, NEW v \in Text
  PROVE  [s EXCEPT ![i] = Enriched(@, v)] \in Seq(Block)
<1>1. ASSUME NEW b \in Block PROVE Enriched(b, v) \in Block
  <2>1. PICK t \in Text : Enriched(b, v) = [b EXCEPT !.text = t]
    <3>1. b.text # NoText => Joined(b.text, v) \in Text
      BY BlocksFields, JoinedTyped
    <3> QED
      BY <3>1 DEF Enriched
  <2> QED
    BY <2>1 DEF Block
<1>2. CASE i \in DOMAIN s
  <2>1. s[i] \in Block
    BY <1>2
  <2>2. Enriched(s[i], v) \in Block
    BY <1>1, <2>1
  <2> QED
    BY <1>2, <2>2
<1>3. CASE i \notin DOMAIN s
  <2> DEFINE r == [s EXCEPT ![i] = Enriched(@, v)]
  <2>1. r = [j \in DOMAIN s |-> r[j]] /\ s = [j \in DOMAIN s |-> s[j]]
    OBVIOUS
  <2>2. \A j \in DOMAIN s : r[j] = s[j]
    BY <1>3
  <2> HIDE DEF r
  <2>3. r = s
    BY <2>1, <2>2
  <2> QED
    BY <2>3 DEF r
<1> QED
  BY <1>2, <1>3

\* The text of every block that has one, preceded by the title.
LEMMA PartsTyped ==
  ASSUME NEW title \in Text \cup {NoText}, NEW s \in Seq(Block)
  PROVE  Lengths(LlmParts(title, s))
<1> DEFINE text(b) == FirstText(b.text, b.alt)
           length(b) == text(b).len + (IF b.kind \in MediaKinds THEN Tag ELSE 0)
           with == {i \in DOMAIN s : text(s[i]) # NoText}
           body == [i \in DOMAIN s |-> IF i \in with THEN length(s[i]) ELSE 0]
           front == IF title = NoText THEN <<>> ELSE <<title.len>>
<1>1. LlmParts(title, s) = front \o Pick(body, with)
  BY DEF LlmParts
<1>2. front \in Seq(Nat \ {0})
  <2>1. title # NoText => title.len \in Nat \ {0}
    BY DEF Text
  <2>2. \A n \in Nat \ {0} : <<n>> \in Seq(Nat \ {0})
    OBVIOUS
  <2>3. <<>> \in Seq(Nat \ {0})
    OBVIOUS
  <2> QED
    BY <2>1, <2>2, <2>3, Zenon
<1>3. \A i \in DOMAIN s : i \in with => length(s[i]) \in Nat \ {0}
  <2>1. Tag \in Nat
    BY InputAssumption
  <2> SUFFICES ASSUME NEW i \in DOMAIN s, i \in with PROVE length(s[i]) \in Nat \ {0}
    OBVIOUS
  <2>2. text(s[i]) \in Text
    <3>1. s[i] \in Block
      OBVIOUS
    <3> QED
      BY <3>1, BlocksFields
  <2>3. text(s[i]).len \in Nat \ {0}
    BY <2>2 DEF Text
  <2> HIDE DEF text
  <2> QED
    BY <2>1, <2>3
<1>4. Len(s) \in Nat /\ DOMAIN s = 1..Len(s)
  OBVIOUS
<1> HIDE DEF with, front, length
<1>5. body \in Seq(Nat) /\ Len(body) = Len(s)
      /\ \A i \in 1..Len(body) : i \in with => body[i] \in Nat \ {0}
  BY <1>3, <1>4
<1> HIDE DEF body
<1>6. Pick(body, with) \in Seq(Nat \ {0})
  BY <1>5, PickTyped
<1>7. front \o Pick(body, with) \in Seq(Nat \ {0})
  BY <1>2, <1>6
<1> QED
  BY <1>1, <1>7 DEF Lengths

\* No signals, no characters.
LEMMA NothingAddsUp == MapThenSumSet(LAMBDA x : x.chars, {}) = 0
  BY Zenon DEF MapThenSumSet, MapThenFoldSet

\* A body that suffices leaves something to send.
LEMMA SufficientIsSome ==
  ASSUME NEW title \in Text \cup {NoText}, NEW s \in Seq(Block), HasSufficientBody(s, title)
  PROVE  LlmParts(title, s) # <<>>
<1> DEFINE texts == {b.text : b \in ToSet(s)} \cup {b.alt : b \in ToSet(s)}
           text(b) == FirstText(b.text, b.alt)
           length(b) == text(b).len + (IF b.kind \in MediaKinds THEN Tag ELSE 0)
           with == {i \in DOMAIN s : text(s[i]) # NoText}
           body == [i \in DOMAIN s |-> IF i \in with THEN length(s[i]) ELSE 0]
           front == IF title = NoText THEN <<>> ELSE <<title.len>>
<1>1. BodySignals(s, title) # {}
  <2>1. SUFFICES ASSUME BodySignals(s, title) = {} PROVE FALSE
    OBVIOUS
  <2>2. MapThenSumSet(LAMBDA x : x.chars, BodySignals(s, title)) >= MinBody
    BY DEF HasSufficientBody
  <2>3. 0 >= MinBody
    BY <2>1, <2>2, NothingAddsUp
  <2> QED
    BY <2>3, InputAssumption
<1>2. texts \ {NoText} # {}
  <2> SUFFICES ASSUME texts \ {NoText} = {} PROVE BodySignals(s, title) = {}
    BY <1>1
  <2> QED
    BY Zenon DEF BodySignals
<1>3. PICK i \in DOMAIN s : s[i].text # NoText \/ s[i].alt # NoText
  BY <1>2 DEF ToSet
<1>4. i \in with
  <2>1. s[i] \in Block
    OBVIOUS
  <2> QED
    BY <1>3, <2>1, BlocksFields
<1>5. LlmParts(title, s) = front \o Pick(body, with)
  BY DEF LlmParts
<1> DEFINE T == Nat \cup {length(s[j]) : j \in DOMAIN s}
<1>7. front \in Seq(T)
  <2>1. title # NoText => title.len \in T
    BY DEF Text
  <2> HIDE DEF T
  <2>2. \A n \in T : <<n>> \in Seq(T)
    OBVIOUS
  <2>3. <<>> \in Seq(T)
    OBVIOUS
  <2> QED
    BY <2>1, <2>2, <2>3, Zenon
<1>8. Len(s) \in Nat /\ DOMAIN s = 1..Len(s)
  OBVIOUS
<1>9. \A j \in 1..Len(s) : body[j] \in T
  <2> HIDE DEF length, with
  <2> QED
    BY <1>8
<1> HIDE DEF with, front, length, T
<1>10. body \in Seq(T) /\ Len(body) = Len(s)
  BY <1>8, <1>9
<1> HIDE DEF body
<1>11. Pick(body, with) # <<>> /\ Pick(body, with) \in Seq(T)
  <2>1. Pick(body, with) # <<>>
    BY <1>4, <1>8, <1>10, PickSome
  <2>2. \A j \in 1..Len(body) : j \in with => body[j] \in T
    BY <1>10
  <2> QED
    BY <1>10, <2>1, <2>2, PickTyped
<1>12. /\ Len(front \o Pick(body, with)) = Len(front) + Len(Pick(body, with))
       /\ Len(front) \in Nat /\ Len(Pick(body, with)) \in Nat \ {0}
  BY <1>7, <1>11, EmptySeq, LenProperties
<1>13. Len(front \o Pick(body, with)) # 0
  BY <1>12
<1> QED
  BY <1>5, <1>13, EmptySeq

-----------------------------------------------------------------------------
(* Types of a request *)

Call ==
  [capability: {"none", "analysis", "vision"}, rest: Seq(Nat),
   tried: SUBSET Nat, refused: SUBSET Nat, full: BOOLEAN, left: Nat,
   status: Statuses, text: Readings \cup {NoText}, down: BOOLEAN]

\* Every candidate that is left has a unit of time left, and a model server that
\* has not answered has an endpoint left.
TimeInv ==
  /\ setup \in Setup
  /\ call \in Call
  /\ setup.via = "service" => Len(call.rest) <= call.left
  /\ setup.timeout > Deadline => call.status # "late"
  /\ pc \in {"vision", "analysis"} => call.capability = pc
  /\ setup.via = "direct" /\ call.capability # "none" /\ call.status = "none" =>
       call.rest # <<>>

-----------------------------------------------------------------------------
(* Time *)

\* The share of an attempt leaves every later candidate a unit of time.
LEMMA ShareFits ==
  ASSUME NEW l \in Nat, NEW n \in Nat \ {0}, n <= l
  PROVE  LET share == IF l \div n > 1 THEN l \div n ELSE 1
         IN  share \in 1..l /\ n - 1 <= l - share
<1>. DEFINE s == l \div n
<1>1. s \in Nat /\ n * s <= l /\ s >= 1
  <2>1. s \in Nat
    OBVIOUS
  <2>2. n * s <= l
    OBVIOUS
  <2>3. s >= 1
    OBVIOUS
  <2> QED
    BY <2>1, <2>2, <2>3
<1>. HIDE DEF s
<1>3. (n - 1) * (s - 1) >= 0
  <2>1. n - 1 \in Nat /\ s - 1 \in Nat
    BY <1>1
  <2>2. \A a, b \in Nat : a * b >= 0
    OBVIOUS
  <2> QED
    BY <2>1, <2>2
<1>4. (n - 1) * (s - 1) = n * s - n - s + 1
  BY <1>1
<1>5. n * s \in Nat
  BY <1>1
<1>6. n - 1 <= l - s /\ s <= l
  <2>1. n * s - n - s + 1 >= 0
    BY <1>3, <1>4
  <2> QED
    BY <1>1, <1>5, <2>1
<1>7. (IF s > 1 THEN s ELSE 1) = s
  BY <1>1
<1> QED
  BY <1>1, <1>6, <1>7 DEF s

LEMMA AttemptFits ==
  ASSUME TimeInv, setup.via = "service", call.rest # <<>>, NEW d \in 1..AttemptTimeout
  PROVE  call.left - d \in Nat /\ Len(Tail(call.rest)) <= call.left - d
<1>1. call.rest \in Seq(Nat) /\ call.left \in Nat /\ NodeTimeout \in Nat \ {0}
  BY PathAssumption DEF TimeInv, Call
<1>2. Len(call.rest) \in Nat \ {0} /\ Len(Tail(call.rest)) = Len(call.rest) - 1
  BY <1>1, EmptySeq, HeadTailProperties, LenProperties
<1>. DEFINE share == IF call.left \div Len(call.rest) > 1
                     THEN call.left \div Len(call.rest) ELSE 1
<1>3. share \in 1..call.left /\ Len(call.rest) - 1 <= call.left - share
  BY <1>1, <1>2, ShareFits DEF TimeInv
<1>4. AttemptTimeout = LeastOf(NodeTimeout, share)
  BY DEF AttemptTimeout
<1>. HIDE DEF share
<1>5. d \in Nat /\ d <= share
  BY <1>1, <1>3, <1>4 DEF LeastOf
<1>6. call.left - d \in Nat /\ call.left - share <= call.left - d
  BY <1>1, <1>3, <1>5
<1> QED
  BY <1>1, <1>2, <1>3, <1>5, <1>6

\* A request as it is sent.
LEMMA RequestTyped ==
  ASSUME setup \in Setup, NEW c \in {"analysis", "vision"}, NEW valid
  PROVE  /\ Admitted(c, valid) \in Call /\ Len(Admitted(c, valid).rest) <= Admitted(c, valid).left
         /\ Admitted(c, valid).status \in {"none", "401", "422", "503"}
         /\ Direct(c) \in Call /\ Direct(c).status = "none" /\ Direct(c).rest # <<>>
         /\ Admitted(c, valid).capability = c /\ Direct(c).capability = c
<1>. USE PathAssumption
<1>1. Candidates[c] \in Seq(Nat) /\ Len(Candidates[c]) <= Deadline /\ Deadline \in Nat
  OBVIOUS
<1>2. NoCall \in Call
  BY <1>1, EmptySeq DEF NoCall, Call, Statuses
<1>3. ASSUME NEW status \in {"none", "401", "422", "503"}
      PROVE  [NoCall EXCEPT !.capability = c, !.rest = Candidates[c],
                            !.status = status, !.down = (status = "503")] \in Call
  BY <1>1, <1>2, ZenonT(40) DEF Call, Statuses
<1>4. PICK status \in {"none", "401", "422", "503"} :
        Admitted(c, valid) =
          [NoCall EXCEPT !.capability = c, !.rest = Candidates[c],
                         !.status = status, !.down = (status = "503")]
  BY DEF Admitted
<1>5. /\ Admitted(c, valid).rest = Candidates[c] /\ Admitted(c, valid).left = Deadline
      /\ Admitted(c, valid).status = status /\ Admitted(c, valid).capability = c
  BY <1>4 DEF NoCall
<1>6. Endpoints \in Seq(Nat) /\ <<1>> \in Seq(Nat) /\ Endpoints # <<>> /\ <<1>> # <<>>
  OBVIOUS
<1>7. Direct(c) \in Call /\ Direct(c).status = "none" /\ Direct(c).rest # <<>>
      /\ Direct(c).capability = c
  BY <1>2, <1>6 DEF Direct, Call, NoCall
<1> QED
  BY <1>1, <1>3, <1>4, <1>5, <1>7, ZenonT(40)

LEMMA TimeInit == Init => TimeInv
<1> SUFFICES ASSUME Init PROVE TimeInv
  OBVIOUS
<1>1. setup \in Setup /\ call = NoCall /\ Deadline \in Nat
  BY PathAssumption DEF Init
<1>2. /\ NoCall \in Call /\ Len(NoCall.rest) = 0 /\ NoCall.left = Deadline
      /\ NoCall.status = "none" /\ NoCall.capability = "none"
  BY <1>1, EmptySeq DEF NoCall, Call, Statuses
<1> QED
  BY <1>1, <1>2 DEF TimeInv, Init

\* A step that only ends the request, or starts another one.
LEMMA ClientTime ==
  ASSUME TimeInv, Client
  PROVE  TimeInv'
<1>1. setup' = setup /\ setup \in Setup
  BY DEF TimeInv, Client, ReadImage, SkipImage, ReadImageFails, GiveUp, Analyze, ExtractImageText,
         ConnectionLost, ClientTimesOut, EnrichBlock, AnswerEndpoint, FinishAnalysis
<1>2. CASE call' = call /\ pc' \in {pc, "ended"}
  BY <1>1, <1>2 DEF TimeInv
<1>3. CASE call' = NoCall /\ pc' = "reading"
  <2>1. NoCall \in Call /\ Len(NoCall.rest) = 0 /\ NoCall.left = Deadline
        /\ NoCall.status = "none" /\ NoCall.capability = "none" /\ Deadline \in Nat
    BY PathAssumption, EmptySeq DEF NoCall, Call, Statuses
  <2> QED
    BY <1>1, <1>3, <2>1 DEF TimeInv
<1>4. ASSUME NEW c \in {"analysis", "vision"}, NEW valid, pc' = c,
             call' = IF setup.via = "service" THEN Admitted(c, valid) ELSE Direct(c)
      PROVE  TimeInv'
  BY <1>1, <1>4, RequestTyped DEF TimeInv
<1>5. ASSUME NEW bytes \in ImageBytes, SendImage(bytes), pc' = "vision" PROVE TimeInv'
  BY <1>4, <1>5 DEF SendImage
<1>6. ASSUME NEW status \in Statuses \ {"none"}, pc' = pc,
             status = "late" => setup.timeout <= Deadline,
             call' = [call EXCEPT !.status = status, !.down = TRUE]
      PROVE  TimeInv'
  <2>1. /\ call' \in Call /\ call'.rest = call.rest /\ call'.left = call.left
        /\ call'.status = status /\ call'.capability = call.capability
    BY <1>6 DEF TimeInv, Call
  <2>2. setup.timeout \in Nat /\ Deadline \in Nat
    BY <1>1, PathAssumption DEF Setup
  <2> QED
    BY <1>1, <1>6, <2>1, <2>2 DEF TimeInv
<1>7. CASE ConnectionLost
  BY <1>6, <1>7 DEF ConnectionLost, Statuses
<1>8. CASE ClientTimesOut
  <2>1. setup.timeout \in Nat /\ Deadline \in Nat /\ call.left \in Nat
    BY PathAssumption DEF TimeInv, Call, Setup
  <2>2. Deadline - call.left >= setup.timeout
    BY <1>8 DEF ClientTimesOut, Elapsed
  <2>3. setup.timeout <= Deadline
    BY <2>1, <2>2
  <2> QED
    BY <1>6, <1>8, <2>3 DEF ClientTimesOut, Statuses
<1>9. CASE ReadImage
  BY <1>5, <1>9 DEF ReadImage
<1>10. CASE ExtractImageText
  BY <1>2, <1>5, <1>10 DEF ExtractImageText, End
<1>11. CASE Analyze
  BY <1>4, <1>11 DEF Analyze
<1>12. CASE SkipImage \/ ReadImageFails \/ GiveUp \/ AnswerEndpoint \/ FinishAnalysis
  BY <1>2, <1>12 DEF SkipImage, ReadImageFails, GiveUp, AnswerEndpoint, FinishAnalysis, End
<1>13. CASE EnrichBlock
  BY <1>3, <1>13 DEF EnrichBlock
<1> QED
  BY <1>7, <1>8, <1>9, <1>10, <1>11, <1>12, <1>13 DEF Client

\* What an attempt at the first candidate leaves, however it ends.
LEMMA AttemptLeaves ==
  ASSUME TimeInv, NEW next \in Call, Attempt(next)
  PROVE  /\ setup' = setup /\ setup.via = "service" /\ pc' = pc
         /\ \E d \in 1..AttemptTimeout :
              call' = [next EXCEPT !.left = @ - d, !.tried = @ \cup {Head(call.rest)},
                                   !.rest = Tail(@)]
         /\ call.rest # <<>> /\ Len(call.rest) \in Nat \ {0} /\ Head(call.rest) \in Nat
<1>1. call.rest # <<>> /\ call.rest \in Seq(Nat)
  BY DEF Attempt, TimeInv, Call
<1>2. Len(call.rest) \in Nat \ {0} /\ Head(call.rest) \in Nat
  BY <1>1, EmptySeq, HeadTailProperties, LenProperties
<1>3. \E d \in 1..AttemptTimeout :
        call' = [next EXCEPT !.left = @ - d, !.tried = @ \cup {Head(call.rest)},
                             !.rest = Tail(@)]
  BY Zenon DEF Attempt
<1> QED
  BY <1>1, <1>2, <1>3 DEF Attempt, InService

LEMMA AttemptTime ==
  ASSUME TimeInv, NEW next \in Call, Attempt(next),
         next.left = call.left, next.rest = call.rest, next.status # "late",
         next.capability = call.capability
  PROVE  TimeInv'
<1>1. PICK d \in 1..AttemptTimeout :
        call' = [next EXCEPT !.left = @ - d, !.tried = @ \cup {Head(call.rest)},
                             !.rest = Tail(@)]
  BY AttemptLeaves
<1>2. /\ setup' = setup /\ setup \in Setup /\ setup.via = "service" /\ pc' = pc
      /\ call.rest # <<>> /\ Head(call.rest) \in Nat /\ call.rest \in Seq(Nat)
  BY AttemptLeaves DEF TimeInv, Call
<1>3. call.left - d \in Nat /\ Len(Tail(call.rest)) <= call.left - d
  BY <1>2, AttemptFits
<1>4. Tail(call.rest) \in Seq(Nat)
  BY <1>2, HeadTailProperties
<1>5. call' \in Call
  BY <1>1, <1>2, <1>3, <1>4 DEF Call
<1>6. /\ call'.left = call.left - d /\ call'.rest = Tail(call.rest)
      /\ call'.status = next.status /\ call'.capability = call.capability
  BY <1>1 DEF Call
<1> QED
  BY <1>2, <1>3, <1>5, <1>6 DEF TimeInv

LEMMA ServiceTime ==
  ASSUME TimeInv, Service
  PROVE  TimeInv'
<1>1. call \in Call /\ call.status = "none" /\ setup.via = "service"
  BY DEF TimeInv, Service, SkipSaturated, NodeAnswers, NodeRefuses, NodeFails, Attempt,
         Conclude, InService, Waiting
<1>2. CASE SkipSaturated
  <2>1. call.rest \in Seq(Nat) /\ call.rest # <<>> /\ call.left \in Nat
    BY <1>1, <1>2 DEF SkipSaturated, Call
  <2>2. /\ Tail(call.rest) \in Seq(Nat) /\ Len(Tail(call.rest)) = Len(call.rest) - 1
        /\ Len(call.rest) \in Nat
    BY <2>1, EmptySeq, HeadTailProperties, LenProperties
  <2>3. call' = [call EXCEPT !.rest = Tail(call.rest), !.full = TRUE, !.down = TRUE]
    BY <1>2 DEF SkipSaturated
  <2>4. call' \in Call /\ call'.left = call.left /\ call'.rest = Tail(call.rest)
        /\ call'.status = "none" /\ call'.capability = call.capability
    BY <1>1, <2>2, <2>3 DEF Call
  <2>5. setup' = setup /\ pc' = pc /\ setup \in Setup /\ Len(call.rest) <= call.left
    BY <1>1, <1>2 DEF SkipSaturated, TimeInv
  <2>6. Len(call'.rest) <= call'.left
    BY <2>1, <2>2, <2>4, <2>5
  <2> QED
    BY <1>1, <2>4, <2>5, <2>6 DEF TimeInv
<1>3. CASE NodeAnswers
  <2>1. PICK v \in Readings \cup {NoText} :
          Attempt([call EXCEPT !.status = "200", !.text = v])
    BY <1>3 DEF NodeAnswers
  <2>. DEFINE next == [call EXCEPT !.status = "200", !.text = v]
  <2>2. next \in Call /\ next.left = call.left /\ next.rest = call.rest /\ next.status = "200"
        /\ next.capability = call.capability
    BY <1>1 DEF Call, Statuses
  <2>. HIDE DEF next
  <2> QED
    BY <2>1, <2>2, AttemptTime DEF next
<1>4. CASE NodeRefuses
  <2>. DEFINE next == [call EXCEPT !.refused = @ \cup {Head(call.rest)}]
  <2>1. Attempt(next)
    BY <1>4 DEF NodeRefuses
  <2>2. Head(call.rest) \in Nat
    <3>1. call.rest \in Seq(Nat) /\ call.rest # <<>>
      BY <1>1, <1>4 DEF NodeRefuses, Call
    <3> QED
      BY <3>1, HeadTailProperties
  <2>3. next \in Call /\ next.left = call.left /\ next.rest = call.rest
        /\ next.status = "none" /\ next.capability = call.capability
    BY <1>1, <2>2 DEF Call
  <2>. HIDE DEF next
  <2> QED
    BY <2>1, <2>3, AttemptTime
<1>5. CASE NodeFails
  <2>. DEFINE next == [call EXCEPT !.down = TRUE]
  <2>1. Attempt(next)
    BY <1>5 DEF NodeFails
  <2>2. next \in Call /\ next.left = call.left /\ next.rest = call.rest
        /\ next.status = "none" /\ next.capability = call.capability
    BY <1>1 DEF Call
  <2>. HIDE DEF next
  <2> QED
    BY <2>1, <2>2, AttemptTime
<1>6. CASE Conclude
  <2>1. Verdict \in {"422", "502", "503"}
    BY DEF Verdict
  <2>2. call' = [call EXCEPT !.status = Verdict] /\ setup' = setup /\ pc' = pc
    BY <1>6 DEF Conclude
  <2>3. call' \in Call /\ call'.left = call.left /\ call'.rest = call.rest
        /\ call'.status = Verdict /\ call'.capability = call.capability
    BY <1>1, <2>1, <2>2 DEF Call, Statuses
  <2> QED
    BY <2>1, <2>2, <2>3 DEF TimeInv
<1> QED
  BY <1>2, <1>3, <1>4, <1>5, <1>6 DEF Service

LEMMA DirectTime ==
  ASSUME TimeInv, EndpointFails \/ EndpointAnswers
  PROVE  TimeInv'
<1>1. /\ call \in Call /\ call.rest \in Seq(Nat) /\ call.status = "none"
      /\ setup' = setup /\ setup \in Setup /\ pc' = pc /\ setup.via = "direct"
      /\ call.capability \in {"vision", "analysis"}
  BY DEF TimeInv, Call, EndpointFails, EndpointAnswers, InDirect, Waiting
<1>2. call.rest # <<>>
  BY <1>1 DEF TimeInv
<1>3. /\ Tail(call.rest) \in Seq(Nat) /\ Len(call.rest) \in Nat
      /\ Len(Tail(call.rest)) = Len(call.rest) - 1
  BY <1>1, <1>2, HeadTailProperties, LenProperties
<1>4. CASE EndpointFails
  <2>1. call' = [call EXCEPT !.rest = Tail(call.rest),
                             !.status = IF Len(call.rest) = 1 THEN "lost" ELSE "none",
                             !.down = TRUE]
    BY <1>4 DEF EndpointFails
  <2>2. /\ call' \in Call /\ call'.rest = Tail(call.rest)
        /\ call'.status = (IF Len(call.rest) = 1 THEN "lost" ELSE "none")
        /\ call'.capability = call.capability
    BY <1>1, <1>3, <2>1 DEF Call, Statuses
  <2>3. call'.status = "none" => call'.rest # <<>>
    <3>1. SUFFICES ASSUME Tail(call.rest) = <<>> PROVE Len(call.rest) = 1
      BY <2>2
    <3>2. Len(Tail(call.rest)) = 0
      BY <3>1, EmptySeq
    <3> QED
      BY <1>3, <3>2
  <2> QED
    BY <1>1, <2>2, <2>3 DEF TimeInv
<1>5. CASE EndpointAnswers
  <2>1. PICK status \in {"200", "garbled", "415"}, v \in Readings \cup {NoText} :
          call' = [call EXCEPT !.status = status, !.text = v]
    <3>1. CASE \E v \in IF call.capability = "vision" THEN Readings ELSE {NoText} :
                 call' = [call EXCEPT !.status = "200", !.text = v]
      BY <3>1
    <3>2. ASSUME NEW status \in {"garbled", "415"}, call' = [call EXCEPT !.status = status]
          PROVE  call.text \in Readings \cup {NoText}
                 /\ call' = [call EXCEPT !.status = status, !.text = call.text]
      BY <1>1, <3>2 DEF Call
    <3> QED
      BY <1>5, <3>1, <3>2 DEF EndpointAnswers
  <2>2. /\ call' \in Call /\ call'.status = status /\ call'.capability = call.capability
    BY <1>1, <2>1 DEF Call, Statuses
  <2> QED
    BY <1>1, <2>2 DEF TimeInv
<1> QED
  BY <1>4, <1>5

LEMMA TimeNext == TimeInv /\ [Next]_vars => TimeInv'
<1> SUFFICES ASSUME TimeInv, [Next]_vars PROVE TimeInv'
  OBVIOUS
<1>1. CASE UNCHANGED vars
  BY <1>1 DEF vars, TimeInv
<1>2. CASE ClaimAgain
  <2>1. setup' = setup /\ pc' = "reading" /\ call' = NoCall
    BY <1>2 DEF ClaimAgain
  <2>2. NoCall \in Call /\ Len(NoCall.rest) = 0 /\ NoCall.left = Deadline
        /\ NoCall.status = "none" /\ NoCall.capability = "none" /\ Deadline \in Nat
    BY PathAssumption, EmptySeq DEF NoCall, Call, Statuses
  <2> QED
    BY <2>1, <2>2 DEF TimeInv
<1> QED
  BY <1>1, <1>2, ClientTime, ServiceTime, DirectTime DEF Next, Rest

\* A request to gpt-service has a unit of time left for every candidate not yet
\* reached, however long the earlier ones took: none is left over at the deadline.
THEOREM EveryCandidateIsReached == Spec => []EveryNodeGetsATurn
<1>1. TimeInv => EveryNodeGetsATurn
  <2> SUFFICES ASSUME TimeInv, setup.via = "service", call.left <= 0 PROVE call.rest = <<>>
    BY DEF EveryNodeGetsATurn
  <2>1. call.rest \in Seq(Nat) /\ call.left \in Nat /\ Len(call.rest) <= call.left
    BY DEF TimeInv, Call
  <2>2. Len(call.rest) = 0
    BY <2>1, LenProperties
  <2> QED
    BY <2>1, <2>2, EmptySeq
<1> QED
  BY <1>1, TimeInit, TimeNext, PTL DEF Spec

\* A client whose timeout is longer than the deadline is never the first to give up.
THEOREM AnswersArriveInTime == Spec => []AnswersInTime
<1>1. TimeInv => AnswersInTime
  BY DEF TimeInv, AnswersInTime
<1> QED
  BY <1>1, TimeInit, TimeNext, PTL DEF Spec

-----------------------------------------------------------------------------
(* Blame: the candidates of a request *)

\* Of the candidates c of a request some were tried, some of these refused it, the
\* others are left.  Where nothing is down the tried ones refused; otherwise some
\* candidate was passed that did not.
Accounted(c, tried, refused, rest, down) ==
  /\ IsInjective(rest)
  /\ refused \subseteq tried
  /\ tried \cap ToSet(rest) = {}
  /\ tried \cup ToSet(rest) \subseteq ToSet(c)
  /\ ~down => tried = refused /\ ToSet(c) \subseteq tried \cup ToSet(rest)
  /\ down => \E n \in ToSet(c) : n \notin refused \cup ToSet(rest)

LEMMA TailSet ==
  ASSUME NEW s \in Seq(Nat), s # <<>>, IsInjective(s)
  PROVE  /\ IsInjective(Tail(s))
         /\ Head(s) \notin ToSet(Tail(s))
         /\ ToSet(s) = {Head(s)} \cup ToSet(Tail(s))
<1>1. /\ Len(s) \in Nat \ {0} /\ DOMAIN s = 1..Len(s)
      /\ Tail(s) \in Seq(Nat) /\ Len(Tail(s)) = Len(s) - 1
      /\ DOMAIN Tail(s) = 1..(Len(s) - 1)
      /\ \A i \in 1..(Len(s) - 1) : Tail(s)[i] = s[i + 1]
      /\ Head(s) = s[1]
  <2>1. Len(s) \in Nat \ {0}
    BY EmptySeq, LenProperties
  <2>2. /\ Tail(s) \in Seq(Nat) /\ Len(Tail(s)) = Len(s) - 1
        /\ \A i \in 1..Len(Tail(s)) : Tail(s)[i] = s[i + 1]
        /\ Head(s) = s[1]
    BY HeadTailProperties
  <2> QED
    BY <2>1, <2>2, LenProperties
<1>2. \A i, j \in 1..Len(s) : s[i] = s[j] => i = j
  BY <1>1 DEF IsInjective
<1>3. IsInjective(Tail(s))
  BY <1>1, <1>2, SMTT(30) DEF IsInjective
<1>4. Head(s) \notin ToSet(Tail(s))
  BY <1>1, <1>2 DEF ToSet
<1>5. ToSet(s) = {Head(s)} \cup ToSet(Tail(s))
  <2>1. ASSUME NEW i \in 1..Len(s), i # 1
        PROVE  i - 1 \in 1..(Len(s) - 1) /\ s[i] = Tail(s)[i - 1]
    <3>1. i - 1 \in 1..(Len(s) - 1) /\ (i - 1) + 1 = i
      BY <1>1, <2>1
    <3> QED
      BY <1>1, <3>1
  <2>2. ASSUME NEW x \in ToSet(s) PROVE x \in {Head(s)} \cup ToSet(Tail(s))
    <3>1. PICK i \in 1..Len(s) : x = s[i]
      BY <1>1 DEF ToSet
    <3>2. CASE i = 1
      BY <1>1, <3>1, <3>2
    <3>3. CASE i # 1
      BY <1>1, <2>1, <3>1, <3>3 DEF ToSet
    <3> QED
      BY <3>2, <3>3
  <2>3. Head(s) \in ToSet(s)
    BY <1>1 DEF ToSet
  <2>4. ASSUME NEW x \in ToSet(Tail(s)) PROVE x \in ToSet(s)
    <3>1. PICK i \in 1..(Len(s) - 1) : x = Tail(s)[i]
      BY <1>1 DEF ToSet
    <3>2. i + 1 \in 1..Len(s) /\ x = s[i + 1]
      BY <1>1, <3>1
    <3> QED
      BY <1>1, <3>2 DEF ToSet
  <2> QED
    BY <2>2, <2>3, <2>4
<1> QED
  BY <1>3, <1>4, <1>5

LEMMA Passed ==
  ASSUME NEW c, NEW tried, NEW refused, NEW rest \in Seq(Nat), rest # <<>>,
         NEW down \in BOOLEAN,
         Accounted(c, tried, refused, rest, down)
  PROVE  /\ Accounted(c, tried, refused, Tail(rest), TRUE)
         /\ Accounted(c, tried \cup {Head(rest)}, refused, Tail(rest), TRUE)
         /\ Accounted(c, tried \cup {Head(rest)}, refused \cup {Head(rest)}, Tail(rest), down)
<1>1. /\ IsInjective(Tail(rest))
      /\ Head(rest) \notin ToSet(Tail(rest))
      /\ ToSet(rest) = {Head(rest)} \cup ToSet(Tail(rest))
  BY TailSet DEF Accounted
<1>2. Head(rest) \in ToSet(c) /\ Head(rest) \notin tried /\ Head(rest) \notin refused
  BY <1>1 DEF Accounted
<1> QED
  BY <1>1, <1>2 DEF Accounted

\* The verdict on a request whose candidates are used up.
LEMMA VerdictIsFair ==
  ASSUME NEW c, ToSet(c) # {}, c = Candidates[call.capability],
         Accounted(c, call.tried, call.refused, <<>>, call.down)
  PROVE  /\ Verdict \in {"422", "502", "503"}
         /\ Verdict = "422" <=> ~call.down
<1>1. ToSet(<<>>) = {}
  BY DEF ToSet
<1>2. ~call.down => call.tried = call.refused /\ call.tried = ToSet(c)
  BY <1>1 DEF Accounted
<1>3. call.down => \E n \in ToSet(c) : n \notin call.refused
  BY DEF Accounted
<1>4. Verdict = "422" <=>
        call.tried # {} /\ call.refused = call.tried /\ call.tried = ToSet(c)
  BY DEF Verdict
<1>5. Verdict \in {"422", "502", "503"}
  BY DEF Verdict
<1> QED
  BY <1>2, <1>3, <1>4, <1>5

-----------------------------------------------------------------------------
(* Blame: the answer *)

\* An answer tells whether the infrastructure failed; before it, the candidates are
\* accounted for.
RequestBlame ==
  /\ Retryable(call.status) => call.down
  /\ call.status \in {"401", "415", "422"} => ~call.down
  /\ call.status = "garbled" => call.capability = "analysis"
  /\ setup.via = "service" /\ call.capability # "none" /\ call.status = "none" =>
       /\ ToSet(Candidates[call.capability]) # {}
       /\ Accounted(Candidates[call.capability], call.tried, call.refused, call.rest,
                    call.down)
  /\ setup.via = "direct" /\ call.capability = "vision" /\ call.status = "none" =>
       ~call.down /\ Len(call.rest) = 1

Counts == [attempted: Nat, transient: Nat, permanent: Nat]

\* The failures counted as transient are those of the infrastructure.
OutcomeInv ==
  /\ vision \in Counts
  /\ outage \subseteq Causes
  /\ vision.transient > 0 <=> "failed" \in outage
  /\ pc # "ended" => outcome = "none"
  /\ BlameIsRight

BlameInv == TimeInv /\ RequestBlame /\ OutcomeInv

LEMMA SentBlame ==
  ASSUME setup \in Setup, setup' = setup, NEW c \in {"analysis", "vision"}, NEW valid,
         call' = IF setup.via = "service" THEN Admitted(c, valid) ELSE Direct(c)
  PROVE  RequestBlame'
<1>. USE PathAssumption
<1>1. Candidates[c] \in Seq(Nat) /\ IsInjective(Candidates[c])
  OBVIOUS
<1>2. CASE setup.via = "service"
  <2>1. /\ call'.status = IF setup.token = "unset" THEN "503"
                          ELSE IF setup.token = "wrong" THEN "401"
                          ELSE IF ~valid THEN "422"
                          ELSE IF Candidates[c] = <<>> THEN "503" ELSE "none"
        /\ call'.down = (call'.status = "503")
        /\ call'.capability = c /\ call'.rest = Candidates[c]
        /\ call'.tried = {} /\ call'.refused = {}
    BY <1>2 DEF Admitted, NoCall
  <2>2. CASE call'.status = "none"
    <3>1. Candidates[c] # <<>> /\ call'.down = FALSE
      BY <2>1, <2>2
    <3>2. ToSet(Candidates[c]) # {}
      <4>1. 1 \in DOMAIN Candidates[c]
        BY <1>1, <3>1, EmptySeq, LenProperties
      <4>2. Candidates[c][1] \in ToSet(Candidates[c])
        BY <4>1 DEF ToSet
      <4> QED
        BY <4>2
    <3>3. Accounted(Candidates[c], {}, {}, Candidates[c], FALSE)
      BY <1>1 DEF Accounted
    <3> QED
      BY <1>2, <2>1, <2>2, <3>1, <3>2, <3>3 DEF RequestBlame, Retryable
  <2>3. CASE call'.status # "none"
    BY <1>2, <2>1, <2>3 DEF RequestBlame, Retryable
  <2> QED
    BY <2>2, <2>3
<1>3. CASE setup.via # "service"
  <2>1. /\ call'.status = "none" /\ call'.down = FALSE /\ call'.capability = c
        /\ c = "vision" => call'.rest = <<1>>
    BY <1>3 DEF Direct, NoCall
  <2>2. Len(<<1>>) = 1
    OBVIOUS
  <2> QED
    BY <1>3, <2>1, <2>2 DEF RequestBlame, Retryable
<1> QED
  BY <1>2, <1>3

LEMMA ClientBlame ==
  ASSUME BlameInv, Client
  PROVE  RequestBlame'
<1>1. setup' = setup /\ setup \in Setup /\ RequestBlame
  BY DEF BlameInv, TimeInv, Client, ReadImage, SkipImage, ReadImageFails, GiveUp, Analyze,
         ExtractImageText, ConnectionLost, ClientTimesOut, EnrichBlock, AnswerEndpoint,
         FinishAnalysis
<1>2. CASE call' = call
  BY <1>1, <1>2 DEF RequestBlame
<1>3. CASE call' = NoCall
  BY <1>3 DEF RequestBlame, Retryable, NoCall
<1>4. ASSUME NEW bytes, SendImage(bytes) PROVE RequestBlame'
  BY <1>1, <1>4, SentBlame DEF SendImage
<1>5. ASSUME NEW status \in {"lost", "late"},
             call' = [call EXCEPT !.status = status, !.down = TRUE]
      PROVE  RequestBlame'
  <2>1. call'.status = status /\ call'.down = TRUE
    BY <1>5 DEF BlameInv, TimeInv, Call
  <2> QED
    BY <2>1 DEF RequestBlame
<1>6. CASE ConnectionLost \/ ClientTimesOut
  BY <1>5, <1>6 DEF ConnectionLost, ClientTimesOut
<1>7. CASE ReadImage \/ ExtractImageText
  BY <1>2, <1>4, <1>7 DEF ReadImage, ExtractImageText
<1>8. CASE Analyze
  BY <1>1, <1>8, SentBlame DEF Analyze
<1>9. CASE SkipImage \/ ReadImageFails \/ GiveUp \/ AnswerEndpoint \/ FinishAnalysis \/ EnrichBlock
  BY <1>2, <1>3, <1>9 DEF SkipImage, ReadImageFails, GiveUp, AnswerEndpoint, FinishAnalysis, EnrichBlock
<1> QED
  BY <1>6, <1>7, <1>8, <1>9 DEF Client

LEMMA ServiceBlame ==
  ASSUME BlameInv, Service
  PROVE  RequestBlame'
<1>0. PICK c : c = Candidates[call.capability]
  OBVIOUS
<1>1. /\ call \in Call /\ call.status = "none" /\ setup.via = "service" /\ setup' = setup
      /\ call.capability \in {"analysis", "vision"}
  BY DEF BlameInv, TimeInv, Service, SkipSaturated, NodeAnswers, NodeRefuses, NodeFails,
         Attempt, Conclude, InService, Waiting
<1>2. /\ ToSet(c) # {} /\ Accounted(c, call.tried, call.refused, call.rest, call.down)
      /\ call.rest \in Seq(Nat) /\ call.down \in BOOLEAN
  BY <1>0, <1>1 DEF BlameInv, RequestBlame, Call
<1>3. ASSUME call'.status = "none", call'.capability = call.capability,
             Accounted(c, call'.tried, call'.refused, call'.rest, call'.down)
      PROVE  RequestBlame'
  BY <1>0, <1>1, <1>2, <1>3 DEF RequestBlame, Retryable
<1>4. CASE SkipSaturated
  <2>1. call' = [call EXCEPT !.rest = Tail(@), !.full = TRUE, !.down = TRUE]
        /\ call.rest # <<>>
    BY <1>4 DEF SkipSaturated
  <2>2. /\ call'.status = "none" /\ call'.capability = call.capability
        /\ call'.tried = call.tried /\ call'.refused = call.refused
        /\ call'.rest = Tail(call.rest) /\ call'.down = TRUE
    BY <1>1, <2>1 DEF Call
  <2>3. Accounted(c, call.tried, call.refused, Tail(call.rest), TRUE)
    BY <1>2, <2>1, Passed
  <2>4. Accounted(c, call'.tried, call'.refused, call'.rest, call'.down)
    BY <2>2, <2>3
  <2> QED
    BY <1>3, <2>2, <2>4
<1>5. ASSUME NEW next \in Call, Attempt(next), next.rest = call.rest,
             next.tried = call.tried
      PROVE  /\ call.rest # <<>>
             /\ call'.status = next.status /\ call'.capability = next.capability
             /\ call'.refused = next.refused /\ call'.down = next.down
             /\ call'.tried = call.tried \cup {Head(call.rest)}
             /\ call'.rest = Tail(call.rest)
  <2>1. PICK d \in 1..AttemptTimeout :
          call' = [next EXCEPT !.left = @ - d, !.tried = @ \cup {Head(call.rest)},
                               !.rest = Tail(@)]
    BY <1>5, AttemptLeaves DEF BlameInv
  <2> QED
    BY <1>5, <2>1, AttemptLeaves DEF BlameInv, Call
<1>6. CASE NodeAnswers
  <2>1. PICK v \in Readings \cup {NoText} :
          Attempt([call EXCEPT !.status = "200", !.text = v])
    BY <1>6 DEF NodeAnswers
  <2>. DEFINE next == [call EXCEPT !.status = "200", !.text = v]
  <2>2. next \in Call /\ next.rest = call.rest /\ next.tried = call.tried
        /\ next.status = "200"
    BY <1>1 DEF Call, Statuses
  <2>. HIDE DEF next
  <2>3. call'.status = "200"
    BY <1>5, <2>1, <2>2 DEF next
  <2> QED
    BY <2>3 DEF RequestBlame, Retryable
<1>7. CASE NodeRefuses
  <2>. DEFINE next == [call EXCEPT !.refused = @ \cup {Head(call.rest)}]
  <2>1. Attempt(next) /\ call.rest # <<>>
    BY <1>7 DEF NodeRefuses
  <2>2. Head(call.rest) \in Nat
    BY <1>2, <2>1, HeadTailProperties
  <2>3. /\ next \in Call /\ next.rest = call.rest /\ next.tried = call.tried
        /\ next.status = "none" /\ next.capability = call.capability
        /\ next.refused = call.refused \cup {Head(call.rest)} /\ next.down = call.down
    BY <1>1, <2>2 DEF Call
  <2>. HIDE DEF next
  <2>4. /\ call'.status = "none" /\ call'.capability = call.capability
        /\ call'.refused = call.refused \cup {Head(call.rest)} /\ call'.down = call.down
        /\ call'.tried = call.tried \cup {Head(call.rest)}
        /\ call'.rest = Tail(call.rest)
    BY <1>5, <2>1, <2>3
  <2>5. Accounted(c, call.tried \cup {Head(call.rest)},
                  call.refused \cup {Head(call.rest)}, Tail(call.rest), call.down)
    <3>1. /\ Accounted(c, call.tried, call.refused, call.rest, call.down)
          /\ call.rest \in Seq(Nat) /\ call.rest # <<>> /\ call.down \in BOOLEAN
      BY <1>2, <2>1
    <3>2. CASE call.down = TRUE
      <4>1. Accounted(c, call.tried, call.refused, call.rest, TRUE)
        BY <3>1, <3>2
      <4>2. Accounted(c, call.tried \cup {Head(call.rest)},
                      call.refused \cup {Head(call.rest)}, Tail(call.rest), TRUE)
        BY <3>1, <4>1, Passed
      <4> QED
        BY <3>2, <4>2
    <3>3. CASE call.down = FALSE
      <4>1. Accounted(c, call.tried, call.refused, call.rest, FALSE)
        BY <3>1, <3>3
      <4>2. Accounted(c, call.tried \cup {Head(call.rest)},
                      call.refused \cup {Head(call.rest)}, Tail(call.rest), FALSE)
        BY <3>1, <4>1, Passed
      <4> QED
        BY <3>3, <4>2
    <3> QED
      BY <3>1, <3>2, <3>3
  <2>6. Accounted(c, call'.tried, call'.refused, call'.rest, call'.down)
    BY <2>4, <2>5
  <2> QED
    BY <1>3, <2>4, <2>6
<1>8. CASE NodeFails
  <2>. DEFINE next == [call EXCEPT !.down = TRUE]
  <2>1. Attempt(next)
    BY <1>8 DEF NodeFails
  <2>2. /\ next \in Call /\ next.rest = call.rest /\ next.tried = call.tried
        /\ next.status = "none" /\ next.capability = call.capability
        /\ next.refused = call.refused /\ next.down = TRUE
    BY <1>1 DEF Call
  <2>. HIDE DEF next
  <2>3. /\ call'.status = "none" /\ call'.capability = call.capability
        /\ call'.refused = call.refused /\ call'.down = TRUE
        /\ call'.tried = call.tried \cup {Head(call.rest)}
        /\ call'.rest = Tail(call.rest) /\ call.rest # <<>>
    BY <1>5, <2>1, <2>2
  <2>4. Accounted(c, call.tried \cup {Head(call.rest)}, call.refused, Tail(call.rest), TRUE)
    BY <1>2, <2>3, Passed, ZenonT(40)
  <2>5. Accounted(c, call'.tried, call'.refused, call'.rest, call'.down)
    BY <2>3, <2>4
  <2> QED
    BY <1>3, <2>3, <2>5
<1>9. CASE Conclude
  <2>1. call.rest = <<>>
    <3>1. call.rest = <<>> \/ call.left <= 0
      BY <1>9 DEF Conclude
    <3>2. Len(call.rest) <= call.left /\ call.left \in Nat
      BY <1>1 DEF BlameInv, TimeInv, Call
    <3>3. Len(call.rest) \in Nat
      BY <1>2, LenProperties
    <3>4. call.left <= 0 => Len(call.rest) = 0
      BY <3>2, <3>3
    <3> QED
      BY <1>2, <3>1, <3>4, EmptySeq
  <2>2. Verdict \in {"422", "502", "503"} /\ (Verdict = "422" <=> ~call.down)
    BY <1>0, <1>2, <2>1, VerdictIsFair
  <2>3. call'.status = Verdict /\ call'.down = call.down
    BY <1>1, <1>9 DEF Conclude, Call
  <2> QED
    BY <2>2, <2>3 DEF RequestBlame, Retryable
<1> QED
  BY <1>4, <1>6, <1>7, <1>8, <1>9 DEF Service

LEMMA DirectBlame ==
  ASSUME BlameInv, EndpointFails \/ EndpointAnswers
  PROVE  RequestBlame'
<1>1. /\ call \in Call /\ call.status = "none" /\ setup.via = "direct" /\ setup' = setup
      /\ RequestBlame
  BY DEF BlameInv, TimeInv, EndpointFails, EndpointAnswers, InDirect, Waiting
<1>2. CASE EndpointFails
  <2>1. /\ call'.status = IF Len(call.rest) = 1 THEN "lost" ELSE "none"
        /\ call'.down = TRUE /\ call'.capability = call.capability
    BY <1>1, <1>2 DEF EndpointFails, Call
  <2>2. call.capability = "vision" => call'.status = "lost"
    BY <1>1, <2>1 DEF RequestBlame
  <2> QED
    BY <1>1, <2>1, <2>2 DEF RequestBlame, Retryable
<1>3. CASE EndpointAnswers
  <2>1. /\ call'.capability = call.capability /\ call'.down = call.down
        /\ \/ call'.status = "200"
           \/ call'.status = "garbled" /\ call.capability = "analysis"
           \/ call'.status = "415" /\ call.capability = "vision"
    BY <1>1, <1>3 DEF EndpointAnswers, Call
  <2> QED
    BY <1>1, <2>1 DEF RequestBlame, Retryable
<1> QED
  BY <1>2, <1>3

\* A failed image counts as transient just when the infrastructure failed it.
LEMMA EnrichOutcome ==
  ASSUME BlameInv, EnrichBlock
  PROVE  OutcomeInv'
<1>1. /\ pc = "vision" /\ call.status # "none" /\ call \in Call
      /\ call.capability = "vision" /\ call.down \in BOOLEAN
      /\ call.status \in Statuses
  BY DEF BlameInv, TimeInv, EnrichBlock, Call
<1>2. (call.status # "200" /\ call.down) <=> Retryable(call.status)
  BY <1>1 DEF BlameInv, RequestBlame, Retryable, Statuses
<1>3. /\ vision \in Counts /\ outage \subseteq Causes
      /\ vision.transient > 0 <=> "failed" \in outage
      /\ outcome = "none"
  BY <1>1 DEF BlameInv, OutcomeInv
<1>4. /\ outcome' = "none"
      /\ outage' = IF call.status # "200" /\ call.down
                   THEN outage \cup {"failed"} ELSE outage
      /\ vision' = IF call.status = "200" THEN vision
                   ELSE IF Retryable(call.status)
                        THEN [vision EXCEPT !.transient = @ + 1]
                        ELSE [vision EXCEPT !.permanent = @ + 1]
  BY <1>3 DEF EnrichBlock
<1>5. ASSUME NEW v, v = [vision EXCEPT !.transient = @ + 1]
      PROVE  v \in Counts /\ v.transient > 0
  BY <1>3, <1>5 DEF Counts
<1>6. ASSUME NEW v, v = [vision EXCEPT !.permanent = @ + 1]
      PROVE  v \in Counts /\ v.transient = vision.transient
  BY <1>3, <1>6 DEF Counts
<1>7. vision' \in Counts /\ (vision'.transient > 0 <=> "failed" \in outage')
  <2>1. CASE Retryable(call.status)
    <3>1. call.status # "200" /\ "failed" \in outage'
      BY <1>2, <1>4, <2>1
    <3>2. vision' = [vision EXCEPT !.transient = @ + 1]
      BY <1>4, <2>1, <3>1
    <3> QED
      BY <1>5, <3>1, <3>2
  <2>2. CASE call.status = "200"
    BY <1>3, <1>4, <2>2
  <2>3. CASE call.status # "200" /\ ~Retryable(call.status)
    <3>1. vision' = [vision EXCEPT !.permanent = @ + 1] /\ outage' = outage
      BY <1>2, <1>3, <1>4, <2>3
    <3> QED
      BY <1>3, <1>6, <3>1
  <2> QED
    BY <2>1, <2>2, <2>3
<1>8. outage' \subseteq Causes
  BY <1>3, <1>4 DEF Causes
<1> QED
  BY <1>4, <1>7, <1>8 DEF OutcomeInv, BlameIsRight

LEMMA OutcomeStep ==
  ASSUME BlameInv, Next
  PROVE  OutcomeInv'
<1>1. /\ vision \in Counts /\ outage \subseteq Causes
      /\ vision.transient > 0 <=> "failed" \in outage
  BY DEF BlameInv, OutcomeInv
<1>2. ASSUME UNCHANGED <<vision, outage>>, outcome' = "none" PROVE OutcomeInv'
  BY <1>1, <1>2 DEF OutcomeInv, BlameIsRight
<1>3. CASE ReadImage
  <2>1. /\ vision' = [vision EXCEPT !.attempted = @ + 1] /\ outage' = outage
        /\ outcome' = "none"
    BY <1>3 DEF ReadImage, BlameInv, OutcomeInv
  <2>2. vision' \in Counts /\ vision'.transient = vision.transient
    BY <1>1, <2>1 DEF Counts
  <2> QED
    BY <1>1, <2>1, <2>2 DEF OutcomeInv, BlameIsRight
<1>4. CASE ReadImageFails
  <2>1. /\ vision' = [vision EXCEPT !.attempted = @ + 1, !.transient = @ + 1]
        /\ outage' = outage \cup {"failed"} /\ outcome' = "none"
    BY <1>4 DEF ReadImageFails, BlameInv, OutcomeInv
  <2>2. /\ vision' \in Counts
        /\ vision'.transient = vision.transient + 1 /\ vision.transient \in Nat
    <3>1. PICK w : w = [vision EXCEPT !.attempted = vision.attempted + 1]
      OBVIOUS
    <3>2. w \in Counts /\ w.transient = vision.transient
      BY <1>1, <3>1 DEF Counts
    <3>3. vision' = [w EXCEPT !.transient = w.transient + 1]
      BY <2>1, <3>1
    <3> QED
      BY <1>1, <3>2, <3>3 DEF Counts
  <2>3. vision'.transient > 0 /\ "failed" \in outage' /\ outage' \subseteq Causes
    BY <1>1, <2>1, <2>2 DEF Causes
  <2> QED
    BY <2>1, <2>2, <2>3 DEF OutcomeInv, BlameIsRight
<1>5. CASE GiveUp
  <2>1. UNCHANGED <<vision, outage, call>> /\ pc' = "ended" /\ outcome' = Shortage
    BY <1>5 DEF GiveUp, End
  <2>2. /\ "failed" \in outage => Shortage = "visionDown"
        /\ "failed" \notin outage => Shortage \in {"rejected", "short"}
    BY <1>1 DEF Shortage, Counts
  <2>3. "failed" \notin outage => outage \subseteq {"skipped"}
    BY <1>1 DEF Causes
  <2> QED
    BY <1>1, <2>1, <2>2, <2>3 DEF OutcomeInv, BlameIsRight
<1>6. CASE FinishAnalysis
  <2>1. /\ UNCHANGED <<vision, outage, call>> /\ pc' = "ended"
        /\ outcome' = IF call.status = "200" THEN "analysed"
                      ELSE IF Retryable(call.status) THEN "retryable" ELSE "failed"
        /\ call.status # "none" /\ call.status \in Statuses
    BY <1>6 DEF FinishAnalysis, End, BlameInv, TimeInv, Call
  <2>2. /\ outcome' = "retryable" => call.down
        /\ outcome' = "failed" => ~call.down \/ call.status = "garbled"
        /\ outcome' \in {"analysed", "retryable", "failed"}
    BY <2>1 DEF BlameInv, RequestBlame, Retryable, Statuses
  <2> QED
    BY <1>1, <2>1, <2>2 DEF OutcomeInv, BlameIsRight
<1>7. CASE AnswerEndpoint
  <2>1. UNCHANGED <<vision, outage>> /\ pc' = "ended" /\ outcome' \in {"text", "502"}
    BY <1>7 DEF AnswerEndpoint, End
  <2> QED
    BY <1>1, <2>1 DEF OutcomeInv, BlameIsRight
<1>8. CASE ExtractImageText
  <2>1. /\ UNCHANGED <<vision, outage>>
        /\ \/ outcome' = "none"
           \/ pc' = "ended" /\ outcome' \in {"404", "502"}
    BY <1>8 DEF ExtractImageText, End, BlameInv, OutcomeInv
  <2> QED
    BY <1>1, <1>2, <2>1 DEF OutcomeInv, BlameIsRight
<1>9. CASE Analyze \/ ConnectionLost \/ ClientTimesOut \/ Service
           \/ EndpointFails \/ EndpointAnswers
  <2>1. UNCHANGED <<vision, outage, outcome>> /\ pc # "ended"
    BY <1>9 DEF Analyze, ConnectionLost, ClientTimesOut, Service, SkipSaturated,
                NodeAnswers, NodeRefuses, NodeFails, Attempt, Conclude, EndpointFails,
                EndpointAnswers, InService, InDirect, Waiting
  <2> QED
    BY <1>2, <2>1 DEF BlameInv, OutcomeInv
<1>10. CASE ClaimAgain
  <2>1. vision' = NoVision /\ outage' = {} /\ outcome' = "none"
    BY <1>10 DEF ClaimAgain
  <2>2. NoVision \in Counts /\ ~(NoVision.transient > 0)
    BY DEF NoVision, Counts
  <2> QED
    BY <2>1, <2>2 DEF OutcomeInv, BlameIsRight
<1>11. CASE Rest
  BY <1>11 DEF Rest, vars, BlameInv, OutcomeInv, BlameIsRight
<1>12. CASE SkipImage
  <2>1. /\ vision' = vision /\ outage' = outage \cup {"skipped"} /\ outcome' = "none"
    BY <1>12 DEF SkipImage, BlameInv, OutcomeInv
  <2>2. outage' \subseteq Causes /\ ("failed" \in outage' <=> "failed" \in outage)
    BY <1>1, <2>1 DEF Causes
  <2> QED
    BY <1>1, <2>1, <2>2 DEF OutcomeInv, BlameIsRight
<1> QED
  BY <1>3, <1>4, <1>5, <1>6, <1>7, <1>8, <1>9, <1>10, <1>11, <1>12, EnrichOutcome
  DEF Next, Client

LEMMA BlameInit == Init => BlameInv
<1> SUFFICES ASSUME Init PROVE BlameInv
  OBVIOUS
<1>1. TimeInv
  BY TimeInit
<1>2. RequestBlame
  BY DEF Init, RequestBlame, Retryable, NoCall
<1>3. NoVision \in Counts /\ ~(NoVision.transient > 0)
  BY DEF NoVision, Counts
<1> QED
  BY <1>1, <1>2, <1>3 DEF Init, BlameInv, OutcomeInv, BlameIsRight

LEMMA BlameNext == BlameInv /\ [Next]_vars => BlameInv'
<1> SUFFICES ASSUME BlameInv, [Next]_vars PROVE BlameInv'
  OBVIOUS
<1>1. TimeInv'
  BY TimeNext DEF BlameInv
<1>2. CASE UNCHANGED vars
  BY <1>1, <1>2 DEF vars, BlameInv, RequestBlame, OutcomeInv, BlameIsRight
<1>3. CASE Next
  <2>1. RequestBlame'
    <3>1. CASE ClaimAgain
      BY <3>1 DEF ClaimAgain, RequestBlame, Retryable, NoCall
    <3>2. CASE Rest
      BY <3>2 DEF Rest, vars, BlameInv, RequestBlame
    <3> QED
      BY <1>3, <3>1, <3>2, ClientBlame, ServiceBlame, DirectBlame DEF Next
  <2> QED
    BY <1>1, <1>3, <2>1, OutcomeStep DEF BlameInv
<1> QED
  BY <1>2, <1>3

\* However the candidates of the requests fail, refuse, are full or are cut off, and
\* however many images are tried, a failure held against the content had no failure
\* of the infrastructure behind it but images that were passed over untried, and one
\* put down to the infrastructure had.
THEOREM BlameFallsRight == Spec => []BlameIsRight
<1>1. BlameInv => BlameIsRight
  BY DEF BlameInv, OutcomeInv
<1> QED
  BY <1>1, BlameInit, BlameNext, PTL DEF Spec


-----------------------------------------------------------------------------
(* What a worker sends *)

\* A vision model's answer is something it may read, and a worker's request that was
\* refused had been tried at some node.
AnswerFits ==
  /\ call.status = "200" /\ call.capability = "vision" => call.text \in Readings
  /\ setup.caller = "worker" /\ call.status = "422" => call.tried # {}

\* The blocks are blocks, and an analysis is asked for only when they suffice.
FitInv ==
  /\ TimeInv /\ AnswerFits
  /\ setup \in Setups
  /\ blocks \in Seq(Block)
  /\ pc = "analysis" => Sufficient

\* The size of an image as a data URL is within what gpt-service takes.
LEMMA ImageFits ==
  ASSUME setup \in Setups, setup.caller = "worker", NEW bytes \in ImageBytes
  PROVE  VisionRequestValid(bytes, setup.longPrompt)
<1>1. ~setup.longPrompt
  BY PathAssumption
<1>2. bytes \in 1..MaxImageBytes
  BY PathAssumption
<1>3. DataUrlLength(bytes) <= MaxImageDataUrl
  <2> DEFINE q == (bytes + 2) \div 3
  <2>1. MaxImageBytes \in Nat
    BY SMT DEF MaxImageBytes
  <2>2. bytes \in Nat /\ bytes <= MaxImageBytes
    BY <1>2, <2>1, SMT
  <2>3. q \in Nat /\ 3 * q <= bytes + 2
    BY <2>2, SMT
  <2> HIDE DEF q
  <2>4. 23 + 4 * q <= MaxImageDataUrl
    BY <2>2, <2>3, SMT DEF MaxImageBytes, MaxImageDataUrl
  <2> QED
    BY <2>4, SMT DEF q, DataUrlLength
<1> QED
  BY <1>1, <1>3 DEF VisionRequestValid

\* The text of a sufficient body is within what gpt-service takes.
LEMMA PromptFits ==
  ASSUME setup \in Setup, blocks \in Seq(Block), Sufficient
  PROVE  LET parts == LlmParts(setup.board.title, blocks)
         IN  /\ Lengths(parts) /\ parts # <<>>
             /\ Lengths(Prompt) /\ Prompt # <<>>
             /\ Rendered(Prompt) \in 1..BoardLimit
             /\ AnalyzeRequestValid(Prompt)
<1> DEFINE parts == LlmParts(setup.board.title, blocks)
<1>1. setup.board.title \in Text \cup {NoText}
  BY DEF Setup
<1>2. Lengths(parts) /\ parts # <<>>
  BY <1>1, PartsTyped, SufficientIsSome DEF Sufficient
<1>3. BoardLimit \in 1..MaxText /\ MaxText \in Nat
  BY PathAssumption
<1>4. BoardLimit \in Nat \ {0}
  BY <1>3
<1>5. Prompt = TruncateAnalysisParts(parts, BoardLimit)
  BY DEF Prompt
<1> HIDE DEF parts
<1>6. /\ Lengths(Prompt) /\ Prompt # <<>>
      /\ Rendered(Prompt) \in 1..BoardLimit
  BY <1>2, <1>4, <1>5, TruncationFits
<1>7. Rendered(Prompt) \in 1..MaxText
  BY <1>3, <1>6
<1> QED
  BY <1>2, <1>6, <1>7 DEF parts, AnalyzeRequestValid

LEMMA SentFits ==
  ASSUME setup' = setup, NEW c \in {"analysis", "vision"}, NEW valid,
         setup.caller = "worker" => valid,
         call' = IF setup.via = "service" THEN Admitted(c, valid) ELSE Direct(c)
  PROVE  AnswerFits'
<1>1. CASE setup.via = "service"
  <2>1. call'.status = IF setup.token = "unset" THEN "503"
                       ELSE IF setup.token = "wrong" THEN "401"
                       ELSE IF ~valid THEN "422"
                       ELSE IF Candidates[c] = <<>> THEN "503" ELSE "none"
    BY <1>1 DEF Admitted, NoCall
  <2>2. call'.status # "200" /\ (setup.caller = "worker" => call'.status # "422")
    BY <2>1
  <2> QED
    BY <2>2 DEF AnswerFits
<1>2. CASE setup.via # "service"
  <2>1. call'.status = "none"
    BY <1>2 DEF Direct, NoCall
  <2> QED
    BY <2>1 DEF AnswerFits
<1> QED
  BY <1>1, <1>2

LEMMA ClientFits ==
  ASSUME FitInv, Client
  PROVE  FitInv'
<1>1. setup' = setup /\ setup \in Setups /\ setup \in Setup /\ blocks \in Seq(Block)
  BY DEF FitInv, TimeInv, Client, ReadImage, SkipImage, ReadImageFails, GiveUp, Analyze,
         ExtractImageText, ConnectionLost, ClientTimesOut, EnrichBlock, AnswerEndpoint,
         FinishAnalysis
<1>2. TimeInv'
  BY ClientTime DEF FitInv
<1>3. ASSUME AnswerFits', blocks' = blocks, pc' = "analysis" => Sufficient
      PROVE  FitInv'
  <2>1. pc' = "analysis" => Sufficient'
    BY <1>1, <1>3 DEF Sufficient
  <2> QED
    BY <1>1, <1>2, <1>3, <2>1 DEF FitInv
<1>4. CASE ReadImage \/ ExtractImageText
  <2>1. ASSUME NEW bytes \in ImageBytes, SendImage(bytes) PROVE AnswerFits'
    <3>1. setup.caller = "worker" => VisionRequestValid(bytes, setup.longPrompt)
      BY <1>1, ImageFits
    <3> QED
      BY <1>1, <2>1, <3>1, SentFits DEF SendImage
  <2>2. AnswerFits' \/ call' = call
    BY <1>4, <2>1 DEF ReadImage, ExtractImageText
  <2>3. AnswerFits'
    BY <1>1, <2>2 DEF FitInv, AnswerFits
  <2>4. blocks' = blocks /\ pc' # "analysis"
    BY <1>4 DEF ReadImage, ExtractImageText, End
  <2> QED
    BY <1>3, <2>3, <2>4
<1>5. CASE Analyze
  <2>1. Sufficient /\ blocks' = blocks
    BY <1>5 DEF Analyze
  <2>2. AnalyzeRequestValid(Prompt)
    BY <1>1, <2>1, PromptFits
  <2>3. AnswerFits'
    BY <1>1, <1>5, <2>2, SentFits DEF Analyze
  <2> QED
    BY <1>3, <2>1, <2>3
<1>6. CASE ConnectionLost \/ ClientTimesOut
  <2>1. PICK status \in {"lost", "late"} :
          call' = [call EXCEPT !.status = status, !.down = TRUE]
    BY <1>6 DEF ConnectionLost, ClientTimesOut
  <2>2. call'.status = status
    BY <2>1 DEF FitInv, TimeInv, Call
  <2>3. AnswerFits'
    BY <2>2 DEF AnswerFits
  <2>4. blocks' = blocks /\ pc' = pc
    BY <1>6 DEF ConnectionLost, ClientTimesOut
  <2> QED
    BY <1>3, <2>3, <2>4 DEF FitInv
<1>7. CASE SkipImage \/ ReadImageFails \/ GiveUp \/ AnswerEndpoint \/ FinishAnalysis
  <2>1. call' = call /\ blocks' = blocks /\ pc' \in {pc, "ended"}
    BY <1>7 DEF SkipImage, ReadImageFails, GiveUp, AnswerEndpoint, FinishAnalysis, End
  <2>2. AnswerFits'
    BY <1>1, <2>1 DEF FitInv, AnswerFits
  <2> QED
    BY <1>3, <2>1, <2>2 DEF FitInv
<1>8. CASE EnrichBlock
  <2>1. call' = NoCall /\ pc' = "reading" /\ pc = "vision"
    BY <1>8 DEF EnrichBlock
  <2>2. AnswerFits'
    BY <2>1 DEF AnswerFits, NoCall
  <2>3. blocks' \in Seq(Block)
    <3>1. CASE call.status = "200"
      <4>1. call.text \in Text
        <5>1. call.capability = "vision"
          BY <2>1 DEF FitInv, TimeInv
        <5> QED
          BY <3>1, <5>1, PathAssumption DEF FitInv, AnswerFits
      <4>2. blocks' = [blocks EXCEPT ![at] = Enriched(@, call.text)]
        BY <1>8, <3>1 DEF EnrichBlock
      <4> QED
        BY <1>1, <4>1, <4>2, EnrichedTyped
    <3>2. CASE call.status # "200"
      BY <1>1, <1>8, <3>2 DEF EnrichBlock
    <3> QED
      BY <3>1, <3>2
  <2> QED
    BY <1>1, <1>2, <2>1, <2>2, <2>3 DEF FitInv
<1> QED
  BY <1>4, <1>5, <1>6, <1>7, <1>8 DEF Client

LEMMA ServiceFits ==
  ASSUME FitInv, Service
  PROVE  AnswerFits' /\ UNCHANGED <<setup, pc, blocks>>
<1>1. /\ call \in Call /\ call.status = "none" /\ UNCHANGED <<setup, pc, blocks>>
  BY DEF FitInv, TimeInv, Service, SkipSaturated, NodeAnswers, NodeRefuses, NodeFails,
         Attempt, Conclude, InService, Waiting
<1>2. CASE SkipSaturated
  <2>1. call'.status = "none"
    BY <1>1, <1>2 DEF SkipSaturated, Call
  <2> QED
    BY <1>1, <2>1 DEF AnswerFits
<1>3. ASSUME NEW next \in Call, Attempt(next)
      PROVE  /\ call'.status = next.status /\ call'.text = next.text
             /\ call'.capability = next.capability
  <2>1. PICK d \in 1..AttemptTimeout :
          call' = [next EXCEPT !.left = @ - d, !.tried = @ \cup {Head(call.rest)},
                               !.rest = Tail(@)]
    BY <1>3, AttemptLeaves DEF FitInv
  <2> QED
    BY <1>3, <2>1 DEF Call
<1>4. CASE NodeAnswers
  <2>1. PICK v \in Readings \cup {NoText} :
          /\ call.capability = "vision" => v \in Readings
          /\ Attempt([call EXCEPT !.status = "200", !.text = v])
    BY <1>4 DEF NodeAnswers
  <2>. DEFINE next == [call EXCEPT !.status = "200", !.text = v]
  <2>2. next \in Call /\ next.text = v /\ next.status = "200"
        /\ next.capability = call.capability
    BY <1>1 DEF Call, Statuses
  <2>. HIDE DEF next
  <2>3. call'.status = "200" /\ call'.text = v /\ call'.capability = call.capability
    BY <1>3, <2>1, <2>2 DEF next
  <2> QED
    BY <1>1, <2>1, <2>3 DEF AnswerFits
<1>5. CASE NodeRefuses \/ NodeFails
  <2>1. PICK next \in Call : Attempt(next) /\ next.status = "none"
    <3>1. CASE NodeRefuses
      <4>1. Head(call.rest) \in Nat
        BY <1>1, <3>1, HeadTailProperties DEF NodeRefuses, Call
      <4>2. [call EXCEPT !.refused = @ \cup {Head(call.rest)}] \in Call
        BY <1>1, <4>1 DEF Call
      <4> QED
        BY <1>1, <3>1, <4>2 DEF NodeRefuses, Call
    <3>2. CASE NodeFails
      <4>1. [call EXCEPT !.down = TRUE] \in Call
        BY <1>1 DEF Call
      <4> QED
        BY <1>1, <3>2, <4>1 DEF NodeFails, Call
    <3> QED
      BY <1>5, <3>1, <3>2
  <2>2. call'.status = "none"
    BY <1>3, <2>1
  <2> QED
    BY <1>1, <2>2 DEF AnswerFits
<1>6. CASE Conclude
  <2>1. call'.status = Verdict /\ call'.tried = call.tried
    BY <1>1, <1>6 DEF Conclude, Call
  <2>2. Verdict # "200" /\ (Verdict = "422" => call.tried # {})
    BY DEF Verdict
  <2> QED
    BY <1>1, <2>1, <2>2 DEF AnswerFits
<1> QED
  BY <1>1, <1>2, <1>4, <1>5, <1>6 DEF Service

LEMMA DirectFits ==
  ASSUME FitInv, EndpointFails \/ EndpointAnswers
  PROVE  AnswerFits' /\ UNCHANGED <<setup, pc, blocks>>
<1>1. call \in Call /\ call.status = "none" /\ UNCHANGED <<setup, pc, blocks>>
  BY DEF FitInv, TimeInv, EndpointFails, EndpointAnswers, InDirect, Waiting
<1>2. CASE EndpointFails
  <2>1. call'.status \in {"lost", "none"}
    BY <1>1, <1>2 DEF EndpointFails, Call
  <2> QED
    BY <1>1, <2>1 DEF AnswerFits
<1>3. CASE EndpointAnswers
  <2>1. CASE \E v \in IF call.capability = "vision" THEN Readings ELSE {NoText} :
               call' = [call EXCEPT !.status = "200", !.text = v]
    <3>1. call'.status = "200" /\ call'.capability = call.capability
          /\ (call.capability = "vision" => call'.text \in Readings)
      BY <1>1, <2>1 DEF Call
    <3> QED
      BY <1>1, <3>1 DEF AnswerFits
  <2>2. ASSUME NEW status \in {"garbled", "415"}, call' = [call EXCEPT !.status = status]
        PROVE  AnswerFits'
    <3>1. call'.status = status
      BY <1>1, <2>2 DEF Call
    <3> QED
      BY <1>1, <3>1 DEF AnswerFits
  <2> QED
    BY <1>3, <2>1, <2>2 DEF EndpointAnswers
<1> QED
  BY <1>1, <1>2, <1>3

LEMMA FitInit == Init => FitInv
<1> SUFFICES ASSUME Init PROVE FitInv
  OBVIOUS
<1>1. TimeInv /\ setup \in Setups /\ setup \in Setup
  BY TimeInit DEF Init, TimeInv
<1>2. AnswerFits
  BY DEF Init, NoCall, AnswerFits
<1>3. blocks \in Seq(Block)
  <2>1. setup.board.contents \in Seq(Block)
    BY <1>1 DEF Setup
  <2> QED
    BY <2>1, NormalizedTyped DEF Init
<1> QED
  BY <1>1, <1>2, <1>3 DEF Init, FitInv

LEMMA FitNext == FitInv /\ [Next]_vars => FitInv'
<1> SUFFICES ASSUME FitInv, [Next]_vars PROVE FitInv'
  OBVIOUS
<1>1. TimeInv'
  BY TimeNext DEF FitInv
<1>2. ASSUME AnswerFits', UNCHANGED <<setup, pc, blocks>> PROVE FitInv'
  BY <1>1, <1>2 DEF FitInv, Sufficient
<1>3. CASE UNCHANGED vars
  <2>1. AnswerFits'
    BY <1>3 DEF vars, FitInv, AnswerFits
  <2> QED
    BY <1>2, <1>3, <2>1 DEF vars
<1>4. CASE ClaimAgain
  <2>1. /\ setup' = setup /\ pc' = "reading" /\ call' = NoCall
        /\ blocks' = NormalizeContents(setup.board.contents)
    BY <1>4 DEF ClaimAgain
  <2>2. AnswerFits'
    BY <2>1 DEF AnswerFits, NoCall
  <2>3. setup.board.contents \in Seq(Block)
    BY DEF FitInv, TimeInv, Setup
  <2>4. blocks' \in Seq(Block)
    BY <2>1, <2>3, NormalizedTyped
  <2> QED
    BY <1>1, <2>1, <2>2, <2>4 DEF FitInv
<1>5. CASE Service \/ EndpointFails \/ EndpointAnswers
  BY <1>2, <1>5, ServiceFits, DirectFits
<1> QED
  BY <1>3, <1>4, <1>5, ClientFits DEF Next, Rest

\* Whatever the contents of a board and the texts read on its images are, what a worker
\* sends passes the schemas of gpt-service, and gpt-service's own cut of it is within its
\* own limit.
THEOREM WorkersRequestsFit == Spec => []RequestsFit
<1>1. FitInv => RequestsFit
  <2> SUFFICES ASSUME FitInv PROVE RequestsFit
    OBVIOUS
  <2>1. ASSUME pc = "analysis"
        PROVE  Rendered(TruncateAnalysisContent(Prompt, GptLimit)) \in 1..GptLimit
    <3>1. Lengths(Prompt) /\ Prompt # <<>>
      BY <2>1, PromptFits DEF FitInv, TimeInv
    <3>2. GptLimit \in Nat \ {0}
      BY PathAssumption
    <3> QED
      BY <3>1, <3>2, TruncationFits
  <2> QED
    BY <2>1 DEF RequestsFit, FitInv, AnswerFits
<1> QED
  BY <1>1, FitInit, FitNext, PTL DEF Spec

\* A text is cut only where it does not fit, whatever its parts are; the cut text is
\* within the limit, keeps its title and the marker, and shares the rest fairly.
THEOREM TextIsCutFairly == Spec => []CutFairly
<1>1. FitInv => CutFairly
  <2> DEFINE parts == LlmParts(setup.board.title, blocks)
             budget == BoardLimit - Head(parts) - Marker - 2
             selected == SelectBodyParts(Tail(parts), budget)
             content == budget - Len(selected) + 1
  <2> SUFFICES ASSUME FitInv, pc = "analysis"
               PROVE  /\ Rendered(Prompt) <= BoardLimit
                      /\ Rendered(parts) <= BoardLimit => Prompt = parts
                      /\ Rendered(parts) > BoardLimit /\ budget > 0 /\ Len(parts) > 1 =>
                           /\ Head(Prompt) = Head(parts) /\ Last(Prompt) = Marker
                           /\ content >= 0 =>
                                MaxMinFair(selected, FairPartLimits(selected, content),
                                           content)
    BY Zenon DEF CutFairly
  <2>1. /\ Lengths(parts) /\ parts # <<>> /\ Rendered(Prompt) \in 1..BoardLimit
        /\ Prompt = TruncateAnalysisParts(parts, BoardLimit)
    BY PromptFits DEF FitInv, TimeInv, Prompt
  <2>2. BoardLimit \in Nat \ {0}
    BY PathAssumption
  <2> HIDE DEF parts
  <2>3. Rendered(parts) \in Nat
    BY <2>1, RenderedSome
  <2>4. Rendered(Prompt) <= BoardLimit /\ (Rendered(parts) <= BoardLimit => Prompt = parts)
    <3>1. Rendered(parts) <= BoardLimit => Prompt = parts
      BY <2>1, Zenon DEF TruncateAnalysisParts
    <3>2. Rendered(Prompt) <= BoardLimit
      <4> DEFINE r == Rendered(Prompt)
      <4>1. r \in 1..BoardLimit
        BY <2>1
      <4> HIDE DEF r
      <4>2. r <= BoardLimit
        BY <2>2, <4>1
      <4> QED
        BY <4>2 DEF r
    <3> QED
      BY <3>1, <3>2
  <2>5. ASSUME Rendered(parts) > BoardLimit, budget > 0, Len(parts) > 1
        PROVE  /\ Head(Prompt) = Head(parts) /\ Last(Prompt) = Marker
               /\ content >= 0 =>
                    MaxMinFair(selected, FairPartLimits(selected, content), content)
    <3>1. Prompt = Cut(parts, BoardLimit)
      BY <2>1, <2>2, <2>3, <2>5 DEF TruncateAnalysisParts
    <3>2. Head(Prompt) = Head(parts) /\ Last(Prompt) = Marker
      BY <2>1, <2>2, <2>5, <3>1, CutFits
    <3>3. /\ budget \in Nat \ {0} /\ Tail(parts) \in Seq(Nat \ {0}) /\ Tail(parts) # <<>>
      <4>1. /\ Head(parts) \in Nat /\ Marker \in Nat /\ Len(parts) \in Nat
            /\ Tail(parts) \in Seq(Nat \ {0}) /\ Len(Tail(parts)) = Len(parts) - 1
        BY <2>1, InputAssumption, EmptySeq, HeadTailProperties, LenProperties DEF Lengths
      <4>2. budget \in Nat \ {0}
        BY <2>2, <2>5, <4>1
      <4>3. Len(Tail(parts)) # 0
        BY <2>5, <4>1
      <4> QED
        BY <4>1, <4>2, <4>3, EmptySeq
    <3>4. Lengths(selected) /\ Len(selected) \in 1..budget
      BY <3>3, SelectionFits DEF Lengths
    <3>5. content \in Nat
      <4> HIDE DEF selected, budget
      <4> QED
        BY <3>3, <3>4
    <3>6. MaxMinFair(selected, FairPartLimits(selected, content), content)
      BY <3>4, <3>5, LimitsAreFair
    <3> QED
      BY <3>2, <3>6
  <2> QED
    BY <2>4, <2>5
<1> QED
  BY <1>1, FitInit, FitNext, PTL DEF Spec

-----------------------------------------------------------------------------
(* Every attempt ends *)

\* The loop stands at a block or past the last, and at a block while an image of it is
\* read.
LoopInv ==
  /\ at \in 1..(Len(blocks) + 1)
  /\ pc = "vision" /\ setup.caller = "worker" => at <= Len(blocks)

EndInv == FitInv /\ LoopInv

LEMMA LoopTyped ==
  ASSUME EndInv
  PROVE  blocks \in Seq(Block) /\ Len(blocks) \in Nat /\ at \in Nat
<1>1. blocks \in Seq(Block)
  BY DEF EndInv, FitInv
<1>2. Len(blocks) \in Nat
  BY <1>1, LenProperties
<1> QED
  BY <1>1, <1>2 DEF EndInv, LoopInv

\* The next image is at a block the loop has not passed.
LEMMA NextImage ==
  ASSUME EndInv, Ahead # {}
  PROVE  Min(Ahead) \in at..Len(blocks)
<1>1. Ahead \subseteq at..Len(blocks)
  BY DEF Ahead
<1>2. Ahead \subseteq Nat
  BY <1>1, LoopTyped
<1>3. PICK i \in Ahead : \A j \in Ahead : i <= j
  BY <1>2, LeastMember
<1>4. Min(Ahead) \in Ahead
  BY <1>3, Zenon DEF Min
<1> QED
  BY <1>1, <1>4

LEMMA EndInit == Init => EndInv
<1> SUFFICES ASSUME Init PROVE EndInv
  OBVIOUS
<1>1. FitInv
  BY FitInit
<1>2. Len(blocks) \in Nat
  BY <1>1, LenProperties DEF FitInv
<1> QED
  BY <1>1, <1>2 DEF Init, EndInv, LoopInv

LEMMA EnrichKeepsLength ==
  ASSUME EnrichBlock, blocks \in Seq(Block), at \in 1..Len(blocks)
  PROVE  Len(blocks') = Len(blocks)
<1>1. blocks' = IF call.status = "200"
                THEN [blocks EXCEPT ![at] = Enriched(@, call.text)] ELSE blocks
  BY DEF EnrichBlock
<1>2. Len([blocks EXCEPT ![at] = Enriched(@, call.text)]) = Len(blocks)
  OBVIOUS
<1> QED
  BY <1>1, <1>2

LEMMA PlaceAfter ==
  ASSUME NEW last \in Nat, NEW i \in 1..(last + 1), NEW m \in i..last
  PROVE  m + 1 \in 1..(last + 1)
  OBVIOUS

LEMMA LoopNext ==
  ASSUME EndInv, FitInv', [Next]_vars
  PROVE  LoopInv'
<1>1. /\ blocks \in Seq(Block) /\ Len(blocks) \in Nat /\ at \in Nat
      /\ at \in 1..(Len(blocks) + 1)
  BY LoopTyped DEF EndInv, LoopInv
<1>2. ASSUME UNCHANGED <<setup, blocks, at>>, pc' = "vision" => pc = "vision"
      PROVE  LoopInv'
  BY <1>2 DEF EndInv, LoopInv
<1>3. CASE ReadImage
  <2>1. at' \in at..Len(blocks) /\ blocks' = blocks
    BY <1>3, NextImage DEF ReadImage
  <2>2. PICK k : k = Len(blocks) /\ Len(blocks') = k
    BY <2>1
  <2>3. at' \in 1..(k + 1) /\ at' <= k
    BY <1>1, <2>1, <2>2
  <2> QED
    BY <2>2, <2>3 DEF LoopInv
<1>4. CASE SkipImage \/ ReadImageFails
  <2>1. at' = Min(Ahead) + 1 /\ blocks' = blocks /\ pc' = "reading" /\ Ahead # {}
    BY <1>4 DEF SkipImage, ReadImageFails
  <2>2. PICK m : m = Min(Ahead)
    OBVIOUS
  <2>3. m \in at..Len(blocks)
    BY <2>1, <2>2, NextImage
  <2>4. m + 1 \in 1..(Len(blocks) + 1)
    BY <1>1, <2>3, PlaceAfter
  <2> QED
    BY <2>1, <2>2, <2>4 DEF LoopInv
<1>5. CASE EnrichBlock
  <2>1. at' = at + 1 /\ pc' = "reading" /\ at <= Len(blocks)
    BY <1>5 DEF EnrichBlock, EndInv, LoopInv
  <2>2. Len(blocks') = Len(blocks)
    BY <1>1, <1>5, <2>1, EnrichKeepsLength
  <2> QED
    BY <1>1, <2>1, <2>2 DEF LoopInv
<1>6. CASE ClaimAgain
  <2>1. at' = 1 /\ pc' = "reading"
    BY <1>6 DEF ClaimAgain
  <2>2. Len(blocks') \in Nat
    BY LenProperties DEF FitInv
  <2> QED
    BY <2>1, <2>2 DEF LoopInv
<1>7. CASE ExtractImageText
  <2>1. UNCHANGED <<setup, blocks, at>> /\ setup.caller # "worker"
    BY <1>7 DEF ExtractImageText
  <2> QED
    BY <2>1 DEF EndInv, LoopInv
<1>8. CASE GiveUp \/ Analyze \/ ConnectionLost \/ ClientTimesOut \/ AnswerEndpoint
           \/ FinishAnalysis \/ Service \/ EndpointFails \/ EndpointAnswers \/ Rest
           \/ UNCHANGED vars
  BY <1>2, <1>8
  DEF GiveUp, Analyze, ConnectionLost, ClientTimesOut, AnswerEndpoint, FinishAnalysis,
      Service, SkipSaturated, NodeAnswers, NodeRefuses, NodeFails, Attempt, Conclude,
      EndpointFails, EndpointAnswers, Rest, vars, End
<1> QED
  BY <1>3, <1>4, <1>5, <1>6, <1>7, <1>8 DEF Next, Client

LEMMA EndNext == EndInv /\ [Next]_vars => EndInv'
<1> SUFFICES ASSUME EndInv, [Next]_vars PROVE EndInv'
  OBVIOUS
<1>1. FitInv'
  BY FitNext DEF EndInv
<1> QED
  BY <1>1, LoopNext DEF EndInv

\* What the measure of the phases is.
LEMMA PhaseValues ==
  ASSUME NEW n \in Nat, Len(blocks) + 1 - at = n
  PROVE  /\ pc = "reading" => PhasesLeft = 2 * n + 2
         /\ pc = "vision" => PhasesLeft = 2 * n + 1
         /\ pc = "analysis" => PhasesLeft = 1
         /\ pc = "ended" => PhasesLeft = 0
  BY DEF PhasesLeft

LEMMA PhaseValuesNext ==
  ASSUME NEW n \in Nat, Len(blocks') + 1 - at' = n
  PROVE  /\ pc' = "reading" => PhasesLeft' = 2 * n + 2
         /\ pc' = "vision" => PhasesLeft' = 2 * n + 1
         /\ pc' = "analysis" => PhasesLeft' = 1
         /\ pc' = "ended" => PhasesLeft' = 0
  BY DEF PhasesLeft

\* A step on the request leaves one candidate less, or its answer.
LEMMA RequestAdvances ==
  ASSUME EndInv,
         \/ Service \/ EndpointFails \/ EndpointAnswers \/ ConnectionLost \/ ClientTimesOut
  PROVE  TriesLeft' < TriesLeft /\ UNCHANGED <<setup, pc, blocks, at>>
<1>1. /\ call \in Call /\ call.status = "none" /\ UNCHANGED <<setup, pc, blocks, at>>
      /\ call.rest \in Seq(Nat) /\ Len(call.rest) \in Nat
  <2>1. call \in Call /\ call.status = "none" /\ UNCHANGED <<setup, pc, blocks, at>>
    BY DEF EndInv, FitInv, TimeInv, Service, SkipSaturated, NodeAnswers, NodeRefuses, NodeFails,
           Attempt, Conclude, InService, Waiting, EndpointFails, EndpointAnswers, InDirect,
           ConnectionLost, ClientTimesOut
  <2> QED
    BY <2>1, LenProperties DEF Call
<1>2. TriesLeft = Len(call.rest) + 1
  BY <1>1 DEF TriesLeft
<1>3. call.rest # <<>> => Len(Tail(call.rest)) = Len(call.rest) - 1
  BY <1>1, HeadTailProperties
<1>4. ASSUME call'.rest = Tail(call.rest), call.rest # <<>>
      PROVE  TriesLeft' < TriesLeft
  <2>1. Len(call'.rest) = Len(call.rest) - 1
    BY <1>3, <1>4
  <2>2. TriesLeft' = Len(call'.rest) + (IF call'.status = "none" THEN 1 ELSE 0)
    BY DEF TriesLeft
  <2>3. CASE call'.status = "none"
    <3>1. TriesLeft' = (Len(call.rest) - 1) + 1
      BY <2>1, <2>2, <2>3
    <3> QED
      BY <1>1, <1>2, <3>1
  <2>4. CASE call'.status # "none"
    <3>1. TriesLeft' = (Len(call.rest) - 1) + 0
      BY <2>1, <2>2, <2>4
    <3> QED
      BY <1>1, <1>2, <3>1
  <2> QED
    BY <2>3, <2>4
<1>5. ASSUME call'.rest = call.rest, call'.status # "none"
      PROVE  TriesLeft' < TriesLeft
  <2>1. TriesLeft' = Len(call.rest)
    BY <1>1, <1>5 DEF TriesLeft
  <2> QED
    BY <1>1, <1>2, <2>1
<1>6. CASE SkipSaturated
  BY <1>1, <1>4, <1>6 DEF SkipSaturated, Call
<1>7. ASSUME NEW next \in Call, next.rest = call.rest, Attempt(next)
      PROVE  TriesLeft' < TriesLeft
  <2>1. PICK d \in 1..AttemptTimeout :
          call' = [next EXCEPT !.left = @ - d, !.tried = @ \cup {Head(call.rest)},
                               !.rest = Tail(@)]
    BY <1>7, AttemptLeaves DEF EndInv, FitInv
  <2>2. call'.rest = Tail(call.rest)
    BY <1>7, <2>1 DEF Call
  <2>3. call.rest # <<>>
    BY <1>7 DEF Attempt
  <2> QED
    BY <1>4, <2>2, <2>3
<1>8. CASE NodeAnswers
  <2>1. PICK v \in Readings \cup {NoText} :
          Attempt([call EXCEPT !.status = "200", !.text = v])
    BY <1>8 DEF NodeAnswers
  <2>. DEFINE next == [call EXCEPT !.status = "200", !.text = v]
  <2>2. next \in Call /\ next.rest = call.rest
    BY <1>1 DEF Call, Statuses
  <2> QED
    BY <1>1, <1>7, <2>1, <2>2
<1>9. CASE NodeRefuses
  <2>. DEFINE next == [call EXCEPT !.refused = @ \cup {Head(call.rest)}]
  <2>1. Attempt(next) /\ call.rest # <<>>
    BY <1>9 DEF NodeRefuses
  <2>2. Head(call.rest) \in Nat
    BY <1>1, <2>1, HeadTailProperties
  <2>3. next \in Call /\ next.rest = call.rest
    BY <1>1, <2>2 DEF Call
  <2> QED
    BY <1>1, <1>7, <2>1, <2>3
<1>10. CASE NodeFails
  <2>. DEFINE next == [call EXCEPT !.down = TRUE]
  <2>1. Attempt(next)
    BY <1>10 DEF NodeFails
  <2>2. next \in Call /\ next.rest = call.rest
    BY <1>1 DEF Call
  <2> QED
    BY <1>1, <1>7, <2>1, <2>2
<1>11. CASE Conclude
  <2>1. call'.rest = call.rest /\ call'.status = Verdict
    BY <1>1, <1>11 DEF Conclude, Call
  <2>2. Verdict # "none"
    BY DEF Verdict
  <2> QED
    BY <1>1, <1>5, <2>1, <2>2
<1>12. CASE EndpointFails
  <2>1. call'.rest = Tail(call.rest)
    BY <1>1, <1>12 DEF EndpointFails, Call
  <2>2. call.rest # <<>>
    BY <1>1, <1>12 DEF EndInv, FitInv, TimeInv, EndpointFails, InDirect, Waiting
  <2> QED
    BY <1>1, <1>4, <2>1, <2>2
<1>13. CASE EndpointAnswers
  <2>1. call'.rest = call.rest /\ call'.status # "none"
    BY <1>1, <1>13 DEF EndpointAnswers, Call
  <2> QED
    BY <1>1, <1>5, <2>1
<1>14. CASE ConnectionLost \/ ClientTimesOut
  <2>1. call'.rest = call.rest /\ call'.status # "none"
    BY <1>1, <1>14 DEF ConnectionLost, ClientTimesOut, Call
  <2> QED
    BY <1>1, <1>5, <2>1
<1> QED
  BY <1>1, <1>6, <1>8, <1>9, <1>10, <1>11, <1>12, <1>13, <1>14 DEF Service

\* A step between requests passes a block or goes on to the next phase.
LEMMA PhaseAdvances ==
  ASSUME EndInv, EndInv',
         \/ ReadImage \/ SkipImage \/ ReadImageFails \/ GiveUp \/ Analyze
         \/ ExtractImageText \/ EnrichBlock \/ AnswerEndpoint \/ FinishAnalysis
  PROVE  PhasesLeft' < PhasesLeft
<1>1. /\ Len(blocks) \in Nat /\ at \in Nat /\ at \in 1..(Len(blocks) + 1)
      /\ blocks \in Seq(Block)
  BY LoopTyped DEF EndInv, LoopInv
<1>2. PICK n \in Nat : Len(blocks) + 1 - at = n
  BY <1>1
<1>3. /\ pc = "reading" => PhasesLeft = 2 * n + 2
      /\ pc = "vision" => PhasesLeft = 2 * n + 1
      /\ pc = "analysis" => PhasesLeft = 1
  BY <1>2, PhaseValues
<1>4. ASSUME UNCHANGED <<blocks, at>>
      PROVE  /\ pc' = "vision" => PhasesLeft' = 2 * n + 1
             /\ pc' = "analysis" => PhasesLeft' = 1
             /\ pc' = "ended" => PhasesLeft' = 0
  BY <1>2, <1>4, PhaseValuesNext
<1>5. CASE ReadImage
  <2>1. pc = "reading" /\ pc' = "vision" /\ blocks' = blocks /\ at' \in at..Len(blocks)
    BY <1>5, NextImage DEF ReadImage
  <2>2. PICK m \in Nat : Len(blocks') + 1 - at' = m /\ m <= n
    BY <1>1, <1>2, <2>1
  <2>3. PhasesLeft' = 2 * m + 1
    BY <2>1, <2>2, PhaseValuesNext
  <2> QED
    BY <1>3, <2>1, <2>2, <2>3
<1>6. CASE SkipImage \/ ReadImageFails
  <2>1. /\ pc = "reading" /\ pc' = "reading" /\ blocks' = blocks
        /\ at' = Min(Ahead) + 1 /\ Ahead # {}
    BY <1>6 DEF SkipImage, ReadImageFails
  <2>2. Min(Ahead) \in at..Len(blocks)
    BY <2>1, NextImage
  <2>3. PICK m \in Nat : Len(blocks') + 1 - at' = m /\ m < n
    BY <1>1, <1>2, <2>1, <2>2
  <2>4. PhasesLeft' = 2 * m + 2
    BY <2>1, <2>3, PhaseValuesNext
  <2> QED
    BY <1>3, <2>1, <2>3, <2>4
<1>7. CASE EnrichBlock
  <2>1. pc = "vision" /\ pc' = "reading" /\ at' = at + 1 /\ at <= Len(blocks)
    BY <1>7 DEF EnrichBlock, EndInv, LoopInv
  <2>2. Len(blocks') = Len(blocks)
    BY <1>1, <1>7, <2>1, EnrichKeepsLength
  <2>3. PICK m \in Nat : Len(blocks') + 1 - at' = m /\ m + 1 = n
    BY <1>1, <1>2, <2>1, <2>2
  <2>4. PhasesLeft' = 2 * m + 2
    BY <2>1, <2>3, PhaseValuesNext
  <2> QED
    BY <1>3, <2>1, <2>3, <2>4
<1>8. CASE GiveUp \/ Analyze \/ ExtractImageText
  <2>1. /\ pc = "reading" /\ UNCHANGED <<blocks, at>>
        /\ pc' \in {"vision", "analysis", "ended"}
    BY <1>8 DEF GiveUp, Analyze, ExtractImageText, End
  <2> QED
    BY <1>3, <1>4, <2>1
<1>9. CASE AnswerEndpoint \/ FinishAnalysis
  <2>1. /\ pc \in {"vision", "analysis"} /\ UNCHANGED <<blocks, at>> /\ pc' = "ended"
    BY <1>9 DEF AnswerEndpoint, FinishAnalysis, End
  <2> QED
    BY <1>3, <1>4, <2>1
<1> QED
  BY <1>5, <1>6, <1>7, <1>8, <1>9

\* No step of an attempt leaves its measure as it is, however many blocks, candidates
\* and endpoints there are: an attempt that goes on ends.
THEOREM EveryAttemptEnds == Spec => AttemptAdvances
<1>1. EndInv /\ EndInv' /\ [Next]_vars
        => [pc # "ended" => \/ PhasesLeft' < PhasesLeft
                            \/ PhasesLeft' = PhasesLeft /\ TriesLeft' < TriesLeft]_vars
  <2> SUFFICES ASSUME EndInv, EndInv', Next, pc # "ended"
               PROVE  \/ PhasesLeft' < PhasesLeft
                      \/ PhasesLeft' = PhasesLeft /\ TriesLeft' < TriesLeft
    OBVIOUS
  <2>1. CASE Service \/ EndpointFails \/ EndpointAnswers \/ ConnectionLost \/ ClientTimesOut
    <3>1. TriesLeft' < TriesLeft /\ UNCHANGED <<setup, pc, blocks, at>>
      BY <2>1, RequestAdvances
    <3>2. PhasesLeft' = PhasesLeft
      BY <3>1 DEF PhasesLeft
    <3> QED
      BY <3>1, <3>2
  <2>2. CASE \/ ReadImage \/ SkipImage \/ ReadImageFails \/ GiveUp \/ Analyze
             \/ ExtractImageText \/ EnrichBlock \/ AnswerEndpoint \/ FinishAnalysis
    BY <2>2, PhaseAdvances
  <2>3. ~ClaimAgain /\ ~Rest
    BY DEF ClaimAgain, Rest
  <2> QED
    BY <2>1, <2>2, <2>3 DEF Next, Client
<1> QED
  BY <1>1, EndInit, EndNext, PTL DEF Spec, AttemptAdvances
=============================================================================
