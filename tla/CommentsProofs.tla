--------------------------- MODULE CommentsProofs ---------------------------
(***************************************************************************)
(* Proofs about Comments, for any users, requests, comments and limits:    *)
(* how far the counters can drift from the rows they count, that deletion  *)
(* is final, and that the pages of list_comments show each comment once.   *)
(***************************************************************************)
EXTENDS Comments, SequenceTheorems, FiniteSetTheorems, WellFoundedInduction, TLAPS

-----------------------------------------------------------------------------
(* Numbers up to a bound, and the k-th of a set of them *)

\* A set of numbers has a least member.
LEMMA LeastMember ==
  ASSUME NEW S \in SUBSET Nat, S # {}
  PROVE  \E n \in S : \A m \in S : n <= m
<1>1. \E n \in S : \A m \in S : ~(<<m, n>> \in OpToRel(<, Nat))
  BY WFMin, NatLessThanWellFounded
<1>2. \A m, n \in Nat : m < n => <<m, n>> \in OpToRel(<, Nat)
  BY Zenon DEF OpToRel
<1>3. \A m, n \in S : ~(<<m, n>> \in OpToRel(<, Nat)) => ~(m < n)
  BY <1>2, Zenon
<1>4. \E n \in S : \A m \in S : ~(m < n)
  BY <1>1, <1>3, Zenon
<1> QED
  BY <1>4

\* What holds at 0 and goes on holding up to a bound holds up to it: there is no least
\* number for which it does not.
LEMMA InductionUpTo ==
  ASSUME NEW bound \in Nat, NEW S, 0 \in S,
         \A n \in 1..bound : n - 1 \in S => n \in S
  PROVE  \A n \in 0..bound : n \in S
<1> DEFINE T == 0..bound \ S
<1> SUFFICES ASSUME T # {} PROVE FALSE
  OBVIOUS
<1>1. PICK n \in T : \A m \in T : n <= m
  <2>1. T \in SUBSET Nat
    OBVIOUS
  <2> HIDE DEF T
  <2> QED
    BY <2>1, LeastMember
<1>2. n \in 1..bound /\ n - 1 \in S
  BY <1>1
<1> QED
  BY <1>1, <1>2

RankOf(P, m) == Cardinality({n \in P : n <= m})

\* Every rank is that of a member.
LEMMA RankExists ==
  ASSUME NEW bound \in Nat, NEW P \in SUBSET (1..bound)
  PROVE  \A k \in 1..Cardinality(P) : \E m \in P : RankOf(P, m) = k
<1> DEFINE Ranked(Q) == \A k \in 1..Cardinality(Q) : \E m \in Q : RankOf(Q, m) = k
           S == {n \in 0..bound : \A Q \in SUBSET (1..n) : Ranked(Q)}
<1>1. 0 \in S
  <2>1. SUFFICES ASSUME NEW Q \in SUBSET (1..0) PROVE Ranked(Q)
    OBVIOUS
  <2>2. Q = {}
    OBVIOUS
  <2>3. Cardinality(Q) = 0
    BY <2>2, FS_EmptySet
  <2> QED
    BY <2>3
<1>2. ASSUME NEW n \in 1..bound, n - 1 \in S PROVE n \in S
  <2> SUFFICES ASSUME NEW Q \in SUBSET (1..n) PROVE Ranked(Q)
    OBVIOUS
  <2> DEFINE R == Q \ {n}
  <2>1. IsFiniteSet(1..n)
    BY FS_Interval
  <2>2. R \in SUBSET (1..(n - 1))
    OBVIOUS
  <2>3. IsFiniteSet(Q)
    BY <2>1, FS_Subset
  <2>4. R \in SUBSET (1..(n - 1)) /\ IsFiniteSet(Q)
    BY <2>2, <2>3
  <2>5. Ranked(R)
    BY <1>2, <2>4
  <2>6. CASE n \notin Q
    <3>1. R = Q
      BY <2>6
    <3> QED
      BY <2>5, <3>1
  <2>7. CASE n \in Q
    <3>1. /\ Cardinality(Q) \in Nat /\ Cardinality(R) = Cardinality(Q) - 1
      BY <2>4, <2>7, FS_RemoveElement, FS_CardinalityType
    <3>2. ASSUME NEW k \in 1..Cardinality(Q) PROVE \E m \in Q : RankOf(Q, m) = k
      <4>1. CASE k = Cardinality(Q)
        <5>1. \A j \in Q : j <= n
          OBVIOUS
        <5>2. {j \in Q : j <= n} = Q
          BY <5>1
        <5> QED
          BY <2>7, <4>1, <5>2 DEF RankOf
      <4>2. CASE k # Cardinality(Q)
        <5>1. k \in 1..Cardinality(R)
          BY <3>1, <4>2
        <5>2. PICK m \in R : RankOf(R, m) = k
          BY <2>5, <5>1
        <5>3. m < n /\ m \in Q
          BY <2>4
        <5>4. {j \in Q : j <= m} = {j \in R : j <= m}
          BY <5>3
        <5> QED
          BY <5>2, <5>3, <5>4 DEF RankOf
      <4> QED
        BY <4>1, <4>2
    <3> QED
      BY <3>2
  <2> QED
    BY <2>6, <2>7
<1>3. bound \in S
  <2> HIDE DEF S
  <2> QED
    BY <1>1, <1>2, InductionUpTo
<1> QED
  BY <1>3

\* The k-th of a set has rank k, and each member is the one of its rank.
LEMMA NthFacts ==
  ASSUME NEW bound \in Nat, NEW P \in SUBSET (1..bound)
  PROVE  /\ IsFiniteSet(P) /\ Cardinality(P) \in Nat
         /\ \A k \in 1..Cardinality(P) : Nth(P, k) \in P /\ RankOf(P, Nth(P, k)) = k
         /\ \A m \in P : RankOf(P, m) \in 1..Cardinality(P) /\ Nth(P, RankOf(P, m)) = m
<1>0. IsFiniteSet(1..bound)
  BY FS_Interval
<1>1. IsFiniteSet(P) /\ Cardinality(P) \in Nat
  BY <1>0, FS_Subset, FS_CardinalityType
<1>2. ASSUME NEW k \in 1..Cardinality(P)
      PROVE  Nth(P, k) \in P /\ RankOf(P, Nth(P, k)) = k
  <2>1. \E m \in P : RankOf(P, m) = k
    BY RankExists
  <2>2. Nth(P, k) = CHOOSE m \in P : RankOf(P, m) = k
    BY DEF Nth, RankOf
  <2> QED
    BY <2>1, <2>2
<1>3. ASSUME NEW m \in P PROVE RankOf(P, m) \in 1..Cardinality(P)
  <2>1. IsFiniteSet({n \in P : n <= m}) /\ RankOf(P, m) <= Cardinality(P) /\ RankOf(P, m) \in Nat
    BY <1>1, FS_Subset, FS_CardinalityType DEF RankOf
  <2>2. {n \in P : n <= m} # {}
    OBVIOUS
  <2>3. RankOf(P, m) # 0
    BY <2>1, <2>2, FS_EmptySet DEF RankOf
  <2> QED
    BY <1>1, <2>1, <2>3
<1>4. ASSUME NEW m \in P, NEW n \in P, m < n PROVE RankOf(P, m) # RankOf(P, n)
  <2> DEFINE M == {j \in P : j <= m}
             N == {j \in P : j <= n}
  <2>0. m \in Nat /\ n \in Nat /\ \A j \in P : j <= m => j <= n
    BY <1>4
  <2>4. N \in SUBSET P /\ n \in N
    BY <2>0
  <2>5. M \in SUBSET N
    BY <2>0
  <2>6. n \notin M
    BY <1>4, <2>0
  <2>1. N \in SUBSET P /\ M \in SUBSET N /\ n \in N /\ n \notin M
    BY <2>4, <2>5, <2>6
  <2>3. IsFiniteSet(N) /\ M # N
    BY <1>1, <2>1, FS_Subset
  <2> HIDE DEF M, N
  <2>2. Cardinality(M) # Cardinality(N)
    BY <2>1, <2>3, FS_Subset
  <2> QED
    BY <2>2 DEF M, N, RankOf
<1>5. ASSUME NEW m \in P PROVE Nth(P, RankOf(P, m)) = m
  <2>1. PICK n : n = Nth(P, RankOf(P, m))
    OBVIOUS
  <2>2. n \in P /\ RankOf(P, n) = RankOf(P, m)
    BY <1>2, <1>3, <2>1
  <2>3. n < m \/ m < n \/ n = m
    BY <2>2
  <2> QED
    BY <1>4, <2>1, <2>2, <2>3
<1> QED
  BY <1>1, <1>2, <1>3, <1>5

-----------------------------------------------------------------------------
(* Sequences without repetitions *)

\* s lists the members of S, each once.
Lists(s, S) == s \in Seq(S) /\ IsInjective(s) /\ \A c \in S : \E i \in 1..Len(s) : s[i] = c

\* What the places of a list hold.
LEMMA ListsFacts ==
  ASSUME NEW S, NEW s, Lists(s, S)
  PROVE  /\ s \in Seq(S) /\ Len(s) \in Nat /\ DOMAIN s = 1..Len(s)
         /\ \A i \in 1..Len(s) : s[i] \in S
         /\ \A i, j \in 1..Len(s) : s[i] = s[j] => i = j
         /\ \A c \in S : \E i \in 1..Len(s) : s[i] = c
<1>1. s \in Seq(S)
  BY DEF Lists
<1>2. Len(s) \in Nat /\ DOMAIN s = 1..Len(s) /\ \A i \in 1..Len(s) : s[i] \in S
  BY <1>1
<1> QED
  BY <1>1, <1>2 DEF Lists, IsInjective

\* The comments at a set of places of the order.
LEMMA InOrderLists ==
  ASSUME NEW T, order \in Seq(T), IsInjective(order), NEW P \in SUBSET (DOMAIN order)
  PROVE  Lists(InOrder(P), {order[i] : i \in P})
<1> DEFINE n == Cardinality(P)
           s == InOrder(P)
           S == {order[i] : i \in P}
<1>1. Len(order) \in Nat /\ DOMAIN order = 1..Len(order)
  OBVIOUS
<1>2. /\ n \in Nat
      /\ \A k \in 1..n : Nth(P, k) \in P /\ RankOf(P, Nth(P, k)) = k
      /\ \A m \in P : RankOf(P, m) \in 1..n /\ Nth(P, RankOf(P, m)) = m
  BY <1>1, NthFacts
<1>3. s = [k \in 1..n |-> order[Nth(P, k)]]
  BY DEF InOrder
<1> HIDE DEF n, s
<1>4. s \in Seq(S) /\ Len(s) = n
  BY <1>2, <1>3
<1>5. ASSUME NEW j \in 1..n, NEW k \in 1..n, s[j] = s[k] PROVE j = k
  <2>1. order[Nth(P, j)] = order[Nth(P, k)]
    BY <1>3, <1>5
  <2>2. Nth(P, j) = Nth(P, k)
    BY <1>2, <2>1 DEF IsInjective
  <2> QED
    BY <1>2, <2>2
<1>6. IsInjective(s)
  <2>1. DOMAIN s = 1..n
    BY <1>3
  <2> QED
    BY <1>5, <2>1 DEF IsInjective
<1>7. ASSUME NEW c \in S PROVE \E i \in 1..Len(s) : s[i] = c
  <2>1. PICK m \in P : c = order[m]
    OBVIOUS
  <2>2. s[RankOf(P, m)] = c
    BY <1>2, <1>3, <2>1
  <2> QED
    BY <1>2, <1>4, <2>2
<1> QED
  BY <1>4, <1>6, <1>7 DEF Lists, s

\* The same list, newest first.
LEMMA ReverseLists ==
  ASSUME NEW S, NEW s, Lists(s, S)
  PROVE  Lists(Reverse(s), S)
<1> DEFINE r == Reverse(s)
<1>1. s \in Seq(S) /\ Len(s) \in Nat /\ DOMAIN s = 1..Len(s)
  BY DEF Lists
<1>2. r = [i \in 1..Len(s) |-> s[(Len(s) - i) + 1]]
  BY DEF Reverse
<1> HIDE DEF r
<1>3. \A i \in 1..Len(s) : (Len(s) - i) + 1 \in 1..Len(s)
  BY <1>1
<1>4. r \in Seq(S) /\ Len(r) = Len(s) /\ DOMAIN r = 1..Len(s)
  BY <1>1, <1>2, <1>3
<1>5. ASSUME NEW i \in 1..Len(s), NEW j \in 1..Len(s), r[i] = r[j] PROVE i = j
  <2>1. s[(Len(s) - i) + 1] = s[(Len(s) - j) + 1]
    BY <1>2, <1>5
  <2>2. (Len(s) - i) + 1 = (Len(s) - j) + 1
    BY <1>3, <2>1, ListsFacts
  <2> QED
    BY <1>1, <2>2
<1>6. IsInjective(r)
  BY <1>4, <1>5 DEF IsInjective
<1>7. ASSUME NEW c \in S PROVE \E i \in 1..Len(r) : r[i] = c
  <2>1. PICK i \in 1..Len(s) : s[i] = c
    BY DEF Lists
  <2>2. PICK j \in 1..Len(s) : j = (Len(s) - i) + 1
    BY <1>3
  <2>3. (Len(s) - j) + 1 = i
    BY <1>1, <2>2
  <2>4. r[j] = c
    BY <1>2, <2>1, <2>3
  <2> QED
    BY <1>4, <2>4
<1> QED
  BY <1>4, <1>6, <1>7 DEF Lists, r

\* A sequence without repetitions is no longer than what it can hold.
LEMMA ListsBound ==
  ASSUME NEW T, IsFiniteSet(T), NEW S \in SUBSET T, NEW s, Lists(s, S)
  PROVE  Len(s) \in Nat /\ Cardinality(T) \in Nat /\ Len(s) <= Cardinality(T)
<1>1. Len(s) \in Nat /\ s \in [1..Len(s) -> T] /\ DOMAIN s = 1..Len(s)
  BY DEF Lists
<1>2. s \in Injection(1..Len(s), T)
  BY <1>1 DEF Injection, Lists, IsInjective
<1>3. Cardinality(1..Len(s)) <= Cardinality(T)
  BY <1>2, FS_Injection
<1>4. Cardinality(1..Len(s)) = Len(s)
  BY <1>1, FS_Interval
<1> QED
  BY <1>1, <1>3, <1>4, FS_CardinalityType

-----------------------------------------------------------------------------
(* Pages *)

\* Pages of one size do not overlap.
LEMMA PagesApart ==
  ASSUME NEW L \in Nat \ {0}, NEW p \in Nat \ {0}, NEW q \in Nat \ {0},
         NEW i \in 1..L, NEW j \in 1..L, (p - 1) * L + i = (q - 1) * L + j
  PROVE  p = q /\ i = j
<1>1. ASSUME NEW a \in Nat, NEW b \in Nat, a < b PROVE a * L + L <= b * L
  <2>1. (a + 1) * L = a * L + L /\ a * L \in Nat /\ b * L \in Nat
    OBVIOUS
  <2>2. PICK d \in Nat : b = (a + 1) + d
    <3>1. b - (a + 1) \in Nat /\ b = (a + 1) + (b - (a + 1))
      BY <1>1
    <3> QED
      BY <3>1
  <2>3. b * L = (a + 1) * L + d * L /\ d * L \in Nat
    BY <2>2
  <2> QED
    BY <2>1, <2>3
<1>2. PICK x \in Nat, y \in Nat : x = (p - 1) * L /\ y = (q - 1) * L
  OBVIOUS
<1>3. ~(p - 1 < q - 1)
  <2>1. ASSUME p - 1 < q - 1 PROVE x + L <= y
    BY <1>1, <1>2, <2>1
  <2> QED
    BY <1>2, <2>1
<1>4. ~(q - 1 < p - 1)
  <2>1. ASSUME q - 1 < p - 1 PROVE y + L <= x
    BY <1>1, <1>2, <2>1
  <2> QED
    BY <1>2, <2>1
<1>5. p = q
  BY <1>3, <1>4
<1>6. x = y
  BY <1>2, <1>5
<1> QED
  BY <1>2, <1>5, <1>6

\* t holds what s has at up to L places, beginning after x.
IsPage(t, s, S, x, L) ==
  /\ L \in Nat \ {0} /\ x \in Nat /\ t \in Seq(S)
  /\ \A j \in 1..Len(t) : j \in 1..L /\ x + j \in 1..Len(s) /\ t[j] = s[x + j]
  /\ \A j \in 1..L : x + j \in 1..Len(s) => j \in 1..Len(t)

\* What is on a page of a sequence.
LEMMA PageContents ==
  ASSUME NEW S, NEW s \in Seq(S), NEW limit \in Int, NEW page \in Nat \ {0},
         NEW L, L = Positive(limit), NEW t, t = PageOf(s, page, limit)
  PROVE  IsPage(t, s, S, (page - 1) * L, L)
<1>1. L \in Nat \ {0} /\ Positive(page) = page
  BY DEF Positive
<1>2. PICK x \in Nat : x = (page - 1) * L
  BY <1>1
<1>3. page * L = x + L
  BY <1>1, <1>2
<1>4. Len(s) \in Nat
  OBVIOUS
<1>5. PICK y \in Nat : y = IF x + L < Len(s) THEN x + L ELSE Len(s)
  BY <1>4, <1>1
<1>6. t = SubSeq(s, x + 1, y)
  BY <1>1, <1>2, <1>3, <1>5 DEF PageOf
<1>7. \A i \in (x + 1)..y : s[i] \in S
  BY <1>5
<1>8. /\ t \in Seq(S)
      /\ Len(t) = IF x + 1 <= y THEN y - (x + 1) + 1 ELSE 0
      /\ \A i \in 1..(y - (x + 1) + 1) : t[i] = s[(x + 1) + i - 1]
  BY <1>6, <1>7, SubSeqProperties
<1>9. ASSUME NEW j \in 1..Len(t)
      PROVE  j \in 1..L /\ x + j \in 1..Len(s) /\ t[j] = s[x + j]
  <2>1. x + 1 <= y /\ j \in 1..(y - (x + 1) + 1)
    BY <1>8
  <2>2. t[j] = s[(x + 1) + j - 1] /\ (x + 1) + j - 1 = x + j
    BY <1>8, <2>1
  <2>3. y <= Len(s) /\ y <= x + L
    BY <1>4, <1>1, <1>5
  <2>4. j \in Nat /\ 1 <= j /\ j <= y - x
    BY <2>1
  <2>5. j \in 1..L /\ x + j \in 1..Len(s)
    BY <1>4, <1>1, <2>3, <2>4
  <2> QED
    BY <2>2, <2>5
<1>10. ASSUME NEW j \in 1..L, x + j \in 1..Len(s) PROVE j \in 1..Len(t)
  <2>1. x + j <= y
    BY <1>4, <1>1, <1>5, <1>10
  <2>2. x + 1 <= y /\ y - (x + 1) + 1 = y - x
    BY <2>1
  <2>3. Len(t) = y - x
    BY <1>8, <2>2
  <2> QED
    BY <2>1, <2>3
<1> QED
  BY <1>1, <1>2, <1>8, <1>9, <1>10 DEF IsPage

\* Every place of a sequence is on a page.
LEMMA PageExists ==
  ASSUME NEW L \in Nat \ {0}, NEW bound \in Nat
  PROVE  \A k \in 1..bound : \E page \in 1..k, j \in 1..L : (page - 1) * L + j = k
<1> DEFINE OnPage(k) == \E page \in 1..k, j \in 1..L : (page - 1) * L + j = k
           S == {k \in 0..bound : k = 0 \/ OnPage(k)}
<1>1. 0 \in S
  OBVIOUS
<1>2. ASSUME NEW k \in 1..bound, k - 1 \in S PROVE OnPage(k)
  <2>1. CASE k = 1
    <3>1. (1 - 1) * L + 1 = k /\ 1 \in 1..k /\ 1 \in 1..L
      BY <2>1
    <3> QED
      BY <3>1
  <2>2. CASE k # 1
    <3>1. PICK page \in 1..(k - 1), j \in 1..L : (page - 1) * L + j = k - 1
      BY <1>2, <2>2
    <3>2. PICK x \in Nat : x = (page - 1) * L
      OBVIOUS
    <3>3. CASE j < L
      <4>1. j + 1 \in 1..L /\ page \in 1..k /\ x + (j + 1) = k
        BY <3>1, <3>2, <3>3
      <4> QED
        BY <3>2, <4>1, Zenon
    <3>4. CASE j = L
      <4>1. PICK next : next = page + 1
        OBVIOUS
      <4>2. (next - 1) * L = x + L
        BY <3>2, <4>1
      <4>3. next \in 1..k /\ 1 \in 1..L /\ (x + L) + 1 = k
        BY <3>1, <3>2, <3>4, <4>1
      <4> QED
        BY <4>2, <4>3, Zenon
    <3> QED
      BY <3>3, <3>4
  <2> QED
    BY <2>1, <2>2
<1> HIDE DEF OnPage
<1>3. \A k \in 1..bound : k - 1 \in S => k \in S
  BY <1>2
<1>4. \A k \in 0..bound : k \in S
  <2> HIDE DEF S
  <2> QED
    BY <1>1, <1>3, InductionUpTo
<1>5. \A k \in 1..bound : OnPage(k)
  BY <1>4
<1> QED
  BY <1>5 DEF OnPage

-----------------------------------------------------------------------------
(* Sequences strung together *)

\* f strings the first n of the sequences of ss together, for each n up to k.
Strings(f, ss, k) == f = [n \in 1..k |-> IF n = 1 THEN ss[n] ELSE f[n - 1] \o ss[n]]

\* Such an f exists: it is extended one sequence at a time.
LEMMA StringsExist ==
  ASSUME NEW ss, NEW bound \in Nat
  PROVE  \E f : Strings(f, ss, bound)
<1> DEFINE S == {k \in 0..bound : \E f : Strings(f, ss, k)}
<1>1. 0 \in S
  <2> DEFINE f == [n \in 1..0 |-> ss[n]]
             g == [n \in 1..0 |-> IF n = 1 THEN ss[n] ELSE f[n - 1] \o ss[n]]
  <2>1. 1..0 = {}
    OBVIOUS
  <2>2. f = g
    BY <2>1
  <2>3. Strings(f, ss, 0)
    <3> HIDE DEF f
    <3> QED
      BY <2>2 DEF Strings
  <2>4. \E h : Strings(h, ss, 0)
    <3> HIDE DEF f
    <3> QED
      BY <2>3
  <2> QED
    BY <2>4
<1>2. ASSUME NEW k \in 1..bound, k - 1 \in S PROVE k \in S
  <2>1. PICK f : Strings(f, ss, k - 1)
    BY <1>2
  <2> DEFINE g == [n \in 1..k |-> IF n < k THEN f[n]
                                  ELSE IF k = 1 THEN ss[k] ELSE f[k - 1] \o ss[k]]
             h == [n \in 1..k |-> IF n = 1 THEN ss[n] ELSE g[n - 1] \o ss[n]]
  <2>2. ASSUME NEW n \in 1..k PROVE g[n] = h[n]
    <3>1. h[n] = IF n = 1 THEN ss[n] ELSE g[n - 1] \o ss[n]
      OBVIOUS
    <3>2. n # 1 => g[n - 1] = f[n - 1]
      OBVIOUS
    <3>3. CASE n < k
      <4>1. n \in 1..(k - 1) /\ g[n] = f[n]
        BY <3>3
      <4>2. f[n] = IF n = 1 THEN ss[n] ELSE f[n - 1] \o ss[n]
        BY <2>1, <4>1 DEF Strings
      <4> HIDE DEF g, h
      <4> QED
        BY <3>1, <3>2, <4>1, <4>2
    <3>4. CASE n = k
      <4>1. g[n] = IF n = 1 THEN ss[n] ELSE f[n - 1] \o ss[n]
        BY <3>4
      <4> HIDE DEF g, h
      <4> QED
        BY <3>1, <3>2, <4>1
    <3> QED
      BY <3>3, <3>4
  <2>3. g = h
    <3>1. g = [n \in 1..k |-> g[n]] /\ h = [n \in 1..k |-> h[n]]
      OBVIOUS
    <3> HIDE DEF g, h
    <3> QED
      BY <2>2, <3>1
  <2>4. Strings(g, ss, k)
    <3> HIDE DEF g
    <3> QED
      BY <2>3 DEF Strings
  <2>5. \E f1 : Strings(f1, ss, k)
    <3> HIDE DEF g
    <3> QED
      BY <2>4
  <2> QED
    BY <2>5
<1>3. bound \in S
  <2> HIDE DEF S
  <2> QED
    BY <1>1, <1>2, InductionUpTo
<1> QED
  BY <1>3

\* flat consists of the first k sequences of ss, the m-th of them after its first off[m].
Strung(flat, ss, k, off) ==
  /\ \A m \in 1..k : \A t \in 1..Len(ss[m]) :
       off[m] + t \in 1..Len(flat) /\ flat[off[m] + t] = ss[m][t]
  /\ \A i \in 1..Len(flat) : \E m \in 1..k : \E t \in 1..Len(ss[m]) : i = off[m] + t

\* One more sequence.
LEMMA StrungMore ==
  ASSUME NEW T, NEW ss \in Seq(Seq(T)), NEW k \in 1..Len(ss),
         NEW off \in [1..Len(ss) -> Nat], NEW flat \in Seq(T), off[k] = Len(flat),
         Strung(flat, ss, k - 1, off)
  PROVE  flat \o ss[k] \in Seq(T) /\ Strung(flat \o ss[k], ss, k, off)
<1> DEFINE more == flat \o ss[k]
<1>1. ss[k] \in Seq(T) /\ Len(flat) \in Nat /\ Len(ss[k]) \in Nat /\ k \in Nat
  OBVIOUS
<1>2. /\ more \in Seq(T)
      /\ Len(more) = Len(flat) + Len(ss[k])
      /\ \A i \in 1..Len(flat) + Len(ss[k]) :
           more[i] = IF i <= Len(flat) THEN flat[i] ELSE ss[k][i - Len(flat)]
  BY <1>1, ConcatProperties
<1> HIDE DEF more
<1>3. ASSUME NEW m \in 1..k, NEW t \in 1..Len(ss[m])
      PROVE  off[m] + t \in 1..Len(more) /\ more[off[m] + t] = ss[m][t]
  <2>1. CASE m = k
    <3>1. off[m] + t = Len(flat) + t /\ t \in 1..Len(ss[k])
      BY <1>1, <2>1
    <3>2. Len(flat) + t \in 1..Len(flat) + Len(ss[k]) /\ ~(Len(flat) + t <= Len(flat))
          /\ (Len(flat) + t) - Len(flat) = t
      BY <1>1, <3>1
    <3> QED
      BY <1>2, <2>1, <3>1, <3>2
  <2>2. CASE m # k
    <3>1. m \in 1..(k - 1)
      BY <1>1, <2>2
    <3>2. off[m] + t \in 1..Len(flat) /\ flat[off[m] + t] = ss[m][t]
      BY <3>1 DEF Strung
    <3>3. off[m] + t \in 1..Len(flat) + Len(ss[k]) /\ off[m] + t <= Len(flat)
      BY <1>1, <3>2, SMTT(30)
    <3> QED
      BY <1>2, <3>2, <3>3
  <2> QED
    BY <2>1, <2>2
<1>4. ASSUME NEW i \in 1..Len(more)
      PROVE  \E m \in 1..k : \E t \in 1..Len(ss[m]) : i = off[m] + t
  <2>1. CASE i <= Len(flat)
    <3>1. i \in 1..Len(flat)
      BY <1>1, <2>1
    <3>2. PICK m \in 1..(k - 1) : \E t \in 1..Len(ss[m]) : i = off[m] + t
      BY <3>1 DEF Strung
    <3>3. m \in 1..k
      BY <1>1
    <3> QED
      BY <3>2, <3>3
  <2>2. CASE ~(i <= Len(flat))
    <3>1. PICK t : t = i - Len(flat)
      OBVIOUS
    <3>2. t \in 1..Len(ss[k]) /\ i = off[k] + t /\ k \in 1..k
      BY <1>1, <1>2, <2>2, <3>1
    <3> QED
      BY <3>2
  <2> QED
    BY <2>1, <2>2
<1> QED
  BY <1>2, <1>3, <1>4 DEF Strung, more

\* What FlattenSeq returns.
LEMMA FlattenStrung ==
  ASSUME NEW T, NEW ss \in Seq(Seq(T))
  PROVE  /\ FlattenSeq(ss) \in Seq(T)
         /\ \E off \in [1..Len(ss) -> Nat] : Strung(FlattenSeq(ss), ss, Len(ss), off)
<1>0. Len(ss) \in Nat /\ \A m \in 1..Len(ss) : ss[m] \in Seq(T)
  OBVIOUS
<1>1. CASE Len(ss) = 0
  <2>1. FlattenSeq(ss) = ss /\ ss = <<>>
    BY <1>1 DEF FlattenSeq
  <2>2. PICK off : off = [m \in 1..Len(ss) |-> 0]
    OBVIOUS
  <2>3. off \in [1..Len(ss) -> Nat] /\ Strung(ss, ss, Len(ss), off)
    BY <1>1, <2>2 DEF Strung
  <2>4. FlattenSeq(ss) \in Seq(T) /\ Strung(FlattenSeq(ss), ss, Len(ss), off)
    <3>1. ss \in Seq(T)
      BY <2>1
    <3> QED
      BY <2>1, <2>3, <3>1, Zenon
  <2> QED
    BY <2>3, <2>4
<1>2. CASE Len(ss) # 0
  <2> DEFINE F == CHOOSE f : Strings(f, ss, Len(ss))
             off == [m \in 1..Len(ss) |-> IF m = 1 THEN 0 ELSE Len(F[m - 1])]
             R == {n \in 0..Len(ss) : n = 0 \/ F[n] \in Seq(T)}
             S == {n \in 0..Len(ss) : n = 0 \/ Strung(F[n], ss, n, off)}
  <2>1. Strings(F, ss, Len(ss))
    BY <1>0, StringsExist
  <2>2. FlattenSeq(ss) = F[Len(ss)]
    BY <1>2 DEF FlattenSeq, Strings
  <2> HIDE DEF F
  <2>3. ASSUME NEW n \in 1..Len(ss)
        PROVE  F[n] = IF n = 1 THEN ss[n] ELSE F[n - 1] \o ss[n]
    BY <2>1 DEF Strings
  <2>4. 0 \in R /\ 0 \in S
    BY <1>0
  <2>5. ASSUME NEW n \in 1..Len(ss), n - 1 \in R PROVE n \in R
    <3>1. CASE n = 1
      BY <1>0, <2>3, <3>1
    <3>2. CASE n # 1
      <4>2. n - 1 # 0 /\ ss[n] \in Seq(T)
        BY <1>0, <3>2
      <4>3. F[n] = F[n - 1] \o ss[n]
        BY <2>3, <3>2
      <4>0. n - 1 # 0 /\ F[n] = F[n - 1] \o ss[n] /\ ss[n] \in Seq(T)
        BY <4>2, <4>3
      <4>1. F[n - 1] \in Seq(T)
        BY <2>5, <4>0
      <4>4. F[n] \in Seq(T)
        BY <4>0, <4>1, ConcatProperties
      <4> QED
        BY <1>0, <4>4
    <3> QED
      BY <3>1, <3>2
  <2>6. \A n \in 0..Len(ss) : n \in R
    <3> HIDE DEF R
    <3> QED
      BY <1>0, <2>4, <2>5, InductionUpTo
  <2>7. \A n \in 1..Len(ss) : F[n] \in Seq(T)
    BY <1>0, <2>6
  <2>8. off \in [1..Len(ss) -> Nat]
    <3>1. ASSUME NEW m \in 1..Len(ss) PROVE (IF m = 1 THEN 0 ELSE Len(F[m - 1])) \in Nat
      <4>1. m # 1 => m - 1 \in 1..Len(ss)
        BY <1>0
      <4> QED
        BY <2>7, <4>1
    <3> QED
      BY <3>1
  <2>9. ASSUME NEW n \in 1..Len(ss), n - 1 \in S PROVE n \in S
    <3>0. n \in 0..Len(ss) /\ F[n] \in Seq(T)
      BY <1>0, <2>7
    <3>1. CASE n = 1
      <4>1. F[n] = ss[n] /\ F[n] \in Seq(T) /\ off[1] = 0 /\ 1 \in 1..Len(ss)
        BY <1>0, <2>3, <3>1
      <4> HIDE DEF off
      <4>2. \A m \in 1..1 : m = 1
        OBVIOUS
      <4>3. ASSUME NEW t \in 1..Len(ss[1]) PROVE off[1] + t = t
        BY <1>0, <4>1
      <4>4. Strung(F[n], ss, n, off)
        BY <3>1, <4>1, <4>2, <4>3 DEF Strung
      <4> QED
        BY <3>0, <4>4
    <3>2. CASE n # 1
      <4>1. n - 1 # 0 /\ F[n - 1] \in Seq(T) /\ Strung(F[n - 1], ss, n - 1, off)
        BY <1>0, <2>7, <2>9, <3>2
      <4>2. F[n] = F[n - 1] \o ss[n]
        BY <2>3, <3>2
      <4>3. off[n] = Len(F[n - 1])
        BY <3>2
      <4> HIDE DEF S, off
      <4>4. Strung(F[n], ss, n, off)
        BY <2>8, <4>1, <4>2, <4>3, StrungMore
      <4> QED
        BY <3>0, <4>4 DEF S
    <3> QED
      BY <3>1, <3>2
  <2>10. \A n \in 0..Len(ss) : n \in S
    <3> HIDE DEF S
    <3> QED
      BY <1>0, <2>4, <2>9, InductionUpTo
  <2>11. Strung(F[Len(ss)], ss, Len(ss), off) /\ F[Len(ss)] \in Seq(T)
    BY <1>0, <1>2, <2>7, <2>10
  <2> HIDE DEF off
  <2> QED
    BY <2>2, <2>8, <2>11
<1> QED
  BY <1>1, <1>2

-----------------------------------------------------------------------------
USE CommentsAssumption

(* Counters and what they count *)

Keys == ({"likes"} \X Likeable) \cup ({"replies"} \X Ids)

Value(k) == IF k[1] = "likes" THEN likes[k[2]] ELSE replies[k[2]]
Members(k) == IF k[1] = "likes" THEN Likers(k[2]) ELSE LiveReplies(k[2])
Key(r) == CounterOf(req[r])

\* The like or the reply that request r adds to the members, or removes.
Member(r) ==
  CASE req[r].op = "like" -> req[r].by
    [] req[r].op = "create" -> r
    [] OTHER -> req[r].on

-----------------------------------------------------------------------------
(* The invariant *)

Request ==
  [phase : Phases, op : Ops, by : Users \cup {Nobody},
   on : Likeable \cup {None}, board : Boards \cup {None}, seen : Nat,
   liking : BOOLEAN, late : Nat]

Typed ==
  /\ comment \in [Ids -> Rows \cup {None}]
  /\ likes \in [Likeable -> Nat]
  /\ replies \in [Ids -> Nat]
  /\ liked \subseteq Likeable \X Users
  /\ req \in [Requests -> Request]
  /\ overtakes \in [Counters -> Nat]

\* A request and the row it is about.
Rooted(r) ==
  LET q == req[r] IN
  /\ q.phase # "over" => comment[r] = None
  /\ q.phase \in {"read", "checked", "ready"} =>
       /\ q.by \in Users
       /\ q.board \in Boards
       /\ q.on = None => q.op = "create" /\ q.phase = "read"
       /\ q.op # "like" => q.on \in Ids \cup {None}
  /\ UnderWay(q) /\ q.on \in Ids => comment[q.on] # None
  /\ q.phase = "ready" => q.op \in {"like", "delete"}
  /\ q.phase = "ready" /\ q.op = "delete" => comment[q.on].parent # None

Near(m, n, d) == Distance(m, n) <= d

\* What request q has read is wrong by no more than drift, the commits counted so
\* far, and those that came after its first read; without any, it is what is there
\* now.  x is the member it adds or removes.
Within(q, x, value, members, drift) ==
  CASE \/ q.op = "create"
       \/ q.op = "like" /\ q.phase = "ready" /\ q.liking ->
         Near(q.seen, Cardinality(members \ {x}), drift + q.late)
    [] q.op = "like" /\ q.phase = "checked" ->
         /\ Near(q.seen, Cardinality(members), drift + q.late)
         /\ q.late = 0 => q.seen = value
    [] q.op = "delete" /\ q.phase = "checked" ->
         q.late = 0 => x \in members
    [] OTHER ->
         /\ Near(q.seen, Cardinality(members \ {x}) + 1, drift + q.late)
         /\ q.late = 0 => x \in members /\ q.seen = value

Pending(r) ==
  UnderWay(req[r]) /\ Key(r) \in Keys =>
    Within(req[r], Member(r), Value(Key(r)), Members(Key(r)), overtakes[Key(r)])

Drift == \A k \in Keys : Near(Value(k), Cardinality(Members(k)), overtakes[k])

CommentsInv ==
  /\ Typed
  /\ \A r \in Requests : Rooted(r) /\ Pending(r)
  /\ Drift

-----------------------------------------------------------------------------
(* Sets that differ by one element, and what is near their sizes *)

LEMMA OneMore ==
  ASSUME NEW M, IsFiniteSet(M), NEW e,
         NEW N, N = M \cup {e} \/ N = M \ {e}
  PROVE  /\ IsFiniteSet(N)
         /\ Cardinality(M) \in Nat /\ Cardinality(N) \in Nat
         /\ Distance(Cardinality(M), Cardinality(N)) <= 1
<1>1. IsFiniteSet(M \cup {e}) /\ IsFiniteSet(M \ {e})
  BY FS_AddElement, FS_RemoveElement
<1>2. /\ Cardinality(M) \in Nat
      /\ Cardinality(M \cup {e}) \in Nat
      /\ Cardinality(M \ {e}) \in Nat
  BY <1>1, FS_CardinalityType
<1>3. Cardinality(M \cup {e}) = IF e \in M THEN Cardinality(M) ELSE Cardinality(M) + 1
  BY FS_AddElement
<1>4. Cardinality(M \ {e}) = IF e \in M THEN Cardinality(M) - 1 ELSE Cardinality(M)
  BY FS_RemoveElement
<1>5. \A m, n \in Nat : m = n \/ m = n + 1 \/ m = n - 1 => Distance(m, n) <= 1
  BY DEF Distance
<1>6. CASE N = M \cup {e}
  BY <1>1, <1>2, <1>3, <1>5, <1>6
<1>7. CASE N = M \ {e}
  BY <1>1, <1>2, <1>4, <1>5, <1>7
<1> QED
  BY <1>6, <1>7

\* A commit of another request on the same counter moves the members by one and
\* counts as late: what was within its distance stays so.
LEMMA WithinCommit ==
  ASSUME NEW q \in Request, UnderWay(q),
         NEW x, NEW v \in Nat, NEW w \in Nat,
         NEW M, IsFiniteSet(M), NEW e,
         NEW N, N = M \cup {e} \/ N = M \ {e},
         NEW d \in Nat, NEW f \in Nat, d <= f,
         Within(q, x, v, M, d)
  PROVE  Within([q EXCEPT !.late = @ + 1], x, w, N, f)
<1> DEFINE p == [q EXCEPT !.late = @ + 1]
<1>1. /\ p.op = q.op /\ p.phase = q.phase /\ p.liking = q.liking /\ p.seen = q.seen
      /\ p.late = q.late + 1
      /\ q.late \in Nat /\ q.seen \in Nat
      /\ q.op \in Ops
  BY DEF Request
<1>2. /\ Cardinality(M) \in Nat /\ Cardinality(N) \in Nat
      /\ Distance(Cardinality(M), Cardinality(N)) <= 1
  BY OneMore
<1>3. IsFiniteSet(M \ {x}) /\ (N \ {x} = (M \ {x}) \cup {e} \/ N \ {x} = (M \ {x}) \ {e} \/ N \ {x} = M \ {x})
  BY FS_RemoveElement
<1>4. /\ Cardinality(M \ {x}) \in Nat /\ Cardinality(N \ {x}) \in Nat
      /\ Distance(Cardinality(M \ {x}), Cardinality(N \ {x})) <= 1
  <2>1. CASE N \ {x} = M \ {x}
    <3>1. Cardinality(M \ {x}) \in Nat
      BY <1>3, FS_CardinalityType
    <3>2. \A m \in Nat : Distance(m, m) <= 1
      BY DEF Distance
    <3> QED
      BY <2>1, <3>1, <3>2
  <2>2. CASE N \ {x} = (M \ {x}) \cup {e} \/ N \ {x} = (M \ {x}) \ {e}
    BY <1>3, <2>2, OneMore
  <2> QED
    BY <1>3, <2>1, <2>2
<1> HIDE DEF p
<1>5. ASSUME NEW m \in Nat, NEW n \in Nat, Distance(m, n) <= 1,
             Near(q.seen, m, d + q.late)
      PROVE  Near(p.seen, n, f + p.late)
  BY <1>1, <1>5 DEF Near, Distance
<1>6. ASSUME NEW m \in Nat, NEW n \in Nat, Distance(m, n) <= 1,
             Near(q.seen, m + 1, d + q.late)
      PROVE  Near(p.seen, n + 1, f + p.late)
  BY <1>1, <1>6 DEF Near, Distance
<1>7. p.late # 0
  BY <1>1
<1>8. Within(p, x, w, N, f)
  BY <1>1, <1>2, <1>4, <1>5, <1>6, <1>7 DEF Within, Ops
<1> QED
  BY <1>8 DEF p

-----------------------------------------------------------------------------
(* Steps that change requests only *)

LEMMA KeyFacts ==
  ASSUME Typed, NEW k \in Keys
  PROVE  /\ k \in Counters
         /\ Value(k) \in Nat /\ overtakes[k] \in Nat
         /\ IsFiniteSet(Members(k)) /\ Cardinality(Members(k)) \in Nat
<1>1. k \in Counters /\ Value(k) \in Nat /\ overtakes[k] \in Nat
  BY DEF Keys, Counters, Likeable, Value, Typed
<1>2. Members(k) \subseteq Users \/ Members(k) \subseteq Ids
  BY DEF Members, Likers, LiveReplies
<1>3. IsFiniteSet(Members(k))
  BY <1>2, FS_Subset
<1> QED
  BY <1>1, <1>3, FS_CardinalityType

LEMMA RequestStep ==
  ASSUME CommentsInv, NEW r \in Requests, NEW n \in Request,
         req' = [req EXCEPT ![r] = n],
         UNCHANGED <<comment, likes, replies, liked, overtakes>>,
         Rooted(r)', Pending(r)'
  PROVE  CommentsInv'
<1>1. Typed'
  BY DEF CommentsInv, Typed
<1>2. ASSUME NEW q \in Requests, q # r PROVE Rooted(q)' /\ Pending(q)'
  <2>1. req'[q] = req[q]
    BY <1>2 DEF CommentsInv, Typed
  <2>2. Key(q)' = Key(q) /\ Member(q)' = Member(q)
    BY <2>1 DEF Key, CounterOf, Member
  <2>3. Rooted(q)'
    BY <2>1 DEF CommentsInv, Rooted, UnderWay
  <2>4. Value(Key(q))' = Value(Key(q)) /\ Members(Key(q))' = Members(Key(q))
    BY <2>2 DEF Value, Members, Likers, LiveReplies, Live
  <2>5. Pending(q)
    BY DEF CommentsInv
  <2>6. Pending(q)'
    BY <2>1, <2>2, <2>4, <2>5 DEF Pending, UnderWay
  <2> QED
    BY <2>3, <2>6
<1>3. Drift'
  BY DEF CommentsInv, Drift, Value, Members, Likers, LiveReplies, Live
<1> QED
  BY <1>1, <1>2, <1>3 DEF CommentsInv

LEMMA OverStep ==
  ASSUME CommentsInv, NEW r \in Requests, Over(r)
  PROVE  CommentsInv'
<1> DEFINE n == [req[r] EXCEPT !.phase = "over"]
<1>1. n \in Request /\ n.phase = "over"
  BY DEF CommentsInv, Typed, Request, Phases
<1>2. req' = [req EXCEPT ![r] = n]
  BY DEF Over
<1>3. req'[r].phase = "over"
  BY <1>1, <1>2 DEF CommentsInv, Typed
<1>4. Rooted(r)' /\ Pending(r)'
  BY <1>3 DEF Rooted, Pending, UnderWay
<1> QED
  BY <1>1, <1>2, <1>4, RequestStep DEF Over

LEMMA SendStep ==
  ASSUME CommentsInv, NEW r \in Requests, Send(r)
  PROVE  CommentsInv'
<1>1. PICK u \in Users, b \in Boards, op \in Ops, on \in Likeable \cup {None} :
        /\ Arrive(r, u, op, on, b)
        /\ on = None => op = "create"
        /\ op # "like" => on \in Ids \cup {None}
  <2>1. PICK u \in Users, b \in Boards :
          \/ \E p \in Ids \cup {None} : Arrive(r, u, "create", p, b)
          \/ \E c \in Ids, op \in {"update", "delete"} : Arrive(r, u, op, c, b)
          \/ \E t \in Likeable : Arrive(r, u, "like", t, b)
    BY DEF Send
  <2>2. None \notin Likeable
    BY DEF Likeable
  <2>3. CASE \E p \in Ids \cup {None} : Arrive(r, u, "create", p, b)
    BY <2>3 DEF Ops, Likeable
  <2>4. CASE \E c \in Ids, op \in {"update", "delete"} : Arrive(r, u, op, c, b)
    BY <2>2, <2>4 DEF Ops, Likeable
  <2>5. CASE \E t \in Likeable : Arrive(r, u, "like", t, b)
    BY <2>2, <2>5 DEF Ops
  <2> QED
    BY <2>1, <2>3, <2>4, <2>5
<1>2. PICK who \in Identity(u) :
        /\ req[r].phase = "new"
        /\ req' = [req EXCEPT ![r] =
             IF who = Nobody
             THEN [Fresh EXCEPT !.phase = "over"]
             ELSE [Fresh EXCEPT !.phase = "read", !.by = u, !.op = op, !.on = on, !.board = b]]
        /\ UNCHANGED <<comment, likes, replies, liked, overtakes>>
  BY <1>1 DEF Arrive
<1> DEFINE n == IF who = Nobody THEN [Fresh EXCEPT !.phase = "over"]
                ELSE [Fresh EXCEPT !.phase = "read", !.by = u, !.op = op, !.on = on, !.board = b]
<1>3. n \in Request
  BY <1>1 DEF Fresh, Request, Phases, Ops
<1>4. \/ n.phase = "over"
      \/ n.phase = "read" /\ n.by = u /\ n.op = op /\ n.on = on /\ n.board = b
  BY DEF Fresh
<1>5. req'[r] = n
  BY <1>2 DEF CommentsInv, Typed
<1>6. comment'[r] = None
  BY <1>2 DEF CommentsInv, Rooted
<1> HIDE DEF n
<1>7. Rooted(r)'
  BY <1>1, <1>4, <1>5, <1>6 DEF Rooted, UnderWay
<1>8. Pending(r)'
  BY <1>4, <1>5 DEF Pending, UnderWay
<1> QED
  BY <1>2, <1>3, <1>7, <1>8, RequestStep DEF n

\* A request that r's first or second read takes on.
LEMMA AdvanceStep ==
  ASSUME CommentsInv, NEW r \in Requests,
         NEW phase \in {"checked", "ready"}, NEW seen \in Nat, NEW liking \in BOOLEAN,
         Advance(r, phase, seen, liking),
         req[r].phase \in {"read", "checked"},
         req[r].on # None,
         req[r].on \in Ids => comment[req[r].on] # None,
         phase = "ready" => req[r].op \in {"like", "delete"},
         phase = "ready" /\ req[r].op = "delete" => comment[req[r].on].parent # None,
         Key(r) \in Keys =>
           Within([req[r] EXCEPT !.phase = phase, !.seen = seen, !.liking = liking],
                  Member(r), Value(Key(r)), Members(Key(r)), overtakes[Key(r)])
  PROVE  CommentsInv'
<1> DEFINE n == [req[r] EXCEPT !.phase = phase, !.seen = seen, !.liking = liking]
<1>1. /\ n \in Request
      /\ n.phase = phase /\ n.seen = seen /\ n.liking = liking
      /\ n.op = req[r].op /\ n.on = req[r].on /\ n.by = req[r].by /\ n.board = req[r].board
  BY ZenonT(40) DEF CommentsInv, Typed, Request, Phases
<1>2. req' = [req EXCEPT ![r] = n] /\ UNCHANGED <<comment, likes, replies, liked, overtakes>>
  BY DEF Advance
<1>3. req'[r] = n
  BY <1>2 DEF CommentsInv, Typed
<1> HIDE DEF n
<1>4. Key(r)' = Key(r) /\ Member(r)' = Member(r)
  BY <1>1, <1>2, <1>3 DEF Key, CounterOf, Member
<1>5. Value(Key(r))' = Value(Key(r)) /\ Members(Key(r))' = Members(Key(r))
  BY <1>2, <1>4 DEF Value, Members, Likers, LiveReplies, Live
<1>6. Rooted(r)'
  BY <1>1, <1>2, <1>3 DEF CommentsInv, Rooted, UnderWay
<1>7. Key(r) \in Keys => Within(n, Member(r), Value(Key(r)), Members(Key(r)), overtakes[Key(r)])
  BY DEF n
<1>8. Pending(r)'
  BY <1>2, <1>3, <1>4, <1>5, <1>7 DEF Pending
<1> QED
  BY <1>1, <1>2, <1>6, <1>8, RequestStep

-----------------------------------------------------------------------------
(* Reads *)

LEMMA ReadRowStep ==
  ASSUME CommentsInv, NEW r \in Requests, ReadRow(r)
  PROVE  CommentsInv'
<1> DEFINE q == req[r]
           k == Key(r)
           n == [q EXCEPT !.phase = "checked", !.seen = SeenAtFirst(r), !.liking = FALSE]
<1>1. CASE Wrong(r)
  BY <1>1, OverStep DEF ReadRow
<1>2. CASE ~Wrong(r)
  <2>1. q \in Request /\ Rooted(r)
    BY DEF CommentsInv, Typed
  <2>2. q.phase = "read" /\ q.on # None /\ Advance(r, "checked", SeenAtFirst(r), FALSE)
    BY <1>2, <2>1 DEF ReadRow, NeedsRow, Rooted
  <2>3. q.on \in Ids => comment[q.on] # None /\ ~comment[q.on].deleted
    BY <1>2 DEF Wrong, Missing, Deleted
  <2>4. SeenAtFirst(r) \in Nat
    BY <2>1, <2>2 DEF SeenAtFirst, CommentsInv, Typed, Request, Rooted
  <2>5. /\ n.op = q.op /\ n.phase = "checked" /\ n.seen = SeenAtFirst(r)
        /\ n.liking = FALSE /\ n.late = q.late /\ q.late \in Nat
    BY <2>1 DEF Request
  <2> HIDE DEF n
  <2>6. ASSUME k \in Keys
        PROVE  Within(n, Member(r), Value(k), Members(k), overtakes[k])
    <3>1. /\ Near(Value(k), Cardinality(Members(k)), overtakes[k])
          /\ Value(k) \in Nat /\ overtakes[k] \in Nat /\ Cardinality(Members(k)) \in Nat
      BY <2>6, KeyFacts DEF CommentsInv, Drift
    <3>2. Near(Value(k), Cardinality(Members(k)), overtakes[k] + q.late)
      BY <2>5, <3>1 DEF Near, Distance
    <3>3. CASE q.op = "like"
      <4>1. k = <<"likes", q.on>>
        BY <3>3 DEF Key, CounterOf
      <4>2. Value(k) = SeenAtFirst(r)
        BY <3>3, <4>1 DEF Value, SeenAtFirst
      <4> QED
        BY <2>5, <3>2, <3>3, <4>2 DEF Within
    <3>4. CASE q.op = "create"
      <4>1. k = <<"replies", q.on>>
        BY <2>2, <3>4 DEF Key, CounterOf
      <4>2. Value(k) = SeenAtFirst(r)
        BY <3>4, <4>1 DEF Value, SeenAtFirst
      <4>3. Member(r) = r /\ comment[r] = None
        BY <2>1, <2>2, <3>4 DEF Member, Rooted
      <4>4. Members(k) \ {r} = Members(k)
        BY <4>1, <4>3 DEF Members, LiveReplies, Live
      <4> QED
        BY <2>5, <3>2, <3>4, <4>2, <4>3, <4>4 DEF Within
    <3>5. CASE q.op \notin {"like", "create"}
      <4>1. q.op = "delete" /\ k = <<"replies", comment[q.on].parent>> /\ q.on \in Ids
        BY <2>6, <3>5 DEF Key, CounterOf, Keys
      <4>2. Member(r) = q.on
        BY <4>1 DEF Member
      <4>3. q.on \in Members(k)
        BY <2>3, <4>1 DEF Members, LiveReplies, Live
      <4> QED
        BY <2>5, <4>1, <4>2, <4>3 DEF Within
    <3> QED
      BY <3>3, <3>4, <3>5
  <2> QED
    BY <2>2, <2>3, <2>4, <2>6, AdvanceStep DEF n
<1> QED
  BY <1>1, <1>2

LEMMA ReadLikeStep ==
  ASSUME CommentsInv, NEW r \in Requests, ReadLike(r)
  PROVE  CommentsInv'
<1> DEFINE q == req[r]
           k == Key(r)
           liking == <<q.on, q.by>> \notin liked
           n == [q EXCEPT !.phase = "ready", !.seen = q.seen, !.liking = liking]
<1>1. q \in Request /\ Rooted(r) /\ Pending(r)
  BY DEF CommentsInv, Typed
<1>2. /\ q.phase = "checked" /\ q.op = "like" /\ q.on # None
      /\ Advance(r, "ready", q.seen, liking)
      /\ q.on \in Ids => comment[q.on] # None
  BY <1>1 DEF ReadLike, Rooted, UnderWay
<1>3. /\ n.op = "like" /\ n.phase = "ready" /\ n.seen = q.seen /\ q.seen \in Nat
      /\ n.liking = liking /\ n.late = q.late /\ q.late \in Nat
  BY <1>1, <1>2 DEF Request
<1> HIDE DEF n
<1>4. ASSUME k \in Keys
      PROVE  Within(n, Member(r), Value(k), Members(k), overtakes[k])
  <2>1. k = <<"likes", q.on>> /\ Member(r) = q.by
    BY <1>2 DEF Key, CounterOf, Member
  <2>2. q.by \in Users
    BY <1>1, <1>2 DEF Rooted
  <2>3. q.by \in Members(k) <=> ~liking
    BY <2>1, <2>2 DEF Members, Likers
  <2>4. /\ Near(q.seen, Cardinality(Members(k)), overtakes[k] + q.late)
        /\ q.late = 0 => q.seen = Value(k)
    BY <1>1, <1>2, <1>4 DEF Pending, UnderWay, Within
  <2>5. IsFiniteSet(Members(k)) /\ Cardinality(Members(k)) \in Nat
    BY <1>4, KeyFacts DEF CommentsInv
  <2>6. CASE liking
    <3>1. Members(k) \ {Member(r)} = Members(k)
      BY <2>1, <2>3, <2>6
    <3> QED
      BY <1>3, <2>4, <2>6, <3>1 DEF Within
  <2>7. CASE ~liking
    <3>1. Cardinality(Members(k) \ {q.by}) = Cardinality(Members(k)) - 1
      BY <2>3, <2>5, <2>7, FS_RemoveElement
    <3>2. Cardinality(Members(k) \ {Member(r)}) + 1 = Cardinality(Members(k))
      BY <2>1, <2>5, <3>1
    <3> QED
      BY <1>3, <2>1, <2>3, <2>4, <2>7, <3>2 DEF Within
  <2> QED
    BY <2>6, <2>7
<1> QED
  BY <1>2, <1>3, <1>4, AdvanceStep DEF n

LEMMA ReadParentStep ==
  ASSUME CommentsInv, NEW r \in Requests, ReadParent(r)
  PROVE  CommentsInv'
<1> DEFINE q == req[r]
           k == Key(r)
           n == [q EXCEPT !.phase = "ready", !.seen = replies[ParentOf(r)], !.liking = FALSE]
<1>1. q \in Request /\ Rooted(r) /\ Pending(r)
  BY DEF CommentsInv, Typed
<1>2. /\ q.phase = "checked" /\ q.op = "delete" /\ q.on \in Ids
      /\ Advance(r, "ready", replies[ParentOf(r)], FALSE)
      /\ comment[q.on] # None
      /\ comment[q.on].parent # None /\ ParentOf(r) = comment[q.on].parent
  BY <1>1 DEF ReadParent, Rooted, UnderWay, ParentOf
<1>3. ParentOf(r) \in Ids
  BY <1>2 DEF CommentsInv, Typed, Rows
<1>4. k = <<"replies", ParentOf(r)>> /\ Member(r) = q.on
  BY <1>2 DEF Key, CounterOf, Member
<1>5. k \in Keys /\ Value(k) = replies[ParentOf(r)]
  BY <1>3, <1>4 DEF Keys, Value
<1>6. /\ n.op = "delete" /\ n.phase = "ready" /\ n.seen = Value(k)
      /\ n.late = q.late /\ q.late \in Nat
  BY <1>1, <1>2, <1>5 DEF Request
<1> HIDE DEF n
<1>7. q.late = 0 => q.on \in Members(k)
  BY <1>1, <1>2, <1>4, <1>5 DEF Pending, UnderWay, Within
<1>8. /\ Near(Value(k), Cardinality(Members(k)), overtakes[k])
      /\ Value(k) \in Nat /\ overtakes[k] \in Nat
      /\ IsFiniteSet(Members(k)) /\ Cardinality(Members(k)) \in Nat
  BY <1>5, KeyFacts DEF CommentsInv, Drift
<1>9. Near(Value(k), Cardinality(Members(k) \ {q.on}) + 1, overtakes[k] + q.late)
  <2>1. ASSUME NEW v \in Nat, NEW m \in Nat, NEW d \in Nat, NEW l \in Nat, Near(v, m, d)
        PROVE  Near(v, m, d + l) /\ (l # 0 => Near(v, m + 1, d + l))
    BY <2>1 DEF Near, Distance
  <2>2. /\ Near(Value(k), Cardinality(Members(k)), overtakes[k] + q.late)
        /\ q.late # 0 => Near(Value(k), Cardinality(Members(k)) + 1, overtakes[k] + q.late)
    BY <1>6, <1>8, <2>1
  <2>3. CASE q.on \in Members(k)
    <3>1. Cardinality(Members(k) \ {q.on}) = Cardinality(Members(k)) - 1
      BY <1>8, <2>3, FS_RemoveElement
    <3>2. Cardinality(Members(k) \ {q.on}) + 1 = Cardinality(Members(k))
      BY <1>8, <3>1
    <3> QED
      BY <2>2, <3>2
  <2>4. CASE q.on \notin Members(k)
    <3>1. Members(k) \ {q.on} = Members(k) /\ q.late # 0
      BY <1>7, <2>4
    <3> QED
      BY <2>2, <3>1
  <2> QED
    BY <2>3, <2>4
<1>10. Within(n, Member(r), Value(k), Members(k), overtakes[k])
  BY <1>4, <1>6, <1>7, <1>9 DEF Within
<1>11. replies[ParentOf(r)] \in Nat
  BY <1>5, <1>8
<1> QED
  BY <1>2, <1>10, <1>11, AdvanceStep DEF n

-----------------------------------------------------------------------------
(* Commits *)

\* A commit of r on counter k moves the members of k by one, leaves the other
\* counters alone and writes a value near enough to the new members.  Where k is
\* no counter, nothing that is counted changes.
LEMMA CommitStep ==
  ASSUME CommentsInv, NEW r \in Requests, NEW k, k = Key(r),
         Counted(r),
         comment' \in [Ids -> Rows \cup {None}],
         likes' \in [Likeable -> Nat],
         replies' \in [Ids -> Nat],
         liked' \subseteq Likeable \X Users,
         \A c \in Ids : comment[c] # None =>
           comment'[c] # None /\ comment'[c].parent = comment[c].parent,
         \A c \in Requests \ {r} : comment[c] = None => comment'[c] = None,
         \A j \in Keys \ {k} : Value(j)' = Value(j) /\ Members(j)' = Members(j),
         NEW e,
         k \in Keys =>
           /\ Members(k)' = Members(k) \cup {e} \/ Members(k)' = Members(k) \ {e}
           /\ Near(Value(k)', Cardinality(Members(k)'), overtakes[k] + req[r].late)
  PROVE  CommentsInv'
<1> DEFINE Bumped(q) == [req[q] EXCEPT !.late = @ + 1]
<1>1. /\ req' = [q \in Requests |->
            IF q = r THEN [req[q] EXCEPT !.phase = "over"]
            ELSE IF k \in Counters /\ UnderWay(req[q]) /\ CounterOf(req[q]) = k
            THEN Bumped(q) ELSE req[q]]
      /\ overtakes' = [j \in Counters |->
            IF j = k THEN overtakes[j] + req[r].late ELSE overtakes[j]]
  BY DEF Counted, Key
<1>2. \A q \in Requests : req[q] \in Request
  BY DEF CommentsInv, Typed
<1>3. Typed'
  <2>1. req' \in [Requests -> Request]
    BY <1>1, <1>2 DEF Request, Phases
  <2>2. overtakes' \in [Counters -> Nat]
    BY <1>1, <1>2 DEF CommentsInv, Typed, Request
  <2> QED
    BY <2>1, <2>2 DEF Typed
<1>4. req'[r].phase = "over"
  BY <1>1, <1>2 DEF Request
<1>5. Rooted(r)' /\ Pending(r)'
  BY <1>4 DEF Rooted, Pending, UnderWay
<1>6. ASSUME NEW q \in Requests, q # r PROVE Rooted(q)' /\ Pending(q)'
  <2>1. req'[q] = IF k \in Counters /\ UnderWay(req[q]) /\ Key(q) = k
                  THEN Bumped(q) ELSE req[q]
    BY <1>1, <1>6 DEF Key
  <2>2. /\ Bumped(q).phase = req[q].phase /\ Bumped(q).op = req[q].op
        /\ Bumped(q).by = req[q].by /\ Bumped(q).on = req[q].on
        /\ Bumped(q).board = req[q].board
    BY <1>2 DEF Request
  <2>3. /\ req'[q].phase = req[q].phase /\ req'[q].op = req[q].op
        /\ req'[q].by = req[q].by /\ req'[q].on = req[q].on /\ req'[q].board = req[q].board
    BY <2>1, <2>2
  <2>4. Rooted(q) /\ Pending(q)
    BY DEF CommentsInv
  <2>5. q \in Ids /\ (comment[q] = None => comment'[q] = None)
    BY <1>6 DEF Ids
  <2>6. UnderWay(req[q]) /\ req[q].on \in Ids => comment'[req[q].on] # None
    BY <2>4 DEF Rooted
  <2>7. req[q].phase = "ready" /\ req[q].op = "delete" =>
          comment'[req[q].on].parent # None
    <3>1. SUFFICES ASSUME req[q].phase = "ready", req[q].op = "delete"
                   PROVE  comment'[req[q].on].parent # None
      OBVIOUS
    <3>2. req[q].on \in Ids /\ comment[req[q].on] # None
      BY <2>4, <3>1 DEF Rooted, UnderWay
    <3>3. comment[req[q].on].parent # None
      BY <2>4, <3>1 DEF Rooted
    <3> QED
      BY <3>2, <3>3
  <2>8. Rooted(q)'
    BY <2>3, <2>4, <2>5, <2>6, <2>7 DEF Rooted, UnderWay
  <2>9. ASSUME UnderWay(req[q]) PROVE Key(q)' = Key(q)
    <3>1. req[q].on \in Ids =>
            /\ comment[req[q].on] # None /\ comment'[req[q].on] # None
            /\ comment'[req[q].on].parent = comment[req[q].on].parent
      BY <2>4, <2>9 DEF Rooted
    <3> QED
      BY <2>3, <3>1 DEF Key, CounterOf
  <2>10. Member(q)' = Member(q)
    BY <2>3 DEF Member
  <2>11. ASSUME UnderWay(req[q]), NEW j \in Keys, j = Key(q)
         PROVE  Within(req'[q], Member(q), Value(j)', Members(j)', overtakes'[j])
    <3>1. Within(req[q], Member(q), Value(j), Members(j), overtakes[j])
      BY <2>4, <2>11 DEF Pending
    <3>2. /\ j \in Counters
          /\ Value(j) \in Nat /\ overtakes[j] \in Nat /\ IsFiniteSet(Members(j))
      BY KeyFacts DEF CommentsInv
    <3>3. Value(j)' \in Nat /\ overtakes'[j] \in Nat
      BY <1>3, <3>2 DEF Typed, Value, Keys, Likeable
    <3>4. CASE j # k
      BY <1>1, <2>1, <2>11, <3>1, <3>2, <3>4
    <3>5. CASE j = k
      <4>1. req'[q] = Bumped(q)
        BY <2>1, <2>11, <3>2, <3>5
      <4>2. overtakes'[j] = overtakes[j] + req[r].late /\ req[r].late \in Nat
        BY <1>1, <1>2, <3>2, <3>5 DEF Request
      <4>3. overtakes[j] <= overtakes'[j]
        BY <3>2, <4>2
      <4>4. Members(j)' = Members(j) \cup {e} \/ Members(j)' = Members(j) \ {e}
        BY <3>5
      <4>5. Within(Bumped(q), Member(q), Value(j)', Members(j)', overtakes'[j])
        BY <1>2, <2>11, <3>1, <3>2, <3>3, <4>3, <4>4, WithinCommit
      <4> QED
        BY <4>1, <4>5
    <3> QED
      BY <3>4, <3>5
  <2>12. Pending(q)'
    <3>1. SUFFICES ASSUME UnderWay(req'[q]), NEW j \in Keys, j = Key(q)'
                   PROVE  Within(req'[q], Member(q)', Value(j)', Members(j)', overtakes'[j])
      BY DEF Pending, Value, Members, Likers, LiveReplies, Live, UnderWay
    <3>2. UnderWay(req[q]) /\ j = Key(q)
      BY <2>3, <2>9, <3>1 DEF UnderWay
    <3> QED
      BY <2>10, <2>11, <3>2
  <2> QED
    BY <2>8, <2>12
<1>7. Drift'
  <2>1. SUFFICES ASSUME NEW j \in Keys
                 PROVE  Near(Value(j)', Cardinality(Members(j)'), overtakes'[j])
    BY DEF Drift, Value, Members, Likers, LiveReplies, Live, Near, Distance
  <2>2. j \in Counters /\ Near(Value(j), Cardinality(Members(j)), overtakes[j])
    BY KeyFacts DEF CommentsInv, Drift
  <2> QED
    BY <1>1, <2>2
<1> QED
  BY <1>3, <1>5, <1>6, <1>7 DEF CommentsInv

\* What is written when a member is added.
LEMMA AddedNear ==
  ASSUME NEW M, IsFiniteSet(M), NEW x, x \notin M,
         NEW v \in Nat, NEW d \in Nat, Near(v, Cardinality(M \ {x}), d)
  PROVE  Near(v + 1, Cardinality(M \cup {x}), d)
<1>1. M \ {x} = M
  OBVIOUS
<1>2. Cardinality(M) \in Nat /\ Cardinality(M \cup {x}) = Cardinality(M) + 1
  BY FS_AddElement, FS_CardinalityType
<1>3. Near(v, Cardinality(M), d)
  BY <1>1
<1>4. ASSUME NEW m \in Nat, Near(v, m, d) PROVE Near(v + 1, m + 1, d)
  BY <1>4 DEF Near, Distance
<1> QED
  BY <1>2, <1>3, <1>4

\* What is written when a member is removed: a counter read as 0 keeps its value.
LEMMA RemovedNear ==
  ASSUME NEW M, IsFiniteSet(M), NEW x,
         NEW v \in Nat, NEW w \in Nat, NEW d \in Nat, NEW l \in Nat,
         Near(v, Cardinality(M \ {x}) + 1, d + l),
         l = 0 => x \in M /\ v = w,
         Near(w, Cardinality(M), d)
  PROVE  Near(Decremented(v, w), Cardinality(M \ {x}), d + l)
<1> DEFINE m == Cardinality(M)
           n == Cardinality(M \ {x})
<1>1. m \in Nat /\ n \in Nat /\ Distance(m, n) <= 1
  BY OneMore
<1> HIDE DEF m, n
<1>2. CASE v # 0
  <2>1. Near(v - 1, n, d + l)
    BY <1>1, <1>2 DEF Near, Distance, n
  <2> QED
    BY <1>2, <2>1 DEF Decremented, n
<1>3. CASE v = 0 /\ l = 0
  <2>1. Near(w, n, d + l)
    BY <1>1, <1>3 DEF Near, Distance, n
  <2> QED
    BY <1>3, <2>1 DEF Decremented, n
<1>4. CASE v = 0 /\ l # 0
  <2>1. Near(w, n, d + l)
    BY <1>1, <1>4 DEF Near, Distance, m
  <2> QED
    BY <1>4, <2>1 DEF Decremented, n
<1> QED
  BY <1>2, <1>3, <1>4

LEMMA KeyShape ==
  ASSUME NEW k \in Keys
  PROVE  \/ \E t \in Likeable : k = <<"likes", t>> /\ Value(k) = likes[t] /\ Members(k) = Likers(t)
         \/ \E c \in Ids : k = <<"replies", c>> /\ Value(k) = replies[c] /\ Members(k) = LiveReplies(c)
BY DEF Keys, Value, Members

LEMMA LikeStep ==
  ASSUME CommentsInv, NEW r \in Requests, Like(r)
  PROVE  CommentsInv'
<1>0. PICK q, t, k : q = req[r] /\ t = q.on /\ k = <<"likes", t>>
  OBVIOUS
<1>1. q \in Request /\ Rooted(r) /\ Pending(r) /\ Typed
  BY <1>0 DEF CommentsInv, Typed
<1>2. /\ q.phase = "ready" /\ q.op = "like" /\ q.liking
      /\ <<t, q.by>> \notin liked
      /\ liked' = liked \cup {<<t, q.by>>}
      /\ likes' = [likes EXCEPT ![t] = q.seen + 1]
      /\ Counted(r)
      /\ comment' = comment /\ replies' = replies
  BY <1>0 DEF Like
<1>3. q.by \in Users /\ t \in Likeable /\ q.seen \in Nat /\ q.late \in Nat
  BY <1>0, <1>1, <1>2 DEF Rooted, Request
<1>4. Key(r) = k /\ Member(r) = q.by /\ k \in Keys
  BY <1>0, <1>2, <1>3 DEF Key, CounterOf, Member, Keys
<1>5. q.by \notin Members(k) /\ Members(k)' = Members(k) \cup {q.by}
  BY <1>0, <1>2, <1>3 DEF Members, Likers
<1>6. Value(k)' = q.seen + 1
  BY <1>0, <1>1, <1>2, <1>3 DEF Value, Typed
<1>7. Near(q.seen, Cardinality(Members(k) \ {q.by}), overtakes[k] + q.late)
  BY <1>0, <1>1, <1>2, <1>4 DEF Pending, UnderWay, Within
<1>8. Near(Value(k)', Cardinality(Members(k)'), overtakes[k] + q.late)
  <2>1. IsFiniteSet(Members(k)) /\ overtakes[k] + q.late \in Nat
    BY <1>0, <1>1, <1>3, <1>4, KeyFacts
  <2> QED
    BY <1>0, <1>3, <1>5, <1>6, <1>7, <2>1, AddedNear
<1>9. ASSUME NEW j \in Keys, j # k
      PROVE  Value(j)' = Value(j) /\ Members(j)' = Members(j)
  <2>1. CASE \E u \in Likeable : j = <<"likes", u>>
    BY <1>0, <1>1, <1>2, <1>9, <2>1 DEF Value, Members, Likers, Typed
  <2>2. CASE \E c \in Ids : j = <<"replies", c>>
    BY <1>0, <1>2, <2>2 DEF Value, Members, LiveReplies, Live
  <2> QED
    BY <2>1, <2>2, KeyShape
<1>10. /\ likes' \in [Likeable -> Nat]
       /\ liked' \subseteq Likeable \X Users
  BY <1>0, <1>1, <1>2, <1>3 DEF Typed
<1> QED
  BY <1>0, <1>1, <1>2, <1>4, <1>5, <1>8, <1>9, <1>10, CommitStep DEF Typed

LEMMA UnlikeStep ==
  ASSUME CommentsInv, NEW r \in Requests, Unlike(r)
  PROVE  CommentsInv'
<1>0. PICK q, t, k : q = req[r] /\ t = q.on /\ k = <<"likes", t>>
  OBVIOUS
<1>1. q \in Request /\ Rooted(r) /\ Pending(r) /\ Typed
  BY <1>0 DEF CommentsInv, Typed
<1>2. /\ q.phase = "ready" /\ q.op = "like" /\ ~q.liking
      /\ liked' = liked \ {<<t, q.by>>}
      /\ likes' = [likes EXCEPT ![t] = Decremented(q.seen, likes[t])]
      /\ Counted(r)
      /\ comment' = comment /\ replies' = replies
  BY <1>0 DEF Unlike
<1>3. q.by \in Users /\ t \in Likeable /\ q.seen \in Nat /\ q.late \in Nat
  BY <1>0, <1>1, <1>2 DEF Rooted, Request, Unlike, Likeable
<1>4. Key(r) = k /\ Member(r) = q.by /\ k \in Keys
  BY <1>0, <1>2, <1>3 DEF Key, CounterOf, Member, Keys
<1>5. Members(k)' = Members(k) \ {q.by}
  BY <1>0, <1>2, <1>3 DEF Members, Likers
<1>6. Value(k)' = Decremented(q.seen, Value(k))
  BY <1>0, <1>1, <1>2, <1>3 DEF Value, Typed
<1>7. /\ Near(q.seen, Cardinality(Members(k) \ {q.by}) + 1, overtakes[k] + q.late)
      /\ q.late = 0 => q.by \in Members(k) /\ q.seen = Value(k)
  BY <1>0, <1>1, <1>2, <1>4 DEF Pending, UnderWay, Within
<1>8. Near(Value(k)', Cardinality(Members(k)'), overtakes[k] + q.late)
  <2>1. /\ IsFiniteSet(Members(k)) /\ overtakes[k] \in Nat /\ Value(k) \in Nat
        /\ Near(Value(k), Cardinality(Members(k)), overtakes[k])
    BY <1>0, <1>4, KeyFacts DEF CommentsInv, Drift
  <2>2. Near(Decremented(q.seen, Value(k)), Cardinality(Members(k) \ {q.by}),
             overtakes[k] + q.late)
    BY <1>3, <1>7, <2>1, RemovedNear
  <2> QED
    BY <1>5, <1>6, <2>2
<1>9. ASSUME NEW j \in Keys, j # k
      PROVE  Value(j)' = Value(j) /\ Members(j)' = Members(j)
  <2>1. CASE \E u \in Likeable : j = <<"likes", u>>
    BY <1>0, <1>1, <1>2, <1>9, <2>1 DEF Value, Members, Likers, Typed
  <2>2. CASE \E c \in Ids : j = <<"replies", c>>
    BY <1>0, <1>2, <2>2 DEF Value, Members, LiveReplies, Live
  <2> QED
    BY <2>1, <2>2, KeyShape
<1>10. likes' \in [Likeable -> Nat] /\ liked' \subseteq Likeable \X Users
  <2>1. Decremented(q.seen, likes[t]) \in Nat
    BY <1>0, <1>1, <1>3 DEF Decremented, Typed
  <2> QED
    BY <1>0, <1>1, <1>2, <2>1 DEF Typed
<1> QED
  BY <1>0, <1>1, <1>2, <1>4, <1>5, <1>8, <1>9, <1>10, CommitStep DEF Typed

LEMMA CreateReplyStep ==
  ASSUME CommentsInv, NEW r \in Requests, CreateReply(r)
  PROVE  CommentsInv'
<1>0. PICK q, p, k : q = req[r] /\ p = q.on /\ k = <<"replies", p>>
  OBVIOUS
<1>1. q \in Request /\ Rooted(r) /\ Pending(r) /\ Typed
  BY <1>0 DEF CommentsInv, Typed
<1>2. /\ q.phase = "checked" /\ q.op = "create"
      /\ comment' = [comment EXCEPT ![r] = NewRow(r)]
      /\ replies' = [replies EXCEPT ![p] = q.seen + 1]
      /\ Counted(r)
      /\ likes' = likes /\ liked' = liked
  BY <1>0 DEF CreateReply
<1>3. /\ p \in Ids /\ q.by \in Users /\ q.board \in Boards
      /\ q.seen \in Nat /\ q.late \in Nat
      /\ comment[r] = None /\ r \in Ids
  BY <1>0, <1>1, <1>2 DEF Rooted, Request, Ids
<1>4. Key(r) = k /\ Member(r) = r /\ k \in Keys
  BY <1>0, <1>2, <1>3 DEF Key, CounterOf, Member, Keys
<1>5. NewRow(r) \in Rows /\ NewRow(r).parent = p /\ ~NewRow(r).deleted
  BY <1>0, <1>3 DEF NewRow, Rows
<1>6. NewRow(r) # None
  BY <1>5
<1>7. r \notin Members(k) /\ Members(k)' = Members(k) \cup {r}
  <2>1. Members(k) = LiveReplies(p)
    BY <1>0 DEF Members
  <2>2. Members(k)' = LiveReplies(p)'
    BY <1>0 DEF Members
  <2>3. r \notin LiveReplies(p) /\ LiveReplies(p)' = LiveReplies(p) \cup {r}
    BY <1>1, <1>2, <1>3, <1>5, <1>6 DEF LiveReplies, Live, Typed
  <2> QED
    BY <2>1, <2>2, <2>3
<1>8. Value(k)' = q.seen + 1
  BY <1>0, <1>1, <1>2, <1>3 DEF Value, Typed
<1>9. Near(Value(k)', Cardinality(Members(k)'), overtakes[k] + q.late)
  <2>1. IsFiniteSet(Members(k)) /\ overtakes[k] + q.late \in Nat
    BY <1>1, <1>3, <1>4, KeyFacts
  <2>2. Near(q.seen, Cardinality(Members(k) \ {r}), overtakes[k] + q.late)
    BY <1>0, <1>1, <1>2, <1>4 DEF Pending, UnderWay, Within
  <2> QED
    BY <1>3, <1>7, <1>8, <2>1, <2>2, AddedNear
<1>10. ASSUME NEW j \in Keys, j # k
       PROVE  Value(j)' = Value(j) /\ Members(j)' = Members(j)
  <2>1. CASE \E t \in Likeable : j = <<"likes", t>>
    BY <1>2, <2>1 DEF Value, Members, Likers
  <2>2. CASE \E c \in Ids : j = <<"replies", c>>
    <3>1. PICK c \in Ids : j = <<"replies", c>>
      BY <2>2
    <3>2. c # p
      BY <1>0, <1>10, <3>1
    <3>3. LiveReplies(c)' = LiveReplies(c)
      BY <1>1, <1>2, <1>3, <1>5, <3>2 DEF LiveReplies, Live, Typed
    <3> QED
      BY <1>1, <1>2, <3>1, <3>2, <3>3 DEF Value, Members, Typed
  <2> QED
    BY <2>1, <2>2, KeyShape
<1>11. /\ comment' \in [Ids -> Rows \cup {None}]
       /\ replies' \in [Ids -> Nat]
       /\ \A c \in Ids : comment[c] # None =>
            comment'[c] # None /\ comment'[c].parent = comment[c].parent
       /\ \A c \in Requests \ {r} : comment[c] = None => comment'[c] = None
  BY <1>1, <1>2, <1>3, <1>5, <1>6 DEF Typed, Ids
<1> QED
  BY <1>0, <1>1, <1>2, <1>4, <1>7, <1>9, <1>10, <1>11, CommitStep DEF Typed

LEMMA CreateRootStep ==
  ASSUME CommentsInv, NEW r \in Requests, CreateRoot(r)
  PROVE  CommentsInv'
<1>0. PICK q, k : q = req[r] /\ k = Key(r)
  OBVIOUS
<1>1. q \in Request /\ Rooted(r) /\ Typed
  BY <1>0 DEF CommentsInv, Typed
<1>2. /\ q.phase = "read" /\ q.op = "create" /\ q.on = None
      /\ comment' = [comment EXCEPT ![r] = NewRow(r)]
      /\ Counted(r)
      /\ likes' = likes /\ liked' = liked /\ replies' = replies
  BY <1>0 DEF CreateRoot, NeedsRow
<1>3. q.by \in Users /\ q.board \in Boards /\ comment[r] = None /\ r \in Ids
  BY <1>0, <1>1, <1>2 DEF Rooted, Ids
<1>4. k \notin Keys
  BY <1>0, <1>2 DEF Key, CounterOf, Keys
<1>5. NewRow(r) \in Rows /\ NewRow(r).parent = None
  BY <1>0, <1>2, <1>3 DEF NewRow, Rows
<1>6. NewRow(r) # None
  BY <1>5
<1>7. ASSUME NEW j \in Keys
      PROVE  Value(j)' = Value(j) /\ Members(j)' = Members(j)
  <2>1. CASE \E t \in Likeable : j = <<"likes", t>>
    BY <1>2, <2>1 DEF Value, Members, Likers
  <2>2. CASE \E c \in Ids : j = <<"replies", c>>
    <3>1. PICK c \in Ids : j = <<"replies", c>>
      BY <2>2
    <3>2. c # None
      BY <3>1
    <3>3. LiveReplies(c)' = LiveReplies(c)
      BY <1>1, <1>2, <1>3, <1>5, <3>2 DEF LiveReplies, Live, Typed
    <3> QED
      BY <1>2, <3>1, <3>3 DEF Value, Members
  <2> QED
    BY <2>1, <2>2, KeyShape
<1>8. /\ comment' \in [Ids -> Rows \cup {None}]
      /\ \A c \in Ids : comment[c] # None =>
           comment'[c] # None /\ comment'[c].parent = comment[c].parent
      /\ \A c \in Requests \ {r} : comment[c] = None => comment'[c] = None
  BY <1>1, <1>2, <1>3, <1>5, <1>6 DEF Typed, Ids
<1> QED
  BY <1>0, <1>1, <1>2, <1>4, <1>7, <1>8, CommitStep DEF Typed

LEMMA UpdateStep ==
  ASSUME CommentsInv, NEW r \in Requests, Update(r)
  PROVE  CommentsInv'
<1>0. PICK q, k, c : q = req[r] /\ k = Key(r) /\ c = q.on
  OBVIOUS
<1>1. q \in Request /\ Rooted(r) /\ Typed
  BY <1>0 DEF CommentsInv, Typed
<1>2. /\ q.phase = "checked" /\ q.op = "update"
      /\ comment' = [comment EXCEPT ![c] = Edited(r)]
      /\ Counted(r)
      /\ likes' = likes /\ liked' = liked /\ replies' = replies
  BY <1>0 DEF Update
<1>3. c \in Ids /\ comment[c] \in Rows
  BY <1>0, <1>1, <1>2 DEF Rooted, UnderWay, Typed
<1>4. k \notin Keys
  BY <1>0, <1>2 DEF Key, CounterOf, Keys
<1>5. /\ Edited(r) \in Rows /\ Edited(r).parent = comment[c].parent
      /\ Edited(r).deleted = comment[c].deleted
  BY <1>0, <1>3 DEF Edited, Rows
<1>6. Edited(r) # None /\ comment[c] # None
  BY <1>3, <1>5
<1>7. ASSUME NEW d \in Ids PROVE LiveReplies(d)' = LiveReplies(d)
  BY <1>1, <1>2, <1>3, <1>5, <1>6 DEF LiveReplies, Live, Typed
<1>8. ASSUME NEW j \in Keys
      PROVE  Value(j)' = Value(j) /\ Members(j)' = Members(j)
  <2>1. CASE \E t \in Likeable : j = <<"likes", t>>
    BY <1>2, <2>1 DEF Value, Members, Likers
  <2>2. CASE \E d \in Ids : j = <<"replies", d>>
    BY <1>2, <1>7, <2>2 DEF Value, Members
  <2> QED
    BY <2>1, <2>2, KeyShape
<1>9. /\ comment' \in [Ids -> Rows \cup {None}]
      /\ \A d \in Ids : comment[d] # None =>
           comment'[d] # None /\ comment'[d].parent = comment[d].parent
      /\ \A d \in Requests \ {r} : comment[d] = None => comment'[d] = None
  BY <1>1, <1>2, <1>3, <1>5, <1>6 DEF Typed, Ids
<1> QED
  BY <1>0, <1>1, <1>2, <1>4, <1>8, <1>9, CommitStep DEF Typed

\* What a delete does to the comments, whether it is of a root or of a reply.
LEMMA DeletedRow ==
  ASSUME CommentsInv, NEW c \in Ids, comment[c] # None,
         NEW p, p = comment[c].parent,
         comment' = [comment EXCEPT ![c].deleted = TRUE]
  PROVE  /\ comment' \in [Ids -> Rows \cup {None}]
         /\ \A d \in Ids : comment[d] = None <=> comment'[d] = None
         /\ \A d \in Ids : comment[d] # None => comment'[d].parent = comment[d].parent
         /\ LiveReplies(p)' = LiveReplies(p) \ {c}
         /\ \A d \in Ids : d # p => LiveReplies(d)' = LiveReplies(d)
<1>1. comment \in [Ids -> Rows \cup {None}] /\ comment[c] \in Rows
  BY DEF CommentsInv, Typed
<1>0. PICK row : row = [comment[c] EXCEPT !.deleted = TRUE]
  OBVIOUS
<1>2. comment' = [comment EXCEPT ![c] = row]
  BY <1>0, <1>1
<1>3. row \in Rows /\ row.parent = p /\ row.deleted
  BY <1>0, <1>1 DEF Rows
<1>4. row # None
  BY <1>3
<1>5. comment' \in [Ids -> Rows \cup {None}]
  BY <1>1, <1>2, <1>3
<1>6. comment'[c] = row /\ \A d \in Ids : d # c => comment'[d] = comment[d]
  BY <1>1, <1>2
<1>7. LiveReplies(p)' = LiveReplies(p) \ {c}
  BY <1>3, <1>4, <1>6 DEF LiveReplies, Live
<1>8. ASSUME NEW d \in Ids, d # p PROVE LiveReplies(d)' = LiveReplies(d)
  BY <1>3, <1>6, <1>8 DEF LiveReplies, Live
<1> QED
  BY <1>3, <1>4, <1>5, <1>6, <1>7, <1>8

LEMMA DeleteStep ==
  ASSUME CommentsInv, NEW r \in Requests, Delete(r)
  PROVE  CommentsInv'
<1>0. PICK q, c, p, k : q = req[r] /\ c = q.on /\ p = comment[c].parent /\ k = Key(r)
  OBVIOUS
<1>1. q \in Request /\ Rooted(r) /\ Pending(r) /\ Typed
  BY <1>0 DEF CommentsInv, Typed
<1>2. /\ q.op = "delete" /\ q.phase \in {"checked", "ready"}
      /\ comment' = [comment EXCEPT ![c].deleted = TRUE]
      /\ Counted(r)
      /\ likes' = likes /\ liked' = liked
      /\ \/ q.phase = "checked" /\ p = None /\ replies' = replies
         \/ /\ q.phase = "ready"
            /\ replies' = [replies EXCEPT ![p] = Decremented(q.seen, replies[p])]
  BY <1>0 DEF Delete, ParentOf
<1>3. /\ c \in Ids /\ comment[c] # None /\ comment[c] \in Rows
      /\ q.seen \in Nat /\ q.late \in Nat
      /\ q.phase = "ready" => p # None
  BY <1>0, <1>1, <1>2 DEF Rooted, UnderWay, Typed, Request
<1>4. p \in Ids \cup {None}
  BY <1>0, <1>3 DEF Rows
<1>5. /\ comment' \in [Ids -> Rows \cup {None}]
      /\ \A d \in Ids : comment[d] = None <=> comment'[d] = None
      /\ \A d \in Ids : comment[d] # None => comment'[d].parent = comment[d].parent
      /\ LiveReplies(p)' = LiveReplies(p) \ {c}
      /\ \A d \in Ids : d # p => LiveReplies(d)' = LiveReplies(d)
  <2>1. p = comment[c].parent
    BY <1>0
  <2>2. c \in Ids /\ comment[c] # None /\ comment' = [comment EXCEPT ![c].deleted = TRUE]
    BY <1>2, <1>3
  <2> HIDE <1>0, <1>1, <1>2, <1>3
  <2> QED
    BY <2>1, <2>2, DeletedRow, ZenonT(40)
<1>6. \A d \in Requests \ {r} : comment[d] = None => comment'[d] = None
  BY <1>5 DEF Ids
<1>7. CASE q.phase = "checked"
  <2>1. p = None /\ replies' = replies
    BY <1>2, <1>7
  <2>2. k \notin Keys
    BY <1>0, <1>2, <2>1 DEF Key, CounterOf, Keys
  <2>3. ASSUME NEW j \in Keys
        PROVE  Value(j)' = Value(j) /\ Members(j)' = Members(j)
    <3>1. CASE \E t \in Likeable : j = <<"likes", t>>
      BY <1>2, <3>1 DEF Value, Members, Likers
    <3>2. CASE \E d \in Ids : j = <<"replies", d>>
      <4>1. PICK d \in Ids : j = <<"replies", d>>
        BY <3>2
      <4>2. d # p
        BY <2>1, <4>1
      <4> QED
        BY <1>5, <2>1, <4>1, <4>2 DEF Value, Members
    <3> QED
      BY <3>1, <3>2, KeyShape
  <2> QED
    BY <1>0, <1>1, <1>2, <1>5, <1>6, <2>1, <2>2, <2>3, CommitStep DEF Typed
<1>8. CASE q.phase = "ready"
  <2>1. p \in Ids /\ replies' = [replies EXCEPT ![p] = Decremented(q.seen, replies[p])]
    BY <1>2, <1>3, <1>4, <1>8
  <2>2. k = <<"replies", p>> /\ Member(r) = c /\ k \in Keys
    BY <1>0, <1>2, <1>3, <2>1 DEF Key, CounterOf, Member, Keys
  <2>3. Members(k)' = Members(k) \ {c}
    BY <1>5, <2>2 DEF Members
  <2>4. Value(k)' = Decremented(q.seen, Value(k))
    BY <1>1, <2>1, <2>2 DEF Value, Typed
  <2>5. Near(Value(k)', Cardinality(Members(k)'), overtakes[k] + q.late)
    <3>1. /\ Near(q.seen, Cardinality(Members(k) \ {c}) + 1, overtakes[k] + q.late)
          /\ q.late = 0 => c \in Members(k) /\ q.seen = Value(k)
      BY <1>0, <1>1, <1>2, <1>8, <2>2 DEF Pending, UnderWay, Within
    <3>2. /\ IsFiniteSet(Members(k)) /\ overtakes[k] \in Nat /\ Value(k) \in Nat
          /\ Near(Value(k), Cardinality(Members(k)), overtakes[k])
      BY <2>2, KeyFacts DEF CommentsInv, Drift
    <3>3. Near(Decremented(q.seen, Value(k)), Cardinality(Members(k) \ {c}),
               overtakes[k] + q.late)
      BY <1>3, <3>1, <3>2, RemovedNear
    <3> QED
      BY <2>3, <2>4, <3>3
  <2>6. ASSUME NEW j \in Keys, j # k
        PROVE  Value(j)' = Value(j) /\ Members(j)' = Members(j)
    <3>1. CASE \E t \in Likeable : j = <<"likes", t>>
      BY <1>2, <3>1 DEF Value, Members, Likers
    <3>2. CASE \E d \in Ids : j = <<"replies", d>>
      <4>1. PICK d \in Ids : j = <<"replies", d>>
        BY <3>2
      <4>2. d # p
        BY <2>2, <2>6, <4>1
      <4> QED
        BY <1>1, <1>5, <2>1, <4>1, <4>2 DEF Value, Members, Typed
    <3> QED
      BY <3>1, <3>2, KeyShape
  <2>7. replies' \in [Ids -> Nat]
    <3>1. Decremented(q.seen, replies[p]) \in Nat
      BY <1>1, <1>3, <2>1 DEF Decremented, Typed
    <3> QED
      BY <1>1, <2>1, <3>1 DEF Typed
  <2> QED
    BY <1>0, <1>1, <1>2, <1>5, <1>6, <2>2, <2>3, <2>5, <2>6, <2>7, CommitStep DEF Typed
<1> QED
  BY <1>2, <1>7, <1>8

-----------------------------------------------------------------------------
(* The invariant holds *)

LEMMA CommentsInit == Init => CommentsInv
<1> SUFFICES ASSUME Init PROVE CommentsInv
  OBVIOUS
<1>1. Typed
  <2>1. \A c \in Ids : Cardinality({d \in Seeds : SeedRow[d].parent = c /\ ~SeedRow[d].deleted}) \in Nat
    BY FS_Subset, FS_CardinalityType DEF Ids
  <2>2. Fresh \in Request
    BY DEF Fresh, Request, Phases, Ops
  <2> QED
    BY <2>1, <2>2 DEF Init, Typed, Ids
<1>2. ASSUME NEW r \in Requests PROVE Rooted(r) /\ Pending(r)
  <2>1. req[r] = Fresh /\ comment[r] = None
    BY DEF Init, Ids
  <2> QED
    BY <2>1 DEF Rooted, Pending, UnderWay, Fresh
<1>3. ASSUME NEW k \in Keys
      PROVE  Near(Value(k), Cardinality(Members(k)), overtakes[k])
  <2>1. k \in Counters /\ overtakes[k] = 0
    BY <1>1, KeyFacts DEF Init, Keys, Counters, Likeable
  <2>2. CASE \E t \in Likeable : k = <<"likes", t>>
    <3>1. Value(k) = 0 /\ Members(k) = {}
      BY <2>2 DEF Value, Members, Likers, Init
    <3> QED
      BY <2>1, <3>1, FS_EmptySet DEF Near, Distance
  <2>3. CASE \E c \in Ids : k = <<"replies", c>>
    <3>1. PICK c \in Ids : k = <<"replies", c>>
      BY <2>3
    <3>2. Members(k) = {d \in Seeds : SeedRow[d].parent = c /\ ~SeedRow[d].deleted}
      <4>1. Members(k) = LiveReplies(c)
        BY <3>1 DEF Members
      <4>2. \A d \in Seeds : SeedRow[d] \in Rows /\ SeedRow[d] # None
        OBVIOUS
      <4> QED
        BY <4>1, <4>2 DEF LiveReplies, Live, Init, Ids
    <3>3. Value(k) = Cardinality(Members(k))
      BY <3>1, <3>2 DEF Value, Init
    <3>4. Cardinality(Members(k)) \in Nat
      BY <1>1, KeyFacts
    <3> QED
      BY <2>1, <3>3, <3>4 DEF Near, Distance
  <2> QED
    BY <2>2, <2>3, KeyShape
<1> QED
  BY <1>1, <1>2, <1>3 DEF CommentsInv, Drift

LEMMA CommentsNext == CommentsInv /\ [Next]_vars => CommentsInv'
<1> SUFFICES ASSUME CommentsInv, [Next]_vars PROVE CommentsInv'
  OBVIOUS
<1>1. ASSUME NEW r \in Requests, Send(r) PROVE CommentsInv'
  BY <1>1, SendStep
<1>2. ASSUME NEW r \in Requests, Handle(r) PROVE CommentsInv'
  <2>1. CASE ReadRow(r)
    BY <2>1, ReadRowStep
  <2>2. CASE ReadLike(r)
    BY <2>2, ReadLikeStep
  <2>3. CASE ReadParent(r)
    BY <2>3, ReadParentStep
  <2>4. CASE CreateRoot(r)
    BY <2>4, CreateRootStep
  <2>5. CASE CreateReply(r)
    BY <2>5, CreateReplyStep
  <2>6. CASE Update(r)
    BY <2>6, UpdateStep
  <2>7. CASE Delete(r)
    BY <2>7, DeleteStep
  <2>8. CASE Like(r)
    BY <2>8, LikeStep
  <2>9. CASE Unlike(r)
    BY <2>9, UnlikeStep
  <2>10. CASE LikeAgain(r) \/ Fail(r)
    BY <2>10, OverStep DEF LikeAgain, Fail
  <2> QED
    BY <1>2, <2>1, <2>2, <2>3, <2>4, <2>5, <2>6, <2>7, <2>8, <2>9, <2>10 DEF Handle
<1>3. CASE UNCHANGED vars
  <2>1. /\ comment' = comment /\ likes' = likes /\ replies' = replies /\ liked' = liked
        /\ req' = req /\ overtakes' = overtakes
    BY <1>3 DEF vars
  <2>2. Typed'
    BY <2>1 DEF CommentsInv, Typed
  <2>3. \A k \in Keys : Value(k)' = Value(k) /\ Members(k)' = Members(k)
    BY <2>1 DEF Value, Members, Likers, LiveReplies, Live
  <2>4. ASSUME NEW r \in Requests PROVE Rooted(r)' /\ Pending(r)'
    <3>1. Rooted(r)'
      BY <2>1 DEF CommentsInv, Rooted, UnderWay
    <3>2. Key(r)' = Key(r) /\ Member(r)' = Member(r)
      BY <2>1 DEF Key, CounterOf, Member
    <3>3. Value(Key(r))' = Value(Key(r)) /\ Members(Key(r))' = Members(Key(r))
      BY <2>1, <3>2 DEF Value, Members, Likers, LiveReplies, Live
    <3>4. Pending(r)
      BY DEF CommentsInv
    <3>5. Pending(r)'
      BY <2>1, <3>2, <3>3, <3>4 DEF Pending
    <3> QED
      BY <3>1, <3>5
  <2>5. Drift'
    BY <2>1, <2>3 DEF CommentsInv, Drift, Value, Members, Likers, LiveReplies, Live, Near
  <2> QED
    BY <2>2, <2>4, <2>5 DEF CommentsInv
<1> QED
  BY <1>1, <1>2, <1>3 DEF Next

\* Whatever the requests and however their statements interleave, like_count and
\* reply_count are off the rows they count by no more than the commits that
\* overtook another: exact where requests on one counter do not overlap.
THEOREM CountersStayNear == Spec => []CountersDrift
<1>1. CommentsInv => CountersDrift
  <2> SUFFICES ASSUME CommentsInv PROVE CountersDrift
    OBVIOUS
  <2>1. ASSUME NEW t \in Likeable
        PROVE  Distance(likes[t], Cardinality(Likers(t))) <= overtakes[<<"likes", t>>]
    <3>1. <<"likes", t>> \in Keys
      BY DEF Keys
    <3> QED
      BY <3>1 DEF CommentsInv, Drift, Near, Value, Members
  <2>2. ASSUME NEW c \in Ids
        PROVE  Distance(replies[c], Cardinality(LiveReplies(c))) <= overtakes[<<"replies", c>>]
    <3>1. <<"replies", c>> \in Keys
      BY DEF Keys
    <3> QED
      BY <3>1 DEF CommentsInv, Drift, Near, Value, Members
  <2> QED
    BY <2>1, <2>2 DEF CountersDrift
<1> QED
  BY <1>1, CommentsInit, CommentsNext, PTL DEF Spec

\* No request undoes a deletion, whatever it read before.
THEOREM DeletionIsFinal == Spec => DeletedStaysDeleted
<1> DEFINE Kept == \A c \in Ids : comment[c] # None /\ comment[c].deleted =>
                     comment'[c] # None /\ comment'[c].deleted
<1>1. CommentsInv /\ [Next]_vars => [Kept]_vars
  <2> SUFFICES ASSUME CommentsInv, Next PROVE Kept
    BY DEF vars
  <2>1. comment \in [Ids -> Rows \cup {None}]
    BY DEF CommentsInv, Typed
  <2>2. CASE comment' = comment
    BY <2>2
  <2>3. ASSUME NEW r \in Requests, CreateRoot(r) \/ CreateReply(r) PROVE Kept
    <3>1. comment[r] = None /\ comment' = [comment EXCEPT ![r] = NewRow(r)]
      BY <2>3 DEF CreateRoot, CreateReply, CommentsInv, Rooted
    <3> QED
      BY <2>1, <3>1
  <2>4. ASSUME NEW r \in Requests, Update(r) PROVE Kept
    <3>1. PICK c : /\ c = req[r].on /\ c \in Ids /\ comment[c] \in Rows
                   /\ comment' = [comment EXCEPT ![c] = Edited(r)]
      BY <2>1, <2>4 DEF Update, CommentsInv, Rooted, UnderWay
    <3>2. Edited(r) \in Rows /\ Edited(r).deleted = comment[c].deleted
      BY <2>4, <3>1 DEF Edited, Rows
    <3> QED
      BY <2>1, <3>1, <3>2
  <2>5. ASSUME NEW r \in Requests, Delete(r) PROVE Kept
    <3>1. PICK c : /\ c = req[r].on /\ c \in Ids /\ comment[c] \in Rows
                   /\ comment' = [comment EXCEPT ![c].deleted = TRUE]
      BY <2>1, <2>5 DEF Delete, CommentsInv, Rooted, UnderWay
    <3>2. PICK row : row = [comment[c] EXCEPT !.deleted = TRUE]
      OBVIOUS
    <3>3. row \in Rows /\ row.deleted
      BY <3>1, <3>2 DEF Rows
    <3>4. comment' = [comment EXCEPT ![c] = row]
      BY <2>1, <3>1, <3>2
    <3> QED
      BY <2>1, <3>1, <3>3, <3>4, ZenonT(40)
  <2>6. PICK r \in Requests : Send(r) \/ Handle(r)
    BY DEF Next
  <2>7. CASE Send(r)
    <3>1. comment' = comment
      BY <2>7 DEF Send, Arrive
    <3> QED
      BY <2>2, <3>1
  <2>8. CASE Handle(r)
    <3>1. \/ CreateRoot(r) \/ CreateReply(r) \/ Update(r) \/ Delete(r)
          \/ comment' = comment
      BY <2>8 DEF Handle, ReadRow, ReadLike, ReadParent, Like, Unlike, LikeAgain, Fail,
                  Over, Advance
    <3> HIDE DEF Kept
    <3> QED
      BY <2>2, <2>3, <2>4, <2>5, <3>1
  <2> QED
    BY <2>6, <2>7, <2>8
<1> QED
  BY <1>1, CommentsInit, CommentsNext, PTL DEF Spec, DeletedStaysDeleted

-----------------------------------------------------------------------------
(* The order of the comments *)

Roots == {c \in Ids : comment[c] # None /\ comment[c].parent = None}

\* The order has every comment once, and those that are about to be created; a
\* parent is a root.
OrderInv ==
  /\ order \in Seq(Ids)
  /\ IsInjective(order)
  /\ \A c \in Ids : comment[c] # None =>
       /\ c \in Range(order)
       /\ comment[c].parent # None => comment[c].parent \in Roots
  /\ \A r \in Requests :
       /\ req[r].phase = "new" => r \notin Range(order)
       /\ req[r].op = "create" /\ req[r].phase \in {"read", "checked"} => r \in Range(order)
       /\ req[r].op = "create" /\ req[r].phase = "checked" => req[r].on \in Roots

LEMMA OrderInit == Init => OrderInv
<1> SUFFICES ASSUME Init PROVE OrderInv
  OBVIOUS
<1>1. Seeds \subseteq Ids /\ IsFiniteSet(Seeds) /\ Cardinality(Seeds) \in Nat
  BY FS_Subset, FS_CardinalityType DEF Ids
<1>2. /\ order \in [1..Cardinality(Seeds) -> Seeds]
      /\ \A i, j \in 1..Cardinality(Seeds) : i # j => order[i] # order[j]
  BY DEF Init, SetToSeqs
<1>3. order \in Seq(Ids) /\ DOMAIN order = 1..Cardinality(Seeds)
  BY <1>1, <1>2
<1>4. IsInjective(order)
  BY <1>2, <1>3 DEF IsInjective
<1>5. Range(order) = Seeds
  <2>1. order \in Injection(1..Cardinality(Seeds), Seeds)
    BY <1>2, <1>4 DEF Injection
  <2>2. Cardinality(1..Cardinality(Seeds)) = Cardinality(Seeds)
    BY <1>1, FS_Interval
  <2>3. order \in Surjection(1..Cardinality(Seeds), Seeds)
    BY <1>1, <2>1, <2>2, FS_Injection
  <2> QED
    BY <1>2, <1>3, <2>3 DEF Surjection, Range
<1>6. ASSUME NEW c \in Ids, comment[c] # None
      PROVE  c \in Seeds /\ (comment[c].parent # None => comment[c].parent \in Roots)
  <2>1. c \in Seeds /\ comment[c] = SeedRow[c]
    BY <1>6 DEF Init
  <2>2. ASSUME NEW p, p = SeedRow[c].parent, p # None PROVE p \in Roots
    <3>1. p \in Seeds /\ SeedRow[p].parent = None
      BY <2>1, <2>2
    <3>2. comment[p] = SeedRow[p] /\ SeedRow[p] \in Rows
      BY <1>1, <3>1 DEF Init
    <3> QED
      BY <1>1, <3>1, <3>2 DEF Roots
  <2> QED
    BY <2>1, <2>2
<1>7. \A r \in Requests : req[r].phase = "new" /\ r \notin Seeds
  BY DEF Init, Fresh
<1> QED
  BY <1>3, <1>4, <1>5, <1>6, <1>7 DEF OrderInv

\* A step that leaves the order alone: comments keep their parents, and a new one is
\* that of a request which has a place in the order.
LEMMA OrderKept ==
  ASSUME OrderInv, order' = order,
         \A c \in Ids : comment[c] # None =>
           comment'[c] # None /\ comment'[c].parent = comment[c].parent,
         \A c \in Ids : comment[c] = None /\ comment'[c] # None =>
           /\ c \in Range(order)
           /\ comment'[c].parent # None => comment'[c].parent \in Roots,
         \A r \in Requests :
           /\ req'[r].phase = "new" => req[r].phase = "new"
           /\ req'[r].op = "create" /\ req'[r].phase \in {"read", "checked"} =>
                req[r].op = "create" /\ req[r].phase \in {"read", "checked"}
           /\ req'[r].op = "create" /\ req'[r].phase = "checked" =>
                \/ req'[r].on \in Roots
                \/ req[r].phase = "checked" /\ req'[r].on = req[r].on
  PROVE  OrderInv'
<1>1. Roots \subseteq Roots'
  BY DEF Roots
<1>2. order' \in Seq(Ids) /\ IsInjective(order') /\ Range(order') = Range(order)
  BY DEF OrderInv
<1>3. ASSUME NEW c \in Ids, comment'[c] # None
      PROVE  /\ c \in Range(order)
             /\ comment'[c].parent # None => comment'[c].parent \in Roots'
  <2>1. CASE comment[c] = None
    BY <1>1, <1>3, <2>1
  <2>2. CASE comment[c] # None
    <3>1. c \in Range(order) /\ (comment[c].parent # None => comment[c].parent \in Roots)
      BY <2>2 DEF OrderInv
    <3>2. comment'[c].parent = comment[c].parent
      BY <2>2
    <3> QED
      BY <1>1, <3>1, <3>2
  <2> QED
    BY <2>1, <2>2
<1>4. ASSUME NEW r \in Requests
      PROVE  /\ req'[r].phase = "new" => r \notin Range(order)
             /\ req'[r].op = "create" /\ req'[r].phase \in {"read", "checked"}
                  => r \in Range(order)
             /\ req'[r].op = "create" /\ req'[r].phase = "checked" => req'[r].on \in Roots'
  <2>1. req'[r].phase = "new" => r \notin Range(order)
    BY DEF OrderInv
  <2>2. req'[r].op = "create" /\ req'[r].phase \in {"read", "checked"} => r \in Range(order)
    BY DEF OrderInv
  <2>3. ASSUME req'[r].op = "create", req'[r].phase = "checked" PROVE req'[r].on \in Roots'
    <3>1. CASE req'[r].on \in Roots
      BY <1>1, <3>1
    <3>2. CASE req[r].phase = "checked" /\ req'[r].on = req[r].on
      <4>1. req[r].on \in Roots
        BY <2>3, <3>2 DEF OrderInv
      <4> QED
        BY <1>1, <3>2, <4>1
    <3> QED
      BY <2>3, <3>1, <3>2
  <2> QED
    BY <2>1, <2>2, <2>3
<1> QED
  BY <1>2, <1>3, <1>4 DEF OrderInv

\* What a commit does to the requests.
LEMMA CountedFacts ==
  ASSUME CommentsInv, NEW r \in Requests, Counted(r), NEW q \in Requests
  PROVE  IF q = r THEN req'[q].phase = "over"
         ELSE req'[q].phase = req[q].phase /\ req'[q].op = req[q].op /\ req'[q].on = req[q].on
<1>1. req[q] \in Request
  BY DEF CommentsInv, Typed
<1>2. CASE q = r
  <2>1. req'[q] = [req[q] EXCEPT !.phase = "over"]
    BY <1>2 DEF Counted
  <2> QED
    BY <1>1, <1>2, <2>1 DEF Request
<1>3. CASE q # r
  <2>1. req'[q] = [req[q] EXCEPT !.late = @ + 1] \/ req'[q] = req[q]
    BY <1>3 DEF Counted
  <2> QED
    BY <1>1, <1>3, <2>1 DEF Request
<1> QED
  BY <1>2, <1>3

LEMMA OrderOfCommit ==
  ASSUME CommentsInv, OrderInv, NEW r \in Requests, Counted(r), order' = order,
         \A c \in Ids : comment[c] # None =>
           comment'[c] # None /\ comment'[c].parent = comment[c].parent,
         \A c \in Ids : comment[c] = None /\ comment'[c] # None =>
           /\ c \in Range(order)
           /\ comment'[c].parent # None => comment'[c].parent \in Roots
  PROVE  OrderInv'
<1>1. ASSUME NEW q \in Requests
      PROVE  /\ req'[q].phase = "new" => req[q].phase = "new"
             /\ req'[q].op = "create" /\ req'[q].phase \in {"read", "checked"} =>
                  req[q].op = "create" /\ req[q].phase \in {"read", "checked"}
             /\ req'[q].op = "create" /\ req'[q].phase = "checked" =>
                  \/ req'[q].on \in Roots
                  \/ req[q].phase = "checked" /\ req'[q].on = req[q].on
  <2>1. CASE q = r
    <3>1. req'[q].phase = "over"
      BY <2>1, CountedFacts
    <3> QED
      BY <3>1
  <2>2. CASE q # r
    <3>1. req'[q].phase = req[q].phase /\ req'[q].op = req[q].op /\ req'[q].on = req[q].on
      BY <2>2, CountedFacts
    <3> QED
      BY <3>1
  <2> QED
    BY <2>1, <2>2
<1> QED
  BY <1>1, OrderKept

LEMMA OrderOfRequest ==
  ASSUME CommentsInv, OrderInv, NEW r \in Requests, NEW n \in Request,
         req' = [req EXCEPT ![r] = n], UNCHANGED <<comment, order>>,
         n.op = req[r].op, n.on = req[r].on,
         \/ n.phase \in {"over", "ready"}
         \/ /\ n.phase = "checked" /\ req[r].phase = "read"
            /\ n.op = "create" => n.on \in Roots
  PROVE  OrderInv'
<1>1. req \in [Requests -> Request]
  BY DEF CommentsInv, Typed
<1>2. ASSUME NEW q \in Requests
      PROVE  /\ req'[q].phase = "new" => req[q].phase = "new"
             /\ req'[q].op = "create" /\ req'[q].phase \in {"read", "checked"} =>
                  req[q].op = "create" /\ req[q].phase \in {"read", "checked"}
             /\ req'[q].op = "create" /\ req'[q].phase = "checked" =>
                  \/ req'[q].on \in Roots
                  \/ req[q].phase = "checked" /\ req'[q].on = req[q].on
  <2>1. CASE q = r
    <3>1. req'[q] = n
      BY <1>1, <2>1
    <3> QED
      BY <2>1, <3>1
  <2>2. CASE q # r
    <3>1. req'[q] = req[q]
      BY <1>1, <2>2
    <3> QED
      BY <3>1
  <2> QED
    BY <2>1, <2>2
<1> QED
  BY <1>2, OrderKept

LEMMA OrderOfOver ==
  ASSUME CommentsInv, OrderInv, NEW r \in Requests, Over(r)
  PROVE  OrderInv'
<1> DEFINE n == [req[r] EXCEPT !.phase = "over"]
<1>1. n \in Request /\ n.phase = "over" /\ n.op = req[r].op /\ n.on = req[r].on
  BY DEF CommentsInv, Typed, Request, Phases
<1>2. req' = [req EXCEPT ![r] = n] /\ UNCHANGED <<comment, order>>
  BY DEF Over
<1> HIDE DEF n
<1> QED
  BY <1>1, <1>2, OrderOfRequest

LEMMA OrderOfAdvance ==
  ASSUME CommentsInv, OrderInv, NEW r \in Requests,
         NEW phase \in {"checked", "ready"}, NEW seen \in Nat, NEW liking \in BOOLEAN,
         Advance(r, phase, seen, liking),
         phase = "checked" => req[r].phase = "read" /\ (req[r].op = "create" => req[r].on \in Roots)
  PROVE  OrderInv'
<1> DEFINE n == [req[r] EXCEPT !.phase = phase, !.seen = seen, !.liking = liking]
<1>0. req[r] \in Request /\ phase \in Phases
  BY DEF CommentsInv, Typed, Phases
<1>1. n \in Request /\ n.phase = phase /\ n.op = req[r].op /\ n.on = req[r].on
  BY <1>0 DEF Request
<1>2. req' = [req EXCEPT ![r] = n] /\ UNCHANGED <<comment, order>>
  BY DEF Advance
<1> HIDE DEF n
<1> QED
  BY <1>1, <1>2, OrderOfRequest

\* A request to create a comment takes the next place of the order.
LEMMA OrderOfSend ==
  ASSUME CommentsInv, OrderInv, NEW r \in Requests, Send(r)
  PROVE  OrderInv'
<1>1. PICK u \in Users, b \in Boards, op \in Ops, on \in Likeable \cup {None} :
        Arrive(r, u, op, on, b)
  BY DEF Send, Ops, Likeable
<1>2. PICK who \in Identity(u) :
        /\ req[r].phase = "new"
        /\ req' = [req EXCEPT ![r] =
             IF who = Nobody
             THEN [Fresh EXCEPT !.phase = "over"]
             ELSE [Fresh EXCEPT !.phase = "read", !.by = u, !.op = op, !.on = on, !.board = b]]
        /\ order' = IF op = "create" /\ who # Nobody THEN Append(order, r) ELSE order
        /\ comment' = comment
  BY <1>1 DEF Arrive
<1> DEFINE n == IF who = Nobody THEN [Fresh EXCEPT !.phase = "over"]
                ELSE [Fresh EXCEPT !.phase = "read", !.by = u, !.op = op, !.on = on, !.board = b]
<1>3. \/ n.phase = "over"
      \/ n.phase = "read" /\ n.op = op /\ who # Nobody
  BY DEF Fresh
<1>4. req'[r] = n /\ \A q \in Requests \ {r} : req'[q] = req[q]
  BY <1>2 DEF CommentsInv, Typed
<1> HIDE DEF n
<1>5. r \notin Range(order) /\ r \in Ids /\ order \in Seq(Ids) /\ IsInjective(order)
  BY <1>2 DEF OrderInv, Ids
<1>6. /\ order' \in Seq(Ids) /\ IsInjective(order')
      /\ Range(order) \subseteq Range(order')
      /\ Range(order') \subseteq Range(order) \cup {r}
      /\ op = "create" /\ who # Nobody => r \in Range(order')
  <2>1. CASE op = "create" /\ who # Nobody
    <3>1. /\ order' = Append(order, r) /\ Len(order) \in Nat
          /\ DOMAIN order = 1..Len(order) /\ DOMAIN order' = 1..(Len(order) + 1)
          /\ order' \in Seq(Ids)
          /\ order'[Len(order) + 1] = r
          /\ \A i \in 1..Len(order) : order'[i] = order[i]
      BY <1>2, <1>5, <2>1
    <3>2. \A i \in DOMAIN order' : i \in DOMAIN order \/ i = Len(order) + 1
      BY <3>1
    <3>3. \A i \in DOMAIN order : i \in DOMAIN order' /\ order'[i] # r
      BY <1>5, <3>1 DEF Range
    <3>4. IsInjective(order')
      BY <1>5, <3>1, <3>2, <3>3 DEF IsInjective
    <3>5. Range(order) \subseteq Range(order')
      BY <3>1, <3>3 DEF Range
    <3>6. Range(order') \subseteq Range(order) \cup {r}
      BY <3>1, <3>2 DEF Range
    <3>7. r \in Range(order')
      BY <3>1 DEF Range
    <3> QED
      BY <3>1, <3>4, <3>5, <3>6, <3>7
  <2>2. CASE ~(op = "create" /\ who # Nobody)
    BY <1>2, <1>5, <2>2
  <2> QED
    BY <2>1, <2>2
<1>7. Roots' = Roots
  BY <1>2 DEF Roots
<1>8. ASSUME NEW c \in Ids, comment'[c] # None
      PROVE  /\ c \in Range(order')
             /\ comment'[c].parent # None => comment'[c].parent \in Roots'
  BY <1>2, <1>6, <1>7, <1>8 DEF OrderInv
<1>9. ASSUME NEW q \in Requests
      PROVE  /\ req'[q].phase = "new" => q \notin Range(order')
             /\ req'[q].op = "create" /\ req'[q].phase \in {"read", "checked"}
                  => q \in Range(order')
             /\ req'[q].op = "create" /\ req'[q].phase = "checked" => req'[q].on \in Roots'
  <2>1. CASE q = r
    BY <1>3, <1>4, <1>6, <2>1
  <2>2. CASE q # r
    <3>1. req'[q] = req[q]
      BY <1>4, <2>2
    <3> QED
      BY <1>6, <1>7, <2>2, <3>1 DEF OrderInv
  <2> QED
    BY <2>1, <2>2
<1> QED
  BY <1>6, <1>8, <1>9 DEF OrderInv

\* A handler that writes a comment.
LEMMA OrderOfWrite ==
  ASSUME CommentsInv, OrderInv, NEW r \in Requests,
         CreateRoot(r) \/ CreateReply(r) \/ Update(r) \/ Delete(r)
  PROVE  OrderInv'
<1>1. comment \in [Ids -> Rows \cup {None}] /\ r \in Ids /\ Rooted(r) /\ req[r] \in Request
  BY DEF CommentsInv, Typed, Ids
<1>2. CASE CreateRoot(r) \/ CreateReply(r)
  <2>1. /\ req[r].op = "create" /\ req[r].phase \in {"read", "checked"}
        /\ req[r].phase = "read" => req[r].on = None
        /\ comment' = [comment EXCEPT ![r] = NewRow(r)]
        /\ Counted(r) /\ order' = order
    BY <1>2 DEF CreateRoot, CreateReply, NeedsRow
  <2>2. comment[r] = None
    BY <1>1, <2>1 DEF Rooted
  <2>3. r \in Range(order) /\ (req[r].on = None \/ req[r].on \in Roots)
    BY <2>1 DEF OrderInv
  <2>4. NewRow(r).parent = req[r].on
    BY DEF NewRow
  <2>5. comment'[r] = NewRow(r) /\ \A c \in Ids \ {r} : comment'[c] = comment[c]
    BY <1>1, <2>1
  <2> QED
    BY <2>1, <2>2, <2>3, <2>4, <2>5, OrderOfCommit
<1>3. CASE Update(r) \/ Delete(r)
  <2>1. /\ req[r].phase \in {"checked", "ready"} /\ req[r].op \in {"update", "delete"}
        /\ Counted(r) /\ order' = order
    BY <1>3 DEF Update, Delete
  <2>2. req[r].on \in Ids /\ comment[req[r].on] # None /\ comment[req[r].on] \in Rows
    BY <1>1, <2>1 DEF Rooted, UnderWay
  <2>3. PICK row : /\ comment' = [comment EXCEPT ![req[r].on] = row]
                   /\ row \in Rows /\ row.parent = comment[req[r].on].parent
    <3>1. CASE Update(r)
      <4>1. Edited(r) \in Rows /\ Edited(r).parent = comment[req[r].on].parent
        BY <2>2 DEF Edited, Rows
      <4> QED
        BY <3>1, <4>1 DEF Update
    <3>2. CASE Delete(r)
      <4>1. PICK row : row = [comment[req[r].on] EXCEPT !.deleted = TRUE]
        OBVIOUS
      <4>2. row \in Rows /\ row.parent = comment[req[r].on].parent
        BY <2>2, <4>1 DEF Rows
      <4>3. comment' = [comment EXCEPT ![req[r].on] = row]
        BY <1>1, <3>2, <4>1 DEF Delete
      <4> QED
        BY <4>2, <4>3
    <3> QED
      BY <1>3, <3>1, <3>2
  <2>4. row # None
    BY <2>3
  <2>5. \A c \in Ids : /\ comment[c] # None =>
                            comment'[c] # None /\ comment'[c].parent = comment[c].parent
                       /\ comment[c] = None => comment'[c] = None
    BY <1>1, <2>2, <2>3, <2>4
  <2> QED
    BY <2>1, <2>5, OrderOfCommit
<1> QED
  BY <1>2, <1>3

LEMMA OrderNext == CommentsInv /\ OrderInv /\ [Next]_vars => OrderInv'
<1> SUFFICES ASSUME CommentsInv, OrderInv, [Next]_vars PROVE OrderInv'
  OBVIOUS
<1>1. ASSUME NEW r \in Requests, Handle(r) PROVE OrderInv'
  <2>0. req[r] \in Request /\ Rooted(r) /\ comment \in [Ids -> Rows \cup {None}] /\ Typed
    BY DEF CommentsInv, Typed
  <2>1. CASE ReadRow(r)
    <3>1. CASE Wrong(r)
      BY <2>1, <3>1, OrderOfOver DEF ReadRow
    <3>2. CASE ~Wrong(r)
      <4>1. /\ req[r].phase = "read" /\ req[r].on # None
            /\ Advance(r, "checked", SeenAtFirst(r), FALSE)
        BY <2>0, <2>1, <3>2 DEF ReadRow, NeedsRow, Rooted
      <4>2. SeenAtFirst(r) \in Nat
        BY <2>0, <4>1 DEF SeenAtFirst, Typed, Request, Rooted
      <4>3. req[r].op = "create" => req[r].on \in Roots
        BY <2>0, <3>2, <4>1 DEF Wrong, Missing, Rooted, Roots
      <4> QED
        BY <4>1, <4>2, <4>3, OrderOfAdvance
    <3> QED
      BY <3>1, <3>2
  <2>2. CASE ReadLike(r)
    <3>1. Advance(r, "ready", req[r].seen, <<req[r].on, req[r].by>> \notin liked)
      BY <2>2 DEF ReadLike
    <3>2. req[r].seen \in Nat
      BY <2>0 DEF Request
    <3> QED
      BY <3>1, <3>2, OrderOfAdvance
  <2>3. CASE ReadParent(r)
    <3>1. /\ Advance(r, "ready", replies[ParentOf(r)], FALSE)
          /\ req[r].phase = "checked" /\ req[r].op = "delete" /\ ParentOf(r) # None
      BY <2>3 DEF ReadParent
    <3>2. req[r].on \in Ids /\ comment[req[r].on] \in Rows
      BY <2>0, <3>1 DEF Rooted, UnderWay
    <3>3. replies[ParentOf(r)] \in Nat
      BY <2>0, <3>1, <3>2 DEF ParentOf, Rows, Typed
    <3> QED
      BY <3>1, <3>3, OrderOfAdvance
  <2>4. CASE CreateRoot(r) \/ CreateReply(r) \/ Update(r) \/ Delete(r)
    BY <2>4, OrderOfWrite
  <2>5. CASE Like(r) \/ Unlike(r)
    <3>1. Counted(r) /\ order' = order /\ comment' = comment
      BY <2>5 DEF Like, Unlike
    <3> QED
      BY <3>1, OrderOfCommit
  <2>6. CASE LikeAgain(r) \/ Fail(r)
    BY <2>6, OrderOfOver DEF LikeAgain, Fail
  <2> QED
    BY <1>1, <2>1, <2>2, <2>3, <2>4, <2>5, <2>6 DEF Handle
<1>2. CASE UNCHANGED vars
  <2>1. comment' = comment /\ order' = order /\ req' = req
    BY <1>2 DEF vars
  <2>2. Roots' = Roots
    BY <2>1 DEF Roots
  <2> QED
    BY <2>1, <2>2 DEF OrderInv
<1> QED
  BY <1>1, <1>2, OrderOfSend DEF Next

-----------------------------------------------------------------------------
(* What list_comments answers *)

RootsOf(b) == {c \in Ids : Live(c) /\ comment[c].parent = None /\ comment[c].board = b}

\* The live roots of a board, each once.
LEMMA RootsListed ==
  ASSUME OrderInv, NEW b
  PROVE  Lists(LiveRoots(b), RootsOf(b))
<1> DEFINE P == {i \in DOMAIN order :
      Live(order[i]) /\ comment[order[i]].parent = None /\ comment[order[i]].board = b}
<1>1. order \in Seq(Ids) /\ IsInjective(order)
  BY DEF OrderInv
<1>2. Lists(InOrder(P), {order[i] : i \in P})
  BY <1>1, InOrderLists
<1>3. {order[i] : i \in P} = RootsOf(b)
  <2>1. \A i \in P : order[i] \in RootsOf(b)
    BY <1>1 DEF RootsOf
  <2>2. ASSUME NEW c \in RootsOf(b) PROVE \E i \in P : order[i] = c
    <3>1. PICK i \in DOMAIN order : order[i] = c
      BY DEF RootsOf, Live, OrderInv, Range
    <3> QED
      BY <3>1 DEF RootsOf
  <2> QED
    BY <2>1, <2>2
<1>4. LiveRoots(b) = Reverse(InOrder(P))
  BY DEF LiveRoots
<1> HIDE DEF P
<1> QED
  BY <1>2, <1>3, <1>4, ReverseLists

\* A thread is a root and its replies, the root first.
LEMMA ThreadListed ==
  ASSUME OrderInv, NEW p \in Roots
  PROVE  /\ Lists(WithReplies(p), {p} \cup LiveReplies(p))
         /\ 1 \in 1..Len(WithReplies(p)) /\ WithReplies(p)[1] = p
<1> DEFINE P == {i \in DOMAIN order : Live(order[i]) /\ comment[order[i]].parent = p}
           s == InOrder(P)
           t == WithReplies(p)
           S == LiveReplies(p)
<1>1. order \in Seq(Ids) /\ IsInjective(order)
  BY DEF OrderInv
<1>2. Lists(s, {order[i] : i \in P})
  BY <1>1, InOrderLists
<1>3. {order[i] : i \in P} = S
  <2>1. \A i \in P : order[i] \in S
    BY <1>1 DEF LiveReplies
  <2>2. ASSUME NEW c \in S PROVE \E i \in P : order[i] = c
    <3>1. PICK i \in DOMAIN order : order[i] = c
      BY DEF LiveReplies, Live, OrderInv, Range
    <3> QED
      BY <3>1 DEF LiveReplies
  <2> QED
    BY <2>1, <2>2
<1>4. t = <<p>> \o s
  BY DEF WithReplies
<1>5. p \notin S
  BY DEF LiveReplies, Roots
<1> HIDE DEF P, s, t, S
<1>6. Lists(s, S) /\ s \in Seq(S) /\ Len(s) \in Nat /\ DOMAIN s = 1..Len(s)
  BY <1>2, <1>3 DEF Lists
<1>7. /\ t \in Seq({p} \cup S) /\ Len(t) = 1 + Len(s) /\ DOMAIN t = 1..Len(t)
      /\ t[1] = p
      /\ \A i \in 2..Len(t) : t[i] = s[i - 1] /\ i - 1 \in 1..Len(s)
  <2>1. <<p>> \in Seq({p} \cup S) /\ s \in Seq({p} \cup S) /\ Len(<<p>>) = 1
    BY <1>6
  <2>2. /\ t \in Seq({p} \cup S) /\ Len(t) = 1 + Len(s)
        /\ \A i \in 1..(1 + Len(s)) : t[i] = IF i <= 1 THEN <<p>>[i] ELSE s[i - 1]
    BY <1>4, <2>1, ConcatProperties
  <2> QED
    BY <1>6, <2>2
<1>8. ASSUME NEW i \in 1..Len(t), NEW j \in 1..Len(t), t[i] = t[j] PROVE i = j
  <2>1. \A k \in 2..Len(t) : t[k] \in S
    BY <1>6, <1>7
  <2>2. CASE i = 1 \/ j = 1
    <3>1. i \in 2..Len(t) \/ i = 1
      OBVIOUS
    <3>2. j \in 2..Len(t) \/ j = 1
      OBVIOUS
    <3> QED
      BY <1>5, <1>7, <1>8, <2>1, <2>2, <3>1, <3>2
  <2>3. CASE i # 1 /\ j # 1
    <3>1. i \in 2..Len(t) /\ j \in 2..Len(t)
      BY <2>3
    <3>2. s[i - 1] = s[j - 1] /\ i - 1 \in 1..Len(s) /\ j - 1 \in 1..Len(s)
      BY <1>7, <1>8, <3>1
    <3>3. i - 1 = j - 1
      BY <1>6, <3>2 DEF Lists, IsInjective
    <3> QED
      BY <3>3
  <2> QED
    BY <2>2, <2>3
<1>9. IsInjective(t)
  BY <1>7, <1>8 DEF IsInjective
<1>10. ASSUME NEW c \in {p} \cup S PROVE \E i \in 1..Len(t) : t[i] = c
  <2>1. CASE c = p
    <3>1. 1 \in 1..Len(t)
      BY <1>6, <1>7
    <3> QED
      BY <1>7, <2>1, <3>1
  <2>2. CASE c \in S
    <3>1. PICK k \in 1..Len(s) : s[k] = c
      BY <1>6, <2>2 DEF Lists
    <3>2. PICK i : i = k + 1
      OBVIOUS
    <3>3. i \in 2..Len(t) /\ i \in 1..Len(t) /\ i - 1 = k
      BY <1>6, <1>7, <3>2
    <3> QED
      BY <1>7, <3>1, <3>3
  <2> QED
    BY <2>1, <2>2
<1>11. Lists(t, {p} \cup S) /\ 1 \in 1..Len(t)
  BY <1>6, <1>7, <1>9, <1>10 DEF Lists
<1> QED
  BY <1>7, <1>11 DEF t, S

\* The root of the thread that a comment is in.
Top(c) == IF comment[c].parent = None THEN c ELSE comment[c].parent

LEMMA ThreadTop ==
  ASSUME NEW p \in Roots, NEW c \in {p} \cup LiveReplies(p)
  PROVE  c \in Ids /\ Top(c) = p /\ (c # p => comment[c].parent = p /\ Live(c))
BY DEF Roots, LiveReplies, Top

\* A page of a board shows no comment twice, and only live ones, each with or after its
\* root; it shows every live comment of the threads whose roots are at its places.
Shown(list, b, page, L) ==
  /\ list \in Seq(Ids)
  /\ \A i, j \in 1..Len(list) : list[i] = list[j] => i = j
  /\ \A i \in 1..Len(list) :
       /\ Live(list[i]) /\ Top(list[i]) \in RootsOf(b)
       /\ \E m \in 1..L : /\ (page - 1) * L + m \in 1..Len(LiveRoots(b))
                          /\ LiveRoots(b)[(page - 1) * L + m] = Top(list[i])
       /\ list[i] # Top(list[i]) => \E j \in 1..(i - 1) : list[j] = Top(list[i])
  /\ \A c \in Ids : \A m \in 1..L :
       /\ Live(c) /\ Top(c) \in RootsOf(b)
       /\ (page - 1) * L + m \in 1..Len(LiveRoots(b))
       /\ LiveRoots(b)[(page - 1) * L + m] = Top(c)
       => \E i \in 1..Len(list) : list[i] = c

\* list_comments shows the threads of the roots at the places of the page.
LEMMA PageListed ==
  ASSUME OrderInv, NEW b, NEW page \in Nat \ {0}, NEW limit \in Int,
         NEW list, list = ListComments(b, page, limit).comments
  PROVE  Positive(limit) \in Nat \ {0} /\ Shown(list, b, page, Positive(limit))
<1> DEFINE L == Positive(limit)
           roots == LiveRoots(b)
           top == PageOf(roots, page, limit)
           ss == [m \in DOMAIN top |-> WithReplies(top[m])]
           x == (page - 1) * L
<1>1. /\ roots \in Seq(RootsOf(b))
      /\ \A i, j \in 1..Len(roots) : roots[i] = roots[j] => i = j
  <2>1. Lists(roots, RootsOf(b))
    BY RootsListed
  <2> QED
    BY <2>1, ListsFacts
<1>2. /\ L \in Nat \ {0} /\ x \in Nat /\ top \in Seq(RootsOf(b))
      /\ \A m \in 1..Len(top) : m \in 1..L /\ x + m \in 1..Len(roots) /\ top[m] = roots[x + m]
      /\ \A m \in 1..L : x + m \in 1..Len(roots) => m \in 1..Len(top)
  <2> DEFINE S == RootsOf(b)
  <2>1. roots \in Seq(S) /\ top = PageOf(roots, page, limit)
    BY <1>1
  <2> HIDE DEF top, S, x
  <2>2. IsPage(top, roots, S, (page - 1) * L, L)
    BY <2>1, PageContents
  <2>3. IsPage(top, roots, S, x, L)
    BY <2>2 DEF x
  <2> QED
    BY <2>3 DEF IsPage, S
<1>3. list = FlattenSeq(ss)
  BY DEF ListComments
<1> HIDE DEF top, x, L, roots
<1>4. Len(top) \in Nat /\ DOMAIN top = 1..Len(top)
  BY <1>2
<1>5. ASSUME NEW m \in 1..Len(top)
      PROVE  /\ top[m] \in RootsOf(b) /\ top[m] \in Roots /\ Live(top[m])
             /\ Lists(WithReplies(top[m]), {top[m]} \cup LiveReplies(top[m]))
             /\ 1 \in 1..Len(WithReplies(top[m])) /\ WithReplies(top[m])[1] = top[m]
             /\ WithReplies(top[m]) \in Seq(Ids)
  <2>1. top[m] \in RootsOf(b)
    BY <1>2
  <2>2. top[m] \in Roots /\ Live(top[m])
    BY <2>1 DEF RootsOf, Roots, Live
  <2>3. /\ Lists(WithReplies(top[m]), {top[m]} \cup LiveReplies(top[m]))
        /\ 1 \in 1..Len(WithReplies(top[m])) /\ WithReplies(top[m])[1] = top[m]
    BY <2>2, ThreadListed
  <2>4. WithReplies(top[m]) \in Seq({top[m]} \cup LiveReplies(top[m]))
    BY <2>3 DEF Lists
  <2>5. {top[m]} \cup LiveReplies(top[m]) \subseteq Ids
    BY <2>2 DEF Roots, LiveReplies
  <2>6. WithReplies(top[m]) \in Seq(Ids)
    BY <2>4, <2>5
  <2> QED
    BY <2>1, <2>2, <2>3, <2>6
<1>6. ss \in Seq(Seq(Ids)) /\ Len(ss) = Len(top) /\ \A m \in 1..Len(top) : ss[m] = WithReplies(top[m])
  <2>1. ss = [m \in 1..Len(top) |-> WithReplies(top[m])]
    BY <1>4
  <2>2. \A m \in 1..Len(top) : WithReplies(top[m]) \in Seq(Ids)
    BY <1>5
  <2> HIDE DEF ss
  <2> QED
    BY <1>4, <2>1, <2>2
<1> HIDE DEF ss
<1>7. ASSUME NEW m \in 1..Len(top)
      PROVE  /\ \A t \in 1..Len(ss[m]) : ss[m][t] \in {top[m]} \cup LiveReplies(top[m])
             /\ \A t, u \in 1..Len(ss[m]) : ss[m][t] = ss[m][u] => t = u
             /\ \A c \in {top[m]} \cup LiveReplies(top[m]) : \E t \in 1..Len(ss[m]) : ss[m][t] = c
             /\ 1 \in 1..Len(ss[m]) /\ ss[m][1] = top[m]
  <2>1. Lists(ss[m], {top[m]} \cup LiveReplies(top[m]))
    BY <1>5, <1>6
  <2>2. 1 \in 1..Len(ss[m]) /\ ss[m][1] = top[m]
    BY <1>5, <1>6
  <2> DEFINE S == {top[m]} \cup LiveReplies(top[m])
  <2>3. Lists(ss[m], S)
    BY <2>1
  <2> HIDE DEF S
  <2>4. /\ \A t \in 1..Len(ss[m]) : ss[m][t] \in S
        /\ \A t, u \in 1..Len(ss[m]) : ss[m][t] = ss[m][u] => t = u
        /\ \A c \in S : \E t \in 1..Len(ss[m]) : ss[m][t] = c
    BY <2>3, ListsFacts
  <2> QED
    BY <2>2, <2>4 DEF S
<1>8. list \in Seq(Ids) /\ \E off \in [1..Len(ss) -> Nat] : Strung(list, ss, Len(ss), off)
  BY <1>3, <1>6, FlattenStrung
<1>9. PICK off \in [1..Len(top) -> Nat] : Strung(list, ss, Len(top), off)
  BY <1>6, <1>8
<1>10. ASSUME NEW i \in 1..Len(list)
       PROVE  \E m \in 1..Len(top) : \E t \in 1..Len(ss[m]) :
                /\ i = off[m] + t
                /\ list[i] = ss[m][t]
                /\ list[i] \in {top[m]} \cup LiveReplies(top[m])
                /\ Top(list[i]) = top[m]
                /\ list[i] = top[m] => t = 1
  <2>1. PICK m \in 1..Len(top) : \E t \in 1..Len(ss[m]) : i = off[m] + t
    BY <1>9 DEF Strung
  <2>2. PICK t \in 1..Len(ss[m]) : i = off[m] + t
    BY <2>1
  <2>3. list[i] = ss[m][t]
    BY <1>9, <2>2 DEF Strung
  <2>4. list[i] \in {top[m]} \cup LiveReplies(top[m])
    BY <1>7, <2>3
  <2>5. Top(list[i]) = top[m]
    BY <1>5, <2>4, ThreadTop
  <2>6. ASSUME list[i] = top[m] PROVE t = 1
    <3>1. ss[m][t] = ss[m][1] /\ 1 \in 1..Len(ss[m])
      BY <1>7, <2>3, <2>6
    <3> QED
      BY <1>7, <3>1
  <2> QED
    BY <2>2, <2>3, <2>4, <2>5, <2>6
<1>11. ASSUME NEW i \in 1..Len(list), NEW j \in 1..Len(list), list[i] = list[j] PROVE i = j
  <2>1. PICK m \in 1..Len(top) : \E t \in 1..Len(ss[m]) :
          i = off[m] + t /\ list[i] = ss[m][t] /\ Top(list[i]) = top[m]
    BY <1>10, SMTT(30)
  <2>2. PICK t \in 1..Len(ss[m]) :
          i = off[m] + t /\ list[i] = ss[m][t] /\ Top(list[i]) = top[m]
    BY <2>1
  <2>3. PICK n \in 1..Len(top) : \E u \in 1..Len(ss[n]) :
          j = off[n] + u /\ list[j] = ss[n][u] /\ Top(list[j]) = top[n]
    BY <1>10, ZenonT(40)
  <2>4. PICK u \in 1..Len(ss[n]) :
          j = off[n] + u /\ list[j] = ss[n][u] /\ Top(list[j]) = top[n]
    BY <2>3
  <2>5. roots[x + m] = roots[x + n] /\ x + m \in 1..Len(roots) /\ x + n \in 1..Len(roots)
    BY <1>2, <1>11, <2>2, <2>4
  <2>6. x + m = x + n
    BY <1>1, <2>5
  <2>7. m = n
    BY <1>2, <2>6, SMTT(30)
  <2>8. ss[m][t] = ss[m][u] /\ u \in 1..Len(ss[m])
    BY <1>11, <2>2, <2>4, <2>7
  <2>9. t = u
    BY <1>7, <2>8
  <2> QED
    BY <2>2, <2>4, <2>7, <2>9
<1>12. ASSUME NEW i \in 1..Len(list)
       PROVE  /\ Live(list[i]) /\ Top(list[i]) \in RootsOf(b)
              /\ \E m \in 1..L : x + m \in 1..Len(roots) /\ roots[x + m] = Top(list[i])
              /\ list[i] # Top(list[i]) => \E j \in 1..(i - 1) : list[j] = Top(list[i])
  <2>1. PICK m \in 1..Len(top) : \E t \in 1..Len(ss[m]) :
          /\ i = off[m] + t /\ list[i] = ss[m][t] /\ Top(list[i]) = top[m]
          /\ list[i] \in {top[m]} \cup LiveReplies(top[m])
          /\ list[i] = top[m] => t = 1
    BY <1>10
  <2>2. PICK t \in 1..Len(ss[m]) :
          /\ i = off[m] + t /\ list[i] = ss[m][t] /\ Top(list[i]) = top[m]
          /\ list[i] \in {top[m]} \cup LiveReplies(top[m])
          /\ list[i] = top[m] => t = 1
    BY <2>1
  <2>3. Live(list[i])
    BY <1>5, <2>2 DEF LiveReplies
  <2>4. top[m] \in RootsOf(b) /\ m \in 1..L /\ x + m \in 1..Len(roots) /\ roots[x + m] = top[m]
    BY <1>2, <1>5
  <2>5. ASSUME list[i] # top[m] PROVE \E j \in 1..(i - 1) : list[j] = top[m]
    <3>1. 1 \in 1..Len(ss[m]) /\ ss[m][1] = top[m]
      BY <1>7
    <3>2. off[m] + 1 \in 1..Len(list) /\ list[off[m] + 1] = top[m]
      BY <1>9, <3>1 DEF Strung
    <3>3. t # 1
      BY <2>2, <2>5, <3>1
    <3>4. off[m] \in Nat /\ off[m] + 1 \in 1..(i - 1)
      BY <2>2, <3>2, <3>3
    <3> QED
      BY <3>2, <3>4
  <2> QED
    BY <2>2, <2>3, <2>4, <2>5
<1>13. ASSUME NEW c \in Ids, NEW m \in 1..L, Live(c), Top(c) \in RootsOf(b),
              x + m \in 1..Len(roots), roots[x + m] = Top(c)
       PROVE  \E i \in 1..Len(list) : list[i] = c
  <2>1. m \in 1..Len(top) /\ top[m] = Top(c)
    BY <1>2, <1>13
  <2>2. c \in {top[m]} \cup LiveReplies(top[m])
    BY <1>13, <2>1 DEF Top, LiveReplies
  <2>3. PICK t \in 1..Len(ss[m]) : ss[m][t] = c
    BY <1>7, <2>1, <2>2
  <2>4. off[m] + t \in 1..Len(list) /\ list[off[m] + t] = c
    BY <1>9, <2>1, <2>3 DEF Strung
  <2> QED
    BY <2>4
<1>14. /\ L \in Nat \ {0} /\ list \in Seq(Ids)
       /\ \A i, j \in 1..Len(list) : list[i] = list[j] => i = j
  BY <1>2, <1>8, <1>11
<1> QED
  BY <1>12, <1>13, <1>14 DEF x, L, roots, Shown

\* Two places of the pages with the same comment are on pages of the same root, hence on
\* one page; and each live comment is where its root is.
LEMMA PagesFromOrder ==
  ASSUME Typed, OrderInv
  PROVE  PagesPartition
<1> SUFFICES ASSUME NEW limit \in Limits
    PROVE  LET Pages == Boards \X (1..Cardinality(Ids))
               list == [g \in Pages |-> ListComments(g[1], g[2], limit).comments]
               places == UNION {{g} \X DOMAIN list[g] : g \in Pages}
               row == [x \in places |-> list[x[1]][x[2]]]
           IN
           /\ IsInjective(row)
           /\ Range(row) = {c \in Ids : Live(c)} \ Hidden
           /\ \A x \in places :
                LET p == comment[row[x]].parent IN
                p # None => \E y \in places : y[1] = x[1] /\ y[2] < x[2] /\ row[y] = p
  BY DEF PagesPartition
<1> DEFINE N == Cardinality(Ids)
           Pages == Boards \X (1..N)
           list == [g \in Pages |-> ListComments(g[1], g[2], limit).comments]
           places == UNION {{g} \X DOMAIN list[g] : g \in Pages}
           row == [x \in places |-> list[x[1]][x[2]]]
           L == Positive(limit)
<1>1. N \in Nat /\ limit \in Int /\ comment \in [Ids -> Rows \cup {None}]
  BY FS_CardinalityType DEF Typed
<1>2. ASSUME NEW g \in Pages
      PROVE  /\ g[1] \in Boards /\ g[2] \in 1..N /\ g = <<g[1], g[2]>>
             /\ g[2] \in Nat \ {0}
             /\ list[g] = ListComments(g[1], g[2], limit).comments
  BY <1>1
<1> HIDE DEF list, L, N
<1>3. ASSUME NEW g \in Pages
      PROVE  L \in Nat \ {0} /\ Shown(list[g], g[1], g[2], L)
  <2>1. g[2] \in Nat \ {0} /\ list[g] = ListComments(g[1], g[2], limit).comments
    BY <1>2
  <2> QED
    BY <1>1, <2>1, PageListed DEF L
<1>4. \A x : x \in places <=>
        x = <<x[1], x[2]>> /\ x[1] \in Pages /\ x[2] \in DOMAIN list[x[1]]
  OBVIOUS
<1>5. ASSUME NEW g \in Pages PROVE DOMAIN list[g] = 1..Len(list[g]) /\ Len(list[g]) \in Nat
  BY <1>3 DEF Shown
<1>6. \A x \in places : row[x] = list[x[1]][x[2]]
  OBVIOUS
<1>7. DOMAIN row = places
  OBVIOUS
<1> HIDE DEF Pages, places, row
<1>8. ASSUME NEW x \in places
      PROVE  \E g \in Pages : \E i \in 1..Len(list[g]) :
               /\ x = <<g, i>> /\ row[x] = list[g][i] /\ row[x] \in Ids
               /\ Live(row[x]) /\ Top(row[x]) \in RootsOf(g[1])
  <2>1. PICK g \in Pages : g = x[1]
    BY <1>4
  <2>2. PICK i \in 1..Len(list[g]) : i = x[2]
    BY <1>4, <1>5, <2>1
  <2>3. x = <<g, i>> /\ row[x] = list[g][i]
    BY <1>4, <1>6, <2>1, <2>2
  <2>4. list[g] \in Seq(Ids) /\ Live(list[g][i]) /\ Top(list[g][i]) \in RootsOf(g[1])
    BY <1>3 DEF Shown
  <2>5. list[g][i] \in Ids
    BY <2>4
  <2> QED
    BY <2>3, <2>4, <2>5
<1>9. ASSUME NEW g \in Pages, NEW i \in 1..Len(list[g])
      PROVE  <<g, i>> \in places /\ row[<<g, i>>] = list[g][i]
  BY <1>4, <1>5, <1>6
<1>10. ASSUME NEW x \in places, NEW y \in places, row[x] = row[y] PROVE x = y
  <2>1. PICK g \in Pages : \E i \in 1..Len(list[g]) : x = <<g, i>> /\ row[x] = list[g][i]
    BY <1>8
  <2>2. PICK i \in 1..Len(list[g]) : x = <<g, i>> /\ row[x] = list[g][i]
    BY <2>1
  <2>3. PICK h \in Pages : \E j \in 1..Len(list[h]) : y = <<h, j>> /\ row[y] = list[h][j]
    BY <1>8
  <2>4. PICK j \in 1..Len(list[h]) : y = <<h, j>> /\ row[y] = list[h][j]
    BY <2>3
  <2> DEFINE top == Top(row[x])
             b == g[1]
             roots == LiveRoots(b)
  <2>5. /\ L \in Nat \ {0}
        /\ top \in RootsOf(b)
        /\ \E m \in 1..L : (g[2] - 1) * L + m \in 1..Len(roots) /\ roots[(g[2] - 1) * L + m] = top
    <3>1. L \in Nat \ {0} /\ Shown(list[g], b, g[2], L) /\ top = Top(list[g][i])
      BY <1>3, <2>2
    <3> HIDE DEF b, top
    <3> QED
      BY <3>1 DEF Shown, roots
  <2>6. /\ top \in RootsOf(h[1])
        /\ \E n \in 1..L : /\ (h[2] - 1) * L + n \in 1..Len(LiveRoots(h[1]))
                           /\ LiveRoots(h[1])[(h[2] - 1) * L + n] = top
    <3>1. L \in Nat \ {0} /\ Shown(list[h], h[1], h[2], L) /\ top = Top(list[h][j])
      BY <1>3, <1>10, <2>4
    <3> HIDE DEF top
    <3> QED
      BY <3>1 DEF Shown
  <2>7. h[1] = b
    BY <2>5, <2>6 DEF RootsOf
  <2>8. \A k, l \in 1..Len(roots) : roots[k] = roots[l] => k = l
    <3>1. Lists(roots, RootsOf(b))
      BY RootsListed
    <3> DEFINE S == RootsOf(b)
    <3> HIDE DEF S, roots
    <3> QED
      BY <3>1, ListsFacts, SMTT(30) DEF S
  <2> HIDE DEF top, b, roots
  <2>9. PICK m \in 1..L :
          (g[2] - 1) * L + m \in 1..Len(roots) /\ roots[(g[2] - 1) * L + m] = top
    BY <2>5
  <2>10. PICK n \in 1..L :
          (h[2] - 1) * L + n \in 1..Len(roots) /\ roots[(h[2] - 1) * L + n] = top
    BY <2>6, <2>7 DEF roots
  <2>11. (g[2] - 1) * L + m = (h[2] - 1) * L + n
    BY <2>8, <2>9, <2>10, Zenon
  <2>12. g[2] = h[2]
    <3>1. g[2] \in Nat \ {0} /\ h[2] \in Nat \ {0}
      BY <1>2
    <3>2. ASSUME NEW p \in Nat \ {0}, NEW q \in Nat \ {0}, (p - 1) * L + m = (q - 1) * L + n
          PROVE  p = q
      BY <2>5, <3>2, PagesApart
    <3> QED
      BY <2>11, <3>1, <3>2, Zenon
  <2>13. g = h
    BY <1>2, <2>7, <2>12 DEF b
  <2>14. i = j
    BY <1>3, <1>10, <2>2, <2>4, <2>13 DEF Shown
  <2> QED
    BY <2>2, <2>4, <2>13, <2>14
<1>11. IsInjective(row)
  BY <1>7, <1>10 DEF IsInjective
<1>12. ASSUME NEW x \in places PROVE row[x] \in {c \in Ids : Live(c)} \ Hidden
  <2>1. row[x] \in Ids /\ Live(row[x]) /\ \E b : Top(row[x]) \in RootsOf(b)
    BY <1>8
  <2>2. Live(Top(row[x]))
    BY <2>1 DEF RootsOf
  <2> QED
    BY <2>1, <2>2 DEF Hidden, Top
<1>13. ASSUME NEW c \in {d \in Ids : Live(d)} \ Hidden PROVE \E x \in places : row[x] = c
  <2> DEFINE p == Top(c)
             b == comment[p].board
             roots == LiveRoots(b)
  <2>1. c \in Ids /\ Live(c) /\ p \in Ids /\ Live(p) /\ comment[p].parent = None
    <3>1. c \in Ids /\ Live(c) /\ comment[c] # None
      BY DEF Live
    <3>2. CASE comment[c].parent = None
      BY <3>1, <3>2 DEF Top
    <3>3. CASE comment[c].parent # None
      <4>1. Live(comment[c].parent)
        BY <3>1, <3>3 DEF Hidden
      <4>2. comment[c].parent \in Roots
        BY <3>1, <3>3 DEF OrderInv
      <4> QED
        BY <3>1, <3>3, <4>1, <4>2 DEF Top, Roots
    <3> QED
      BY <3>2, <3>3
  <2>2. b \in Boards /\ p \in RootsOf(b)
    <3>1. comment[p] \in Rows
      BY <1>1, <2>1 DEF Live
    <3> QED
      BY <2>1, <3>1 DEF Rows, RootsOf
  <2>3. Lists(roots, RootsOf(b))
    BY RootsListed
  <2>4. RootsOf(b) \in SUBSET Ids
    BY DEF RootsOf
  <2> HIDE DEF b, p, roots
  <2>5. Len(roots) \in Nat /\ Len(roots) <= N
    BY <2>3, <2>4, ListsBound DEF N
  <2>6. PICK k \in 1..Len(roots) : roots[k] = p
    BY <2>2, <2>3, ListsFacts
  <2>7. L \in Nat \ {0}
    BY <1>1 DEF L, Positive
  <2>8. PICK page \in 1..k : \E m \in 1..L : (page - 1) * L + m = k
    BY <2>5, <2>7, PageExists
  <2>9. PICK m \in 1..L : (page - 1) * L + m = k
    BY <2>8
  <2>10. PICK g : g = <<b, page>>
    OBVIOUS
  <2>11. g \in Pages /\ g[1] = b /\ g[2] = page
    BY <1>1, <2>2, <2>5, <2>10 DEF Pages
  <2>12. Shown(list[g], b, page, L)
    BY <1>3, <2>11
  <2>13. \E i \in 1..Len(list[g]) : list[g][i] = c
    BY <2>1, <2>2, <2>6, <2>9, <2>12 DEF Shown, p, roots
  <2> QED
    <3>1. PICK i \in 1..Len(list[g]) : list[g][i] = c
      BY <2>13
    <3>2. <<g, i>> \in places /\ row[<<g, i>>] = list[g][i]
      BY <1>9, <2>11
    <3> QED
      BY <3>1, <3>2
<1>14. Range(row) = {c \in Ids : Live(c)} \ Hidden
  BY <1>7, <1>12, <1>13 DEF Range
<1>15. ASSUME NEW x \in places, comment[row[x]].parent # None
       PROVE  \E y \in places : y[1] = x[1] /\ y[2] < x[2] /\ row[y] = comment[row[x]].parent
  <2>1. PICK g \in Pages : \E i \in 1..Len(list[g]) : x = <<g, i>> /\ row[x] = list[g][i]
    BY <1>8
  <2>2. PICK i \in 1..Len(list[g]) : x = <<g, i>> /\ row[x] = list[g][i]
    BY <2>1
  <2>3. Top(row[x]) = comment[row[x]].parent
    BY <1>15 DEF Top
  <2>4. row[x] # Top(row[x])
    <3>1. Top(row[x]) \in RootsOf(g[1])
      BY <1>3, <2>2 DEF Shown
    <3>2. comment[Top(row[x])].parent = None
      BY <3>1 DEF RootsOf
    <3> QED
      BY <1>15, <3>2
  <2>5. PICK j \in 1..(i - 1) : list[g][j] = Top(row[x])
    BY <1>3, <2>2, <2>4 DEF Shown
  <2>6. j \in 1..Len(list[g]) /\ j < i
    BY <1>5, <2>5
  <2>7. <<g, j>> \in places /\ row[<<g, j>>] = list[g][j]
    BY <1>9, <2>6
  <2> QED
    BY <2>2, <2>3, <2>5, <2>6, <2>7
<1> QED
  BY <1>11, <1>14, <1>15 DEF N, Pages, list, places, row

\* A reader who turns all the pages of a board sees each comment once, whatever was
\* written, deleted or refused before.
THEOREM PagesShowEachOnce == Spec => []PagesPartition
<1>1. CommentsInv /\ OrderInv => PagesPartition
  BY PagesFromOrder DEF CommentsInv
<1> QED
  BY <1>1, CommentsInit, CommentsNext, OrderInit, OrderNext, PTL DEF Spec
=============================================================================
