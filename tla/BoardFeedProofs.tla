-------------------------- MODULE BoardFeedProofs --------------------------
(***************************************************************************)
(* Proofs about BoardFeed, for any boards, sites, scores and sizes of      *)
(* pages: that the pages of a list repeat and omit nothing, that the       *)
(* package of a ranking is always built, and that the excerpts read from   *)
(* bodies change no issue of a briefing but its summary.                   *)
(***************************************************************************)
EXTENDS BoardFeed, SequenceTheorems, FiniteSetTheorems, WellFoundedInduction, TLAPS

-----------------------------------------------------------------------------
(* Numbers up to a bound *)

\* A set of numbers has a least member.
LEMMA LeastMember ==
  ASSUME NEW S \in SUBSET Nat, S # {}
  PROVE  \E n \in S : \A m \in S : n <= m
<1>1. \E n \in S : \A m \in S : ~(<<m, n>> \in OpToRel(<, Nat))
  BY WFMin, NatLessThanWellFounded
<1>2. \A m, n \in Nat : m < n => <<m, n>> \in OpToRel(<, Nat)
  BY Zenon DEF OpToRel
<1>3. \A m, n \in S : ~(<<m, n>> \in OpToRel(<, Nat)) => ~(m < n)
  BY <1>2, Zenon
<1>4. \E n \in S : \A m \in S : ~(m < n)
  BY <1>1, <1>3, Zenon
<1> QED
  BY <1>4

\* What holds at 0 and goes on holding up to a bound holds up to it: there is no least
\* number for which it does not.
LEMMA InductionUpTo ==
  ASSUME NEW bound \in Nat, NEW S, 0 \in S,
         \A n \in 1..bound : n - 1 \in S => n \in S
  PROVE  \A n \in 0..bound : n \in S
<1> DEFINE T == 0..bound \ S
<1> SUFFICES ASSUME T # {} PROVE FALSE
  OBVIOUS
<1>1. PICK n \in T : \A m \in T : n <= m
  <2>1. T \in SUBSET Nat
    OBVIOUS
  <2> HIDE DEF T
  <2> QED
    BY <2>1, LeastMember
<1>2. n \in 1..bound /\ n - 1 \in S
  BY <1>1
<1> QED
  BY <1>1, <1>2

-----------------------------------------------------------------------------
(* Orders of finite sets *)

\* R orders S.
Orders(R, S) ==
  /\ \A x \in S : <<x, x>> \notin R
  /\ \A x, y \in S : x # y => <<x, y>> \in R \/ <<y, x>> \in R
  /\ \A x, y, z \in S : <<x, y>> \in R /\ <<y, z>> \in R => <<x, z>> \in R

\* Who comes first has the lower place.
LEMMA PlaceFacts ==
  ASSUME NEW S, IsFiniteSet(S), NEW R, Orders(R, S)
  PROVE  /\ Cardinality(S) \in Nat
         /\ \A x \in S : Place(x, S, R) \in 1..Cardinality(S)
         /\ \A x, y \in S : <<x, y>> \in R => Place(x, S, R) < Place(y, S, R)
<1> DEFINE Below(x) == {y \in S : <<y, x>> \in R}
<1>1. Cardinality(S) \in Nat
  BY FS_CardinalityType
<1>2. \A x \in S : /\ IsFiniteSet(Below(x)) /\ Cardinality(Below(x)) \in Nat
                   /\ Place(x, S, R) = 1 + Cardinality(Below(x))
  <2> TAKE x \in S
  <2>1. Below(x) \in SUBSET S
    OBVIOUS
  <2>2. IsFiniteSet(Below(x))
    BY <2>1, FS_Subset
  <2> QED
    BY <2>2, FS_CardinalityType DEF Place
<1>3. ASSUME NEW x \in S PROVE Place(x, S, R) \in 1..Cardinality(S)
  <2>1. Below(x) \in SUBSET S /\ x \notin Below(x)
    BY DEF Orders
  <2>2. Cardinality(Below(x)) <= Cardinality(S) /\ Cardinality(Below(x)) # Cardinality(S)
    BY <2>1, FS_Subset
  <2> QED
    BY <1>1, <1>2, <2>2
<1>4. ASSUME NEW x \in S, NEW y \in S, <<x, y>> \in R PROVE Place(x, S, R) < Place(y, S, R)
  <2>1. Below(x) \in SUBSET Below(y) /\ x \in Below(y) /\ x \notin Below(x)
    BY <1>4 DEF Orders
  <2>2. IsFiniteSet(Below(y))
    BY <1>2
  <2>3. Cardinality(Below(x)) <= Cardinality(Below(y)) /\ Cardinality(Below(x)) # Cardinality(Below(y))
    <3> HIDE DEF Below
    <3> QED
      BY <2>1, <2>2, FS_Subset
  <2> QED
    BY <1>2, <2>3, SMTT(30)
<1> QED
  BY <1>1, <1>3, <1>4

\* The first member.
LEMMA MinimumExists ==
  ASSUME NEW S, IsFiniteSet(S), S # {}, NEW R, Orders(R, S)
  PROVE  \E x \in S : \A y \in S \ {x} : <<x, y>> \in R
<1> DEFINE P == {Place(x, S, R) : x \in S}
<1>1. P \in SUBSET Nat /\ P # {}
  BY PlaceFacts
<1>2. PICK n \in P : \A m \in P : n <= m
  <2> HIDE DEF P
  <2> QED
    BY <1>1, LeastMember
<1>3. PICK x \in S : n = Place(x, S, R)
  BY <1>2
<1>4. ASSUME NEW y \in S \ {x} PROVE <<x, y>> \in R
  <2>1. <<x, y>> \in R \/ <<y, x>> \in R
    BY DEF Orders
  <2>2. Place(x, S, R) <= Place(y, S, R)
    BY <1>2, <1>3
  <2>3. <<y, x>> \in R => Place(y, S, R) < Place(x, S, R)
    BY PlaceFacts
  <2>4. Place(x, S, R) \in Nat /\ Place(y, S, R) \in Nat
    BY PlaceFacts
  <2> QED
    BY <2>1, <2>2, <2>3, <2>4
<1> QED
  BY <1>4

\* s lists the members of S, each once.
Lists(s, S) == s \in Seq(S) /\ IsInjective(s) /\ \A c \in S : \E i \in 1..Len(s) : s[i] = c

\* What the places of a list hold.
LEMMA ListsFacts ==
  ASSUME NEW S, NEW s, Lists(s, S)
  PROVE  /\ s \in Seq(S) /\ Len(s) \in Nat /\ DOMAIN s = 1..Len(s)
         /\ \A i \in 1..Len(s) : s[i] \in S
         /\ \A i, j \in 1..Len(s) : s[i] = s[j] => i = j
         /\ \A c \in S : \E i \in 1..Len(s) : s[i] = c
<1>1. s \in Seq(S)
  BY DEF Lists
<1>2. Len(s) \in Nat /\ DOMAIN s = 1..Len(s) /\ \A i \in 1..Len(s) : s[i] \in S
  BY <1>1
<1> QED
  BY <1>1, <1>2 DEF Lists, IsInjective

\* Ordered lists the members in their order.
LEMMA OrderedFacts ==
  ASSUME NEW S, IsFiniteSet(S), NEW R, Orders(R, S)
  PROVE  LET s == Ordered(S, R)
         IN  /\ Lists(s, S) /\ Len(s) = Cardinality(S)
             /\ \A i, j \in 1..Len(s) : i < j => <<s[i], s[j]>> \in R
<1> DEFINE n == Cardinality(S)
           place == [x \in S |-> Place(x, S, R)]
           s == Ordered(S, R)
<1>1. /\ n \in Nat
      /\ \A x \in S : Place(x, S, R) \in 1..n
      /\ \A x, y \in S : <<x, y>> \in R => Place(x, S, R) < Place(y, S, R)
  BY PlaceFacts
<1>2. ASSUME NEW x \in S, NEW y \in S, Place(x, S, R) = Place(y, S, R) PROVE x = y
  <2>1. ~(Place(x, S, R) < Place(y, S, R)) /\ ~(Place(y, S, R) < Place(x, S, R))
    BY <1>1, <1>2
  <2> QED
    BY <1>1, <2>1 DEF Orders
<1>3. place \in Surjection(S, 1..n)
  <2>1. place \in Injection(S, 1..n)
    BY <1>1, <1>2 DEF Injection, IsInjective
  <2>2. IsFiniteSet(1..n) /\ Cardinality(1..n) = n
    BY <1>1, FS_Interval
  <2> HIDE DEF place
  <2> QED
    BY <2>1, <2>2, FS_Injection
<1>4. ASSUME NEW k \in 1..n PROVE \E x \in S : Place(x, S, R) = k
  <2>1. PICK x \in S : place[x] = k
    <3> HIDE DEF place
    <3> QED
      BY <1>3 DEF Surjection
  <2> QED
    BY <2>1
<1>5. s = [k \in 1..n |-> CHOOSE x \in S : Place(x, S, R) = k]
  BY DEF Ordered
<1>6. ASSUME NEW k \in 1..n PROVE s[k] \in S /\ Place(s[k], S, R) = k
  <2>1. s[k] = CHOOSE x \in S : Place(x, S, R) = k
    BY <1>5
  <2> QED
    BY <1>4, <2>1
<1> HIDE DEF n, s
<1>7. s \in Seq(S) /\ Len(s) = n /\ DOMAIN s = 1..n
  BY <1>1, <1>5, <1>6
<1>8. IsInjective(s)
  <2>1. \A i, j \in 1..n : s[i] = s[j] => i = j
    BY <1>6
  <2> QED
    BY <1>7, <2>1 DEF IsInjective
<1>9. ASSUME NEW x \in S PROVE \E i \in 1..Len(s) : s[i] = x
  <2>1. Place(x, S, R) \in 1..n
    BY <1>1
  <2>2. s[Place(x, S, R)] = x
    BY <1>2, <1>6, <2>1
  <2> QED
    BY <1>7, <2>1, <2>2
<1>10. ASSUME NEW i \in 1..n, NEW j \in 1..n, i < j PROVE <<s[i], s[j]>> \in R
  <2>1. s[i] \in S /\ s[j] \in S /\ Place(s[i], S, R) = i /\ Place(s[j], S, R) = j
    BY <1>6
  <2>2. s[i] # s[j] /\ ~(Place(s[j], S, R) < Place(s[i], S, R))
    BY <1>10, <2>1
  <2> QED
    BY <1>1, <2>1, <2>2 DEF Orders
<1>11. Lists(s, S)
  BY <1>7, <1>8, <1>9 DEF Lists
<1> QED
  BY <1>7, <1>10, <1>11 DEF n, s

-----------------------------------------------------------------------------
(* Candidates *)

\* Tuples compare from the left.
LEMMA FourPrecede ==
  ASSUME NEW k, NEW l, DOMAIN k = 1..4
  PROVE  Precedes(k, l) <=>
           \/ k[1] < l[1]
           \/ k[1] = l[1] /\ k[2] < l[2]
           \/ k[1] = l[1] /\ k[2] = l[2] /\ k[3] < l[3]
           \/ k[1] = l[1] /\ k[2] = l[2] /\ k[3] = l[3] /\ k[4] < l[4]
<1>1. 1..4 = {1, 2, 3, 4} /\ 1..0 = {} /\ 1..1 = {1} /\ 1..2 = {1, 2} /\ 1..3 = {1, 2, 3}
  OBVIOUS
<1>2. 1 - 1 = 0 /\ 2 - 1 = 1 /\ 3 - 1 = 2 /\ 4 - 1 = 3
  OBVIOUS
<1>3. Precedes(k, l) <=>
        \/ k[1] < l[1] /\ \A j \in 1..0 : k[j] = l[j]
        \/ k[2] < l[2] /\ \A j \in 1..1 : k[j] = l[j]
        \/ k[3] < l[3] /\ \A j \in 1..2 : k[j] = l[j]
        \/ k[4] < l[4] /\ \A j \in 1..3 : k[j] = l[j]
  BY <1>1, <1>2 DEF Precedes
<1> QED
  BY <1>1, <1>3

LEMMA ThreePrecede ==
  ASSUME NEW k, NEW l, DOMAIN k = 1..3
  PROVE  Precedes(k, l) <=>
           \/ k[1] < l[1]
           \/ k[1] = l[1] /\ k[2] < l[2]
           \/ k[1] = l[1] /\ k[2] = l[2] /\ k[3] < l[3]
<1>1. 1..3 = {1, 2, 3} /\ 1..0 = {} /\ 1..1 = {1} /\ 1..2 = {1, 2}
  OBVIOUS
<1>2. 1 - 1 = 0 /\ 2 - 1 = 1 /\ 3 - 1 = 2
  OBVIOUS
<1>3. Precedes(k, l) <=>
        \/ k[1] < l[1] /\ \A j \in 1..0 : k[j] = l[j]
        \/ k[2] < l[2] /\ \A j \in 1..1 : k[j] = l[j]
        \/ k[3] < l[3] /\ \A j \in 1..2 : k[j] = l[j]
  BY <1>1, <1>2 DEF Precedes
<1> QED
  BY <1>1, <1>3

\* Candidates with one identity are one.
Ranked(C) ==
  /\ IsFiniteSet(C)
  /\ \A c \in C : c.id \in Int /\ c.site \in Int /\ c.score \in Int /\ c.created \in Int
  /\ \A c, d \in C : c.id = d.id => c = d

LEMMA RankedSubset ==
  ASSUME NEW C, Ranked(C), NEW S \in SUBSET C
  PROVE  Ranked(S)
BY FS_Subset DEF Ranked

\* Ahead, number by number.
LEMMA AheadMeans ==
  ASSUME NEW C, Ranked(C), NEW c \in C, NEW d \in C
  PROVE  LET x == CleanScore(c.score)
             y == CleanScore(d.score)
         IN  /\ x \in Nat /\ y \in Nat
             /\ Ahead(c, d) <=>
                  x > y \/ (x = y /\ (c.created > d.created \/ (c.created = d.created /\
                    (c.site < d.site \/ (c.site = d.site /\ c.id < d.id)))))
<1>1. /\ c.id \in Int /\ c.site \in Int /\ c.score \in Int /\ c.created \in Int
      /\ d.id \in Int /\ d.site \in Int /\ d.score \in Int /\ d.created \in Int
  BY DEF Ranked
<1>2. CleanScore(c.score) \in Nat /\ CleanScore(d.score) \in Nat
  BY <1>1 DEF CleanScore
<1>3. PICK x \in Nat, y \in Nat : x = CleanScore(c.score) /\ y = CleanScore(d.score)
  BY <1>2
<1>4. PICK k : k = CandidateKey(c)
  OBVIOUS
<1>5. PICK l : l = CandidateKey(d)
  OBVIOUS
<1>6. DOMAIN k = 1..4 /\ k[1] = -x /\ k[2] = -c.created /\ k[3] = c.site /\ k[4] = c.id
  BY <1>3, <1>4 DEF CandidateKey
<1>7. l[1] = -y /\ l[2] = -d.created /\ l[3] = d.site /\ l[4] = d.id
  BY <1>3, <1>5 DEF CandidateKey
<1>8. Ahead(c, d) <=> Precedes(k, l)
  BY <1>4, <1>5 DEF Ahead
<1>9. Precedes(k, l) <=>
        \/ k[1] < l[1]
        \/ k[1] = l[1] /\ k[2] < l[2]
        \/ k[1] = l[1] /\ k[2] = l[2] /\ k[3] < l[3]
        \/ k[1] = l[1] /\ k[2] = l[2] /\ k[3] = l[3] /\ k[4] < l[4]
  BY <1>6, FourPrecede
<1>10. (k[1] < l[1] <=> x > y) /\ (k[1] = l[1] <=> x = y)
  BY <1>6, <1>7
<1>11. (k[2] < l[2] <=> c.created > d.created) /\ (k[2] = l[2] <=> c.created = d.created)
  BY <1>1, <1>6, <1>7
<1> QED
  BY <1>3, <1>6, <1>7, <1>8, <1>9, <1>10, <1>11

\* Ahead orders candidates.
LEMMA AheadOrders ==
  ASSUME NEW C, Ranked(C)
  PROVE  /\ \A c \in C : ~Ahead(c, c)
         /\ \A c, d \in C : c # d => Ahead(c, d) \/ Ahead(d, c)
         /\ \A c, d, e \in C : Ahead(c, d) /\ Ahead(d, e) => Ahead(c, e)
<1>1. \A c \in C : c.id \in Int /\ c.site \in Int /\ c.created \in Int
  BY DEF Ranked
<1>2. ASSUME NEW c \in C PROVE ~Ahead(c, c)
  BY <1>1, AheadMeans
<1>3. ASSUME NEW c \in C, NEW d \in C, c # d PROVE Ahead(c, d) \/ Ahead(d, c)
  <2>1. c.id # d.id
    BY <1>3 DEF Ranked
  <2> QED
    BY <1>1, <2>1, AheadMeans
<1>4. ASSUME NEW c \in C, NEW d \in C, NEW e \in C, Ahead(c, d), Ahead(d, e) PROVE Ahead(c, e)
  BY <1>1, <1>4, AheadMeans
<1> QED
  BY <1>2, <1>3, <1>4

\* The pairs that Ahead puts in order.
AheadIn(S) == {p \in S \X S : Ahead(p[1], p[2])}

LEMMA AheadInOrders ==
  ASSUME NEW S, Ranked(S)
  PROVE  Orders(AheadIn(S), S)
<1>1. \A c, d \in S : <<c, d>> \in AheadIn(S) <=> Ahead(c, d)
  BY DEF AheadIn
<1> QED
  BY <1>1, AheadOrders DEF Orders

\* The foremost of candidates is ahead of the others, and the only one that is.
LEMMA ForemostFacts ==
  ASSUME NEW S, Ranked(S), S # {}
  PROVE  /\ Foremost(S) \in S
         /\ \A d \in S \ {Foremost(S)} : Ahead(Foremost(S), d)
         /\ \A c \in S : (\A d \in S \ {c} : Ahead(c, d)) => c = Foremost(S)
<1>1. \E c \in S : \A d \in S \ {c} : Ahead(c, d)
  <2>1. PICK c \in S : \A d \in S \ {c} : <<c, d>> \in AheadIn(S)
    BY AheadInOrders, MinimumExists DEF Ranked
  <2> QED
    BY <2>1 DEF AheadIn
<1>2. Foremost(S) \in S /\ \A d \in S \ {Foremost(S)} : Ahead(Foremost(S), d)
  BY <1>1 DEF Foremost
<1>3. ASSUME NEW c \in S, \A d \in S \ {c} : Ahead(c, d) PROVE c = Foremost(S)
  <2>1. c # Foremost(S) => Ahead(c, Foremost(S)) /\ Ahead(Foremost(S), c)
    BY <1>2, <1>3
  <2>2. ~(Ahead(c, Foremost(S)) /\ Ahead(Foremost(S), c))
    BY <1>2, AheadOrders
  <2> QED
    BY <2>1, <2>2
<1> QED
  BY <1>2, <1>3

\* The members of S at a site, and who is the best of one.
AtSite(S, s) == {c \in S : c.site = s}

LEMMA BestFacts ==
  ASSUME NEW S, Ranked(S)
  PROVE  /\ BestOfSites(S) \in SUBSET S
         /\ IsFiniteSet(BestOfSites(S))
         /\ S # {} => BestOfSites(S) # {}
         /\ \A c \in S : c \in BestOfSites(S) <=>
                           \A d \in S : d.site = c.site /\ d # c => Ahead(c, d)
<1>1. \A c \in S : /\ Ranked(AtSite(S, c.site)) /\ c \in AtSite(S, c.site)
                   /\ AtSite(S, c.site) \in SUBSET S
  BY RankedSubset DEF AtSite
<1>2. BestOfSites(S) = {Foremost(AtSite(S, s)) : s \in SitesOf(S)}
  BY DEF BestOfSites, AtSite
<1>3. ASSUME NEW s \in SitesOf(S)
      PROVE  Ranked(AtSite(S, s)) /\ Foremost(AtSite(S, s)) \in AtSite(S, s)
  <2>1. PICK c \in S : s = c.site
    BY DEF SitesOf
  <2> QED
    BY <1>1, <2>1, ForemostFacts
<1>4. BestOfSites(S) \in SUBSET S
  BY <1>2, <1>3 DEF AtSite
<1>5. IsFiniteSet(BestOfSites(S))
  BY <1>4, FS_Subset DEF Ranked
<1>6. S # {} => BestOfSites(S) # {}
  BY <1>2 DEF SitesOf
<1>7. ASSUME NEW c \in S, c \in BestOfSites(S), NEW d \in S, d.site = c.site, d # c
      PROVE  Ahead(c, d)
  <2>1. PICK s \in SitesOf(S) : c = Foremost(AtSite(S, s))
    BY <1>2, <1>7
  <2>2. c.site = s
    BY <1>3, <2>1 DEF AtSite
  <2>3. d \in AtSite(S, s) \ {c}
    BY <1>7, <2>2 DEF AtSite
  <2> QED
    BY <1>3, <2>1, <2>3, ForemostFacts
<1>8. ASSUME NEW c \in S, \A d \in S : d.site = c.site /\ d # c => Ahead(c, d)
      PROVE  c \in BestOfSites(S)
  <2>1. \A d \in AtSite(S, c.site) \ {c} : Ahead(c, d)
    BY <1>8 DEF AtSite
  <2>2. c = Foremost(AtSite(S, c.site))
    BY <1>1, <2>1, ForemostFacts
  <2> QED
    BY <1>2, <2>2 DEF SitesOf
<1> QED
  BY <1>4, <1>5, <1>6, <1>7, <1>8

-----------------------------------------------------------------------------
(* The next candidate *)

\* Shares of scores compare transitively.
LEMMA TimesMono ==
  ASSUME NEW x \in Int, NEW y \in Int, NEW k \in Nat \ {0}
  PROVE  (x >= y <=> x * k >= y * k) /\ (x > y <=> x * k > y * k)
<1>1. ASSUME NEW a \in Int, NEW b \in Int, a > b PROVE a * k > b * k
  <2>1. PICK d \in Nat \ {0} : a = b + d
    <3>1. a - b \in Nat \ {0} /\ a = b + (a - b)
      BY <1>1
    <3> QED
      BY <3>1
  <2>2. a * k = b * k + d * k /\ d * k > 0
    BY <2>1
  <2> QED
    BY <2>2
<1>2. x > y => x * k > y * k
  BY <1>1
<1>3. y > x => y * k > x * k
  BY <1>1
<1>4. x = y => x * k = y * k
  OBVIOUS
<1>5. x * k \in Int /\ y * k \in Int
  OBVIOUS
<1> QED
  BY <1>2, <1>3, <1>4, <1>5

LEMMA SharesCompare ==
  ASSUME NEW a \in Nat, NEW b \in Nat, NEW c \in Nat,
         NEW u \in Nat \ {0}, NEW v \in Nat \ {0}, NEW w \in Nat \ {0},
         a * v >= b * u, b * w >= c * v
  PROVE  /\ a * w >= c * u
         /\ a * w = c * u => a * v = b * u /\ b * w = c * v
<1>1. PICK p \in Nat, q \in Nat, r \in Nat, s \in Nat, x \in Nat, y \in Nat :
        p = a * v /\ q = b * u /\ r = b * w /\ s = c * v /\ x = a * w /\ y = c * u
  OBVIOUS
<1>2. p * w >= q * w /\ (p > q => p * w > q * w)
  BY <1>1, TimesMono
<1>3. r * u >= s * u /\ (r > s => r * u > s * u)
  BY <1>1, TimesMono
<1>4. p * w = x * v /\ q * w = r * u /\ s * u = y * v
  <2>1. (a * v) * w = (a * w) * v
    OBVIOUS
  <2>2. (b * u) * w = (b * w) * u
    OBVIOUS
  <2>3. (c * v) * u = (c * u) * v
    OBVIOUS
  <2> QED
    BY <1>1, <2>1, <2>2, <2>3
<1>5. PICK i \in Int, j \in Int, k \in Int : i = x * v /\ j = r * u /\ k = y * v
  OBVIOUS
<1>6. i >= j /\ j >= k /\ (p > q => i > j) /\ (r > s => j > k)
  BY <1>2, <1>3, <1>4, <1>5
<1>7. x >= y
  BY <1>5, <1>6, TimesMono
<1>8. x = y => i = k
  BY <1>5
<1>9. x = y => p = q /\ r = s
  BY <1>1, <1>6, <1>8
<1> QED
  BY <1>1, <1>7, <1>9

\* Outranks orders candidates, whatever their sites have been shown.
LEMMA OutranksOrders ==
  ASSUME NEW C, Ranked(C), NEW e, \A c \in C : e[c.site] \in Nat
  PROVE  /\ \A c \in C : ~Outranks(c, c, e)
         /\ \A c, d \in C : c # d => Outranks(c, d, e) \/ Outranks(d, c, e)
         /\ \A c, d, f \in C : Outranks(c, d, e) /\ Outranks(d, f, e) => Outranks(c, f, e)
<1> DEFINE score(c) == CleanScore(c.score)
           weight(c) == 2 + e[c.site]
<1>1. \A c \in C : score(c) \in Nat /\ weight(c) \in Nat \ {0}
  <2> TAKE c \in C
  <2>1. score(c) \in Nat
    BY AheadMeans
  <2> QED
    BY <2>1
<1>2. \A c, d \in C : Outranks(c, d, e) <=>
        \/ score(c) * weight(d) > score(d) * weight(c)
        \/ score(c) * weight(d) = score(d) * weight(c) /\ Ahead(c, d)
  BY DEF Outranks
<1> HIDE DEF score, weight
<1>3. \A c, d \in C : score(c) * weight(d) \in Nat
  <2> TAKE c, d \in C
  <2>1. PICK x \in Nat, y \in Nat : x = score(c) /\ y = weight(d)
    BY <1>1
  <2> QED
    BY <2>1
<1>4. ASSUME NEW c \in C PROVE ~Outranks(c, c, e)
  BY <1>2, <1>3, AheadOrders
<1>5. ASSUME NEW c \in C, NEW d \in C, c # d PROVE Outranks(c, d, e) \/ Outranks(d, c, e)
  <2>1. PICK x \in Nat, y \in Nat : x = score(c) * weight(d) /\ y = score(d) * weight(c)
    BY <1>3
  <2>2. Ahead(c, d) \/ Ahead(d, c)
    BY <1>5, AheadOrders
  <2>3. x > y \/ y > x \/ x = y
    OBVIOUS
  <2> QED
    BY <1>2, <2>1, <2>2, <2>3
<1>6. ASSUME NEW c \in C, NEW d \in C, NEW f \in C, Outranks(c, d, e), Outranks(d, f, e)
      PROVE  Outranks(c, f, e)
  <2>1. PICK x \in Nat, y \in Nat, z \in Nat : x = score(c) /\ y = score(d) /\ z = score(f)
    BY <1>1
  <2>2. PICK u \in Nat \ {0}, v \in Nat \ {0}, w \in Nat \ {0} :
          u = weight(c) /\ v = weight(d) /\ w = weight(f)
    BY <1>1
  <2>3. /\ x * v > y * u \/ (x * v = y * u /\ Ahead(c, d))
        /\ y * w > z * v \/ (y * w = z * v /\ Ahead(d, f))
    BY <1>2, <1>6, <2>1, <2>2
  <2>4. PICK p \in Nat, q \in Nat, r \in Nat, s \in Nat, m \in Nat, n \in Nat :
          p = x * v /\ q = y * u /\ r = y * w /\ s = z * v /\ m = x * w /\ n = z * u
    <3>1. x * v \in Nat /\ y * u \in Nat
      OBVIOUS
    <3>2. y * w \in Nat /\ z * v \in Nat
      OBVIOUS
    <3>3. x * w \in Nat /\ z * u \in Nat
      OBVIOUS
    <3> QED
      BY <3>1, <3>2, <3>3
  <2>5. p >= q /\ r >= s
    BY <2>3, <2>4
  <2>6. m >= n /\ (m = n => p = q /\ r = s)
    BY <2>4, <2>5, SharesCompare
  <2>7. CASE m > n
    BY <1>2, <2>1, <2>2, <2>4, <2>7
  <2>8. CASE m = n
    <3>1. Ahead(c, d) /\ Ahead(d, f)
      BY <2>3, <2>4, <2>6, <2>8
    <3>2. Ahead(c, f)
      BY <3>1, AheadOrders
    <3> QED
      BY <1>2, <2>1, <2>2, <2>4, <2>8, <3>2
  <2> QED
    BY <2>6, <2>7, <2>8
<1> QED
  BY <1>4, <1>5, <1>6

\* A next candidate is there while some are left, and is one of them.
Exposures(selected, C) ==
  [s \in SitesOf(C) |-> Cardinality({i \in DOMAIN selected : selected[i].site = s})]

OutranksIn(S, e) == {p \in S \X S : Outranks(p[1], p[2], e)}

LEMMA NextIsLeft ==
  ASSUME NEW C, Ranked(C), NEW selected \in Seq(C), C \ ToSet(selected) # {}
  PROVE  NextSelected(selected, C) \in C \ ToSet(selected)
<1> DEFINE left == C \ ToSet(selected)
           e == Exposures(selected, C)
           best == BestOfSites(left)
<1>1. Ranked(left)
  BY RankedSubset
<1>2. \A c \in C : e[c.site] \in Nat
  <2> TAKE c \in C
  <2>1. c.site \in SitesOf(C)
    BY DEF SitesOf
  <2>2. IsFiniteSet({i \in DOMAIN selected : selected[i].site = c.site})
    <3>1. DOMAIN selected = 1..Len(selected) /\ Len(selected) \in Nat
      OBVIOUS
    <3>2. IsFiniteSet(1..Len(selected))
      BY <3>1, FS_Interval
    <3> QED
      BY <3>1, <3>2, FS_Subset
  <2> QED
    BY <2>1, <2>2, FS_CardinalityType DEF Exposures
<1>3. best \in SUBSET left /\ IsFiniteSet(best) /\ best # {}
  <2> HIDE DEF left
  <2> QED
    BY <1>1, BestFacts DEF left
<1> DEFINE R == OutranksIn(best, e)
<1> HIDE DEF e, best, R
<1>4. Ranked(best) /\ \A c \in best : e[c.site] \in Nat
  BY <1>1, <1>2, <1>3, RankedSubset
<1>5. Orders(R, best)
  <2>1. \A c, d \in best : <<c, d>> \in R <=> Outranks(c, d, e)
    BY DEF R, OutranksIn
  <2>2. /\ \A c \in best : ~Outranks(c, c, e)
        /\ \A c, d \in best : c # d => Outranks(c, d, e) \/ Outranks(d, c, e)
        /\ \A c, d, f \in best : Outranks(c, d, e) /\ Outranks(d, f, e) => Outranks(c, f, e)
    BY <1>4, OutranksOrders
  <2> QED
    BY <2>1, <2>2 DEF Orders
<1>6. \E c \in best : \A d \in best \ {c} : Outranks(c, d, e)
  <2>1. PICK c \in best : \A d \in best \ {c} : <<c, d>> \in R
    BY <1>3, <1>5, MinimumExists
  <2> QED
    BY <2>1 DEF R, OutranksIn
<1>7. NextSelected(selected, C) =
        CHOOSE c \in best : \A d \in best \ {c} : Outranks(c, d, e)
  BY DEF NextSelected, best, e, Exposures
<1> QED
  BY <1>3, <1>6, <1>7

-----------------------------------------------------------------------------
(* The order that balance_site_exposure builds *)

\* The n-th of the order, after selected.
Chosen(n, selected, C) ==
  IF n <= Len(FirstExposure(C)) THEN FirstExposure(C)[n] ELSE NextSelected(selected, C)

LEMMA SelectionsUnfold ==
  ASSUME NEW C, Cardinality(C) \in Nat
  PROVE  /\ Selections(C)[0] = <<>>
         /\ \A n \in 1..Cardinality(C) :
              Selections(C)[n] = Append(Selections(C)[n - 1], Chosen(n, Selections(C)[n - 1], C))
<1> DEFINE size == Cardinality(C)
           Unfolds(f, k) ==
             f = [n \in 0..k |-> IF n = 0 THEN <<>>
                                 ELSE Append(f[n - 1], Chosen(n, f[n - 1], C))]
           Lengths == {k \in Nat : \E f : Unfolds(f, k)}
<1>1. 0 \in Lengths
  <2> DEFINE f == [n \in 0..0 |-> <<>>]
  <2>1. Unfolds(f, 0)
    OBVIOUS
  <2> QED
    BY <2>1
<1>2. ASSUME NEW m \in 1..size, m - 1 \in Lengths PROVE m \in Lengths
  <2>0. PICK k \in Nat : k = m - 1 /\ m = k + 1
    OBVIOUS
  <2>1. PICK f : Unfolds(f, k)
    BY <1>2, <2>0
  <2> DEFINE g == [n \in 0..(k + 1) |->
                     IF n <= k THEN f[n] ELSE Append(f[k], Chosen(k + 1, f[k], C))]
             h == [n \in 0..(k + 1) |->
                     IF n = 0 THEN <<>> ELSE Append(g[n - 1], Chosen(n, g[n - 1], C))]
  <2>2. ASSUME NEW n \in 0..(k + 1) PROVE g[n] = h[n]
    <3>1. CASE n = 0
      <4>1. f[0] = <<>>
        BY <2>1
      <4> QED
        BY <3>1, <4>1
    <3>2. CASE n \in 1..k
      <4>1. f[n] = Append(f[n - 1], Chosen(n, f[n - 1], C))
        <5>1. n \in 0..k /\ n # 0
          BY <3>2
        <5> QED
          BY <2>1, <5>1, Zenon
      <4>2. g[n] = f[n] /\ g[n - 1] = f[n - 1]
        BY <3>2
      <4> HIDE DEF g
      <4> QED
        BY <3>2, <4>1, <4>2
    <3>3. CASE n = k + 1
      <4>1. g[n] = Append(f[k], Chosen(k + 1, f[k], C)) /\ g[n - 1] = f[k]
        BY <3>3
      <4> HIDE DEF g
      <4> QED
        BY <3>3, <4>1
    <3> QED
      BY <3>1, <3>2, <3>3
  <2>3. g = h
    BY <2>2
  <2>4. Unfolds(g, k + 1)
    <3> HIDE DEF g
    <3> QED
      BY <2>3
  <2>5. \E f1 : Unfolds(f1, k + 1)
    <3> HIDE DEF g, Unfolds
    <3> QED
      BY <2>4
  <2> HIDE DEF Unfolds
  <2> QED
    BY <2>0, <2>5
<1>3. \E f : Unfolds(f, size)
  <2> HIDE DEF Lengths
  <2>1. \A n \in 0..size : n \in Lengths
    BY <1>1, <1>2, InductionUpTo
  <2>2. size \in Lengths
    BY <2>1
  <2> QED
    BY <2>2 DEF Lengths
<1>4. Selections(C) = CHOOSE f : Unfolds(f, size)
  BY DEF Selections, Chosen
<1>5. Unfolds(Selections(C), size)
  <2> HIDE DEF Unfolds
  <2> QED
    BY <1>3, <1>4
<1> DEFINE f == Selections(C)
<1>6. /\ f[0] = <<>>
      /\ \A n \in 1..size : f[n] = Append(f[n - 1], Chosen(n, f[n - 1], C))
  <2> HIDE DEF f
  <2>1. Unfolds(f, size)
    BY <1>5 DEF f
  <2>2. f[0] = <<>>
    <3>1. 0 \in 0..size
      OBVIOUS
    <3> QED
      BY <2>1, <3>1, Zenon
  <2>3. ASSUME NEW n \in 1..size PROVE f[n] = Append(f[n - 1], Chosen(n, f[n - 1], C))
    <3>1. n \in 0..size /\ n # 0
      OBVIOUS
    <3> QED
      BY <2>1, <3>1, Zenon
  <2> QED
    BY <2>2, <2>3
<1> QED
  BY <1>6

\* What a sequence holds is no more than it is long.
LEMMA SeqSize ==
  ASSUME NEW S, NEW s \in Seq(S)
  PROVE  IsFiniteSet(ToSet(s)) /\ Cardinality(ToSet(s)) <= Len(s) /\ Cardinality(ToSet(s)) \in Nat
<1>1. Len(s) \in Nat /\ DOMAIN s = 1..Len(s) /\ s = [i \in 1..Len(s) |-> s[i]]
  OBVIOUS
<1>2. s \in Surjection(1..Len(s), ToSet(s))
  BY <1>1 DEF Surjection, ToSet
<1>3. IsFiniteSet(1..Len(s)) /\ Cardinality(1..Len(s)) = Len(s)
  <2>1. PICK n \in Nat : n = Len(s)
    BY <1>1
  <2>2. IsFiniteSet(1..n) /\ Cardinality(1..n) = IF 1 > n THEN 0 ELSE n - 1 + 1
    BY FS_Interval
  <2> QED
    BY <2>1, <2>2
<1> QED
  BY <1>2, <1>3, FS_Surjection, FS_CardinalityType

\* The first exposures are candidates, each once.
LEMMA FirstFacts ==
  ASSUME NEW C, Ranked(C)
  PROVE  LET first == FirstExposure(C)
         IN  /\ first \in Seq(C) /\ Len(first) \in Nat
             /\ \A i \in 1..Len(first) : first[i] \in C
             /\ \A i, j \in 1..Len(first) : first[i] = first[j] => i = j
<1> DEFINE active == {c \in C : c.active}
           best == BestOfSites(active)
<1>1. Ranked(active) /\ active \in SUBSET C
  BY RankedSubset
<1>2. best \in SUBSET C /\ IsFiniteSet(best) /\ Ranked(best)
  <2> HIDE DEF active
  <2> QED
    BY <1>1, BestFacts, RankedSubset
<1>3. FirstExposure(C) = Ordered(best, AheadIn(best))
  BY DEF FirstExposure, AheadIn
<1> HIDE DEF best
<1>4. Lists(FirstExposure(C), best)
  BY <1>2, <1>3, AheadInOrders, OrderedFacts
<1> DEFINE first == FirstExposure(C)
<1> HIDE DEF first
<1>5. /\ first \in Seq(best) /\ Len(first) \in Nat
      /\ \A i \in 1..Len(first) : first[i] \in best
      /\ \A i, j \in 1..Len(first) : first[i] = first[j] => i = j
  BY <1>4, ListsFacts DEF first
<1>6. first \in Seq(C)
  BY <1>2, <1>5
<1> QED
  BY <1>2, <1>5, <1>6 DEF first

\* A sequence of n candidates without repetitions.
Once(s, n, C) ==
  /\ s \in Seq(C) /\ Len(s) = n
  /\ \A i, j \in 1..n : s[i] = s[j] => i = j

LEMMA OnceMore ==
  ASSUME NEW C, NEW n \in Nat, NEW s, Once(s, n, C), NEW x \in C \ ToSet(s)
  PROVE  Once(Append(s, x), n + 1, C)
<1> DEFINE a == Append(s, x)
<1>1. s \in Seq(C) /\ Len(s) = n /\ DOMAIN s = 1..n
  BY DEF Once
<1>2. a \in Seq(C) /\ Len(a) = n + 1 /\ (\A i \in 1..n : a[i] = s[i]) /\ a[n + 1] = x
  BY <1>1
<1> HIDE DEF a
<1>3. \A i \in 1..n : s[i] # x
  BY <1>1 DEF ToSet
<1>4. ASSUME NEW i \in 1..(n + 1), NEW j \in 1..(n + 1), a[i] = a[j] PROVE i = j
  <2>1. (i \in 1..n \/ i = n + 1) /\ (j \in 1..n \/ j = n + 1)
    OBVIOUS
  <2> QED
    BY <1>2, <1>3, <1>4, <2>1 DEF Once
<1> QED
  BY <1>2, <1>4 DEF Once, a

\* Each selection is one candidate more than the one before, and begins with the first
\* exposures.
LEMMA SelectionFacts ==
  ASSUME NEW C, Ranked(C)
  PROVE  /\ Cardinality(C) \in Nat
         /\ \A n \in 0..Cardinality(C) : Once(Selections(C)[n], n, C)
         /\ \A n \in 1..Cardinality(C) : \A i \in 1..(n - 1) :
              Selections(C)[n][i] = Selections(C)[n - 1][i]
<1> DEFINE f == Selections(C)
           first == FirstExposure(C)
           size == Cardinality(C)
           Good(n) == Once(f[n], n, C) /\ \A i \in 1..n : i <= Len(first) => f[n][i] = first[i]
           S == {n \in 0..size : Good(n)}
<1>1. size \in Nat
  BY FS_CardinalityType DEF Ranked
<1>2. f[0] = <<>> /\ \A n \in 1..size : f[n] = Append(f[n - 1], Chosen(n, f[n - 1], C))
  BY <1>1, SelectionsUnfold
<1>3. /\ first \in Seq(C) /\ Len(first) \in Nat
      /\ \A i \in 1..Len(first) : first[i] \in C
      /\ \A i, j \in 1..Len(first) : first[i] = first[j] => i = j
  BY FirstFacts
<1> HIDE DEF f
<1>4. 0 \in S
  <2>1. Once(<<>>, 0, C)
    BY DEF Once
  <2> QED
    BY <1>1, <1>2, <2>1
<1>5. ASSUME NEW n \in 1..size, Good(n - 1)
      PROVE  Good(n) /\ \A i \in 1..(n - 1) : f[n][i] = f[n - 1][i]
  <2>1. PICK k \in Nat : k = n - 1 /\ n = k + 1
    OBVIOUS
  <2>2. PICK s : s = f[k]
    OBVIOUS
  <2>3. PICK x : x = Chosen(n, s, C)
    OBVIOUS
  <2>8. PICK a : a = Append(s, x)
    OBVIOUS
  <2>9. f[n] = a
    BY <1>2, <2>1, <2>2, <2>3, <2>8
  <2> HIDE DEF first, size
  <2>4. Once(s, k, C) /\ \A i \in 1..k : i <= Len(first) => s[i] = first[i]
    BY <1>5, <2>1, <2>2
  <2>5. s \in Seq(C) /\ Len(s) = k /\ DOMAIN s = 1..k
    BY <2>4 DEF Once
  <2>10. (\A i \in 1..k : a[i] = s[i]) /\ a[k + 1] = x
    BY <2>1, <2>5, <2>8
  <2>6. CASE n <= Len(first)
    <3>1. x = first[n]
      BY <2>3, <2>6 DEF Chosen, first
    <3>2. n \in 1..Len(first) /\ \A i \in 1..k : i \in 1..Len(first) /\ i # n
      BY <1>3, <2>1, <2>6
    <3>3. x \in C /\ \A i \in 1..k : s[i] # x
      BY <1>3, <2>4, <3>1, <3>2
    <3>4. x \in C \ ToSet(s)
      BY <2>5, <3>3 DEF ToSet
    <3>5. Once(a, k + 1, C)
      BY <2>1, <2>4, <2>8, <3>4, OnceMore
    <3>6. \A i \in 1..n : i \in 1..k \/ i = k + 1
      BY <2>1
    <3> HIDE DEF first
    <3> QED
      BY <2>1, <2>2, <2>4, <2>9, <2>10, <3>1, <3>5, <3>6
  <2>7. CASE ~(n <= Len(first))
    <3>1. x = NextSelected(s, C)
      BY <2>3, <2>7 DEF Chosen, first
    <3>2. C \ ToSet(s) # {}
      <4>1. Cardinality(ToSet(s)) <= k /\ Cardinality(ToSet(s)) \in Nat
        BY <2>5, SeqSize
      <4>2. ToSet(s) # C
        BY <1>1, <2>1, <4>1 DEF size
      <4>3. ToSet(s) \subseteq C
        BY <2>5 DEF ToSet
      <4> QED
        BY <4>2, <4>3
    <3>3. x \in C \ ToSet(s)
      BY <2>5, <3>1, <3>2, NextIsLeft
    <3>4. Once(a, k + 1, C)
      BY <2>1, <2>4, <2>8, <3>3, OnceMore
    <3>5. \A i \in 1..n : i <= Len(first) => i \in 1..k
      BY <1>3, <2>1, <2>7
    <3> HIDE DEF first
    <3> QED
      BY <2>1, <2>2, <2>4, <2>9, <2>10, <3>4, <3>5
  <2> QED
    BY <2>6, <2>7
<1> HIDE DEF Good
<1>6. \A n \in 1..size : n - 1 \in S => n \in S
  BY <1>5
<1>7. \A n \in 0..size : n \in S
  <2> HIDE DEF S
  <2> QED
    BY <1>1, <1>4, <1>6, InductionUpTo
<1>8. \A n \in 0..size : Good(n)
  BY <1>7
<1>9. ASSUME NEW n \in 1..size PROVE \A i \in 1..(n - 1) : f[n][i] = f[n - 1][i]
  <2>1. n - 1 \in 0..size
    BY <1>1
  <2>2. Good(n - 1)
    BY <1>8, <2>1
  <2> QED
    BY <1>5, <2>2
<1> QED
  BY <1>1, <1>8, <1>9 DEF Good, f

\* A longer selection begins with each shorter one.
LEMMA SelectionsExtend ==
  ASSUME NEW C, Ranked(C), NEW n \in 0..Cardinality(C), NEW m \in n..Cardinality(C), NEW i \in 1..n
  PROVE  Selections(C)[m][i] = Selections(C)[n][i]
<1> DEFINE f == Selections(C)
           size == Cardinality(C)
           S == {k \in 0..(size - n) : f[n + k][i] = f[n][i]}
<1>1. size \in Nat /\ \A k \in 1..size : \A j \in 1..(k - 1) : f[k][j] = f[k - 1][j]
  BY SelectionFacts
<1> HIDE DEF f, size
<1>2. n \in 0..size /\ m \in n..size
  BY DEF size
<1>3. 0 \in S
  BY <1>1, <1>2
<1>4. ASSUME NEW k \in 1..(size - n), k - 1 \in S PROVE k \in S
  <2>1. n + k \in 1..size /\ i \in 1..((n + k) - 1) /\ (n + k) - 1 = n + (k - 1)
    BY <1>1, <1>2
  <2>2. f[n + k][i] = f[n + (k - 1)][i]
    BY <1>1, <2>1
  <2>3. f[n + (k - 1)][i] = f[n][i]
    BY <1>4
  <2> QED
    BY <2>2, <2>3
<1>5. \A k \in 0..(size - n) : k \in S
  <2>1. size - n \in Nat
    BY <1>1, <1>2
  <2> HIDE DEF S
  <2> QED
    BY <1>3, <1>4, <2>1, InductionUpTo
<1>6. m - n \in 0..(size - n) /\ n + (m - n) = m
  BY <1>1, <1>2
<1>7. f[n + (m - n)][i] = f[n][i]
  BY <1>5, <1>6
<1> QED
  BY <1>6, <1>7 DEF f

\* The whole order has every candidate.
LEMMA SelectionsAll ==
  ASSUME NEW C, Ranked(C)
  PROVE  Lists(Selections(C)[Cardinality(C)], C) /\ Len(Selections(C)[Cardinality(C)]) = Cardinality(C)
<1> DEFINE size == Cardinality(C)
           s == Selections(C)[size]
<1>1. size \in Nat /\ Once(s, size, C)
  BY SelectionFacts
<1> HIDE DEF s
<1>2. s \in Seq(C) /\ Len(s) = size /\ DOMAIN s = 1..size /\ s \in [1..size -> C]
  BY <1>1 DEF Once
<1>3. IsInjective(s)
  BY <1>1, <1>2 DEF Once, IsInjective
<1>4. s \in Injection(1..size, C)
  BY <1>2, <1>3 DEF Injection
<1>5. Cardinality(1..size) = size
  BY <1>1, FS_Interval
<1>6. s \in Surjection(1..size, C)
  BY <1>4, <1>5, FS_Injection DEF Ranked
<1>7. \A c \in C : \E i \in 1..size : s[i] = c
  BY <1>6 DEF Surjection
<1> QED
  BY <1>2, <1>3, <1>7 DEF Lists, s

-----------------------------------------------------------------------------
(* The order of the first candidates of each site *)

\* T: t candidates of the site of c, all ahead of it.
InFront(T, t, c, D) ==
  T \in SUBSET D /\ Cardinality(T) = t /\ \A d \in T : d.site = c.site /\ Ahead(d, c)

\* Who is not in D has t candidates of its site in front of it there.
FirstOfSites(D, C, t) ==
  D \in SUBSET C /\ \A c \in C \ D : \E T : InFront(T, t, c, D)

\* The head of a site that has an active candidate is active.
AtHead(h, C) == \A d \in C : d.site = h.site /\ d # h => Ahead(h, d)
HeadsActive(C) ==
  \A c \in C : c.active => \E h \in C : h.site = c.site /\ h.active /\ AtHead(h, C)

LEMMA HeadIsFirst ==
  ASSUME NEW C, Ranked(C), NEW t \in Nat \ {0}, NEW D, FirstOfSites(D, C, t),
         NEW h \in C, AtHead(h, C)
  PROVE  h \in D
<1> SUFFICES ASSUME h \notin D PROVE FALSE
  OBVIOUS
<1>1. PICK T : InFront(T, t, h, D)
  BY DEF FirstOfSites
<1>2. T # {}
  BY <1>1, FS_EmptySet DEF InFront
<1>3. PICK d \in T : d \in C /\ d.site = h.site /\ Ahead(d, h)
  BY <1>1, <1>2 DEF InFront, FirstOfSites
<1>4. d # h
  BY <1>3, AheadOrders
<1>5. Ahead(h, d)
  BY <1>3, <1>4 DEF AtHead
<1>6. Ahead(h, h)
  BY <1>3, <1>5, AheadOrders
<1> QED
  BY <1>6, AheadOrders

\* The first exposures are the same.
LEMMA FirstStable ==
  ASSUME NEW C, Ranked(C), HeadsActive(C), NEW t \in Nat \ {0}, NEW D, FirstOfSites(D, C, t)
  PROVE  FirstExposure(D) = FirstExposure(C)
<1> DEFINE A == {c \in C : c.active}
           B == {c \in D : c.active}
<1>1. D \in SUBSET C
  BY DEF FirstOfSites
<1>2. Ranked(A) /\ Ranked(B) /\ A \in SUBSET C /\ B \in SUBSET A
  BY <1>1, RankedSubset
<1>3. \A c \in A : c \in BestOfSites(A) <=> \A d \in A : d.site = c.site /\ d # c => Ahead(c, d)
  <2> HIDE DEF A
  <2> QED
    BY <1>2, BestFacts
<1>4. \A c \in B : c \in BestOfSites(B) <=> \A d \in B : d.site = c.site /\ d # c => Ahead(c, d)
  <2> HIDE DEF B
  <2> QED
    BY <1>2, BestFacts
<1>5. BestOfSites(A) \in SUBSET A /\ BestOfSites(B) \in SUBSET B
  <2> HIDE DEF A, B
  <2> QED
    BY <1>2, BestFacts
<1>6. \A c \in A : \E h \in B : h.site = c.site /\ AtHead(h, C)
  <2> TAKE c \in A
  <2>1. PICK h \in C : h.site = c.site /\ h.active /\ AtHead(h, C)
    BY DEF HeadsActive
  <2>2. h \in D
    BY <2>1, HeadIsFirst
  <2> QED
    BY <2>1, <2>2
<1> HIDE DEF A, B
<1>7. ASSUME NEW c \in BestOfSites(A) PROVE c \in BestOfSites(B)
  <2>1. c \in A /\ c \in C
    BY <1>2, <1>5
  <2>2. PICK h \in B : h.site = c.site /\ AtHead(h, C)
    BY <1>6, <2>1
  <2>3. h \in A /\ h \in C
    BY <1>2
  <2>4. h # c => Ahead(c, h) /\ Ahead(h, c)
    BY <1>3, <2>1, <2>2, <2>3 DEF AtHead
  <2>5. h = c
    BY <2>1, <2>3, <2>4, AheadOrders
  <2>6. \A d \in B : d.site = c.site /\ d # c => Ahead(c, d)
    BY <1>2, <1>3, <2>1
  <2> QED
    BY <1>4, <2>5, <2>6
<1>8. ASSUME NEW c \in BestOfSites(B) PROVE c \in BestOfSites(A)
  <2>1. c \in B /\ c \in A /\ c \in C
    BY <1>2, <1>5
  <2>2. PICK h \in B : h.site = c.site /\ AtHead(h, C)
    BY <1>6, <2>1
  <2>3. h \in A /\ h \in C
    BY <1>2
  <2>4. h # c => Ahead(c, h) /\ Ahead(h, c)
    BY <1>4, <2>1, <2>2 DEF AtHead
  <2>5. h = c
    BY <2>1, <2>3, <2>4, AheadOrders
  <2>6. \A d \in A : d.site = c.site /\ d # c => Ahead(c, d)
    BY <1>2, <2>2, <2>5 DEF AtHead
  <2> QED
    BY <1>3, <2>1, <2>6
<1>9. BestOfSites(A) = BestOfSites(B)
  BY <1>7, <1>8
<1> QED
  BY <1>9 DEF FirstExposure, A, B

\* With fewer than t selected, so is the next.
LEMMA NextStable ==
  ASSUME NEW C, Ranked(C), NEW t \in Nat \ {0}, NEW D, FirstOfSites(D, C, t),
         NEW selected \in Seq(D), Len(selected) < t
  PROVE  NextSelected(selected, D) = NextSelected(selected, C)
<1> DEFINE sel == ToSet(selected)
           A == C \ sel
           B == D \ sel
<1>1. D \in SUBSET C
  BY DEF FirstOfSites
<1>2. Ranked(A) /\ Ranked(B) /\ A \in SUBSET C /\ B \in SUBSET A
  BY <1>1, RankedSubset
<1>3. \A c \in A : c \in BestOfSites(A) <=> \A d \in A : d.site = c.site /\ d # c => Ahead(c, d)
  <2> HIDE DEF A
  <2> QED
    BY <1>2, BestFacts
<1>4. \A c \in B : c \in BestOfSites(B) <=> \A d \in B : d.site = c.site /\ d # c => Ahead(c, d)
  <2> HIDE DEF B
  <2> QED
    BY <1>2, BestFacts
<1>5. BestOfSites(A) \in SUBSET A /\ BestOfSites(B) \in SUBSET B
  <2> HIDE DEF A, B
  <2> QED
    BY <1>2, BestFacts
<1>6. \A c \in C \ D : \E d \in B : d.site = c.site /\ Ahead(d, c)
  <2> TAKE c \in C \ D
  <2>1. PICK T : InFront(T, t, c, D)
    BY DEF FirstOfSites
  <2>2. IsFiniteSet(sel) /\ Cardinality(sel) <= Len(selected) /\ Cardinality(sel) \in Nat
    BY SeqSize
  <2>3. Len(selected) \in Nat
    OBVIOUS
  <2> HIDE DEF sel
  <2>4. ~(T \subseteq sel)
    <3>1. T \in SUBSET sel => Cardinality(T) <= Cardinality(sel)
      BY <2>2, FS_Subset
    <3>2. Cardinality(T) = t
      BY <2>1 DEF InFront
    <3> QED
      BY <2>2, <2>3, <3>1, <3>2
  <2>5. PICK d \in T : d \notin sel
    BY <2>4
  <2> QED
    BY <2>1, <2>5 DEF InFront
<1>7. SitesOf(D) = SitesOf(C)
  BY <1>1, <1>6 DEF SitesOf
<1> HIDE DEF sel
<1>8. ASSUME NEW c \in BestOfSites(A) PROVE c \in BestOfSites(B)
  <2>1. c \in A /\ c \in C
    BY <1>2, <1>5
  <2>2. c \in D
    <3>1. ASSUME c \notin D PROVE FALSE
      <4>1. PICK d \in B : d.site = c.site /\ Ahead(d, c)
        BY <1>6, <2>1, <3>1
      <4>2. d \in A /\ d \in C /\ d # c
        BY <1>2, <2>1, <3>1
      <4>3. Ahead(c, d)
        BY <1>3, <2>1, <4>1, <4>2
      <4> QED
        BY <2>1, <4>1, <4>2, <4>3, AheadOrders
    <3> QED
      BY <3>1
  <2>3. c \in B
    BY <2>1, <2>2
  <2>4. \A d \in B : d.site = c.site /\ d # c => Ahead(c, d)
    BY <1>2, <1>3, <2>1
  <2> QED
    BY <1>4, <2>3, <2>4
<1>9. ASSUME NEW c \in BestOfSites(B) PROVE c \in BestOfSites(A)
  <2>1. c \in B /\ c \in A /\ c \in C
    BY <1>2, <1>5
  <2>2. ASSUME NEW d \in A, d.site = c.site, d # c PROVE Ahead(c, d)
    <3>1. CASE d \in D
      BY <1>4, <2>1, <2>2, <3>1
    <3>2. CASE d \notin D
      <4>1. PICK e \in B : e.site = d.site /\ Ahead(e, d)
        BY <1>2, <1>6, <2>2, <3>2
      <4>2. e = c \/ Ahead(c, e)
        BY <1>4, <2>1, <2>2, <4>1
      <4>3. e \in C /\ d \in C
        BY <1>2, <2>2
      <4> QED
        BY <2>1, <4>1, <4>2, <4>3, AheadOrders
    <3> QED
      BY <3>1, <3>2
  <2> QED
    BY <1>3, <2>1, <2>2
<1>10. BestOfSites(A) = BestOfSites(B)
  BY <1>8, <1>9
<1> QED
  BY <1>7, <1>10 DEF NextSelected, A, B, sel

\* The first t selected are the same.
LEMMA Stable ==
  ASSUME NEW C, Ranked(C), HeadsActive(C), NEW t \in Nat \ {0}, NEW D, FirstOfSites(D, C, t),
         NEW n \in 0..Cardinality(D), n <= t
  PROVE  Selections(D)[n] = Selections(C)[n]
<1> DEFINE size == Cardinality(D)
           bound == IF t < size THEN t ELSE size
           f == Selections(D)
           g == Selections(C)
           S == {k \in 0..bound : f[k] = g[k]}
<1>1. Ranked(D) /\ D \in SUBSET C
  BY RankedSubset DEF FirstOfSites
<1>2. size \in Nat /\ Cardinality(C) \in Nat /\ size <= Cardinality(C)
  BY <1>1, FS_Subset, FS_CardinalityType DEF Ranked
<1>3. f[0] = <<>> /\ \A k \in 1..size : f[k] = Append(f[k - 1], Chosen(k, f[k - 1], D))
  BY <1>2, SelectionsUnfold
<1>4. g[0] = <<>> /\ \A k \in 1..Cardinality(C) : g[k] = Append(g[k - 1], Chosen(k, g[k - 1], C))
  BY <1>2, SelectionsUnfold
<1>5. \A k \in 0..size : f[k] \in Seq(D) /\ Len(f[k]) = k
  BY <1>1, SelectionFacts DEF Once
<1>6. FirstExposure(D) = FirstExposure(C)
  BY FirstStable
<1> HIDE DEF f, g
<1>7. bound \in Nat /\ bound <= size /\ bound <= t /\ n \in 0..bound
  BY <1>2
<1> HIDE DEF size, bound
<1>8. 0 \in S
  BY <1>3, <1>4, <1>7
<1>9. ASSUME NEW k \in 1..bound, k - 1 \in S PROVE k \in S
  <2>1. k \in 1..size /\ k \in 1..Cardinality(C) /\ k - 1 \in 0..size /\ k - 1 < t
    BY <1>2, <1>7
  <2>2. PICK s : s = f[k - 1] /\ s = g[k - 1]
    BY <1>9
  <2>3. s \in Seq(D) /\ Len(s) < t
    BY <1>5, <2>1, <2>2
  <2>4. NextSelected(s, D) = NextSelected(s, C)
    BY <2>3, NextStable
  <2>5. Chosen(k, s, D) = Chosen(k, s, C)
    BY <1>6, <2>4 DEF Chosen
  <2>6. f[k] = Append(s, Chosen(k, s, D)) /\ g[k] = Append(s, Chosen(k, s, C))
    BY <1>3, <1>4, <2>1, <2>2
  <2> QED
    BY <2>5, <2>6
<1>10. \A k \in 0..bound : k \in S
  <2> HIDE DEF S
  <2> QED
    BY <1>7, <1>8, <1>9, InductionUpTo
<1> QED
  BY <1>7, <1>10 DEF f, g

\* The order of the first t candidates of each site is that of all, cut after t.
WholeOrder(C) == Selections(C)[Cardinality(C)]

LEMMA BalanceStable ==
  ASSUME NEW C, Ranked(C), HeadsActive(C), NEW t \in Nat \ {0}, NEW D, FirstOfSites(D, C, t)
  PROVE  LET s == BalanceSiteExposure(D, t)
             size == Cardinality(C)
         IN  /\ s \in Seq(C) /\ size \in Nat
             /\ Len(s) = (IF t < size THEN t ELSE size)
             /\ \A i \in 1..Len(s) : s[i] = WholeOrder(C)[i]
<1> DEFINE s == BalanceSiteExposure(D, t)
           size == Cardinality(C)
           less == Cardinality(D)
<1>1. Ranked(D) /\ D \in SUBSET C
  BY RankedSubset DEF FirstOfSites
<1>2. less \in Nat /\ size \in Nat /\ less <= size /\ (D # C => less < size)
  BY <1>1, FS_Subset, FS_CardinalityType DEF Ranked
<1>3. D # C => t <= less
  <2> SUFFICES ASSUME D # C PROVE t <= less
    OBVIOUS
  <2>1. PICK c \in C \ D : TRUE
    BY <1>1
  <2>2. PICK T : InFront(T, t, c, D)
    BY DEF FirstOfSites
  <2> QED
    BY <1>1, <2>2, FS_Subset DEF InFront, Ranked
<1>4. PICK n \in 0..size : n = (IF t < size THEN t ELSE size)
  BY <1>2
<1>5. s = Selections(D)[n] /\ n \in 0..less
  <2>1. CASE D = C
    BY <1>2, <1>4, <2>1 DEF BalanceSiteExposure
  <2>2. CASE D # C
    <3>1. n = t /\ t <= less
      BY <1>2, <1>3, <1>4, <2>2
    <3>2. (IF t < less THEN t ELSE less) = t
      BY <1>2, <3>1
    <3> QED
      BY <1>2, <3>1, <3>2 DEF BalanceSiteExposure
  <2> QED
    BY <2>1, <2>2
<1>6. s = Selections(C)[n]
  <2>1. n <= t
    BY <1>2, <1>4
  <2> QED
    BY <1>5, <2>1, Stable
<1>7. Once(s, n, C)
  BY <1>4, <1>6, SelectionFacts
<1>8. \A i \in 1..n : s[i] = WholeOrder(C)[i]
  <2> TAKE i \in 1..n
  <2>1. size \in n..size
    BY <1>2, <1>4
  <2> QED
    BY <1>4, <1>6, <2>1, SelectionsExtend DEF WholeOrder
<1> HIDE DEF s
<1> QED
  BY <1>2, <1>4, <1>7, <1>8 DEF Once, s

-----------------------------------------------------------------------------
(* Pages of a sequence *)

\* t holds what s has at up to L places, beginning after x.
IsPage(t, s, S, x, L) ==
  /\ L \in Nat \ {0} /\ x \in Nat /\ t \in Seq(S)
  /\ \A j \in 1..Len(t) : j \in 1..L /\ x + j \in 1..Len(s) /\ t[j] = s[x + j]
  /\ \A j \in 1..L : x + j \in 1..Len(s) => j \in 1..Len(t)

\* A slice is a page.
LEMMA SliceFacts ==
  ASSUME NEW S, NEW s \in Seq(S), NEW x \in Nat, NEW L \in Nat \ {0}
  PROVE  IsPage(Slice(s, x + 1, x + L), s, S, x, L)
<1>0. PICK t : t = Slice(s, x + 1, x + L)
  OBVIOUS
<1>1. Len(s) \in Nat
  OBVIOUS
<1>2. PICK y \in Nat : y = IF x + L < Len(s) THEN x + L ELSE Len(s)
  BY <1>1
<1>3. t = SubSeq(s, x + 1, y)
  BY <1>0, <1>2 DEF Slice
<1>4. \A i \in (x + 1)..y : s[i] \in S
  BY <1>2
<1>5. /\ t \in Seq(S)
      /\ Len(t) = IF x + 1 <= y THEN y - (x + 1) + 1 ELSE 0
      /\ \A i \in 1..(y - (x + 1) + 1) : t[i] = s[(x + 1) + i - 1]
  BY <1>3, <1>4, SubSeqProperties
<1>6. ASSUME NEW j \in 1..Len(t)
      PROVE  j \in 1..L /\ x + j \in 1..Len(s) /\ t[j] = s[x + j]
  <2>1. x + 1 <= y /\ j \in 1..(y - (x + 1) + 1)
    BY <1>5
  <2>2. t[j] = s[(x + 1) + j - 1] /\ (x + 1) + j - 1 = x + j
    BY <1>5, <2>1
  <2>3. y <= Len(s) /\ y <= x + L
    BY <1>1, <1>2
  <2>4. j \in Nat /\ 1 <= j /\ j <= y - x
    BY <2>1
  <2>5. j \in 1..L /\ x + j \in 1..Len(s)
    BY <1>1, <2>3, <2>4
  <2> QED
    BY <2>2, <2>5
<1>7. ASSUME NEW j \in 1..L, x + j \in 1..Len(s) PROVE j \in 1..Len(t)
  <2>1. x + j <= y /\ x + 1 <= y
    BY <1>1, <1>2, <1>7
  <2>2. Len(t) = y - x
    BY <1>5, <2>1
  <2> QED
    BY <2>1, <2>2
<1> QED
  BY <1>0, <1>5, <1>6, <1>7 DEF IsPage

\* A place is on one page only.
LEMMA PagesApart ==
  ASSUME NEW L \in Nat \ {0}, NEW p \in Nat \ {0}, NEW q \in Nat \ {0},
         NEW i \in 1..L, NEW j \in 1..L, (p - 1) * L + i = (q - 1) * L + j
  PROVE  p = q /\ i = j
<1>1. ASSUME NEW a \in Nat, NEW b \in Nat, a < b PROVE a * L + L <= b * L
  <2>1. (a + 1) * L = a * L + L /\ a * L \in Nat /\ b * L \in Nat
    OBVIOUS
  <2>2. PICK d \in Nat : b = (a + 1) + d
    <3>1. b - (a + 1) \in Nat /\ b = (a + 1) + (b - (a + 1))
      BY <1>1
    <3> QED
      BY <3>1
  <2>3. b * L = (a + 1) * L + d * L /\ d * L \in Nat
    BY <2>2
  <2> QED
    BY <2>1, <2>3
<1>2. PICK x \in Nat, y \in Nat : x = (p - 1) * L /\ y = (q - 1) * L
  OBVIOUS
<1>3. ~(p - 1 < q - 1)
  <2>1. ASSUME p - 1 < q - 1 PROVE x + L <= y
    BY <1>1, <1>2, <2>1
  <2> QED
    BY <1>2, <2>1
<1>4. ~(q - 1 < p - 1)
  <2>1. ASSUME q - 1 < p - 1 PROVE y + L <= x
    BY <1>1, <1>2, <2>1
  <2> QED
    BY <1>2, <2>1
<1>5. p = q
  BY <1>3, <1>4
<1>6. x = y
  BY <1>2, <1>5
<1> QED
  BY <1>2, <1>5, <1>6

\* What is not beyond the pages is on one of them.
LEMMA PageExists ==
  ASSUME NEW L \in Nat \ {0}, NEW N \in Nat, NEW k \in Nat \ {0}, k <= N * L
  PROVE  \E p \in 1..N : \E j \in 1..L : k = (p - 1) * L + j
<1> DEFINE P == {p \in Nat : k <= p * L}
<1>1. P \in SUBSET Nat /\ N \in P
  OBVIOUS
<1>2. PICK p \in P : \A m \in P : p <= m
  <2> HIDE DEF P
  <2> QED
    BY <1>1, LeastMember
<1>3. p \in Nat /\ k <= p * L /\ p <= N
  BY <1>1, <1>2
<1>4. p # 0
  BY <1>3
<1>5. p - 1 \in Nat /\ ~(k <= (p - 1) * L)
  BY <1>2, <1>3, <1>4
<1>6. PICK x \in Nat : x = (p - 1) * L
  BY <1>5
<1>7. p * L = x + L
  BY <1>3, <1>4, <1>6
<1>8. k - x \in 1..L /\ k = x + (k - x)
  BY <1>3, <1>5, <1>6, <1>7
<1> QED
  BY <1>3, <1>4, <1>6, <1>8

\* Pages of a list of S show nothing twice; after a page that is not full, all of S.
ArePages(pages, s, S, L) ==
  /\ L \in Nat \ {0} /\ pages \in Seq(Seq(S)) /\ Len(pages) # 0
  /\ \A p \in 1..Len(pages) : IsPage(pages[p], s, S, (p - 1) * L, L)
  /\ \A p \in 1..Len(pages) : p # Len(pages) => Len(pages[p]) = L

LEMMA NothingIsTwice ==
  ASSUME NEW S, NEW s, Lists(s, S), NEW L, NEW pages, ArePages(pages, s, S, L)
  PROVE  \A p, q \in DOMAIN pages : \A i \in DOMAIN pages[p], j \in DOMAIN pages[q] :
           pages[p][i] = pages[q][j] => p = q /\ i = j
<1> SUFFICES ASSUME NEW p \in DOMAIN pages, NEW q \in DOMAIN pages,
                    NEW i \in DOMAIN pages[p], NEW j \in DOMAIN pages[q],
                    pages[p][i] = pages[q][j]
             PROVE  p = q /\ i = j
  OBVIOUS
<1>1. L \in Nat \ {0} /\ pages \in Seq(Seq(S)) /\ Len(pages) \in Nat /\ DOMAIN pages = 1..Len(pages)
  BY DEF ArePages
<1>2. IsPage(pages[p], s, S, (p - 1) * L, L) /\ IsPage(pages[q], s, S, (q - 1) * L, L)
  BY <1>1 DEF ArePages
<1>3. pages[p] \in Seq(S) /\ pages[q] \in Seq(S)
  BY <1>1
<1>4. i \in 1..Len(pages[p]) /\ j \in 1..Len(pages[q])
  BY <1>3
<1>5. PICK x \in Nat, y \in Nat : x = (p - 1) * L /\ y = (q - 1) * L
  <2>1. PICK a \in Nat, b \in Nat : a = p - 1 /\ b = q - 1
    BY <1>1
  <2>2. a * L \in Nat /\ b * L \in Nat
    BY <1>1
  <2> QED
    BY <2>1, <2>2
<1>6. i \in 1..L /\ x + i \in 1..Len(s) /\ pages[p][i] = s[x + i]
  BY <1>2, <1>4, <1>5 DEF IsPage
<1>7. j \in 1..L /\ y + j \in 1..Len(s) /\ pages[q][j] = s[y + j]
  BY <1>2, <1>4, <1>5 DEF IsPage
<1>8. x + i = y + j
  BY <1>6, <1>7, ListsFacts
<1>9. p \in Nat \ {0} /\ q \in Nat \ {0} /\ (p - 1) * L + i = (q - 1) * L + j
  <2>1. p \in Nat \ {0} /\ q \in Nat \ {0}
    BY <1>1
  <2> QED
    BY <1>5, <1>8, <2>1
<1>10. L \in Nat \ {0} /\ i \in 1..L /\ j \in 1..L
  BY <1>1, <1>6, <1>7
<1> QED
  BY <1>9, <1>10, PagesApart, SMTT(30)

LEMMA NothingIsMissing ==
  ASSUME NEW S, NEW s, Lists(s, S), NEW L, NEW pages, ArePages(pages, s, S, L),
         Len(pages[Len(pages)]) < L
  PROVE  UNION {ToSet(pages[p]) : p \in DOMAIN pages} = S
<1>0. L \in Nat \ {0} /\ pages \in Seq(Seq(S)) /\ Len(pages) \in Nat /\ Len(pages) # 0
  BY DEF ArePages
<1>1. PICK N \in Nat \ {0} : N = Len(pages) /\ DOMAIN pages = 1..N
  BY <1>0
<1>2. \A p \in 1..N : pages[p] \in Seq(S) /\ IsPage(pages[p], s, S, (p - 1) * L, L)
  BY <1>0, <1>1 DEF ArePages
<1>3. ASSUME NEW p \in DOMAIN pages, NEW b \in ToSet(pages[p]) PROVE b \in S
  <2>1. pages[p] \in Seq(S)
    BY <1>1, <1>2
  <2> QED
    BY <2>1 DEF ToSet
<1>4. ASSUME NEW b \in S PROVE \E p \in DOMAIN pages : b \in ToSet(pages[p])
  <2>1. PICK k \in 1..Len(s) : s[k] = b
    BY ListsFacts
  <2>2. PICK l \in Nat : l = Len(s) /\ k \in 1..l
    BY ListsFacts
  <2>3. PICK x \in Nat, z \in Nat : x = (N - 1) * L /\ z = N * L
    <3>1. PICK a \in Nat : a = N - 1
      BY <1>1
    <3>2. a * L \in Nat /\ N * L \in Nat
      BY <1>0, <1>1
    <3> QED
      BY <3>1, <3>2
  <2>4. z = x + L
    <3>1. (N - 1) * L = N * L - L
      BY <1>0, <1>1
    <3> QED
      BY <1>0, <2>3, <3>1
  <2>5. IsPage(pages[N], s, S, x, L) /\ Len(pages[N]) < L /\ Len(pages[N]) \in Nat
    <3>1. N \in 1..N
      BY <1>1
    <3>2. pages[N] \in Seq(S)
      BY <1>2, <3>1
    <3> QED
      BY <1>1, <1>2, <2>3, <3>1, <3>2
  <2>6. ~(x + L \in 1..l)
    <3>1. L \in 1..L /\ ~(L \in 1..Len(pages[N]))
      BY <1>0, <2>5
    <3> QED
      BY <2>2, <2>5, <3>1 DEF IsPage
  <2>7. k \in Nat \ {0} /\ k <= z
    BY <1>0, <2>2, <2>4, <2>6
  <2>8. PICK p \in 1..N, j \in 1..L : k = (p - 1) * L + j
    BY <1>0, <1>1, <2>3, <2>7, PageExists, ZenonT(40)
  <2>9. IsPage(pages[p], s, S, (p - 1) * L, L)
    BY <1>2
  <2>10. j \in 1..Len(pages[p]) /\ pages[p][j] = s[k]
    BY <2>8, <2>9 DEF IsPage
  <2>11. j \in DOMAIN pages[p]
    BY <1>2, <2>10
  <2> QED
    BY <1>1, <2>1, <2>10, <2>11 DEF ToSet
<1> QED
  BY <1>3, <1>4

-----------------------------------------------------------------------------
(* The rows of a list *)

Row == [score : Scores, likes : Nat, active : BOOLEAN, analysed : BOOLEAN, contents : Bodies]
BoardsTyped == board \in [Boards -> Row]

LEMMA BoardTyped ==
  ASSUME BoardsTyped, NEW b \in Boards
  PROVE  /\ b \in Nat /\ Site[b] \in Int
         /\ board[b].score \in Int /\ board[b].likes \in Nat /\ board[b].active \in BOOLEAN
BY FeedAssumption DEF BoardsTyped, Row

\* One row before another.
Before(b, c, daily, tie) == RowBefore(b, c, daily, tie)
RowPairs(S, daily, tie) == {p \in S \X S : Before(p[1], p[2], daily, tie)}

LEMMA AppendedTo ==
  ASSUME NEW s \in Seq(Int), NEW d \in Int
  PROVE  Append(s, d) \in Seq(Int) /\ Len(Append(s, d)) = Len(s) + 1 /\ Append(s, d)[Len(s) + 1] = d
OBVIOUS
LEMMA AppendedAt ==
  ASSUME NEW s \in Seq(Int), NEW d \in Int, NEW i \in 1..Len(s)
  PROVE  Append(s, d)[i] = s[i]
OBVIOUS

\* A sequence of three and one more.
LEMMA Appended ==
  ASSUME NEW s \in Seq(Int), Len(s) = 3, NEW d \in Int
  PROVE  /\ DOMAIN Append(s, d) = 1..4 /\ Append(s, d)[4] = d
         /\ Append(s, d)[1] = s[1] /\ Append(s, d)[2] = s[2] /\ Append(s, d)[3] = s[3]
<1>1. Len(s) + 1 = 4 /\ 1 \in 1..Len(s) /\ 2 \in 1..Len(s) /\ 3 \in 1..Len(s)
  OBVIOUS
<1>2. PICK p : p = Append(s, d)
  OBVIOUS
<1>3. p \in Seq(Int) /\ Len(p) = Len(s) + 1 /\ p[Len(s) + 1] = d
  BY <1>2, AppendedTo, Zenon
<1>4. p[1] = s[1] /\ p[2] = s[2] /\ p[3] = s[3]
  BY <1>1, <1>2, AppendedAt, Zenon
<1>5. Len(p) = 4 /\ p[4] = d
  BY <1>1, <1>3, Zenon
<1>6. DOMAIN p = 1..4
  BY <1>3, <1>5
<1> QED
  BY <1>2, <1>4, <1>5, <1>6, Zenon

LEMMA BeforeMeans ==
  ASSUME BoardsTyped, NEW b \in Boards, NEW c \in Boards, NEW daily \in BOOLEAN, NEW tie \in TieOrders
  PROVE  LET x == board[b].score
             y == board[c].score
             k == IF daily THEN board[b].likes ELSE Created[b]
             l == IF daily THEN board[c].likes ELSE Created[c]
             m == Created[b]
             n == Created[c]
         IN  /\ x \in Int /\ y \in Int /\ k \in Int /\ l \in Int /\ m \in Int /\ n \in Int
             /\ tie[b] \in Int /\ tie[c] \in Int
             /\ Before(b, c, daily, tie)
                  <=> x > y \/ (x = y /\ (k > l \/ (k = l /\ (m > n \/ (m = n /\ tie[b] < tie[c])))))
             /\ Precedes(RowKey(b, daily), RowKey(c, daily))
                  <=> x > y \/ (x = y /\ (k > l \/ (k = l /\ m > n)))
             /\ RowKey(b, daily) = RowKey(c, daily) <=> x = y /\ k = l /\ m = n
<1>1. PICK x \in Int, y \in Int : x = board[b].score /\ y = board[c].score
  BY BoardTyped
<1>2. PICK m \in Int, n \in Int : m = Created[b] /\ n = Created[c]
  BY FeedAssumption
<1>3. PICK k \in Int, l \in Int : /\ k = (IF daily THEN board[b].likes ELSE Created[b])
                                  /\ l = (IF daily THEN board[c].likes ELSE Created[c])
  BY BoardTyped, <1>2
<1>4. PICK u \in Int, v \in Int : u = tie[b] /\ v = tie[c]
  BY FeedAssumption
<1>5. PICK r : r = <<-x, -k, -m>>
  OBVIOUS
<1>6. PICK s : s = <<-y, -l, -n>>
  OBVIOUS
<1>7. RowKey(b, daily) = r /\ RowKey(c, daily) = s
  <2>1. -k = (IF daily THEN -board[b].likes ELSE -Created[b])
    BY <1>3
  <2>2. -l = (IF daily THEN -board[c].likes ELSE -Created[c])
    BY <1>3
  <2> QED
    BY <1>1, <1>2, <1>5, <1>6, <2>1, <2>2 DEF RowKey
<1>8. PICK p : p = Append(r, u)
  OBVIOUS
<1>9. PICK q : q = Append(s, v)
  OBVIOUS
<1>10. Append(r, tie[b]) = p /\ Append(s, tie[c]) = q
  BY <1>4, <1>8, <1>9
<1>11. Before(b, c, daily, tie) <=> Precedes(p, q)
  BY <1>7, <1>10 DEF Before, RowBefore
<1>12. /\ DOMAIN r = 1..3 /\ r[1] = -x /\ r[2] = -k /\ r[3] = -m
       /\ DOMAIN s = 1..3 /\ s[1] = -y /\ s[2] = -l /\ s[3] = -n
  BY <1>5, <1>6
<1>21. r \in Seq(Int) /\ Len(r) = 3 /\ s \in Seq(Int) /\ Len(s) = 3
  BY <1>5, <1>6
<1>13. /\ DOMAIN p = 1..4 /\ p[1] = -x /\ p[2] = -k /\ p[3] = -m /\ p[4] = u
       /\ q[1] = -y /\ q[2] = -l /\ q[3] = -n /\ q[4] = v
  <2>1. /\ DOMAIN p = 1..4 /\ p[4] = u
        /\ p[1] = r[1] /\ p[2] = r[2] /\ p[3] = r[3]
    BY <1>8, <1>21, Appended, Zenon
  <2>2. /\ DOMAIN q = 1..4 /\ q[4] = v
        /\ q[1] = s[1] /\ q[2] = s[2] /\ q[3] = s[3]
    BY <1>9, <1>21, Appended, Zenon
  <2> QED
    BY <1>12, <2>1, <2>2
<1>14. (-x < -y <=> x > y) /\ (-x = -y <=> x = y)
  OBVIOUS
<1>15. (-k < -l <=> k > l) /\ (-k = -l <=> k = l)
  OBVIOUS
<1>16. (-m < -n <=> m > n) /\ (-m = -n <=> m = n)
  OBVIOUS
<1>17. Precedes(p, q) <=> x > y \/ (x = y /\ (k > l \/ (k = l /\ (m > n \/ (m = n /\ u < v)))))
  <2>1. Precedes(p, q) <=>
          \/ p[1] < q[1]
          \/ p[1] = q[1] /\ p[2] < q[2]
          \/ p[1] = q[1] /\ p[2] = q[2] /\ p[3] < q[3]
          \/ p[1] = q[1] /\ p[2] = q[2] /\ p[3] = q[3] /\ p[4] < q[4]
    BY <1>13, FourPrecede
  <2> QED
    BY <1>13, <1>14, <1>15, <1>16, <2>1
<1>18. Precedes(r, s) <=> x > y \/ (x = y /\ (k > l \/ (k = l /\ m > n)))
  <2>1. Precedes(r, s) <=>
          \/ r[1] < s[1]
          \/ r[1] = s[1] /\ r[2] < s[2]
          \/ r[1] = s[1] /\ r[2] = s[2] /\ r[3] < s[3]
    BY <1>12, ThreePrecede
  <2> QED
    BY <1>12, <1>14, <1>15, <1>16, <2>1
<1>19. r = s <=> x = y /\ k = l /\ m = n
  <2>1. r = s => -x = -y /\ -k = -l /\ -m = -n
    BY <1>12
  <2>2. x = y /\ k = l /\ m = n => r = s
    BY <1>5, <1>6
  <2> QED
    BY <1>14, <1>15, <1>16, <2>1, <2>2
<1>20. /\ Before(b, c, daily, tie)
            <=> x > y \/ (x = y /\ (k > l \/ (k = l /\ (m > n \/ (m = n /\ tie[b] < tie[c])))))
       /\ Precedes(RowKey(b, daily), RowKey(c, daily))
            <=> x > y \/ (x = y /\ (k > l \/ (k = l /\ m > n)))
       /\ RowKey(b, daily) = RowKey(c, daily) <=> x = y /\ k = l /\ m = n
  BY <1>4, <1>7, <1>11, <1>17, <1>18, <1>19
<1> QED
  BY <1>1, <1>2, <1>3, <1>4, <1>20

\* Of rows with different keys, whatever the order of ties.
LEMMA KeysDecide ==
  ASSUME BoardsTyped, NEW b \in Boards, NEW c \in Boards, NEW daily \in BOOLEAN, NEW tie \in TieOrders,
         RowKey(b, daily) # RowKey(c, daily)
  PROVE  Before(b, c, daily, tie) <=> Precedes(RowKey(b, daily), RowKey(c, daily))
BY BeforeMeans

LEMMA RowsOrder ==
  ASSUME BoardsTyped, NEW S \in SUBSET Boards, NEW daily \in BOOLEAN, NEW tie \in TieOrders
  PROVE  Orders(RowPairs(S, daily, tie), S)
<1>1. \A b, c \in S : <<b, c>> \in RowPairs(S, daily, tie) <=> Before(b, c, daily, tie)
  BY DEF RowPairs
<1>2. ASSUME NEW b \in S PROVE ~Before(b, b, daily, tie)
  BY BeforeMeans
<1>3. ASSUME NEW b \in S, NEW c \in S, b # c PROVE Before(b, c, daily, tie) \/ Before(c, b, daily, tie)
  <2>1. tie[b] # tie[c]
    BY <1>3, FeedAssumption
  <2> QED
    BY <2>1, BeforeMeans
<1>4. ASSUME NEW b \in S, NEW c \in S, NEW d \in S, Before(b, c, daily, tie), Before(c, d, daily, tie)
      PROVE  Before(b, d, daily, tie)
  BY <1>4, BeforeMeans
<1> QED
  BY <1>1, <1>2, <1>3, <1>4 DEF Orders

LEMMA RowsFacts ==
  ASSUME BoardsTyped, NEW S \in SUBSET Boards, NEW daily \in BOOLEAN, NEW tie \in TieOrders
  PROVE  LET r == Rows(S, daily, tie)
         IN  /\ Lists(r, S)
             /\ \A i, j \in 1..Len(r) : i < j => Before(r[i], r[j], daily, tie)
<1>1. Rows(S, daily, tie) = Ordered(S, RowPairs(S, daily, tie))
  BY DEF Rows, RowPairs, Before
<1>2. IsFiniteSet(S)
  BY FeedAssumption, FS_Subset
<1>3. PICK r : r = Rows(S, daily, tie)
  OBVIOUS
<1>4. Lists(r, S) /\ \A i, j \in 1..Len(r) : i < j => <<r[i], r[j]>> \in RowPairs(S, daily, tie)
  BY <1>1, <1>2, <1>3, RowsOrder, OrderedFacts
<1> QED
  BY <1>3, <1>4 DEF RowPairs

\* All that a list shows.
SelectionOf(filter) == {b \in Boards : filter = {} \/ Site[b] \in filter}

\* No query of a list has rows with one key.
Apart(daily, filter) ==
  \A b, c \in SelectionOf(filter) :
    b # c /\ (filter # {} \/ Site[b] = Site[c]) => RowKey(b, daily) # RowKey(c, daily)

LEMMA KeysDecideSites ==
  ASSUME BoardsTyped, NEW b \in Boards, NEW c \in Boards, NEW daily \in BOOLEAN, NEW tie \in TieOrders,
         Apart(daily, {}), b # c, Site[b] = Site[c]
  PROVE  Before(b, c, daily, tie) <=> Precedes(RowKey(b, daily), RowKey(c, daily))
<1>1. b \in SelectionOf({}) /\ c \in SelectionOf({})
  BY DEF SelectionOf
<1>2. RowKey(b, daily) # RowKey(c, daily)
  BY <1>1 DEF Apart
<1> QED
  BY <1>2, KeysDecide

\* The rows of a query that has none with one key.
LEMMA RowsAlike ==
  ASSUME BoardsTyped, NEW daily \in BOOLEAN, NEW filter, filter # {}, Apart(daily, filter),
         NEW tie \in TieOrders, NEW other \in TieOrders
  PROVE  Rows(SelectionOf(filter), daily, tie) = Rows(SelectionOf(filter), daily, other)
<1>1. PICK S \in SUBSET Boards : S = SelectionOf(filter)
  BY DEF SelectionOf
<1>2. ASSUME NEW b \in S, NEW c \in S PROVE Before(b, c, daily, tie) <=> Before(b, c, daily, other)
  <2>1. CASE b = c
    BY <2>1, BeforeMeans
  <2>2. CASE b # c
    <3>1. RowKey(b, daily) # RowKey(c, daily)
      BY <1>1, <2>2 DEF Apart
    <3> QED
      BY <3>1, KeysDecide
  <2> QED
    BY <2>1, <2>2
<1>3. RowPairs(S, daily, tie) = RowPairs(S, daily, other)
  <2>1. ASSUME NEW p \in S \X S
        PROVE  Before(p[1], p[2], daily, tie) <=> Before(p[1], p[2], daily, other)
    BY <1>2
  <2> QED
    BY <2>1 DEF RowPairs
<1> QED
  BY <1>1, <1>3 DEF Rows, RowPairs, Before

-----------------------------------------------------------------------------
(* The candidates of a list *)

Candidates == {Candidate(b) : b \in Boards}
SiteRows(s, daily, tie) == Rows({b \in Boards : Site[b] = s}, daily, tie)

LEMMA CandidatesRanked ==
  ASSUME BoardsTyped
  PROVE  Ranked(Candidates)
<1> DEFINE f == [b \in Boards |-> Candidate(b)]
<1>1. f \in Surjection(Boards, Candidates)
  BY DEF Surjection, Candidates
<1>2. IsFiniteSet(Candidates)
  <2> HIDE DEF f
  <2> QED
    BY <1>1, FeedAssumption, FS_Surjection
<1>3. \A c \in Candidates : c.id \in Int /\ c.site \in Int /\ c.score \in Int /\ c.created \in Int
  BY BoardTyped, FeedAssumption DEF Candidates, Candidate
<1>4. \A c, d \in Candidates : c.id = d.id => c = d
  BY DEF Candidates, Candidate
<1> QED
  BY <1>2, <1>3, <1>4 DEF Ranked

AmongFirst(b, daily, t, tie) ==
  LET r == SiteRows(Site[b], daily, tie) IN \E i \in 1..Len(r) : i <= t /\ r[i] = b

\* The first rows of each site are the first candidates.
LEMMA SiteCandidatesMeans ==
  ASSUME BoardsTyped, NEW daily \in BOOLEAN, NEW tie \in TieOrders,
         NEW t \in Nat \ {0}, NEW size, NEW b \in Boards
  PROVE  /\ Lists(SiteRows(Site[b], daily, tie), {c \in Boards : Site[c] = Site[b]})
         /\ b \in SiteCandidates(daily, t, size, tie) <=> AmongFirst(b, daily, t, tie)
<1> DEFINE top(s) == ToSet(Slice(SiteRows(s, daily, tie), 1, t))
<1>1. SiteCandidates(daily, t, size, tie) = UNION {top(s) : s \in {Site[c] : c \in Boards}}
  BY DEF SiteCandidates, SiteRows
<1>2. ASSUME NEW s PROVE /\ Lists(SiteRows(s, daily, tie), {c \in Boards : Site[c] = s})
                         /\ \A c : c \in top(s) <=> \E i \in 1..Len(SiteRows(s, daily, tie)) :
                                                      i <= t /\ SiteRows(s, daily, tie)[i] = c
  <2>1. PICK S \in SUBSET Boards : S = {c \in Boards : Site[c] = s}
    OBVIOUS
  <2>2. PICK r : r = SiteRows(s, daily, tie)
    OBVIOUS
  <2>3. Lists(r, S)
    BY <2>1, <2>2, RowsFacts DEF SiteRows
  <2>4. r \in Seq(S)
    BY <2>3, ListsFacts
  <2>5. PICK u : u = Slice(r, 0 + 1, 0 + t)
    OBVIOUS
  <2>6. IsPage(u, r, S, 0, t)
    BY <2>4, <2>5, SliceFacts
  <2>7. u \in Seq(S) /\ DOMAIN u = 1..Len(u) /\ top(s) = ToSet(u)
    <3>1. 0 + 1 = 1 /\ 0 + t = t
      OBVIOUS
    <3> QED
      BY <2>2, <2>5, <2>6, <3>1 DEF IsPage
  <2>8. Len(r) \in Nat
    BY <2>4
  <2>9. ASSUME NEW c PROVE c \in top(s) <=> \E i \in 1..Len(r) : i <= t /\ r[i] = c
    <3>1. c \in top(s) <=> \E i \in 1..Len(u) : u[i] = c
      BY <2>7 DEF ToSet
    <3>2. \A i \in 1..Len(u) : i \in 1..t /\ i \in 1..Len(r) /\ u[i] = r[i]
      <4>1. ASSUME NEW i \in 1..Len(u) PROVE i \in 1..t /\ i \in 1..Len(r) /\ u[i] = r[i]
        <5>1. i \in 1..t /\ 0 + i \in 1..Len(r) /\ u[i] = r[0 + i]
          BY <2>6 DEF IsPage
        <5> QED
          BY <5>1
      <4> QED
        BY <4>1
    <3>3. \A i \in 1..Len(r) : i <= t => i \in 1..Len(u)
      <4>1. ASSUME NEW i \in 1..Len(r), i <= t PROVE i \in 1..Len(u)
        <5>1. i \in 1..t /\ 0 + i \in 1..Len(r)
          BY <2>8, <4>1
        <5> QED
          BY <2>6, <5>1 DEF IsPage
      <4> QED
        BY <4>1
    <3> QED
      BY <3>1, <3>2, <3>3
  <2> HIDE DEF top
  <2> QED
    BY <2>1, <2>2, <2>3, <2>9
<1> DEFINE r == SiteRows(Site[b], daily, tie)
<1>3. \A s : b \in top(s) => Site[b] = s
  <2> SUFFICES ASSUME NEW s, b \in top(s) PROVE Site[b] = s
    OBVIOUS
  <2>1. PICK q : q = SiteRows(s, daily, tie)
    OBVIOUS
  <2>2. PICK i \in 1..Len(q) : q[i] = b
    BY <1>2, <2>1
  <2>3. Lists(q, {c \in Boards : Site[c] = s})
    BY <1>2, <2>1
  <2> QED
    BY <2>2, <2>3, ListsFacts
<1>4. b \in SiteCandidates(daily, t, size, tie) <=> b \in top(Site[b])
  <2> HIDE DEF top
  <2> QED
    BY <1>1, <1>3
<1>5. Lists(r, {c \in Boards : Site[c] = Site[b]})
  BY <1>2
<1>6. b \in top(Site[b]) <=> AmongFirst(b, daily, t, tie)
  <2> HIDE DEF top
  <2> QED
    BY <1>2 DEF AmongFirst
<1> QED
  BY <1>4, <1>5, <1>6

FirstCandidates(daily, t, size, tie) == {Candidate(b) : b \in SiteCandidates(daily, t, size, tie)}

LEMMA FirstCandidatesAre ==
  ASSUME BoardsTyped, NEW daily \in BOOLEAN, NEW tie \in TieOrders, NEW t \in Nat \ {0}, NEW size
  PROVE  SiteCandidates(daily, t, size, tie) \in SUBSET Boards
         /\ FirstCandidates(daily, t, size, tie) \in SUBSET Candidates
<1>1. ASSUME NEW b \in SiteCandidates(daily, t, size, tie) PROVE b \in Boards
  <2>1. PICK s : b \in ToSet(Slice(SiteRows(s, daily, tie), 1, t))
    BY DEF SiteCandidates, SiteRows
  <2>2. PICK S \in SUBSET Boards : S = {c \in Boards : Site[c] = s}
    OBVIOUS
  <2>3. SiteRows(s, daily, tie) \in Seq(S)
    BY <2>2, RowsFacts, ListsFacts DEF SiteRows
  <2>4. PICK u : u = Slice(SiteRows(s, daily, tie), 0 + 1, 0 + t)
    OBVIOUS
  <2>5. u \in Seq(S)
    BY <2>3, <2>4, SliceFacts DEF IsPage
  <2>6. b \in ToSet(u)
    BY <2>1, <2>4
  <2> QED
    BY <2>2, <2>5, <2>6 DEF ToSet
<1> QED
  BY <1>1 DEF FirstCandidates, Candidates

\* Where the order of the rows is that of the candidates, behind its first t rows a site
\* has candidates with t in front of them, and its head is active unless none is.
LEMMA RegularSites ==
  ASSUME BoardsTyped, NEW daily \in BOOLEAN, NEW tie \in TieOrders, daily = reader.daily, Regular,
         Apart(daily, {}),
         NEW t \in Nat \ {0}, NEW size
  PROVE  FirstOfSites(FirstCandidates(daily, t, size, tie), Candidates, t)
<1> DEFINE D == FirstCandidates(daily, t, size, tie)
<1>1. D \in SUBSET Candidates
  BY FirstCandidatesAre
<1>2. ASSUME NEW c \in Candidates \ D PROVE \E T : InFront(T, t, c, D)
  <2>0. \A x \in Boards : x \in SiteCandidates(daily, t, size, tie) <=> AmongFirst(x, daily, t, tie)
    BY SiteCandidatesMeans
  <2>1. PICK b \in Boards : c = Candidate(b) /\ b \notin SiteCandidates(daily, t, size, tie)
    BY <1>2 DEF Candidates, FirstCandidates
  <2>2. PICK S \in SUBSET Boards : S = {x \in Boards : Site[x] = Site[b]}
    OBVIOUS
  <2>3. PICK r : r = SiteRows(Site[b], daily, tie)
    OBVIOUS
  <2>4. Lists(r, S) /\ ~\E i \in 1..Len(r) : i <= t /\ r[i] = b
    <3>1. Lists(SiteRows(Site[b], daily, tie), {x \in Boards : Site[x] = Site[b]})
      BY <2>1, SiteCandidatesMeans
    <3>2. ~AmongFirst(b, daily, t, tie)
      BY <2>0, <2>1
    <3> QED
      BY <2>2, <2>3, <3>1, <3>2 DEF AmongFirst
  <2>5. /\ Len(r) \in Nat /\ \A i \in 1..Len(r) : r[i] \in S
        /\ \A i, j \in 1..Len(r) : r[i] = r[j] => i = j
        /\ \A x \in S : \E i \in 1..Len(r) : r[i] = x
    BY <2>4, ListsFacts
  <2>6. \A i, j \in 1..Len(r) : i < j => Before(r[i], r[j], daily, tie)
    BY <2>2, <2>3, RowsFacts DEF SiteRows
  <2>7. PICK k \in 1..Len(r) : r[k] = b
    BY <2>2, <2>5
  <2>8. k > t
    BY <2>4, <2>5, <2>7
  <2>9. \A i \in 1..t : /\ i \in 1..Len(r) /\ r[i] \in Boards /\ Site[r[i]] = Site[b]
                        /\ r[i] # b /\ Before(r[i], b, daily, tie)
    <3> TAKE i \in 1..t
    <3>1. i \in 1..Len(r) /\ i < k
      BY <2>5, <2>8
    <3> QED
      BY <2>2, <2>5, <2>6, <2>7, <3>1
  <2>10. \A i \in 1..t : Ahead(Candidate(r[i]), c)
    <3> TAKE i \in 1..t
    <3>1. Precedes(RowKey(r[i], reader.daily), RowKey(b, reader.daily))
      BY <2>9, KeysDecideSites
    <3> QED
      BY <2>1, <2>9, <3>1 DEF Regular
  <2>11. \A i \in 1..t : Candidate(r[i]) \in D
    <3> TAKE i \in 1..t
    <3>1. r[i] \in SiteCandidates(daily, t, size, tie)
      BY <2>0, <2>3, <2>9 DEF AmongFirst
    <3> QED
      BY <3>1 DEF FirstCandidates
  <2> DEFINE f == [i \in 1..t |-> Candidate(r[i])]
             T == {Candidate(r[i]) : i \in 1..t}
  <2>12. f \in Surjection(1..t, T)
    BY DEF Surjection
  <2>13. f \in Injection(1..t, T)
    <3>1. \A i, j \in 1..t : Candidate(r[i]) = Candidate(r[j]) => i = j
      <4>1. \A x, y : Candidate(x) = Candidate(y) => x = y
        BY DEF Candidate
      <4> QED
        BY <2>5, <2>9, <4>1
    <3> QED
      BY <3>1 DEF Injection, IsInjective
  <2>14. Cardinality(T) = t
    <3>1. IsFiniteSet(1..t) /\ Cardinality(1..t) = t
      <4>1. IsFiniteSet(1..t) /\ Cardinality(1..t) = IF 1 > t THEN 0 ELSE t - 1 + 1
        BY FS_Interval
      <4> QED
        BY <4>1
    <3> HIDE DEF f, T
    <3> QED
      BY <2>12, <2>13, <3>1, FS_Surjection
  <2>15. \A d \in T : d \in D /\ d.site = c.site /\ Ahead(d, c)
    <3> TAKE d \in T
    <3>1. PICK i \in 1..t : d = Candidate(r[i])
      OBVIOUS
    <3>2. d.site = Site[r[i]] /\ c.site = Site[b]
      BY <2>1, <3>1 DEF Candidate
    <3> QED
      BY <2>9, <2>10, <2>11, <3>1, <3>2
  <2> HIDE DEF D, T
  <2>16. InFront(T, t, c, D)
    BY <2>14, <2>15 DEF InFront
  <2> QED
    BY <2>16
<1> QED
  BY <1>1, <1>2 DEF FirstOfSites

LEMMA RegularHeads ==
  ASSUME BoardsTyped, reader.daily \in BOOLEAN, Regular, Apart(reader.daily, {}), NEW tie \in TieOrders
  PROVE  HeadsActive(Candidates)
<1>1. PICK daily \in BOOLEAN : daily = reader.daily
  OBVIOUS
<1> SUFFICES ASSUME NEW c \in Candidates, c.active
             PROVE  \E h \in Candidates : h.site = c.site /\ h.active /\ AtHead(h, Candidates)
  BY DEF HeadsActive
<1>2. PICK b \in Boards : c = Candidate(b)
  BY DEF Candidates
<1>3. board[b].active /\ c.site = Site[b]
  BY <1>2 DEF Candidate
<1>4. PICK S \in SUBSET Boards : S = {x \in Boards : Site[x] = Site[b]}
  OBVIOUS
<1>5. PICK r : r = Rows(S, daily, tie)
  OBVIOUS
<1>6. Lists(r, S) /\ \A i, j \in 1..Len(r) : i < j => Before(r[i], r[j], daily, tie)
  BY <1>5, RowsFacts
<1>7. /\ Len(r) \in Nat /\ \A i \in 1..Len(r) : r[i] \in S
      /\ \A x \in S : \E i \in 1..Len(r) : r[i] = x
  BY <1>6, ListsFacts
<1>8. 1 \in 1..Len(r) /\ \A i \in 1..Len(r) : i = 1 \/ 1 < i
  <2>1. PICK i \in 1..Len(r) : r[i] = b
    BY <1>4, <1>7
  <2> QED
    BY <1>7, <2>1
<1>9. PICK a : a = r[1]
  OBVIOUS
<1>10. a \in Boards /\ Site[a] = Site[b] /\ \A x \in S : x # a => Before(a, x, daily, tie)
  BY <1>4, <1>6, <1>7, <1>8, <1>9
<1>11. board[a].active
  <2>1. CASE a = b
    BY <1>3, <2>1
  <2>2. CASE a # b
    <3>1. Precedes(RowKey(a, reader.daily), RowKey(b, reader.daily))
      BY <1>1, <1>4, <1>10, <2>2, KeysDecideSites
    <3>2. PICK d \in Boards : /\ Site[d] = Site[a] /\ board[d].active
                              /\ ~Precedes(RowKey(a, reader.daily), RowKey(d, reader.daily))
      BY <1>3, <1>10, <2>2, <3>1 DEF Regular
    <3>3. d = a
      BY <1>1, <1>4, <1>10, <3>2, KeysDecideSites
    <3> QED
      BY <3>2, <3>3
  <2> QED
    BY <2>1, <2>2
<1>12. PICK h \in Candidates : h = Candidate(a)
  BY <1>10 DEF Candidates
<1>13. h.site = c.site /\ h.active
  BY <1>3, <1>10, <1>11, <1>12 DEF Candidate
<1>14. ASSUME NEW d \in Candidates, d.site = h.site, d # h PROVE Ahead(h, d)
  <2>1. PICK x \in Boards : d = Candidate(x)
    BY DEF Candidates
  <2>2. Site[x] = Site[a] /\ x # a
    BY <1>12, <1>14, <2>1 DEF Candidate
  <2>3. Precedes(RowKey(a, reader.daily), RowKey(x, reader.daily))
    BY <1>1, <1>4, <1>10, <2>2, KeysDecideSites
  <2> QED
    BY <1>10, <1>12, <2>1, <2>2, <2>3 DEF Regular
<1> QED
  BY <1>13, <1>14 DEF AtHead

-----------------------------------------------------------------------------
(* The lists *)

\* Of a balanced list, whatever the boards: boards, each once, as many as asked for.
LEMMA BalancedTyped ==
  ASSUME BoardsTyped, NEW daily \in BOOLEAN, NEW tie \in TieOrders, NEW t \in Nat \ {0}, NEW size
  PROVE  LET s == BalancedBoards(daily, t, size, tie)
         IN  s \in Seq(Boards) /\ Len(s) \in Nat /\ Len(s) <= t
             /\ \A i, j \in 1..Len(s) : s[i] = s[j] => i = j
<1>1. PICK D \in SUBSET Candidates : D = FirstCandidates(daily, t, size, tie)
  BY FirstCandidatesAre
<1>2. Ranked(D)
  BY CandidatesRanked, RankedSubset
<1>3. PICK n \in 0..Cardinality(D) : n = (IF t < Cardinality(D) THEN t ELSE Cardinality(D)) /\ n <= t
  BY <1>2, SelectionFacts
<1>4. PICK c : c = BalanceSiteExposure(D, t)
  OBVIOUS
<1>5. Once(c, n, D)
  BY <1>2, <1>3, <1>4, SelectionFacts DEF BalanceSiteExposure
<1>6. c \in Seq(D) /\ Len(c) = n /\ DOMAIN c = 1..n /\ n \in Nat /\ \A i \in 1..n : c[i] \in D
  <2>1. n \in Nat
    BY <1>2, <1>3, SelectionFacts
  <2> QED
    BY <1>5, <2>1 DEF Once
<1>7. PICK s : s = [i \in 1..n |-> c[i].id]
  OBVIOUS
<1>8. BalancedBoards(daily, t, size, tie) = s
  BY <1>1, <1>4, <1>6, <1>7 DEF BalancedBoards, FirstCandidates
<1>9. \A i \in 1..n : c[i].id \in Boards
  BY <1>6 DEF Candidates, Candidate
<1>10. s \in Seq(Boards) /\ Len(s) = n
  BY <1>6, <1>7, <1>9
<1>11. ASSUME NEW i \in 1..n, NEW j \in 1..n, s[i] = s[j] PROVE i = j
  <2>1. c[i].id = c[j].id
    BY <1>7, <1>11
  <2>2. c[i] = c[j]
    BY <1>2, <1>6, <2>1 DEF Ranked
  <2> QED
    BY <1>5, <2>2 DEF Once
<1> QED
  BY <1>3, <1>6, <1>8, <1>10, <1>11

\* All the boards in their balanced order.
AllBalanced == [i \in 1..Len(WholeOrder(Candidates)) |-> WholeOrder(Candidates)[i].id]

LEMMA AllBalancedLists ==
  ASSUME BoardsTyped
  PROVE  Lists(AllBalanced, Boards) /\ Len(AllBalanced) = Cardinality(Candidates)
<1>1. PICK w : w = WholeOrder(Candidates)
  OBVIOUS
<1>2. Ranked(Candidates)
  BY CandidatesRanked
<1>3. Lists(w, Candidates) /\ Len(w) = Cardinality(Candidates)
  BY <1>1, <1>2, SelectionsAll DEF WholeOrder
<1>4. /\ Len(w) \in Nat /\ \A i \in 1..Len(w) : w[i] \in Candidates
      /\ \A i, j \in 1..Len(w) : w[i] = w[j] => i = j
      /\ \A c \in Candidates : \E i \in 1..Len(w) : w[i] = c
  BY <1>3, ListsFacts
<1>5. PICK s : s = [i \in 1..Len(w) |-> w[i].id]
  OBVIOUS
<1>6. AllBalanced = s
  BY <1>1, <1>5 DEF AllBalanced
<1>7. \A i \in 1..Len(w) : w[i].id \in Boards
  BY <1>4 DEF Candidates, Candidate
<1>8. s \in Seq(Boards) /\ Len(s) = Len(w) /\ DOMAIN s = 1..Len(w)
  BY <1>4, <1>5, <1>7
<1>9. \A i, j \in 1..Len(w) : s[i] = s[j] => i = j
  <2> SUFFICES ASSUME NEW i \in 1..Len(w), NEW j \in 1..Len(w), s[i] = s[j] PROVE i = j
    OBVIOUS
  <2>1. w[i].id = w[j].id
    BY <1>5
  <2>2. w[i] = w[j]
    BY <1>2, <1>4, <2>1 DEF Ranked
  <2> QED
    BY <1>4, <2>2
<1>10. IsInjective(s)
  BY <1>8, <1>9 DEF IsInjective
<1>11. ASSUME NEW b \in Boards PROVE \E i \in 1..Len(w) : s[i] = b
  <2>1. Candidate(b) \in Candidates /\ Candidate(b).id = b
    BY DEF Candidates, Candidate
  <2>2. PICK i \in 1..Len(w) : w[i] = Candidate(b)
    BY <1>4, <2>1
  <2> QED
    BY <1>5, <2>1, <2>2
<1> QED
  BY <1>3, <1>6, <1>8, <1>10, <1>11 DEF Lists

\* Of regular boards, a balanced list begins as that of all of them.
LEMMA BalancedStable ==
  ASSUME BoardsTyped, NEW daily \in BOOLEAN, NEW tie \in TieOrders, daily = reader.daily, Regular,
         Apart(daily, {}),
         NEW t \in Nat \ {0}, NEW size
  PROVE  LET s == BalancedBoards(daily, t, size, tie)
         IN  /\ s \in Seq(Boards) /\ Len(AllBalanced) \in Nat
             /\ Len(s) = (IF t < Len(AllBalanced) THEN t ELSE Len(AllBalanced))
             /\ \A i \in 1..Len(s) : s[i] = AllBalanced[i]
<1>1. PICK D : D = FirstCandidates(daily, t, size, tie)
  OBVIOUS
<1>2. Ranked(Candidates) /\ HeadsActive(Candidates) /\ FirstOfSites(D, Candidates, t)
  BY <1>1, CandidatesRanked, RegularHeads, RegularSites
<1>3. PICK c : c = BalanceSiteExposure(D, t)
  OBVIOUS
<1>4. PICK n : n = Cardinality(Candidates)
  OBVIOUS
<1>5. /\ c \in Seq(Candidates) /\ n \in Nat /\ Len(c) = (IF t < n THEN t ELSE n)
      /\ \A i \in 1..Len(c) : c[i] = WholeOrder(Candidates)[i]
  BY <1>2, <1>3, <1>4, BalanceStable
<1>6. PICK s : s = [i \in DOMAIN c |-> c[i].id]
  OBVIOUS
<1>7. BalancedBoards(daily, t, size, tie) = s
  BY <1>1, <1>3, <1>6 DEF BalancedBoards, FirstCandidates
<1>8. s \in Seq(Boards)
  BY <1>7, BalancedTyped
<1>9. Len(c) \in Nat /\ DOMAIN c = 1..Len(c)
  BY <1>5
<1>10. Len(s) = Len(c)
  BY <1>6, <1>8, <1>9
<1>11. Lists(AllBalanced, Boards) /\ Len(AllBalanced) = n
  BY <1>4, AllBalancedLists
<1>12. Len(WholeOrder(Candidates)) = n
  BY <1>2, <1>4, SelectionsAll DEF WholeOrder
<1>13. ASSUME NEW i \in 1..Len(c) PROVE s[i] = AllBalanced[i]
  <2>1. i \in 1..n
    BY <1>5
  <2>2. AllBalanced[i] = WholeOrder(Candidates)[i].id
    BY <1>12, <2>1 DEF AllBalanced
  <2> QED
    BY <1>5, <1>6, <1>9, <2>2
<1> QED
  BY <1>5, <1>7, <1>8, <1>10, <1>11, <1>13

\* All that a list shows, in order; of a filtered one in the order of some query.
WholeList(daily, filter) ==
  IF filter = {} THEN AllBalanced
  ELSE Rows(SelectionOf(filter), daily, CHOOSE tie \in TieOrders : TRUE)

\* What a page of a list shows, whatever the boards.
LEMMA ListBoardsTyped ==
  ASSUME BoardsTyped, NEW daily \in BOOLEAN, NEW tie \in TieOrders,
         NEW index \in Nat, NEW size \in Nat \ {0}, NEW filter
  PROVE  /\ ListBoards(daily, index, size, filter, tie) \in Seq(Boards)
         /\ Len(ListBoards(daily, index, size, filter, tie)) \in Nat
         /\ Len(ListBoards(daily, index, size, filter, tie)) <= size
<1>1. PICK x \in Nat : x = index * size
  OBVIOUS
<1>2. PICK s : s = (IF filter = {} THEN BalancedBoards(daily, x + size, size, tie)
                    ELSE Rows({b \in Boards : Site[b] \in filter}, daily, tie))
  OBVIOUS
<1>3. s \in Seq(Boards)
  <2>1. CASE filter = {}
    <3>1. x + size \in Nat \ {0}
      OBVIOUS
    <3> QED
      BY <1>2, <2>1, <3>1, BalancedTyped
  <2>2. CASE filter # {}
    <3>1. PICK S \in SUBSET Boards : S = {b \in Boards : Site[b] \in filter}
      OBVIOUS
    <3>2. Rows(S, daily, tie) \in Seq(S)
      BY <3>1, RowsFacts, ListsFacts
    <3>3. s \in Seq(S)
      BY <1>2, <2>2, <3>1, <3>2
    <3> QED
      BY <3>3
  <2> QED
    BY <2>1, <2>2
<1>4. PICK t : t = Slice(s, x + 1, x + size)
  OBVIOUS
<1>5. ListBoards(daily, index, size, filter, tie) = t
  BY <1>1, <1>2, <1>4 DEF ListBoards
<1>6. IsPage(t, s, Boards, x, size)
  BY <1>3, <1>4, SliceFacts
<1>7. t \in Seq(Boards) /\ \A j \in 1..Len(t) : j \in 1..size
  BY <1>6 DEF IsPage
<1>8. Len(t) \in Nat /\ Len(t) <= size
  <2>1. Len(t) \in Nat
    BY <1>7
  <2> QED
    BY <1>7, <2>1
<1> QED
  BY <1>5, <1>7, <1>8

\* A page of a list is a page of the whole list.
LEMMA ListBoardsPage ==
  ASSUME BoardsTyped, NEW daily \in BOOLEAN, NEW tie \in TieOrders,
         NEW index \in Nat, NEW size \in Nat \ {0}, NEW filter,
         Apart(daily, filter), filter # {} \/ (daily = reader.daily /\ Regular)
  PROVE  /\ Lists(WholeList(daily, filter), SelectionOf(filter))
         /\ IsPage(ListBoards(daily, index, size, filter, tie), WholeList(daily, filter),
                   SelectionOf(filter), index * size, size)
<1>1. PICK x \in Nat : x = index * size
  OBVIOUS
<1>2. PICK t : t = ListBoards(daily, index, size, filter, tie)
  OBVIOUS
<1>3. PICK l : l = WholeList(daily, filter)
  OBVIOUS
<1>4. CASE filter # {}
  <2>1. PICK S \in SUBSET Boards : S = SelectionOf(filter) /\ S = {b \in Boards : Site[b] \in filter}
    BY <1>4 DEF SelectionOf
  <2>2. l = Rows(S, daily, tie)
    <3>1. PICK other \in TieOrders : other = CHOOSE y \in TieOrders : TRUE
      OBVIOUS
    <3>2. l = Rows(S, daily, other)
      BY <1>3, <1>4, <2>1, <3>1 DEF WholeList
    <3>3. Rows(SelectionOf(filter), daily, other) = Rows(SelectionOf(filter), daily, tie)
      BY <1>4, RowsAlike
    <3> QED
      BY <2>1, <3>2, <3>3
  <2>3. Lists(l, S) /\ l \in Seq(S)
    BY <2>2, RowsFacts, ListsFacts
  <2>4. t = Slice(l, x + 1, x + size)
    BY <1>1, <1>2, <1>4, <2>1, <2>2 DEF ListBoards
  <2>5. IsPage(t, l, S, x, size)
    BY <2>3, <2>4, SliceFacts
  <2> QED
    BY <1>1, <1>2, <1>3, <2>1, <2>3, <2>5
<1>5. CASE filter = {}
  <2>1. SelectionOf(filter) = Boards /\ l = AllBalanced
    BY <1>3, <1>5 DEF SelectionOf, WholeList
  <2>2. Lists(l, Boards)
    BY <2>1, AllBalancedLists
  <2>3. PICK u \in Nat \ {0} : u = x + size
    OBVIOUS
  <2>4. PICK s : s = BalancedBoards(daily, u, size, tie)
    OBVIOUS
  <2>5. /\ s \in Seq(Boards) /\ Len(l) \in Nat
        /\ Len(s) = (IF u < Len(l) THEN u ELSE Len(l))
        /\ \A i \in 1..Len(s) : s[i] = l[i]
    BY <1>5, <2>1, <2>4, BalancedStable
  <2>6. t = Slice(s, x + 1, x + size)
    BY <1>1, <1>2, <1>5, <2>3, <2>4 DEF ListBoards
  <2>7. IsPage(t, s, Boards, x, size)
    BY <2>5, <2>6, SliceFacts
  <2>8. PICK m \in Nat, n \in Nat : m = Len(s) /\ n = Len(l) /\ m = (IF u < n THEN u ELSE n)
    BY <2>5
  <2>9. ASSUME NEW j \in 1..Len(t)
        PROVE  j \in 1..size /\ x + j \in 1..Len(l) /\ t[j] = l[x + j]
    <3>1. j \in 1..size /\ x + j \in 1..Len(s) /\ t[j] = s[x + j]
      BY <2>7 DEF IsPage
    <3>2. x + j \in 1..Len(l)
      BY <2>8, <3>1
    <3> QED
      BY <2>5, <3>1, <3>2
  <2>10. ASSUME NEW j \in 1..size, x + j \in 1..Len(l) PROVE j \in 1..Len(t)
    <3>1. x + j \in 1..Len(s)
      BY <2>3, <2>8, <2>10
    <3> QED
      BY <2>7, <3>1 DEF IsPage
  <2>11. IsPage(t, l, Boards, x, size)
    BY <2>7, <2>9, <2>10 DEF IsPage
  <2> QED
    BY <1>1, <1>2, <1>3, <2>1, <2>2, <2>11
<1> QED
  BY <1>4, <1>5

-----------------------------------------------------------------------------
(* What a reader has seen *)

LEMMA Retyped ==
  ASSUME NEW A, NEW B, NEW s \in Seq(A), \A i \in 1..Len(s) : s[i] \in B
  PROVE  s \in Seq(B)
OBVIOUS

\* A page of a list, whatever the order of its query's ties.
PageOf(page, daily, index, size, filter) ==
  \E tie \in TieOrders : page = ListBoards(daily, index, size, filter, tie)
Listed(pages, daily, size, filter) ==
  \A p \in 1..Len(pages) : PageOf(pages[p], daily, p - 1, size, filter)

\* The pages are those of the list, as long as the boards have not changed, and all but
\* the last are full.
ReaderInv ==
  /\ reader \in [daily : BOOLEAN, size : Nat, filter : Filters \cup {{}},
                 pages : Seq(Seq(Boards)), steady : BOOLEAN]
  /\ reader # NoReader =>
       /\ reader.size # 0 /\ Len(reader.pages) # 0
       /\ \A p \in 1..Len(reader.pages) :
            p # Len(reader.pages) => Len(reader.pages[p]) = reader.size
  /\ \A pages, daily, size, filter :
       reader # NoReader /\ reader.steady /\ pages = reader.pages /\ daily = reader.daily
       /\ size = reader.size /\ filter = reader.filter
         => Listed(pages, daily, size, filter)

HistoryTyped == history \in Seq(Boards) /\ Len(history) <= TopLimit

Inv == BoardsTyped /\ HistoryTyped /\ ReaderInv

LEMMA StablePages ==
  ASSUME Inv
  PROVE  PagesStable
<1> SUFFICES ASSUME reader.steady, KeysDiffer, reader.filter # {} \/ Regular
             PROVE  NothingTwice /\ NothingMissing
  BY DEF PagesStable
<1>1. CASE reader = NoReader
  <2>1. reader.pages = <<>> /\ ~Exhausted
    BY <1>1 DEF NoReader, Exhausted
  <2> QED
    BY <2>1 DEF NothingTwice, NothingMissing
<1>2. CASE reader # NoReader
  <2>1. PICK pages \in Seq(Seq(Boards)), daily \in BOOLEAN, size \in Nat \ {0} :
          pages = reader.pages /\ daily = reader.daily /\ size = reader.size
    BY <1>2 DEF Inv, ReaderInv
  <2>0. PICK filter : filter = reader.filter
    OBVIOUS
  <2>2. /\ Len(pages) \in Nat /\ Len(pages) # 0 /\ DOMAIN pages = 1..Len(pages)
        /\ \A p \in 1..Len(pages) : p # Len(pages) => Len(pages[p]) = size
    BY <1>2, <2>1 DEF Inv, ReaderInv
  <2>14. Len(pages) \in Nat /\ Len(pages) # 0
    BY <2>2
  <2>3. \A p \in 1..Len(pages) : PageOf(pages[p], daily, p - 1, size, filter)
    BY <1>2, <2>0, <2>1 DEF Inv, ReaderInv, Listed
  <2>4. PICK l, S : l = WholeList(daily, filter) /\ S = SelectionOf(filter)
    OBVIOUS
  <2>5. BoardsTyped /\ Apart(daily, filter) /\ (filter # {} \/ (daily = reader.daily /\ Regular))
    BY <2>0, <2>1 DEF Inv, KeysDiffer, Selection, SelectionOf, Apart
  <2>6. Lists(l, S)
    <3>1. 0 \in Nat /\ 1 \in 1..Len(pages)
      BY <2>14
    <3>2. PICK tie \in TieOrders : pages[1] = ListBoards(daily, 1 - 1, size, filter, tie)
      BY <2>3, <3>1 DEF PageOf
    <3> QED
      BY <2>1, <2>4, <2>5, <3>1, ListBoardsPage
  <2>7. \A p \in 1..Len(pages) : IsPage(pages[p], l, S, (p - 1) * size, size)
    <3> TAKE p \in 1..Len(pages)
    <3>1. p - 1 \in Nat
      BY <2>14
    <3>2. PICK tie \in TieOrders : pages[p] = ListBoards(daily, p - 1, size, filter, tie)
      BY <2>3 DEF PageOf
    <3> QED
      BY <2>1, <2>4, <2>5, <3>1, <3>2, ListBoardsPage, ZenonT(40)
  <2>8. pages \in Seq(Seq(S))
    <3>1. \A p \in 1..Len(pages) : pages[p] \in Seq(S)
      BY <2>7 DEF IsPage
    <3> QED
      BY <2>1, <3>1, Retyped
  <2>9. ArePages(pages, l, S, size)
    BY <2>1, <2>2, <2>7, <2>8 DEF ArePages
  <2>10. NothingTwice
    BY <2>1, <2>6, <2>9, NothingIsTwice DEF NothingTwice
  <2>11. S = Selection
    BY <2>0, <2>4 DEF SelectionOf, Selection
  <2>12. Exhausted => Len(pages[Len(pages)]) < size
    BY <2>1 DEF Exhausted, Last
  <2>13. NothingMissing
    BY <2>1, <2>6, <2>9, <2>11, <2>12, NothingIsMissing DEF NothingMissing
  <2> QED
    BY <2>10, <2>13
<1> QED
  BY <1>1, <1>2

-----------------------------------------------------------------------------
(* The steps *)

LEMMA InitInv == Init => Inv
<1> SUFFICES ASSUME Init PROVE Inv
  OBVIOUS
<1>1. BoardsTyped
  BY FeedAssumption DEF Init, BoardsTyped, Row
<1>2. HistoryTyped
  BY FeedAssumption DEF Init, HistoryTyped
<1>3. ReaderInv
  <2>1. reader = NoReader
    BY DEF Init
  <2>2. <<>> \in Seq(Seq(Boards))
    OBVIOUS
  <2> QED
    BY <2>1, <2>2 DEF ReaderInv, NoReader
<1> QED
  BY <1>1, <1>2, <1>3 DEF Inv

\* A change of a board.
LEMMA ChangeInv ==
  ASSUME Inv, NEW b \in Boards, NEW row \in Row, Change(b, row)
  PROVE  Inv'
<1>1. BoardsTyped'
  BY DEF Inv, BoardsTyped, Change
<1>2. HistoryTyped'
  BY DEF Inv, HistoryTyped, Change
<1>3. ReaderInv'
  <2>1. reader' = [reader EXCEPT !.steady = reader = NoReader]
    BY DEF Change
  <2>2. CASE reader = NoReader
    <3>1. reader' = NoReader
      BY <2>1, <2>2 DEF NoReader
    <3>2. reader' \in [daily : BOOLEAN, size : Nat, filter : Filters \cup {{}},
                       pages : Seq(Seq(Boards)), steady : BOOLEAN]
      BY <2>2, <3>1 DEF Inv, ReaderInv
    <3> QED
      BY <3>1, <3>2 DEF ReaderInv
  <2>3. CASE reader # NoReader
    <3>1. reader' = [reader EXCEPT !.steady = FALSE]
      BY <2>1, <2>3
    <3>2. reader' \in [daily : BOOLEAN, size : Nat, filter : Filters \cup {{}},
                       pages : Seq(Seq(Boards)), steady : BOOLEAN]
      BY <3>1 DEF Inv, ReaderInv
    <3>3. ~reader'.steady /\ reader'.size = reader.size /\ reader'.pages = reader.pages
      BY <3>1 DEF Inv, ReaderInv
    <3> QED
      BY <2>3, <3>2, <3>3 DEF Inv, ReaderInv
  <2> QED
    BY <2>2, <2>3
<1> QED
  BY <1>1, <1>2, <1>3 DEF Inv

LEMMA ChangesInv ==
  ASSUME Inv, NEW b \in Boards,
         Age(b) \/ Analyse(b) \/ \E score \in Scores, contents \in Bodies : Crawl(b, score, contents)
  PROVE  Inv'
<1>1. board[b] \in Row
  BY DEF Inv, BoardsTyped
<1>2. CASE Age(b)
  <2>1. [board[b] EXCEPT !.active = FALSE] \in Row
    BY <1>1 DEF Row
  <2> QED
    BY <1>2, <2>1, ChangeInv DEF Age
<1>3. CASE Analyse(b)
  <2>1. [board[b] EXCEPT !.analysed = TRUE] \in Row
    BY <1>1 DEF Row
  <2> QED
    BY <1>3, <2>1, ChangeInv DEF Analyse
<1>4. ASSUME NEW score \in Scores, NEW contents \in Bodies, Crawl(b, score, contents) PROVE Inv'
  <2>1. [board[b] EXCEPT !.score = score, !.active = TRUE, !.contents = contents] \in Row
    BY <1>1 DEF Row
  <2> QED
    BY <1>4, <2>1, ChangeInv DEF Crawl
<1> QED
  BY <1>2, <1>3, <1>4

\* Lists are those of the boards.
LEMMA ListsOfBoards ==
  ASSUME board' = board
  PROVE  /\ BoardsTyped' <=> BoardsTyped
         /\ \A daily, index, size, filter, tie :
              ListBoards(daily, index, size, filter, tie)' = ListBoards(daily, index, size, filter, tie)
BY DEF BoardsTyped, ListBoards, BalancedBoards, SiteCandidates, Candidate, Rows, RowBefore, RowKey

LEMMA PagesOfBoards ==
  ASSUME board' = board
  PROVE  \A page, daily, index, size, filter :
           PageOf(page, daily, index, size, filter)' <=> PageOf(page, daily, index, size, filter)
BY ListsOfBoards DEF PageOf

LEMMA OpenListInv ==
  ASSUME Inv, NEW daily \in BOOLEAN, NEW size \in PageSizes, NEW filter \in Filters,
         OpenList(daily, size, filter)
  PROVE  Inv'
<1>1. board' = board /\ history' = history
  BY DEF OpenList
<1>2. BoardsTyped' /\ HistoryTyped'
  BY <1>1, ListsOfBoards DEF Inv, HistoryTyped
<1>11. PICK tie \in TieOrders :
         reader' = [daily |-> daily, size |-> size, filter |-> filter, steady |-> TRUE,
                    pages |-> <<ListBoards(daily, 0, size, filter, tie)>>]
  BY DEF OpenList
<1>3. PICK page : page = ListBoards(daily, 0, size, filter, tie)
  OBVIOUS
<1>4. size \in Nat \ {0}
  BY FeedAssumption
<1>5. page \in Seq(Boards)
  BY <1>3, <1>4, ListBoardsTyped DEF Inv
<1>6. reader' = [daily |-> daily, size |-> size, filter |-> filter, steady |-> TRUE,
                 pages |-> <<page>>]
  BY <1>3, <1>11
<1>7. <<page>> \in Seq(Seq(Boards)) /\ Len(<<page>>) = 1 /\ <<page>>[1] = page
  BY <1>5
<1>8. reader' \in [daily : BOOLEAN, size : Nat, filter : Filters \cup {{}},
                   pages : Seq(Seq(Boards)), steady : BOOLEAN]
  BY <1>4, <1>6, <1>7
<1>9. \A p \in 1..1 : p = 1 /\ p - 1 = 0
  OBVIOUS
<1>10. Listed(<<page>>, daily, size, filter)'
  BY <1>1, <1>3, <1>7, <1>9, ListsOfBoards DEF Listed, PageOf
<1> QED
  BY <1>2, <1>4, <1>6, <1>7, <1>8, <1>9, <1>10 DEF Inv, ReaderInv

LEMMA ReadPageInv ==
  ASSUME Inv, ReadPage
  PROVE  Inv'
<1>1. board' = board /\ history' = history
  BY DEF ReadPage
<1>2. BoardsTyped' /\ HistoryTyped'
  BY <1>1, ListsOfBoards DEF Inv, HistoryTyped
<1>3. PICK pages \in Seq(Seq(Boards)), daily \in BOOLEAN, size \in Nat \ {0} :
        pages = reader.pages /\ daily = reader.daily /\ size = reader.size
  BY DEF Inv, ReaderInv, ReadPage
<1>4. PICK filter : filter = reader.filter
  OBVIOUS
<1>5. PICK n \in Nat \ {0} : n = Len(pages)
  <2>1. Len(pages) \in Nat
    BY <1>3
  <2>2. Len(pages) # 0
    BY <1>3 DEF Inv, ReaderInv, ReadPage
  <2> QED
    BY <2>1, <2>2
<1>16. PICK tie \in TieOrders :
         reader' = [reader EXCEPT !.pages = Append(pages, ListBoards(daily, n, size, filter, tie))]
  BY <1>3, <1>4, <1>5 DEF ReadPage
<1>6. PICK page : page = ListBoards(daily, n, size, filter, tie)
  OBVIOUS
<1>7. page \in Seq(Boards)
  BY <1>3, <1>5, <1>6, ListBoardsTyped DEF Inv
<1>8. PICK more : more = Append(pages, page)
  OBVIOUS
<1>9. reader' = [reader EXCEPT !.pages = more]
  BY <1>6, <1>8, <1>16
<1>10. /\ more \in Seq(Seq(Boards)) /\ Len(more) = n + 1 /\ more[n + 1] = page
       /\ \A p \in 1..n : more[p] = pages[p]
  BY <1>3, <1>5, <1>7, <1>8
<1>11. /\ reader' \in [daily : BOOLEAN, size : Nat, filter : Filters \cup {{}},
                       pages : Seq(Seq(Boards)), steady : BOOLEAN]
       /\ reader'.pages = more /\ reader'.daily = daily /\ reader'.size = size
       /\ reader'.filter = filter /\ reader'.steady = reader.steady
  BY <1>3, <1>4, <1>9, <1>10 DEF Inv, ReaderInv
<1>12. \A p \in 1..n : Len(pages[p]) = size
  <2>1. Len(pages[n]) = size
    BY <1>3, <1>5 DEF ReadPage, Last
  <2>2. \A p \in 1..n : p # n => Len(pages[p]) = size
    BY <1>3, <1>5 DEF Inv, ReaderInv, ReadPage
  <2> QED
    BY <2>1, <2>2
<1>13. \A p \in 1..(n + 1) : p # n + 1 => p \in 1..n
  BY <1>5
<1>14. reader'.steady => Listed(more, daily, size, filter)'
  <2> SUFFICES ASSUME reader.steady PROVE Listed(more, daily, size, filter)'
    BY <1>11
  <2>1. \A p \in 1..n : PageOf(pages[p], daily, p - 1, size, filter)
    BY <1>3, <1>4, <1>5 DEF Inv, ReaderInv, ReadPage, Listed
  <2>2. (n + 1) - 1 = n
    BY <1>5
  <2>3. PageOf(page, daily, n, size, filter)
    BY <1>6 DEF PageOf
  <2>4. \A p \in 1..(n + 1) : PageOf(more[p], daily, p - 1, size, filter)
    BY <1>10, <1>13, <2>1, <2>2, <2>3
  <2>5. \A p \in 1..(n + 1) : PageOf(more[p], daily, p - 1, size, filter)'
    BY <1>1, <1>8, <2>4, PagesOfBoards
  <2> QED
    BY <1>10, <2>5 DEF Listed
<1>15. /\ reader'.size # 0 /\ Len(reader'.pages) # 0
       /\ \A p \in 1..Len(reader'.pages) :
            p # Len(reader'.pages) => Len(reader'.pages[p]) = reader'.size
  <2>1. Len(more) = n + 1 /\ n + 1 # 0 /\ size # 0
    BY <1>3, <1>5, <1>10
  <2>2. \A p \in 1..(n + 1) : p # n + 1 => Len(more[p]) = size
    BY <1>10, <1>12, <1>13
  <2> QED
    BY <1>11, <2>1, <2>2
<1> QED
  BY <1>2, <1>11, <1>14, <1>15 DEF Inv, ReaderInv

LEMMA CloseListInv ==
  ASSUME Inv, CloseList
  PROVE  Inv'
<1>1. BoardsTyped' /\ HistoryTyped'
  BY ListsOfBoards DEF Inv, HistoryTyped, CloseList
<1>2. reader' = NoReader
  BY DEF CloseList
<1>3. <<>> \in Seq(Seq(Boards))
  OBVIOUS
<1>4. ReaderInv'
  BY <1>2, <1>3 DEF ReaderInv, NoReader
<1> QED
  BY <1>1, <1>4 DEF Inv

\* What leaves boards and reader alone.
LEMMA ReaderStays ==
  ASSUME Inv, board' = board, reader' = reader, HistoryTyped'
  PROVE  Inv'
<1>1. BoardsTyped'
  BY ListsOfBoards DEF Inv
<1>2. \A pages, daily, size, filter :
        Listed(pages, daily, size, filter)' <=> Listed(pages, daily, size, filter)
  BY PagesOfBoards DEF Listed
<1>3. ReaderInv'
  BY <1>2 DEF Inv, ReaderInv
<1> QED
  BY <1>1, <1>3 DEF Inv

\* The ranking that is recorded is of boards, as many as TopLimit.
LEMMA RankingTyped ==
  ASSUME BoardsTyped, NEW tie \in TieOrders
  PROVE  LET live == ListBoards(TRUE, 0, TopLimit, {}, tie)
         IN  live \in Seq(Boards) /\ Len(live) \in Nat /\ Len(live) <= TopLimit
BY FeedAssumption, ListBoardsTyped

LEMMA OthersInv ==
  ASSUME Inv,
         \/ ReadPosts \/ ReadBodies \/ CloseBriefing
         \/ RecordDay \/ BuildLive \/ BuildHistorical \/ ClosePackage
         \/ UNCHANGED vars
  PROVE  Inv'
<1>1. board' = board /\ reader' = reader
  BY DEF ReadPosts, ReadBodies, CloseBriefing, RecordDay, BuildLive, BuildHistorical,
         BuildPackage, ClosePackage, vars
<1>2. CASE RecordDay
  <2>1. HistoryTyped'
    BY <1>2, RankingTyped DEF RecordDay, HistoryTyped, Inv
  <2> QED
    BY <1>1, <2>1, ReaderStays
<1>3. CASE ~RecordDay
  <2>1. history' = history
    BY <1>3 DEF ReadPosts, ReadBodies, CloseBriefing, BuildLive, BuildHistorical,
                BuildPackage, ClosePackage, vars
  <2>2. HistoryTyped'
    BY <2>1 DEF Inv, HistoryTyped
  <2> QED
    BY <1>1, <2>2, ReaderStays
<1> QED
  BY <1>2, <1>3

LEMMA NextInv == Inv /\ [Next]_vars => Inv'
<1> SUFFICES ASSUME Inv, [Next]_vars PROVE Inv'
  OBVIOUS
<1>1. ASSUME NEW b \in Boards,
             Age(b) \/ Analyse(b)
             \/ \E score \in Scores, contents \in Bodies : Crawl(b, score, contents)
      PROVE  Inv'
  BY <1>1, ChangesInv
<1>2. ASSUME NEW daily \in BOOLEAN, NEW size \in PageSizes, NEW filter \in Filters,
             OpenList(daily, size, filter)
      PROVE  Inv'
  BY <1>2, OpenListInv
<1>3. CASE ReadPage \/ CloseList
  BY <1>3, ReadPageInv, CloseListInv
<1>4. CASE \/ ReadPosts \/ ReadBodies \/ CloseBriefing
           \/ RecordDay \/ BuildLive \/ BuildHistorical \/ ClosePackage
           \/ UNCHANGED vars
  BY <1>4, OthersInv
<1> QED
  BY <1>1, <1>2, <1>3, <1>4 DEF Next

\* A reader of boards that do not change sees each board of the list once, page by page,
\* when no two of its rows tie and, in the unfiltered list, no site has an inactive board
\* ahead of its active ones.
THEOREM PagesStay == Spec => []PagesStable
<1>1. Inv => PagesStable
  BY StablePages
<1> QED
  BY <1>1, InitInv, NextInv, PTL DEF Spec

-----------------------------------------------------------------------------
(* Packages *)

\* A clipped text is as long as it may be, at most.
LEMMA ClipFits ==
  ASSUME NEW text \in Seq(BOOLEAN), NEW max \in Nat \ {0}
  PROVE  /\ Clip(text, max) \in Seq(BOOLEAN) /\ Len(Clip(text, max)) \in Nat
         /\ Len(Clip(text, max)) <= max
<1>1. Len(text) \in Nat
  OBVIOUS
<1>2. CASE Len(text) <= max
  BY <1>1, <1>2 DEF Clip
<1>3. CASE ~(Len(text) <= max)
  <2>1. PICK s : s = SubSeq(text, 1, max - 1)
    OBVIOUS
  <2>2. \A i \in 1..(max - 1) : text[i] \in BOOLEAN
    BY <1>1, <1>3
  <2>3. s \in Seq(BOOLEAN) /\ Len(s) = max - 1
    <3>1. s \in Seq(BOOLEAN)
          /\ Len(s) = IF 1 <= max - 1 THEN (max - 1) - 1 + 1 ELSE 0
      BY <2>1, <2>2, SubSeqProperties
    <3> QED
      BY <3>1
  <2>4. PICK t : t = Silent(1)
    OBVIOUS
  <2>5. t \in Seq(BOOLEAN) /\ Len(t) = 1
    BY <2>4 DEF Silent
  <2>6. s \o t \in Seq(BOOLEAN) /\ Len(s \o t) = max
    <3>1. s \o t \in Seq(BOOLEAN) /\ Len(s \o t) = Len(s) + Len(t)
      BY <2>3, <2>5, ConcatProperties
    <3> QED
      BY <2>3, <2>5, <3>1
  <2>7. Clip(text, max) = s \o t
    BY <1>3, <2>1, <2>4 DEF Clip
  <2> QED
    BY <2>6, <2>7
<1> QED
  BY <1>2, <1>3

\* Who speaks a text of up to 30 characters is done within 5 seconds.
LEMMA SpokenFits ==
  ASSUME NEW text \in Seq(BOOLEAN), Len(text) <= RankNarrationMaxCharacters
  PROVE  NarrationTenths(SpokenIn(text)) <= 10 * RankSceneSeconds
<1>1. PICK n \in Nat : n = Len(text) /\ DOMAIN text = 1..n
  OBVIOUS
<1>2. IsFiniteSet(1..n) /\ Cardinality(1..n) = n
  <2>1. IsFiniteSet(1..n) /\ Cardinality(1..n) = IF 1 > n THEN 0 ELSE n - 1 + 1
    BY FS_Interval
  <2> QED
    BY <2>1
<1>3. PICK S \in SUBSET (1..n) : S = {i \in 1..n : text[i]}
  OBVIOUS
<1>4. Cardinality(S) \in Nat /\ Cardinality(S) <= n
  BY <1>2, FS_Subset, FS_CardinalityType
<1>5. PICK spoken \in Nat : spoken = SpokenIn(text) /\ spoken <= 30
  <2>1. {i \in DOMAIN text : text[i]} = S
    BY <1>1, <1>3, Zenon
  <2>2. SpokenIn(text) = Cardinality(S)
    BY <2>1, Zenon DEF SpokenIn
  <2> QED
    BY <1>1, <1>4, <2>2 DEF RankNarrationMaxCharacters
<1>6. (20 * spoken + 6) \div 12 <= 50
  BY <1>5
<1>7. NarrationTenths(spoken) = (20 * spoken + 6) \div 12
  BY DEF NarrationTenths, NarrationCharactersPerSecond
<1> QED
  BY <1>5, <1>6, <1>7 DEF RankSceneSeconds

LEMMA TextsAreTexts ==
  ASSUME NEW n \in Nat
  PROVE  Spoken(n) \in Seq(BOOLEAN) /\ Silent(n) \in Seq(BOOLEAN)
BY DEF Spoken, Silent

\* A narration is a text that fits its scene.
LEMMA NarrationFits ==
  ASSUME NEW source, source.rank \in Nat, source.title \in Seq(BOOLEAN), source.summary \in Seq(BOOLEAN)
  PROVE  NarrationTenths(SpokenIn(RankNarration(source))) <= 10 * RankSceneSeconds
<1>1. PICK digits \in Nat : digits = RankDigits(source.rank) + 1
  BY DEF RankDigits
<1>2. PICK a \in Seq(BOOLEAN) : a = Spoken(digits)
  BY TextsAreTexts
<1>3. PICK b \in Seq(BOOLEAN) : b = Silent(2)
  BY TextsAreTexts
<1>4. PICK c \in Seq(BOOLEAN) : c = Clip(source.title, 16)
  BY ClipFits
<1>5. PICK d \in Seq(BOOLEAN) : d = Clip(source.summary, 20)
  BY ClipFits
<1>6. PICK e \in Seq(BOOLEAN) : e = Clip(source.title, 30)
  BY ClipFits
<1>7. PICK f \in Seq(BOOLEAN) : f = Spoken(3)
  BY TextsAreTexts
<1>8. PICK g \in Seq(BOOLEAN) : g = Silent(1)
  BY TextsAreTexts
<1>9. (a \o b) \o c \o b \o d \in Seq(BOOLEAN) /\ (a \o b) \o e \o f \o g \in Seq(BOOLEAN)
  OBVIOUS
<1>10. PICK whole \in Seq(BOOLEAN) :
         whole = (IF source.hasSummary THEN (a \o b) \o c \o b \o d ELSE (a \o b) \o e \o f \o g)
  BY <1>9
<1>11. RankNarration(source) = Clip(whole, RankNarrationMaxCharacters)
  BY <1>1, <1>2, <1>3, <1>4, <1>5, <1>6, <1>7, <1>8, <1>10 DEF RankNarration
<1>12. Clip(whole, RankNarrationMaxCharacters) \in Seq(BOOLEAN)
       /\ Len(Clip(whole, RankNarrationMaxCharacters)) <= RankNarrationMaxCharacters
  BY ClipFits DEF RankNarrationMaxCharacters
<1> QED
  BY <1>11, <1>12, SpokenFits

\* The scenes of sources in the order of their ranks: an opening, one for each rank from
\* the last to the first, and a close, each beginning when the one before it ends.
LEMMA ScenesFacts ==
  ASSUME NEW n \in Nat, NEW sources, DOMAIN sources = 1..n, Len(sources) = n,
         \A r \in 1..n : /\ sources[r].rank = r
                         /\ sources[r].title \in Seq(BOOLEAN) /\ sources[r].summary \in Seq(BOOLEAN)
  PROVE  /\ TimingsValid(Scenes(sources))
         /\ \A i \in 1..(n + 1) : Scenes(sources)[i + 1].start =
              Scenes(sources)[i].start + Scenes(sources)[i].duration
         /\ \A i \in 1..n : Scenes(sources)[i + 1].rank = n + 1 - i
         /\ Scenes(sources)[n + 2].start + Scenes(sources)[n + 2].duration
              = OutroStart(sources) + OutroSeconds
<1>1. PICK middle : middle = RankingScenes(sources)
  OBVIOUS
<1>2. middle = [i \in 1..n |->
                  Scene(i + 1, IntroSeconds + (i - 1) * RankSceneSeconds, RankSceneSeconds,
                        SpokenIn(RankNarration(sources[n + 1 - i])), sources[n + 1 - i].rank)]
  BY <1>1 DEF RankingScenes
<1>3. PICK first : first = Scene(1, 0, IntroSeconds, HookCharacters, 0)
  OBVIOUS
<1>4. PICK last : last = Scene(n + 2, OutroStart(sources), OutroSeconds, OutroCharacters, 0)
  OBVIOUS
<1>5. PICK scenes : scenes = Scenes(sources)
  OBVIOUS
<1>6. scenes = <<first>> \o middle \o <<last>>
  BY <1>1, <1>3, <1>4, <1>5 DEF Scenes
<1>7. PICK A : A = {first, last} \cup {middle[i] : i \in 1..n}
  OBVIOUS
<1>8. middle \in Seq(A) /\ Len(middle) = n
  <2>1. \A i \in 1..n : middle[i] \in A
    BY <1>7
  <2>2. DOMAIN middle = 1..n /\ middle = [i \in 1..n |-> middle[i]]
    BY <1>2
  <2> QED
    BY <2>1, <2>2, SMTT(30)
<1>9. /\ Len(scenes) = n + 2 /\ DOMAIN scenes = 1..(n + 2)
      /\ scenes[1] = first /\ scenes[n + 2] = last
      /\ \A i \in 1..n : scenes[i + 1] = middle[i]
  <2>1. PICK f \in Seq(A), l \in Seq(A) : /\ f = <<first>> /\ Len(f) = 1 /\ f[1] = first
                                         /\ l = <<last>> /\ Len(l) = 1 /\ l[1] = last
    <3>1. \A x \in A : <<x>> \in Seq(A) /\ Len(<<x>>) = 1 /\ <<x>>[1] = x
      OBVIOUS
    <3>2. first \in A /\ last \in A
      BY <1>7
    <3> QED
      BY <3>1, <3>2, ZenonT(40)
  <2>2. PICK start : start = f \o middle
    OBVIOUS
  <2>3. /\ start \in Seq(A) /\ Len(start) = 1 + n
        /\ \A i \in 1..(1 + n) : start[i] = IF i <= 1 THEN f[i] ELSE middle[i - 1]
    BY <1>8, <2>1, <2>2, ConcatProperties
  <2>4. scenes = start \o l
    BY <1>6, <2>1, <2>2
  <2>5. /\ scenes \in Seq(A) /\ Len(scenes) = (1 + n) + 1
        /\ \A i \in 1..((1 + n) + 1) : scenes[i] = IF i <= 1 + n THEN start[i] ELSE l[i - (1 + n)]
    BY <2>1, <2>3, <2>4, ConcatProperties
  <2>6. Len(scenes) = n + 2 /\ DOMAIN scenes = 1..(n + 2)
    BY <2>5
  <2>7. scenes[n + 2] = last
    <3>1. n + 2 \in 1..((1 + n) + 1) /\ ~(n + 2 <= 1 + n) /\ (n + 2) - (1 + n) = 1
      OBVIOUS
    <3> QED
      BY <2>1, <2>5, <3>1
  <2>8. scenes[1] = first
    <3>1. 1 \in 1..((1 + n) + 1) /\ 1 <= 1 + n /\ 1 \in 1..(1 + n)
      OBVIOUS
    <3> QED
      BY <2>1, <2>3, <2>5, <3>1
  <2>9. ASSUME NEW i \in 1..n PROVE scenes[i + 1] = middle[i]
    <3>1. i + 1 \in 1..((1 + n) + 1) /\ i + 1 <= 1 + n /\ i + 1 \in 1..(1 + n) /\ ~(i + 1 <= 1)
          /\ (i + 1) - 1 = i
      OBVIOUS
    <3> QED
      BY <2>3, <2>5, <3>1
  <2> QED
    BY <2>6, <2>7, <2>8, <2>9
<1>10. /\ first.start = 0 /\ first.duration = 3 /\ first.spoken = 16
       /\ last.start = 3 + n * 5 /\ last.duration = 6 /\ last.spoken = 21
  BY <1>3, <1>4 DEF Scene, IntroSeconds, HookCharacters, OutroStart, OutroSeconds, OutroCharacters,
                    RankSceneSeconds
<1>11. \A i \in 1..n :
         /\ middle[i].start = 3 + (i - 1) * 5 /\ middle[i].duration = 5
         /\ middle[i].rank = n + 1 - i
         /\ NarrationTenths(middle[i].spoken) <= 10 * middle[i].duration
  <2> TAKE i \in 1..n
  <2>1. PICK r \in 1..n : r = n + 1 - i
    OBVIOUS
  <2>2. PICK source : source = sources[r]
    OBVIOUS
  <2>3. source.rank = r /\ source.title \in Seq(BOOLEAN) /\ source.summary \in Seq(BOOLEAN)
    BY <2>1, <2>2
  <2>4. middle[i] = Scene(i + 1, IntroSeconds + (i - 1) * RankSceneSeconds, RankSceneSeconds,
                          SpokenIn(RankNarration(source)), source.rank)
    BY <1>2, <2>1, <2>2
  <2>5. NarrationTenths(SpokenIn(RankNarration(source))) <= 10 * RankSceneSeconds
    <3>1. source.rank \in Nat
      BY <2>1, <2>3
    <3> QED
      BY <2>3, <3>1, NarrationFits
  <2>6. /\ middle[i].start = IntroSeconds + (i - 1) * RankSceneSeconds
        /\ middle[i].duration = RankSceneSeconds
        /\ middle[i].spoken = SpokenIn(RankNarration(source)) /\ middle[i].rank = source.rank
    BY <2>4 DEF Scene
  <2> QED
    BY <2>1, <2>3, <2>5, <2>6 DEF IntroSeconds, RankSceneSeconds
<1>12. TimingsValid(scenes)
  <2>1. NarrationTenths(16) <= 30 /\ NarrationTenths(21) <= 60
    BY DEF NarrationTenths, NarrationCharactersPerSecond
  <2>2. \A i \in 1..(n + 2) : i = 1 \/ i = n + 2 \/ \E j \in 1..n : i = j + 1
    <3>1. \A i \in 1..(n + 2) : i # 1 /\ i # n + 2 => i - 1 \in 1..n /\ i = (i - 1) + 1
      OBVIOUS
    <3> QED
      BY <3>1
  <2>3. ASSUME NEW i \in 1..(n + 2)
        PROVE  NarrationTenths(scenes[i].spoken) <= 10 * scenes[i].duration
    <3>1. CASE i = 1
      BY <1>9, <1>10, <2>1, <3>1
    <3>2. CASE i = n + 2
      BY <1>9, <1>10, <2>1, <3>2
    <3>3. ASSUME NEW j \in 1..n, i = j + 1
          PROVE  NarrationTenths(scenes[i].spoken) <= 10 * scenes[i].duration
      <4>1. scenes[i] = middle[j]
        BY <1>9, <3>3
      <4> QED
        BY <1>11, <4>1
    <3> QED
      BY <2>2, <3>1, <3>2, <3>3
  <2> QED
    BY <1>9, <2>3 DEF TimingsValid
<1>13. ASSUME NEW i \in 1..(n + 1)
       PROVE  scenes[i + 1].start = scenes[i].start + scenes[i].duration
  <2>1. ASSUME NEW j \in 1..n
        PROVE  scenes[j + 1].start = 3 + (j - 1) * 5 /\ scenes[j + 1].duration = 5
    <3>1. scenes[j + 1] = middle[j]
      BY <1>9
    <3> QED
      BY <1>11, <3>1
  <2>2. CASE i = 1
    <3>1. CASE n = 0
      BY <1>9, <1>10, <2>2, <3>1
    <3>2. CASE n # 0
      <4>1. 1 \in 1..n
        BY <3>2
      <4>2. scenes[1 + 1].start = 3 + (1 - 1) * 5
        BY <2>1, <4>1
      <4>3. scenes[i + 1].start = 3
        BY <2>2, <4>2
      <4> QED
        BY <1>9, <1>10, <2>2, <4>3
    <3> QED
      BY <3>1, <3>2
  <2>3. CASE i # 1
    <3>1. PICK j \in 1..n : i = j + 1
      <4>1. i - 1 \in 1..n /\ i = (i - 1) + 1
        BY <2>3
      <4> QED
        BY <4>1
    <3>2. scenes[i].start = 3 + (j - 1) * 5 /\ scenes[i].duration = 5
      BY <2>1, <3>1
    <3>3. CASE j = n
      BY <1>9, <1>10, <3>1, <3>2, <3>3
    <3>4. CASE j # n
      <4>1. j + 1 \in 1..n /\ i + 1 = (j + 1) + 1
        BY <3>1, <3>4
      <4>2. scenes[i + 1].start = 3 + ((j + 1) - 1) * 5
        BY <2>1, <4>1
      <4> QED
        BY <3>1, <3>2, <4>2
    <3> QED
      BY <3>3, <3>4
  <2> QED
    BY <2>2, <2>3
<1>14. \A i \in 1..n : scenes[i + 1].rank = n + 1 - i
  BY <1>9, <1>11
<1>15. scenes[n + 2].start + scenes[n + 2].duration = OutroStart(sources) + OutroSeconds
  BY <1>4, <1>9 DEF Scene
<1> QED
  BY <1>5, <1>12, <1>13, <1>14, <1>15

\* The package of a ranking of boards.
LEMMA BuildRenders ==
  ASSUME NEW ranking \in Seq(Boards), Len(ranking) <= TopLimit, BuildPackage(ranking, ranking)
  PROVE  PackageRenders'
<1>1. PICK n \in Nat : n = Len(ranking) /\ DOMAIN ranking = 1..n
  OBVIOUS
<1>2. \A r \in 1..n : ranking[r] \in Boards
  BY <1>1
<1>3. PICK boards : boards = [r \in 1..n |-> PackageBoard(ranking[r])]
  OBVIOUS
<1>4. Len(boards) = n
  BY <1>1, <1>3
<1>5. PICK built : /\ built \in Packages(boards)
                   /\ package' = [ranking |-> ranking,
                                  outcome |-> {p \in {built} : TimingsValid(p.scenes)}]
  BY <1>1, <1>3 DEF BuildPackage
<1>6. PICK sources : sources = [r \in 1..n |-> Source(boards[r], r)]
  OBVIOUS
<1>7. Sources(boards) = sources
  <2>1. n <= TopLimit /\ TopLimit \in Nat
    BY <1>1, FeedAssumption
  <2>2. (IF Len(boards) < TopLimit THEN Len(boards) ELSE TopLimit) = n
    BY <1>4, <2>1
  <2> QED
    BY <1>6, <2>2 DEF Sources
<1>8. /\ built.sources = sources /\ built.scenes = Scenes(sources)
      /\ built.duration = OutroStart(sources) + OutroSeconds
  BY <1>5, <1>7 DEF Packages
<1>9. DOMAIN sources = 1..n /\ Len(sources) = n
  BY <1>1, <1>6
<1>10. \A r \in 1..n : /\ sources[r].rank = r /\ sources[r].id = ranking[r]
                       /\ sources[r].title \in Seq(BOOLEAN) /\ sources[r].summary \in Seq(BOOLEAN)
  <2> TAKE r \in 1..n
  <2>1. PICK b \in Boards : b = ranking[r]
    BY <1>2
  <2>2. PICK row : row = PackageBoard(b)
    OBVIOUS
  <2>3. row.id = b /\ row.title \in Seq(BOOLEAN) /\ row.summary \in Seq(BOOLEAN)
    <3>1. TextOfTitle[b] \in Seq(BOOLEAN) /\ Summary[b] \in Seq(BOOLEAN) /\ <<>> \in Seq(BOOLEAN)
      BY FeedAssumption
    <3>2. /\ row.id = b /\ row.title = TextOfTitle[b]
          /\ row.summary = IF board[b].analysed THEN Summary[b] ELSE <<>>
      BY <2>2 DEF PackageBoard
    <3> QED
      BY <3>1, <3>2
  <2>4. sources[r] = Source(row, r)
    BY <1>3, <1>6, <2>1, <2>2
  <2>5. Clip(row.title, 100) \in Seq(BOOLEAN) /\ Clip(row.summary, 400) \in Seq(BOOLEAN)
    BY <2>3, ClipFits
  <2>6. DefaultTitle(r) \in Seq(BOOLEAN)
    <3>1. PICK d \in Nat : d = RankDigits(r)
      BY DEF RankDigits
    <3>2. PICK a \in Seq(BOOLEAN), b1 \in Seq(BOOLEAN), c \in Seq(BOOLEAN) :
            a = Spoken(3) /\ b1 = Silent(1) /\ c = Spoken(d)
      BY TextsAreTexts
    <3>3. a \o b1 \o c \o b1 \o a \in Seq(BOOLEAN)
      OBVIOUS
    <3> QED
      BY <3>1, <3>2, <3>3 DEF DefaultTitle
  <2>7. /\ sources[r].rank = r /\ sources[r].id = row.id
        /\ sources[r].title = IF row.title = <<>> THEN DefaultTitle(r) ELSE Clip(row.title, 100)
        /\ sources[r].summary = Clip(row.summary, 400)
    BY <2>4 DEF Source
  <2> QED
    BY <2>1, <2>3, <2>5, <2>6, <2>7
<1>11. /\ TimingsValid(Scenes(sources))
       /\ \A i \in 1..(n + 1) : Scenes(sources)[i + 1].start =
            Scenes(sources)[i].start + Scenes(sources)[i].duration
       /\ \A i \in 1..n : Scenes(sources)[i + 1].rank = n + 1 - i
       /\ Scenes(sources)[n + 2].start + Scenes(sources)[n + 2].duration
            = OutroStart(sources) + OutroSeconds
  BY <1>1, <1>9, <1>10, ScenesFacts
<1>12. package'.ranking = ranking /\ package'.outcome = {built}
  BY <1>5, <1>8, <1>11
<1>13. ranking = [r \in 1..n |-> ranking[r]]
  BY <1>1
<1>14. [r \in 1..n |-> built.sources[r].id] = ranking
  BY <1>8, <1>10, <1>13
<1>15. Reverse([r \in 1..n |-> r]) = [i \in 1..n |-> n + 1 - i]
  <2>1. PICK s : s = [r \in 1..n |-> r]
    OBVIOUS
  <2>2. Len(s) = n /\ \A i \in 1..n : s[(n - i) + 1] = n + 1 - i
    <3>1. \A i \in 1..n : (n - i) + 1 \in 1..n /\ (n - i) + 1 = n + 1 - i
      OBVIOUS
    <3> QED
      BY <2>1, <3>1
  <2> QED
    BY <2>1, <2>2 DEF Reverse
<1>16. [i \in 1..n |-> built.scenes[i + 1].rank] = Reverse([r \in 1..n |-> r])
  BY <1>8, <1>11, <1>15
<1> QED
  <2>1. Len(built.sources) = n
    BY <1>8, <1>9
  <2>2. \A i \in 1..(n + 1) :
          built.scenes[i + 1].start = built.scenes[i].start + built.scenes[i].duration
    BY <1>8, <1>11
  <2>3. built.duration = built.scenes[n + 2].start + built.scenes[n + 2].duration
    BY <1>8, <1>11
  <2> QED
    BY <1>12, <1>14, <1>16, <2>1, <2>2, <2>3 DEF PackageRenders

LEMMA InitRenders == Init => PackageRenders
BY DEF Init, PackageRenders

LEMMA NextRenders == Inv /\ PackageRenders /\ [Next]_vars => PackageRenders'
<1> SUFFICES ASSUME Inv, PackageRenders, [Next]_vars PROVE PackageRenders'
  OBVIOUS
<1>1. CASE package' = package
  BY <1>1 DEF PackageRenders
<1>2. CASE BuildLive
  BY <1>2, RankingTyped, BuildRenders DEF BuildLive, Inv
<1>3. CASE BuildHistorical
  BY <1>3, BuildRenders DEF BuildHistorical, DailyHistory, Inv, HistoryTyped
<1>4. CASE ClosePackage
  BY <1>4 DEF ClosePackage, PackageRenders
<1>5. CASE ~(BuildLive \/ BuildHistorical \/ ClosePackage)
  <2>1. package' = package
    BY <1>5 DEF Next, vars, Age, Analyse, Crawl, Change, OpenList, ReadPage, CloseList,
                ReadPosts, ReadBodies, CloseBriefing, RecordDay
  <2> QED
    BY <1>1, <2>1
<1> QED
  BY <1>2, <1>3, <1>4, <1>5

\* The package of a ranking is always built: the narrations fit their scenes, which abut
\* and count the ranks down.
THEOREM PackagesRender == Spec => []PackageRenders
<1>1. Inv /\ PackageRenders /\ [Next]_vars => (Inv /\ PackageRenders)'
  BY NextInv, NextRenders
<1> QED
  BY <1>1, InitInv, InitRenders, PTL DEF Spec

-----------------------------------------------------------------------------
(* Orders by keys *)

\* Tuples of numbers are ordered.
LEMMA TuplesOrdered ==
  ASSUME NEW n \in Nat
  PROVE  /\ \A k \in [1..n -> Int] : ~Precedes(k, k)
         /\ \A k, l \in [1..n -> Int] : k # l => Precedes(k, l) \/ Precedes(l, k)
         /\ \A k, l, m \in [1..n -> Int] :
              Precedes(k, l) /\ Precedes(l, m) => Precedes(k, m)
<1>1. ASSUME NEW k \in [1..n -> Int] PROVE ~Precedes(k, k)
  BY DEF Precedes
<1>2. ASSUME NEW k \in [1..n -> Int], NEW l \in [1..n -> Int], k # l
      PROVE  Precedes(k, l) \/ Precedes(l, k)
  <2> DEFINE D == {i \in 1..n : k[i] # l[i]}
  <2>1. D \in SUBSET Nat /\ D # {}
    BY <1>2
  <2>2. PICK i \in D : \A j \in D : i <= j
    <3> HIDE DEF D
    <3> QED
      BY <2>1, LeastMember
  <2>3. i \in 1..n /\ k[i] \in Int /\ l[i] \in Int /\ (k[i] < l[i] \/ l[i] < k[i])
    BY <2>2
  <2>4. \A j \in 1..(i - 1) : k[j] = l[j]
    <3> TAKE j \in 1..(i - 1)
    <3>1. j \in 1..n /\ ~(i <= j)
      BY <2>3
    <3>2. j \notin D
      BY <2>2, <3>1
    <3> QED
      BY <3>1, <3>2
  <2> QED
    BY <2>3, <2>4 DEF Precedes
<1>3. ASSUME NEW k \in [1..n -> Int], NEW l \in [1..n -> Int], NEW m \in [1..n -> Int],
             Precedes(k, l), Precedes(l, m)
      PROVE  Precedes(k, m)
  <2>1. PICK i \in 1..n : k[i] < l[i] /\ \A h \in 1..(i - 1) : k[h] = l[h]
    BY <1>3 DEF Precedes
  <2>2. PICK j \in 1..n : l[j] < m[j] /\ \A h \in 1..(j - 1) : l[h] = m[h]
    BY <1>3 DEF Precedes
  <2>3. /\ k[i] \in Int /\ l[i] \in Int /\ m[i] \in Int
        /\ k[j] \in Int /\ l[j] \in Int /\ m[j] \in Int
    OBVIOUS
  <2>4. CASE i <= j
    <3>1. \A h \in 1..(i - 1) : h \in 1..(j - 1)
      BY <2>4
    <3>2. \A h \in 1..(i - 1) : k[h] = m[h]
      BY <2>1, <2>2, <3>1
    <3>3. i = j \/ i \in 1..(j - 1)
      BY <2>4
    <3>4. k[i] < m[i]
      BY <2>1, <2>2, <2>3, <3>3
    <3> QED
      BY <3>2, <3>4 DEF Precedes
  <2>5. CASE j < i
    <3>1. (\A h \in 1..(j - 1) : h \in 1..(i - 1)) /\ j \in 1..(i - 1)
      BY <2>5
    <3>2. \A h \in 1..(j - 1) : k[h] = m[h]
      BY <2>1, <2>2, <3>1
    <3>3. k[j] < m[j]
      BY <2>1, <2>2, <3>1
    <3> QED
      BY <3>2, <3>3 DEF Precedes
  <2> QED
    BY <2>4, <2>5
<1> QED
  BY <1>1, <1>2, <1>3

\* R orders S by key.
ByKey(R, S, key) == \A x, y \in S : <<x, y>> \in R <=> Precedes(key[x], key[y])

LEMMA KeysOrder ==
  ASSUME NEW S, NEW n \in Nat, NEW key \in [S -> [1..n -> Int]],
         \A x, y \in S : key[x] = key[y] => x = y,
         NEW R, ByKey(R, S, key)
  PROVE  Orders(R, S)
<1>1. \A x \in S : key[x] \in [1..n -> Int]
  OBVIOUS
<1>2. \A x \in S : <<x, x>> \notin R
  BY <1>1, TuplesOrdered DEF ByKey
<1>3. \A x, y \in S : x # y => <<x, y>> \in R \/ <<y, x>> \in R
  BY <1>1, TuplesOrdered DEF ByKey
<1>4. \A x, y, z \in S : <<x, y>> \in R /\ <<y, z>> \in R => <<x, z>> \in R
  BY <1>1, TuplesOrdered DEF ByKey
<1> QED
  BY <1>2, <1>3, <1>4 DEF Orders

-----------------------------------------------------------------------------
(* An order of what a function maps *)

\* f maps S one to one.
MapsOnce(f, S) == S \subseteq DOMAIN f /\ \A x, y \in S : f[x] = f[y] => x = y

LEMMA ImageSize ==
  ASSUME NEW S, IsFiniteSet(S), NEW f, MapsOnce(f, S)
  PROVE  LET T == {f[x] : x \in S} IN IsFiniteSet(T) /\ Cardinality(T) = Cardinality(S)
<1> DEFINE T == {f[x] : x \in S}
           g == [x \in S |-> f[x]]
<1>1. g \in Bijection(S, T)
  BY DEF MapsOnce, Bijection, Injection, Surjection, IsInjective
<1> HIDE DEF g, T
<1>2. ExistsBijection(S, T)
  BY <1>1 DEF ExistsBijection
<1>3. IsFiniteSet(T) /\ Cardinality(T) = Cardinality(S)
  BY <1>2, FS_Bijection
<1> QED
  BY <1>3 DEF T

\* Every place is taken by the member that Ordered puts there, and by no other.
LEMMA OrderedPlaces ==
  ASSUME NEW S, IsFiniteSet(S), NEW R, Orders(R, S)
  PROVE  /\ Cardinality(S) \in Nat
         /\ DOMAIN Ordered(S, R) = 1..Cardinality(S)
         /\ \A k \in 1..Cardinality(S) :
              Ordered(S, R)[k] \in S /\ Place(Ordered(S, R)[k], S, R) = k
         /\ \A x, y \in S : Place(x, S, R) = Place(y, S, R) => x = y
<1>1. /\ Cardinality(S) \in Nat
      /\ \A x \in S : Place(x, S, R) \in 1..Cardinality(S)
      /\ \A x, y \in S : <<x, y>> \in R => Place(x, S, R) < Place(y, S, R)
  BY PlaceFacts
<1>2. \A x, y \in S : Place(x, S, R) = Place(y, S, R) => x = y
  <2> SUFFICES ASSUME NEW x \in S, NEW y \in S, Place(x, S, R) = Place(y, S, R) PROVE x = y
    OBVIOUS
  <2>1. ~(Place(x, S, R) < Place(y, S, R)) /\ ~(Place(y, S, R) < Place(x, S, R))
    BY <1>1
  <2> QED
    BY <1>1, <2>1 DEF Orders
<1>3. ASSUME NEW k \in 1..Cardinality(S) PROVE \E x \in S : Place(x, S, R) = k
  <2> DEFINE place == [x \in S |-> Place(x, S, R)]
             P == {place[x] : x \in S}
  <2>1. MapsOnce(place, S)
    BY <1>2 DEF MapsOnce
  <2>2. P \subseteq 1..Cardinality(S)
    BY <1>1
  <2> HIDE DEF place
  <2>3. IsFiniteSet(P) /\ Cardinality(P) = Cardinality(S)
    BY <2>1, ImageSize
  <2>4. IsFiniteSet(1..Cardinality(S)) /\ Cardinality(1..Cardinality(S)) = Cardinality(S)
    BY <1>1, FS_Interval
  <2> HIDE DEF P
  <2>5. P = 1..Cardinality(S)
    BY <2>2, <2>3, <2>4, FS_Subset
  <2>6. \E x \in S : place[x] = k
    BY <2>5 DEF P
  <2> QED
    BY <2>6 DEF place
<1>4. Ordered(S, R) = [k \in 1..Cardinality(S) |-> CHOOSE x \in S : Place(x, S, R) = k]
  BY DEF Ordered
<1>5. ASSUME NEW k \in 1..Cardinality(S)
      PROVE  Ordered(S, R)[k] \in S /\ Place(Ordered(S, R)[k], S, R) = k
  <2>1. Ordered(S, R)[k] = CHOOSE x \in S : Place(x, S, R) = k
    BY <1>4
  <2> QED
    BY <1>3, <2>1
<1>6. DOMAIN Ordered(S, R) = 1..Cardinality(S)
  BY <1>4
<1> QED
  BY <1>1, <1>2, <1>5, <1>6

\* f takes the order R of S to Q.
Carries(f, S, R, Q) == \A x, y \in S : <<f[x], f[y]>> \in Q <=> <<x, y>> \in R

LEMMA OrderedMaps ==
  ASSUME NEW S, IsFiniteSet(S), NEW R, Orders(R, S),
         NEW f, MapsOnce(f, S), NEW Q, Carries(f, S, R, Q),
         NEW T, T = {f[x] : x \in S}
  PROVE  Ordered(T, Q) = [k \in DOMAIN Ordered(S, R) |-> f[Ordered(S, R)[k]]]
<1>1. IsFiniteSet(T) /\ Cardinality(T) = Cardinality(S)
  BY ImageSize
<1>2. Orders(Q, T)
  <2>1. \A x \in S : <<f[x], f[x]>> \notin Q
    BY DEF Orders, Carries
  <2>2. \A x, y \in S : f[x] # f[y] => <<f[x], f[y]>> \in Q \/ <<f[y], f[x]>> \in Q
    BY DEF Orders, Carries
  <2>3. \A x, y, z \in S : <<f[x], f[y]>> \in Q /\ <<f[y], f[z]>> \in Q => <<f[x], f[z]>> \in Q
    BY DEF Orders, Carries
  <2> QED
    BY <2>1, <2>2, <2>3 DEF Orders
<1>3. ASSUME NEW x \in S PROVE f[x] \in T /\ Place(f[x], T, Q) = Place(x, S, R)
  <2> DEFINE below == {y \in S : <<y, x>> \in R}
             image == {f[y] : y \in below}
             above == {z \in T : <<z, f[x]>> \in Q}
  <2>1. below \in SUBSET S /\ IsFiniteSet(below)
    BY FS_Subset
  <2>2. MapsOnce(f, below)
    BY <2>1 DEF MapsOnce
  <2>3. image = above
    BY DEF Carries
  <2>4. Cardinality(image) = Cardinality(below)
    <3> HIDE DEF below
    <3> QED
      BY <2>1, <2>2, ImageSize
  <2>5. Cardinality(above) = Cardinality(below)
    <3> HIDE DEF below, image, above
    <3> QED
      BY <2>3, <2>4
  <2>6. Place(f[x], T, Q) = 1 + Cardinality(above) /\ Place(x, S, R) = 1 + Cardinality(below)
    BY DEF Place
  <2> HIDE DEF above, below
  <2> QED
    BY <2>5, <2>6
<1>4. PICK s, t : s = Ordered(S, R) /\ t = Ordered(T, Q)
  OBVIOUS
<1>5. /\ DOMAIN s = 1..Cardinality(S)
      /\ \A k \in 1..Cardinality(S) : s[k] \in S /\ Place(s[k], S, R) = k
  BY <1>4, OrderedPlaces
<1>6. /\ DOMAIN t = 1..Cardinality(S)
      /\ \A k \in 1..Cardinality(S) : t[k] \in T /\ Place(t[k], T, Q) = k
      /\ \A x, y \in T : Place(x, T, Q) = Place(y, T, Q) => x = y
  BY <1>1, <1>2, <1>4, OrderedPlaces, ZenonT(40)
<1>7. ASSUME NEW k \in 1..Cardinality(S) PROVE t[k] = f[s[k]]
  <2>1. s[k] \in S /\ Place(s[k], S, R) = k
    BY <1>5
  <2>2. f[s[k]] \in T /\ Place(f[s[k]], T, Q) = k
    BY <1>3, <2>1
  <2>3. t[k] \in T /\ Place(t[k], T, Q) = k
    BY <1>6
  <2>4. Place(t[k], T, Q) = Place(f[s[k]], T, Q)
    BY <2>2, <2>3
  <2> QED
    BY <1>6, <2>2, <2>3, <2>4
<1>8. t = [k \in 1..Cardinality(S) |-> t[k]]
  <2> DEFINE at(k) == CHOOSE x \in T : Place(x, T, Q) = k
  <2>1. t = [k \in 1..Cardinality(S) |-> at(k)]
    BY <1>1, <1>4, Zenon DEF Ordered
  <2> HIDE DEF at
  <2> QED
    BY <2>1
<1> QED
  BY <1>4, <1>5, <1>7, <1>8

-----------------------------------------------------------------------------
(* Posts and their mentions *)

\* Posts that are one when their identities are.
Posts(P) ==
  /\ IsFiniteSet(P)
  /\ \A p \in P :
       /\ p.id \in Int /\ p.created \in Int /\ p.title.key \in Int /\ p.title.length \in Int
       /\ p.source \in {"ai", "source_excerpt", "pending"}
  /\ \A p, q \in P : p.id = q.id => p = q

\* e gives excerpts to mentions that wait for their analysis: those in X.
Enriches(e, P, X) ==
  /\ DOMAIN e = P
  /\ \A p \in P :
       /\ e[p].id = p.id /\ e[p].site = p.site /\ e[p].url = p.url
       /\ e[p].created = p.created /\ e[p].title = p.title /\ e[p].tags = p.tags
       /\ p.id \notin X => e[p] = p
       /\ p.id \in X => /\ p \in UniqueMentions(P) /\ p.source = "pending"
                        /\ e[p].source = "source_excerpt"

\* Nothing but the summary of a post depends on its source.
LEMMA SameReading ==
  ASSUME NEW P, NEW X, NEW e, Enriches(e, P, X), NEW p \in P
  PROVE  /\ EventTags(e[p]) = EventTags(p) /\ (IsSocial(e[p]) <=> IsSocial(p))
         /\ BriefingKey(e[p]) = BriefingKey(p) /\ HeadlineKey(e[p]) = HeadlineKey(p)
<1>1. /\ e[p].id = p.id /\ e[p].created = p.created /\ e[p].title = p.title
      /\ e[p].tags = p.tags
  BY DEF Enriches
<1>2. EventTags(e[p]) = EventTags(p) /\ Signals(e[p]) = Signals(p)
  BY <1>1 DEF EventTags, Signals
<1>3. IsSocial(e[p]) <=> IsSocial(p)
  BY <1>1, <1>2 DEF IsSocial
<1> QED
  BY <1>1, <1>2, <1>3 DEF BriefingKey, HeadlineKey

\* The better summary, then the newer copy, then the lower identity.
LEMMA MentionMeans ==
  ASSUME NEW p, NEW q, SummaryPriority(p) \in Int, SummaryPriority(q) \in Int,
         p.created \in Int, q.created \in Int, p.id \in Int, q.id \in Int
  PROVE  Precedes(MentionKey(p), MentionKey(q)) <=>
           \/ SummaryPriority(p) > SummaryPriority(q)
           \/ /\ SummaryPriority(p) = SummaryPriority(q)
              /\ p.created > q.created \/ (p.created = q.created /\ p.id < q.id)
<1>1. PICK k : k = MentionKey(p)
  OBVIOUS
<1>2. PICK l : l = MentionKey(q)
  OBVIOUS
<1>3. DOMAIN k = 1..3 /\ k[1] = -SummaryPriority(p) /\ k[2] = -p.created /\ k[3] = p.id
  BY <1>1 DEF MentionKey
<1>4. l[1] = -SummaryPriority(q) /\ l[2] = -q.created /\ l[3] = q.id
  BY <1>2 DEF MentionKey
<1>5. Precedes(k, l) <=>
        \/ k[1] < l[1]
        \/ k[1] = l[1] /\ k[2] < l[2]
        \/ k[1] = l[1] /\ k[2] = l[2] /\ k[3] < l[3]
  BY <1>3, ThreePrecede
<1> QED
  BY <1>1, <1>2, <1>3, <1>4, <1>5

\* How excerpts change priorities.
LEMMA Priorities ==
  ASSUME NEW P, Posts(P), NEW X, NEW e, Enriches(e, P, X), NEW p \in P
  PROVE  /\ SummaryPriority(p) \in 0..2 /\ SummaryPriority(e[p]) \in 0..2
         /\ p.id \in X => SummaryPriority(p) = 0 /\ SummaryPriority(e[p]) = 1
         /\ p.id \notin X => SummaryPriority(e[p]) = SummaryPriority(p)
<1>1. p.source \in {"ai", "source_excerpt", "pending"}
  BY DEF Posts
<1>2. SummaryPriority(p) \in 0..2
  BY <1>1 DEF SummaryPriority
<1>3. CASE p.id \in X
  <2>1. p.source = "pending" /\ e[p].source = "source_excerpt"
    BY <1>3 DEF Enriches
  <2> QED
    BY <1>3, <2>1 DEF SummaryPriority
<1>4. CASE p.id \notin X
  <2>1. e[p] = p
    BY <1>4 DEF Enriches
  <2> QED
    BY <1>2, <1>4, <2>1
<1> QED
  BY <1>3, <1>4

\* p is the mention of its source.
Mentions(p, P) ==
  \A q \in P : IsSocial(q) /\ q # p /\ q.site = p.site /\ q.url = p.url
                 => Precedes(MentionKey(p), MentionKey(q))

LEMMA MentionsAre ==
  ASSUME NEW P
  PROVE  \A p : p \in UniqueMentions(P) <=> p \in P /\ IsSocial(p) /\ Mentions(p, P)
BY DEF UniqueMentions, Mentions

\* A source has one mention.
LEMMA MentionedOnce ==
  ASSUME NEW P, Posts(P), NEW X, NEW e, Enriches(e, P, X), NEW p \in P, NEW q \in P, p # q,
         p.site = q.site, p.url = q.url, IsSocial(p), IsSocial(q)
  PROVE  ~(Mentions(p, P) /\ Mentions(q, P))
<1>1. /\ p.created \in Int /\ q.created \in Int /\ p.id \in Int /\ q.id \in Int
      /\ SummaryPriority(p) \in Int /\ SummaryPriority(q) \in Int
  BY Priorities DEF Posts
<1>2. ~(Precedes(MentionKey(p), MentionKey(q)) /\ Precedes(MentionKey(q), MentionKey(p)))
  BY <1>1, MentionMeans
<1> QED
  BY <1>2 DEF Mentions

\* An enriched post is the mention of its source if and only if the post is.
LEMMA MentionStays ==
  ASSUME NEW P, Posts(P), NEW X, NEW e, Enriches(e, P, X), NEW p \in P, IsSocial(p)
  PROVE  Mentions(e[p], {e[q] : q \in P}) <=> Mentions(p, P)
<1>1. \A q \in P : /\ q.created \in Int /\ q.id \in Int /\ e[q].created = q.created /\ e[q].id = q.id
                   /\ e[q].site = q.site /\ e[q].url = q.url
                   /\ (IsSocial(e[q]) <=> IsSocial(q))
                   /\ (q.id \in X => IsSocial(q) /\ Mentions(q, P))
  <2> TAKE q \in P
  <2>1. q.created \in Int /\ q.id \in Int
    BY DEF Posts
  <2>2. /\ e[q].created = q.created /\ e[q].id = q.id /\ e[q].site = q.site /\ e[q].url = q.url
        /\ q.id \in X => q \in UniqueMentions(P)
    BY DEF Enriches
  <2>3. IsSocial(e[q]) <=> IsSocial(q)
    BY SameReading
  <2> QED
    BY <2>1, <2>2, <2>3, MentionsAre
<1>2. \A q \in P : e[q] = e[p] <=> q = p
  BY <1>1 DEF Posts
<1>3. \A q \in P : /\ SummaryPriority(q) \in Int /\ SummaryPriority(e[q]) \in Int
                   /\ q.id \in X => SummaryPriority(q) = 0 /\ SummaryPriority(e[q]) = 1
                   /\ q.id \notin X => SummaryPriority(e[q]) = SummaryPriority(q)
                   /\ SummaryPriority(q) \in 0..2
  BY Priorities
<1>4. ASSUME NEW q \in P, q # p, IsSocial(q), q.site = p.site, q.url = p.url, Mentions(p, P)
      PROVE  Precedes(MentionKey(e[p]), MentionKey(e[q]))
  <2>1. q.id \notin X
    BY <1>1, <1>4, MentionedOnce
  <2>2. Precedes(MentionKey(p), MentionKey(q))
    BY <1>4 DEF Mentions
  <2>3. \/ SummaryPriority(p) > SummaryPriority(q)
        \/ /\ SummaryPriority(p) = SummaryPriority(q)
           /\ p.created > q.created \/ (p.created = q.created /\ p.id < q.id)
    BY <1>1, <1>3, <2>2, MentionMeans
  <2>4. SummaryPriority(e[q]) = SummaryPriority(q) /\ SummaryPriority(e[p]) >= SummaryPriority(p)
    BY <1>3, <2>1
  <2>5. \/ SummaryPriority(e[p]) > SummaryPriority(e[q])
        \/ /\ SummaryPriority(e[p]) = SummaryPriority(e[q])
           /\ p.created > q.created \/ (p.created = q.created /\ p.id < q.id)
    BY <1>1, <1>3, <2>3, <2>4
  <2>6. e[p].created = p.created /\ e[q].created = q.created /\ e[p].id = p.id /\ e[q].id = q.id
    BY <1>1
  <2>7. /\ SummaryPriority(e[p]) \in Int /\ SummaryPriority(e[q]) \in Int
        /\ p.created \in Int /\ q.created \in Int /\ p.id \in Int /\ q.id \in Int
    BY <1>1, <1>3
  <2> QED
    BY <2>5, <2>6, <2>7, MentionMeans
<1>5. ASSUME NEW q \in P, q # p, IsSocial(q), q.site = p.site, q.url = p.url,
             ~Precedes(MentionKey(p), MentionKey(q))
      PROVE  ~Precedes(MentionKey(e[p]), MentionKey(e[q]))
  <2>1. p.id \notin X
    BY <1>1, <1>5 DEF Mentions
  <2>3. ~(\/ SummaryPriority(p) > SummaryPriority(q)
          \/ /\ SummaryPriority(p) = SummaryPriority(q)
             /\ p.created > q.created \/ (p.created = q.created /\ p.id < q.id))
    BY <1>1, <1>3, <1>5, MentionMeans
  <2>4. SummaryPriority(e[p]) = SummaryPriority(p) /\ SummaryPriority(e[q]) >= SummaryPriority(q)
    BY <1>3, <2>1
  <2>5. ~(\/ SummaryPriority(e[p]) > SummaryPriority(e[q])
          \/ /\ SummaryPriority(e[p]) = SummaryPriority(e[q])
             /\ p.created > q.created \/ (p.created = q.created /\ p.id < q.id))
    BY <1>1, <1>3, <2>3, <2>4
  <2>6. e[p].created = p.created /\ e[q].created = q.created /\ e[p].id = p.id /\ e[q].id = q.id
    BY <1>1
  <2>7. /\ SummaryPriority(e[p]) \in Int /\ SummaryPriority(e[q]) \in Int
        /\ p.created \in Int /\ q.created \in Int /\ p.id \in Int /\ q.id \in Int
    BY <1>1, <1>3
  <2> QED
    BY <2>5, <2>6, <2>7, MentionMeans
<1>6. ASSUME Mentions(p, P) PROVE Mentions(e[p], {e[q] : q \in P})
  <2> SUFFICES ASSUME NEW q \in P, IsSocial(e[q]), e[q] # e[p],
                      e[q].site = e[p].site, e[q].url = e[p].url
               PROVE  Precedes(MentionKey(e[p]), MentionKey(e[q]))
    BY DEF Mentions
  <2> QED
    BY <1>1, <1>4, <1>6
<1>7. ASSUME Mentions(e[p], {e[q] : q \in P}) PROVE Mentions(p, P)
  <2> SUFFICES ASSUME NEW q \in P, IsSocial(q), q # p, q.site = p.site, q.url = p.url
               PROVE  Precedes(MentionKey(p), MentionKey(q))
    BY DEF Mentions
  <2>1. Precedes(MentionKey(e[p]), MentionKey(e[q]))
    BY <1>1, <1>2, <1>7 DEF Mentions
  <2> QED
    BY <1>5, <2>1
<1> QED
  BY <1>6, <1>7

\* Excerpts change no choice of a mention.
LEMMA MentionsStay ==
  ASSUME NEW P, Posts(P), NEW X, NEW e, Enriches(e, P, X)
  PROVE  UniqueMentions({e[p] : p \in P}) = {e[p] : p \in UniqueMentions(P)}
<1> DEFINE Q == {e[p] : p \in P}
<1>1. ASSUME NEW p \in P PROVE e[p] \in UniqueMentions(Q) <=> p \in UniqueMentions(P)
  <2>1. IsSocial(e[p]) <=> IsSocial(p)
    BY SameReading
  <2>2. IsSocial(p) => (Mentions(e[p], Q) <=> Mentions(p, P))
    BY MentionStays
  <2>3. e[p] \in Q
    OBVIOUS
  <2> HIDE DEF Q
  <2> QED
    BY <2>1, <2>2, <2>3, MentionsAre
<1>2. UniqueMentions(Q) \subseteq Q /\ UniqueMentions(P) \subseteq P
  BY MentionsAre
<1> QED
  BY <1>1, <1>2

-----------------------------------------------------------------------------
(* Candidates and headlines *)

\* The pairs in the order of their grouping, and in that of their headlines.
BriefingPairs(S) == {p \in S \X S : Precedes(BriefingKey(p[1]), BriefingKey(p[2]))}
HeadlinePairs(S) == {p \in S \X S : Precedes(HeadlineKey(p[1]), HeadlineKey(p[2]))}

LEMMA PostsOrder ==
  ASSUME NEW P, Posts(P), NEW S \in SUBSET P
  PROVE  IsFiniteSet(S) /\ Orders(BriefingPairs(S), S) /\ Orders(HeadlinePairs(S), S)
<1>1. IsFiniteSet(S)
  BY FS_Subset DEF Posts
<1>2. \A p \in S : p.id \in Int /\ p.title.key \in Int /\ p.title.length \in Int
  BY DEF Posts
<1>3. \A p, q \in S : p.id = q.id => p = q
  BY DEF Posts
<1>4. Orders(BriefingPairs(S), S)
  <2> DEFINE key == [p \in S |-> BriefingKey(p)]
  <2>1. ASSUME NEW p \in S PROVE key[p] \in [1..4 -> Int] /\ key[p][4] = p.id
    <3>1. PICK k : k = key[p]
      OBVIOUS
    <3>2. k \in [1..4 -> Int] /\ k[4] = p.id
      BY <1>2, <3>1 DEF BriefingKey
    <3> QED
      BY <3>1, <3>2, Zenon
  <2>2. key \in [S -> [1..4 -> Int]]
    BY <2>1
  <2>3. \A p, q \in S : key[p] = key[q] => p = q
    <3> HIDE DEF key
    <3> QED
      BY <1>3, <2>1
  <2>4. ByKey(BriefingPairs(S), S, key)
    BY DEF ByKey, BriefingPairs
  <2> HIDE DEF key
  <2> QED
    BY <2>2, <2>3, <2>4, KeysOrder
<1>5. Orders(HeadlinePairs(S), S)
  <2> DEFINE key == [p \in S |-> HeadlineKey(p)]
  <2>1. ASSUME NEW p \in S PROVE key[p] \in [1..3 -> Int] /\ key[p][3] = p.id
    <3>1. PICK k : k = key[p]
      OBVIOUS
    <3>2. k \in [1..3 -> Int] /\ k[3] = p.id
      BY <1>2, <3>1 DEF HeadlineKey
    <3> QED
      BY <3>1, <3>2, Zenon
  <2>2. key \in [S -> [1..3 -> Int]]
    BY <2>1
  <2>3. \A p, q \in S : key[p] = key[q] => p = q
    <3> HIDE DEF key
    <3> QED
      BY <1>3, <2>1
  <2>4. ByKey(HeadlinePairs(S), S, key)
    BY DEF ByKey, HeadlinePairs
  <2> HIDE DEF key
  <2> QED
    BY <2>2, <2>3, <2>4, KeysOrder
<1> QED
  BY <1>1, <1>4, <1>5

\* Excerpts change no order.
LEMMA OrdersStay ==
  ASSUME NEW P, Posts(P), NEW X, NEW e, Enriches(e, P, X), NEW S \in SUBSET P,
         NEW T, T = {e[p] : p \in S}
  PROVE  /\ Ordered(T, BriefingPairs(T))
              = [k \in DOMAIN Ordered(S, BriefingPairs(S)) |-> e[Ordered(S, BriefingPairs(S))[k]]]
         /\ Ordered(T, HeadlinePairs(T))
              = [k \in DOMAIN Ordered(S, HeadlinePairs(S)) |-> e[Ordered(S, HeadlinePairs(S))[k]]]
<1>1. MapsOnce(e, S)
  <2>1. S \subseteq DOMAIN e
    BY DEF Enriches
  <2>2. \A p, q \in S : e[p] = e[q] => p.id = q.id
    BY DEF Enriches
  <2> QED
    BY <2>1, <2>2 DEF MapsOnce, Posts
<1>2. \A p \in S : /\ BriefingKey(e[p]) = BriefingKey(p) /\ HeadlineKey(e[p]) = HeadlineKey(p)
                   /\ e[p] \in T
  BY SameReading
<1>3. Carries(e, S, BriefingPairs(S), BriefingPairs(T))
  BY <1>2 DEF Carries, BriefingPairs
<1>4. Carries(e, S, HeadlinePairs(S), HeadlinePairs(T))
  BY <1>2 DEF Carries, HeadlinePairs
<1> QED
  BY <1>1, <1>3, <1>4, PostsOrder, OrderedMaps

\* The candidates are the mentions, each once, and those of enriched posts are they,
\* enriched, in the same order.
LEMMA MentionOrderStays ==
  ASSUME NEW P, Posts(P), NEW X, NEW e, Enriches(e, P, X)
  PROVE  /\ OrderedMentions(P) \in Seq(P)
         /\ \A i \in 1..Len(OrderedMentions(P)) : OrderedMentions(P)[i] \in UniqueMentions(P)
         /\ \A i, j \in 1..Len(OrderedMentions(P)) :
              OrderedMentions(P)[i] = OrderedMentions(P)[j] => i = j
         /\ OrderedMentions({e[p] : p \in P})
              = [k \in 1..Len(OrderedMentions(P)) |-> e[OrderedMentions(P)[k]]]
<1> DEFINE S == UniqueMentions(P)
           c == OrderedMentions(P)
<1>1. S \in SUBSET P
  BY MentionsAre
<1>2. c = Ordered(S, BriefingPairs(S))
  BY DEF OrderedMentions, BriefingPairs
<1>3. Lists(c, S)
  BY <1>1, <1>2, PostsOrder, OrderedFacts
<1>4. /\ c \in Seq(S) /\ DOMAIN c = 1..Len(c) /\ \A i \in 1..Len(c) : c[i] \in S
      /\ \A i, j \in 1..Len(c) : c[i] = c[j] => i = j
  BY <1>3, ListsFacts
<1>5. OrderedMentions({e[p] : p \in P}) = [k \in DOMAIN c |-> e[c[k]]]
  <2> DEFINE T == {e[p] : p \in S}
           Q == {e[p] : p \in P}
  <2>1. OrderedMentions(Q) = Ordered(UniqueMentions(Q), BriefingPairs(UniqueMentions(Q)))
    BY DEF OrderedMentions, BriefingPairs
  <2>2. UniqueMentions(Q) = T
    BY MentionsStay
  <2> HIDE DEF c, Q
  <2>3. OrderedMentions(Q) = Ordered(T, BriefingPairs(T))
    BY <2>1, <2>2
  <2> QED
    BY <1>1, <1>2, <2>3, OrdersStay DEF Q
<1>6. c \in Seq(P)
  BY <1>1, <1>4
<1> QED
  BY <1>4, <1>5, <1>6

-----------------------------------------------------------------------------
(* Groups *)

\* Groups of posts of P, none of them empty, no post in two of them.
Occurs(p, group) == \E i \in 1..Len(group) : group[i] = p
GroupsOf(groups, P) ==
  /\ groups \in Seq(Seq(P))
  /\ \A g \in 1..Len(groups) : groups[g] # <<>>
  /\ \A g, h \in 1..Len(groups) : \A p \in P :
       Occurs(p, groups[g]) /\ Occurs(p, groups[h]) => g = h

Mapped(e, group) == [i \in 1..Len(group) |-> e[group[i]]]
AllMapped(e, groups) == [g \in 1..Len(groups) |-> Mapped(e, groups[g])]

Image(e, S) == {e[p] : p \in S}

LEMMA MappedFacts ==
  ASSUME NEW P, NEW e, DOMAIN e = P, NEW group \in Seq(P)
  PROVE  /\ Len(Mapped(e, group)) = Len(group) /\ Mapped(e, group) \in Seq(Image(e, P))
         /\ DOMAIN Mapped(e, group) = 1..Len(group)
         /\ \A i \in 1..Len(group) : group[i] \in P /\ Mapped(e, group)[i] = e[group[i]]
         /\ ToSet(Mapped(e, group)) = Image(e, ToSet(group))
         /\ ToSet(group) \subseteq P
<1>1. Len(group) \in Nat /\ DOMAIN group = 1..Len(group) /\ \A i \in 1..Len(group) : group[i] \in P
  OBVIOUS
<1>2. /\ Mapped(e, group) \in Seq(Image(e, P)) /\ Len(Mapped(e, group)) = Len(group)
      /\ DOMAIN Mapped(e, group) = 1..Len(group)
      /\ \A i \in 1..Len(group) : Mapped(e, group)[i] = e[group[i]]
  BY <1>1 DEF Mapped, Image
<1>3. ToSet(Mapped(e, group)) = Image(e, ToSet(group))
  BY <1>1, <1>2 DEF ToSet, Image
<1>4. ToSet(group) \subseteq P
  BY <1>1 DEF ToSet
<1> QED
  BY <1>1, <1>2, <1>3, <1>4

LEMMA MappedMore ==
  ASSUME NEW P, NEW e, DOMAIN e = P, NEW group \in Seq(P), NEW p \in P
  PROVE  Mapped(e, Append(group, p)) = Append(Mapped(e, group), e[p])
<1> DEFINE n == Len(group)
           a == Append(group, p)
           m == Mapped(e, group)
           b == Append(m, e[p])
<1>1. /\ n \in Nat /\ a \in Seq(P) /\ Len(a) = n + 1 /\ a[n + 1] = p
      /\ \A i \in 1..n : a[i] = group[i]
  OBVIOUS
<1>2. m \in Seq(Image(e, P)) /\ Len(m) = n /\ \A i \in 1..n : m[i] = e[group[i]]
  BY MappedFacts
<1>2a. e[p] \in Image(e, P)
  BY DEF Image
<1> HIDE DEF m
<1>3. /\ b = [i \in 1..(n + 1) |-> b[i]] /\ b[n + 1] = e[p]
      /\ \A i \in 1..n : b[i] = m[i]
  BY <1>1, <1>2, <1>2a
<1> HIDE DEF a, b, n
<1>4. Mapped(e, a) = [i \in 1..(n + 1) |-> e[a[i]]]
  BY <1>1 DEF Mapped
<1>5. ASSUME NEW i \in 1..(n + 1) PROVE e[a[i]] = b[i]
  <2>1. i \in 1..n \/ i = n + 1
    BY <1>1
  <2> QED
    BY <1>1, <1>2, <1>3, <2>1
<1>6. Mapped(e, a) = b
  BY <1>3, <1>4, <1>5
<1> QED
  BY <1>6 DEF a, b, m

\* Excerpts change neither the titles of a group nor their order.
LEMMA TitleGroupStays ==
  ASSUME NEW P, NEW X, NEW e, Enriches(e, P, X), NEW groups, GroupsOf(groups, P), NEW p \in P
  PROVE  TitleGroup(AllMapped(e, groups), e[p]) = TitleGroup(groups, p)
<1>1. DOMAIN e = P /\ e[p].title = p.title
  BY DEF Enriches
<1>2. PICK n \in Nat : n = Len(groups)
  BY DEF GroupsOf
<1>3. PICK mapped : mapped = AllMapped(e, groups)
  OBVIOUS
<1>4. /\ DOMAIN groups = 1..n /\ DOMAIN mapped = 1..n
      /\ \A g \in 1..n : groups[g] \in Seq(P) /\ mapped[g] = Mapped(e, groups[g])
  BY <1>2, <1>3 DEF GroupsOf, AllMapped
<1>5. \A g \in 1..n : ToSet(mapped[g]) = Image(e, ToSet(groups[g])) /\ ToSet(groups[g]) \subseteq P
  BY <1>1, <1>4, MappedFacts
<1>6. \A q \in P : e[q].title = q.title /\ BriefingKey(e[q]) = BriefingKey(q)
  BY SameReading DEF Enriches
<1> DEFINE First(q) == \A h \in 1..n : \A r \in ToSet(groups[h]) :
                         r.title.key = p.title.key => ~Precedes(BriefingKey(r), BriefingKey(q))
           MappedFirst(q) == \A h \in 1..n : \A r \in ToSet(mapped[h]) :
                         r.title.key = p.title.key => ~Precedes(BriefingKey(r), BriefingKey(q))
<1>7. ASSUME NEW q \in P PROVE MappedFirst(e[q]) <=> First(q)
  <2>1. ASSUME NEW h \in 1..n
        PROVE  (\A r \in ToSet(mapped[h]) :
                  r.title.key = p.title.key => ~Precedes(BriefingKey(r), BriefingKey(e[q])))
               <=> \A r \in ToSet(groups[h]) :
                     r.title.key = p.title.key => ~Precedes(BriefingKey(r), BriefingKey(q))
    <3>1. BriefingKey(e[q]) = BriefingKey(q)
      BY <1>6
    <3>2. \A r \in ToSet(groups[h]) : e[r].title = r.title /\ BriefingKey(e[r]) = BriefingKey(r)
      BY <1>5, <1>6
    <3>3. ToSet(mapped[h]) = {e[r] : r \in ToSet(groups[h])}
      BY <1>5 DEF Image
    <3>4. \A r \in ToSet(groups[h]) :
            (e[r].title.key = p.title.key => ~Precedes(BriefingKey(e[r]), BriefingKey(e[q])))
            <=> (r.title.key = p.title.key => ~Precedes(BriefingKey(r), BriefingKey(q)))
      BY <3>1, <3>2
    <3> QED
      BY <3>3, <3>4, Zenon
  <2> QED
    BY <2>1
<1>8. TitleGroup(groups, p)
        = {g \in 1..n : \E q \in ToSet(groups[g]) : q.title.key = p.title.key /\ First(q)}
  BY <1>4, Zenon DEF TitleGroup
<1>9. TitleGroup(mapped, e[p])
        = {g \in 1..n : \E q \in ToSet(mapped[g]) : q.title.key = p.title.key /\ MappedFirst(q)}
  BY <1>1, <1>4, Zenon DEF TitleGroup
<1> HIDE DEF First, MappedFirst
<1>10. ASSUME NEW g \in 1..n
       PROVE  (\E q \in ToSet(mapped[g]) : q.title.key = p.title.key /\ MappedFirst(q))
              <=> \E q \in ToSet(groups[g]) : q.title.key = p.title.key /\ First(q)
  <2>1. \A q \in ToSet(groups[g]) : e[q].title = q.title /\ (MappedFirst(e[q]) <=> First(q))
    BY <1>5, <1>6, <1>7
  <2>2. ToSet(mapped[g]) = {e[q] : q \in ToSet(groups[g])}
    BY <1>5 DEF Image
  <2> QED
    BY <2>1, <2>2, Zenon
<1> QED
  BY <1>3, <1>8, <1>9, <1>10

\* Excerpts change no match.
LEMMA MatchStays ==
  ASSUME NEW P, NEW X, NEW e, Enriches(e, P, X), NEW groups, GroupsOf(groups, P),
         NEW p \in P, NEW g \in 1..Len(groups)
  PROVE  Match(e[p], AllMapped(e, groups), g) = Match(p, groups, g)
<1>1. PICK mapped : mapped = AllMapped(e, groups)
  OBVIOUS
<1>2. PICK before : before = groups[g][1]
  OBVIOUS
<1>3. groups[g] \in Seq(P) /\ groups[g] # <<>>
  BY DEF GroupsOf
<1>4. before \in P
  BY <1>2, <1>3
<1>5. mapped[g][1] = e[before]
  <2>1. mapped[g] = Mapped(e, groups[g])
    BY <1>1 DEF AllMapped
  <2>2. 1 \in 1..Len(groups[g])
    BY <1>3
  <2> QED
    BY <1>2, <2>1, <2>2 DEF Mapped
<1>6. PICK first : first = e[before]
  OBVIOUS
<1>7. /\ first.title = before.title /\ EventTags(first) = EventTags(before)
      /\ e[p].title = p.title /\ EventTags(e[p]) = EventTags(p)
  <2>1. first.title = before.title /\ e[p].title = p.title
    BY <1>4, <1>6 DEF Enriches
  <2>2. EventTags(first) = EventTags(before) /\ EventTags(e[p]) = EventTags(p)
    BY <1>4, <1>6, SameReading
  <2> QED
    BY <2>1, <2>2
<1>8. TitleGroup(mapped, e[p]) = TitleGroup(groups, p)
  BY <1>1, TitleGroupStays
<1>9. mapped[g][1] = first /\ groups[g][1] = before
  BY <1>2, <1>5, <1>6
<1> QED
  BY <1>1, <1>7, <1>8, <1>9 DEF Match

\* The groups that a post matches, and the first of the best of them.
Matching(p, groups) == {g \in DOMAIN groups : Match(p, groups, g)[1] > 0}
Best(p, groups) ==
  {g \in Matching(p, groups) : \A h \in Matching(p, groups) :
     /\ ~Better(Match(p, groups, h), Match(p, groups, g))
     /\ h < g => Better(Match(p, groups, g), Match(p, groups, h))}

LEMMA PlacedIs ==
  ASSUME NEW groups, NEW p
  PROVE  Placed(groups, p) =
           IF Matching(p, groups) = {} THEN Append(groups, <<p>>)
           ELSE [g \in DOMAIN groups |->
                   IF g \in Best(p, groups) THEN Append(groups[g], p) ELSE groups[g]]
BY DEF Placed, Matching, Best

\* There is one best group at most.
LEMMA OneBest ==
  ASSUME NEW groups, NEW n \in Nat, DOMAIN groups = 1..n, NEW p,
         NEW g \in Best(p, groups), NEW h \in Best(p, groups)
  PROVE  g \in 1..n /\ h \in 1..n /\ g = h
<1>1. g \in 1..n /\ h \in 1..n
  BY DEF Best, Matching
<1>2. ~(g < h) /\ ~(h < g)
  BY Zenon DEF Best
<1> QED
  BY <1>1, <1>2

\* A post is placed among enriched groups as it is among the groups.
LEMMA PlacedStays ==
  ASSUME NEW P, NEW X, NEW e, Enriches(e, P, X), NEW groups, GroupsOf(groups, P), NEW p \in P
  PROVE  Placed(AllMapped(e, groups), e[p]) = AllMapped(e, Placed(groups, p))
<1> DEFINE n == Len(groups)
           mapped == AllMapped(e, groups)
           after == Placed(groups, p)
<1>1. /\ groups \in Seq(Seq(P)) /\ n \in Nat /\ DOMAIN groups = 1..n
      /\ \A g \in 1..n : groups[g] \in Seq(P) /\ groups[g] # <<>>
  BY DEF GroupsOf
<1>2. DOMAIN mapped = 1..n /\ \A g \in 1..n : mapped[g] = Mapped(e, groups[g])
  BY <1>1 DEF AllMapped
<1>3. DOMAIN e = P
  BY DEF Enriches
<1> HIDE DEF mapped, n
<1>4. \A g \in 1..n : Match(e[p], mapped, g) = Match(p, groups, g)
  BY MatchStays DEF mapped, n
<1>5. Matching(e[p], mapped) = Matching(p, groups)
  BY <1>1, <1>2, <1>4 DEF Matching
<1>6. Best(e[p], mapped) = Best(p, groups)
  <2>1. Matching(p, groups) \subseteq 1..n
    BY <1>1 DEF Matching
  <2> QED
    BY <1>4, <1>5, <2>1 DEF Best
<1>7. CASE Matching(p, groups) = {}
  <2>1. after = Append(groups, <<p>>) /\ Placed(mapped, e[p]) = Append(mapped, <<e[p]>>)
    BY <1>5, <1>7, PlacedIs
  <2>2. Len(after) = n + 1 /\ after[n + 1] = <<p>> /\ \A g \in 1..n : after[g] = groups[g]
    BY <1>1, <2>1 DEF n
  <2>3. mapped \in Seq({mapped[g] : g \in 1..n}) /\ Len(mapped) = n
    BY <1>1, <1>2 DEF mapped, AllMapped, n
  <2> DEFINE b == Append(mapped, <<e[p]>>)
  <2>4. /\ b = [g \in 1..(n + 1) |-> b[g]] /\ b[n + 1] = <<e[p]>>
        /\ \A g \in 1..n : b[g] = mapped[g]
    BY <1>1, <2>3
  <2> HIDE DEF b, after
  <2>5. Mapped(e, <<p>>) = <<e[p]>>
    BY DEF Mapped
  <2>6. ASSUME NEW g \in 1..(n + 1) PROVE b[g] = Mapped(e, after[g])
    <3>1. g \in 1..n \/ g = n + 1
      BY <1>1
    <3> QED
      BY <1>2, <2>2, <2>4, <2>5, <3>1
  <2>7. AllMapped(e, after) = [g \in 1..(n + 1) |-> Mapped(e, after[g])]
    BY <2>2 DEF AllMapped
  <2>8. AllMapped(e, after) = b
    BY <2>4, <2>6, <2>7
  <2> QED
    BY <2>1, <2>8 DEF b, after, mapped
<1>8. CASE Matching(p, groups) # {}
  <2> DEFINE best == Best(p, groups)
  <2>1. /\ after = [g \in 1..n |-> IF g \in best THEN Append(groups[g], p) ELSE groups[g]]
        /\ Placed(mapped, e[p])
             = [g \in 1..n |-> IF g \in best THEN Append(mapped[g], e[p]) ELSE mapped[g]]
    BY <1>1, <1>2, <1>5, <1>6, <1>8, PlacedIs
  <2>2. ASSUME NEW g \in 1..n
        PROVE  Mapped(e, after[g]) = IF g \in best THEN Append(mapped[g], e[p]) ELSE mapped[g]
    <3>1. after[g] = IF g \in best THEN Append(groups[g], p) ELSE groups[g]
      BY <2>1
    <3>2. Mapped(e, Append(groups[g], p)) = Append(mapped[g], e[p])
      BY <1>1, <1>2, <1>3, MappedMore
    <3>3. Mapped(e, groups[g]) = mapped[g]
      BY <1>2
    <3> HIDE DEF after, best
    <3> QED
      BY <3>1, <3>2, <3>3
  <2>3. Len(after) = n
    BY <1>1, <2>1
  <2>4. AllMapped(e, after) = [g \in 1..n |-> Mapped(e, after[g])]
    BY <2>3, Zenon DEF AllMapped
  <2> HIDE DEF after, best
  <2>5. AllMapped(e, after)
          = [g \in 1..n |-> IF g \in best THEN Append(mapped[g], e[p]) ELSE mapped[g]]
    BY <2>2, <2>4
  <2> QED
    BY <2>1, <2>5 DEF after, mapped
<1> QED
  BY <1>7, <1>8

\* A post is placed once.
LEMMA PlacedGroups ==
  ASSUME NEW P, NEW groups, GroupsOf(groups, P), NEW p \in P,
         \A g \in 1..Len(groups) : ~Occurs(p, groups[g])
  PROVE  LET after == Placed(groups, p)
         IN  /\ GroupsOf(after, P)
             /\ \A g \in 1..Len(after) : \A q \in P :
                  Occurs(q, after[g]) => q = p \/ \E h \in 1..Len(groups) : Occurs(q, groups[h])
<1> DEFINE n == Len(groups)
           after == Placed(groups, p)
           best == Best(p, groups)
<1>1. /\ groups \in Seq(Seq(P)) /\ n \in Nat /\ DOMAIN groups = 1..n
      /\ \A g \in 1..n : groups[g] \in Seq(P) /\ groups[g] # <<>>
      /\ \A g, h \in 1..n : \A q \in P : Occurs(q, groups[g]) /\ Occurs(q, groups[h]) => g = h
  BY DEF GroupsOf
<1>2. <<p>> \in Seq(P) /\ <<p>> # <<>> /\ \A q \in P : Occurs(q, <<p>>) <=> q = p
  BY DEF Occurs
<1>3. ASSUME NEW g \in 1..n
      PROVE  /\ Append(groups[g], p) \in Seq(P) /\ Append(groups[g], p) # <<>>
             /\ \A q \in P : Occurs(q, Append(groups[g], p)) <=> Occurs(q, groups[g]) \/ q = p
  <2>1. PICK s \in Seq(P) : s = groups[g]
    BY <1>1
  <2>2. PICK m \in Nat : m = Len(s)
    BY <2>1
  <2>3. PICK a : a = Append(s, p)
    OBVIOUS
  <2>4. /\ a \in Seq(P) /\ Len(a) = m + 1 /\ a[m + 1] = p
        /\ \A i \in 1..m : a[i] = s[i]
    BY <2>1, <2>2, <2>3
  <2>5. \A i \in 1..(m + 1) : i \in 1..m \/ i = m + 1
    OBVIOUS
  <2>6. (\A i \in 1..m : i \in 1..(m + 1)) /\ m + 1 \in 1..(m + 1)
    OBVIOUS
  <2>7. \A q \in P : Occurs(q, a) <=> Occurs(q, s) \/ q = p
    BY <2>2, <2>4, <2>5, <2>6 DEF Occurs
  <2> QED
    BY <2>1, <2>3, <2>4, <2>7
<1> HIDE DEF n
<1>4. CASE Matching(p, groups) = {}
  <2>1. after = Append(groups, <<p>>)
    BY <1>4, PlacedIs
  <2>2. /\ after \in Seq(Seq(P)) /\ Len(after) = n + 1 /\ after[n + 1] = <<p>>
        /\ \A g \in 1..n : after[g] = groups[g]
    BY <1>1, <1>2, <2>1 DEF n
  <2> HIDE DEF after
  <2>3. \A g \in 1..(n + 1) : g \in 1..n \/ g = n + 1
    BY <1>1
  <2>4. \A g \in 1..(n + 1) : after[g] # <<>>
    BY <1>1, <1>2, <2>2, <2>3
  <2>5. \A g \in 1..(n + 1) : \A q \in P :
          Occurs(q, after[g]) <=> IF g \in 1..n THEN Occurs(q, groups[g]) ELSE q = p
    BY <1>1, <1>2, <2>2, <2>3
  <2>6. ~(n + 1 \in 1..n) /\ \A g \in 1..n : ~Occurs(p, groups[g])
    BY <1>1 DEF n
  <2>7. \A g, h \in 1..(n + 1) : \A q \in P :
          Occurs(q, after[g]) /\ Occurs(q, after[h]) => g = h
    BY <1>1, <2>3, <2>5, <2>6
  <2>8. \A g \in 1..(n + 1) : \A q \in P :
          Occurs(q, after[g]) => q = p \/ \E h \in 1..n : Occurs(q, groups[h])
    BY <2>5
  <2> QED
    BY <2>2, <2>4, <2>7, <2>8 DEF GroupsOf, after, n
<1>5. CASE Matching(p, groups) # {}
  <2>1. after = [g \in 1..n |-> IF g \in best THEN Append(groups[g], p) ELSE groups[g]]
    BY <1>1, <1>5, PlacedIs
  <2>2. Len(after) = n
    BY <1>1, <2>1
  <2> HIDE DEF best
  <2>3. \A g \in 1..n : after[g] = IF g \in best THEN Append(groups[g], p) ELSE groups[g]
    BY <2>1
  <2>4. \A g \in 1..n : after[g] \in Seq(P) /\ after[g] # <<>>
    BY <1>1, <1>3, <2>3
  <2>5. after \in Seq(Seq(P))
    BY <1>1, <2>1, <2>4
  <2>6. \A g, h \in best : g = h
    BY <1>1, OneBest DEF best
  <2> HIDE DEF after
  <2>7. \A g \in 1..n : \A q \in P :
          Occurs(q, after[g]) <=> Occurs(q, groups[g]) \/ (g \in best /\ q = p)
    BY <1>3, <2>3
  <2>8. \A g \in 1..n : ~Occurs(p, groups[g])
    BY DEF n
  <2>9. \A g, h \in 1..n : \A q \in P :
          Occurs(q, after[g]) /\ Occurs(q, after[h]) => g = h
    BY <1>1, <2>6, <2>7, <2>8
  <2>10. \A g \in 1..n : \A q \in P :
           Occurs(q, after[g]) => q = p \/ \E h \in 1..n : Occurs(q, groups[h])
    BY <2>7
  <2> QED
    BY <2>2, <2>4, <2>5, <2>9, <2>10 DEF GroupsOf, after, n
<1> QED
  BY <1>4, <1>5

\* The groups of no candidate, and of one more.
LEMMA GroupingsUnfold ==
  ASSUME NEW c, Len(c) \in Nat
  PROVE  /\ Groupings(c)[0] = <<>>
         /\ \A n \in 1..Len(c) : Groupings(c)[n] = Placed(Groupings(c)[n - 1], c[n])
<1> DEFINE size == Len(c)
           Unfolds(f, k) ==
             f = [n \in 0..k |-> IF n = 0 THEN <<>> ELSE Placed(f[n - 1], c[n])]
           Lengths == {k \in Nat : \E f : Unfolds(f, k)}
<1>1. 0 \in Lengths
  <2> DEFINE f == [n \in 0..0 |-> <<>>]
  <2>1. Unfolds(f, 0)
    OBVIOUS
  <2> QED
    BY <2>1
<1>2. ASSUME NEW m \in 1..size, m - 1 \in Lengths PROVE m \in Lengths
  <2>0. PICK k \in Nat : k = m - 1 /\ m = k + 1
    OBVIOUS
  <2>1. PICK f : Unfolds(f, k)
    BY <1>2, <2>0
  <2> DEFINE g == [n \in 0..(k + 1) |-> IF n <= k THEN f[n] ELSE Placed(f[k], c[k + 1])]
             h == [n \in 0..(k + 1) |-> IF n = 0 THEN <<>> ELSE Placed(g[n - 1], c[n])]
  <2>2. ASSUME NEW n \in 0..(k + 1) PROVE g[n] = h[n]
    <3>1. CASE n = 0
      <4>1. f[0] = <<>>
        BY <2>1
      <4> QED
        BY <3>1, <4>1
    <3>2. CASE n \in 1..k
      <4>1. f[n] = Placed(f[n - 1], c[n])
        <5>1. n \in 0..k /\ n # 0
          BY <3>2
        <5> QED
          BY <2>1, <5>1, Zenon
      <4>2. g[n] = f[n] /\ g[n - 1] = f[n - 1]
        BY <3>2
      <4> HIDE DEF g
      <4> QED
        BY <3>2, <4>1, <4>2
    <3>3. CASE n = k + 1
      <4>1. g[n] = Placed(f[k], c[k + 1]) /\ g[n - 1] = f[k]
        BY <3>3
      <4> HIDE DEF g
      <4> QED
        BY <3>3, <4>1
    <3> QED
      BY <3>1, <3>2, <3>3
  <2>3. g = h
    BY <2>2
  <2>4. Unfolds(g, k + 1)
    <3> HIDE DEF g
    <3> QED
      BY <2>3
  <2>5. \E f1 : Unfolds(f1, k + 1)
    <3> HIDE DEF g, Unfolds
    <3> QED
      BY <2>4
  <2> HIDE DEF Unfolds
  <2> QED
    BY <2>0, <2>5
<1>3. \E f : Unfolds(f, size)
  <2> HIDE DEF Lengths
  <2>1. \A n \in 0..size : n \in Lengths
    BY <1>1, <1>2, InductionUpTo
  <2>2. size \in Lengths
    BY <2>1
  <2> QED
    BY <2>2 DEF Lengths
<1>4. Groupings(c) = CHOOSE f : Unfolds(f, size)
  BY DEF Groupings
<1>5. Unfolds(Groupings(c), size)
  <2> HIDE DEF Unfolds
  <2> QED
    BY <1>3, <1>4
<1> DEFINE f == Groupings(c)
<1>6. f[0] = <<>> /\ \A n \in 1..size : f[n] = Placed(f[n - 1], c[n])
  <2> HIDE DEF f
  <2>1. Unfolds(f, size)
    BY <1>5 DEF f
  <2>2. f[0] = <<>>
    <3>1. 0 \in 0..size
      OBVIOUS
    <3> QED
      BY <2>1, <3>1, Zenon
  <2>3. ASSUME NEW n \in 1..size PROVE f[n] = Placed(f[n - 1], c[n])
    <3>1. n \in 0..size /\ n # 0
      OBVIOUS
    <3> QED
      BY <2>1, <3>1, Zenon
  <2> QED
    BY <2>2, <2>3
<1> QED
  BY <1>6

\* After n candidates, the groups are of them, and those of enriched candidates are they,
\* enriched.
Grouped(e, P, c, d, n) ==
  /\ GroupsOf(Groupings(c)[n], P)
  /\ \A g \in 1..Len(Groupings(c)[n]) : \A q \in P :
       Occurs(q, Groupings(c)[n][g]) => \E m \in 1..n : c[m] = q
  /\ Groupings(d)[n] = AllMapped(e, Groupings(c)[n])

LEMMA GroupingsStay ==
  ASSUME NEW P, NEW X, NEW e, Enriches(e, P, X), NEW c \in Seq(P),
         \A i, j \in 1..Len(c) : c[i] = c[j] => i = j,
         NEW d, d = [k \in 1..Len(c) |-> e[c[k]]]
  PROVE  Grouped(e, P, c, d, Len(c))
<1> DEFINE size == Len(c)
           S == {n \in 0..size : Grouped(e, P, c, d, n)}
<1>1. /\ size \in Nat /\ Len(d) = size
      /\ \A k \in 1..size : c[k] \in P /\ d[k] = e[c[k]]
  OBVIOUS
<1>2. /\ Groupings(c)[0] = <<>> /\ Groupings(d)[0] = <<>>
      /\ \A n \in 1..size : /\ Groupings(c)[n] = Placed(Groupings(c)[n - 1], c[n])
                            /\ Groupings(d)[n] = Placed(Groupings(d)[n - 1], d[n])
  BY <1>1, GroupingsUnfold
<1> HIDE DEF size
<1>3. 0 \in S
  <2>1. PICK s : s = Groupings(c)[0]
    OBVIOUS
  <2>2. GroupsOf(s, P) /\ Len(s) = 0
    BY <1>2, <2>1 DEF GroupsOf
  <2>3. AllMapped(e, s) = <<>>
    BY <2>2 DEF AllMapped
  <2> QED
    BY <1>1, <1>2, <2>1, <2>2, <2>3 DEF Grouped
<1>4. ASSUME NEW n \in 1..size, n - 1 \in S PROVE n \in S
  <2>1. PICK s, t : s = Groupings(c)[n - 1] /\ t = Groupings(c)[n]
    OBVIOUS
  <2>2. PICK p \in P : p = c[n]
    BY <1>1
  <2>3. /\ GroupsOf(s, P) /\ Groupings(d)[n - 1] = AllMapped(e, s)
        /\ \A g \in 1..Len(s) : \A q \in P : Occurs(q, s[g]) => \E m \in 1..(n - 1) : c[m] = q
    BY <1>4, <2>1 DEF Grouped
  <2>4. t = Placed(s, p) /\ Groupings(d)[n] = Placed(AllMapped(e, s), e[p])
    BY <1>1, <1>2, <2>1, <2>2, <2>3
  <2>5. Groupings(d)[n] = AllMapped(e, t)
    BY <2>2, <2>3, <2>4, PlacedStays
  <2>6. \A m \in 1..(n - 1) : c[m] # p
    <3> TAKE m \in 1..(n - 1)
    <3>1. m \in 1..size /\ m # n
      BY <1>1
    <3> QED
      BY <2>2, <3>1 DEF size
  <2>7. \A g \in 1..Len(s) : ~Occurs(p, s[g])
    BY <2>2, <2>3, <2>6
  <2>8. GroupsOf(t, P) /\ \A g \in 1..Len(t) : \A q \in P :
          Occurs(q, t[g]) => q = p \/ \E h \in 1..Len(s) : Occurs(q, s[h])
    BY <2>2, <2>3, <2>4, <2>7, PlacedGroups
  <2>9. (\A m \in 1..(n - 1) : m \in 1..n) /\ n \in 1..n
    BY <1>1
  <2>10. \A g \in 1..Len(t) : \A q \in P : Occurs(q, t[g]) => \E m \in 1..n : c[m] = q
    BY <2>2, <2>3, <2>8, <2>9
  <2>11. n \in 0..size
    BY <1>1
  <2> QED
    BY <2>1, <2>5, <2>8, <2>10, <2>11 DEF Grouped
<1>5. \A n \in 0..size : n \in S
  <2> HIDE DEF S
  <2> QED
    BY <1>1, <1>3, <1>4, InductionUpTo
<1>6. size \in 0..size
  BY <1>1
<1> QED
  BY <1>5, <1>6 DEF size

\* The pairs in the order of the groups.
GroupPairs(groups) ==
  {p \in (DOMAIN groups) \X (DOMAIN groups) :
     Precedes(GroupKey(groups, p[1]), GroupKey(groups, p[2]))}

\* A set of numbers has a greatest member.
LEMMA GreatestMember ==
  ASSUME NEW S \in SUBSET Int, IsFiniteSet(S), S # {}
  PROVE  \E t \in S : \A u \in S : u <= t
<1> DEFINE R == {p \in S \X S : p[2] < p[1]}
<1>1. \A x, y \in S : <<x, y>> \in R <=> y < x
  OBVIOUS
<1> HIDE DEF R
<1>2. Orders(R, S)
  BY <1>1 DEF Orders
<1>3. PICK t \in S : \A u \in S \ {t} : <<t, u>> \in R
  BY <1>2, MinimumExists
<1>4. ASSUME NEW u \in S PROVE u <= t
  <2>1. u = t \/ u < t
    BY <1>1, <1>3
  <2> QED
    BY <2>1
<1> QED
  BY <1>4

LEMMA ImageFinite ==
  ASSUME NEW S, IsFiniteSet(S), NEW f
  PROVE  IsFiniteSet(Image(f, S))
<1> DEFINE g == [x \in S |-> f[x]]
<1>1. g \in Surjection(S, Image(f, S))
  BY DEF Surjection, Image
<1> HIDE DEF g
<1> QED
  BY <1>1, FS_Surjection

\* Groups are ordered.
LEMMA GroupsOrder ==
  ASSUME NEW P, Posts(P), NEW groups, GroupsOf(groups, P)
  PROVE  /\ DOMAIN groups = 1..Len(groups) /\ Len(groups) \in Nat
         /\ IsFiniteSet(DOMAIN groups) /\ Orders(GroupPairs(groups), DOMAIN groups)
<1> DEFINE n == Len(groups)
           key == [g \in 1..n |-> GroupKey(groups, g)]
<1>1. n \in Nat /\ DOMAIN groups = 1..n /\ \A g \in 1..n : groups[g] \in Seq(P) /\ groups[g] # <<>>
  BY DEF GroupsOf
<1>2. ASSUME NEW g \in 1..n PROVE key[g] \in [1..5 -> Int] /\ key[g][5] = g
  <2>1. PICK group \in Seq(P) : group = groups[g] /\ group # <<>>
    BY <1>1
  <2>2. Len(group) \in Nat /\ group[1] \in P /\ ToSet(group) \subseteq P
    BY <2>1 DEF ToSet
  <2>3. IsFiniteSet(ToSet(group)) /\ group[1] \in ToSet(group)
    <3>1. 1 \in DOMAIN group
      BY <2>1
    <3> QED
      BY <3>1, SeqSize DEF ToSet
  <2>4. Cardinality(SitesOfGroup(group)) \in Nat
    <3> DEFINE site == [p \in ToSet(group) |-> p.site]
    <3>0. SitesOfGroup(group) = Image(site, ToSet(group))
      BY DEF SitesOfGroup, Image
    <3>1. IsFiniteSet(SitesOfGroup(group))
      BY <2>3, <3>0, ImageFinite
    <3> QED
      BY <3>1, FS_CardinalityType
  <2>5. Newest(group) \in Int
    <3> DEFINE times == {p.created : p \in ToSet(group)}
           created == [p \in ToSet(group) |-> p.created]
    <3>0. times = Image(created, ToSet(group))
      BY DEF Image
    <3>1. IsFiniteSet(times)
      BY <2>3, <3>0, ImageFinite
    <3>2. times \in SUBSET Int /\ times # {}
      BY <2>2, <2>3 DEF Posts
    <3>3. Newest(group) = CHOOSE t \in times : \A u \in times : u <= t
      BY DEF Newest
    <3> HIDE DEF times
    <3>4. \E t \in times : \A u \in times : u <= t
      BY <3>1, <3>2, GreatestMember
    <3> QED
      BY <3>2, <3>3, <3>4
  <2>6. group[1].title.key \in Int
    BY <2>2 DEF Posts
  <2>7. PICK sites, newest, title :
          /\ sites = Cardinality(SitesOfGroup(group)) /\ newest = Newest(group)
          /\ title = group[1].title.key
    OBVIOUS
  <2>8. PICK k : k = key[g]
    OBVIOUS
  <2>9. k = <<-Len(group), -sites, -newest, title, g>>
    BY <2>1, <2>7, <2>8 DEF GroupKey
  <2>10. k \in [1..5 -> Int] /\ k[5] = g
    BY <2>2, <2>4, <2>5, <2>6, <2>7, <2>9, SMTT(30)
  <2> QED
    BY <2>8, <2>10, Zenon
<1>3. key \in [1..n -> [1..5 -> Int]]
  BY <1>2
<1>4. \A g, h \in 1..n : key[g] = key[h] => g = h
  <2> HIDE DEF key
  <2> QED
    BY <1>2
<1>5. ByKey(GroupPairs(groups), 1..n, key)
  <2>1. \A g \in 1..n : key[g] = GroupKey(groups, g)
    OBVIOUS
  <2>2. \A g, h \in DOMAIN groups :
          <<g, h>> \in GroupPairs(groups) <=> Precedes(GroupKey(groups, g), GroupKey(groups, h))
    BY DEF GroupPairs
  <2> HIDE DEF key
  <2> QED
    BY <1>1, <2>1, <2>2, Zenon DEF ByKey
<1>6. IsFiniteSet(1..n)
  BY <1>1, FS_Interval
<1> HIDE DEF key
<1>7. Orders(GroupPairs(groups), 1..n)
  BY <1>3, <1>4, <1>5, KeysOrder
<1> QED
  BY <1>1, <1>6, <1>7

\* Excerpts change no key of a group.
LEMMA GroupKeyStays ==
  ASSUME NEW P, NEW X, NEW e, Enriches(e, P, X), NEW groups, GroupsOf(groups, P),
         NEW g \in 1..Len(groups)
  PROVE  GroupKey(AllMapped(e, groups), g) = GroupKey(groups, g)
<1>1. PICK group \in Seq(P) : group = groups[g] /\ group # <<>>
  BY DEF GroupsOf
<1>2. PICK mapped : mapped = AllMapped(e, groups)[g]
  OBVIOUS
<1>3. mapped = Mapped(e, group)
  BY <1>1, <1>2 DEF AllMapped
<1>4. DOMAIN e = P
  BY DEF Enriches
<1>5. /\ Len(mapped) = Len(group) /\ ToSet(mapped) = Image(e, ToSet(group))
      /\ ToSet(group) \subseteq P
      /\ \A i \in 1..Len(group) : group[i] \in P /\ mapped[i] = e[group[i]]
  BY <1>3, <1>4, MappedFacts
<1>6. 1 \in 1..Len(group)
  BY <1>1
<1>7. \A p \in P : e[p].site = p.site /\ e[p].created = p.created /\ e[p].title = p.title
  BY DEF Enriches
<1>8. mapped[1].title.key = group[1].title.key
  <2>1. group[1] \in P /\ mapped[1] = e[group[1]]
    BY <1>5, <1>6
  <2> QED
    BY <1>7, <2>1
<1>9. SitesOfGroup(mapped) = SitesOfGroup(group)
  BY <1>5, <1>7 DEF SitesOfGroup, Image
<1>10. {p.created : p \in ToSet(mapped)} = {p.created : p \in ToSet(group)}
  BY <1>5, <1>7 DEF Image
<1>11. Newest(mapped) = Newest(group)
  BY <1>10 DEF Newest
<1> QED
  BY <1>1, <1>2, <1>5, <1>8, <1>9, <1>11 DEF GroupKey

\* The groups are of mentions; those of enriched posts are they, enriched, in the same order.
LEMMA GroupsStay ==
  ASSUME NEW P, Posts(P), NEW X, NEW e, Enriches(e, P, X)
  PROVE  /\ GroupsOf(Groups(P), P)
         /\ \A g \in 1..Len(Groups(P)) : \A p \in P :
              Occurs(p, Groups(P)[g]) => p \in UniqueMentions(P)
         /\ Groups({e[p] : p \in P}) = AllMapped(e, Groups(P))
<1> DEFINE Q == {e[p] : p \in P}
<1>1. PICK c, d : c = OrderedMentions(P) /\ d = OrderedMentions(Q)
  OBVIOUS
<1>2. /\ c \in Seq(P) /\ d = [k \in 1..Len(c) |-> e[c[k]]]
      /\ \A i, j \in 1..Len(c) : c[i] = c[j] => i = j
      /\ \A i \in 1..Len(c) : c[i] \in UniqueMentions(P)
  BY <1>1, MentionOrderStays
<1> HIDE DEF Q
<1>3. PICK groups, mapped : groups = Groupings(c)[Len(c)] /\ mapped = Groupings(d)[Len(d)]
  OBVIOUS
<1>4. Len(d) = Len(c)
  BY <1>2
<1>5. Grouped(e, P, c, d, Len(c))
  BY <1>2, GroupingsStay
<1>6. /\ GroupsOf(groups, P) /\ mapped = AllMapped(e, groups)
      /\ \A g \in 1..Len(groups) : \A q \in P :
           Occurs(q, groups[g]) => \E m \in 1..Len(c) : c[m] = q
  BY <1>3, <1>4, <1>5 DEF Grouped
<1>7. PICK n \in Nat : n = Len(groups)
  BY <1>6 DEF GroupsOf
<1>8. /\ DOMAIN groups = 1..n /\ DOMAIN mapped = 1..n
      /\ IsFiniteSet(1..n) /\ Orders(GroupPairs(groups), 1..n)
      /\ \A g \in 1..n : mapped[g] = Mapped(e, groups[g])
  BY <1>6, <1>7, GroupsOrder DEF AllMapped
<1>9. \A g \in 1..n : GroupKey(mapped, g) = GroupKey(groups, g)
  BY <1>6, <1>7, GroupKeyStays
<1>10. GroupPairs(mapped) = GroupPairs(groups)
  BY <1>8, <1>9 DEF GroupPairs
<1>11. PICK order : order = Ordered(1..n, GroupPairs(groups))
  OBVIOUS
<1>12. Lists(order, 1..n) /\ Len(order) = Cardinality(1..n)
  BY <1>8, <1>11, OrderedFacts
<1>13. Cardinality(1..n) = n
  BY FS_Interval
<1>14. (\A r \in 1..n : order[r] \in 1..n) /\ \A r, s \in 1..n : order[r] = order[s] => r = s
  BY <1>12, <1>13, ListsFacts, SMTT(30)
<1>15. Groups(P) = [r \in 1..n |-> groups[order[r]]]
  BY <1>1, <1>3, <1>8, <1>11, Zenon DEF Groups, GroupPairs
<1>16. Groups(Q) = [r \in 1..n |-> mapped[order[r]]]
  <2>1. order = Ordered(DOMAIN mapped, GroupPairs(mapped))
    BY <1>8, <1>10, <1>11
  <2> QED
    BY <1>1, <1>3, <1>8, <2>1, Zenon DEF Groups, GroupPairs
<1>17. PICK sorted : sorted = Groups(P)
  OBVIOUS
<1>18. \A r \in 1..n : sorted[r] = groups[order[r]]
  BY <1>15, <1>17
<1>19. \A g \in 1..n : groups[g] \in Seq(P) /\ groups[g] # <<>>
  BY <1>6, <1>7 DEF GroupsOf
<1>20. sorted \in Seq(Seq(P)) /\ Len(sorted) = n
  BY <1>14, <1>15, <1>17, <1>19
<1>21. \A g, h \in 1..n : \A p \in P : Occurs(p, groups[g]) /\ Occurs(p, groups[h]) => g = h
  BY <1>6, <1>7 DEF GroupsOf
<1>22. GroupsOf(sorted, P)
  <2>1. \A g \in 1..n : sorted[g] # <<>>
    BY <1>14, <1>18, <1>19
  <2>2. ASSUME NEW g \in 1..n, NEW h \in 1..n, NEW p \in P,
               Occurs(p, sorted[g]), Occurs(p, sorted[h])
        PROVE  g = h
    <3>1. order[g] \in 1..n /\ order[h] \in 1..n
      BY <1>14
    <3>2. Occurs(p, groups[order[g]]) /\ Occurs(p, groups[order[h]])
      BY <1>18, <2>2
    <3>3. order[g] = order[h]
      BY <1>21, <3>1, <3>2
    <3> QED
      BY <1>14, <3>3
  <2> QED
    BY <1>20, <2>1, <2>2 DEF GroupsOf
<1>23. \A r \in 1..n : \A p \in P : Occurs(p, sorted[r]) => p \in UniqueMentions(P)
  BY <1>2, <1>6, <1>7, <1>14, <1>18
<1>24. Groups(Q) = AllMapped(e, sorted)
  <2>1. \A r \in 1..n : mapped[order[r]] = Mapped(e, sorted[r])
    BY <1>8, <1>14, <1>18
  <2> QED
    BY <1>16, <1>20, <2>1 DEF AllMapped
<1> QED
  BY <1>17, <1>20, <1>22, <1>23, <1>24 DEF Q

-----------------------------------------------------------------------------
(* Issues *)

\* The headlines of a group are its posts, each once.
LEMMA HeadlinesAre ==
  ASSUME NEW P, Posts(P), NEW group \in Seq(P), group # <<>>
  PROVE  LET ordered == Headlines(group)
         IN  /\ ToSet(group) \subseteq P
             /\ ordered = Ordered(ToSet(group), HeadlinePairs(ToSet(group)))
             /\ DOMAIN ordered = 1..Len(ordered) /\ Len(ordered) \in Nat \ {0}
             /\ \A i \in 1..Len(ordered) : ordered[i] \in ToSet(group)
<1> DEFINE S == ToSet(group)
           ordered == Headlines(group)
<1>1. S \in SUBSET P /\ S # {}
  <2>1. 1 \in DOMAIN group /\ \A i \in DOMAIN group : group[i] \in P
    OBVIOUS
  <2> QED
    BY <2>1 DEF ToSet
<1>2. ordered = Ordered(S, HeadlinePairs(S))
  BY DEF Headlines, HeadlinePairs
<1> HIDE DEF S
<1>3. Lists(ordered, S)
  BY <1>1, <1>2, PostsOrder, OrderedFacts
<1> HIDE DEF ordered
<1>4. /\ DOMAIN ordered = 1..Len(ordered) /\ Len(ordered) \in Nat
      /\ \A i \in 1..Len(ordered) : ordered[i] \in S
      /\ \A p \in S : \E i \in 1..Len(ordered) : ordered[i] = p
  BY <1>3, ListsFacts
<1>5. Len(ordered) # 0
  BY <1>1, <1>4
<1> QED
  BY <1>1, <1>2, <1>4, <1>5 DEF S, ordered

\* The places of the examples of a group among its headlines.
ExamplePlaces(ordered) ==
  LET first == {i \in DOMAIN ordered : \A j \in 1..(i - 1) : ordered[j].site # ordered[i].site}
  IN  {k \in first : Cardinality({j \in first : j < k}) < 3}

LEMMA ExamplesAre ==
  ASSUME NEW group
  PROVE  Examples(group) = {Headlines(group)[i] : i \in ExamplePlaces(Headlines(group))}
BY DEF Examples, ExamplePlaces

\* Excerpts change neither the headline nor the examples of a group.
LEMMA ExamplesStay ==
  ASSUME NEW P, Posts(P), NEW X, NEW e, Enriches(e, P, X), NEW group \in Seq(P), group # <<>>
  PROVE  LET mapped == Mapped(e, group)
         IN  /\ Representative(group) \in ToSet(group)
             /\ Representative(mapped) = e[Representative(group)]
             /\ Examples(group) \subseteq ToSet(group)
             /\ Examples(mapped) = Image(e, Examples(group))
<1> DEFINE S == ToSet(group)
           mapped == Mapped(e, group)
           T == ToSet(mapped)
<1>1. S \in SUBSET P /\ T = Image(e, S)
  <2>1. DOMAIN e = P
    BY DEF Enriches
  <2> QED
    BY <2>1, MappedFacts
<1>2. PICK h, k : h = Headlines(group) /\ k = Headlines(mapped)
  OBVIOUS
<1>3. /\ h = Ordered(S, HeadlinePairs(S)) /\ DOMAIN h = 1..Len(h) /\ Len(h) \in Nat \ {0}
      /\ \A i \in 1..Len(h) : h[i] \in S
  BY <1>2, HeadlinesAre
<1>4. k = Ordered(T, HeadlinePairs(T))
  BY <1>2 DEF Headlines, HeadlinePairs
<1> HIDE DEF S, T
<1>5. k = [i \in 1..Len(h) |-> e[h[i]]]
  <2>1. T = {e[p] : p \in S}
    BY <1>1 DEF Image
  <2> QED
    BY <1>1, <1>3, <1>4, <2>1, OrdersStay
<1>6. DOMAIN k = 1..Len(h) /\ \A i \in 1..Len(h) : k[i] = e[h[i]] /\ k[i].site = h[i].site
  <2>1. \A p \in S : e[p].site = p.site
    BY <1>1 DEF Enriches
  <2> QED
    BY <1>3, <1>5, <2>1
<1>7. 1 \in 1..Len(h)
  BY <1>3
<1>8. Representative(group) = h[1] /\ Representative(mapped) = k[1]
  BY <1>2 DEF Representative
<1>9. ExamplePlaces(k) = ExamplePlaces(h)
  <2>1. \A i \in 1..Len(h) : \A j \in 1..(i - 1) : j \in 1..Len(h)
    BY <1>3
  <2>2. \A i \in 1..Len(h) :
          (\A j \in 1..(i - 1) : k[j].site # k[i].site)
            <=> \A j \in 1..(i - 1) : h[j].site # h[i].site
    BY <1>6, <2>1
  <2>3. {i \in DOMAIN k : \A j \in 1..(i - 1) : k[j].site # k[i].site}
          = {i \in DOMAIN h : \A j \in 1..(i - 1) : h[j].site # h[i].site}
    BY <1>3, <1>6, <2>2
  <2> QED
    BY <2>3 DEF ExamplePlaces
<1>10. PICK places : places = ExamplePlaces(h)
  OBVIOUS
<1>11. places \subseteq 1..Len(h)
  BY <1>3, <1>10 DEF ExamplePlaces
<1>12. Examples(group) = {h[i] : i \in places} /\ Examples(mapped) = {k[i] : i \in places}
  BY <1>2, <1>9, <1>10, ExamplesAre
<1>13. Examples(group) \subseteq S
  BY <1>3, <1>11, <1>12
<1>14. Examples(mapped) = Image(e, Examples(group))
  BY <1>6, <1>11, <1>12 DEF Image
<1> QED
  BY <1>3, <1>6, <1>7, <1>8, <1>13, <1>14 DEF S

\* A group is pending when all its posts are.
LEMMA PendingIssue ==
  ASSUME NEW P, Posts(P), NEW group \in Seq(P), group # <<>>
  PROVE  IssueSource(group) = "pending" <=> \A p \in ToSet(group) : p.source = "pending"
<1>1. ToSet(group) \subseteq P /\ ToSet(group) # {}
  <2>1. 1 \in DOMAIN group /\ \A i \in DOMAIN group : group[i] \in P
    OBVIOUS
  <2> QED
    BY <2>1 DEF ToSet
<1>2. \A p \in ToSet(group) : p.source \in {"ai", "source_excerpt", "pending"}
  BY <1>1 DEF Posts
<1> QED
  BY <1>1, <1>2 DEF IssueSource

OnlySummary(before, after) ==
  [after EXCEPT !.source = before.source, !.summarised = before.summarised] = before

\* Excerpts change nothing of an issue but its summary; nothing at all when none is given to
\* a post of the group; and an issue with an excerpt under it has a summary.
LEMMA IssueStays ==
  ASSUME NEW P, Posts(P), NEW X, NEW e, Enriches(e, P, X), NEW group \in Seq(P), group # <<>>
  PROVE  LET before == Issue(group)
             after == Issue(Mapped(e, group))
         IN  /\ OnlySummary(before, after)
             /\ (\A p \in ToSet(group) : p.id \notin X) => after = before
             /\ after.source = "pending" => after.examples \cap X = {}
<1> DEFINE mapped == Mapped(e, group)
           before == Issue(group)
           after == Issue(mapped)
<1>0. DOMAIN e = P
  BY DEF Enriches
<1>1. /\ Len(mapped) = Len(group) /\ ToSet(mapped) = Image(e, ToSet(group))
      /\ ToSet(group) \subseteq P
      /\ DOMAIN mapped = 1..Len(group)
      /\ \A i \in 1..Len(group) : group[i] \in P /\ mapped[i] = e[group[i]]
  BY <1>0, MappedFacts
<1>2. /\ Representative(group) \in ToSet(group)
      /\ Representative(mapped) = e[Representative(group)]
      /\ Examples(group) \subseteq ToSet(group)
      /\ Examples(mapped) = Image(e, Examples(group))
  BY ExamplesStay
<1>3. \A p \in P : e[p].id = p.id /\ e[p].site = p.site
  BY DEF Enriches
<1> HIDE DEF mapped
<1>4. /\ Representative(mapped).id = Representative(group).id
      /\ SitesOfGroup(mapped) = SitesOfGroup(group)
      /\ {p.id : p \in Examples(mapped)} = {p.id : p \in Examples(group)}
  <2>1. Representative(mapped).id = Representative(group).id
    BY <1>1, <1>2, <1>3
  <2>2. SitesOfGroup(mapped) = SitesOfGroup(group)
    BY <1>1, <1>3 DEF SitesOfGroup, Image
  <2>3. {p.id : p \in Examples(mapped)} = {p.id : p \in Examples(group)}
    BY <1>1, <1>2, <1>3 DEF Image
  <2> QED
    BY <2>1, <2>2, <2>3
<1>5. OnlySummary(before, after)
  <2>1. PICK id, count, sites, examples, source, summarised, sourceBefore, summarisedBefore :
          /\ after = [id |-> id, source |-> source, count |-> count, sites |-> sites,
                      examples |-> examples, summarised |-> summarised]
          /\ before = [id |-> id, source |-> sourceBefore, count |-> count, sites |-> sites,
                       examples |-> examples, summarised |-> summarisedBefore]
    BY <1>1, <1>4, Zenon DEF Issue
  <2> HIDE DEF before, after
  <2>2. PICK b : b = [after EXCEPT !.source = before.source, !.summarised = before.summarised]
    OBVIOUS
  <2>3. b \in [id : {id}, source : {sourceBefore}, count : {count}, sites : {sites},
               examples : {examples}, summarised : {summarisedBefore}]
    BY <2>1, <2>2
  <2>4. b = before
    BY <2>1, <2>3
  <2> QED
    BY <2>2, <2>4 DEF OnlySummary
<1>6. ASSUME \A p \in ToSet(group) : p.id \notin X PROVE after = before
  <2>1. \A i \in 1..Len(group) : mapped[i] = group[i]
    <3> TAKE i \in 1..Len(group)
    <3>1. group[i] \in ToSet(group)
      BY DEF ToSet
    <3>2. e[group[i]] = group[i]
      BY <1>1, <1>6, <3>1 DEF Enriches
    <3> QED
      BY <1>1, <3>2
  <2>2. mapped = group
    BY <2>1 DEF mapped, Mapped
  <2> QED
    BY <2>2
<1>7. ASSUME after.source = "pending" PROVE after.examples \cap X = {}
  <2>1. ASSUME NEW p \in Examples(group), p.id \in X PROVE FALSE
    <3>1. p \in ToSet(group) /\ p \in P
      BY <1>1, <1>2, <2>1
    <3>2. e[p].source = "source_excerpt" /\ e[p] \in ToSet(mapped)
      BY <1>1, <2>1, <3>1 DEF Enriches, Image
    <3>3. IssueSource(mapped) # "pending"
      BY <3>2 DEF IssueSource
    <3> QED
      BY <1>7, <3>3 DEF Issue
  <2>2. after.examples = {p.id : p \in Examples(group)}
    BY <1>4 DEF Issue
  <2> HIDE DEF after
  <2> QED
    BY <2>1, <2>2
<1> QED
  BY <1>5, <1>6, <1>7 DEF mapped

-----------------------------------------------------------------------------
(* The briefing *)

LEMMA BriefingIs ==
  ASSUME NEW P, NEW groups, groups = Groups(P), Len(groups) \in Nat, NEW limit \in Nat
  PROVE  LET n == IF limit < Len(groups) THEN limit ELSE Len(groups)
         IN  /\ n \in Nat /\ n <= Len(groups)
             /\ BuildIssueBriefing(P, limit) = [r \in 1..n |-> Issue(groups[r])]
BY DEF BuildIssueBriefing

\* What the briefing of the enriched posts may change.
KeepsIssues(first, issues, excerpts) ==
  /\ Len(issues) = Len(first)
  /\ \A r \in DOMAIN issues :
       LET before == first[r]
           after == issues[r]
       IN  /\ [after EXCEPT !.source = before.source, !.summarised = before.summarised] = before
           /\ before.source = "ai" => after = before
           /\ after.source = "pending" => after.examples \cap excerpts = {}

\* Posts listed under issues without a summary wait for their analysis, are the mentions of
\* their sources, and are in no other issue: excerpts for them keep the issues.
LEMMA BriefingStays ==
  ASSUME NEW P, Posts(P), NEW limit \in Nat,
         NEW X, X \subseteq ExcerptIds(P, BuildIssueBriefing(P, limit)),
         NEW e, DOMAIN e = P,
         \A p \in P :
           /\ e[p].id = p.id /\ e[p].site = p.site /\ e[p].url = p.url
           /\ e[p].created = p.created /\ e[p].title = p.title /\ e[p].tags = p.tags
           /\ p.id \notin X => e[p] = p
           /\ p.id \in X => e[p].source = "source_excerpt"
  PROVE  KeepsIssues(BuildIssueBriefing(P, limit),
                     BuildIssueBriefing({e[p] : p \in P}, limit), X)
<1> DEFINE Q == {e[p] : p \in P}
           same == [p \in P |-> p]
<1>1. PICK groups : groups = Groups(P)
  OBVIOUS
<1>2. /\ GroupsOf(groups, P)
      /\ \A g \in 1..Len(groups) : \A p \in P : Occurs(p, groups[g]) => p \in UniqueMentions(P)
  <2>1. Enriches(same, P, {})
    BY DEF Enriches
  <2> HIDE DEF same
  <2> QED
    BY <1>1, <2>1, GroupsStay
<1>3. /\ Len(groups) \in Nat
      /\ \A g \in 1..Len(groups) : groups[g] \in Seq(P) /\ groups[g] # <<>>
      /\ \A g, h \in 1..Len(groups) : \A p \in P :
           Occurs(p, groups[g]) /\ Occurs(p, groups[h]) => g = h
  BY <1>2 DEF GroupsOf
<1>4. PICK n \in Nat : n = IF limit < Len(groups) THEN limit ELSE Len(groups)
  BY <1>3
<1>5. PICK first : first = BuildIssueBriefing(P, limit)
  OBVIOUS
<1>6. first = [r \in 1..n |-> Issue(groups[r])] /\ \A r \in 1..n : r \in 1..Len(groups)
  BY <1>1, <1>3, <1>4, <1>5, BriefingIs, SMTT(30)
<1>7. \A g \in 1..Len(groups) : \A p \in P : p \in ToSet(groups[g]) <=> Occurs(p, groups[g])
  BY <1>3 DEF ToSet, Occurs
<1>8. ASSUME NEW p \in P, p.id \in X
      PROVE  \E r \in 1..n : IssueSource(groups[r]) = "pending" /\ p \in ToSet(groups[r])
  <2>1. PICK r \in 1..n : first[r].source = "pending" /\ p.id \in first[r].examples
    BY <1>5, <1>6, <1>8 DEF ExcerptIds
  <2>2. first[r] = Issue(groups[r]) /\ groups[r] \in Seq(P) /\ groups[r] # <<>>
    BY <1>3, <1>6
  <2>3. IssueSource(groups[r]) = "pending" /\ p.id \in {q.id : q \in Examples(groups[r])}
    BY <2>1, <2>2 DEF Issue
  <2>4. PICK q \in Examples(groups[r]) : q.id = p.id
    BY <2>3
  <2>5. Examples(groups[r]) \subseteq ToSet(groups[r])
    <3>1. Enriches(same, P, {})
      BY DEF Enriches
    <3> HIDE DEF same
    <3> QED
      BY <2>2, <3>1, ExamplesStay
  <2>6. q \in P
    BY <2>2, <2>5 DEF ToSet
  <2>7. q = p
    BY <2>4, <2>6 DEF Posts
  <2> QED
    BY <2>3, <2>5, <2>7
<1>9. Enriches(e, P, X)
  <2>1. ASSUME NEW p \in P, p.id \in X PROVE p \in UniqueMentions(P) /\ p.source = "pending"
    <3>1. PICK r \in 1..n : IssueSource(groups[r]) = "pending" /\ p \in ToSet(groups[r])
      BY <1>8, <2>1
    <3>2. r \in 1..Len(groups) /\ groups[r] \in Seq(P) /\ groups[r] # <<>>
      BY <1>3, <1>6
    <3>3. p \in UniqueMentions(P)
      BY <1>2, <1>7, <3>1, <3>2
    <3>4. p.source = "pending"
      BY <3>1, <3>2, PendingIssue
    <3> QED
      BY <3>3, <3>4
  <2> QED
    BY <2>1 DEF Enriches
<1>10. PICK mapped : mapped = Groups(Q)
  OBVIOUS
<1>11. mapped = AllMapped(e, groups)
  BY <1>1, <1>9, <1>10, GroupsStay
<1>12. Len(mapped) = Len(groups) /\ \A g \in 1..Len(groups) : mapped[g] = Mapped(e, groups[g])
  BY <1>3, <1>11 DEF AllMapped
<1> HIDE DEF Q
<1>13. PICK issues : issues = BuildIssueBriefing(Q, limit)
  OBVIOUS
<1>14. issues = [r \in 1..n |-> Issue(mapped[r])]
  <2>1. Len(mapped) \in Nat
    BY <1>3, <1>12
  <2>2. issues = [r \in 1..(IF limit < Len(mapped) THEN limit ELSE Len(mapped)) |-> Issue(mapped[r])]
    BY <1>10, <1>13, <2>1, BriefingIs
  <2> QED
    BY <1>4, <1>12, <2>2
<1>15. Len(issues) = Len(first) /\ DOMAIN issues = 1..n
  BY <1>6, <1>14
<1>16. ASSUME NEW r \in 1..n
       PROVE  LET before == first[r]
                  after == issues[r]
              IN  /\ [after EXCEPT !.source = before.source, !.summarised = before.summarised]
                       = before
                  /\ before.source = "ai" => after = before
                  /\ after.source = "pending" => after.examples \cap X = {}
  <2>1. PICK group \in Seq(P) : group = groups[r] /\ group # <<>>
    BY <1>3, <1>6
  <2>2. first[r] = Issue(group) /\ issues[r] = Issue(Mapped(e, group))
    BY <1>6, <1>12, <1>14, <2>1
  <2>3. ASSUME first[r].source = "ai" PROVE \A p \in ToSet(group) : p.id \notin X
    <3> SUFFICES ASSUME NEW p \in ToSet(group), p.id \in X PROVE FALSE
      OBVIOUS
    <3>1. p \in P
      BY <2>1 DEF ToSet
    <3>2. PICK s \in 1..n : IssueSource(groups[s]) = "pending" /\ p \in ToSet(groups[s])
      BY <1>8, <3>1
    <3>3. r = s
      BY <1>3, <1>6, <1>7, <2>1, <3>1, <3>2
    <3>4. IssueSource(group) = "ai"
      BY <2>2, <2>3 DEF Issue
    <3> QED
      BY <2>1, <3>2, <3>3, <3>4
  <2>4. /\ OnlySummary(Issue(group), Issue(Mapped(e, group)))
        /\ (\A p \in ToSet(group) : p.id \notin X) => Issue(Mapped(e, group)) = Issue(group)
        /\ Issue(Mapped(e, group)).source = "pending"
             => Issue(Mapped(e, group)).examples \cap X = {}
    BY <1>9, <2>1, IssueStays
  <2> QED
    BY <2>2, <2>3, <2>4 DEF OnlySummary
<1>17. KeepsIssues(first, issues, X)
  BY <1>15, <1>16 DEF KeepsIssues
<1> QED
  BY <1>5, <1>13, <1>17 DEF Q

\* Posts as ReadPosts reads them.
PostsRead(P) ==
  /\ Posts(P)
  /\ \A p \in P : p = [id |-> p.id, site |-> p.site, url |-> p.url, created |-> p.created,
                       title |-> p.title, tags |-> p.tags, source |-> p.source]

\* Between its two transactions a request keeps posts and the briefing built from them.
BriefingInv ==
  /\ briefing = [phase |-> briefing.phase, posts |-> briefing.posts, first |-> briefing.first,
                 issues |-> briefing.issues, excerpts |-> briefing.excerpts]
  /\ briefing.phase = "grouped" =>
       /\ PostsRead(briefing.posts)
       /\ briefing.first = BuildIssueBriefing(briefing.posts, Limit)

\* Today's posts have ids, times and titles that order them.
LEMMA PostsAreRead == PostsRead({Post(b) : b \in Today})
<1> DEFINE P == {Post(b) : b \in Today}
           post == [b \in Today |-> Post(b)]
<1>1. Today \subseteq Boards /\ IsFiniteSet(Today)
  BY FeedAssumption, FS_Subset
<1>2. P = Image(post, Today)
  BY DEF Image
<1>3. IsFiniteSet(P)
  <2> HIDE DEF P, post
  <2> QED
    BY <1>1, <1>2, ImageFinite
<1>4. ASSUME NEW b \in Today
      PROVE  LET p == Post(b)
             IN  /\ p.id = b /\ b \in Int /\ p.created \in Int
                 /\ p.title.key \in Int /\ p.title.length \in Int
                 /\ p.source \in {"ai", "source_excerpt", "pending"}
                 /\ p = [id |-> p.id, site |-> p.site, url |-> p.url, created |-> p.created,
                         title |-> p.title, tags |-> p.tags, source |-> p.source]
  <2>1. /\ b \in Boards /\ b \in Int /\ Created[b] \in Int
        /\ Title[b].key \in Int /\ Title[b].length \in Int
    BY <1>1, FeedAssumption
  <2> QED
    BY <2>1 DEF Post
<1>5. \A p, q \in P : p.id = q.id => p = q
  BY <1>4
<1>6. Posts(P)
  BY <1>3, <1>4, <1>5 DEF Posts
<1> QED
  BY <1>4, <1>6 DEF PostsRead

LEMMA InitBriefing == Init => BriefingInv /\ BriefingKeepsIssues
BY DEF Init, NoBriefing, BriefingInv, BriefingKeepsIssues

\* A briefing without excerpts is what it was.
LEMMA ReadPostsKeeps ==
  ASSUME ReadPosts
  PROVE  BriefingInv' /\ BriefingKeepsIssues'
<1> DEFINE P == {Post(b) : b \in Today}
           built == BuildIssueBriefing(P, Limit)
<1>1. briefing' = [phase |-> IF ExcerptIds(P, built) = {} THEN "answered" ELSE "grouped",
                   posts |-> P, first |-> built, issues |-> built, excerpts |-> {}]
  BY DEF ReadPosts
<1>2. PostsRead(P)
  BY PostsAreRead
<1> HIDE DEF P
<1>3. BriefingInv'
  BY <1>1, <1>2 DEF BriefingInv
<1>4. KeepsIssues(built, built, {})
  <2> DEFINE e == [p \in P |-> p]
  <2>1. {e[p] : p \in P} = P
    OBVIOUS
  <2>2. /\ DOMAIN e = P
        /\ \A p \in P : e[p] = p
    OBVIOUS
  <2>3. Posts(P) /\ Limit \in Nat
    BY <1>2, FeedAssumption DEF PostsRead
  <2> HIDE DEF e
  <2>4. KeepsIssues(BuildIssueBriefing(P, Limit), BuildIssueBriefing({e[p] : p \in P}, Limit), {})
    BY <2>2, <2>3, BriefingStays
  <2> QED
    BY <2>1, <2>4
<1>5. briefing'.first = built /\ briefing'.issues = built /\ briefing'.excerpts = {}
  BY <1>1
<1> HIDE DEF built
<1>6. BriefingKeepsIssues'
  BY <1>4, <1>5 DEF BriefingKeepsIssues, KeepsIssues
<1> QED
  BY <1>3, <1>6

\* The bodies that are read are those of posts listed under issues without a summary.
LEMMA ReadBodiesKeeps ==
  ASSUME BriefingInv, ReadBodies
  PROVE  BriefingInv' /\ BriefingKeepsIssues'
<1>1. PICK P : P = briefing.posts
  OBVIOUS
<1>2. PICK built : built = BuildIssueBriefing(P, Limit)
  OBVIOUS
<1>3. PostsRead(P) /\ Posts(P) /\ briefing.first = built
  BY <1>1, <1>2 DEF BriefingInv, ReadBodies, PostsRead
<1> DEFINE X == {p.id : p \in {q \in P : q.id \in ExcerptIds(P, built)
                                          /\ HasExcerpt(board[q.id].contents, q.title)}}
           e == [p \in P |-> IF p.id \in X THEN [p EXCEPT !.source = "source_excerpt"] ELSE p]
           Q == {IF p.id \in X THEN [p EXCEPT !.source = "source_excerpt"] ELSE p : p \in P}
<1>4. briefing' = [briefing EXCEPT !.phase = "answered", !.excerpts = X,
                                   !.issues = BuildIssueBriefing(Q, Limit)]
  BY <1>1, <1>3 DEF ReadBodies
<1>5. X \subseteq ExcerptIds(P, built)
  OBVIOUS
<1> HIDE DEF X
<1>6. {e[p] : p \in P} = Q
  OBVIOUS
<1>7. ASSUME NEW p \in P
      PROVE  /\ e[p].id = p.id /\ e[p].site = p.site /\ e[p].url = p.url
             /\ e[p].created = p.created /\ e[p].title = p.title /\ e[p].tags = p.tags
             /\ p.id \notin X => e[p] = p
             /\ p.id \in X => e[p].source = "source_excerpt"
  <2>1. p = [id |-> p.id, site |-> p.site, url |-> p.url, created |-> p.created,
             title |-> p.title, tags |-> p.tags, source |-> p.source]
    BY <1>3 DEF PostsRead
  <2>2. e[p] = IF p.id \in X THEN [p EXCEPT !.source = "source_excerpt"] ELSE p
    OBVIOUS
  <2> HIDE DEF e
  <2> QED
    BY <2>1, <2>2
<1>8. DOMAIN e = P /\ Limit \in Nat
  BY FeedAssumption
<1> HIDE DEF e, Q
<1>9. KeepsIssues(built, BuildIssueBriefing(Q, Limit), X)
  BY <1>2, <1>3, <1>5, <1>6, <1>7, <1>8, BriefingStays
<1>10. briefing = [phase |-> briefing.phase, posts |-> briefing.posts, first |-> briefing.first,
                   issues |-> briefing.issues, excerpts |-> briefing.excerpts]
  BY DEF BriefingInv
<1>11. briefing' = [phase |-> "answered", posts |-> P, first |-> built,
                    issues |-> BuildIssueBriefing(Q, Limit), excerpts |-> X]
  <2>1. briefing' \in [phase : {"answered"}, posts : {P}, first : {built},
                       issues : {BuildIssueBriefing(Q, Limit)}, excerpts : {X}]
    BY <1>1, <1>3, <1>4, <1>10
  <2> QED
    BY <2>1
<1>12. BriefingInv'
  BY <1>11 DEF BriefingInv
<1>13. BriefingKeepsIssues'
  BY <1>9, <1>11 DEF BriefingKeepsIssues, KeepsIssues
<1> QED
  BY <1>12, <1>13

LEMMA NextBriefing == BriefingInv /\ BriefingKeepsIssues /\ [Next]_vars
                        => BriefingInv' /\ BriefingKeepsIssues'
<1> SUFFICES ASSUME BriefingInv, BriefingKeepsIssues, [Next]_vars
             PROVE  BriefingInv' /\ BriefingKeepsIssues'
  OBVIOUS
<1>1. CASE ReadPosts
  BY <1>1, ReadPostsKeeps
<1>2. CASE ReadBodies
  BY <1>2, ReadBodiesKeeps
<1>3. CASE CloseBriefing
  BY <1>3 DEF CloseBriefing, NoBriefing, BriefingInv, BriefingKeepsIssues
<1>4. CASE briefing' = briefing
  BY <1>4 DEF BriefingInv, BriefingKeepsIssues
<1>5. ReadPosts \/ ReadBodies \/ CloseBriefing \/ briefing' = briefing
  BY DEF Next, Age, Analyse, Crawl, Change, OpenList, ReadPage, CloseList, RecordDay, BuildLive,
         BuildHistorical, BuildPackage, ClosePackage, vars
<1> QED
  BY <1>1, <1>2, <1>3, <1>4, <1>5

\* Reading bodies gives summaries to issues of the briefing and changes nothing else of them.
THEOREM BriefingStands == Spec => []BriefingKeepsIssues
<1> QED
  BY InitBriefing, NextBriefing, PTL DEF Spec
=============================================================================
