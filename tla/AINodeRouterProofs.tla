------------------------- MODULE AINodeRouterProofs -------------------------
(***************************************************************************)
(* Proofs about AINodeRouter for every set of nodes, requests, limits and  *)
(* failure threshold: the slots count the requests at each node exactly,   *)
(* no node takes more requests than the limits they were admitted under,   *)
(* the health columns of a row agree with each other, the figures of nodes *)
(* and traffic account for every request and attempt, and the weighted     *)
(* rotation is exact.                                                      *)
(***************************************************************************)
EXTENDS AINodeRouter, FiniteSetTheorems, WellFoundedInduction, TLAPS

-----------------------------------------------------------------------------
(* Where requests are: a function from requests to nodes. *)

Places == [Requests -> Nodes \cup {NoNode}]
SlotsType == [node: [Nodes -> Nat], capability: [Capabilities -> Nat]]

At(f, n) == {q \in Requests : f[q] = n}
Asking(f, c) == {q \in Requests : f[q] # NoNode /\ CapabilityOf[q] = c}

Exact(s, f) ==
  /\ \A n \in Nodes : s.node[n] = Cardinality(At(f, n))
  /\ \A c \in Capabilities : s.capability[c] = Cardinality(Asking(f, c))

\* L[q][n]: the limit under which request q was admitted to node n.
Bounded(f, L) ==
  \A n \in Nodes, k \in Limits \cup {1} :
    Cardinality({q \in At(f, n) : L[q][n] <= k}) <= k

\* Sets of requests are finite and have cardinalities.
LEMMA Finite ==
  ASSUME NEW S \in SUBSET Requests
  PROVE  IsFiniteSet(S) /\ Cardinality(S) \in Nat
BY FS_Subset, FS_CardinalityType, RouterAssumption

\* Taking a slot and giving it back change the two counters of the request.
LEMMA ReserveSlots ==
  ASSUME NEW s \in SlotsType, NEW r \in Requests, NEW n \in Nodes
  PROVE  /\ Reserve(s, r, n) \in SlotsType
         /\ Reserve(s, r, n).node = [s.node EXCEPT ![n] = @ + 1]
         /\ Reserve(s, r, n).capability =
              [s.capability EXCEPT ![CapabilityOf[r]] = @ + 1]
<1>1. CapabilityOf[r] \in Capabilities
  BY RouterAssumption
<1>2. s.node \in [Nodes -> Nat] /\ s.capability \in [Capabilities -> Nat]
  BY DEF SlotsType
<1>3. QED
  BY <1>1, <1>2 DEF SlotsType, Reserve

LEMMA ReleaseSlots ==
  ASSUME NEW s \in SlotsType, NEW r \in Requests, NEW n \in Nodes
  PROVE  /\ Release(s, r, n) \in SlotsType
         /\ Release(s, r, n).node = [s.node EXCEPT ![n] = Floor(@ - 1)]
         /\ Release(s, r, n).capability =
              [s.capability EXCEPT ![CapabilityOf[r]] = Floor(@ - 1)]
<1>1. CapabilityOf[r] \in Capabilities
  BY RouterAssumption
<1>2. \A k \in Nat : Floor(k - 1) \in Nat
  BY DEF Floor
<1>3. s.node \in [Nodes -> Nat] /\ s.capability \in [Capabilities -> Nat]
  BY DEF SlotsType
<1>4. QED
  BY <1>1, <1>2, <1>3 DEF SlotsType, Release

\* A request that takes a slot of n goes to n.
LEMMA ExactReserve ==
  ASSUME NEW s \in SlotsType, NEW f \in Places, Exact(s, f),
         NEW r \in Requests, NEW n \in Nodes, f[r] = NoNode
  PROVE  Exact(Reserve(s, r, n), [f EXCEPT ![r] = n])
<1>. DEFINE g == [f EXCEPT ![r] = n]
<1>1. NoNode \notin Nodes /\ CapabilityOf[r] \in Capabilities
  BY RouterAssumption
<1>2. At(g, n) = At(f, n) \cup {r} /\ r \notin At(f, n)
  BY <1>1 DEF At, Places
<1>3. \A m \in Nodes : m # n => At(g, m) = At(f, m)
  BY <1>1 DEF At, Places
<1>4. /\ Asking(g, CapabilityOf[r]) = Asking(f, CapabilityOf[r]) \cup {r}
      /\ r \notin Asking(f, CapabilityOf[r])
  BY <1>1 DEF Asking, Places
<1>5. \A c \in Capabilities : c # CapabilityOf[r] => Asking(g, c) = Asking(f, c)
  BY DEF Asking, Places
<1>6. Cardinality(At(g, n)) = Cardinality(At(f, n)) + 1
  BY <1>2, Finite, FS_AddElement DEF At
<1>7. Cardinality(Asking(g, CapabilityOf[r])) = Cardinality(Asking(f, CapabilityOf[r])) + 1
  BY <1>4, Finite, FS_AddElement DEF Asking
<1>8. /\ s.node \in [Nodes -> Nat] /\ s.capability \in [Capabilities -> Nat]
      /\ Reserve(s, r, n).node = [s.node EXCEPT ![n] = @ + 1]
      /\ Reserve(s, r, n).capability = [s.capability EXCEPT ![CapabilityOf[r]] = @ + 1]
  BY ReserveSlots DEF SlotsType
<1> HIDE DEF g
<1>9. \A m \in Nodes : Reserve(s, r, n).node[m] = Cardinality(At(g, m))
  BY <1>3, <1>6, <1>8 DEF Exact
<1>10. \A c \in Capabilities : Reserve(s, r, n).capability[c] = Cardinality(Asking(g, c))
  BY <1>1, <1>5, <1>7, <1>8 DEF Exact
<1>11. QED
  BY <1>9, <1>10 DEF Exact, g

\* A request that gives its slot back leaves its node, and the floor at 0 is
\* never reached.
LEMMA ExactRelease ==
  ASSUME NEW s \in SlotsType, NEW f \in Places, Exact(s, f),
         NEW r \in Requests, NEW n \in Nodes, f[r] = n
  PROVE  Exact(Release(s, r, n), [f EXCEPT ![r] = NoNode])
<1>. DEFINE g == [f EXCEPT ![r] = NoNode]
            c == CapabilityOf[r]
<1>1. NoNode \notin Nodes /\ c \in Capabilities
  BY RouterAssumption
<1>2. At(g, n) = At(f, n) \ {r} /\ r \in At(f, n)
  BY <1>1 DEF At, Places
<1>3. \A m \in Nodes : m # n => At(g, m) = At(f, m)
  BY <1>1 DEF At, Places
<1>4. Asking(g, c) = Asking(f, c) \ {r} /\ r \in Asking(f, c)
  BY <1>1 DEF Asking, Places
<1>5. \A d \in Capabilities : d # c => Asking(g, d) = Asking(f, d)
  BY DEF Asking, Places
<1>6. Cardinality(At(g, n)) = Cardinality(At(f, n)) - 1 /\ Cardinality(At(f, n)) \in Nat
      /\ Cardinality(At(g, n)) \in Nat
  BY <1>2, Finite, FS_RemoveElement, ZenonT(40) DEF At
<1>7. Cardinality(Asking(g, c)) = Cardinality(Asking(f, c)) - 1
      /\ Cardinality(Asking(f, c)) \in Nat /\ Cardinality(Asking(g, c)) \in Nat
  BY <1>4, Finite, FS_RemoveElement, ZenonT(40) DEF Asking
<1>8. /\ s.node \in [Nodes -> Nat] /\ s.capability \in [Capabilities -> Nat]
      /\ Release(s, r, n).node = [s.node EXCEPT ![n] = Floor(@ - 1)]
      /\ Release(s, r, n).capability = [s.capability EXCEPT ![c] = Floor(@ - 1)]
  BY ReleaseSlots DEF SlotsType
<1> HIDE DEF g
<1>9. \A m \in Nodes : Release(s, r, n).node[m] = Cardinality(At(g, m))
  BY <1>3, <1>6, <1>8 DEF Exact, Floor
<1>10. \A d \in Capabilities : Release(s, r, n).capability[d] = Cardinality(Asking(g, d))
  BY <1>1, <1>5, <1>7, <1>8 DEF Exact, Floor
<1>11. QED
  BY <1>9, <1>10 DEF Exact, g

\* A departure keeps every node within the limits of those who stay.
LEMMA BoundedRelease ==
  ASSUME NEW f \in Places, NEW L, Bounded(f, L), NEW r \in Requests
  PROVE  Bounded([f EXCEPT ![r] = NoNode], L)
<1>. DEFINE g == [f EXCEPT ![r] = NoNode]
<1> SUFFICES ASSUME NEW n \in Nodes, NEW k \in Limits \cup {1}
             PROVE  Cardinality({q \in At(g, n) : L[q][n] <= k}) <= k
  BY DEF Bounded
<1>. DEFINE S == {q \in At(f, n) : L[q][n] <= k}
            T == {q \in At(g, n) : L[q][n] <= k}
<1>1. T \subseteq S
  BY RouterAssumption DEF At, Places
<1>2. Cardinality(T) <= Cardinality(S)
  <2>1. IsFiniteSet(S)
    BY Finite DEF At
  <2>2. QED
    BY <1>1, <2>1, FS_Subset
<1>3. Cardinality(S) <= k /\ Cardinality(S) \in Nat /\ Cardinality(T) \in Nat /\ k \in Nat
  BY Finite, RouterAssumption DEF Bounded, At
<1>4. QED
  BY <1>2, <1>3

\* An arrival under a limit that is above the number of requests at the node.
LEMMA BoundedReserve ==
  ASSUME NEW s \in SlotsType, NEW f \in Places, Exact(s, f), NEW L, Bounded(f, L),
         NEW M, NEW r \in Requests, NEW n \in Nodes, f[r] = NoNode,
         \A q \in Requests : q # r => M[q] = L[q],
         M[r][n] \in Nat, s.node[n] < M[r][n]
  PROVE  Bounded([f EXCEPT ![r] = n], M)
<1>. DEFINE g == [f EXCEPT ![r] = n]
<1> SUFFICES ASSUME NEW m \in Nodes, NEW k \in Limits \cup {1}
             PROVE  Cardinality({q \in At(g, m) : M[q][m] <= k}) <= k
  BY DEF Bounded
<1>. DEFINE S == {q \in At(f, m) : L[q][m] <= k}
            T == {q \in At(g, m) : M[q][m] <= k}
<1>1. Cardinality(S) <= k /\ k \in Nat /\ NoNode \notin Nodes
  BY RouterAssumption DEF Bounded
<1>2. CASE m # n \/ ~(M[r][n] <= k)
  <2>1. T = S
    BY <1>1, <1>2 DEF At, Places
  <2>2. QED
    BY <1>1, <2>1
<1>3. CASE m = n /\ M[r][n] <= k
  <2>1. T \subseteq At(f, n) \cup {r} /\ r \notin At(f, n)
    BY <1>1, <1>3 DEF At, Places
  <2>2. IsFiniteSet(At(f, n)) /\ Cardinality(At(f, n)) \in Nat
    BY Finite DEF At
  <2>3. Cardinality(At(f, n) \cup {r}) = Cardinality(At(f, n)) + 1
        /\ IsFiniteSet(At(f, n) \cup {r})
    BY <2>1, <2>2, FS_AddElement
  <2>4. Cardinality(T) <= Cardinality(At(f, n)) + 1
    BY <2>1, <2>3, FS_Subset
  <2>5. Cardinality(At(f, n)) < M[r][n]
    BY DEF Exact
  <2>6. Cardinality(T) \in Nat
    BY Finite DEF At
  <2>7. QED
    BY <1>1, <1>3, <2>2, <2>4, <2>5, <2>6
<1>4. QED
  BY <1>2, <1>3

-----------------------------------------------------------------------------
(* From requests to places and back. *)

PlaceOf(R) == [q \in Requests |-> R[q].at]
LimitOf(R) == [q \in Requests |-> R[q].limits]

LEMMA PlacesMatch ==
  ASSUME NEW R \in [Requests -> Request],
         \A q \in Requests : R[q].at = NoNode <=> R[q].pc \in {"new", "done"}
  PROVE  /\ PlaceOf(R) \in Places
         /\ \A n \in Nodes : At(PlaceOf(R), n) =
              {q \in Requests : R[q].pc \in {"calling", "closing"} /\ R[q].at = n}
         /\ \A c \in Capabilities : Asking(PlaceOf(R), c) =
              {q \in Requests : \E n \in Nodes :
                 (R[q].pc \in {"calling", "closing"} /\ R[q].at = n) /\ CapabilityOf[q] = c}
<1>1. \A q \in Requests : /\ R[q].at \in Nodes \cup {NoNode}
                          /\ R[q].pc \in {"new", "calling", "closing", "done"}
  BY DEF Request, Phases
<1>2. NoNode \notin Nodes
  BY RouterAssumption
<1>3. PlaceOf(R) \in Places
  BY <1>1 DEF PlaceOf, Places
<1>4. \A n \in Nodes : At(PlaceOf(R), n) =
        {q \in Requests : R[q].pc \in {"calling", "closing"} /\ R[q].at = n}
  BY <1>1, <1>2 DEF At, PlaceOf
<1>5. \A c \in Capabilities : Asking(PlaceOf(R), c) =
        {q \in Requests : \E n \in Nodes :
           (R[q].pc \in {"calling", "closing"} /\ R[q].at = n) /\ CapabilityOf[q] = c}
  BY <1>1, <1>2 DEF Asking, PlaceOf
<1>6. QED
  BY <1>3, <1>4, <1>5

LEMMA InvariantOnPlaces ==
  ASSUME TypeOK, PlanInv, InflightExact, CapacityRespected
  PROVE  /\ PlaceOf(req) \in Places
         /\ Exact(slots, PlaceOf(req))
         /\ Bounded(PlaceOf(req), LimitOf(req))
<1>1. /\ PlaceOf(req) \in Places
      /\ \A n \in Nodes : At(PlaceOf(req), n) = Holders(n)
      /\ \A c \in Capabilities : Asking(PlaceOf(req), c) =
           {q \in Requests : \E n \in Nodes : Holds(q, n) /\ CapabilityOf[q] = c}
  BY PlacesMatch DEF TypeOK, PlanInv, Holders, Holds
<1>2. Exact(slots, PlaceOf(req))
  BY <1>1 DEF Exact, InflightExact
<1>3. \A n \in Nodes : \A k \in Limits \cup {1} :
        {q \in At(PlaceOf(req), n) : LimitOf(req)[q][n] <= k} =
        {q \in Holders(n) : req[q].limits[n] <= k}
  BY <1>1 DEF LimitOf, Holders
<1>4. Bounded(PlaceOf(req), LimitOf(req))
  BY <1>3 DEF Bounded, CapacityRespected
<1>5. QED
  BY <1>1, <1>2, <1>4

LEMMA PlacesOnInvariant ==
  ASSUME req' \in [Requests -> Request], PlanInv',
         Exact(slots', PlaceOf(req')), Bounded(PlaceOf(req'), LimitOf(req'))
  PROVE  InflightExact' /\ CapacityRespected'
<1>1. /\ \A n \in Nodes : At(PlaceOf(req'), n) = Holders(n)'
      /\ \A c \in Capabilities : Asking(PlaceOf(req'), c) =
           {q \in Requests : \E n \in Nodes : Holds(q, n)' /\ CapabilityOf[q] = c}
  BY PlacesMatch DEF PlanInv, Holders, Holds
<1>2. InflightExact'
  BY <1>1 DEF Exact, InflightExact
<1>3. \A n \in Nodes : \A k \in Limits \cup {1} :
        {q \in At(PlaceOf(req'), n) : LimitOf(req')[q][n] <= k} =
        {q \in Holders(n)' : req'[q].limits[n] <= k}
  BY <1>1 DEF LimitOf, Holders
<1>4. CapacityRespected'
  BY <1>3 DEF Bounded, CapacityRespected
<1>5. QED
  BY <1>2, <1>4

-----------------------------------------------------------------------------
(* A plan that goes on to its next candidate, or ends. *)

LEMMA CountVisitType ==
  ASSUME TypeOK, NEW K, NEW n, CountVisit(K, n)
  PROVE  metrics' \in [Nodes -> Metrics]
<1>1. ASSUME NEW x \in Metrics, NEW a \in Nat, NEW b \in Nat
      PROVE  [x EXCEPT !.capacity = @ + a, !.attempts = @ + b] \in Metrics
  <2>1. x.capacity + a \in Nat /\ x.attempts + b \in Nat
    BY DEF Metrics
  <2>2. QED
    BY <2>1 DEF Metrics
<1>2. ASSUME NEW m \in Nodes
      PROVE  [metrics[m] EXCEPT !.capacity = @ + Count(m \in K),
                                !.attempts = @ + Count(m = n)] \in Metrics
  <2>1. metrics[m] \in Metrics
    BY DEF TypeOK
  <2>2. Count(m \in K) \in Nat /\ Count(m = n) \in Nat
    BY DEF Count
  <2>3. QED
    BY <1>1, <2>1, <2>2
<1>3. QED
  BY <1>2 DEF CountVisit

LEMMA CallNextInv ==
  ASSUME TypeOK, PlanInv, NEW r \in Requests, NEW p \in Request, NEW s \in SlotsType,
         NEW t \in Traffic, NEW f \in Places, f[r] = NoNode,
         \A q \in Requests : q # r => f[q] = req[q].at,
         Exact(s, f), Bounded(f, LimitOf(req)), CallNext(r, p, s, t)
  PROVE  /\ req' \in [Requests -> Request]
         /\ slots' \in SlotsType
         /\ traffic' \in Traffic
         /\ metrics' \in [Nodes -> Metrics]
         /\ PlanInv' /\ InflightExact' /\ CapacityRespected'
<1>1. PICK n \in p.rest :
        /\ HasRoom(s, p, n)
        /\ req' = [req EXCEPT ![r] =
             [p EXCEPT !.pc = "calling", !.at = n, !.tried = @ \cup {n},
                       !.rest = @ \ (Ahead(p, n) \cup {n}),
                       !.full = @ \/ Ahead(p, n) # {}]]
        /\ slots' = Reserve(s, r, n)
        /\ CountVisit(Ahead(p, n), n)
        /\ traffic' = t
  BY DEF CallNext
<1>. DEFINE p2 == [p EXCEPT !.pc = "calling", !.at = n, !.tried = @ \cup {n},
                            !.rest = @ \ (Ahead(p, n) \cup {n}),
                            !.full = @ \/ Ahead(p, n) # {}]
<1>2. n \in Nodes /\ NoNode \notin Nodes
  BY RouterAssumption DEF Request
<1>3. p2 \in Request /\ p2.pc = "calling" /\ p2.at = n /\ p2.limits = p.limits
  BY <1>2 DEF Request, Phases
<1> HIDE DEF p2
<1>4. req' = [req EXCEPT ![r] = p2]
  BY <1>1 DEF p2
<1>5. req' \in [Requests -> Request]
  BY <1>3, <1>4 DEF TypeOK
<1>6. PlanInv'
  BY <1>2, <1>3, <1>4 DEF PlanInv, TypeOK
<1>7. PlaceOf(req') = [f EXCEPT ![r] = n]
  BY <1>3, <1>4 DEF PlaceOf, Places, TypeOK
<1>8. Exact(slots', PlaceOf(req'))
  BY <1>1, <1>2, <1>7, ExactReserve
<1>9. /\ LimitOf(req')[r] = p.limits
      /\ \A q \in Requests : q # r => LimitOf(req')[q] = LimitOf(req)[q]
  BY <1>3, <1>4 DEF LimitOf, TypeOK
<1>10. LimitOf(req')[r][n] \in Nat /\ s.node[n] < LimitOf(req')[r][n]
  BY <1>1, <1>2, <1>9 DEF HasRoom, Request
<1>11. Bounded(PlaceOf(req'), LimitOf(req'))
  <2>. DEFINE L == LimitOf(req)
              M == LimitOf(req')
  <2>1. Bounded(f, L) /\ \A q \in Requests : q # r => M[q] = L[q]
    BY <1>9
  <2>2. M[r][n] \in Nat /\ s.node[n] < M[r][n]
    BY <1>10
  <2> HIDE DEF L, M
  <2>3. Bounded([f EXCEPT ![r] = n], M)
    BY <1>2, <2>1, <2>2, BoundedReserve
  <2>4. QED
    BY <1>7, <2>3 DEF M
<1>12. slots' \in SlotsType /\ metrics' \in [Nodes -> Metrics] /\ traffic' \in Traffic
  BY <1>1, <1>2, ReserveSlots, CountVisitType
<1>13. QED
  BY <1>5, <1>6, <1>8, <1>11, <1>12, PlacesOnInvariant

LEMMA ConcludeInv ==
  ASSUME TypeOK, PlanInv, NEW r \in Requests, NEW p \in Request, NEW s \in SlotsType,
         NEW t \in Traffic, NEW f \in Places, f[r] = NoNode,
         \A q \in Requests : q # r => f[q] = req[q].at,
         Exact(s, f), Bounded(f, LimitOf(req)), NEW late, Conclude(r, p, s, t, late)
  PROVE  /\ req' \in [Requests -> Request]
         /\ slots' \in SlotsType
         /\ traffic' \in Traffic
         /\ metrics' \in [Nodes -> Metrics]
         /\ PlanInv' /\ InflightExact' /\ CapacityRespected'
<1>1. PICK K \in SUBSET p.rest :
        /\ req' = [req EXCEPT ![r] =
             [p EXCEPT !.pc = "done", !.at = NoNode, !.rest = {},
                       !.full = p.full \/ K # {}, !.result = Verdict(p)]]
        /\ slots' = s
        /\ CountVisit(K, NoNode)
        /\ traffic' = [t EXCEPT !.failed = @ + 1,
             !.capacityRejected =
               @ + Count(Verdict(p) = "unavailable" /\ (p.full \/ K # {}))]
  BY DEF Conclude
<1>. DEFINE p2 == [p EXCEPT !.pc = "done", !.at = NoNode, !.rest = {},
                            !.full = p.full \/ K # {}, !.result = Verdict(p)]
<1>2. Verdict(p) \in Results
  BY DEF Verdict, Results
<1>3. p2 \in Request /\ p2.pc = "done" /\ p2.at = NoNode
  BY <1>2 DEF Request, Phases
<1> HIDE DEF p2
<1>4. req' = [req EXCEPT ![r] = p2]
  BY <1>1 DEF p2
<1>5. req' \in [Requests -> Request]
  BY <1>3, <1>4 DEF TypeOK
<1>6. PlanInv'
  BY <1>3, <1>4 DEF PlanInv, TypeOK
<1>7. PlaceOf(req') = f
  BY <1>3, <1>4 DEF PlaceOf, Places, TypeOK
<1>8. Exact(slots', PlaceOf(req'))
  BY <1>1, <1>7
<1>9. \A q \in Requests : q # r => LimitOf(req')[q] = LimitOf(req)[q]
  BY <1>4 DEF LimitOf, TypeOK
<1>10. Bounded(f, LimitOf(req'))
  <2> SUFFICES ASSUME NEW n \in Nodes, NEW k \in Limits \cup {1}
               PROVE  Cardinality({q \in At(f, n) : LimitOf(req')[q][n] <= k}) <= k
    BY DEF Bounded
  <2>1. r \notin At(f, n)
    BY RouterAssumption DEF At
  <2>2. {q \in At(f, n) : LimitOf(req')[q][n] <= k} =
        {q \in At(f, n) : LimitOf(req)[q][n] <= k}
    BY <1>9, <2>1 DEF At
  <2>3. QED
    BY <2>2 DEF Bounded
<1>11. Count(Verdict(p) = "unavailable" /\ (p.full \/ K # {})) \in Nat
  BY DEF Count
<1>12. traffic' \in Traffic
  <2>1. ASSUME NEW k \in Nat
        PROVE  [t EXCEPT !.failed = @ + 1, !.capacityRejected = @ + k] \in Traffic
    <3>1. t.failed + 1 \in Nat /\ t.capacityRejected + k \in Nat
      BY DEF Traffic
    <3>2. QED
      BY <3>1 DEF Traffic
  <2>2. QED
    BY <1>1, <1>11, <2>1
<1>13. metrics' \in [Nodes -> Metrics]
  BY <1>1, CountVisitType
<1>14. QED
  BY <1>1, <1>5, <1>6, <1>7, <1>8, <1>10, <1>12, <1>13, PlacesOnInvariant

-----------------------------------------------------------------------------
(* The inductive invariant, one lemma for each kind of step. *)

\* Whatever is recorded about a node leaves its row typed and in agreement.
LEMMA ConsistentRows ==
  ASSUME NEW row \in NodeRow, Consistent(row)
  PROVE  /\ Succeeded(row) \in NodeRow /\ Consistent(Succeeded(row))
         /\ Failed(row) \in NodeRow /\ Consistent(Failed(row))
         /\ \A limit \in Limits : Synchronized(row, limit) \in NodeRow
                                  /\ Consistent(Synchronized(row, limit))
<1>1. /\ Threshold \in Nat \ {0} /\ ~(0 >= Threshold)
      /\ row.failures \in Nat /\ row.failures + 1 \in Nat /\ row.failures + 1 # 0
  BY RouterAssumption DEF NodeRow
<1>3. Succeeded(row) \in NodeRow /\ Consistent(Succeeded(row))
  <2>1. /\ Succeeded(row) \in NodeRow
        /\ Succeeded(row).health = "healthy" /\ Succeeded(row).failures = 0
    BY <1>1 DEF Succeeded, NodeRow, Healths
  <2>2. QED
    BY <1>1, <2>1 DEF Consistent
<1>4. Failed(row) \in NodeRow /\ Consistent(Failed(row))
  <2>1. /\ Failed(row) \in NodeRow
        /\ Failed(row).health =
             IF row.failures + 1 >= Threshold THEN "unhealthy" ELSE "degraded"
        /\ Failed(row).failures = row.failures + 1
    BY <1>1 DEF Failed, NodeRow, Healths
  <2>2. QED
    BY <1>1, <2>1 DEF Consistent
<1>5. ASSUME NEW limit \in Limits
      PROVE  Synchronized(row, limit) \in NodeRow /\ Consistent(Synchronized(row, limit))
  <2>1. limit \in Nat \ {0}
    BY RouterAssumption
  <2>2. /\ Synchronized(row, limit) \in NodeRow
        /\ Synchronized(row, limit).health = "unknown"
        /\ Synchronized(row, limit).failures = 0
    BY <1>1, <2>1 DEF Synchronized, NodeRow, Healths
  <2>3. QED
    BY <1>1, <2>2 DEF Consistent
<1>6. QED
  BY <1>3, <1>4, <1>5

LEMMA NewRows ==
  ASSUME NEW enabled \in BOOLEAN, NEW limit \in Limits
  PROVE  NewNode(enabled, limit) \in NodeRow /\ Consistent(NewNode(enabled, limit))
<1>1. limit \in Nat \ {0} /\ ~(0 >= Threshold)
  BY RouterAssumption
<1>2. /\ NewNode(enabled, limit) \in NodeRow
      /\ NewNode(enabled, limit).health = "unknown"
      /\ NewNode(enabled, limit).failures = 0
  BY <1>1 DEF NewNode, NodeRow, Healths
<1>3. QED
  BY <1>1, <1>2 DEF Consistent

LEMMA RecordedRows ==
  ASSUME TypeOK, HealthConsistent, NEW n \in Nodes, RecordSuccess(n) \/ RecordFailure(n)
  PROVE  node' \in [Nodes -> NodeRow] /\ HealthConsistent'
<1>1. node[n] \in NodeRow /\ Consistent(node[n])
  BY DEF TypeOK, HealthConsistent
<1>2. PICK row \in NodeRow : Consistent(row) /\ node' = [node EXCEPT ![n] = row]
  BY <1>1, ConsistentRows DEF RecordSuccess, RecordFailure
<1>3. QED
  BY <1>2 DEF TypeOK, HealthConsistent

\* The plan with which a request arrives.
LEMMA PlanType ==
  ASSUME TypeOK, NEW c \in Capabilities
  PROVE  Plan(c) \in Request
<1>1. NewRequest \in Request
  BY DEF NewRequest, Request, Phases, Results
<1>2. [n \in Nodes |-> IF n \in Candidates(c) THEN EffectiveLimit(node[n]) ELSE 0]
        \in [Nodes -> Nat]
  BY DEF EffectiveLimit, TypeOK, NodeRow
<1>3. Primary(c) \in SUBSET Nodes /\ Candidates(c) \in SUBSET Nodes
  BY DEF Primary, Best, Probes, Turn, PrimaryGroup, Candidates
<1>4. QED
  BY <1>1, <1>2, <1>3 DEF Plan, Request

LEMMA InvokeStep ==
  ASSUME RouterInv, NEW r \in Requests, Invoke(r)
  PROVE  RouterInv'
<1>. USE DEF RouterInv
<1>. DEFINE c == CapabilityOf[r]
            p == Plan(c)
            f == PlaceOf(req)
<1>1. c \in Capabilities /\ p \in Request
  BY PlanType, RouterAssumption
<1>2. Arrived \in Traffic
  <2>1. traffic.total + 1 \in Nat /\ traffic \in Traffic
    BY DEF TypeOK, Traffic
  <2>2. QED
    BY <2>1 DEF Arrived, Traffic
<1>3. /\ f \in Places /\ Exact(slots, f) /\ Bounded(f, LimitOf(req))
      /\ f[r] = NoNode
      /\ \A q \in Requests : q # r => f[q] = req[q].at
      /\ slots \in SlotsType
  BY InvariantOnPlaces DEF PlaceOf, Invoke, PlanInv, TypeOK, SlotsType
<1>4. \/ CallNext(r, p, slots, Arrived)
      \/ Conclude(r, p, slots, Arrived, FALSE)
  BY DEF Invoke
<1> HIDE DEF p, f
<1>5. /\ req' \in [Requests -> Request] /\ slots' \in SlotsType
      /\ traffic' \in Traffic /\ metrics' \in [Nodes -> Metrics]
      /\ PlanInv' /\ InflightExact' /\ CapacityRespected'
  BY <1>1, <1>2, <1>3, <1>4, CallNextInv, ConcludeInv
<1>6. node' = node /\ ops' = ops
  BY DEF Invoke
<1>7. cursor' \in [Capabilities \X SUBSET Nodes -> Nat]
  <2>1. <<c, PrimaryGroup(c)>> \in Capabilities \X SUBSET Nodes
    BY <1>1 DEF PrimaryGroup, Candidates
  <2>2. \A k \in Nat : k + 1 \in Nat
    OBVIOUS
  <2>3. QED
    BY <2>1, <2>2 DEF Invoke, AdvanceCursor, TypeOK
<1>8. TypeOK'
  BY <1>5, <1>6, <1>7 DEF TypeOK, SlotsType
<1>9. HealthConsistent'
  BY <1>6 DEF HealthConsistent
<1>10. QED
  BY <1>5, <1>8, <1>9

\* A request that finds no candidate, or no database, takes no slot.
LEMMA NoPlanStep ==
  ASSUME RouterInv, NEW r \in Requests, InvokeNowhere(r) \/ InvokeFails(r)
  PROVE  RouterInv'
<1>. USE DEF RouterInv
<1>1. PICK p \in Request : p.pc = "done" /\ p.at = NoNode /\ req' = [req EXCEPT ![r] = p]
  <2>1. ASSUME NEW x \in Results
        PROVE  LET p == [NewRequest EXCEPT !.pc = "done", !.result = x]
               IN  p \in Request /\ p.pc = "done" /\ p.at = NoNode
    BY DEF NewRequest, Request, Phases, Results
  <2>2. QED
    BY <2>1 DEF InvokeNowhere, InvokeFails, Results
<1>2. req[r].at = NoNode /\ req' \in [Requests -> Request]
  BY <1>1 DEF InvokeNowhere, InvokeFails, PlanInv, TypeOK
<1>3. node' = node /\ slots' = slots /\ cursor' = cursor /\ metrics' = metrics
  BY DEF InvokeNowhere, InvokeFails
<1>4. traffic' \in Traffic /\ ops' \in 0..MaxOps
  <2>1. traffic.total + 1 \in Nat /\ traffic.failed + 1 \in Nat /\ traffic \in Traffic
    BY DEF TypeOK, Traffic
  <2>2. Arrived \in Traffic /\ Arrived.failed = traffic.failed
    BY <2>1 DEF Arrived, Traffic
  <2>3. [Arrived EXCEPT !.failed = @ + 1] \in Traffic
    BY <2>1, <2>2 DEF Traffic
  <2>4. CASE InvokeNowhere(r)
    BY <2>3, <2>4 DEF InvokeNowhere, TypeOK
  <2>5. CASE InvokeFails(r)
    <3>1. ops \in 0..MaxOps /\ MaxOps \in Nat
      BY RouterAssumption DEF TypeOK
    <3>2. ops + 1 \in 0..MaxOps
      BY <2>5, <3>1 DEF InvokeFails
    <3>3. QED
      BY <2>2, <2>5, <3>2 DEF InvokeFails
  <2>6. QED
    BY <2>4, <2>5
<1>5. PlanInv'
  BY <1>1 DEF PlanInv, TypeOK
<1>6. PlaceOf(req') = PlaceOf(req)
  BY <1>1, <1>2 DEF PlaceOf, TypeOK
<1>7. Exact(slots', PlaceOf(req'))
  BY <1>3, <1>6, InvariantOnPlaces
<1>8. Bounded(PlaceOf(req'), LimitOf(req'))
  <2> SUFFICES ASSUME NEW n \in Nodes, NEW k \in Limits \cup {1}
               PROVE  Cardinality({q \in At(PlaceOf(req), n) : LimitOf(req')[q][n] <= k}) <= k
    BY <1>6 DEF Bounded
  <2>1. r \notin At(PlaceOf(req), n)
    BY <1>2, RouterAssumption DEF At, PlaceOf
  <2>2. {q \in At(PlaceOf(req), n) : LimitOf(req')[q][n] <= k} =
        {q \in At(PlaceOf(req), n) : LimitOf(req)[q][n] <= k}
    BY <1>1, <2>1 DEF At, LimitOf, TypeOK
  <2>3. QED
    BY <2>2, InvariantOnPlaces DEF Bounded
<1>9. InflightExact' /\ CapacityRespected'
  BY <1>2, <1>5, <1>7, <1>8, PlacesOnInvariant
<1>10. QED
  BY <1>2, <1>3, <1>4, <1>5, <1>9 DEF TypeOK, HealthConsistent

\* A request that learns the outcome of its call stays at its node.
LEMMA OutcomeInv ==
  ASSUME RouterInv, NEW r \in Requests, NEW p \in Request,
         req[r].pc = "calling", p.pc = "closing", p.at = req[r].at,
         p.limits = req[r].limits, req' = [req EXCEPT ![r] = p], slots' = slots
  PROVE  req' \in [Requests -> Request] /\ PlanInv' /\ InflightExact' /\ CapacityRespected'
<1>. USE DEF RouterInv
<1>1. req' \in [Requests -> Request]
  BY DEF TypeOK
<1>2. PlanInv'
  BY DEF PlanInv, TypeOK
<1>3. PlaceOf(req') = PlaceOf(req) /\ LimitOf(req') = LimitOf(req)
  BY DEF PlaceOf, LimitOf, TypeOK
<1>4. Exact(slots', PlaceOf(req')) /\ Bounded(PlaceOf(req'), LimitOf(req'))
  BY <1>3, InvariantOnPlaces
<1>5. QED
  BY <1>1, <1>2, <1>4, PlacesOnInvariant

LEMMA OutcomePlan ==
  ASSUME RouterInv, NEW r \in Requests, NEW x \in Results, Outcome(r, x), slots' = slots
  PROVE  req' \in [Requests -> Request] /\ PlanInv' /\ InflightExact' /\ CapacityRespected'
<1>. DEFINE p == [req[r] EXCEPT !.pc = "closing", !.result = x]
<1>1. req[r] \in Request
  BY DEF RouterInv, TypeOK
<1>2. p \in Request /\ p.pc = "closing" /\ p.at = req[r].at /\ p.limits = req[r].limits
  BY <1>1 DEF Request, Phases
<1>3. req[r].pc = "calling" /\ req' = [req EXCEPT ![r] = p]
  BY DEF Outcome
<1> HIDE DEF p
<1>4. QED
  BY <1>2, <1>3, OutcomeInv

\* A call is at a node, and the counters of that node go up by one.
LEMMA CalledNode ==
  ASSUME RouterInv, NEW r \in Requests, req[r].pc = "calling"
  PROVE  /\ req[r].at \in Nodes
         /\ [metrics EXCEPT ![req[r].at].successes = @ + 1] \in [Nodes -> Metrics]
         /\ [metrics EXCEPT ![req[r].at].failures = @ + 1] \in [Nodes -> Metrics]
         /\ [metrics EXCEPT ![req[r].at].rejections = @ + 1] \in [Nodes -> Metrics]
<1>. DEFINE n == req[r].at
<1>1. n \in Nodes
  BY DEF RouterInv, TypeOK, PlanInv, Request
<1>2. metrics \in [Nodes -> Metrics] /\ metrics[n] \in Metrics
  BY <1>1 DEF RouterInv, TypeOK
<1>3. /\ metrics[n].successes + 1 \in Nat
      /\ metrics[n].failures + 1 \in Nat
      /\ metrics[n].rejections + 1 \in Nat
  BY <1>2 DEF Metrics
<1> HIDE DEF n
<1>4. /\ [metrics[n] EXCEPT !.successes = @ + 1] \in Metrics
      /\ [metrics[n] EXCEPT !.failures = @ + 1] \in Metrics
      /\ [metrics[n] EXCEPT !.rejections = @ + 1] \in Metrics
  BY <1>2, <1>3 DEF Metrics
<1>5. /\ [metrics EXCEPT ![n].successes = @ + 1] \in [Nodes -> Metrics]
      /\ [metrics EXCEPT ![n].failures = @ + 1] \in [Nodes -> Metrics]
      /\ [metrics EXCEPT ![n].rejections = @ + 1] \in [Nodes -> Metrics]
  BY <1>1, <1>2, <1>4
<1>6. QED
  BY <1>1, <1>5 DEF n

LEMMA AnswerStep ==
  ASSUME RouterInv, NEW r \in Requests, Answer(r)
  PROVE  RouterInv'
<1>1. slots' = slots /\ cursor' = cursor /\ ops' = ops /\ req[r].pc = "calling"
  BY DEF Answer, Outcome
<1>2. req' \in [Requests -> Request] /\ PlanInv' /\ InflightExact' /\ CapacityRespected'
  BY <1>1, OutcomePlan DEF Answer, Results
<1>3. node' \in [Nodes -> NodeRow] /\ HealthConsistent'
  BY <1>1, CalledNode, RecordedRows DEF Answer, RouterInv
<1>4. metrics' \in [Nodes -> Metrics]
  BY <1>1, CalledNode DEF Answer
<1>5. traffic' \in Traffic
  <2>1. traffic \in Traffic /\ traffic.succeeded + 1 \in Nat
        /\ traffic.spillovers + Count(req[r].full) \in Nat
    BY DEF RouterInv, TypeOK, Traffic, Count
  <2>2. QED
    BY <2>1 DEF Answer, Traffic
<1>6. QED
  BY <1>1, <1>2, <1>3, <1>4, <1>5 DEF RouterInv, TypeOK

LEMMA MisconfiguredStep ==
  ASSUME RouterInv, NEW r \in Requests, Misconfigured(r)
  PROVE  RouterInv'
<1>1. /\ node' = node /\ slots' = slots /\ cursor' = cursor /\ ops' = ops
      /\ req[r].pc = "calling"
  BY DEF Misconfigured, Outcome
<1>2. req' \in [Requests -> Request] /\ PlanInv' /\ InflightExact' /\ CapacityRespected'
  BY <1>1, OutcomePlan DEF Misconfigured, Results
<1>3. metrics' \in [Nodes -> Metrics]
  BY <1>1, CalledNode DEF Misconfigured
<1>4. traffic' \in Traffic
  <2>1. traffic \in Traffic /\ traffic.failed + 1 \in Nat
    BY DEF RouterInv, TypeOK, Traffic
  <2>2. QED
    BY <2>1 DEF Misconfigured, Traffic
<1>5. QED
  BY <1>1, <1>2, <1>3, <1>4 DEF RouterInv, TypeOK, HealthConsistent

LEMMA RefuseStep ==
  ASSUME RouterInv, NEW r \in Requests, Refuse(r)
  PROVE  RouterInv'
<1>. DEFINE p == [req[r] EXCEPT !.pc = "closing", !.refused = @ \cup {req[r].at}]
<1>1. /\ node' = node /\ slots' = slots /\ cursor' = cursor /\ ops' = ops
      /\ traffic' = traffic /\ req[r].pc = "calling" /\ req[r] \in Request
  BY DEF Refuse, RouterInv, TypeOK
<1>2. req[r].at \in Nodes
  BY <1>1, CalledNode
<1>3. p \in Request /\ p.pc = "closing" /\ p.at = req[r].at /\ p.limits = req[r].limits
  BY <1>1, <1>2 DEF Request, Phases
<1>4. req' = [req EXCEPT ![r] = p]
  BY DEF Refuse
<1> HIDE DEF p
<1>5. req' \in [Requests -> Request] /\ PlanInv' /\ InflightExact' /\ CapacityRespected'
  BY <1>1, <1>3, <1>4, OutcomeInv
<1>6. metrics' \in [Nodes -> Metrics]
  BY <1>1, CalledNode DEF Refuse
<1>7. QED
  BY <1>1, <1>5, <1>6 DEF RouterInv, TypeOK, HealthConsistent

LEMMA CallFailsStep ==
  ASSUME RouterInv, NEW r \in Requests, CallFails(r)
  PROVE  RouterInv'
<1>1. /\ slots' = slots /\ cursor' = cursor /\ ops' = ops /\ traffic' = traffic
      /\ req[r].pc = "calling"
  BY DEF CallFails, Outcome
<1>2. req' \in [Requests -> Request] /\ PlanInv' /\ InflightExact' /\ CapacityRespected'
  BY <1>1, OutcomePlan DEF CallFails, Results
<1>3. node' \in [Nodes -> NodeRow] /\ HealthConsistent'
  BY <1>1, CalledNode, RecordedRows DEF CallFails, RouterInv
<1>4. metrics' \in [Nodes -> Metrics]
  BY <1>1, CalledNode DEF CallFails
<1>5. QED
  BY <1>1, <1>2, <1>3, <1>4 DEF RouterInv, TypeOK

\* Bounded steps stay within the bound.
LEMMA OpsBound ==
  ASSUME TypeOK, ops < MaxOps, ops' = ops + 1
  PROVE  ops' \in 0..MaxOps
BY RouterAssumption DEF TypeOK

LEMMA StoreFailsStep ==
  ASSUME RouterInv, NEW r \in Requests, StoreFails(r)
  PROVE  RouterInv'
<1>1. /\ node' = node /\ slots' = slots /\ cursor' = cursor /\ traffic' = traffic
      /\ req[r].pc = "calling"
  BY DEF StoreFails, Outcome
<1>2. req' \in [Requests -> Request] /\ PlanInv' /\ InflightExact' /\ CapacityRespected'
  BY <1>1, OutcomePlan DEF StoreFails, Results
<1>3. metrics' \in [Nodes -> Metrics]
  BY <1>1, CalledNode DEF StoreFails
<1>4. ops' \in 0..MaxOps
  BY OpsBound DEF StoreFails, RouterInv
<1>5. QED
  BY <1>1, <1>2, <1>3, <1>4 DEF RouterInv, TypeOK, HealthConsistent

\* A request that leaves its node takes no slot with it.
LEMMA LeaveInv ==
  ASSUME TypeOK, PlanInv, NEW r \in Requests, NEW p \in Request, NEW f \in Places,
         f[r] = NoNode, \A q \in Requests : q # r => f[q] = req[q].at,
         Exact(slots', f), Bounded(f, LimitOf(req)),
         p.pc = "done", p.at = NoNode, p.limits = req[r].limits,
         req' = [req EXCEPT ![r] = p]
  PROVE  req' \in [Requests -> Request] /\ PlanInv' /\ InflightExact' /\ CapacityRespected'
<1>1. req' \in [Requests -> Request]
  BY DEF TypeOK
<1>2. PlanInv'
  BY DEF PlanInv, TypeOK
<1>3. PlaceOf(req') = f /\ LimitOf(req') = LimitOf(req)
  BY DEF PlaceOf, LimitOf, Places, TypeOK
<1>4. QED
  BY <1>1, <1>2, <1>3, PlacesOnInvariant

LEMMA CloseStep ==
  ASSUME RouterInv, NEW r \in Requests, Close(r)
  PROVE  RouterInv'
<1>. USE DEF RouterInv
<1>. DEFINE n == req[r].at
            s == Release(slots, r, n)
            f == [PlaceOf(req) EXCEPT ![r] = NoNode]
<1>1. /\ req[r].pc = "closing" /\ req[r] \in Request
      /\ node' = node /\ cursor' = cursor /\ ops' = ops /\ traffic \in Traffic
  BY DEF Close, TypeOK
<1>2. n \in Nodes /\ slots \in SlotsType
  BY <1>1 DEF PlanInv, TypeOK, Request, SlotsType
<1>3. /\ PlaceOf(req) \in Places /\ PlaceOf(req)[r] = n
      /\ Exact(slots, PlaceOf(req)) /\ Bounded(PlaceOf(req), LimitOf(req))
  BY InvariantOnPlaces DEF PlaceOf
<1>4. /\ f \in Places /\ f[r] = NoNode
      /\ \A q \in Requests : q # r => f[q] = req[q].at
  BY <1>3 DEF Places, PlaceOf
<1>5. s \in SlotsType /\ Exact(s, f) /\ Bounded(f, LimitOf(req))
  <2> HIDE DEF n
  <2>1. s \in SlotsType
    BY <1>2, ReleaseSlots
  <2>2. Exact(s, f)
    BY <1>2, <1>3, ExactRelease
  <2>3. Bounded(f, LimitOf(req))
    BY <1>3, BoundedRelease
  <2>4. QED
    BY <2>1, <2>2, <2>3
<1>6. /\ req' \in [Requests -> Request] /\ slots' \in SlotsType
      /\ traffic' \in Traffic /\ metrics' \in [Nodes -> Metrics]
      /\ PlanInv' /\ InflightExact' /\ CapacityRespected'
  <2>1. CASE /\ req' = [req EXCEPT ![r] = [req[r] EXCEPT !.pc = "done", !.at = NoNode,
                                                         !.rest = {}]]
             /\ slots' = s
             /\ UNCHANGED <<metrics, traffic>>
    <3>. DEFINE p == [req[r] EXCEPT !.pc = "done", !.at = NoNode, !.rest = {}]
    <3>1. p \in Request /\ p.pc = "done" /\ p.at = NoNode /\ p.limits = req[r].limits
      BY <1>1 DEF Request, Phases
    <3>2. req' = [req EXCEPT ![r] = p] /\ slots' = s
      BY <2>1
    <3> HIDE DEF p, f, s
    <3>3. req' \in [Requests -> Request] /\ PlanInv' /\ InflightExact' /\ CapacityRespected'
      BY <1>4, <1>5, <3>1, <3>2, LeaveInv
    <3>4. metrics' \in [Nodes -> Metrics]
      BY <2>1 DEF TypeOK
    <3>5. QED
      BY <1>1, <1>5, <2>1, <3>2, <3>3, <3>4
  <2>2. CASE CallNext(r, req[r], s, traffic)
    <3> HIDE DEF f, s
    <3>1. QED
      BY <1>1, <1>4, <1>5, <2>2, CallNextInv
  <2>3. CASE Conclude(r, req[r], s, traffic, TRUE)
    <3> HIDE DEF f, s
    <3>1. QED
      BY <1>1, <1>4, <1>5, <2>3, ConcludeInv
  <2>4. QED
    BY <2>1, <2>2, <2>3 DEF Close
<1>7. QED
  BY <1>1, <1>6 DEF TypeOK, SlotsType, HealthConsistent

\* A step on the rows alone.
LEMMA RowsStep ==
  ASSUME RouterInv, node' \in [Nodes -> NodeRow], HealthConsistent', ops' \in 0..MaxOps,
         UNCHANGED <<slots, cursor, req, traffic, metrics>>
  PROVE  RouterInv'
<1>. USE DEF RouterInv
<1>1. TypeOK'
  BY DEF TypeOK
<1>2. PlanInv'
  BY DEF PlanInv
<1>3. InflightExact' /\ CapacityRespected'
  BY DEF InflightExact, CapacityRespected, Holders, Holds
<1>4. QED
  BY <1>1, <1>2, <1>3

LEMMA AdministerStep ==
  ASSUME RouterInv, NEW n \in Nodes, Administer(n)
  PROVE  RouterInv'
<1>. USE DEF RouterInv
<1>1. node \in [Nodes -> NodeRow] /\ node[n] \in NodeRow /\ Consistent(node[n])
  BY DEF TypeOK, HealthConsistent
<1>2. Limits \subseteq Nat \ {0} /\ ~(0 >= Threshold)
  BY RouterAssumption
<1>3. ops' \in 0..MaxOps
  BY OpsBound DEF Administer, UpdateNode, CreateNode, DeleteNode, HealthCheck, Operate
<1>4. UNCHANGED <<slots, cursor, req, traffic, metrics>>
  BY DEF Administer, UpdateNode, CreateNode, DeleteNode, HealthCheck
<1>5. node' \in [Nodes -> NodeRow] /\ HealthConsistent'
  <2>1. ASSUME NEW row \in NodeRow, Consistent(row), node' = [node EXCEPT ![n] = row]
        PROVE  node' \in [Nodes -> NodeRow] /\ HealthConsistent'
    BY <1>1, <2>1 DEF HealthConsistent
  <2>2. ASSUME NEW enabled \in BOOLEAN, NEW limit \in Limits, UpdateNode(n, enabled, limit)
        PROVE  node' \in [Nodes -> NodeRow] /\ HealthConsistent'
    <3>. DEFINE row == [node[n] EXCEPT !.enabled = enabled, !.limit = limit]
    <3>1. row \in NodeRow /\ row.health = node[n].health /\ row.failures = node[n].failures
      BY <1>1, <1>2 DEF NodeRow
    <3>2. Consistent(row)
      BY <1>1, <3>1 DEF Consistent
    <3>3. node' = [node EXCEPT ![n] = row]
      BY <1>1, <2>2 DEF UpdateNode
    <3>4. QED
      BY <2>1, <3>1, <3>2, <3>3
  <2>3. ASSUME NEW enabled \in BOOLEAN, NEW limit \in Limits, CreateNode(n, enabled, limit)
        PROVE  node' \in [Nodes -> NodeRow] /\ HealthConsistent'
    BY <2>1, <2>3, NewRows DEF CreateNode
  <2>4. CASE DeleteNode(n)
    <3>. DEFINE row == [node[n] EXCEPT !.listed = "deleted"]
    <3>1. row \in NodeRow /\ row.health = node[n].health /\ row.failures = node[n].failures
      BY <1>1 DEF NodeRow
    <3>2. Consistent(row)
      BY <1>1, <3>1 DEF Consistent
    <3>3. node' = [node EXCEPT ![n] = row]
      BY <1>1, <2>4 DEF DeleteNode
    <3>4. QED
      BY <2>1, <3>1, <3>2, <3>3
  <2>5. CASE HealthCheck(n)
    BY <2>5, RecordedRows DEF HealthCheck
  <2>6. QED
    BY <2>2, <2>3, <2>4, <2>5 DEF Administer
<1>6. QED
  BY <1>3, <1>4, <1>5, RowsStep

LEMMA CooldownStep ==
  ASSUME RouterInv, NEW n \in Nodes, CooldownElapses(n)
  PROVE  RouterInv'
<1>. DEFINE row == [node[n] EXCEPT !.cooling = FALSE]
<1>1. /\ node \in [Nodes -> NodeRow] /\ node[n] \in NodeRow /\ Consistent(node[n])
      /\ ops' = ops /\ ops \in 0..MaxOps
  BY DEF RouterInv, TypeOK, HealthConsistent, CooldownElapses
<1>2. row \in NodeRow /\ row.health = node[n].health /\ row.failures = node[n].failures
  BY <1>1 DEF NodeRow
<1>3. Consistent(row)
  BY <1>1, <1>2 DEF Consistent
<1>4. node' = [node EXCEPT ![n] = row]
  BY <1>1 DEF CooldownElapses
<1>5. node' \in [Nodes -> NodeRow] /\ HealthConsistent'
  BY <1>1, <1>2, <1>3, <1>4 DEF RouterInv, HealthConsistent
<1>6. QED
  BY <1>1, <1>5, RowsStep DEF CooldownElapses

\* Nobody is anywhere: the state in which the process starts.
LEMMA NobodyInv ==
  ASSUME NEW f \in Places, NEW L, \A q \in Requests : f[q] = NoNode
  PROVE  Exact(NoSlots, f) /\ Bounded(f, L)
<1>1. /\ \A n \in Nodes : At(f, n) = {}
      /\ \A c \in Capabilities : Asking(f, c) = {}
  BY RouterAssumption DEF At, Asking
<1>2. Cardinality({}) = 0
  BY FS_EmptySet
<1>3. Exact(NoSlots, f)
  BY <1>1, <1>2 DEF Exact, NoSlots
<1>4. Bounded(f, L)
  <2> SUFFICES ASSUME NEW n \in Nodes, NEW k \in Limits \cup {1}
               PROVE  Cardinality({q \in At(f, n) : L[q][n] <= k}) <= k
    BY DEF Bounded
  <2>1. {q \in At(f, n) : L[q][n] <= k} = {}
    BY <1>1
  <2>2. k \in Nat /\ k >= 0
    BY RouterAssumption
  <2>3. QED
    BY <1>2, <2>1, <2>2
<1>5. QED
  BY <1>3, <1>4

\* The counters with which the process starts.
LEMMA NothingCounted ==
  /\ NoSlots \in [node: [Nodes -> Nat], capability: [Capabilities -> Nat]]
  /\ NoCursor \in [Capabilities \X SUBSET Nodes -> Nat]
  /\ NoTraffic \in Traffic
  /\ NoMetrics \in [Nodes -> Metrics]
BY DEF NoSlots, NoCursor, NoTraffic, NoMetrics, Traffic, Metrics

\* Requests that are new, or done, are at no node.
LEMMA StartInv ==
  ASSUME NEW R \in [Requests -> Request],
         \A q \in Requests : R[q].at = NoNode /\ R[q].pc \in {"new", "done"}
  PROVE  Exact(NoSlots, PlaceOf(R)) /\ Bounded(PlaceOf(R), LimitOf(R))
<1>1. PlaceOf(R) \in Places /\ \A q \in Requests : PlaceOf(R)[q] = NoNode
  BY DEF PlaceOf, Places
<1>2. QED
  BY <1>1, NobodyInv

LEMMA RestartStep ==
  ASSUME RouterInv, Restart
  PROVE  RouterInv'
<1>1. /\ slots' = NoSlots /\ cursor' = NoCursor /\ traffic' = NoTraffic
      /\ metrics' = NoMetrics /\ ops' \in 0..MaxOps
  BY OpsBound DEF Restart, Operate, RouterInv
<1>2. req' \in [Requests -> Request]
      /\ \A q \in Requests : req'[q].at = NoNode /\ req'[q].pc \in {"new", "done"}
  <2>. DEFINE lost == [NewRequest EXCEPT !.pc = "done", !.result = "lost"]
  <2>1. NewRequest \in Request /\ NewRequest.pc = "new" /\ NewRequest.at = NoNode
    BY DEF NewRequest, Request, Phases, Results
  <2>2. lost \in Request /\ lost.pc = "done" /\ lost.at = NoNode
    BY DEF NewRequest, Request, Phases, Results
  <2>3. req' = [r \in Requests |-> IF req[r].pc = "new" THEN NewRequest ELSE lost]
    BY DEF Restart
  <2> HIDE DEF lost
  <2>4. QED
    BY <2>1, <2>2, <2>3
<1>3. node' \in [Nodes -> NodeRow] /\ HealthConsistent'
  <2>1. PICK changed \in SUBSET Managed, limit \in [Legacy -> Limits] :
          node' = Bootstrap(changed, limit)
    BY DEF Restart
  <2>2. ASSUME NEW n \in Nodes
        PROVE  node'[n] \in NodeRow /\ Consistent(node'[n])
    <3>1. /\ node'[n] \in {node[n]} \cup {NewNode(TRUE, limit[n]),
                                            Synchronized(node[n], limit[n])}
          /\ node'[n] # node[n] => limit[n] \in Limits
      BY <2>1, RouterAssumption DEF Bootstrap
    <3>2. node[n] \in NodeRow /\ Consistent(node[n])
      BY DEF RouterInv, TypeOK, HealthConsistent
    <3>3. QED
      BY <3>1, <3>2, ConsistentRows, NewRows
  <2>3. node' = [n \in Nodes |-> node'[n]]
    BY <2>1 DEF Bootstrap
  <2>4. QED
    BY <2>2, <2>3 DEF HealthConsistent
<1>4. TypeOK'
  BY <1>1, <1>2, <1>3, NothingCounted DEF TypeOK
<1>5. PlanInv'
  BY <1>2 DEF PlanInv
<1>6. Exact(slots', PlaceOf(req')) /\ Bounded(PlaceOf(req'), LimitOf(req'))
  BY <1>1, <1>2, StartInv
<1>7. InflightExact' /\ CapacityRespected'
  BY <1>2, <1>5, <1>6, PlacesOnInvariant
<1>8. QED
  BY <1>3, <1>4, <1>5, <1>7 DEF RouterInv

\* The invariant holds when the service starts for the first time.
LEMMA RouterInit == Init => RouterInv
<1> SUFFICES ASSUME Init PROVE RouterInv
  OBVIOUS
<1>1. req \in [Requests -> Request]
      /\ \A q \in Requests : req[q].at = NoNode /\ req[q].pc = "new"
  BY DEF Init, NewRequest, Request, Phases, Results
<1>2. ops \in 0..MaxOps
  BY RouterAssumption DEF Init
<1>3. node \in [Nodes -> NodeRow] /\ HealthConsistent
  BY RouterAssumption DEF Init, HealthConsistent
<1>4. TypeOK
  BY <1>1, <1>2, <1>3, NothingCounted DEF TypeOK, Init
<1>5. PlanInv
  BY <1>1 DEF PlanInv
<1>6. Exact(NoSlots, PlaceOf(req)) /\ Bounded(PlaceOf(req), LimitOf(req))
  BY <1>1, StartInv
<1>7. /\ \A n \in Nodes : At(PlaceOf(req), n) = Holders(n)
      /\ \A c \in Capabilities : Asking(PlaceOf(req), c) =
           {q \in Requests : \E n \in Nodes : Holds(q, n) /\ CapabilityOf[q] = c}
  BY <1>1, <1>5, PlacesMatch DEF PlanInv, Holders, Holds
<1>8. InflightExact
  BY <1>6, <1>7 DEF Exact, InflightExact, Init
<1>9. \A n \in Nodes : \A k \in Limits \cup {1} :
        {q \in At(PlaceOf(req), n) : LimitOf(req)[q][n] <= k} =
        {q \in Holders(n) : req[q].limits[n] <= k}
  BY <1>7 DEF LimitOf, Holders
<1>10. CapacityRespected
  BY <1>6, <1>9 DEF Bounded, CapacityRespected
<1>11. QED
  BY <1>3, <1>4, <1>5, <1>8, <1>10 DEF RouterInv

LEMMA RouterStep ==
  ASSUME RouterInv, [Next]_vars
  PROVE  RouterInv'
<1>1. ASSUME NEW r \in Requests, Arrive(r)
      PROVE  RouterInv'
  BY <1>1, InvokeStep, NoPlanStep DEF Arrive
<1>2. ASSUME NEW r \in Requests, Proceed(r)
      PROVE  RouterInv'
  BY <1>2, AnswerStep, MisconfiguredStep, RefuseStep, CallFailsStep, StoreFailsStep,
     CloseStep DEF Proceed
<1>3. ASSUME NEW n \in Nodes, Administer(n) \/ CooldownElapses(n)
      PROVE  RouterInv'
  BY <1>3, AdministerStep, CooldownStep
<1>4. CASE Restart
  BY <1>4, RestartStep
<1>5. CASE UNCHANGED vars
  BY <1>5 DEF vars, RouterInv, TypeOK, PlanInv, InflightExact, CapacityRespected,
     HealthConsistent, Holders, Holds
<1>6. QED
  BY <1>1, <1>2, <1>3, <1>4, <1>5 DEF Next

-----------------------------------------------------------------------------
(* Theorems *)

\* The invariant of the router holds in every reachable state.
THEOREM RouterInvariant == Spec => []RouterInv
<1>1. Init => RouterInv
  BY RouterInit
<1>2. RouterInv /\ [Next]_vars => RouterInv'
  BY RouterStep
<1>3. QED
  BY <1>1, <1>2, PTL DEF Spec

\* Every row, request and counter keeps its type.
THEOREM TypeCorrect == Spec => []TypeOK
<1>1. RouterInv => TypeOK
  BY DEF RouterInv
<1>2. QED
  BY <1>1, RouterInvariant, PTL

\* invoke() leaks no slot and frees none twice, on any path.
THEOREM SlotsAreExact == Spec => []InflightExact
<1>1. RouterInv => InflightExact
  BY DEF RouterInv
<1>2. QED
  BY <1>1, RouterInvariant, PTL

\* No node takes more requests under a limit than that limit allows, whatever the
\* administrator and the health of the node do meanwhile.
THEOREM LimitsHold == Spec => []CapacityRespected
<1>1. RouterInv => CapacityRespected
  BY DEF RouterInv
<1>2. QED
  BY <1>1, RouterInvariant, PTL

\* The failures counted for a node and the health derived from them never part.
THEOREM HealthAgrees == Spec => []HealthConsistent
<1>1. RouterInv => HealthConsistent
  BY DEF RouterInv
<1>2. QED
  BY <1>1, RouterInvariant, PTL

-----------------------------------------------------------------------------
(* The counters: what a request contributes to each of them. *)

InTotal(p) == p.pc # "new" /\ p.result # "lost"
Succeeds(p) == p.result = "answered"
Fails(p) == p.result \in {"invalid", "unavailable", "failed"}
Spills(p) == p.result = "answered" /\ p.full
Overloads(p) == p.result = "unavailable" /\ p.full
Calls(p, n) == p.pc = "calling" /\ p.at = n

\* The traffic counters go from t to u as the request goes from p to q.
TrafficMoves(t, u, p, q) ==
  /\ u.total + Count(InTotal(p)) = t.total + Count(InTotal(q))
  /\ u.succeeded + Count(Succeeds(p)) = t.succeeded + Count(Succeeds(q))
  /\ u.failed + Count(Fails(p)) = t.failed + Count(Fails(q))
  /\ u.spillovers + Count(Spills(p)) = t.spillovers + Count(Spills(q))
  /\ u.capacityRejected + Count(Overloads(p)) = t.capacityRejected + Count(Overloads(q))

\* The counters of node n go from x to y as the request goes from p to q.
NodeMoves(n, x, y, p, q) ==
  (y.attempts - y.successes - y.failures - y.rejections) + Count(Calls(p, n)) =
  (x.attempts - x.successes - x.failures - x.rejections) + Count(Calls(q, n))

\* Where the result of a request stands.
ResultInv ==
  \A r \in Requests :
    /\ req[r].pc \in {"new", "calling"} => req[r].result = "none"
    /\ req[r].pc = "closing" => req[r].result \in {"none", "answered", "invalid", "error"}

AccountInv == RouterInv /\ ResultInv /\ AttemptsAccounted /\ RequestsAccounted

\* Sets that agree on all requests but r differ in size by r.
LEMMA OneDiffers ==
  ASSUME NEW S \in SUBSET Requests, NEW T \in SUBSET Requests, NEW r \in Requests,
         S \ {r} = T \ {r}
  PROVE  /\ Cardinality(S) \in Nat /\ Cardinality(T) \in Nat
         /\ r \in S /\ r \in T => Cardinality(T) = Cardinality(S)
         /\ r \in S /\ r \notin T => Cardinality(T) + 1 = Cardinality(S)
         /\ r \notin S /\ r \in T => Cardinality(T) = Cardinality(S) + 1
         /\ r \notin S /\ r \notin T => Cardinality(T) = Cardinality(S)
<1>1. /\ IsFiniteSet(S) /\ Cardinality(S) \in Nat
      /\ IsFiniteSet(T) /\ Cardinality(T) \in Nat
  BY Finite
<1>2. ASSUME r \in S, r \in T PROVE S = T
  BY <1>2
<1>3. ASSUME r \notin S, r \notin T PROVE S = T
  BY <1>3
<1>4. ASSUME r \in S, r \notin T PROVE Cardinality(T) + 1 = Cardinality(S)
  <2>1. T = S \ {r}
    BY <1>4
  <2>2. Cardinality(S \ {r}) = Cardinality(S) - 1
    BY <1>1, <1>4, FS_RemoveElement
  <2> QED
    BY <1>1, <2>1, <2>2
<1>5. ASSUME r \notin S, r \in T PROVE Cardinality(T) = Cardinality(S) + 1
  <2>1. S = T \ {r}
    BY <1>5
  <2>2. Cardinality(T \ {r}) = Cardinality(T) - 1
    BY <1>1, <1>5, FS_RemoveElement
  <2> QED
    BY <1>1, <2>1, <2>2
<1> QED
  BY <1>1, <1>2, <1>3, <1>4, <1>5

\* A counter that goes along with such a set keeps counting it.
LEMMA CountFollows ==
  ASSUME NEW S \in SUBSET Requests, NEW T \in SUBSET Requests, NEW r \in Requests,
         S \ {r} = T \ {r},
         NEW a \in Int, NEW b \in Int, a = Cardinality(S),
         b + Count(r \in S) = a + Count(r \in T)
  PROVE  b = Cardinality(T)
<1>1. b + (IF r \in S THEN 1 ELSE 0) = a + (IF r \in T THEN 1 ELSE 0)
  BY DEF Count
<1>2. CASE r \in S /\ r \in T
  BY <1>1, <1>2, OneDiffers
<1>3. CASE r \in S /\ r \notin T
  <2>1. Cardinality(T) + 1 = a /\ Cardinality(T) \in Nat
    BY <1>3, OneDiffers
  <2> QED
    BY <1>1, <1>3, <2>1
<1>4. CASE r \notin S /\ r \in T
  <2>1. Cardinality(T) = a + 1
    BY <1>4, OneDiffers
  <2> QED
    BY <1>1, <1>4, <2>1
<1>5. CASE r \notin S /\ r \notin T
  BY <1>1, <1>5, OneDiffers
<1> QED
  BY <1>2, <1>3, <1>4, <1>5

\* The sets that the accounts speak of.
LEMMA AccountSets ==
  ASSUME req \in [Requests -> Request]
  PROVE  /\ {r \in Requests : req[r].pc # "new"} \ With({"lost"})
              = {r \in Requests : InTotal(req[r])}
         /\ With({"answered"}) = {r \in Requests : Succeeds(req[r])}
         /\ With({"invalid", "unavailable", "failed"}) = {r \in Requests : Fails(req[r])}
         /\ {r \in With({"answered"}) : req[r].full} = {r \in Requests : Spills(req[r])}
         /\ {r \in With({"unavailable"}) : req[r].full}
              = {r \in Requests : Overloads(req[r])}
         /\ \A n \in Nodes : {r \in Holders(n) : req[r].pc = "calling"}
                               = {r \in Requests : Calls(req[r], n)}
  BY DEF With, InTotal, Succeeds, Fails, Spills, Overloads, Calls, Holders, Holds

LEMMA AccountSetsNext ==
  ASSUME req' \in [Requests -> Request]
  PROVE  /\ ({r \in Requests : req[r].pc # "new"} \ With({"lost"}))'
              = {r \in Requests : InTotal(req'[r])}
         /\ With({"answered"})' = {r \in Requests : Succeeds(req'[r])}
         /\ With({"invalid", "unavailable", "failed"})' = {r \in Requests : Fails(req'[r])}
         /\ {r \in With({"answered"}) : req[r].full}' = {r \in Requests : Spills(req'[r])}
         /\ {r \in With({"unavailable"}) : req[r].full}'
              = {r \in Requests : Overloads(req'[r])}
         /\ \A n \in Nodes : {r \in Holders(n) : req[r].pc = "calling"}'
                               = {r \in Requests : Calls(req'[r], n)}
  BY DEF With, InTotal, Succeeds, Fails, Spills, Overloads, Calls, Holders, Holds

LEMMA TrafficStep ==
  ASSUME RouterInv, RouterInv', RequestsAccounted, NEW r \in Requests, NEW q,
         req' = [req EXCEPT ![r] = q], TrafficMoves(traffic, traffic', req[r], q)
  PROVE  RequestsAccounted'
<1>1. /\ req \in [Requests -> Request] /\ req' \in [Requests -> Request]
      /\ traffic \in Traffic /\ traffic' \in Traffic
  BY DEF RouterInv, TypeOK
<1>2. req'[r] = q /\ \A x \in Requests \ {r} : req'[x] = req[x]
  BY <1>1
<1>3. traffic'.total = Cardinality({x \in Requests : InTotal(req'[x])})
  <2>. DEFINE S == {x \in Requests : InTotal(req[x])}
              T == {x \in Requests : InTotal(req'[x])}
  <2>1. S \ {r} = T \ {r} /\ S \in SUBSET Requests /\ T \in SUBSET Requests
    BY <1>2
  <2>2. traffic.total = Cardinality(S)
    BY <1>1, AccountSets DEF RequestsAccounted
  <2>3. (r \in S <=> InTotal(req[r])) /\ (r \in T <=> InTotal(q))
    BY <1>2
  <2>4. traffic'.total + Count(r \in S) = traffic.total + Count(r \in T)
    BY <2>3 DEF TrafficMoves, Count
  <2>5. traffic.total \in Nat /\ traffic'.total \in Nat
    BY <1>1 DEF Traffic
  <2> HIDE DEF S, T
  <2> QED
    BY <2>1, <2>2, <2>4, <2>5, CountFollows DEF T
<1>4. traffic'.succeeded = Cardinality({x \in Requests : Succeeds(req'[x])})
  <2>. DEFINE S == {x \in Requests : Succeeds(req[x])}
              T == {x \in Requests : Succeeds(req'[x])}
  <2>1. S \ {r} = T \ {r} /\ S \in SUBSET Requests /\ T \in SUBSET Requests
    BY <1>2
  <2>2. traffic.succeeded = Cardinality(S)
    BY <1>1, AccountSets DEF RequestsAccounted
  <2>3. (r \in S <=> Succeeds(req[r])) /\ (r \in T <=> Succeeds(q))
    BY <1>2
  <2>4. traffic'.succeeded + Count(r \in S) = traffic.succeeded + Count(r \in T)
    BY <2>3 DEF TrafficMoves, Count
  <2>5. traffic.succeeded \in Nat /\ traffic'.succeeded \in Nat
    BY <1>1 DEF Traffic
  <2> HIDE DEF S, T
  <2> QED
    BY <2>1, <2>2, <2>4, <2>5, CountFollows DEF T
<1>5. traffic'.failed = Cardinality({x \in Requests : Fails(req'[x])})
  <2>. DEFINE S == {x \in Requests : Fails(req[x])}
              T == {x \in Requests : Fails(req'[x])}
  <2>1. S \ {r} = T \ {r} /\ S \in SUBSET Requests /\ T \in SUBSET Requests
    BY <1>2
  <2>2. traffic.failed = Cardinality(S)
    BY <1>1, AccountSets DEF RequestsAccounted
  <2>3. (r \in S <=> Fails(req[r])) /\ (r \in T <=> Fails(q))
    BY <1>2
  <2>4. traffic'.failed + Count(r \in S) = traffic.failed + Count(r \in T)
    BY <2>3 DEF TrafficMoves, Count
  <2>5. traffic.failed \in Nat /\ traffic'.failed \in Nat
    BY <1>1 DEF Traffic
  <2> HIDE DEF S, T
  <2> QED
    BY <2>1, <2>2, <2>4, <2>5, CountFollows DEF T
<1>6. traffic'.spillovers = Cardinality({x \in Requests : Spills(req'[x])})
  <2>. DEFINE S == {x \in Requests : Spills(req[x])}
              T == {x \in Requests : Spills(req'[x])}
  <2>1. S \ {r} = T \ {r} /\ S \in SUBSET Requests /\ T \in SUBSET Requests
    BY <1>2
  <2>2. traffic.spillovers = Cardinality(S)
    BY <1>1, AccountSets DEF RequestsAccounted
  <2>3. (r \in S <=> Spills(req[r])) /\ (r \in T <=> Spills(q))
    BY <1>2
  <2>4. traffic'.spillovers + Count(r \in S) = traffic.spillovers + Count(r \in T)
    BY <2>3 DEF TrafficMoves, Count
  <2>5. traffic.spillovers \in Nat /\ traffic'.spillovers \in Nat
    BY <1>1 DEF Traffic
  <2> HIDE DEF S, T
  <2> QED
    BY <2>1, <2>2, <2>4, <2>5, CountFollows DEF T
<1>7. traffic'.capacityRejected = Cardinality({x \in Requests : Overloads(req'[x])})
  <2>. DEFINE S == {x \in Requests : Overloads(req[x])}
              T == {x \in Requests : Overloads(req'[x])}
  <2>1. S \ {r} = T \ {r} /\ S \in SUBSET Requests /\ T \in SUBSET Requests
    BY <1>2
  <2>2. traffic.capacityRejected = Cardinality(S)
    BY <1>1, AccountSets DEF RequestsAccounted
  <2>3. (r \in S <=> Overloads(req[r])) /\ (r \in T <=> Overloads(q))
    BY <1>2
  <2>4. traffic'.capacityRejected + Count(r \in S) = traffic.capacityRejected + Count(r \in T)
    BY <2>3 DEF TrafficMoves, Count
  <2>5. traffic.capacityRejected \in Nat /\ traffic'.capacityRejected \in Nat
    BY <1>1 DEF Traffic
  <2> HIDE DEF S, T
  <2> QED
    BY <2>1, <2>2, <2>4, <2>5, CountFollows DEF T
<1> QED
  BY <1>1, <1>3, <1>4, <1>5, <1>6, <1>7, AccountSetsNext DEF RequestsAccounted

LEMMA MetricsStep ==
  ASSUME RouterInv, RouterInv', AttemptsAccounted, NEW r \in Requests, NEW q,
         req' = [req EXCEPT ![r] = q],
         \A n \in Nodes : NodeMoves(n, metrics[n], metrics'[n], req[r], q)
  PROVE  AttemptsAccounted'
<1>1. /\ req \in [Requests -> Request] /\ req' \in [Requests -> Request]
      /\ metrics \in [Nodes -> Metrics] /\ metrics' \in [Nodes -> Metrics]
  BY DEF RouterInv, TypeOK
<1>2. req'[r] = q /\ \A x \in Requests \ {r} : req'[x] = req[x]
  BY <1>1
<1>3. ASSUME NEW n \in Nodes
      PROVE  metrics'[n].attempts = metrics'[n].successes + metrics'[n].failures
               + metrics'[n].rejections + Cardinality({x \in Requests : Calls(req'[x], n)})
  <2>. DEFINE S == {x \in Requests : Calls(req[x], n)}
              T == {x \in Requests : Calls(req'[x], n)}
  <2>1. S \ {r} = T \ {r} /\ S \in SUBSET Requests /\ T \in SUBSET Requests
    BY <1>2
  <2>2. metrics[n].attempts = metrics[n].successes + metrics[n].failures
          + metrics[n].rejections + Cardinality(S)
    BY <1>1, AccountSets DEF AttemptsAccounted
  <2>3. (r \in S <=> Calls(req[r], n)) /\ (r \in T <=> Calls(q, n))
    BY <1>2
  <2>. DEFINE a == metrics[n].attempts - metrics[n].successes - metrics[n].failures
                     - metrics[n].rejections
              b == metrics'[n].attempts - metrics'[n].successes - metrics'[n].failures
                     - metrics'[n].rejections
  <2>4. b + Count(r \in S) = a + Count(r \in T)
    BY <2>3 DEF NodeMoves, Count
  <2>5. /\ metrics[n].attempts \in Nat /\ metrics[n].successes \in Nat
        /\ metrics[n].failures \in Nat /\ metrics[n].rejections \in Nat
        /\ metrics'[n].attempts \in Nat /\ metrics'[n].successes \in Nat
        /\ metrics'[n].failures \in Nat /\ metrics'[n].rejections \in Nat
    BY <1>1 DEF Metrics
  <2> HIDE DEF S, T
  <2>6. Cardinality(S) \in Nat /\ Cardinality(T) \in Nat
    BY <2>1, Finite
  <2>7. a = Cardinality(S) /\ a \in Int /\ b \in Int
    BY <2>2, <2>5, <2>6
  <2> HIDE DEF a, b
  <2>8. b = Cardinality(T)
    BY <2>1, <2>4, <2>7, CountFollows
  <2> QED
    BY <2>5, <2>6, <2>8 DEF b, T
<1> QED
  BY <1>1, <1>3, AccountSetsNext DEF AttemptsAccounted

\* What the state says of a request that moves.
LEMMA RequestFacts ==
  ASSUME AccountInv, NEW r \in Requests
  PROVE  /\ req[r] \in Request /\ req \in [Requests -> Request]
         /\ req[r].full \in BOOLEAN
         /\ req[r].pc \in {"new", "calling"} => req[r].result = "none"
         /\ req[r].pc = "closing" =>
              req[r].result \in {"none", "answered", "invalid", "error"}
         /\ req[r].pc \in {"calling", "closing"} => req[r].at \in Nodes
         /\ traffic \in Traffic /\ metrics \in [Nodes -> Metrics]
  BY DEF AccountInv, RouterInv, TypeOK, ResultInv, Request, PlanInv, Phases

\* A step of one request keeps the accounts if its counters move along.
LEMMA RequestMoves ==
  ASSUME AccountInv, RouterInv', NEW r \in Requests, NEW q,
         req' = [req EXCEPT ![r] = q],
         /\ q.pc \in {"new", "calling"} => q.result = "none"
         /\ q.pc = "closing" => q.result \in {"none", "answered", "invalid", "error"},
         TrafficMoves(traffic, traffic', req[r], q),
         \A n \in Nodes : NodeMoves(n, metrics[n], metrics'[n], req[r], q)
  PROVE  AccountInv'
<1>1. RequestsAccounted' /\ AttemptsAccounted'
  BY TrafficStep, MetricsStep DEF AccountInv
<1>2. ResultInv'
  <2>1. req \in [Requests -> Request]
    BY RequestFacts
  <2> QED
    BY <2>1 DEF AccountInv, ResultInv
<1> QED
  BY <1>1, <1>2 DEF AccountInv

\* Counters that stay go along with a request that stays where it is counted.
LEMMA NodeStays ==
  ASSUME NEW n, NEW x \in Metrics, NEW p, NEW q, Calls(p, n) <=> Calls(q, n)
  PROVE  NodeMoves(n, x, x, p, q)
  BY DEF NodeMoves, Count

\* The call at node n ends in one of its counters.
LEMMA CallEnds ==
  ASSUME AccountInv, NEW r \in Requests, req[r].pc = "calling",
         NEW q, q.pc # "calling",
         \/ metrics' = [metrics EXCEPT ![req[r].at].successes = @ + 1]
         \/ metrics' = [metrics EXCEPT ![req[r].at].failures = @ + 1]
         \/ metrics' = [metrics EXCEPT ![req[r].at].rejections = @ + 1]
  PROVE  \A n \in Nodes : NodeMoves(n, metrics[n], metrics'[n], req[r], q)
<1>1. req[r].at \in Nodes /\ metrics \in [Nodes -> Metrics]
  BY RequestFacts
<1>2. ASSUME NEW n \in Nodes, n # req[r].at
      PROVE  NodeMoves(n, metrics[n], metrics'[n], req[r], q)
  <2>1. metrics'[n] = metrics[n] /\ metrics[n] \in Metrics
    BY <1>1, <1>2
  <2>2. ~Calls(req[r], n) /\ ~Calls(q, n)
    BY <1>2 DEF Calls
  <2> QED
    BY <2>1, <2>2, NodeStays
<1>3. NodeMoves(req[r].at, metrics[req[r].at], metrics'[req[r].at], req[r], q)
  <2>1. PICK n \in Nodes : n = req[r].at
    BY <1>1
  <2>2. metrics[n] \in Metrics
    BY <1>1
  <2>3. \/ metrics'[n] = [metrics[n] EXCEPT !.successes = @ + 1]
        \/ metrics'[n] = [metrics[n] EXCEPT !.failures = @ + 1]
        \/ metrics'[n] = [metrics[n] EXCEPT !.rejections = @ + 1]
    BY <1>1, <2>1
  <2>4. /\ metrics'[n].attempts = metrics[n].attempts
        /\ metrics'[n].successes + metrics'[n].failures + metrics'[n].rejections
             = metrics[n].successes + metrics[n].failures + metrics[n].rejections + 1
        /\ metrics'[n].successes \in Nat /\ metrics'[n].failures \in Nat
        /\ metrics'[n].rejections \in Nat
    BY <2>2, <2>3 DEF Metrics
  <2>5. Count(Calls(req[r], n)) = 1 /\ Count(Calls(q, n)) = 0
    BY <2>1 DEF Calls, Count
  <2>6. /\ metrics[n].attempts \in Nat /\ metrics[n].successes \in Nat
        /\ metrics[n].failures \in Nat /\ metrics[n].rejections \in Nat
    BY <2>2 DEF Metrics
  <2>7. NodeMoves(n, metrics[n], metrics'[n], req[r], q)
    BY <2>4, <2>5, <2>6 DEF NodeMoves
  <2> QED
    BY <2>1, <2>7
<1> QED
  BY <1>2, <1>3

\* The outcome of a call, before the client is closed.
LEMMA OutcomeAccounts ==
  ASSUME AccountInv, RouterInv', NEW r \in Requests,
         Answer(r) \/ Misconfigured(r) \/ Refuse(r) \/ CallFails(r) \/ StoreFails(r)
  PROVE  AccountInv'
<1>1. /\ req[r] \in Request /\ req[r].full \in BOOLEAN /\ traffic \in Traffic
      /\ req[r].pc = "calling" /\ req[r].result = "none"
  BY RequestFacts DEF Answer, Misconfigured, Refuse, CallFails, StoreFails, Outcome
<1>2. /\ traffic.total \in Nat /\ traffic.succeeded \in Nat /\ traffic.failed \in Nat
      /\ traffic.spillovers \in Nat /\ traffic.capacityRejected \in Nat
  BY <1>1 DEF Traffic
<1>3. CASE Answer(r)
  <2>1. PICK q : q = [req[r] EXCEPT !.pc = "closing", !.result = "answered"]
    OBVIOUS
  <2>2. q.pc = "closing" /\ q.full = req[r].full /\ q.result = "answered"
    BY <1>1, <2>1 DEF Request
  <2>3. req' = [req EXCEPT ![r] = q]
        /\ metrics' = [metrics EXCEPT ![req[r].at].successes = @ + 1]
    BY <1>3, <2>1 DEF Answer, Outcome
  <2>4. traffic' = [traffic EXCEPT !.succeeded = @ + 1, !.spillovers = @ + Count(req[r].full)]
    BY <1>3 DEF Answer
  <2>5. TrafficMoves(traffic, traffic', req[r], q)
    <3>1. /\ traffic'.total = traffic.total
          /\ traffic'.succeeded = traffic.succeeded + 1
          /\ traffic'.spillovers = traffic.spillovers + Count(req[r].full)
          /\ traffic'.failed = traffic.failed
          /\ traffic'.capacityRejected = traffic.capacityRejected
      BY <1>1, <2>4 DEF Traffic
    <3> QED
      BY <1>1, <1>2, <2>2, <3>1
      DEF TrafficMoves, Count, InTotal, Succeeds, Fails, Spills, Overloads
  <2>6. \A n \in Nodes : NodeMoves(n, metrics[n], metrics'[n], req[r], q)
    BY <1>1, <2>2, <2>3, CallEnds
  <2> QED
    BY <2>2, <2>3, <2>5, <2>6, RequestMoves
<1>4. CASE Misconfigured(r)
  <2>1. PICK q : q = [req[r] EXCEPT !.pc = "closing", !.result = "invalid"]
    OBVIOUS
  <2>2. q.pc = "closing" /\ q.full = req[r].full /\ q.result = "invalid"
    BY <1>1, <2>1 DEF Request
  <2>3. req' = [req EXCEPT ![r] = q]
        /\ metrics' = [metrics EXCEPT ![req[r].at].rejections = @ + 1]
    BY <1>4, <2>1 DEF Misconfigured, Outcome
  <2>4. traffic' = [traffic EXCEPT !.failed = @ + 1]
    BY <1>4 DEF Misconfigured
  <2>5. TrafficMoves(traffic, traffic', req[r], q)
    <3>1. /\ traffic'.total = traffic.total
          /\ traffic'.succeeded = traffic.succeeded
          /\ traffic'.spillovers = traffic.spillovers
          /\ traffic'.failed = traffic.failed + 1
          /\ traffic'.capacityRejected = traffic.capacityRejected
      BY <1>1, <2>4 DEF Traffic
    <3> QED
      BY <1>1, <1>2, <2>2, <3>1
      DEF TrafficMoves, Count, InTotal, Succeeds, Fails, Spills, Overloads
  <2>6. \A n \in Nodes : NodeMoves(n, metrics[n], metrics'[n], req[r], q)
    BY <1>1, <2>2, <2>3, CallEnds
  <2> QED
    BY <2>2, <2>3, <2>5, <2>6, RequestMoves
<1>5. ASSUME NEW q, q.pc = "closing", q.result \in {"none", "error"},
             req' = [req EXCEPT ![r] = q], traffic' = traffic,
             \/ metrics' = [metrics EXCEPT ![req[r].at].failures = @ + 1]
             \/ metrics' = [metrics EXCEPT ![req[r].at].rejections = @ + 1]
      PROVE  AccountInv'
  <2>1. TrafficMoves(traffic, traffic', req[r], q)
    BY <1>1, <1>2, <1>5
    DEF TrafficMoves, Count, InTotal, Succeeds, Fails, Spills, Overloads
  <2>2. \A n \in Nodes : NodeMoves(n, metrics[n], metrics'[n], req[r], q)
    BY <1>1, <1>5, CallEnds
  <2> QED
    BY <1>5, <2>1, <2>2, RequestMoves
<1>6. CASE Refuse(r)
  <2>1. PICK q : q = [req[r] EXCEPT !.pc = "closing", !.refused = @ \cup {req[r].at}]
    OBVIOUS
  <2>2. q.pc = "closing" /\ q.result = "none"
    BY <1>1, <2>1 DEF Request
  <2> QED
    BY <1>5, <1>6, <2>1, <2>2 DEF Refuse
<1>7. CASE CallFails(r)
  <2>1. PICK q : q = [req[r] EXCEPT !.pc = "closing", !.result = "none"]
    OBVIOUS
  <2>2. q.pc = "closing" /\ q.result = "none"
    BY <1>1, <2>1 DEF Request
  <2> QED
    BY <1>5, <1>7, <2>1, <2>2 DEF CallFails, Outcome
<1>8. CASE StoreFails(r)
  <2>1. PICK q : q = [req[r] EXCEPT !.pc = "closing", !.result = "error"]
    OBVIOUS
  <2>2. q.pc = "closing" /\ q.result = "error"
    BY <1>1, <2>1 DEF Request
  <2> QED
    BY <1>5, <1>8, <2>1, <2>2 DEF StoreFails, Outcome
<1> QED
  BY <1>3, <1>4, <1>6, <1>7, <1>8

\* A request is counted on arrival: t are the counters with which it is planned.
Planned(r, p, t) ==
  /\ p \in Request /\ p.result = "none"
  /\ t \in Traffic
  /\ req[r].pc # "calling" /\ req[r].result = "none"
  /\ t = [traffic EXCEPT !.total = @ + 1 - Count(InTotal(req[r]))]

LEMMA PlannedTraffic ==
  ASSUME AccountInv, NEW r \in Requests, NEW p, NEW t, Planned(r, p, t)
  PROVE  /\ t.total + Count(InTotal(req[r])) = traffic.total + 1
         /\ t.succeeded = traffic.succeeded /\ t.failed = traffic.failed
         /\ t.spillovers = traffic.spillovers
         /\ t.capacityRejected = traffic.capacityRejected
         /\ t.total \in Nat /\ t.succeeded \in Nat /\ t.failed \in Nat
         /\ t.spillovers \in Nat /\ t.capacityRejected \in Nat
<1>1. traffic \in Traffic /\ t \in Traffic
  BY RequestFacts DEF Planned
<1>2. Count(InTotal(req[r])) \in {0, 1}
  BY DEF Count
<1>3. /\ t.total = traffic.total + 1 - Count(InTotal(req[r]))
      /\ t.succeeded = traffic.succeeded /\ t.failed = traffic.failed
      /\ t.spillovers = traffic.spillovers
      /\ t.capacityRejected = traffic.capacityRejected
  BY <1>1 DEF Planned, Traffic
<1>4. traffic.total \in Nat
  BY <1>1 DEF Traffic
<1> QED
  BY <1>1, <1>2, <1>3, <1>4 DEF Traffic

LEMMA CallNextAccounts ==
  ASSUME AccountInv, RouterInv', NEW r \in Requests, NEW p, NEW t, NEW s,
         Planned(r, p, t), CallNext(r, p, s, t)
  PROVE  AccountInv'
<1>1. PICK n \in p.rest :
        /\ req' = [req EXCEPT ![r] =
             [p EXCEPT !.pc = "calling", !.at = n, !.tried = @ \cup {n},
                       !.rest = @ \ (Ahead(p, n) \cup {n}),
                       !.full = @ \/ Ahead(p, n) # {}]]
        /\ CountVisit(Ahead(p, n), n)
        /\ traffic' = t
  BY DEF CallNext
<1>2. PICK q : q = [p EXCEPT !.pc = "calling", !.at = n, !.tried = @ \cup {n},
                             !.rest = @ \ (Ahead(p, n) \cup {n}),
                             !.full = @ \/ Ahead(p, n) # {}]
  OBVIOUS
<1>3. q.pc = "calling" /\ q.at = n /\ q.result = "none"
  BY <1>2 DEF Planned, Request
<1>4. req' = [req EXCEPT ![r] = q]
  BY <1>1, <1>2
<1>5. TrafficMoves(traffic, traffic', req[r], q)
  <2>1. /\ Count(InTotal(q)) = 1 /\ Count(Succeeds(q)) = 0 /\ Count(Fails(q)) = 0
        /\ Count(Spills(q)) = 0 /\ Count(Overloads(q)) = 0
    BY <1>3 DEF Count, InTotal, Succeeds, Fails, Spills, Overloads
  <2>2. /\ Count(Succeeds(req[r])) = 0 /\ Count(Fails(req[r])) = 0
        /\ Count(Spills(req[r])) = 0 /\ Count(Overloads(req[r])) = 0
    BY DEF Planned, Count, Succeeds, Fails, Spills, Overloads
  <2> QED
    BY <1>1, <2>1, <2>2, PlannedTraffic DEF TrafficMoves
<1>6. ASSUME NEW m \in Nodes
      PROVE  NodeMoves(m, metrics[m], metrics'[m], req[r], q)
  <2>1. metrics[m] \in Metrics
    BY RequestFacts
  <2>2. metrics'[m] = [metrics[m] EXCEPT !.capacity = @ + Count(m \in Ahead(p, n)),
                                         !.attempts = @ + Count(m = n)]
    BY <1>1 DEF CountVisit
  <2>3. /\ metrics'[m].attempts = metrics[m].attempts + Count(m = n)
        /\ metrics'[m].successes = metrics[m].successes
        /\ metrics'[m].failures = metrics[m].failures
        /\ metrics'[m].rejections = metrics[m].rejections
        /\ metrics[m].attempts \in Nat /\ metrics[m].successes \in Nat
        /\ metrics[m].failures \in Nat /\ metrics[m].rejections \in Nat
    BY <2>1, <2>2 DEF Metrics
  <2>4. Count(Calls(req[r], m)) = 0 /\ Count(Calls(q, m)) = Count(m = n)
        /\ Count(m = n) \in Nat
    BY <1>3 DEF Planned, Calls, Count
  <2> QED
    BY <2>3, <2>4 DEF NodeMoves
<1> QED
  BY <1>3, <1>4, <1>5, <1>6, RequestMoves

LEMMA ConcludeAccounts ==
  ASSUME AccountInv, RouterInv', NEW r \in Requests, NEW p, NEW t, NEW s, NEW late,
         Planned(r, p, t), Conclude(r, p, s, t, late)
  PROVE  AccountInv'
<1>1. PICK K \in SUBSET p.rest :
        /\ req' = [req EXCEPT ![r] =
             [p EXCEPT !.pc = "done", !.at = NoNode, !.rest = {},
                       !.full = p.full \/ K # {}, !.result = Verdict(p)]]
        /\ CountVisit(K, NoNode)
        /\ traffic' = [t EXCEPT !.failed = @ + 1,
             !.capacityRejected =
               @ + Count(Verdict(p) = "unavailable" /\ (p.full \/ K # {}))]
  BY DEF Conclude
<1>2. PICK q : q = [p EXCEPT !.pc = "done", !.at = NoNode, !.rest = {},
                             !.full = p.full \/ K # {}, !.result = Verdict(p)]
  OBVIOUS
<1>3. q.pc = "done" /\ q.result = Verdict(p) /\ (q.full <=> p.full \/ K # {})
  BY <1>2 DEF Planned, Request
<1>4. req' = [req EXCEPT ![r] = q]
  BY <1>1, <1>2
<1>5. Verdict(p) \in {"unavailable", "failed", "invalid"}
  BY DEF Verdict
<1>6. TrafficMoves(traffic, traffic', req[r], q)
  <2>1. /\ traffic'.total = t.total /\ traffic'.succeeded = t.succeeded
        /\ traffic'.spillovers = t.spillovers
        /\ traffic'.failed = t.failed + 1
        /\ traffic'.capacityRejected = t.capacityRejected
             + Count(Verdict(p) = "unavailable" /\ (p.full \/ K # {}))
    BY <1>1 DEF Planned, Traffic
  <2>2. Count(Verdict(p) = "unavailable" /\ (p.full \/ K # {})) = Count(Overloads(q))
    BY <1>3 DEF Count, Overloads
  <2>3. /\ Count(InTotal(q)) = 1 /\ Count(Succeeds(q)) = 0 /\ Count(Fails(q)) = 1
        /\ Count(Spills(q)) = 0 /\ Count(Overloads(q)) \in Nat
    BY <1>3, <1>5 DEF Count, InTotal, Succeeds, Fails, Spills, Overloads
  <2>4. /\ Count(Succeeds(req[r])) = 0 /\ Count(Fails(req[r])) = 0
        /\ Count(Spills(req[r])) = 0 /\ Count(Overloads(req[r])) = 0
    BY DEF Planned, Count, Succeeds, Fails, Spills, Overloads
  <2> QED
    BY <2>1, <2>2, <2>3, <2>4, PlannedTraffic DEF TrafficMoves
<1>7. ASSUME NEW m \in Nodes
      PROVE  NodeMoves(m, metrics[m], metrics'[m], req[r], q)
  <2>1. metrics[m] \in Metrics
    BY RequestFacts
  <2>2. metrics'[m] = [metrics[m] EXCEPT !.capacity = @ + Count(m \in K),
                                         !.attempts = @ + Count(m = NoNode)]
    BY <1>1 DEF CountVisit
  <2>3. Count(m = NoNode) = 0
    BY RouterAssumption DEF Count
  <2>4. /\ metrics'[m].attempts = metrics[m].attempts
        /\ metrics'[m].successes = metrics[m].successes
        /\ metrics'[m].failures = metrics[m].failures
        /\ metrics'[m].rejections = metrics[m].rejections
    BY <2>1, <2>2, <2>3 DEF Metrics
  <2>5. ~Calls(req[r], m) /\ ~Calls(q, m)
    BY <1>3 DEF Planned, Calls
  <2> QED
    BY <2>4, <2>5 DEF NodeMoves, Count
<1> QED
  BY <1>3, <1>4, <1>6, <1>7, RequestMoves

LEMMA ArriveAccounts ==
  ASSUME AccountInv, RouterInv', NEW r \in Requests, Arrive(r)
  PROVE  AccountInv'
<1>1. /\ req[r].pc = "new" /\ req[r].result = "none" /\ req[r] \in Request
      /\ traffic \in Traffic
  BY RequestFacts DEF Arrive, Invoke, InvokeNowhere, InvokeFails
<1>2. /\ traffic.total \in Nat /\ traffic.succeeded \in Nat /\ traffic.failed \in Nat
      /\ traffic.spillovers \in Nat /\ traffic.capacityRejected \in Nat
  BY <1>1 DEF Traffic
<1>3. Count(InTotal(req[r])) = 0
  BY <1>1 DEF Count, InTotal
<1>4. CASE InvokeNowhere(r) \/ InvokeFails(r)
  <2>1. PICK x \in {"unavailable", "error"} :
          /\ req' = [req EXCEPT ![r] = [NewRequest EXCEPT !.pc = "done", !.result = x]]
          /\ x = "unavailable" => traffic' = [Arrived EXCEPT !.failed = @ + 1]
          /\ x = "error" => traffic' = Arrived
          /\ metrics' = metrics
    BY <1>4 DEF InvokeNowhere, InvokeFails
  <2>2. PICK q : q = [NewRequest EXCEPT !.pc = "done", !.result = x]
    OBVIOUS
  <2>3. q.pc = "done" /\ q.result = x /\ q.full = FALSE
    BY <2>2 DEF NewRequest
  <2>4. /\ traffic'.total = traffic.total + 1
        /\ traffic'.succeeded = traffic.succeeded
        /\ traffic'.failed = traffic.failed + (IF x = "unavailable" THEN 1 ELSE 0)
        /\ traffic'.spillovers = traffic.spillovers
        /\ traffic'.capacityRejected = traffic.capacityRejected
    <3>1. /\ Arrived \in Traffic /\ Arrived.total = traffic.total + 1
          /\ Arrived.succeeded = traffic.succeeded /\ Arrived.failed = traffic.failed
          /\ Arrived.spillovers = traffic.spillovers
          /\ Arrived.capacityRejected = traffic.capacityRejected
      BY <1>1, <1>2 DEF Arrived, Traffic
    <3> QED
      BY <1>2, <2>1, <3>1 DEF Traffic
  <2>5. TrafficMoves(traffic, traffic', req[r], q)
    BY <1>1, <1>2, <2>3, <2>4
    DEF TrafficMoves, Count, InTotal, Succeeds, Fails, Spills, Overloads
  <2>6. \A n \in Nodes : NodeMoves(n, metrics[n], metrics'[n], req[r], q)
    BY <1>1, <2>1, <2>3 DEF NodeMoves, Calls, Count
  <2> QED
    BY <2>1, <2>2, <2>3, <2>5, <2>6, RequestMoves
<1>5. CASE Invoke(r)
  <2>1. PICK p : p = Plan(CapabilityOf[r])
    OBVIOUS
  <2>2. p \in Request
    BY <2>1, PlanType, RouterAssumption DEF AccountInv, RouterInv
  <2>3. p.result = "none"
    BY <2>1 DEF Plan, NewRequest
  <2>4. Arrived \in Traffic
        /\ Arrived = [traffic EXCEPT !.total = @ + 1 - Count(InTotal(req[r]))]
    <3>1. traffic.total + 1 - 0 = traffic.total + 1
      BY <1>2
    <3> QED
      BY <1>1, <1>2, <1>3, <3>1 DEF Arrived, Traffic
  <2>5. Planned(r, p, Arrived)
    BY <1>1, <2>2, <2>3, <2>4 DEF Planned
  <2> QED
    BY <1>5, <2>1, <2>5, CallNextAccounts, ConcludeAccounts DEF Invoke
<1> QED
  BY <1>4, <1>5 DEF Arrive

LEMMA CloseAccounts ==
  ASSUME AccountInv, RouterInv', NEW r \in Requests, Close(r)
  PROVE  AccountInv'
<1>1. /\ req[r].pc = "closing" /\ req[r] \in Request /\ traffic \in Traffic
      /\ req[r].result \in {"none", "answered", "invalid", "error"}
      /\ req[r].full \in BOOLEAN
  BY RequestFacts DEF Close
<1>2. CASE req[r].result # "none"
  <2>1. PICK q : q = [req[r] EXCEPT !.pc = "done", !.at = NoNode, !.rest = {}]
    OBVIOUS
  <2>2. q.pc = "done" /\ q.result = req[r].result /\ q.full = req[r].full
    BY <1>1, <2>1 DEF Request
  <2>3. req' = [req EXCEPT ![r] = q] /\ metrics' = metrics /\ traffic' = traffic
    BY <1>2, <2>1 DEF Close
  <2>4. TrafficMoves(traffic, traffic', req[r], q)
    BY <1>1, <2>2, <2>3
    DEF TrafficMoves, Count, InTotal, Succeeds, Fails, Spills, Overloads
  <2>5. \A n \in Nodes : NodeMoves(n, metrics[n], metrics'[n], req[r], q)
    BY <1>1, <2>2, <2>3 DEF NodeMoves, Calls, Count
  <2> QED
    BY <2>2, <2>3, <2>4, <2>5, RequestMoves
<1>3. CASE req[r].result = "none"
  <2>1. Count(InTotal(req[r])) = 1
    BY <1>1, <1>3 DEF InTotal, Count
  <2>2. traffic = [traffic EXCEPT !.total = @ + 1 - Count(InTotal(req[r]))]
    <3>1. traffic.total \in Nat
      BY <1>1 DEF Traffic
    <3>2. traffic.total + 1 - 1 = traffic.total
      BY <3>1
    <3> QED
      BY <1>1, <2>1, <3>2 DEF Traffic
  <2>3. Planned(r, req[r], traffic)
    BY <1>1, <1>3, <2>2 DEF Planned
  <2> QED
    BY <1>3, <2>3, CallNextAccounts, ConcludeAccounts DEF Close
<1> QED
  BY <1>2, <1>3

LEMMA QuietAccounts ==
  ASSUME AccountInv, RouterInv', UNCHANGED <<req, traffic, metrics>>
  PROVE  AccountInv'
  BY DEF AccountInv, ResultInv, RequestsAccounted, AttemptsAccounted,
         With, Holders, Holds

\* Nothing is counted and nobody is there.
LEMMA RestartAccounts ==
  ASSUME AccountInv, RouterInv', Restart
  PROVE  AccountInv'
<1>1. /\ req' \in [Requests -> Request]
      /\ traffic' = NoTraffic /\ metrics' = NoMetrics
  BY DEF Restart, RouterInv, TypeOK
<1>2. ASSUME NEW r \in Requests
      PROVE  \/ req'[r].pc = "new" /\ req'[r].result = "none"
             \/ req'[r].pc = "done" /\ req'[r].result = "lost"
  BY DEF Restart, NewRequest
<1>3. /\ {r \in Requests : InTotal(req'[r])} = {}
      /\ {r \in Requests : Succeeds(req'[r])} = {}
      /\ {r \in Requests : Fails(req'[r])} = {}
      /\ {r \in Requests : Spills(req'[r])} = {}
      /\ {r \in Requests : Overloads(req'[r])} = {}
      /\ \A n \in Nodes : {r \in Requests : Calls(req'[r], n)} = {}
  BY <1>2 DEF InTotal, Succeeds, Fails, Spills, Overloads, Calls
<1>4. Cardinality({}) = 0
  BY FS_EmptySet
<1>5. RequestsAccounted'
  BY <1>1, <1>3, <1>4, AccountSetsNext DEF RequestsAccounted, NoTraffic
<1>6. AttemptsAccounted'
  <2>1. ASSUME NEW n \in Nodes
        PROVE  Cardinality({r \in Holders(n) : req[r].pc = "calling"}') = 0
               /\ metrics'[n].attempts = 0 /\ metrics'[n].successes = 0
               /\ metrics'[n].failures = 0 /\ metrics'[n].rejections = 0
    BY <1>1, <1>3, <1>4, AccountSetsNext DEF NoMetrics
  <2> QED
    BY <2>1 DEF AttemptsAccounted
<1>7. ResultInv'
  BY <1>2 DEF ResultInv
<1> QED
  BY <1>5, <1>6, <1>7 DEF AccountInv

LEMMA AccountInit == Init => AccountInv
<1> SUFFICES ASSUME Init PROVE AccountInv
  OBVIOUS
<1>1. RouterInv
  BY RouterInit
<1>2. req \in [Requests -> Request]
  BY <1>1 DEF RouterInv, TypeOK
<1>3. \A r \in Requests : req[r].pc = "new" /\ req[r].result = "none"
  BY DEF Init, NewRequest
<1>4. /\ {r \in Requests : InTotal(req[r])} = {}
      /\ {r \in Requests : Succeeds(req[r])} = {}
      /\ {r \in Requests : Fails(req[r])} = {}
      /\ {r \in Requests : Spills(req[r])} = {}
      /\ {r \in Requests : Overloads(req[r])} = {}
      /\ \A n \in Nodes : {r \in Requests : Calls(req[r], n)} = {}
  BY <1>3 DEF InTotal, Succeeds, Fails, Spills, Overloads, Calls
<1>5. Cardinality({}) = 0
  BY FS_EmptySet
<1>6. RequestsAccounted
  BY <1>2, <1>4, <1>5, AccountSets DEF RequestsAccounted, Init, NoTraffic
<1>7. AttemptsAccounted
  <2>1. ASSUME NEW n \in Nodes
        PROVE  Cardinality({r \in Holders(n) : req[r].pc = "calling"}) = 0
               /\ metrics[n].attempts = 0 /\ metrics[n].successes = 0
               /\ metrics[n].failures = 0 /\ metrics[n].rejections = 0
    BY <1>2, <1>4, <1>5, AccountSets DEF Init, NoMetrics
  <2> QED
    BY <2>1 DEF AttemptsAccounted
<1>8. ResultInv
  BY <1>3 DEF ResultInv
<1> QED
  BY <1>1, <1>6, <1>7, <1>8 DEF AccountInv

LEMMA AccountNext == AccountInv /\ [Next]_vars => AccountInv'
<1> SUFFICES ASSUME AccountInv, [Next]_vars PROVE AccountInv'
  OBVIOUS
<1>1. RouterInv'
  BY RouterStep DEF AccountInv
<1>2. ASSUME NEW r \in Requests, Arrive(r) \/ Proceed(r)
      PROVE  AccountInv'
  BY <1>1, <1>2, ArriveAccounts, OutcomeAccounts, CloseAccounts DEF Proceed
<1>3. ASSUME NEW n \in Nodes, Administer(n) \/ CooldownElapses(n)
      PROVE  AccountInv'
  <2>1. UNCHANGED <<req, traffic, metrics>>
    BY <1>3 DEF Administer, UpdateNode, CreateNode, DeleteNode, HealthCheck, CooldownElapses
  <2> QED
    BY <1>1, <2>1, QuietAccounts
<1>4. CASE UNCHANGED vars
  BY <1>1, <1>4, QuietAccounts DEF vars
<1> QED
  BY <1>1, <1>2, <1>3, <1>4, RestartAccounts DEF Next

\* The sizes of four sets that share no member add up.
LEMMA FourApart ==
  ASSUME NEW A \in SUBSET Requests, NEW B \in SUBSET Requests,
         NEW C \in SUBSET Requests, NEW D \in SUBSET Requests,
         A \cap B = {}, (A \cup B) \cap C = {}, ((A \cup B) \cup C) \cap D = {}
  PROVE  Cardinality(((A \cup B) \cup C) \cup D)
           = Cardinality(A) + Cardinality(B) + Cardinality(C) + Cardinality(D)
<1>1. \A S \in SUBSET Requests : IsFiniteSet(S) /\ Cardinality(S) \in Nat
  BY Finite
<1>2. \A S, T \in SUBSET Requests :
        S \cap T = {} => Cardinality(S \cup T) = Cardinality(S) + Cardinality(T)
  BY <1>1, FS_CardinalityType, FS_EmptySet, FS_Union
<1>3. Cardinality(A \cup B) = Cardinality(A) + Cardinality(B)
  BY <1>2
<1>4. Cardinality((A \cup B) \cup C) = Cardinality(A \cup B) + Cardinality(C)
  BY <1>2
<1>5. Cardinality(((A \cup B) \cup C) \cup D)
        = Cardinality((A \cup B) \cup C) + Cardinality(D)
  BY <1>2
<1>6. QED
  BY <1>1, <1>3, <1>4, <1>5

\* Whoever is in the total is in one outcome, in progress, or ended with an exception
\* of the database.
LEMMA TotalFollows == AccountInv => TotalExplained
<1> SUFFICES ASSUME AccountInv PROVE TotalExplained
  OBVIOUS
<1>. DEFINE answered == With({"answered"})
            refused == With({"invalid", "unavailable", "failed"})
            broken == With({"error"})
            counted == {r \in Requests : req[r].pc # "new"} \ With({"lost"})
<1>1. \A r \in Requests :
        /\ req[r].result \in Results
        /\ req[r].pc = "new" => req[r].result = "none"
  BY DEF AccountInv, RouterInv, TypeOK, ResultInv, Request
<1>2. counted = ((answered \cup refused) \cup Undecided) \cup broken
  BY <1>1 DEF With, Undecided, Results
<1>3. /\ answered \cap refused = {}
      /\ (answered \cup refused) \cap Undecided = {}
      /\ ((answered \cup refused) \cup Undecided) \cap broken = {}
  BY DEF With, Undecided
<1>4. /\ answered \in SUBSET Requests /\ refused \in SUBSET Requests
      /\ Undecided \in SUBSET Requests /\ broken \in SUBSET Requests
  BY DEF With, Undecided
<1>5. /\ traffic.total = Cardinality(counted)
      /\ traffic.succeeded = Cardinality(answered)
      /\ traffic.failed = Cardinality(refused)
  BY DEF AccountInv, RequestsAccounted
<1> HIDE DEF answered, refused, broken, counted
<1>6. Cardinality(counted) = Cardinality(answered) + Cardinality(refused)
        + Cardinality(Undecided) + Cardinality(broken)
  BY <1>2, <1>3, <1>4, FourApart
<1>7. QED
  BY <1>5, <1>6 DEF TotalExplained, broken

\* The figures of nodes and traffic count every request and attempt where it belongs,
\* whatever fails, restarts or is administered; the total exceeds the outcomes by the
\* requests in progress and those that ended with an exception of the database.
THEOREM FiguresAddUp == Spec => []CountersAccounted
<1>1. AccountInv => CountersAccounted
  BY TotalFollows DEF AccountInv, CountersAccounted
<1>2. QED
  BY <1>1, AccountInit, AccountNext, PTL DEF Spec

-----------------------------------------------------------------------------
(* The rotation *)

\* A set of numbers has a least member.
LEMMA LeastNumber ==
  ASSUME NEW S \in SUBSET Nat, S # {}
  PROVE  \E n \in S : \A m \in S : n <= m
<1>1. \E n \in S : \A m \in S : ~(<<m, n>> \in OpToRel(<, Nat))
  BY WFMin, NatLessThanWellFounded
<1>2. \A m, n \in Nat : m < n => <<m, n>> \in OpToRel(<, Nat)
  BY Zenon DEF OpToRel
<1>3. \A m, n \in S : ~(<<m, n>> \in OpToRel(<, Nat)) => ~(m < n)
  BY <1>2, Zenon
<1>4. \E n \in S : \A m \in S : ~(m < n)
  BY <1>1, <1>3, Zenon
<1> QED
  BY <1>4

\* An interval has as many numbers as it is long.
LEMMA Interval ==
  ASSUME NEW a \in Nat, NEW w \in Nat
  PROVE  IsFiniteSet(a..(a + w - 1)) /\ Cardinality(a..(a + w - 1)) = w
<1>1. PICK b \in Int : b = a + w - 1
  OBVIOUS
<1>2. a \in Int
  OBVIOUS
<1>3. IsFiniteSet(a..b) /\ Cardinality(a..b) = IF a > b THEN 0 ELSE b - a + 1
  BY <1>2, FS_Interval
<1> QED
  BY <1>1, <1>3

\* A pool is finite.
LEMMA PoolFinite ==
  ASSUME NEW S \in SUBSET Nodes
  PROVE  IsFiniteSet(Pool(S)) /\ PoolSize(S) \in Nat
<1>1. IsFiniteSet(S) /\ Weight \in [Nodes -> 1..100]
  BY RouterAssumption, FS_Subset
<1>2. Pool(S) \subseteq S \X (1..100)
  BY <1>1 DEF Pool
<1>3. IsFiniteSet(1..100)
  <2>1. PICK most \in Int : most = 100
    OBVIOUS
  <2>2. IsFiniteSet(1..most) /\ Cardinality(1..most) = IF 1 > most THEN 0 ELSE most - 1 + 1
    BY FS_Interval
  <2> QED
    BY <2>1, <2>2
<1>4. IsFiniteSet(S \X (1..100))
  BY <1>1, <1>3, FS_Product
<1> QED
  BY <1>2, <1>4, FS_Subset, FS_CardinalityType DEF PoolSize

\* A pool of a node holds it as often as its weight says.
LEMMA PoolOfOne ==
  ASSUME NEW n \in Nodes
  PROVE  PoolSize({n}) = Weight[n]
<1>1. PICK w \in 1..100 : w = Weight[n]
  BY RouterAssumption
<1>2. Pool({n}) = {n} \X (1..w)
  BY <1>1 DEF Pool
<1>3. IsFiniteSet({n}) /\ Cardinality({n}) = 1
  BY FS_Singleton
<1>4. IsFiniteSet(1..w) /\ Cardinality(1..w) = w
  <2>1. 1 \in Nat /\ w \in Nat /\ 1 + w - 1 = w
    OBVIOUS
  <2> QED
    BY <2>1, Interval
<1>5. Cardinality({n} \X (1..w)) = Cardinality({n}) * Cardinality(1..w)
  BY <1>3, <1>4, FS_Product
<1>6. Cardinality({n} \X (1..w)) = w
  BY <1>3, <1>4, <1>5
<1> QED
  BY <1>1, <1>2, <1>6 DEF PoolSize

\* The pools of groups without a common node add up.
LEMMA PoolsAdd ==
  ASSUME NEW S \in SUBSET Nodes, NEW T \in SUBSET Nodes, S \cap T = {}
  PROVE  PoolSize(S \cup T) = PoolSize(S) + PoolSize(T)
<1>1. Pool(S \cup T) = Pool(S) \cup Pool(T) /\ Pool(S) \cap Pool(T) = {}
  BY DEF Pool
<1>2. IsFiniteSet(Pool(S)) /\ IsFiniteSet(Pool(T))
  BY PoolFinite
<1>3. PoolSize(S) \in Nat /\ PoolSize(T) \in Nat
  BY PoolFinite
<1>4. Cardinality(Pool(S) \cup Pool(T))
        = Cardinality(Pool(S)) + Cardinality(Pool(T)) - Cardinality(Pool(S) \cap Pool(T))
  BY <1>2, FS_Union
<1>5. Cardinality(Pool(S) \cap Pool(T)) = 0
  BY <1>1, FS_EmptySet
<1>6. /\ PoolSize(S) = Cardinality(Pool(S)) /\ PoolSize(T) = Cardinality(Pool(T))
      /\ PoolSize(S \cup T) = Cardinality(Pool(S) \cup Pool(T))
  BY <1>1 DEF PoolSize
<1> QED
  BY <1>3, <1>4, <1>5, <1>6

\* A larger group has a larger pool.
LEMMA PoolsGrow ==
  ASSUME NEW T \in SUBSET Nodes, NEW S \in SUBSET T
  PROVE  PoolSize(S) <= PoolSize(T)
<1>1. Pool(S) \subseteq Pool(T)
  BY DEF Pool
<1> QED
  BY <1>1, PoolFinite, FS_Subset DEF PoolSize

\* Where the copies of a node begin in the pool.
Before(G, n) == PoolSize({m \in G : Rank[m] < Rank[n]})

\* The copies of a node lie in the pool, after those of every earlier node.
LEMMA CopiesApart ==
  ASSUME NEW G \in SUBSET Nodes, NEW n \in G
  PROVE  /\ Before(G, n) \in Nat /\ Weight[n] \in 1..100 /\ PoolSize(G) \in Nat
         /\ Before(G, n) + Weight[n] <= PoolSize(G)
         /\ \A m \in G : Rank[m] < Rank[n] => Before(G, m) + Weight[m] <= Before(G, n)
<1>1. \A m \in G : Rank[m] \in Nat /\ Weight[m] \in 1..100
  BY RouterAssumption
<1>2. ASSUME NEW m \in G
      PROVE  LET S == {k \in G : Rank[k] < Rank[m]}
             IN  /\ S \cup {m} \in SUBSET G
                 /\ PoolSize(S \cup {m}) = Before(G, m) + Weight[m]
  <2> DEFINE S == {k \in G : Rank[k] < Rank[m]}
  <2>1. S \cap {m} = {} /\ S \in SUBSET Nodes /\ {m} \in SUBSET Nodes
    BY <1>1
  <2>2. PoolSize(S \cup {m}) = PoolSize(S) + PoolSize({m})
    BY <2>1, PoolsAdd
  <2> QED
    BY <2>2, PoolOfOne DEF Before
<1>3. Before(G, n) + Weight[n] <= PoolSize(G)
  BY <1>2, PoolsGrow
<1>4. ASSUME NEW m \in G, Rank[m] < Rank[n]
      PROVE  Before(G, m) + Weight[m] <= Before(G, n)
  <2> DEFINE S == {k \in G : Rank[k] < Rank[m]}
             T == {k \in G : Rank[k] < Rank[n]}
  <2>1. S \cup {m} \in SUBSET T /\ T \in SUBSET Nodes
    BY <1>1, <1>4
  <2>2. PoolSize(S \cup {m}) <= PoolSize(T)
    BY <2>1, PoolsGrow
  <2> QED
    BY <1>2, <2>2 DEF Before
<1>5. Before(G, n) \in Nat /\ PoolSize(G) \in Nat
  <2>1. {m \in G : Rank[m] < Rank[n]} \in SUBSET Nodes
    OBVIOUS
  <2> QED
    BY <2>1, PoolFinite DEF Before
<1> QED
  BY <1>1, <1>3, <1>4, <1>5

\* Each place of the pool is a copy of a node.
LEMMA PlaceOfPool ==
  ASSUME NEW G \in SUBSET Nodes, NEW index \in Nat, index < PoolSize(G)
  PROVE  \E n \in G : Before(G, n) <= index /\ index < Before(G, n) + Weight[n]
<1> DEFINE P == PoolSize(G)
           begun == {n \in G : Before(G, n) <= index}
           left == {P - Before(G, n) : n \in begun}
<1>1. P \in Nat /\ \A n \in G : /\ Before(G, n) \in Nat /\ Before(G, n) <= P
                                /\ Rank[n] \in Nat /\ Weight[n] \in 1..100
  BY CopiesApart, PoolFinite, RouterAssumption
<1>2. ASSUME NEW S \in SUBSET G, S # {}
      PROVE  \E n \in S : \A m \in S : Rank[n] <= Rank[m]
  <2>1. {Rank[m] : m \in S} \in SUBSET Nat /\ {Rank[m] : m \in S} # {}
    BY <1>1, <1>2
  <2>2. PICK k \in {Rank[m] : m \in S} : \A l \in {Rank[m] : m \in S} : k <= l
    BY <2>1, LeastNumber
  <2> QED
    BY <2>2
<1>3. PoolSize({}) = 0
  BY FS_EmptySet DEF PoolSize, Pool
<1>4. begun # {}
  <2>1. G # {}
    BY <1>1, <1>3
  <2>2. PICK n \in G : \A m \in G : Rank[n] <= Rank[m]
    BY <1>2, <2>1
  <2>3. {m \in G : Rank[m] < Rank[n]} = {}
    BY <1>1, <2>2
  <2>4. Before(G, n) = 0
    BY <1>3, <2>3 DEF Before
  <2> QED
    BY <2>4
<1>5. PICK n \in begun : \A m \in begun : P - Before(G, n) <= P - Before(G, m)
  <2>1. left \in SUBSET Nat /\ left # {}
    BY <1>1, <1>4
  <2>2. PICK k \in left : \A l \in left : k <= l
    BY <2>1, LeastNumber
  <2> QED
    BY <2>2
<1>6. \A m \in begun : Before(G, m) <= Before(G, n)
  BY <1>1, <1>5
<1> HIDE DEF left
<1> DEFINE earlier == {m \in G : Rank[m] < Rank[n]}
           later == {m \in G : Rank[n] < Rank[m]}
<1>7. ASSUME later = {} PROVE index < Before(G, n) + Weight[n]
  <2>1. G = earlier \cup {n} /\ earlier \cap {n} = {}
    BY <1>1, <1>7, RouterAssumption
  <2>2. earlier \in SUBSET Nodes /\ {n} \in SUBSET Nodes
    OBVIOUS
  <2>3. P = Before(G, n) + Weight[n]
    <3>1. PoolSize(earlier \cup {n}) = PoolSize(earlier) + PoolSize({n})
      BY <2>1, <2>2, PoolsAdd
    <3>2. PoolSize({n}) = Weight[n]
      BY PoolOfOne
    <3> QED
      BY <2>1, <3>1, <3>2 DEF Before
  <2> QED
    BY <1>1, <2>3
<1>8. ASSUME later # {} PROVE index < Before(G, n) + Weight[n]
  <2>1. PICK m \in later : \A k \in later : Rank[m] <= Rank[k]
    BY <1>2, <1>8
  <2>2. {k \in G : Rank[k] < Rank[m]} = earlier \cup {n} /\ earlier \cap {n} = {}
    BY <1>1, <2>1, RouterAssumption
  <2>3. earlier \in SUBSET Nodes /\ {n} \in SUBSET Nodes
    OBVIOUS
  <2>4. Before(G, m) = Before(G, n) + Weight[n]
    <3>1. PoolSize(earlier \cup {n}) = PoolSize(earlier) + PoolSize({n})
      BY <2>2, <2>3, PoolsAdd
    <3>2. PoolSize({n}) = Weight[n]
      BY PoolOfOne
    <3> QED
      BY <2>2, <3>1, <3>2 DEF Before
  <2>5. m \notin begun
    BY <1>1, <1>6, <2>4
  <2> QED
    BY <1>1, <2>4, <2>5
<1> QED
  BY <1>7, <1>8

\* A place of the pool is a copy of one node only.
LEMMA OneAtPlace ==
  ASSUME NEW G \in SUBSET Nodes, NEW m \in G, NEW n \in G, NEW index \in Nat,
         Before(G, m) <= index, index < Before(G, m) + Weight[m],
         Before(G, n) <= index, index < Before(G, n) + Weight[n]
  PROVE  m = n
<1>1. /\ Rank[m] \in Nat /\ Rank[n] \in Nat
      /\ m # n => Rank[m] # Rank[n]
  BY RouterAssumption
<1>2. Before(G, m) \in Nat /\ Before(G, n) \in Nat /\ Weight[m] \in Nat /\ Weight[n] \in Nat
  BY CopiesApart
<1>3. /\ Rank[m] < Rank[n] => Before(G, m) + Weight[m] <= Before(G, n)
      /\ Rank[n] < Rank[m] => Before(G, n) + Weight[n] <= Before(G, m)
  BY CopiesApart
<1> QED
  BY <1>1, <1>2, <1>3

\* A number is its quotient's multiple and its remainder.
LEMMA Division ==
  ASSUME NEW k \in Nat, NEW P \in Nat \ {0}
  PROVE  /\ k % P \in 0..(P - 1)
         /\ \E d \in Nat : k = P * d + (k % P)
<1>1. k % P \in 0..(P - 1)
  OBVIOUS
<1>2. k \div P \in Nat
  OBVIOUS
<1>3. k = P * (k \div P) + (k % P)
  OBVIOUS
<1> QED
  BY <1>1, <1>2, <1>3

\* Remainders of what is a multiple and less than one more.
LEMMA RemainderOf ==
  ASSUME NEW P \in Nat \ {0}, NEW d \in Nat, NEW i \in 0..(P - 1)
  PROVE  (d * P + i) % P = i
<1>1. PICK k \in Nat : k = d * P + i
  OBVIOUS
<1>2. PICK c \in Nat, j \in 0..(P - 1) : k = P * c + j /\ j = k % P
  BY Division
<1>3. P * (c - d) = i - j
  <2>1. P * (c - d) = P * c - d * P
    OBVIOUS
  <2>2. PICK x \in Int, y \in Int : x = P * c /\ y = d * P
    OBVIOUS
  <2>3. x + j = y + i
    BY <1>1, <1>2, <2>2
  <2>4. i \in Int /\ j \in Int
    BY <1>2
  <2>5. x - y = i - j
    BY <2>3, <2>4
  <2> QED
    BY <2>1, <2>2, <2>5
<1>4. c = d
  <2>1. ASSUME c - d >= 1 PROVE FALSE
    <3>1. P * (c - d) >= P
      BY <2>1
    <3> QED
      BY <1>2, <1>3, <3>1
  <2>2. ASSUME d - c >= 1 PROVE FALSE
    <3>1. P * (d - c) >= P
      BY <2>2
    <3>2. P * (d - c) = j - i
      BY <1>3
    <3> QED
      BY <1>2, <3>1, <3>2
  <2> QED
    BY <2>1, <2>2
<1>5. c - d = 0 /\ P * 0 = 0
  BY <1>2, <1>4
<1>6. i = j
  <2>1. i - j = 0
    BY <1>3, <1>5
  <2> QED
    BY <1>2, <2>1
<1> QED
  BY <1>1, <1>2, <1>6

\* Of as many numbers in a row as the pool has places, each place is the remainder of one.
LEMMA RemaindersOnce ==
  ASSUME NEW P \in Nat \ {0}, NEW start \in Nat, NEW a \in Nat, NEW w \in Nat, a + w <= P
  PROVE  Cardinality({k \in start..(start + P - 1) : a <= k % P /\ k % P < a + w}) = w
<1> DEFINE hits == {k \in start..(start + P - 1) : a <= k % P /\ k % P < a + w}
           places == a..(a + w - 1)
           f == [k \in hits |-> k % P]
<1>1. PICK q \in Nat, s \in 0..(P - 1) : start = q * P + s
  <2>1. PICK d \in Nat : start = P * d + (start % P) /\ start % P \in 0..(P - 1)
    BY Division
  <2>2. P * d = d * P
    OBVIOUS
  <2> QED
    BY <2>1, <2>2
<1>2. PICK base \in Nat : base = q * P /\ base + P = (q + 1) * P
  <2>1. q * P \in Nat /\ q * P + P = (q + 1) * P
    OBVIOUS
  <2> QED
    BY <2>1
<1>3. \A i \in 0..(P - 1) : (base + i) % P = i /\ (base + P + i) % P = i
  BY <1>2, RemainderOf
<1>4. ASSUME NEW k \in start..(start + P - 1)
      PROVE  /\ k % P \in Int
             /\ \/ k = base + (k % P) /\ s <= k % P
                \/ k = base + P + (k % P) /\ k % P < s
  <2>1. CASE k < base + P
    <3>1. k - base \in s..(P - 1) /\ k = base + (k - base) /\ k - base \in 0..(P - 1)
      BY <1>1, <1>2, <2>1
    <3> QED
      BY <1>3, <3>1
  <2>2. CASE k >= base + P
    <3>1. k - base - P \in 0..(s - 1) /\ k = base + P + (k - base - P)
          /\ k - base - P \in 0..(P - 1)
      BY <1>1, <1>2, <2>2
    <3> QED
      BY <1>3, <3>1, SMTT(30)
  <2> QED
    BY <1>2, <2>1, <2>2
<1>5. f \in [hits -> places]
  <2>1. ASSUME NEW k \in hits PROVE k % P \in places
    <3>1. k \in start..(start + P - 1) /\ a <= k % P /\ k % P < a + w
      OBVIOUS
    <3>2. k % P \in Int
      BY <1>4, <3>1
    <3> QED
      BY <3>1, <3>2
  <2> QED
    BY <2>1
<1>6. \A k, l \in hits : f[k] = f[l] => k = l
  <2> SUFFICES ASSUME NEW k \in hits, NEW l \in hits, k % P = l % P PROVE k = l
    OBVIOUS
  <2>1. k \in start..(start + P - 1) /\ l \in start..(start + P - 1)
    OBVIOUS
  <2>2. PICK i \in Int : i = k % P /\ i = l % P
    BY <1>4, <2>1
  <2>3. (k = base + i /\ s <= i) \/ (k = base + P + i /\ i < s)
    BY <1>4, <2>1, <2>2
  <2>4. (l = base + i /\ s <= i) \/ (l = base + P + i /\ i < s)
    BY <1>4, <2>1, <2>2
  <2> QED
    BY <1>1, <2>3, <2>4
<1>7. ASSUME NEW i \in places PROVE \E k \in hits : f[k] = i
  <2>1. i \in 0..(P - 1) /\ a <= i /\ i < a + w
    OBVIOUS
  <2>2. CASE i >= s
    <3>1. base + i \in start..(start + P - 1) /\ (base + i) % P = i
      BY <1>1, <1>2, <1>3, <2>1, <2>2
    <3>2. base + i \in hits
      BY <2>1, <3>1
    <3> QED
      BY <3>1, <3>2
  <2>3. CASE i < s
    <3>1. base + P + i \in start..(start + P - 1) /\ (base + P + i) % P = i
      BY <1>1, <1>2, <1>3, <2>1, <2>3
    <3>2. base + P + i \in hits
      BY <2>1, <3>1
    <3> QED
      BY <3>1, <3>2
  <2>4. i >= s \/ i < s
    BY <1>1, <2>1
  <2> QED
    BY <2>2, <2>3, <2>4
<1>8. IsFiniteSet(places) /\ Cardinality(places) = w
  BY Interval
<1> HIDE DEF f, hits, places
<1>9. f \in Injection(hits, places) /\ f \in Surjection(hits, places)
  BY <1>5, <1>6, <1>7 DEF Injection, Surjection, IsInjective
<1>10. Cardinality(hits) = Cardinality(places)
  BY <1>8, <1>9, FS_Injection
<1> QED
  BY <1>8, <1>10 DEF hits

\* Whose turn it is: the node whose copies the remainder of the cursor falls on.
LEMMA TurnMeans ==
  ASSUME NEW G \in SUBSET Nodes, NEW count \in Nat, NEW n \in G
  PROVE  n \in Turn(G, count) <=>
           /\ Before(G, n) <= count % PoolSize(G)
           /\ count % PoolSize(G) < Before(G, n) + Weight[n]
BY DEF Turn, Before

\* It is always the turn of exactly one node of a group.
THEOREM OneTurn ==
  ASSUME NEW G \in SUBSET Nodes, G # {}, NEW count \in Nat
  PROVE  \E n \in G : Turn(G, count) = {n}
<1>1. PoolSize(G) \in Nat \ {0}
  <2>1. PICK n \in G : TRUE
    OBVIOUS
  <2> QED
    BY CopiesApart
<1>2. PICK index \in Nat : index = count % PoolSize(G) /\ index < PoolSize(G)
  <2>1. PICK P \in Nat \ {0} : P = PoolSize(G)
    BY <1>1
  <2>2. count % P \in 0..(P - 1)
    BY Division
  <2> QED
    BY <2>1, <2>2
<1>3. PICK n \in G : Before(G, n) <= index /\ index < Before(G, n) + Weight[n]
  BY <1>2, PlaceOfPool
<1>4. \A m \in G : Before(G, m) <= index /\ index < Before(G, m) + Weight[m] => m = n
  BY <1>3, OneAtPlace
<1>5. Turn(G, count) = {m \in G : Before(G, m) <= index /\ index < Before(G, m) + Weight[m]}
  BY <1>2 DEF Turn, Before
<1> QED
  BY <1>3, <1>4, <1>5

\* The weighted rotation of _ordered_candidates is exact: wherever the cursor stands, the next
\* full turn of the pool gives each node of the group as many requests as its weight says.
THEOREM RotationIsFair ==
  ASSUME NEW G \in SUBSET Nodes, NEW n \in G, NEW start \in Nat
  PROVE  Cardinality({k \in start..(start + PoolSize(G) - 1) : n \in Turn(G, k)}) = Weight[n]
<1>1. PICK P, a, w : P = PoolSize(G) /\ a = Before(G, n) /\ w = Weight[n]
  OBVIOUS
<1>2. P \in Nat \ {0} /\ a \in Nat /\ w \in Nat /\ a + w <= P
  BY <1>1, CopiesApart
<1>3. {k \in start..(start + P - 1) : n \in Turn(G, k)}
        = {k \in start..(start + P - 1) : a <= k % P /\ k % P < a + w}
  <2>1. \A k \in start..(start + P - 1) : k \in Nat
    BY <1>2
  <2> QED
    BY <1>1, <2>1, TurnMeans
<1>4. Cardinality({k \in start..(start + P - 1) : a <= k % P /\ k % P < a + w}) = w
  BY <1>2, RemaindersOnce
<1> QED
  BY <1>1, <1>3, <1>4

\* A request with candidates has exactly one to try first, which is one of them.
PrimaryExists ==
  \A c \in Capabilities : Candidates(c) # {} => \E n \in Candidates(c) : Primary(c) = {n}

\* Whatever the health, the priorities and the weights, _ordered_candidates puts exactly one
\* candidate first, so a request with candidates calls one.
THEOREM OnePrimary == Spec => []PrimaryExists
<1>1. TypeOK => PrimaryExists
  <2> SUFFICES ASSUME TypeOK, NEW c \in Capabilities, Candidates(c) # {}
               PROVE  \E n \in Candidates(c) : Primary(c) = {n}
    BY DEF PrimaryExists
  <2>1. Candidates(c) \in SUBSET Nodes /\ Probes(c) \in SUBSET Candidates(c)
    BY DEF Candidates, Probes
  <2>2. \A m, n \in Nodes : Rank[m] \in Nat /\ Priority[m] \in Int /\ (m # n => Rank[m] # Rank[n])
    BY RouterAssumption
  <2>3. ASSUME NEW S \in SUBSET Nodes, S # {}
        PROVE  \E n \in S : \A m \in S : Rank[n] <= Rank[m]
    <3>1. {Rank[m] : m \in S} \in SUBSET Nat /\ {Rank[m] : m \in S} # {}
      BY <2>2, <2>3
    <3>2. PICK k \in {Rank[m] : m \in S} : \A l \in {Rank[m] : m \in S} : k <= l
      BY <3>1, LeastNumber
    <3> QED
      BY <3>2
  <2>4. CASE Probes(c) # {}
    <3>1. PICK n \in Probes(c) : \A m \in Probes(c) : Rank[n] <= Rank[m]
      BY <2>1, <2>3, <2>4
    <3>2. Best(Probes(c)) = {n}
      <4>1. ASSUME NEW m \in Best(Probes(c)) PROVE m = n
        <5>1. m \in Probes(c) /\ Rank[m] <= Rank[n]
          BY <4>1 DEF Best
        <5> QED
          BY <2>1, <2>2, <3>1, <5>1
      <4>2. n \in Best(Probes(c))
        BY <3>1 DEF Best
      <4> QED
        BY <4>1, <4>2
    <3>3. Primary(c) = {n}
      BY <2>4, <3>2 DEF Primary
    <3> QED
      BY <2>1, <3>3
  <2>5. CASE Probes(c) = {}
    <3>1. PICK n \in Candidates(c) : \A m \in Candidates(c) : Rank[n] <= Rank[m]
      BY <2>1, <2>3
    <3>2. \A m \in Candidates(c) : Priority[n] <= Priority[m]
      BY <2>1, <2>2, <3>1, RouterAssumption
    <3>3. PrimaryGroup(c) \in SUBSET Candidates(c) /\ PrimaryGroup(c) # {}
      BY <3>1, <3>2 DEF PrimaryGroup
    <3>4. cursor[<<c, PrimaryGroup(c)>>] \in Nat
      BY <2>1, <3>3 DEF TypeOK
    <3>5. \E m \in PrimaryGroup(c) : Turn(PrimaryGroup(c), cursor[<<c, PrimaryGroup(c)>>]) = {m}
      BY <2>1, <3>3, <3>4, OneTurn
    <3> QED
      BY <2>5, <3>3, <3>5 DEF Primary
  <2> QED
    BY <2>4, <2>5
<1> QED
  BY <1>1, TypeCorrect, PTL
=============================================================================
