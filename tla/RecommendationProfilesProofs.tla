-------------------- MODULE RecommendationProfilesProofs --------------------
(***************************************************************************)
(* Proofs about RecommendationProfiles, for any requests, batches and      *)
(* cleaners: the stored profile is the serial one, and 409 means that      *)
(* others came first, whatever a mutation does to a profile; and what the  *)
(* mutations do: each counts once, what was erased stays erased, and what  *)
(* expires is found.                                                       *)
(***************************************************************************)
EXTENDS RecommendationProfiles, WellFoundedInduction, FiniteSetTheorems, TLAPS

-----------------------------------------------------------------------------
(* Induction *)

\* A set of numbers has a least member.
LEMMA LeastMember ==
  ASSUME NEW S \in SUBSET Nat, S # {}
  PROVE  \E n \in S : \A m \in S : n <= m
<1>1. \E n \in S : \A m \in S : ~(<<m, n>> \in OpToRel(<, Nat))
  BY WFMin, NatLessThanWellFounded
<1>2. \A m, n \in Nat : m < n => <<m, n>> \in OpToRel(<, Nat)
  BY Zenon DEF OpToRel
<1>3. \A m, n \in S : ~(<<m, n>> \in OpToRel(<, Nat)) => ~(m < n)
  BY <1>2, Zenon
<1>4. \E n \in S : \A m \in S : ~(m < n)
  BY <1>1, <1>3, Zenon
<1> QED
  BY <1>4

\* Induction up to a bound, on the set of the numbers for which a statement holds: the
\* statement is read off the least number outside that set.
LEMMA InductionUpTo ==
  ASSUME NEW bound \in Nat, NEW S, 0 \in S,
         \A n \in 0..(bound - 1) : n \in S => n + 1 \in S
  PROVE  0..bound \subseteq S
<1> DEFINE T == 0..bound \ S
<1> SUFFICES ASSUME T # {} PROVE FALSE
  OBVIOUS
<1>1. PICK n \in T : \A m \in T : n <= m
  <2>1. T \in SUBSET Nat
    OBVIOUS
  <2> HIDE DEF T
  <2> QED
    BY <2>1, LeastMember
<1>2. n - 1 \in 0..(bound - 1) /\ n - 1 \in S
  BY <1>1
<1> QED
  BY <1>1, <1>2

-----------------------------------------------------------------------------
(* Finite sets of events and tags *)

\* A finite set between two others, of any size between theirs.
LEMMA ExtensionExists ==
  ASSUME NEW W, IsFiniteSet(W), NEW S \in SUBSET W, NEW n \in Nat,
         Cardinality(S) <= n, n <= Cardinality(W)
  PROVE  \E U \in SUBSET W : S \subseteq U /\ Cardinality(U) = n
<1> DEFINE base == Cardinality(S)
           room == n - base
           Steps == {k \in Nat : k <= room =>
                       \E U \in SUBSET W : S \subseteq U /\ Cardinality(U) = base + k}
<1>1. base \in Nat /\ room \in Nat
  BY FS_Subset, FS_CardinalityType
<1>2. 0 \in Steps
  BY <1>1
<1>3. ASSUME NEW k \in 0..(room - 1), k \in Steps PROVE k + 1 \in Steps
  <2>1. PICK U \in SUBSET W : S \subseteq U /\ Cardinality(U) = base + k
    BY <1>1, <1>3
  <2>2. U # W
    BY <1>1, <2>1
  <2>3. PICK x \in W : x \notin U
    BY <2>2
  <2>4. Cardinality(U \cup {x}) = base + (k + 1)
    BY <1>1, <2>1, <2>3, FS_Subset, FS_AddElement
  <2>5. U \cup {x} \in SUBSET W /\ S \subseteq U \cup {x}
    BY <2>1
  <2> HIDE DEF base, room
  <2> QED
    BY <2>4, <2>5
<1>4. 0..room \subseteq Steps
  <2> HIDE DEF Steps, room
  <2> QED
    BY <1>1, <1>2, <1>3, InductionUpTo
<1>5. room \in Steps
  BY <1>1, <1>4
<1> QED
  BY <1>1, <1>5

\* In a finite set of events one is the latest.
LEMMA LatestExists ==
  ASSUME NEW E, IsFiniteSet(E), E # {}, \A e \in E : e.at \in Nat
  PROVE  \E e \in E : \A f \in E : f.at <= e.at
<1> DEFINE size == Cardinality(E)
           Good(D) == D # {} => \E e \in D : \A f \in D : f.at <= e.at
           Sizes == {k \in Nat : \A D \in SUBSET E : Cardinality(D) = k => Good(D)}
<1>1. size \in Nat
  BY FS_CardinalityType
<1>2. 0 \in Sizes
  <2>1. \A D \in SUBSET E : Cardinality(D) = 0 => D = {}
    BY FS_Subset, FS_EmptySet
  <2> QED
    BY <2>1
<1>3. ASSUME NEW k \in 0..(size - 1), k \in Sizes PROVE k + 1 \in Sizes
  <2> SUFFICES ASSUME NEW D \in SUBSET E, Cardinality(D) = k + 1, D # {}
               PROVE  \E e \in D : \A f \in D : f.at <= e.at
    BY <1>1
  <2>1. PICK x \in D : TRUE
    OBVIOUS
  <2>2. Cardinality(D \ {x}) = k
    <3>1. IsFiniteSet(D)
      BY FS_Subset
    <3>2. Cardinality(D \ {x}) = Cardinality(D) - 1
      BY <2>1, <3>1, FS_RemoveElement
    <3>3. k \in Nat
      BY <1>1
    <3> QED
      BY <3>2, <3>3
  <2>3. Good(D \ {x})
    BY <1>3, <2>2
  <2>4. CASE D \ {x} = {}
    BY <2>1, <2>4
  <2>5. CASE D \ {x} # {}
    <3>1. PICK e \in D \ {x} : \A f \in D \ {x} : f.at <= e.at
      BY <2>3, <2>5
    <3>2. CASE x.at <= e.at
      BY <3>1, <3>2
    <3>3. CASE ~(x.at <= e.at)
      <4>1. \A f \in D : f.at <= x.at
        BY <3>1, <3>3
      <4> QED
        BY <4>1
    <3> QED
      BY <3>2, <3>3
  <2> QED
    BY <2>4, <2>5
<1>4. size \in Sizes
  <2> HIDE DEF Sizes, size
  <2>1. 0..size \subseteq Sizes
    BY <1>1, <1>2, <1>3, InductionUpTo
  <2> QED
    BY <1>1, <2>1
<1> QED
  BY <1>4

\* The newest n events of a finite set.
LEMMA NewestExists ==
  ASSUME NEW E, IsFiniteSet(E), \A e \in E : e.at \in Nat,
         NEW n \in Nat, n <= Cardinality(E)
  PROVE  \E N \in SUBSET E : /\ Cardinality(N) = n
                             /\ \A e \in N, f \in E \ N : f.at <= e.at
<1> DEFINE Sizes == {k \in Nat : \E N \in SUBSET E :
                       Cardinality(N) = k /\ \A e \in N, f \in E \ N : f.at <= e.at}
<1>1. 0 \in Sizes
  BY FS_EmptySet
<1>2. ASSUME NEW k \in 0..(n - 1), k \in Sizes PROVE k + 1 \in Sizes
  <2>1. PICK N \in SUBSET E : /\ Cardinality(N) = k
                              /\ \A e \in N, f \in E \ N : f.at <= e.at
    BY <1>2
  <2>2. IsFiniteSet(N) /\ IsFiniteSet(E \ N) /\ E \ N # {}
    <3>1. Cardinality(E) # k
      BY FS_CardinalityType
    <3> QED
      BY <2>1, <3>1, FS_Subset
  <2>3. PICK x \in E \ N : \A f \in E \ N : f.at <= x.at
    BY <2>2, LatestExists
  <2>4. Cardinality(N \cup {x}) = k + 1
    BY <2>1, <2>2, FS_AddElement
  <2>5. \A e \in N \cup {x}, f \in E \ (N \cup {x}) : f.at <= e.at
    BY <2>1, <2>3
  <2> QED
    BY <2>4, <2>5
<1>3. n \in Sizes
  <2> HIDE DEF Sizes
  <2>1. 0..n \subseteq Sizes
    BY <1>1, <1>2, InductionUpTo
  <2> QED
    BY <2>1
<1> QED
  BY <1>3

\* Newest leaves events out, and keeps to the limit.
LEMMA NewestLeavesOut ==
  ASSUME NEW E \in FiniteSubsets(Event)
  PROVE  /\ Newest(E) \in SUBSET E
         /\ Newest(E) \in FiniteSubsets(Event)
         /\ Cardinality(Newest(E)) <= EventLimit
<1>1. IsFiniteSet(E) /\ (\A e \in E : e.at \in Nat) /\ EventLimit \in Nat
  BY ProfileAssumption DEF FiniteSubsets, Event
<1>2. Cardinality(E) \in Nat
  BY <1>1, FS_CardinalityType
<1>3. Newest(E) \in SUBSET E /\ Cardinality(Newest(E)) <= EventLimit
  <2>1. CASE Cardinality(E) <= EventLimit
    BY <2>1 DEF Newest
  <2>2. CASE ~(Cardinality(E) <= EventLimit)
    <3>1. \E N \in SUBSET E : /\ Cardinality(N) = EventLimit
                              /\ \A e \in N, f \in E \ N : f.at <= e.at
      BY <1>1, <1>2, <2>2, NewestExists
    <3> QED
      BY <1>1, <2>2, <3>1 DEF Newest
  <2> QED
    BY <2>1, <2>2
<1> QED
  BY <1>1, <1>3, FS_Subset DEF FiniteSubsets

\* Extend adds tags, and keeps to the limit.
LEMMA ExtendAdds ==
  ASSUME NEW S \in FiniteSubsets(Tags), NEW T \in FiniteSubsets(Tags),
         Cardinality(S) <= TagLimit
  PROVE  /\ Extend(S, T) \in FiniteSubsets(Tags)
         /\ Extend(S, T) \in SUBSET (S \cup T)
         /\ Cardinality(Extend(S, T)) <= TagLimit
<1>1. IsFiniteSet(S \cup T) /\ S \cup T \in SUBSET Tags /\ TagLimit \in Nat
  BY ProfileAssumption, FS_Union DEF FiniteSubsets
<1>2. Cardinality(S \cup T) \in Nat
  BY <1>1, FS_CardinalityType
<1>3. Extend(S, T) \in SUBSET (S \cup T) /\ Cardinality(Extend(S, T)) <= TagLimit
  <2>1. CASE Cardinality(S \cup T) <= TagLimit
    BY <2>1 DEF Extend
  <2>2. CASE ~(Cardinality(S \cup T) <= TagLimit)
    <3>1. \E U \in SUBSET (S \cup T) : S \subseteq U /\ Cardinality(U) = TagLimit
      BY <1>1, <1>2, <2>2, ExtensionExists
    <3> QED
      BY <1>1, <2>2, <3>1 DEF Extend
  <2> QED
    BY <2>1, <2>2
<1> QED
  BY <1>1, <1>3, FS_Subset DEF FiniteSubsets

-----------------------------------------------------------------------------
(* What a mutation does to a profile *)

\* A profile with tags within their limit, none followed and hidden at once.
Shaped(p) ==
  /\ p \in Profile
  /\ Cardinality(p.followed) <= TagLimit
  /\ Cardinality(p.hidden) <= TagLimit
  /\ p.followed \cap p.hidden = {}

\* Also with events within their limit, all from after the last reset.
Sound(p) ==
  /\ Shaped(p)
  /\ Cardinality(p.events) <= EventLimit
  /\ \A e \in p.events : e.at > p.resetAt

LEMMA NewProfileSound == Sound(NewProfile)
<1>1. IsFiniteSet({}) /\ Cardinality({}) = 0
  BY FS_EmptySet
<1>2. NewProfile \in Profile
  BY <1>1 DEF NewProfile, Profile, FiniteSubsets
<1> QED
  BY <1>1, <1>2, ProfileAssumption DEF Sound, Shaped, NewProfile

\* Cleaning leaves events out, and nothing from before a reset in.
LEMMA CleanEventsSound ==
  ASSUME NEW p \in Profile, NEW at \in Nat
  PROVE  /\ CleanEvents(p, at) \in FiniteSubsets(Event)
         /\ Cardinality(CleanEvents(p, at)) <= EventLimit
         /\ \A e \in CleanEvents(p, at) : e.at > p.resetAt
<1> DEFINE current == {e \in p.events : Current(e, p, at)}
           latest == {e \in current : \A f \in current : SameSignal(e, f) => f.at <= e.at}
<1>1. p.events \in SUBSET Event /\ IsFiniteSet(p.events)
  BY DEF Profile, FiniteSubsets
<1>2. latest \in SUBSET p.events
  OBVIOUS
<1>3. latest \in FiniteSubsets(Event)
  <2> HIDE DEF latest
  <2> QED
    BY <1>1, <1>2, FS_Subset DEF FiniteSubsets
<1>4. \A e \in latest : e.at > p.resetAt
  BY DEF Current
<1>5. CleanEvents(p, at) = Newest(latest)
  BY DEF CleanEvents
<1> HIDE DEF latest
<1> QED
  BY <1>3, <1>4, <1>5, NewestLeavesOut

LEMMA CleanProfileSound ==
  ASSUME NEW p, Shaped(p), NEW at \in Nat
  PROVE  Sound(CleanProfile(p, at)) /\ CleanProfile(p, at).resetAt = p.resetAt
<1> DEFINE q == CleanProfile(p, at)
<1>1. p \in Profile
  BY DEF Shaped
<1>2. /\ q.events = CleanEvents(p, at) /\ q.resetAt = p.resetAt
      /\ q.followed = p.followed /\ q.hidden = p.hidden
      /\ q \in Profile
  BY <1>1, CleanEventsSound DEF CleanProfile, Profile
<1> QED
  BY <1>1, <1>2, CleanEventsSound DEF Sound, Shaped

\* Only a reset moves resetAt.
LEMMA EffectShaped ==
  ASSUME NEW p, Shaped(p), NEW m \in Mutation, NEW at \in Nat
  PROVE  /\ Shaped(Effect(p, m, at))
         /\ IF m.kind = "reset" THEN Effect(p, m, at).resetAt = Least(m.at, at)
            ELSE Effect(p, m, at).resetAt = p.resetAt
<1> DEFINE q == Effect(p, m, at)
<1>1. /\ p \in Profile /\ m.kind \in Kinds /\ m.at \in Nat /\ m.tag \in Tags
      /\ m.events \in FiniteSubsets(Event) /\ m.profile \in Profile
      /\ Cardinality(p.followed) <= TagLimit /\ Cardinality(p.hidden) <= TagLimit
      /\ p.followed \cap p.hidden = {}
  BY DEF Mutation, Shaped
<1>2. /\ p.events \in FiniteSubsets(Event) /\ p.followed \in FiniteSubsets(Tags)
      /\ p.hidden \in FiniteSubsets(Tags) /\ {m.tag} \in FiniteSubsets(Tags)
  BY <1>1, FS_Singleton DEF Profile, FiniteSubsets
\* Fewer tags and more events are still finitely many.
<1>3. ASSUME NEW S \in FiniteSubsets(Tags), NEW T
      PROVE  /\ S \ T \in FiniteSubsets(Tags)
             /\ Cardinality(S) <= TagLimit => Cardinality(S \ T) <= TagLimit
  <2>1. /\ IsFiniteSet(S \ T) /\ Cardinality(S \ T) <= Cardinality(S)
        /\ Cardinality(S) \in Nat /\ Cardinality(S \ T) \in Nat
    BY <1>3, FS_Subset, FS_CardinalityType DEF FiniteSubsets
  <2> QED
    BY <1>3, <2>1, ProfileAssumption DEF FiniteSubsets
<1>4. ASSUME NEW D \in FiniteSubsets(Event), NEW E \in FiniteSubsets(Event)
      PROVE  D \cup E \in FiniteSubsets(Event)
  BY <1>4, FS_Union DEF FiniteSubsets
<1>5. CASE m.kind = "reset"
  <2>1. q = [NewProfile EXCEPT !.enabled = p.enabled, !.resetAt = Least(m.at, at)]
    BY <1>5 DEF Effect
  <2>2. Shaped(NewProfile)
    BY NewProfileSound DEF Sound
  <2>3. Least(m.at, at) \in Nat
    BY <1>1 DEF Least
  <2> QED
    BY <1>1, <1>5, <2>1, <2>2, <2>3 DEF Shaped, Profile
<1>6. CASE m.kind \in {"enable", "disable"}
  <2>1. q = [p EXCEPT !.enabled = (m.kind = "enable")]
    BY <1>6 DEF Effect
  <2> QED
    BY <1>1, <1>6, <2>1 DEF Shaped, Profile
<1>7. CASE m.kind = "record"
  <2>1. q = [p EXCEPT !.events = @ \cup m.events] \/ q = p
    BY <1>7 DEF Effect
  <2>2. p.events \cup m.events \in FiniteSubsets(Event)
    BY <1>1, <1>2, <1>4
  <2> QED
    BY <1>1, <1>7, <2>1, <2>2 DEF Shaped, Profile
<1>8. CASE m.kind = "merge"
  <2> DEFINE incoming == CleanProfile(m.profile, at)
             hidden == Extend(p.hidden, incoming.hidden)
             followed == Extend(p.followed, incoming.followed)
  <2>1. /\ incoming.events \in FiniteSubsets(Event)
        /\ incoming.hidden \in FiniteSubsets(Tags)
        /\ incoming.followed \in FiniteSubsets(Tags)
    BY <1>1, CleanEventsSound DEF CleanProfile, Profile
  <2>2. q = [p EXCEPT !.events = IF p.enabled THEN @ \cup incoming.events ELSE @,
                      !.hidden = hidden, !.followed = followed \ hidden]
    BY <1>8 DEF Effect, Merge
  <2>3. /\ hidden \in FiniteSubsets(Tags) /\ Cardinality(hidden) <= TagLimit
        /\ followed \in FiniteSubsets(Tags) /\ Cardinality(followed) <= TagLimit
    BY <1>1, <1>2, <2>1, ExtendAdds
  <2>4. /\ followed \ hidden \in FiniteSubsets(Tags)
        /\ Cardinality(followed \ hidden) <= TagLimit
    BY <1>3, <2>3
  <2>5. p.events \cup incoming.events \in FiniteSubsets(Event)
    BY <1>2, <1>4, <2>1
  <2> HIDE DEF incoming, hidden, followed
  <2> QED
    BY <1>1, <1>2, <1>8, <2>2, <2>3, <2>4, <2>5 DEF Shaped, Profile
<1>9. CASE m.kind = "follow"
  <2> DEFINE followed == Extend(p.followed, {m.tag})
  <2>1. q = [p EXCEPT !.followed = followed, !.hidden = @ \ {m.tag}]
    BY <1>9 DEF Effect
  <2>2. /\ followed \in FiniteSubsets(Tags) /\ Cardinality(followed) <= TagLimit
        /\ followed \in SUBSET (p.followed \cup {m.tag})
    BY <1>1, <1>2, ExtendAdds
  <2>3. /\ p.hidden \ {m.tag} \in FiniteSubsets(Tags)
        /\ Cardinality(p.hidden \ {m.tag}) <= TagLimit
    BY <1>1, <1>2, <1>3
  <2> HIDE DEF followed
  <2>4. followed \cap (p.hidden \ {m.tag}) = {}
    BY <1>1, <2>2
  <2> QED
    BY <1>1, <1>9, <2>1, <2>2, <2>3, <2>4 DEF Shaped, Profile
<1>10. CASE m.kind = "unfollow"
  <2>1. q = [p EXCEPT !.followed = @ \ {m.tag}]
    BY <1>10 DEF Effect
  <2>2. /\ p.followed \ {m.tag} \in FiniteSubsets(Tags)
        /\ Cardinality(p.followed \ {m.tag}) <= TagLimit
    BY <1>1, <1>2, <1>3
  <2> QED
    BY <1>1, <1>10, <2>1, <2>2 DEF Shaped, Profile
<1>11. CASE m.kind = "hide"
  <2> DEFINE hidden == Extend(p.hidden, {m.tag})
  <2>1. q = [p EXCEPT !.hidden = hidden, !.followed = @ \ {m.tag}]
    BY <1>11 DEF Effect, Hide
  <2>2. /\ hidden \in FiniteSubsets(Tags) /\ Cardinality(hidden) <= TagLimit
        /\ hidden \in SUBSET (p.hidden \cup {m.tag})
    BY <1>1, <1>2, ExtendAdds
  <2>3. /\ p.followed \ {m.tag} \in FiniteSubsets(Tags)
        /\ Cardinality(p.followed \ {m.tag}) <= TagLimit
    BY <1>1, <1>2, <1>3
  <2> HIDE DEF hidden
  <2>4. (p.followed \ {m.tag}) \cap hidden = {}
    BY <1>1, <2>2
  <2> QED
    BY <1>1, <1>11, <2>1, <2>2, <2>3, <2>4 DEF Shaped, Profile
<1>12. CASE m.kind = "unhide"
  <2>1. q = [p EXCEPT !.hidden = @ \ {m.tag}]
    BY <1>12 DEF Effect
  <2>2. /\ p.hidden \ {m.tag} \in FiniteSubsets(Tags)
        /\ Cardinality(p.hidden \ {m.tag}) <= TagLimit
    BY <1>1, <1>2, <1>3
  <2> QED
    BY <1>1, <1>12, <2>1, <2>2 DEF Shaped, Profile
<1> QED
  BY <1>1, <1>5, <1>6, <1>7, <1>8, <1>9, <1>10, <1>11, <1>12 DEF Kinds

\* A mutation leaves a sound profile, and moves resetAt back only if it is a reset from
\* a clock that is ahead.
LEMMA ApplyMutationSound ==
  ASSUME NEW p, Sound(p), NEW m \in Mutation, NEW at \in Nat
  PROVE  /\ Sound(ApplyMutation(p, m, at))
         /\ ApplyMutation(p, m, at).resetAt < p.resetAt => m.kind = "reset" /\ m.at > at
<1> DEFINE clean == CleanProfile(p, at)
           effect == Effect(clean, m, at)
<1>1. Sound(clean) /\ clean.resetAt = p.resetAt
  BY CleanProfileSound DEF Sound
<1>2. p.resetAt \in Nat \cup {Never} /\ m.at \in Nat
  BY DEF Sound, Shaped, Profile, Mutation
<1>3. CASE ~Applicable(clean, m, at)
  <2>1. ApplyMutation(p, m, at) = clean
    BY <1>3 DEF ApplyMutation
  <2> HIDE DEF clean
  <2> QED
    BY <1>1, <1>2, <2>1 DEF Never
<1>4. CASE Applicable(clean, m, at)
  <2>1. ApplyMutation(p, m, at) = CleanProfile(effect, at)
    BY <1>4 DEF ApplyMutation
  <2>2. /\ Shaped(effect)
        /\ IF m.kind = "reset" THEN effect.resetAt = Least(m.at, at)
           ELSE effect.resetAt = p.resetAt
    BY <1>1, EffectShaped DEF Sound
  <2>3. /\ Sound(ApplyMutation(p, m, at))
        /\ ApplyMutation(p, m, at).resetAt = effect.resetAt
    BY <2>1, <2>2, CleanProfileSound
  <2>4. m.at > p.resetAt
    BY <1>1, <1>4 DEF Applicable
  <2> HIDE DEF effect
  <2> QED
    BY <1>2, <2>2, <2>3, <2>4 DEF Least, Never
<1> QED
  BY <1>3, <1>4

-----------------------------------------------------------------------------
(* Receipts *)

Distinct(s) == \A i, j \in DOMAIN s : s[i] = s[j] => i = j

\* A list of at most n ids, none twice.
Register(s, n) == s \in Seq(Ids) /\ Len(s) <= n /\ Distinct(s)

\* The last n of a list and one more: who drops out of it leaves a full list.
LEMMA KeepLastRegister ==
  ASSUME NEW n \in Nat \ {0}, NEW s, Register(s, n), NEW x \in Ids, x \notin ToSet(s)
  PROVE  LET kept == KeepLast(Append(s, x), n)
         IN  /\ Register(kept, n)
             /\ ToSet(kept) \in SUBSET (ToSet(s) \cup {x})
             /\ x \in ToSet(kept)
             /\ \A y \in ToSet(s) : y \in ToSet(kept) \/ Len(kept) = n
<1> DEFINE long == Append(s, x)
           kept == KeepLast(long, n)
<1>1. /\ s \in Seq(Ids) /\ Len(s) \in Nat /\ Len(s) <= n /\ DOMAIN s = 1..Len(s)
      /\ \A i, j \in 1..Len(s) : s[i] = s[j] => i = j
      /\ \A i \in 1..Len(s) : s[i] # x
  BY DEF Register, Distinct, ToSet
<1>2. /\ long \in Seq(Ids) /\ Len(long) = Len(s) + 1 /\ DOMAIN long = 1..(Len(s) + 1)
      /\ \A i \in 1..(Len(s) + 1) : long[i] = IF i <= Len(s) THEN s[i] ELSE x
  BY <1>1
<1>3. Distinct(long)
  <2> HIDE DEF long
  <2> QED
    BY <1>1, <1>2 DEF Distinct
<1>4. CASE Len(long) <= n
  <2>1. kept = long
    BY <1>4 DEF KeepLast
  <2>2. Register(kept, n)
    BY <1>2, <1>3, <1>4, <2>1 DEF Register
  <2>3. ToSet(kept) = ToSet(s) \cup {x}
    <3> HIDE DEF long
    <3> QED
      BY <1>1, <1>2, <2>1 DEF ToSet
  <2> QED
    BY <2>2, <2>3
<1>5. CASE ~(Len(long) <= n)
  <2>1. Len(s) = n /\ kept = SubSeq(long, 2, n + 1)
    <3>1. kept = SubSeq(long, Len(long) - n + 1, Len(long))
      BY <1>5 DEF KeepLast
    <3> HIDE DEF kept, long
    <3>2. Len(s) = n
      <4>1. Len(s) \in Nat /\ Len(s) <= n
        BY <1>1
      <4>2. Len(long) = Len(s) + 1
        BY <1>2
      <4> QED
        BY <1>5, <4>1, <4>2
    <3>3. Len(long) - n + 1 = 2 /\ Len(long) = n + 1
      BY <1>2, <3>2
    <3> QED
      BY <3>1, <3>2, <3>3
  <2>2. /\ kept \in Seq(Ids) /\ Len(kept) = n /\ DOMAIN kept = 1..n
        /\ \A i \in 1..n : kept[i] = long[i + 1]
    <3> HIDE DEF long, kept
    <3> QED
      BY <1>2, <2>1
  <2> HIDE DEF long, kept
  <2>3. Distinct(kept)
    BY <1>2, <1>3, <2>1, <2>2, SMTT(30) DEF Distinct
  <2>4. ToSet(kept) \in SUBSET (ToSet(s) \cup {x})
    <3>1. ASSUME NEW i \in 1..n PROVE kept[i] \in ToSet(s) \cup {x}
      <4>1. kept[i] = long[i + 1] /\ i + 1 \in 1..(Len(s) + 1)
        BY <2>1, <2>2
      <4>2. long[i + 1] \in {s[j] : j \in 1..Len(s)} \cup {x}
        BY <1>1, <1>2, <4>1
      <4> QED
        BY <1>1, <4>1, <4>2 DEF ToSet
    <3> QED
      BY <2>2, <3>1 DEF ToSet
  <2>5. kept[n] = x
    BY <1>2, <2>1, <2>2
  <2>6. x \in ToSet(kept)
    BY <2>2, <2>5 DEF ToSet
  <2>7. Register(kept, n)
    BY <2>2, <2>3 DEF Register
  <2> QED
    BY <2>2, <2>4, <2>6, <2>7 DEF kept, long
<1> QED
  BY <1>2, <1>4, <1>5

\* A list without repetitions has as many members as places.
LEMMA RegisterSize ==
  ASSUME NEW n \in Nat, NEW s, Register(s, n)
  PROVE  IsFiniteSet(ToSet(s)) /\ Cardinality(ToSet(s)) = Len(s)
<1>1. /\ s \in Seq(Ids) /\ Len(s) \in Nat /\ DOMAIN s = 1..Len(s)
      /\ \A i, j \in 1..Len(s) : s[i] = s[j] => i = j
  BY DEF Register, Distinct
<1>2. s \in Bijection(1..Len(s), ToSet(s))
  BY <1>1 DEF Bijection, Injection, Surjection, IsInjective, ToSet
<1>3. ExistsBijection(1..Len(s), ToSet(s))
  BY <1>2 DEF ExistsBijection
<1> QED
  BY <1>1, <1>3, FS_CountingElements, FS_NatBijection

-----------------------------------------------------------------------------
(* What a batch does to a document *)

USE StoreAssumption DEF Moments

DocumentSound(d) ==
  /\ d \in Document
  /\ Sound(d.profile)
  /\ Register(d.receipts, ReceiptLimit)
  /\ Register(d.imports, ImportLimit)

\* d remembers that the mutations in A have been applied: it forgets one only when its
\* list is full.
Remembers(d, A) ==
  /\ ToSet(d.receipts) \in SUBSET A
  /\ ToSet(d.imports) \in SUBSET (A \cap MergeIds)
  /\ \A i \in A : i \in ToSet(d.receipts) \/ Len(d.receipts) = ReceiptLimit
  /\ \A i \in A \cap MergeIds : i \in ToSet(d.imports) \/ Len(d.imports) = ImportLimit

\* So many mutations in A that i may have been forgotten.
Many(i, A) ==
  IF i \in MergeIds THEN Cardinality(A \cap MergeIds) > ImportLimit
  ELSE Cardinality(A) > ReceiptLimit

LEMMA ManyMore ==
  ASSUME NEW A, NEW B, A \subseteq B, IsFiniteSet(B), NEW i, Many(i, A)
  PROVE  Many(i, B)
<1>1. /\ IsFiniteSet(A) /\ IsFiniteSet(B \cap MergeIds) /\ IsFiniteSet(A \cap MergeIds)
      /\ Cardinality(A) <= Cardinality(B)
      /\ Cardinality(A \cap MergeIds) <= Cardinality(B \cap MergeIds)
  <2>1. IsFiniteSet(B \cap MergeIds)
    BY FS_Intersection
  <2>2. A \in SUBSET B /\ A \cap MergeIds \in SUBSET (B \cap MergeIds)
    OBVIOUS
  <2> QED
    BY <2>1, <2>2, FS_Subset
<1>2. /\ Cardinality(A) \in Nat /\ Cardinality(B) \in Nat
      /\ Cardinality(A \cap MergeIds) \in Nat /\ Cardinality(B \cap MergeIds) \in Nat
  BY <1>1, FS_CardinalityType
<1> QED
  BY <1>1, <1>2 DEF Many

\* A full list, and one that is not on it.
LEMMA FullAndOneMore ==
  ASSUME NEW n \in Nat, NEW s, Register(s, n), Len(s) = n,
         NEW A, IsFiniteSet(A), ToSet(s) \subseteq A, NEW x \in A, x \notin ToSet(s)
  PROVE  Cardinality(A) > n
<1>1. IsFiniteSet(ToSet(s)) /\ Cardinality(ToSet(s)) = n
  BY RegisterSize
<1>2. Cardinality(ToSet(s) \cup {x}) = n + 1
  BY <1>1, FS_AddElement
<1>3. ToSet(s) \cup {x} \in SUBSET A
  OBVIOUS
<1> QED
  BY <1>2, <1>3, FS_Subset, FS_CardinalityType

\* What a mutation adds to the applied ones.
Adds(d, m) == IF Known(d, m) THEN {} ELSE {m.id}

\* Receiving a mutation keeps a document sound and its memory good.
LEMMA ReceiveSound ==
  ASSUME NEW d, DocumentSound(d), NEW m \in Mutation, NEW at \in Nat,
         (m.kind = "merge") = (m.id \in MergeIds),
         NEW A, IsFiniteSet(A), Remembers(d, A)
  PROVE  /\ DocumentSound(Receive(d, m, at))
         /\ IsFiniteSet(A \cup Adds(d, m))
         /\ Remembers(Receive(d, m, at), A \cup Adds(d, m))
         /\ ~Known(d, m) /\ m.id \in A => Many(m.id, A)
         /\ Receive(d, m, at).profile.resetAt < d.profile.resetAt =>
              m.kind = "reset" /\ m.at > at
<1> DEFINE e == Receive(d, m, at)
<1>1. /\ d.receipts \in Seq(Ids) /\ d.imports \in Seq(Ids) /\ Sound(d.profile)
      /\ m.id \in Ids /\ d.profile.resetAt \in Int
  BY DEF DocumentSound, Document, Mutation, Sound, Shaped, Profile, Never
<1>2. IsFiniteSet(A \cup Adds(d, m))
  <2>1. IsFiniteSet(A \cup {m.id}) /\ A \cup {} = A
    BY FS_AddElement
  <2> QED
    BY <2>1 DEF Adds
<1>3. CASE Known(d, m)
  <2>1. e = d /\ Adds(d, m) = {}
    BY <1>3 DEF Receive, Adds
  <2>2. A \cup Adds(d, m) = A
    BY <2>1
  <2> QED
    BY <1>1, <1>2, <1>3, <2>1, <2>2
<1>4. CASE ~Known(d, m)
  <2> DEFINE receipts == KeepLast(Append(d.receipts, m.id), ReceiptLimit)
             imports == IF m.kind = "merge"
                        THEN KeepLast(Append(d.imports, m.id), ImportLimit)
                        ELSE d.imports
  <2>1. /\ m.id \notin ToSet(d.receipts)
        /\ m.id \in MergeIds => m.id \notin ToSet(d.imports)
    <3>1. /\ DOMAIN d.receipts = 1..Len(d.receipts)
          /\ DOMAIN d.imports = 1..Len(d.imports)
      BY <1>1
    <3>2. m.id \in MergeIds => m.kind = "merge"
      OBVIOUS
    <3> QED
      BY <1>4, <3>1, <3>2 DEF Known, Contains, ToSet
  <2>2. /\ e.profile = ApplyMutation(d.profile, m, at)
        /\ e.receipts = receipts /\ e.imports = imports
        /\ e = [profile |-> e.profile, receipts |-> e.receipts, imports |-> e.imports]
    BY <1>4 DEF Receive
  <2>3. Adds(d, m) = {m.id}
    BY <1>4 DEF Adds
  <2>4. /\ Sound(e.profile)
        /\ e.profile.resetAt < d.profile.resetAt => m.kind = "reset" /\ m.at > at
    BY <1>1, <2>2, ApplyMutationSound
  <2>5. /\ Register(receipts, ReceiptLimit)
        /\ ToSet(receipts) \in SUBSET (ToSet(d.receipts) \cup {m.id})
        /\ m.id \in ToSet(receipts)
        /\ \A i \in ToSet(d.receipts) : i \in ToSet(receipts) \/ Len(receipts) = ReceiptLimit
    BY <1>1, <2>1, KeepLastRegister DEF DocumentSound
  <2>6. /\ Register(imports, ImportLimit)
        /\ ToSet(imports) \in SUBSET (ToSet(d.imports) \cup ({m.id} \cap MergeIds))
        /\ m.id \in MergeIds => m.id \in ToSet(imports)
        /\ \A i \in ToSet(d.imports) : i \in ToSet(imports) \/ Len(imports) = ImportLimit
    <3>1. CASE m.kind = "merge"
      BY <1>1, <2>1, <3>1, KeepLastRegister DEF DocumentSound
    <3>2. CASE m.kind # "merge"
      BY <3>2 DEF DocumentSound
    <3> QED
      BY <3>1, <3>2
\* A list that was full stays full.
  <2>7. /\ Len(d.receipts) = ReceiptLimit => Len(receipts) = ReceiptLimit
        /\ Len(d.imports) = ImportLimit => Len(imports) = ImportLimit
    <3>1. ASSUME NEW s \in Seq(Ids), NEW n \in Nat, Len(s) = n
          PROVE  Len(KeepLast(Append(s, m.id), n)) = n
      BY <1>1, <3>1 DEF KeepLast
    <3> QED
      BY <1>1, <3>1
  <2> HIDE DEF receipts, imports, e
  <2>8. DocumentSound(e)
    <3>1. e.profile \in Profile /\ receipts \in Seq(Ids) /\ imports \in Seq(Ids)
      BY <2>4, <2>5, <2>6 DEF Sound, Shaped, Register
    <3> QED
      BY <2>2, <2>4, <2>5, <2>6, <3>1 DEF DocumentSound, Document
  <2>9. Remembers(e, A \cup {m.id})
    BY <2>2, <2>5, <2>6, <2>7 DEF Remembers
  <2>10. m.id \in A => Many(m.id, A)
    <3> SUFFICES ASSUME m.id \in A PROVE Many(m.id, A)
      OBVIOUS
    <3>1. CASE m.id \in MergeIds
      <4>1. m.id \in A \cap MergeIds /\ m.id \notin ToSet(d.imports)
        BY <2>1, <3>1
      <4>2. /\ Register(d.imports, ImportLimit) /\ Len(d.imports) = ImportLimit
            /\ ToSet(d.imports) \subseteq A \cap MergeIds
        BY <4>1 DEF Remembers, DocumentSound
      <4>3. IsFiniteSet(A \cap MergeIds)
        BY FS_Intersection
      <4>4. Cardinality(A \cap MergeIds) > ImportLimit
        BY <4>1, <4>2, <4>3, FullAndOneMore
      <4> QED
        BY <3>1, <4>4 DEF Many
    <3>2. CASE m.id \notin MergeIds
      <4>1. /\ Register(d.receipts, ReceiptLimit) /\ Len(d.receipts) = ReceiptLimit
            /\ ToSet(d.receipts) \subseteq A
        BY <2>1 DEF Remembers, DocumentSound
      <4>2. Cardinality(A) > ReceiptLimit
        BY <2>1, <4>1, FullAndOneMore
      <4> QED
        BY <3>2, <4>2 DEF Many
    <3> QED
      BY <3>1, <3>2
  <2> QED
    BY <1>2, <2>3, <2>4, <2>8, <2>9, <2>10 DEF e
<1> QED
  BY <1>3, <1>4

\* The documents in After are those that one mutation after the other leaves.
LEMMA AfterUnfolds ==
  ASSUME NEW d, NEW batch \in Seq(Mutation), NEW at
  PROVE  LET doc == After(d, batch, at)
         IN  /\ doc[0] = d
             /\ \A n \in 1..Len(batch) : doc[n] = Receive(doc[n - 1], batch[n], at)
<1> DEFINE Unfolds(f, k) ==
             f = [n \in 0..k |-> IF n = 0 THEN d ELSE Receive(f[n - 1], batch[n], at)]
           Lengths == {k \in Nat : \E f : Unfolds(f, k)}
<1>1. Len(batch) \in Nat
  OBVIOUS
<1>2. 0 \in Lengths
  <2> DEFINE f == [n \in 0..0 |-> d]
  <2>1. Unfolds(f, 0)
    OBVIOUS
  <2> QED
    BY <2>1
<1>3. ASSUME NEW k \in 0..(Len(batch) - 1), k \in Lengths PROVE k + 1 \in Lengths
  <2>1. PICK f : Unfolds(f, k)
    BY <1>3
  <2> DEFINE g == [n \in 0..(k + 1) |->
                     IF n <= k THEN f[n] ELSE Receive(f[k], batch[k + 1], at)]
             h == [n \in 0..(k + 1) |->
                     IF n = 0 THEN d ELSE Receive(g[n - 1], batch[n], at)]
  <2>2. ASSUME NEW n \in 0..(k + 1) PROVE g[n] = h[n]
    <3>1. CASE n = 0
      <4>1. f[0] = d
        BY <2>1
      <4> QED
        BY <3>1, <4>1
    <3>2. CASE n \in 1..k
      <4>1. f[n] = Receive(f[n - 1], batch[n], at)
        BY <2>1, <3>2
      <4>2. g[n] = f[n] /\ g[n - 1] = f[n - 1]
        BY <3>2
      <4> HIDE DEF g
      <4> QED
        BY <3>2, <4>1, <4>2
    <3>3. CASE n = k + 1
      <4>1. g[n] = Receive(f[k], batch[k + 1], at) /\ g[n - 1] = f[k]
        BY <3>3
      <4> HIDE DEF g
      <4> QED
        BY <3>3, <4>1
    <3> QED
      BY <3>1, <3>2, <3>3
  <2>3. g = h
    BY <2>2
  <2>4. Unfolds(g, k + 1)
    <3> HIDE DEF g
    <3> QED
      BY <2>3
  <2>5. \E f1 : Unfolds(f1, k + 1)
    <3> HIDE DEF g, Unfolds
    <3> QED
      BY <2>4
  <2> HIDE DEF Unfolds
  <2> QED
    BY <2>5
<1>4. \E f : Unfolds(f, Len(batch))
  <2> HIDE DEF Lengths
  <2>1. 0..Len(batch) \subseteq Lengths
    BY <1>1, <1>2, <1>3, InductionUpTo
  <2>2. Len(batch) \in Lengths
    BY <1>1, <2>1
  <2> QED
    BY <2>2 DEF Lengths
<1>5. After(d, batch, at) = CHOOSE f : Unfolds(f, Len(batch))
  BY DEF After
<1>6. Unfolds(After(d, batch, at), Len(batch))
  <2> HIDE DEF Unfolds
  <2> QED
    BY <1>4, <1>5
<1> DEFINE doc == After(d, batch, at)
<1>7. /\ doc[0] = d
      /\ \A n \in 1..Len(batch) : doc[n] = Receive(doc[n - 1], batch[n], at)
  <2> HIDE DEF doc
  <2>1. Unfolds(doc, Len(batch))
    BY <1>6 DEF doc
  <2> QED
    BY <1>1, <2>1
<1> QED
  BY <1>7

\* A batch that only has ids of imports on imports.
Genuine(batch) ==
  /\ batch \in Seq(Mutation)
  /\ \A k \in 1..Len(batch) : (batch[k].kind = "merge") = (batch[k].id \in MergeIds)

LEMMA ImportsAlone ==
  ASSUME NEW r \in Requests, NEW k \in 1..Len(Batch[r])
  PROVE  (Batch[r][k].kind = "merge") = (Batch[r][k].id \in MergeIds)
<1>1. Batch[r] \in Seq(Mutation) /\ k \in DOMAIN Batch[r]
  OBVIOUS
<1>3. Batch[r][k].kind = "merge" => Batch[r][k].id \in MergeIds
  BY <1>1 DEF MergeIds, ToSet
<1>4. ASSUME Batch[r][k].id \in MergeIds PROVE Batch[r][k].kind = "merge"
  <2>1. PICK q \in Requests : \E j \in DOMAIN Batch[q] :
          Batch[q][j].kind = "merge" /\ Batch[q][j].id = Batch[r][k].id
    BY <1>4 DEF MergeIds, ToSet
  <2> QED
    BY <1>1, <2>1, IdsAssumption
<1> QED
  BY <1>3, <1>4

LEMMA BatchGenuine == \A r \in Requests : Genuine(Batch[r])
BY ImportsAlone DEF Genuine

\* The mutations that the first n of a batch apply.
Taken(d, batch, at, n) ==
  {batch[k].id : k \in {j \in 1..n : ~Known(After(d, batch, at)[j - 1], batch[j])}}

\* A late reset among the first n.
ResetAhead(batch, at, n) ==
  \E k \in 1..n : batch[k].kind = "reset" /\ batch[k].at > at

LEMMA AfterSound ==
  ASSUME NEW batch, Genuine(batch), NEW d, DocumentSound(d), NEW at \in Nat,
         NEW A, IsFiniteSet(A), Remembers(d, A),
         NEW n \in 0..Len(batch)
  PROVE  LET e == After(d, batch, at)[n]
             B == A \cup Taken(d, batch, at, n)
         IN  /\ DocumentSound(e)
             /\ IsFiniteSet(B)
             /\ Remembers(e, B)
             /\ \A i \in A \cap Taken(d, batch, at, n) : Many(i, B)
             /\ e.profile.resetAt < d.profile.resetAt => ResetAhead(batch, at, n)
<1> DEFINE doc == After(d, batch, at)
           T(k) == Taken(d, batch, at, k)
           Good(k) == /\ DocumentSound(doc[k])
                      /\ IsFiniteSet(A \cup T(k))
                      /\ Remembers(doc[k], A \cup T(k))
                      /\ \A i \in A \cap T(k) : Many(i, A \cup T(k))
                      /\ doc[k].profile.resetAt < d.profile.resetAt =>
                           ResetAhead(batch, at, k)
           Lengths == {k \in Nat : k <= Len(batch) => Good(k)}
<1>1. /\ doc[0] = d
      /\ \A k \in 1..Len(batch) : doc[k] = Receive(doc[k - 1], batch[k], at)
      /\ Len(batch) \in Nat
  <2>1. batch \in Seq(Mutation)
    BY DEF Genuine
  <2>2. doc[0] = d
    BY <2>1, AfterUnfolds
  <2>3. \A k \in 1..Len(batch) : doc[k] = Receive(doc[k - 1], batch[k], at)
    BY <2>1, AfterUnfolds
  <2>4. Len(batch) \in Nat
    BY <2>1
  <2> QED
    BY <2>2, <2>3, <2>4
<1>2. T(0) = {}
  BY DEF Taken
<1>3. ASSUME NEW k \in 0..(Len(batch) - 1)
      PROVE  T(k + 1) = T(k) \cup Adds(doc[k], batch[k + 1])
  <2>1. /\ \A j \in 1..(k + 1) : j \in 1..k \/ j = k + 1
        /\ \A j \in 1..k : j \in 1..(k + 1)
        /\ k + 1 \in 1..(k + 1) /\ k + 1 \notin 1..k /\ k + 1 - 1 = k
    BY <1>1
  <2> QED
    BY <2>1 DEF Taken, Adds
<1> HIDE DEF doc, T
<1>4. 0 \in Lengths
  <2>1. ~(doc[0].profile.resetAt < d.profile.resetAt)
    BY <1>1 DEF DocumentSound, Sound, Shaped, Profile, Never
  <2>2. A \cup T(0) = A
    BY <1>2
  <2> QED
    BY <1>1, <1>2, <2>1, <2>2
<1> HIDE DEF Good
<1>5. ASSUME NEW k \in 0..(Len(batch) - 1), k \in Lengths PROVE k + 1 \in Lengths
  <2> DEFINE m == batch[k + 1]
             B == A \cup T(k)
             C == B \cup Adds(doc[k], m)
  <2>1. Good(k) /\ k + 1 \in 1..Len(batch) /\ k \in Nat
    BY <1>1, <1>5
  <2>2. m \in Mutation /\ (m.kind = "merge") = (m.id \in MergeIds)
    BY <2>1 DEF Genuine
  <2>3. doc[k + 1] = Receive(doc[k], m, at)
    BY <1>1, <2>1
  <2>4. A \cup T(k + 1) = C
    BY <1>3
  <2> HIDE DEF m
  <2>5. /\ DocumentSound(Receive(doc[k], m, at))
        /\ IsFiniteSet(C)
        /\ Remembers(Receive(doc[k], m, at), C)
        /\ ~Known(doc[k], m) /\ m.id \in B => Many(m.id, B)
        /\ Receive(doc[k], m, at).profile.resetAt < doc[k].profile.resetAt =>
             m.kind = "reset" /\ m.at > at
    BY <2>1, <2>2, ReceiveSound DEF Good
  <2>6. \A i \in A \cap T(k + 1) : Many(i, C)
    <3> SUFFICES ASSUME NEW i \in A, i \in T(k + 1) PROVE Many(i, C)
      OBVIOUS
    <3>1. CASE i \in T(k)
      <4>1. Many(i, B)
        BY <2>1, <3>1 DEF Good
      <4> QED
        BY <2>5, <4>1, ManyMore
    <3>2. CASE i \notin T(k)
      <4>1. i = m.id /\ ~Known(doc[k], m)
        BY <1>3, <3>2 DEF Adds, m
      <4>2. Many(i, B)
        BY <2>5, <4>1
      <4> QED
        BY <2>5, <4>2, ManyMore
    <3> QED
      BY <3>1, <3>2
  <2>7. doc[k + 1].profile.resetAt < d.profile.resetAt => ResetAhead(batch, at, k + 1)
    <3> SUFFICES ASSUME doc[k + 1].profile.resetAt < d.profile.resetAt
                 PROVE  ResetAhead(batch, at, k + 1)
      OBVIOUS
    <3>1. /\ doc[k].profile.resetAt \in Int /\ doc[k + 1].profile.resetAt \in Int
          /\ d.profile.resetAt \in Int
      BY <2>1, <2>3, <2>5 DEF Good, DocumentSound, Sound, Shaped, Profile, Never
    <3>2. CASE doc[k].profile.resetAt < d.profile.resetAt
      <4>1. ResetAhead(batch, at, k)
        BY <2>1, <3>2 DEF Good
      <4> QED
        BY <2>1, <4>1 DEF ResetAhead
    <3>3. CASE ~(doc[k].profile.resetAt < d.profile.resetAt)
      <4>1. m.kind = "reset" /\ m.at > at
        BY <2>3, <2>5, <3>1, <3>3
      <4> QED
        BY <2>1, <4>1 DEF ResetAhead, m
    <3> QED
      BY <3>2, <3>3
  <2>8. Good(k + 1)
    BY <2>3, <2>4, <2>5, <2>6, <2>7 DEF Good
  <2> QED
    BY <2>1, <2>8
<1>6. n \in Lengths
  <2> HIDE DEF Lengths
  <2>1. 0..Len(batch) \subseteq Lengths
    BY <1>1, <1>4, <1>5, InductionUpTo
  <2> QED
    BY <2>1
<1>7. Good(n)
  BY <1>1, <1>6
<1> QED
  BY <1>7 DEF Good, doc, T

\* A whole batch.
LEMMA AbsorbSound ==
  ASSUME NEW r \in Requests, NEW d, DocumentSound(d), NEW at \in Nat,
         NEW A, IsFiniteSet(A), Remembers(d, A)
  PROVE  LET e == Absorb(d, Batch[r], at)
             fresh == Fresh(d, Batch[r], at)
         IN  /\ DocumentSound(e)
             /\ IsFiniteSet(A \cup fresh)
             /\ Remembers(e, A \cup fresh)
             /\ fresh \in SUBSET Ids
             /\ \A i \in A \cap fresh : Many(i, A \cup fresh)
             /\ e.profile.resetAt < d.profile.resetAt =>
                  \E m \in ToSet(Batch[r]) : m.kind = "reset" /\ m.at > at
<1> DEFINE n == Len(Batch[r])
<1>1. n \in Nat /\ n \in 0..n /\ DOMAIN Batch[r] = 1..n
  OBVIOUS
<1>2. Absorb(d, Batch[r], at) = After(d, Batch[r], at)[n]
  BY DEF Absorb
<1>3. Fresh(d, Batch[r], at) = Taken(d, Batch[r], at, n)
  BY <1>1 DEF Fresh, Taken
<1>4. Fresh(d, Batch[r], at) \in SUBSET Ids
  <2>1. \A k \in 1..n : Batch[r][k] \in Mutation
    OBVIOUS
  <2>2. \A k \in DOMAIN Batch[r] : Batch[r][k].id \in Ids
    BY <1>1, <2>1 DEF Mutation
  <2> QED
    BY <2>2 DEF Fresh
<1>5. ResetAhead(Batch[r], at, n) =>
        \E m \in ToSet(Batch[r]) : m.kind = "reset" /\ m.at > at
  BY <1>1 DEF ResetAhead, ToSet
<1>6. Genuine(Batch[r])
  BY BatchGenuine
<1> DEFINE e == After(d, Batch[r], at)[n]
           B == A \cup Taken(d, Batch[r], at, n)
<1>7. /\ DocumentSound(e)
      /\ IsFiniteSet(B)
      /\ Remembers(e, B)
      /\ \A i \in A \cap Taken(d, Batch[r], at, n) : Many(i, B)
      /\ e.profile.resetAt < d.profile.resetAt => ResetAhead(Batch[r], at, n)
  <2> HIDE DEF n
  <2> QED
    BY <1>1, <1>6, AfterSound DEF n
<1> HIDE DEF e, n
<1> QED
  BY <1>2, <1>3, <1>4, <1>5, <1>7 DEF e

-----------------------------------------------------------------------------
(* Revisions *)

\* A row that somebody read is an older one than the stored one, or that one.
Follows(seen, stored) ==
  /\ seen.revision \in Nat
  /\ seen.revision <= stored.revision
  /\ seen.revision = stored.revision => seen = stored

\* A request at p: each failed attempt stands for a revision that came while it lasted.
InOrder(p, stored) ==
  /\ DOMAIN p = {"pc", "at", "tries", "seen", "result"}
  /\ p.at \in Moments
  /\ Follows(p.seen, stored)
  /\ p.tries \in Nat
  /\ p.pc \in {"new", "reading", "deciding"} =>
       p.result = "none" /\ p.tries < MaxAttempts
  /\ p.pc = "new" => p.tries = 0
  /\ p.pc = "reading" => p.tries <= stored.revision
  /\ p.pc = "deciding" => p.tries <= p.seen.revision
  /\ p.result = "conflict" => stored.revision >= MaxAttempts

\* A cleaner at s.
SweepInOrder(s, stored) ==
  /\ s.at \in Moments
  /\ Follows(s.seen, stored)

ProfilesInv ==
  /\ now \in Moments
  /\ row.revision \in Nat
  /\ row.revision = 0 => row = NoRow
  /\ req = [r \in Requests |-> req[r]]
  /\ \A r \in Requests : InOrder(req[r], row)
  /\ sweep = [c \in Cleaners |-> sweep[c]]
  /\ \A c \in Cleaners : SweepInOrder(sweep[c], row)

LEMMA InitInv == Init => ProfilesInv
<1> SUFFICES ASSUME Init PROVE ProfilesInv
  OBVIOUS
<1>1. NoRow.revision = 0
  BY DEF NoRow
<1>2. Follows(NoRow, NoRow)
  BY <1>1 DEF Follows
<1>3. InOrder(NewRequest, NoRow)
  BY <1>1, <1>2 DEF InOrder, NewRequest
<1>4. SweepInOrder(NoSweep, NoRow)
  BY <1>2 DEF SweepInOrder, NoSweep
<1> QED
  BY <1>1, <1>3, <1>4 DEF Init, ProfilesInv

-----------------------------------------------------------------------------
(* Steps *)

\* Revisions only grow.
Grows == row' = row \/ row'.revision = row.revision + 1

\* With a new revision, whoever has read the row has read an older one.
LEMMA OrderKept ==
  ASSUME ProfilesInv, Grows
  PROVE  /\ row'.revision \in Nat
         /\ row'.revision = 0 => row' = NoRow
         /\ Follows(NoRow, row')
         /\ \A r \in Requests : InOrder(req[r], row')
         /\ \A c \in Cleaners : SweepInOrder(sweep[c], row')
<1>1. row'.revision \in Nat /\ row.revision <= row'.revision
  BY DEF ProfilesInv, Grows
<1>2. row'.revision = 0 => row' = NoRow
  BY DEF ProfilesInv, Grows
<1>3. ASSUME NEW seen, Follows(seen, row) PROVE Follows(seen, row')
  BY <1>3 DEF ProfilesInv, Grows, Follows
<1>4. NoRow.revision = 0
  BY DEF NoRow
<1>5. Follows(NoRow, row')
  BY <1>1, <1>2, <1>4 DEF Follows
<1>6. ASSUME NEW r \in Requests PROVE InOrder(req[r], row')
  <2>1. InOrder(req[r], row)
    BY DEF ProfilesInv
  <2> QED
    BY <1>1, <1>3, <2>1 DEF ProfilesInv, InOrder
<1>7. ASSUME NEW c \in Cleaners PROVE SweepInOrder(sweep[c], row')
  BY <1>3 DEF ProfilesInv, SweepInOrder
<1> QED
  BY <1>1, <1>2, <1>5, <1>6, <1>7

\* One request steps to p, in order.
LEMMA RequestStep ==
  ASSUME ProfilesInv, Grows, NEW r \in Requests, NEW p, InOrder(p, row'),
         req' = [req EXCEPT ![r] = p], UNCHANGED <<now, sweep>>
  PROVE  ProfilesInv'
<1>1. /\ req' = [q \in Requests |-> req'[q]]
      /\ req'[r] = p
      /\ \A q \in Requests \ {r} : req'[q] = req[q]
  BY DEF ProfilesInv
<1> QED
  BY <1>1, OrderKept DEF ProfilesInv

\* One cleaner steps to s, in order.
LEMMA SweepStep ==
  ASSUME ProfilesInv, Grows, NEW c \in Cleaners, NEW s, SweepInOrder(s, row'),
         sweep' = [sweep EXCEPT ![c] = s], UNCHANGED <<now, req>>
  PROVE  ProfilesInv'
<1>1. /\ sweep' = [b \in Cleaners |-> sweep'[b]]
      /\ sweep'[c] = s
      /\ \A b \in Cleaners \ {c} : sweep'[b] = sweep[b]
  BY DEF ProfilesInv
<1> QED
  BY <1>1, OrderKept DEF ProfilesInv

\* An answer ends a request.
LEMMA AnswerStep ==
  ASSUME ProfilesInv, Grows, NEW r \in Requests, NEW answer, Answer(r, answer),
         answer = "conflict" => row'.revision >= MaxAttempts,
         UNCHANGED <<now, sweep>>
  PROVE  ProfilesInv'
<1> DEFINE p == [req[r] EXCEPT !.pc = "done", !.seen = NoRow, !.result = answer]
<1>1. InOrder(req[r], row)
  BY DEF ProfilesInv
<1>2. /\ p.pc = "done" /\ p.seen = NoRow /\ p.result = answer
      /\ p.at = req[r].at /\ p.tries = req[r].tries /\ DOMAIN p = DOMAIN req[r]
  BY <1>1 DEF InOrder
<1>3. InOrder(p, row')
  <2> HIDE DEF p
  <2> QED
    BY <1>1, <1>2, OrderKept DEF InOrder
<1>4. req' = [req EXCEPT ![r] = p]
  BY DEF Answer
<1> HIDE DEF p
<1> QED
  BY <1>3, <1>4, RequestStep

\* A request that saves has read the stored row, and leaves its own changes on it.
LEMMA SaveStep ==
  ASSUME ProfilesInv, NEW r \in Requests, Save(r)
  PROVE  /\ row'.document = Absorb(row.document, Batch[r], req[r].at)
         /\ Grows
         /\ UNCHANGED <<now, sweep>>
<1>1. req[r].seen = row
  BY DEF Save, Matches, ProfilesInv, InOrder, Follows
<1> QED
  BY <1>1 DEF Save, Stored, Grows

\* So does a cleaner that writes.
LEMMA CleanupStep ==
  ASSUME ProfilesInv, NEW c \in Cleaners, CleanupWrite(c)
  PROVE  /\ row' = row \/ row'.document = Cleaned(row.document, sweep[c].at)
         /\ Grows
<1>1. CASE Matches(sweep[c].seen)
  <2>1. sweep[c].seen = row
    BY <1>1 DEF Matches, ProfilesInv, SweepInOrder, Follows
  <2> QED
    BY <1>1, <2>1 DEF CleanupWrite, Stored, Grows
<1>2. CASE ~Matches(sweep[c].seen)
  BY <1>2 DEF CleanupWrite, Grows
<1> QED
  BY <1>1, <1>2

\* A cleaner that is finished with its row.
LEMMA SweepEnds ==
  ASSUME ProfilesInv, Grows, NEW c \in Cleaners,
         sweep' = [sweep EXCEPT ![c] = NoSweep], UNCHANGED <<now, req>>
  PROVE  ProfilesInv'
<1>1. SweepInOrder(NoSweep, row')
  BY OrderKept DEF SweepInOrder, NoSweep
<1> QED
  BY <1>1, SweepStep

LEMMA NextInv == ProfilesInv /\ [Next]_vars => ProfilesInv'
<1> SUFFICES ASSUME ProfilesInv, [Next]_vars PROVE ProfilesInv'
  OBVIOUS
<1>0. ASSUME NEW r \in Requests
      PROVE  /\ InOrder(req[r], row)
             /\ DOMAIN req[r] = {"pc", "at", "tries", "seen", "result"}
             /\ now \in Moments /\ row.revision \in Nat
  BY <1>0 DEF ProfilesInv, InOrder
<1>1. ASSUME NEW r \in Requests, Arrive(r) PROVE ProfilesInv'
  <2> DEFINE p == [req[r] EXCEPT !.pc = "reading", !.at = now]
  <2>1. /\ p.pc = "reading" /\ p.at = now /\ p.tries = req[r].tries
        /\ p.seen = req[r].seen /\ p.result = req[r].result /\ DOMAIN p = DOMAIN req[r]
    BY <1>0
  <2>2. req[r].pc = "new" /\ req' = [req EXCEPT ![r] = p] /\ UNCHANGED <<row, now, sweep>>
    BY <1>1 DEF Arrive
  <2>3. Grows
    BY <2>2 DEF Grows
  <2> HIDE DEF p
  <2>4. InOrder(p, row')
    BY <1>0, <2>1, <2>2 DEF InOrder
  <2> QED
    BY <2>2, <2>3, <2>4, RequestStep
<1>2. ASSUME NEW r \in Requests, Read(r) PROVE ProfilesInv'
  <2> DEFINE p == [req[r] EXCEPT !.pc = "deciding", !.seen = row]
  <2>1. /\ p.pc = "deciding" /\ p.at = req[r].at /\ p.tries = req[r].tries
        /\ p.seen = row /\ p.result = req[r].result /\ DOMAIN p = DOMAIN req[r]
    BY <1>0
  <2>2. /\ req[r].pc = "reading" /\ req' = [req EXCEPT ![r] = p]
        /\ UNCHANGED <<row, now, sweep>>
    BY <1>2 DEF Read
  <2>3. Grows /\ Follows(row, row')
    BY <1>0, <2>2 DEF Grows, Follows
  <2> HIDE DEF p
  <2>4. InOrder(p, row')
    BY <1>0, <2>1, <2>2, <2>3 DEF InOrder
  <2> QED
    BY <2>2, <2>3, <2>4, RequestStep
<1>3. ASSUME NEW r \in Requests, Saved(r) \/ SavedUnheard(r) PROVE ProfilesInv'
  BY <1>3, SaveStep, AnswerStep DEF Saved, SavedUnheard
<1>4. ASSUME NEW r \in Requests, Conflict(r) PROVE ProfilesInv'
  <2>1. /\ req[r].pc = "deciding" /\ UNCHANGED <<row, now, sweep>> /\ Grows
        /\ req[r].seen.revision # row.revision
    BY <1>4 DEF Conflict, Matches, Grows
  <2>2. req[r].tries \in Nat /\ req[r].tries + 1 <= row.revision
    BY <1>0, <2>1 DEF InOrder, Follows
  <2>3. CASE req[r].tries + 1 < MaxAttempts
    <3> DEFINE p == [req[r] EXCEPT !.pc = "reading", !.tries = req[r].tries + 1,
                     !.seen = NoRow]
    <3>1. /\ p.pc = "reading" /\ p.at = req[r].at /\ p.tries = req[r].tries + 1
          /\ p.seen = NoRow /\ p.result = req[r].result /\ DOMAIN p = DOMAIN req[r]
      BY <1>0
    <3>2. req' = [req EXCEPT ![r] = p]
      BY <1>4, <2>3 DEF Conflict
    <3> HIDE DEF p
    <3>3. InOrder(p, row')
      BY <1>0, <2>1, <2>2, <2>3, <3>1, OrderKept DEF InOrder
    <3> QED
      BY <2>1, <3>2, <3>3, RequestStep
  <2>4. CASE ~(req[r].tries + 1 < MaxAttempts)
    <3>1. Answer(r, "conflict")
      BY <1>4, <2>4 DEF Conflict
    <3>2. row'.revision >= MaxAttempts
      BY <1>0, <2>1, <2>2, <2>4
    <3> QED
      BY <2>1, <3>1, <3>2, AnswerStep
  <2> QED
    BY <2>3, <2>4
<1>5. ASSUME NEW r \in Requests, Fail(r) PROVE ProfilesInv'
  BY <1>5, AnswerStep DEF Fail, Grows
<1>6. ASSUME NEW c \in Cleaners, CleanupRead(c) PROVE ProfilesInv'
  <2> DEFINE s == [on |-> TRUE, at |-> now, seen |-> row]
  <2>1. sweep' = [sweep EXCEPT ![c] = s] /\ UNCHANGED <<row, now, req>> /\ Grows
    BY <1>6 DEF CleanupRead, Grows
  <2>2. SweepInOrder(s, row')
    BY <2>1 DEF SweepInOrder, ProfilesInv, Follows
  <2> HIDE DEF s
  <2> QED
    BY <2>1, <2>2, SweepStep
<1>7. ASSUME NEW c \in Cleaners, CleanupWrite(c) PROVE ProfilesInv'
  BY <1>7, CleanupStep, SweepEnds DEF CleanupWrite
<1>8. ASSUME NEW c \in Cleaners, CleanupFail(c) PROVE ProfilesInv'
  BY <1>8, SweepEnds DEF CleanupFail, Grows
<1>9. CASE Tick
  BY <1>9 DEF Tick, ProfilesInv
<1>10. CASE UNCHANGED vars
  BY <1>10 DEF vars, ProfilesInv
<1> QED
  BY <1>1, <1>2, <1>3, <1>4, <1>5, <1>6, <1>7, <1>8, <1>9, <1>10
  DEF Next, UpdateProfile, CleanupExpired

\* The invariant that the theorems below rest on.
THEOREM SpecInv == Spec => []ProfilesInv
<1>1. Spec => Init /\ [][Next]_vars
  BY DEF Spec
<1> QED
  BY <1>1, InitInv, NextInv, PTL

\* A client is told 409 only after MaxAttempts others have saved, for any devices and
\* cleaners.
THEOREM SpecRefusedForOthers == Spec => []RefusedForOthers
<1>1. ProfilesInv => RefusedForOthers
  BY DEF ProfilesInv, InOrder, RefusedForOthers
<1> QED
  BY <1>1, SpecInv, PTL

-----------------------------------------------------------------------------
(* The stored profile is the serial one *)

\* An answer to r in terms of the ledger.
LEMMA AnswerInLedger ==
  ASSUME ProfilesInv, NEW r \in Requests, req[r].pc \in {"new", "reading", "deciding"},
         NEW answer, Answer(r, answer), NEW answers, answer \in answers
  PROVE  Ledger!Answer(r, answers)
<1> DEFINE result == [q \in Requests |-> req[q].result]
<1>1. InOrder(req[r], row) /\ req = [q \in Requests |-> req[q]]
  BY DEF ProfilesInv
<1>2. result[r] = "none"
  BY <1>1 DEF InOrder
<1>3. /\ req'[r].result = answer
      /\ \A q \in Requests \ {r} : req'[q] = req[q]
  BY <1>1 DEF Answer, InOrder
<1>4. result' = [result EXCEPT ![r] = answer]
  BY <1>3
<1> QED
  BY <1>2, <1>4 DEF Ledger!Answer

\* A step that answers nobody.
LEMMA NoAnswer ==
  ASSUME NEW r \in Requests, NEW p, p.result = req[r].result,
         req' = [req EXCEPT ![r] = p], req = [q \in Requests |-> req[q]]
  PROVE  [q \in Requests |-> req'[q].result] = [q \in Requests |-> req[q].result]
<1>1. \A q \in Requests : req'[q].result = req[q].result
  OBVIOUS
<1> QED
  BY <1>1

LEMMA InitInLedger == Init => Ledger!Init
BY DEF Init, Ledger!Init, NewRequest, NoRow

LEMMA NextInLedger == ProfilesInv /\ [Next]_vars => [Ledger!Next]_(Ledger!vars)
<1> SUFFICES ASSUME ProfilesInv, [Next]_vars PROVE [Ledger!Next]_(Ledger!vars)
  OBVIOUS
<1>0. ASSUME NEW r \in Requests
      PROVE  /\ DOMAIN req[r] = {"pc", "at", "tries", "seen", "result"}
             /\ req[r].at \in Moments
             /\ req = [q \in Requests |-> req[q]]
  BY <1>0 DEF ProfilesInv, InOrder
<1>1. ASSUME NEW r \in Requests, Arrive(r) PROVE UNCHANGED Ledger!vars
  BY <1>0, <1>1, NoAnswer DEF Arrive, Ledger!vars
<1>2. ASSUME NEW r \in Requests, Read(r) PROVE UNCHANGED Ledger!vars
  BY <1>0, <1>2, NoAnswer DEF Read, Ledger!vars
<1>3. ASSUME NEW r \in Requests, Saved(r) \/ SavedUnheard(r) PROVE Ledger!Carry(r)
  <2>1. /\ row'.document = Absorb(row.document, Batch[r], req[r].at)
        /\ req[r].pc = "deciding"
    BY <1>3, SaveStep DEF Saved, SavedUnheard, Save
  <2>2. Ledger!Answer(r, {"saved", "error"})
    BY <1>3, <2>1, AnswerInLedger DEF Saved, SavedUnheard
  <2> QED
    BY <1>0, <2>1, <2>2 DEF Ledger!Carry
<1>4. ASSUME NEW r \in Requests, Conflict(r)
      PROVE  Ledger!Refuse(r) \/ UNCHANGED Ledger!vars
  <2>1. req[r].pc = "deciding" /\ row' = row
    BY <1>4 DEF Conflict
  <2>2. CASE req[r].tries + 1 < MaxAttempts
    BY <1>0, <1>4, <2>1, <2>2, NoAnswer DEF Conflict, Ledger!vars
  <2>3. CASE Answer(r, "conflict")
    BY <2>1, <2>3, AnswerInLedger DEF Ledger!Refuse
  <2> QED
    BY <1>4, <2>2, <2>3 DEF Conflict
<1>5. ASSUME NEW r \in Requests, Fail(r) PROVE Ledger!Refuse(r)
  BY <1>5, AnswerInLedger DEF Fail, Ledger!Refuse
<1>6. ASSUME NEW c \in Cleaners, CleanupRead(c) PROVE UNCHANGED Ledger!vars
  BY <1>6 DEF CleanupRead, Ledger!vars
<1>7. ASSUME NEW c \in Cleaners, CleanupWrite(c)
      PROVE  Ledger!Forget \/ UNCHANGED Ledger!vars
  <2>1. sweep[c].at \in Moments /\ req' = req
    BY <1>7 DEF ProfilesInv, SweepInOrder, CleanupWrite
  <2> QED
    BY <1>7, <2>1, CleanupStep DEF Ledger!Forget, Ledger!vars
<1>8. ASSUME NEW c \in Cleaners, CleanupFail(c) PROVE UNCHANGED Ledger!vars
  BY <1>8 DEF CleanupFail, Ledger!vars
<1>9. CASE Tick
  BY <1>9 DEF Tick, Ledger!vars
<1>10. CASE UNCHANGED vars
  BY <1>10 DEF vars, Ledger!vars
<1> QED
  BY <1>1, <1>2, <1>3, <1>4, <1>5, <1>6, <1>7, <1>8, <1>9, <1>10
  DEF Next, UpdateProfile, CleanupExpired, Ledger!Next

\* Whatever mutations do, devices that save at once, their retries and the cleanup
\* leave what some order of whole requests leaves.
THEOREM SpecSerialised == Spec => Serialised
<1>1. Spec => Init /\ [][Next]_vars
  BY DEF Spec
<1> QED
  BY <1>1, SpecInv, InitInLedger, NextInLedger, PTL DEF Serialised, Ledger!Spec

-----------------------------------------------------------------------------
(* What stands in the stored profile *)

AppliedIds == {i \in Ids : applied[i] > 0}

\* The stored document is sound, the cleanup knows when it is due, and the document
\* remembers what has been applied, except for what so many others have displaced.
StandingInv ==
  /\ ProfilesInv
  /\ DocumentSound(row.document)
  /\ row.cleanupAt = NextCleanup(row.document.profile)
  /\ applied \in [Ids -> Nat]
  /\ IsFiniteSet(AppliedIds)
  /\ Remembers(row.document, AppliedIds)
  /\ \A i \in Ids : applied[i] > 1 => Many(i, AppliedIds)

LEMMA InitStanding == Init => StandingInv
<1> SUFFICES ASSUME Init PROVE StandingInv
  OBVIOUS
<1>1. ProfilesInv
  BY InitInv
<1>2. row = NoRow /\ applied = [i \in Ids |-> 0]
  BY DEF Init
<1>3. Register(<<>>, ReceiptLimit) /\ Register(<<>>, ImportLimit)
  BY DEF Register, Distinct
<1>4. DocumentSound(NewDocument)
  <2>1. NewProfile \in Profile /\ <<>> \in Seq(Ids)
    BY NewProfileSound DEF Sound, Shaped
  <2> QED
    BY <1>3, <2>1, NewProfileSound DEF DocumentSound, NewDocument, Document
<1>5. NextCleanup(NewProfile) = Never
  BY DEF NextCleanup, NewProfile
<1>6. AppliedIds = {}
  BY <1>2 DEF AppliedIds
<1>7. Remembers(NewDocument, {})
  BY DEF Remembers, NewDocument, ToSet
<1>8. IsFiniteSet({})
  BY FS_EmptySet
<1> QED
  BY <1>1, <1>2, <1>4, <1>5, <1>6, <1>7, <1>8 DEF StandingInv, NoRow, NewDocument

\* A step that changes neither the row nor what is applied.
LEMMA StandingKept ==
  ASSUME StandingInv, ProfilesInv', row' = row, applied' = applied
  PROVE  StandingInv'
<1>1. AppliedIds' = AppliedIds
  BY DEF AppliedIds
<1> QED
  BY <1>1 DEF StandingInv

\* A cleanup keeps the receipts.
LEMMA CleanedStanding ==
  ASSUME StandingInv, ProfilesInv', applied' = applied, NEW c \in Cleaners, CleanupWrite(c)
  PROVE  /\ StandingInv'
         /\ row'.document.profile.resetAt = row.document.profile.resetAt
<1>1. CASE row' = row
  BY <1>1, StandingKept
<1>2. CASE row' # row
  <2> DEFINE d == row.document
  <2>1. Matches(sweep[c].seen) /\ sweep[c].seen = row /\ sweep[c].at \in Nat
    <3>1. Matches(sweep[c].seen)
      BY <1>2 DEF CleanupWrite
    <3>2. SweepInOrder(sweep[c], row)
      BY DEF StandingInv, ProfilesInv
    <3> QED
      BY <3>1, <3>2 DEF Matches, SweepInOrder, Follows
  <2>2. /\ row'.document = Cleaned(d, sweep[c].at)
        /\ row'.cleanupAt = NextCleanup(row'.document.profile)
    BY <2>1 DEF CleanupWrite, Stored
  <2>3. DocumentSound(d)
    BY DEF StandingInv
  <2>4. /\ d = [profile |-> d.profile, receipts |-> d.receipts, imports |-> d.imports]
        /\ Sound(d.profile)
    BY <2>3 DEF DocumentSound, Document
  <2>5. Cleaned(d, sweep[c].at) = [profile |-> CleanProfile(d.profile, sweep[c].at),
                                   receipts |-> d.receipts, imports |-> d.imports]
    BY <2>4 DEF Cleaned
  <2>6. /\ Sound(CleanProfile(d.profile, sweep[c].at))
        /\ CleanProfile(d.profile, sweep[c].at).resetAt = d.profile.resetAt
    BY <2>1, <2>4, CleanProfileSound DEF Sound
  <2>7. DocumentSound(row'.document)
    <3>1. CleanProfile(d.profile, sweep[c].at) \in Profile
      BY <2>6 DEF Sound, Shaped
    <3>2. d.receipts \in Seq(Ids) /\ d.imports \in Seq(Ids)
      BY <2>3 DEF DocumentSound, Document
    <3> HIDE DEF d
    <3> QED
      BY <2>2, <2>3, <2>5, <2>6, <3>1, <3>2 DEF DocumentSound, Document
  <2>8. AppliedIds' = AppliedIds
    BY DEF AppliedIds
  <2>9. Remembers(row'.document, AppliedIds)
    BY <2>2, <2>5 DEF StandingInv, Remembers
  <2>10. StandingInv'
    BY <2>2, <2>7, <2>8, <2>9 DEF StandingInv
  <2> QED
    BY <2>2, <2>5, <2>6, <2>10
<1> QED
  BY <1>1, <1>2

\* So does a request, and what it applies again had been displaced.
LEMMA SavedStanding ==
  ASSUME StandingInv, ProfilesInv', NEW r \in Requests, Save(r)
  PROVE  /\ StandingInv'
         /\ row'.document.profile.resetAt < row.document.profile.resetAt =>
              \E m \in ToSet(Batch[r]) : m.kind = "reset" /\ m.at > req[r].at
<1> DEFINE d == row.document
           at == req[r].at
           fresh == Fresh(d, Batch[r], at)
<1>1. req[r].seen = row /\ at \in Nat
  BY DEF Save, Matches, StandingInv, ProfilesInv, InOrder, Follows
<1>2. /\ row'.document = Absorb(d, Batch[r], at)
      /\ row'.cleanupAt = NextCleanup(row'.document.profile)
      /\ applied' = [i \in Ids |-> applied[i] + Count(i \in fresh)]
  BY <1>1 DEF Save, Stored
<1>3. /\ DocumentSound(d) /\ IsFiniteSet(AppliedIds) /\ Remembers(d, AppliedIds)
      /\ applied \in [Ids -> Nat]
  BY DEF StandingInv
<1>4. /\ DocumentSound(Absorb(d, Batch[r], at))
      /\ IsFiniteSet(AppliedIds \cup fresh)
      /\ Remembers(Absorb(d, Batch[r], at), AppliedIds \cup fresh)
      /\ fresh \in SUBSET Ids
      /\ \A i \in AppliedIds \cap fresh : Many(i, AppliedIds \cup fresh)
      /\ Absorb(d, Batch[r], at).profile.resetAt < d.profile.resetAt =>
           \E m \in ToSet(Batch[r]) : m.kind = "reset" /\ m.at > at
  <2> HIDE DEF at, d
  <2> QED
    BY <1>1, <1>3, AbsorbSound
<1> HIDE DEF fresh
<1>5. \A i \in Ids : applied'[i] = IF i \in fresh THEN applied[i] + 1 ELSE applied[i]
  BY <1>2, <1>3 DEF Count
<1>6. applied' \in [Ids -> Nat]
  <2>1. \A i \in Ids : applied[i] + Count(i \in fresh) \in Nat
    BY <1>3 DEF Count
  <2> QED
    BY <1>2, <2>1
<1>7. AppliedIds' = AppliedIds \cup fresh
  BY <1>3, <1>4, <1>5 DEF AppliedIds
<1>8. ASSUME NEW i \in Ids, applied'[i] > 1 PROVE Many(i, AppliedIds')
  <2>1. CASE applied[i] > 1
    <3>1. Many(i, AppliedIds)
      BY <2>1 DEF StandingInv
    <3> QED
      BY <1>4, <1>7, <3>1, ManyMore
  <2>2. CASE ~(applied[i] > 1)
    <3>1. i \in fresh /\ applied[i] > 0
      BY <1>3, <1>5, <1>8, <2>2
    <3> QED
      BY <1>4, <1>7, <3>1 DEF AppliedIds
  <2> QED
    BY <2>1, <2>2
<1>9. StandingInv'
  BY <1>2, <1>4, <1>6, <1>7, <1>8 DEF StandingInv
<1> QED
  BY <1>2, <1>4, <1>9

\* Every step is one that carries out a request, one that cleans, or one that leaves row
\* and history alone; the last moment of erasure moves back only in the first.
LEMMA StepStanding ==
  ASSUME StandingInv, ProfilesInv', [Next]_vars
  PROVE  /\ StandingInv'
         /\ row'.document.profile.resetAt < row.document.profile.resetAt =>
              \E r \in Requests : /\ req[r].result = "none" /\ req'[r].result # "none"
                                 /\ \E m \in ToSet(Batch[r]) :
                                      m.kind = "reset" /\ m.at > req[r].at
<1>1. CASE row' = row /\ applied' = applied
  <2>1. ~(row'.document.profile.resetAt < row.document.profile.resetAt)
    BY <1>1 DEF StandingInv, DocumentSound, Sound, Shaped, Profile, Never
  <2> QED
    BY <1>1, <2>1, StandingKept
<1>2. ASSUME NEW r \in Requests, Saved(r) \/ SavedUnheard(r)
      PROVE  /\ StandingInv'
             /\ row'.document.profile.resetAt < row.document.profile.resetAt =>
                  /\ req[r].result = "none" /\ req'[r].result # "none"
                  /\ \E m \in ToSet(Batch[r]) : m.kind = "reset" /\ m.at > req[r].at
  <2>1. Save(r) /\ (Answer(r, "saved") \/ Answer(r, "error"))
    BY <1>2 DEF Saved, SavedUnheard
  <2>2. InOrder(req[r], row) /\ req[r].pc = "deciding" /\ req = [q \in Requests |-> req[q]]
    BY <2>1 DEF Save, StandingInv, ProfilesInv
  <2>3. req[r].result = "none" /\ req'[r].result # "none"
    BY <2>1, <2>2, ZenonT(40) DEF Answer, InOrder
  <2> QED
    BY <2>1, <2>3, SavedStanding
<1>3. ASSUME NEW c \in Cleaners, CleanupWrite(c)
      PROVE  /\ StandingInv'
             /\ ~(row'.document.profile.resetAt < row.document.profile.resetAt)
  <2>1. applied' = applied
    BY <1>3 DEF CleanupWrite
  <2> QED
    BY <1>3, <2>1, CleanedStanding
    DEF StandingInv, DocumentSound, Sound, Shaped, Profile, Never
<1>4. \/ row' = row /\ applied' = applied
      \/ \E r \in Requests : Saved(r) \/ SavedUnheard(r)
      \/ \E c \in Cleaners : CleanupWrite(c)
  BY DEF Next, vars, Arrive, UpdateProfile, Read, Conflict, Fail, CleanupExpired, CleanupRead,
         CleanupFail, Tick
<1> QED
  BY <1>1, <1>2, <1>3, <1>4

THEOREM SpecStanding == Spec => []StandingInv
<1>1. Init /\ ProfilesInv => StandingInv
  BY InitStanding
<1>2. StandingInv /\ ProfilesInv' /\ [Next]_vars => StandingInv'
  BY StepStanding
<1>3. Spec => Init /\ [][Next]_vars
  BY DEF Spec
<1> QED
  BY <1>1, <1>2, <1>3, SpecInv, PTL

\* The earliest of a set of events is due before the others.
LEMMA CleanupComes ==
  ASSUME NEW p \in Profile, NEW e \in p.events
  PROVE  /\ NextCleanup(p) \in Nat
         /\ NextCleanup(p) <= e.at + Retention + 1
<1> DEFINE times == {f.at : f \in p.events}
           first == CHOOSE t \in times : \A f \in p.events : t <= f.at
<1>1. times \in SUBSET Nat /\ times # {} /\ Retention \in Nat /\ e.at \in Nat
  BY ProfileAssumption DEF Profile, FiniteSubsets, Event
<1>2. \E t \in times : \A u \in times : t <= u
  <2> HIDE DEF times
  <2> QED
    BY <1>1, LeastMember
<1>3. \E t \in times : \A f \in p.events : t <= f.at
  BY <1>2
<1>4. first \in times /\ \A f \in p.events : first <= f.at
  <2> HIDE DEF times
  <2> QED
    BY <1>3
<1>5. NextCleanup(p) = first + Retention + 1
  BY DEF NextCleanup
<1> HIDE DEF first, times
<1> QED
  BY <1>1, <1>4, <1>5

\* A mutation that is sent again is not applied again while its list has room for it,
\* for any batches, limits and interleavings.
THEOREM SpecAppliedOnce == Spec => []AppliedOnce
<1>1. StandingInv => AppliedOnce
  <2> SUFFICES ASSUME StandingInv, NEW i \in Ids, applied[i] > 1
               PROVE  IF i \in MergeIds
                      THEN Cardinality({j \in MergeIds : applied[j] > 0}) > ImportLimit
                      ELSE Cardinality({j \in Ids : applied[j] > 0}) > ReceiptLimit
    BY DEF AppliedOnce
  <2>1. Many(i, AppliedIds)
    BY DEF StandingInv
  <2>2. MergeIds \subseteq Ids
    <3>1. \A r \in Requests : \A k \in DOMAIN Batch[r] : Batch[r][k] \in Mutation
      OBVIOUS
    <3>2. \A r \in Requests : \A k \in DOMAIN Batch[r] : Batch[r][k].id \in Ids
      BY <3>1 DEF Mutation
    <3> QED
      BY <3>2 DEF MergeIds, ToSet
  <2>3. AppliedIds \cap MergeIds = {j \in MergeIds : applied[j] > 0}
    BY <2>2 DEF AppliedIds
  <2> QED
    BY <2>1, <2>3 DEF Many, AppliedIds
<1> QED
  BY <1>1, SpecStanding, PTL

\* No event from before the last reset is ever in the stored profile.
THEOREM SpecErasedStaysErased == Spec => []ErasedStaysErased
<1>1. StandingInv => ErasedStaysErased
  BY DEF StandingInv, DocumentSound, Sound, ErasedStaysErased, Stands
<1> QED
  BY <1>1, SpecStanding, PTL

\* A row with an expired event is due.
THEOREM SpecExpiredIsDue == Spec => []ExpiredIsDue
<1>1. StandingInv => ExpiredIsDue
  <2> SUFFICES ASSUME StandingInv, NEW e \in Stands.events, e.at + Retention < now
               PROVE  Due
    BY DEF ExpiredIsDue
  <2>1. Stands \in Profile /\ row.cleanupAt = NextCleanup(Stands) /\ now \in Nat
    BY DEF StandingInv, DocumentSound, Sound, Shaped, Stands, ProfilesInv
  <2>2. NextCleanup(Stands) \in Nat /\ NextCleanup(Stands) <= e.at + Retention + 1
    BY <2>1, CleanupComes
  <2>3. e.at \in Nat /\ Retention \in Nat
    BY <2>1, ProfileAssumption DEF Profile, FiniteSubsets, Event
  <2> QED
    BY <2>1, <2>2, <2>3 DEF Due, Never
<1> QED
  BY <1>1, SpecStanding, PTL

\* Only a reset whose client's clock is ahead moves the moment of the last reset back.
THEOREM SpecResetStands == Spec => ResetStands
<1>1. StandingInv /\ ProfilesInv' /\ [Next]_vars =>
        [Stands'.resetAt < Stands.resetAt =>
           \E r \in Requests : /\ req[r].result = "none" /\ req'[r].result # "none"
                              /\ \E m \in ToSet(Batch[r]) :
                                   m.kind = "reset" /\ m.at > req[r].at]_vars
  BY StepStanding DEF Stands
<1>2. Spec => Init /\ [][Next]_vars
  BY DEF Spec
<1> QED
  BY <1>1, <1>2, SpecInv, SpecStanding, PTL DEF ResetStands

\* The tags of the stored profile keep to their limit, and none is followed and hidden at
\* once; its events keep to theirs.
THEOREM SpecSound == Spec => []Sound(Stands)
<1>1. StandingInv => Sound(Stands)
  BY DEF StandingInv, DocumentSound, Stands
<1> QED
  BY <1>1, SpecStanding, PTL

-----------------------------------------------------------------------------
(* Types *)

LEMMA NoRowTyped == NoRow \in Row
<1>1. NewProfile \in Profile /\ <<>> \in Seq(Ids)
  BY NewProfileSound DEF Sound, Shaped
<1> QED
  BY <1>1 DEF NoRow, NewDocument, Row, Document

LEMMA StoredTyped ==
  ASSUME NEW d, DocumentSound(d), NEW seen \in Row
  PROVE  Stored(d, seen) \in Row
<1>1. d \in Document /\ d.profile \in Profile
  BY DEF DocumentSound, Document
<1>2. NextCleanup(d.profile) \in Nat \cup {Never}
  <2>1. CASE d.profile.events = {}
    BY <2>1 DEF NextCleanup
  <2>2. CASE d.profile.events # {}
    BY <1>1, <2>2, CleanupComes
  <2> QED
    BY <2>1, <2>2
<1> QED
  BY <1>1, <1>2 DEF Stored, Row

LEMMA RowTyped ==
  ASSUME TypeOK, StandingInv, StandingInv', [Next]_vars
  PROVE  row' \in Row
<1>1. CASE row' = row
  BY <1>1 DEF TypeOK
<1>2. ASSUME NEW r \in Requests, Save(r) PROVE row' \in Row
  <2>1. row' = Stored(row'.document, req[r].seen) /\ DocumentSound(row'.document)
    BY <1>2 DEF Save, Stored, StandingInv
  <2>2. req[r].seen \in Row
    BY DEF TypeOK, Request
  <2> QED
    BY <2>1, <2>2, StoredTyped
<1>3. ASSUME NEW c \in Cleaners, CleanupWrite(c) PROVE row' \in Row
  <2>1. CASE Matches(sweep[c].seen)
    <3>1. row' = Stored(row'.document, sweep[c].seen) /\ DocumentSound(row'.document)
      BY <1>3, <2>1 DEF CleanupWrite, Stored, StandingInv
    <3>2. sweep[c].seen \in Row
      BY DEF TypeOK, Sweep
    <3> QED
      BY <3>1, <3>2, StoredTyped
  <2>2. CASE ~Matches(sweep[c].seen)
    BY <1>1, <1>3, <2>2 DEF CleanupWrite
  <2> QED
    BY <2>1, <2>2
<1>4. \/ row' = row
      \/ \E r \in Requests : Save(r)
      \/ \E c \in Cleaners : CleanupWrite(c)
  BY DEF Next, vars, Arrive, UpdateProfile, Read, Saved, SavedUnheard, Conflict, Fail,
         CleanupExpired, CleanupRead, CleanupFail, Tick
<1> QED
  BY <1>1, <1>2, <1>3, <1>4

LEMMA RequestTyped ==
  ASSUME TypeOK, [Next]_vars
  PROVE  req' \in [Requests -> Request]
<1>1. /\ req \in [Requests -> Request] /\ row \in Row /\ now \in 0..MaxTime
      /\ \A r \in Requests : req[r] \in Request
  BY DEF TypeOK
<1>2. ASSUME NEW r \in Requests, Arrive(r) PROVE req' \in [Requests -> Request]
  <2>1. [req[r] EXCEPT !.pc = "reading", !.at = now] \in Request
    BY <1>1 DEF Request
  <2> QED
    BY <1>1, <1>2, <2>1 DEF Arrive
<1>3. ASSUME NEW r \in Requests, Read(r) PROVE req' \in [Requests -> Request]
  <2>1. [req[r] EXCEPT !.pc = "deciding", !.seen = row] \in Request
    BY <1>1 DEF Request
  <2> QED
    BY <1>1, <1>3, <2>1 DEF Read
<1>4. ASSUME NEW r \in Requests, NEW answer \in {"saved", "conflict", "error"},
             Answer(r, answer)
      PROVE  req' \in [Requests -> Request]
  <2>1. [req[r] EXCEPT !.pc = "done", !.seen = NoRow, !.result = answer] \in Request
    BY <1>1, NoRowTyped DEF Request
  <2> QED
    BY <1>1, <1>4, <2>1 DEF Answer
<1>5. ASSUME NEW r \in Requests, Conflict(r) PROVE req' \in [Requests -> Request]
  <2>1. CASE req[r].tries + 1 < MaxAttempts
    <3>1. req[r].tries + 1 \in 0..(MaxAttempts - 1)
      BY <1>1, <2>1 DEF Request
    <3>2. [req[r] EXCEPT !.pc = "reading", !.tries = req[r].tries + 1, !.seen = NoRow]
            \in Request
      BY <1>1, <3>1, NoRowTyped DEF Request
    <3> QED
      BY <1>1, <1>5, <2>1, <3>2 DEF Conflict
  <2>2. CASE ~(req[r].tries + 1 < MaxAttempts)
    BY <1>4, <1>5, <2>2 DEF Conflict
  <2> QED
    BY <2>1, <2>2
<1>6. CASE req' = req
  BY <1>1, <1>6
<1> QED
  BY <1>2, <1>3, <1>4, <1>5, <1>6
  DEF Next, vars, UpdateProfile, Saved, SavedUnheard, Fail, CleanupExpired, CleanupRead,
      CleanupWrite, CleanupFail, Tick

LEMMA SweepTyped ==
  ASSUME TypeOK, [Next]_vars
  PROVE  sweep' \in [Cleaners -> Sweep]
<1>1. sweep \in [Cleaners -> Sweep] /\ row \in Row /\ now \in 0..MaxTime
  BY DEF TypeOK
<1>2. NoSweep \in Sweep
  BY NoRowTyped DEF NoSweep, Sweep
<1>3. ASSUME NEW c \in Cleaners, CleanupRead(c) PROVE sweep' \in [Cleaners -> Sweep]
  <2>1. [on |-> TRUE, at |-> now, seen |-> row] \in Sweep
    BY <1>1 DEF Sweep
  <2> QED
    BY <1>1, <1>3, <2>1 DEF CleanupRead
<1>4. ASSUME NEW c \in Cleaners, CleanupWrite(c) \/ CleanupFail(c)
      PROVE  sweep' \in [Cleaners -> Sweep]
  BY <1>1, <1>2, <1>4 DEF CleanupWrite, CleanupFail
<1>5. CASE sweep' = sweep
  BY <1>1, <1>5
<1> QED
  BY <1>3, <1>4, <1>5
  DEF Next, vars, Arrive, UpdateProfile, Read, Saved, SavedUnheard, Save, Conflict, Fail,
      CleanupExpired, Tick

\* Types, for any constants.
THEOREM SpecTypeOK == Spec => []TypeOK
<1>1. Init => TypeOK
  <2> SUFFICES ASSUME Init PROVE TypeOK
    OBVIOUS
  <2>1. NewRequest \in Request /\ NoSweep \in Sweep
    BY NoRowTyped DEF NewRequest, NoSweep, Request, Sweep
  <2> QED
    BY <2>1, NoRowTyped DEF Init, TypeOK
<1>2. TypeOK /\ StandingInv /\ StandingInv' /\ [Next]_vars => TypeOK'
  <2> SUFFICES ASSUME TypeOK, StandingInv, StandingInv', [Next]_vars PROVE TypeOK'
    OBVIOUS
  <2>1. applied' \in [Ids -> Nat]
    BY DEF StandingInv
  <2>2. now' \in 0..MaxTime /\ faults' \in 0..MaxFaults
    <3>1. now \in 0..MaxTime /\ faults \in 0..MaxFaults
      BY DEF TypeOK
    <3>2. now' = now \/ (now < MaxTime /\ now' = now + 1)
      BY DEF Next, vars, Arrive, UpdateProfile, Read, Saved, SavedUnheard, Save, Conflict,
             Fail, CleanupExpired, CleanupRead, CleanupWrite, CleanupFail, Tick
    <3>3. faults' = faults \/ (faults < MaxFaults /\ faults' = faults + 1)
      BY DEF Next, vars, Arrive, UpdateProfile, Read, Saved, SavedUnheard, Save, Conflict,
             Fail, Fault, CleanupExpired, CleanupRead, CleanupWrite, CleanupFail, Tick
    <3> QED
      BY <3>1, <3>2, <3>3
  <2> QED
    BY <2>1, <2>2, RowTyped, RequestTyped, SweepTyped DEF TypeOK
<1>3. Spec => Init /\ [][Next]_vars
  BY DEF Spec
<1> QED
  BY <1>1, <1>2, <1>3, SpecStanding, PTL
=============================================================================
