----------------------- MODULE MetricSnapshotsProofs -----------------------
(***************************************************************************)
(* Proofs about MetricSnapshots, for any boards, recorders, analysts,      *)
(* moments and lengths of retention: a score that nobody disturbed is the  *)
(* score of the rows as they are, unless the last record is of an earlier  *)
(* moment than a stored one, and no analysis moves its time back.          *)
(***************************************************************************)
EXTENDS MetricSnapshots, WellFoundedInduction, FiniteSetTheorems, TLAPS

\* A finite set of snapshots.
Snapshots(s) == s \in SUBSET Snapshot /\ IsFiniteSet(s)

USE SnapshotsAssumption, PopularityAssumption DEF Writers

-----------------------------------------------------------------------------
(* The latest snapshots *)

LEMMA SnapshotFields ==
  ASSUME NEW s, Snapshots(s)
  PROVE  \A x \in s : x \in Snapshot /\ x.at \in Nat /\ x # Null
<1> QED
  BY NothingAssumption DEF Snapshots, Snapshot

\* Of a set of snapshots, one is not followed by another: one with the fewest after it.
LEMMA NewestExists ==
  ASSUME NEW s, Snapshots(s)
  PROVE  Newest(s) # {}
<1> DEFINE After(x) == {y \in s : y.at > x.at}
           Sizes == {Cardinality(After(x)) : x \in s}
<1>1. CASE s = {}
  BY <1>1 DEF Newest
<1>2. CASE s # {}
  <2>1. \A x \in s : x.at \in Nat
    BY SnapshotFields
  <2>2. \A x \in s : IsFiniteSet(After(x)) /\ Cardinality(After(x)) \in Nat
    <3>1. ASSUME NEW x \in s
          PROVE  IsFiniteSet(After(x)) /\ Cardinality(After(x)) \in Nat
      <4>1. After(x) \in SUBSET s /\ IsFiniteSet(s)
        BY DEF Snapshots
      <4> HIDE DEF After
      <4> QED
        BY <4>1, FS_Subset, FS_CardinalityType
    <3> QED
      BY <3>1
  <2>3. Sizes \in SUBSET Nat /\ Sizes # {}
    <3> HIDE DEF After
    <3> QED
      BY <1>2, <2>2
  <2>4. \E n \in Sizes : \A m \in Sizes : ~(<<m, n>> \in OpToRel(<, Nat))
    <3> HIDE DEF Sizes
    <3> QED
      BY <2>3, WFMin, NatLessThanWellFounded
  <2>5. \A m, n \in Nat : m < n => <<m, n>> \in OpToRel(<, Nat)
    BY Zenon DEF OpToRel
  <2>6. PICK n \in Sizes : \A m \in Sizes : ~(m < n)
    <3> HIDE DEF Sizes
    <3> QED
      BY <2>3, <2>4, <2>5, Zenon
  <2>7. PICK x \in s : n = Cardinality(After(x))
    BY <2>6
  <2>8. ASSUME NEW y \in s, ~(y.at <= x.at)
        PROVE  FALSE
    <3>1. y \in After(x) /\ y \notin After(y) /\ After(y) \in SUBSET After(x)
      BY <2>1, <2>8
    <3>2. Cardinality(After(y)) \in Sizes
      OBVIOUS
    <3>3. IsFiniteSet(After(x)) /\ Cardinality(After(x)) \in Nat /\ Cardinality(After(y)) \in Nat
      BY <2>2
    <3> HIDE DEF After, Sizes
    <3>4. Cardinality(After(y)) <= Cardinality(After(x)) /\ After(y) # After(x)
      BY <3>1, <3>3, FS_Subset
    <3>5. Cardinality(After(y)) # Cardinality(After(x))
      BY <3>1, <3>3, <3>4, FS_Subset
    <3> QED
      BY <2>6, <2>7, <3>2, <3>3, <3>4, <3>5
  <2>9. x \in Newest(s)
    BY <1>2, <2>8 DEF Newest
  <2> QED
    BY <2>9
<1> QED
  BY <1>1, <1>2

LEMMA FewerSnapshots ==
  ASSUME NEW s, Snapshots(s), NEW t \in SUBSET s
  PROVE  Snapshots(t)
<1> QED
  BY FS_Subset DEF Snapshots

Two(x, y, s) == x \in Newest(s) /\ y \in Newest(s \ {x})
Three(x, y, z, s) == Two(x, y, s) /\ z \in Newest(s \ {x, y})

LEMMA IsLastTwo ==
  ASSUME NEW s, NEW q
  PROVE  q \in LastTwo(s) <=> \E x, y : Two(x, y, s) /\ q = <<x, y>>
<1> DEFINE Pairs(x) == {<<x, y>> : y \in Newest(s \ {x})}
<1>1. \A x : q \in Pairs(x) <=> \E y \in Newest(s \ {x}) : q = <<x, y>>
  OBVIOUS
<1>2. LastTwo(s) = UNION {Pairs(x) : x \in Newest(s)}
  BY DEF LastTwo
<1> HIDE DEF Pairs
<1>3. q \in LastTwo(s) <=> \E x \in Newest(s) : q \in Pairs(x)
  BY <1>2
<1> QED
  BY <1>1, <1>3 DEF Two

LEMMA IsLastThree ==
  ASSUME NEW s, NEW q
  PROVE  q \in LastThree(s) <=> \E x, y, z : Three(x, y, z, s) /\ q = <<x, y, z>>
<1> DEFINE Triples(p) == {<<p[1], p[2], z>> : z \in Newest(s \ {p[1], p[2]})}
<1>1. \A p : q \in Triples(p) <=>
             \E z \in Newest(s \ {p[1], p[2]}) : q = <<p[1], p[2], z>>
  OBVIOUS
<1>2. LastThree(s) = UNION {Triples(p) : p \in LastTwo(s)}
  BY DEF LastThree
<1> HIDE DEF Triples
<1>3. q \in LastThree(s) <=> \E p \in LastTwo(s) : q \in Triples(p)
  BY <1>2
<1>4. ASSUME NEW p \in LastTwo(s), q \in Triples(p)
      PROVE  \E x, y, z : Three(x, y, z, s) /\ q = <<x, y, z>>
  <2>1. PICK x, y : Two(x, y, s) /\ p = <<x, y>>
    BY IsLastTwo
  <2>2. p[1] = x /\ p[2] = y
    BY <2>1
  <2>3. PICK z \in Newest(s \ {x, y}) : q = <<x, y, z>>
    BY <1>1, <1>4, <2>2
  <2> QED
    BY <2>1, <2>3 DEF Three
<1>5. ASSUME NEW x, NEW y, NEW z, Three(x, y, z, s), q = <<x, y, z>>
      PROVE  q \in LastThree(s)
  <2> DEFINE p == <<x, y>>
  <2>1. p[1] = x /\ p[2] = y
    OBVIOUS
  <2>2. p \in LastTwo(s)
    BY <1>5, IsLastTwo DEF Three
  <2> HIDE DEF p
  <2>3. q \in Triples(p)
    BY <1>1, <1>5, <2>1 DEF Three
  <2> QED
    BY <1>3, <2>2, <2>3
<1> QED
  BY <1>3, <1>4, <1>5

\* There is an answer to a query, and what it names first is a snapshot that none
\* follows, or nothing if there is none.
First(x, s) == IF s = {} THEN x = Null ELSE x \in s /\ x # Null /\ \A y \in s : y.at <= x.at

LEMMA NewestIsFirst ==
  ASSUME NEW s, Snapshots(s), NEW x \in Newest(s)
  PROVE  First(x, s)
<1> QED
  BY SnapshotFields DEF First, Newest

LEMMA LastTwoFirst ==
  ASSUME NEW s, Snapshots(s), NEW q \in LastTwo(s)
  PROVE  First(q[1], s)
<1>1. PICK x, y : Two(x, y, s) /\ q = <<x, y>>
  BY IsLastTwo
<1>2. q[1] = x /\ x \in Newest(s)
  BY <1>1 DEF Two
<1> QED
  BY <1>2, NewestIsFirst

LEMMA LastThreeFirst ==
  ASSUME NEW s, Snapshots(s), NEW q \in LastThree(s)
  PROVE  First(q[1], s)
<1>1. PICK x, y, z : Three(x, y, z, s) /\ q = <<x, y, z>>
  BY IsLastThree
<1>2. q[1] = x /\ x \in Newest(s)
  BY <1>1 DEF Two, Three
<1> QED
  BY <1>2, NewestIsFirst

LEMMA LastThreeExists ==
  ASSUME NEW s, Snapshots(s)
  PROVE  LastThree(s) # {}
<1>1. PICK x : x \in Newest(s)
  BY NewestExists
<1>2. PICK y : y \in Newest(s \ {x})
  <2>1. Snapshots(s \ {x})
    BY FewerSnapshots
  <2> QED
    BY <2>1, NewestExists
<1>3. PICK z : z \in Newest(s \ {x, y})
  <2>1. Snapshots(s \ {x, y})
    BY FewerSnapshots
  <2> QED
    BY <2>1, NewestExists
<1>4. Three(x, y, z, s)
  BY <1>1, <1>2, <1>3 DEF Two, Three
<1>5. <<x, y, z>> \in LastThree(s)
  BY <1>4, IsLastThree
<1> QED
  BY <1>5

\* Where the answers are the same, there are none, or some as late as any.
AsLate(rest, s) ==
  /\ s = {} <=> rest = {}
  /\ \A x \in s : \E y \in rest : x.at <= y.at

LEMMA SameFirst ==
  ASSUME NEW s, Snapshots(s), NEW rest \in SUBSET s, LastThree(rest) = LastThree(s)
  PROVE  AsLate(rest, s)
<1>1. Snapshots(rest)
  BY FewerSnapshots
<1>2. PICK q : q \in LastThree(s) /\ q \in LastThree(rest)
  BY LastThreeExists
<1>3. First(q[1], s) /\ First(q[1], rest)
  BY <1>1, <1>2, LastThreeFirst
<1> QED
  BY <1>3 DEF First, AsLate

\* A snapshot that no other follows may come first, before those that came first.
LEMMA RecordComesFirst ==
  ASSUME NEW s, NEW new \in Snapshot, new \notin s, \A x \in s : x.at <= new.at,
         NEW q \in LastTwo(s)
  PROVE  <<new, q[1], q[2]>> \in LastThree(s \cup {new})
<1> DEFINE all == s \cup {new}
<1>1. PICK x, y : Two(x, y, s) /\ q = <<x, y>>
  BY IsLastTwo
<1>2. q[1] = x /\ q[2] = y
  BY <1>1
<1>3. new \in Newest(all)
  <2>1. new.at \in Nat
    BY DEF Snapshot
  <2> QED
    BY <2>1 DEF Newest
<1>4. all \ {new} = s /\ all \ {new, x} = s \ {x}
  OBVIOUS
<1>5. Three(new, x, y, all)
  BY <1>1, <1>3, <1>4 DEF Two, Three
<1>6. <<new, x, y>> \in LastThree(all)
  BY <1>5, IsLastThree
<1> QED
  BY <1>2, <1>6

-----------------------------------------------------------------------------
(* The inductive invariant *)

\* The fields of a row and of a job.
IsRow(r) == DOMAIN r = {"native", "rank", "llm", "score", "scoredAt"}

IsJob(j) ==
  /\ DOMAIN j = {"phase", "board", "loaded", "taken", "at", "gone", "late"}
  /\ IsRow(j.loaded)

Time == Nat \cup {Null}
NoLater(t, clock) == t # Null => t <= clock

RowSound(b) == IsRow(row[b]) /\ row[b].scoredAt \in Time

SnapsSound(b) ==
  /\ Snapshots(snaps[b])
  /\ \A x \in snaps[b] : x.id <= records

\* Until it comes late, a writer has loaded the row as it is.  An analysis that found no
\* snapshot has found a score no later than its clock.
JobSound(w) ==
  /\ IsJob(job[w])
  /\ job[w].phase # "idle" =>
       /\ job[w].board \in Boards
       /\ job[w].late \/ job[w].loaded = row[job[w].board]
  /\ w \in Recorders /\ job[w].phase = "loaded" => job[w].at \in Moments
  /\ job[w].phase = "scored" =>
       /\ job[w].at \in Nat
       /\ job[w].at <= now
       /\ job[w].taken[1] = Null \/ job[w].taken[1].at \in Nat
       /\ job[w].taken[1] = Null /\ ~job[w].late /\ ~disturbed[job[w].board] =>
            NoLater(job[w].loaded.scoredAt, job[w].at)

\* No score is later than all snapshots, or than the clock if there are none.
Dated(b) ==
  row[b].scoredAt # Null =>
    \/ \E x \in snaps[b] : row[b].scoredAt <= x.at
    \/ snaps[b] = {} /\ row[b].scoredAt <= now

RecordedEarlier(b) == row[b].scoredAt \in Nat /\ \E x \in snaps[b] : x.at > row[b].scoredAt

Current(b) ==
  \/ row[b].score = Unscored
  \/ RecordedEarlier(b)
  \/ \E latest \in LastThree(snaps[b]) :
       row[b].score = RecalculatedScores(row[b], latest, row[b].llm, row[b].scoredAt)

BoardSound(b) ==
  /\ RowSound(b)
  /\ SnapsSound(b)
  /\ disturbed[b] \/ (Dated(b) /\ Current(b))

Shape ==
  /\ now \in Nat
  /\ records \in Nat
  /\ row = [b \in Boards |-> row[b]]
  /\ snaps = [b \in Boards |-> snaps[b]]
  /\ job = [w \in Writers |-> job[w]]
  /\ disturbed = [b \in Boards |-> disturbed[b]]

IInv ==
  /\ Shape
  /\ \A b \in Boards : BoardSound(b)
  /\ \A w \in Writers : JobSound(w)

\* The time of a score moves back only when it is disturbed, or by a record.
ForwardAt(b) ==
  row[b].scoredAt # Null /\ ~disturbed'[b] /\ ~disturbed[b] =>
    \/ row'[b].scoredAt >= row[b].scoredAt
    \/ \E w \in Recorders : RecordsEarlier(w, b)

LEMMA InitSound == Init => IInv
<1> SUFFICES ASSUME Init
             PROVE  IInv
  OBVIOUS
<1>1. Shape
  BY DEF Init, Shape
<1>2. ASSUME NEW b \in Boards
      PROVE  BoardSound(b)
  <2>1. row[b] = NewRow /\ snaps[b] = {} /\ IsFiniteSet({})
    BY FS_EmptySet DEF Init
  <2> QED
    BY <2>1 DEF BoardSound, RowSound, IsRow, SnapsSound, Snapshots, Dated, Current, NewRow,
      Time
<1>3. ASSUME NEW w \in Writers
      PROVE  JobSound(w)
  <2>1. job[w] = Idle
    BY DEF Init
  <2> QED
    BY <2>1 DEF JobSound, IsJob, IsRow, Idle, NewRow
<1> QED
  BY <1>1, <1>2, <1>3 DEF IInv

\* Time passes.
LEMMA TickSound == IInv /\ Tick => IInv'
<1> SUFFICES ASSUME IInv, Tick
             PROVE  IInv'
  OBVIOUS
<1>1. now \in Nat /\ now' = now + 1 /\ UNCHANGED <<row, snaps, records, job, disturbed>>
  BY DEF IInv, Shape, Tick
<1>2. \A t \in Nat : t <= now => t <= now'
  BY <1>1
<1>3. Shape'
  BY <1>1 DEF IInv, Shape
<1>4. ASSUME NEW b \in Boards
      PROVE  BoardSound(b)'
  <2>1. BoardSound(b)
    BY DEF IInv
  <2>2. row[b].scoredAt = Null \/ row[b].scoredAt \in Nat
    BY <2>1 DEF BoardSound, RowSound, Time
  <2>3. RowSound(b)' /\ SnapsSound(b)'
    BY <1>1, <2>1 DEF BoardSound, RowSound, SnapsSound
  <2>4. Dated(b) => Dated(b)'
    BY <1>1, <1>2, <2>2 DEF Dated
  <2>5. Current(b) => Current(b)'
    BY <1>1 DEF Current, RecordedEarlier
  <2> QED
    BY <1>1, <2>1, <2>3, <2>4, <2>5 DEF BoardSound
<1>5. ASSUME NEW w \in Writers
      PROVE  JobSound(w)'
  BY <1>1, <1>2 DEF IInv, JobSound
<1> QED
  BY <1>3, <1>4, <1>5 DEF IInv

\* What leaves rows and snapshots alone leaves their scores as they are.
LEMMA BoardsStay ==
  ASSUME IInv, UNCHANGED <<now, row, snaps, records, disturbed>>, NEW b \in Boards
  PROVE  BoardSound(b)'
<1> QED
  BY DEF IInv, BoardSound, RowSound, SnapsSound, Dated, Current, RecordedEarlier

\* A step of one writer that writes nothing.
LEMMA ReaderSound ==
  ASSUME IInv, NEW w \in Writers, NEW j,
         job' = [job EXCEPT ![w] = j], UNCHANGED <<now, row, snaps, records, disturbed>>,
         JobSound(w)'
  PROVE  IInv'
<1>1. Shape'
  BY DEF IInv, Shape
<1>2. ASSUME NEW v \in Writers
      PROVE  JobSound(v)'
  <2>1. CASE v = w
    BY <2>1
  <2>2. CASE v # w
    <3>1. job'[v] = job[v]
      BY <2>2
    <3> QED
      BY <3>1 DEF IInv, JobSound
  <2> QED
    BY <2>1, <2>2
<1> QED
  BY <1>1, <1>2, BoardsStay DEF IInv

\* A record is for whatever moment its caller names.
LEMMA LoadRecordSound ==
  ASSUME IInv, NEW w \in Recorders, NEW b \in Boards, NEW at \in Moments, LoadRecord(w, b, at)
  PROVE  IInv'
<1>1. PICK taken, gone :
        job' = [job EXCEPT ![w] =
          [Idle EXCEPT !.phase = "loaded", !.board = b, !.loaded = row[b],
             !.taken = taken, !.at = at, !.gone = gone]]
  BY DEF LoadRecord
<1> DEFINE j == [Idle EXCEPT !.phase = "loaded", !.board = b, !.loaded = row[b],
                  !.taken = taken, !.at = at, !.gone = gone]
<1>2. job' = [job EXCEPT ![w] = j] /\ UNCHANGED <<now, row, snaps, records, disturbed>>
  BY <1>1 DEF LoadRecord
<1>3. job'[w] = j
  BY <1>2 DEF IInv, Shape
<1>4. /\ j.phase = "loaded" /\ j.board = b /\ j.loaded = row[b] /\ j.at = at
      /\ DOMAIN j = {"phase", "board", "loaded", "taken", "at", "gone", "late"}
  BY DEF Idle
<1>5. JobSound(w)'
  <2> HIDE DEF j
  <2>1. IsRow(row[b]) /\ w \notin Analysts
    BY DEF IInv, BoardSound, RowSound
  <2>2. IsJob(j)
    BY <1>4, <2>1 DEF IsJob
  <2> QED
    BY <1>2, <1>3, <1>4, <2>2 DEF JobSound
<1> QED
  <2> HIDE DEF j
  <2> QED
    BY <1>2, <1>5, ReaderSound

\* An analysis loads the row.
LEMMA LoadBoardSound ==
  ASSUME IInv, NEW a \in Analysts, NEW b \in Boards, LoadBoard(a, b)
  PROVE  IInv'
<1> DEFINE j == [Idle EXCEPT !.phase = "loaded", !.board = b, !.loaded = row[b]]
<1>1. job' = [job EXCEPT ![a] = j] /\ UNCHANGED <<now, row, snaps, records, disturbed>>
  BY DEF LoadBoard
<1>2. job'[a] = j
  BY <1>1 DEF IInv, Shape
<1>3. /\ j.phase = "loaded" /\ j.board = b /\ j.loaded = row[b]
      /\ DOMAIN j = {"phase", "board", "loaded", "taken", "at", "gone", "late"}
  BY DEF Idle
<1>4. JobSound(a)'
  <2> HIDE DEF j
  <2>1. IsRow(row[b]) /\ a \notin Recorders
    BY DEF IInv, BoardSound, RowSound
  <2>2. IsJob(j)
    BY <1>3, <2>1 DEF IsJob
  <2> QED
    BY <1>1, <1>2, <1>3, <2>1, <2>2 DEF JobSound
<1> QED
  <2> HIDE DEF j
  <2> QED
    BY <1>1, <1>4, ReaderSound

\* An analysis takes the latest snapshots.
LEMMA ReadSnapshotsSound ==
  ASSUME IInv, NEW a \in Analysts, ReadSnapshots(a)
  PROVE  IInv'
<1> DEFINE s == snaps[job[a].board]
<1>1. PICK taken \in LastThree(s) :
        job' = [job EXCEPT ![a] = [job[a] EXCEPT !.phase = "scored", !.at = now, !.taken = taken]]
  BY DEF ReadSnapshots
<1> DEFINE j == [job[a] EXCEPT !.phase = "scored", !.at = now, !.taken = taken]
<1>2. /\ job' = [job EXCEPT ![a] = j] /\ job[a].phase = "loaded"
      /\ UNCHANGED <<now, row, snaps, records, disturbed>>
  BY <1>1 DEF ReadSnapshots
<1>3. job'[a] = j
  BY <1>2 DEF IInv, Shape
<1>4. JobSound(a) /\ job[a].board \in Boards /\ now \in Nat /\ a \notin Recorders
  BY <1>2 DEF IInv, JobSound, Shape
<1>5. /\ j.phase = "scored" /\ j.board = job[a].board /\ j.loaded = job[a].loaded
      /\ j.taken = taken /\ j.at = now /\ j.late = job[a].late /\ IsJob(j)
  BY <1>4 DEF JobSound, IsJob
<1>6. PICK b \in Boards : b = job[a].board
  BY <1>4
<1>7. BoardSound(b) /\ Snapshots(snaps[b]) /\ First(taken[1], snaps[b])
  BY <1>6, LastThreeFirst DEF IInv, BoardSound, SnapsSound
<1>8. taken[1] = Null \/ taken[1].at \in Nat
  <2>1. \A x \in snaps[b] : x.at \in Nat
    BY <1>7, SnapshotFields
  <2> QED
    BY <1>7, <2>1 DEF First
<1>9. ASSUME taken[1] = Null, ~job[a].late, ~disturbed[b]
      PROVE  NoLater(job[a].loaded.scoredAt, now)
  <2>1. snaps[b] = {} /\ Dated(b) /\ job[a].loaded = row[b]
    BY <1>2, <1>4, <1>6, <1>7, <1>9 DEF First, BoardSound, JobSound
  <2> QED
    BY <2>1 DEF Dated, NoLater
<1>10. JobSound(a)'
  <2> HIDE DEF j, s
  <2>1. IsJob(job'[a]) /\ job'[a].phase = "scored" /\ job'[a].board \in Boards
    BY <1>3, <1>4, <1>5
  <2>2. job'[a].late \/ job'[a].loaded = row'[job'[a].board]
    BY <1>2, <1>3, <1>4, <1>5 DEF JobSound
  <2>3. /\ job'[a].at \in Nat /\ job'[a].at <= now'
        /\ job'[a].taken[1] = Null \/ job'[a].taken[1].at \in Nat
    BY <1>2, <1>3, <1>4, <1>5, <1>8
  <2>4. job'[a].taken[1] = Null /\ ~job'[a].late /\ ~disturbed'[job'[a].board] =>
          NoLater(job'[a].loaded.scoredAt, job'[a].at)
    BY <1>2, <1>3, <1>5, <1>6, <1>9
  <2> QED
    BY <1>4, <2>1, <2>2, <2>3, <2>4 DEF JobSound
<1> QED
  <2> HIDE DEF j
  <2> QED
    BY <1>2, <1>10, ReaderSound

\* A rolled back writer is idle.
LEMMA AbandonSound ==
  ASSUME IInv, NEW w \in Writers, Abandon(w)
  PROVE  IInv'
<1>1. job' = [job EXCEPT ![w] = Idle] /\ UNCHANGED <<now, row, snaps, records, disturbed>>
  BY DEF Abandon
<1>2. job'[w] = Idle
  BY <1>1 DEF IInv, Shape
<1>3. JobSound(w)'
  BY <1>2 DEF JobSound, IsJob, IsRow, Idle, NewRow
<1> QED
  BY <1>1, <1>3, ReaderSound

-----------------------------------------------------------------------------
(* A record *)

Stored(count) ==
  [k \in Kinds |-> IF k \in NullableKinds THEN count[k] ELSE CleanCount(count[k])]

\* What a snapshot stores of the counts, and the counts it scores as current.
LEMMA StoredCounts ==
  ASSUME NEW count \in Showings
  PROVE  /\ Stored(count) \in [Kinds -> Nat \cup {Null}]
         /\ \A k \in Kinds : count[k] # Null => Stored(count)[k] = count[k]
         /\ count = [k \in Kinds |-> count[k]]
<1>1. \A n \in Nat : n # Null /\ CleanCount(n) = n
  BY DEF CleanCount, AtLeast
<1>2. CleanCount(Null) = 0
  BY DEF CleanCount
<1>3. count \in [Kinds -> Nat \cup {Null}]
  OBVIOUS
<1>4. \A k \in Kinds : count[k] = Null \/ count[k] \in Nat
  BY <1>3
<1>5. count = [k \in Kinds |-> count[k]]
  BY <1>3
<1> QED
  BY <1>1, <1>2, <1>4, <1>5 DEF Stored

\* The score of a record is the score that its row and snapshots give when it comes
\* first and took the two that come after it.
LEMMA RecordedIsRecalculated ==
  ASSUME NEW j, NEW count \in Showings, NEW rank, NEW r, NEW clock, NEW new, NEW taken,
         new # Null, new.at = j.at, new.count = Stored(count), new.rank = rank,
         taken[1] = new, taken[2] = j.taken[1], taken[3] = j.taken[2],
         \A k \in Kinds : r.native[k] = count[k]
  PROVE  RecalculatedScores(r, taken, j.loaded.llm, clock) = RecordedScores(j, count, rank)
<1>1. [k \in Kinds |-> CurrentCount(r.native, taken[1], k)] = count
  <2>1. \A k \in Kinds : CurrentCount(r.native, taken[1], k) = count[k]
    <3>1. \A k \in Kinds : count[k] # Null => Stored(count)[k] = count[k]
      BY StoredCounts
    <3> QED
      BY <3>1, Zenon DEF CurrentCount
  <2>2. count = [k \in Kinds |-> count[k]]
    BY StoredCounts
  <2> QED
    BY <2>1, <2>2
<1>2. taken[1] # Null /\ taken[1].rank = rank /\ ScoreTime(taken, clock) = j.at
  BY DEF ScoreTime
<1> QED
  BY <1>1, <1>2, Zenon DEF RecalculatedScores, RecordedScores

\* After a commit on a board, the jobs of others are as sound as before: those on the
\* board come late, and the others see no disturbance undone.
LEMMA OthersSound ==
  ASSUME IInv, NEW w \in Writers, job[w].phase # "idle", now' = now, Committed(w),
         NEW new, row' = [row EXCEPT ![job[w].board] = new],
         \A b \in Boards : b # job[w].board /\ disturbed[b] => disturbed'[b]
  PROVE  /\ job' = [v \in Writers |-> job'[v]]
         /\ \A v \in Writers : JobSound(v)'
<1>1. job' = [v \in Writers |-> job'[v]]
  BY DEF Committed
<1>2. ASSUME NEW v \in Writers
      PROVE  JobSound(v)'
  <2>1. JobSound(v) /\ Shape
    BY DEF IInv
  <2>2. CASE v = w
    <3>1. job'[v] = Idle
      BY <2>2 DEF Committed
    <3> QED
      BY <3>1 DEF JobSound, IsJob, IsRow, Idle, NewRow
  <2>3. CASE v # w /\ job[v].board = job[w].board
    <3>1. job'[v] = [job[v] EXCEPT !.late = TRUE]
      BY <2>3 DEF Committed
    <3> DEFINE j == job'[v]
    <3>2. /\ DOMAIN j = DOMAIN job[v] /\ j.late = TRUE /\ j.phase = job[v].phase
          /\ j.board = job[v].board /\ j.loaded = job[v].loaded
          /\ j.taken = job[v].taken /\ j.at = job[v].at
      BY <2>1, <3>1 DEF JobSound, IsJob
    <3> HIDE DEF j
    <3>3. IsJob(j)
      BY <2>1, <3>2 DEF JobSound, IsJob
    <3>4. j = job'[v]
      BY DEF j
    <3> QED
      BY <2>1, <3>2, <3>3, <3>4 DEF JobSound
  <2>4. CASE v # w /\ job[v].board # job[w].board
    <3>1. CASE job[v].phase = "idle"
      <4>1. job'[v] = job[v]
        BY <2>4 DEF Committed
      <4> QED
        BY <2>1, <3>1, <4>1 DEF JobSound
    <3>2. CASE job[v].phase # "idle"
      <4>1. /\ job'[v] = job[v] /\ row'[job[v].board] = row[job[v].board]
            /\ disturbed[job[v].board] => disturbed'[job[v].board]
        BY <2>1, <2>4, <3>2 DEF Committed, JobSound, Shape
      <4> QED
        BY <2>1, <4>1 DEF JobSound
    <3> QED
      BY <3>1, <3>2
  <2> QED
    BY <2>2, <2>3, <2>4
<1> QED
  BY <1>1, <1>2

\* What a cleanup leaves of a board that it does not disturb.
LEMMA CleanupSound ==
  ASSUME IInv, records' \in Nat, records <= records', now' = now,
         NEW b \in Boards, NEW rest \in SUBSET snaps[b],
         row'[b] = row[b], snaps'[b] = rest,
         disturbed'[b] <=> disturbed[b] \/ LastThree(rest) # LastThree(snaps[b])
  PROVE  BoardSound(b)' /\ ForwardAt(b)
<1>1. BoardSound(b) /\ Shape
  BY DEF IInv
<1>2. Snapshots(snaps[b]) /\ Snapshots(rest)
  BY <1>1, FewerSnapshots DEF BoardSound, SnapsSound
<1>3. RowSound(b)'
  BY <1>1 DEF BoardSound, RowSound
<1>4. SnapsSound(b)'
  <2>1. \A x \in rest : x.id \in Nat /\ x.id <= records
    BY <1>1, <1>2 DEF BoardSound, SnapsSound, Snapshots, Snapshot
  <2> QED
    BY <1>1, <1>2, <2>1 DEF SnapsSound, Shape
<1>5. ASSUME ~disturbed'[b]
      PROVE  Dated(b)' /\ Current(b)'
  <2>1. LastThree(rest) = LastThree(snaps[b]) /\ Dated(b) /\ Current(b)
    BY <1>1, <1>5 DEF BoardSound
  <2>2. AsLate(rest, snaps[b])
    BY <1>2, <2>1, SameFirst
  <2>3. \A x \in snaps[b] : x.at \in Nat
    BY <1>2, SnapshotFields
  <2>4. row[b].scoredAt = Null \/ row[b].scoredAt \in Nat
    BY <1>1 DEF BoardSound, RowSound, Time
  <2>5. ASSUME NEW x \in snaps[b]
        PROVE  \E y \in rest : \A t \in Nat : (t <= x.at => t <= y.at) /\ (x.at > t => y.at > t)
    <3>1. PICK y \in rest : x.at <= y.at
      BY <2>2 DEF AsLate
    <3>2. x.at \in Nat /\ y.at \in Nat
      BY <2>3
    <3> QED
      BY <3>1, <3>2
  <2>6. Dated(b)'
    <3>1. CASE row[b].scoredAt = Null
      BY <3>1 DEF Dated
    <3>2. CASE snaps[b] = {} /\ row[b].scoredAt <= now
      BY <2>2, <3>2 DEF Dated, AsLate
    <3>3. CASE \E x \in snaps[b] : row[b].scoredAt <= x.at /\ row[b].scoredAt \in Nat
      BY <2>5, <3>3 DEF Dated
    <3> QED
      BY <2>1, <2>4, <3>1, <3>2, <3>3 DEF Dated
  <2>7. RecordedEarlier(b) => RecordedEarlier(b)'
    BY <2>5 DEF RecordedEarlier
  <2>8. Current(b)'
    BY <2>1, <2>7 DEF Current
  <2> QED
    BY <2>6, <2>8
<1>6. ForwardAt(b)
  BY <1>1 DEF BoardSound, RowSound, ForwardAt, Time
<1> QED
  BY <1>3, <1>4, <1>5, <1>6 DEF BoardSound

\* A record: the counts are those of the source, whatever the snapshot stores.
LEMMA CommitRecordSound ==
  ASSUME IInv, NEW w \in Recorders, NEW count \in Showings,
         NEW rank \in Ranks \cup {Null}, CommitRecord(w, count, rank)
  PROVE  IInv' /\ \A b \in Boards : ForwardAt(b)
<1> DEFINE j == job[w]
<1>0. PICK mine \in Boards : mine = j.board
  BY DEF IInv, JobSound, CommitRecord
<1> DEFINE Kept(b) == snaps[b] \ j.gone
           new == [id |-> records + 1, at |-> j.at, rank |-> rank, count |-> Stored(count)]
           written == Written(row[mine], j.loaded,
             [native |-> count, rank |-> rank, llm |-> j.loaded.llm,
              score |-> RecordedScores(j, count, rank), scoredAt |-> j.at])
           overtaken == j.late \/ j.taken \notin LastTwo(Kept(mine))
<1>1. /\ Shape /\ JobSound(w) /\ j.phase = "loaded" /\ mine = j.board
      /\ now \in Nat /\ records \in Nat /\ j.at \in Nat /\ j.at \in Moments
      /\ \A b \in Boards : BoardSound(b)
  BY <1>0 DEF IInv, CommitRecord, JobSound, Shape
<1>2. /\ row' = [row EXCEPT ![mine] = written] /\ now' = now /\ Committed(w)
      /\ records' = records + 1
      /\ snaps' = [b \in Boards |-> Kept(b) \cup IF b = mine THEN {new} ELSE {}]
      /\ disturbed' = [b \in Boards |->
           IF b = mine THEN overtaken
           ELSE disturbed[b] \/ LastThree(Kept(b)) # LastThree(snaps[b])]
  BY <1>0 DEF CommitRecord, Stored
<1>3. /\ row'[mine] = written /\ row' = [b \in Boards |-> row'[b]]
      /\ \A b \in Boards : b # mine => row'[b] = row[b]
  <2> HIDE DEF written
  <2> QED
    BY <1>1, <1>2 DEF Shape
<1>4. new \in Snapshot /\ new.id = records + 1 /\ new.at = j.at
      /\ new.count = Stored(count) /\ new.rank = rank
  BY <1>1, StoredCounts DEF Snapshot
<1>5. new # Null
  BY <1>4, NothingAssumption
<1>6. /\ IsRow(written)
      /\ written.scoredAt = IF j.at = j.loaded.scoredAt THEN row[mine].scoredAt ELSE j.at
      /\ ~j.late => /\ written.scoredAt = j.at /\ written.llm = j.loaded.llm
                    /\ written.score = RecordedScores(j, count, rank)
                    /\ \A k \in Kinds : written.native[k] = count[k]
  <2>1. j.late \/ j.loaded = row[mine]
    BY <1>1 DEF JobSound
  <2> QED
    BY <2>1 DEF Written, Column, IsRow
<1>7. ASSUME NEW b \in Boards, b # mine
      PROVE  BoardSound(b)' /\ ForwardAt(b)
  <2>1. /\ row'[b] = row[b] /\ snaps'[b] = Kept(b)
        /\ disturbed'[b] <=> disturbed[b] \/ LastThree(Kept(b)) # LastThree(snaps[b])
    BY <1>2, <1>3, <1>7
  <2>2. Kept(b) \in SUBSET snaps[b] /\ records' \in Nat /\ records <= records'
    BY <1>1, <1>2
  <2> HIDE DEF Kept
  <2> QED
    BY <1>2, <2>1, <2>2, CleanupSound
<1> DEFINE rest == Kept(mine)
<1>8. /\ snaps'[mine] = rest \cup {new} /\ Snapshots(rest) /\ new \notin rest
      /\ \A x \in rest : x.id \in Nat /\ x.id <= records /\ x.at \in Nat
  <2>1. snaps'[mine] = rest \cup {new}
    BY <1>2
  <2>2. rest \in SUBSET snaps[mine] /\ SnapsSound(mine)
    BY <1>1 DEF BoardSound
  <2> HIDE DEF rest, new
  <2>3. Snapshots(rest)
    BY <2>2, FewerSnapshots DEF SnapsSound
  <2>4. \A x \in rest : x.id \in Nat /\ x.id <= records /\ x.at \in Nat
    BY <2>2, <2>3 DEF SnapsSound, Snapshots, Snapshot
  <2>5. new \notin rest
    BY <1>1, <1>4, <2>4
  <2> QED
    BY <2>1, <2>3, <2>4, <2>5
<1> HIDE DEF rest, new, written
<1>9. ASSUME ~j.late
      PROVE  Dated(mine)'
  <2>1. row'[mine].scoredAt = j.at /\ new \in snaps'[mine] /\ j.at <= new.at
    BY <1>1, <1>3, <1>4, <1>6, <1>8, <1>9
  <2> QED
    BY <2>1 DEF Dated
<1>10. ASSUME ~overtaken
       PROVE  Current(mine)'
  <2>1. /\ j.taken \in LastTwo(rest)
        /\ row'[mine].scoredAt = j.at /\ row'[mine].llm = j.loaded.llm
        /\ row'[mine].score = RecordedScores(j, count, rank)
        /\ \A k \in Kinds : row'[mine].native[k] = count[k]
    BY <1>3, <1>6, <1>10 DEF rest
  <2>2. CASE \A x \in rest : x.at <= new.at
    <3> DEFINE latest == <<new, j.taken[1], j.taken[2]>>
    <3>1. latest \in LastThree(snaps'[mine])
      BY <1>4, <1>8, <2>1, <2>2, RecordComesFirst
    <3>2. latest[1] = new /\ latest[2] = j.taken[1] /\ latest[3] = j.taken[2]
      OBVIOUS
    <3> HIDE DEF latest
    <3>3. PICK p, q : p = j /\ q = row'[mine]
      OBVIOUS
    <3>4. /\ new.at = p.at /\ latest[2] = p.taken[1] /\ latest[3] = p.taken[2]
          /\ \A k \in Kinds : q.native[k] = count[k]
      BY <1>4, <2>1, <3>2, <3>3
    <3>5. RecalculatedScores(q, latest, p.loaded.llm, p.at) = RecordedScores(p, count, rank)
      BY <1>4, <1>5, <3>2, <3>4, RecordedIsRecalculated
    <3> HIDE DEF j
    <3> QED
      BY <2>1, <3>1, <3>3, <3>5 DEF Current
  <2>3. CASE \E x \in rest : ~(x.at <= new.at)
    <3>1. \E x \in snaps'[mine] : x.at > j.at
      BY <1>1, <1>4, <1>8, <2>3
    <3> QED
      BY <1>1, <2>1, <3>1 DEF Current, RecordedEarlier
  <2> QED
    BY <2>2, <2>3
<1>11. ~overtaken => ForwardAt(mine)
  <2>1. ASSUME ~overtaken
        PROVE  row'[mine].scoredAt = j.at /\ row[mine].scoredAt \in Time /\ job'[w] = Idle
    <3>1. row'[mine].scoredAt = j.at
      BY <1>3, <1>6, <2>1
    <3>2. row[mine].scoredAt \in Time
      BY <1>1 DEF BoardSound, RowSound
    <3>3. job'[w] = Idle
      BY <1>2 DEF Committed
    <3> QED
      BY <3>1, <3>2, <3>3
  <2>2. Idle.phase = "idle"
    BY DEF Idle
  <2> QED
    BY <1>1, <2>1, <2>2 DEF ForwardAt, RecordsEarlier, Time
<1>12. BoardSound(mine)' /\ ForwardAt(mine)
  <2>1. RowSound(mine)'
    <3>1. written.scoredAt = row[mine].scoredAt \/ written.scoredAt = j.at
      BY <1>6
    <3> QED
      BY <1>1, <1>3, <1>6, <3>1 DEF BoardSound, RowSound, Time
  <2>2. SnapsSound(mine)'
    <3>1. IsFiniteSet(rest \cup {new}) /\ rest \cup {new} \in SUBSET Snapshot
      BY <1>4, <1>8, FS_AddElement DEF Snapshots
    <3>2. \A x \in rest \cup {new} : x.id <= records'
      BY <1>1, <1>2, <1>4, <1>8
    <3> QED
      BY <1>8, <3>1, <3>2 DEF SnapsSound, Snapshots
  <2>3. disturbed'[mine] <=> overtaken
    BY <1>1, <1>2
  <2>4. overtaken \/ (Dated(mine)' /\ Current(mine)')
    BY <1>9, <1>10
  <2> HIDE DEF overtaken
  <2>5. ForwardAt(mine)
    BY <1>11, <2>3 DEF ForwardAt
  <2> QED
    BY <2>1, <2>2, <2>3, <2>4, <2>5 DEF BoardSound
<1>13. Shape'
  <2>1. disturbed' = [b \in Boards |-> disturbed'[b]]
    BY <1>2
  <2>2. snaps' = [b \in Boards |-> snaps'[b]] /\ job' = [v \in Writers |-> job'[v]]
    BY <1>2 DEF Committed
  <2>3. now' \in Nat /\ records' \in Nat
    BY <1>1, <1>2
  <2> QED
    BY <1>1, <1>3, <2>1, <2>2, <2>3 DEF Shape
<1>14. \A v \in Writers : JobSound(v)'
  <2>1. \A b \in Boards : b # mine /\ disturbed[b] => disturbed'[b]
    BY <1>2
  <2> QED
    BY <1>1, <1>2, <2>1, OthersSound
<1>15. ASSUME NEW b \in Boards
       PROVE  BoardSound(b)' /\ ForwardAt(b)
  <2>1. CASE b = mine
    BY <1>12, <2>1
  <2>2. CASE b # mine
    BY <1>7, <2>2
  <2> QED
    BY <2>1, <2>2
<1> QED
  BY <1>13, <1>14, <1>15 DEF IInv

-----------------------------------------------------------------------------
(* An analysis *)

\* What an analysis has loaded and the row it has written give one score: counts and
\* rank are the same, and the time of the score is a time the snapshots give again.
LEMMA RecalculatedAgain ==
  ASSUME NEW r, NEW q, NEW taken, NEW llm, NEW clock,
         \A k \in Kinds : q.native[k] = r.native[k], q.rank = r.rank
  PROVE  RecalculatedScores(q, taken, llm, ScoreTime(taken, clock))
           = RecalculatedScores(r, taken, llm, clock)
<1>1. [k \in Kinds |-> CurrentCount(q.native, taken[1], k)]
        = [k \in Kinds |-> CurrentCount(r.native, taken[1], k)]
  BY DEF CurrentCount
<1>2. ScoreTime(taken, ScoreTime(taken, clock)) = ScoreTime(taken, clock)
  BY DEF ScoreTime
<1> QED
  BY <1>1, <1>2 DEF RecalculatedScores

LEMMA CommitAnalysisSound ==
  ASSUME IInv, NEW a \in Analysts, NEW llm, CommitAnalysis(a, llm)
  PROVE  IInv' /\ \A b \in Boards : ForwardAt(b)
<1> DEFINE j == job[a]
<1>0. PICK mine \in Boards : mine = j.board
  BY DEF IInv, JobSound, CommitAnalysis
<1> DEFINE scores == RecalculatedScores(j.loaded, j.taken, llm, j.at)
           time == ScoreTime(j.taken, j.at)
           new == [j.loaded EXCEPT !.llm = llm, !.score = scores, !.scoredAt = time]
           written == Written(row[mine], j.loaded, new)
           overtaken == j.late \/ j.taken \notin LastThree(snaps[mine])
<1>1. /\ Shape /\ JobSound(a) /\ j.phase = "scored" /\ mine = j.board
      /\ now \in Nat /\ j.at \in Nat /\ j.at <= now
      /\ \A b \in Boards : BoardSound(b)
  BY <1>0 DEF IInv, CommitAnalysis, JobSound, Shape
<1>2. /\ row' = [row EXCEPT ![mine] = written]
      /\ now' = now /\ snaps' = snaps /\ records' = records
      /\ disturbed' = [disturbed EXCEPT ![mine] = overtaken] /\ Committed(a)
  BY <1>0 DEF CommitAnalysis
<1>3. /\ row'[mine] = written /\ row' = [b \in Boards |-> row'[b]]
      /\ \A b \in Boards : b # mine => row'[b] = row[b]
      /\ disturbed'[mine] = overtaken /\ disturbed' = [b \in Boards |-> disturbed'[b]]
      /\ \A b \in Boards : b # mine => disturbed'[b] = disturbed[b]
  <2> HIDE DEF written, overtaken
  <2> QED
    BY <1>1, <1>2 DEF Shape
<1>4. /\ new.native = j.loaded.native /\ new.rank = j.loaded.rank /\ new.llm = llm
      /\ new.score = scores /\ new.scoredAt = time
  <2> HIDE DEF scores, time
  <2> QED
    BY <1>1 DEF JobSound, IsJob, IsRow
<1>5. /\ IsRow(written)
      /\ written.scoredAt = IF time = j.loaded.scoredAt THEN row[mine].scoredAt ELSE time
      /\ ~j.late => /\ written.scoredAt = time /\ written.llm = llm
                    /\ written.score = scores /\ written.rank = row[mine].rank
                    /\ \A k \in Kinds : written.native[k] = row[mine].native[k]
  <2>1. j.late \/ j.loaded = row[mine]
    BY <1>1 DEF JobSound
  <2> HIDE DEF scores, time, new
  <2> QED
    BY <1>4, <2>1 DEF Written, Column, IsRow, written
<1>6. time \in Nat
  BY <1>1 DEF JobSound, ScoreTime
<1> HIDE DEF written
<1>7. ASSUME ~overtaken
      PROVE  Dated(mine)' /\ Current(mine)' /\ (~disturbed[mine] => ForwardAt(mine))
  <2>1. ~j.late /\ j.taken \in LastThree(snaps[mine]) /\ j.loaded = row[mine]
    BY <1>1, <1>7 DEF JobSound
  <2>2. /\ row'[mine].scoredAt = time /\ row'[mine].llm = llm /\ row'[mine].score = scores
        /\ row'[mine].rank = row[mine].rank
        /\ \A k \in Kinds : row'[mine].native[k] = row[mine].native[k]
    BY <1>3, <1>5, <2>1
  <2>3. Snapshots(snaps[mine]) /\ \A x \in snaps[mine] : x.at \in Nat
    BY <1>1, SnapshotFields DEF BoardSound, SnapsSound
  <2>4. First(j.taken[1], snaps[mine])
    BY <2>1, <2>3, LastThreeFirst
  <2>5. ASSUME snaps[mine] # {}
        PROVE  Dated(mine)' /\ (~disturbed[mine] => ForwardAt(mine))
    <3>1. /\ j.taken[1] \in snaps[mine] /\ time = j.taken[1].at
          /\ \A x \in snaps[mine] : x.at <= time
      BY <2>4, <2>5 DEF First, ScoreTime
    <3> HIDE DEF time
    <3>2. Dated(mine)'
      BY <1>2, <1>6, <2>2, <3>1 DEF Dated
    <3>3. ASSUME ~disturbed[mine], row[mine].scoredAt # Null
          PROVE  time >= row[mine].scoredAt
      <4>1. row[mine].scoredAt \in Nat /\ Dated(mine)
        BY <1>1, <3>3 DEF BoardSound, RowSound, Time
      <4>2. PICK x \in snaps[mine] : row[mine].scoredAt <= x.at
        BY <2>5, <3>3, <4>1 DEF Dated
      <4> QED
        BY <1>6, <2>3, <3>1, <4>1, <4>2
    <3>4. ~disturbed[mine] => ForwardAt(mine)
      BY <2>2, <3>3 DEF ForwardAt
    <3> QED
      BY <3>2, <3>4
  <2>6. ASSUME snaps[mine] = {}
        PROVE  Dated(mine)' /\ (~disturbed[mine] => ForwardAt(mine))
    <3>1. j.taken[1] = Null /\ time = j.at
      BY <2>4, <2>6 DEF First, ScoreTime
    <3> HIDE DEF time
    <3>2. Dated(mine)'
      BY <1>1, <1>2, <2>2, <2>6, <3>1 DEF Dated
    <3>3. ASSUME ~disturbed[mine], row[mine].scoredAt # Null
          PROVE  time >= row[mine].scoredAt
      <4>1. row[mine].scoredAt \in Nat
        BY <1>1, <3>3 DEF BoardSound, RowSound, Time
      <4>2. NoLater(row[mine].scoredAt, j.at)
        BY <1>1, <2>1, <3>1, <3>3 DEF JobSound
      <4> QED
        BY <1>1, <3>1, <3>3, <4>1, <4>2 DEF NoLater
    <3>4. ~disturbed[mine] => ForwardAt(mine)
      BY <2>2, <3>3 DEF ForwardAt
    <3> QED
      BY <3>2, <3>4
  <2>7. Current(mine)'
    <3>1. RecalculatedScores(row'[mine], j.taken, llm, ScoreTime(j.taken, j.at))
            = RecalculatedScores(row[mine], j.taken, llm, j.at)
      BY <2>2, RecalculatedAgain
    <3>2. RecalculatedScores(row'[mine], j.taken, llm, time) = scores
      BY <2>1, <3>1
    <3> HIDE DEF time, scores
    <3> QED
      BY <1>2, <2>1, <2>2, <3>2 DEF Current
  <2> QED
    BY <2>5, <2>6, <2>7
<1>8. ASSUME NEW b \in Boards
      PROVE  BoardSound(b)' /\ ForwardAt(b)
  <2>1. CASE b = mine
    <3> HIDE DEF overtaken, time
    <3>1. RowSound(mine)'
      <4>1. written.scoredAt = row[mine].scoredAt \/ written.scoredAt = time
        BY <1>5
      <4> QED
        BY <1>1, <1>3, <1>5, <1>6, <4>1 DEF BoardSound, RowSound, Time
    <3>2. SnapsSound(mine)'
      BY <1>1, <1>2 DEF BoardSound, SnapsSound
    <3>3. CASE overtaken
      BY <1>3, <2>1, <3>1, <3>2, <3>3 DEF BoardSound, ForwardAt
    <3>4. CASE ~overtaken
      <4>1. ForwardAt(mine)
        BY <1>7, <3>4 DEF ForwardAt
      <4> QED
        BY <1>7, <2>1, <3>1, <3>2, <3>4, <4>1 DEF BoardSound
    <3> QED
      BY <3>3, <3>4
  <2>2. CASE b # mine
    <3>1. row'[b] = row[b] /\ disturbed'[b] = disturbed[b]
      BY <1>3, <2>2
    <3>2. BoardSound(b)'
      BY <1>1, <1>2, <3>1
      DEF BoardSound, RowSound, SnapsSound, Dated, Current, RecordedEarlier
    <3>3. ForwardAt(b)
      BY <1>1, <3>1 DEF BoardSound, RowSound, ForwardAt, Time
    <3> QED
      BY <3>2, <3>3
  <2> QED
    BY <2>1, <2>2
<1>9. Shape'
  <2>1. snaps' = [b \in Boards |-> snaps'[b]] /\ job' = [v \in Writers |-> job'[v]]
    BY <1>1, <1>2 DEF Shape, Committed
  <2> QED
    BY <1>1, <1>2, <1>3, <2>1 DEF Shape
<1>10. \A v \in Writers : JobSound(v)'
  <2>1. \A b \in Boards : b # mine /\ disturbed[b] => disturbed'[b]
    BY <1>3
  <2> QED
    BY <1>1, <1>2, <2>1, OthersSound
<1> QED
  BY <1>8, <1>9, <1>10 DEF IInv

-----------------------------------------------------------------------------
(* The theorems *)

\* Who does not write rows leaves the times of their scores.
LEMMA ForwardWhenStill ==
  ASSUME IInv, row' = row
  PROVE  \A b \in Boards : ForwardAt(b)
<1>1. ASSUME NEW b \in Boards
      PROVE  ForwardAt(b)
  <2>1. row[b].scoredAt \in Time /\ row'[b] = row[b]
    BY DEF IInv, BoardSound, RowSound
  <2> QED
    BY <2>1 DEF ForwardAt, Time
<1> QED
  BY <1>1

LEMMA StepSound ==
  ASSUME IInv, [Next]_vars
  PROVE  IInv' /\ \A b \in Boards : ForwardAt(b)
<1>1. CASE Tick
  BY <1>1, TickSound, ForwardWhenStill DEF Tick
<1>2. ASSUME NEW w \in Recorders, NEW b \in Boards, NEW at \in Moments, LoadRecord(w, b, at)
      PROVE  IInv' /\ \A c \in Boards : ForwardAt(c)
  BY <1>2, LoadRecordSound, ForwardWhenStill DEF LoadRecord
<1>3. ASSUME NEW w \in Recorders, NEW count \in Showings, NEW rank \in Ranks \cup {Null},
             CommitRecord(w, count, rank)
      PROVE  IInv' /\ \A c \in Boards : ForwardAt(c)
  BY <1>3, CommitRecordSound
<1>4. ASSUME NEW a \in Analysts, NEW b \in Boards, LoadBoard(a, b)
      PROVE  IInv' /\ \A c \in Boards : ForwardAt(c)
  BY <1>4, LoadBoardSound, ForwardWhenStill DEF LoadBoard
<1>5. ASSUME NEW a \in Analysts, ReadSnapshots(a)
      PROVE  IInv' /\ \A c \in Boards : ForwardAt(c)
  BY <1>5, ReadSnapshotsSound, ForwardWhenStill DEF ReadSnapshots
<1>6. ASSUME NEW a \in Analysts, NEW llm, CommitAnalysis(a, llm)
      PROVE  IInv' /\ \A c \in Boards : ForwardAt(c)
  BY <1>6, CommitAnalysisSound
<1>7. ASSUME NEW w \in Writers, Abandon(w)
      PROVE  IInv' /\ \A c \in Boards : ForwardAt(c)
  BY <1>7, AbandonSound, ForwardWhenStill DEF Abandon
<1>8. CASE UNCHANGED vars
  <2>1. UNCHANGED <<now, row, snaps, records, job, disturbed>>
    BY <1>8 DEF vars
  <2>2. \A w \in Writers : JobSound(w)'
    BY <2>1 DEF IInv, JobSound
  <2>3. Shape'
    BY <2>1 DEF IInv, Shape
  <2> QED
    BY <2>1, <2>2, <2>3, BoardsStay, ForwardWhenStill DEF IInv
<1> QED
  BY <1>1, <1>2, <1>3, <1>4, <1>5, <1>6, <1>7, <1>8 DEF Next

THEOREM SpecSound == Spec => []IInv
<1>1. Spec => Init /\ [][Next]_vars
  BY DEF Spec
<1>2. IInv /\ [Next]_vars => IInv'
  BY StepSound
<1> QED
  BY <1>1, <1>2, InitSound, PTL

\* A score that no other writer and no cleanup disturbed is the score that the rows of
\* its board give, unless the record it is of is for an earlier moment than a stored one:
\* what a recorder adds up while it stores a snapshot, an analysis adds up again from
\* what is stored, with all the same counts, times and rates.
THEOREM SpecScoreIsCurrent == Spec => []ScoreIsCurrent
<1>1. IInv => ScoreIsCurrent
  BY DEF IInv, BoardSound, ScoreIsCurrent, Current, RecordedEarlier
<1> QED
  BY <1>1, SpecSound, PTL

\* Whatever moments callers record, and in whatever order, only a record takes the time
\* from which lists let a score decay back while nobody disturbs it: an analysis, which
\* takes the time of the latest snapshot, never does.
THEOREM SpecScoreTimeForward == Spec => ScoreTimeForward
<1>1. Spec => Init /\ [][Next]_vars
  BY DEF Spec
<1>2. IInv /\ [Next]_vars =>
        [\A b \in Boards :
           row[b].scoredAt # Null /\ ~disturbed'[b] /\ ~disturbed[b] =>
             \/ row'[b].scoredAt >= row[b].scoredAt
             \/ \E w \in Recorders : RecordsEarlier(w, b)]_vars
  BY StepSound DEF ForwardAt
<1> QED
  BY <1>1, <1>2, SpecSound, PTL DEF ScoreTimeForward
=============================================================================
