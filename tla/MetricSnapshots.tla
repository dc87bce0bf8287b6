-------------------------- MODULE MetricSnapshots --------------------------
(***************************************************************************)
(* The popularity scores of boards and the two writers of them: a crawl    *)
(* that records a metric snapshot (record_metric_snapshot), and an         *)
(* analysis that stores the model's engagement score and scores the board  *)
(* again from the snapshots (_recalculate_popularity_scores).  Both load   *)
(* rows, compute, and write the columns that differ from what they loaded. *)
(***************************************************************************)
EXTENDS Popularity

CONSTANTS
  Boards,
  Recorders,       \* the repositories that record snapshots
  Analysts,        \* the sessions of analyze_board
  Showings,        \* what a source shows for the counters
  Ranks,           \* source ranks
  LlmScores,       \* what the model answers
  NullableKinds,   \* the counters that a snapshot stores as NULL: views
  Retention,       \* SNAPSHOT_RETENTION_DAYS
  CleanupInterval, \* SNAPSHOT_CLEANUP_INTERVAL
  Moments,         \* what callers of record_metric_snapshot give as captured_at
  Horizon,         \* bound on the clock
  MaxRecords,      \* bound on the records
  NoBoard, Unscored

VARIABLES
  now,        \* the clock; a board is created at 0
  row,        \* row[b]: the metric and score columns of boards
  snaps,      \* snaps[b]: the rows of board_metric_snapshots
  records,    \* the number of snapshots recorded so far
  cleanedAt,  \* cleanedAt[w]: _last_snapshot_cleanup_at
  job,        \* job[w]: where a recorder or an analyst stands
  disturbed   \* disturbed[b]: the score of b comes from rows that another
              \* writer or the cleanup has changed since they were read (history)

vars == <<now, row, snaps, records, cleanedAt, job, disturbed>>

ASSUME SnapshotsAssumption ==
  /\ NullableKinds \subseteq Kinds
  /\ Showings \subseteq [Kinds -> Nat \cup {Null}]
  /\ Recorders \cap Analysts = {}
  /\ Moments \subseteq Nat

\* at: captured_at, an argument of record_metric_snapshot.  Nothing ties it to the clock
\* of the analyst, or to the order in which records are made.
Snapshot ==
  [id : Nat, at : Moments, count : [Kinds -> Nat \cup {Null}], rank : Ranks \cup {Null}]

\* A score, and no snapshot, are values of their own.
ASSUME NothingAssumption == Null \notin Snapshot

Writers == Recorders \cup Analysts

\* The snapshots in s that none follows, or Null.
Newest(s) == IF s = {} THEN {Null} ELSE {x \in s : \A y \in s : y.at <= x.at}

\* What a query for the latest two, or three, of s may return: the order of rows of one
\* moment is the database's choice, and Null stands for a row that is not there.
LastTwo(s) == UNION {{<<x, y>> : y \in Newest(s \ {x})} : x \in Newest(s)}
LastThree(s) ==
  UNION {{<<q[1], q[2], z>> : z \in Newest(s \ {q[1], q[2]})} : q \in LastTwo(s)}

NewRow == [native |-> [k \in Kinds |-> Null], rank |-> Null, llm |-> Null,
           score |-> Unscored, scoredAt |-> Null]
Idle == [phase |-> "idle", board |-> NoBoard, loaded |-> NewRow, taken |-> <<>>,
         at |-> Null, gone |-> {}, late |-> FALSE]

Init ==
  /\ now = 1
  /\ row = [b \in Boards |-> NewRow]
  /\ snaps = [b \in Boards |-> {}]
  /\ records = 0
  /\ cleanedAt = [w \in Recorders |-> Null]
  /\ job = [w \in Writers |-> Idle]
  /\ disturbed = [b \in Boards |-> FALSE]

Tick ==
  /\ now < Horizon
  /\ now' = now + 1
  /\ UNCHANGED <<row, snaps, records, cleanedAt, job, disturbed>>

-----------------------------------------------------------------------------
(* Scores from snapshots *)

CountOf(snap, k) == IF snap = Null THEN Null ELSE snap.count[k]
TimeOf(snap) == IF snap = Null THEN Null ELSE snap.at

SnapshotDelta(current, previous, k) ==
  IF current = Null \/ previous = Null THEN 0
  ELSE AtLeast(0, CleanCount(current.count[k]) - CleanCount(previous.count[k]))

SnapshotInterval(current, previous) ==
  IF current = Null \/ previous = Null THEN Null
  ELSE IntervalMinutes(current.at, previous.at)

\* The arguments that both writers build from the snapshots before the current one.
Metrics(count, rank, at, llm, previous, beforeThat) ==
  [count |-> count, rank |-> rank, capturedAt |-> at, llm |-> llm,
   previous |-> [k \in Kinds |-> CountOf(previous, k)],
   previousAt |-> TimeOf(previous),
   previousDelta |-> [k \in Kinds |-> SnapshotDelta(previous, beforeThat, k)],
   previousInterval |-> SnapshotInterval(previous, beforeThat)]

RecordedScores(j, count, rank) ==
  PopularityScores(
    Metrics(count, rank, j.at, j.loaded.llm, j.taken[1], j.taken[2]))

\* Faulty: the count of the snapshot, whatever the board says of it.
CurrentCountOfSnapshot(native, current, k) ==
  IF current # Null THEN current.count[k] ELSE native[k]

\* A snapshot stores an unavailable count as 0, except for nullable counters; the
\* board's column tells whether it was available.
CurrentCount(native, current, k) ==
  IF current # Null /\ native[k] # Null THEN current.count[k] ELSE native[k]

\* Faulty: the time of the snapshot before the current one, if there is one.
ScoreTimeOfPrevious(taken, clock) ==
  IF taken[2] # Null THEN taken[2].at ELSE IF taken[1] = Null THEN clock ELSE taken[1].at

ScoreTime(taken, clock) == IF taken[1] = Null THEN clock ELSE taken[1].at

RecalculatedScores(r, taken, llm, clock) ==
  PopularityScores(
    Metrics([k \in Kinds |-> CurrentCount(r.native, taken[1], k)],
            IF taken[1] = Null THEN r.rank ELSE taken[1].rank,
            ScoreTime(taken, clock), llm, taken[2], taken[3]))

-----------------------------------------------------------------------------
(* Writers *)

\* record_metric_snapshot, for a moment its caller names, or for now, loads the board
\* and, after the cleanup that its own transaction sees, the latest two snapshots.
LoadRecord(w, b, at) ==
  LET due == cleanedAt[w] = Null \/ at - cleanedAt[w] >= CleanupInterval
      gone == {x \in UNION {snaps[c] : c \in Boards} : due /\ x.at < at - Retention} IN
  /\ job[w].phase = "idle" /\ records < MaxRecords
  /\ \E taken \in LastTwo(snaps[b] \ gone) :
       job' = [job EXCEPT ![w] =
         [Idle EXCEPT !.phase = "loaded", !.board = b, !.loaded = row[b],
            !.taken = taken, !.at = at, !.gone = gone]]
  /\ cleanedAt' = [cleanedAt EXCEPT ![w] = IF due THEN at ELSE @]
  /\ UNCHANGED <<now, row, snaps, records, disturbed>>

\* The ORM emits a column whose new value differs from the loaded one.
Column(loaded, new, current) == IF new = loaded THEN current ELSE new

Written(current, loaded, new) ==
  [native |-> [k \in Kinds |->
     Column(loaded.native[k], new.native[k], current.native[k])],
   rank |-> Column(loaded.rank, new.rank, current.rank),
   llm |-> Column(loaded.llm, new.llm, current.llm),
   score |-> Column(loaded.score, new.score, current.score),
   scoredAt |-> Column(loaded.scoredAt, new.scoredAt, current.scoredAt)]

\* The commit of w on its board: its reads were good unless another commit on
\* the board came after them, and those who have read the board now come late.
Committed(w) ==
  job' = [v \in Writers |->
    IF v = w THEN Idle
    ELSE IF job[v].board = job[w].board THEN [job[v] EXCEPT !.late = TRUE] ELSE job[v]]

\* What the source showed, an argument of the call, is chosen here.
CommitRecord(w, count, rank) ==
  LET j == job[w]
      new == [id |-> records + 1, at |-> j.at, rank |-> rank,
        count |-> [k \in Kinds |-> IF k \in NullableKinds THEN count[k] ELSE CleanCount(count[k])]]
      Kept(b) == snaps[b] \ j.gone IN
  /\ j.phase = "loaded" /\ records < MaxRecords
  /\ row' = [row EXCEPT ![j.board] = Written(@, j.loaded,
       [native |-> count, rank |-> rank, llm |-> j.loaded.llm,
        score |-> RecordedScores(j, count, rank), scoredAt |-> j.at])]
  /\ snaps' = [b \in Boards |-> Kept(b) \cup IF b = j.board THEN {new} ELSE {}]
  /\ disturbed' = [b \in Boards |->
       IF b = j.board THEN j.late \/ j.taken \notin LastTwo(Kept(b))
       ELSE disturbed[b] \/ LastThree(Kept(b)) # LastThree(snaps[b])]
  /\ records' = records + 1
  /\ Committed(w)
  /\ UNCHANGED <<now, cleanedAt>>

\* analyze_board loads the board and calls the model.
LoadBoard(a, b) ==
  /\ job[a].phase = "idle"
  /\ job' = [job EXCEPT ![a] = [Idle EXCEPT !.phase = "loaded", !.board = b, !.loaded = row[b]]]
  /\ UNCHANGED <<now, row, snaps, records, cleanedAt, disturbed>>

\* The model has answered: the latest three snapshots, as they are now.
ReadSnapshots(a) ==
  /\ job[a].phase = "loaded"
  /\ \E taken \in LastThree(snaps[job[a].board]) :
       job' = [job EXCEPT ![a] = [@ EXCEPT !.phase = "scored", !.at = now, !.taken = taken]]
  /\ UNCHANGED <<now, row, snaps, records, cleanedAt, disturbed>>

CommitAnalysis(a, llm) ==
  LET j == job[a] IN
  /\ j.phase = "scored"
  /\ row' = [row EXCEPT ![j.board] = Written(@, j.loaded,
       [j.loaded EXCEPT !.llm = llm,
          !.score = RecalculatedScores(j.loaded, j.taken, llm, j.at),
          !.scoredAt = ScoreTime(j.taken, j.at)])]
  /\ disturbed' = [disturbed EXCEPT ![j.board] =
       j.late \/ j.taken \notin LastThree(snaps[j.board])]
  /\ Committed(a)
  /\ UNCHANGED <<now, snaps, records, cleanedAt>>

\* A failed statement or model call: the transaction is rolled back.
Abandon(w) ==
  /\ job[w].phase # "idle"
  /\ job' = [job EXCEPT ![w] = Idle]
  /\ UNCHANGED <<now, row, snaps, records, cleanedAt, disturbed>>

Next ==
  \/ Tick
  \/ \E w \in Recorders :
       \/ \E b \in Boards, at \in Moments : LoadRecord(w, b, at)
       \/ \E count \in Showings, rank \in Ranks \cup {Null} :
            CommitRecord(w, count, rank)
  \/ \E a \in Analysts :
       \/ \E b \in Boards : LoadBoard(a, b)
       \/ ReadSnapshots(a)
       \/ \E llm \in LlmScores : CommitAnalysis(a, llm)
  \/ \E w \in Writers : Abandon(w)

Spec == Init /\ [][Next]_vars

-----------------------------------------------------------------------------
(* Properties *)

\* Whoever wrote it last, the score of a board is the one that its rows give now: an
\* analysis changes nothing but the model's share of the score, save that of records
\* of one moment either may count as the latest.  It is not, by what the code does, once
\* a writer was overtaken or the cleanup took a snapshot it used, and while the last
\* record is of an earlier moment than a stored one.
ScoreIsCurrent ==
  \A b \in Boards :
    \/ row[b].score = Unscored \/ disturbed[b]
    \/ \E x \in snaps[b] : x.at > row[b].scoredAt
    \/ \E latest \in LastThree(snaps[b]) :
         row[b].score = RecalculatedScores(row[b], latest, row[b].llm, row[b].scoredAt)

\* The commit of a record for a moment before the time of the score it replaces.
RecordsEarlier(w, b) ==
  /\ job[w].board = b /\ job[w].phase = "loaded" /\ job'[w].phase = "idle"
  /\ job[w].at < row[b].scoredAt
  /\ row'[b].scoredAt = job[w].at

\* The time from which lists let a score decay goes back by nothing but a record whose
\* caller gives an earlier moment, unless a writer was overtaken or the cleanup took a
\* snapshot.  No analysis moves it back, whatever order the moments of the records came
\* in: it takes the time of the latest snapshot, or its own clock if there is none.
ScoreTimeForward ==
  [][\A b \in Boards :
       row[b].scoredAt # Null /\ ~disturbed'[b] /\ ~disturbed[b] =>
         \/ row'[b].scoredAt >= row[b].scoredAt
         \/ \E w \in Recorders : RecordsEarlier(w, b)]_vars
=============================================================================
