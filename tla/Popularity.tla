----------------------------- MODULE Popularity -----------------------------
(***************************************************************************)
(* calculate_popularity_scores: the inputs that decide the scores of a     *)
(* board.  hot_score and daily_score are fixed functions of the record     *)
(* that PopularityScores returns, which the code stores beside them as     *)
(* score_breakdown; the logarithms, weights and decays are left out.       *)
(***************************************************************************)
EXTENDS Integers

CONSTANTS
  Kinds,                               \* the counters of the source: comments, likes, views
  Null,                                \* None
  Shortest, Default, Longest,          \* 5, 20 and 80 minutes: the intervals at
                                       \* which the scale reaches 4, 1 and 1/4
  NeutralLlm, HighestLlm               \* 50 and 100

ASSUME PopularityAssumption ==
  /\ Null \notin Int
  /\ {Shortest, Default, Longest, NeutralLlm, HighestLlm} \subseteq Nat
  /\ 0 < Shortest /\ Shortest <= Default /\ Default <= Longest
  /\ NeutralLlm <= HighestLlm

AtLeast(low, n) == IF n < low THEN low ELSE n
AtMost(high, n) == IF n > high THEN high ELSE n

CleanCount(n) == IF n = Null THEN 0 ELSE AtLeast(0, n)
Delta(current, previous) ==
  IF previous = Null THEN 0 ELSE AtLeast(0, current - previous)

IntervalMinutes(at, previousAt) ==
  IF previousAt = Null \/ at <= previousAt THEN Null ELSE at - previousAt

\* Growth per interval; a scale clamped to 1/4..4 is a clamped interval.
Rate(delta, interval) ==
  [grown |-> delta,
   over |-> IF interval = Null THEN Default
            ELSE AtMost(Longest, AtLeast(Shortest, interval))]

CleanLlm(score) ==
  IF score = Null THEN NeutralLlm ELSE AtMost(HighestLlm, AtLeast(0, score))

\* No addend without a positive rank.
RankComponent(rank) == IF rank = Null THEN Null ELSE IF rank <= 0 THEN Null ELSE rank

PopularityScores(m) ==
  [available |-> {k \in Kinds : m.count[k] # Null},
   total |-> [k \in Kinds |-> CleanCount(m.count[k])],
   velocity |-> [k \in Kinds |->
     Rate(Delta(CleanCount(m.count[k]), m.previous[k]),
          IntervalMinutes(m.capturedAt, m.previousAt))],
   previousVelocity |-> [k \in Kinds |->
     Rate(CleanCount(m.previousDelta[k]), m.previousInterval)],
   rank |-> RankComponent(m.rank),
   llm |-> CleanLlm(m.llm),
   age |-> AtLeast(0, m.capturedAt)]
=============================================================================
