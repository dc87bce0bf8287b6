SPECIFICATION Spec
CONSTANTS
  Kinds = {"comments", "views"}
  NullableKinds = {"views"}
  Null = Null
  Shortest = 1
  Default = 2
  Longest = 2
  NeutralLlm = 1
  HighestLlm = 2
  Boards = {b1}
  Recorders = {w1}
  Analysts = {a1}
  Showings <- MCShowings
  Ranks = {}
  LlmScores = {2}
  Retention = 1
  CleanupInterval = 1
  Moments = {1, 2, 3}
  Horizon = 2
  MaxRecords = 3
  NoBoard = NoBoard
  Unscored = Unscored
INVARIANT ScoreIsCurrent
PROPERTY ScoreTimeForward
CHECK_DEADLOCK FALSE
