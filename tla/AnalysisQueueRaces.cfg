SPECIFICATION Spec
CONSTANTS
  Boards = {b1}
  Workers = {w1, w2}
  MaxRetries = 2
  UserPriority = 3
  Recent = {b1}
  InitialRows <- AnyRows
  MaxFaults = 1
  NoBoard = NoBoard
  Unloaded = Unloaded
SYMMETRY WorkerSymmetry
INVARIANT ClaimExclusive NoStuckBoard NoWastedAnalysis
PROPERTY DoneIsFinal Leased
