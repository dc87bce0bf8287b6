SPECIFICATION JobsFairSpec
CONSTANTS
  Boards = {b1}
  Workers = {w1}
  MaxRetries = 1
  UserPriority = 2
  Recent = {}
  InitialRows <- JobRows
  MaxFaults = 1
  NoBoard = NoBoard
  Unloaded = Unloaded
  Jobs = {j1, j2, j3}
  NoJob = NoJob
INVARIANT OneJobPerBoard CompletedIsStored
PROPERTY JobsEnd
CHECK_DEADLOCK FALSE
