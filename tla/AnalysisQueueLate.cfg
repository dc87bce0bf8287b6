SPECIFICATION FairSpec
CONSTANTS
  Boards = {b1}
  Workers = {w1, w2}
  MaxRetries = 1
  UserPriority = 2
  Recent = {}
  InitialRows <- FreshRows
  MaxFaults = 0
  NoBoard = NoBoard
  Unloaded = Unloaded
PROPERTY PendingIsClaimed
