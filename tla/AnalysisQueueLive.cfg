SPECIFICATION FairSpec
CONSTANTS
  Boards = {b1, b2}
  Workers = {w1}
  MaxRetries = 2
  UserPriority = 3
  Recent = {}
  InitialRows <- CrawledRows
  MaxFaults = 1
  NoBoard = NoBoard
  Unloaded = Unloaded
PROPERTY PendingIsClaimed ProcessingIsReleased SettlesUnlessRetryable
