SPECIFICATION Spec
CONSTANTS
  r1 = r1
  r2 = r2
  r3 = r3
  x = x
  y = y
  read = read
  liked = liked
  untagged = untagged
  Tags = {x, y}
  Signals = {read, liked, untagged}
  Tagged = {read, liked}
  Retention = 1
  Skew = 2
  Day = 2
  EventLimit = 2
  TagLimit = 1
  Ids <- AllIds
  Requests = {r1, r2, r3}
  Batch <- Batches
  Cleaners = {c1}
  ReceiptLimit = 5
  ImportLimit = 2
  MaxAttempts = 2
  MaxTime = 2
  MaxFaults = 1
INVARIANT AppliedOnce ErasedStaysErased ExpiredIsDue RefusedForOthers
PROPERTY Serialised ResetStands
CHECK_DEADLOCK FALSE
