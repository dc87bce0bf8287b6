SPECIFICATION Spec
CONSTANTS
  Marker = 4
  MinPart = 2
  Tag = 2
  MinTitle = 3
  MinBody = 6
  MinLetters = 4
  Inside <- MCInside
  NoText = NoText
  Setups <- MCSetups
  Readings <- MCReadings
  Candidates <- MCCandidates
  Endpoints <- MCEndpoints
  NodeTimeout = 6
  Deadline = 5
  ClientTimeouts = {3, 6}
  ImageLimits = {0, 1, 2}
  ImageBytes = {1, 14000000}
  BoardLimit = 18
  GptLimit = 14
  MaxText = 30
  MaxAttempts = 2
INVARIANTS
  BlameIsRight
  RequestsFit
  CutFairly
  EveryNodeGetsATurn
  AnswersInTime
PROPERTY AttemptAdvances
