SPECIFICATION FairSpec
CONSTANTS
  n1 = n1
  n2 = n2
  analysis = analysis
  chat = chat
  Nodes = {n1, n2}
  Capabilities = {analysis, chat}
  Requests = {r1, r2}
  CapabilityOf <- TwoCapabilities
  Serves <- ServesAll
  Rank <- RankOrder
  Priority <- OnePriority
  Weight <- Weights
  Limits = {1, 2}
  Threshold = 2
  InitialNodes <- StartRows
  Legacy = {n1, n2}
  Managed = {n1}
  MaxOps = 1
  NoNode = NoNode
INVARIANT InflightExact CapacityRespected HealthConsistent CountersAccounted
PROPERTY RequestsEnd
CHECK_DEADLOCK FALSE
