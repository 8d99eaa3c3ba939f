\* Every command, a changing cluster, with the scheduler's fairness.
SPECIFICATION FairSpec
CONSTANTS
  n1 = n1
  n2 = n2
  v1 = v1
  v2 = v2
  r1 = r1
  r2 = r2
  Node <- OneNode
  Vb <- OneVb
  Request <- OneRequest
  ConfigVbs <- RacyConfig
  Offered <- EveryCommand
  MaxRetry = 1
  MaxChurn = 1
PROPERTIES
  KnownCommandAcked
  ImplementsFairRequests
CHECK_DEADLOCK FALSE
