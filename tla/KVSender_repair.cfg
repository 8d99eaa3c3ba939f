\* Expected violation: TopicMissing from one projector, another error from the next.
SPECIFICATION Spec
CONSTANTS
  n1 = n1
  n2 = n2
  v1 = v1
  v2 = v2
  r1 = r1
  r2 = r2
  Node <- TwoNodes
  Vb <- TwoVbs
  Request <- OneRequest
  ConfigVbs <- FullConfig
  Offered <- StreamCommands
  MaxRetry = 0
  MaxChurn = 0
INVARIANTS
  FeedErrorAsksForRepair
CHECK_DEADLOCK FALSE
