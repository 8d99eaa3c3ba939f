\* Two requests of any kinds at once on one projector's topic.
SPECIFICATION Spec
CONSTANTS
  n1 = n1
  n2 = n2
  v1 = v1
  v2 = v2
  r1 = r1
  r2 = r2
  Node <- OneNode
  Vb <- OneVb
  Request <- TwoRequests
  ConfigVbs <- OneVbConfig
  Offered <- StreamCommands
  MaxRetry = 0
  MaxChurn = 0
INVARIANTS
  DeleteTakesEffect
PROPERTIES
  ImplementsRequests
CHECK_DEADLOCK FALSE
