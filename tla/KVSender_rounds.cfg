\* One request with a retry: every outcome of every call, two projectors, two vbuckets.
SPECIFICATION Spec
CONSTANTS
  n1 = n1
  n2 = n2
  v1 = v1
  v2 = v2
  r1 = r1
  r2 = r2
  Node <- TwoNodes
  Vb <- TwoVbs
  Request <- OneRequest
  ConfigVbs <- RacyConfig
  Offered <- RacyCommands
  MaxRetry = 1
  MaxChurn = 0
SYMMETRY Symmetry
INVARIANTS
  TypeOK
  OpenSuccessIsComplete
  RollbackNeverLost
  RollbackKept
  DeleteTakesEffect
  AddSuccessIsComplete
  RestartSuccessReachedAll
  AbortExactlyWhenCutShort
  RepairIsJustified
PROPERTIES
  EndsOnlyAsAsked
CHECK_DEADLOCK FALSE
