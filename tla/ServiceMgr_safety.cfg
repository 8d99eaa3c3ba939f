\* Two rebalances one after the other, two polls, one progress report each.
SPECIFICATION Spec
CONSTANTS
  c1 = c1
  c2 = c2
  p1 = p1
  p2 = p2
  Change <- TwoChanges
  Poll <- TwoPolls
  MaxProgress = 1
  None = None
SYMMETRY Symmetry
INVARIANTS
  TypeOK
  NoNilDereference
  RebalanceCoherent
  CancelledStaysGone
  NotifyNeverBlocks
  NoMissedUpdate
  CancelTellsConsumers
PROPERTIES
  EveryChangeIsARevision
CHECK_DEADLOCK FALSE
