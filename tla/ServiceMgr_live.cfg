\* The same system under fairness, one poll.
SPECIFICATION FairSpec
CONSTANTS
  c1 = c1
  c2 = c2
  p1 = p1
  p2 = p2
  Change <- TwoChanges
  Poll <- OnePoll
  MaxProgress = 1
  None = None
PROPERTIES
  CancelReturns
  OutdatedPollReturns
CHECK_DEADLOCK FALSE
