\* Drafts of two functions, and settings for one of them.
SPECIFICATION Spec
CONSTANTS
  n1 = n1
  n2 = n2
  r1 = r1
  r2 = r2
  r3 = r3
  None = None
  Name <- TwoNames
  Req <- ThreeReqs
  Offered <- SaveAndSet
  Given <- TwoGiven
  MaxFailures = 0
SYMMETRY Symmetry
INVARIANT SettingsAreOwn
CHECK_DEADLOCK FALSE
