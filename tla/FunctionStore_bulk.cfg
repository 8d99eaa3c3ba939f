\* Two handler calls on two functions, taken one by one or in bulk, and a failed write.
SPECIFICATION Spec
CONSTANTS
  n1 = n1
  n2 = n2
  r1 = r1
  r2 = r2
  r3 = r3
  None = None
  Name <- TwoNames
  Req <- TwoReqs
  Offered <- RestApi
  Given <- TwoGiven
  MaxFailures = 1
SYMMETRY Symmetry
PROPERTIES
  OkMeansDone
CHECK_DEADLOCK FALSE
