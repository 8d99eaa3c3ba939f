\* Two instances share the worker's buffer for two events of every kind.
SPECIFICATION Spec
CONSTANTS
  i1 = i1
  i2 = i2
  ep1 = ep1
  ep2 = ep2
  iso1 = iso1
  d1 = d1
  d2 = d2
  short = short
  long = long
  num = num
  json = json
  noJson = noJson
  blank = blank
  nought = nought
  None = None
  Instance <- TwoInstances
  Endpoint <- TwoEndpoints
  Isolate <- OneIsolate
  Doc <- TwoDocs
  Text <- Texts
  Emits <- Functions
  EndpointsOf <- Addresses
  Retains <- Second
  Size <- Sizes
  JSONText <- JSONTexts
  Empty <- blank
  Zero <- nought
  Room = 4
  Capacity = 14
  SmallestClass = 8
  MaxEvents = 2
INVARIANTS
  TypeOK
  KeysAreOwnUnlessOverwritten
  EveryInstanceIsHeardOnce
CHECK_DEADLOCK FALSE
