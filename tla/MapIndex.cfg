\* Two views, four index instances of three expression types, two projectors.
SPECIFICATION Spec
CONSTANTS
  n1 = n1
  n2 = n2
  abc = abc
  other = other
  s1 = s1
  s2 = s2
  i1 = i1
  i2 = i2
  i3 = i3
  i4 = i4
  b1 = b1
  b2 = b2
  p1 = p1
  p2 = p2
  epA = epA
  epB = epB
  epC = epC
  x = x
  Unset = Unset
  NoRealInst = NoRealInst
  NoContainer = NoContainer
  NoPartitions = NoPartitions
  NoView = NoView
  NoNode = NoNode
  NoEngine = NoEngine
  Absent = Absent
  Bucket <- TwoBuckets
  Expr <- OneExpr
  ExprType <- ExprTypes
  InstId <- FourIds
  Partition <- TwoParts
  Endpoint <- Endpoints
  StreamAddr <- Addresses
  FuncName = abc
  Node <- TwoNodes
  Name <- TwoNames
  Code <- TwoCodes
  Index <- Indexes
  Lists <- IndexLists
  StreamIds <- Maint
  MaxRequests = 2
SYMMETRY Symmetry
CONSTRAINT ListingsFirst
INVARIANTS
  ListingIsTrue
  OwnEvaluator
  OnlyAWriteOutdates
