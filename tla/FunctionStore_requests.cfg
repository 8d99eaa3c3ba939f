\* Three handler calls on one function: every operation, overlaps and a failed write.
SPECIFICATION Spec
CONSTANTS
  n1 = n1
  n2 = n2
  r1 = r1
  r2 = r2
  r3 = r3
  None = None
  Name <- OneName
  Req <- ThreeReqs
  Offered <- Ops
  Given <- FourGiven
  MaxFailures = 1
SYMMETRY Symmetry
INVARIANTS
  TypeOK
  DefinitionHasSettings
PROPERTIES
  OkMeansDone
  DeleteHeals
CHECK_DEADLOCK FALSE
