\* Two evaluators race for the engine, load good and bad code under two names and
\* run; or one evaluator with four runs, every overlap and the ticket's wrap.
SPECIFICATION Spec
CONSTANTS
  e1 = e1
  e2 = e2
  f1 = f1
  f2 = f2
  s1 = s1
  s2 = s2
  bad = bad
  r1 = r1
  r2 = r2
  r3 = r3
  r4 = r4
  None = None
  Eval <- TwoEvals
  Run <- FourRuns
  File <- TwoFiles
  Script <- GoodAndBad
  Defining <- TwoGood
  NumberOfIsolates = 2
  MaxInt = 1
SYMMETRY Symmetry
CONSTRAINT FewRuns
INVARIANTS
  TypeOK
  BoundWhereItRuns
  IsolatesAgree
  ForeignBindingOnlyAfterBadCode
  OwnResultUnderLightLoad
CHECK_DEADLOCK FALSE
