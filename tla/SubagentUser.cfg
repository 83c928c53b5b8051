SPECIFICATION Spec
CONSTANTS
  r1 = r1
  r2 = r2
  s1 = s1
  s2 = s2
  t1 = t1
  t2 = t2
  t3 = t3
  NoRun = NoRun
  NoTask = NoTask
  Runs <- TwoRuns
  Steers <- TwoSteers
  Tasks <- ThreeTasks
  Budget <- OneOfEach
SYMMETRY Symmetric
INVARIANTS
  TypeOK
  RunIsDriven
  EndedRunHoldsInputs
PROPERTIES
  ImplementsLifecycle
CHECK_DEADLOCK FALSE
