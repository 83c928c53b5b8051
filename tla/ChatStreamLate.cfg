SPECIFICATION Spec
CONSTANTS
  i1 = i1
  i2 = i2
  i3 = i3
  t1 = t1
  t2 = t2
  t3 = t3
  NoInput = NoInput
  NoTask = NoTask
  BatchSize = 1
  Inputs <- TwoInputs
  Tasks <- ThreeTasks
  Budgets <- LateBudgets
PROPERTIES
  FailedTurnStaysFailed
CHECK_DEADLOCK FALSE
