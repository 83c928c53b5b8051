SPECIFICATION Spec
CONSTANTS
  r1 = r1
  r2 = r2
  s1 = s1
  s2 = s2
  t1 = t1
  t2 = t2
  t3 = t3
  NoRun = NoRun
  NoTask = NoTask
  Runs <- OneRun
  Steers <- OneSteer
  Tasks <- ThreeTasks
  Budget <- ParentStop
INVARIANTS
  NoDetachedRun
CHECK_DEADLOCK FALSE
