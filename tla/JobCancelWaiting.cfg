SPECIFICATION Spec
CONSTANTS
  g1 = g1
  g2 = g2
  d1 = d1
  p1 = p1
  p2 = p2
  Job <- TwoGens
  Kind <- KindOf
  ProjectOf <- TwoProjects
  Concurrency = 1
  MaxAttempts = 2
  MaxCrashes = 0
  MaxFaults = 0
  MaxTasks = 1
PROPERTIES CancelledWaitingNeverStarts
CHECK_DEADLOCK FALSE
