SPECIFICATION FairSpec
CONSTANTS
  g1 = g1
  g2 = g2
  d1 = d1
  p1 = p1
  p2 = p2
  Job <- GenDeploy
  Kind <- KindOf
  ProjectOf <- TwoProjects
  Concurrency = 1
  MaxAttempts = 2
  MaxCrashes = 1
  MaxFaults = 1
  MaxTasks = 0
PROPERTIES EveryJobEnds HoldsReleased ReadyKept
CHECK_DEADLOCK FALSE
