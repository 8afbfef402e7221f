SPECIFICATION FairSpec
CONSTANTS
  a1 = a1
  a2 = a2
  none = none
  NoJob <- none
  Job <- TwoJobs
  RingMax = 1
  MaxFrames = 1
  Budgets <- OneStop
INVARIANTS RestingPageIsRight
PROPERTIES ActiveJobIsFollowed
CHECK_DEADLOCK FALSE
