SPECIFICATION FairSpec
CONSTANTS
  a1 = a1
  a2 = a2
  none = none
  NoJob <- none
  Job <- OneJob
  RingMax = 1
  MaxFrames = 2
  Budgets <- Failures
INVARIANTS TypeOK NoSilentSkip
PROPERTIES EndingReachesPage TranscriptCompletes
CHECK_DEADLOCK FALSE
