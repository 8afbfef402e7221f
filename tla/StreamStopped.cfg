SPECIFICATION FairSpec
CONSTANTS
  a1 = a1
  a2 = a2
  none = none
  NoJob <- none
  Job <- OneJob
  RingMax = 1
  MaxFrames = 1
  Budgets <- OneStop
PROPERTIES FinalMessagesShown
CHECK_DEADLOCK FALSE
