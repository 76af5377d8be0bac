SPECIFICATION FairSpec
CONSTANTS
  Slots = {3}
  MaxDelay = 2
  max_tasks = 4
  MAX_OUTPUT = 2
  QUEUESIZE = 2
  msg_table <- MCTable
  BeforeTable = 0
  Listeners = {1, 2}
  IgnoresFlag = {2}
  FlagIndex <- MCFlagIndex
  Outputs <- MCTwoOutputs
  Free = Free
  MaxSent = 2
INVARIANT
  OccupiedIsSeen
PROPERTIES
  PassEnds
  BroadcastReturns
