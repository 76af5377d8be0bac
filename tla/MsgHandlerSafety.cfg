SPECIFICATION Spec
CONSTANTS
  Slots = {3}
  MaxDelay = 2
  max_tasks = 4
  MAX_OUTPUT = 2
  QUEUESIZE = 2
  msg_table <- MCTable
  BeforeTable = 0
  Listeners = {1, 2}
  IgnoresFlag = {2}
  FlagIndex <- MCFlagIndex
  Outputs <- MCChain
  Free = Free
  MaxSent = 3
INVARIANTS
  TypeOK
  NoDuplicate
  NoSilentDrop
  NoStrayMessage
  FlagMeansNew
  PassTriesAll
PROPERTY
  ImplementsBus
