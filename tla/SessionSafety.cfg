SPECIFICATION Spec
CONSTANTS
  Slots <- MCSlots
  MaxDelay = 1
  MAX_VPS = 2
  Reported = {0, 1, 3}
  SESSION_TIMEOUT = 1
  SessionManagerTask_id = 0
  Second = 1
  KeywordDelay = 1
  Overlap = TRUE
  Spurious = TRUE
  MaxCopies = 2
  MaxReports = 1
  MaxOwed = 2
CHECK_DEADLOCK FALSE
INVARIANTS
  TypeOK
  RepliesAreOwed
  NoWaiterForgotten
