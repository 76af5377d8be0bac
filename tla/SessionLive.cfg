SPECIFICATION FairSpec
CONSTANTS
  Slots <- MCSlots
  MaxDelay = 3
  MAX_VPS = 2
  Reported = {0, 1}
  SESSION_TIMEOUT = 2
  SessionManagerTask_id = 0
  Second = 2
  KeywordDelay = 3
  Overlap = FALSE
  Spurious = FALSE
  MaxCopies = 1
  MaxReports = 1
  MaxOwed = 1
PROPERTY SessionsEnd
