SPECIFICATION FairSpec
CONSTANTS
  Service = {v1}
  Log = Log
  NULL = NULL
  Session = {s1}
  Conn = {c1, c2}
  Request = {r1}
  Returns = FALSE
  LongTimeout = TRUE
  Spurious = FALSE
  Stops = FALSE
  MaxEvents = 2
CHECK_DEADLOCK FALSE
INVARIANTS
  FaultNeedsCause
PROPERTIES
  EventsDelivered
  QueueDestroyed
