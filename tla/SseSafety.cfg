SPECIFICATION Spec
CONSTANTS
  Service = {}
  Log = Log
  NULL = NULL
  Session = {s1, s2}
  Conn = {c1, c2}
  Request = {r1}
  Returns = TRUE
  LongTimeout = FALSE
  Spurious = TRUE
  Stops = TRUE
  MaxEvents = 1
CHECK_DEADLOCK FALSE
SYMMETRY Symmetry
INVARIANTS
  ConsumerSleepsOnlyWhenEmpty
  QueuesAreSound
