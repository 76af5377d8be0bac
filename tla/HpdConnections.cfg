SPECIFICATION WebFairSpec
CONSTANTS
  Conn = {c1, c2}
  s0 = s0
  s1 = s1
  Service = {s0, s1}
  service_head <- MCList
  ReadOnly = {s1}
  Late = {s1}
  Pages = {"/log", "/none"}
  MaxRequests = 3
  MaxChunks = 2
  Free = Free
  None = None
CHECK_DEADLOCK FALSE
INVARIANTS
  PutsAreTold
  RequestsAreSound
PROPERTIES
  ImplementsValue
  EveryRequestEnds
