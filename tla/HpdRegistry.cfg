SPECIFICATION RegSpec
CONSTANTS
  lamp = lamp
  switch = switch
  s0 = s0
  s1 = s1
  s2 = s2
  Service = {s0, s1, s2}
  Device = {lamp, switch}
  DevOf <- MCDevOf
  DevName <- MCDevName
  SvcName <- MCSvcName
  Secure = {switch}
  NULL = NULL
CHECK_DEADLOCK FALSE
INVARIANTS
  ListsAreSound
  PartsAgree
  SuccessMeansDone
PROPERTY ImplementsCatalog
