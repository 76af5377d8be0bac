SPECIFICATION MCSpec
CONSTANTS
  a = a
  b = b
  na = na
  nb = nb
  c1 = c1
  c2 = c2
  MAXVPS = 3
  Addr = {a, b}
  Nwk = {na, nb}
  None = None
  Conn = {c1, c2}
  NoConn = NoConn
  NwkOf <- MCNwkOf
  MaxListed = 1
  MaxRadio = 2
  MaxAsks = 1
  Message <- MCMessage
CHECK_DEADLOCK FALSE
INVARIANTS
  FieldIsSound
  AnswersNameTheDevice
  ExchangesKeepMessages
PROPERTIES
  NumbersAreKept
  SenderReturns
