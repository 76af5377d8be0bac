SPECIFICATION DaemonSpec
CONSTANTS
  Thread = {"t1", "t2"}
  Header = 3
  Sizes = {2, 3}
  MaxLogSizes = {2, 9}
  MaxMessages = 3
  Keys <- MCKeys
  MaxStarts = 2
  Ports <- MCPorts
CHECK_DEADLOCK FALSE
INVARIANTS
  LogIsContiguous
  LogWithinLimit
  DaemonIsSound
