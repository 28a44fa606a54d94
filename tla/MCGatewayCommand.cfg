CONSTANTS
  c1 = c1
  c2 = c2
  Conns <- MCConns
  Sends <- TwoLines
  LineLen = 2
  BufSize = 3
  Pace = 2
  CharPace = 1
  MaxEmit = 0
  MaxFaults = 1
  OpenResults = {"connected", "inactive", "closed"}
  Preempted = TRUE
  SlowPort = TRUE
  Slow = {}
  Leavers <- JustC1
SPECIFICATION Spec
INVARIANTS
  UplinkExact
  LinesContiguous
PROPERTIES
  CommandsPaced
CHECK_DEADLOCK FALSE
