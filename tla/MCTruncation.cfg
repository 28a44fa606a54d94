CONSTANTS
  c1 = c1
  c2 = c2
  Conns <- MCConns
  Sends <- TwoLines
  LineLen = 2
  BufSize = 3
  Pace = 2
  CharPace = 1
  MaxEmit = 0
  MaxFaults = 0
  OpenResults = {"connected"}
  Preempted = FALSE
  SlowPort = TRUE
  Slow = {}
  Leavers = {}
SPECIFICATION Spec
INVARIANTS
  LinesWhole
CHECK_DEADLOCK FALSE
