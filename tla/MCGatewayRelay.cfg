CONSTANTS
  c1 = c1
  c2 = c2
  Conns <- MCConns
  Sends <- NoLines
  LineLen = 2
  BufSize = 3
  Pace = 0
  CharPace = 0
  MaxEmit = 4
  MaxFaults = 1
  OpenResults = {"connected", "inactive", "closed"}
  Preempted = TRUE
  SlowPort = FALSE
  Slow <- JustC2
  Leavers <- MCConns
SPECIFICATION Spec
INVARIANTS
  TypeOK
  RelayExact
  FastMissNothing
CHECK_DEADLOCK FALSE
