CONSTANTS
  c1 = c1
  c2 = c2
  Conns <- MCConns
  Sends <- OneLine
  LineLen = 2
  BufSize = 4
  Pace = 2
  CharPace = 1
  MaxEmit = 1
  MaxFaults = 0
  OpenResults = {"connected"}
  Preempted = FALSE
  SlowPort = FALSE
  Slow <- JustC2
  Leavers <- JustC2
SPECIFICATION FairSpec
INVARIANTS
  NothingCut
PROPERTIES
  RelayDelivers
  CommandsDelivered
CHECK_DEADLOCK FALSE
