CONSTANTS
  c1 = c1
  c2 = c2
  Conns <- TwoConns
  Fds <- MCFds
  Talkers <- JustC1
  Urgers = {}
  Leavers <- TwoConns
  Chunk = 4
  MaxHangs = 1
SPECIFICATION Spec
PROPERTIES
  ConnectionsKept
CHECK_DEADLOCK FALSE
