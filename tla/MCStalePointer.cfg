CONSTANTS
  c1 = c1
  c2 = c2
  Conns <- TwoConns
  Fds <- MCFds
  Talkers = {}
  Urgers = {}
  Leavers <- TwoConns
  Chunk = 4
  MaxHangs = 0
SPECIFICATION Spec
INVARIANTS
  PointerValid
CHECK_DEADLOCK FALSE
