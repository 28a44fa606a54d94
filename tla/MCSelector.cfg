CONSTANTS
  c1 = c1
  c2 = c2
  Conns <- TwoConns
  Fds <- MCFds
  Talkers <- TtyAndC1
  Urgers <- JustC2
  Leavers <- JustC1
  Chunk = 4
  MaxHangs = 1
SPECIFICATION FairSpec
INVARIANTS
  TypeOK
  DescriptorsHeld
  SerialFirst
PROPERTIES
  OwnEvents
  ConnectionsKeptCalm
  AcceptsAll
CHECK_DEADLOCK FALSE
