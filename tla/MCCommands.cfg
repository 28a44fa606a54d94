\* The line buffer, the wait of select and the two pauses, with a clock that is
\* set, a tty that stalls and a select that fails.
SPECIFICATION FairSpec
CONSTANTS
  StoreSize = 1
  CommandPace = 2
  CharPace = 1
  LoopTime = 2
  MaxChunk = 2
  MaxBytes = 3
  Jump = 1
  MaxSets = 1
  Faults = {"stall", "select"}
INVARIANTS
  TypeOK
  HeldLimited
PROPERTIES
  ImplementsPacedLines
  PauseKept
  LoopTimeHeard
  CommandsGoOut
