CONSTANTS
  b1 = b1
  b2 = b2
  Byte <- MCByte
  Sizes <- MCSizes
  Inputs <- MCInputs
  Lengths <- MCLengths
SPECIFICATION Spec
INVARIANT TypeOK
PROPERTY ImplementsFifo
