CONSTANTS
  Value <- MCValue
  Capacity = 3
  Chunks <- MCChunks
  Lengths <- MCLengths
SPECIFICATION Spec
INVARIANT TypeOK
INVARIANT SidesApart
PROPERTY ImplementsFifo
