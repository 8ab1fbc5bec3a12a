CONSTANTS
  Value <- MCValue
  n1 = n1
  n2 = n2
  n3 = n3
  Node = {n1, n2, n3}
  NULL = NULL
  NodeSize = 2
  Capacity = 3
  Chunks <- MCChunks
  Lengths <- MCLengths
  Burst = 3
SPECIFICATION FairSpec
PROPERTY ImplementsFifo
