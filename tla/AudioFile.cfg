CONSTANTS
  FileLen = 4
  Capacity = 3
  SeekMax = 2
  Header = 2
  ReadSizes <- MCReadSizes
  Kinds = {"web", "chunked", "flash", "sd"}
  Trouble = {}
SPECIFICATION FairSpec
INVARIANT TypeOK
INVARIANT NothingOutlivesFile
PROPERTY ImplementsByteFile
PROPERTY CallsReturn
