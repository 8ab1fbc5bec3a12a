CONSTANTS
  FileLen = 4
  Capacity = 3
  SeekMax = 2
  Header = 2
  ReadSizes <- MCReadSizes
  Kinds = {"web"}
  Trouble = {"stop_in_seek"}
SPECIFICATION FairSpec
PROPERTY CallsReturn
