CONSTANTS
  Block = 2
  Capacity = 4
  Fallback = 1
  MaxConn = 2
  MaxRecv = 2
  Files <- MCFiles
  Seeks = {0, 3}
  MaxCalls = 3
  MaxFaults = 2
  Trouble = {}
SPECIFICATION FairSpec
INVARIANT TypeOK
INVARIANT InOrder
INVARIANT FinishedIsComplete
INVARIANT UrlOutlivesUse
INVARIANT RangeFits
CHECK_DEADLOCK FALSE
PROPERTY DownloadEnds
PROPERTY ImplementsDownload
