CONSTANTS
  Players = {resource, prompt}
  Nobody = Nobody
  Length = 1
  MaxCalls = 3
  Slow = TRUE
SPECIFICATION FairSpec
PROPERTY PlayEnds
CHECK_DEADLOCK FALSE
