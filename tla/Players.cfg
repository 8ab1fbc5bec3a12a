CONSTANTS
  Players = {resource, prompt}
  Nobody = Nobody
  Length = 2
  MaxCalls = 6
  Slow = FALSE
SPECIFICATION FairSpec
INVARIANT TypeOK
INVARIANT PlayHoldsCodec
INVARIANT CallbackAlive
INVARIANT PlaysToEnd
PROPERTY PlayEnds
PROPERTY CallsReturn
CHECK_DEADLOCK FALSE
