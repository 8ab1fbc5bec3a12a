CONSTANTS
  Callers <- MCCallers
  Worker = "worker"
  Events <- MCEvents
  EXIT = "EXIT"
  STOP = "STOP"
  HOLD = "hold"
  Lookup <- MCLookup
  InitState = "IDLE"
  Requests <- MCRequests
  MayFollow <- MCMayFollow
  Expiry <- MCExpiry
  Deleters = {"ctl"}
SPECIFICATION MachineSpec
CHECK_DEADLOCK FALSE
INVARIANT TypeOK
INVARIANT AckMeansServed
INVARIANT StopQuiesces
INVARIANT FreedUntouched
PROPERTY CallsReturn
PROPERTY DeletedIsFreed
