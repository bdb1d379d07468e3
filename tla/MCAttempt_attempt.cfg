SPECIFICATION Spec
CONSTANTS
  CallIds <- MCCallIds
  MaxTurns = 3
  MaxCalls = 3
  MaxErrors = 1
  MaxBatch = 2
  MaxUpdates = 2
  MaxFaults = 2
INVARIANTS OneOutcome ApprovedOnce NoSilentSurvivor 
PROPERTIES CallComesBack
CHECK_DEADLOCK FALSE
