SPECIFICATION Spec
CONSTANTS
  MaxFix = 2
  Checks = 2
  Diffs <- MCDiffs
  Fingerprint <- MCFingerprint
  MaxFollowUps = 1
  Remote = TRUE
  MaxFaults = 1

PROPERTY FailuresHandedOff
CHECK_DEADLOCK FALSE
