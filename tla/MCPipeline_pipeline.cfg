SPECIFICATION Spec
CONSTANTS
  MaxFix = 2
  Checks = 2
  Diffs <- MCDiffs
  Fingerprint <- MCFingerprint
  MaxFollowUps = 1
  Remote = TRUE
  MaxFaults = 1
INVARIANTS TypeOK ReviewedIsCurrent AgentPassIsReal SkipOnBaseline ReportedIsClosed
PROPERTIES HonestReport CallsReturn ImplementsLifecycle
CHECK_DEADLOCK FALSE
