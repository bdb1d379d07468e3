SPECIFICATION EvidenceSpec
SYMMETRY EvidenceSymmetry
CONSTANTS
  Plans = {}
  Executions = {e1, e2}
  Verifications = {v1, v2}
  Reviews = {r1}
  Loops = {l1}
  AcpSessions = {}
  Items = {}
  Diffs = {d1, d2}
  NoId = NoId
  Workers = {worker}
  Hosts = {}
  Recoverers = {}
  SettlementModes = {"complete"}
  MaxLog = 10
INVARIANTS SettledOnEvidence FailedOnEvidence
CHECK_DEADLOCK FALSE
