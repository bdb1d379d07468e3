SPECIFICATION HistorySpec
CONSTANTS
  Plans = {p1, pa}
  Executions = {e1}
  Verifications = {v1}
  Reviews = {}
  Loops = {l1}
  AcpSessions = {pa}
  Items = {i1}
  Diffs = {d1}
  NoId = NoId
  Workers = {worker}
  Hosts = {host}
  Recoverers = {rec}
  SettlementModes = {"await_user"}
  MaxLog = 11
INVARIANTS TypeOK AttemptUninterleaved RecoveredIsClosed EndsOnce
PROPERTIES LifecycleHolds SealedWhenTerminal
CHECK_DEADLOCK FALSE
