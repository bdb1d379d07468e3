SPECIFICATION ScenarioSpec
CONSTANTS p1 = p1 p2 = p2 d1 = d1
  Engines = {"legacy", "pipeline", "agent"}
  Sessions = {TRUE, FALSE}
  Paths = {p1, p2}
  Deliveries = {d1}
  MaxRuns = 2
  MaxWorkers = 2
  MaxEdits = 1
  MaxFaults = 2
INVARIANTS KeptWhileUsed AllOrNothing EditSafe
PROPERTIES  HonestFinish SettledStays
CHECK_DEADLOCK FALSE
