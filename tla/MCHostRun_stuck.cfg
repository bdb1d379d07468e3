SPECIFICATION ScenarioSpec
CONSTANTS p1 = p1 p2 = p2 d1 = d1
  Engines = {"pipeline"}
  Sessions = {TRUE, FALSE}
  Paths = {p1}
  Deliveries = {d1}
  MaxRuns = 1
  MaxWorkers = 2
  MaxEdits = 1
  MaxFaults = 1
INVARIANT EndedRunReleases
CHECK_DEADLOCK FALSE
