SPECIFICATION ScenarioSpec
CONSTANTS p1 = p1 p2 = p2 d1 = d1
  Engines = {"pipeline"}
  Sessions = {FALSE}
  Paths = {p1}
  Deliveries = {d1}
  MaxRuns = 1
  MaxWorkers = 1
  MaxEdits = 1
  MaxFaults = 0
INVARIANT EditsKept
CHECK_DEADLOCK FALSE
