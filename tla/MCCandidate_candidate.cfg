SPECIFICATION Spec
SYMMETRY Symmetry
CONSTANTS p1 = p1 p2 = p2 h1 = h1 h2 = h2 m1 = m1 m2 = m2 m3 = m3 c1 = c1 c2 = c2 v0 = v0 v1 = v1 v2 = v2
  Members = {m1, m2}
  Paths = {p1, p2}
  Caches = {p2}
  Hunks = {h1, h2}
  Versions = {v0, v1, v2}
  Original = v0
  Contexts = {c1, c2}
  MaxProposals = 2
  MaxEdits = 3
  MaxRev = 4
  MaxFaults = 2
INVARIANTS CandidateFaithful VerifiedAsAssembled
CHECK_DEADLOCK FALSE
