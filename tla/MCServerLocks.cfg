SPECIFICATION Spec
CONSTANTS
  j1 = j1
  j2 = j2
  j3 = j3
  Jobs = {j1, j2, j3}
  e1 = e1
  e2 = e2
  Embeds = {e1, e2}
  r1 = r1
  r2 = r2
  Repos = {r1, r2}
  MaxWorkerRetries = 2
  MaxPipelines = 2
  Events = {"crash", "expire"}
SYMMETRY Symmetry
INVARIANTS
  WritersExclusive
  LockMeansActive
