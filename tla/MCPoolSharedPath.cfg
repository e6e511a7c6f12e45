SPECIFICATION Spec
CONSTANTS
  r1 = r1
  r2 = r2
  Repos = {r1, r2}
  p1 = p1
  Paths = {p1}
  LbugPath <- OnePath
  e1 = e1
  e2 = e2
  Entries = {e1, e2}
  c1 = c1
  Conns = {c1}
  d1 = d1
  d2 = d2
  Dbs = {d1, d2}
  q1 = q1
  Queries = {q1}
  MaxPoolSize = 2
  IdleTimeout = 0
  MaxAge = 1
  LockRetryAttempts = 1
  Events = {"overlap"}
SYMMETRY Symmetry
INVARIANTS
  OneDbPerPath
