SPECIFICATION FairSpec
CONSTANTS
  r1 = r1
  r2 = r2
  Repos = {r1, r2}
  p1 = p1
  Paths = {p1}
  LbugPath <- OnePath
  e1 = e1
  e2 = e2
  Entries = {e1, e2}
  c1 = c1
  Conns = {c1}
  d1 = d1
  d2 = d2
  Dbs = {d1, d2}
  q1 = q1
  q2 = q2
  q3 = q3
  Queries = {q1, q2, q3}
  MaxPoolSize = 1
  IdleTimeout = 0
  MaxAge = 1
  LockRetryAttempts = 2
  Events = {"query_timeout"}
INVARIANTS
  RefCountExact
  DbOpenWhileHeld
PROPERTIES
  NobodyStuck
