SPECIFICATION Spec
CONSTANTS
  r1 = r1
  Repos = {r1}
  Paths = {r1}
  LbugPath <- OwnPath
  e1 = e1
  e2 = e2
  e3 = e3
  Entries = {e1, e2, e3}
  c1 = c1
  c2 = c2
  Conns = {c1, c2}
  d1 = d1
  Dbs = {d1}
  q1 = q1
  q2 = q2
  q3 = q3
  q4 = q4
  Queries = {q1, q2, q3, q4}
  MaxPoolSize = 1
  IdleTimeout = 0
  MaxAge = 1
  LockRetryAttempts = 2
  Events = {"query_timeout", "waiter_timeout", "close"}
SYMMETRY Symmetry
INVARIANTS
  Conservation
  ExclusiveCheckout
  NoIdleConnWhileWaiting
  NoConnLeak
