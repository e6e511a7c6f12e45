SPECIFICATION FairSpec
CONSTANTS
  r1 = r1
  r2 = r2
  Requests = {r1, r2}
  c1 = c1
  Closers = {c1}
  d1 = d1
  d2 = d2
  DbPaths = {d1, d2}
  h1 = h1
  h2 = h2
  Handles = {h1, h2}
  None = None
  LockRetries = 2
  MaxCloses = 1
INVARIANTS
  RightDatabase
  SessionIntact
  HandlesSane
PROPERTIES
  RequestEnds
