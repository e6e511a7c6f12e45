SPECIFICATION FairSpec
CONSTANTS
  FailureThreshold = 2
  Cooldown = 2
  q1 = q1
  q2 = q2
  q3 = q3
  Calls = {q1, q2, q3}
  MaxAttempts = 2
  SlowCalls = TRUE
INVARIANTS
  PermitHeld
PROPERTIES
  Recovers
  CallEnds
