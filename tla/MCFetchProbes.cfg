SPECIFICATION Spec
CONSTANTS
  FailureThreshold = 1
  Cooldown = 1
  q1 = q1
  q2 = q2
  q3 = q3
  Calls = {q1, q2, q3}
  MaxAttempts = 2
  SlowCalls = TRUE
SYMMETRY Symmetry
INVARIANTS
  OneProbe
