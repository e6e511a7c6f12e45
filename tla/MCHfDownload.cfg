SPECIFICATION FairDownloadSpec
CONSTANTS
  FailureThreshold = 2
  Cooldown = 2
  d1 = d1
  d2 = d2
  d3 = d3
  Downloads = {d1, d2, d3}
  MaxDownloadAttempts = 3
INVARIANTS
  OneFailureWhileOpen
PROPERTIES
  DownloadEnds
