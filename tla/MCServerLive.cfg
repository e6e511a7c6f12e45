SPECIFICATION FairSpec
CONSTANTS
  j1 = j1
  j2 = j2
  Jobs = {j1, j2}
  e1 = e1
  Embeds = {e1}
  r1 = r1
  r2 = r2
  Repos = {r1, r2}
  MaxWorkerRetries = 1
  MaxPipelines = 2
  Events = {"crash", "uncaught", "cancel", "expire", "slow_init", "clone_error", "embed_timeout", "embed_busy"}
INVARIANTS
  SlotFreed
PROPERTIES
  JobsSettle
CONSTRAINT OneBusyRepo
