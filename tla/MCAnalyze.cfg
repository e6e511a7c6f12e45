SPECIFICATION LiveSpec
CONSTANTS
  f1 = f1
  f2 = f2
  Files = {f1, f2}
  MaxVersion = 2
  MaxAborts = 1
  MaxEdits = 1
  Options <- RunOptions
  Events = {"edit", "cache_fail", "restore_fail", "dims"}
  NoMeta = NoMeta
INVARIANTS
  TrustedMeta
  GeneratedAll
  EmbeddingsKept
PROPERTIES
  Repaired
