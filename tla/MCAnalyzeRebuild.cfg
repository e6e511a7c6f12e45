SPECIFICATION Spec
CONSTANTS
  f1 = f1
  f2 = f2
  Files = {f1, f2}
  MaxVersion = 2
  MaxAborts = 1
  MaxEdits = 1
  Options <- NoFast
  Events = {}
  NoMeta = NoMeta
INVARIANTS
  UpToDateMeansIndexed
CHECK_DEADLOCK FALSE
