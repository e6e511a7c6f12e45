SPECIFICATION Spec
CONSTANTS
  w1 = w1
  Writers = {w1}
  r1 = r1
  r2 = r2
  Readers = {r1, r2}
  MaxSyncs = 3
  MaxFaults = 2
SYMMETRY ReaderSymmetry
INVARIANTS
  NeverLost
  Published
  Paired
PROPERTIES
  NeverOlder
CHECK_DEADLOCK FALSE
