SPECIFICATION Spec
CONSTANTS
  c1 = c1
  c2 = c2
  Calls = {c1, c2}
  p1 = p1
  p2 = p2
  Paths = {p1, p2}
  theName = theName
  Name <- SameName
  Suffix <- OwnSuffix
  NoSuffix = NoSuffix
  Absent = Absent
  MaxVersion = 2
  Events = {"list", "remove"}
SYMMETRY CallSymmetry
INVARIANTS
  TypeOK
  RightRepository
  FreshAnswer
PROPERTIES
  OwnId
