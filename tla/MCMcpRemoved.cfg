SPECIFICATION Spec
CONSTANTS
  c1 = c1
  Calls = {c1}
  p1 = p1
  p2 = p2
  Paths = {p1, p2}
  theName = theName
  Name <- SameName
  Suffix <- OwnSuffix
  NoSuffix = NoSuffix
  Absent = Absent
  MaxVersion = 2
  Events = {"remove", "list"}
INVARIANTS
  AlwaysRightRepository
