SPECIFICATION RegistrySpec
CONSTANTS
  r1 = r1
  r2 = r2
  Procs = {r1, r2}
  p1 = p1
  p2 = p2
  Repositories = {p1, p2}
  common = common
  alias = alias
  Names <- RegistryNames
  Base <- BothCommon
  NoName = NoName
  Torn = Torn
  MaxOps = 2
  MaxCrashes = 0
SYMMETRY BothSymmetry
INVARIANTS
  RegistrationKept
