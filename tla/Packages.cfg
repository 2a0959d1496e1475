SPECIFICATION AllSpec
CONSTANTS
  None = None
  p1 = p1
  p2 = p2
  a1 = a1
  a2 = a2
  m1 = m1
  Process = {p1, p2}
  Version = {1, 2}
  Params = {a1, a2}
  Model = {m1}
  Attempts = 3
  Content = {0, 1, 2}
  MaxOps = 5
  MaxCrashes = 2
SYMMETRY ProcessSymmetry
INVARIANTS
  PackageIsTrue
PROPERTIES
  MadeIsVerified
CHECK_DEADLOCK FALSE
