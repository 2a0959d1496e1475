SPECIFICATION AllSpec
CONSTANTS
  p1 = p1
  p2 = p2
  s1 = s1
  wb = wb
  m1 = m1
  m2 = m2
  r1 = r1
  r2 = r2
  None = None
  Process = {p1, p2}
  Sheet = {s1}
  Workbook = wb
  Model = {m1, m2}
  Retriever = {r1, r2}
  MaxOps = 3
  MaxCrashes = 1
  MaxFaults = 1
  MaxInputs = 1
SYMMETRY ProcessSymmetry
INVARIANTS
  BundlesAreTrue
CHECK_DEADLOCK FALSE
