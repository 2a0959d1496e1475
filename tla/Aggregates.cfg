SPECIFICATION AllSpec
CONSTANTS
  p1 = p1
  w1 = w1
  w2 = w2
  s1 = s1
  s2 = s2
  wb = wb
  m1 = m1
  r1 = r1
  None = None
  All = All
  Process = {p1}
  Worker = {w1, w2}
  Sheet = {s1, s2}
  Workbook = wb
  Model = {m1}
  Retriever = {r1}
  MaxOps = 3
  MaxJobs = 3
  MaxCrashes = 1
  MaxFaults = 1
  MaxInputs = 1
SYMMETRY WorkerSymmetry
PROPERTIES
  AggregatesAreTrue
CHECK_DEADLOCK FALSE
