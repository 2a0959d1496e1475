SPECIFICATION LiveSpec
CONSTANTS
  j1 = j1
  w1 = w1
  w2 = w2
  k1 = k1
  k2 = k2
  sheet1 = sheet1
  sheet2 = sheet2
  r1 = r1
  r2 = r2
  Whole = Whole
  None = None
  Job = {j1}
  Workbook = {w1, w2}
  ExecutionKey = {k1, k2}
  Sheet = {sheet1, sheet2}
  Runner = {r1, r2}
  MaxPrepareWorkers = 2
  LeaseTtl = 1
  MaxTakeovers = 1
  StartCommand <- Starts
  ScopeCommand <- AllScopes
PROPERTIES
  JobsEnd
CHECK_DEADLOCK FALSE
