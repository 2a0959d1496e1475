SPECIFICATION LiveSpec
CONSTANTS
  k1 = k1
  k2 = k2
  k3 = k3
  t1 = t1
  b1 = b1
  s1 = s1
  s2 = s2
  sheetA = sheetA
  sheetB = sheetB
  w1 = w1
  w2 = w2
  w3 = w3
  None = None
  Worker = {w1, w2, w3}
  Key = {k1, k2, k3}
  Thread = {t1}
  Bundle = {b1}
  Snapshot <- Snapshots
  Command <- Mixed
  MaxCalls = 3
  MaxCrashes = 1
  MaxFaults = 1
  MaxMoves = 1
INVARIANTS
  RepeatsAreSafe
  LockHolds
PROPERTIES
  CallsReturn
CHECK_DEADLOCK FALSE
