SPECIFICATION AllSpec
CONSTANTS
  k1 = k1
  c1 = c1
  c2 = c2
  c3 = c3
  u1 = u1
  u2 = u2
  r1 = r1
  r2 = r2
  r3 = r3
  None = None
  Upload = {u1, u2}
  Key = {k1}
  Content = {c1, c2, c3}
  Workbook = {c1, c2}
  TTL = 2
  MaxWait = 1
  MaxFence = 3
  MaxDeaths = 1
  MaxOutages = 1
  MaxFaults = 1
  Requests = {r1, r2, r3}
  Uploads = {r1, r2}
  Threads = 1
  UploadConcurrency = 1
INVARIANTS
  StoredIsStored
  SlotsAreAccounted
PROPERTIES
  LeaseIsRespected
  ClaimsEnd
CHECK_DEADLOCK FALSE
