SPECIFICATION OneSpec
CONSTANTS
  b1 = b1
  s1 = s1
  w1 = w1
  w2 = w2
  None = None
  Key <- OneKeys
  Request <- OneRequests
  Token = {1, 2, 3, 4, 5, 6}
  Book = {b1}
  Session = {s1}
  Worker = {w1, w2}
  MaxClock = 3
  ApprovalTtl = 1
  CommandTtl = 1
  ExecutionTtl = 1
  PublicationTtl = 1
  MaxOrphans = 1
  MaxRev = 2
SYMMETRY WorkerSymmetry
INVARIANTS
  TypeOK
  HolderIsExact
  CurrentVersionIsCurrentCopy
PROPERTIES
  NegotiationKeepsPromise
  QuarantineHolds
  LateByLessThanTheClaim
