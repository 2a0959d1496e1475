SPECIFICATION AllSpec
CONSTANTS
  b1 = b1
  s1 = s1
  p1 = p1
  p2 = p2
  e1 = e1
  e2 = e2
  e = e
  w1 = w1
  w2 = w2
  h1 = h1
  None = None
  Book = {b1}
  Session = {s1}
  Request = {}
  Pane = {p1, p2}
  Edit = {e1, e2}
  Required = TRUE
  Base = Base
  Other = Other
  MaxNetworkAttempts = 2
  MaxActions = 2
  MaxChanges = 2
  Key <- AllKeys
  Host = {h1}
  Routed = {e}
  Worker = {w1, w2}
  SessionTtl = 1
  MaxRev = 2
  MaxMoves = 2
  MaxClock = 1
SYMMETRY Alike
PROPERTIES
  EditIsCarriedOut
  SessionsAreGoodFor
CHECK_DEADLOCK FALSE
