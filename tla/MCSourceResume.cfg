SPECIFICATION Spec
CONSTANTS
  x = x
  y = y
  z = z
  p = p
  q = q
  Ids = {x, y}
  Drivers = {p, q}
  Overlap = 1
  Lag = 1
  PageSize = 1
  Moves = {"PREFLIGHTED", "READY", "READING", "RETRY_WAIT"}
  MaxTime = 3
  MaxPages = 3
INVARIANTS
  NothingIsLost
  AcceptedOnce
SYMMETRY Interchangeable
