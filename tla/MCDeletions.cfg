CONSTANTS
  x = x
  p = p
  q = q
  Records = {x}
  Runs = {p, q}
  Windows <- MCWindows
  TicksPerSecond = 2
  MaxRange = 4
  Lag = 1
  MaxTime = 4
  MaxReceipts = 2
  MaxForgotten = 1
SPECIFICATION Spec
INVARIANTS
  DeletionsAreAccountedFor
PROPERTIES
  RefusalsLoseNothing
SYMMETRY Interchangeable
