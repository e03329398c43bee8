CONSTANTS
  Processes = {p1, p2, p3}
SPECIFICATION MigrationsSpec
INVARIANTS
  ScriptsAreWhole
PROPERTIES
  MigrationsComplete
CHECK_DEADLOCK FALSE
