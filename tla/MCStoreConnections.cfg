SPECIFICATION Spec
CONSTANTS
  c1 = c1
  c2 = c2
  r1 = r1
  r2 = r2
  a1 = a1
  a2 = a2
  x1 = x1
  x2 = x2
  Conns = {c1, c2}
  Runs = {r1, r2}
  Artifacts = {a1, a2}
  Ids = {x1, x2}
  Workloads <- MCWorkloads
  MaxEvents = 1
INVARIANTS
  WritesAreWhole
PROPERTIES
  StagedRowsAreAccountedFor
  CitedAreAccountedFor
  OneOperationPerCommit
  
SYMMETRY Interchangeable
