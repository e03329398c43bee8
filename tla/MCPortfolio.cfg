SPECIFICATION SolveSpec
CONSTANTS
  DealIds = {1, 2}
  ConsultantIds = {1, 2, 3}
  LastWeek = 2
  Ceiling = 8000
  Problems <- MCProblems
INVARIANTS
  SolverAgreesWithOracle
  InfeasibleMeansNoSelectionWhenOpen
CHECK_DEADLOCK FALSE
