CONSTANTS
  Inputs <- MCInputs
  Policy <- MCPolicy
  TicksPerDay = 2
  MaxDelay = 1
SPECIFICATION Spec
INVARIANTS
  EligibleMeansRoom
  CapacityTellsOneStory
PROPERTIES
  DueWeekIsExact
  FitRaisesAreExplained
CHECK_DEADLOCK FALSE
