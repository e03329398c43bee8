SPECIFICATION IntakeSpec
CONSTANTS
  None = None
  Rows <- MCRows
  Inputs <- MCInputs
  MaxRows = 2
INVARIANTS
  CountsReconcile
  StagingIsSettled
PROPERTIES
  CommitPublishesCounts
