CONSTANTS
  Sources <- MCSources
  Manifested <- MCManifested
  Fields <- MCFields
  Decisions <- MCDecisions
  Deals = {"alpha", "bravo"}
  Kinds = {"ACCEPT", "OVERRIDE", "REJECT", "DEFER"}
  Programs <- MCPrograms
  ProofSets <- MCProofSets
  WalkSteps = 7
  MaxResets = 2
SPECIFICATION Spec
INVARIANTS
  ExportsAreSound
  FlowIsKept
CHECK_DEADLOCK FALSE
