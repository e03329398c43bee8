CONSTANTS
  c1 = c1
  c2 = c2
  Consultants <- MCConsultants
  SlotSets <- MCSlotSets
  Manifests <- MCManifests
  Ingestions <- MCIngestions
  Editable = {"scenario_boundaries"}
  MaxAcceptances = 2
SPECIFICATION Spec
INVARIANTS
  SetupIsHeldTo
  AdmittedLanesAreFed
CHECK_DEADLOCK FALSE
