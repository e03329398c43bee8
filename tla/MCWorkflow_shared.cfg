SPECIFICATION Spec
CONSTANTS
  r1 = r1
  r2 = r2
  s1 = s1
  s2 = s2
  m1 = m1
  m2 = m2
  a1 = a1
  a2 = a2
  None = None
  RunIds = {r1, r2}
  SourceRunIds = {s1}
  Manifests = {m1}
  Artifacts = {a1}
  RunLanes = {"DEAL_PRIORITIZATION", "CAPACITY_HEATMAP"}
  ImportRuns = {r1}
  MaxEvents = 3
  MaxSourceEvents = 2
INVARIANTS
  SourceReadsAreAnnounced
  ChainsAreIntact
  ResumeRefusals
  WalksAreLegal
PROPERTIES
  LedgerIsAdditive
  ImplementsLaneLedger
