SPECIFICATION Spec
CONSTANTS
  Deal = "d1"
  Transcripts <- MCTranscripts
  Raws <- MCRaws
  Catalog = {"x", "y", "z"}
  Accepted = {"x", "y"}
  MaxCandidates = 2
INVARIANTS
  EvidenceIsQuoted
  EveryCandidateIsDecidedOnce
  StaleRecordingIsNotApplied
  DigestMatchesReadiness
PROPERTIES
  RunEnds
CHECK_DEADLOCK FALSE
