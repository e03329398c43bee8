--------------------------- MODULE WorkflowGraph ---------------------------
(***************************************************************************)
(* The static tables of orchestrator/workflow.py: the 23 states of a run,  *)
(* the edges each lane allows, and the life cycle of one source read.      *)
(***************************************************************************)

States ==
  { "NEW", "AUTHORITY_ATTESTED", "SOURCE_CONFIGURED", "SOURCE_PREFLIGHTED",
    "SAMPLE_PREVIEWED", "MAPPING_REVIEW_REQUIRED", "MAPPING_ACCEPTED",
    "INGESTING", "INGESTED", "INGESTED_PARTIAL", "DATA_HEALTH_REVIEW",
    "INPUT_VALIDATED", "EVIDENCE_READY", "READINESS_COMPUTED", "QUEUE_SCORED",
    "ASSIGNMENT_SOLVED", "CAPACITY_COMPUTED", "SCENARIO_COMPUTED",
    "DIGEST_VALIDATED", "DIGEST_FALLBACK", "REVIEW_REQUIRED", "EXPORT_READY",
    "CLOSED" }

Lanes == { "DEAL_PRIORITIZATION", "ASSIGNMENT_RECOMMENDATION", "CAPACITY_HEATMAP" }

SourceStates ==
  { "PENDING", "PREFLIGHTED", "MAPPING_REQUIRED", "READY", "READING",
    "RATE_LIMITED", "RETRY_WAIT", "COMPLETE", "BOUNDED_PARTIAL", "AUTH_FAILED",
    "SOURCE_FAILED", "CANCELLED" }

CommonTransitions ==
  { <<"NEW", "AUTHORITY_ATTESTED">>,
    <<"AUTHORITY_ATTESTED", "SOURCE_CONFIGURED">>,
    <<"SOURCE_CONFIGURED", "SOURCE_PREFLIGHTED">>,
    <<"SOURCE_PREFLIGHTED", "SAMPLE_PREVIEWED">>,
    <<"SAMPLE_PREVIEWED", "MAPPING_REVIEW_REQUIRED">>,
    <<"MAPPING_REVIEW_REQUIRED", "MAPPING_ACCEPTED">>,
    <<"MAPPING_ACCEPTED", "INGESTING">>,
    <<"INGESTING", "INGESTED">>,
    <<"INGESTING", "INGESTED_PARTIAL">>,
    <<"INGESTED", "DATA_HEALTH_REVIEW">>,
    <<"INGESTED_PARTIAL", "DATA_HEALTH_REVIEW">>,
    <<"DATA_HEALTH_REVIEW", "INPUT_VALIDATED">>,
    <<"DIGEST_VALIDATED", "REVIEW_REQUIRED">>,
    <<"DIGEST_FALLBACK", "REVIEW_REQUIRED">>,
    <<"REVIEW_REQUIRED", "EXPORT_READY">>,
    <<"EXPORT_READY", "CLOSED">> }

ReadinessTransitions ==
  { <<"INPUT_VALIDATED", "EVIDENCE_READY">>,
    <<"EVIDENCE_READY", "READINESS_COMPUTED">>,
    <<"READINESS_COMPUTED", "QUEUE_SCORED">> }

DigestAfter(s) == { <<s, "DIGEST_VALIDATED">>, <<s, "DIGEST_FALLBACK">> }

DealTransitions == ReadinessTransitions \cup DigestAfter("QUEUE_SCORED")

AssignmentTransitions ==
  ReadinessTransitions
    \cup { <<"QUEUE_SCORED", "ASSIGNMENT_SOLVED">> }
    \cup DigestAfter("ASSIGNMENT_SOLVED")

CapacityTransitions ==
  { <<"INPUT_VALIDATED", "CAPACITY_COMPUTED">>,
    <<"CAPACITY_COMPUTED", "SCENARIO_COMPUTED">> }
    \cup DigestAfter("SCENARIO_COMPUTED")

AllowedTransitions(lane) ==
  CommonTransitions \cup
    CASE lane = "DEAL_PRIORITIZATION"       -> DealTransitions
      [] lane = "ASSIGNMENT_RECOMMENDATION" -> AssignmentTransitions
      [] lane = "CAPACITY_HEATMAP"          -> CapacityTransitions
      [] OTHER                              -> {}

SourceTransitions ==
     { <<"PENDING", s>> : s \in {"PREFLIGHTED", "AUTH_FAILED", "CANCELLED"} }
\cup { <<"PREFLIGHTED", s>> : s \in {"MAPPING_REQUIRED", "READY"} }
\cup { <<"MAPPING_REQUIRED", "READY">>, <<"READY", "READING">> }
\cup { <<"READING", s>> : s \in {"RATE_LIMITED", "RETRY_WAIT", "COMPLETE",
                                 "BOUNDED_PARTIAL", "AUTH_FAILED",
                                 "SOURCE_FAILED", "CANCELLED"} }
\cup { <<"RATE_LIMITED", s>> : s \in {"RETRY_WAIT", "SOURCE_FAILED", "CANCELLED"} }
\cup { <<"RETRY_WAIT", s>> : s \in {"READING", "SOURCE_FAILED", "CANCELLED"} }
\cup { <<"BOUNDED_PARTIAL", "READING">>, <<"AUTH_FAILED", "PENDING">> }

(***************************************************************************)
(* The completeness column transition_source derives from the new state.   *)
(***************************************************************************)
CompletenessOf(s) ==
  IF s \in {"COMPLETE", "BOUNDED_PARTIAL"} THEN s ELSE "UNKNOWN"

=============================================================================
