---------------------------- MODULE SetupTables ----------------------------
(***************************************************************************)
(* The static tables of contracts/setup.py and mapping/health.py: which    *)
(* policy fields a lane confirms, which sources it must have an authority  *)
(* for, and which populations it cannot do without.                        *)
(***************************************************************************)

Lanes == {"DEAL_PRIORITIZATION", "ASSIGNMENT_RECOMMENDATION", "CAPACITY_HEATMAP"}

Supply(lane) == lane # "DEAL_PRIORITIZATION"

DealCore ==
  {"horizon_weeks", "readiness_dimensions", "required_readiness_subsets_by_request_type",
   "priority_weights_bp", "urgency_breakpoints", "commercial_value_floor",
   "commercial_value_cap", "commercial_currency_basis"}

CapacityCore ==
  {"capacity_unit_minutes", "capacity_completeness_window", "utilization_ceiling"}

CoreFields(lane) ==
  CASE lane = "DEAL_PRIORITIZATION"       -> DealCore
    [] lane = "ASSIGNMENT_RECOMMENDATION" -> DealCore \cup CapacityCore
    [] lane = "CAPACITY_HEATMAP"          -> {"horizon_weeks"} \cup CapacityCore

Boundary == {"prohibited_inputs", "prohibited_outputs", "export_boundary"}

AdvancedFields(lane) ==
  Boundary \cup
    CASE lane = "DEAL_PRIORITIZATION"       -> {"priority_weight_bounds"}
      [] lane = "ASSIGNMENT_RECOMMENDATION" ->
           {"priority_weight_bounds", "skill_catalog", "minimum_working_window_overlap",
            "match_component_weights_bp", "solver_config"}
      [] lane = "CAPACITY_HEATMAP"          -> {"skill_catalog", "scenario_boundaries"}

Fields == UNION {CoreFields(lane) \cup AdvancedFields(lane) : lane \in Lanes}

RequiredRoles(lane) ==
  {"DEALS_PRIMARY"}
    \cup IF Supply(lane) THEN {"ROSTER_PRIMARY", "CAPACITY_PRIMARY", "WORKLOAD_PRIMARY"}
         ELSE {}

RequiredPopulations(lane) ==
  {"DEAL_WORK_REQUEST"}
    \cup IF Supply(lane)
         THEN {"CONSULTANT", "CAPACITY_AVAILABILITY", "WORKLOAD_COMMITMENT", "SKILL_ASSERTION"}
         ELSE {}

=============================================================================
