----------------------------- MODULE SetupGate -----------------------------
(***************************************************************************)
(* What lets a run go on between its setup and its operational commit:     *)
(* setup_gate.py (acceptance, binding of the sources after preflight),     *)
(* partial_sources.py, mapping/health.py and the gate of scenario.py.      *)
(*                                                                         *)
(* Acceptances and bindings are rows of the run; the driver may accept the *)
(* setup anew, edit the policy, or bind a source against an acceptance it  *)
(* still holds.  What the sources read is external: each read reports its  *)
(* state and the consultants it affected, and may have lost rows.          *)
(***************************************************************************)
EXTENDS SetupTables, Naturals, Sequences, FiniteSets

CONSTANTS
  Consultants,
  SlotSets,        \* tuples of source slots a manager may confirm, as sets
  Manifests,       \* manifests and identities preflight may find
  Ingestions,      \* outcomes of reading all sources
  Editable,        \* policy fields edited in this instance
  MaxAcceptances   \* bound

ASSUME EditableAssumption == Editable \subseteq Fields
ASSUME BoundAssumption == MaxAcceptances \in Nat

\* External: a read that calls itself complete lost nothing, and one that
\* names consultants names all whose rows it lost.  A read that lost rows and
\* names nobody is among them: what follows from it is for the code to see.
ASSUME ReportsAssumption ==
  \A outcome \in Ingestions : \A r \in outcome :
    /\ r.state = "COMPLETE" => r.lost = {}
    /\ r.affected # {} => r.lost \subseteq r.affected

VARIABLES
  lane,       \* the lane of the run
  policy,     \* the policy in force: a version of each field
  accepted,   \* policy_acceptances, in order
  bindings,   \* source_authority_bindings
  reads,      \* what the sources reported, once they were read
  health,     \* the data health receipt
  scenario    \* what a scenario ran with: its acceptance, and the policy then

vars == <<lane, policy, accepted, bindings, reads, health, scenario>>

None == "NONE"

-----------------------------------------------------------------------------
(***************************************************************************)
(* RunSetupAcceptanceV1 and build_run_setup_acceptance.                    *)
(***************************************************************************)
Roles(slots) == {s.role : s \in slots}

Primary(slots) == {s \in slots : s.role # "CONVERSATION_ADDITIVE"}

SlotsAcceptedAnyNumber(slots) ==   \* mutant: two slots may have one role
  /\ slots # {}
  /\ RequiredRoles(lane) \subseteq Roles(slots)
  /\ "CONVERSATION_ADDITIVE" \in Roles(slots) => lane # "CAPACITY_HEATMAP"

SlotsAccepted(slots) ==
  /\ slots # {}
  /\ \A s \in slots, t \in slots : s.id = t.id /\ s.role = t.role => s = t
  /\ \A s \in Primary(slots), t \in Primary(slots) : s.role = t.role => s = t
  /\ RequiredRoles(lane) \subseteq Roles(slots)
  /\ "CONVERSATION_ADDITIVE" \in Roles(slots) => lane # "CAPACITY_HEATMAP"

ConfirmedFields == CoreFields(lane) \cup AdvancedFields(lane)

AcceptSetup(slots, core, advanced) ==
  /\ Len(accepted) < MaxAcceptances
  /\ core /\ advanced
  /\ SlotsAccepted(slots)
  /\ accepted' = Append(accepted,
       [slots |-> slots,
        fields |-> [f \in ConfirmedFields |-> policy[f]]])
  /\ UNCHANGED <<lane, policy, bindings, reads, health, scenario>>

EditPolicy(f) ==
  /\ policy[f] = 0
  /\ policy' = [policy EXCEPT ![f] = 1]
  /\ UNCHANGED <<lane, accepted, bindings, reads, health, scenario>>

\* validate_current_setup; its one caller hands it the receipt's own slots
CurrentSetup(receipt) ==
  \A f \in ConfirmedFields : receipt.fields[f] = policy[f]

(***************************************************************************)
(* bind_post_preflight_manifest against one acceptance, and the row        *)
(* persist_bound_authority adds: a slot of the run is bound once.          *)
(***************************************************************************)
Matches(slot, m) ==
  /\ m.adapter = slot.adapter
  /\ m.role = slot.role
  /\ Cardinality({b \in m.bindings : b.slot = slot.id}) = 1
  /\ \A b \in m.bindings : b.slot = slot.id => b.role = slot.role
  /\ slot.expected \in {None, m.fingerprint}

Bind(i, id, m) ==
  /\ reads = {}
  /\ LET slots == {s \in accepted[i].slots : s.id = id}
     IN /\ Cardinality(slots) = 1
        /\ \A s \in slots :
             /\ Matches(s, m)
             /\ \A b \in bindings : b.slot # s.id
             /\ bindings' = bindings \cup
                  {[slot |-> s.id, role |-> s.role, manifest |-> m.id, under |-> i]}
  /\ UNCHANGED <<lane, policy, accepted, reads, health, scenario>>

-----------------------------------------------------------------------------
Of(population) == {r \in reads : r.population = population}

Failed(population) == {r \in Of(population) : r.state # "COMPLETE"}

BySupplier == {"CAPACITY_AVAILABILITY", "WORKLOAD_COMMITMENT"}

Affected(population) == UNION {r.affected : r \in Failed(population)}

(***************************************************************************)
(* evaluate_partial_source_policy: failed capacity or workload reads that  *)
(* name consultants count against those; any other failure of a required   *)
(* population, or of the policy, stops the lane.                           *)
(***************************************************************************)
ConsultantLocal(population) == population \in BySupplier /\ Affected(population) # {}

MissingUnlessRead ==   \* mutant: a read that failed is as good as any
  {p \in RequiredPopulations(lane) \cup {"POLICY"} : Of(p) = {}}

Missing ==
  {p \in RequiredPopulations(lane) \cup {"POLICY"} :
     Of(p) = {} \/ (Failed(p) # {} /\ ~ConsultantLocal(p))}

IncompleteConsultants == UNION {Affected(p) : p \in {q \in BySupplier : ConsultantLocal(q)}}

DownstreamAllowed == Missing = {}

(***************************************************************************)
(* capacity_coverage: all four buckets and workload coverage, from the     *)
(* rows that were read.                                                    *)
(***************************************************************************)
Short(population) == UNION {r.lost : r \in Of(population)}

Coverage ==
  IF \E p \in BySupplier : Of(p) = {} THEN {}
  ELSE Consultants \ UNION {Short(p) : p \in BySupplier}

(***************************************************************************)
(* assess_data_health and the contract of its receipt.                     *)
(***************************************************************************)
HealthMissing(deals) ==
  {p \in RequiredPopulations(lane) : Of(p) = {}}
    \cup (IF deals = 0 THEN {"DEAL_WORK_REQUEST"} ELSE {})
    \cup (IF Supply(lane) /\ Coverage = {} THEN {"COMPLETE_CONSULTANT_SUPPLY"} ELSE {})

Ingest(outcome) ==
  /\ accepted # <<>> /\ reads = {}
  /\ \A r \in outcome : r.population = "CONVERSATION_EVIDENCE" => lane # "CAPACITY_HEATMAP"
  /\ \A role \in RequiredRoles(lane) : \E b \in bindings : b.role = role
  /\ reads' = outcome
  /\ UNCHANGED <<lane, policy, accepted, bindings, health, scenario>>

AssessHealth(deals, orphans, openConflict) ==
  /\ reads # {} /\ health = None
  /\ health' = IF HealthMissing(deals) = {} /\ ~orphans /\ ~openConflict
               THEN "ACCEPTED" ELSE "BLOCKED"
  /\ UNCHANGED <<lane, policy, accepted, bindings, reads, scenario>>

\* run_emea_capacity_scenario, with whichever acceptance the driver holds
RunScenario(i) ==
  /\ scenario = {}
  /\ lane = "CAPACITY_HEATMAP"
  /\ CurrentSetup(accepted[i])
  /\ scenario' = {[under |-> i, policy |-> policy]}
  /\ UNCHANGED <<lane, policy, accepted, bindings, reads, health>>

Init ==
  /\ lane \in Lanes
  /\ policy = [f \in Fields |-> 0]
  /\ accepted = <<>> /\ bindings = {} /\ reads = {} /\ health = None /\ scenario = {}

Next ==
  \/ \E slots \in SlotSets, core, advanced \in BOOLEAN : AcceptSetup(slots, core, advanced)
  \/ \E f \in Editable : EditPolicy(f)
  \/ \E i \in 1..Len(accepted), m \in Manifests :
       \E id \in {s.id : s \in accepted[i].slots} : Bind(i, id, m)
  \/ \E i \in 1..Len(accepted) : RunScenario(i)
  \/ \E outcome \in Ingestions : Ingest(outcome)
  \/ \E deals \in {0, 1}, orphans, open \in BOOLEAN : AssessHealth(deals, orphans, open)

Spec == Init /\ [][Next]_vars

-----------------------------------------------------------------------------
TypeOK ==
  /\ lane \in Lanes
  /\ policy \in [Fields -> 0..1]
  /\ \A i \in 1..Len(accepted) : DOMAIN accepted[i].fields = ConfirmedFields
  /\ \A b \in bindings : b.under \in 1..Len(accepted)
  /\ health \in {None, "ACCEPTED", "BLOCKED"}

\* Two sources of one run have authority over the same population only if
\* the manager accepted the setup twice: within one acceptance a role is one
\* slot, and no slot is bound twice.  (Types are checked along with it.)
RolesHaveOneSource ==
  /\ TypeOK
  /\ \A b, c \in bindings :
       b.role = c.role /\ b.role # "CONVERSATION_ADDITIVE" /\ b # c => b.under # c.under

\* A failed read that names nobody beside one of the same population that names somebody: the
\* first then no longer stops the lane.
MixedReport(population) ==
  /\ \E r \in Failed(population) : r.affected = {}
  /\ \E r \in Failed(population) : r.affected # {}

\* Partial sources: a supply lane that may go on knows as incomplete every
\* consultant whose capacity or workload lost rows, mixed reports excepted.
NobodyIsSilentlyShort ==
  reads # {} /\ Supply(lane) /\ DownstreamAllowed =>
    \A p \in BySupplier :
      MixedReport(p) \/ Short(p) \subseteq IncompleteConsultants

\* Partial sources and data health agree: a lane both let through has
\* every population it requires, read whole unless only some consultants are
\* short, and if it needs supply a consultant without a gap in capacity and workload.
AdmittedLanesCanRun ==
  health = "ACCEPTED" /\ DownstreamAllowed =>
    /\ \A p \in RequiredPopulations(lane) : Of(p) # {}
    /\ \A p \in RequiredPopulations(lane) \ BySupplier : Failed(p) = {}
    /\ Supply(lane) => \E c \in Consultants : \A p \in BySupplier : c \notin Short(p)

\* What partial_sources.py and mapping/health.py let through, each on its own,
\* has the reads it needs, and nobody with a gap is taken for complete.
AdmittedLanesAreFed == NobodyIsSilentlyShort /\ AdmittedLanesCanRun

\* A scenario only runs with values the manager confirmed, all in one
\* acceptance, however often setup and policy changed in between.
ScenarioIsConfirmed ==
  \A run \in scenario :
    \A f \in Fields :
      f \in {"horizon_weeks", "scenario_boundaries", "utilization_ceiling", "export_boundary"} =>
        accepted[run.under].fields[f] = run.policy[f]

\* The setup a run works under is the one the manager accepted: in the sources
\* it may bind and in the values a scenario takes from it.
SetupIsHeldTo == RolesHaveOneSource /\ ScenarioIsConfirmed

=============================================================================
