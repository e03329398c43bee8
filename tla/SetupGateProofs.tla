-------------------------- MODULE SetupGateProofs --------------------------
(***************************************************************************)
(* Proofs about SetupGate, for any sources, slots, manifests, consultants  *)
(* and outcomes of reading, and however often the setup is accepted anew.  *)
(***************************************************************************)
EXTENDS SetupGate, TLAPS

(***************************************************************************)
(* A row of policy_acceptances of a run in lane l.                         *)
(***************************************************************************)
AcceptanceIn(l) ==
  [slots : SlotSets, fields : [CoreFields(l) \cup AdvancedFields(l) -> 0..1]]

RowsAreTyped ==
  /\ lane \in Lanes
  /\ policy \in [Fields -> 0..1]
  /\ accepted \in Seq(AcceptanceIn(lane))
  /\ health \in {None, "ACCEPTED", "BLOCKED"}

(***************************************************************************)
(* Each acceptance was one the contract lets through: an id has one slot   *)
(* per role, a primary role one slot.                                      *)
(***************************************************************************)
SlotsAreOrdered(slots) ==
  /\ \A s, t \in slots : s.id = t.id /\ s.role = t.role => s = t
  /\ \A s, t \in Primary(slots) : s.role = t.role => s = t

AcceptancesAreOrdered == \A i \in 1..Len(accepted) : SlotsAreOrdered(accepted[i].slots)

(***************************************************************************)
(* Each binding is of a slot of the acceptance it was made under, and no   *)
(* two bindings are of one slot id, whichever acceptances they are under.  *)
(***************************************************************************)
BindingHasSlot(b) ==
  /\ b.under \in 1..Len(accepted)
  /\ \E s \in accepted[b.under].slots : s.id = b.slot /\ s.role = b.role

BindingsHaveSlots == \A b \in bindings : BindingHasSlot(b)

SlotsAreBoundOnce == \A b, c \in bindings : b.slot = c.slot => b = c

ScenariosHaveAcceptances ==
  \A run \in scenario :
    /\ lane = "CAPACITY_HEATMAP"
    /\ run.under \in 1..Len(accepted)

HealthIsOfReads == health = "ACCEPTED" => reads # {} /\ (Supply(lane) => Coverage # {})

ReadsAreAnOutcome == reads = {} \/ reads \in Ingestions

IInv ==
  /\ RowsAreTyped
  /\ AcceptancesAreOrdered
  /\ BindingsHaveSlots
  /\ SlotsAreBoundOnce
  /\ ScenariosHaveAcceptances
  /\ ScenarioIsConfirmed
  /\ HealthIsOfReads
  /\ ReadsAreAnOutcome

-----------------------------------------------------------------------------
LEMMA ConfirmedAreFields == ASSUME NEW l \in Lanes
                            PROVE  CoreFields(l) \cup AdvancedFields(l) \subseteq Fields
BY DEF Fields

(***************************************************************************)
(* What a scenario takes from the setup is confirmed in its lane.          *)
(***************************************************************************)
LEMMA HeatmapConfirmsScenario ==
  {"horizon_weeks", "scenario_boundaries", "utilization_ceiling", "export_boundary"}
    \subseteq CoreFields("CAPACITY_HEATMAP") \cup AdvancedFields("CAPACITY_HEATMAP")
BY DEF CoreFields, AdvancedFields, CapacityCore, Boundary

LEMMA InitIInv == Init => IInv
BY DEF Init, IInv, RowsAreTyped, AcceptancesAreOrdered, BindingsHaveSlots, SlotsAreBoundOnce,
   ScenariosHaveAcceptances, ScenarioIsConfirmed, HealthIsOfReads, ReadsAreAnOutcome, None

(***************************************************************************)
(* An acceptance made anew stands behind the earlier ones, which bindings  *)
(* and scenarios go on referring to.                                       *)
(***************************************************************************)
LEMMA AcceptKeepsIInv ==
  ASSUME IInv, NEW slots \in SlotSets, NEW core, NEW advanced,
         AcceptSetup(slots, core, advanced)
  PROVE  IInv'
<1> DEFINE row == [slots |-> slots, fields |-> [f \in ConfirmedFields |-> policy[f]]]
           n == Len(accepted)
<1>1. /\ SlotsAccepted(slots)
      /\ accepted' = Append(accepted, row)
      /\ UNCHANGED <<lane, policy, bindings, reads, health, scenario>>
  BY DEF AcceptSetup
<1>2. accepted \in Seq(AcceptanceIn(lane)) /\ row \in AcceptanceIn(lane)
  BY ConfirmedAreFields DEF IInv, RowsAreTyped, AcceptanceIn, ConfirmedFields
<1>3. row.slots = slots
  OBVIOUS
<1> HIDE DEF row
<1>4. /\ accepted' \in Seq(AcceptanceIn(lane))
      /\ n \in Nat /\ Len(accepted') = n + 1
      /\ accepted'[n + 1] = row
      /\ \A i \in 1..n : accepted'[i] = accepted[i]
  BY <1>1, <1>2
<1> HIDE DEF n
<1>5. RowsAreTyped'
  BY <1>1, <1>4 DEF IInv, RowsAreTyped, AcceptanceIn
<1>6. AcceptancesAreOrdered'
  <2>1. SlotsAreOrdered(slots)
    BY <1>1 DEF SlotsAccepted, SlotsAreOrdered
  <2>2. \A i \in 1..n : SlotsAreOrdered(accepted[i].slots)
    BY DEF IInv, AcceptancesAreOrdered, n
  <2>. QED  BY <1>3, <1>4, <2>1, <2>2 DEF AcceptancesAreOrdered
<1>7. BindingsHaveSlots'
  BY <1>1, <1>4 DEF IInv, BindingsHaveSlots, BindingHasSlot, n
<1>8. ScenariosHaveAcceptances' /\ ScenarioIsConfirmed'
  BY <1>1, <1>4 DEF IInv, ScenariosHaveAcceptances, ScenarioIsConfirmed, n
<1>9. SlotsAreBoundOnce' /\ HealthIsOfReads' /\ ReadsAreAnOutcome'
  BY <1>1 DEF IInv, SlotsAreBoundOnce, HealthIsOfReads, ReadsAreAnOutcome, Coverage, Of, Short
<1>. QED  BY <1>5, <1>6, <1>7, <1>8, <1>9 DEF IInv

(***************************************************************************)
(* Binding: the slot bound is one of the acceptance and was not bound      *)
(* before.                                                                 *)
(***************************************************************************)
LEMMA BindKeepsIInv ==
  ASSUME IInv, NEW i \in 1..Len(accepted), NEW m,
         NEW id \in {s.id : s \in accepted[i].slots}, Bind(i, id, m)
  PROVE  IInv'
<1>1. PICK s \in accepted[i].slots : s.id = id
  OBVIOUS
<1> DEFINE b == [slot |-> s.id, role |-> s.role, manifest |-> m.id, under |-> i]
<1>2. /\ bindings' = bindings \cup {b}
      /\ \A c \in bindings : c.slot # s.id
      /\ UNCHANGED <<lane, policy, accepted, reads, health, scenario>>
  BY <1>1 DEF Bind
<1>3. b.slot = s.id /\ b.role = s.role /\ b.under = i
  OBVIOUS
<1> HIDE DEF b
<1>4. BindingsHaveSlots'
  BY <1>1, <1>2, <1>3 DEF IInv, BindingsHaveSlots, BindingHasSlot
<1>5. SlotsAreBoundOnce'
  BY <1>2, <1>3 DEF IInv, SlotsAreBoundOnce
<1>6. RowsAreTyped' /\ AcceptancesAreOrdered'
  BY <1>2 DEF IInv, RowsAreTyped, AcceptanceIn, AcceptancesAreOrdered
<1>7. ScenariosHaveAcceptances' /\ ScenarioIsConfirmed' /\ HealthIsOfReads' /\ ReadsAreAnOutcome'
  BY <1>2 DEF IInv, ScenariosHaveAcceptances, ScenarioIsConfirmed, HealthIsOfReads,
     ReadsAreAnOutcome, Coverage, Of, Short
<1>. QED  BY <1>4, <1>5, <1>6, <1>7 DEF IInv

(***************************************************************************)
(* A scenario runs if what it was accepted with is still the policy, in    *)
(* every field its lane confirms.                                          *)
(***************************************************************************)
LEMMA ScenarioKeepsIInv ==
  ASSUME IInv, NEW i \in 1..Len(accepted), RunScenario(i)
  PROVE  IInv'
<1>1. /\ lane = "CAPACITY_HEATMAP"
      /\ \A f \in ConfirmedFields : accepted[i].fields[f] = policy[f]
      /\ scenario' = {[under |-> i, policy |-> policy]}
      /\ UNCHANGED <<lane, policy, accepted, bindings, reads, health>>
  BY DEF RunScenario, CurrentSetup
<1>2. ScenarioIsConfirmed'
  BY <1>1, HeatmapConfirmsScenario DEF ScenarioIsConfirmed, ConfirmedFields
<1>3. ScenariosHaveAcceptances'
  BY <1>1 DEF ScenariosHaveAcceptances
<1>4. RowsAreTyped' /\ AcceptancesAreOrdered' /\ BindingsHaveSlots' /\ SlotsAreBoundOnce'
  BY <1>1 DEF IInv, RowsAreTyped, AcceptanceIn, AcceptancesAreOrdered, BindingsHaveSlots,
     BindingHasSlot, SlotsAreBoundOnce
<1>5. HealthIsOfReads' /\ ReadsAreAnOutcome'
  BY <1>1 DEF IInv, HealthIsOfReads, ReadsAreAnOutcome, Coverage, Of, Short
<1>. QED  BY <1>2, <1>3, <1>4, <1>5 DEF IInv

(***************************************************************************)
(* Steps that leave acceptances, bindings and scenarios alone.             *)
(***************************************************************************)
LEMMA RowsUntouched ==
  ASSUME IInv, UNCHANGED <<lane, accepted, bindings, scenario>>,
         policy' \in [Fields -> 0..1], health' \in {None, "ACCEPTED", "BLOCKED"},
         HealthIsOfReads', ReadsAreAnOutcome'
  PROVE  IInv'
<1>1. RowsAreTyped'
  BY DEF IInv, RowsAreTyped, AcceptanceIn
<1>2. /\ AcceptancesAreOrdered' /\ BindingsHaveSlots' /\ SlotsAreBoundOnce'
      /\ ScenariosHaveAcceptances' /\ ScenarioIsConfirmed'
  BY DEF IInv, AcceptancesAreOrdered, BindingsHaveSlots, BindingHasSlot, SlotsAreBoundOnce,
     ScenariosHaveAcceptances, ScenarioIsConfirmed
<1>. QED  BY <1>1, <1>2 DEF IInv

LEMMA NextKeepsIInv == IInv /\ [Next]_vars => IInv'
<1> SUFFICES ASSUME IInv, [Next]_vars  PROVE IInv'
  OBVIOUS
<1>1. ASSUME NEW f \in Editable, EditPolicy(f)  PROVE IInv'
  <2>1. UNCHANGED <<lane, accepted, bindings, reads, health, scenario>>
    BY <1>1 DEF EditPolicy
  <2>2. policy' \in [Fields -> 0..1]
    BY <1>1, EditableAssumption DEF EditPolicy, IInv, RowsAreTyped
  <2>3. HealthIsOfReads' /\ ReadsAreAnOutcome'
    BY <2>1 DEF IInv, HealthIsOfReads, ReadsAreAnOutcome, Coverage, Of, Short
  <2>. QED  BY <2>1, <2>2, <2>3, RowsUntouched DEF IInv, RowsAreTyped
<1>2. ASSUME NEW outcome \in Ingestions, Ingest(outcome)  PROVE IInv'
  <2>1. /\ reads = {} /\ reads' = outcome
        /\ UNCHANGED <<lane, policy, accepted, bindings, health, scenario>>
    BY <1>2 DEF Ingest
  <2>2. HealthIsOfReads' /\ ReadsAreAnOutcome'
    BY <2>1 DEF IInv, HealthIsOfReads, ReadsAreAnOutcome
  <2>. QED  BY <2>1, <2>2, RowsUntouched DEF IInv, RowsAreTyped
<1>3. ASSUME NEW deals \in {0, 1}, NEW orphans \in BOOLEAN, NEW open \in BOOLEAN,
             AssessHealth(deals, orphans, open)
      PROVE  IInv'
  <2>1. /\ reads # {}
        /\ health' = "ACCEPTED" => HealthMissing(deals) = {}
        /\ health' \in {None, "ACCEPTED", "BLOCKED"}
        /\ UNCHANGED <<lane, policy, accepted, bindings, reads, scenario>>
    BY <1>3 DEF AssessHealth
  <2>2. HealthMissing(deals) = {} /\ Supply(lane) => Coverage # {}
    BY DEF HealthMissing
  <2>3. HealthIsOfReads' /\ ReadsAreAnOutcome'
    BY <2>1, <2>2 DEF IInv, HealthIsOfReads, ReadsAreAnOutcome, Coverage, Of, Short
  <2>. QED  BY <2>1, <2>3, RowsUntouched DEF IInv, RowsAreTyped
<1>4. CASE UNCHANGED vars
  <2>1. HealthIsOfReads' /\ ReadsAreAnOutcome'
    BY <1>4 DEF vars, IInv, HealthIsOfReads, ReadsAreAnOutcome, Coverage, Of, Short
  <2>. QED  BY <1>4, <2>1, RowsUntouched DEF vars, IInv, RowsAreTyped
<1>. QED
  BY <1>1, <1>2, <1>3, <1>4, AcceptKeepsIInv, BindKeepsIInv, ScenarioKeepsIInv DEF Next

LEMMA SpecKeepsIInv == Spec => []IInv
BY InitIInv, NextKeepsIInv, PTL DEF Spec

-----------------------------------------------------------------------------
(***************************************************************************)
(* Two bindings under one acceptance are of two slots, hence of two roles. *)
(***************************************************************************)
LEMMA OneSourcePerRole == IInv => RolesHaveOneSource
<1> SUFFICES ASSUME IInv  PROVE RolesHaveOneSource
  OBVIOUS
<1>1. TypeOK
  <2>1. \A i \in 1..Len(accepted) : accepted[i] \in AcceptanceIn(lane)
    BY DEF IInv, RowsAreTyped
  <2>2. \A i \in 1..Len(accepted) : DOMAIN accepted[i].fields = ConfirmedFields
    BY <2>1 DEF AcceptanceIn, ConfirmedFields
  <2>. QED  BY <2>2 DEF IInv, RowsAreTyped, BindingsHaveSlots, BindingHasSlot, TypeOK
<1>2. ASSUME NEW b \in bindings, NEW c \in bindings, b.role = c.role,
             b.role # "CONVERSATION_ADDITIVE", b.under = c.under
      PROVE  b = c
  <2>1. BindingHasSlot(b) /\ BindingHasSlot(c)
    BY DEF IInv, BindingsHaveSlots
  <2>2. PICK s \in accepted[b.under].slots : s.id = b.slot /\ s.role = b.role
    BY <2>1 DEF BindingHasSlot
  <2>3. PICK t \in accepted[b.under].slots : t.id = c.slot /\ t.role = c.role
    BY <1>2, <2>1 DEF BindingHasSlot
  <2>4. s = t
    BY <1>2, <2>1, <2>2, <2>3 DEF IInv, AcceptancesAreOrdered, SlotsAreOrdered, Primary,
       BindingHasSlot
  <2>. QED  BY <2>2, <2>3, <2>4 DEF IInv, SlotsAreBoundOnce
<1>. QED  BY <1>1, <1>2 DEF RolesHaveOneSource

(***************************************************************************)
(* The setup is held to: within one acceptance a population has one source *)
(* of authority, and a scenario takes every value from one acceptance,     *)
(* even if the driver goes on binding against an acceptance it replaced.   *)
(***************************************************************************)
THEOREM SetupStaysHeldTo == Spec => []SetupIsHeldTo
<1>1. IInv => SetupIsHeldTo
  BY OneSourcePerRole DEF IInv, SetupIsHeldTo
<1>. QED  BY <1>1, SpecKeepsIInv, PTL

(***************************************************************************)
(* What the decision on a population by consultant means: when a lane that *)
(* needs it may go on, its reads were whole or the failed ones named.      *)
(***************************************************************************)
LEMMA SupplyNamesItsGaps ==
  ASSUME IInv, reads # {}, Supply(lane), DownstreamAllowed, NEW p \in BySupplier,
         ~MixedReport(p)
  PROVE  Short(p) \subseteq IncompleteConsultants
<1>1. reads \in Ingestions
  BY DEF IInv, ReadsAreAnOutcome
<1>2. \A r \in Of(p) : /\ r.state = "COMPLETE" => r.lost = {}
                       /\ r.affected # {} => r.lost \subseteq r.affected
  BY <1>1, ReportsAssumption DEF Of
<1>3. p \in RequiredPopulations(lane)
  BY DEF RequiredPopulations, BySupplier
<1>4. Failed(p) = {} \/ ConsultantLocal(p)
  BY <1>3 DEF DownstreamAllowed, Missing
<1>5. CASE Failed(p) = {}
  <2>1. \A r \in Of(p) : r.lost = {}
    BY <1>2, <1>5 DEF Failed
  <2>. QED  BY <2>1 DEF Short
<1>6. CASE ConsultantLocal(p)
  <2>1. PICK r \in Failed(p) : r.affected # {}
    BY <1>6 DEF ConsultantLocal, Affected
  <2>2. \A q \in Failed(p) : q.affected # {}
    BY <2>1 DEF MixedReport
  <2>3. \A q \in Of(p) : q.lost \subseteq Affected(p)
    <3>1. \A q \in Failed(p) : q.lost \subseteq Affected(p)
      BY <1>2, <2>2 DEF Affected, Failed
    <3>2. \A q \in Of(p) \ Failed(p) : q.lost = {}
      BY <1>2 DEF Failed
    <3>. QED  BY <3>1, <3>2
  <2>4. Affected(p) \subseteq IncompleteConsultants
    BY <1>6 DEF IncompleteConsultants
  <2>. QED  BY <2>3, <2>4 DEF Short
<1>. QED  BY <1>4, <1>5, <1>6

(***************************************************************************)
(* The two gates between reading and computing, passed apart, together     *)
(* leave no lane without a population it needs; and nobody whose capacity  *)
(* or workload lost rows is taken for complete in a lane that may go on,   *)
(* unless a report that names nobody stands beside one that does.          *)
(***************************************************************************)
THEOREM AdmittedLanesStayFed == Spec => []AdmittedLanesAreFed
<1>1. IInv => AdmittedLanesCanRun
  <2> SUFFICES ASSUME IInv, health = "ACCEPTED", DownstreamAllowed
               PROVE  /\ \A p \in RequiredPopulations(lane) : Of(p) # {}
                      /\ \A p \in RequiredPopulations(lane) \ BySupplier : Failed(p) = {}
                      /\ Supply(lane) =>
                           \E c \in Consultants : \A p \in BySupplier : c \notin Short(p)
    BY DEF AdmittedLanesCanRun
  <2>1. \A p \in RequiredPopulations(lane) :
          Of(p) # {} /\ (Failed(p) = {} \/ ConsultantLocal(p))
    BY DEF DownstreamAllowed, Missing
  <2>2. \A p \in RequiredPopulations(lane) \ BySupplier : Failed(p) = {}
    BY <2>1 DEF ConsultantLocal
  <2>3. ASSUME Supply(lane)
        PROVE  \E c \in Consultants : \A p \in BySupplier : c \notin Short(p)
    <3>1. Coverage # {}
      BY <2>3 DEF IInv, HealthIsOfReads
    <3>2. PICK c \in Coverage : TRUE
      BY <3>1
    <3>3. c \in Consultants \ UNION {Short(p) : p \in BySupplier}
      BY <3>2 DEF Coverage
    <3>. QED  BY <3>3
  <2>. QED  BY <2>1, <2>2, <2>3
<1>2. IInv => NobodyIsSilentlyShort
  BY SupplyNamesItsGaps DEF NobodyIsSilentlyShort
<1>3. IInv => AdmittedLanesAreFed
  BY <1>1, <1>2 DEF AdmittedLanesAreFed
<1>. QED  BY <1>3, SpecKeepsIInv, PTL

=============================================================================
