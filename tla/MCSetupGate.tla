---------------------------- MODULE MCSetupGate ----------------------------
(***************************************************************************)
(* A run of any lane, two consultants, five ways to choose the sources and *)
(* at most one other population that is not read whole.                    *)
(***************************************************************************)
EXTENDS SetupGate

CONSTANTS c1, c2

MCConsultants == {c1, c2}

Slot(id, role, expected) ==
  [id |-> id, role |-> role, adapter |-> "files", expected |-> expected]

Deals == Slot("sd", "DEALS_PRIMARY", "fp1")

Supplies ==
  {Slot("sr", "ROSTER_PRIMARY", None), Slot("sc", "CAPACITY_PRIMARY", None),
   Slot("sw", "WORKLOAD_PRIMARY", None)}

MCSlotSets ==
  {{Deals}, {Deals, Slot("sx", "DEALS_PRIMARY", None)}, {Slot("sx", "DEALS_PRIMARY", None)},
   {Deals, Slot("sd", "CONVERSATION_ADDITIVE", None)}, {Deals} \cup Supplies}

Manifest(id, fingerprint, slot, role) ==
  [id |-> id, adapter |-> "files", role |-> role, fingerprint |-> fingerprint,
   bindings |-> {[slot |-> slot, role |-> role]}]

MCManifests ==
  {Manifest("m1", "fp1", "sd", "DEALS_PRIMARY"),
   Manifest("m2", "fp2", "sx", "DEALS_PRIMARY"),
   Manifest("m3", "fp2", "sd", "DEALS_PRIMARY")}
  \cup {Manifest(s.id, "fp1", s.id, s.role) : s \in Supplies}

Read(population, state, lost, affected) ==
  [population |-> population, state |-> state, lost |-> lost, affected |-> affected]

\* how the reads of a population that goes by consultant may end
Partial(p) ==
  {Read(p, "COMPLETE", {}, {}), Read(p, "BOUNDED_PARTIAL", {c1}, {c1}),
   Read(p, "SOURCE_FAILED", {c2}, {}), Read(p, "AUTH_FAILED", MCConsultants, MCConsultants)}

Capacity == {{r, s} : r, s \in Partial("CAPACITY_AVAILABILITY")}

Workload == {{r} : r \in Partial("WORKLOAD_COMMITMENT")} \cup {{}}

Whole == {"DEAL_WORK_REQUEST", "CONSULTANT", "SKILL_ASSERTION", "POLICY"}

Complete == {Read(p, "COMPLETE", {}, {}) : p \in Whole}

Others ==
  {Complete, Complete \cup {Read("CONVERSATION_EVIDENCE", "SOURCE_FAILED", {}, {})}}
  \cup {{r \in Complete : r.population # p} : p \in {"CONSULTANT", "POLICY"}}
  \cup {{r \in Complete : r.population # p} \cup {Read(p, "SOURCE_FAILED", {}, {})} :
          p \in {"DEAL_WORK_REQUEST", "SKILL_ASSERTION", "POLICY"}}

MCIngestions == {o \cup c \cup w : o \in Others, c \in Capacity, w \in Workload}

=============================================================================
