------------------------------ MODULE Lineage ------------------------------
(***************************************************************************)
(* canonical.py: the consumption graph, the sessions decisions are         *)
(* computed in, and the export bundle whose claims are derived from it.    *)
(* Paths of the graph run source, field, decision: nodes are prefixed by   *)
(* their kind, so the search of decision_bearing_sources is two edges.     *)
(*                                                                         *)
(* `contributors` is history: the sources a value was really read from by  *)
(* a session before it emitted a decision.                                 *)
(***************************************************************************)
EXTENDS Naturals, FiniteSets

CONSTANTS
  Sources,      \* source instances
  Manifested,   \* those with a manifest
  Fields,       \* canonical fields
  Decisions

ASSUME SourcesAssumption == Manifested \subseteq Sources

VARIABLES
  reads,          \* edges source -> field
  supports,       \* edges field -> decision
  roots,          \* decisions emitted
  consumed,       \* per session of the computation under way: fields read
  held,           \* history: sources the session read from
  contributors,   \* history
  bundle          \* the export bundle, {} before it is built

lineageVars == <<reads, supports, roots, consumed, held, contributors, bundle>>

\* ImplementationProofV1 and its order; LiveValidationProofV1 is a Boolean
ADAPTER_INTERFACE_ONLY == 0
MOCK_TESTED_ONLY == 1
FULLY_IMPLEMENTED_CONTRACT_TESTED == 2

Proof == [implementation : 0..2, live : BOOLEAN]

LineageInit ==
  /\ reads = {} /\ supports = {} /\ roots = {} /\ consumed = {}
  /\ held = {} /\ contributors = {} /\ bundle = {}

NewSession ==
  /\ consumed' = {} /\ held' = {}
  /\ UNCHANGED <<reads, supports, roots, contributors, bundle>>

\* DecisionComputation.read; record_consumption refuses what has no manifest
Read(s, f) ==
  /\ s \in Manifested
  /\ reads' = reads \cup {<<s, f>>}
  /\ consumed' = consumed \cup {f}
  /\ held' = held \cup {s}
  /\ UNCHANGED <<supports, roots, contributors, bundle>>

\* the edges one emit records
SupportOfLast(d) ==   \* mutant: one of the fields is linked, not each
  IF consumed = {} THEN {} ELSE {<<CHOOSE f \in consumed : TRUE, d>>}

SupportOf(d) == consumed \X {d}

Emit(d) ==
  /\ consumed # {}
  /\ supports' = supports \cup SupportOf(d)
  /\ roots' = roots \cup {d}
  /\ contributors' = contributors \cup held
  /\ UNCHANGED <<reads, consumed, held, bundle>>

\* decision_bearing_sources
Bearing ==
  {s \in Manifested :
     \E f \in Fields, d \in roots : <<s, f>> \in reads /\ <<f, d>> \in supports}

(***************************************************************************)
(* build_export_bundle: proofs for exactly the manifested sources.         *)
(***************************************************************************)
Summary(proofs) ==
  [implementation |-> CHOOSE n \in {proofs[s].implementation : s \in Bearing} :
                        \A s \in Bearing : n <= proofs[s].implementation,
   live |-> \A s \in Bearing : proofs[s].live]

Export(proofs) ==
  /\ DOMAIN proofs = Manifested
  /\ bundle' = {[proofs  |-> proofs,
                 bearing |-> Bearing,
                 rests   |-> contributors,   \* history
                 summary |-> IF Bearing = {} THEN {} ELSE {Summary(proofs)}]}
  /\ UNCHANGED <<reads, supports, roots, consumed, held, contributors>>

LineageNext ==
  \/ NewSession
  \/ \E s \in Sources, f \in Fields : Read(s, f)
  \/ \E d \in Decisions : Emit(d)
  \/ \E proofs \in [Manifested -> Proof] : Export(proofs)

LineageSpec == LineageInit /\ [][LineageNext]_lineageVars

-----------------------------------------------------------------------------
\* No source a decision rests on is left out of the closure: what a session
\* had read when it emitted is decision-bearing, whichever sessions, fields
\* and decisions came before or after.
ContributorsAreBearing == contributors \subseteq Bearing

\* The summary of an export never claims more than any source its decisions
\* rested on has: not a better implementation, not a live validation.
ClaimIsWeakest ==
  \A b \in bundle : \A s \in b.rests :
    /\ b.summary # {}
    /\ \A claim \in b.summary :
         /\ claim.implementation <= b.proofs[s].implementation
         /\ claim.live => b.proofs[s].live

\* An export bundle names and ranks every source its decisions rested on.
ExportsAreSound == ContributorsAreBearing /\ ClaimIsWeakest

=============================================================================
