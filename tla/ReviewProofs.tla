---------------------------- MODULE ReviewProofs ----------------------------
(***************************************************************************)
(* Proofs about Lineage and about Review, the session of the interface it  *)
(* runs in.  For every set of sources, fields and decisions: what a        *)
(* decision rests on is decision-bearing, and no export claims more than   *)
(* its weakest source, in the graph alone and when the script that builds  *)
(* it is stopped anywhere.  For every walkthrough and pipeline: a click    *)
(* neither skips a gate nor carries something over a reset.                *)
(***************************************************************************)
EXTENDS Review, WellFoundedInduction, TLAPS

\* Every source a session holds was read into a field it consumed.
HeldIsRead ==
  \A s \in held : \E f \in consumed : <<s, f>> \in reads

LineageType ==
  /\ reads \subseteq Manifested \X Fields
  /\ consumed \subseteq Fields
  /\ held \subseteq Manifested
  /\ contributors \subseteq Manifested
  /\ roots \subseteq Decisions

\* The summary that is computed is the weakest of a set of proofs.
Weakest(proofs, claim) ==
  \A s \in Bearing :
    /\ claim.implementation <= proofs[s].implementation
    /\ claim.live => proofs[s].live

LineageInv ==
  LineageType /\ HeldIsRead /\ ContributorsAreBearing /\ ClaimIsWeakest

\* A set of natural numbers that is not empty has a least element.
LEMMA LeastExists ==
  ASSUME NEW S, S \subseteq Nat, S # {}
  PROVE  \E n \in S : \A m \in S : n <= m
<1>. DEFINE Less == OpToRel(<, Nat)
<1>1. PICK n \in S : \A k \in S : ~(<<k, n>> \in Less)
  <2>. HIDE DEF Less
  <2>1. IsWellFoundedOn(Less, Nat)
    BY NatLessThanWellFounded DEF Less
  <2>. QED  BY <2>1, WFMin
<1>2. \A m \in S : n <= m
  <2>. HIDE DEF Less
  <2>1. \A k \in Nat : k < n => <<k, n>> \in Less
    BY DEF OpToRel, Less
  <2>2. ASSUME NEW m \in S  PROVE ~(m < n)
    BY <1>1, <2>1, Zenon
  <2>3. S \subseteq Int
    OBVIOUS
  <2>. QED  BY <2>2, <2>3
<1>. QED  BY <1>2

\* build_export_bundle claims no more than any decision-bearing source has.
LEMMA SummaryIsWeakest ==
  ASSUME NEW proofs \in [Manifested -> Proof], Bearing # {}
  PROVE  Weakest(proofs, Summary(proofs))
<1>. DEFINE I == {proofs[s].implementation : s \in Bearing}
<1>1. I \subseteq Nat /\ I # {}
  BY DEF Bearing, Proof
<1>2. PICK n \in I : \A m \in I : n <= m
  BY <1>1, LeastExists
<1>3. \A s \in Bearing : n <= proofs[s].implementation
  BY <1>2
<1>4. \A s \in Bearing :
        (CHOOSE k \in I : \A t \in Bearing : k <= proofs[t].implementation) <= proofs[s].implementation
  BY <1>3
<1>. QED  BY <1>4 DEF Weakest, Summary

\* An edge added to the graph takes no source out of the closure.
LEMMA BearingGrows ==
  ASSUME reads \subseteq reads', supports \subseteq supports', roots \subseteq roots'
  PROVE  Bearing \subseteq Bearing'
BY DEF Bearing

\* Inductive step of the invariant.
LEMMA InvStep == LineageInv /\ [LineageNext]_lineageVars => LineageInv'
<1>. SUFFICES ASSUME LineageInv, [LineageNext]_lineageVars  PROVE LineageInv'
  OBVIOUS
<1>. USE DEF LineageInv
<1>1. CASE NewSession
  BY <1>1 DEF NewSession, LineageType, HeldIsRead, ContributorsAreBearing, Bearing, ClaimIsWeakest
<1>2. ASSUME NEW s \in Sources, NEW f \in Fields, Read(s, f)  PROVE LineageInv'
  <2>1. LineageType'  BY <1>2 DEF Read, LineageType
  <2>2. HeldIsRead'  BY <1>2 DEF Read, HeldIsRead
  <2>3. ContributorsAreBearing'
    BY <1>2, BearingGrows DEF Read, ContributorsAreBearing
  <2>4. ClaimIsWeakest'  BY <1>2 DEF Read, ClaimIsWeakest
  <2>. QED  BY <2>1, <2>2, <2>3, <2>4
<1>3. ASSUME NEW d \in Decisions, Emit(d)  PROVE LineageInv'
  <2>1. LineageType'  BY <1>3 DEF Emit, LineageType
  <2>2. HeldIsRead'  BY <1>3 DEF Emit, HeldIsRead
  <2>3. ContributorsAreBearing'
    <3>1. Bearing \subseteq Bearing'
      BY <1>3, BearingGrows DEF Emit
    <3>2. held \subseteq Bearing'
      <4>. SUFFICES ASSUME NEW s \in held  PROVE s \in Bearing'
        OBVIOUS
      <4>1. PICK f \in consumed : <<s, f>> \in reads  BY DEF HeldIsRead
      <4>2. <<f, d>> \in supports' /\ d \in roots' /\ <<s, f>> \in reads'
        BY <1>3, <4>1 DEF Emit, SupportOf
      <4>3. s \in Manifested /\ f \in Fields  BY <4>1 DEF LineageType
      <4>. QED  BY <4>2, <4>3 DEF Bearing
    <3>. QED  BY <1>3, <3>1, <3>2 DEF Emit, ContributorsAreBearing
  <2>4. ClaimIsWeakest'  BY <1>3 DEF Emit, ClaimIsWeakest
  <2>. QED  BY <2>1, <2>2, <2>3, <2>4
<1>4. ASSUME NEW proofs \in [Manifested -> Proof], Export(proofs)  PROVE LineageInv'
  <2>1. LineageType'  BY <1>4 DEF Export, LineageType
  <2>2. HeldIsRead'  BY <1>4 DEF Export, HeldIsRead
  <2>3. ContributorsAreBearing'  BY <1>4 DEF Export, ContributorsAreBearing, Bearing
  <2>4. ClaimIsWeakest'
    <3>. SUFFICES ASSUME NEW b \in bundle', NEW s \in b.rests
                  PROVE  /\ b.summary # {}
                         /\ \A claim \in b.summary :
                              /\ claim.implementation <= b.proofs[s].implementation
                              /\ claim.live => b.proofs[s].live
      BY DEF ClaimIsWeakest
    <3>1. b = [proofs |-> proofs, bearing |-> Bearing, rests |-> contributors,
               summary |-> IF Bearing = {} THEN {} ELSE {Summary(proofs)}]
      BY <1>4 DEF Export
    <3>2. s \in Bearing
      BY <3>1 DEF ContributorsAreBearing
    <3>3. b.summary = {Summary(proofs)} /\ b.proofs = proofs
      BY <3>1, <3>2
    <3>4. Weakest(proofs, Summary(proofs))
      BY <3>2, SummaryIsWeakest
    <3>. QED  BY <3>2, <3>3, <3>4 DEF Weakest
  <2>. QED  BY <2>1, <2>2, <2>3, <2>4
<1>5. CASE UNCHANGED lineageVars
  BY <1>5 DEF lineageVars, LineageType, HeldIsRead, ContributorsAreBearing, Bearing, ClaimIsWeakest
<1>. QED  BY <1>1, <1>2, <1>3, <1>4, <1>5 DEF LineageNext

LEMMA InvInit == LineageInit => LineageInv
BY DEF LineageInit, LineageInv, LineageType, HeldIsRead, ContributorsAreBearing, ClaimIsWeakest

\* What a session had read when it emitted a decision is decision-bearing in
\* the graph of canonical.py from then on.
THEOREM DecisionsRestOnBearingSources == LineageSpec => []ContributorsAreBearing
<1>1. LineageInv => ContributorsAreBearing  BY DEF LineageInv
<1>. QED  BY <1>1, InvInit, InvStep, PTL DEF LineageSpec

\* No export bundle of canonical.py claims a better implementation, or a live
\* validation, that one of the sources its decisions rest on does not have.
THEOREM ExportsClaimTheWeakest == LineageSpec => []ClaimIsWeakest
<1>1. LineageInv => ClaimIsWeakest  BY DEF LineageInv
<1>. QED  BY <1>1, InvInit, InvStep, PTL DEF LineageSpec

-----------------------------------------------------------------------------
\* A stopped script leaves an empty graph, of which everything holds.
LEMMA NoGraphKeepsLineage == NoGraph => LineageInv'
BY DEF NoGraph, LineageInv, LineageType, HeldIsRead, ContributorsAreBearing, Bearing, ClaimIsWeakest

ProgramFixed == program \in Programs

LEMMA ProgramStays == ProgramFixed /\ [Next]_vars => ProgramFixed'
BY DEF ProgramFixed, Next, vars, ChoosePath, Attest, ConfirmCore, ConfirmAdvanced, Continue,
   NextWalk, PrevWalk, SkipToResults, RestartWalk, RunEngine, PipelineStep, PipelineFails,
   PipelineExports, WriteComplete, WriteResult, WriteNarration, Rerun, RecordDisposition,
   CreateExport, Reset, ClearKey, RerunInReset

LEMMA StepsOfPrograms ==
  ASSUME ProgramFixed
  PROVE  /\ Len(program) \in Nat
         /\ \A i \in 1..Len(program) : program[i] \in StepOfPipeline
<1>1. program \in Seq(StepOfPipeline)
  BY ProgramsAssumption DEF ProgramFixed
<1>. QED  BY <1>1

\* What the session does to the graph: a call of the recorder, or all of it.
LEMMA SessionStepsTheGraph ==
  ASSUME ProgramFixed, [Next]_vars
  PROVE  [LineageNext]_lineageVars \/ NoGraph
<1>1. ASSUME PipelineStep  PROVE LineageNext
  <2>1. PICK step \in StepOfPipeline : step = program[running]
    BY <1>1, StepsOfPrograms DEF PipelineStep
  <2>2. Perform(step)
    BY <1>1, <2>1 DEF PipelineStep
  <2>3. CASE step.op = "session"
    BY <2>2, <2>3 DEF Perform, LineageNext
  <2>4. CASE step.op = "read"
    <3>1. Read(step.source, step.field) /\ step.source \in Sources /\ step.field \in Fields
      BY <2>2, <2>4 DEF Perform, StepOfPipeline
    <3>. QED  BY <3>1 DEF LineageNext
  <2>5. CASE step.op = "emit"
    <3>1. Emit(step.decision) /\ step.decision \in Decisions
      BY <2>2, <2>5 DEF Perform, StepOfPipeline
    <3>. QED  BY <3>1 DEF LineageNext
  <2>. QED  BY <2>3, <2>4, <2>5 DEF StepOfPipeline
<1>2. ASSUME PipelineExports  PROVE LineageNext
  BY <1>2, ProofsAssumption DEF PipelineExports, LineageNext
<1>3. ASSUME NextWalk \/ PrevWalk \/ SkipToResults \/ RunEngine \/ PipelineFails
               \/ WriteNarration \/ Rerun \/ RerunInReset
      PROVE  NoGraph
  BY <1>3 DEF NextWalk, PrevWalk, SkipToResults, RunEngine, PipelineFails, WriteNarration,
     Rerun, RerunInReset, Stopped
<1>4. ASSUME \/ \E p \in {"FICTIONAL_DEMO", "IMPORT", "CONNECT"} : ChoosePath(p)
             \/ Attest \/ (\E l \in Lanes : ConfirmCore(l)) \/ ConfirmAdvanced \/ Continue
             \/ RestartWalk \/ WriteComplete \/ WriteResult
             \/ (\E d \in Deals, k \in Kinds : RecordDisposition(d, k))
             \/ CreateExport \/ Reset \/ ClearKey \/ UNCHANGED vars
      PROVE  UNCHANGED lineageVars
  BY <1>4 DEF ChoosePath, Attest, ConfirmCore, ConfirmAdvanced, Continue, RestartWalk,
     WriteComplete, WriteResult, RecordDisposition, CreateExport, Reset, ClearKey, Idle, vars
<1>. QED  BY <1>1, <1>2, <1>3, <1>4 DEF Next

LEMMA SessionKeepsLineage == Spec => [](ProgramFixed /\ LineageInv)
<1>1. Init => ProgramFixed /\ LineageInv
  BY InvInit DEF Init, ProgramFixed
<1>2. ProgramFixed /\ LineageInv /\ [Next]_vars => ProgramFixed' /\ LineageInv'
  BY ProgramStays, SessionStepsTheGraph, InvStep, NoGraphKeepsLineage
<1>. QED  BY <1>1, <1>2, PTL DEF Spec

\* The same two claims of the graph a session builds, whose script a click may
\* stop after any call and start anew.
THEOREM SessionExportsStaySound == Spec => []ExportsAreSound
<1>1. LineageInv => ExportsAreSound  BY DEF LineageInv, ExportsAreSound
<1>. QED  BY <1>1, SessionKeepsLineage, PTL

-----------------------------------------------------------------------------
\* What the gates rely on besides what they promise.  A script only runs in the
\* walkthrough, so that a handler elsewhere finds no graph to leave behind, and
\* a reset stands at the beginning of its flow; the fictional path is left by a
\* reset only.
GatesInv ==
  /\ GatesHold
  /\ flow \in Nat
  /\ running > 0 => stage = "WALKTHROUGH"
  /\ clearing > 0 => stage = "LANDING" /\ flow > 0
  /\ path = "FICTIONAL_DEMO" =>
       stage \in {"WALKTHROUGH", "RESULTS"} /\ lane = "ASSIGNMENT_RECOMMENDATION"
  /\ stage = "SETUP" => attested
  /\ core => lane # None

\* And the keys: one is there, and of this flow, before a run goes on to the
\* next, and gone before a reset does; every result, of whichever flow, has the
\* lane of the fictional path.
KeysInv ==
  /\ NothingOutlivesReset
  /\ complete \subseteq Nat /\ narration \subseteq Nat
  /\ \A r \in result : r.made \in Nat /\ r.lane = "ASSIGNMENT_RECOMMENDATION"
  /\ running > Len(program) + 2 => complete = {flow}
  /\ running > Len(program) + 3 => result # {} /\ \A r \in result : r.made = flow
  /\ clearing \in {1, 2} => complete = {}
  /\ clearing = 1 => narration = {}

FlowInv == GatesInv /\ KeysInv

LEMMA FlowInit == Init => FlowInv
BY WalkAssumption DEF Init, Fresh, LineageInit, FlowInv, GatesInv, KeysInv, GatesHold, TypeOK,
   NothingOutlivesReset, None

LEMMA GatesStep == GatesInv /\ ProgramFixed /\ [Next]_vars => GatesInv'
<1>. SUFFICES ASSUME GatesInv, ProgramFixed, [Next]_vars  PROVE GatesInv'
  OBVIOUS
<1>0. Len(program) \in Nat /\ running \in Nat
  BY StepsOfPrograms DEF GatesInv, GatesHold, TypeOK
<1>. USE DEF GatesInv, GatesHold, TypeOK, None, Lanes, flowVars, resetVars, keys, lineageVars,
             Idle, Stopped, NoGraph
<1>1. ASSUME NEW p \in {"FICTIONAL_DEMO", "IMPORT", "CONNECT"}, ChoosePath(p)  PROVE GatesInv'
  BY <1>0, <1>1, WalkAssumption DEF ChoosePath
<1>2. ASSUME NEW l \in Lanes, ConfirmCore(l)  PROVE GatesInv'
  BY <1>0, <1>2 DEF ConfirmCore
<1>3. ASSUME NEW d \in Deals, NEW k \in Kinds, RecordDisposition(d, k)  PROVE GatesInv'
  BY <1>0, <1>3 DEF RecordDisposition
<1>4. CASE Continue
  BY <1>0, <1>4 DEF Continue, Following, SetupComplete
<1>5. CASE PipelineStep
  <2>1. PICK step \in StepOfPipeline : step = program[running] /\ Perform(step)
    BY <1>5, StepsOfPrograms DEF PipelineStep
  <2>2. UNCHANGED bundle
    BY <2>1 DEF StepOfPipeline, Perform, NewSession, Read, Emit
  <2>. QED  BY <1>0, <1>5, <2>2 DEF PipelineStep
<1>6. CASE Attest
  BY <1>0, <1>6 DEF Attest
<1>7. CASE ConfirmAdvanced
  BY <1>0, <1>7 DEF ConfirmAdvanced
<1>8. CASE NextWalk
  BY <1>0, <1>8, WalkAssumption DEF NextWalk, Walking
<1>9. CASE PrevWalk
  BY <1>0, <1>9, WalkAssumption DEF PrevWalk, Walking
<1>10. CASE SkipToResults
  BY <1>0, <1>10 DEF SkipToResults, Walking
<1>11. CASE RestartWalk
  BY <1>0, <1>11, WalkAssumption DEF RestartWalk
<1>12. CASE RunEngine
  BY <1>0, <1>12 DEF RunEngine
<1>13. CASE PipelineFails
  BY <1>0, <1>13 DEF PipelineFails
<1>14. CASE PipelineExports
  BY <1>0, <1>14 DEF PipelineExports, Export
<1>15. CASE WriteComplete \/ WriteResult \/ WriteNarration
  <2>1. CASE WriteComplete
    BY <1>0, <2>1 DEF WriteComplete
  <2>2. CASE WriteResult
    BY <1>0, <2>2 DEF WriteResult
  <2>3. CASE WriteNarration
    BY <1>0, <2>3 DEF WriteNarration
  <2>. QED  BY <1>15, <2>1, <2>2, <2>3
<1>16. CASE Rerun
  BY <1>0, <1>16 DEF Rerun
<1>17. CASE CreateExport
  BY <1>0, <1>17 DEF CreateExport
<1>18. CASE Reset
  BY <1>0, <1>18, WalkAssumption DEF Reset, Anew
<1>19. CASE ClearKey
  BY <1>0, <1>19 DEF ClearKey
<1>20. CASE RerunInReset
  BY <1>0, <1>20 DEF RerunInReset
<1>21. CASE UNCHANGED vars
  BY <1>0, <1>21 DEF vars
<1>. QED
  BY <1>1, <1>2, <1>3, <1>4, <1>5, <1>6, <1>7, <1>8, <1>9, <1>10, <1>11, <1>12, <1>13, <1>14,
     <1>15, <1>16, <1>17, <1>18, <1>19, <1>20, <1>21
  DEF Next

\* A handler that leaves the keys alone, and a click that stops a run.
LEMMA KeysRest ==
  ASSUME KeysInv, UNCHANGED <<resetVars, keys, program>>, running' <= Len(program) + 2,
         Len(program) \in Nat, running' \in Nat,
         \A x \in dispositions' : x \in dispositions \/ x.made = flow,
         exported' \subseteq exported \cup {flow},
         stage' = "WALKTHROUGH" => lane' = "ASSIGNMENT_RECOMMENDATION"
  PROVE  KeysInv'
<1>1. UNCHANGED <<flow, clearing, cut, complete, result, narration, program>>
  BY DEF resetVars, keys
<1>2. (\A x \in dispositions' : x.made = flow') /\ exported' \subseteq {flow'}
  BY <1>1 DEF KeysInv, NothingOutlivesReset
<1>3. \A m \in complete' \cup narration' \cup {r.made : r \in result'} : LeftFrom(m)'
  BY <1>1 DEF KeysInv, NothingOutlivesReset, LeftFrom
<1>4. \A r \in result' :
        /\ \A n \in narration' : n <= r.made
        /\ \A c \in complete' : r.made <= c
        /\ stage' = "WALKTHROUGH" => r.lane = lane'
  BY <1>1 DEF KeysInv, NothingOutlivesReset
<1>5. NothingOutlivesReset'
  BY <1>1, <1>2, <1>3, <1>4 DEF KeysInv, NothingOutlivesReset
<1>. QED  BY <1>1, <1>5 DEF KeysInv

\* What is left of the keys while a reset takes them away.
LEMMA KeysLeave ==
  ASSUME NothingOutlivesReset, UNCHANGED <<stage, lane, dispositions, exported, flow, cut>>,
         complete' \subseteq complete, narration' \subseteq narration, result' \subseteq result,
         narration' # {} => result' # {},
         clearing' > 0 \/ complete' \cup narration' \cup result' = {}
  PROVE  NothingOutlivesReset'
<1>1. ASSUME NEW m \in complete' \cup narration' \cup {r.made : r \in result'}
      PROVE  LeftFrom(m)'
  <2>1. clearing' > 0 /\ LeftFrom(m)
    BY <1>1 DEF NothingOutlivesReset
  <2>. QED  BY <2>1 DEF LeftFrom
<1>2. \A r \in result' :
        /\ \A n \in narration' : n <= r.made
        /\ \A c \in complete' : r.made <= c
        /\ stage' = "WALKTHROUGH" => r.lane = lane'
  BY DEF NothingOutlivesReset
<1>. QED  BY <1>1, <1>2 DEF NothingOutlivesReset

LEMMA KeysStep == FlowInv /\ GatesInv' /\ ProgramFixed /\ [Next]_vars => KeysInv'
<1>. SUFFICES ASSUME GatesInv, KeysInv, GatesInv', ProgramFixed, [Next]_vars  PROVE KeysInv'
  BY DEF FlowInv
<1>1. ProgramFixed'
  BY ProgramStays
<1>2. Len(program) \in Nat /\ Len(program') \in Nat
  BY <1>1, StepsOfPrograms DEF ProgramFixed
<1>3. /\ running \in Nat /\ running' \in Nat /\ flow \in Nat /\ clearing \in 0..3
      /\ stage' = "WALKTHROUGH" => lane' = "ASSIGNMENT_RECOMMENDATION"
      /\ running > 0 => lane = "ASSIGNMENT_RECOMMENDATION" /\ stage = "WALKTHROUGH"
      /\ clearing > 0 => running = 0 /\ stage = "LANDING" /\ flow > 0
  BY <1>2 DEF GatesInv, GatesHold, TypeOK
<1>4. ASSUME NEW p \in {"FICTIONAL_DEMO", "IMPORT", "CONNECT"}, ChoosePath(p)  PROVE KeysInv'
  BY <1>2, <1>3, <1>4, KeysRest DEF ChoosePath, Idle
<1>5. ASSUME NEW l \in Lanes, ConfirmCore(l)  PROVE KeysInv'
  BY <1>2, <1>3, <1>5, KeysRest DEF ConfirmCore, Idle
<1>6. ASSUME NEW d \in Deals, NEW k \in Kinds, RecordDisposition(d, k)  PROVE KeysInv'
  BY <1>2, <1>3, <1>6, KeysRest DEF RecordDisposition, Idle
<1>7. CASE Attest \/ ConfirmAdvanced \/ Continue \/ RestartWalk \/ CreateExport
  BY <1>2, <1>3, <1>7, KeysRest
  DEF Attest, ConfirmAdvanced, Continue, RestartWalk, CreateExport, Idle
<1>8. CASE NextWalk \/ PrevWalk \/ SkipToResults
  BY <1>2, <1>3, <1>8, KeysRest DEF NextWalk, PrevWalk, SkipToResults, Stopped
<1>9. CASE RunEngine \/ PipelineFails \/ Rerun
  BY <1>2, <1>3, <1>9, KeysRest DEF RunEngine, PipelineFails, Rerun, Stopped, flowVars
<1>10. CASE PipelineStep \/ PipelineExports
  BY <1>2, <1>3, <1>10, KeysRest DEF PipelineStep, PipelineExports, flowVars
<1>11. CASE WriteComplete
  BY <1>2, <1>3, <1>11 DEF WriteComplete,
       KeysInv, NothingOutlivesReset, LeftFrom, resetVars, keys, flowVars
<1>12. CASE WriteResult
  BY <1>2, <1>3, <1>12 DEF WriteResult,
       KeysInv, NothingOutlivesReset, LeftFrom, resetVars, keys, flowVars
<1>13. CASE WriteNarration
  BY <1>2, <1>3, <1>13 DEF WriteNarration, Stopped,
       KeysInv, NothingOutlivesReset, LeftFrom, resetVars, keys, flowVars
<1>14. CASE Reset
  <2>1. clearing = 0
    BY <1>3, <1>14 DEF Reset
  <2>. QED  BY <1>2, <1>3, <1>14, <2>1 DEF Reset, Anew, Idle,
       KeysInv, NothingOutlivesReset, LeftFrom, resetVars, keys, flowVars
<1>15. CASE ClearKey
  <2>1. UNCHANGED <<stage, lane, dispositions, exported, flow, cut>> /\ running' = 0
    BY <1>15 DEF ClearKey, Idle, flowVars
  <2>2. /\ clearing \in 1..3 /\ clearing' = clearing - 1
        /\ complete' = (IF clearing = 3 THEN {} ELSE complete)
        /\ narration' = (IF clearing = 2 THEN {} ELSE narration)
        /\ result' = (IF clearing = 1 THEN {} ELSE result)
    BY <1>3, <1>15 DEF ClearKey
  <2>3. /\ clearing \in {1, 2} => complete = {}
        /\ clearing = 1 => narration = {}
        /\ narration # {} => result # {}
        /\ NothingOutlivesReset
    BY DEF KeysInv, NothingOutlivesReset
  <2>4. clearing' > 0 \/ complete' \cup narration' \cup result' = {}
    BY <2>2, <2>3
  <2>5. narration' # {} => result' # {}
    BY <2>2, <2>3
  <2>6. complete' \subseteq complete /\ narration' \subseteq narration /\ result' \subseteq result
    BY <2>2
  <2>7. NothingOutlivesReset'
    BY <2>1, <2>3, <2>4, <2>5, <2>6, KeysLeave
  <2>8. /\ clearing' \in {1, 2} => complete' = {}
        /\ clearing' = 1 => narration' = {}
    BY <2>2, <2>3
  <2>9. /\ complete' \subseteq Nat /\ narration' \subseteq Nat
        /\ \A r \in result' : r.made \in Nat /\ r.lane = "ASSIGNMENT_RECOMMENDATION"
    BY <2>6 DEF KeysInv
  <2>. QED  BY <1>2, <2>1, <2>7, <2>8, <2>9 DEF KeysInv
<1>16. CASE RerunInReset
  BY <1>2, <1>3, <1>16 DEF RerunInReset, Stopped,
       KeysInv, NothingOutlivesReset, LeftFrom, resetVars, keys, flowVars
<1>17. CASE UNCHANGED vars
  BY <1>17 DEF vars,
       KeysInv, NothingOutlivesReset, LeftFrom, resetVars, keys, flowVars
<1>. QED
  BY <1>4, <1>5, <1>6, <1>7, <1>8, <1>9, <1>10, <1>11, <1>12, <1>13, <1>14, <1>15, <1>16, <1>17
  DEF Next

LEMMA FlowStep == FlowInv /\ ProgramFixed /\ [Next]_vars => FlowInv'
BY GatesStep, KeysStep DEF FlowInv

\* The gates of the flow are passed one after the other, and what the session
\* keeps was made in the flow under way, wherever a click stops the script that
\* writes it or the reset that takes it away; what a stopped reset leaves is
\* that of the flow it closed.
THEOREM FlowStaysKept == Spec => []FlowIsKept
<1>1. Init => ProgramFixed  BY DEF Init, ProgramFixed
<1>2. FlowInv => FlowIsKept  BY DEF FlowInv, GatesInv, KeysInv, FlowIsKept
<1>. QED  BY <1>1, <1>2, FlowInit, FlowStep, ProgramStays, PTL DEF Spec

=============================================================================
