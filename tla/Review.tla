------------------------------- MODULE Review -------------------------------
(***************************************************************************)
(* One session of the review interface: ui/state.py and the handlers of    *)
(* ui/views, with the run of the pipeline that ui/views/engine_run.py      *)
(* streams into the page.                                                  *)
(*                                                                         *)
(* A click makes the framework run the page again.  If the page was still  *)
(* streaming, that script is stopped where it is, which may be at any      *)
(* output or access to the session state: the three keys of a finished run *)
(* are written one by one, and taken away one by one by the reset, and a   *)
(* stop can fall between any two of them.                                  *)
(***************************************************************************)
EXTENDS Lineage, Sequences

CONSTANTS
  Deals,        \* deals a disposition may be recorded for
  Kinds,        \* DISPOSITION_KINDS
  Programs,     \* what the pipeline reads and emits, in order
  ProofSets,    \* proofs its sources may have
  WalkSteps,    \* number of steps of the walkthrough
  MaxResets     \* bound

ASSUME WalkAssumption == WalkSteps \in Nat \ {0}
ASSUME ResetsAssumption == MaxResets \in Nat

\* session, read and emit of DecisionComputation: a pipeline is a sequence of
\* such calls, in any order, with any of the names
StepOfPipeline ==
  [op : {"session"}] \cup [op : {"read"}, source : Sources, field : Fields]
    \cup [op : {"emit"}, decision : Decisions]

ASSUME ProgramsAssumption == Programs \subseteq Seq(StepOfPipeline)
ASSUME ProofsAssumption == ProofSets \subseteq [Manifested -> Proof]

VARIABLES
  stage, path, lane,
  attested, core, advanced,    \* authority_attested and the two confirmations
  dispositions,                \* set of [deal, kind, made]
  exported,                    \* {} or {the flow it was made in}
  walk,                        \* walk_index
  flow,                        \* history: how often the flow was reset
  clearing,                    \* how many keys the reset under way has still to take away
  cut,                         \* history: the flows whose reset was stopped before its end
  program,                     \* the pipeline of this build: fixed per session
  running,                     \* steps the streamed run has behind it, 0 when none is under way
  complete, result, narration  \* engine_run_* of the session state

flowVars == <<stage, path, lane, attested, core, advanced, dispositions, exported, walk>>
resetVars == <<flow, clearing, cut>>
keys == <<complete, result, narration>>
vars == <<flowVars, resetVars, program, running, keys, lineageVars>>

None == "NONE"
Lanes == {"DEAL_PRIORITIZATION", "ASSIGNMENT_RECOMMENDATION", "CAPACITY_HEATMAP"}

NoGraph ==
  /\ reads' = {} /\ supports' = {} /\ roots' = {} /\ consumed' = {}
  /\ held' = {} /\ contributors' = {} /\ bundle' = {}

\* nothing of a stopped script is left but what it wrote to the session
Stopped == running' = 0 /\ NoGraph

Idle == running' = 0 /\ UNCHANGED lineageVars

Fresh ==
  /\ stage = "LANDING" /\ path = None /\ lane = None
  /\ attested = FALSE /\ core = FALSE /\ advanced = FALSE
  /\ dispositions = {} /\ exported = {} /\ walk = 0

Anew ==
  /\ stage' = "LANDING" /\ path' = None /\ lane' = None
  /\ attested' = FALSE /\ core' = FALSE /\ advanced' = FALSE
  /\ dispositions' = {} /\ exported' = {} /\ walk' = 0

Init ==
  /\ Fresh /\ flow = 0 /\ clearing = 0 /\ cut = {}
  /\ program \in Programs /\ running = 0
  /\ complete = {} /\ result = {} /\ narration = {}
  /\ LineageInit

-----------------------------------------------------------------------------
\* the landing page is drawn by the script after the one that resets
ChoosePath(p) ==
  /\ stage = "LANDING" /\ clearing = 0
  /\ path' = p
  /\ IF p = "FICTIONAL_DEMO"
     THEN lane' = "ASSIGNMENT_RECOMMENDATION" /\ walk' = 0 /\ stage' = "WALKTHROUGH"
     ELSE stage' = "AUTHORITY" /\ UNCHANGED <<lane, walk>>
  /\ Idle
  /\ UNCHANGED <<attested, core, advanced, dispositions, exported, resetVars, program, keys>>

\* the button is disabled until the attestation is checked
Attest ==
  /\ stage = "AUTHORITY"
  /\ attested' = TRUE /\ stage' = "SETUP"
  /\ Idle
  /\ UNCHANGED <<path, lane, core, advanced, dispositions, exported, walk, resetVars, program, keys>>

ConfirmCore(l) ==
  /\ stage = "SETUP"
  /\ lane' = l /\ core' = TRUE
  /\ Idle
  /\ UNCHANGED <<stage, path, attested, advanced, dispositions, exported, walk, resetVars, program, keys>>

ConfirmAdvanced ==
  /\ stage = "SETUP"
  /\ advanced' = TRUE
  /\ Idle
  /\ UNCHANGED <<stage, path, lane, attested, core, dispositions, exported, walk, resetVars, program, keys>>

SetupComplete == core /\ advanced

\* advance_to_mapping and the Continue buttons that follow it
Following == [SETUP |-> "MAPPING", MAPPING |-> "HEALTH", HEALTH |-> "EVIDENCE", EVIDENCE |-> "RESULTS"]

Continue ==
  /\ stage \in DOMAIN Following
  /\ stage = "SETUP" => SetupComplete
  /\ stage' = Following[stage]
  /\ Idle
  /\ UNCHANGED <<path, lane, attested, core, advanced, dispositions, exported, walk, resetVars, program, keys>>

-----------------------------------------------------------------------------
\* A page whose run says complete and has no narration fails before it draws
\* anything below the run button.
PageFails == complete # {} /\ narration = {}

Walking == stage = "WALKTHROUGH" /\ ~PageFails

NextWalk ==
  /\ Walking
  /\ IF walk < WalkSteps - 1 THEN walk' = walk + 1 /\ stage' = stage
                             ELSE stage' = "RESULTS" /\ walk' = walk
  /\ Stopped
  /\ UNCHANGED <<path, lane, attested, core, advanced, dispositions, exported, resetVars, program, keys>>

PrevWalk ==
  /\ Walking /\ walk > 0
  /\ walk' = walk - 1
  /\ Stopped
  /\ UNCHANGED <<stage, path, lane, attested, core, advanced, dispositions, exported, resetVars, program, keys>>

SkipToResults ==
  /\ Walking
  /\ stage' = "RESULTS"
  /\ Stopped
  /\ UNCHANGED <<path, lane, attested, core, advanced, dispositions, exported, walk, resetVars, program, keys>>

RestartWalk ==
  /\ stage = "RESULTS" /\ path = "FICTIONAL_DEMO"
  /\ walk' = 0 /\ stage' = "WALKTHROUGH"
  /\ Idle
  /\ UNCHANGED <<path, lane, attested, core, advanced, dispositions, exported, resetVars, program, keys>>

-----------------------------------------------------------------------------
(***************************************************************************)
(* render_engine_run and _streamed_run.                                    *)
(***************************************************************************)
RunEngine ==
  /\ stage = "WALKTHROUGH"
  /\ running' = 1 /\ NoGraph
  /\ UNCHANGED <<flowVars, resetVars, program, keys>>

Perform(step) ==
  CASE step.op = "session" -> NewSession
    [] step.op = "read"    -> Read(step.source, step.field)
    [] step.op = "emit"    -> Emit(step.decision)

Refused(step) ==
  \/ step.op = "read" /\ step.source \notin Manifested
  \/ step.op = "emit" /\ consumed = {}

PipelineStep ==
  /\ running \in 1..Len(program)
  /\ running' = running + 1
  /\ Perform(program[running])
  /\ UNCHANGED <<flowVars, resetVars, program, keys>>

\* the exception ends the script
PipelineFails ==
  /\ running \in 1..Len(program)
  /\ Refused(program[running])
  /\ Stopped
  /\ UNCHANGED <<flowVars, resetVars, program, keys>>

PipelineExports ==
  /\ running = Len(program) + 1
  /\ running' = running + 1
  /\ \E proofs \in ProofSets : Export(proofs)
  /\ UNCHANGED <<flowVars, resetVars, program, keys>>

WriteComplete ==
  /\ running = Len(program) + 2
  /\ running' = running + 1
  /\ complete' = {flow}
  /\ UNCHANGED <<flowVars, resetVars, program, result, narration, lineageVars>>

WriteResult ==
  /\ running = Len(program) + 3
  /\ running' = running + 1
  /\ result' = {[made |-> flow, lane |-> lane]}
  /\ UNCHANGED <<flowVars, resetVars, program, complete, narration, lineageVars>>

WriteNarration ==
  /\ running = Len(program) + 4
  /\ Stopped
  /\ narration' = {flow}
  /\ UNCHANGED <<flowVars, resetVars, program, complete, result>>

\* A click that only stops the script: that of a widget whose handler the new
\* script does not reach, or the Rerun of the framework's own menu.
Rerun ==
  /\ running > 0
  /\ Stopped
  /\ UNCHANGED <<flowVars, resetVars, program, keys>>

\* The same click while the reset is under way: the flow is at its beginning,
\* and the new script draws the landing page.
RerunInReset ==
  /\ clearing > 0
  /\ clearing' = 0 /\ cut' = cut \cup {flow - 1}
  /\ Stopped
  /\ UNCHANGED <<flowVars, flow, program, keys>>

-----------------------------------------------------------------------------
RecordDisposition(d, k) ==
  /\ stage = "RESULTS"
  /\ dispositions' = {x \in dispositions : x.deal # d} \cup {[deal |-> d, kind |-> k, made |-> flow]}
  /\ Idle
  /\ UNCHANGED <<stage, path, lane, attested, core, advanced, exported, walk, resetVars, program, keys>>

CreateExport ==
  /\ stage = "RESULTS"
  /\ exported' = {flow}
  /\ Idle
  /\ UNCHANGED <<stage, path, lane, attested, core, advanced, dispositions, walk, resetVars, program, keys>>

ResetFlowOnly ==   \* mutant: the keys of the run are not purged
  /\ stage = "RESULTS" /\ flow < MaxResets
  /\ Anew /\ flow' = flow + 1
  /\ Idle
  /\ UNCHANGED <<clearing, cut, program, keys>>

\* flow.reset(), and then clear_engine_run_state
Reset ==
  /\ stage = "RESULTS" /\ flow < MaxResets
  /\ Anew /\ flow' = flow + 1 /\ clearing' = 3
  /\ Idle
  /\ UNCHANGED <<cut, program, keys>>

\* st.session_state.pop of the next key, in the order of _ENGINE_SESSION_KEYS
ClearKey ==
  /\ clearing > 0 /\ clearing' = clearing - 1
  /\ complete' = IF clearing = 3 THEN {} ELSE complete
  /\ narration' = IF clearing = 2 THEN {} ELSE narration
  /\ result' = IF clearing = 1 THEN {} ELSE result
  /\ Idle
  /\ UNCHANGED <<flowVars, flow, cut, program>>

Next ==
  \/ \E p \in {"FICTIONAL_DEMO", "IMPORT", "CONNECT"} : ChoosePath(p)
  \/ Attest
  \/ \E l \in Lanes : ConfirmCore(l)
  \/ ConfirmAdvanced
  \/ Continue
  \/ NextWalk \/ PrevWalk \/ SkipToResults \/ RestartWalk
  \/ RunEngine \/ PipelineStep \/ PipelineFails \/ PipelineExports
  \/ WriteComplete \/ WriteResult \/ WriteNarration \/ Rerun
  \/ \E d \in Deals, k \in Kinds : RecordDisposition(d, k)
  \/ CreateExport
  \/ Reset \/ ClearKey \/ RerunInReset

Spec == Init /\ [][Next]_vars

-----------------------------------------------------------------------------
TypeOK ==
  /\ stage \in {"LANDING", "AUTHORITY", "SETUP", "MAPPING", "HEALTH", "EVIDENCE",
                "WALKTHROUGH", "RESULTS"}
  /\ lane \in Lanes \cup {None}
  /\ walk \in 0..(WalkSteps - 1)
  /\ running \in 0..(Len(program) + 4)
  /\ clearing \in 0..3 /\ cut \subseteq 0..(flow - 1)
  /\ bundle # {} => running > Len(program) + 1

\* No page past the setup is shown before someone attested the authority and
\* confirmed both groups of values for a lane; the fictional path alone is
\* exempt, and it alone has the walkthrough with its run.
GatesHold ==
  /\ TypeOK
  /\ stage \in {"MAPPING", "HEALTH", "EVIDENCE", "RESULTS"} /\ path # "FICTIONAL_DEMO" =>
       attested /\ core /\ advanced /\ lane # None
  /\ stage = "WALKTHROUGH" \/ running > 0 =>
       path = "FICTIONAL_DEMO" /\ lane = "ASSIGNMENT_RECOMMENDATION"

\* A key made in flow m is there later only if every reset since was stopped
\* before its end, but for the one that is under way.
LeftFrom(m) ==
  /\ m <= flow
  /\ \A f \in m..(flow - 1) : f \in cut \/ (f = flow - 1 /\ clearing > 0)

\* What the session keeps was made in the flow under way: no disposition and no
\* export survives a reset, and no key of a finished run survives one that a
\* click did not stop.  Whatever was stopped, in a run or in a reset, a
\* narration is not shown without a result, nor is it of a later flow than the
\* result, or the result than the mark that says complete; and what the
\* walkthrough studies is a result of its lane.
NothingOutlivesReset ==
  /\ \A x \in dispositions : x.made = flow
  /\ exported \subseteq {flow}
  /\ \A m \in complete \cup narration \cup {r.made : r \in result} : LeftFrom(m)
  /\ narration # {} => result # {}
  /\ \A r \in result :
       /\ \A n \in narration : n <= r.made
       /\ \A c \in complete : r.made <= c
       /\ stage = "WALKTHROUGH" => r.lane = lane

\* The flow a manager goes through is kept: its gates on the way, its results
\* to itself.
FlowIsKept == GatesHold /\ NothingOutlivesReset

=============================================================================
