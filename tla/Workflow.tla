------------------------------ MODULE Workflow ------------------------------
(***************************************************************************)
(* The run ledger of orchestrator/workflow.py together with the calls of   *)
(* orchestrator/store.py that open a run, commit artifacts and purge a     *)
(* run.  A variable is a SQLite table; an action is a method whose SQL     *)
(* transaction committed.  A crash inside a method is a rollback, that is  *)
(* no step here (StoreConnections takes the transactions apart).           *)
(*                                                                         *)
(* SHA-256 is an ideal hash: the digest of an event is the sequence of the *)
(* contents from the first event to this one, so two digests are equal     *)
(* exactly when the contents and the whole prior chains are.               *)
(***************************************************************************)
EXTENDS WorkflowGraph, Naturals, Sequences, FiniteSets

CONSTANTS
  RunIds,          \* run_id values the callers use
  SourceRunIds,    \* source_run_id values
  Manifests,       \* source_manifest_id values
  Artifacts,       \* digests of canonical artifacts and receipts
  None,            \* SQL NULL, and the owner of an artifact not committed
  RunLanes,        \* lanes the callers open runs in
  ImportRuns,      \* runs that Phase1Store.create_run may open
  MaxEvents,       \* bound: events of one run
  MaxSourceEvents  \* bound: source events of one run

ASSUME NoneAssumption ==
  /\ None \notin RunIds /\ None \notin SourceRunIds
  /\ None \notin Manifests /\ None \notin Artifacts
ASSUME LanesAssumption == RunLanes \subseteq Lanes
ASSUME ImportRunsAssumption == ImportRuns \subseteq RunIds
ASSUME BoundsAssumption == MaxEvents \in Nat /\ MaxSourceEvents \in Nat

VARIABLES
  runs,        \* table runs: lane and state of each run
  events,      \* table events, by run, in order of sequence_number
  sourceRuns,  \* table source_runs
  manifests,   \* table source_manifests: the run each manifest is bound to
  artifacts    \* the five artifact tables: the run that committed a digest

vars == <<runs, events, sourceRuns, manifests, artifacts>>

NoRun == [lane |-> "NONE", state |-> "NONE"]
NoSourceRun == [run |-> None, state |-> "NONE", completeness |-> "NONE"]

RunRow == [lane : Lanes, state : States]
SourceRunRow ==
  [run : RunIds, state : SourceStates,
   completeness : {"COMPLETE", "BOUNDED_PARTIAL", "UNKNOWN"}]

Content ==
  [run : RunIds, sequence : Nat, prior_state : States, new_state : States,
   source_run : SourceRunIds \cup {None}, artifact : Artifacts \cup {None}]

Digest == Seq(Content)

Event == [content : Content, prior_event : Digest, event : Digest]

Sha256(prior, content) == Append(prior, content)

Exists(r) == runs[r] # NoRun

TopLevel(e) == e.content.source_run = None

SourceEvents(r) == {i \in DOMAIN events[r] : ~TopLevel(events[r][i])}

TypeOK ==
  /\ runs \in [RunIds -> RunRow \cup {NoRun}]
  /\ events \in [RunIds -> Seq(Event)]
  /\ sourceRuns \in [SourceRunIds -> SourceRunRow \cup {NoSourceRun}]
  /\ manifests \in [Manifests -> RunIds \cup {None}]
  /\ artifacts \in [Artifacts -> RunIds \cup {None}]

Init ==
  /\ runs = [r \in RunIds |-> NoRun]
  /\ events = [r \in RunIds |-> <<>>]
  /\ sourceRuns = [s \in SourceRunIds |-> NoSourceRun]
  /\ manifests = [m \in Manifests |-> None]
  /\ artifacts = [a \in Artifacts |-> None]

-----------------------------------------------------------------------------
(***************************************************************************)
(* _artifact_exists: a digest is looked up in every artifact table, under  *)
(* whichever run committed it.                                             *)
(***************************************************************************)
ArtifactExists(a) == artifacts[a] # None

(***************************************************************************)
(* The digest the next event of r chains to: NULL before the first one.    *)
(***************************************************************************)
LatestDigest(es) == IF es = <<>> THEN <<>> ELSE es[Len(es)].event

NextEventFromZero(r, prior, new, sr, a) ==   \* mutant: numbered from zero
  LET content == [run |-> r, sequence |-> Len(events[r]),
                  prior_state |-> prior, new_state |-> new,
                  source_run |-> sr, artifact |-> a]
      link == LatestDigest(events[r])
  IN [content |-> content, prior_event |-> link, event |-> Sha256(link, content)]

NextEvent(r, prior, new, sr, a) ==
  LET content == [run |-> r, sequence |-> Len(events[r]) + 1,
                  prior_state |-> prior, new_state |-> new,
                  source_run |-> sr, artifact |-> a]
      link == LatestDigest(events[r])
  IN [content |-> content, prior_event |-> link, event |-> Sha256(link, content)]

(***************************************************************************)
(* _append_event, called inside the transaction of its caller.             *)
(***************************************************************************)
AppendEvent(r, prior, new, sr, a) ==
  /\ Len(events[r]) < MaxEvents
  /\ events' = [events EXCEPT ![r] = Append(@, NextEvent(r, prior, new, sr, a))]

(***************************************************************************)
(* WorkflowStore.create_run: a run starts in NEW with no event.            *)
(***************************************************************************)
CreateRun(r, lane) ==
  /\ ~Exists(r)
  /\ runs' = [runs EXCEPT ![r] = [lane |-> lane, state |-> "NEW"]]
  /\ UNCHANGED <<events, sourceRuns, manifests, artifacts>>

(***************************************************************************)
(* Phase1Store.create_run: the import path opens a run one state later,    *)
(* and records no event for it.                                            *)
(***************************************************************************)
CreateImportRun(r, lane) ==
  /\ r \in ImportRuns
  /\ ~Exists(r)
  /\ runs' = [runs EXCEPT ![r] = [lane |-> lane, state |-> "AUTHORITY_ATTESTED"]]
  /\ UNCHANGED <<events, sourceRuns, manifests, artifacts>>

(***************************************************************************)
(* Phase1Store.persist_manifest, bound to a run by a foreign key.          *)
(***************************************************************************)
PersistManifest(m, r) ==
  /\ manifests[m] = None
  /\ Exists(r)
  /\ manifests' = [manifests EXCEPT ![m] = r]
  /\ UNCHANGED <<runs, events, sourceRuns, artifacts>>

(***************************************************************************)
(* commit_operational, persist_domain_receipt and persist_solver_receipt:  *)
(* one transaction inserts a set of digests under one run.  The digests of *)
(* canonical artifacts are primary keys across runs.                       *)
(***************************************************************************)
CommitArtifacts(r, A) ==
  /\ Exists(r)
  /\ A # {}
  /\ \A a \in A : ~ArtifactExists(a)
  /\ artifacts' = [a \in Artifacts |-> IF a \in A THEN r ELSE artifacts[a]]
  /\ UNCHANGED <<runs, events, sourceRuns, manifests>>

TransitionUnchecked(r, new, a) ==   \* mutant: no graph is consulted
  /\ Exists(r)
  /\ a # None => ArtifactExists(a)
  /\ AppendEvent(r, runs[r].state, new, None, a)
  /\ runs' = [runs EXCEPT ![r].state = new]
  /\ UNCHANGED <<sourceRuns, manifests, artifacts>>

(***************************************************************************)
(* transition: the lane's graph must allow the edge, a cited artifact must *)
(* be committed, and the event and the new state commit together.          *)
(***************************************************************************)
Transition(r, new, a) ==
  /\ Exists(r)
  /\ <<runs[r].state, new>> \in AllowedTransitions(runs[r].lane)
  /\ a # None => ArtifactExists(a)
  /\ AppendEvent(r, runs[r].state, new, None, a)
  /\ runs' = [runs EXCEPT ![r].state = new]
  /\ UNCHANGED <<sourceRuns, manifests, artifacts>>

(***************************************************************************)
(* An event about a source read repeats the run's state on both sides.     *)
(***************************************************************************)
AppendSourceEvent(r, sr) ==
  /\ Cardinality(SourceEvents(r)) < MaxSourceEvents
  /\ AppendEvent(r, runs[r].state, runs[r].state, sr, None)

StartSourceRun(sr, m) ==
  /\ sourceRuns[sr] = NoSourceRun
  /\ manifests[m] # None
  /\ AppendSourceEvent(manifests[m], sr)
  /\ sourceRuns' = [sourceRuns EXCEPT ![sr] =
       [run |-> manifests[m], state |-> "PENDING", completeness |-> "UNKNOWN"]]
  /\ UNCHANGED <<runs, manifests, artifacts>>

TransitionSource(sr, new) ==
  /\ sourceRuns[sr] # NoSourceRun
  /\ <<sourceRuns[sr].state, new>> \in SourceTransitions
  /\ AppendSourceEvent(sourceRuns[sr].run, sr)
  /\ sourceRuns' = [sourceRuns EXCEPT ![sr] =
       [run |-> @.run, state |-> new, completeness |-> CompletenessOf(new)]]
  /\ UNCHANGED <<runs, manifests, artifacts>>

ResetKeepsEvents(r) ==   \* mutant: a child table is forgotten
  /\ Exists(r)
  /\ runs' = [runs EXCEPT ![r] = NoRun]
  /\ sourceRuns' = [s \in SourceRunIds |->
       IF sourceRuns[s].run = r THEN NoSourceRun ELSE sourceRuns[s]]
  /\ manifests' = [m \in Manifests |-> IF manifests[m] = r THEN None ELSE manifests[m]]
  /\ artifacts' = [a \in Artifacts |-> IF artifacts[a] = r THEN None ELSE artifacts[a]]
  /\ UNCHANGED events

ResetKeepsSourceRuns(r) ==   \* mutant: another child table is forgotten
  /\ Exists(r)
  /\ runs' = [runs EXCEPT ![r] = NoRun]
  /\ events' = [events EXCEPT ![r] = <<>>]
  /\ manifests' = [m \in Manifests |-> IF manifests[m] = r THEN None ELSE manifests[m]]
  /\ artifacts' = [a \in Artifacts |-> IF artifacts[a] = r THEN None ELSE artifacts[a]]
  /\ UNCHANGED sourceRuns

ResetPurgesAllArtifacts(r) ==   \* mutant: DELETE without its WHERE
  /\ Exists(r)
  /\ runs' = [runs EXCEPT ![r] = NoRun]
  /\ events' = [events EXCEPT ![r] = <<>>]
  /\ sourceRuns' = [s \in SourceRunIds |->
       IF sourceRuns[s].run = r THEN NoSourceRun ELSE sourceRuns[s]]
  /\ manifests' = [m \in Manifests |-> IF manifests[m] = r THEN None ELSE manifests[m]]
  /\ artifacts' = [a \in Artifacts |-> None]

(***************************************************************************)
(* reset_run: one transaction deletes every row that carries the run's id. *)
(***************************************************************************)
ResetRun(r) ==
  /\ Exists(r)
  /\ runs' = [runs EXCEPT ![r] = NoRun]
  /\ events' = [events EXCEPT ![r] = <<>>]
  /\ sourceRuns' = [s \in SourceRunIds |->
       IF sourceRuns[s].run = r THEN NoSourceRun ELSE sourceRuns[s]]
  /\ manifests' = [m \in Manifests |-> IF manifests[m] = r THEN None ELSE manifests[m]]
  /\ artifacts' = [a \in Artifacts |-> IF artifacts[a] = r THEN None ELSE artifacts[a]]

Next ==
  \/ \E r \in RunIds :
       \/ \E lane \in RunLanes : CreateRun(r, lane) \/ CreateImportRun(r, lane)
       \/ \E m \in Manifests : PersistManifest(m, r)
       \/ \E A \in SUBSET Artifacts : CommitArtifacts(r, A)
       \/ \E new \in States, a \in Artifacts \cup {None} : Transition(r, new, a)
       \/ ResetRun(r)
  \/ \E sr \in SourceRunIds :
       \/ \E m \in Manifests : StartSourceRun(sr, m)
       \/ \E new \in SourceStates : TransitionSource(sr, new)

Spec == Init /\ [][Next]_vars

-----------------------------------------------------------------------------
(***************************************************************************)
(* resume_run, the check a restarted process makes before it goes on.  It  *)
(* walks the events of the run and then compares the run's row with the    *)
(* state they lead to.                                                     *)
(***************************************************************************)
LinkIntact(r, es, i) ==
  /\ es[i].content.sequence = i
  /\ es[i].prior_event = IF i = 1 THEN <<>> ELSE es[i - 1].event
  /\ es[i].content.run = r
  /\ es[i].event = Sha256(es[i].prior_event, es[i].content)

ChainIntact(r, es) == \A i \in 1..Len(es) : LinkIntact(r, es, i)

Cites(es) == {es[i].content.artifact : i \in 1..Len(es)} \ {None}

TopLevelIndices(es) == {i \in 1..Len(es) : TopLevel(es[i])}

LastTopLevel(es) ==
  CHOOSE i \in TopLevelIndices(es) : \A j \in TopLevelIndices(es) : j <= i

HighWaterNotSeeded(es) ==   \* mutant: no state is taken from source events
  IF TopLevelIndices(es) # {} THEN es[LastTopLevel(es)].content.new_state ELSE "NEW"

(***************************************************************************)
(* Events about sources do not advance the run: the last top-level event   *)
(* counts; when there is none, the state the source events were made in.   *)
(***************************************************************************)
HighWater(es) ==
  IF TopLevelIndices(es) # {} THEN es[LastTopLevel(es)].content.new_state
  ELSE IF es # <<>> THEN es[Len(es)].content.prior_state
  ELSE "NEW"

ResumeAccepts(r) ==
  /\ Exists(r)
  /\ ChainIntact(r, events[r])
  /\ \A a \in Cites(events[r]) : ArtifactExists(a)
  /\ runs[r].state = HighWater(events[r])

-----------------------------------------------------------------------------
(***************************************************************************)
(* However the calls of two drivers interleave, the events of a run form   *)
(* an unbroken hash chain (what resume_run recomputes event by event).     *)
(***************************************************************************)
ChainsAreIntact == \A r \in RunIds : ChainIntact(r, events[r])

(***************************************************************************)
(* The chain spells a legal walk: it starts where a run can be opened,     *)
(* each event starts where the one before it ended, a top-level event is   *)
(* an edge of the run's lane and a source event does not move.  resume_run *)
(* does not recheck this; it relies on it.                                 *)
(***************************************************************************)
StepIsLegal(lane, e) ==
  IF TopLevel(e)
  THEN <<e.content.prior_state, e.content.new_state>> \in AllowedTransitions(lane)
  ELSE e.content.prior_state = e.content.new_state

WalkIsLegal(lane, es) ==
  \A i \in 1..Len(es) :
    /\ StepIsLegal(lane, es[i])
    /\ IF i = 1 THEN es[i].content.prior_state \in {"NEW", "AUTHORITY_ATTESTED"}
       ELSE es[i].content.prior_state = es[i - 1].content.new_state

WalksAreLegal ==
  \A r \in RunIds : IF Exists(r) THEN WalkIsLegal(runs[r].lane, events[r])
                    ELSE events[r] = <<>>

(***************************************************************************)
(* Rows and events about a source read agree: a source read belongs to a   *)
(* run that exists and was announced in that run's chain, and the chain    *)
(* names no source read the run does not have.                             *)
(***************************************************************************)
Announced(r) ==
  {events[r][i].content.source_run : i \in 1..Len(events[r])} \ {None}

SourceReadsAreAnnounced ==
  /\ \A s \in SourceRunIds :
       sourceRuns[s] # NoSourceRun => Exists(sourceRuns[s].run)
  /\ \A r \in RunIds : Announced(r) = {s \in SourceRunIds : sourceRuns[s].run = r}

(***************************************************************************)
(* resume_run refuses a run in two situations only: an artifact the run    *)
(* cites was purged with another run, or the import path opened the run    *)
(* and nothing has been recorded for it yet.  Everything else the drivers  *)
(* can do leaves a run a restarted process can pick up.                    *)
(***************************************************************************)
CitationPurged(r) == \E a \in Cites(events[r]) : ~ArtifactExists(a)

OpenedWithoutEvent(r) == events[r] = <<>> /\ runs[r].state # "NEW"

ResumeRefusals ==
  \A r \in RunIds :
    Exists(r) /\ ~ResumeAccepts(r) => CitationPurged(r) \/ OpenedWithoutEvent(r)

(***************************************************************************)
(* The ledger is additive: a step keeps every run it does not purge, and   *)
(* with it the run's lane, its events, its artifacts and its source reads. *)
(***************************************************************************)
Extends(es, ft) == Len(es) <= Len(ft) /\ \A i \in 1..Len(es) : ft[i] = es[i]

KeepsRun(r) ==
  /\ runs'[r].lane = runs[r].lane
  /\ Extends(events[r], events'[r])
  /\ \A a \in Artifacts : artifacts[a] = r => artifacts'[a] = r
  /\ \A s \in SourceRunIds : sourceRuns[s].run = r => sourceRuns'[s].run = r

LedgerIsAdditive ==
  [][\A r \in RunIds : Exists(r) /\ Exists(r)' => KeepsRun(r)]_vars

-----------------------------------------------------------------------------
(***************************************************************************)
(* What a restarted process reads off the ledger: the lane in the run's    *)
(* row and, once something is recorded, the high-water of its events.      *)
(***************************************************************************)
Position ==
  [r \in RunIds |->
     IF ~Exists(r) THEN [lane |-> "NONE", at |-> "NONE"]
     ELSE [lane |-> runs[r].lane,
           at |-> IF events[r] = <<>> THEN runs[r].state ELSE HighWater(events[r])]]

Ledger == INSTANCE LaneLedger WITH position <- Position

(***************************************************************************)
(* The ledger implements LaneLedger: seen through the events alone, a run  *)
(* opens in NEW or AUTHORITY_ATTESTED, moves along edges of its lane and   *)
(* disappears only by a reset; events about source reads, commits and      *)
(* other runs do not move it, although the high-water is recomputed from a *)
(* chain they are part of.                                                 *)
(***************************************************************************)
ImplementsLaneLedger == Ledger!Spec

=============================================================================
