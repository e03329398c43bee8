# Verification of the presales deal and capacity orchestrator

The repository holds a library of agent prompts (`src/agents`, markdown), its documentation
(`src/docs`) and one program, the *presales deal and capacity orchestrator* under
`src/gtm-tools/presales-deal-capacity-orchestrator`. This directory verifies the program:
TLA+ modules translated from its Python code and SQL migrations, TLC configurations that
check them on small instances, and TLAPS proofs of all their safety properties: of the run
ledger, the restarts of a source read, the intake of files and transcripts, the store with
its migrations and its deletion feed, the sessions of the vendor adapters, the setup gate,
the analyst, the deterministic engine, the optimizer, and a session of the interface with
its export claims. Paths below are relative to `src/orchestrator/` of the program unless
they start with `src/`.

## 1. The system

The orchestrator decides which deals a presales team works on and who does it. It
imports deal, roster, capacity, workload and conversation records from files or
from four vendors (Salesforce, ClickUp, Fathom, Gong), stores them in one SQLite
file, judges readiness, priority, fit and capacity deterministically, assigns
consultants with CP-SAT, and shows the result in a Streamlit interface. A run is
in one of three *lanes* (deal prioritization, assignment recommendation, capacity
heatmap) and walks a fixed graph of states; every step is an event of a hash
chain, and a restarted process continues from the committed events.

| Component | Code | State | Operations |
|---|---|---|---|
| Run ledger | `workflow.py` | tables `runs`, `events`, `artifacts`, `source_runs` | create_run, transition, persist_domain_receipt, start_source_run, transition_source, resume_run |
| Source checkpoints | `workflow.py` 399-477 | `source_checkpoints`, `source_checkpoint_records` | commit_source_checkpoint, source_resume_plan |
| SQLite store | `store.py` | all tables; one connection per process, rollback journal | persist_*, stage_operational, commit_operational, reset_run, backups |
| Schema migrations | `store.py` 27-56, `migrations/` | tables of the file, `schema_migrations` | apply_migrations, at every start of a process |
| Setup gate | `setup_gate.py`, `contracts/setup.py` | acceptances of the setup, bindings of its sources | accept, check, bind after preflight |
| Portfolio optimizer | `optimizer.py`, `alternatives.py` | none (a solve is a sequence of phases) | solve_portfolio, brute_force_oracle, build_assignment_recommendation |
| Deterministic engine | `capacity.py`, `eligibility.py`, `readiness.py`, `scoring.py`, `scenario.py`, `digest.py` | none | one receipt from others |
| Transport, limiters | `ingestion/transport.py` and the limiters in the adapters | recent grants, daily count, retry trace | request, request_with_retry, acquire |
| Vendor adapters | `ingestion/salesforce.py`, `clickup.py`, `fathom.py`, `gong.py`, `deletions.py` | cursors seen in the session | one page, one transcript or one window of deletions per call |
| File import | `ingestion/import_pipeline.py`, `file_readers.py`, `bounds.py`, `mapping/` | none of its own | map rows, stage, commit |
| Transcripts | `ingestion/transcripts.py`, `transcript_files.py` | none | group routes, confirm duplicates, choose a winner |
| Health | `mapping/health.py`, `partial_sources.py` | none | completeness of populations, coverage of consultants, lanes that may run |
| Analyst | `llm/` | the lists of a run under way | propose, validate, repair once, quarantine, digest |
| Retention | `retention.py` | files on disk | list and delete expired files |
| Interface | `ui/` | `FlowState` and the keys of a finished run, per browser session | attest, confirm, continue, walk, run, dispose, export, reset |
| Export lineage | `canonical.py` 65-207 | the consumption graph of a computation | read, emit, derive the claims of a bundle |
| Contracts | `contracts/`, `privacy.py`, `lineage.py` | none | validation of frozen records |

**How they interact.** Drivers (tests, scripts and the planned production driver; the
interface keeps everything in memory) call `WorkflowStore` and `Phase1Store` in one process
each; two processes share the database file only. Phase1Store opens import runs and purges
runs; WorkflowStore advances them and `resume_run` trusts both. A connector driver asks
`source_resume_plan` where to restart, reads pages through an adapter, and commits one
checkpoint per page; the adapter asks its limiter once per call and the transport may send
up to four requests. A receipt of Salesforce's deletion feed is stored with its tombstones.
Eligibility and capacity receipts are the optimizer's input, and the alternatives re-solve
the same problem with one pair forced. Setup acceptances and bindings decide which sources
may be read; what the reads report goes to the partial source policy and to data health,
each of which may stop the lane. Observations the analyst applied become the evidence
readiness is computed from. The interface runs a pipeline inside the script of a page, which
the next click stops.

**What is hard to get right here.** Two processes on one database, with the
implicit transactions of `sqlite3`; crashes between any two calls; a source read
again from a restart point while its records change and the vendor's index lags;
artifacts and source reads that outlive the run they belong to; scripts of
migrations that several processes start at once and that commit statement by
statement; a model that proposes anything; a page whose script dies between two
accesses to its session; four solver phases, each of which may hit its time limit, that must agree with an
independent oracle; retries multiplied by limiters. `PROJECT.json` lists each
hazard at its line with the properties aimed at it.

**What makes each component correct.**

* Ledger: the chain of a run is unbroken and spells a legal walk; steps only add;
  a restarted process can resume every run, except where a named reason says no.
* Checkpoints: a restart leaves nothing behind, nothing is accepted twice, a
  COMPLETE source holds what its window showed.
* Deletions: what a confirmed receipt says nothing about was not deleted in its window; a
  receipt that is refused leaves nothing undone.
* Store: a commit publishes one returning operation, all of it; staged rows
  disappear only by a commit or a reset; an accepted mapping profile is there.
* Intake: counts reconcile, a commit publishes what its receipt counts and explains
  what it publishes besides, no route is lost or analyzed while disputed.
* Optimizer: OPTIMAL is what the oracle finds best, INFEASIBLE means that there is
  no selection.
* Session: what reaches a vendor is bounded per window; a walk over pages ends.
* Migrations: a script that is recorded is there as a whole, and the schema is complete
  in the end unless a process was stopped inside a script.
* Setup and health: a role has one source per acceptance, a scenario runs with confirmed
  values, a lane that both gates admit has the populations and the supply it needs.
* Analyst: only exact quotes of this deal reach readiness, each candidate is applied or
  quarantined once, digest and readiness agree.
* Export: every source a decision rests on is named, and the weakest speaks for it.
* Interface: no page past the setup without its confirmations, and what a session keeps is
  of the flow under way, but for what a reset that was stopped leaves.
* Engine: due weeks, eligibility, fit and the heatmap agree with statements about
  the raw rows, whatever the order of rows and however the clock moves between calls.

## 2. Modules

| Module | Models | Lines of code it stands for |
|---|---|---|
| `WorkflowGraph` | states and edges of the three lanes and of a source read | `workflow.py` 24-138 |
| `LaneLedger` | abstract specification: what a restarted process can rely on about a run | `workflow.py` 180-185, 255-285, `store.py` 321-361 |
| `Workflow` | the run ledger, with the two operations of Phase1Store that touch it | `workflow.py` 180-397, `store.py` 65-98, 162-200, 321-361 |
| `WorkflowProofs` | theorems about `Workflow`, and that it implements `LaneLedger` | |
| `SourceResume` | checkpoints and restarts of a direct-connector read | `workflow.py` 363-477, `salesforce.py` 276-322 |
| `IngestionProofs` | theorems about `SourceResume`, `Transcripts` and `Intake` | |
| `Deletions` | Salesforce's deletion feed, from the window to the stored tombstones | `salesforce.py` 93-118, 409-478, `store.py` 202-233, 321-361, `contracts/connectors.py` 83-109 |
| `StoreConnections` | connections, locks, statements and rollbacks of the store | `store.py` 27-361, `workflow.py` 287-326 |
| `StoreProofs` | theorems about `StoreConnections` and `Migrations` | |
| `Migrations` | the scripts, statement by statement, by several processes | `store.py` 27-56, `migrations/*.sql` |
| `SetupTables` | what a lane confirms, needs authority for, and cannot do without | `contracts/setup.py` 19-63, `mapping/health.py` 81-91 |
| `SetupGate` | acceptances, bindings, partial sources, health, the gate of a scenario | `setup_gate.py` 86-185, `contracts/setup.py` 144-166, `partial_sources.py`, `mapping/health.py` 94-164, `scenario.py` 61-67 |
| `SetupGateProofs` | theorems about `SetupGate` | |
| `Transcripts` | grouping of transcript routes | `ingestion/transcripts.py` 101-216 |
| `Intake` | file imports, transcripts, health and commit of one run | `ingestion/import_pipeline.py`, `file_readers.py`, `mapping/health.py`, `store.py` 162-275 |
| `ConnectorSession` | limiters, retries, cursor memory of an adapter session | `transport.py` 195-302, the limiters and page calls of the adapters |
| `AdapterProofs` | theorems about `Deletions` and `ConnectorSession` | |
| `Analyst` | one run of the analyst, its validator, readiness and digest | `llm/analyst.py`, `validator.py`, `provider.py`, `digest.py`, `readiness.py` 18-113 |
| `AnalystProofs` | theorems about `Analyst` | |
| `Rounding` | ceiling and half-even division | `capacity.py`, `eligibility.py`, `scoring.py` (their `Decimal.quantize` calls) |
| `Engine` | readiness, priority, weekly capacity, eligibility, fit, heatmap, scenario | `readiness.py`, `scoring.py`, `capacity.py`, `eligibility.py`, `scenario.py` |
| `Portfolio` | optimizer, verifier, oracle, alternatives, capacity gates | `optimizer.py`, `alternatives.py` 73-118, `eligibility.py` 117-160 |
| `EngineProofs` | theorems about `Engine` and `Portfolio` | |
| `Lineage` | consumption graph, decision sessions, export bundle | `canonical.py` 65-207 |
| `Review` | a session of the interface with the run it streams | `ui/state.py`, `ui/views/render.py`, `walkthrough.py`, `engine_run.py`, `ui/demo.py` 435-457 |
| `ReviewProofs` | theorems about `Lineage` and `Review` | |
| `MC*` | instances for TLC | |

`Workflow`, `LaneLedger` and `SourceResume` extend `WorkflowGraph`, and `Workflow`
instantiates `LaneLedger`; `Engine` and `Portfolio` extend
`Rounding`, `Intake` extends `Transcripts`, `SetupGate` extends `SetupTables`, `Review`
extends `Lineage` and takes its steps; the `MC` modules extend the
module they check and only give constants values. Definitions marked `mutant` are
plausible bugs of the definition below them; no specification uses them, and each
shows that a property can fail.

### Workflow

`runs`, `events`, `artifacts` and `sourceRuns` are the tables, `manifests` the
manifests each run persisted; a missing row is a sentinel. One action per
method: `CreateRun`, `CreateImportRun` (the import path opens a run past NEW,
without an event), `PersistManifest`, `CommitArtifacts`, `Transition`,
`StartSourceRun`, `TransitionSource`, `ResetRun`. Each method of the ledger is one
transaction, so each is one step; what happens between the statements is the
subject of `StoreConnections`. An event carries its content, the digest of the
event before it and its own digest. SHA-256 over canonical JSON is an ideal hash:
a digest is the value it was taken of. `resume_run` is the predicate
`ResumeAccepts`, clause by clause.

### LaneLedger

What the ledger promises to a process that starts again, and nothing else: per run a
lane and a state, which is opened at one of two states, advanced along an edge of
the lane, or purged. There are no events, hashes, artifacts or source reads.
`Workflow` maps to it by `Position`: the lane of the run's row and the high-water mark
recomputed from its events, as `resume_run` does, or the row's state as
long as there are no events. Every other step, an event about a source read included,
has to be a stutter under this mapping.

### SourceResume

The vendor (external) changes records, makes a change visible after at most `Lag`
ticks, and answers queries. A driver asks for the plan, reads a window from the
restart point, takes pages in the vendor's order and commits a checkpoint per page;
it may die anywhere. `commit_source_checkpoint` inserts the versions that are new,
reports those, and refuses a page number that is taken. The query window is the
driver's (the restart tests show the loop); `query_page` itself has no date filter.

### Deletions

Salesforce (external) deletes and restores records; its feed lists a deletion after at most
`Lag` ticks, only as long as the record is deleted, and forgets what lies before `oldest`.
`GetDeletionReceipt` is the whole call: the checks of the window, the request in whole
seconds (`Second`), the answer, and the receipt, which says CONFIRMED when the driver
expects completeness and the dates of the answer cover the window as it was asked for.
`held` is the receipt in the driver's hands, who may hand it to `PersistDeletionReceipt`
again when the outcome of the first call was lost. `receipts` and `tombstones` are the
tables. Each run has one manifest of the source, so a manifest needs no id of its own. Time
has several ticks per second, since that is what the flooring loses.

### StoreConnections

A connection has the operation it runs, the step it has reached, what it read, and the rows
its open transaction wrote. There are three kinds of methods: plain inserts that rely on the
implicit transaction of `sqlite3`, which stays open when the insert or the commit raises;
the staging of a row, scoped by `with connection`, which rolls back on error; and those that
begin their own transaction (`BEGIN IMMEDIATE`, roll back on error). SQLite keeps its
default rollback journal: a reader holds a shared lock while it reads, and a commit needs
every such lock gone. One representative stands for each style: `STAGE` for the scoped one,
`ATTEST` for the plain single-row inserts (attestation, setup acceptance, manifest,
authority, domain receipt), `CONVERSE` for rows in a transaction of their own (conversation
metadata, solver receipts, and deletion receipts, which `Deletions` looks into); `CREATE`,
`PROFILE` and `ACCEPT` are the plain inserts that others depend on, and the methods with
reads before their transaction (`COMMIT`, `EXCERPT`, `RESET`, `TRANSITION`, `RESUME`) have
steps of their own. A workload, chosen initially, says which operations the processes of one
file call. Mapping profiles belong to no run: `reset_run` deletes those its run accepted,
and the foreign key of another run's acceptance refuses the whole reset (`SharedProfiles`).
A crash ends the connection and drops what it had not committed. The metadata of a
conversation holds the list of cited excerpt ids, which `persist_retention_approved_excerpt`
reads before its transaction, extends and writes back in it; `reset_run` deletes the
metadata and the excerpts, so that an excerpt stored by a connection that read the list
before a reset writes the ids of the purged excerpts back (`seen` is what it read).

### Migrations

`executescript` runs in autocommit, so each statement of a script is committed by
itself, and the row in `schema_migrations` is a transaction of its own after it. A script is
the number its name begins with, which is the order they are run in; a process has the
set of scripts it has still to run and its next statement in the first of them. A
statement is the table, column or index it makes; it fails when that is there
already. `Begin` lists the scripts that are not recorded, as the code does once at
the start; `Execute`, `Fails`, `Record` and `Stop` follow. The statements of each
script are those of the `.sql` files, in order; none is repeatable.

### Portfolio

A problem (deals, consultants, the weeks of a horizon, two of them where TLC runs and four
in the code, capacity buckets, cleared pairs, effort, priority, fit) is chosen initially. A
solve runs the four phases; each takes an optimum of what the phases before left
(CP-SAT is external: an optimum is any best element of the model's selections),
or stops at its time limit. `Model` translates the constraints of `_build_model`,
`Verified` those of `_verify_constraints`, `OracleBest` the brute-force oracle;
`Counterfactual` re-solves with a forced pair.

### ConnectorSession

One session of one adapter. The deques of the limiters hold ages, retries sleep
for the vendor's delay or the backoff, and the set of cursors seen is kept in the
way each adapter keeps it: Salesforce and Gong remember a cursor when asked for it,
before the limiter answers; Fathom remembers it when it arrives; ClickUp counts
pages. The vendor may fail, throttle, and hand out any cursor.

### Rounding, Engine

One action per function: `ComputeReadiness`, `ScorePriority`,
`ComputeWeeklyCapacity`, `EvaluateEligibility`, `ComputeConsultantFit`, the heatmap
and the scenario. A receipt is a variable that is pending, raised or a record; the
rows of a run are frozen, so the variables of a run only go from pending to an
outcome. `as_of` is an argument of three functions, given by the caller, who may
call them at different times: `asOf` moves between calls. Rounding is done as
`Decimal` does it, up or half to even, on integers.

### Transcripts, Intake

`Transcripts` says which routes of a conversation are retained, which are duplicates
of which, and which are in conflict, as sets. `Intake` is one run taking in its data:
`StartImport`, `ImportRow` (five ways a row can go) and `FinishImport` of
`import_operational_file`, the staging of transcripts with the manager's
confirmations (external), the metadata that is stored, `AssessDataHealth`,
`CommitOperational` and `ResetRun`. The routes handed to the staging have different ids, as
their driver makes them (`AreRoutes`). What an import returns lives in memory and is lost
in a crash; what it staged is not, and `abandoned` remembers which rows those
are. The driver imports each file once per attempt and assesses health after its
imports, as the acceptance test of the import path does; the number of complete
consultants is the driver's too. Each operation of the store is one step here;
`StoreConnections` opens them up.

### SetupTables, SetupGate

`accepted` are the rows of setup acceptances, `bindings` those of sources bound to a
slot, `policy` the values in force, `reads` what the sources reported. `AcceptSetup`
is the contract of the receipt, `Bind` the five checks of
`bind_post_preflight_manifest` and the row it leads to; an older acceptance stays
usable, as nothing in the code retires one. `Ingest` is external: a read of a
population ends in some state, names the consultants it affected, and lost the rows
of some. From it `evaluate_partial_source_policy` derives `Missing` and
`IncompleteConsultants`, and `capacity_coverage` with `assess_data_health` derive
`Coverage` and `health`, without looking at each other. `RunScenario` is the gate in
`run_emea_capacity_scenario`.

### Analyst

One run over the transcripts of a deal, from the check that a recording was made from
these words (`VerifyBoundInput`) to readiness and digest (`Conclude`). `Objection`,
`ContractObjection` and `Rejection` are the validator, in the order of its checks;
`Judge` and `Repair` the loop of `run_analyst`, where a rejected candidate gets
one repair, which is judged in the same way. The provider is external: a person or a
recording answers with what was fixed beforehand, a local model with anything, or it
fails. Texts are tuples of words, an offset counts them. What ends a run early is a
phase of its own (`Lost`): a stale recording, a failing provider, a refusal by a later
contract, and a dimension id that is not hashable.

### Lineage

The graph of canonical fields: `Read` records an edge from a source to a field,
`Emit` one from each field of the session to the decision, `Export` computes
`Bearing`, the sources some decision can be reached from, and claims for the whole
the least proof among them. `held` and `contributors` remember, outside the code, what
a session had really read when it emitted.

### Review

A browser session: `FlowState` (stage, path, lane, the attestation and two
confirmations, dispositions, export, position in the walkthrough) with one action per
handler, and the run that `_streamed_run` does inside the page, step by step, with
the lineage steps of `Lineage` as what the pipeline does. When it is done the page
writes three keys of the session state one after the other. Any click while the page
streams stops its script at an arbitrary point (`Stopped`), and what the script had
only in memory is gone; a page whose run says complete but has no narration raises
before it draws what is below (`PageFails`). The reset is opened in the same way: `Reset`
puts the flow back to its beginning, `ClearKey` pops one key of the finished run after the
other (`clearing` of them are left), and `RerunInReset` is a click that stops the script
before the last. `flow` numbers the flows of a session and `cut` remembers which of them
ended in a stopped reset.

## 3. Runs

| Run | Question | Bounds |
|---|---|---|
| `workflow_shared` | Do chains, walks, source reads, artifacts and refusals stay right when runs share ids and are purged, and is the whole a behaviour of `LaneLedger`? | 2 runs, 1 artifact, 1 manifest, 1 source read, 3 events and 2 source events each; one deal and one heatmap run, one opened by the import path |
| `resume` | Does a restarted read leave nothing behind, accept nothing twice, end complete? | 2 readers, 2 records, 3 ticks, 3 pages of one record |
| `portfolio` | Is OPTIMAL what the oracle finds best, and may the verifier object, or INFEASIBLE hide a selection? | 2 deals, 3 consultants, 2 weeks: two deals competing for two consultants with open weeks; one deal and three consultants with free, busy and unknown weeks |
| `store` | Does each commit publish one whole operation, whatever raised or crashed before it, which rows may vanish, and when may `resume_run` refuse? | 2 connections, 2 runs, 2 artifacts, 2 ids, 1 event, three workloads: imports; runs that share a mapping profile; transitions, conversations, excerpts and resets |
| `deletions` | Does a confirmed receipt mean that nothing was missed, and what does a refused one leave undone? | 1 record, 2 runs, 4 ticks of 2 to a second, feed 1 behind and 1 forgotten, windows that overlap, end inside a second, and are too long, 2 receipts |
| `migrations` | What do several processes make of one new database, and is the schema complete in the end? | 3 processes, the four scripts with all their statements |
| `setup` | Does a run work under the setup that was accepted, and can a lane that was let through run? | 3 lanes, 2 consultants, 5 sets of sources, 2 acceptances, 1 edited field, every combination of one failed or absent population with 4 states of capacity and workload reads |
| `intake` | Does a commit publish what health counted, crashes and corrected files included, and is no route lost or disputed? | deal files of up to 3 rows of 6 kinds with a row bound of 2, the five files of an assignment run, 3 routes of every relation |
| `session` | What may reach a vendor, and does a session end? | 4 adapters, window of 2 ticks, limit 2, day limit 3, 2 cursors, 2 attempts of the driver |
| `analyst` | What may a provider that answers anything bring into readiness, and does the run end? | 2 candidates out of 13 observations, one for each way to be wrong, repairs from the same; 3 versions of the transcripts |
| `engine` | Do due weeks, eligibility, fit, heatmap and scenario agree with the rows they come from? | six families of inputs, each varying what one part looks at; half-day resolution, `as_of` moves by one tick; a ceiling of 8571 with seven units free, which six sevenths exceed by less than half a basis point |
| `review` | Are the gates kept, what may outlive a reset, and does an export name and rank all its sources, when a run and a reset may be stopped anywhere? | 7 steps of the walkthrough, 2 deals, 2 resets, 5 programs, 6 assignments of proofs |

Related statements about one part are checked together, as conjuncts of one property
that are named on their own in the module:

| Property | Its conjuncts |
|---|---|
| `SourceResume!NothingIsLost` | `TypeOK`, `NothingBehindRestart`, `CompleteMeansAll` |
| `StoreConnections!WritesAreWhole` | `TypeOK`, `ArtifactsHaveReceipts`, `AcceptancesHaveProfiles`, `RowMatchesEvents`, `OpenWorkIsPlainRows` |
| `Deletions!DeletionsAreAccountedFor` | `TypeOK`, `TombstonesAreExplained`, `ConfirmedMeansAll` |
| `Portfolio!SolverAgreesWithOracle` | `SolveTypeOK`, `OptimalMeansOracleBest`, `VerifierNeverObjects` |
| `Engine!EligibleMeansRoom` | `TypeOK`, and `HasRoom` of each eligible pair: known weeks, none overbooked, room for the effort, the ceiling |
| `Engine!CapacityTellsOneStory` | `RowOrderIsIrrelevant`, `OverfullMeansDeficit`, `ScenarioAddsAQuarter` |
| `ConnectorSession!SessionIsBounded` | `SessionTypeOK`, `GrantsWithinLimits`, `WireIsBounded`, `NoCursorTwice` |
| `SetupGate!SetupIsHeldTo` | `RolesHaveOneSource`, `ScenarioIsConfirmed` |
| `SetupGate!AdmittedLanesAreFed` | `NobodyIsSilentlyShort`, `AdmittedLanesCanRun` |
| `Lineage!ExportsAreSound` | `ContributorsAreBearing`, `ClaimIsWeakest` |
| `Review!FlowIsKept` | `GatesHold`, `NothingOutlivesReset` |
| `Migrations!ScriptsAreWhole` | `RecordedIsWhole`, `OneProcessPerScript` |

**Why the bounds are enough.** The ledger properties relate at most two runs and one
artifact or source read between them; three events are enough for a purged citation and for
a source read announced between two moves, and the theorems below hold for chains of any
length. In `resume` two records and one record per page give every order of two pages, three
ticks hold a change, its overlap and its late appearance, and two readers a crash of either
(with four ticks the same properties hold on 2.4 million states). Eligibility differs from
the solver's constraints in rounding and in the weeks it looks at, both of which one pair of
weeks shows. SQLite has one writer, so two connections give every conflict, and an operation
of `store` relates one run with at most one other (976 thousand states). In `deletions` a
receipt speaks of each of its records alone; two receipts are one and the same answer for
another run, or one window and the next, and four ticks hold a window, the lag behind it and
a window that ends inside a second. In `migrations` a third process can find the work of one
that was stopped while another is at it. In `setup` two consultants are one who is short and
one who is not, and two acceptances the fewest that can contradict each other. In `session`
the limits are scaled: two per window is the smallest number that tells a full window from
one about to be. In `analyst` two applied observations are what a conflict of a dimension
and a quarantine after an application need. In `review` a first reset that is stopped and a
second that is not separate what outlives one from what outlives both (1.1 million
states), and the programs read in every order the sessions of `canonical.py` allow. `engine` takes milestones on both sides of every boundary of the
horizon, and a clock that moves by less than a day, which is what a boundary can be off by.
In `intake` three rows are one more than the bound and enough for a row, its repetition and
its conflict; three routes are the fewest with a confirmed and an unconfirmed rival.

**What the runs show.** Every property holds. Several hold only with an exception they
name, and each exception is a behaviour of the code worth knowing:

* *Ledger.* `transition` accepts an artifact of any run (`workflow.py:203`): reset the
  other run, and `resume_run` refuses the first for good (`CitationPurged` in
  `ResumeRefusals`). A run opened by the import path cannot be resumed before its first
  event (`OpenedWithoutEvent`).
* *Store.* A plain insert that raised at its commit may be
  published by the next insert of the same connection, plain or scoped, and by nothing
  else: `OpenWorkIsPlainRows` says what such a leftover may be, `OneOperationPerCommit`
  who may publish it. Two runs that accepted one mapping profile can neither of them be
  reset while the other is there (`store.py:355`; `SharedProfiles`, and
  `AcceptancesHaveProfiles` is why the refusal is right).
  The list of cited excerpts is read before the transaction that rewrites it
  (`store.py:278-300`): an excerpt stored in between drops from the list, and after a
  reset the purged ids come back (`CitedAreAccountedFor`). `resume_run` reads the row
  of a run and its events in two statements, so that a transition committed in between
  is a mismatch the database never had (`workflow.py:288`, `325`): `MismatchesAreRaces`
  says that it refuses for no other reason.
* *Deletions.* The id of a receipt is a hash of window, records and answer
  (`salesforce.py:458`): a second run that reads the same answer is refused and gets no
  tombstones (`RefusalsLoseNothing`), and so is a later receipt of the same answer that
  could say CONFIRMED where the first did not. The last second begun of a window is not
  requested, so a CONFIRMED receipt speaks of whole seconds only (`ConfirmedMeansAll`);
  the window that follows reads it. A restored record keeps its tombstone: nothing in
  the code takes one away but a reset.
* *Migrations.* A process stopped inside a script leaves objects without a record, and
  every later start fails at the first of them (`interrupted` in
  `MigrationsComplete`, `OneProcessPerScript`).
* *Setup and health.* A setup may be accepted twice, and a source bound under each, so
  a role can have two sources (`RolesHaveOneSource` holds per acceptance). When one read
  of a population failed naming consultants and another naming nobody, the lane goes
  on as if only the named ones were short (`MixedReport`; `partial_sources.py:57`).
* *Analyst.* A dimension id that cannot be hashed raises in the validator's lookup and
  loses the run with what was already applied (`llm/analyst.py:147`), as does
  a provider that fails during a repair. A conflict needs statements of two segments,
  but segments are counted by id without their conversation (`llm/validator.py:153`),
  so one of each of two conversations with equal segment ids is rejected. A repair may
  answer with another dimension than the one it was asked for.
* *Interface.* A run stopped between the writes of its keys leaves a page that raises
  until the run is started again (`engine_run.py:456-458`, `PageFails`). A reset stopped
  between its removals (`engine_run.py:364`) leaves the old result, and perhaps its
  narration: the next flow then studies the result of a flow that was reset
  (`engine_run.py:472`), although the button says that the run state is purged
  (`ui/copy.py:170`). `LeftFrom` names this exception, and says that the next reset that
  is not stopped takes it away. Confirming another
  lane keeps the advanced confirmation of the first (`ui/state.py:206`):
  `GatesHold` says that both were confirmed, not for which lane.
* *Optimizer.* Eligibility rounds the utilization half to even and the solver does not
  (`eligibility.py:155`, `optimizer.py:131`): a pair at most half a basis point above the ceiling
  is eligible and cannot be assigned. `HasRoom` bounds the gap, and the run has a pair in it.
  `_build_model` constrains all weeks of every candidate, eligibility the
  weeks up to the due week (`optimizer.py:113`, `118`): one consultant whose later week
  is unknown makes the whole portfolio INFEASIBLE where the oracle has a selection, and
  `InfeasibleMeansNoSelectionWhenOpen` says when INFEASIBLE is genuine. The tie-break
  minimises a sum of ranks (`optimizer.py:158`), which two selections can share; the
  choice is then the solver's, where `ui/copy.py:333-334` says that stable identifiers
  settle it.
* *Session.* `WireIsBounded` is tight: a vendor can see four times the limit in a window,
  and three requests more.
* *Engine.* `contracts/phase3.py:42` wants a fit of every eligible pair, but the fit of an
  eligible pair raises when a skill the deal does not require has conflicting assertions, or
  when its own `as_of` is another one (`FitRaisesAreExplained`).
* *Intake.* Rows of an interrupted import
  stay staged and are committed beside the corrected ones; repeating the import
  unchanged is refused at its first row (`CommitPublishesCounts`). Routes of one origin
  are merged whatever deals they name, so a call read for two deals stays with one.

**Deadlock** is not checked where the system really may stop: a solve (`portfolio`) and
a run of the analyst end, every receipt of a run is derived once (`engine`), a
database has all its scripts or fails at one (`migrations`), a setup has been used
up (`setup`), and `review` ends with its last reset.

**Fairness.** In `ConnectorSession` a request is answered or times
out after 20 seconds (`build_httpx_client`), so `WF(Answer)`; a sleep ends and time
passes, so `WF(Resend)` and `WF(TimePasses)`; a driver in the middle of a walk goes on
with it, whatever transcripts it reads in between, so `SF(AskForPage)`. Nothing is
assumed about the vendor's answers, and nothing makes a driver start a walk. In
`Analyst` the loop runs on in one thread and a call to a provider returns or raises
(the local model is called with a timeout), so `WF(Step)`. In `Migrations` a process
that has begun executes its next statement unless it is stopped, so `WF(Advance(p))`; that
one begins or is stopped is never assumed, and `MigrationsComplete` excepts the
behaviours in which one was. The other modules state safety only: nothing in the
repository schedules their actions.

**Symmetry** is used for interchangeable records, processes, runs and ids in safety
runs, never with a liveness property.

## 4. Proofs

`WorkflowProofs` proves for every value of the constants: any number of runs,
sources, manifests and artifacts, any lanes, any bounds on the events:

* `TypeCorrect`: `Spec => []TypeOK`.
* `ChainsStayIntact`: `Spec => []ChainsAreIntact`, the hash chain `resume_run`
  recomputes is never broken.
* `WalksStayLegal`: `Spec => []WalksAreLegal`, the chain spells a legal walk of the
  run's lane. `resume_run` does not check this; it relies on it.
* `RefusalsAreExplained`: `Spec => []ResumeRefusals`, a run is refused only for a
  purged citation or because it was opened without an event.

* `SourceReadsStayAnnounced`: `Spec => []SourceReadsAreAnnounced`, the source reads of
  a run are those its chain announces.
* `LedgerStaysAdditive`: `Spec => LedgerIsAdditive`, only the purge of a run takes
  anything away from it.
* `LedgerRefinesLanes`: `Spec => ImplementsLaneLedger`.

For the refinement: `Position` reads a run off its chain, which no action
changes in a simple way; but by `IInv` the high-water mark is the row's state
(`HighWaterIsRow`), so the proof goes by `RowPosition`, the same view of the rows. Each
action then moves one run in one of three ways (`Moves`) or leaves every row alone, and
`Moves` is the next-state relation of `LaneLedger` under the mapping.

The argument for all of them is the inductive invariant `IInv`. `ChainsAreIntact` is
inductive on its own, since each event is built from the latest one (`NextEvent`), but a
walk is legal only if the row of a run agrees with the end of its chain, and
`ResumeRefusals` needs the high-water mark of the chain to be the row's state. So `IInv`
adds `TrailingState` (the last event ends in the row's state), `FreshRuns` (a run without
events is NEW or was opened by the import path) and two conjuncts about ownership: a source
read and a manifest belong to a run that exists, which `ResetRun` must maintain for an id to
be safely reused. Lemmas say what appending one event does to a chain, to a walk and to the
set of top-level events; the existence of a last top-level event comes from the
well-foundedness of the natural numbers. Each action has one step in the proof, and under it
one per conjunct it can disturb. The assumptions are those of `Workflow`: `NoneAssumption`
(`None` is no state, id or artifact), `LanesAssumption` and `ImportRunsAssumption` (the
lanes of runs are lanes, the import runs are runs) and `BoundsAssumption` (the bounds are
natural numbers).

`EngineProofs` proves for any inputs, any policy and any resolution of time:

* `DueWeekBucketIsFirst`: rounding up to days and dividing by seven with an offset of
  six gives the first week that is long enough for the elapsed time. It rests on
  `CeilDivIsLeast`: `CeilDiv(n, d)` is the least number of parts of size `d` that cover
  `n`.
* `DueWeeksAreExact`: `Spec => DueWeekIsExact`, every priority receipt names that week
  of its own call. The invariant is that the inputs stay frozen.
* `FitRefusalsAreExplained`: `Spec => FitRaisesAreExplained`, the fit of an eligible pair
  raises for the two reasons named only. The pair passed its checks at an earlier call,
  so `IInv` remembers that call: `PassedSkills` says that for every eligible receipt
  there is a time up to now at which its checks of skills passed. `ChangedSkills` is
  what the assertions of a skill must have gone through when they conflict now and
  did not then.

* `EligiblePairsHaveRoom`: `Spec => []EligibleMeansRoom`, an eligible pair has room in the
  frozen rows themselves: week by week no more is booked than offered, and the effort of
  the deal fits into what is left up to its due week, at no more than half a basis point
  above the ceiling (`HalfEvenIsNear`: rounding half to even moves by half a unit at most).
* `CapacityStaysOneStory`: `Spec => []CapacityTellsOneStory`. The state of a week, its free
  units and the completeness horizon are those of every other order of the rows
  (`RowOrderNeverDecides`), a cell above 100% is a cell in deficit, and the scenario differs
  from the heatmap by a quarter of the EMEA demand.

The last two rest on `ReceiptsFollow`: each receipt that is done is what its function
makes of the frozen input and of the receipts it was given (`CapacityFollows`,
`EligibilityFollows`, `CellsFollow` and so on), with the domain of each table (`Shapes`).
Neither is inductive as it stands, since a heatmap says nothing of the buckets it
was added up from, and an eligible pair nothing of the rows. Free units, demand and supply
are sums over finite sets and sequences, which the invariant reduces them to; that a sum
does not depend on the order of its terms, splits over two disjoint sets, and grows with its
terms is proved by induction over the set of the numbers, or of the finite sets, for which
it holds (`NaturalsByStep`, `FiniteByRemoval`). The row order then comes down to a renaming
of the terms (`Renames`), the agreement of the scenario's cells to a bound for each deal's
raised effort, and that of a cell to the rounding up of its utilization (`Rounding`).

They assume `TimeAssumption` (a tick is a part of a day), `InputsAssumption` (the rows are
as their contracts bound them, and a deal has one demand, which
`compute_capacity_heatmap` checks) and `PolicyAssumption` (what `PolicyV2` validates:
weights that add up to 100%, breakpoints, levels, a ceiling).

Of the optimizer it proves, for any problem and whichever of its optima CP-SAT returns:

* `SolverStaysWithOracle`: `SolveSpec => []SolverAgreesWithOracle`. Four solves, each fixing
  its optimum for those after it, end on a selection that a brute-force comparison of the
  four objectives at once finds best, for the recommendation and for the counterfactual of
  a forced pair; and the verifier has nothing to object.
* `InfeasibleStaysGenuine`: `SolveSpec => []InfeasibleMeansNoSelectionWhenOpen`.

The invariant `SolveInv` says what a solve has established when it stands between two
phases (`PhasesFollow`): the optimum of a phase bounds every selection that agrees with
the phases before it, and some selection reaches all of them. After the last phase that is
the oracle's order. Model and verifier do not say the same: the model constrains
every week of every candidate, the verifier the weeks of those selected. They accept the same
selections as soon as the model accepts one, because an unassigned deal asks least of every
week (`CandidatesFit`, `ModelIsVerifier`). `IdsAssumption` says that deals and consultants
are finitely many, numbered by their stable identifiers, which the tie-break ranks;
`HorizonAssumption` bounds the ceiling, `ProblemsAssumption` types the problems.

`SetupGateProofs` proves for any slots, manifests, consultants and number of acceptances:

* `SetupStaysHeldTo`: `Spec => []SetupIsHeldTo`. An acceptance never changes, and a binding
  keeps the checks it passed.
* `AdmittedLanesStayFed`: `Spec => []AdmittedLanesAreFed`: the two gates look at the same
  frozen reads in different ways, and agree on what a lane requires and who is short, with
  the mixed reports excepted as in the property.

It assumes `ReportsAssumption`: a read that lost rows of somebody names all it affected or
nobody, as the adapters report it.

`ReviewProofs` proves for any sources, fields, decisions and proofs, first of a
computation by itself (`Lineage`):

* `DecisionsRestOnBearingSources`: every source a session had read when it
  emitted a decision is among the sources the export names.
* `ExportsClaimTheWeakest`: the summary of an export claims no better proof than any
  of those sources has.

The invariant `LineageInv` adds `HeldIsRead`, which ties what a session holds to the edges
it recorded: each source held has an edge to a field the session has consumed. The
second theorem rests on `LeastExists`: a set of levels of proof has a least one. Then of the
interface, whose script a click may stop anywhere, for any walkthrough, pipelines and
number of resets:

* `SessionExportsStaySound`: `Spec => []ExportsAreSound`. Both statements hold in `Review`
  too, because each of its steps takes one of `Lineage` or begins the graph anew.
* `FlowStaysKept`: `Spec => []FlowIsKept`, no gate is skipped, and nothing but what a stopped
  reset left outlives its flow.

The gates need what each stage says of the path and that a script runs in the walkthrough
only (`GatesInv`). The keys need what the two scripts have behind them (`KeysInv`): a run
that has written two keys has written them for this flow, a reset that has popped one has
popped all before it. `LeftFrom` is not inductive without the latter, since a key that
was to be popped already must not be found when the reset is stopped.

They assume `ProgramsAssumption` and `ProofsAssumption`, the types of a pipeline and of an
assignment of proofs.

`IngestionProofs` proves for any records, drivers, size of a page, overlap, and lag of
the vendor's index not above the overlap:

* `RestartsLoseNothing`: `Spec => []NothingIsLost`, no restart leaves a visible record
  behind and a COMPLETE source holds what its window showed.
* `VersionsAreAcceptedOnce`: `Spec => []AcceptedOnce`.

The invariant says why the overlap suffices. `Window`: what a driver has found it has
still to read unless it is stored, and what it has not found came later than anything it
has, but for the lag. `Numbered`: the pages have no gap and no driver is ahead of them, so
that a driver which commits a page commits the one after the last (`LastPage`), whose
mark is then the mark of the plan. A record older than the new restart point was found,
and if it were still ahead of the page the page would not be in order. They assume
`OverlapAssumption`, `LagAssumption` (the guarantee is as good as the overlap chosen),
`SizesAssumption` and `MovesAssumption`. The order of a page is that of Salesforce.

Of the intake it proves, for any files, corrections, routes and bound on rows:

* `CountsStayReconciled`: `IntakeSpec => []CountsReconcile`.
* `StagingStaysSettled`: `IntakeSpec => []StagingIsSettled`.
* `CommitsPublishTheirCounts`: `IntakeSpec => CommitPublishesCounts`.

The equation of the counts holds at the end of an import because `JobIsSound` holds at
every row: the rows passed are those accepted, those unmapped or with an issue other than a
conflict, and the repeated ones. `StagedIsKnown` says of each staged row that an import
counted it, or the one under way has, or that its import's outcome was lost, so that a
commit publishes nothing else; `AcceptedIsCurrent` that a receipt that accepts is about
what the driver still holds. The routes are statements about finite groups: a group has
one authority (`GroupHasAuthority`), a disputed origin has neighbours that differ
(`DisputedIsReported`), and what was retained with some confirmations is retained with more
(`ConfirmingRetains`, which `StagedRoutesStand` rests on). They assume `BoundsAssumption`
(a reader takes at least one row) and `InputsAssumption` (files of known kinds, of which a
correction takes none away, and finitely many routes with ids of their own).

`StoreProofs` proves for any connections, runs, artifacts and workloads:

* `WritesStayWhole`: `Spec => []WritesAreWhole`, nothing half done is visible or kept.
* `CommitsPublishOneOperation`: `Spec => OneOperationPerCommit`.
* `StagedRowsStayAccountedFor`: `Spec => StagedRowsAreAccountedFor`, and
* `CitedStayAccountedFor`: `Spec => CitedAreAccountedFor`: what a commit or a rewrite of
  the cited ids takes away is what the operation had read, or what came in between.
* `MismatchesStayRaces`: `Spec => MismatchesAreRaces`. A call has a result only when it has
  returned (`ResultsComeLast`, which `StepsOfACall` keeps), and whatever a connection reads
  has a row and events that agree, so a mismatch means that the row is another by now.

The invariant follows the one transaction that writes. `Sound` is what every operation keeps
of a database (`AppliedIsSound`); `WrittenBy` says what an open transaction holds: inside a
`BEGIN IMMEDIATE` block exactly what its operation makes of the committed database,
otherwise rows of plain inserts and, at a commit, its operation on top. That an insert which
raised at its commit can be published with a later one without disturbing it is
`InsertsAreMonotone`. `Underway` keeps what an operation read and `OneWriter` is SQLite's
lock. They assume `WorkloadsAssumption` and `BoundAssumption`.

Of the migrations it proves, for any number of processes and stops:

* `ScriptsStayWhole`: `MigrationsSpec => []ScriptsAreWhole`.

`MigrationsInv` adds what a process has behind it (`Behind`: the scripts it has not to run
are recorded; `Progress`: of the one it is in, exactly the statements before its next are
there) and `BegunAtTheFirst`: a script of which something is there has its first object, so
that whoever comes second fails at its first statement. Both rest on the scripts
as they are: no object is made by two statements, and no script works on a
table that a later one makes.

`AdapterProofs` proves for any windows, lag, memory of the feed and length of a second:

* `DeletionsStayAccountedFor`: `Spec => []DeletionsAreAccountedFor`, a confirmed receipt
  missed nothing of its whole seconds, and each tombstone stands beside the receipt that
  explains it.
* `RetriesLoseNothing`: `Spec => RefusalsLoseNothing`.

The invariant adds that a window a receipt calls complete is over (`HeldIsComplete`,
`ConfirmedIsOver`), so that nothing is deleted within it any more, that an id says what it
was made of (`ReceiptType`) and that each record a receipt lists has a tombstone of its run
(`ListedAreTombstoned`). `SecondIsBegun` is the arithmetic of the truncated second. They
assume `SecondsAssumption`, `WindowsAssumption` and `BoundsAssumption`.

Of the sessions it proves, for any limits, delays and cursors and whatever the vendor
answers:

* `SessionsStayBounded`: `SessionSpec => []SessionIsBounded`, grants stay within the limits of
  every window and day, what reaches the wire is four times that and three more,
  and no cursor is accepted twice.
* `RefusalsEndInAWindow`: `SessionSpec => []RefusalsEnd`.

A limiter keeps a deque of grants, the properties speak of a history it does not have.
`Follows` ties one to the other: by age, the history of grants is the deque's. What
reached the wire is bounded by four times the grants of the same age and the requests of the
call in progress, and a refusal means that a window is full whose entries age. They
assume `LimitsAssumption`, `DelaysAssumption` and `DriverAssumption`: windows, limits,
delays and cursors are positive numbers.

`AnalystProofs` proves the four safety properties of `Analyst`, for any transcripts,
any observations a provider may submit and any policy:

* `AppliedIsQuoted`: `Spec => []EvidenceIsQuoted`. `ValidIsQuoted` reads the quote off the
  checks of the validator; its first objection exists because positions have a first one
  (`FirstExists`), so that an observation it accepts has none (`ValidHasNoObjection`).
* `CandidatesAreDecidedOnce`: `Spec => []EveryCandidateIsDecidedOnce`. Validator and contracts
  count citations differently; `StatementsBoundCitations` says that two statements
  come from two citations, so no contract refuses what the validator accepts
  (`ValidIsNotRefused`, `ReceiptIsAccepted`).
* `RecordingsMatchTheirInput`: `Spec => []StaleRecordingIsNotApplied`.
* `DigestFollowsReadiness`: `Spec => []DigestMatchesReadiness`.

The invariant is that the evidence is what the valid observations say (`Progress`) and that
past the first phase the words are those of the recording (`PhaseType`). They assume
`RawsAssumption` and `TextsAssumption`, which are the types of the contracts,
`AcceptedAssumption` and `BoundAssumption`.

**Only model-checked** are the liveness properties, `WalksEnd` of a session, `RunEnds` of
the analyst and `MigrationsComplete`: liveness under fairness, and `ENABLED`, on which
fairness rests, are out of the prover's reach, as are the values that a recursive definition
computes for every input. Where a proof needs induction, it is over the set of numbers, or
of finite sets, for which a statement holds. Every other property of a run is a theorem
above.

## 5. Abstractions and what is not modelled

* Data: contents of receipts, JSON, hashes (ideal), formatting and the fields of
  records are left out; a record is an id with a version, an artifact an id, a text a
  tuple of words.
* `EvaluateEligibility` leaves out `consultant.validate_for_lane` (`eligibility.py:85`), which
  raises for a consultant whose frozen record the lane does not accept: the model may then
  go on where the code stops, which only adds behaviours.
* CP-SAT is external: the models say what an optimum is, not how it is found. Two
  weeks stand for four and small numbers for basis points.
* The monotone clock of a session is a tick; the UTC date only moves forward. Delays
  and windows are scaled, their order kept.
* A crash inside a method is a rollback (SQLite's guarantee, external); a crash inside
  a script of migrations is not, and is modelled.
* A row of a file is whether it maps, whether it projects, its native id and its version;
  field conversions and lineage edges are data. `Intake` leaves source conflicts and orphan
  references empty, as the acceptance test of the import path does; `SetupGate` has them
  as inputs of the health decision.
* ClickUp pages are not ordered by their update time, and their high-water mark is the
  largest of the page (`ingestion/clickup.py:305`). `SourceResume` has the order of
  Salesforce; the guarantee does not carry over, and nothing in the repository says
  that it does.

Not modelled:

* `retention.py`: a list of files is deleted one by one, and a file that an interrupted
  deletion removed makes the same list fail later (`retention.py:110`): file system
  calls on one list, which a test reaches.
* `privacy.py` and `lineage.py`: scans of one value or one row at a time, without state.
* Requests built and responses parsed by the adapters, URL, header and DNS checks,
  conversions: data handling of one value.
* The byte-offset resume of a file import, and `create_backup`.
* `reconcile_file_deletions` (`ingestion/deletions.py`): a pure function on three sets
  that nothing in the program calls, so that no file import makes a tombstone.
* The texts: leadership digest, panels, copy, theme, wording of alternatives.
* Release scripts (one-shot, pure I/O), prompts and docs (no program).

## 6. Plan

Done:

* modelled and checked: ledger and its abstract specification, source reads, store,
  deletions, migrations, setup and health, intake and transcripts, adapter sessions, analyst,
  engine, optimizer with oracle and alternatives, export lineage, interface;
* proved: every safety invariant and action property of the runs, and the refinement of
  `LaneLedger`.

Next:

* abstract specifications of the store (a map from operations to what they publish) and of a
  solve (any best selection, at once), with the proofs that `StoreConnections` and
  `Portfolio` implement them;
* the byte-offset resume of a file import, in `Intake`;
* lemmas that `IngestionProofs` and `EngineProofs` state each for itself (`NaturalsByStep`,
  `FiniteByRemoval`) in a module of their own.
