------------------------------- MODULE Intake -------------------------------
(***************************************************************************)
(* How one run gets its data: files are read, mapped and staged row by     *)
(* row, transcripts are merged in memory and their metadata is stored,     *)
(* data health judges what the imports returned, and an accepted receipt   *)
(* commits everything that is staged for the run.  The driver makes the    *)
(* calls and may die between any two of them; what the imports returned is *)
(* then lost, what they staged is not.                                     *)
(*                                                                         *)
(* The driver imports each file once per attempt and assesses health       *)
(* after its imports, as the acceptance test of the import path does.      *)
(***************************************************************************)
EXTENDS Transcripts, Sequences, FiniteSetsExt

CONSTANTS
  Rows,     \* the rows of files, by what becomes of them
  Inputs,   \* what a run is given: lane, files, corrected files, routes, supply
  MaxRows,  \* the manifest's bound on the rows of a file
  None

ASSUME BoundsAssumption == MaxRows \in Nat \ {0}

VARIABLES
  input,        \* files may be corrected between two attempts
  confirmed,    \* pairs of routes the manager confirmed
  staged,       \* table operational_staging
  committed,    \* table canonical_artifacts
  metadata,     \* table conversation_evidence_metadata
  job,          \* the import in progress
  populations,  \* what the imports of this attempt returned
  transcripts,  \* what the staging of transcripts returned
  health,       \* the last data health receipt
  abandoned     \* history: rows staged by imports whose outcome is lost

tables == <<staged, committed, metadata>>
intakeVars == <<input, confirmed, tables, job, populations, transcripts, health, abandoned>>

Deal == "DEAL_WORK_REQUEST"
Supply == {"CONSULTANT", "CAPACITY_AVAILABILITY", "WORKLOAD_COMMITMENT", "SKILL_ASSERTION"}
Kinds == {Deal} \cup Supply

RequiredPopulationsByLane ==
  [DEAL_PRIORITIZATION |-> {Deal},
   ASSIGNMENT_RECOMMENDATION |-> Kinds,
   CAPACITY_HEATMAP |-> Kinds]

\* A correction replaces files, and takes none away.
IsInput(i) ==
  /\ DOMAIN i = {"lane", "files", "corrected", "routes", "completeConsultants"}
  /\ i.lane \in DOMAIN RequiredPopulationsByLane
  /\ DOMAIN i.files \subseteq DOMAIN i.corrected /\ DOMAIN i.corrected \subseteq Kinds
  /\ \A k \in DOMAIN i.files : i.files[k] \in Seq(Rows)
  /\ \A k \in DOMAIN i.corrected : i.corrected[k] \in Seq(Rows)
  /\ AreRoutes(i.routes)

ASSUME InputsAssumption == \A i \in Inputs : IsInput(i)

NoPopulations == [k \in {} |-> 0]
NoJob == [kind |-> None]

\* A canonical artifact id is a hash of what the row was projected to.
Artifact(kind, row) == [kind |-> kind, native |-> row.native, version |-> row.version]

-----------------------------------------------------------------------------
\* The driver goes on importing until a receipt is accepted.
Undecided == health # None => ~health.accepted

(***************************************************************************)
(* The reader stops at the row bound and says that the read is partial.    *)
(***************************************************************************)
Read(file) == SubSeq(file, 1, Min({Len(file), MaxRows}))

StartImport(kind) ==
  /\ job = NoJob /\ kind \in DOMAIN input.files \ DOMAIN populations
  /\ Undecided
  /\ job' = [kind |-> kind, rows |-> Read(input.files[kind]), next |-> 1,
             complete |-> Len(input.files[kind]) <= MaxRows,
             seen |-> NoPopulations, unmapped |-> 0, issues |-> 0, conflicts |-> 0, repeated |-> 0]
  /\ UNCHANGED <<input, confirmed, tables, populations, transcripts, health, abandoned>>

\* Deal prioritization consumes no other kind of record.
Projects(kind, row) == row.projects /\ (input.lane = "DEAL_PRIORITIZATION" => kind = Deal)

RepeatsArtifact(row) ==   \* mutant: only a row with the same content is a duplicate
  row.native \in DOMAIN job.seen /\ job.seen[row.native] = row.version

Repeats(row) == row.native \in DOMAIN job.seen

Accepted(j) ==
  {[kind |-> j.kind, native |-> n, version |-> j.seen[n]] : n \in DOMAIN j.seen}

Seen(row) ==
  [n \in DOMAIN job.seen \cup {row.native} |-> IF n = row.native THEN row.version ELSE job.seen[n]]

(***************************************************************************)
(* One row of the loop.  The first three ways count it and stage nothing;  *)
(* the fourth stages it in a transaction of its own; the fifth is the      *)
(* unique key of the staging table, whose error ends the import.           *)
(***************************************************************************)
ImportRow ==
  /\ job # NoJob /\ job.next <= Len(job.rows)
  /\ LET row == job.rows[job.next]
         artifact == Artifact(job.kind, row)
         counted == [job EXCEPT !.next = @ + 1]
         reaches == row.mapped /\ Projects(job.kind, row) /\ row.native # None
     IN \/ /\ ~row.mapped
           /\ job' = [counted EXCEPT !.unmapped = @ + 1]
           /\ UNCHANGED <<staged, abandoned>>
        \/ /\ row.mapped /\ ~reaches
           /\ job' = [counted EXCEPT !.issues = @ + 1]
           /\ UNCHANGED <<staged, abandoned>>
        \/ /\ reaches /\ Repeats(row)
           /\ LET differs == IF job.seen[row.native] # row.version THEN 1 ELSE 0
              IN job' = [counted EXCEPT !.repeated = @ + 1, !.issues = @ + differs,
                                        !.conflicts = @ + differs]
           /\ UNCHANGED <<staged, abandoned>>
        \/ /\ reaches /\ ~Repeats(row) /\ artifact \notin staged
           /\ staged' = staged \cup {artifact}
           /\ job' = [counted EXCEPT !.seen = Seen(row)]
           /\ UNCHANGED abandoned
        \/ /\ reaches /\ ~Repeats(row) /\ artifact \in staged
           /\ job' = NoJob
           /\ abandoned' = abandoned \cup Accepted(job)
           /\ UNCHANGED staged
  /\ UNCHANGED <<input, confirmed, committed, metadata, populations, transcripts, health>>

PopulationOfAllIssues ==   \* mutant: a conflicting duplicate is also counted as quarantined
  [accepted |-> Accepted(job), duplicate |-> job.repeated, complete |-> job.complete,
   quarantined |-> job.unmapped + job.issues, parsed |-> Len(job.rows)]

Population ==
  [accepted |-> Accepted(job), duplicate |-> job.repeated, complete |-> job.complete,
   quarantined |-> job.unmapped + job.issues - job.conflicts, parsed |-> Len(job.rows)]

FinishImport ==
  /\ job # NoJob /\ job.next > Len(job.rows)
  /\ populations' = [k \in DOMAIN populations \cup {job.kind} |->
                       IF k = job.kind THEN Population ELSE populations[k]]
  /\ job' = NoJob
  /\ UNCHANGED <<input, confirmed, tables, transcripts, health, abandoned>>

-----------------------------------------------------------------------------
StageTranscripts ==
  /\ job = NoJob /\ input.routes # {} /\ ~Raises(input.lane, input.routes)
  /\ Undecided
  /\ transcripts' = StageTranscriptsInMemory(input.routes, confirmed)
  /\ UNCHANGED <<input, confirmed, tables, job, populations, health, abandoned>>

\* The manager confirms a pair the last staging reported.
Confirm ==
  /\ transcripts # None
  /\ \E pair \in transcripts.conflicts : confirmed' = confirmed \cup {pair}
  /\ UNCHANGED <<input, tables, job, populations, transcripts, health, abandoned>>

\* conversation_origin_id is a hash of the origin and the content.
OriginId(r) == <<r.origin, r.content>>

PersistConversationMetadata(r) ==
  /\ transcripts # None /\ r \in transcripts.retained
  /\ OriginId(r) \notin metadata
  /\ metadata' = metadata \cup {OriginId(r)}
  /\ UNCHANGED <<input, confirmed, staged, committed, job, populations, transcripts, health, abandoned>>

-----------------------------------------------------------------------------
(***************************************************************************)
(* assess_data_health over what the imports and the staging returned.  How *)
(* many consultants are complete is computed by the driver.                *)
(***************************************************************************)
Missing ==
  (RequiredPopulationsByLane[input.lane] \ DOMAIN populations)
  \cup {k \in {Deal} : k \in DOMAIN populations /\ populations[k].accepted = {}}
  \cup {k \in {"COMPLETE_CONSULTANT_SUPPLY"} :
          input.lane # "DEAL_PRIORITIZATION" /\ input.completeConsultants = 0}

ConversationConflicts == IF transcripts = None THEN {} ELSE transcripts.conflicts

AssessDataHealth ==
  /\ job = NoJob /\ populations # NoPopulations
  /\ Undecided
  /\ health' = [populations |-> populations,
                accepted |-> Missing = {} /\ ConversationConflicts = {}]
  /\ UNCHANGED <<input, confirmed, tables, job, populations, transcripts, abandoned>>

(***************************************************************************)
(* commit_operational takes all staged rows of the run; artifact ids are   *)
(* primary keys, so a row that was committed before undoes the commit.     *)
(* Either way the driver is done with what it has in memory.               *)
(***************************************************************************)
CommitOperational ==
  /\ health # None /\ health.accepted
  /\ IF staged \cap committed = {}
     THEN committed' = committed \cup staged /\ staged' = {} /\ abandoned' = {}
     ELSE abandoned' = staged /\ UNCHANGED <<staged, committed>>
  /\ populations' = NoPopulations /\ transcripts' = None /\ health' = None
  /\ UNCHANGED <<input, confirmed, metadata, job>>

ResetRun ==
  /\ job = NoJob
  /\ staged' = {} /\ committed' = {} /\ metadata' = {} /\ abandoned' = {}
  /\ populations' = NoPopulations /\ transcripts' = None /\ health' = None
  /\ UNCHANGED <<input, confirmed, job>>

DriverDies ==
  /\ job' = NoJob /\ populations' = NoPopulations /\ transcripts' = None /\ health' = None
  /\ abandoned' = staged
  /\ UNCHANGED <<input, confirmed, tables>>

\* Somebody corrects the files between two attempts.
Correct ==
  /\ job = NoJob /\ populations = NoPopulations
  /\ input' = [input EXCEPT !.files = input.corrected]
  /\ UNCHANGED <<confirmed, tables, job, populations, transcripts, health, abandoned>>

IntakeInit ==
  /\ input \in Inputs
  /\ confirmed = {}
  /\ staged = {} /\ committed = {} /\ metadata = {}
  /\ job = NoJob /\ populations = NoPopulations
  /\ transcripts = None /\ health = None /\ abandoned = {}

IntakeNext ==
  \/ \E kind \in Kinds : StartImport(kind)
  \/ ImportRow \/ FinishImport
  \/ StageTranscripts \/ Confirm
  \/ \E r \in input.routes : PersistConversationMetadata(r)
  \/ AssessDataHealth \/ CommitOperational
  \/ ResetRun \/ DriverDies \/ Correct

IntakeSpec == IntakeInit /\ [][IntakeNext]_intakeVars

-----------------------------------------------------------------------------
AcceptedOf(p) == UNION {p[k].accepted : k \in DOMAIN p}

IntakeTypeOK ==
  /\ job # NoJob => /\ job.kind \in Kinds /\ job.next \in 1..(MaxRows + 1)
                   /\ Accepted(job) \subseteq staged
  /\ AcceptedOf(populations) \subseteq staged
  /\ abandoned \subseteq staged
  /\ \A a \in staged \cup committed : a.kind \in DOMAIN input.files

(***************************************************************************)
(* The equation every population must satisfy ("parsed = accepted +        *)
(* quarantined + excluded + duplicate") holds for whatever a file brings,  *)
(* so an import never fails after having staged all of its rows; and the   *)
(* accepted rows are one for each native id.  (Types are checked along     *)
(* with it.)                                                               *)
(***************************************************************************)
CountsReconcile ==
  /\ IntakeTypeOK
  /\ \A k \in DOMAIN populations :
       LET p == populations[k]
       IN /\ p.parsed = Cardinality(p.accepted) + p.quarantined + p.duplicate
          /\ \A a, b \in p.accepted : a.native = b.native => a = b

(***************************************************************************)
(* A commit publishes what its receipt counts, at least one deal, and      *)
(* beyond that only rows of imports whose outcome was lost.  Two versions  *)
(* of one record are published together only by such a leftover.           *)
(***************************************************************************)
CommitPublishesCounts ==
  [][committed' \ committed # {} =>
       LET published == committed' \ committed
           counted == AcceptedOf(health.populations)
       IN /\ counted \subseteq published /\ published \ counted \subseteq abandoned
          /\ \E a \in counted : a.kind = Deal
          /\ \A a, b \in published :
               a # b /\ a.kind = b.kind /\ a.native = b.native => {a, b} \cap abandoned # {}]_intakeVars

(***************************************************************************)
(* No route gets lost and no content is analyzed twice or while disputed:  *)
(* a route is retained, or a duplicate, or in a conflict; a retained one   *)
(* is in no conflict and no other has its content; without conflicts every *)
(* duplicate leads to a retained route; and metadata that was stored stays *)
(* that of a retained route while confirmations are added.                 *)
(***************************************************************************)
RouteIds(S) == {r.id : r \in S}

NoRouteIsLost(t) ==
  RouteIds(input.routes) = RouteIds(t.retained) \cup {e.duplicate : e \in t.duplicates} \cup UNION t.conflicts

RetainedIsUndisputed(t) ==
  /\ RouteIds(t.retained) \cap UNION t.conflicts = {}
  /\ \A r, s \in t.retained : r.content = s.content => r = s

DuplicatesLeadToRetained(t) ==
  t.conflicts = {} =>
    \A r \in input.routes : \E s \in t.retained : s.content = r.content

StagingIsSettled ==
  /\ transcripts # None => /\ NoRouteIsLost(transcripts)
                           /\ RetainedIsUndisputed(transcripts)
                           /\ DuplicatesLeadToRetained(transcripts)
  /\ \A m \in metadata : \E r \in Retained(input.routes, confirmed) : OriginId(r) = m

=============================================================================
