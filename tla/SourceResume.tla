---------------------------- MODULE SourceResume ----------------------------
(***************************************************************************)
(* One direct-connector source read across process restarts: the           *)
(* checkpoints of WorkflowStore.commit_source_checkpoint, the plan         *)
(* source_resume_plan derives from them, and the pages a connector reads   *)
(* between the two.  The cursor of a vendor query is never stored, so a    *)
(* new process re-reads from the high-water mark minus an overlap and      *)
(* relies on the stable ID/version rows to recognise what it re-reads.     *)
(*                                                                         *)
(* External to the repository: the vendor, whose index lags behind its     *)
(* clock by at most Lag, and the driver loop, taken from the restart tests *)
(* (plan, query, one checkpoint per page, numbered on from the plan).  The *)
(* query of query_page has no date filter of its own; the window from the  *)
(* restart point on is the driver's, as get_changed_ids_incremental's.     *)
(* A file import resumes at a byte offset instead and is not modelled.     *)
(***************************************************************************)
EXTENDS WorkflowGraph, Integers, FiniteSets

CONSTANTS
  Ids,        \* source records
  Drivers,    \* processes that may read the source, also at the same time
  Overlap,    \* overlap_seconds of the source run
  Lag,        \* how long a change may stay invisible to a vendor query
  PageSize,   \* records of one vendor page
  Moves,      \* bound: source states that moves other than COMPLETE lead to
  MaxTime,    \* bound: the vendor's clock
  MaxPages    \* bound: checkpoints of the source run

\* start_source_run refuses a direct connector whose overlap is not positive.
ASSUME OverlapAssumption == Overlap \in Nat \ {0}
ASSUME LagAssumption == Lag \in Nat /\ Lag <= Overlap
ASSUME SizesAssumption == {PageSize, MaxTime} \subseteq Nat \ {0} /\ MaxPages \in Nat
ASSUME MovesAssumption == Moves \subseteq SourceStates \ {"COMPLETE"}

VARIABLES
  clock,        \* vendor time
  modified,     \* vendor: when each record last changed (0: not created yet)
  visible,      \* vendor: the change of each record that queries return
  sourceState,  \* source_runs.state
  checkpoints,  \* table source_checkpoints
  records,      \* table source_checkpoint_records
  drivers,      \* memory of each process
  reports,      \* history: how often a version was returned as accepted
  completed     \* history: what the vendor held when the completing driver queried

vars == <<clock, modified, visible, sourceState, checkpoints, records, drivers,
          reports, completed>>
vendorVars == <<clock, modified, visible>>

\* A page without records has no high-water mark (NULL).
NoMark == 0
Times == 0..MaxTime
Versions == Ids \X Times
Idle == [active |-> FALSE, page |-> 0, restart |-> 0, rest |-> {}, found |-> {}]

TypeOK ==
  /\ clock \in Times
  /\ modified \in [Ids -> Times] /\ visible \in [Ids -> Times]
  /\ sourceState \in SourceStates
  /\ checkpoints \subseteq [page : 1..MaxPages, high_water_mark : Times]
  /\ records \subseteq Versions
  /\ drivers \in [Drivers -> [active : BOOLEAN, page : 0..MaxPages,
                              restart : (0 - Overlap)..MaxTime,
                              rest : SUBSET Versions, found : SUBSET Versions]]
  /\ reports \in [Versions -> Nat]
  /\ completed \subseteq Versions

Init ==
  /\ clock = 1
  /\ modified \in [Ids -> {0, 1}]
  /\ visible = modified
  /\ sourceState = "PENDING"
  /\ checkpoints = {}
  /\ records = {}
  /\ drivers = [d \in Drivers |-> Idle]
  /\ reports = [v \in Versions |-> 0]
  /\ completed = {}

-----------------------------------------------------------------------------
(***************************************************************************)
(* The vendor (external): a record changes, the change reaches the index   *)
(* of the queries, and time passes, but never beyond the lag of a change.  *)
(***************************************************************************)
Modify(id) ==
  /\ modified' = [modified EXCEPT ![id] = clock]
  /\ UNCHANGED <<clock, visible, sourceState, checkpoints, records, drivers,
                 reports, completed>>

Publish(id) ==
  /\ visible[id] # modified[id]
  /\ visible' = [visible EXCEPT ![id] = modified[id]]
  /\ UNCHANGED <<clock, modified, sourceState, checkpoints, records, drivers,
                 reports, completed>>

Tick ==
  /\ clock < MaxTime
  /\ \A id \in Ids : visible[id] # modified[id] => clock - modified[id] < Lag
  /\ clock' = clock + 1
  /\ UNCHANGED <<modified, visible, sourceState, checkpoints, records, drivers,
                 reports, completed>>

Visible == {<<id, visible[id]>> : id \in {i \in Ids : visible[i] # 0}}

-----------------------------------------------------------------------------
(***************************************************************************)
(* source_resume_plan: the checkpoint with the highest page number gives   *)
(* the page to continue from and the mark to restart at.                   *)
(***************************************************************************)
CommittedPage ==
  IF checkpoints = {} THEN 0
  ELSE CHOOSE p \in {c.page : c \in checkpoints} :
         \A c \in checkpoints : c.page <= p

HighWaterMark ==
  IF checkpoints = {} THEN NoMark
  ELSE (CHOOSE c \in checkpoints : c.page = CommittedPage).high_water_mark

RestartWithoutOverlap == HighWaterMark   \* mutant: the overlap is forgotten

RestartHighWater ==
  IF HighWaterMark = NoMark THEN 0 ELSE HighWaterMark - Overlap

(***************************************************************************)
(* A new process asks for the plan and reads the vendor's window from      *)
(* there; the cursor of that read lives in its memory only.                *)
(***************************************************************************)
Query(restart) == {v \in Visible : v[2] >= restart}

Resume(d) ==
  /\ ~drivers[d].active
  /\ drivers' = [drivers EXCEPT ![d] =
       [active |-> TRUE, page |-> CommittedPage, restart |-> RestartHighWater,
        rest |-> Query(RestartHighWater), found |-> Visible]]
  /\ UNCHANGED <<vendorVars, sourceState, checkpoints, records, reports, completed>>

(***************************************************************************)
(* query_page: the next records in the order of LastModifiedDate, Id, and  *)
(* the page's high-water mark.                                             *)
(***************************************************************************)
NextPage(rest, page) ==
  /\ page \subseteq rest
  /\ Cardinality(page) <= PageSize
  /\ page # rest => Cardinality(page) = PageSize
  /\ \A v \in page, w \in rest \ page : v[2] <= w[2]

MarkOf(page) ==
  IF page = {} THEN NoMark
  ELSE CHOOSE t \in {v[2] : v \in page} : \A v \in page : v[2] <= t

(***************************************************************************)
(* commit_source_checkpoint: only while READING, and only for a page that  *)
(* has no checkpoint yet (unique index).  One transaction inserts the      *)
(* versions that are new, reports those as accepted, and the checkpoint.   *)
(***************************************************************************)
CommitReplacing(d, page) ==   \* mutant: INSERT OR REPLACE counts every row
  /\ drivers[d].active
  /\ sourceState = "READING"
  /\ drivers[d].page < MaxPages
  /\ \A c \in checkpoints : c.page # drivers[d].page + 1
  /\ NextPage(drivers[d].rest, page)
  /\ records' = records \cup page
  /\ reports' = [v \in Versions |-> reports[v] + (IF v \in page THEN 1 ELSE 0)]
  /\ checkpoints' = checkpoints \cup
       {[page |-> drivers[d].page + 1, high_water_mark |-> MarkOf(page)]}
  /\ drivers' = [drivers EXCEPT ![d].page = @ + 1, ![d].rest = @ \ page]
  /\ UNCHANGED <<vendorVars, sourceState, completed>>

CommitSourceCheckpoint(d, page) ==
  /\ drivers[d].active
  /\ sourceState = "READING"
  /\ drivers[d].page < MaxPages
  /\ \A c \in checkpoints : c.page # drivers[d].page + 1
  /\ NextPage(drivers[d].rest, page)
  /\ records' = records \cup page
  /\ reports' = [v \in Versions |->
       reports[v] + (IF v \in page \ records THEN 1 ELSE 0)]
  /\ checkpoints' = checkpoints \cup
       {[page |-> drivers[d].page + 1, high_water_mark |-> MarkOf(page)]}
  /\ drivers' = [drivers EXCEPT ![d].page = @ + 1, ![d].rest = @ \ page]
  /\ UNCHANGED <<vendorVars, sourceState, completed>>

(***************************************************************************)
(* transition_source.  A driver declares the source COMPLETE once its      *)
(* query is exhausted; any other move of the source may happen at any time *)
(* (preflight, rate limit, lost credentials, cancellation).                *)
(***************************************************************************)
TransitionSource(new) ==
  /\ <<sourceState, new>> \in SourceTransitions
  /\ sourceState' = new
  /\ UNCHANGED <<vendorVars, checkpoints, records, drivers, reports, completed>>

CompleteSource(d) ==
  /\ drivers[d].active /\ drivers[d].rest = {}
  /\ <<sourceState, "COMPLETE">> \in SourceTransitions
  /\ sourceState' = "COMPLETE"
  /\ completed' = drivers[d].found
  /\ UNCHANGED <<vendorVars, checkpoints, records, drivers, reports>>

(***************************************************************************)
(* A process ends, at any point between two calls: by a crash, or because  *)
(* a call was refused.                                                     *)
(***************************************************************************)
Crash(d) ==
  /\ drivers[d].active
  /\ drivers' = [drivers EXCEPT ![d] = Idle]
  /\ UNCHANGED <<vendorVars, sourceState, checkpoints, records, reports, completed>>

Next ==
  \/ \E id \in Ids : Modify(id) \/ Publish(id)
  \/ Tick
  \/ \E d \in Drivers :
       \/ Resume(d)
       \/ \E page \in SUBSET drivers[d].rest : CommitSourceCheckpoint(d, page)
       \/ CompleteSource(d)
       \/ Crash(d)
  \/ \E new \in Moves : TransitionSource(new)

Spec == Init /\ [][Next]_vars

-----------------------------------------------------------------------------
(***************************************************************************)
(* The point a new process would restart at leaves nothing behind: every   *)
(* version older than that point which a query can see has been accepted,  *)
(* although each process only read a window and any of them may have died. *)
(***************************************************************************)
NothingBehindRestart ==
  \A v \in Visible : v[2] < RestartHighWater => v \in records

(***************************************************************************)
(* A version is returned as accepted at most once, however often windows   *)
(* overlap and whichever process reads it.                                 *)
(***************************************************************************)
AcceptedOnce == \A v \in Versions : reports[v] = (IF v \in records THEN 1 ELSE 0)

(***************************************************************************)
(* A source marked COMPLETE holds everything a query from the beginning    *)
(* would have returned when the completing process opened its window.      *)
(***************************************************************************)
CompleteMeansAll == completed \subseteq records

(***************************************************************************)
(* Whatever dies on the way, no record is lost: neither to a process that  *)
(* starts later nor to a source that was declared complete. (Types are     *)
(* checked along with it.)                                                 *)
(***************************************************************************)
NothingIsLost == TypeOK /\ NothingBehindRestart /\ CompleteMeansAll

=============================================================================
