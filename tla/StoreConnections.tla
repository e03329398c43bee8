-------------------------- MODULE StoreConnections --------------------------
(***************************************************************************)
(* The store and the workflow store on one SQLite file, each connection in *)
(* a process of its own.  An operation is one of three kinds:              *)
(*   plain     execute an INSERT, then commit: nothing undoes a failure    *)
(*   scoped    "with connection": commits, or rolls back on any failure    *)
(*   explicit  BEGIN IMMEDIATE outside a try whose handler rolls back      *)
(* and some read before they begin.  The locks are SQLite's rollback       *)
(* journal's, and the implicit BEGIN before an INSERT is the driver's      *)
(* (external).  The busy timeout is a choice between waiting and raising.  *)
(***************************************************************************)
EXTENDS Naturals, FiniteSets

CONSTANTS
  Conns,       \* connections, one per process
  Runs, Artifacts, Ids,
  Workloads,   \* what the processes of one file may be doing: operations and ids
  MaxEvents    \* bound: events of a run

AllCalls ==
  {"CREATE", "ATTEST", "PROFILE", "ACCEPT", "STAGE", "COMMIT", "CONVERSE", "EXCERPT",
   "TRANSITION", "RESUME", "RESET"}

ASSUME WorkloadsAssumption ==
  Workloads \subseteq [calls : SUBSET AllCalls, ids : SUBSET Ids]
ASSUME BoundAssumption == MaxEvents \in Nat

VARIABLES
  load,   \* the workload of this file
  db,     \* the committed database
  work,   \* what the writing transaction sees; db when nobody writes
  tx,     \* tx[c]: "NONE", "OPEN" (no lock), "READ", "WRITE", "PENDING"
  call    \* call[c]: the operation c is executing, or the result of the last

vars == <<load, db, work, tx, call>>

Plain == {"CREATE", "ATTEST", "PROFILE", "ACCEPT"}
Scoped == {"STAGE"}
Explicit == AllCalls \ (Plain \cup Scoped \cup {"RESUME"})
Prereads == {"COMMIT", "EXCERPT", "RESUME"}

Rows == Runs \X (Artifacts \cup Ids)

Database ==
  [runs : SUBSET Runs,                   \* runs
   state : [Runs -> 0..MaxEvents],       \* ... and how far their row has come
   events : [Runs -> 0..MaxEvents],      \* number of events
   attested : SUBSET (Runs \X Ids),      \* attestations, manifests, receipts ...
   profiles : SUBSET Ids,                \* mapping_profiles, shared by the runs
   accepts : SUBSET (Runs \X Ids),       \* mapping_acceptances
   staging : SUBSET (Runs \X Artifacts), \* operational_staging
   canonical : SUBSET (Runs \X Artifacts),
   health : SUBSET (Runs \X Ids),        \* data_health_receipts
   talks : SUBSET Runs,                  \* conversation_evidence_metadata
   excerpts : SUBSET (Runs \X Ids),
   cited : [Runs -> SUBSET Ids]]         \* cited_excerpt_ids_json

EmptyDb ==
  [runs |-> {}, state |-> [r \in Runs |-> 0], events |-> [r \in Runs |-> 0],
   attested |-> {}, profiles |-> {}, accepts |-> {}, staging |-> {},
   canonical |-> {}, health |-> {}, talks |-> {}, excerpts |-> {}, cited |-> [r \in Runs |-> {}]]

Keys(rows) == {row[2] : row \in rows}
Of(r, rows) == {row \in rows : row[1] = r}

-----------------------------------------------------------------------------
(***************************************************************************)
(* What the statements of an operation need (primary keys, UNIQUE columns, *)
(* foreign keys and the operation's own checks) and what they do.  Primary *)
(* keys of artifacts are content hashes, shared by the runs.               *)
(***************************************************************************)
SharedProfilesIgnored(r, d) == {}   \* mutant: PRAGMA foreign_keys is off

\* the profiles r accepted and another run did too
SharedProfiles(r, d) ==
  Keys(Of(r, d.accepts)) \cap Keys(d.accepts \ Of(r, d.accepts))

Accepted(k, d) ==
  LET r == k.run
  IN CASE k.op = "CREATE" -> r \notin d.runs
       [] k.op = "ATTEST" -> r \in d.runs /\ k.id \notin Keys(d.attested)
       [] k.op = "PROFILE" -> k.id \notin d.profiles
       [] k.op = "ACCEPT" -> r \in d.runs /\ k.id \in d.profiles
       [] k.op = "STAGE" -> r \in d.runs /\ k.id \notin Keys(d.staging)
       [] k.op = "COMMIT" ->
            /\ r \in d.runs /\ k.id \notin Keys(d.health)
            /\ k.seen \cap Keys(d.canonical) = {}
       [] k.op = "CONVERSE" -> r \in d.runs /\ r \notin d.talks
       [] k.op = "EXCERPT" -> r \in d.talks /\ k.id \notin Keys(d.excerpts)
       [] k.op = "TRANSITION" -> r \in d.runs /\ d.state[r] < MaxEvents
       [] k.op = "RESET" -> SharedProfiles(r, d) = {}

AppliedCommitOfAllRuns(k, d) ==   \* mutant: DELETE FROM operational_staging without its WHERE
  [d EXCEPT !.health = @ \cup {<<k.run, k.id>>},
            !.canonical = @ \cup ({k.run} \X k.seen), !.staging = {}]

AppliedCommit(k, d) ==
  [d EXCEPT !.health = @ \cup {<<k.run, k.id>>},
            !.canonical = @ \cup ({k.run} \X k.seen),
            !.staging = @ \ Of(k.run, @)]

AppliedResetButEvents(r, d) ==   \* mutant: the events of the run are not deleted
  [runs |-> d.runs \ {r}, state |-> [d.state EXCEPT ![r] = 0], events |-> d.events,
   attested |-> d.attested \ Of(r, d.attested),
   profiles |-> d.profiles \ Keys(Of(r, d.accepts)),
   accepts |-> d.accepts \ Of(r, d.accepts),
   staging |-> d.staging \ Of(r, d.staging),
   canonical |-> d.canonical \ Of(r, d.canonical),
   health |-> d.health \ Of(r, d.health), talks |-> d.talks \ {r},
   excerpts |-> d.excerpts \ Of(r, d.excerpts),
   cited |-> [d.cited EXCEPT ![r] = {}]]

AppliedReset(r, d) ==
  [runs |-> d.runs \ {r}, state |-> [d.state EXCEPT ![r] = 0],
   events |-> [d.events EXCEPT ![r] = 0],
   attested |-> d.attested \ Of(r, d.attested),
   profiles |-> d.profiles \ Keys(Of(r, d.accepts)),
   accepts |-> d.accepts \ Of(r, d.accepts),
   staging |-> d.staging \ Of(r, d.staging),
   canonical |-> d.canonical \ Of(r, d.canonical),
   health |-> d.health \ Of(r, d.health), talks |-> d.talks \ {r},
   excerpts |-> d.excerpts \ Of(r, d.excerpts),
   cited |-> [d.cited EXCEPT ![r] = {}]]

CitedAlone(k) == {k.id}   \* mutant: the list starts anew with every excerpt

Cited(k) == k.seen \cup {k.id}

Applied(k, d) ==
  LET r == k.run
      row == {<<k.run, k.id>>}
  IN CASE k.op = "CREATE" -> [d EXCEPT !.runs = @ \cup {r}]
       [] k.op = "ATTEST" -> [d EXCEPT !.attested = @ \cup row]
       [] k.op = "PROFILE" -> [d EXCEPT !.profiles = @ \cup {k.id}]
       [] k.op = "ACCEPT" -> [d EXCEPT !.accepts = @ \cup row]
       [] k.op = "STAGE" -> [d EXCEPT !.staging = @ \cup row]
       [] k.op = "COMMIT" -> AppliedCommit(k, d)
       [] k.op = "CONVERSE" -> [d EXCEPT !.talks = @ \cup {r}]
       [] k.op = "EXCERPT" ->
            [d EXCEPT !.excerpts = @ \cup row, !.cited[r] = Cited(k)]
       [] k.op = "TRANSITION" -> [d EXCEPT !.events[r] = @ + 1, !.state[r] = @ + 1]
       [] k.op = "RESET" -> AppliedReset(r, d)

-----------------------------------------------------------------------------
Idle == [op |-> "NONE", run |-> "NONE", id |-> "NONE", phase |-> "IDLE",
         seen |-> {}, result |-> "NONE"]

Init ==
  /\ load \in Workloads
  /\ db = EmptyDb
  /\ work = EmptyDb
  /\ tx = [c \in Conns |-> "NONE"]
  /\ call = [c \in Conns |-> Idle]

Writing(c) == tx[c] \in {"WRITE", "PENDING"}
Busy(c) == \E o \in Conns \ {c} : Writing(o)
Readable(c) == \A o \in Conns \ {c} : tx[o] # "PENDING"
View(c) == IF Writing(c) THEN work ELSE db

Return(c, result) ==
  call' = [call EXCEPT ![c] = [Idle EXCEPT !.result = result]]

Goto(c, phase) == call' = [call EXCEPT ![c].phase = phase]

UndoForgotten(c) ==   \* mutant: the handler does not roll back
  /\ tx' = [tx EXCEPT ![c] = "WRITE"]
  /\ work' = [View(c) EXCEPT !.health = @ \cup (Runs \X Ids)]

(***************************************************************************)
(* connection.rollback()                                                   *)
(***************************************************************************)
Undo(c) ==
  /\ tx' = [tx EXCEPT ![c] = "NONE"]
  /\ work' = IF Writing(c) THEN db ELSE work

Call(c, op, r, x) ==
  /\ call[c].phase = "IDLE"
  /\ op \in load.calls
  /\ x \in IF op = "STAGE" THEN Artifacts ELSE load.ids
  /\ call' = [call EXCEPT ![c] =
                [op |-> op, run |-> r, id |-> x, seen |-> {}, result |-> "NONE",
                 phase |-> IF op \in Prereads THEN "READ" ELSE "EXECUTE"]]
  /\ UNCHANGED <<db, work, tx>>

(***************************************************************************)
(* A read outside a transaction of its own.  Inside one that the driver    *)
(* left open it takes the shared lock and keeps it.                        *)
(***************************************************************************)
Reads(c) ==
  /\ Readable(c)
  /\ tx' = IF tx[c] = "OPEN" THEN [tx EXCEPT ![c] = "READ"] ELSE tx

ReadLocked(c) ==
  /\ call[c].phase \in {"READ", "READ EVENTS"}
  /\ ~Readable(c)
  /\ Return(c, "RAISED")
  /\ UNCHANGED <<db, work, tx>>

\* commit_operational: the staged rows of the run
ReadStaging(c) ==
  /\ call[c].phase = "READ" /\ call[c].op = "COMMIT"
  /\ Reads(c)
  /\ call' = [call EXCEPT ![c].seen = Keys(Of(call[c].run, View(c).staging)),
                          ![c].phase = "EXECUTE"]
  /\ UNCHANGED <<db, work>>

\* persist_retention_approved_excerpt: the IDs cited so far
ReadCited(c) ==
  /\ call[c].phase = "READ" /\ call[c].op = "EXCERPT"
  /\ Reads(c)
  /\ IF call[c].run \in View(c).talks
     THEN call' = [call EXCEPT ![c].seen = View(c).cited[call[c].run],
                               ![c].phase = "EXECUTE"]
     ELSE Return(c, "RAISED")
  /\ UNCHANGED <<db, work>>

\* resume_run: the row of the run ...
ReadState(c) ==
  /\ call[c].phase = "READ" /\ call[c].op = "RESUME"
  /\ Reads(c)
  /\ IF call[c].run \in View(c).runs
     THEN call' = [call EXCEPT ![c].seen = {View(c).state[call[c].run]},
                               ![c].phase = "READ EVENTS"]
     ELSE Return(c, "RAISED")
  /\ UNCHANGED <<db, work>>

\* ... and then, in a statement of its own, its events
ReadEvents(c) ==
  /\ call[c].phase = "READ EVENTS"
  /\ Reads(c)
  /\ Return(c, IF call[c].seen = {View(c).events[call[c].run]}
               THEN "OK" ELSE "HIGH-WATER MISMATCH")
  /\ UNCHANGED <<db, work>>

(***************************************************************************)
(* BEGIN IMMEDIATE is outside the try: when it fails nothing is rolled     *)
(* back.  The statements follow under the write lock.                      *)
(***************************************************************************)
CannotBegin(c) ==
  /\ call[c].phase = "EXECUTE" /\ call[c].op \in Explicit
  /\ tx[c] # "NONE" \/ Busy(c)
  /\ Return(c, "RAISED")
  /\ UNCHANGED <<db, work, tx>>

ExecuteExplicit(c) ==
  /\ call[c].phase = "EXECUTE" /\ call[c].op \in Explicit
  /\ tx[c] = "NONE" /\ ~Busy(c)
  /\ IF Accepted(call[c], db)
     THEN /\ tx' = [tx EXCEPT ![c] = "WRITE"]
          /\ work' = Applied(call[c], db)
          /\ Goto(c, "COMMIT")
     ELSE Undo(c) /\ Return(c, "RAISED")
  /\ UNCHANGED db

(***************************************************************************)
(* An INSERT begins a transaction unless one is open, and takes the write  *)
(* lock before its constraints are checked.                                *)
(***************************************************************************)
InsertLocked(c) ==
  /\ call[c].phase = "EXECUTE" /\ call[c].op \in Plain \cup Scoped
  /\ Busy(c)
  /\ Return(c, "RAISED")
  /\ IF call[c].op \in Scoped THEN Undo(c)
     ELSE /\ tx' = [tx EXCEPT ![c] = IF @ = "NONE" THEN "OPEN" ELSE @]
          /\ UNCHANGED work
  /\ UNCHANGED db

Insert(c) ==
  /\ call[c].phase = "EXECUTE" /\ call[c].op \in Plain \cup Scoped
  /\ ~Busy(c)
  /\ LET locked == [tx EXCEPT ![c] = IF @ = "PENDING" THEN @ ELSE "WRITE"]
     IN IF Accepted(call[c], View(c))
        THEN tx' = locked /\ work' = Applied(call[c], View(c)) /\ Goto(c, "COMMIT")
        ELSE /\ Return(c, "RAISED")
             /\ IF call[c].op \in Scoped THEN Undo(c) ELSE tx' = locked /\ UNCHANGED work
  /\ UNCHANGED db

(***************************************************************************)
(* connection.commit(): another connection's shared lock makes it fail.    *)
(* A plain operation then leaves its row in the open transaction, which    *)
(* keeps new readers out.                                                  *)
(***************************************************************************)
Reader(c) == \E o \in Conns \ {c} : tx[o] = "READ"

Commit(c) ==
  /\ call[c].phase = "COMMIT"
  /\ ~Reader(c)
  /\ db' = work
  /\ tx' = [tx EXCEPT ![c] = "NONE"]
  /\ Return(c, "OK")
  /\ UNCHANGED work

CommitLocked(c) ==
  /\ call[c].phase = "COMMIT"
  /\ Reader(c)
  /\ Return(c, "RAISED")
  /\ IF call[c].op \in Plain
     THEN tx' = [tx EXCEPT ![c] = "PENDING"] /\ UNCHANGED work
     ELSE Undo(c)
  /\ UNCHANGED db

\* The process ends, for whatever reason; SQLite rolls its transaction back.
Crash(c) ==
  /\ call[c] # Idle \/ tx[c] # "NONE"
  /\ call' = [call EXCEPT ![c] = Idle]
  /\ Undo(c)
  /\ UNCHANGED db

Step(c) ==
  \/ ReadLocked(c) \/ ReadStaging(c) \/ ReadCited(c) \/ ReadState(c) \/ ReadEvents(c)
  \/ CannotBegin(c) \/ ExecuteExplicit(c)
  \/ InsertLocked(c) \/ Insert(c)
  \/ Commit(c) \/ CommitLocked(c)

Next ==
  /\ UNCHANGED load
  /\ \E c \in Conns :
    \/ \E op \in load.calls, r \in Runs, x \in Artifacts \cup Ids : Call(c, op, r, x)
    \/ Step(c)
    \/ Crash(c)

Spec == Init /\ [][Next]_vars

-----------------------------------------------------------------------------
TypeOK ==
  /\ db \in Database /\ work \in Database
  /\ tx \in [Conns -> {"NONE", "OPEN", "READ", "WRITE", "PENDING"}]
  /\ \A c \in Conns :
       /\ call[c].op \in load.calls \cup {"NONE"}
       /\ call[c].phase \in {"IDLE", "READ", "READ EVENTS", "EXECUTE", "COMMIT"}
       /\ call[c].phase = "COMMIT" => Writing(c)
       /\ \A o \in Conns : Writing(c) /\ Writing(o) => c = o
  /\ (\A c \in Conns : ~Writing(c)) => work = db

(***************************************************************************)
(* commit_operational is all or nothing whatever else happens, a crash     *)
(* included: an artifact is canonical only beside a data health receipt of *)
(* its run.                                                                *)
(***************************************************************************)
ArtifactsHaveReceipts ==
  \A row \in db.canonical : \E receipt \in db.health : receipt[1] = row[1]

(***************************************************************************)
(* The row of a run and its events are committed together.                 *)
(***************************************************************************)
RowMatchesEvents == \A r \in Runs : db.state[r] = db.events[r]

(***************************************************************************)
(* A mapping profile that a run accepted is there, whichever run brought   *)
(* it and whichever is purged: reset_run deletes the profiles of its run,  *)
(* and is refused as a whole while another run has one of them.            *)
(***************************************************************************)
AcceptancesHaveProfiles == Keys(db.accepts) \subseteq db.profiles

(***************************************************************************)
(* A connection between two calls may be inside a transaction.  All that   *)
(* it may hold is rows of plain inserts that raised at their commit: no    *)
(* part of a staged row, a commit, a transition or a reset.                *)
(***************************************************************************)
PlainRows == {"runs", "attested", "profiles", "accepts"}

OnlyPlainRowsMore(old, new) ==
  \A f \in DOMAIN old : IF f \in PlainRows THEN old[f] \subseteq new[f] ELSE new[f] = old[f]

OpenWorkIsPlainRows ==
  \A c \in Conns : Writing(c) /\ call[c].phase = "IDLE" => OnlyPlainRowsMore(db, work)

\* Nothing half done is ever visible, nor kept to be published later.
WritesAreWhole ==
  /\ TypeOK
  /\ ArtifactsHaveReceipts /\ AcceptancesHaveProfiles /\ RowMatchesEvents
  /\ OpenWorkIsPlainRows

(***************************************************************************)
(* A staged row leaves the staging table by becoming canonical or by the   *)
(* reset of its run.  Only a row that another process stages between       *)
(* commit_operational's read and its transaction goes nowhere.             *)
(***************************************************************************)
StagedRowsAreAccountedFor ==
  [][\A row \in db.staging \ db'.staging :
       \/ row \in db'.canonical
       \/ row[1] \notin db'.runs
       \/ \E c \in Conns : /\ call[c].op = "COMMIT" /\ call[c].run = row[1]
                           /\ row[2] \notin call[c].seen]_vars

(***************************************************************************)
(* The committed database changes by exactly one returning operation.      *)
(* What raised has no effect, then or later, with one exception: the row   *)
(* of a plain insert that raised at its commit is published by the next    *)
(* insert of that connection, plain or scoped.                             *)
(***************************************************************************)
OneOperationPerCommit ==
  [][db' # db =>
       \E c \in Conns :
         LET alone == Applied(call[c], db)
         IN /\ call[c].phase = "COMMIT" /\ call'[c].result = "OK"
            /\ \/ db' = alone
               \/ call[c].op \in Plain \cup Scoped /\ OnlyPlainRowsMore(alone, db')]_vars

(***************************************************************************)
(* resume_run reads the row of a run and then its events.  It refuses a    *)
(* high-water mark only if another process has changed the row in between, *)
(* never one that stands; and it answers with a row only if that row is    *)
(* still the run's.                                                        *)
(***************************************************************************)
MismatchesAreRaces ==
  [][\A c \in Conns : call[c].phase = "READ EVENTS" =>
       LET current == call[c].seen = {View(c).state[call[c].run]}
       IN /\ call'[c].result = "HIGH-WATER MISMATCH" => ~current
          /\ call'[c].result = "OK" => current]_vars

Citing(c, r) == call[c].op = "EXCERPT" /\ call[c].run = r

(***************************************************************************)
(* The cited IDs of a conversation are those of its stored excerpts, but   *)
(* for what another process committed between the read of the list and its *)
(* rewrite: an excerpt stored then drops out of the list, and the IDs of a *)
(* run reset and imported again then come back without their excerpts.     *)
(***************************************************************************)
CitedAreAccountedFor ==
  [][\A r \in Runs :
       /\ \A x \in db.cited[r] \ db'.cited[r] :
            r \notin db'.runs \/ \E c \in Conns : Citing(c, r) /\ x \notin call[c].seen
       /\ \A x \in db'.cited[r] \ db.cited[r] :
            <<r, x>> \in db'.excerpts \/ \E c \in Conns : Citing(c, r) /\ x \in call[c].seen]_vars

=============================================================================
