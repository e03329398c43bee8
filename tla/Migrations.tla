----------------------------- MODULE Migrations -----------------------------
(***************************************************************************)
(* apply_migrations of store.py on one database file, by several processes *)
(* and again after each stop.  executescript runs in autocommit: every     *)
(* statement of a script is committed by itself, and the row that records  *)
(* the script in schema_migrations is a transaction of its own after it.   *)
(*                                                                         *)
(* A statement is what it makes, a table, a column or an index, and fails  *)
(* if that is there already; columns and indexes need their table.  A      *)
(* script is the number its name begins with.                              *)
(***************************************************************************)
EXTENDS Naturals, Sequences

CONSTANT Processes

VARIABLES
  objects,      \* tables, columns and indexes of the file
  versions,     \* rows of schema_migrations
  at,           \* at[p]: the scripts p has still to run, and its next statement
  interrupted   \* history: whether a process was stopped, between scripts or inside one

migrationVars == <<objects, versions, at, interrupted>>

NoTable == "NONE"

On(table, names) == [i \in 1..Len(names) |-> <<table, names[i]>>]

Tables(names) == On(NoTable, names)

Initial ==
  Tables(<<"schema_migrations", "runs", "source_manifests", "source_runs", "source_checkpoints",
           "mapping_profiles", "mapping_acceptances", "policy_acceptances", "lineage_edges",
           "canonical_artifacts", "conversation_evidence_metadata", "cited_excerpts",
           "data_health_receipts", "events", "analyst_receipts", "solver_receipts",
           "manager_dispositions", "exports", "retention_items">>)

Imports ==
  Tables(<<"authorization_attestations", "source_authority_bindings", "operational_staging">>)
    \o On("lineage_edges", <<"page_receipt_id", "source_pointer", "mapping_profile_id",
                             "mapping_rule_id", "quarantine_reason">>)
    \o On("conversation_evidence_metadata", <<"source_family", "cited_excerpt_ids_json">>)
    \o On("cited_excerpts", <<"excerpt_utf8">>)

Domain ==
  On("events", <<"prior_state", "new_state", "event_sha256", "source_run_id">>)
    \o On("source_runs", <<"source_mode", "overlap_seconds">>)
    \o Tables(<<"source_checkpoint_records">>)
    \o On("source_checkpoints", <<"source_checkpoint_page_once">>)
    \o Tables(<<"domain_receipts">>)

ConnectorsOfAnOldName ==   \* mutant: a column is added to a table that is not there
  Tables(<<"deletion_receipts">>) \o On("tombstones", <<"source_record_id">>)

Connectors == Tables(<<"deletion_receipts", "source_tombstones">>)

Script == <<Initial, Imports, Domain, Connectors>>

Files == 1..4

Makes(f) == {Script[f][i] : i \in 1..Len(Script[f])}

TableOfVersions == <<NoTable, "schema_migrations">>

Settled == [todo |-> {}, next |-> 0]

MigrationsInit ==
  /\ objects = {} /\ versions = {} /\ interrupted = "NO"
  /\ at = [p \in Processes |-> Settled]

-----------------------------------------------------------------------------
\* the files not applied; all of them without the table of versions
Pending == IF TableOfVersions \in objects THEN Files \ versions ELSE Files

Begin(p) ==
  /\ at[p].todo = {}
  /\ Pending # {}
  /\ at' = [at EXCEPT ![p] = [todo |-> Pending, next |-> 1]]
  /\ UNCHANGED <<objects, versions, interrupted>>

\* the files are run in the order of their names
Applying(p, f) == f \in at[p].todo /\ \A g \in at[p].todo : f <= g

Within(p, f) == Applying(p, f) /\ at[p].next <= Len(Script[f])

\* executescript can execute the statement it has come to
Possible(statement) ==
  /\ statement \notin objects
  /\ statement[1] = NoTable \/ <<NoTable, statement[1]>> \in objects

Execute(p, f) ==
  /\ Within(p, f)
  /\ Possible(Script[f][at[p].next])
  /\ objects' = objects \cup {Script[f][at[p].next]}
  /\ at' = [at EXCEPT ![p].next = @ + 1]
  /\ UNCHANGED <<versions, interrupted>>

Fails(p, f) ==
  /\ Within(p, f)
  /\ ~Possible(Script[f][at[p].next])
  /\ at' = [at EXCEPT ![p] = Settled]
  /\ UNCHANGED <<objects, versions, interrupted>>

After(todo) == IF todo = {} THEN Settled ELSE [todo |-> todo, next |-> 1]

RecordBeforeScript(p, f) ==   \* mutant: the row is written first
  /\ Applying(p, f) /\ TableOfVersions \in objects
  /\ versions' = versions \cup {f}
  /\ at' = [at EXCEPT ![p] = After(@.todo \ {f})]
  /\ UNCHANGED <<objects, interrupted>>

Record(p, f) ==
  /\ Applying(p, f) /\ ~Within(p, f)
  /\ versions' = versions \cup {f}
  /\ at' = [at EXCEPT ![p] = After(@.todo \ {f})]
  /\ UNCHANGED <<objects, interrupted>>

\* The process ends, or finds the file locked by another for longer than its
\* busy timeout and raises.
Stop(p) ==
  /\ at[p].todo # {}
  /\ at' = [at EXCEPT ![p] = Settled]
  /\ interrupted' = IF at[p].next > 1 \/ interrupted = "INSIDE" THEN "INSIDE" ELSE "BETWEEN"
  /\ UNCHANGED <<objects, versions>>

Advance(p) == \E f \in Files : Execute(p, f) \/ Fails(p, f) \/ Record(p, f)

MigrationsNext == \E p \in Processes : Begin(p) \/ Advance(p) \/ Stop(p)

\* a process that applies migrations goes on unless it is stopped
MigrationsSpec ==
  /\ MigrationsInit /\ [][MigrationsNext]_migrationVars
  /\ \A p \in Processes : WF_migrationVars(Advance(p))

-----------------------------------------------------------------------------
MigrationsTypeOK ==
  /\ objects \subseteq UNION {Makes(f) : f \in Files}
  /\ versions \subseteq Files
  /\ at \in [Processes -> [todo : SUBSET Files, next : Nat]]
  /\ interrupted \in {"NO", "BETWEEN", "INSIDE"}

\* A script that is recorded as applied is there as a whole, and so are those
\* before it, whoever applied them and wherever others were stopped.
RecordedIsWhole ==
  /\ MigrationsTypeOK
  /\ \A f \in versions : \A g \in 1..f : g \in versions /\ Makes(g) \subseteq objects

\* Two processes never work in one script: whoever makes its first object has
\* it, the other raises.  A script half applied is being applied or was stopped.
Inside(f) == {p \in Processes : Applying(p, f) /\ at[p].next > 1}

OneProcessPerScript ==
  \A f \in Files :
    /\ \A p, q \in Inside(f) : p = q
    /\ Makes(f) \cap objects # {} =>
         f \in versions \/ interrupted = "INSIDE" \/ Inside(f) # {}

\* What the schema table says of a script and what the script has made agree,
\* however many processes open the database at once.
ScriptsAreWhole == RecordedIsWhole /\ OneProcessPerScript

\* A process that begins leads to a database with every script applied, by it
\* or by the one that was faster, unless one was stopped on the way.
MigrationsComplete ==
  (\E p \in Processes : at[p].todo # {})
    ~> (interrupted # "NO" \/ Files \subseteq versions)

=============================================================================
